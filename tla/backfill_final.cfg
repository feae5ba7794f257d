\* Reorgs no deeper than the confirmation depth.
CONSTANTS
  MaxBlock = 6
  NoHash = NoHash
  Hashes <- DeepHashes
  Keys <- MCKeys
  Chains <- DeepChains
  ReorgDepth = 2
  MaxReorgs = 3
  Contracts <- MCContracts
  NoContract = NoContract
  ContractAddress = NoContract
  Logs <- DeepLogs
  BLOCK_BATCH_SIZE = 2
  MAX_CONCURRENT_BLOCK_FETCHES = 2
  BLOCK_PARTITION_SIZE = 2
  StartBlock = 1
  ConfirmationDepth = 2
  ReorgLookback = 2
SPECIFICATION BackfillSpec
INVARIANTS
  ColdCanonical
  RowsHavePartitions
PROPERTY FinalizedIsFinal

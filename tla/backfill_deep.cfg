\* Reorgs deeper than the confirmation depth and than the lookback window; the worker is fair.
CONSTANTS
  MaxBlock = 5
  NoHash = NoHash
  Hashes <- DeepHashes
  Keys <- MCKeys
  Chains <- DeepChains
  ReorgDepth = 5
  MaxReorgs = 2
  Contracts <- MCContracts
  NoContract = NoContract
  ContractAddress = "token"
  Logs <- DeepLogs
  BLOCK_BATCH_SIZE = 2
  MAX_CONCURRENT_BLOCK_FETCHES = 2
  BLOCK_PARTITION_SIZE = 2
  StartBlock = 1
  ConfirmationDepth = 1
  ReorgLookback = 3
SPECIFICATION BackfillFairSpec
INVARIANTS
  BackfillTypeOK
  ColdContiguous
  ColdRowsBelongToBlocks
  RollbackJustified
PROPERTIES
  ImplementsPrefix
  BackfillConverges

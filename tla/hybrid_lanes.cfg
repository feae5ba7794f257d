\* Reorgs no deeper than the confirmation depth.
CONSTANTS
  MaxBlock = 4
  NoHash = NoHash
  Hashes <- MCHashes
  Keys <- MCKeys
  Chains <- MCTree
  ReorgDepth = 1
  MaxReorgs = 0
  Contracts <- MCContracts
  NoContract = NoContract
  ContractAddress = "token"
  Logs <- MCLogs
  BLOCK_BATCH_SIZE = 2
  MAX_CONCURRENT_BLOCK_FETCHES = 2
  BLOCK_PARTITION_SIZE = 2
  StartBlock = 1
  ConfirmationDepth = 1
  ReorgLookback = 1
  LiveStartDepth = 2
SPECIFICATION IndexerTxSpec
INVARIANT OneLanePerBlock

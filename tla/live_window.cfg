\* Reorgs shallower than the hot window; all of the hot window is revalidated; the worker is fair.
CONSTANTS
  MaxBlock = 5
  NoHash = NoHash
  Hashes <- DeepHashes
  Keys <- MCKeys
  Chains <- DeepChains
  ReorgDepth = 2
  MaxReorgs = 2
  Contracts <- MCContracts
  NoContract = NoContract
  ContractAddress = "token"
  Logs <- DeepLogs
  BLOCK_BATCH_SIZE = 2
  MAX_CONCURRENT_BLOCK_FETCHES = 2
  BLOCK_PARTITION_SIZE = 2
  StartBlock = 1
  ReorgLookback = 3
  LiveStartDepth = 3
SPECIFICATION LiveFairSpec
INVARIANTS
  LiveTypeOK
  HotContiguous
  HotRowsBelongToBlocks
  HotRollbackJustified
PROPERTIES
  LiveConverges
  ImplementsWindow

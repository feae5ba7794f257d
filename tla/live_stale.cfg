\* As live_window, but the hot window is longer than the revalidated one.
CONSTANTS
  MaxBlock = 5
  NoHash = NoHash
  Hashes <- DeepHashes
  Keys <- MCKeys
  Chains <- DeepChains
  ReorgDepth = 2
  MaxReorgs = 1
  Contracts <- MCContracts
  NoContract = NoContract
  ContractAddress = "token"
  Logs <- DeepLogs
  BLOCK_BATCH_SIZE = 1
  MAX_CONCURRENT_BLOCK_FETCHES = 1
  BLOCK_PARTITION_SIZE = 2
  StartBlock = 1
  ReorgLookback = 2
  LiveStartDepth = 4
SPECIFICATION LiveFairSpec
PROPERTY LiveConverges

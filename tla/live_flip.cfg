\* The chain reorganizes to a branch and back; all of the hot window is revalidated.
CONSTANTS
  MaxBlock = 5
  NoHash = NoHash
  Hashes <- FlipHashes
  Keys <- MCKeys
  Chains <- FlipChains
  ReorgDepth = 2
  MaxReorgs = 2
  Contracts <- MCContracts
  NoContract = NoContract
  ContractAddress = "token"
  Logs <- FlipLogs
  BLOCK_BATCH_SIZE = 2
  MAX_CONCURRENT_BLOCK_FETCHES = 2
  BLOCK_PARTITION_SIZE = 2
  StartBlock = 1
  ReorgLookback = 5
  LiveStartDepth = 5
SPECIFICATION LiveFairSpec
PROPERTY LiveRowsConverge

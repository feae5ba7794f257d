\* The chain is indexed from its first block, and never reorganizes.
CONSTANTS
  MaxBlock = 4
  NoHash = NoHash
  Hashes <- DeepHashes
  Keys <- MCKeys
  Chains <- DeepChains
  ReorgDepth = 5
  MaxReorgs = 0
  Contracts <- MCContracts
  NoContract = NoContract
  ContractAddress = "token"
  Logs <- DeepLogs
  BLOCK_BATCH_SIZE = 2
  MAX_CONCURRENT_BLOCK_FETCHES = 2
  BLOCK_PARTITION_SIZE = 2
  StartBlock = 0
  ConfirmationDepth = 1
  ReorgLookback = 3
SPECIFICATION BackfillFairSpec
PROPERTY BackfillBegins

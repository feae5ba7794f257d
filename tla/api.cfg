\* Reorgs no deeper than the confirmation depth; the API answers while the workers commit.
CONSTANTS
  MaxBlock = 3
  NoHash = NoHash
  Hashes <- OneForkHashes
  Keys <- MCKeys
  Chains <- ApiChains
  ReorgDepth = 1
  MaxReorgs = 1
  Contracts <- MCContracts
  NoContract = NoContract
  ContractAddress = "token"
  Logs <- OneForkLogs
  BLOCK_BATCH_SIZE = 1
  MAX_CONCURRENT_BLOCK_FETCHES = 1
  BLOCK_PARTITION_SIZE = 2
  StartBlock = 1
  ConfirmationDepth = 1
  ReorgLookback = 2
  LiveStartDepth = 2
  DEFAULT_LIMIT = 1
  MAX_LIMIT = 2
  Absent = Absent
  LogIndex <- MCLogIndex
  Requests <- MCRequests
SPECIFICATION ApiSpec
INVARIANTS
  ApiTypeOK
  StatusAddsUp
  PagesMissNothing

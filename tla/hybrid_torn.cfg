\* Reorgs of any depth; transactions statement by statement.
CONSTANTS
  MaxBlock = 3
  NoHash = NoHash
  Hashes <- OneForkHashes
  Keys <- MCKeys
  Chains <- OneForkTree
  ReorgDepth = 3
  MaxReorgs = 1
  Contracts <- MCContracts
  NoContract = NoContract
  ContractAddress = "token"
  Logs <- OneForkLogs
  BLOCK_BATCH_SIZE = 1
  MAX_CONCURRENT_BLOCK_FETCHES = 1
  BLOCK_PARTITION_SIZE = 2
  StartBlock = 1
  ConfirmationDepth = 1
  ReorgLookback = 2
  LiveStartDepth = 2
SPECIFICATION IndexerTxSpec
INVARIANT NoRowOfReplacedBlock

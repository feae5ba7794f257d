\* Reorgs no deeper than the confirmation depth; transactions statement by statement.
CONSTANTS
  MaxBlock = 4
  NoHash = NoHash
  Hashes <- MCHashes
  Keys <- MCKeys
  Chains <- MCTree
  ReorgDepth = 1
  MaxReorgs = 1
  Contracts <- MCContracts
  NoContract = NoContract
  ContractAddress = "token"
  Logs <- MCLogs
  BLOCK_BATCH_SIZE = 2
  MAX_CONCURRENT_BLOCK_FETCHES = 2
  BLOCK_PARTITION_SIZE = 2
  StartBlock = 1
  ConfirmationDepth = 1
  ReorgLookback = 2
  LiveStartDepth = 2
SPECIFICATION IndexerTxSpec
INVARIANTS
  IndexerTxTypeOK
  NoGapBetweenLanes
  NoRowOfReplacedBlock
  HotBelowLiveCheckpoint
PROPERTIES
  PromotionLosesNothing
  ImplementsServed

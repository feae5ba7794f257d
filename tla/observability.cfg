\* Blocks that are replaced after they are indexed, failing requests, and a clock that is
\* set back.
CONSTANTS
  MaxBlock = 3
  NoHash = NoHash
  Hashes <- ObservedHashes
  Keys <- MCKeys
  Chains <- ObservedChains
  ReorgDepth = 3
  MaxReorgs = 1
  Contracts <- MCContracts
  NoContract = NoContract
  ContractAddress = NoContract
  Logs <- ObservedLogs
  BLOCK_BATCH_SIZE = 2
  MAX_CONCURRENT_BLOCK_FETCHES = 2
  BLOCK_PARTITION_SIZE = 2
  StartBlock = 1
  ConfirmationDepth = 1
  ReorgLookback = 2
  max_retries = 1
  MaxFailures = 2
  window_secs = 2
  MaxClock = 4
SPECIFICATION ObservabilitySpec
INVARIANTS
  ObservabilityTypeOK
  GaugeExplained
  SuccessesAddUp
  WindowExact
  CallsGetTheirRetries
PROPERTIES
  GaugeCatchesUp

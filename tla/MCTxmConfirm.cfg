SPECIFICATION Spec
CHECK_DEADLOCK FALSE
CONSTANTS
  NumCalls = 2
  Ids = {"i1", "i2"}
  Payloads = {"p"}
  Accounts = {"a"}
  IdOf <- TwoIds
  PayloadOf <- OnePayload
  FromOf <- OneAccount
  Waiters = {}
  BroadcastChanSize = 2
  MaxSubmitRetryAttempts = 2
  MaxTxRetryAttempts = 2
  MaxGetClientRetryAttempts = 2
  MaxRestoreAttempts = 1
  LedgerBoundsOffset = 2
  TxTimeout = 2
  StatusUnknownMargin = 0
  PruneEnabled = FALSE
  MaxLag = 1
  MaxLedgers = 3
  Faults = {"leftover", "onchainFailure", "rpcError"}
INVARIANTS
  StoreConsistent
  NoSequenceGap
  RecycledSequenceDead
  OnePlace
PROPERTIES
  ImplementsDelivery

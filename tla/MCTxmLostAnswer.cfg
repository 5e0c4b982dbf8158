SPECIFICATION Spec
CHECK_DEADLOCK FALSE
CONSTANTS
  NumCalls = 1
  Ids = {"i1", "i2"}
  Payloads = {"p"}
  Accounts = {"a"}
  IdOf <- TwoIds
  PayloadOf <- OnePayload
  FromOf <- OneAccount
  Waiters = {}
  BroadcastChanSize = 2
  MaxSubmitRetryAttempts = 3
  MaxTxRetryAttempts = 2
  MaxGetClientRetryAttempts = 2
  MaxRestoreAttempts = 1
  LedgerBoundsOffset = 2
  TxTimeout = 2
  StatusUnknownMargin = 1
  PruneEnabled = FALSE
  MaxLag = 0
  MaxLedgers = 4
  Faults = {"lossy"}
INVARIANTS
  EffectAtMostOnce

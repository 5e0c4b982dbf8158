SPECIFICATION FairSpec
CHECK_DEADLOCK FALSE
CONSTANTS
  NumCalls = 1
  Ids = {"i1", "i2"}
  Payloads = {"p"}
  Accounts = {"a"}
  IdOf <- TwoIds
  PayloadOf <- OnePayload
  FromOf <- OneAccount
  Waiters = {1}
  BroadcastChanSize = 2
  MaxSubmitRetryAttempts = 2
  MaxTxRetryAttempts = 1
  MaxGetClientRetryAttempts = 2
  MaxRestoreAttempts = 1
  LedgerBoundsOffset = 2
  TxTimeout = 1
  StatusUnknownMargin = 1
  PruneEnabled = FALSE
  MaxLag = 0
  MaxLedgers = 20
  Faults = {"rpcError", "reject", "leftover", "lossy", "client", "restore", "stop"}
PROPERTIES
  AcceptedResolves
  StopHalts

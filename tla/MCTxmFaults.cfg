SPECIFICATION Spec
CHECK_DEADLOCK FALSE
CONSTANTS
  NumCalls = 3
  Ids = {"i1", "i2"}
  Payloads = {"p"}
  Accounts = {"a"}
  IdOf <- SharedId
  PayloadOf <- OnePayload
  FromOf <- OneAccount
  Waiters = {3}
  BroadcastChanSize = 1
  MaxSubmitRetryAttempts = 2
  MaxTxRetryAttempts = 2
  MaxGetClientRetryAttempts = 2
  MaxRestoreAttempts = 1
  LedgerBoundsOffset = 2
  TxTimeout = 1
  StatusUnknownMargin = 0
  PruneEnabled = TRUE
  MaxLag = 0
  MaxLedgers = 2
  Faults = {"sequence", "restore", "fatal", "rpcError", "onchainFailure",
            "zeroLedger"}
INVARIANTS
  NoOrphan
  WaitersServed
  OneInFlightPerId
  SnapshotTracked
  AllocatedSequenceUsable
  TruthfulStatus

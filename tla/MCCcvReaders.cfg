SPECIFICATION Spec
CHECK_DEADLOCK FALSE
CONSTANTS
  PageLimit = 2
  MinLedger = 1
  MaxLedger = 4
  MaxEvents = 3
  Lookback = 2
  RetryQueueLimit = 1
  MaxEventProcessRetries = 2
  MaxRestarts = 1
INVARIANTS
  CursorCovers
  CachedAtMostTwice
  GivenUpAfterRetries
  FetchedRange
PROPERTIES
  EventsResolve

SPECIFICATION Spec
CHECK_DEADLOCK FALSE
CONSTANTS
  NumSigners = 3
  NumGroups = 3
  MaxRootValidity = 3
  VersionMax = 3
  Instances = {"prop", "byp"}
  Proposals <- MCProposals
  Batches = {"A", "B", "C", "D"}
  CallsOf <- MCCallsOf
  PredOf <- MCPredOf
  NoPred = "zero"
  Accounts = {"timelock", "prop", "byp", "eoa"}
  Self = "timelock"
  Selectors <- MCSelectors
  TimeMax = 5
  FirstConfig <- MCFirstConfig
  FirstDelay = 1
  FirstHolders <- MCFirstHolders
  Calls <- MCCalls
  MaxTime = 4
INVARIANTS
  NoncesUsedOnce
  NoRootTwice
  ConfigUsable
PROPERTIES
  BackedByQuorum
  ImplementsDelay

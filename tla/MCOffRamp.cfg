SPECIFICATION Spec
CONSTANTS
  a = a
  b = b
  src = src
  ramp = ramp
  rogue = rogue
  Messages <- MCMessages
  Chains = {src}
  OnRamps = {ramp, rogue}
  Ccvs = {a, b}
  LaneConfigs <- MCLaneConfigs
  PoolAnswers <- MCPoolAnswers
  ReceiverAnswers <- MCReceiverAnswers
INVARIANTS
  NothingStuck
  ViewMatchesExecute
PROPERTIES
  NeverUnverified
  PoliciesHeld
  ImplementsExecution

SPECIFICATION Spec
CHECK_DEADLOCK FALSE
CONSTANTS
  Components <- MCComponents
  Parts <- MCParts
  Stack = {"vvr"}
  SubmitMaxAttempts = 3
  MaxRuns = 1
INVARIANTS
  EffectOncePerCall

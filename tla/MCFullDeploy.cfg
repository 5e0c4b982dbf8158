SPECIFICATION Spec
CHECK_DEADLOCK FALSE
CONSTANTS
  Components <- MCComponents
  Parts <- MCParts
  Stack = {"fee-quoter", "vvr"}
  SubmitMaxAttempts = 3
  MaxRuns = 3
INVARIANTS
  RecordedIsOurs
  InitializedIsConfigured
  RetriesUnexecuted
PROPERTIES
  SettingsKept

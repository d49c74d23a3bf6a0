\* A resumed run pauses again, and its second pause is resumed.
SPECIFICATION Spec
CONSTANTS
  Contexts <- MCContexts
  FirstPauses <- MCFirst
  TimeContexts <- MCNone
  PausesAt <- MCPausesAt
  MaxEntries = 2
  MaxRetries = 0
  MaxCrashes = 0
PROPERTY
  RefusedOnlyAfterEnd
CHECK_DEADLOCK FALSE

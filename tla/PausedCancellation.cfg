\* One request to cancel, two resumes, one process that dies.
SPECIFICATION CancelFairSpec
CONSTANTS
  Contexts <- MCHuman
  FirstPauses <- MCHuman
  TimeContexts <- MCNone
  PausesAt <- MCPausesAt
  MaxEntries = 2
  MaxRetries = 0
  MaxCrashes = 1
  Cancellers = {c1}
INVARIANTS
  CancelTypeOK
  CancelledIsLogged
  QueueIsRestored
  ReopenedAtMost
PROPERTIES
  CancelledIsFinal
  NoClaimWhileCancelling
  ClaimIsReleased
\* The run ends, or waits for a person.
CHECK_DEADLOCK FALSE

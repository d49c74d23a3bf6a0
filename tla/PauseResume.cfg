\* Two human pauses and a time pause, three resumes, one retry and one process that dies.
SPECIFICATION Spec
CONSTANTS
  Contexts <- MCContexts
  FirstPauses <- MCFirst
  TimeContexts <- MCTime
  PausesAt <- MCPausesAt
  MaxEntries = 3
  MaxRetries = 1
  MaxCrashes = 1
INVARIANTS
  IInv
  OneActiveResume
  ResumeSeesEarlier
  PointsAreCarried
  ContinuationRunsOnce
  RunningIsLogged
\* The run ends, or waits for a person.
CHECK_DEADLOCK FALSE

\* Two people resume two human pauses; the second resume is queued behind the first.
SPECIFICATION FairSpec
CONSTANTS
  Contexts <- MCHuman
  FirstPauses <- MCHuman
  TimeContexts <- MCNone
  PausesAt <- MCNeverAgain
  MaxEntries = 2
  MaxRetries = 1
  MaxCrashes = 0
PROPERTY
  QueuedResumeRuns
CHECK_DEADLOCK FALSE

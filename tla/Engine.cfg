\* Joins, a condition, errors, a pause, Responses and a partial run; cancelled at any moment.
SPECIFICATION FairSpec
CONSTANTS
  Nodes <- RunNodes
  Edges <- RunEdges
  SilentEdges <- NoSilentEdges
  Options <- AllOptions
  Sentinels <- NoSentinels
  SubflowOf <- AtTopLevel
  Trigger = "t"
  Decisions <- JoinDecisions
  OptionsOf <- RunOptions
  Pauses <- RunPauses
  Responses <- RunResponses
  Fallible <- RunFallible
  StopAfter = "y"
  MayCancel = TRUE
  NoSubflow = NoSubflow
  NoRoute = NoRoute
  None = None
INVARIANTS
  IInv
  LeftBehindOnlyByCascade
  OutcomeIsHonest
  PauseHoldsConsumers
PROPERTIES
  KeepsPromise
  RunEndsWithItsCalls
  CancelledRunReturns
  ResponseIsFinal

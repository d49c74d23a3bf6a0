\* A join whose last feeder was cut off by a cascade is never queued.
SPECIFICATION Spec
CONSTANTS
  Nodes <- JoinNodes
  Edges <- JoinEdges
  SilentEdges <- NoSilentEdges
  Options <- AllOptions
  Sentinels <- NoSentinels
  SubflowOf <- AtTopLevel
  Trigger = "t"
  Decisions <- JoinDecisions
  OptionsOf <- JoinOptions
  Pauses <- NoNodes
  Responses <- NoNodes
  Fallible <- JoinFallible
  StopAfter = None
  MayCancel = FALSE
  NoSubflow = NoSubflow
  NoRoute = NoRoute
  None = None
INVARIANT
  NothingLeftBehind

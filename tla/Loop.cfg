\* A loop of two rounds with a while loop, a branch, errors and a Response inside; cancelled at any moment.
SPECIFICATION LoopFairSpec
CONSTANTS
  Nodes <- BodyNodes
  Edges <- BodyEdges
  SilentEdges <- BodySilent
  Options <- BodyOptions
  Sentinels <- BodySentinels
  SubflowOf <- BodySubflows
  Trigger = "t"
  Decisions <- BodyDecisions
  OptionsOf <- BodyOptionsOf
  Pauses <- NoNodes
  Responses <- BodyResponses
  Fallible <- BodyFallible
  StopAfter = None
  MayCancel = TRUE
  Loops <- BodyLoops
  StartOf <- BodyStarts
  EndOf <- BodyEnds
  ParentOf <- BodyParents
  LoopType <- BodyTypes
  CountOf <- BodyCounts
  Unevaluable = {"L1"}
  MaxIterations = 2
  NoSubflow = NoSubflow
  NoRoute = NoRoute
  None = None
INVARIANTS
  LoopInv
  ResultsAreComplete
  NoLoopIsAbandoned
PROPERTIES
  KeepsLoopPromise
  RunEnds

\* A dead end in a loop, and a join behind the loop.
SPECIFICATION LoopSpec
CONSTANTS
  Nodes <- JoinNodes
  Edges <- JoinEdges
  SilentEdges <- JoinSilent
  Options <- JoinOptions
  Sentinels <- BranchSentinels
  SubflowOf <- JoinSubflows
  Trigger = "t"
  Decisions <- JoinDecisions
  OptionsOf <- JoinOptionsOf
  Pauses <- NoNodes
  Responses <- NoNodes
  Fallible <- NoNodes
  StopAfter = None
  MayCancel = FALSE
  Loops <- BranchLoops
  StartOf <- BranchStarts
  EndOf <- BranchEnds
  ParentOf <- BranchParents
  LoopType <- BranchTypes
  CountOf <- BranchCounts
  Unevaluable <- NoNodes
  MaxIterations = 2
  NoSubflow = NoSubflow
  NoRoute = NoRoute
  None = None
INVARIANT
  WaitsForFeeders

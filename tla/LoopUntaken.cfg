\* A condition that matches nothing, in front of a loop.
SPECIFICATION LoopSpec
CONSTANTS
  Nodes <- BranchNodes
  Edges <- BranchEdges
  SilentEdges <- BranchSilent
  Options <- BranchOptions
  Sentinels <- BranchSentinels
  SubflowOf <- BranchSubflows
  Trigger = "t"
  Decisions <- BranchDecisions
  OptionsOf <- BranchOptionsOf
  Pauses <- NoNodes
  Responses <- NoNodes
  Fallible <- NoNodes
  StopAfter = None
  MayCancel = FALSE
  Loops <- BranchLoops
  StartOf <- BranchStarts
  EndOf <- BranchEnds
  ParentOf <- BranchParents
  LoopType <- BranchTypes
  CountOf <- BranchCounts
  Unevaluable <- NoNodes
  MaxIterations = 2
  NoSubflow = NoSubflow
  NoRoute = NoRoute
  None = None
INVARIANT
  OnlyEnteredLoopsRun

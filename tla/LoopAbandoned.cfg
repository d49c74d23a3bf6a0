\* A join in a loop that a cascade strands: not one of the runs, see README.md, section 5.
SPECIFICATION LoopSpec
CONSTANTS
  Nodes <- MeetNodes
  Edges <- MeetEdges
  SilentEdges <- BranchSilent
  Options <- MeetOptions
  Sentinels <- BranchSentinels
  SubflowOf <- MeetSubflows
  Trigger = "t"
  Decisions <- JoinDecisions
  OptionsOf <- MeetOptionsOf
  Pauses <- NoNodes
  Responses <- NoNodes
  Fallible <- NoNodes
  StopAfter = None
  MayCancel = FALSE
  Loops <- BranchLoops
  StartOf <- BranchStarts
  EndOf <- BranchEnds
  ParentOf <- BranchParents
  LoopType <- BranchTypes
  CountOf <- BranchCounts
  Unevaluable <- NoNodes
  MaxIterations = 2
  NoSubflow = NoSubflow
  NoRoute = NoRoute
  None = None
INVARIANT
  NoLoopIsAbandoned

---------------------------- MODULE MCLoopEngine ----------------------------
(***************************************************************************)
(* The DAGs with loops on which TLC checks LoopEngine, wired as the edge     *)
(* constructor wires them (apps/sim/executor/dag/construction/edges.ts).    *)
(***************************************************************************)
EXTENDS LoopEngine

Edge(a, b, h) == [src |-> a, dst |-> b, handle |-> h]
NoNodes == {}

(* A loop S1 .. E1 of two rounds, with a condition of which one branch is a    *)
(* while loop S2 .. E2, one a block that an error port leads to as well, one  *)
(* a Response, and one is not wired:                                        *)
(*   t -> S1,  S1 -> c, a,  c -if-> S2 -> d -> E2 -> E1,  c -else-> b -> E1,  *)
(*   a -error-> b,  c -ask-> r -> E1,  E1 -> z                              *)
BodyNodes   == {"t", "S1", "c", "a", "S2", "d", "E2", "b", "r", "E1", "z"}
BodySilent  == {Edge("S1", "E1", "loop_exit"), Edge("E1", "S1", "loop_continue"),
                Edge("S2", "E2", "loop_exit"), Edge("E2", "S2", "loop_continue")}
BodyEdges   == {Edge("t", "S1", "source"), Edge("S1", "c", "always"), Edge("S1", "a", "always"),
                Edge("c", "S2", "if"), Edge("S2", "d", "always"), Edge("d", "E2", "always"),
                Edge("E2", "E1", "loop_exit"), Edge("c", "b", "else"), Edge("a", "b", "error"),
                Edge("b", "E1", "always"), Edge("c", "r", "ask"), Edge("r", "E1", "always"),
                Edge("E1", "z", "loop_exit"),
                Edge("S1", "E1", "loop_exit"), Edge("E1", "S1", "loop_continue"),
                Edge("S2", "E2", "loop_exit"), Edge("E2", "S2", "loop_continue")}
BodyOptions    == {"if", "else", "ask", "unwired"}
BodySentinels  == {"S1", "E1", "S2", "E2"}
BodyLoops      == {"L1", "L2"}
BodySubflows   == [n \in BodyNodes |-> IF n \in {"S2", "d", "E2"} THEN "L2"
                                       ELSE IF n \in {"t", "z"} THEN NoSubflow ELSE "L1"]
BodyDecisions  == {"c"}
BodyOptionsOf  == [c \in BodyDecisions |-> BodyOptions]
BodyResponses  == {"r"}
BodyFallible   == {"a", "d", "S1", "E2"}
BodyStarts     == [l \in BodyLoops |-> IF l = "L1" THEN "S1" ELSE "S2"]
BodyEnds       == [l \in BodyLoops |-> IF l = "L1" THEN "E1" ELSE "E2"]
BodyParents    == [l \in BodyLoops |-> IF l = "L1" THEN NoSubflow ELSE "L1"]
BodyTypes      == [l \in BodyLoops |-> IF l = "L1" THEN "for" ELSE "while"]
BodyCounts     == [l \in BodyLoops |-> IF l = "L1" THEN 2 ELSE None]

(* A condition without an else in front of a loop:  t -if-> S -> x -> E -> z   *)
BranchNodes     == {"t", "S", "x", "E", "z"}
BranchSilent    == {Edge("S", "E", "loop_exit"), Edge("E", "S", "loop_continue")}
BranchEdges     == {Edge("t", "S", "if"), Edge("S", "x", "always"), Edge("x", "E", "always"),
                    Edge("E", "z", "loop_exit"),
                    Edge("S", "E", "loop_exit"), Edge("E", "S", "loop_continue")}
BranchOptions   == {"if"}
BranchSentinels == {"S", "E"}
BranchLoops     == {"L"}
BranchSubflows  == [n \in BranchNodes |-> IF n \in {"t", "z"} THEN NoSubflow ELSE "L"]
BranchDecisions == {"t"}
BranchOptionsOf == [c \in BranchDecisions |-> {"if", NoRoute}]
BranchStarts    == [l \in BranchLoops |-> "S"]
BranchEnds      == [l \in BranchLoops |-> "E"]
BranchParents   == [l \in BranchLoops |-> NoSubflow]
BranchTypes     == [l \in BranchLoops |-> "for"]
BranchCounts    == [l \in BranchLoops |-> 2]

(* A join behind a loop of two rounds, of whose condition one branch is not     *)
(* wired:  t -> S -> c -if-> x -> E -> z -> p, q -> j                        *)
JoinNodes     == {"t", "S", "c", "x", "E", "z", "p", "q", "j"}
JoinSilent    == {Edge("S", "E", "loop_exit"), Edge("E", "S", "loop_continue")}
JoinEdges     == {Edge("t", "S", "source"), Edge("S", "c", "always"), Edge("c", "x", "if"),
                  Edge("x", "E", "always"), Edge("E", "z", "loop_exit"), Edge("z", "p", "always"),
                  Edge("z", "q", "always"), Edge("p", "j", "always"), Edge("q", "j", "always"),
                  Edge("S", "E", "loop_exit"), Edge("E", "S", "loop_continue")}
JoinOptions   == {"if", "unwired"}
JoinSubflows  == [n \in JoinNodes |-> IF n \in {"S", "c", "x", "E"} THEN "L" ELSE NoSubflow]
JoinDecisions == {"c"}
JoinOptionsOf == [c \in JoinDecisions |-> JoinOptions]

(* A join x in a loop, one feeder of which lies two blocks down a branch:        *)
(*   t -> S,  S -> c, a,  c -if-> p -> q -> x,  a -> x -> E,  c -else-> y -> E,  E -> z *)
MeetNodes     == {"t", "S", "c", "a", "p", "q", "x", "y", "E", "z"}
MeetEdges     == BranchSilent \cup
                   {Edge("t", "S", "source"), Edge("S", "c", "always"), Edge("S", "a", "always"),
                    Edge("c", "p", "if"), Edge("p", "q", "always"), Edge("q", "x", "always"),
                    Edge("a", "x", "always"), Edge("x", "E", "always"), Edge("c", "y", "else"),
                    Edge("y", "E", "always"), Edge("E", "z", "loop_exit")}
MeetOptions   == {"if", "else"}
MeetSubflows  == [n \in MeetNodes |-> IF n \in {"t", "z"} THEN NoSubflow ELSE "L"]
MeetOptionsOf == [c \in JoinDecisions |-> MeetOptions]

(* Loops as the edge constructor wires them. *)
ASSUME WiringAssumption == LoopsWired

(* The body above with every branch of c wired and both ports of a, and a      *)
(* condition without an else in front of it: one of the DAGs that the          *)
(* theorems about loops are about.  With the ports of a leading to E1 instead   *)
(* of b, no branches of its loop meet before the end.                         *)
Before     == (BodyEdges \ {Edge("t", "S1", "source"), Edge("a", "b", "error")})
                \cup {Edge("t", "S1", "if")}
WiredEdges == Before \cup {Edge("a", "b", "error"), Edge("a", "b", "source")}
TreeEdges  == Before \cup {Edge("a", "E1", "error"), Edge("a", "E1", "source")}

Wired(edges) == INSTANCE LoopEngine WITH
  Nodes <- BodyNodes, Edges <- edges, SilentEdges <- BodySilent,
  Options <- BodyOptions, Sentinels <- BodySentinels, SubflowOf <- BodySubflows,
  Trigger <- "t", Decisions <- {"c", "t"},
  OptionsOf <- [n \in {"c", "t"} |-> IF n = "c" THEN {"if", "else", "ask"} ELSE {"if", "unwired"}],
  Pauses <- {}, Responses <- BodyResponses, Fallible <- BodyFallible,
  StopAfter <- None, MayCancel <- TRUE,
  Loops <- BodyLoops, StartOf <- BodyStarts, EndOf <- BodyEnds, ParentOf <- BodyParents,
  LoopType <- BodyTypes, CountOf <- BodyCounts, Unevaluable <- {"L1"}, MaxIterations <- 2

ASSUME TheoremsApply ==
  /\ \A edges \in {WiredEdges, TreeEdges} :
       Wired(edges)!LoopsWired /\ Wired(edges)!BranchesWired /\ Wired(edges)!ForwardAcyclic
  /\ Wired(TreeEdges)!OnlyEndsJoin /\ ~Wired(WiredEdges)!OnlyEndsJoin
=============================================================================

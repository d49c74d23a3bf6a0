-------------------------- MODULE MCWorkflowEngine --------------------------
(***************************************************************************)
(* The DAGs on which TLC checks WorkflowEngine.                            *)
(***************************************************************************)
EXTENDS WorkflowEngine

Edge(a, b, h) == [src |-> a, dst |-> b, handle |-> h]

NoSilentEdges == {}
NoSentinels   == {}
NoNodes       == {}
AllOptions    == {"if", "else", "ask", "unwired"}
AtTopLevel    == [n \in Nodes |-> NoSubflow]

(* A condition with two wired branches and one unwired, a block with an      *)
(* error port, and two joins.  Feeders of d are dropped directly; the feeder *)
(* b of n is cut off by a cascade; z follows d whichever feeder chose it.    *)
(*   t -> c,  c -if-> b -> n,  c -else-> d -> z,  t -> a -> n,  a -error-> d *)
JoinNodes == {"t", "c", "b", "a", "d", "n", "z"}
JoinEdges == {Edge("t", "c", "source"), Edge("t", "a", "source"),
              Edge("c", "b", "if"),     Edge("c", "d", "else"),
              Edge("b", "n", "source"), Edge("a", "n", "source"),
              Edge("a", "d", "error"),  Edge("d", "z", "source")}
JoinDecisions == {"c"}
JoinFallible  == {"a", "b"}
JoinOptions   == [c \in JoinDecisions |-> {"if", "else", "unwired", NoRoute}]

(* The same with a branch of the condition on which a pause, a block that    *)
(* may fail and the last block of a partial run go side by side, and two     *)
(* Responses that may race:  c -ask-> p -> z,  c -ask-> y                    *)
RunNodes     == {"t", "c", "b", "a", "d", "n", "z", "p", "y"}
RunEdges     == {Edge("t", "c", "source"), Edge("t", "a", "source"),
                 Edge("c", "b", "if"),     Edge("c", "d", "else"),
                 Edge("b", "n", "source"), Edge("a", "n", "source"),
                 Edge("a", "d", "error"),  Edge("d", "z", "source"),
                 Edge("c", "p", "ask"),    Edge("c", "y", "ask"),
                 Edge("p", "z", "source")}
RunOptions   == [c \in JoinDecisions |-> AllOptions \cup {NoRoute}]
RunPauses    == {"p"}
RunResponses == {"n", "z"}
RunFallible  == {"a", "y"}
=============================================================================

---------------------------- MODULE WorkflowDag ----------------------------
(***************************************************************************)
(* The executor's DAG (apps/sim/executor/dag) and the rule that says which *)
(* edges a block's output fires (edge-manager.ts, shouldActivateEdge).     *)
(*                                                                         *)
(* An edge is [src, dst, handle]; the record is also its key, as the code's *)
(* createEdgeKey is the triple of its fields.                              *)
(***************************************************************************)
EXTENDS Naturals, FiniteSets

CONSTANTS
  Nodes,        \* nodes of the DAG
  Trigger,      \* the node a run starts from
  Edges,        \* its edges, [src, dst, handle]
  SilentEdges,  \* edges added without an incomingEdges entry (registerIncoming: false)
  Options,      \* ids of condition branches and router routes; the handles condition-<id>, router-<id>
  Sentinels,    \* start and end nodes of the loops and parallels
  SubflowOf,    \* [Nodes -> the loop or parallel a node belongs to, or NoSubflow]
  NoSubflow,
  NoRoute,      \* an output that selects neither an option nor a route
  None

LoopRoutes     == {"loop_continue", "loop_exit"}
ParallelRoutes == {"parallel_continue", "parallel_exit"}
ControlHandles == LoopRoutes \cup ParallelRoutes
BackHandles    == {"loop_continue", "parallel_continue"}
ExitHandles    == {"loop_exit", "parallel_exit"}
PortHandles    == {"source", "error", "always"}   \* always: an edge without a handle
Handles        == PortHandles \cup Options \cup ControlHandles

ASSUME HandlesAssumption ==
  /\ Options \cap (PortHandles \cup ControlHandles) = {}
  /\ NoRoute \notin Handles

OutEdges(n) == {e \in Edges : e.src = n}
InEdges(n)  == {e \in Edges : e.dst = n}

(* How a block ended: with an output, with a request to pause, or by        *)
(* throwing.                                                                *)
BlockOutput == [kind : {"done", "pause", "throw"},
                route : Options \cup ControlHandles \cup {NoRoute}, error : BOOLEAN]

ASSUME EdgesAssumption ==
  /\ Edges \subseteq [src : Nodes, dst : Nodes, handle : Handles]
  /\ SilentEdges \subseteq Edges
  /\ IsFiniteSet(Nodes)
  /\ Trigger \in Nodes
  /\ None \notin Nodes \cup BlockOutput

(* Of a block's output the edges see the option or route it selected and    *)
(* whether it carries an error.  A control route fires the edges of that    *)
(* handle and no other; otherwise an option fires its own edges, error and  *)
(* source depend on the error, and an edge without a handle always fires.   *)
ShouldActivate(e, out) ==
  \/ /\ out.route \in ControlHandles
     /\ e.handle = out.route
  \/ /\ out.route \notin ControlHandles
     /\ \/ e.handle \in Options /\ e.handle = out.route
        \/ e.handle = "error"   /\ out.error
        \/ e.handle = "source"  /\ ~out.error
        \/ e.handle = "always"
============================================================================

---------------------------- MODULE EdgeManager ----------------------------
(***************************************************************************)
(* The edge manager of the workflow executor                               *)
(* (apps/sim/executor/execution/edge-manager.ts): which edges of a running *)
(* DAG are still awaited, which are dead, and which nodes become ready     *)
(* when a node completes.                                                  *)
(*                                                                         *)
(* incomingEdges[n] holds the SOURCES n still waits for, deactivatedEdges  *)
(* the keys of dead edges, exactly as the code keeps them.                 *)
(***************************************************************************)
EXTENDS WorkflowDag

VARIABLES
  incomingEdges,          \* [Nodes -> set of sources still awaited]
  deactivatedEdges,       \* set of edges that will not fire
  nodesWithActivatedEdge  \* nodes that some completed node activated

edgeVars == <<incomingEdges, deactivatedEdges, nodesWithActivatedEdge>>

EdgeTypeOK ==
  /\ incomingEdges \in [Nodes -> SUBSET Nodes]
  /\ deactivatedEdges \in SUBSET Edges
  /\ nodesWithActivatedEdge \in SUBSET Nodes

(* Operators whose name begins with Wrong are not the code: they are the     *)
(* mistakes the runs' properties must catch, each defined just before the   *)
(* definition it would replace.                                             *)

EdgeInit ==
  /\ incomingEdges = [n \in Nodes |-> {e.src : e \in InEdges(n) \ SilentEdges}]
  /\ deactivatedEdges = {}
  /\ nodesWithActivatedEdge = {}

----------------------------------------------------------------------------
ActivatedTargets(n, out) == {e.dst : e \in {f \in OutEdges(n) : ShouldActivate(f, out)}}

(* The edges of n that output leaves unchosen; control edges are exempt.    *)
EdgesToDeactivate(n, out) ==
  {e \in OutEdges(n) : ~ShouldActivate(e, out) /\ e.handle \notin ControlHandles}

(* No edge of an awaited source into n is alive, once the edges in dead are dead. *)
NoActiveIncoming(n, dead) ==
  \A e \in InEdges(n) : e.src \in incomingEdges[n] => e \in dead

IsNodeReady(n) == NoActiveIncoming(n, deactivatedEdges)

ForwardEdgesOf(S) == {e \in Edges : e.src \in S /\ e.handle \notin BackHandles}

(* A set S of cut-off nodes is closed when it holds every node outside      *)
(* activated that loses an edge (a seed, or an edge of S) and has no active *)
(* incoming edge left.                                                      *)
ClosedUnderCascade(S, seeds, activated) ==
  LET dropped == seeds \cup ForwardEdgesOf(S)
  IN  \A n \in Nodes \ activated :
        (/\ \E e \in InEdges(n) : e \in dropped \ deactivatedEdges
         /\ NoActiveIncoming(n, deactivatedEdges \cup dropped))
        => n \in S

(* The nodes the recursion of deactivateEdgeAndDescendants cuts off: the    *)
(* least closed set.  Its depth-first order does not matter, because a node *)
(* is looked at again each time one more of its edges dies.                 *)
CutOff(seeds, activated) ==
  {n \in Nodes \ activated :
     \A S \in SUBSET (Nodes \ activated) :
       ClosedUnderCascade(S, seeds, activated) => n \in S}

(* Every edge leaving n is a loop or parallel control edge. *)
IsTerminalControlNode(n) ==
  OutEdges(n) # {} /\ \A e \in OutEdges(n) : e.handle \in ControlHandles

IsEnclosingSentinel(n, sentinel) ==
  /\ sentinel \in Sentinels
  /\ SubflowOf[n] # NoSubflow
  /\ SubflowOf[n] = SubflowOf[sentinel]

(* The cascade does not ask whether a node keeps another live edge. *)
WrongDeactivate(seeds, activated) ==
  deactivatedEdges' = deactivatedEdges \cup seeds
                        \cup ForwardEdgesOf({e.dst : e \in seeds} \ activated)

(* deactivateEdgeAndDescendants for a set of edges, with the given set of   *)
(* activated nodes.                                                         *)
Deactivate(seeds, activated) ==
  deactivatedEdges' = deactivatedEdges \cup seeds \cup ForwardEdgesOf(CutOff(seeds, activated))

(* processOutgoingEdges of node n: the changes to the edge state ...        *)
ProcessOutgoingEdges(n, out) ==
  LET targets == ActivatedTargets(n, out)
  IN  /\ nodesWithActivatedEdge' = nodesWithActivatedEdge \cup targets
      /\ Deactivate(EdgesToDeactivate(n, out), nodesWithActivatedEdge \cup targets)
      /\ incomingEdges' = [t \in Nodes |-> IF t \in targets THEN incomingEdges[t] \ {n}
                                                            ELSE incomingEdges[t]]

(* ... and the nodes it returns as ready, read in the state it leaves.      *)
CascadeTargets(n, out) ==
  LET dropped == EdgesToDeactivate(n, out)
  IN  {t \in Nodes : /\ IsTerminalControlNode(t)
                     /\ \E e \in InEdges(t) :
                          \/ e \in deactivatedEdges' \ (deactivatedEdges \cup dropped)
                          \/ e \in dropped /\ ActivatedTargets(n, out) = {}}

(* An activated target is queued without waiting for its other sources. *)
WrongReadyTargets(n, out) == ActivatedTargets(n, out)

ReadyTargets(n, out) == {t \in ActivatedTargets(n, out) : IsNodeReady(t)'}

(* A dead end inside a subflow leaves its end sentinel unqueued. *)
WrongReadySentinels(n, out) == {}

ReadySentinels(n, out) ==
  {t \in CascadeTargets(n, out) :
     /\ ActivatedTargets(n, out) = {}
     /\ IsNodeReady(t)'
     /\ out.route = NoRoute \/ IsEnclosingSentinel(n, t)}

(* A join whose last feeder was dropped directly is not looked at again. *)
WrongReadyConvergences(n, out) == {}

ReadyConvergences(n, out) ==
  {t \in Nodes : /\ out.route \notin ExitHandles
                 /\ \E e \in EdgesToDeactivate(n, out) : e.dst = t
                 /\ t \notin ActivatedTargets(n, out)
                 /\ (t \in nodesWithActivatedEdge)'
                 /\ IsNodeReady(t)'}

ReadyNodes(n, out) ==
  ReadyTargets(n, out) \cup ReadySentinels(n, out) \cup ReadyConvergences(n, out)
============================================================================

------------------------ MODULE WorkflowEngineProofs ------------------------
(***************************************************************************)
(* Theorems about WorkflowEngine, for every DAG without loops and          *)
(* parallels, every assignment of block kinds and every interleaving.      *)
(*                                                                         *)
(* The engine keeps which sources a node still awaits and which edges are  *)
(* dead; the promise speaks of outputs and of branches not taken.  IInv    *)
(* relates the two: an edge no longer awaited has a source that ended, a   *)
(* dead edge was refused or leaves a skipped block, an activated node was  *)
(* chosen.  From it a node is ready only when all its feeders are settled, *)
(* and it cannot become ready a second time.                               *)
(***************************************************************************)
EXTENDS WorkflowEngine, TLAPS

LEMMA ResultsTyped == \A n \in Nodes : Results(n) \subseteq BlockOutput
<1>. SUFFICES ASSUME NEW n \in Nodes, NEW out \in Results(n) PROVE out \in BlockOutput
  OBVIOUS
<1>1. /\ Result("pause", NoRoute, FALSE) \in BlockOutput
      /\ Result("throw", NoRoute, TRUE) \in BlockOutput
      /\ \A r \in Options \cup {NoRoute}, b \in BOOLEAN : Result("done", r, b) \in BlockOutput
  BY DEF Result, BlockOutput
<1>2. CASE \E r \in (IF n \in Decisions THEN OptionsOf[n] ELSE {NoRoute}) :
              out = Result("done", r, FALSE)
  <2>1. PICK r \in Options \cup {NoRoute} : out = Result("done", r, FALSE)
    BY <1>2, EngineAssumption
  <2>. QED BY <1>1, <2>1
<1>. QED BY <1>1, <1>2 DEF Results

(* Every state variable keeps its type, whatever the DAG. *)
LEMMA InitTypeOK == Init => TypeOK
<1>1. EdgeInit => EdgeTypeOK
  BY EdgesAssumption DEF EdgeInit, EdgeTypeOK, InEdges
<1>2. Init => /\ readyQueue \in SUBSET Nodes
              /\ executing \in SUBSET Task /\ awaited \in SUBSET (Nodes \X (Nat \ {0}))
  BY EdgesAssumption DEF Init
<1>3. Init => /\ starts \in [Nodes -> Nat]
              /\ blockStates \in [Nodes -> BlockOutput \cup {None}]
  BY DEF Init
<1>. QED BY <1>1, <1>2, <1>3 DEF Init, TypeOK

LEMMA TasksTyped ==
  ASSUME TypeOK, NEW t \in executing
  PROVE  /\ t \in Task /\ t.node \in Nodes /\ t.nth \in Nat \ {0}
         /\ t.fresh \in BOOLEAN /\ t.output \in BlockOutput \cup {None}
BY DEF TypeOK, Task

LEMMA RoutingTyped ==
  ASSUME TypeOK, NEW n \in Nodes, NEW out, ProcessOutgoingEdges(n, out)
  PROVE  EdgeTypeOK' /\ ReadyNodes(n, out) \subseteq Nodes
<1>1. ActivatedTargets(n, out) \subseteq Nodes
  BY EdgesAssumption DEF ActivatedTargets, OutEdges
<1>2. incomingEdges' \in [Nodes -> SUBSET Nodes]
  BY DEF ProcessOutgoingEdges, TypeOK, EdgeTypeOK
<1>3. deactivatedEdges' \in SUBSET Edges
  BY DEF ProcessOutgoingEdges, Deactivate, EdgesToDeactivate, OutEdges, ForwardEdgesOf, TypeOK,
         EdgeTypeOK
<1>4. nodesWithActivatedEdge' \in SUBSET Nodes
  BY <1>1 DEF ProcessOutgoingEdges, TypeOK, EdgeTypeOK
<1>5. ReadyNodes(n, out) \subseteq Nodes
  BY <1>1 DEF ReadyNodes, ReadyTargets, ReadySentinels, CascadeTargets, ReadyConvergences
<1>. QED BY <1>2, <1>3, <1>4, <1>5 DEF EdgeTypeOK

LEMMA NextTypeOK == TypeOK /\ [Next]_vars => TypeOK'
<1>. SUFFICES ASSUME TypeOK, [Next]_vars PROVE TypeOK'
  OBVIOUS
<1>1. CASE ProcessQueue
  <2>1. executing' \in SUBSET Task
    <3>1. SUFFICES ASSUME NEW t \in executing' PROVE t \in Task
      OBVIOUS
    <3>2. CASE t \in executing
      BY <3>2, TasksTyped
    <3>3. ASSUME NEW n \in readyQueue,
                 t = [node |-> n, nth |-> starts[n] + 1, fresh |-> n \notin executedBlocks,
                      output |-> None]
          PROVE  t \in Task
      <4>1. n \in Nodes /\ starts[n] + 1 \in Nat \ {0}
        BY DEF TypeOK
      <4>2. (n \notin executedBlocks) \in BOOLEAN
        OBVIOUS
      <4>. QED BY <3>3, <4>1, <4>2 DEF Task
    <3>. QED BY <1>1, <3>1, <3>2, <3>3 DEF ProcessQueue
  <2>2. starts' \in [Nodes -> Nat]
    BY <1>1 DEF ProcessQueue, TypeOK
  <2>3. awaited' \in SUBSET (Nodes \X (Nat \ {0}))
    BY <1>1, <2>1 DEF ProcessQueue, Promises, Task
  <2>. QED BY <1>1, <2>1, <2>2, <2>3
       DEF ProcessQueue, TypeOK, EdgeTypeOK, edgeVars, flagVars, errorVars
<1>2. CASE WakeUp
  BY <1>2 DEF WakeUp, TypeOK, EdgeTypeOK, edgeVars, flagVars, errorVars
<1>3. CASE LeaveLoop
  BY <1>3 DEF LeaveLoop, Finish, Outcome, TypeOK, EdgeTypeOK, edgeVars, flagVars, errorVars
<1>4. CASE AllSettled
  BY <1>4 DEF AllSettled, Finish, Outcome, TypeOK, EdgeTypeOK, edgeVars, flagVars, errorVars
<1>5. CASE SignalCancelled
  BY <1>5 DEF SignalCancelled, TypeOK, EdgeTypeOK, edgeVars, flagVars, errorVars, loopVars
<1>6. ASSUME NEW t \in executing, BlockReturns(t) PROVE TypeOK'
  <2>1. PICK out \in BlockOutput \cup {None} :
          /\ executing' = (executing \ {t}) \cup {[t EXCEPT !.output = out]}
          /\ blockStates' = [blockStates EXCEPT ![t.node] = out]
    BY <1>6, TasksTyped, ResultsTyped DEF BlockReturns, TypeOK
  <2>2. [t EXCEPT !.output = out] \in Task
    BY TasksTyped DEF Task
  <2>. QED BY <1>6, <2>1, <2>2
       DEF BlockReturns, TypeOK, EdgeTypeOK, edgeVars, flagVars, errorVars, loopVars
<1>7. ASSUME NEW t \in executing, Completes(t) PROVE TypeOK'
  <2>. t.node \in Nodes
    BY TasksTyped
  <2>1. CASE CompletionDropped(t)
    BY <2>1 DEF CompletionDropped, Settles, TypeOK, EdgeTypeOK, edgeVars, flagVars, errorVars,
                loopVars
  <2>2. CASE CompletionThrows(t)
    BY <2>2 DEF CompletionThrows, Settles, TypeOK, EdgeTypeOK, edgeVars, flagVars, loopVars
  <2>3. CASE CompletionPauses(t)
    BY <2>3 DEF CompletionPauses, Handled, Settles, TypeOK, EdgeTypeOK, edgeVars, errorVars,
                loopVars
  <2>4. CASE CompletionResponds(t)
    BY <2>4 DEF CompletionResponds, Handled, Settles, TypeOK, EdgeTypeOK, edgeVars, errorVars,
                loopVars
  <2>5. CASE CompletionStops(t)
    BY <2>5 DEF CompletionStops, NextFinalOutput, Handled, Settles, TypeOK, EdgeTypeOK, edgeVars,
                errorVars, loopVars
  <2>6. CASE CompletionRoutes(t)
    <3>1. EdgeTypeOK' /\ ReadyNodes(t.node, t.output) \subseteq Nodes
      BY <2>6, RoutingTyped DEF CompletionRoutes
    <3>. QED BY <2>6, <3>1 DEF CompletionRoutes, NextFinalOutput, Handled, Settles, TypeOK,
                               errorVars, loopVars
  <2>. QED BY <1>7, <2>1, <2>2, <2>3, <2>4, <2>5, <2>6 DEF Completes
<1>8. CASE UNCHANGED vars
  BY <1>8 DEF vars, TypeOK, EdgeTypeOK, edgeVars, flagVars, errorVars, loopVars
<1>. QED BY <1>1, <1>2, <1>3, <1>4, <1>5, <1>6, <1>7, <1>8 DEF Next, MainLoop, Ended

(* Types are invariant for every DAG, loops and parallels included. *)
THEOREM TypeCorrect == Spec => []TypeOK
BY InitTypeOK, NextTypeOK, PTL DEF Spec

----------------------------------------------------------------------------
(* Branches not taken.                                                      *)

(* A skipped block was never activated nor called: the other blocks are     *)
(* closed under skipping.                                                   *)
LEMMA SkippedNeverCalled ==
  ASSUME IInv, NEW n \in Promise!Skipped
  PROVE  /\ n \in Nodes /\ n # Trigger /\ n \notin nodesWithActivatedEdge
         /\ ~Called(n) /\ \A t \in executing : t.node # n
<1>. DEFINE S == Nodes \ (nodesWithActivatedEdge \cup {Trigger})
<1>1. ASSUME NEW m \in Nodes \ {Trigger}, m \notin S
      PROVE  \E e \in InEdges(m) : ~Promise!Refused(e) /\ e.src \notin S
  <2>1. m \in nodesWithActivatedEdge
    BY <1>1
  <2>2. PICK e \in InEdges(m) : Promise!Taken(e)
    BY <2>1 DEF IInv, ActivatedByOutput
  <2>3. e.src \in Nodes /\ blockStates[e.src] # None
    BY <2>2, EdgesAssumption DEF InEdges, Promise!Taken
  <2>4. starts[e.src] = 1
    BY <2>3 DEF IInv, OneCallPerNode
  <2>5. e.src = Trigger \/ e.src \in nodesWithActivatedEdge
    BY <2>3, <2>4 DEF IInv, CalledWhenReady, Called
  <2>. QED BY <2>2, <2>5 DEF Promise!Taken, Promise!Refused
<1>2. Promise!ClosedUnderSkipping(S)
  BY <1>1 DEF Promise!ClosedUnderSkipping, Promise!InEdges, InEdges
<1>3. n \in Nodes /\ n \in S
  BY <1>2 DEF Promise!Skipped
<1>4. ~Called(n)
  BY <1>3 DEF IInv, CalledWhenReady
<1>5. \A t \in executing : t.node # n
  BY <1>4 DEF IInv, OneCallPerNode, Called
<1>. QED BY <1>3, <1>4, <1>5

(* What is skipped stays skipped: outputs are only added. *)
LEMMA SkippedGrows ==
  ASSUME \A e \in Edges : Promise!Refused(e) => Promise!Refused(e)'
  PROVE  Promise!Skipped \subseteq Promise!Skipped'
<1>1. ASSUME NEW S \in SUBSET Nodes, Promise!ClosedUnderSkipping(S)'
      PROVE  Promise!ClosedUnderSkipping(S)
  BY <1>1, EdgesAssumption DEF Promise!ClosedUnderSkipping, Promise!InEdges
<1>. QED BY <1>1 DEF Promise!Skipped

(* The cascade cuts off only skipped blocks: each of them, had it escaped a  *)
(* set closed under skipping, would still have an edge alive.               *)
LEMMA CutOffIsSkipped ==
  ASSUME IInv, SilentEdges = {}, NEW seeds, NEW activated \in SUBSET Nodes,
         nodesWithActivatedEdge \subseteq activated, Trigger \notin Nodes \ activated
           \/ InEdges(Trigger) = {},
         \A e \in seeds : Promise!Refused(e),
         seeds \subseteq Edges
  PROVE  CutOff(seeds, activated) \subseteq Promise!Skipped
<1>. SUFFICES ASSUME NEW n \in CutOff(seeds, activated),
                     NEW S \in SUBSET Nodes, Promise!ClosedUnderSkipping(S)
              PROVE  n \in S
  BY DEF Promise!Skipped, CutOff
<1>. DEFINE T == S \cap (Nodes \ activated)
<1>1. ASSUME NEW m \in Nodes \ activated,
             \E e \in InEdges(m) : e \in (seeds \cup ForwardEdgesOf(T)) \ deactivatedEdges,
             NoActiveIncoming(m, deactivatedEdges \cup seeds \cup ForwardEdgesOf(T))
      PROVE  m \in T
  <2>1. m # Trigger
    BY <1>1
  <2>2. ASSUME NEW e \in InEdges(m) PROVE Promise!Refused(e) \/ e.src \in S
    <3>1. e \in Edges /\ e.dst = m
      BY DEF InEdges
    <3>2. e.src \in incomingEdges[m]
      BY <3>1, <1>1 DEF IInv, SettledSources
    <3>3. e \in deactivatedEdges \cup seeds \cup ForwardEdgesOf(T)
      BY <1>1, <3>2 DEF NoActiveIncoming
    <3>4. CASE e \in deactivatedEdges
      BY <3>4 DEF IInv, DeadEdges, Promise!Skipped
    <3>5. CASE e \in ForwardEdgesOf(T)
      BY <3>5 DEF ForwardEdgesOf
    <3>. QED BY <3>3, <3>4, <3>5
  <2>. QED BY <1>1, <2>1, <2>2 DEF Promise!ClosedUnderSkipping, Promise!InEdges, InEdges
<1>2. ClosedUnderCascade(T, seeds, activated)
  BY <1>1 DEF ClosedUnderCascade
<1>. QED BY <1>2 DEF CutOff

----------------------------------------------------------------------------
(* The inductive invariant.                                                 *)

LEMMA InitIInv == PlainDag /\ Init => IInv
<1>. SUFFICES ASSUME PlainDag, Init PROVE IInv
  OBVIOUS
<1>1. CalledWhenReady
  BY DEF Init, CalledWhenReady, Called, IsNodeReady, NoActiveIncoming, InEdges, PlainDag
<1>2. SettledSources
  BY EdgesAssumption DEF Init, EdgeInit, SettledSources, InEdges, PlainDag
<1>3. OneCallPerNode /\ ActivatedByOutput /\ DeadEdges
  BY DEF Init, EdgeInit, OneCallPerNode, ActivatedByOutput, DeadEdges
<1>. QED BY <1>1, <1>2, <1>3, InitTypeOK DEF IInv

(* A step that ends calls, or none, and touches neither the queue nor the   *)
(* edges nor the outputs.                                                   *)
LEMMA EdgesKeptIInv ==
  ASSUME IInv, TypeOK', executing' \subseteq executing,
         UNCHANGED <<edgeVars, readyQueue, starts, blockStates>>
  PROVE  IInv'
<1>1. \A n \in Nodes : EndedWithOutput(n) => EndedWithOutput(n)'
  BY DEF EndedWithOutput
<1>2. \A e \in Edges : Promise!Refused(e) => Promise!Refused(e)'
  BY DEF Promise!Refused
<1>2t. \A e \in Edges : Promise!Taken(e) => Promise!Taken(e)'
  BY DEF Promise!Taken
<1>3. Promise!Skipped \subseteq Promise!Skipped'
  BY <1>2, SkippedGrows
<1>4. OneCallPerNode'
  BY DEF IInv, OneCallPerNode
<1>5. CalledWhenReady'
  BY DEF IInv, CalledWhenReady, Called, IsNodeReady, NoActiveIncoming, edgeVars
<1>6. ActivatedByOutput'
  BY <1>2t DEF IInv, ActivatedByOutput, InEdges, edgeVars
<1>7. SettledSources'
  BY <1>1, EdgesAssumption DEF IInv, SettledSources, edgeVars
<1>8. DeadEdges'
  BY <1>1, <1>2, <1>3, EdgesAssumption DEF IInv, TypeOK, EdgeTypeOK, DeadEdges, edgeVars
<1>. QED BY <1>4, <1>5, <1>6, <1>7, <1>8 DEF IInv

LEMMA ProcessQueueIInv ==
  ASSUME IInv, TypeOK', ProcessQueue
  PROVE  IInv'
<1>1. \A t \in executing' : t \in executing \/ t.node \in readyQueue
  BY DEF ProcessQueue
<1>2. \A n \in readyQueue : n \in Nodes /\ starts[n] = 0 /\ blockStates[n] = None
  BY DEF IInv, TypeOK, OneCallPerNode
<1>3. \A n \in Nodes : EndedWithOutput(n) => EndedWithOutput(n)'
  BY <1>1, <1>2 DEF EndedWithOutput, ProcessQueue
<1>4. \A e \in Edges : Promise!Refused(e) => Promise!Refused(e)'
  BY DEF Promise!Refused, ProcessQueue
<1>4t. \A e \in Edges : Promise!Taken(e) => Promise!Taken(e)'
  BY DEF Promise!Taken, ProcessQueue
<1>5. Promise!Skipped \subseteq Promise!Skipped'
  BY <1>4, SkippedGrows
<1>6. OneCallPerNode'
  <2>1. ASSUME NEW t \in executing'
        PROVE  /\ starts'[t.node] = 1 /\ t.nth = 1 /\ t.fresh
               /\ t.output = blockStates'[t.node]
    <3>1. CASE t \in executing
      <4>1. t.node \in Nodes /\ t.node \notin readyQueue
        BY <3>1, TasksTyped DEF IInv, OneCallPerNode
      <4>. QED BY <3>1, <4>1 DEF IInv, OneCallPerNode, ProcessQueue
    <3>2. CASE t \notin executing
      <4>1. PICK n \in readyQueue :
              t = [node |-> n, nth |-> starts[n] + 1, fresh |-> n \notin executedBlocks,
                   output |-> None]
        BY <3>2 DEF ProcessQueue
      <4>2. n \notin executedBlocks
        BY <1>2 DEF executedBlocks
      <4>3. t.fresh
        BY ONLY <4>1, <4>2, Zenon
      <4>4. t.node = n /\ t.nth = starts[n] + 1 /\ t.output = None
        BY <4>1
      <4>5. starts[n] = 0 /\ starts'[n] = 1 /\ blockStates'[n] = None
        BY <1>2 DEF ProcessQueue
      <4>. QED BY <4>3, <4>4, <4>5
    <3>. QED BY <3>1, <3>2
  <2>2. ASSUME NEW n \in Nodes
        PROVE  /\ starts'[n] \in {0, 1} /\ (starts'[n] = 0 => blockStates'[n] = None)
               /\ n \notin readyQueue'
    BY <1>2 DEF IInv, OneCallPerNode, ProcessQueue
  <2>. QED BY <2>1, <2>2 DEF OneCallPerNode
<1>7. CalledWhenReady'
  <2>1. \A n \in Nodes : Called(n)' => Called(n)
    BY <1>2 DEF Called, ProcessQueue
  <2>. QED BY <2>1 DEF IInv, CalledWhenReady, IsNodeReady, NoActiveIncoming, ProcessQueue, edgeVars
<1>8. ActivatedByOutput'
  BY <1>4t DEF IInv, ActivatedByOutput, InEdges, ProcessQueue, edgeVars
<1>9. SettledSources'
  BY <1>3, EdgesAssumption DEF IInv, SettledSources, ProcessQueue, edgeVars
<1>10. DeadEdges'
  BY <1>3, <1>4, <1>5, EdgesAssumption
     DEF IInv, TypeOK, EdgeTypeOK, DeadEdges, ProcessQueue, edgeVars
<1>. QED BY <1>6, <1>7, <1>8, <1>9, <1>10 DEF IInv

(* No node has two calls in flight. *)
LEMMA OneTask ==
  ASSUME IInv, NEW t \in executing, NEW u \in executing, t.node = u.node
  PROVE  t = u
<1>1. t.nth = u.nth /\ t.fresh = u.fresh /\ t.output = u.output
  BY TasksTyped DEF IInv, OneCallPerNode
<1>. QED BY <1>1, TasksTyped DEF IInv, Task

LEMMA BlockReturnsOutput ==
  ASSUME IInv, NEW t \in executing, BlockReturns(t)
  PROVE  \E out \in BlockOutput :
           /\ t.node \in Nodes /\ blockStates[t.node] = None
           /\ executing' = (executing \ {t}) \cup {[t EXCEPT !.output = out]}
           /\ blockStates' = [blockStates EXCEPT ![t.node] = out]
BY TasksTyped, ResultsTyped DEF IInv, OneCallPerNode, BlockReturns

LEMMA BlockReturnsIInv ==
  ASSUME IInv, TypeOK', NEW t \in executing, BlockReturns(t)
  PROVE  IInv'
<1>1. PICK out \in BlockOutput :
        /\ t.node \in Nodes /\ blockStates[t.node] = None
        /\ executing' = (executing \ {t}) \cup {[t EXCEPT !.output = out]}
        /\ blockStates' = [blockStates EXCEPT ![t.node] = out]
  BY BlockReturnsOutput
<1>. DEFINE r == [t EXCEPT !.output = out]
<1>2. r.node = t.node /\ r.nth = t.nth /\ r.fresh = t.fresh /\ r.output = out
  BY TasksTyped DEF IInv, Task
<1>3. \A n \in Nodes : n # t.node => blockStates'[n] = blockStates[n]
  BY <1>1 DEF IInv, TypeOK
<1>4. blockStates'[t.node] = out
  BY <1>1 DEF IInv, TypeOK
<1>5. \A n \in Nodes : EndedWithOutput(n) => EndedWithOutput(n)'
  BY <1>1, <1>2, <1>3 DEF EndedWithOutput
<1>6. \A e \in Edges : Promise!Refused(e) => Promise!Refused(e)'
  BY <1>1, <1>3, EdgesAssumption DEF Promise!Refused
<1>6t. \A e \in Edges : Promise!Taken(e) => Promise!Taken(e)'
  BY <1>1, <1>3, EdgesAssumption DEF Promise!Taken
<1>7. Promise!Skipped \subseteq Promise!Skipped'
  BY <1>6, SkippedGrows
<1>8. UNCHANGED <<incomingEdges, deactivatedEdges, nodesWithActivatedEdge, readyQueue, starts>>
  BY DEF BlockReturns, edgeVars
<1>9. OneCallPerNode'
  <2>1. ASSUME NEW u \in executing'
        PROVE  /\ starts'[u.node] = 1 /\ u.nth = 1 /\ u.fresh
               /\ u.output = blockStates'[u.node]
    <3>1. CASE u \in executing /\ u # t
      <4>1. u.node # t.node /\ u.node \in Nodes
        BY <3>1, OneTask, TasksTyped DEF IInv
      <4>. QED BY <3>1, <4>1, <1>3, <1>8 DEF IInv, OneCallPerNode
    <3>2. CASE u = r
      BY <3>2, <1>2, <1>4, <1>8 DEF IInv, OneCallPerNode
    <3>. QED BY <1>1, <3>1, <3>2
  <2>2. \A n \in Nodes : starts[n] = 0 => n # t.node
    BY DEF IInv, OneCallPerNode
  <2>. QED BY <2>1, <2>2, <1>3, <1>8 DEF IInv, OneCallPerNode
<1>10. CalledWhenReady'
  BY <1>8 DEF IInv, CalledWhenReady, Called, IsNodeReady, NoActiveIncoming
<1>11. ActivatedByOutput'
  BY <1>6t, <1>8 DEF IInv, ActivatedByOutput, InEdges
<1>12. SettledSources'
  BY <1>5, <1>8, EdgesAssumption DEF IInv, SettledSources
<1>13. DeadEdges'
  BY <1>5, <1>6, <1>7, <1>8, EdgesAssumption DEF IInv, TypeOK, EdgeTypeOK, DeadEdges
<1>. QED BY <1>9, <1>10, <1>11, <1>12, <1>13 DEF IInv

(* Routing a completed block: what it activates was taken, what it drops was *)
(* refused, what the cascade reaches is skipped; and no node that was called *)
(* before can become ready by it, since the block was still in flight.       *)
LEMMA RoutesIInv ==
  ASSUME PlainDag, IInv, TypeOK', NEW t \in executing, CompletionRoutes(t)
  PROVE  IInv'
<1>. DEFINE n == t.node
            out == t.output
            targets == ActivatedTargets(n, out)
            dropped == EdgesToDeactivate(n, out)
<1>1. /\ n \in Nodes /\ out = blockStates[n] /\ out # None /\ out.kind = "done"
      /\ starts[n] = 1
  BY TasksTyped DEF IInv, OneCallPerNode, CompletionRoutes, Handled, Settles
<1>2. /\ executing' = executing \ {t} /\ UNCHANGED <<starts, blockStates>>
      /\ readyQueue' = readyQueue \cup ReadyNodes(n, out)
      /\ ProcessOutgoingEdges(n, out)
  BY DEF CompletionRoutes, Handled, Settles
<1>3. /\ nodesWithActivatedEdge' = nodesWithActivatedEdge \cup targets
      /\ deactivatedEdges' = deactivatedEdges \cup dropped
           \cup ForwardEdgesOf(CutOff(dropped, nodesWithActivatedEdge \cup targets))
      /\ incomingEdges' = [m \in Nodes |-> IF m \in targets THEN incomingEdges[m] \ {n}
                                                            ELSE incomingEdges[m]]
  BY <1>2 DEF ProcessOutgoingEdges, Deactivate
<1>4. \A m \in Nodes : EndedWithOutput(m) => EndedWithOutput(m)'
  BY <1>2 DEF EndedWithOutput
<1>5. EndedWithOutput(n)'
  BY <1>1, <1>2, OneTask DEF EndedWithOutput
<1>6. \A e \in Edges : Promise!Refused(e) => Promise!Refused(e)'
  BY <1>2 DEF Promise!Refused
<1>7. \A e \in Edges : Promise!Taken(e) => Promise!Taken(e)'
  BY <1>2 DEF Promise!Taken
<1>8. Promise!Skipped \subseteq Promise!Skipped'
  BY <1>6, SkippedGrows
<1>9. \A e \in dropped : e \in Edges /\ e.src = n /\ Promise!Refused(e)
  BY <1>1 DEF EdgesToDeactivate, OutEdges, Promise!Refused, Promise!ShouldActivate,
              ShouldActivate, Promise!ControlHandles, ControlHandles, Promise!LoopRoutes, LoopRoutes,
              Promise!ParallelRoutes, ParallelRoutes
<1>10. \A m \in targets : m \in Nodes /\ \E e \in InEdges(m) : e.src = n /\ Promise!Taken(e)
  BY <1>1, EdgesAssumption
     DEF ActivatedTargets, OutEdges, InEdges, Promise!Taken, Promise!ShouldActivate,
         ShouldActivate, Promise!ControlHandles, ControlHandles, Promise!LoopRoutes, LoopRoutes,
         Promise!ParallelRoutes, ParallelRoutes
<1>11. CutOff(dropped, nodesWithActivatedEdge \cup targets) \subseteq Promise!Skipped
  <2>1. nodesWithActivatedEdge \cup targets \in SUBSET Nodes
    BY <1>10 DEF IInv, TypeOK, EdgeTypeOK
  <2>2. InEdges(Trigger) = {}
    BY DEF PlainDag, InEdges
  <2>3. SilentEdges = {}
    BY DEF PlainDag
  <2>. QED BY <1>9, <2>1, <2>2, <2>3, CutOffIsSkipped
<1>12. \A m \in ReadyNodes(n, out) :
         /\ m \in Nodes /\ m \in nodesWithActivatedEdge' /\ IsNodeReady(m)'
         /\ \E e \in InEdges(m) : e.src = n
  <2>1. ReadySentinels(n, out) = {}
    BY EdgesAssumption DEF ReadySentinels, CascadeTargets, IsTerminalControlNode, PlainDag, OutEdges
  <2>2. \A m \in ReadyTargets(n, out) : m \in targets /\ IsNodeReady(m)'
    BY DEF ReadyTargets
  <2>3. \A m \in ReadyConvergences(n, out) :
          /\ m \in Nodes /\ m \in nodesWithActivatedEdge' /\ IsNodeReady(m)'
          /\ \E e \in dropped : e.dst = m
    BY DEF ReadyConvergences
  <2>. QED BY <1>3, <1>9, <1>10, <2>1, <2>2, <2>3 DEF ReadyNodes, InEdges
<1>13. \A m \in Nodes : IsNodeReady(m) => IsNodeReady(m)'
  BY <1>3 DEF IsNodeReady, NoActiveIncoming, IInv, TypeOK, EdgeTypeOK
<1>14. \A m \in ReadyNodes(n, out) : ~IsNodeReady(m)
  <2>. SUFFICES ASSUME NEW m \in ReadyNodes(n, out), IsNodeReady(m) PROVE FALSE
    OBVIOUS
  <2>1. PICK e \in InEdges(m) : e.src = n
    BY <1>12
  <2>2. e \in Edges /\ e.dst = m
    BY <2>1 DEF InEdges
  <2>3. ~EndedWithOutput(n)
    BY DEF EndedWithOutput
  <2>4. n \in incomingEdges[m]
    BY <2>1, <2>2, <2>3 DEF IInv, SettledSources
  <2>5. e \in deactivatedEdges
    BY <2>1, <2>4 DEF IsNodeReady, NoActiveIncoming
  <2>6. n \in Promise!Skipped
    BY <2>1, <2>3, <2>5 DEF IInv, DeadEdges
  <2>. QED BY <2>6, SkippedNeverCalled
<1>15. \A m \in ReadyNodes(n, out) : ~Called(m)
  BY <1>12, <1>14 DEF IInv, CalledWhenReady
<1>16. OneCallPerNode'
  <2>1. \A u \in executing' : u \in executing
    BY <1>2
  <2>2. \A m \in ReadyNodes(n, out) : starts[m] = 0
    BY <1>12, <1>15 DEF Called, IInv, OneCallPerNode
  <2>. QED BY <1>2, <2>1, <2>2 DEF IInv, OneCallPerNode
<1>17. CalledWhenReady'
  <2>1. \A m \in Nodes : Called(m)' => Called(m) \/ m \in ReadyNodes(n, out)
    BY <1>2 DEF Called
  <2>. QED BY <1>3, <1>12, <1>13, <2>1 DEF IInv, CalledWhenReady
<1>18. ActivatedByOutput'
  <2>1. \A m \in nodesWithActivatedEdge : m \in Nodes /\ \E e \in InEdges(m) : Promise!Taken(e)
    BY DEF IInv, TypeOK, EdgeTypeOK, ActivatedByOutput
  <2>2. \A m \in nodesWithActivatedEdge' : \E e \in InEdges(m) : e \in Edges /\ Promise!Taken(e)
    BY <1>3, <1>10, <2>1 DEF InEdges
  <2>. QED BY <1>7, <2>2 DEF ActivatedByOutput, InEdges
<1>19. SettledSources'
  <2>. SUFFICES ASSUME NEW e \in Edges, e.src \notin incomingEdges'[e.dst]
                PROVE  EndedWithOutput(e.src)' /\ e.dst \in nodesWithActivatedEdge'
    BY DEF SettledSources
  <2>1. e.src \in Nodes /\ e.dst \in Nodes
    BY EdgesAssumption
  <2>2. CASE e.src \notin incomingEdges[e.dst]
    BY <1>3, <1>4, <2>1, <2>2 DEF IInv, SettledSources
  <2>3. CASE e.src = n /\ e.dst \in targets
    BY <1>3, <1>5, <2>3
  <2>. QED BY <1>3, <2>1, <2>2, <2>3
<1>20. DeadEdges'
  <2>. SUFFICES ASSUME NEW e \in deactivatedEdges'
                PROVE  \/ Promise!Refused(e)' /\ EndedWithOutput(e.src)'
                       \/ e.src \in Promise!Skipped'
    BY DEF DeadEdges
  <2>1. CASE e \in deactivatedEdges
    <3>1. e \in Edges /\ e.src \in Nodes
      BY <2>1, EdgesAssumption DEF IInv, TypeOK, EdgeTypeOK
    <3>2. (Promise!Refused(e) /\ EndedWithOutput(e.src)) \/ e.src \in Promise!Skipped
      BY <2>1 DEF IInv, DeadEdges
    <3>. QED BY <1>4, <1>6, <1>8, <3>1, <3>2
  <2>2. CASE e \in dropped
    BY <1>5, <1>6, <1>9, <2>2
  <2>3. CASE e \in ForwardEdgesOf(CutOff(dropped, nodesWithActivatedEdge \cup targets))
    BY <1>8, <1>11, <2>3 DEF ForwardEdgesOf
  <2>. QED BY <1>3, <2>1, <2>2, <2>3
<1>. QED BY <1>16, <1>17, <1>18, <1>19, <1>20 DEF IInv

LEMMA NextIInv == PlainDag /\ IInv /\ [Next]_vars => IInv'
<1>. SUFFICES ASSUME PlainDag, IInv, [Next]_vars PROVE IInv'
  OBVIOUS
<1>. TypeOK'
  BY NextTypeOK DEF IInv
<1>1. CASE ProcessQueue
  BY <1>1, ProcessQueueIInv
<1>2. CASE WakeUp \/ LeaveLoop \/ AllSettled \/ SignalCancelled \/ UNCHANGED vars
  BY <1>2, EdgesKeptIInv DEF WakeUp, LeaveLoop, AllSettled, SignalCancelled, vars
<1>3. ASSUME NEW t \in executing, BlockReturns(t) PROVE IInv'
  BY <1>3, BlockReturnsIInv
<1>4. ASSUME NEW t \in executing, CompletionRoutes(t) PROVE IInv'
  BY <1>4, RoutesIInv
<1>5. ASSUME NEW t \in executing,
             \/ CompletionDropped(t) \/ CompletionThrows(t) \/ CompletionPauses(t)
             \/ CompletionResponds(t) \/ CompletionStops(t)
      PROVE  IInv'
  <2>1. executing' \subseteq executing /\ UNCHANGED <<edgeVars, readyQueue, starts, blockStates>>
    BY <1>5 DEF CompletionDropped, CompletionThrows, CompletionPauses, CompletionResponds,
                CompletionStops, Handled, Settles
  <2>. QED BY <2>1, EdgesKeptIInv
<1>. QED BY <1>1, <1>2, <1>3, <1>4, <1>5 DEF Next, MainLoop, Completes, Ended

(* Outside loops and parallels, the edge bookkeeping of the engine agrees with *)
(* the outputs its blocks produced, in every reachable state.                  *)
THEOREM IInvInvariant == PlainDag => (Spec => []IInv)
<1>. SUFFICES ASSUME PlainDag PROVE Spec => []IInv
  OBVIOUS
<1>1. Init => IInv
  BY InitIInv
<1>2. IInv /\ [Next]_vars => IInv'
  BY NextIInv
<1>. QED BY <1>1, <1>2, PTL DEF Spec

----------------------------------------------------------------------------
(* The promise.                                                             *)

(* A queued node is due: its edges are all settled, and one was taken. *)
LEMMA QueuedIsDue ==
  ASSUME IInv, NEW n \in readyQueue
  PROVE  Promise!Due(n)
<1>1. n \in Nodes /\ starts[n] = 0 /\ blockStates[n] = None
  BY DEF IInv, TypeOK, OneCallPerNode
<1>2. \A t \in executing : t.node # n
  BY <1>1 DEF IInv, OneCallPerNode
<1>3. n = Trigger \/ \E e \in InEdges(n) : Promise!Taken(e)
  BY <1>1 DEF IInv, CalledWhenReady, Called, ActivatedByOutput
<1>4. ASSUME NEW e \in InEdges(n)
      PROVE  Promise!Taken(e) \/ Promise!Refused(e) \/ e.src \in Promise!Skipped
  <2>1. e \in Edges /\ e.dst = n /\ IsNodeReady(n)
    BY <1>1 DEF InEdges, IInv, CalledWhenReady, Called
  <2>2. CASE e.src \notin incomingEdges[n]
    BY <2>1, <2>2 DEF IInv, SettledSources, EndedWithOutput, Promise!Taken, Promise!Refused
  <2>3. CASE e \in deactivatedEdges
    BY <2>3 DEF IInv, DeadEdges
  <2>. QED BY <2>1, <2>2, <2>3 DEF IsNodeReady, NoActiveIncoming
<1>. QED BY <1>1, <1>2, <1>3, <1>4 DEF Promise!Due, Promise!InEdges, InEdges

LEMMA PromiseStep == IInv /\ [Next]_vars => [Promise!Next]_(Promise!vars)
<1>. SUFFICES ASSUME IInv, [Next]_vars PROVE [Promise!Next]_(Promise!vars)
  OBVIOUS
<1>. DEFINE run == {t.node : t \in {c \in executing : c.output = None}}
<1>1. CASE ProcessQueue
  <2>1. readyQueue \in SUBSET (Nodes \ run)
    BY DEF IInv, TypeOK, OneCallPerNode
  <2>2. \A n \in readyQueue : Promise!Due(n)
    BY QueuedIsDue
  <2>3. run' = run \cup readyQueue
    <3>1. \A n \in readyQueue : \E t \in executing' : t.node = n /\ t.output = None
      <4>. DEFINE call(n) == [node |-> n, nth |-> starts[n] + 1, fresh |-> n \notin executedBlocks,
                              output |-> None]
      <4>1. \A n \in readyQueue : call(n) \in executing'
        BY <1>1 DEF ProcessQueue
      <4>2. \A n \in readyQueue : call(n).node = n /\ call(n).output = None
        OBVIOUS
      <4>. HIDE DEF call
      <4>. QED BY <4>1, <4>2
    <3>2. executing \subseteq executing'
      BY <1>1 DEF ProcessQueue
    <3>3. \A t \in executing' : t \in executing \/ t.node \in readyQueue
      BY <1>1 DEF ProcessQueue
    <3>. QED BY <3>1, <3>2, <3>3
  <2>4. UNCHANGED blockStates
    BY <1>1 DEF ProcessQueue
  <2>. QED BY <2>1, <2>2, <2>3, <2>4 DEF Promise!Next, Promise!Start
<1>2. ASSUME NEW t \in executing, BlockReturns(t) PROVE Promise!Next
  <2>1. PICK out \in BlockOutput :
          /\ t.node \in Nodes /\ blockStates[t.node] = None
          /\ executing' = (executing \ {t}) \cup {[t EXCEPT !.output = out]}
          /\ blockStates' = [blockStates EXCEPT ![t.node] = out]
    BY <1>2, BlockReturnsOutput
  <2>2. t.output = None /\ t.node \in run
    BY <1>2 DEF BlockReturns
  <2>3. out # None
    BY EdgesAssumption
  <2>4. [t EXCEPT !.output = out].output # None
    BY <2>3, TasksTyped DEF IInv, Task
  <2>5. \A u \in executing \ {t} : u.node # t.node
    BY OneTask
  <2>6. run' = run \ {t.node}
    BY <2>1, <2>2, <2>4, <2>5
  <2>7. out \in Promise!BlockOutput
    BY DEF BlockOutput, Promise!BlockOutput, Promise!ControlHandles, ControlHandles,
           Promise!LoopRoutes, LoopRoutes, Promise!ParallelRoutes, ParallelRoutes
  <2>8. Promise!End(t.node)
    BY <2>1, <2>2, <2>6, <2>7 DEF Promise!End
  <2>. QED BY <2>1, <2>8 DEF Promise!Next
<1>3. ASSUME NEW t \in executing, Completes(t) PROVE UNCHANGED Promise!vars
  <2>1. t.output # None /\ executing' = executing \ {t} /\ UNCHANGED blockStates
    BY <1>3 DEF Completes, CompletionDropped, CompletionThrows, CompletionPauses,
                CompletionResponds, CompletionStops, CompletionRoutes, Handled, Settles
  <2>. QED BY <2>1 DEF Promise!vars
<1>4. CASE WakeUp \/ LeaveLoop \/ AllSettled \/ SignalCancelled \/ UNCHANGED vars
  <2>1. UNCHANGED <<executing, blockStates>>
    BY <1>4 DEF WakeUp, LeaveLoop, AllSettled, SignalCancelled, vars
  <2>. QED BY <2>1 DEF Promise!vars
<1>. QED BY <1>1, <1>2, <1>3, <1>4 DEF Next, MainLoop, Ended

(* For every DAG without loops and parallels and every order in which blocks *)
(* end, the engine runs a block at most once, only when a feeder took it and *)
(* no feeder may still run: the engine implements DagRun.                    *)
THEOREM EngineKeepsPromise == PlainDag => (Spec => KeepsPromise)
<1>. SUFFICES ASSUME PlainDag PROVE Spec => KeepsPromise
  OBVIOUS
<1>1. Init => Promise!Init
  BY DEF Init, Promise!Init
<1>2. IInv /\ [Next]_vars => [Promise!Next]_(Promise!vars)
  BY PromiseStep
<1>3. Spec => []IInv
  BY IInvInvariant
<1>. QED BY <1>1, <1>2, <1>3, PTL DEF Spec, KeepsPromise, Promise!Spec

----------------------------------------------------------------------------
(* Stopping.                                                                *)

(* A locked output means a stopped run, in every reachable state. *)
LockedIsStopped == responseOutputLocked => stoppedEarlyFlag

(* Once a Response is locked, no late completion changes output or edges. *)
THEOREM EngineResponseIsFinal == Spec => ResponseIsFinal
<1>1. Init => LockedIsStopped
  BY DEF Init, LockedIsStopped
<1>2. LockedIsStopped /\ [Next]_vars =>
        /\ LockedIsStopped'
        /\ [responseOutputLocked =>
              UNCHANGED <<finalOutput, pausedBlocks, edgeVars, readyQueue>>]_vars
  <2>. SUFFICES ASSUME LockedIsStopped, Next
                PROVE  /\ LockedIsStopped'
                       /\ responseOutputLocked =>
                            UNCHANGED <<finalOutput, pausedBlocks, edgeVars, readyQueue>>
    BY DEF LockedIsStopped, vars, flagVars
  <2>1. CASE MainLoop \/ SignalCancelled \/ Ended
    BY <2>1 DEF MainLoop, ProcessQueue, WakeUp, LeaveLoop, AllSettled, SignalCancelled, Ended,
                Halted, LockedIsStopped, vars, flagVars
  <2>2. ASSUME NEW t \in executing, BlockReturns(t) \/ Completes(t)
        PROVE  /\ LockedIsStopped'
               /\ responseOutputLocked =>
                    UNCHANGED <<finalOutput, pausedBlocks, edgeVars, readyQueue>>
    BY <2>2 DEF BlockReturns, Completes, CompletionDropped, CompletionThrows, CompletionPauses,
                CompletionResponds, CompletionStops, CompletionRoutes, Handled, Frozen,
                LockedIsStopped, flagVars
  <2>. QED BY <2>1, <2>2 DEF Next
<1>. QED BY <1>1, <1>2, PTL DEF Spec, ResponseIsFinal

----------------------------------------------------------------------------
(* Pauses and outcomes.                                                     *)

(* A block whose pause is recorded ended by pausing. *)
PausedByOutput ==
  \A p \in pausedBlocks : p \in Nodes /\ blockStates[p] # None /\ blockStates[p].kind = "pause"

LEMMA NextPausedByOutput == IInv /\ PausedByOutput /\ [Next]_vars => PausedByOutput'
<1>. SUFFICES ASSUME IInv, PausedByOutput, [Next]_vars PROVE PausedByOutput'
  OBVIOUS
<1>1. ASSUME NEW t \in executing, BlockReturns(t) PROVE PausedByOutput'
  <2>1. PICK out \in BlockOutput :
          /\ t.node \in Nodes /\ blockStates[t.node] = None
          /\ blockStates' = [blockStates EXCEPT ![t.node] = out]
    BY <1>1, BlockReturnsOutput
  <2>2. UNCHANGED pausedBlocks
    BY <1>1 DEF BlockReturns, flagVars
  <2>. QED BY <2>1, <2>2 DEF PausedByOutput, IInv, TypeOK
<1>2. ASSUME NEW t \in executing, CompletionPauses(t) PROVE PausedByOutput'
  <2>1. /\ t.node \in Nodes /\ blockStates[t.node] # None /\ blockStates[t.node].kind = "pause"
        /\ UNCHANGED blockStates /\ pausedBlocks' = pausedBlocks \cup {t.node}
    BY <1>2, TasksTyped DEF CompletionPauses, Handled, Settles, IInv, OneCallPerNode
  <2>. QED BY <2>1 DEF PausedByOutput
<1>3. CASE UNCHANGED <<pausedBlocks, blockStates>>
  BY <1>3 DEF PausedByOutput
<1>4. CASE MainLoop \/ SignalCancelled \/ UNCHANGED vars
  BY <1>3, <1>4 DEF MainLoop, ProcessQueue, WakeUp, LeaveLoop, AllSettled, SignalCancelled,
                    flagVars, vars
<1>5. ASSUME NEW t \in executing, Completes(t), ~CompletionPauses(t) PROVE PausedByOutput'
  BY <1>3, <1>5 DEF Completes, CompletionDropped, CompletionThrows, CompletionResponds,
                    CompletionStops, CompletionRoutes, Handled, Settles, flagVars
<1>. QED BY <1>1, <1>2, <1>4, <1>5 DEF Next, Ended

(* While a pause stands, nothing that waits on the paused block has run, and *)
(* its edges are still there to be released by the resume.                   *)
THEOREM EnginePauseHoldsConsumers == PlainDag => (Spec => []PauseHoldsConsumers)
<1>. SUFFICES ASSUME PlainDag PROVE Spec => []PauseHoldsConsumers
  OBVIOUS
<1>1. Init => PausedByOutput
  BY DEF Init, PausedByOutput
<1>2. IInv /\ PausedByOutput /\ [Next]_vars => PausedByOutput'
  BY NextPausedByOutput
<1>3. IInv /\ PausedByOutput => PauseHoldsConsumers
  <2>. SUFFICES ASSUME IInv, PausedByOutput, NEW p \in pausedBlocks, NEW e \in OutEdges(p)
                PROVE  /\ starts[e.dst] = 0
                       /\ p \in incomingEdges[e.dst] /\ e \notin deactivatedEdges
    BY DEF PauseHoldsConsumers
  <2>1. e \in Edges /\ e.src = p /\ p \in Nodes /\ e.dst \in Nodes /\ ~EndedWithOutput(p)
    BY EdgesAssumption DEF OutEdges, PausedByOutput, EndedWithOutput
  <2>2. p \in incomingEdges[e.dst]
    BY <2>1 DEF IInv, SettledSources
  <2>3. p \notin Promise!Skipped
    BY <2>1, SkippedNeverCalled DEF PausedByOutput, Called, IInv, OneCallPerNode
  <2>4. e \notin deactivatedEdges
    BY <2>1, <2>3 DEF IInv, DeadEdges
  <2>5. ~IsNodeReady(e.dst)
    BY <2>1, <2>2, <2>4 DEF IsNodeReady, NoActiveIncoming, InEdges
  <2>6. ~Called(e.dst)
    BY <2>1, <2>5 DEF IInv, CalledWhenReady
  <2>. QED BY <2>1, <2>2, <2>4, <2>6 DEF IInv, OneCallPerNode, Called
<1>4. Spec => []IInv
  BY IInvInvariant
<1>. QED BY <1>1, <1>2, <1>3, <1>4, PTL DEF Spec

(* What the main loop knows when it has left the loop, and what then holds   *)
(* of the outcome.  A call can only settle after that if the run was halted. *)
OutcomeInv ==
  /\ pc = "waitAll" => (executing = {} /\ readyQueue = {}) \/ Halted
  /\ responseOutputLocked => stoppedEarlyFlag /\ finalOutput \in Responses
  /\ errorFlag => executionError # None
  /\ executionError # None =>
       blockStates[executionError] # None /\ blockStates[executionError].kind = "throw"
  /\ status # "running" => pc = "done"
  /\ status \in {"success", "failed"} => executing = {}
  /\ OutcomeIsHonest

LEMMA NextOutcomeInv == IInv /\ OutcomeInv /\ [Next]_vars => OutcomeInv'
<1>. SUFFICES ASSUME IInv, OutcomeInv, [Next]_vars PROVE OutcomeInv'
  OBVIOUS
<1>1. CASE ProcessQueue
  BY <1>1 DEF ProcessQueue, OutcomeInv, OutcomeIsHonest, flagVars, errorVars
<1>2. CASE WakeUp
  BY <1>2 DEF WakeUp, OutcomeInv, OutcomeIsHonest, flagVars, errorVars
<1>3. CASE LeaveLoop
  BY <1>3 DEF LeaveLoop, Finish, Outcome, HasWork, Halted, OutcomeInv, OutcomeIsHonest, flagVars,
              errorVars
<1>4. CASE AllSettled
  BY <1>4 DEF AllSettled, Finish, Outcome, Halted, OutcomeInv, OutcomeIsHonest, flagVars,
              errorVars
<1>5. CASE SignalCancelled
  BY <1>5 DEF SignalCancelled, Halted, OutcomeInv, OutcomeIsHonest, flagVars, errorVars, loopVars
<1>6. ASSUME NEW t \in executing, BlockReturns(t) PROVE OutcomeInv'
  <2>1. PICK out \in BlockOutput :
          /\ t.node \in Nodes /\ blockStates[t.node] = None
          /\ blockStates' = [blockStates EXCEPT ![t.node] = out]
    BY <1>6, BlockReturnsOutput
  <2>2. executionError # None =>
          /\ executionError \in Nodes /\ executionError # t.node
          /\ blockStates'[executionError] = blockStates[executionError]
    BY <2>1 DEF OutcomeInv, IInv, TypeOK
  <2>3. status \notin {"success", "failed"}
    BY DEF OutcomeInv
  <2>. QED BY <1>6, <2>2, <2>3 DEF BlockReturns, Halted, OutcomeInv, OutcomeIsHonest, flagVars,
                                   errorVars, loopVars
<1>7. ASSUME NEW t \in executing, Completes(t) PROVE OutcomeInv'
  <2>1. status \notin {"success", "failed"} /\ (pc = "waitAll" => Halted)
    BY DEF OutcomeInv
  <2>2. CASE CompletionThrows(t)
    <3>1. blockStates[t.node] # None /\ blockStates[t.node].kind = "throw"
      BY <2>2 DEF CompletionThrows, Settles, IInv, OneCallPerNode
    <3>2. t.node # None
      BY EdgesAssumption DEF IInv, TypeOK, Task
    <3>. QED BY <2>1, <2>2, <3>1, <3>2 DEF CompletionThrows, Settles, Halted, OutcomeInv,
                                     OutcomeIsHonest, flagVars, loopVars
  <2>3. CASE CompletionPauses(t)
    BY <2>1, <2>3 DEF CompletionPauses, Handled, Settles, Halted, OutcomeInv, OutcomeIsHonest,
                      errorVars, loopVars
  <2>4. CASE CompletionDropped(t)
    BY <2>1, <2>4 DEF CompletionDropped, Settles, Halted, OutcomeInv, OutcomeIsHonest, flagVars,
                      errorVars, loopVars
  <2>5. CASE CompletionResponds(t)
    BY <2>1, <2>5 DEF CompletionResponds, Handled, Settles, Halted, OutcomeInv, OutcomeIsHonest,
                      errorVars, loopVars
  <2>6. CASE CompletionStops(t) \/ CompletionRoutes(t)
    BY <2>1, <2>6 DEF CompletionStops, CompletionRoutes, NextFinalOutput, Handled, Settles, Frozen,
                      Halted, OutcomeInv, OutcomeIsHonest, errorVars, loopVars
  <2>. QED BY <1>7, <2>2, <2>3, <2>4, <2>5, <2>6 DEF Completes
<1>8. CASE UNCHANGED vars
  BY <1>8 DEF vars, Halted, OutcomeInv, OutcomeIsHonest, flagVars, errorVars, loopVars
<1>. QED BY <1>1, <1>2, <1>3, <1>4, <1>5, <1>6, <1>7, <1>8 DEF Next, MainLoop, Ended

(* The status a caller sees agrees with the state the run ended in. *)
THEOREM EngineOutcomeIsHonest == PlainDag => (Spec => []OutcomeIsHonest)
<1>. SUFFICES ASSUME PlainDag PROVE Spec => []OutcomeIsHonest
  OBVIOUS
<1>1. Init => OutcomeInv
  BY DEF Init, OutcomeInv, OutcomeIsHonest
<1>2. IInv /\ OutcomeInv /\ [Next]_vars => OutcomeInv'
  BY NextOutcomeInv
<1>3. OutcomeInv => OutcomeIsHonest
  BY DEF OutcomeInv
<1>4. Spec => []IInv
  BY IInvInvariant
<1>. QED BY <1>1, <1>2, <1>3, <1>4, PTL DEF Spec

----------------------------------------------------------------------------
(* Nothing due is left behind, a cascade apart.                             *)

(* Every call answers: it is in flight, or its output is stored. *)
CallsAnswer ==
  \A n \in Nodes : starts[n] = 1 =>
    blockStates[n] # None \/ \E t \in executing : t.node = n

(* Outside loops and parallels no output selects a control route. *)
NoControlRoute ==
  \A n \in Nodes : blockStates[n] # None => blockStates[n].route \notin ControlHandles

(* Each edge of a block whose completion was handled is settled: a target it  *)
(* took no longer awaits it, and an edge it refused is dead.                  *)
CompletionsHandled ==
  \A e \in Edges :
    EndedWithOutput(e.src) /\ ~stoppedEarlyFlag =>
      /\ Promise!Taken(e) => e.src \notin incomingEdges[e.dst]
      /\ Promise!Refused(e) => e \in deactivatedEdges

(* A node that was activated and waits for nothing was called, or one of its *)
(* feeders was cut off by a cascade.                                         *)
ReadyIsCalled ==
  \A n \in nodesWithActivatedEdge :
    IsNodeReady(n) => Called(n) \/ \E e \in InEdges(n) : e.src \in Promise!Skipped

DeliveryInv ==
  /\ Called(Trigger)
  /\ CallsAnswer
  /\ NoControlRoute
  /\ CompletionsHandled
  /\ ReadyIsCalled

LEMMA InitDeliveryInv == PlainDag /\ Init => DeliveryInv
<1>. SUFFICES ASSUME PlainDag, Init PROVE DeliveryInv
  OBVIOUS
<1>1. Called(Trigger)
  BY DEF Init, Called
<1>2. CallsAnswer /\ NoControlRoute
  BY DEF Init, CallsAnswer, NoControlRoute
<1>3. CompletionsHandled
  BY EdgesAssumption DEF Init, CompletionsHandled, EndedWithOutput
<1>4. ReadyIsCalled
  BY DEF Init, EdgeInit, ReadyIsCalled
<1>. QED BY <1>1, <1>2, <1>3, <1>4 DEF DeliveryInv

(* No handler selects a control route. *)
LEMMA ResultsRoute ==
  ASSUME NEW n \in Nodes, NEW out \in Results(n)
  PROVE  out.route \notin ControlHandles
<1>1. NoRoute \notin ControlHandles /\ \A r \in Options \cup {NoRoute} : r \notin ControlHandles
  BY HandlesAssumption DEF Handles
<1>2. PICK r \in Options \cup {NoRoute} : out.route = r
  <2>1. /\ Result("pause", NoRoute, FALSE).route = NoRoute
        /\ Result("throw", NoRoute, TRUE).route = NoRoute
        /\ Result("done", NoRoute, TRUE).route = NoRoute
        /\ \A r \in Options \cup {NoRoute} : Result("done", r, FALSE).route = r
    BY DEF Result
  <2>2. CASE \E r \in (IF n \in Decisions THEN OptionsOf[n] ELSE {NoRoute}) :
                out = Result("done", r, FALSE)
    <3>1. PICK r \in Options \cup {NoRoute} : out = Result("done", r, FALSE)
      BY <2>2, EngineAssumption
    <3>. QED BY <2>1, <3>1
  <2>. QED BY <2>1, <2>2 DEF Results
<1>. QED BY <1>1, <1>2

(* A step that moves no edge and no output keeps it, if calls stay in flight *)
(* or queued nodes become calls.                                             *)
LEMMA EdgesKeptDelivery ==
  ASSUME TypeOK, DeliveryInv, UNCHANGED <<edgeVars, blockStates>>,
         \A n \in Nodes : Called(n) => Called(n)',
         CallsAnswer',
         \A n \in Nodes : EndedWithOutput(n)' /\ ~stoppedEarlyFlag' =>
           EndedWithOutput(n) /\ ~stoppedEarlyFlag
  PROVE  DeliveryInv'
<1>1. ASSUME NEW e \in Edges
      PROVE  /\ Promise!Refused(e) => Promise!Refused(e)'
             /\ Promise!Refused(e)' => Promise!Refused(e)
             /\ Promise!Taken(e)' => Promise!Taken(e)
  BY DEF Promise!Refused, Promise!Taken
<1>2. Promise!Skipped \subseteq Promise!Skipped'
  BY <1>1, SkippedGrows
<1>3. Called(Trigger)'
  BY EdgesAssumption DEF DeliveryInv
<1>4. NoControlRoute'
  BY DEF DeliveryInv, NoControlRoute
<1>5. CompletionsHandled'
  BY <1>1, EdgesAssumption DEF DeliveryInv, CompletionsHandled, edgeVars
<1>. QED
  <2>1. ReadyIsCalled'
    <3>. SUFFICES ASSUME NEW n \in nodesWithActivatedEdge', IsNodeReady(n)'
                  PROVE  Called(n)' \/ \E e \in InEdges(n) : e.src \in Promise!Skipped'
      BY DEF ReadyIsCalled, InEdges
    <3>1. n \in nodesWithActivatedEdge /\ IsNodeReady(n)
      BY DEF edgeVars, IsNodeReady, NoActiveIncoming
    <3>2. Called(n) => Called(n)'
      BY <3>1 DEF TypeOK, EdgeTypeOK
    <3>. QED BY <1>2, <3>1, <3>2 DEF DeliveryInv, ReadyIsCalled
  <2>. QED BY <1>3, <1>4, <1>5, <2>1 DEF DeliveryInv

(* The only step that stores an output.                                     *)
LEMMA BlockReturnsDelivery ==
  ASSUME IInv, DeliveryInv, NEW t \in executing, BlockReturns(t)
  PROVE  DeliveryInv'
<1>1. PICK out \in Results(t.node) :
        /\ t.node \in Nodes /\ blockStates[t.node] = None /\ out \in BlockOutput
        /\ executing' = (executing \ {t}) \cup {[t EXCEPT !.output = out]}
        /\ blockStates' = [blockStates EXCEPT ![t.node] = out]
  BY TasksTyped, ResultsTyped DEF IInv, OneCallPerNode, BlockReturns
<1>. DEFINE r == [t EXCEPT !.output = out]
<1>2. r.node = t.node /\ r \in executing'
  BY <1>1, TasksTyped DEF IInv, Task
<1>3. \A n \in Nodes : n # t.node => blockStates'[n] = blockStates[n]
  BY <1>1 DEF IInv, TypeOK
<1>4. blockStates'[t.node] = out /\ out # None
  BY <1>1, EdgesAssumption DEF IInv, TypeOK
<1>5. \A n \in Nodes : EndedWithOutput(n)' => n # t.node /\ EndedWithOutput(n)
  <2>. SUFFICES ASSUME NEW n \in Nodes, EndedWithOutput(n)'
                PROVE  n # t.node /\ EndedWithOutput(n)
    OBVIOUS
  <2>1. n # t.node
    BY <1>2 DEF EndedWithOutput
  <2>2. \A u \in executing : u.node # n
    BY <1>1, <2>1 DEF EndedWithOutput
  <2>. QED BY <1>3, <2>1, <2>2 DEF EndedWithOutput
<1>6. ASSUME NEW e \in Edges, e.src # t.node
      PROVE  /\ Promise!Refused(e) => Promise!Refused(e)'
             /\ Promise!Refused(e)' => Promise!Refused(e)
             /\ Promise!Taken(e)' => Promise!Taken(e)
  BY <1>3, <1>6, EdgesAssumption DEF Promise!Refused, Promise!Taken
<1>7. Promise!Skipped \subseteq Promise!Skipped'
  <2>1. \A e \in Edges : Promise!Refused(e) => Promise!Refused(e)'
    BY <1>1, <1>6, EdgesAssumption DEF Promise!Refused
  <2>. QED BY <2>1, SkippedGrows
<1>8. UNCHANGED <<incomingEdges, deactivatedEdges, nodesWithActivatedEdge, readyQueue, starts,
                  stoppedEarlyFlag>>
  BY DEF BlockReturns, edgeVars, flagVars
<1>9. Called(Trigger)'
  BY <1>8 DEF DeliveryInv, Called
<1>10. CallsAnswer'
  <2>. SUFFICES ASSUME NEW n \in Nodes, starts'[n] = 1, n # t.node
                PROVE  blockStates'[n] # None \/ \E u \in executing' : u.node = n
    BY <1>4 DEF CallsAnswer
  <2>1. CASE blockStates[n] # None
    BY <1>3, <2>1
  <2>2. CASE \E u \in executing : u.node = n
    BY <1>1, <2>2
  <2>. QED BY <1>8, <2>1, <2>2 DEF DeliveryInv, CallsAnswer
<1>11. NoControlRoute'
  <2>1. out.route \notin ControlHandles
    BY <1>1, ResultsRoute
  <2>. QED BY <1>3, <1>4, <2>1 DEF DeliveryInv, NoControlRoute
<1>12. CompletionsHandled'
  BY <1>5, <1>6, <1>8, EdgesAssumption DEF DeliveryInv, CompletionsHandled
<1>13. ReadyIsCalled'
  BY <1>7, <1>8 DEF DeliveryInv, ReadyIsCalled, IsNodeReady, NoActiveIncoming, Called, InEdges
<1>. QED BY <1>9, <1>10, <1>11, <1>12, <1>13 DEF DeliveryInv

(* Routing settles each edge of the block, and queues a node that was        *)
(* activated and lost its last live edge, unless a cascade took that edge.    *)
LEMMA RoutesDelivery ==
  ASSUME PlainDag, IInv, DeliveryInv, NEW t \in executing, CompletionRoutes(t)
  PROVE  DeliveryInv'
<1>. DEFINE n == t.node
            out == t.output
            targets == ActivatedTargets(n, out)
            dropped == EdgesToDeactivate(n, out)
            cut == CutOff(dropped, nodesWithActivatedEdge \cup targets)
<1>1. /\ n \in Nodes /\ out = blockStates[n] /\ out # None /\ out.kind = "done"
      /\ starts[n] = 1 /\ out.route \notin ControlHandles
  BY TasksTyped
     DEF IInv, OneCallPerNode, CompletionRoutes, Handled, Settles, DeliveryInv, NoControlRoute
<1>2. /\ executing' = executing \ {t} /\ UNCHANGED <<starts, blockStates, stoppedEarlyFlag>>
      /\ readyQueue' = readyQueue \cup ReadyNodes(n, out)
      /\ ProcessOutgoingEdges(n, out)
  BY DEF CompletionRoutes, Handled, Settles
<1>3. /\ nodesWithActivatedEdge' = nodesWithActivatedEdge \cup targets
      /\ deactivatedEdges' = deactivatedEdges \cup dropped \cup ForwardEdgesOf(cut)
      /\ incomingEdges' = [m \in Nodes |-> IF m \in targets THEN incomingEdges[m] \ {n}
                                                            ELSE incomingEdges[m]]
  BY <1>2 DEF ProcessOutgoingEdges, Deactivate
<1>4. ASSUME NEW e \in Edges
      PROVE  /\ Promise!Refused(e) => Promise!Refused(e)'
             /\ Promise!Refused(e)' => Promise!Refused(e)
             /\ Promise!Taken(e)' => Promise!Taken(e)
  BY <1>2 DEF Promise!Refused, Promise!Taken
<1>5. Promise!Skipped \subseteq Promise!Skipped'
  BY <1>4, SkippedGrows
<1>6. \A e \in Edges : e.src = n =>
        /\ Promise!Taken(e) => e.dst \in targets
        /\ Promise!Refused(e) => e \in dropped
  BY <1>1 DEF PlainDag, ActivatedTargets, EdgesToDeactivate, OutEdges, Promise!Taken,
              Promise!Refused, Promise!ShouldActivate, ShouldActivate, Promise!ControlHandles,
              ControlHandles, Promise!LoopRoutes, LoopRoutes, Promise!ParallelRoutes,
              ParallelRoutes
<1>7. cut \subseteq Promise!Skipped
  <2>1. \A e \in dropped : e \in Edges /\ Promise!Refused(e)
    BY <1>1 DEF EdgesToDeactivate, OutEdges, Promise!Refused, Promise!ShouldActivate,
                ShouldActivate, Promise!ControlHandles, ControlHandles, Promise!LoopRoutes,
                LoopRoutes, Promise!ParallelRoutes, ParallelRoutes
  <2>2. targets \subseteq Nodes
    BY EdgesAssumption DEF ActivatedTargets, OutEdges
  <2>3. nodesWithActivatedEdge \cup targets \in SUBSET Nodes
    BY <2>2 DEF IInv, TypeOK, EdgeTypeOK
  <2>4. InEdges(Trigger) = {} /\ SilentEdges = {}
    BY DEF PlainDag, InEdges
  <2>. QED BY <2>1, <2>3, <2>4, CutOffIsSkipped
<1>8. \A m \in Nodes : Called(m) => Called(m)'
  BY <1>2 DEF Called
<1>9. Called(Trigger)'
  BY <1>8, EdgesAssumption DEF DeliveryInv
<1>10. CallsAnswer'
  BY <1>1, <1>2 DEF DeliveryInv, CallsAnswer
<1>11. NoControlRoute'
  BY <1>2 DEF DeliveryInv, NoControlRoute
<1>12. CompletionsHandled'
  <2>. SUFFICES ASSUME NEW e \in Edges, EndedWithOutput(e.src)', ~stoppedEarlyFlag'
                PROVE  /\ Promise!Taken(e) => e.src \notin incomingEdges'[e.dst]
                       /\ Promise!Refused(e) => e \in deactivatedEdges'
    BY <1>4 DEF CompletionsHandled
  <2>. e.src \in Nodes /\ e.dst \in Nodes
    BY EdgesAssumption
  <2>1. CASE e.src = n
    BY <1>3, <1>6, <2>1
  <2>2. CASE e.src # n
    <3>1. EndedWithOutput(e.src)
      BY <1>2, <2>2 DEF EndedWithOutput
    <3>. QED BY <1>2, <1>3, <3>1 DEF DeliveryInv, CompletionsHandled
  <2>. QED BY <2>1, <2>2
<1>13. ReadyIsCalled'
  <2>. SUFFICES ASSUME NEW m \in nodesWithActivatedEdge', IsNodeReady(m)',
                       ~Called(m)', \A e \in InEdges(m) : e.src \notin Promise!Skipped'
                PROVE  FALSE
    BY DEF ReadyIsCalled, InEdges
  <2>1. m \in Nodes /\ ~Called(m)
    BY <1>3, <1>8, EdgesAssumption DEF ActivatedTargets, OutEdges, IInv, TypeOK, EdgeTypeOK
  <2>2. m \notin targets
    <3>1. m \in targets => m \in ReadyTargets(n, out)
      BY DEF ReadyTargets
    <3>. QED BY <1>2, <3>1 DEF ReadyNodes, Called
  <2>3. m \in nodesWithActivatedEdge /\ incomingEdges'[m] = incomingEdges[m]
    BY <1>3, <2>1, <2>2
  <2>4. ~IsNodeReady(m)
    BY <1>5, <2>1, <2>3 DEF DeliveryInv, ReadyIsCalled
  <2>5. PICK e \in InEdges(m) : e \notin deactivatedEdges /\ e \in deactivatedEdges'
    BY <2>3, <2>4 DEF IsNodeReady, NoActiveIncoming, InEdges
  <2>6. CASE e \in dropped
    <3>1. out.route \notin ExitHandles
      BY <1>1 DEF ExitHandles, ControlHandles, LoopRoutes, ParallelRoutes
    <3>2. e.dst = m
      BY <2>5 DEF InEdges
    <3>3. m \in ReadyConvergences(n, out)
      BY <2>1, <2>2, <2>6, <3>1, <3>2 DEF ReadyConvergences
    <3>. QED BY <1>2, <3>3 DEF ReadyNodes, Called
  <2>7. CASE e \in ForwardEdgesOf(cut)
    BY <1>5, <1>7, <2>7 DEF ForwardEdgesOf
  <2>. QED BY <1>3, <2>5, <2>6, <2>7
<1>. QED BY <1>9, <1>10, <1>11, <1>12, <1>13 DEF DeliveryInv

LEMMA NextDeliveryInv == PlainDag /\ IInv /\ DeliveryInv /\ [Next]_vars => DeliveryInv'
<1>. SUFFICES ASSUME PlainDag, IInv, DeliveryInv, [Next]_vars PROVE DeliveryInv'
  OBVIOUS
<1>. TypeOK
  BY DEF IInv
<1>1. CASE ProcessQueue
  <2>1. UNCHANGED <<edgeVars, blockStates, stoppedEarlyFlag>> /\ executing \subseteq executing'
    BY <1>1 DEF ProcessQueue, flagVars
  <2>2. \A n \in Nodes : n \in readyQueue => starts[n] = 0
    BY DEF IInv, OneCallPerNode
  <2>3. \A n \in Nodes : Called(n) => Called(n)'
    BY <1>1, <2>2 DEF ProcessQueue, Called
  <2>4. CallsAnswer'
    <3>. SUFFICES ASSUME NEW n \in Nodes, starts'[n] = 1, blockStates'[n] = None
                  PROVE  \E u \in executing' : u.node = n
      BY DEF CallsAnswer
    <3>1. CASE n \in readyQueue
      <4>. DEFINE call == [node |-> n, nth |-> starts[n] + 1, fresh |-> n \notin executedBlocks,
                           output |-> None]
      <4>1. call \in executing'
        BY <1>1, <3>1 DEF ProcessQueue
      <4>2. call.node = n
        OBVIOUS
      <4>. QED BY ONLY <4>1, <4>2
    <3>2. CASE n \notin readyQueue
      BY <1>1, <2>1, <3>2 DEF ProcessQueue, DeliveryInv, CallsAnswer
    <3>. QED BY <3>1, <3>2
  <2>5. \A n \in Nodes : EndedWithOutput(n)' /\ ~stoppedEarlyFlag' =>
          EndedWithOutput(n) /\ ~stoppedEarlyFlag
    BY <2>1 DEF EndedWithOutput
  <2>. QED BY <2>1, <2>3, <2>4, <2>5, EdgesKeptDelivery
<1>2. CASE WakeUp \/ LeaveLoop \/ AllSettled \/ SignalCancelled \/ UNCHANGED vars
  <2>1. UNCHANGED <<edgeVars, blockStates, stoppedEarlyFlag, executing, starts, readyQueue>>
    BY <1>2 DEF WakeUp, LeaveLoop, AllSettled, SignalCancelled, vars, flagVars
  <2>2. CallsAnswer'
    BY <2>1 DEF DeliveryInv, CallsAnswer
  <2>3. \A n \in Nodes : EndedWithOutput(n)' /\ ~stoppedEarlyFlag' =>
          EndedWithOutput(n) /\ ~stoppedEarlyFlag
    BY <2>1 DEF EndedWithOutput
  <2>4. \A n \in Nodes : Called(n) => Called(n)'
    BY <2>1 DEF Called
  <2>. QED BY <2>1, <2>2, <2>3, <2>4, EdgesKeptDelivery
<1>3. ASSUME NEW t \in executing, BlockReturns(t) PROVE DeliveryInv'
  BY <1>3, BlockReturnsDelivery
<1>4. ASSUME NEW t \in executing, CompletionRoutes(t) PROVE DeliveryInv'
  BY <1>4, RoutesDelivery
<1>5. ASSUME NEW t \in executing,
             \/ CompletionDropped(t) \/ CompletionThrows(t) \/ CompletionPauses(t)
             \/ CompletionResponds(t) \/ CompletionStops(t)
      PROVE  DeliveryInv'
  <2>1. /\ executing' = executing \ {t} /\ t.output # None
        /\ UNCHANGED <<edgeVars, blockStates, starts, readyQueue>>
    BY <1>5 DEF CompletionDropped, CompletionThrows, CompletionPauses, CompletionResponds,
                CompletionStops, Handled, Settles
  <2>2. t.output = blockStates[t.node] /\ t.fresh /\ t.node \in Nodes
    BY TasksTyped DEF IInv, OneCallPerNode
  <2>3. t.output.kind # "done" \/ stoppedEarlyFlag'
    BY <1>5, <2>2 DEF CompletionDropped, CompletionThrows, CompletionPauses, CompletionResponds,
                      CompletionStops, Frozen, flagVars
  <2>4. stoppedEarlyFlag => stoppedEarlyFlag'
    BY <1>5 DEF CompletionDropped, CompletionThrows, CompletionPauses, CompletionResponds,
                CompletionStops, flagVars
  <2>5. CallsAnswer'
    BY <2>1, <2>2 DEF DeliveryInv, CallsAnswer
  <2>6. \A n \in Nodes : EndedWithOutput(n)' /\ ~stoppedEarlyFlag' =>
          EndedWithOutput(n) /\ ~stoppedEarlyFlag
    BY <2>1, <2>2, <2>3, <2>4 DEF EndedWithOutput
  <2>7. \A n \in Nodes : Called(n) => Called(n)'
    BY <2>1 DEF Called
  <2>. QED BY <2>1, <2>5, <2>6, <2>7, EdgesKeptDelivery
<1>. QED BY <1>1, <1>2, <1>3, <1>4, <1>5 DEF Next, MainLoop, Completes, Ended

(* When a run that nothing stopped early ends well, the blocks that took or  *)
(* refused a waiting block have all been handled, so it was activated and    *)
(* waits for nothing: it was called, unless a cascade cut off one of its     *)
(* feeders.                                                                  *)
THEOREM EngineLeftBehindOnlyByCascade == PlainDag => (Spec => []LeftBehindOnlyByCascade)
<1>. SUFFICES ASSUME PlainDag PROVE Spec => []LeftBehindOnlyByCascade
  OBVIOUS
<1>1. Init => OutcomeInv
  BY DEF Init, OutcomeInv, OutcomeIsHonest
<1>2. IInv /\ OutcomeInv /\ [Next]_vars => OutcomeInv'
  BY NextOutcomeInv
<1>3. Init => DeliveryInv
  BY InitDeliveryInv
<1>4. IInv /\ DeliveryInv /\ [Next]_vars => DeliveryInv'
  BY NextDeliveryInv
<1>5. IInv /\ OutcomeInv /\ DeliveryInv => LeftBehindOnlyByCascade
  <2>. SUFFICES ASSUME IInv, OutcomeInv, DeliveryInv, status = "success", ~stoppedEarlyFlag,
                       NEW n \in Nodes, Promise!Due(n),
                       \A e \in InEdges(n) : e.src \notin Promise!Skipped
                PROVE  FALSE
    BY DEF LeftBehindOnlyByCascade
  <2>1. executing = {} /\ readyQueue = {}
    BY DEF OutcomeInv, OutcomeIsHonest
  <2>2. blockStates[n] = None
    BY DEF Promise!Due
  <2>3. ~Called(n)
    BY <2>1, <2>2 DEF DeliveryInv, CallsAnswer, Called
  <2>4. n # Trigger
    BY <2>3 DEF DeliveryInv
  <2>5. \A e \in InEdges(n) : e \in Edges /\ e.dst = n
                               /\ (Promise!Taken(e) \/ Promise!Refused(e))
    BY DEF Promise!Due, Promise!InEdges, InEdges
  <2>6. \A e \in InEdges(n) : EndedWithOutput(e.src)
    BY <2>1, <2>5 DEF EndedWithOutput, Promise!Taken, Promise!Refused
  <2>7. IsNodeReady(n)
    BY <2>5, <2>6 DEF DeliveryInv, CompletionsHandled, IsNodeReady, NoActiveIncoming
  <2>8. PICK e \in InEdges(n) : Promise!Taken(e)
    BY <2>4 DEF Promise!Due, Promise!InEdges, InEdges
  <2>9. n \in nodesWithActivatedEdge
    BY <2>5, <2>6, <2>8 DEF DeliveryInv, CompletionsHandled, IInv, SettledSources
  <2>. QED BY <2>3, <2>7, <2>9 DEF DeliveryInv, ReadyIsCalled
<1>6. Spec => []IInv
  BY IInvInvariant
<1>. QED BY <1>1, <1>2, <1>3, <1>4, <1>5, <1>6, PTL DEF Spec
=============================================================================

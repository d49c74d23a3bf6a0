-------------------------- MODULE LoopEngineProofs --------------------------
(***************************************************************************)
(* Theorems about runs with loops, for every DAG, every nesting of loops,   *)
(* every count and every interleaving: types; what a Response stops, inside *)
(* loops too; and that the edges revived between two rounds make the whole  *)
(* body wait again.                                                        *)
(*                                                                         *)
(* Then, on DAGs wired as the edge constructor wires them (LoopsWired) and   *)
(* without a dead end in a loop (BranchesWired): every block waits for its    *)
(* feeders, the rounds of a loop do not overlap, its scopes nest, the engine  *)
(* implements LoopRun, and a loop is left with the results of all its rounds. *)
(* Where the edges are acyclic too, as saving keeps them, a run that succeeds   *)
(* left every loop it entered, unless a join in it was stranded, and no block of *)
(* a loop runs that the run was not sent into.                               *)
(***************************************************************************)
EXTENDS LoopEngine, WorkflowEngineProofs, SequenceTheorems, FiniteSetTheorems

(* The sentinels of loops are nodes, each of its loop. *)
LEMMA SentinelLoop ==
  ASSUME NEW n \in Starts \cup Ends
  PROVE  SubflowOf[n] \in Loops /\ n \in Nodes
BY LoopAssumption DEF Starts, Ends

LEMMA LoopScopedTyped ==
  ASSUME LoopTypeOK, NEW l \in Loops
  PROVE  Scoped(l) \in Scope
<1>1. NewScope \in Scope
  BY DEF NewScope, Scope
<1>2. scope[l] \in Scope \cup {None}
  BY DEF LoopTypeOK
<1>. QED BY <1>1, <1>2 DEF Scoped

LEMMA LoopRoundTyped ==
  ASSUME LoopTypeOK, NEW l \in Loops
  PROVE  Round(l) \in SUBSET Call
<1>1. Members(l) \subseteq Nodes
  BY LoopAssumption DEF Members
<1>2. \A n \in Nodes : starts[n] \in Nat /\ mark[n] \in Nat
  BY DEF LoopTypeOK, TypeOK
<1>. QED BY <1>1, <1>2 DEF Round, Call

LEMMA LoopCollectedTyped ==
  ASSUME NEW s \in Scope
  PROVE  Collected(s) \in Seq(SUBSET Call)
<1>1. s.results \in Seq(SUBSET Call) /\ s.outputs \in SUBSET Call
  BY DEF Scope
<1>2. Append(s.results, s.outputs) \in Seq(SUBSET Call)
  BY <1>1, AppendProperties
<1>. QED BY <1>1, <1>2 DEF Collected

(* A record stays one of its set whichever of its fields an iteration changes. *)
LEMMA RecordUpdated ==
  ASSUME NEW N, NEW O, NEW R,
         NEW s \in [iteration : N, outputs : O, results : R, skipped : BOOLEAN],
         NEW i \in N, NEW o \in O, NEW r \in R
  PROVE  /\ [s EXCEPT !.results = r]
              \in [iteration : N, outputs : O, results : R, skipped : BOOLEAN]
         /\ [s EXCEPT !.iteration = i, !.outputs = o, !.results = r]
              \in [iteration : N, outputs : O, results : R, skipped : BOOLEAN]
OBVIOUS

LEMMA ScopeUpdated ==
  ASSUME NEW s \in Scope, NEW r \in Seq(SUBSET Call)
  PROVE  /\ [s EXCEPT !.results = r] \in Scope
         /\ [s EXCEPT !.iteration = @ + 1, !.outputs = {}, !.results = r] \in Scope
<1>1. s.iteration + 1 \in Nat /\ {} \in SUBSET Call
  BY DEF Scope
<1>2. [s EXCEPT !.iteration = s.iteration + 1, !.outputs = {}, !.results = r] \in Scope
  BY <1>1, RecordUpdated DEF Scope
<1>3. [s EXCEPT !.results = r] \in Scope
  BY <1>1, RecordUpdated DEF Scope
<1>. QED BY <1>2, <1>3

(* An output of a call keeps the scope it is stored in a scope. *)
LEMMA LoopStoreTyped ==
  ASSUME LoopTypeOK, NEW l, NEW key, NEW c \in Call, Store(l, key, c)
  PROVE  scope' \in [Loops -> Scope \cup {None}]
<1>1. CASE l \notin Loops \/ scope[l] = None
  BY <1>1 DEF Store, LoopTypeOK
<1>2. CASE l \in Loops /\ scope[l] # None
  <2>1. scope[l] \in Scope
    BY <1>2 DEF LoopTypeOK
  <2>. DEFINE o == {d \in scope[l].outputs : d[1] # key} \cup {c}
  <2>2. o \in SUBSET Call
    BY <2>1 DEF Scope
  <2>3. [scope[l] EXCEPT !.outputs = o] \in Scope
    BY <2>1, <2>2 DEF Scope
  <2>. QED BY <1>2, <2>3 DEF Store, LoopTypeOK
<1>. QED BY <1>1, <1>2

LEMMA LoopInitTypeOK == LoopInit => LoopTypeOK
<1>1. <<>> \in Seq(SUBSET Call)
  OBVIOUS
<1>. QED BY <1>1, InitTypeOK DEF LoopInit, LoopTypeOK

(* The sentinel of a loop returns, with the scope and the results given.      *)
LEMMA LoopReturnTyped ==
  ASSUME LoopTypeOK, NEW t \in executing, NEW r \in ControlHandles \cup {NoRoute},
         NEW k \in {"done", "throw"}, NEW b \in BOOLEAN,
         SentinelReturns(t, Result(k, r, b))
  PROVE  TypeOK' /\ mark' \in [Nodes -> Nat]
<1>1. Result(k, r, b) \in BlockOutput
  BY DEF Result, BlockOutput
<1>2. [t EXCEPT !.output = Result(k, r, b)] \in Task
  BY <1>1, TasksTyped DEF LoopTypeOK, Task
<1>3. executing' \in SUBSET Task
  BY <1>2 DEF SentinelReturns, Returned, LoopTypeOK, TypeOK
<1>. QED BY <1>3 DEF SentinelReturns, LoopTypeOK, TypeOK, EdgeTypeOK, edgeVars, flagVars, errorVars,
                     loopVars

LEMMA LoopReturnsTypeOK ==
  ASSUME LoopTypeOK, NEW t \in executing, StartReturns(t) \/ EndReturns(t)
  PROVE  LoopTypeOK'
<1>. DEFINE l == SubflowOf[t.node]
            s == Scoped(l)
<1>1. l \in Loops
  BY SentinelLoop DEF StartReturns, EndReturns
<1>2. s \in Scope
  BY <1>1, LoopScopedTyped
<1>3. past' \in [Loops -> Seq(SUBSET Call)]
  <2>1. <<>> \in Seq(SUBSET Call)
    OBVIOUS
  <2>2. past' \in {past, [past EXCEPT ![l] = <<>>]}
    BY DEF StartReturns, EndReturns
  <2>. QED BY <2>1, <2>2 DEF LoopTypeOK
<1>4. misjudged' \in SUBSET Loops
  BY <1>1 DEF StartReturns, EndReturns, LoopTypeOK
<1>5. ASSUME NEW q \in Scope, scope' = [scope EXCEPT ![l] = q]
      PROVE  scope' \in [Loops -> Scope \cup {None}]
  BY <1>5 DEF LoopTypeOK
<1>6. CASE StartReturns(t)
  <2>1. ASSUME NEW enters,
               SentinelReturns(t, Result("done", IF enters THEN NoRoute ELSE "loop_exit", FALSE)),
               scope' = [scope EXCEPT ![l] = [s EXCEPT !.skipped = @ \/ ~enters]]
        PROVE  LoopTypeOK'
    <3>1. TypeOK' /\ mark' \in [Nodes -> Nat]
      <4>1. (IF enters THEN NoRoute ELSE "loop_exit") \in ControlHandles \cup {NoRoute}
        BY DEF ControlHandles, LoopRoutes
      <4>. QED BY <2>1, <4>1, LoopReturnTyped
    <3>2. [s EXCEPT !.skipped = @ \/ ~enters] \in Scope
      BY <1>2 DEF Scope
    <3>. QED BY <1>3, <1>4, <1>5, <1>6, <2>1, <3>1, <3>2 DEF StartReturns, LoopTypeOK
  <2>2. ASSUME SentinelReturns(t, Result("throw", NoRoute, TRUE)),
               scope' = [scope EXCEPT ![l] = s]
        PROVE  LoopTypeOK'
    <3>1. TypeOK' /\ mark' \in [Nodes -> Nat]
      BY <2>2, LoopReturnTyped
    <3>. QED BY <1>2, <1>3, <1>4, <1>5, <1>6, <2>2, <3>1 DEF StartReturns, LoopTypeOK
  <2>. QED BY <1>6, <2>1, <2>2 DEF StartReturns
<1>7. CASE EndReturns(t)
  <2>1. ASSUME NEW q \in Scope, NEW results \in Seq(SUBSET Call), Leaves(t, l, q, results)
        PROVE  LoopTypeOK'
    <3>1. TypeOK' /\ mark' \in [Nodes -> Nat]
      <4>1. "loop_exit" \in ControlHandles
        BY DEF ControlHandles, LoopRoutes
      <4>. QED BY <2>1, <4>1, LoopReturnTyped DEF Leaves
    <3>0. <<>> \in Seq(SUBSET Call)
      OBVIOUS
    <3>2. [q EXCEPT !.results = <<>>] \in Scope
      BY <3>0, ScopeUpdated
    <3>3. scope' \in [Loops -> Scope \cup {None}]
      BY <1>5, <2>1, <3>2 DEF Leaves
    <3>4. aggregated' \in [Loops -> Seq(SUBSET Call)]
      BY <2>1 DEF Leaves, LoopTypeOK
    <3>. QED BY <1>3, <1>4, <3>1, <3>3, <3>4 DEF LoopTypeOK
  <2>2. ASSUME GoesOn(t, l, s)
        PROVE  LoopTypeOK'
    <3>1. TypeOK' /\ mark' \in [Nodes -> Nat]
      <4>1. "loop_continue" \in ControlHandles
        BY DEF ControlHandles, LoopRoutes
      <4>. QED BY <2>2, <4>1, LoopReturnTyped DEF GoesOn
    <3>2. [s EXCEPT !.iteration = @ + 1, !.outputs = {}, !.results = Collected(s)] \in Scope
      BY <1>2, LoopCollectedTyped, ScopeUpdated
    <3>3. scope' \in [Loops -> Scope \cup {None}]
      BY <1>5, <2>2, <3>2 DEF GoesOn
    <3>. QED BY <1>3, <1>4, <2>2, <3>1, <3>3 DEF GoesOn, LoopTypeOK
  <2>3. ASSUME SentinelReturns(t, Result("throw", NoRoute, TRUE)),
               scope' = [scope EXCEPT ![l] = s], UNCHANGED aggregated
        PROVE  LoopTypeOK'
    <3>1. TypeOK' /\ mark' \in [Nodes -> Nat]
      BY <2>3, LoopReturnTyped
    <3>. QED BY <1>2, <1>3, <1>4, <1>5, <2>3, <3>1 DEF LoopTypeOK
  <2>4. /\ s.results \in Seq(SUBSET Call) /\ Collected(s) \in Seq(SUBSET Call)
        /\ [s EXCEPT !.skipped = FALSE] \in Scope /\ [s EXCEPT !.outputs = {}] \in Scope
    BY <1>2, LoopCollectedTyped DEF Scope
  <2>5. \/ Leaves(t, l, s, s.results)
        \/ Leaves(t, l, [s EXCEPT !.skipped = FALSE], s.results)
        \/ GoesOn(t, l, s)
        \/ Leaves(t, l, [s EXCEPT !.outputs = {}], Collected(s))
        \/ /\ SentinelReturns(t, Result("throw", NoRoute, TRUE))
           /\ scope' = [scope EXCEPT ![l] = s] /\ UNCHANGED aggregated
    BY <1>7 DEF EndReturns
  <2>6. CASE Leaves(t, l, s, s.results)
    BY <1>2, <2>1, <2>4, <2>6
  <2>7. CASE Leaves(t, l, [s EXCEPT !.skipped = FALSE], s.results)
    BY <2>1, <2>4, <2>7
  <2>8. CASE Leaves(t, l, [s EXCEPT !.outputs = {}], Collected(s))
    BY <2>1, <2>4, <2>8
  <2>. QED BY <2>2, <2>3, <2>5, <2>6, <2>7, <2>8
<1>. QED BY <1>6, <1>7

LEMMA LoopReadyTyped ==
  ASSUME NEW n, NEW out
  PROVE  ActivatedTargets(n, out) \subseteq Nodes /\ ReadyNodes(n, out) \subseteq Nodes
<1>1. ActivatedTargets(n, out) \subseteq Nodes
  BY EdgesAssumption DEF ActivatedTargets, OutEdges
<1>. QED BY <1>1 DEF ReadyNodes, ReadyTargets, ReadySentinels, CascadeTargets, ReadyConvergences

LEMMA LoopPassesTypeOK ==
  ASSUME LoopTypeOK, NEW t \in executing, Passes(t)
  PROVE  LoopTypeOK'
<1>1. t.node \in Nodes /\ t.output \in BlockOutput /\ <<t.node, t.nth>> \in Call
  BY TasksTyped DEF LoopTypeOK, Passes, SentinelCompletes, Call
<1>2. EdgeTypeOK' /\ readyQueue' \in SUBSET Nodes /\ stoppedEarlyFlag' \in BOOLEAN
  <2>1. CASE t.node = StopAfter
    BY <2>1 DEF Passes, LoopTypeOK, TypeOK, EdgeTypeOK, edgeVars
  <2>2. CASE t.node # StopAfter
    <3>1. /\ ProcessOutgoingEdges(t.node, t.output)
          /\ readyQueue' = readyQueue \cup ReadyNodes(t.node, t.output)
          /\ UNCHANGED stoppedEarlyFlag
      BY <2>2 DEF Passes
    <3>2. EdgeTypeOK' /\ ReadyNodes(t.node, t.output) \subseteq Nodes
      BY <1>1, <3>1, RoutingTyped DEF LoopTypeOK
    <3>. QED BY <3>1, <3>2 DEF LoopTypeOK, TypeOK
  <2>. QED BY <2>1, <2>2
<1>3. /\ blockStates' \in [Nodes -> BlockOutput \cup {None}]
      /\ finalOutput' \in Nodes \cup {None}
      /\ executing' \in SUBSET Task
  BY <1>1 DEF Passes, SentinelCompletes, LoopTypeOK, TypeOK
<1>4. scope' \in [Loops -> Scope \cup {None}]
  <2>1. CASE t.node \in Ends
    BY <1>1, <2>1, LoopStoreTyped DEF Passes
  <2>2. CASE t.node \notin Ends
    BY <2>2 DEF Passes, LoopTypeOK
  <2>. QED BY <2>1, <2>2
<1>5. TypeOK'
  BY <1>2, <1>3 DEF Passes, SentinelCompletes, LoopTypeOK, TypeOK, errorVars, loopVars
<1>. QED BY <1>4, <1>5 DEF Passes, SentinelCompletes, LoopTypeOK, history

(* The revived edges of a loop bring back sources that are nodes. *)
LEMMA LoopRestoredTyped ==
  ASSUME LoopTypeOK, NEW l, NEW n \in Nodes
  PROVE  Restored(l, n) \in SUBSET Nodes
<1>1. RestoredSources(l, n) \subseteq Nodes
  BY EdgesAssumption DEF RestoredSources, InEdges
<1>. QED BY <1>1 DEF Restored, LoopTypeOK, TypeOK, EdgeTypeOK

LEMMA LoopGoesBackTypeOK ==
  ASSUME LoopTypeOK, NEW t \in executing, GoesBack(t)
  PROVE  LoopTypeOK'
<1>. DEFINE l == SubflowOf[t.node]
            targets == ActivatedTargets(t.node, t.output)
<1>1. l \in Loops
  BY SentinelLoop DEF GoesBack, SentinelCompletes, Sentinel
<1>2. targets \subseteq Nodes /\ ReadyNodes(t.node, t.output) \subseteq Nodes
  BY LoopReadyTyped
<1>3. EdgeTypeOK'
  <2>1. incomingEdges' \in [Nodes -> SUBSET Nodes]
    <3>1. incomingEdges' = [n \in Nodes |-> IF n \in targets THEN Restored(l, n) \ {t.node}
                                                              ELSE Restored(l, n)]
      BY DEF GoesBack
    <3>2. \A n \in Nodes : Restored(l, n) \in SUBSET Nodes
      BY LoopRestoredTyped
    <3>. HIDE DEF targets
    <3>. QED BY <3>1, <3>2
  <2>2. deactivatedEdges' \in SUBSET Edges
    BY DEF GoesBack, LoopTypeOK, TypeOK, EdgeTypeOK
  <2>3. nodesWithActivatedEdge' \in SUBSET Nodes
    BY <1>2 DEF GoesBack, LoopTypeOK, TypeOK, EdgeTypeOK
  <2>. QED BY <2>1, <2>2, <2>3 DEF EdgeTypeOK
<1>4. blockStates' \in [Nodes -> BlockOutput \cup {None}]
  BY DEF GoesBack, LoopTypeOK, TypeOK
<1>5. TypeOK'
  BY <1>2, <1>3, <1>4 DEF GoesBack, SentinelCompletes, LoopTypeOK, TypeOK, errorVars, loopVars
<1>6. scope' \in [Loops -> Scope \cup {None}]
  BY DEF GoesBack, LoopTypeOK
<1>7. past' \in [Loops -> Seq(SUBSET Call)]
  <2>1. past[l] \in Seq(SUBSET Call) /\ Round(l) \in SUBSET Call
    BY <1>1, LoopRoundTyped DEF LoopTypeOK
  <2>2. Append(past[l], Round(l)) \in Seq(SUBSET Call) /\ <<>> \in Seq(SUBSET Call)
    BY <2>1, AppendProperties
  <2>3. past' = [m \in Loops |-> IF m = l THEN Append(past[l], Round(l))
                                 ELSE IF m \in Within(l) THEN <<>> ELSE past[m]]
    BY DEF GoesBack
  <2>4. \A m \in Loops : past[m] \in Seq(SUBSET Call)
    BY DEF LoopTypeOK
  <2>. QED BY <2>2, <2>3, <2>4
<1>8. mark' \in [Nodes -> Nat]
  BY DEF GoesBack, LoopTypeOK, TypeOK
<1>. QED BY <1>5, <1>6, <1>7, <1>8 DEF GoesBack, SentinelCompletes, LoopTypeOK

LEMMA LoopBlockEndsTypeOK ==
  ASSUME LoopTypeOK, NEW t \in executing, BlockEnds(t)
  PROVE  LoopTypeOK'
<1>1. TypeOK'
  BY NextTypeOK DEF BlockEnds, Next, LoopTypeOK
<1>2. scope' \in [Loops -> Scope \cup {None}] /\ past' \in [Loops -> Seq(SUBSET Call)]
  <2>. DEFINE l == SubflowOf[t.node]
  <2>1. CASE UNCHANGED <<scope, past>>
    BY <2>1 DEF LoopTypeOK
  <2>2. CASE l \in Loops /\ Initialized(l)
    <3>1. Scoped(l) \in Scope
      BY <2>2, LoopScopedTyped
    <3>2. <<>> \in Seq(SUBSET Call)
      OBVIOUS
    <3>. QED BY <2>2, <3>1, <3>2 DEF Initialized, LoopTypeOK
  <2>. QED BY <2>1, <2>2 DEF BlockEnds
<1>. QED BY <1>1, <1>2 DEF BlockEnds, LoopTypeOK

LEMMA LoopNextTypeOK == LoopTypeOK /\ [LoopNext]_allVars => LoopTypeOK'
<1>. SUFFICES ASSUME LoopTypeOK, [LoopNext]_allVars PROVE LoopTypeOK'
  OBVIOUS
<1>1. ASSUME [Next]_vars, UNCHANGED scopeVars PROVE LoopTypeOK'
  BY <1>1, NextTypeOK DEF LoopTypeOK, scopeVars, history
<1>2. CASE (MainLoop \/ SignalCancelled \/ Ended) /\ UNCHANGED scopeVars
  BY <1>1, <1>2 DEF Next
<1>3. ASSUME NEW t \in executing,
             (CompletionDropped(t) \/ CompletionThrows(t)) /\ UNCHANGED scopeVars
      PROVE  LoopTypeOK'
  BY <1>1, <1>3 DEF Next, Completes
<1>4. ASSUME NEW t \in executing, BlockCompletes(t) PROVE LoopTypeOK'
  <2>1. TypeOK'
    BY <1>4, NextTypeOK DEF BlockCompletes, Next, Completes, LoopTypeOK
  <2>2. <<t.node, t.nth>> \in Call
    BY TasksTyped DEF LoopTypeOK, Call
  <2>3. scope' \in [Loops -> Scope \cup {None}]
    BY <1>4, <2>2, LoopStoreTyped DEF BlockCompletes
  <2>. QED BY <1>4, <2>1, <2>3 DEF BlockCompletes, LoopTypeOK, history
<1>5. ASSUME NEW t \in executing, Returns(t) PROVE LoopTypeOK'
  BY <1>5, LoopBlockEndsTypeOK, LoopReturnsTypeOK DEF Returns
<1>6. CASE UNCHANGED allVars
  BY <1>1, <1>6 DEF allVars
<1>. QED BY <1>2, <1>3, <1>4, <1>5, <1>6, LoopPassesTypeOK, LoopGoesBackTypeOK
     DEF LoopNext, Completion

(* Types are invariant, for every DAG and every nesting of loops. *)
THEOREM LoopTypeCorrect == LoopSpec => []LoopTypeOK
BY LoopInitTypeOK, LoopNextTypeOK, PTL DEF LoopSpec

----------------------------------------------------------------------------
(* Responses.                                                               *)

(* Once a Response inside a loop, or outside, is locked, no sentinel goes     *)
(* back, leaves or revives an edge.                                          *)
THEOREM LoopResponseIsFinal == LoopSpec => ResponseIsFinal
<1>1. LoopInit => LockedIsStopped
  BY DEF LoopInit, Init, LockedIsStopped
<1>2. LockedIsStopped /\ [LoopNext]_allVars =>
        /\ LockedIsStopped'
        /\ [responseOutputLocked =>
              UNCHANGED <<finalOutput, pausedBlocks, edgeVars, readyQueue>>]_vars
  <2>. DEFINE Final == /\ LockedIsStopped'
                       /\ responseOutputLocked =>
                            UNCHANGED <<finalOutput, pausedBlocks, edgeVars, readyQueue>>
  <2>. SUFFICES ASSUME LockedIsStopped, LoopNext PROVE Final
    BY DEF LockedIsStopped, allVars, vars, flagVars
  <2>1. CASE MainLoop \/ SignalCancelled \/ Ended
    BY <2>1 DEF MainLoop, ProcessQueue, WakeUp, LeaveLoop, AllSettled, SignalCancelled, Ended,
                Halted, LockedIsStopped, vars, flagVars
  <2>2. ASSUME NEW t \in executing, Returns(t) PROVE Final
    <3>1. UNCHANGED <<edgeVars, readyQueue, flagVars>>
      <4>1. CASE BlockEnds(t)
        BY <4>1 DEF BlockEnds, BlockReturns
      <4>2. CASE StartReturns(t) \/ EndReturns(t)
        BY <4>2 DEF StartReturns, EndReturns, Leaves, GoesOn, SentinelReturns
      <4>. QED BY <2>2, <4>1, <4>2 DEF Returns
    <3>. QED BY <3>1 DEF LockedIsStopped, flagVars
  <2>3. ASSUME NEW t \in executing, Passes(t) \/ GoesBack(t) PROVE Final
    BY <2>3 DEF Passes, GoesBack, SentinelCompletes, Frozen, LockedIsStopped
  <2>4. ASSUME NEW t \in executing,
               CompletionDropped(t) \/ CompletionThrows(t) \/ BlockCompletes(t)
        PROVE  Final
    BY <2>4 DEF BlockCompletes, CompletionDropped, CompletionThrows, CompletionPauses,
                CompletionResponds, CompletionStops, CompletionRoutes, Handled, Frozen,
                LockedIsStopped, flagVars
  <2>. QED BY <2>1, <2>2, <2>3, <2>4 DEF LoopNext, Completion
<1>. QED BY <1>1, <1>2, PTL DEF LoopSpec, ResponseIsFinal

----------------------------------------------------------------------------
(* Rounds.                                                                  *)

(* The index of a counted loop stays below its count, however it is nested,  *)
(* skipped, cancelled or re-entered.                                        *)
IndexBelowCount ==
  \A l \in Loops : scope[l] # None /\ CountOf[l] # None =>
    scope[l].iteration = 0 \/ scope[l].iteration < CountOf[l]

LEMMA IndexKept ==
  ASSUME LoopTypeOK, IndexBelowCount,
         \A l \in Loops : \/ scope'[l] = None
                          \/ scope[l] # None /\ scope'[l].iteration = scope[l].iteration
                          \/ scope'[l].iteration = 0
  PROVE  IndexBelowCount'
BY DEF IndexBelowCount

(* Storing an output leaves the index alone. *)
LEMMA IndexStored ==
  ASSUME LoopTypeOK, IndexBelowCount, NEW l, NEW key, NEW c \in Call, Store(l, key, c)
  PROVE  IndexBelowCount'
<1>1. CASE l \notin Loops \/ scope[l] = None
  BY <1>1 DEF Store, IndexBelowCount
<1>2. CASE l \in Loops /\ scope[l] # None
  <2>1. scope[l] \in Scope
    BY <1>2 DEF LoopTypeOK
  <2>2. scope' = [scope EXCEPT ![l].outputs = {d \in @ : d[1] # key} \cup {c}]
    BY <1>2 DEF Store
  <2>3. scope'[l].iteration = scope[l].iteration
    BY <1>2, <2>1, <2>2 DEF LoopTypeOK, Scope
  <2>4. \A m \in Loops \ {l} : scope'[m] = scope[m]
    BY <2>2 DEF LoopTypeOK
  <2>. QED BY <1>2, <2>3, <2>4, IndexKept
<1>. QED BY <1>1, <1>2

LEMMA IndexReturned ==
  ASSUME LoopTypeOK, IndexBelowCount, NEW t \in executing, StartReturns(t) \/ EndReturns(t)
  PROVE  IndexBelowCount'
<1>. DEFINE l == SubflowOf[t.node]
            s == Scoped(l)
<1>1. l \in Loops /\ s \in Scope
  BY SentinelLoop, LoopScopedTyped DEF StartReturns, EndReturns
<1>2. s.iteration = 0 \/ (scope[l] # None /\ s = scope[l])
  BY DEF Scoped, NewScope
<1>3. ASSUME NEW q, scope' = [scope EXCEPT ![l] = q], q.iteration = s.iteration
      PROVE  IndexBelowCount'
  <2>1. scope'[l] = q /\ \A m \in Loops \ {l} : scope'[m] = scope[m]
    BY <1>1, <1>3 DEF LoopTypeOK
  <2>. QED BY <1>2, <1>3, <2>1, IndexKept
<1>4. ASSUME TRUE \in ConditionHolds(l, s.iteration + 1), GoesOn(t, l, s)
      PROVE  IndexBelowCount'
  <2>. DEFINE q == [s EXCEPT !.iteration = @ + 1, !.outputs = {}, !.results = Collected(s)]
  <2>1. q.iteration = s.iteration + 1
    BY <1>1 DEF Scope
  <2>2. CountOf[l] # None => s.iteration + 1 < CountOf[l]
    BY <1>4 DEF ConditionHolds
  <2>3. scope'[l] = q /\ \A m \in Loops \ {l} : scope'[m] = scope[m]
    BY <1>1, <1>4 DEF GoesOn, LoopTypeOK
  <2>. QED BY <2>1, <2>2, <2>3 DEF IndexBelowCount
<1>5. \A x \in BOOLEAN : [s EXCEPT !.skipped = x].iteration = s.iteration
  BY <1>1 DEF Scope
<1>6. CASE StartReturns(t)
  <2>1. CASE scope' = [scope EXCEPT ![l] = s]
    BY <1>3, <2>1
  <2>2. ASSUME NEW enters,
               scope' = [scope EXCEPT ![l] = [s EXCEPT !.skipped = @ \/ ~enters]]
        PROVE  IndexBelowCount'
    <3>1. [s EXCEPT !.skipped = @ \/ ~enters].iteration = s.iteration
      BY <1>1 DEF Scope
    <3>. QED BY <1>3, <2>2, <3>1
  <2>. QED BY <1>6, <2>1, <2>2 DEF StartReturns
<1>7. CASE EndReturns(t)
  <2>1. ASSUME NEW q \in Scope, NEW results, q.iteration = s.iteration, Leaves(t, l, q, results)
        PROVE  IndexBelowCount'
    <3>1. [q EXCEPT !.results = <<>>].iteration = s.iteration
      BY <2>1 DEF Scope
    <3>. QED BY <1>3, <2>1, <3>1 DEF Leaves
  <2>2. /\ [s EXCEPT !.skipped = FALSE] \in Scope /\ [s EXCEPT !.outputs = {}] \in Scope
        /\ [s EXCEPT !.skipped = FALSE].iteration = s.iteration
        /\ [s EXCEPT !.outputs = {}].iteration = s.iteration
    BY <1>1 DEF Scope
  <2>3. \/ Leaves(t, l, s, s.results)
        \/ Leaves(t, l, [s EXCEPT !.skipped = FALSE], s.results)
        \/ TRUE \in ConditionHolds(l, s.iteration + 1) /\ GoesOn(t, l, s)
        \/ Leaves(t, l, [s EXCEPT !.outputs = {}], Collected(s))
        \/ scope' = [scope EXCEPT ![l] = s]
    BY <1>7 DEF EndReturns
  <2>4. CASE Leaves(t, l, s, s.results)
    BY <1>1, <2>1, <2>4
  <2>5. CASE Leaves(t, l, [s EXCEPT !.skipped = FALSE], s.results)
    BY <2>1, <2>2, <2>5
  <2>6. CASE Leaves(t, l, [s EXCEPT !.outputs = {}], Collected(s))
    BY <2>1, <2>2, <2>6
  <2>7. CASE scope' = [scope EXCEPT ![l] = s]
    BY <1>3, <2>7
  <2>. QED BY <1>4, <2>3, <2>4, <2>5, <2>6, <2>7
<1>. QED BY <1>6, <1>7

(* No counted loop runs beyond its count, on any DAG, whatever its iterations  *)
(* are interleaved with.                                                    *)
THEOREM LoopIndexBelowCount == LoopSpec => []IndexBelowCount
<1>1. LoopInit => IndexBelowCount
  BY DEF LoopInit, IndexBelowCount
<1>2. LoopTypeOK /\ IndexBelowCount /\ [LoopNext]_allVars => IndexBelowCount'
  <2>. SUFFICES ASSUME LoopTypeOK, IndexBelowCount, [LoopNext]_allVars PROVE IndexBelowCount'
    OBVIOUS
  <2>1. CASE UNCHANGED scope
    BY <2>1 DEF IndexBelowCount
  <2>2. ASSUME NEW t \in executing, BlockEnds(t) PROVE IndexBelowCount'
    <3>1. CASE SubflowOf[t.node] \in Loops /\ Initialized(SubflowOf[t.node])
      <4>. DEFINE l == SubflowOf[t.node]
      <4>0. scope' = [scope EXCEPT ![l] = Scoped(l)]
        BY <3>1 DEF Initialized
      <4>1. scope'[l] = Scoped(l) /\ \A m \in Loops \ {l} : scope'[m] = scope[m]
        BY <3>1, <4>0 DEF LoopTypeOK
      <4>2. Scoped(l).iteration = 0 \/ (scope[l] # None /\ Scoped(l) = scope[l])
        BY DEF Scoped, NewScope
      <4>. QED BY <4>1, <4>2, IndexKept
    <3>. QED BY <2>1, <2>2, <3>1 DEF BlockEnds
  <2>3. ASSUME NEW t \in executing, BlockCompletes(t) \/ Passes(t) PROVE IndexBelowCount'
    <3>1. <<t.node, t.nth>> \in Call
      BY TasksTyped DEF LoopTypeOK, Call
    <3>. QED BY <2>1, <2>3, <3>1, IndexStored DEF BlockCompletes, Passes
  <2>4. ASSUME NEW t \in executing, GoesBack(t) PROVE IndexBelowCount'
    BY <2>4, IndexKept DEF GoesBack
  <2>. QED BY <2>1, <2>2, <2>3, <2>4, IndexReturned
       DEF LoopNext, Returns, Completion, scopeVars, allVars
<1>. QED BY <1>1, <1>2, LoopTypeCorrect, PTL DEF LoopSpec

(* When a loop goes back, the nodes of its body that have a feeder in it, those *)
(* of the loops inside included, wait for that feeder again, whichever edges  *)
(* the last round took, refused or cut off: only what the end sentinel leads   *)
(* back to can be ready.                                                    *)
BodyWaitsAgain ==
  [][\A t \in executing : GoesBack(t) =>
       \A n \in Inside(SubflowOf[t.node]) \ ActivatedTargets(t.node, t.output) :
         RestoredSources(SubflowOf[t.node], n) # {} => ~IsNodeReady(n)']_allVars

(* It holds of every DAG, whatever led the end sentinel to go back. *)
THEOREM LoopBodyWaitsAgain == LoopSpec => BodyWaitsAgain
<1>1. ASSUME NEW t \in executing, GoesBack(t),
             NEW n \in Inside(SubflowOf[t.node]) \ ActivatedTargets(t.node, t.output),
             RestoredSources(SubflowOf[t.node], n) # {}
      PROVE  ~IsNodeReady(n)'
  <2>. DEFINE l == SubflowOf[t.node]
  <2>1. PICK e \in InEdges(n) : e.src \in Inside(l) /\ e.src \in RestoredSources(l, n)
    BY <1>1 DEF RestoredSources
  <2>2. n \in Nodes /\ incomingEdges'[n] = incomingEdges[n] \cup RestoredSources(l, n)
    BY <1>1 DEF GoesBack, Restored, Inside
  <2>3. e \notin deactivatedEdges'
    BY <1>1, <2>1 DEF GoesBack
  <2>. QED BY <2>1, <2>2, <2>3 DEF IsNodeReady, NoActiveIncoming
<1>2. [LoopNext]_allVars =>
        [\A t \in executing : GoesBack(t) =>
           \A n \in Inside(SubflowOf[t.node]) \ ActivatedTargets(t.node, t.output) :
             RestoredSources(SubflowOf[t.node], n) # {} => ~IsNodeReady(n)']_allVars
  BY <1>1
<1>. QED BY <1>2, PTL DEF LoopSpec, BodyWaitsAgain

----------------------------------------------------------------------------
(* The loops of a workflow are a forest.                                    *)

LEMMA WithinSelf ==
  ASSUME NEW l \in Loops
  PROVE  l \in Within(l)
BY DEF Within

LEMMA WithinDown ==
  ASSUME NEW l \in Loops, NEW k \in Loops, ParentOf[k] \in Within(l)
  PROVE  k \in Within(l)
BY DEF Within

LEMMA WithinUp ==
  ASSUME NEW l \in Loops, NEW m \in Within(l), m # l
  PROVE  ParentOf[m] \in Within(l)
<1>. DEFINE S == {j \in Within(l) : j = l \/ ParentOf[j] \in Within(l)}
<1>1. l \in S /\ S \in SUBSET Loops
  BY WithinSelf DEF Within
<1>2. \A k \in Loops : ParentOf[k] \in S => k \in S
  BY WithinDown
<1>3. m \in S
  BY <1>1, <1>2 DEF Within
<1>. QED BY <1>3

LEMMA WithinNested ==
  ASSUME NEW l \in Loops, NEW m \in Within(l)
  PROVE  m \in Loops /\ Within(m) \subseteq Within(l) /\ Inside(m) \subseteq Inside(l)
<1>1. Within(l) \in SUBSET Loops /\ \A k \in Loops : ParentOf[k] \in Within(l) => k \in Within(l)
  BY WithinDown DEF Within
<1>2. Within(m) \subseteq Within(l)
  BY <1>1 DEF Within
<1>. QED BY <1>1, <1>2 DEF Inside

LEMMA SentinelsInside ==
  ASSUME NEW l \in Loops
  PROVE  /\ StartOf[l] \in Inside(l) /\ EndOf[l] \in Inside(l) /\ StartOf[l] # EndOf[l]
         /\ StartOf[l] \in Nodes /\ EndOf[l] \in Nodes
         /\ StartOf[l] \in Starts \ Ends /\ EndOf[l] \in Ends \ Starts
         /\ SubflowOf[StartOf[l]] = l /\ SubflowOf[EndOf[l]] = l
BY LoopAssumption, WithinSelf DEF Inside, Starts, Ends

(* A loop inside another holds none of its sentinels. *)
LEMMA SentinelsOutside ==
  ASSUME LoopsWired, NEW l \in Loops, NEW m \in Within(l), m # l
  PROVE  l \notin Within(m) /\ StartOf[l] \notin Inside(m) /\ EndOf[l] \notin Inside(m)
<1>1. m \in Loops /\ Within(m) \subseteq Within(l)
  BY WithinNested
<1>2. l \notin Within(m)
  <2>. SUFFICES ASSUME l \in Within(m) PROVE FALSE
    OBVIOUS
  <2>1. ParentOf[l] \in Within(m)
    BY <1>1, WithinUp
  <2>. QED BY <1>1, <2>1 DEF LoopsWired, WiredByConstruction
<1>. QED BY <1>2, SentinelsInside DEF Inside

----------------------------------------------------------------------------
(* Edges that are live.                                                     *)

(* Why the end sentinel finds its loop quiet: a node that waits, is queued or  *)
(* under way has every edge of it live, so whatever follows it waits; and     *)
(* from every node of a loop a path leads to the end sentinel.               *)
Live(n) ==
  \A e \in Forward : e.src = n => n \in incomingEdges[e.dst] /\ e \notin deactivatedEdges

Open(n) == n \in Active \/ ~IsNodeReady(n)

OpenEdgesLive == \A n \in Nodes : Open(n) => Live(n)

LEMMA EdgeEnds ==
  ASSUME NEW e \in Edges
  PROVE  e.src \in Nodes /\ e.dst \in Nodes /\ e \in InEdges(e.dst) /\ e \in OutEdges(e.src)
BY EdgesAssumption DEF InEdges, OutEdges

LEMMA LiveBlocks ==
  ASSUME NEW e \in Forward, Live(e.src)
  PROVE  e.dst \in Nodes /\ ~IsNodeReady(e.dst)
<1>1. e \in Edges /\ e.dst \in Nodes /\ e \in InEdges(e.dst)
  BY EdgeEnds DEF Forward
<1>. QED BY <1>1 DEF Live, IsNodeReady, NoActiveIncoming

LEMMA LiveReachesEnd ==
  ASSUME LoopsWired, OpenEdgesLive, NEW l \in Loops, NEW n \in Inside(l), n # EndOf[l], Live(n)
  PROVE  ~IsNodeReady(EndOf[l])
<1>. DEFINE S == {k \in Inside(l) : k = n \/ ~IsNodeReady(k)}
<1>. SUFFICES ASSUME IsNodeReady(EndOf[l]) PROVE FALSE
  OBVIOUS
<1>1. S \in (SUBSET Inside(l)) \ {{}} /\ EndOf[l] \notin S
  OBVIOUS
<1>2. PICK e \in Forward : e.src \in S /\ e.dst \in Inside(l) \ S
  BY <1>1 DEF LoopsWired, WiredByConstruction
<1>3. Live(e.src)
  BY <1>2 DEF OpenEdgesLive, Open, Inside
<1>. QED BY <1>2, <1>3, LiveBlocks

LEMMA LiveReachesBody ==
  ASSUME LoopsWired, OpenEdgesLive, NEW l \in Loops, Live(StartOf[l]),
         NEW n \in Inside(l), n # StartOf[l]
  PROVE  ~IsNodeReady(n)
<1>. DEFINE S == {k \in Inside(l) : k # StartOf[l] /\ IsNodeReady(k)}
<1>. SUFFICES ASSUME IsNodeReady(n) PROVE FALSE
  OBVIOUS
<1>1. S \in (SUBSET Inside(l)) \ {{}} /\ StartOf[l] \notin S
  OBVIOUS
<1>2. PICK e \in Forward : e.dst \in S /\ e.src \in Inside(l) \ S
  BY <1>1 DEF LoopsWired, WiredByConstruction
<1>3. Live(e.src)
  BY <1>2 DEF OpenEdgesLive, Open, Inside
<1>. QED BY <1>2, <1>3, LiveBlocks

----------------------------------------------------------------------------
(* A node routes its output.                                                *)

(* A set closed under the cascade holds every node that is cut off. *)
LEMMA CutOffBelow ==
  ASSUME NEW seeds, NEW activated, NEW S \in SUBSET (Nodes \ activated),
         ClosedUnderCascade(S, seeds, activated)
  PROVE  CutOff(seeds, activated) \subseteq S
BY DEF CutOff

(* A node that is cut off waits for nothing any more. *)
LEMMA CutOffIsReady ==
  ASSUME NEW seeds, NEW activated, NEW n \in CutOff(seeds, activated)
  PROVE  NoActiveIncoming(n, deactivatedEdges \cup seeds
                               \cup ForwardEdgesOf(CutOff(seeds, activated)))
<1>. DEFINE C == CutOff(seeds, activated)
            Dropped(S) == seeds \cup ForwardEdgesOf(S)
            D == {m \in C : NoActiveIncoming(m, deactivatedEdges \cup Dropped(C))}
<1>1. C \in SUBSET (Nodes \ activated)
  BY DEF CutOff
<1>2. ASSUME NEW m \in Nodes \ activated,
             \E e \in InEdges(m) : e \in Dropped(D) \ deactivatedEdges,
             NoActiveIncoming(m, deactivatedEdges \cup Dropped(D))
      PROVE  m \in D
  <2>1. Dropped(D) \subseteq Dropped(C)
    BY DEF ForwardEdgesOf
  <2>2. NoActiveIncoming(m, deactivatedEdges \cup Dropped(C))
    BY <1>2, <2>1 DEF NoActiveIncoming
  <2>3. ASSUME NEW S \in SUBSET (Nodes \ activated), ClosedUnderCascade(S, seeds, activated)
        PROVE  m \in S
    <3>1. C \subseteq S
      BY <2>3, CutOffBelow
    <3>2. Dropped(D) \subseteq Dropped(S)
      BY <3>1 DEF ForwardEdgesOf
    <3>3. /\ \E e \in InEdges(m) : e \in Dropped(S) \ deactivatedEdges
          /\ NoActiveIncoming(m, deactivatedEdges \cup Dropped(S))
      BY <1>2, <3>2 DEF NoActiveIncoming
    <3>. QED BY <2>3, <3>3 DEF ClosedUnderCascade
  <2>4. m \in C
    BY <2>3 DEF CutOff
  <2>. QED BY <2>2, <2>4
<1>3. ClosedUnderCascade(D, seeds, activated)
  BY <1>2 DEF ClosedUnderCascade
<1>4. C \subseteq D
  BY <1>1, <1>3, CutOffBelow
<1>. QED BY <1>4

(* What is routed: n is queued or under way, its answer does not lead back,    *)
(* and fires an edge, drops none, or was selected outside loops.              *)
Fires(n, out) ==
  /\ n \in Active /\ n \in Nodes
  /\ out.route # "loop_continue"
  /\ \/ ActivatedTargets(n, out) # {}
     \/ EdgesToDeactivate(n, out) = {}
     \/ SubflowOf[n] = NoSubflow /\ out.route # NoRoute

LEMMA ControlEdges ==
  ASSUME LoopsWired, NEW e \in Edges
  PROVE  /\ e.handle \notin ControlHandles => e \in Forward
         /\ e \in SilentEdges => e.handle \in BackHandles \/ IsBypass(e)
         /\ e.handle \in BackHandles => e.handle = "loop_continue"
BY DEF LoopsWired, Forward, IsBypass, BackHandles, ControlHandles, LoopRoutes, ParallelRoutes

(* The edges that fire, and those that die, keep their targets waiting till    *)
(* then.                                                                    *)
LEMMA RoutedTargetsWait ==
  ASSUME LoopsWired, OpenEdgesLive, NEW n, NEW out, Fires(n, out)
  PROVE  /\ \A m \in ActivatedTargets(n, out) : m \in Nodes /\ ~IsNodeReady(m)
         /\ \A e \in EdgesToDeactivate(n, out) : e \in Forward /\ e.src = n /\ ~IsNodeReady(e.dst)
<1>1. Live(n)
  BY DEF Fires, OpenEdgesLive, Open
<1>2. ASSUME NEW e \in OutEdges(n), e \in Forward PROVE e.dst \in Nodes /\ ~IsNodeReady(e.dst)
  BY <1>1, <1>2, LiveBlocks DEF OutEdges
<1>3. ASSUME NEW e \in EdgesToDeactivate(n, out) PROVE e \in Forward /\ e.src = n /\ e \in OutEdges(n)
  BY <1>3, ControlEdges DEF EdgesToDeactivate, OutEdges
<1>4. ASSUME NEW e \in OutEdges(n), ShouldActivate(e, out), e \notin Forward
      PROVE  e.dst \in Nodes /\ ~IsNodeReady(e.dst)
  <2>1. e \in Edges /\ e.src = n /\ e \in SilentEdges
    BY <1>4 DEF OutEdges, Forward
  <2>2. e.handle \in ControlHandles
    BY <2>1, ControlEdges DEF Forward
  <2>3. e.handle = out.route
    BY <1>4, <2>2, HandlesAssumption
       DEF ShouldActivate, PortHandles, ControlHandles, LoopRoutes, ParallelRoutes
  <2>4. IsBypass(e)
    BY <2>1, <2>3, ControlEdges DEF Fires
  <2>5. PICK l \in Loops : n = StartOf[l] /\ e.dst = EndOf[l]
    BY <2>1, <2>4 DEF IsBypass
  <2>. QED BY <1>1, <2>5, SentinelsInside, LiveReachesEnd
<1>. QED BY <1>2, <1>3, <1>4 DEF ActivatedTargets

(* Routing makes nothing wait that did not; what it cuts off waited till then, *)
(* and waits no more.                                                       *)
LEMMA RoutedReady ==
  ASSUME EdgeTypeOK, LoopsWired, OpenEdgesLive, NEW n, NEW out, Fires(n, out),
         ProcessOutgoingEdges(n, out)
  PROVE  /\ \A k \in Nodes : IsNodeReady(k) => IsNodeReady(k)'
         /\ \A k \in CutOff(EdgesToDeactivate(n, out), nodesWithActivatedEdge') :
              ~IsNodeReady(k) /\ IsNodeReady(k)' /\ k \notin nodesWithActivatedEdge'
<1>. DEFINE seeds == EdgesToDeactivate(n, out)
            targets == ActivatedTargets(n, out)
            acts == nodesWithActivatedEdge'
            S == {k \in Nodes \ acts : ~IsNodeReady(k)}
<1>1. /\ acts = nodesWithActivatedEdge \cup targets
      /\ deactivatedEdges' = deactivatedEdges \cup seeds \cup ForwardEdgesOf(CutOff(seeds, acts))
      /\ incomingEdges' = [k \in Nodes |-> IF k \in targets THEN incomingEdges[k] \ {n}
                                                            ELSE incomingEdges[k]]
  BY DEF ProcessOutgoingEdges, Deactivate
<1>2. \A k \in Nodes : incomingEdges'[k] \subseteq incomingEdges[k]
  BY <1>1
<1>3. ASSUME NEW k \in Nodes, NoActiveIncoming(k, deactivatedEdges') PROVE IsNodeReady(k)'
  BY <1>2, <1>3 DEF IsNodeReady, NoActiveIncoming
<1>4. ASSUME NEW k \in Nodes, IsNodeReady(k) PROVE IsNodeReady(k)'
  BY <1>1, <1>3, <1>4 DEF IsNodeReady, NoActiveIncoming
<1>5. ASSUME NEW m \in Nodes \ acts, NEW e \in InEdges(m), e \in seeds \cup ForwardEdgesOf(S)
      PROVE  m \in S
  <2>1. e \in Edges /\ e.dst = m
    BY DEF InEdges
  <2>2. CASE e \in seeds
    BY <2>1, <2>2, RoutedTargetsWait
  <2>3. CASE e \in ForwardEdgesOf(S)
    <3>1. e.src \in S /\ e.handle \notin BackHandles /\ Live(e.src)
      BY <2>3 DEF ForwardEdgesOf, OpenEdgesLive, Open
    <3>2. CASE e \in Forward
      BY <2>1, <3>1, <3>2, LiveBlocks
    <3>3. CASE e \notin Forward
      <4>1. IsBypass(e)
        BY <2>1, <3>1, <3>3, ControlEdges DEF Forward
      <4>2. PICK l \in Loops : e.src = StartOf[l] /\ m = EndOf[l]
        BY <2>1, <4>1 DEF IsBypass
      <4>. QED BY <3>1, <4>2, SentinelsInside, LiveReachesEnd
    <3>. QED BY <3>2, <3>3
  <2>. QED BY <1>5, <2>2, <2>3
<1>6. ClosedUnderCascade(S, seeds, acts)
  BY <1>5 DEF ClosedUnderCascade
<1>7. CutOff(seeds, acts) \subseteq S
  BY <1>6, CutOffBelow
<1>8. ASSUME NEW k \in CutOff(seeds, acts) PROVE IsNodeReady(k)'
  <2>1. NoActiveIncoming(k, deactivatedEdges')
    BY <1>1, <1>8, CutOffIsReady
  <2>. QED BY <1>3, <1>7, <2>1
<1>. QED BY <1>4, <1>7, <1>8

(* A node that routing queues waited till then, and waits no more.            *)
LEMMA RoutedQueued ==
  ASSUME EdgeTypeOK, LoopsWired, OpenEdgesLive, NEW n, NEW out, Fires(n, out),
         ProcessOutgoingEdges(n, out), NEW k \in ReadyNodes(n, out)
  PROVE  /\ k \in Nodes /\ ~IsNodeReady(k) /\ IsNodeReady(k)' /\ k \in nodesWithActivatedEdge'
         /\ \E e \in OutEdges(n) : e.dst = k /\ (ShouldActivate(e, out) \/ out.route \notin ExitHandles)
<1>. DEFINE seeds == EdgesToDeactivate(n, out)
            acts == nodesWithActivatedEdge'
<1>1. CASE k \in ReadyTargets(n, out)
  <2>1. k \in ActivatedTargets(n, out) /\ IsNodeReady(k)'
    BY <1>1 DEF ReadyTargets
  <2>2. \E e \in OutEdges(n) : e.dst = k /\ ShouldActivate(e, out)
    BY <2>1 DEF ActivatedTargets
  <2>. QED BY <2>1, <2>2, RoutedTargetsWait DEF ProcessOutgoingEdges
<1>2. CASE k \in ReadyConvergences(n, out)
  <2>1. k \in Nodes /\ k \in acts /\ IsNodeReady(k)' /\ \E e \in seeds : e.dst = k
    BY <1>2 DEF ReadyConvergences
  <2>2. \E e \in OutEdges(n) : e.dst = k /\ out.route \notin ExitHandles
    BY <1>2, <2>1 DEF ReadyConvergences, EdgesToDeactivate
  <2>. QED BY <2>1, <2>2, RoutedTargetsWait
<1>3. k \notin ReadySentinels(n, out)
  <2>. SUFFICES ASSUME k \in ReadySentinels(n, out) PROVE FALSE
    OBVIOUS
  <2>1. ActivatedTargets(n, out) = {} /\ k \in CascadeTargets(n, out)
    BY DEF ReadySentinels
  <2>2. seeds = {}
    BY <2>1 DEF Fires, ReadySentinels, IsEnclosingSentinel
  <2>3. ClosedUnderCascade({}, {}, acts)
    BY DEF ClosedUnderCascade, ForwardEdgesOf
  <2>4. CutOff(seeds, acts) = {}
    BY <2>2, <2>3, CutOffBelow
  <2>5. deactivatedEdges' = deactivatedEdges
    BY <2>2, <2>4 DEF ProcessOutgoingEdges, Deactivate, ForwardEdgesOf
  <2>. QED BY <2>1, <2>2, <2>5 DEF CascadeTargets
<1>. QED BY <1>1, <1>2, <1>3 DEF ReadyNodes

(* The edges of another node stay alive, unless it is cut off. *)
LEMMA RoutedEdges ==
  ASSUME NEW n, NEW out, ProcessOutgoingEdges(n, out), NEW m, m # n, Live(m),
         m \notin CutOff(EdgesToDeactivate(n, out), nodesWithActivatedEdge')
  PROVE  Live(m)'
<1>. DEFINE seeds == EdgesToDeactivate(n, out)
            C == CutOff(seeds, nodesWithActivatedEdge')
<1>1. ASSUME NEW e \in Forward, e.src = m
      PROVE  m \in incomingEdges'[e.dst] /\ e \notin deactivatedEdges'
  <2>1. e.dst \in Nodes /\ m \in incomingEdges[e.dst] /\ e \notin deactivatedEdges
    BY <1>1, EdgeEnds DEF Live, Forward
  <2>2. e \notin seeds /\ e \notin ForwardEdgesOf(C)
    BY <1>1 DEF EdgesToDeactivate, OutEdges, ForwardEdgesOf
  <2>. QED BY <2>1, <2>2 DEF ProcessOutgoingEdges, Deactivate
<1>. QED BY <1>1 DEF Live

(* Apart from the node that routes, what is open then has live edges.         *)
LEMMA RoutedLive ==
  ASSUME EdgeTypeOK, LoopsWired, OpenEdgesLive, NEW n, NEW out, Fires(n, out),
         ProcessOutgoingEdges(n, out), \A k \in Active : k \in Nodes /\ IsNodeReady(k),
         NEW m \in Nodes \ {n},
         m \in Active \/ m \in ReadyNodes(n, out) \/ ~IsNodeReady(m)'
  PROVE  Live(m)'
<1>. DEFINE seeds == EdgesToDeactivate(n, out)
            C == CutOff(seeds, nodesWithActivatedEdge')
<1>1. Live(m) /\ m \notin C
  <2>1. CASE m \in Active
    BY <2>1, RoutedReady DEF OpenEdgesLive, Open
  <2>2. CASE m \in ReadyNodes(n, out)
    BY <2>2, RoutedQueued, RoutedReady DEF OpenEdgesLive, Open
  <2>3. CASE ~IsNodeReady(m)'
    BY <2>3, RoutedReady DEF OpenEdgesLive, Open
  <2>. QED BY <2>1, <2>2, <2>3
<1>. QED BY <1>1, RoutedEdges

----------------------------------------------------------------------------
(* A step of the run.                                                       *)

(* What a call may have answered. *)
StartAnswers == {Result("done", NoRoute, FALSE), Result("done", "loop_exit", FALSE),
                 Result("throw", NoRoute, TRUE)}

EndAnswers == {Result("done", "loop_exit", FALSE), Result("done", "loop_continue", FALSE),
               Result("throw", NoRoute, TRUE)}

AnswersKnown ==
  \A t \in executing : t.output # None =>
    /\ t.node \notin Sentinels => t.output \in Results(t.node)
    /\ t.node \in Starts => t.output \in StartAnswers
    /\ t.node \in Ends => t.output \in EndAnswers

QuietInv ==
  /\ LoopTypeOK /\ AnswersKnown
  /\ OneCallAtATime /\ CalledInRound /\ OpenEdgesLive

LEMMA QuietGives ==
  ASSUME QuietInv
  PROVE  /\ Active \subseteq Nodes
         /\ \A n \in Active : IsNodeReady(n)
         /\ \A t \in executing : t.node \in Active /\ t.node \in Nodes
BY TasksTyped DEF QuietInv, LoopTypeOK, TypeOK, Active, Busy, CalledInRound

LEMMA QuietEnd ==
  ASSUME LoopsWired, QuietInv
  PROVE  EndIsQuiet
<1>. SUFFICES ASSUME NEW l \in Loops, EndOf[l] \in Active, NEW n \in Active \cap Inside(l),
                     n # EndOf[l]
              PROVE  FALSE
  BY SentinelsInside DEF EndIsQuiet
<1>1. Live(n)
  BY QuietGives DEF QuietInv, OpenEdgesLive, Open
<1>2. ~IsNodeReady(EndOf[l])
  BY <1>1, LiveReachesEnd DEF QuietInv
<1>. QED BY <1>2, QuietGives

LEMMA QuietFeeders ==
  ASSUME QuietInv
  PROVE  WaitsForFeeders
<1>. SUFFICES ASSUME NEW t \in executing, NEW e \in InEdges(t.node) \cap Forward, e.src \in Active
              PROVE  FALSE
  BY DEF WaitsForFeeders
<1>1. Live(e.src)
  BY QuietGives DEF QuietInv, OpenEdgesLive, Open
<1>2. e.dst = t.node /\ ~IsNodeReady(e.dst)
  BY <1>1, LiveBlocks DEF InEdges
<1>. QED BY <1>2, QuietGives

(* The edges stay, and nothing new is queued. *)
LEMMA OpenKept ==
  ASSUME OpenEdgesLive, UNCHANGED edgeVars, Active' \subseteq Active
  PROVE  /\ OpenEdgesLive'
         /\ \A k \in Nodes : IsNodeReady(k)' <=> IsNodeReady(k)
BY DEF OpenEdgesLive, Open, Live, IsNodeReady, NoActiveIncoming, edgeVars

LEMMA QuietIdle ==
  ASSUME QuietInv, LoopTypeOK',
         UNCHANGED <<edgeVars, readyQueue, executing, starts, blockStates, mark>>
  PROVE  QuietInv'
<1>1. Active' = Active
  BY DEF Active, Busy
<1>2. OpenEdgesLive' /\ \A k \in Nodes : IsNodeReady(k)' <=> IsNodeReady(k)
  BY <1>1, OpenKept DEF QuietInv
<1>. QED BY <1>1, <1>2, QuietGives DEF QuietInv, AnswersKnown, OneCallAtATime, CalledInRound

LEMMA QuietProcessQueue ==
  ASSUME LoopsWired, QuietInv, LoopTypeOK', ProcessQueue, UNCHANGED mark
  PROVE  QuietInv'
<1>. DEFINE new(n) == [node |-> n, nth |-> starts[n] + 1, fresh |-> n \notin executedBlocks,
                       output |-> None]
<1>1. /\ executing' = executing \cup {new(n) : n \in readyQueue} /\ readyQueue' = {}
      /\ starts' = [n \in Nodes |-> IF n \in readyQueue THEN starts[n] + 1 ELSE starts[n]]
      /\ UNCHANGED <<edgeVars, blockStates>>
  BY DEF ProcessQueue
<1>2. Active' = Active
  <2>1. Busy' = Busy \cup readyQueue
    <3>1. \A n \in readyQueue : new(n).node = n
      OBVIOUS
    <3>. HIDE DEF new
    <3>. QED BY <1>1, <3>1 DEF Busy
  <2>. QED BY <1>1, <2>1 DEF Active
<1>3. OpenEdgesLive' /\ \A k \in Nodes : IsNodeReady(k)' <=> IsNodeReady(k)
  BY <1>1, <1>2, OpenKept DEF QuietInv
<1>4. \A n \in readyQueue : n \in Nodes /\ blockStates[n] = None /\ starts[n] = mark[n] /\ IsNodeReady(n)
  BY QuietGives DEF QuietInv, CalledInRound, Active
<1>5. AnswersKnown'
  <2>1. \A t \in executing' : t.output # None => t \in executing
    BY <1>1
  <2>. QED BY <2>1 DEF QuietInv, AnswersKnown
<1>6. OneCallAtATime'
  <2>1. \A n \in readyQueue : new(n).fresh
    BY <1>4 DEF executedBlocks
  <2>. QED BY <1>1, <2>1 DEF QuietInv, OneCallAtATime
<1>7. CalledInRound'
  <2>1. ASSUME NEW n \in Nodes, ~IsNodeReady(n)
        PROVE  blockStates'[n] = None /\ starts'[n] = mark'[n]
    BY <1>1, <1>4, <2>1 DEF QuietInv, CalledInRound
  <2>2. ASSUME NEW t \in executing
        PROVE  t.nth = starts'[t.node] /\ mark'[t.node] < t.nth
               /\ (t.node \in Sentinels => blockStates'[t.node] = None)
    BY <1>1, QuietGives DEF QuietInv, CalledInRound, OneCallAtATime
  <2>3. ASSUME NEW n \in readyQueue
        PROVE  new(n).nth = starts'[n] /\ mark'[n] < new(n).nth /\ blockStates'[n] = None
    BY <1>1, <1>4 DEF QuietInv, LoopTypeOK
  <2>4. ASSUME NEW t \in executing'
        PROVE  t.nth = starts'[t.node] /\ mark'[t.node] < t.nth
               /\ (t.node \in Sentinels => blockStates'[t.node] = None)
    BY <1>1, <2>2, <2>3
  <2>. QED BY <1>1, <1>2, <1>3, <2>1, <2>4, QuietGives DEF CalledInRound
<1>. QED BY <1>3, <1>5, <1>6, <1>7 DEF QuietInv

(* A call settles, or has its answer: the state of no other node moves.       *)
LEMMA QuietCall ==
  ASSUME QuietInv, LoopTypeOK', NEW t \in executing,
         UNCHANGED <<edgeVars, readyQueue, starts, mark>>,
         \A k \in Nodes \ {t.node} : blockStates'[k] = blockStates[k],
         NEW u, u.node = t.node, u.nth = t.nth, u.fresh = t.fresh,
         \/ executing' = executing \ {t}
         \/ executing' = (executing \ {t}) \cup {u} /\ (t.node \in Sentinels => UNCHANGED blockStates),
         AnswersKnown'
  PROVE  QuietInv'
<1>1. Busy' \subseteq Busy /\ Active' \subseteq Active
  BY DEF Active, Busy
<1>2. OpenEdgesLive' /\ \A k \in Nodes : IsNodeReady(k)' <=> IsNodeReady(k)
  BY <1>1, OpenKept DEF QuietInv
<1>3. \A v \in executing' \ {u} : v \in executing \ {t} /\ v.node # t.node
  BY DEF QuietInv, OneCallAtATime
<1>4. OneCallAtATime'
  BY <1>3 DEF QuietInv, OneCallAtATime
<1>5. CalledInRound'
  <2>1. t.node \in Active /\ t.node \notin readyQueue /\ IsNodeReady(t.node)
    BY QuietGives DEF QuietInv, OneCallAtATime
  <2>2. \A n \in Nodes : n \in readyQueue' \/ ~IsNodeReady(n)' =>
          blockStates'[n] = None /\ starts'[n] = mark'[n]
    BY <1>2, <2>1 DEF QuietInv, CalledInRound
  <2>3. \A n \in Active' : IsNodeReady(n)'
    BY <1>1, <1>2, QuietGives
  <2>4. ASSUME NEW v \in executing'
        PROVE  /\ v.nth = starts'[v.node] /\ mark'[v.node] < v.nth
               /\ v.node \in Sentinels => blockStates'[v.node] = None
    <3>1. CASE v = u
      <4>1. t.nth = starts[t.node] /\ mark[t.node] < t.nth
            /\ (t.node \in Sentinels => blockStates[t.node] = None)
        BY DEF QuietInv, CalledInRound
      <4>2. t.node \in Sentinels => blockStates' = blockStates
        BY <2>4, <3>1 DEF QuietInv, OneCallAtATime
      <4>. QED BY <3>1, <4>1, <4>2
    <3>2. CASE v # u
      <4>1. v \in executing /\ v.node \in Nodes \ {t.node}
        BY <1>3, <3>2, QuietGives
      <4>. QED BY <4>1 DEF QuietInv, CalledInRound
    <3>. QED BY <3>1, <3>2
  <2>. QED BY <2>2, <2>3, <2>4 DEF CalledInRound
<1>. QED BY <1>2, <1>4, <1>5 DEF QuietInv

(* A call settles and its answer is routed. *)
LEMMA QuietRoutes ==
  ASSUME LoopsWired, QuietInv, LoopTypeOK', NEW t \in executing, Fires(t.node, t.output),
         executing' = executing \ {t}, UNCHANGED <<starts, mark>>,
         \A k \in Nodes \ {t.node} : blockStates'[k] = blockStates[k],
         ProcessOutgoingEdges(t.node, t.output),
         readyQueue' = readyQueue \cup ReadyNodes(t.node, t.output)
  PROVE  QuietInv'
<1>. DEFINE n == t.node
            Queued == ReadyNodes(t.node, t.output)
<1>1. EdgeTypeOK /\ OpenEdgesLive
  BY DEF QuietInv, LoopTypeOK, TypeOK
<1>2. \A k \in Nodes : IsNodeReady(k) => IsNodeReady(k)'
  BY <1>1, RoutedReady
<1>3. \A k \in Queued : k \in Nodes /\ ~IsNodeReady(k) /\ IsNodeReady(k)'
  BY <1>1, RoutedQueued
<1>. HIDE DEF Queued
<1>4. /\ n \in Active /\ n \in Nodes /\ n \notin readyQueue /\ IsNodeReady(n) /\ n \notin Queued
      /\ Queued \cap Active = {}
  BY <1>3, QuietGives DEF QuietInv, OneCallAtATime
<1>5. Busy' = Busy \ {n}
  BY DEF QuietInv, OneCallAtATime, Busy
<1>6. Active' = (Active \ {n}) \cup Queued
  BY <1>4, <1>5 DEF Active, Queued
<1>7. OpenEdgesLive'
  <2>. SUFFICES ASSUME NEW m \in Nodes, Open(m)' PROVE Live(m)'
    BY DEF OpenEdgesLive
  <2>1. m # n
    BY <1>2, <1>4, <1>6 DEF Open
  <2>2. m \in Active \/ m \in Queued \/ ~IsNodeReady(m)'
    BY <1>6 DEF Open
  <2>. QED BY <1>1, <2>1, <2>2, QuietGives, RoutedLive DEF Queued
<1>8. OneCallAtATime'
  BY <1>4 DEF QuietInv, OneCallAtATime, Active, Busy, Queued
<1>9. CalledInRound'
  <2>1. ASSUME NEW m \in Nodes, m \in readyQueue' \/ ~IsNodeReady(m)'
        PROVE  blockStates'[m] = None /\ starts'[m] = mark'[m]
    <3>1. m \in readyQueue \/ ~IsNodeReady(m)
      BY <1>2, <1>3, <2>1 DEF Queued
    <3>2. m # n
      BY <1>4, <3>1
    <3>. QED BY <3>1, <3>2 DEF QuietInv, CalledInRound
  <2>2. \A m \in Active' : IsNodeReady(m)'
    BY <1>2, <1>3, <1>6, QuietGives
  <2>3. ASSUME NEW u \in executing'
        PROVE  /\ u.nth = starts'[u.node] /\ mark'[u.node] < u.nth
               /\ u.node \in Sentinels => blockStates'[u.node] = None
    <3>1. u \in executing /\ u.node \in Nodes \ {n}
      BY QuietGives DEF QuietInv, OneCallAtATime
    <3>. QED BY <3>1 DEF QuietInv, CalledInRound
  <2>. QED BY <2>1, <2>2, <2>3 DEF CalledInRound
<1>10. AnswersKnown'
  BY DEF QuietInv, AnswersKnown
<1>. QED BY <1>7, <1>8, <1>9, <1>10 DEF QuietInv

(* The end sentinel leads back to the start, and only there. *)
LEMMA BackTargets ==
  ASSUME LoopsWired, NEW l \in Loops, NEW out, out.route = "loop_continue"
  PROVE  /\ ActivatedTargets(EndOf[l], out) = {StartOf[l]}
         /\ ReadyNodes(EndOf[l], out) = {k \in {StartOf[l]} : IsNodeReady(k)'}
<1>1. out.route \in ControlHandles /\ out.route \in BackHandles /\ out.route \notin ExitHandles
  BY DEF ControlHandles, LoopRoutes, BackHandles, ExitHandles
<1>2. \A k \in Loops : EndOf[k] = EndOf[l] => k = l
  BY SentinelsInside
<1>3. ASSUME NEW e \in OutEdges(EndOf[l]), ShouldActivate(e, out) PROVE e.dst = StartOf[l]
  <2>1. e \in Edges /\ e.src = EndOf[l] /\ e.handle = "loop_continue" /\ e.handle \in ControlHandles
    BY <1>1, <1>3 DEF OutEdges, ShouldActivate
  <2>. QED BY <1>2, <2>1 DEF LoopsWired, IsBypass
<1>4. \E e \in OutEdges(EndOf[l]) : ShouldActivate(e, out) /\ e.dst = StartOf[l]
  <2>. DEFINE e == [src |-> EndOf[l], dst |-> StartOf[l], handle |-> "loop_continue"]
  <2>1. e \in Edges
    BY DEF LoopsWired, WiredByConstruction
  <2>. QED BY <1>1, <2>1 DEF OutEdges, ShouldActivate
<1>5. ActivatedTargets(EndOf[l], out) = {StartOf[l]}
  BY <1>3, <1>4 DEF ActivatedTargets
<1>6. EdgesToDeactivate(EndOf[l], out) = {}
  <2>. SUFFICES ASSUME NEW e \in OutEdges(EndOf[l]), e.handle \notin ControlHandles PROVE FALSE
    BY DEF EdgesToDeactivate
  <2>1. e \in Forward /\ e.src = EndOf[l]
    BY ControlEdges DEF OutEdges
  <2>2. e.handle = "loop_exit"
    BY <2>1 DEF LoopsWired, WiredByConstruction
  <2>. QED BY <2>2 DEF ControlHandles, LoopRoutes
<1>. QED BY <1>5, <1>6 DEF ReadyNodes, ReadyTargets, ReadySentinels, ReadyConvergences

LEMMA ActiveLive ==
  ASSUME QuietInv, NEW n \in Active
  PROVE  Live(n)
BY QuietGives DEF QuietInv, OpenEdgesLive, Open

LEMMA SentinelsApart ==
  ASSUME NEW l \in Loops, NEW k \in Loops
  PROVE  (StartOf[k] = StartOf[l] => k = l) /\ (EndOf[k] = EndOf[l] => k = l)
BY SentinelsInside

LEMMA BackFromEnd ==
  ASSUME LoopsWired, QuietInv, NEW t \in executing, GoesBack(t)
  PROVE  LET l == SubflowOf[t.node]
         IN  /\ l \in Loops /\ t.node = EndOf[l] /\ t.output.route = "loop_continue"
             /\ ActivatedTargets(t.node, t.output) = {StartOf[l]}
             /\ ReadyNodes(t.node, t.output) = {k \in {StartOf[l]} : IsNodeReady(k)'}
             /\ Active \cap Inside(l) = {t.node}
<1>. DEFINE l == SubflowOf[t.node]
<1>1. t.node \in Starts \cup Ends /\ t.output # None /\ t.output.route = "loop_continue"
  BY DEF GoesBack, SentinelCompletes, Sentinel
<1>2. t.node \notin Starts
  <2>1. NoRoute # "loop_continue"
    BY HandlesAssumption DEF Handles, ControlHandles, LoopRoutes
  <2>. QED BY <1>1, <2>1 DEF QuietInv, AnswersKnown, StartAnswers, EndAnswers, Result
<1>3. l \in Loops /\ t.node = EndOf[l]
  BY <1>1, <1>2, SentinelsInside DEF Ends
<1>4. Active \cap Inside(l) = {t.node}
  BY <1>3, QuietGives, QuietEnd DEF EndIsQuiet
<1>. QED BY <1>1, <1>3, <1>4, BackTargets

(* The edges of the loop live again, those outside stay as they are.          *)
LEMMA BackEdges ==
  ASSUME LoopsWired, QuietInv, NEW t \in executing, GoesBack(t), NEW l \in Loops,
         l = SubflowOf[t.node]
  PROVE  /\ \A n \in Inside(l) : Live(n)'
         /\ \A n \in Nodes \ Inside(l) : Live(n) => Live(n)'
         /\ \A n \in Nodes \ Inside(l) : IsNodeReady(n)' <=> IsNodeReady(n)
<1>1. /\ t.node = EndOf[l] /\ ActivatedTargets(t.node, t.output) = {StartOf[l]}
      /\ deactivatedEdges' = {e \in deactivatedEdges : e.src \notin Inside(l)}
      /\ incomingEdges' = [n \in Nodes |-> IF n \in {StartOf[l]} THEN Restored(l, n) \ {EndOf[l]}
                                                                 ELSE Restored(l, n)]
  BY BackFromEnd DEF GoesBack
<1>2. Live(EndOf[l])
  <2>1. EndOf[l] \in Active
    BY <1>1, QuietGives
  <2>. QED BY <2>1, ActiveLive
<1>3. ASSUME NEW n \in Nodes \ Inside(l) PROVE incomingEdges'[n] = incomingEdges[n]
  <2>1. n # StartOf[l]
    BY SentinelsInside
  <2>2. incomingEdges'[n] = Restored(l, n)
    BY <1>1, <2>1
  <2>. QED BY <2>2 DEF Restored
<1>4. \A e \in Edges : e.src = EndOf[l] /\ e \in Forward => e.dst \in Nodes \ Inside(l)
  <2>. SUFFICES ASSUME NEW e \in Forward, e \in Edges, e.src = EndOf[l]
                PROVE  e.dst \in Nodes \ Inside(l)
    OBVIOUS
  <2>1. e.handle = "loop_exit" /\ e.handle \in ControlHandles /\ e \notin SilentEdges
    BY DEF LoopsWired, WiredByConstruction, Forward, ControlHandles, LoopRoutes
  <2>2. ~IsBypass(e)
    BY <2>1 DEF LoopsWired
  <2>3. PICK k \in Loops : e.src = EndOf[k] /\ e.dst \notin Inside(k)
    BY <2>1, <2>2 DEF LoopsWired
  <2>4. k = l
    BY <2>3, SentinelsApart
  <2>. QED BY <2>3, <2>4, EdgeEnds
<1>5. ASSUME NEW n \in Inside(l) PROVE Live(n)'
  <2>. SUFFICES ASSUME NEW e \in Forward, e.src = n
                PROVE  n \in incomingEdges'[e.dst] /\ e \notin deactivatedEdges'
    BY DEF Live
  <2>1. e \notin deactivatedEdges' /\ e \in Edges /\ e.dst \in Nodes /\ e \in InEdges(e.dst)
    BY <1>1, EdgeEnds DEF Forward
  <2>2. CASE n = EndOf[l]
    BY <1>2, <1>3, <1>4, <2>1, <2>2 DEF Live
  <2>3. CASE n # EndOf[l]
    <3>1. e.dst \in Inside(l)
      BY <2>1, <2>3 DEF LoopsWired, WiredByConstruction
    <3>2. ~IsBypass(e) /\ e.handle \notin BackHandles
      BY <2>1 DEF LoopsWired, Forward
    <3>3. n \in Restored(l, e.dst)
      BY <2>1, <3>1, <3>2 DEF Restored, RestoredSources
    <3>. QED BY <1>1, <2>1, <2>3, <3>3
  <2>. QED BY <2>2, <2>3
<1>6. ASSUME NEW n \in Nodes \ Inside(l), Live(n) PROVE Live(n)'
  <2>. SUFFICES ASSUME NEW e \in Forward, e.src = n
                PROVE  n \in incomingEdges'[e.dst] /\ e \notin deactivatedEdges'
    BY DEF Live
  <2>1. n \in incomingEdges[e.dst] /\ e \notin deactivatedEdges /\ e.dst \in Nodes
    BY <1>6, EdgeEnds DEF Live, Forward
  <2>2. n # EndOf[l] /\ n \in Restored(l, e.dst)
    BY <2>1, SentinelsInside DEF Restored
  <2>. QED BY <1>1, <2>1, <2>2
<1>7. ASSUME NEW n \in Nodes \ Inside(l), NEW e \in InEdges(n)
      PROVE  e \in deactivatedEdges' <=> e \in deactivatedEdges
  <2>1. e \in Edges /\ e.dst = n
    BY DEF InEdges
  <2>2. CASE e.src \notin Inside(l)
    BY <1>1, <2>2
  <2>3. CASE e.src \in Inside(l)
    <3>1. e.src = EndOf[l]
      BY <2>1, <2>3 DEF LoopsWired, WiredByConstruction
    <3>2. e \in Forward
      <4>. SUFFICES ASSUME e \in SilentEdges PROVE FALSE
        BY <2>1 DEF Forward
      <4>1. e.handle \in BackHandles \/ IsBypass(e)
        BY <2>1, ControlEdges
      <4>2. e.handle \in ControlHandles /\ (IsBypass(e) => e.handle = "loop_exit")
        BY <4>1 DEF ControlHandles, LoopRoutes, ParallelRoutes, BackHandles, IsBypass
      <4>3. ~IsBypass(e)
        BY <3>1, SentinelsInside DEF IsBypass
      <4>4. e.handle = "loop_continue"
        BY <2>1, <4>1, <4>3, ControlEdges
      <4>5. PICK k \in Loops : e.src = EndOf[k] /\ e.dst = StartOf[k]
        BY <2>1, <4>2, <4>3, <4>4 DEF LoopsWired
      <4>6. e.dst = StartOf[l]
        BY <3>1, <4>5, SentinelsApart
      <4>. QED BY <2>1, <4>6, SentinelsInside
    <3>. QED BY <1>1, <1>2, <2>3, <3>1, <3>2 DEF Live
  <2>. QED BY <2>2, <2>3
<1>8. ASSUME NEW n \in Nodes \ Inside(l) PROVE IsNodeReady(n)' <=> IsNodeReady(n)
  BY <1>3, <1>7 DEF IsNodeReady, NoActiveIncoming
<1>. QED BY <1>5, <1>6, <1>8

(* The loop goes back: its start sentinel is all that is queued.              *)
LEMMA QuietGoesBack ==
  ASSUME LoopsWired, QuietInv, LoopTypeOK', NEW t \in executing, GoesBack(t)
  PROVE  QuietInv'
<1>. DEFINE l == SubflowOf[t.node]
            Queued == ReadyNodes(t.node, t.output)
<1>1. /\ l \in Loops /\ t.node = EndOf[l] /\ Active \cap Inside(l) = {t.node}
      /\ Queued \subseteq {StartOf[l]} /\ \A k \in Queued : IsNodeReady(k)'
  BY BackFromEnd
<1>2. /\ \A n \in Inside(l) : Live(n)'
      /\ \A n \in Nodes \ Inside(l) : Live(n) => Live(n)'
      /\ \A n \in Nodes \ Inside(l) : IsNodeReady(n)' <=> IsNodeReady(n)
  BY <1>1, BackEdges
<1>3. /\ executing' = executing \ {t} /\ UNCHANGED starts
      /\ readyQueue' = readyQueue \cup Queued
      /\ blockStates' = [n \in Nodes |-> IF n \in Inside(l) THEN None ELSE blockStates[n]]
      /\ mark' = [n \in Nodes |-> IF n \in Inside(l) THEN starts[n] ELSE mark[n]]
  BY DEF GoesBack, SentinelCompletes
<1>4. StartOf[l] \in Inside(l) /\ EndOf[l] \in Inside(l) /\ StartOf[l] # EndOf[l]
      /\ Inside(l) \subseteq Nodes
  BY <1>1, SentinelsInside DEF Inside
<1>5. \A u \in executing \ {t} : u.node \in Nodes \ Inside(l)
  <2>1. \A u \in executing \ {t} : u.node # t.node /\ u.node \in Active /\ u.node \in Nodes
    BY QuietGives DEF QuietInv, OneCallAtATime
  <2>. QED BY <1>1, <2>1
<1>. HIDE DEF l, Queued
<1>6. Busy' = Busy \ {t.node}
  BY <1>3 DEF QuietInv, OneCallAtATime, Busy
<1>7. readyQueue \cap Inside(l) = {} /\ readyQueue \subseteq Nodes
  BY <1>1, QuietGives DEF QuietInv, OneCallAtATime, Active
<1>8. Active' = (Active \ {t.node}) \cup Queued /\ (Active \ {t.node}) \cap Inside(l) = {}
  <2>1. t.node \notin readyQueue
    BY DEF QuietInv, OneCallAtATime
  <2>. QED BY <1>1, <1>3, <1>6, <2>1 DEF Active
<1>9. OpenEdgesLive'
  <2>. SUFFICES ASSUME NEW m \in Nodes, Open(m)', m \notin Inside(l) PROVE Live(m)'
    BY <1>2 DEF OpenEdgesLive
  <2>1. m \in Active \/ ~IsNodeReady(m)
    BY <1>1, <1>2, <1>4, <1>8 DEF Open
  <2>2. Live(m)
    BY <2>1 DEF QuietInv, OpenEdgesLive, Open
  <2>. QED BY <1>2, <2>2
<1>10. OneCallAtATime'
  BY <1>1, <1>3, <1>4, <1>5 DEF QuietInv, OneCallAtATime
<1>11. CalledInRound'
  <2>1. ASSUME NEW m \in Nodes, m \in readyQueue' \/ ~IsNodeReady(m)'
        PROVE  blockStates'[m] = None /\ starts'[m] = mark'[m]
    <3>1. CASE m \in Inside(l)
      BY <1>3, <3>1
    <3>2. CASE m \notin Inside(l)
      <4>1. m \in readyQueue \/ ~IsNodeReady(m)
        BY <1>1, <1>2, <1>3, <1>4, <2>1, <3>2
      <4>. QED BY <1>3, <3>2, <4>1 DEF QuietInv, CalledInRound
    <3>. QED BY <3>1, <3>2
  <2>2. ASSUME NEW m \in Active' PROVE IsNodeReady(m)'
    <3>1. CASE m \in Queued
      BY <1>1, <3>1
    <3>2. CASE m \notin Queued
      <4>1. m \in Active /\ m \in Nodes \ Inside(l)
        BY <1>8, <2>2, <3>2, QuietGives
      <4>. QED BY <1>2, <4>1, QuietGives
    <3>. QED BY <3>1, <3>2
  <2>3. ASSUME NEW u \in executing'
        PROVE  /\ u.nth = starts'[u.node] /\ mark'[u.node] < u.nth
               /\ u.node \in Sentinels => blockStates'[u.node] = None
    <3>1. u \in executing /\ u.node \in Nodes \ Inside(l)
      BY <1>3, <1>5
    <3>. QED BY <1>3, <3>1 DEF QuietInv, CalledInRound
  <2>. QED BY <2>1, <2>2, <2>3 DEF CalledInRound
<1>12. AnswersKnown'
  BY <1>3 DEF QuietInv, AnswersKnown
<1>. QED BY <1>9, <1>10, <1>11, <1>12 DEF QuietInv

(* What a call answers lets something fire, or drops nothing.                 *)
LEMMA AnswersFire ==
  ASSUME LoopsWired, BranchesWired, QuietInv, NEW t \in executing, t.output # None,
         t.output.kind = "done", t.output.route # "loop_continue"
  PROVE  Fires(t.node, t.output)
<1>. DEFINE n == t.node
            out == t.output
<1>1. n \in Active /\ n \in Nodes
  BY QuietGives
<1>2. NoRoute \notin ControlHandles /\ "loop_exit" \in ControlHandles
  BY HandlesAssumption DEF Handles, ControlHandles, LoopRoutes
<1>3. CASE n \notin Sentinels
  <2>1. out \in Results(n)
    BY <1>3 DEF QuietInv, AnswersKnown
  <2>2. CASE OutEdges(n) = {}
    BY <1>1, <2>2 DEF Fires, EdgesToDeactivate
  <2>3. CASE OutEdges(n) # {}
    BY <1>1, <1>3, <2>1, <2>3 DEF Fires, BranchesWired
  <2>. QED BY <2>2, <2>3
<1>4. ASSUME NEW l \in Loops, n = StartOf[l] PROVE Fires(n, out)
  <2>1. out.route \in {NoRoute, "loop_exit"}
    BY <1>4, SentinelsInside DEF QuietInv, AnswersKnown, StartAnswers, EndAnswers, Result
  <2>2. CASE out.route = "loop_exit"
    <3>. DEFINE e == [src |-> StartOf[l], dst |-> EndOf[l], handle |-> "loop_exit"]
    <3>1. e \in Edges
      BY DEF LoopsWired, WiredByConstruction
    <3>2. e \in OutEdges(n) /\ ShouldActivate(e, out)
      BY <1>2, <1>4, <2>2, <3>1 DEF OutEdges, ShouldActivate
    <3>. QED BY <1>1, <2>2, <3>2 DEF Fires, ActivatedTargets
  <2>3. CASE out.route = NoRoute
    <3>1. {StartOf[l]} \in (SUBSET Inside(l)) \ {{}} /\ EndOf[l] \notin {StartOf[l]}
      BY SentinelsInside
    <3>0. \A S \in (SUBSET Inside(l)) \ {{}} :
            EndOf[l] \notin S => \E e \in Forward : e.src \in S
      BY DEF LoopsWired, WiredByConstruction
    <3>2. PICK e \in Forward : e.src = StartOf[l]
      BY <3>0, <3>1
    <3>3. e \in OutEdges(n) /\ e.handle = "always"
      BY <1>4, <3>2 DEF LoopsWired, WiredByConstruction, OutEdges, Forward
    <3>4. ShouldActivate(e, out)
      BY <1>2, <2>3, <3>3 DEF ShouldActivate
    <3>. QED BY <1>1, <3>3, <3>4 DEF Fires, ActivatedTargets
  <2>. QED BY <2>1, <2>2, <2>3
<1>5. ASSUME NEW l \in Loops, n = EndOf[l] PROVE Fires(n, out)
  <2>1. EdgesToDeactivate(n, out) = {}
    <3>. SUFFICES ASSUME NEW e \in OutEdges(n), e.handle \notin ControlHandles PROVE FALSE
      BY DEF EdgesToDeactivate
    <3>1. e \in Forward /\ e.src = EndOf[l]
      BY <1>5, ControlEdges DEF OutEdges
    <3>. QED BY <1>2, <3>1 DEF LoopsWired, WiredByConstruction
  <2>. QED BY <1>1, <2>1 DEF Fires
<1>6. n \in Sentinels => \E l \in Loops : n = StartOf[l] \/ n = EndOf[l]
  BY DEF LoopsWired, Starts, Ends
<1>. QED BY <1>3, <1>4, <1>5, <1>6

LEMMA InitQuiet == LoopsWired /\ LoopInit => QuietInv
<1>. SUFFICES ASSUME LoopsWired, LoopInit PROVE QuietInv
  OBVIOUS
<1>1. /\ readyQueue = {Trigger} /\ executing = {} /\ Active = {Trigger}
      /\ \A n \in Nodes : blockStates[n] = None /\ starts[n] = 0 /\ mark[n] = 0
      /\ incomingEdges = [n \in Nodes |-> {e.src : e \in InEdges(n) \ SilentEdges}]
      /\ deactivatedEdges = {}
  BY DEF LoopInit, Init, EdgeInit, Active, Busy
<1>2. \A n \in Nodes : Live(n)
  <2>. SUFFICES ASSUME NEW e \in Forward PROVE e.src \in incomingEdges[e.dst]
    BY <1>1 DEF Live
  <2>1. e.dst \in Nodes /\ e \in InEdges(e.dst) \ SilentEdges
    BY EdgeEnds DEF Forward
  <2>. QED BY <1>1, <2>1
<1>3. IsNodeReady(Trigger)
  <2>1. incomingEdges[Trigger] = {}
    BY <1>1, EdgesAssumption DEF LoopsWired
  <2>. QED BY <2>1 DEF IsNodeReady, NoActiveIncoming
<1>. QED BY <1>1, <1>2, <1>3, LoopInitTypeOK
     DEF QuietInv, AnswersKnown, OneCallAtATime, CalledInRound, OpenEdgesLive

(* A call has its answer. *)
LEMMA QuietReturns ==
  ASSUME LoopsWired, QuietInv, LoopTypeOK', NEW t \in executing, Returns(t)
  PROVE  QuietInv'
<1>1. t.fresh /\ Starts \subseteq Sentinels /\ Ends \subseteq Sentinels /\ Sentinels = Starts \cup Ends
  BY DEF QuietInv, OneCallAtATime, LoopsWired
<1>2. t \in Task
  BY TasksTyped DEF QuietInv, LoopTypeOK
<1>3. ASSUME NEW out, Returned(t, out),
             UNCHANGED <<edgeVars, readyQueue, starts, mark>>,
             \A k \in Nodes \ {t.node} : blockStates'[k] = blockStates[k],
             t.node \in Sentinels => UNCHANGED blockStates,
             t.node \notin Sentinels => out \in Results(t.node),
             t.node \in Starts => out \in StartAnswers, t.node \in Ends => out \in EndAnswers
      PROVE  QuietInv'
  <2>. DEFINE u == [t EXCEPT !.output = out]
  <2>1. u.node = t.node /\ u.nth = t.nth /\ u.fresh = t.fresh /\ u.output = out
    BY <1>2 DEF Task
  <2>2. executing' = (executing \ {t}) \cup {u}
    BY <1>3 DEF Returned
  <2>. HIDE DEF u
  <2>3. AnswersKnown'
    BY <1>3, <2>1, <2>2 DEF QuietInv, AnswersKnown
  <2>. QED BY <1>3, <2>1, <2>2, <2>3, QuietCall
<1>4. CASE BlockEnds(t)
  <2>1. t.node \notin Sentinels
    BY <1>1, <1>4 DEF BlockEnds, Sentinel
  <2>2. PICK out \in Results(t.node) :
          /\ executing' = (executing \ {t}) \cup {[t EXCEPT !.output = out]}
          /\ blockStates' = [blockStates EXCEPT ![t.node] = out]
    BY <1>1, <1>4 DEF BlockEnds, BlockReturns
  <2>3. Returned(t, out) /\ UNCHANGED <<edgeVars, readyQueue, starts, mark>>
    BY <1>4, <2>2 DEF BlockEnds, BlockReturns, Returned
  <2>4. \A k \in Nodes \ {t.node} : blockStates'[k] = blockStates[k]
    BY <2>2 DEF QuietInv, LoopTypeOK, TypeOK
  <2>. QED BY <1>1, <1>3, <2>1, <2>3, <2>4
<1>5. ASSUME NEW out, SentinelReturns(t, out),
             t.node \in Starts => out \in StartAnswers, t.node \in Ends => out \in EndAnswers
      PROVE  QuietInv'
  BY <1>1, <1>3, <1>5 DEF SentinelReturns, Sentinel
<1>6. Starts \cap Ends = {}
  BY SentinelsInside DEF Starts, Ends
<1>7. CASE StartReturns(t)
  <2>1. t.node \in Starts /\ t.node \notin Ends
    BY <1>6, <1>7 DEF StartReturns
  <2>2. PICK out \in StartAnswers : SentinelReturns(t, out)
    BY <1>7 DEF StartReturns, StartAnswers
  <2>. QED BY <1>5, <2>1, <2>2
<1>8. CASE EndReturns(t)
  <2>1. t.node \in Ends /\ t.node \notin Starts
    BY <1>6, <1>8 DEF EndReturns
  <2>2. PICK out \in EndAnswers : SentinelReturns(t, out)
    BY <1>8 DEF EndReturns, Leaves, GoesOn, EndAnswers
  <2>. QED BY <1>5, <2>1, <2>2
<1>. QED BY <1>4, <1>7, <1>8 DEF Returns

LEMMA NextQuiet ==
  LoopsWired /\ BranchesWired /\ QuietInv /\ [LoopNext]_allVars => QuietInv'
<1>. SUFFICES ASSUME LoopsWired, BranchesWired, QuietInv, [LoopNext]_allVars PROVE QuietInv'
  OBVIOUS
<1>1. LoopTypeOK'
  BY LoopNextTypeOK DEF QuietInv
<1>2. CASE ProcessQueue /\ UNCHANGED scopeVars
  BY <1>1, <1>2, QuietProcessQueue DEF scopeVars, history
<1>3. CASE \/ (WakeUp \/ LeaveLoop \/ AllSettled \/ SignalCancelled \/ Ended) /\ UNCHANGED scopeVars
           \/ UNCHANGED allVars
  <2>1. UNCHANGED <<edgeVars, readyQueue, executing, starts, blockStates, mark>>
    BY <1>3 DEF WakeUp, LeaveLoop, AllSettled, SignalCancelled, Ended, vars, scopeVars, history, allVars
  <2>. QED BY <1>1, <2>1, QuietIdle
<1>4. ASSUME NEW t \in executing, executing' = executing \ {t},
             UNCHANGED <<edgeVars, readyQueue, starts, mark>>,
             \A k \in Nodes \ {t.node} : blockStates'[k] = blockStates[k]
      PROVE  QuietInv'
  <2>1. AnswersKnown'
    BY <1>4 DEF QuietInv, AnswersKnown
  <2>. QED BY <1>1, <1>4, <2>1, QuietCall
<1>5. ASSUME NEW t \in executing, UNCHANGED mark,
             \/ CompletionDropped(t) \/ CompletionThrows(t) \/ CompletionPauses(t)
             \/ CompletionResponds(t) \/ CompletionStops(t)
      PROVE  QuietInv'
  <2>1. Settles(t) /\ UNCHANGED <<edgeVars, readyQueue>>
    BY <1>5 DEF CompletionDropped, CompletionThrows, CompletionPauses, CompletionResponds,
                CompletionStops, Handled
  <2>. QED BY <1>4, <1>5, <2>1 DEF Settles
<1>6. ASSUME NEW t \in executing, CompletionRoutes(t), UNCHANGED mark, t.node \notin Starts \cup Ends
      PROVE  QuietInv'
  <2>1. t.output # None /\ t.output.kind = "done" /\ Settles(t)
    BY <1>6 DEF CompletionRoutes, Handled, Settles
  <2>2. t.output.route # "loop_continue"
    <3>1. t.output \in Results(t.node)
      BY <1>6, <2>1 DEF QuietInv, AnswersKnown, LoopsWired
    <3>2. t.output.route \in Options \cup {NoRoute}
      BY <3>1, EngineAssumption DEF Results, Result
    <3>. QED BY <3>2, HandlesAssumption DEF Handles, ControlHandles, LoopRoutes
  <2>3. Fires(t.node, t.output)
    BY <2>1, <2>2, AnswersFire
  <2>. QED BY <1>1, <1>6, <2>1, <2>3, QuietRoutes DEF CompletionRoutes, Settles
<1>7. ASSUME NEW t \in executing, Passes(t) PROVE QuietInv'
  <2>1. /\ t.output # None /\ t.output.kind = "done" /\ t.output.route # "loop_continue"
        /\ executing' = executing \ {t} /\ UNCHANGED <<starts, mark>>
    BY <1>7 DEF Passes, SentinelCompletes, history
  <2>2. \A k \in Nodes \ {t.node} : blockStates'[k] = blockStates[k]
    BY <1>7 DEF Passes, QuietInv, LoopTypeOK, TypeOK
  <2>3. CASE t.node = StopAfter
    BY <1>4, <1>7, <2>1, <2>2, <2>3 DEF Passes
  <2>4. CASE t.node # StopAfter
    <3>1. Fires(t.node, t.output)
      BY <2>1, AnswersFire
    <3>2. /\ ProcessOutgoingEdges(t.node, t.output)
          /\ readyQueue' = readyQueue \cup ReadyNodes(t.node, t.output)
      BY <1>7, <2>4 DEF Passes
    <3>. QED BY <1>1, <2>1, <2>2, <3>1, <3>2, QuietRoutes
  <2>. QED BY <2>3, <2>4
<1>8. ASSUME NEW t \in executing, Completion(t) PROVE QuietInv'
  <2>1. CASE (CompletionDropped(t) \/ CompletionThrows(t)) /\ UNCHANGED scopeVars
    BY <1>5, <2>1 DEF scopeVars, history
  <2>2. CASE BlockCompletes(t)
    BY <1>5, <1>6, <2>2 DEF BlockCompletes, history
  <2>. QED BY <1>1, <1>7, <1>8, <2>1, <2>2, QuietGoesBack DEF Completion
<1>. QED BY <1>1, <1>2, <1>3, <1>8, QuietReturns DEF LoopNext, MainLoop

(* In a run whose loops are wired as the edge constructor wires them, and in   *)
(* which no answer of a block leaves it without an edge to fire, a block      *)
(* waits for every feeder that is going to run, behind a loop and in its       *)
(* rounds too.                                                              *)
THEOREM LoopWaitsForFeeders == LoopsWired /\ BranchesWired => (LoopSpec => []WaitsForFeeders)
<1>. SUFFICES ASSUME LoopsWired, BranchesWired PROVE LoopSpec => []WaitsForFeeders
  OBVIOUS
<1>1. LoopInit => QuietInv
  BY InitQuiet
<1>2. QuietInv /\ [LoopNext]_allVars => QuietInv'
  BY NextQuiet
<1>3. QuietInv => WaitsForFeeders
  BY QuietFeeders
<1>. QED BY <1>1, <1>2, <1>3, PTL DEF LoopSpec

----------------------------------------------------------------------------
(* What a step does to the scopes.                                          *)

(* The start sentinel of l answers out and leaves the scope q. *)
StartStep(t, l, q, out) ==
  /\ Returned(t, out) /\ scope' = [scope EXCEPT ![l] = q]
  /\ q.iteration = Scoped(l).iteration /\ q.outputs = Scoped(l).outputs
  /\ q.results = Scoped(l).results
  /\ q.skipped => Scoped(l).skipped \/ (CountOf[l] \in {None, 0} /\ out.route = "loop_exit")
  /\ out.kind = "done" /\ CountOf[l] = 0 => out.route = "loop_exit"

(* Its end sentinel does. *)
EndStep(t, l, q, out) ==
  /\ Returned(t, out) /\ scope' = [scope EXCEPT ![l] = q]
  /\ q.outputs \in {Scoped(l).outputs, {}} /\ (q.skipped => Scoped(l).skipped)
  /\ IF out.route = "loop_continue"
     THEN /\ q.outputs = {} /\ q.iteration = Scoped(l).iteration + 1
          /\ q.results = Collected(Scoped(l)) /\ ~Scoped(l).skipped
     ELSE q.iteration = Scoped(l).iteration
  /\ out.route = "loop_exit" /\ ~cancelledFlag =>
       aggregated'[l] = IF Scoped(l).skipped THEN Scoped(l).results ELSE Collected(Scoped(l))
  /\ out.route = "loop_exit" /\ CountOf[l] # None =>
       \/ cancelledFlag \/ l \in misjudged' \/ Scoped(l).skipped
       \/ ~(Scoped(l).iteration + 1 < CountOf[l])

LEMMA StartShape ==
  ASSUME LoopTypeOK, NEW t \in executing, StartReturns(t), NEW l, l = SubflowOf[t.node]
  PROVE  /\ l \in Loops /\ t.node = StartOf[l] /\ t.output = None
         /\ UNCHANGED <<edgeVars, readyQueue, starts, blockStates, mark, misjudged, cancelledFlag,
                        aggregated>>
         /\ past' = IF scope[l] = None THEN [past EXCEPT ![l] = <<>>] ELSE past
         /\ \E q \in Scope, out \in StartAnswers : StartStep(t, l, q, out)
<1>. DEFINE s == Scoped(l)
<1>1. l \in Loops /\ t.node = StartOf[l]
  BY SentinelsInside DEF StartReturns, Starts
<1>2. s \in Scope
  BY <1>1, LoopScopedTyped
<1>3. ASSUME NEW enters \in EntersBody(l), CountOf[l] # None
      PROVE  (CountOf[l] # 0 => enters) /\ (CountOf[l] = 0 => ~enters)
  <2>1. /\ CountOf[l] \in Nat
        /\ LoopType[l] \in {"for", "forEach"} \/ (LoopType[l] = "doWhile" /\ CountOf[l] # 0)
    BY <1>1, <1>3, LoopAssumption
  <2>2. CASE LoopType[l] \in {"for", "forEach"}
    <3>1. EntersBody(l) = {CountOf[l] > 0}
      BY <2>2 DEF EntersBody
    <3>2. enters <=> CountOf[l] > 0
      BY <3>1
    <3>. QED BY <2>1, <3>2
  <2>3. CASE LoopType[l] = "doWhile" /\ CountOf[l] # 0
    <3>1. EntersBody(l) = {TRUE}
      BY <2>3 DEF EntersBody
    <3>. QED BY <2>3, <3>1
  <2>. QED BY <2>1, <2>2, <2>3
<1>4. None # 0
  BY LoopAssumption
<1>5. ASSUME NEW enters \in EntersBody(l),
             SentinelReturns(t, Result("done", IF enters THEN NoRoute ELSE "loop_exit", FALSE)),
             scope' = [scope EXCEPT ![l] = [s EXCEPT !.skipped = @ \/ ~enters]]
      PROVE  \E q \in Scope, out \in StartAnswers : StartStep(t, l, q, out)
  <2>. DEFINE q == [s EXCEPT !.skipped = @ \/ ~enters]
              out == Result("done", IF enters THEN NoRoute ELSE "loop_exit", FALSE)
  <2>1. q \in Scope /\ q.iteration = s.iteration /\ q.outputs = s.outputs
        /\ q.results = s.results /\ q.skipped = (s.skipped \/ ~enters)
    BY <1>2 DEF Scope
  <2>2. out \in StartAnswers /\ (~enters => out.route = "loop_exit") /\ Returned(t, out)
    BY <1>5 DEF Result, SentinelReturns, StartAnswers
  <2>. HIDE DEF out
  <2>3. StartStep(t, l, q, out)
    BY <1>3, <1>4, <1>5, <2>1, <2>2 DEF StartStep
  <2>. QED BY <2>1, <2>2, <2>3
<1>6. ASSUME SentinelReturns(t, Result("throw", NoRoute, TRUE)), scope' = [scope EXCEPT ![l] = s]
      PROVE  \E q \in Scope, out \in StartAnswers : StartStep(t, l, q, out)
  <2>1. Result("throw", NoRoute, TRUE).kind # "done" /\ Returned(t, Result("throw", NoRoute, TRUE))
    BY <1>6 DEF Result, SentinelReturns
  <2>2. StartStep(t, l, s, Result("throw", NoRoute, TRUE))
    BY <1>6, <2>1 DEF StartStep
  <2>. QED BY <1>2, <2>2 DEF StartAnswers
<1>7. /\ t.output = None /\ UNCHANGED <<misjudged, aggregated>>
      /\ UNCHANGED <<edgeVars, readyQueue, starts, blockStates, mark, cancelledFlag>>
      /\ past' = IF scope[l] = None THEN [past EXCEPT ![l] = <<>>] ELSE past
  BY DEF StartReturns, SentinelReturns, Returned
<1>. QED BY <1>1, <1>5, <1>6, <1>7 DEF StartReturns

LEMMA EndShape ==
  ASSUME LoopTypeOK, NEW t \in executing, EndReturns(t), NEW l, l = SubflowOf[t.node]
  PROVE  /\ l \in Loops /\ t.node = EndOf[l] /\ t.output = None
         /\ UNCHANGED <<edgeVars, readyQueue, starts, blockStates, mark, cancelledFlag>>
         /\ past' = IF scope[l] = None THEN [past EXCEPT ![l] = <<>>] ELSE past
         /\ misjudged \subseteq misjudged' /\ (cancelledFlag => UNCHANGED misjudged)
         /\ \A m \in Loops \ {l} : aggregated'[m] = aggregated[m]
         /\ \E q \in Scope, out \in EndAnswers : EndStep(t, l, q, out)
<1>. DEFINE s == Scoped(l)
<1>1. l \in Loops /\ t.node = EndOf[l]
  BY SentinelsInside DEF EndReturns, Ends
<1>2. s \in Scope
  BY <1>1, LoopScopedTyped
<1>3. /\ Result("done", "loop_exit", FALSE).route = "loop_exit"
      /\ Result("done", "loop_continue", FALSE).route = "loop_continue"
      /\ Result("throw", NoRoute, TRUE).route \notin {"loop_exit", "loop_continue"}
  BY HandlesAssumption DEF Result, Handles, ControlHandles, LoopRoutes
<1>4. ASSUME NEW p \in Scope, NEW r \in Seq(SUBSET Call), Leaves(t, l, p, r),
             p.outputs \in {s.outputs, {}}, p.skipped => s.skipped, p.iteration = s.iteration,
             ~cancelledFlag => r = IF s.skipped THEN s.results ELSE Collected(s),
             CountOf[l] # None =>
               \/ cancelledFlag \/ l \in misjudged' \/ s.skipped \/ ~(s.iteration + 1 < CountOf[l])
      PROVE  \E q \in Scope, out \in EndAnswers : EndStep(t, l, q, out)
  <2>. DEFINE q == [p EXCEPT !.results = <<>>]
  <2>0. <<>> \in Seq(SUBSET Call)
    OBVIOUS
  <2>1. q \in Scope
    BY <2>0, ScopeUpdated
  <2>2. q.outputs = p.outputs /\ q.skipped = p.skipped /\ q.iteration = p.iteration
    BY <1>4 DEF Scope
  <2>3. /\ Returned(t, Result("done", "loop_exit", FALSE)) /\ scope' = [scope EXCEPT ![l] = q]
        /\ aggregated'[l] = r
    BY <1>1, <1>4 DEF Leaves, SentinelReturns, LoopTypeOK
  <2>. HIDE DEF q
  <2>4. EndStep(t, l, q, Result("done", "loop_exit", FALSE))
    BY <1>3, <1>4, <2>2, <2>3 DEF EndStep
  <2>. QED BY <2>1, <2>4 DEF EndAnswers
<1>5. ASSUME GoesOn(t, l, s), ~s.skipped PROVE \E q \in Scope, out \in EndAnswers : EndStep(t, l, q, out)
  <2>. DEFINE q == [s EXCEPT !.iteration = @ + 1, !.outputs = {}, !.results = Collected(s)]
  <2>1. q \in Scope
    BY <1>2, LoopCollectedTyped, ScopeUpdated
  <2>2. q.outputs = {} /\ q.skipped = s.skipped /\ q.iteration = s.iteration + 1
        /\ q.results = Collected(s)
    BY <1>2 DEF Scope
  <2>3. Returned(t, Result("done", "loop_continue", FALSE)) /\ scope' = [scope EXCEPT ![l] = q]
    BY <1>5 DEF GoesOn, SentinelReturns
  <2>. HIDE DEF q
  <2>4. EndStep(t, l, q, Result("done", "loop_continue", FALSE))
    BY <1>3, <1>5, <2>2, <2>3 DEF EndStep
  <2>. QED BY <2>1, <2>4 DEF EndAnswers
<1>6. ASSUME SentinelReturns(t, Result("throw", NoRoute, TRUE)), scope' = [scope EXCEPT ![l] = s]
      PROVE  \E q \in Scope, out \in EndAnswers : EndStep(t, l, q, out)
  <2>1. EndStep(t, l, s, Result("throw", NoRoute, TRUE))
    BY <1>3, <1>6 DEF SentinelReturns, EndStep
  <2>. QED BY <1>2, <2>1 DEF EndAnswers
<1>7. \E q \in Scope, out \in EndAnswers : EndStep(t, l, q, out)
  <2>1. /\ s.results \in Seq(SUBSET Call) /\ Collected(s) \in Seq(SUBSET Call)
        /\ [s EXCEPT !.skipped = FALSE] \in Scope /\ [s EXCEPT !.outputs = {}] \in Scope
    BY <1>2, LoopCollectedTyped DEF Scope
  <2>2. /\ [s EXCEPT !.skipped = FALSE].outputs = s.outputs /\ ~[s EXCEPT !.skipped = FALSE].skipped
        /\ [s EXCEPT !.skipped = FALSE].iteration = s.iteration
        /\ [s EXCEPT !.outputs = {}].outputs = {} /\ [s EXCEPT !.outputs = {}].skipped = s.skipped
        /\ [s EXCEPT !.outputs = {}].iteration = s.iteration
    BY <1>2 DEF Scope
  <2>3. CASE cancelledFlag /\ Leaves(t, l, s, s.results)
    BY <1>2, <1>4, <2>1, <2>3
  <2>4. CASE s.skipped /\ Leaves(t, l, [s EXCEPT !.skipped = FALSE], s.results)
    BY <1>4, <2>1, <2>2, <2>4
  <2>5. CASE /\ ~s.skipped /\ Leaves(t, l, [s EXCEPT !.outputs = {}], Collected(s))
             /\ FALSE \in ConditionHolds(l, s.iteration + 1) \/ l \in misjudged'
    <3>1. CountOf[l] # None => l \in misjudged' \/ ~(s.iteration + 1 < CountOf[l])
      BY <2>5 DEF ConditionHolds
    <3>. QED BY <1>4, <2>1, <2>2, <2>5, <3>1
  <2>6. \/ cancelledFlag /\ Leaves(t, l, s, s.results)
        \/ s.skipped /\ Leaves(t, l, [s EXCEPT !.skipped = FALSE], s.results)
        \/ ~s.skipped /\ GoesOn(t, l, s)
        \/ /\ ~s.skipped /\ Leaves(t, l, [s EXCEPT !.outputs = {}], Collected(s))
           /\ FALSE \in ConditionHolds(l, s.iteration + 1) \/ l \in misjudged'
        \/ /\ SentinelReturns(t, Result("throw", NoRoute, TRUE))
           /\ scope' = [scope EXCEPT ![l] = s]
    BY DEF EndReturns
  <2>. QED BY <1>5, <1>6, <2>3, <2>4, <2>5, <2>6
<1>8. /\ t.output = None
      /\ UNCHANGED <<edgeVars, readyQueue, starts, blockStates, mark, cancelledFlag>>
      /\ past' = IF scope[l] = None THEN [past EXCEPT ![l] = <<>>] ELSE past
      /\ misjudged \subseteq misjudged' /\ (cancelledFlag => UNCHANGED misjudged)
      /\ \A m \in Loops \ {l} : aggregated'[m] = aggregated[m]
  BY DEF LoopTypeOK, EndReturns, Leaves, GoesOn, SentinelReturns, Returned
<1>. QED BY <1>1, <1>7, <1>8

----------------------------------------------------------------------------
(* What a settling call changes.                                            *)

Routes(t) ==
  /\ Fires(t.node, t.output) /\ t.output.kind = "done"
  /\ ProcessOutgoingEdges(t.node, t.output)
  /\ readyQueue' = readyQueue \cup ReadyNodes(t.node, t.output)

Moves(t) == UNCHANGED <<edgeVars, readyQueue>> \/ Routes(t)

BlockSettles(t) ==
  /\ t.node \notin Sentinels
  /\ Moves(t) /\ UNCHANGED blockStates
  /\ Store(SubflowOf[t.node], t.node, <<t.node, t.nth>>)

SentinelSettles(t) ==
  /\ t.node \in Sentinels /\ t.output.kind = "done" /\ t.output.route # "loop_continue"
  /\ Moves(t) /\ blockStates' = [blockStates EXCEPT ![t.node] = t.output]
  /\ IF t.node \in Ends THEN Store(ParentOf[SubflowOf[t.node]], t.node, <<t.node, t.nth>>)
     ELSE UNCHANGED scope

CallEnds(t) ==
  /\ t.output # None /\ executing' = executing \ {t}
  /\ UNCHANGED <<starts, history, cancelledFlag>>
  /\ \/ UNCHANGED <<edgeVars, readyQueue, blockStates, scope>>
     \/ BlockSettles(t)
     \/ SentinelSettles(t)

LEMMA CompletionShape ==
  ASSUME LoopsWired, BranchesWired, QuietInv, NEW t \in executing, Completion(t)
  PROVE  CallEnds(t) \/ GoesBack(t)
<1>1. CASE (CompletionDropped(t) \/ CompletionThrows(t)) /\ UNCHANGED scopeVars
  BY <1>1 DEF CompletionDropped, CompletionThrows, Settles, scopeVars, CallEnds
<1>2. CASE BlockCompletes(t)
  <2>1. /\ t.node \notin Sentinels /\ UNCHANGED history
        /\ Store(SubflowOf[t.node], t.node, <<t.node, t.nth>>)
    BY <1>2 DEF BlockCompletes, LoopsWired
  <2>2. Settles(t)
    BY <1>2 DEF BlockCompletes, CompletionPauses, CompletionResponds, CompletionStops,
                CompletionRoutes, Handled
  <2>3. CASE CompletionPauses(t) \/ CompletionResponds(t) \/ CompletionStops(t)
    <3>1. UNCHANGED <<edgeVars, readyQueue>>
      BY <2>3 DEF CompletionPauses, CompletionResponds, CompletionStops
    <3>. QED BY <2>1, <2>2, <3>1 DEF Settles, CallEnds, BlockSettles, Moves
  <2>4. CASE CompletionRoutes(t)
    <3>1. t.output # None /\ t.output.kind = "done"
      BY <2>2, <2>4 DEF CompletionRoutes, Settles
    <3>2. t.output.route # "loop_continue"
      <4>1. t.output \in Results(t.node)
        BY <2>1, <3>1 DEF QuietInv, AnswersKnown
      <4>2. t.output.route \in Options \cup {NoRoute}
        BY <4>1, EngineAssumption DEF Results, Result
      <4>. QED BY <4>2, HandlesAssumption DEF Handles, ControlHandles, LoopRoutes
    <3>3. Fires(t.node, t.output)
      BY <3>1, <3>2, AnswersFire
    <3>4. Routes(t)
      BY <2>4, <3>1, <3>3 DEF CompletionRoutes, Routes
    <3>. QED BY <2>1, <2>2, <3>4 DEF Settles, CallEnds, BlockSettles, Moves
  <2>. QED BY <1>2, <2>3, <2>4 DEF BlockCompletes
<1>3. CASE Passes(t)
  <2>1. /\ t.output # None /\ t.output.kind = "done" /\ t.output.route # "loop_continue"
        /\ t.node \in Sentinels
        /\ executing' = executing \ {t} /\ UNCHANGED <<starts, history, cancelledFlag>>
        /\ blockStates' = [blockStates EXCEPT ![t.node] = t.output]
        /\ IF t.node \in Ends THEN Store(ParentOf[SubflowOf[t.node]], t.node, <<t.node, t.nth>>)
           ELSE UNCHANGED scope
    BY <1>3 DEF Passes, SentinelCompletes, Sentinel, LoopsWired
  <2>2. Moves(t)
    <3>1. Fires(t.node, t.output)
      BY <2>1, AnswersFire
    <3>. QED BY <1>3, <2>1, <3>1 DEF Passes, Moves, Routes
  <2>. QED BY <2>1, <2>2 DEF CallEnds, SentinelSettles
<1>. QED BY <1>1, <1>2, <1>3 DEF Completion

(* A node active after a call settled was active, or is fed by the node that   *)
(* routed.                                                                  *)
LEMMA CallEndsActive ==
  ASSUME LoopsWired, QuietInv, NEW t \in executing, CallEnds(t), NEW k \in Active'
  PROVE  /\ k # t.node
         /\ \/ k \in Active
            \/ \E e \in OutEdges(t.node) :
                 e.dst = k /\ (ShouldActivate(e, t.output) \/ t.output.route \notin ExitHandles)
<1>1. Busy' = Busy \ {t.node} /\ t.node \notin readyQueue
  BY DEF QuietInv, OneCallAtATime, Busy, CallEnds
<1>2. Moves(t)
  BY DEF CallEnds, BlockSettles, SentinelSettles, Moves
<1>3. CASE UNCHANGED <<edgeVars, readyQueue>>
  BY <1>1, <1>3 DEF Active
<1>4. CASE Routes(t)
  <2>0. EdgeTypeOK /\ OpenEdgesLive
    BY DEF QuietInv, LoopTypeOK, TypeOK
  <2>1. CASE k \in ReadyNodes(t.node, t.output)
    BY <1>4, <2>0, <2>1, RoutedQueued, QuietGives DEF Routes
  <2>2. CASE k \notin ReadyNodes(t.node, t.output)
    BY <1>1, <1>4, <2>2 DEF Active, Routes
  <2>. QED BY <2>1, <2>2
<1>. QED BY <1>2, <1>3, <1>4 DEF Moves

(* A node that a settling call queues waited till then; what was ready stays so. *)
LEMMA CallEndsReady ==
  ASSUME LoopsWired, QuietInv, NEW t \in executing, CallEnds(t), NEW k \in Nodes, IsNodeReady(k)
  PROVE  IsNodeReady(k)' /\ (k \in Active' => k \in Active)
<1>1. Busy' \subseteq Busy
  BY DEF Busy, CallEnds
<1>2. Moves(t)
  BY DEF CallEnds, BlockSettles, SentinelSettles, Moves
<1>3. CASE UNCHANGED <<edgeVars, readyQueue>>
  BY <1>1, <1>3 DEF Active, IsNodeReady, NoActiveIncoming, edgeVars
<1>4. CASE Routes(t)
  <2>1. EdgeTypeOK /\ OpenEdgesLive
    BY DEF QuietInv, LoopTypeOK, TypeOK
  <2>2. IsNodeReady(k)' /\ k \notin ReadyNodes(t.node, t.output)
    BY <1>4, <2>1, RoutedReady, RoutedQueued DEF Routes
  <2>. QED BY <1>1, <1>4, <2>2 DEF Active, Routes
<1>. QED BY <1>2, <1>3, <1>4 DEF Moves

(* Storing an output opens and closes no scope, and changes nothing else of it. *)
LEMMA StoreKeeps ==
  ASSUME LoopTypeOK, NEW p, NEW key, NEW c \in Call, Store(p, key, c), NEW l \in Loops
  PROVE  /\ scope'[l] = None <=> scope[l] = None
         /\ scope[l] # None =>
              /\ scope'[l].iteration = scope[l].iteration /\ scope'[l].skipped = scope[l].skipped
              /\ scope'[l].results = scope[l].results
              /\ \A d \in scope[l].outputs : d[1] # key => d \in scope'[l].outputs
              /\ l = p => c \in scope'[l].outputs
              /\ scope'[l].outputs \subseteq scope[l].outputs \cup {c}
              /\ l # p => scope'[l] = scope[l]
<1>1. CASE p \notin Loops \/ scope[p] = None
  BY <1>1 DEF Store
<1>2. CASE p \in Loops /\ scope[p] # None
  <2>. DEFINE o == {d \in scope[p].outputs : d[1] # key} \cup {c}
              q == [scope[p] EXCEPT !.outputs = o]
  <2>1. scope[p] \in Scope
    BY <1>2 DEF LoopTypeOK
  <2>2. scope' = [scope EXCEPT ![p] = q]
    BY <1>2 DEF Store
  <2>3. scope'[p] = q /\ \A m \in Loops \ {p} : scope'[m] = scope[m]
    BY <1>2, <2>2 DEF LoopTypeOK
  <2>4. /\ q.iteration = scope[p].iteration /\ q.skipped = scope[p].skipped
        /\ q.results = scope[p].results /\ q.outputs = o
    BY <2>1 DEF Scope
  <2>5. q # None
    <3>1. o \in SUBSET Call
      BY <2>1 DEF Scope
    <3>2. q \in Scope
      BY <2>1, <3>1 DEF Scope
    <3>. QED BY <3>2, ScopeAssumption
  <2>6. /\ o \subseteq scope[p].outputs \cup {c} /\ c \in o
        /\ \A d \in scope[p].outputs : d[1] # key => d \in o
    OBVIOUS
  <2>. HIDE DEF o, q
  <2>. QED BY <1>2, <2>3, <2>4, <2>5, <2>6
<1>. QED BY <1>1, <1>2

----------------------------------------------------------------------------
(* Scopes.                                                                  *)

(* A loop has a scope from the answer of its start sentinel on: what runs     *)
(* inside, runs in it.                                                      *)
Entered ==
  /\ \A l \in Loops : \A n \in Active \cap Inside(l) : n # StartOf[l] => scope[l] # None
  /\ \A t \in executing : t.node \in Starts /\ t.output # None => scope[SubflowOf[t.node]] # None

(* An output is of this round, and its node has not run again since.          *)
OutputsNest ==
  \A l \in Loops : scope[l] # None =>
    /\ ParentOf[l] \in Loops => scope[ParentOf[l]] # None
    /\ \A c \in scope[l].outputs :
         c[1] \in Members(l) /\ mark[c[1]] < c[2] /\ blockStates[c[1]] # None

(* A loop that goes back takes no output along. *)
NoneTakenAlong ==
  \A t \in executing : t.output # None =>
    /\ t.node \notin Sentinels => blockStates[t.node] # None
    /\ t.node \in Ends /\ t.output.route = "loop_continue" => scope[SubflowOf[t.node]].outputs = {}

NestInv == QuietInv /\ Entered /\ OutputsNest /\ NoneTakenAlong

LEMMA ReturnedActive ==
  ASSUME LoopTypeOK, NEW t \in executing, NEW out, Returned(t, out), UNCHANGED readyQueue
  PROVE  /\ Active' = Active /\ Busy' = Busy
         /\ \A v \in executing' : v \in executing \ {t} \/
              (v.node = t.node /\ v.nth = t.nth /\ v.fresh = t.fresh /\ v.output = out)
<1>. DEFINE u == [t EXCEPT !.output = out]
<1>1. u.node = t.node /\ u.nth = t.nth /\ u.fresh = t.fresh /\ u.output = out
  BY TasksTyped DEF LoopTypeOK, Task
<1>2. executing' = (executing \ {t}) \cup {u}
  BY DEF Returned
<1>. HIDE DEF u
<1>3. Busy' = Busy
  BY <1>1, <1>2 DEF Busy
<1>. QED BY <1>1, <1>2, <1>3 DEF Active

(* A block runs in a loop that has a scope: its answer changes none.          *)
LEMMA BlockShape ==
  ASSUME LoopsWired, QuietInv, Entered, NEW t \in executing, BlockEnds(t)
  PROVE  /\ t.node \notin Sentinels /\ t.node \in Nodes
         /\ UNCHANGED <<edgeVars, readyQueue, starts, cancelledFlag, scopeVars>>
         /\ \E out : /\ out # None /\ Returned(t, out)
                     /\ blockStates' = [blockStates EXCEPT ![t.node] = out]
<1>1. t.fresh /\ t.node \in Nodes /\ t.node \in Active
  BY QuietGives DEF QuietInv, OneCallAtATime
<1>2. t.node \notin Sentinels
  BY <1>1 DEF BlockEnds, Sentinel, LoopsWired
<1>3. PICK out \in Results(t.node) :
        /\ executing' = (executing \ {t}) \cup {[t EXCEPT !.output = out]}
        /\ blockStates' = [blockStates EXCEPT ![t.node] = out]
  BY <1>1 DEF BlockEnds, BlockReturns
<1>4. out # None
  BY <1>1, ResultsTyped, EdgesAssumption
<1>5. UNCHANGED <<scope, past>>
  <2>. DEFINE l == SubflowOf[t.node]
  <2>1. CASE l \in Loops /\ Initialized(l)
    <3>1. t.node \in Inside(l) /\ t.node # StartOf[l]
      BY <1>1, <1>2, <2>1, WithinSelf, LoopAssumption DEF Inside
    <3>2. scope[l] # None
      BY <1>1, <2>1, <3>1 DEF Entered
    <3>3. scope' = [scope EXCEPT ![l] = scope[l]] /\ past' = past
      BY <2>1, <3>2 DEF Initialized, Scoped
    <3>. QED BY <2>1, <3>3 DEF QuietInv, LoopTypeOK
  <2>. QED BY <2>1 DEF BlockEnds
<1>6. Returned(t, out)
  BY <1>3 DEF BlockEnds, BlockReturns, Returned
<1>7. UNCHANGED <<edgeVars, readyQueue, starts, cancelledFlag, aggregated, mark, misjudged>>
  BY DEF BlockEnds, BlockReturns
<1>. QED BY <1>1, <1>2, <1>3, <1>4, <1>5, <1>6, <1>7 DEF scopeVars, history

LEMMA NestInit == LoopsWired /\ LoopInit => NestInv
<1>. SUFFICES ASSUME LoopsWired, LoopInit PROVE NestInv
  OBVIOUS
<1>1. Active = {Trigger} /\ executing = {} /\ \A l \in Loops : scope[l] = None
  BY DEF LoopInit, Init, Active, Busy
<1>2. \A l \in Loops : Trigger \in Inside(l) => Trigger = StartOf[l]
  BY DEF LoopsWired
<1>. QED BY <1>1, <1>2, InitQuiet DEF NestInv, Entered, OutputsNest, NoneTakenAlong

LEMMA NestIdle ==
  ASSUME NestInv, QuietInv', UNCHANGED <<readyQueue, executing, blockStates, scope, mark>>
  PROVE  NestInv'
<1>1. Active' = Active
  BY DEF Active, Busy
<1>2. Entered'
  BY <1>1 DEF NestInv, Entered
<1>3. OutputsNest'
  BY DEF NestInv, OutputsNest
<1>4. NoneTakenAlong'
  BY DEF NestInv, NoneTakenAlong
<1>. QED BY <1>2, <1>3, <1>4 DEF NestInv

LEMMA QueueActive ==
  ASSUME ProcessQueue
  PROVE  /\ Active' = Active /\ readyQueue' = {} /\ Busy' = Busy \cup readyQueue
         /\ \A t \in executing' : t \in executing \/ (t.node \in readyQueue /\ t.output = None)
<1>. DEFINE new(n) == [node |-> n, nth |-> starts[n] + 1, fresh |-> n \notin executedBlocks,
                       output |-> None]
<1>1. executing' = executing \cup {new(n) : n \in readyQueue} /\ readyQueue' = {}
  BY DEF ProcessQueue
<1>2. \A n \in readyQueue : new(n).node = n /\ new(n).output = None
  OBVIOUS
<1>. HIDE DEF new
<1>3. Busy' = Busy \cup readyQueue
  BY <1>1, <1>2 DEF Busy
<1>. QED BY <1>1, <1>2, <1>3 DEF Active

LEMMA NestProcessQueue ==
  ASSUME NestInv, QuietInv', ProcessQueue, UNCHANGED scopeVars
  PROVE  NestInv'
<1>1. Active' = Active /\ \A t \in executing' : t.output # None => t \in executing
  BY QueueActive
<1>2. UNCHANGED <<blockStates, scope, mark>>
  BY DEF ProcessQueue, scopeVars, history
<1>3. Entered'
  BY <1>1, <1>2 DEF NestInv, Entered
<1>4. OutputsNest'
  BY <1>2 DEF NestInv, OutputsNest
<1>5. NoneTakenAlong'
  BY <1>1, <1>2 DEF NestInv, NoneTakenAlong
<1>. QED BY <1>3, <1>4, <1>5 DEF NestInv

LEMMA NestReturns ==
  ASSUME LoopsWired, NestInv, QuietInv', NEW t \in executing, Returns(t)
  PROVE  NestInv'
<1>0. LoopTypeOK /\ t.node \in Active /\ t.node \in Nodes
  BY QuietGives DEF NestInv, QuietInv
<1>1. CASE BlockEnds(t)
  <2>1. t.node \notin Sentinels /\ UNCHANGED <<readyQueue, scope, mark>>
    BY <1>1, BlockShape DEF NestInv, scopeVars, history
  <2>2. PICK out : /\ out # None /\ Returned(t, out)
                   /\ blockStates' = [blockStates EXCEPT ![t.node] = out]
    BY <1>1, BlockShape DEF NestInv
  <2>3. /\ Active' = Active
        /\ \A v \in executing' : v \in executing \ {t} \/ v.node = t.node
    BY <1>0, <2>1, <2>2, ReturnedActive
  <2>4. blockStates'[t.node] # None /\ \A n \in Nodes \ {t.node} : blockStates'[n] = blockStates[n]
    BY <1>0, <2>2 DEF LoopTypeOK, TypeOK
  <2>5. \A l \in Loops : Members(l) \subseteq Nodes
    BY LoopAssumption DEF Members
  <2>6. Entered'
    BY <1>0, <2>1, <2>3 DEF NestInv, Entered, LoopsWired
  <2>7. OutputsNest'
    BY <2>1, <2>4, <2>5 DEF NestInv, OutputsNest
  <2>8. NoneTakenAlong'
    <3>. SUFFICES ASSUME NEW v \in executing', v.output # None
                  PROVE  /\ v.node \notin Sentinels => blockStates'[v.node] # None
                         /\ v.node \in Ends /\ v.output.route = "loop_continue" =>
                              scope'[SubflowOf[v.node]].outputs = {}
      BY DEF NoneTakenAlong
    <3>1. CASE v.node = t.node
      BY <2>1, <2>4, <3>1 DEF LoopsWired
    <3>2. CASE v.node # t.node
      <4>1. v \in executing /\ v.node \in Nodes
        BY <2>3, <3>2, QuietGives DEF NestInv
      <4>. QED BY <2>1, <2>4, <3>2, <4>1 DEF NestInv, NoneTakenAlong
    <3>. QED BY <3>1, <3>2
  <2>. QED BY <2>6, <2>7, <2>8 DEF NestInv
<1>2. ASSUME NEW l \in Loops, UNCHANGED <<readyQueue, blockStates, mark>>,
             t.node \in {StartOf[l], EndOf[l]},
             NEW q \in Scope, NEW out, Returned(t, out), scope' = [scope EXCEPT ![l] = q],
             q.outputs \in {Scoped(l).outputs, {}},
             t.node = EndOf[l] /\ out.route = "loop_continue" => q.outputs = {}
      PROVE  NestInv'
  <2>1. /\ Active' = Active
        /\ \A v \in executing' : v \in executing \ {t} \/ (v.node = t.node /\ v.output = out)
    BY <1>0, <1>2, ReturnedActive
  <2>2. scope'[l] = q /\ q # None /\ \A m \in Loops \ {l} : scope'[m] = scope[m]
    BY <1>0, <1>2, ScopeAssumption DEF LoopTypeOK
  <2>3. t.node \in Sentinels /\ SubflowOf[t.node] = l
    BY <1>2, LoopAssumption
  <2>4. \A m \in Loops : scope[m] # None => scope'[m] # None
    BY <2>2
  <2>5. \A v \in executing \ {t} : v.node # t.node
    BY DEF NestInv, QuietInv, OneCallAtATime
  <2>6. Entered'
    <3>1. \A m \in Loops : \A n \in Active' \cap Inside(m) : n # StartOf[m] => scope'[m] # None
      BY <2>1, <2>4 DEF NestInv, Entered
    <3>2. ASSUME NEW v \in executing', v.node \in Starts, v.output # None
          PROVE  scope'[SubflowOf[v.node]] # None
      <4>1. CASE v.node = t.node
        BY <2>2, <2>3, <4>1
      <4>2. CASE v.node # t.node
        <5>1. v \in executing /\ SubflowOf[v.node] \in Loops
          BY <2>1, <3>2, <4>2, SentinelLoop
        <5>. QED BY <2>4, <3>2, <5>1 DEF NestInv, Entered
      <4>. QED BY <4>1, <4>2
    <3>. QED BY <3>1, <3>2 DEF Entered
  <2>7. OutputsNest'
    <3>. SUFFICES ASSUME NEW m \in Loops, scope'[m] # None
                  PROVE  /\ ParentOf[m] \in Loops => scope'[ParentOf[m]] # None
                         /\ \A c \in scope'[m].outputs :
                              c[1] \in Members(m) /\ mark'[c[1]] < c[2] /\ blockStates'[c[1]] # None
      BY DEF OutputsNest
    <3>1. CASE m # l
      BY <1>2, <2>2, <2>4, <3>1 DEF NestInv, OutputsNest
    <3>2. CASE m = l
      <4>1. ParentOf[l] \in Loops => scope[ParentOf[l]] # None
        <5>. SUFFICES ASSUME ParentOf[l] \in Loops PROVE scope[ParentOf[l]] # None
          OBVIOUS
        <5>. DEFINE p == ParentOf[l]
        <5>1. l \in Within(p) /\ l # p
          BY <1>2, WithinSelf, WithinDown DEF LoopsWired, WiredByConstruction
        <5>2. t.node \in Inside(p) /\ t.node # StartOf[p]
          BY <1>2, <5>1, WithinNested, SentinelsInside
        <5>. QED BY <1>0, <5>2 DEF NestInv, Entered
      <4>2. \A c \in q.outputs : c \in Scoped(l).outputs
        BY <1>2
      <4>3. scope[l] # None => Scoped(l) = scope[l]
        BY DEF Scoped
      <4>4. scope[l] = None => Scoped(l).outputs = {}
        BY DEF Scoped, NewScope
      <4>5. ASSUME NEW c \in q.outputs
            PROVE  c[1] \in Members(l) /\ mark[c[1]] < c[2] /\ blockStates[c[1]] # None
        <5>1. scope[l] # None /\ c \in scope[l].outputs
          BY <4>2, <4>3, <4>4
        <5>. QED BY <1>2, <5>1 DEF NestInv, OutputsNest
      <4>. QED BY <1>2, <2>2, <2>4, <3>2, <4>1, <4>5
    <3>. QED BY <3>1, <3>2
  <2>8. NoneTakenAlong'
    <3>. SUFFICES ASSUME NEW v \in executing', v.output # None
                  PROVE  /\ v.node \notin Sentinels => blockStates'[v.node] # None
                         /\ v.node \in Ends /\ v.output.route = "loop_continue" =>
                              scope'[SubflowOf[v.node]].outputs = {}
      BY DEF NoneTakenAlong
    <3>1. CASE v.node = t.node
      <4>1. v.output = out
        BY <2>1, <2>5, <3>1
      <4>2. v.node \in Ends => v.node = EndOf[l]
        BY <1>2, <3>1, SentinelsInside
      <4>. QED BY <1>2, <2>2, <2>3, <3>1, <4>1, <4>2
    <3>2. CASE v.node # t.node
      <4>1. v \in executing
        BY <2>1, <3>2
      <4>2. v.node \in Ends => SubflowOf[v.node] \in Loops \ {l}
        <5>. SUFFICES ASSUME NEW k \in Loops, v.node = EndOf[k] PROVE SubflowOf[v.node] \in Loops \ {l}
          BY DEF Ends
        <5>1. k # l
          <6>. SUFFICES ASSUME k = l PROVE FALSE
            OBVIOUS
          <6>1. t.node = StartOf[l]
            BY <1>2, <3>2
          <6>2. t.node \in Active /\ EndOf[l] \in Active
            BY <4>1, <1>0 DEF Active, Busy
          <6>. QED BY <1>2, <6>1, <6>2, QuietEnd, SentinelsInside DEF EndIsQuiet, NestInv
        <5>. QED BY <5>1, SentinelsInside
      <4>. QED BY <1>2, <2>2, <4>1, <4>2 DEF NestInv, NoneTakenAlong
    <3>. QED BY <3>1, <3>2
  <2>. QED BY <2>6, <2>7, <2>8 DEF NestInv
<1>3. CASE StartReturns(t)
  <2>. DEFINE l == SubflowOf[t.node]
  <2>1. /\ l \in Loops /\ t.node = StartOf[l] /\ UNCHANGED <<readyQueue, blockStates, mark>>
        /\ t.node # EndOf[l]
    BY <1>0, <1>3, StartShape, SentinelsInside
  <2>2. PICK q \in Scope, out \in StartAnswers : StartStep(t, l, q, out)
    BY <1>0, <1>3, StartShape
  <2>. HIDE DEF l
  <2>. QED BY <1>2, <2>1, <2>2 DEF StartStep
<1>4. CASE EndReturns(t)
  <2>. DEFINE l == SubflowOf[t.node]
  <2>1. /\ l \in Loops /\ t.node = EndOf[l] /\ UNCHANGED <<readyQueue, blockStates, mark>>
    BY <1>0, <1>4, EndShape
  <2>2. PICK q \in Scope, out \in EndAnswers : EndStep(t, l, q, out)
    BY <1>0, <1>4, EndShape
  <2>. HIDE DEF l
  <2>. QED BY <1>2, <2>1, <2>2 DEF EndStep
<1>. QED BY <1>1, <1>3, <1>4 DEF Returns

(* The call of a settling node is the output of a member of one loop at most.  *)
LEMMA SettledScopes ==
  ASSUME LoopsWired, QuietInv, NEW t \in executing, CallEnds(t)
  PROVE  \E p :
           /\ p \in Loops => t.node \in Members(p) /\ t.node # EndOf[p]
           /\ \A l \in Loops :
                /\ scope'[l] = None <=> scope[l] = None
                /\ scope[l] # None =>
                     /\ scope'[l].iteration = scope[l].iteration
                     /\ scope'[l].skipped = scope[l].skipped
                     /\ l # p => scope'[l].outputs = scope[l].outputs
                     /\ scope'[l].outputs \subseteq scope[l].outputs \cup {<<t.node, t.nth>>}
           /\ p \in Loops /\ t.node \in Sentinels => blockStates'[t.node] # None
<1>1. LoopTypeOK /\ <<t.node, t.nth>> \in Call /\ t.node \in Nodes
  BY TasksTyped DEF QuietInv, LoopTypeOK, Call
<1>2. CASE UNCHANGED scope /\ (NoSubflow \notin Loops)
  BY <1>2
<1>3. ASSUME NEW p, Store(p, t.node, <<t.node, t.nth>>)
      PROVE  \A l \in Loops :
                /\ scope'[l] = None <=> scope[l] = None
                /\ scope[l] # None =>
                     /\ scope'[l].iteration = scope[l].iteration
                     /\ scope'[l].skipped = scope[l].skipped
                     /\ l # p => scope'[l].outputs = scope[l].outputs
                     /\ scope'[l].outputs \subseteq scope[l].outputs \cup {<<t.node, t.nth>>}
  BY <1>1, <1>3, StoreKeeps
<1>4. CASE BlockSettles(t)
  <2>. DEFINE p == SubflowOf[t.node]
  <2>1. t.node \notin Sentinels /\ Store(p, t.node, <<t.node, t.nth>>)
    BY <1>4 DEF BlockSettles
  <2>2. p \in Loops => t.node \in Members(p) /\ t.node # EndOf[p]
    BY <1>1, <2>1, LoopAssumption DEF Members
  <2>. HIDE DEF p
  <2>. QED BY <1>3, <2>1, <2>2
<1>5. CASE SentinelSettles(t) /\ t.node \in Ends
  <2>. DEFINE l == SubflowOf[t.node]
              p == ParentOf[l]
  <2>1. Store(p, t.node, <<t.node, t.nth>>) /\ blockStates'[t.node] # None
    <3>1. t.output # None /\ blockStates' = [blockStates EXCEPT ![t.node] = t.output]
      BY <1>5 DEF SentinelSettles, CallEnds
    <3>. QED BY <1>1, <1>5, <3>1 DEF SentinelSettles, LoopTypeOK, TypeOK
  <2>2. l \in Loops /\ t.node = EndOf[l]
    BY <1>5, SentinelsInside DEF Ends
  <2>3. p \in Loops => t.node \in Members(p) /\ t.node # EndOf[p]
    <3>1. p # l
      BY <2>2, WithinSelf DEF LoopsWired, WiredByConstruction
    <3>. QED BY <2>2, <3>1, SentinelsApart DEF Members
  <2>. HIDE DEF p
  <2>. QED BY <1>3, <2>1, <2>3
<1>6. NoSubflow \notin Loops
  BY LoopAssumption
<1>. QED BY <1>2, <1>4, <1>5, <1>6 DEF CallEnds, SentinelSettles

LEMMA NestCallEnds ==
  ASSUME LoopsWired, NestInv, QuietInv', NEW t \in executing, CallEnds(t)
  PROVE  NestInv'
<1>1. PICK p :
           /\ p \in Loops => t.node \in Members(p) /\ t.node # EndOf[p]
           /\ \A l \in Loops :
                /\ scope'[l] = None <=> scope[l] = None
                /\ scope[l] # None =>
                     /\ l # p => scope'[l].outputs = scope[l].outputs
                     /\ scope'[l].outputs \subseteq scope[l].outputs \cup {<<t.node, t.nth>>}
           /\ p \in Loops /\ t.node \in Sentinels => blockStates'[t.node] # None
  BY SettledScopes DEF NestInv
<1>2. /\ t.node \in Active /\ t.node \in Nodes /\ t.output # None
      /\ executing' = executing \ {t} /\ UNCHANGED mark
  BY QuietGives DEF CallEnds, NestInv, history
<1>3. /\ \A n \in Nodes \ {t.node} : blockStates'[n] = blockStates[n]
      /\ blockStates[t.node] # None => blockStates'[t.node] # None
  BY <1>2 DEF CallEnds, BlockSettles, SentinelSettles, NestInv, QuietInv, LoopTypeOK, TypeOK
<1>4. \A v \in executing' : v \in executing /\ v.node \in Nodes \ {t.node} /\ v.node \in Active
  BY <1>2, QuietGives DEF NestInv, QuietInv, OneCallAtATime
<1>5. Entered'
  <2>1. ASSUME NEW l \in Loops, NEW n \in Active' \cap Inside(l), n # StartOf[l]
        PROVE  scope'[l] # None
    <3>1. CASE n \in Active
      BY <1>1, <2>1, <3>1 DEF NestInv, Entered
    <3>2. ASSUME NEW e \in OutEdges(t.node), e.dst = n PROVE scope'[l] # None
      <4>1. t.node \in Inside(l)
        BY <2>1, <3>2 DEF LoopsWired, WiredByConstruction, OutEdges
      <4>2. t.node = StartOf[l] => t.node \in Starts /\ SubflowOf[t.node] = l
        BY SentinelsInside
      <4>. QED BY <1>1, <1>2, <4>1, <4>2 DEF NestInv, Entered
    <3>. QED BY <2>1, <3>1, <3>2, CallEndsActive DEF NestInv
  <2>2. ASSUME NEW v \in executing', v.node \in Starts, v.output # None
        PROVE  scope'[SubflowOf[v.node]] # None
    <3>1. SubflowOf[v.node] \in Loops
      BY <2>2, SentinelLoop
    <3>. QED BY <1>1, <1>4, <2>2, <3>1 DEF NestInv, Entered
  <2>. QED BY <2>1, <2>2 DEF Entered
<1>6. OutputsNest'
  <2>. SUFFICES ASSUME NEW l \in Loops, scope'[l] # None
                PROVE  /\ ParentOf[l] \in Loops => scope'[ParentOf[l]] # None
                       /\ \A c \in scope'[l].outputs :
                            c[1] \in Members(l) /\ mark'[c[1]] < c[2] /\ blockStates'[c[1]] # None
    BY DEF OutputsNest
  <2>1. ASSUME NEW c \in scope[l].outputs
        PROVE  c[1] \in Members(l) /\ mark'[c[1]] < c[2] /\ blockStates'[c[1]] # None
    <3>1. c[1] \in Members(l) /\ mark[c[1]] < c[2] /\ blockStates[c[1]] # None
      BY <1>1, <2>1 DEF NestInv, OutputsNest
    <3>2. c[1] \in Nodes
      BY <3>1, LoopAssumption DEF Members
    <3>. QED BY <1>2, <1>3, <3>1, <3>2
  <2>2. ASSUME NEW c \in scope'[l].outputs, c \notin scope[l].outputs
        PROVE  c[1] \in Members(l) /\ mark'[c[1]] < c[2] /\ blockStates'[c[1]] # None
    <3>1. c = <<t.node, t.nth>> /\ l = p
      BY <1>1, <2>2
    <3>2. mark[t.node] < t.nth
      BY DEF NestInv, QuietInv, CalledInRound
    <3>3. blockStates'[t.node] # None
      BY <1>1, <1>2, <1>3, <3>1 DEF NestInv, NoneTakenAlong
    <3>. QED BY <1>1, <1>2, <3>1, <3>2, <3>3
  <2>3. ParentOf[l] \in Loops => scope'[ParentOf[l]] # None
    BY <1>1 DEF NestInv, OutputsNest
  <2>. QED BY <2>1, <2>2, <2>3
<1>7. NoneTakenAlong'
  <2>. SUFFICES ASSUME NEW v \in executing', v.output # None
                PROVE  /\ v.node \notin Sentinels => blockStates'[v.node] # None
                       /\ v.node \in Ends /\ v.output.route = "loop_continue" =>
                            scope'[SubflowOf[v.node]].outputs = {}
    BY DEF NoneTakenAlong
  <2>1. v.node \notin Sentinels => blockStates'[v.node] # None
    BY <1>3, <1>4 DEF NestInv, NoneTakenAlong
  <2>2. ASSUME v.node \in Ends, v.output.route = "loop_continue"
        PROVE  scope'[SubflowOf[v.node]].outputs = {}
    <3>1. PICK k \in Loops : v.node = EndOf[k] /\ SubflowOf[v.node] = k /\ k \in Loops
      BY <2>2, SentinelsInside DEF Ends
    <3>2. scope[k].outputs = {}
      BY <1>4, <2>2, <3>1 DEF NestInv, NoneTakenAlong
    <3>3. scope[k] # None
      BY <1>4, <3>1, SentinelsInside DEF NestInv, Entered
    <3>4. t.node \notin Inside(k)
      BY <1>2, <1>4, <3>1, QuietEnd DEF NestInv, EndIsQuiet
    <3>5. k # p
      <4>. SUFFICES ASSUME k = p PROVE FALSE
        OBVIOUS
      <4>1. t.node \in Members(k)
        BY <1>1, <3>1
      <4>2. SubflowOf[t.node] = k \/ \E j \in Loops : t.node = EndOf[j] /\ ParentOf[j] = k
        BY <4>1 DEF Members
      <4>3. SubflowOf[t.node] \in Within(k)
        BY <3>1, <4>2, SentinelsInside, WithinSelf, WithinDown
      <4>. QED BY <1>2, <3>4, <4>3 DEF Inside
    <3>. QED BY <1>1, <3>1, <3>2, <3>3, <3>5
  <2>. QED BY <2>1, <2>2
<1>. QED BY <1>5, <1>6, <1>7 DEF NestInv

(* What going back leaves of the scopes. *)
LEMMA BackScopes ==
  ASSUME LoopsWired, QuietInv, NEW t \in executing, GoesBack(t), NEW l \in Loops, l = SubflowOf[t.node]
  PROVE  /\ t.node = EndOf[l] /\ executing' = executing \ {t}
         /\ \A m \in Loops : scope'[m] = IF m = l \/ m \notin Within(l) THEN scope[m] ELSE None
         /\ \A m \in Loops : past'[m] = IF m = l THEN Append(past[l], Round(l))
                                        ELSE IF m \in Within(l) THEN <<>> ELSE past[m]
         /\ \A n \in Nodes : blockStates'[n] = IF n \in Inside(l) THEN None ELSE blockStates[n]
         /\ \A n \in Nodes : mark'[n] = IF n \in Inside(l) THEN starts[n] ELSE mark[n]
         /\ UNCHANGED <<starts, misjudged, cancelledFlag>>
         /\ \A v \in executing' : v \in executing /\ v.node \in Nodes \ Inside(l)
         /\ \A n \in Active' : n = StartOf[l] \/ (n \in Active /\ n \notin Inside(l))
<1>1. /\ t.node = EndOf[l] /\ Active \cap Inside(l) = {t.node}
      /\ ReadyNodes(t.node, t.output) \subseteq {StartOf[l]}
  BY BackFromEnd
<1>2. /\ executing' = executing \ {t}
      /\ readyQueue' = readyQueue \cup ReadyNodes(t.node, t.output)
      /\ \A m \in Loops : scope'[m] = IF m = l \/ m \notin Within(l) THEN scope[m] ELSE None
      /\ \A m \in Loops : past'[m] = IF m = l THEN Append(past[l], Round(l))
                                     ELSE IF m \in Within(l) THEN <<>> ELSE past[m]
      /\ \A n \in Nodes : blockStates'[n] = IF n \in Inside(l) THEN None ELSE blockStates[n]
      /\ \A n \in Nodes : mark'[n] = IF n \in Inside(l) THEN starts[n] ELSE mark[n]
      /\ UNCHANGED <<starts, misjudged, cancelledFlag>>
  BY DEF GoesBack, SentinelCompletes, ScopesKept
<1>3. \A v \in executing \ {t} : v.node # t.node /\ v.node \in Active /\ v.node \in Nodes
  BY QuietGives DEF QuietInv, OneCallAtATime
<1>4. \A n \in Active' : n \in Active \/ n = StartOf[l]
  BY <1>1, <1>2 DEF Active, Busy
<1>5. t.node \notin Active' \/ t.node = StartOf[l]
  <2>1. t.node \notin readyQueue
    BY DEF QuietInv, OneCallAtATime
  <2>. QED BY <1>1, <1>2, <1>3, <2>1 DEF Active, Busy
<1>. QED BY <1>1, <1>2, <1>3, <1>4, <1>5

LEMMA NestGoesBack ==
  ASSUME LoopsWired, NestInv, QuietInv', NEW t \in executing, GoesBack(t)
  PROVE  NestInv'
<1>. DEFINE l == SubflowOf[t.node]
<1>0. l \in Loops /\ t.output.route = "loop_continue"
  BY BackFromEnd DEF NestInv
<1>1. /\ t.node = EndOf[l] /\ executing' = executing \ {t}
      /\ \A m \in Loops : scope'[m] = IF m = l \/ m \notin Within(l) THEN scope[m] ELSE None
      /\ \A n \in Nodes : blockStates'[n] = IF n \in Inside(l) THEN None ELSE blockStates[n]
      /\ \A n \in Nodes : mark'[n] = IF n \in Inside(l) THEN starts[n] ELSE mark[n]
      /\ \A v \in executing' : v \in executing /\ v.node \in Nodes \ Inside(l)
      /\ \A n \in Active' : n = StartOf[l] \/ (n \in Active /\ n \notin Inside(l))
  BY <1>0, BackScopes DEF NestInv
<1>2. t.node \in Active /\ t.output # None /\ t.node \in Ends /\ t.node \in Sentinels
  BY <1>0, <1>1, QuietGives, LoopAssumption DEF NestInv, GoesBack, SentinelCompletes, Ends
<1>. HIDE DEF l
<1>3. Entered'
  <2>1. ASSUME NEW m \in Loops, NEW n \in Active' \cap Inside(m), n # StartOf[m]
        PROVE  scope'[m] # None
    <3>1. CASE n \in Active /\ n \notin Inside(l)
      <4>1. m \notin Within(l)
        BY <1>0, <2>1, <3>1, WithinNested
      <4>. QED BY <1>1, <2>1, <3>1, <4>1 DEF NestInv, Entered
    <3>2. CASE n = StartOf[l]
      <4>1. l \in Within(m) /\ m # l
        BY <1>0, <2>1, <3>2, SentinelsInside DEF Inside
      <4>2. m \notin Within(l)
        BY <1>0, <4>1, SentinelsOutside
      <4>3. t.node \in Inside(m) /\ t.node # StartOf[m]
        BY <1>0, <1>1, <4>1, SentinelsInside, WithinNested
      <4>. QED BY <1>1, <1>2, <4>2, <4>3 DEF NestInv, Entered
    <3>. QED BY <1>1, <2>1, <3>1, <3>2
  <2>2. ASSUME NEW v \in executing', v.node \in Starts, v.output # None
        PROVE  scope'[SubflowOf[v.node]] # None
    <3>1. v \in executing /\ SubflowOf[v.node] \in Loops \ Within(l)
      BY <1>1, <2>2, SentinelLoop DEF Inside
    <3>. QED BY <1>1, <2>2, <3>1 DEF NestInv, Entered
  <2>. QED BY <2>1, <2>2 DEF Entered
<1>4. OutputsNest'
  <2>. SUFFICES ASSUME NEW m \in Loops, scope'[m] # None
                PROVE  /\ ParentOf[m] \in Loops => scope'[ParentOf[m]] # None
                       /\ \A c \in scope'[m].outputs :
                            c[1] \in Members(m) /\ mark'[c[1]] < c[2] /\ blockStates'[c[1]] # None
    BY DEF OutputsNest
  <2>1. (m = l \/ m \notin Within(l)) /\ scope'[m] = scope[m] /\ scope[m] # None
    BY <1>1
  <2>2. ASSUME ParentOf[m] \in Loops PROVE scope'[ParentOf[m]] # None
    <3>1. scope[ParentOf[m]] # None
      BY <2>1, <2>2 DEF NestInv, OutputsNest
    <3>2. ParentOf[m] \notin Within(l)
      BY <1>0, <2>1, WithinDown DEF LoopsWired, WiredByConstruction
    <3>. QED BY <1>1, <2>2, <3>1, <3>2
  <2>3. ASSUME NEW c \in scope'[m].outputs
        PROVE  c[1] \in Members(m) /\ mark'[c[1]] < c[2] /\ blockStates'[c[1]] # None
    <3>1. m # l
      BY <1>0, <1>2, <2>1, <2>3 DEF NestInv, NoneTakenAlong, l
    <3>2. c[1] \in Members(m) /\ mark[c[1]] < c[2] /\ blockStates[c[1]] # None
      BY <2>1, <2>3 DEF NestInv, OutputsNest
    <3>3. c[1] \in Nodes
      BY <3>2, LoopAssumption DEF Members
    <3>4. c[1] \notin Inside(l)
      <4>. SUFFICES ASSUME c[1] \in Inside(l) PROVE FALSE
        OBVIOUS
      <4>1. SubflowOf[c[1]] # m
        BY <2>1, <3>1 DEF Inside
      <4>2. PICK k \in Loops : c[1] = EndOf[k] /\ ParentOf[k] = m
        BY <3>2, <4>1 DEF Members
      <4>3. k \in Within(l)
        BY <4>2, SentinelsInside DEF Inside
      <4>4. k = l
        BY <1>0, <2>1, <3>1, <4>2, <4>3, WithinUp
      <4>5. blockStates[t.node] = None
        BY <1>2 DEF NestInv, QuietInv, CalledInRound
      <4>. QED BY <1>1, <3>2, <4>2, <4>4, <4>5
    <3>. QED BY <1>1, <3>2, <3>3, <3>4
  <2>. QED BY <2>2, <2>3
<1>5. NoneTakenAlong'
  <2>. SUFFICES ASSUME NEW v \in executing', v.output # None
                PROVE  /\ v.node \notin Sentinels => blockStates'[v.node] # None
                       /\ v.node \in Ends /\ v.output.route = "loop_continue" =>
                            scope'[SubflowOf[v.node]].outputs = {}
    BY DEF NoneTakenAlong
  <2>1. v \in executing /\ v.node \in Nodes \ Inside(l)
    BY <1>1
  <2>2. v.node \in Ends => SubflowOf[v.node] \in Loops \ Within(l)
    BY <2>1, SentinelLoop DEF Inside
  <2>. QED BY <1>1, <2>1, <2>2 DEF NestInv, NoneTakenAlong
<1>. QED BY <1>3, <1>4, <1>5 DEF NestInv

LEMMA NextNest ==
  LoopsWired /\ BranchesWired /\ NestInv /\ [LoopNext]_allVars => NestInv'
<1>. SUFFICES ASSUME LoopsWired, BranchesWired, NestInv, [LoopNext]_allVars PROVE NestInv'
  OBVIOUS
<1>1. QuietInv'
  BY NextQuiet DEF NestInv
<1>2. CASE \/ (WakeUp \/ LeaveLoop \/ AllSettled \/ SignalCancelled \/ Ended) /\ UNCHANGED scopeVars
           \/ UNCHANGED allVars
  <2>1. UNCHANGED <<readyQueue, executing, blockStates, scope, mark>>
    BY <1>2 DEF WakeUp, LeaveLoop, AllSettled, SignalCancelled, Ended, vars, scopeVars, history, allVars
  <2>. QED BY <1>1, <2>1, NestIdle
<1>3. ASSUME NEW t \in executing, Completion(t) PROVE NestInv'
  BY <1>1, <1>3, CompletionShape, NestCallEnds, NestGoesBack DEF NestInv
<1>. QED BY <1>1, <1>2, <1>3, NestProcessQueue, NestReturns DEF LoopNext, MainLoop

LEMMA NestGives == LoopsWired /\ NestInv => LoopInv
<1>. SUFFICES ASSUME LoopsWired, NestInv PROVE LoopInv
  OBVIOUS
<1>1. EndIsQuiet /\ WaitsForFeeders
  BY QuietEnd, QuietFeeders DEF NestInv
<1>2. ScopesNest
  BY DEF NestInv, OutputsNest, ScopesNest
<1>. QED BY <1>1, <1>2 DEF NestInv, QuietInv, LoopInv

(* In a run whose loops are wired as the edge constructor wires them, and in   *)
(* which no answer of a block leaves it without an edge to fire, an end        *)
(* sentinel finds its loop quiet, no node is called twice at a time or twice a *)
(* round, a block waits for every feeder that is going to run, and a loop has a *)
(* scope, within those around it, whenever anything in it runs.               *)
THEOREM LoopInvariant == LoopsWired /\ BranchesWired => (LoopSpec => []LoopInv)
<1>. SUFFICES ASSUME LoopsWired, BranchesWired PROVE LoopSpec => []LoopInv
  OBVIOUS
<1>1. LoopInit => NestInv
  BY NestInit
<1>2. NestInv /\ [LoopNext]_allVars => NestInv'
  BY NextNest
<1>3. NestInv => LoopInv
  BY NestGives
<1>. QED BY <1>1, <1>2, <1>3, PTL DEF LoopSpec

----------------------------------------------------------------------------
(* A loop that was started and not left keeps its end sentinel waiting.       *)

(* The edges of n are alive, and no cascade will cut n off. *)
Anchor(n) == Live(n) /\ (IsNodeReady(n) \/ n \in nodesWithActivatedEdge)

Started ==
  \A l \in Loops : scope[l] # None => Exited(l) \/ \E n \in Inside(l) : Anchor(n)

LEMMA ActiveAnchor ==
  ASSUME QuietInv, NEW n \in Active
  PROVE  Anchor(n)
BY ActiveLive, QuietGives DEF Anchor

LEMMA AnchorKept ==
  ASSUME UNCHANGED edgeVars, NEW n, Anchor(n)
  PROVE  Anchor(n)'
BY DEF Anchor, Live, IsNodeReady, NoActiveIncoming, edgeVars

LEMMA AnchorRouted ==
  ASSUME LoopsWired, QuietInv, NEW t \in executing, Routes(t),
         NEW n \in Nodes, n # t.node, Anchor(n)
  PROVE  Anchor(n)'
<1>1. EdgeTypeOK /\ OpenEdgesLive
  BY DEF QuietInv, LoopTypeOK, TypeOK
<1>2. IsNodeReady(n)' \/ n \in nodesWithActivatedEdge'
  BY <1>1, RoutedReady DEF Anchor, Routes, ProcessOutgoingEdges
<1>3. n \notin CutOff(EdgesToDeactivate(t.node, t.output), nodesWithActivatedEdge')
  BY <1>1, RoutedReady DEF Anchor, Routes, ProcessOutgoingEdges
<1>4. Live(n)'
  BY <1>3, RoutedEdges DEF Anchor, Routes
<1>. QED BY <1>2, <1>4 DEF Anchor

(* What routes inside a loop, and is not its end, has a follower there.       *)
LEMMA PassedOn ==
  ASSUME LoopsWired, QuietInv, NEW t \in executing, t.output # None, Routes(t),
         NEW l \in Loops, t.node \in Inside(l), t.node # EndOf[l]
  PROVE  \E k \in ActivatedTargets(t.node, t.output) :
           k \in Inside(l) /\ Live(k)' /\ k \in nodesWithActivatedEdge'
<1>. DEFINE n == t.node
            out == t.output
<1>1. PICK e \in Forward : e.src = n
  <2>1. \A S \in (SUBSET Inside(l)) \ {{}} :
          EndOf[l] \notin S => \E e \in Forward : e.src \in S
    BY DEF LoopsWired, WiredByConstruction
  <2>2. {n} \in (SUBSET Inside(l)) \ {{}} /\ EndOf[l] \notin {n}
    OBVIOUS
  <2>. QED BY <2>1, <2>2
<1>2. ActivatedTargets(n, out) # {}
  <2>. SUFFICES ASSUME ActivatedTargets(n, out) = {} PROVE FALSE
    OBVIOUS
  <2>0. SubflowOf[n] # NoSubflow
    BY LoopAssumption DEF Inside, Within
  <2>1. e \in OutEdges(n) /\ ~ShouldActivate(e, out) /\ e \notin EdgesToDeactivate(n, out)
    BY <1>1, <2>0 DEF Routes, Fires, ActivatedTargets, OutEdges, Forward
  <2>2. e.handle \in ControlHandles
    BY <2>1 DEF EdgesToDeactivate
  <2>3. e.handle \notin BackHandles /\ ~IsBypass(e)
    BY <1>1 DEF LoopsWired, Forward
  <2>4. PICK k \in Loops : n = EndOf[k] /\ e.handle = "loop_exit"
    BY <1>1, <2>2, <2>3 DEF LoopsWired, Forward, BackHandles
  <2>5. out \in EndAnswers /\ out.kind = "done" /\ out.route # "loop_continue"
    BY <2>4, SentinelsInside DEF QuietInv, AnswersKnown, Routes, Fires
  <2>6. out.route = "loop_exit" /\ out.route \in ControlHandles
    BY <2>5 DEF EndAnswers, Result, ControlHandles, LoopRoutes
  <2>. QED BY <2>1, <2>4, <2>6 DEF ShouldActivate
<1>3. PICK k \in ActivatedTargets(n, out) : TRUE
  BY <1>2
<1>4. EdgeTypeOK /\ OpenEdgesLive
  BY DEF QuietInv, LoopTypeOK, TypeOK
<1>5. k \in Nodes /\ ~IsNodeReady(k) /\ k \in nodesWithActivatedEdge'
  BY <1>3, <1>4, RoutedTargetsWait DEF Routes, ProcessOutgoingEdges
<1>6. k \in Inside(l)
  <2>1. PICK f \in OutEdges(n) : f.dst = k
    BY <1>3 DEF ActivatedTargets
  <2>2. f \in Edges /\ f.src \in Inside(l) \ {EndOf[l]}
    BY <2>1 DEF OutEdges
  <2>. QED BY <2>1, <2>2 DEF LoopsWired, WiredByConstruction
<1>7. k # n /\ Live(k)
  BY <1>5, QuietGives DEF QuietInv, OpenEdgesLive, Open
<1>8. k \notin CutOff(EdgesToDeactivate(n, out), nodesWithActivatedEdge')
  BY <1>5 DEF CutOff
<1>9. Live(k)'
  BY <1>7, <1>8, RoutedEdges DEF Routes
<1>. QED BY <1>3, <1>5, <1>6, <1>9

LEMMA AnchorPassedOn ==
  ASSUME LoopsWired, QuietInv, NEW t \in executing, t.output # None, Routes(t),
         NEW l \in Loops, t.node \in Inside(l), t.node # EndOf[l]
  PROVE  \E k \in Inside(l) : Anchor(k)'
BY PassedOn DEF Anchor

LEMMA StartedKept ==
  ASSUME Started, UNCHANGED edgeVars,
         \A l \in Loops : scope'[l] # None => scope[l] # None \/ \E n \in Inside(l) : Anchor(n),
         \A l \in Loops : Exited(l) => Exited(l)'
  PROVE  Started'
<1>1. \A n : Anchor(n) => Anchor(n)'
  BY AnchorKept
<1>. QED BY <1>1 DEF Started

LEMMA StartedReturns ==
  ASSUME LoopsWired, NestInv, Started, NEW t \in executing, Returns(t)
  PROVE  Started'
<1>0. LoopTypeOK /\ t.node \in Active /\ t.node \in Nodes
  BY QuietGives DEF NestInv, QuietInv
<1>1. CASE BlockEnds(t)
  <2>1. t.node \notin Sentinels /\ UNCHANGED <<edgeVars, scope>>
    BY <1>1, BlockShape DEF NestInv, scopeVars
  <2>2. \E out : blockStates' = [blockStates EXCEPT ![t.node] = out]
    BY <1>1, BlockShape DEF NestInv
  <2>3. \A l \in Loops : blockStates'[EndOf[l]] = blockStates[EndOf[l]]
    BY <1>0, <2>1, <2>2, LoopAssumption DEF LoopTypeOK, TypeOK
  <2>. QED BY <2>1, <2>3, StartedKept DEF Exited
<1>2. CASE StartReturns(t) \/ EndReturns(t)
  <2>. DEFINE l == SubflowOf[t.node]
  <2>1. l \in Loops /\ t.node \in {StartOf[l], EndOf[l]} /\ UNCHANGED <<edgeVars, blockStates>>
    <3>1. CASE StartReturns(t)
      BY <1>0, <3>1, StartShape
    <3>2. CASE EndReturns(t)
      BY <1>0, <3>2, EndShape
    <3>. QED BY <1>2, <3>1, <3>2
  <2>2. \E q : scope' = [scope EXCEPT ![l] = q]
    <3>1. CASE StartReturns(t)
      <4>1. PICK q \in Scope, out \in StartAnswers : StartStep(t, l, q, out)
        BY <1>0, <3>1, StartShape
      <4>. QED BY <4>1 DEF StartStep
    <3>2. CASE EndReturns(t)
      <4>1. PICK q \in Scope, out \in EndAnswers : EndStep(t, l, q, out)
        BY <1>0, <3>2, EndShape
      <4>. QED BY <4>1 DEF EndStep
    <3>. QED BY <1>2, <3>1, <3>2
  <2>3. t.node \in Inside(l)
    BY <2>1, SentinelsInside
  <2>4. Anchor(t.node)
    BY <1>0, ActiveAnchor DEF NestInv
  <2>. HIDE DEF l
  <2>5. \A m \in Loops : scope'[m] # None => scope[m] # None \/ \E n \in Inside(m) : Anchor(n)
    BY <1>0, <2>1, <2>2, <2>3, <2>4 DEF LoopTypeOK
  <2>. QED BY <2>1, <2>5, StartedKept DEF Exited
<1>. QED BY <1>1, <1>2 DEF Returns

LEMMA StartedCallEnds ==
  ASSUME LoopsWired, NestInv, Started, NEW t \in executing, CallEnds(t)
  PROVE  Started'
<1>1. \A l \in Loops : scope'[l] # None => scope[l] # None
  BY SettledScopes DEF NestInv
<1>2. ASSUME NEW l \in Loops, SentinelSettles(t), t.node = EndOf[l] PROVE Exited(l)'
  <2>1. t.output # None /\ t.output \in EndAnswers /\ t.output.kind = "done"
        /\ t.output.route # "loop_continue"
    BY <1>2, SentinelsInside DEF CallEnds, SentinelSettles, NestInv, QuietInv, AnswersKnown
  <2>2. t.output.route = "loop_exit"
    BY <2>1 DEF EndAnswers, Result
  <2>3. blockStates'[EndOf[l]] = t.output
    BY <1>2, SentinelsInside DEF SentinelSettles, NestInv, QuietInv, LoopTypeOK, TypeOK
  <2>. QED BY <2>1, <2>2, <2>3 DEF Exited
<1>3. ASSUME NEW l \in Loops, ~SentinelSettles(t) \/ t.node # EndOf[l]
      PROVE  blockStates'[EndOf[l]] = blockStates[EndOf[l]]
  BY <1>3, SentinelsInside DEF CallEnds, BlockSettles, SentinelSettles, NestInv, QuietInv,
                               LoopTypeOK, TypeOK
<1>4. ASSUME NEW l \in Loops, Exited(l) PROVE Exited(l)'
  BY <1>2, <1>3, <1>4 DEF Exited
<1>5. CASE UNCHANGED edgeVars
  BY <1>1, <1>4, <1>5, StartedKept
<1>6. CASE Routes(t) /\ (BlockSettles(t) \/ SentinelSettles(t))
  <2>. SUFFICES ASSUME NEW l \in Loops, scope'[l] # None
                PROVE  Exited(l)' \/ \E k \in Inside(l) : Anchor(k)'
    BY DEF Started
  <2>1. Exited(l) \/ \E n \in Inside(l) : Anchor(n)
    BY <1>1 DEF Started
  <2>2. ASSUME NEW n \in Inside(l), Anchor(n) PROVE Exited(l)' \/ \E k \in Inside(l) : Anchor(k)'
    <3>1. CASE n # t.node
      BY <1>6, <2>2, <3>1, AnchorRouted DEF NestInv, Inside
    <3>2. CASE n = t.node /\ n # EndOf[l]
      BY <1>6, <2>2, <3>2, AnchorPassedOn DEF NestInv, CallEnds
    <3>3. CASE n = t.node /\ n = EndOf[l]
      <4>1. SentinelSettles(t)
        BY <1>6, <3>3, LoopAssumption DEF BlockSettles
      <4>. QED BY <1>2, <3>3, <4>1
    <3>. QED BY <3>1, <3>2, <3>3
  <2>. QED BY <1>4, <2>1, <2>2
<1>. QED BY <1>5, <1>6 DEF CallEnds, BlockSettles, SentinelSettles, Moves

LEMMA StartedGoesBack ==
  ASSUME LoopsWired, NestInv, Started, NEW t \in executing, GoesBack(t)
  PROVE  Started'
<1>. DEFINE l == SubflowOf[t.node]
<1>0. l \in Loops /\ ActivatedTargets(t.node, t.output) = {StartOf[l]} /\ t.node = EndOf[l]
  BY BackFromEnd DEF NestInv
<1>1. /\ \A m \in Loops : scope'[m] = IF m = l \/ m \notin Within(l) THEN scope[m] ELSE None
      /\ \A n \in Nodes : blockStates'[n] = IF n \in Inside(l) THEN None ELSE blockStates[n]
  BY <1>0, BackScopes DEF NestInv
<1>2. /\ \A n \in Inside(l) : Live(n)'
      /\ \A n \in Nodes \ Inside(l) : Live(n) => Live(n)'
      /\ \A n \in Nodes \ Inside(l) : IsNodeReady(n)' <=> IsNodeReady(n)
  BY <1>0, BackEdges DEF NestInv
<1>3. nodesWithActivatedEdge' = (nodesWithActivatedEdge \ Inside(l)) \cup {StartOf[l]}
  BY <1>0 DEF GoesBack
<1>4. Anchor(StartOf[l])' /\ StartOf[l] \in Inside(l)
  BY <1>0, <1>2, <1>3, SentinelsInside DEF Anchor
<1>5. t.node \in Active /\ IsNodeReady(EndOf[l])
  BY <1>0, QuietGives DEF NestInv
<1>. HIDE DEF l
<1>. SUFFICES ASSUME NEW m \in Loops, scope'[m] # None
              PROVE  Exited(m)' \/ \E k \in Inside(m) : Anchor(k)'
  BY DEF Started
<1>6. CASE l \in Within(m)
  BY <1>4, <1>6, WithinNested
<1>7. CASE l \notin Within(m)
  <2>1. m # l /\ m \notin Within(l) /\ scope[m] # None
    BY <1>0, <1>1, <1>7, WithinSelf
  <2>2. CASE Exited(m)
    <3>1. EndOf[m] \in Nodes \ Inside(l)
      BY <2>1, SentinelsInside DEF Inside
    <3>. QED BY <1>1, <2>2, <3>1 DEF Exited
  <2>3. ASSUME NEW n \in Inside(m), Anchor(n) PROVE Anchor(n)'
    <3>1. n \in Nodes /\ n # EndOf[l]
      BY <1>0, <1>7, SentinelsInside DEF Inside
    <3>2. n \notin Inside(l)
      BY <1>0, <1>5, <2>3, <3>1, LiveReachesEnd DEF Anchor, NestInv, QuietInv
    <3>. QED BY <1>2, <1>3, <2>3, <3>1, <3>2 DEF Anchor
  <2>. QED BY <2>1, <2>2, <2>3 DEF Started
<1>. QED BY <1>6, <1>7

LEMMA NextStarted ==
  LoopsWired /\ BranchesWired /\ NestInv /\ Started /\ [LoopNext]_allVars => Started'
<1>. SUFFICES ASSUME LoopsWired, BranchesWired, NestInv, Started, [LoopNext]_allVars PROVE Started'
  OBVIOUS
<1>1. CASE \/ (MainLoop \/ SignalCancelled \/ Ended) /\ UNCHANGED scopeVars
           \/ UNCHANGED allVars
  <2>1. UNCHANGED <<edgeVars, blockStates, scope>>
    BY <1>1 DEF MainLoop, ProcessQueue, WakeUp, LeaveLoop, AllSettled, SignalCancelled, Ended,
                vars, scopeVars, allVars
  <2>. QED BY <2>1, StartedKept DEF Exited
<1>2. ASSUME NEW t \in executing, Completion(t) PROVE Started'
  BY <1>2, CompletionShape, StartedCallEnds, StartedGoesBack DEF NestInv
<1>. QED BY <1>1, <1>2, StartedReturns DEF LoopNext

(* A loop inside is over when the loop around it goes on or is left.          *)
LEMMA InnerOver ==
  ASSUME LoopsWired, NestInv, Started, NEW l \in Loops, EndOf[l] \in Active,
         NEW m \in Within(l) \ {l}
  PROVE  scope[m] = None \/ Exited(m)
<1>. SUFFICES ASSUME NEW n \in Inside(m), Anchor(n) PROVE FALSE
  BY WithinNested DEF Started
<1>1. n \in Inside(l) /\ n # EndOf[l]
  BY WithinNested, SentinelsOutside
<1>2. ~IsNodeReady(EndOf[l])
  BY <1>1, LiveReachesEnd DEF Anchor, NestInv, QuietInv
<1>. QED BY <1>2, QuietGives DEF NestInv

----------------------------------------------------------------------------
(* Rounds, counted by the orchestrator and by what really ran.                *)

(* Until its end sentinel answers, the index of a loop is the number of its    *)
(* rounds that are over.                                                    *)
CountsRounds ==
  \A l \in Loops :
    /\ scope[l] # None
    /\ \/ starts[EndOf[l]] = mark[EndOf[l]]
       \/ \E t \in executing : t.node = EndOf[l] /\ t.output = None
    => scope[l].iteration = Len(past[l])

(* When it goes back, one more is. *)
GoingOn ==
  \A l \in Loops : \A t \in executing :
    t.node = EndOf[l] /\ t.output # None /\ t.output.route = "loop_continue" =>
      scope[l].iteration = Len(past[l]) + 1

(* When a counted loop is left for no other reason, its count is reached.    *)
Leaving ==
  \A l \in Loops : \A t \in executing :
    /\ t.node = EndOf[l] /\ t.output # None /\ t.output.route = "loop_exit"
    /\ CountOf[l] \notin {None, 0}
    => cancelledFlag \/ l \in misjudged \/ Len(past[l]) + 1 = CountOf[l]

(* Only a loop with nothing to do is skipped, and nothing of it then runs.     *)
SkippedEmpty ==
  \A l \in Loops : scope[l] # None /\ scope[l].skipped => CountOf[l] \in {None, 0}

EmptyNotRun ==
  \A l \in Loops : CountOf[l] = 0 =>
    /\ \A n \in Inside(l) \ {StartOf[l], EndOf[l]} : n \notin Active /\ starts[n] = mark[n]
    /\ \A t \in executing :
         t.node = StartOf[l] /\ t.output # None /\ t.output.kind = "done" =>
           t.output.route = "loop_exit"

RoundsInv == CountsRounds /\ GoingOn /\ Leaving /\ SkippedEmpty /\ EmptyNotRun

LEMMA RoundsIdle ==
  ASSUME RoundsInv, UNCHANGED <<readyQueue, executing, starts, scope, past, mark, misjudged>>,
         cancelledFlag => cancelledFlag'
  PROVE  RoundsInv'
<1>1. CountsRounds' /\ SkippedEmpty'
  BY DEF RoundsInv, CountsRounds, SkippedEmpty
<1>2. GoingOn' /\ Leaving'
  BY DEF RoundsInv, GoingOn, Leaving
<1>3. Active' = Active
  BY DEF Active, Busy
<1>4. EmptyNotRun'
  BY <1>3 DEF RoundsInv, EmptyNotRun
<1>. QED BY <1>1, <1>2, <1>4 DEF RoundsInv

LEMMA RoundsProcessQueue ==
  ASSUME NestInv, RoundsInv, ProcessQueue, UNCHANGED scopeVars
  PROVE  RoundsInv'
<1>1. /\ Active' = Active
      /\ \A t \in executing' : t \in executing \/ (t.node \in readyQueue /\ t.output = None)
  BY QueueActive
<1>2. UNCHANGED <<scope, past, mark, misjudged, cancelledFlag>>
  BY DEF ProcessQueue, scopeVars, history
<1>3. \A n \in Nodes : /\ n \in readyQueue => starts[n] = mark[n]
                       /\ n \notin readyQueue => starts'[n] = starts[n]
  BY DEF ProcessQueue, NestInv, QuietInv, CalledInRound
<1>4. CountsRounds'
  <2>. SUFFICES ASSUME NEW l \in Loops, scope[l] # None,
                       \/ starts'[EndOf[l]] = mark[EndOf[l]]
                       \/ \E t \in executing' : t.node = EndOf[l] /\ t.output = None
                PROVE  scope[l].iteration = Len(past[l])
    BY <1>2 DEF CountsRounds
  <2>1. EndOf[l] \in Nodes
    BY SentinelsInside
  <2>2. \/ starts[EndOf[l]] = mark[EndOf[l]]
        \/ \E t \in executing : t.node = EndOf[l] /\ t.output = None
    BY <1>1, <1>3, <2>1
  <2>. QED BY <2>2 DEF RoundsInv, CountsRounds
<1>5. GoingOn' /\ Leaving' /\ SkippedEmpty'
  BY <1>1, <1>2 DEF RoundsInv, GoingOn, Leaving, SkippedEmpty
<1>6. EmptyNotRun'
  <2>1. ASSUME NEW l \in Loops, CountOf[l] = 0, NEW n \in Inside(l) \ {StartOf[l], EndOf[l]}
        PROVE  n \notin Active /\ starts'[n] = mark[n]
    <3>1. n \in Nodes /\ n \notin Active /\ starts[n] = mark[n]
      BY <2>1 DEF RoundsInv, EmptyNotRun, Inside
    <3>. QED BY <1>3, <3>1 DEF Active
  <2>2. ASSUME NEW l \in Loops, CountOf[l] = 0, NEW t \in executing', t.node = StartOf[l],
               t.output # None, t.output.kind = "done"
        PROVE  t.output.route = "loop_exit"
    BY <1>1, <2>2 DEF RoundsInv, EmptyNotRun
  <2>. QED BY <1>1, <1>2, <2>1, <2>2 DEF EmptyNotRun
<1>. QED BY <1>4, <1>5, <1>6 DEF RoundsInv

LEMMA RoundsBlockEnds ==
  ASSUME LoopsWired, NestInv, RoundsInv, NEW t \in executing, BlockEnds(t)
  PROVE  RoundsInv'
<1>1. /\ t.node \notin Sentinels
      /\ UNCHANGED <<readyQueue, starts, cancelledFlag, scope, past, mark, misjudged>>
  BY BlockShape DEF NestInv, scopeVars, history
<1>2. PICK out : Returned(t, out)
  BY BlockShape DEF NestInv
<1>3. /\ Active' = Active
      /\ \A v \in executing' : v \in executing \/ v.node \notin Sentinels
  BY <1>1, <1>2, ReturnedActive DEF NestInv, QuietInv
<1>4. \A v \in executing' : \A l \in Loops : v.node \in {StartOf[l], EndOf[l]} => v \in executing
  BY <1>3, LoopAssumption
<1>5. CountsRounds'
  BY <1>1, <1>4 DEF RoundsInv, CountsRounds
<1>6. GoingOn' /\ Leaving' /\ SkippedEmpty'
  BY <1>1, <1>4 DEF RoundsInv, GoingOn, Leaving, SkippedEmpty
<1>7. EmptyNotRun'
  BY <1>1, <1>3, <1>4 DEF RoundsInv, EmptyNotRun
<1>. QED BY <1>5, <1>6, <1>7 DEF RoundsInv

LEMMA RoundsStartReturns ==
  ASSUME LoopsWired, NestInv, RoundsInv, NEW t \in executing, StartReturns(t)
  PROVE  RoundsInv'
<1>. DEFINE l == SubflowOf[t.node]
<1>0. LoopTypeOK
  BY DEF NestInv, QuietInv
<1>1. /\ l \in Loops /\ t.node = StartOf[l]
      /\ UNCHANGED <<readyQueue, starts, mark, misjudged, cancelledFlag>>
      /\ past' = IF scope[l] = None THEN [past EXCEPT ![l] = <<>>] ELSE past
  BY <1>0, StartShape
<1>2. PICK q \in Scope, out \in StartAnswers : StartStep(t, l, q, out)
  BY <1>0, StartShape
<1>. HIDE DEF l
<1>3. /\ Active' = Active
      /\ \A v \in executing' : v \in executing \/ (v.node = t.node /\ v.output = out)
  BY <1>0, <1>1, <1>2, ReturnedActive DEF StartStep
<1>4. \A v \in executing' : \A m \in Loops : v.node = EndOf[m] => v \in executing
  BY <1>1, <1>3, SentinelsInside
<1>5. \A m \in Loops : /\ m # l => scope'[m] = scope[m] /\ past'[m] = past[m]
                       /\ scope[m] # None => past'[m] = past[m]
  BY <1>0, <1>1, <1>2 DEF StartStep, LoopTypeOK
<1>6. /\ scope'[l] = q
      /\ q.iteration = Scoped(l).iteration
      /\ q.skipped => Scoped(l).skipped \/ CountOf[l] \in {None, 0}
      /\ out.kind = "done" /\ CountOf[l] = 0 => out.route = "loop_exit"
  BY <1>0, <1>1, <1>2 DEF StartStep, LoopTypeOK
<1>7. CASE scope[l] = None
  <2>1. q.iteration = 0 /\ past'[l] = <<>> /\ ~Scoped(l).skipped
    BY <1>0, <1>1, <1>6, <1>7 DEF Scoped, NewScope, LoopTypeOK
  <2>2. q.iteration = Len(past'[l])
    BY <2>1
  <2>3. CountsRounds'
    BY <1>1, <1>4, <1>5, <1>6, <2>2 DEF RoundsInv, CountsRounds
  <2>4. \A v \in executing : v.node # EndOf[l]
    BY <1>1, <1>7, QuietGives, SentinelsInside DEF NestInv, Entered
  <2>5. GoingOn' /\ Leaving'
    BY <1>1, <1>4, <1>5, <2>4 DEF RoundsInv, GoingOn, Leaving
  <2>6. SkippedEmpty'
    BY <1>5, <1>6, <2>1 DEF RoundsInv, SkippedEmpty
  <2>7. EmptyNotRun'
    BY <1>1, <1>3, <1>6, SentinelsApart DEF RoundsInv, EmptyNotRun
  <2>. QED BY <2>3, <2>5, <2>6, <2>7 DEF RoundsInv
<1>8. CASE scope[l] # None
  <2>1. Scoped(l) = scope[l] /\ past'[l] = past[l]
    BY <1>5, <1>1, <1>8 DEF Scoped
  <2>2. \A m \in Loops : scope'[m] # None => scope[m] # None /\ past'[m] = past[m]
    BY <1>5, <1>8, <2>1
  <2>3. \A m \in Loops : past'[m] = past[m] /\ scope'[m].iteration = scope[m].iteration
    BY <1>5, <1>6, <2>1
  <2>4. CountsRounds'
    BY <1>1, <1>4, <2>2, <2>3 DEF RoundsInv, CountsRounds
  <2>5. GoingOn' /\ Leaving'
    BY <1>1, <1>4, <2>3 DEF RoundsInv, GoingOn, Leaving
  <2>6. SkippedEmpty'
    BY <1>5, <1>6, <1>8, <2>1 DEF RoundsInv, SkippedEmpty
  <2>7. EmptyNotRun'
    BY <1>1, <1>3, <1>6, SentinelsApart DEF RoundsInv, EmptyNotRun
  <2>. QED BY <2>4, <2>5, <2>6, <2>7 DEF RoundsInv
<1>. QED BY <1>7, <1>8

LEMMA EndAnswered == None \notin EndAnswers
<1>1. EndAnswers \subseteq BlockOutput
  BY DEF EndAnswers, Result, BlockOutput, ControlHandles, LoopRoutes
<1>. QED BY <1>1, EdgesAssumption

LEMMA RoundTyped ==
  ASSUME LoopTypeOK, NEW l \in Loops
  PROVE  /\ Len(past[l]) \in Nat
         /\ Len(Append(past[l], Round(l))) = Len(past[l]) + 1
<1>1. past[l] \in Seq(SUBSET Call) /\ Round(l) \in SUBSET Call
  BY LoopRoundTyped DEF LoopTypeOK
<1>. QED BY <1>1

LEMMA RoundsEndReturns ==
  ASSUME LoopsWired, NestInv, RoundsInv, IndexBelowCount, NEW t \in executing, EndReturns(t)
  PROVE  RoundsInv'
<1>. DEFINE l == SubflowOf[t.node]
<1>0. LoopTypeOK /\ t.node \in Active
  BY QuietGives DEF NestInv, QuietInv
<1>1. /\ l \in Loops /\ t.node = EndOf[l] /\ t.output = None
      /\ UNCHANGED <<readyQueue, starts, mark, cancelledFlag>>
      /\ past' = IF scope[l] = None THEN [past EXCEPT ![l] = <<>>] ELSE past
      /\ misjudged \subseteq misjudged'
  BY <1>0, EndShape
<1>2. PICK q \in Scope, out \in EndAnswers : EndStep(t, l, q, out)
  BY <1>0, EndShape
<1>. HIDE DEF l
<1>3. scope[l] # None /\ past' = past
  BY <1>0, <1>1, SentinelsInside DEF NestInv, Entered
<1>4. /\ scope'[l] = q /\ \A m \in Loops \ {l} : scope'[m] = scope[m]
      /\ Scoped(l) = scope[l] /\ Returned(t, out)
      /\ q.skipped => scope[l].skipped
      /\ out.route = "loop_continue" => q.iteration = scope[l].iteration + 1
      /\ out.route = "loop_exit" /\ CountOf[l] # None =>
           \/ cancelledFlag \/ l \in misjudged' \/ scope[l].skipped
           \/ ~(scope[l].iteration + 1 < CountOf[l])
  BY <1>0, <1>1, <1>2, <1>3 DEF EndStep, Scoped, LoopTypeOK
<1>5. /\ Active' = Active
      /\ \A v \in executing' : v \in executing \ {t} \/ (v.node = t.node /\ v.output = out)
  BY <1>0, <1>1, <1>4, ReturnedActive
<1>6. \A v \in executing \ {t} : v.node # EndOf[l]
  BY <1>1 DEF NestInv, QuietInv, OneCallAtATime
<1>7. \A m \in Loops \ {l} : \A v \in executing' : v.node = EndOf[m] => v \in executing
  BY <1>1, <1>5, SentinelsApart
<1>8. out # None
  BY EndAnswered
<1>9. scope[l].iteration = Len(past[l])
  BY <1>1, <1>3 DEF RoundsInv, CountsRounds
<1>10. CountsRounds'
  <2>1. starts[EndOf[l]] # mark[EndOf[l]]
    <3>1. starts[EndOf[l]] \in Nat /\ mark[EndOf[l]] < starts[EndOf[l]] /\ mark[EndOf[l]] \in Nat
      BY <1>0, <1>1, SentinelsInside DEF NestInv, QuietInv, CalledInRound, LoopTypeOK, TypeOK
    <3>. QED BY <3>1
  <2>2. \A v \in executing' : v.node = EndOf[l] => v.output # None
    BY <1>5, <1>6, <1>8
  <2>. QED BY <1>1, <1>3, <1>4, <1>7, <2>1, <2>2 DEF RoundsInv, CountsRounds
<1>11. GoingOn'
  BY <1>3, <1>4, <1>5, <1>6, <1>7, <1>9 DEF RoundsInv, GoingOn
<1>12. Leaving'
  <2>1. ASSUME out.route = "loop_exit", CountOf[l] \notin {None, 0}, ~cancelledFlag, l \notin misjudged'
        PROVE  Len(past[l]) + 1 = CountOf[l]
    <3>1. ~scope[l].skipped
      BY <1>1, <1>3, <2>1 DEF RoundsInv, SkippedEmpty
    <3>2. ~(scope[l].iteration + 1 < CountOf[l])
      BY <1>4, <2>1, <3>1
    <3>3. scope[l].iteration = 0 \/ scope[l].iteration < CountOf[l]
      BY <1>1, <1>3, <2>1 DEF IndexBelowCount
    <3>4. CountOf[l] \in Nat /\ CountOf[l] # 0 /\ scope[l].iteration \in Nat
      BY <1>0, <1>1, <1>3, <2>1, LoopAssumption DEF LoopTypeOK, Scope
    <3>. QED BY <1>9, <3>2, <3>3, <3>4
  <2>. QED BY <1>1, <1>3, <1>5, <1>6, <1>7, <2>1 DEF RoundsInv, Leaving
<1>13. SkippedEmpty'
  BY <1>3, <1>4 DEF RoundsInv, SkippedEmpty
<1>14. EmptyNotRun'
  <2>1. \A m \in Loops : \A v \in executing' : v.node = StartOf[m] => v \in executing
    BY <1>1, <1>5, SentinelsInside
  <2>. QED BY <1>1, <1>5, <2>1 DEF RoundsInv, EmptyNotRun
<1>. QED BY <1>10, <1>11, <1>12, <1>13, <1>14 DEF RoundsInv

(* Nothing of a loop that is passed by is reached by way of its sentinels.     *)
LEMMA PassedStaysOut ==
  ASSUME LoopsWired, NestInv, NEW t \in executing, CallEnds(t), NEW l \in Loops,
         \A k \in Inside(l) \ {StartOf[l], EndOf[l]} : k \notin Active,
         t.node = StartOf[l] /\ t.output.kind = "done" => t.output.route = "loop_exit",
         NEW n \in Inside(l) \ {StartOf[l], EndOf[l]}
  PROVE  n \notin Active'
<1>. SUFFICES ASSUME n \in Active' PROVE FALSE
  OBVIOUS
<1>1. n \notin Active /\ t.node \in Active
  BY QuietGives DEF NestInv
<1>2. PICK e \in OutEdges(t.node) :
        e.dst = n /\ (ShouldActivate(e, t.output) \/ t.output.route \notin ExitHandles)
  BY <1>1, CallEndsActive DEF NestInv
<1>3. e \in Edges /\ e.src = t.node /\ e.src \in Inside(l)
  <2>1. e \in Edges /\ e.src = t.node /\ e.dst \in Inside(l) \ {StartOf[l]}
    BY <1>2 DEF OutEdges
  <2>. QED BY <2>1 DEF LoopsWired, WiredByConstruction
<1>4. t.node = StartOf[l] \/ t.node = EndOf[l]
  BY <1>1, <1>3
<1>5. ~IsBypass(e) /\ e.handle \notin BackHandles
  <2>1. ASSUME IsBypass(e) PROVE FALSE
    <3>1. PICK k \in Loops : e.src = StartOf[k] /\ e.dst = EndOf[k]
      BY <2>1 DEF IsBypass
    <3>2. k = l
      BY <1>3, <1>4, <3>1, SentinelsInside, SentinelsApart
    <3>. QED BY <1>2, <3>1, <3>2
  <2>2. ASSUME e.handle \in BackHandles PROVE FALSE
    <3>1. e.handle = "loop_continue" /\ e.handle \in ControlHandles
      BY <1>3, <2>2, ControlEdges DEF ControlHandles, LoopRoutes
    <3>2. PICK k \in Loops : e.src = EndOf[k] /\ (e.dst = StartOf[k] \/ e.handle = "loop_exit")
      BY <1>3, <2>1, <3>1 DEF LoopsWired
    <3>3. k = l
      BY <1>3, <1>4, <3>2, SentinelsInside, SentinelsApart
    <3>. QED BY <1>2, <3>1, <3>2, <3>3
  <2>. QED BY <2>1, <2>2
<1>6. e \in Forward
  BY <1>3, <1>5 DEF LoopsWired, Forward
<1>7. CASE t.node = EndOf[l]
  <2>0. \A f \in Forward : f.src = EndOf[l] => f.handle = "loop_exit"
    BY DEF LoopsWired, WiredByConstruction
  <2>1. e.handle = "loop_exit"
    BY <1>3, <1>6, <1>7, <2>0
  <2>2. PICK k \in Loops : e.src = EndOf[k] /\ (e.handle = "loop_continue" \/ e.dst \notin Inside(k))
    BY <1>3, <1>5, <2>1 DEF LoopsWired, ControlHandles, LoopRoutes
  <2>3. k = l
    BY <1>3, <1>7, <2>2, SentinelsApart
  <2>. QED BY <1>2, <2>1, <2>2, <2>3
<1>8. CASE t.node = StartOf[l]
  <2>0. \A f \in Forward : f.src = StartOf[l] => f.handle = "always"
    BY DEF LoopsWired, WiredByConstruction
  <2>1. e.handle = "always"
    BY <1>3, <1>6, <1>8, <2>0
  <2>2. t.output.kind = "done" /\ t.output # None
    BY <1>1, <1>8, SentinelsInside, LoopAssumption
       DEF CallEnds, BlockSettles, SentinelSettles, Active, Busy
  <2>3. t.output.route = "loop_exit"
    BY <1>8, <2>2
  <2>. QED BY <1>2, <2>1, <2>3, HandlesAssumption
           DEF ShouldActivate, ExitHandles, PortHandles, ControlHandles, LoopRoutes, ParallelRoutes
<1>. QED BY <1>4, <1>7, <1>8

LEMMA RoundsCallEnds ==
  ASSUME LoopsWired, NestInv, RoundsInv, NEW t \in executing, CallEnds(t)
  PROVE  RoundsInv'
<1>1. executing' = executing \ {t} /\ UNCHANGED <<starts, past, mark, misjudged, cancelledFlag>>
  BY DEF CallEnds, history
<1>2. \A l \in Loops : /\ scope'[l] = None <=> scope[l] = None
                       /\ scope[l] # None => /\ scope'[l].iteration = scope[l].iteration
                                             /\ scope'[l].skipped = scope[l].skipped
  BY SettledScopes DEF NestInv
<1>3. CountsRounds' /\ SkippedEmpty'
  BY <1>1, <1>2 DEF RoundsInv, CountsRounds, SkippedEmpty
<1>4. GoingOn'
  <2>1. \A l \in Loops : \A v \in executing : v.node = EndOf[l] => scope[l] # None
    BY QuietGives, SentinelsInside DEF NestInv, Entered
  <2>. QED BY <1>1, <1>2, <2>1 DEF RoundsInv, GoingOn
<1>5. Leaving'
  BY <1>1 DEF RoundsInv, Leaving
<1>6. EmptyNotRun'
  <2>1. ASSUME NEW l \in Loops, CountOf[l] = 0, NEW n \in Inside(l) \ {StartOf[l], EndOf[l]}
        PROVE  n \notin Active'
    BY <2>1, PassedStaysOut DEF RoundsInv, EmptyNotRun, CallEnds
  <2>. QED BY <1>1, <2>1 DEF RoundsInv, EmptyNotRun
<1>. QED BY <1>3, <1>4, <1>5, <1>6 DEF RoundsInv

LEMMA RoundsGoesBack ==
  ASSUME LoopsWired, NestInv, RoundsInv, NEW t \in executing, GoesBack(t)
  PROVE  RoundsInv'
<1>. DEFINE l == SubflowOf[t.node]
<1>0. l \in Loops /\ t.output.route = "loop_continue" /\ t.node \in Active /\ t.output # None
  BY BackFromEnd, QuietGives DEF NestInv, GoesBack, SentinelCompletes
<1>1. /\ t.node = EndOf[l] /\ executing' = executing \ {t}
      /\ \A m \in Loops : scope'[m] = IF m = l \/ m \notin Within(l) THEN scope[m] ELSE None
      /\ \A m \in Loops : past'[m] = IF m = l THEN Append(past[l], Round(l))
                                     ELSE IF m \in Within(l) THEN <<>> ELSE past[m]
      /\ \A n \in Nodes : mark'[n] = IF n \in Inside(l) THEN starts[n] ELSE mark[n]
      /\ UNCHANGED <<starts, misjudged, cancelledFlag>>
      /\ \A v \in executing' : v \in executing /\ v.node \in Nodes \ Inside(l)
      /\ \A n \in Active' : n = StartOf[l] \/ (n \in Active /\ n \notin Inside(l))
  BY <1>0, BackScopes DEF NestInv
<1>. HIDE DEF l
<1>2. scope[l].iteration = Len(past[l]) + 1
  BY <1>0, <1>1 DEF RoundsInv, GoingOn
<1>3. Len(past'[l]) = Len(past[l]) + 1
  BY <1>0, <1>1, RoundTyped DEF NestInv, QuietInv
<1>4. \A m \in Loops : m \notin Within(l) =>
        EndOf[m] \in Nodes /\ EndOf[m] \notin Inside(l) /\ mark'[EndOf[m]] = mark[EndOf[m]]
  BY <1>1, SentinelsInside DEF Inside
<1>5. CountsRounds'
  <2>. SUFFICES ASSUME NEW m \in Loops, scope'[m] # None,
                       \/ starts[EndOf[m]] = mark'[EndOf[m]]
                       \/ \E v \in executing' : v.node = EndOf[m] /\ v.output = None
                PROVE  scope'[m].iteration = Len(past'[m])
    BY <1>1 DEF CountsRounds
  <2>1. CASE m = l
    BY <1>0, <1>1, <1>2, <1>3, <2>1
  <2>2. CASE m # l
    <3>1. m \notin Within(l) /\ scope'[m] = scope[m] /\ past'[m] = past[m] /\ scope[m] # None
      BY <1>1, <2>2
    <3>. QED BY <1>1, <1>4, <3>1 DEF RoundsInv, CountsRounds
  <2>. QED BY <2>1, <2>2
<1>6. \A m \in Loops : \A v \in executing' : v.node = EndOf[m] =>
        /\ v \in executing /\ m \notin Within(l) /\ m # l
        /\ scope'[m] = scope[m] /\ past'[m] = past[m]
  <2>. SUFFICES ASSUME NEW m \in Loops, NEW v \in executing', v.node = EndOf[m]
                PROVE  /\ v \in executing /\ m \notin Within(l) /\ m # l
                       /\ scope'[m] = scope[m] /\ past'[m] = past[m]
    OBVIOUS
  <2>1. v \in executing /\ m \notin Within(l)
    BY <1>1, SentinelsInside DEF Inside
  <2>. QED BY <1>0, <1>1, <2>1, WithinSelf
<1>7. GoingOn' /\ Leaving'
  BY <1>1, <1>6 DEF RoundsInv, GoingOn, Leaving
<1>8. SkippedEmpty'
  BY <1>1 DEF RoundsInv, SkippedEmpty
<1>9. ASSUME NEW m \in Loops, CountOf[m] = 0, NEW n \in Inside(m) \ {StartOf[m], EndOf[m]}
      PROVE  n \notin Active' /\ starts[n] = mark'[n]
  <2>1. n \in Nodes /\ n \notin Active /\ starts[n] = mark[n]
    BY <1>9 DEF RoundsInv, EmptyNotRun, Inside
  <2>2. n # StartOf[l]
    <3>. SUFFICES ASSUME n = StartOf[l] PROVE FALSE
      OBVIOUS
    <3>1. l \in Within(m) /\ l # m
      BY <1>0, <1>9, SentinelsInside DEF Inside
    <3>2. EndOf[l] \in Inside(m) \ {StartOf[m], EndOf[m]}
      BY <1>0, <1>9, <3>1, SentinelsInside, SentinelsApart, WithinNested
    <3>. QED BY <1>0, <1>1, <1>9, <3>2 DEF RoundsInv, EmptyNotRun
  <2>. QED BY <1>1, <2>1, <2>2
<1>10. EmptyNotRun'
  BY <1>1, <1>9 DEF RoundsInv, EmptyNotRun
<1>. QED BY <1>5, <1>7, <1>8, <1>10 DEF RoundsInv

LEMMA NextRounds ==
  ASSUME LoopsWired, BranchesWired, NestInv, RoundsInv, IndexBelowCount, [LoopNext]_allVars
  PROVE  RoundsInv'
<1>1. CASE \/ (WakeUp \/ LeaveLoop \/ AllSettled \/ SignalCancelled \/ Ended) /\ UNCHANGED scopeVars
           \/ UNCHANGED allVars
  <2>1. /\ UNCHANGED <<readyQueue, executing, starts, scope, past, mark, misjudged>>
        /\ cancelledFlag => cancelledFlag'
    BY <1>1 DEF WakeUp, LeaveLoop, AllSettled, SignalCancelled, Ended, vars, scopeVars, history, allVars
  <2>. QED BY <2>1, RoundsIdle
<1>2. ASSUME NEW t \in executing, Completion(t) PROVE RoundsInv'
  BY <1>2, CompletionShape, RoundsCallEnds, RoundsGoesBack DEF NestInv
<1>3. ASSUME NEW t \in executing, Returns(t) PROVE RoundsInv'
  BY <1>3, RoundsBlockEnds, RoundsStartReturns, RoundsEndReturns DEF Returns
<1>. QED BY <1>1, <1>2, <1>3, RoundsProcessQueue DEF LoopNext, MainLoop

----------------------------------------------------------------------------
(* Every step is one the documented promise of a loop allows, or none of it.   *)

(* What LoopRun's variables stand for. *)
CalledNodes  == {n \in Nodes : starts[n] > mark[n]}
RoundOf      == [l \in Loops |-> IF scope[l] = None \/ Exited(l) THEN 0 ELSE Len(past[l]) + 1]
StoppedLoops == IF cancelledFlag THEN Loops ELSE misjudged

RoundsVars == <<Busy, CalledNodes, RoundOf, StoppedLoops>>

LEMMA PromisedInside ==
  /\ \A l : Rounds!Within(l) = Within(l) /\ Rounds!Inside(l) = Inside(l)
  /\ \A l : Rounds!Runs(l) <=> l = NoSubflow \/ RoundOf[l] > 0
BY DEF Rounds!Within, Rounds!Inside, Within, Inside, Rounds!Runs, RoundOf

LEMMA PromisedVars == UNCHANGED RoundsVars => UNCHANGED Rounds!vars
BY DEF Rounds!vars, RoundsVars, CalledNodes, RoundOf, StoppedLoops

LEMMA PromisedActions ==
  /\ Rounds!Start <=>
       \E T \in SUBSET {n \in Nodes : Rounds!MayStart(n)} :
         /\ Busy' = Busy \cup T /\ CalledNodes' = CalledNodes \cup T
         /\ UNCHANGED <<RoundOf, StoppedLoops>>
  /\ \A n : Rounds!End(n) <=>
       n \in Busy /\ Busy' = Busy \ {n} /\ UNCHANGED <<CalledNodes, RoundOf, StoppedLoops>>
  /\ \A l : Rounds!Enter(l) <=>
       /\ RoundOf[l] = 0 /\ Rounds!Runs(ParentOf[l]) /\ CalledNodes \cap Inside(l) = {StartOf[l]}
       /\ RoundOf' = [RoundOf EXCEPT ![l] = 1]
       /\ UNCHANGED <<Busy, CalledNodes, StoppedLoops>>
  /\ Rounds!Stop <=>
       /\ StoppedLoops' \in {S \in SUBSET Loops : StoppedLoops \subseteq S}
       /\ UNCHANGED <<Busy, CalledNodes, RoundOf>>
BY PromisedInside
   DEF Rounds!Start, Rounds!End, Rounds!Enter, Rounds!Stop, CalledNodes, RoundOf, StoppedLoops

LEMMA PromisedQuiet ==
  ASSUME NEW l
  PROVE  /\ Rounds!Quiet(l) <=>
              /\ RoundOf[l] > 0 /\ Busy \cap Inside(l) = {EndOf[l]}
              /\ \A m \in Within(l) \ {l} : RoundOf[m] = 0
         /\ Rounds!NextRound(l) <=>
              /\ Rounds!Quiet(l)
              /\ CountOf[l] # None => RoundOf[l] < CountOf[l]
              /\ RoundOf' = [RoundOf EXCEPT ![l] = @ + 1]
              /\ Busy' = Busy \ {EndOf[l]} /\ CalledNodes' = CalledNodes \ Inside(l)
              /\ UNCHANGED StoppedLoops
         /\ Rounds!Leave(l) <=>
              /\ Rounds!Quiet(l)
              /\ CountOf[l] # None /\ l \notin StoppedLoops =>
                   IF CountOf[l] = 0 THEN CalledNodes \cap (Inside(l) \ {StartOf[l], EndOf[l]}) = {}
                   ELSE RoundOf[l] = CountOf[l]
              /\ RoundOf' = [RoundOf EXCEPT ![l] = 0]
              /\ Busy' = Busy \ {EndOf[l]}
              /\ UNCHANGED <<CalledNodes, StoppedLoops>>
BY PromisedInside
   DEF Rounds!Quiet, Rounds!NextRound, Rounds!Leave, Rounds!Body, CalledNodes, RoundOf, StoppedLoops

(* A loop runs while anything in it does but its start. *)
LEMMA LoopRuns ==
  ASSUME LoopsWired, NestInv, NEW l \in Loops, NEW n \in Active \cap Inside(l), n # StartOf[l]
  PROVE  scope[l] # None /\ ~Exited(l) /\ RoundOf[l] = Len(past[l]) + 1 /\ RoundOf[l] > 0
<1>1. scope[l] # None
  BY DEF NestInv, Entered
<1>2. blockStates[EndOf[l]] = None
  <2>1. CASE n = EndOf[l]
    BY <2>1, SentinelsInside, LoopAssumption
       DEF NestInv, QuietInv, CalledInRound, Active, Busy
  <2>2. CASE n # EndOf[l]
    <3>1. ~IsNodeReady(EndOf[l])
      BY <2>2, ActiveLive, LiveReachesEnd DEF NestInv, QuietInv
    <3>. QED BY <3>1, SentinelsInside DEF NestInv, QuietInv, CalledInRound
  <2>. QED BY <2>1, <2>2
<1>3. ~Exited(l)
  BY <1>2 DEF Exited
<1>4. Len(past[l]) \in Nat
  BY RoundTyped DEF NestInv, QuietInv
<1>. QED BY <1>1, <1>3, <1>4 DEF RoundOf

LEMMA RunsAround ==
  ASSUME LoopsWired, NestInv, NEW n \in Active
  PROVE  /\ \A l \in Loops : n = StartOf[l] => Rounds!Runs(ParentOf[l])
         /\ n \notin Starts => Rounds!Runs(SubflowOf[n])
<1>0. n \in Nodes
  BY QuietGives DEF NestInv
<1>1. ASSUME NEW l \in Loops, n = StartOf[l] PROVE Rounds!Runs(ParentOf[l])
  <2>1. CASE ParentOf[l] \in Loops
    <3>. DEFINE p == ParentOf[l]
    <3>1. l \in Within(p) /\ p # l
      BY <2>1, WithinSelf, WithinDown DEF LoopsWired, WiredByConstruction
    <3>2. n \in Inside(p) /\ n # StartOf[p]
      BY <1>1, <2>1, <3>1, SentinelsInside, SentinelsApart, WithinNested
    <3>. QED BY <2>1, <3>2, LoopRuns, PromisedInside
  <2>2. CASE ParentOf[l] \notin Loops
    BY <2>2, LoopAssumption, PromisedInside
  <2>. QED BY <2>1, <2>2
<1>2. ASSUME n \notin Starts PROVE Rounds!Runs(SubflowOf[n])
  <2>1. CASE SubflowOf[n] \in Loops
    <3>1. n \in Inside(SubflowOf[n]) /\ n # StartOf[SubflowOf[n]]
      BY <1>0, <1>2, <2>1, WithinSelf DEF Inside, Starts
    <3>. QED BY <2>1, <3>1, LoopRuns, PromisedInside
  <2>2. CASE SubflowOf[n] \notin Loops
    BY <1>0, <2>2, PromisedInside DEF LoopsWired
  <2>. QED BY <2>1, <2>2
<1>. QED BY <1>1, <1>2

(* What LoopRun sees of a step: the rounds depend on the scopes, the end        *)
(* sentinels and the rounds that are over, and on nothing else.                *)
LEMMA RoundOfKept ==
  ASSUME NEW l \in Loops, scope'[l] = None <=> scope[l] = None, past'[l] = past[l],
         blockStates'[EndOf[l]] = blockStates[EndOf[l]]
  PROVE  RoundOf'[l] = RoundOf[l]
BY DEF RoundOf, Exited

LEMMA RoundOfSame ==
  ASSUME \A l \in Loops : RoundOf'[l] = RoundOf[l]
  PROVE  RoundOf' = RoundOf
BY DEF RoundOf

LEMMA RoundOfSet ==
  ASSUME NEW l \in Loops, NEW r, RoundOf'[l] = r, \A m \in Loops \ {l} : RoundOf'[m] = RoundOf[m]
  PROVE  RoundOf' = [RoundOf EXCEPT ![l] = r]
BY DEF RoundOf

LEMMA PromisedInit == LoopInit => Rounds!Init
<1>. SUFFICES ASSUME LoopInit PROVE Rounds!Init
  OBVIOUS
<1>1. Busy = {} /\ CalledNodes = {}
  BY DEF LoopInit, Init, Busy, CalledNodes
<1>2. RoundOf = [l \in Loops |-> 0] /\ StoppedLoops = {}
  BY DEF LoopInit, Init, RoundOf, StoppedLoops
<1>. QED BY <1>1, <1>2 DEF Rounds!Init, CalledNodes, RoundOf, StoppedLoops

LEMMA PromisedIdle ==
  ASSUME UNCHANGED <<executing, starts, blockStates, scope, past, mark, misjudged, cancelledFlag>>
  PROVE  UNCHANGED RoundsVars
BY DEF RoundsVars, Busy, CalledNodes, RoundOf, StoppedLoops, Exited

LEMMA PromisedCancel ==
  ASSUME LoopTypeOK, SignalCancelled, UNCHANGED scopeVars
  PROVE  Rounds!Stop
<1>1. UNCHANGED <<executing, starts, blockStates, scope, past, mark, misjudged>> /\ cancelledFlag'
  BY DEF SignalCancelled, scopeVars, history, loopVars
<1>2. UNCHANGED <<Busy, CalledNodes, RoundOf>>
  BY <1>1 DEF Busy, CalledNodes, RoundOf, Exited
<1>3. StoppedLoops' = Loops /\ StoppedLoops \subseteq Loops
  BY <1>1 DEF StoppedLoops, LoopTypeOK
<1>. QED BY <1>2, <1>3, PromisedActions

LEMMA PromisedStart ==
  ASSUME LoopsWired, NestInv, ProcessQueue, UNCHANGED scopeVars
  PROVE  Rounds!Start
<1>1. UNCHANGED <<blockStates, scope, past, mark, misjudged, cancelledFlag>>
  BY DEF ProcessQueue, scopeVars, history
<1>2. UNCHANGED <<RoundOf, StoppedLoops>>
  BY <1>1 DEF RoundOf, StoppedLoops, Exited
<1>3. Busy' = Busy \cup readyQueue
  BY QueueActive
<1>4. \A n \in readyQueue : n \in Nodes /\ n \in Active /\ starts[n] = mark[n] /\ mark[n] \in Nat
  BY DEF NestInv, QuietInv, CalledInRound, LoopTypeOK, TypeOK, Active
<1>5. CalledNodes' = CalledNodes \cup readyQueue
  BY <1>1, <1>4 DEF ProcessQueue, CalledNodes
<1>6. \A n \in readyQueue : n \notin CalledNodes
  BY <1>4 DEF CalledNodes
<1>7. ASSUME NEW n \in readyQueue PROVE n \in Nodes /\ Rounds!MayStart(n)
  <2>1. CASE \E l \in Loops : n = StartOf[l]
    <3>1. PICK l \in Loops : n = StartOf[l]
      BY <2>1
    <3>2. SubflowOf[n] = l /\ Rounds!Runs(ParentOf[l])
      BY <1>4, <3>1, RunsAround, SentinelsInside
    <3>. QED BY <1>4, <1>6, <2>1, <3>2 DEF Rounds!MayStart, CalledNodes
  <2>2. CASE ~\E l \in Loops : n = StartOf[l]
    <3>1. Rounds!Runs(SubflowOf[n])
      BY <1>4, <2>2, RunsAround DEF Starts
    <3>. QED BY <1>4, <1>6, <2>2, <3>1 DEF Rounds!MayStart, CalledNodes
  <2>. QED BY <2>1, <2>2
<1>8. readyQueue \in SUBSET {n \in Nodes : Rounds!MayStart(n)}
  BY <1>7
<1>. QED BY <1>2, <1>3, <1>5, <1>8, PromisedActions

LEMMA PromisedBlockEnds ==
  ASSUME LoopsWired, NestInv, NEW t \in executing, BlockEnds(t)
  PROVE  UNCHANGED RoundsVars
<1>1. /\ t.node \notin Sentinels
      /\ UNCHANGED <<readyQueue, starts, cancelledFlag, scope, past, mark, misjudged>>
  BY BlockShape DEF NestInv, scopeVars, history
<1>2. PICK out : Returned(t, out) /\ blockStates' = [blockStates EXCEPT ![t.node] = out]
  BY BlockShape DEF NestInv
<1>3. Busy' = Busy
  BY <1>1, <1>2, ReturnedActive DEF NestInv, QuietInv
<1>4. \A l \in Loops : blockStates'[EndOf[l]] = blockStates[EndOf[l]]
  BY <1>1, <1>2, LoopAssumption DEF NestInv, QuietInv, LoopTypeOK, TypeOK
<1>5. RoundOf' = RoundOf
  BY <1>1, <1>4, RoundOfKept, RoundOfSame
<1>. QED BY <1>1, <1>3, <1>5 DEF RoundsVars, CalledNodes, StoppedLoops

LEMMA PromisedStartReturns ==
  ASSUME LoopsWired, NestInv, NEW t \in executing, StartReturns(t)
  PROVE  UNCHANGED RoundsVars \/ \E l \in Loops : Rounds!Enter(l)
<1>. DEFINE l == SubflowOf[t.node]
<1>0. LoopTypeOK /\ t.node \in Active
  BY QuietGives DEF NestInv, QuietInv
<1>1. /\ l \in Loops /\ t.node = StartOf[l]
      /\ UNCHANGED <<readyQueue, starts, blockStates, mark, misjudged, cancelledFlag>>
      /\ past' = IF scope[l] = None THEN [past EXCEPT ![l] = <<>>] ELSE past
  BY <1>0, StartShape
<1>2. PICK q \in Scope, out \in StartAnswers : StartStep(t, l, q, out)
  BY <1>0, StartShape
<1>. HIDE DEF l
<1>3. Busy' = Busy
  BY <1>0, <1>1, <1>2, ReturnedActive DEF StartStep
<1>4. UNCHANGED <<Busy, CalledNodes, StoppedLoops>>
  BY <1>1, <1>3 DEF CalledNodes, StoppedLoops
<1>5. /\ scope'[l] # None
      /\ \A m \in Loops \ {l} : scope'[m] = scope[m] /\ past'[m] = past[m]
  BY <1>0, <1>1, <1>2, ScopeAssumption DEF StartStep, LoopTypeOK
<1>6. \A m \in Loops \ {l} : RoundOf'[m] = RoundOf[m]
  BY <1>1, <1>5, RoundOfKept
<1>7. CASE scope[l] # None
  <2>1. RoundOf'[l] = RoundOf[l]
    BY <1>1, <1>5, <1>7, RoundOfKept
  <2>2. RoundOf' = RoundOf
    BY <1>6, <2>1, RoundOfSame
  <2>. QED BY <1>4, <2>2 DEF RoundsVars
<1>8. CASE scope[l] = None
  <2>1. \A n \in Inside(l) \ {StartOf[l]} : ~IsNodeReady(n) /\ n \in Nodes
    BY <1>0, <1>1, ActiveLive, LiveReachesBody DEF NestInv, QuietInv, Inside
  <2>2. \A n \in Inside(l) \ {StartOf[l]} : n \notin CalledNodes /\ blockStates[n] = None
    <3>1. \A n \in Inside(l) \ {StartOf[l]} : starts[n] = mark[n] /\ blockStates[n] = None
      BY <2>1 DEF NestInv, QuietInv, CalledInRound
    <3>2. \A n \in Nodes : mark[n] \in Nat
      BY <1>0 DEF LoopTypeOK
    <3>. QED BY <2>1, <3>1, <3>2 DEF CalledNodes
  <2>3. StartOf[l] \in CalledNodes
    <3>1. t.nth = starts[t.node] /\ mark[t.node] < t.nth
      BY DEF NestInv, QuietInv, CalledInRound
    <3>2. starts[StartOf[l]] \in Nat /\ mark[StartOf[l]] \in Nat /\ StartOf[l] \in Nodes
      BY <1>0, <1>1, SentinelsInside DEF LoopTypeOK, TypeOK
    <3>. QED BY <1>1, <3>1, <3>2 DEF CalledNodes
  <2>4. CalledNodes \cap Inside(l) = {StartOf[l]}
    BY <1>1, <2>2, <2>3, SentinelsInside
  <2>5. RoundOf[l] = 0
    BY <1>1, <1>8 DEF RoundOf
  <2>6. RoundOf'[l] = 1
    <3>1. ~Exited(l)'
      BY <1>1, <2>2, SentinelsInside DEF Exited
    <3>2. past'[l] = <<>>
      BY <1>0, <1>1, <1>8 DEF LoopTypeOK
    <3>. QED BY <1>1, <1>5, <3>1, <3>2 DEF RoundOf
  <2>7. RoundOf' = [RoundOf EXCEPT ![l] = 1]
    BY <1>1, <1>6, <2>6, RoundOfSet
  <2>8. Rounds!Runs(ParentOf[l])
    BY <1>0, <1>1, RunsAround
  <2>. QED BY <1>1, <1>4, <2>4, <2>5, <2>7, <2>8, PromisedActions
<1>. QED BY <1>7, <1>8

LEMMA PromisedEndReturns ==
  ASSUME LoopsWired, NestInv, NEW t \in executing, EndReturns(t)
  PROVE  Rounds!Stop
<1>. DEFINE l == SubflowOf[t.node]
<1>0. LoopTypeOK /\ LoopTypeOK' /\ t.node \in Active
  BY QuietGives, LoopNextTypeOK DEF NestInv, QuietInv, LoopNext, Returns
<1>1. /\ l \in Loops /\ t.node = EndOf[l]
      /\ UNCHANGED <<readyQueue, starts, blockStates, mark, cancelledFlag>>
      /\ past' = IF scope[l] = None THEN [past EXCEPT ![l] = <<>>] ELSE past
      /\ misjudged \subseteq misjudged'
  BY <1>0, EndShape
<1>2. PICK q \in Scope, out \in EndAnswers : EndStep(t, l, q, out)
  BY <1>0, EndShape
<1>. HIDE DEF l
<1>3. scope[l] # None /\ past' = past
  BY <1>0, <1>1, SentinelsInside DEF NestInv, Entered
<1>4. Busy' = Busy
  BY <1>0, <1>1, <1>2, ReturnedActive DEF EndStep
<1>5. \A m \in Loops : scope'[m] = None <=> scope[m] = None
  BY <1>0, <1>1, <1>2, <1>3, ScopeAssumption DEF EndStep, LoopTypeOK
<1>6. RoundOf' = RoundOf
  BY <1>1, <1>3, <1>5, RoundOfKept, RoundOfSame
<1>7. StoppedLoops' \in SUBSET Loops /\ StoppedLoops \subseteq StoppedLoops'
  BY <1>0, <1>1 DEF StoppedLoops, LoopTypeOK
<1>. QED BY <1>1, <1>4, <1>6, <1>7, PromisedActions DEF CalledNodes

LEMMA InitStarted == LoopInit => Started
BY DEF LoopInit, Started

LEMMA InitRounds == LoopsWired /\ LoopInit => RoundsInv
<1>. SUFFICES ASSUME LoopsWired, LoopInit PROVE RoundsInv
  OBVIOUS
<1>1. Active = {Trigger} /\ executing = {} /\ \A l \in Loops : scope[l] = None
  BY DEF LoopInit, Init, Active, Busy
<1>2. \A l \in Loops : Trigger \in Inside(l) => Trigger = StartOf[l]
  BY DEF LoopsWired
<1>3. \A n \in Nodes : starts[n] = mark[n]
  BY DEF LoopInit, Init
<1>4. EmptyNotRun
  BY <1>1, <1>2, <1>3 DEF EmptyNotRun, Inside
<1>. QED BY <1>1, <1>4 DEF RoundsInv, CountsRounds, GoingOn, Leaving, SkippedEmpty

(* The end sentinel finds its loop as quiet as LoopRun asks.                   *)
LEMMA PromisedQuietness ==
  ASSUME LoopsWired, NestInv, Started, NEW t \in executing, NEW l \in Loops, t.node = EndOf[l]
  PROVE  Rounds!Quiet(l) /\ RoundOf[l] = Len(past[l]) + 1 /\ Len(past[l]) \in Nat /\ scope[l] # None
<1>1. t.node \in Active /\ EndOf[l] \in Inside(l) /\ EndOf[l] # StartOf[l]
  BY QuietGives, SentinelsInside DEF NestInv
<1>2. RoundOf[l] = Len(past[l]) + 1 /\ RoundOf[l] > 0 /\ scope[l] # None
  BY <1>1, LoopRuns
<1>3. Busy \cap Inside(l) = {EndOf[l]}
  <2>1. Active \cap Inside(l) = {EndOf[l]}
    BY <1>1, QuietEnd DEF NestInv, EndIsQuiet
  <2>2. EndOf[l] \in Busy
    BY DEF Busy
  <2>. QED BY <1>1, <2>1, <2>2 DEF Active
<1>4. \A m \in Within(l) \ {l} : RoundOf[m] = 0
  BY <1>1, InnerOver, WithinNested DEF RoundOf
<1>5. Len(past[l]) \in Nat
  BY RoundTyped DEF NestInv, QuietInv
<1>. QED BY <1>2, <1>3, <1>4, <1>5, PromisedQuiet

LEMMA PromisedCallEnds ==
  ASSUME LoopsWired, NestInv, Started, RoundsInv, NEW t \in executing, CallEnds(t)
  PROVE  (\E n \in Nodes : Rounds!End(n)) \/ \E l \in Loops : Rounds!Leave(l)
<1>1. /\ executing' = executing \ {t} /\ t.output # None
      /\ UNCHANGED <<starts, past, mark, misjudged, cancelledFlag>>
  BY DEF CallEnds, history
<1>2. t.node \in Busy /\ t.node \in Nodes /\ Busy' = Busy \ {t.node}
  BY <1>1, QuietGives DEF NestInv, QuietInv, OneCallAtATime, Busy
<1>3. UNCHANGED <<CalledNodes, StoppedLoops>>
  BY <1>1 DEF CalledNodes, StoppedLoops
<1>4. \A l \in Loops : scope'[l] = None <=> scope[l] = None
  BY SettledScopes DEF NestInv
<1>5. CASE SentinelSettles(t) /\ t.node \in Ends
  <2>1. PICK l \in Loops : t.node = EndOf[l]
    BY <1>5 DEF Ends
  <2>2. /\ t.output \in EndAnswers /\ t.output.kind = "done" /\ t.output.route # "loop_continue"
        /\ blockStates' = [blockStates EXCEPT ![t.node] = t.output]
    BY <1>1, <1>5 DEF SentinelSettles, NestInv, QuietInv, AnswersKnown
  <2>3. t.output.route = "loop_exit"
    BY <2>2 DEF EndAnswers, Result
  <2>4. /\ blockStates'[EndOf[l]] = t.output
        /\ \A m \in Loops \ {l} : blockStates'[EndOf[m]] = blockStates[EndOf[m]]
    BY <2>1, <2>2, SentinelsInside, SentinelsApart DEF NestInv, QuietInv, LoopTypeOK, TypeOK
  <2>5. RoundOf'[l] = 0
    BY <1>1, <2>3, <2>4 DEF RoundOf, Exited
  <2>6. \A m \in Loops \ {l} : RoundOf'[m] = RoundOf[m]
    BY <1>1, <1>4, <2>4, RoundOfKept
  <2>7. RoundOf' = [RoundOf EXCEPT ![l] = 0]
    BY <2>5, <2>6, RoundOfSet
  <2>8. Rounds!Quiet(l) /\ RoundOf[l] = Len(past[l]) + 1
    BY <2>1, PromisedQuietness
  <2>9. ASSUME CountOf[l] # None, l \notin StoppedLoops
        PROVE  IF CountOf[l] = 0 THEN CalledNodes \cap (Inside(l) \ {StartOf[l], EndOf[l]}) = {}
               ELSE RoundOf[l] = CountOf[l]
    <3>1. ~cancelledFlag /\ l \notin misjudged
      BY <2>9 DEF StoppedLoops
    <3>2. CASE CountOf[l] = 0
      <4>1. \A n \in Inside(l) \ {StartOf[l], EndOf[l]} : starts[n] = mark[n]
        BY <3>2 DEF RoundsInv, EmptyNotRun
      <4>2. \A n \in Nodes : mark[n] \in Nat
        BY DEF NestInv, QuietInv, LoopTypeOK
      <4>. QED BY <3>2, <4>1, <4>2 DEF CalledNodes
    <3>3. CASE CountOf[l] # 0
      BY <1>1, <2>1, <2>3, <2>8, <2>9, <3>1, <3>3 DEF RoundsInv, Leaving
    <3>. QED BY <3>2, <3>3
  <2>10. Rounds!Leave(l)
    BY <1>2, <1>3, <2>1, <2>7, <2>8, <2>9, PromisedQuiet
  <2>. QED BY <2>10
<1>6. CASE ~(SentinelSettles(t) /\ t.node \in Ends)
  <2>1. \A l \in Loops : blockStates'[EndOf[l]] = blockStates[EndOf[l]]
    BY <1>6, SentinelsInside DEF CallEnds, BlockSettles, SentinelSettles, Ends,
                                 NestInv, QuietInv, LoopTypeOK, TypeOK
  <2>2. RoundOf' = RoundOf
    BY <1>1, <1>4, <2>1, RoundOfKept, RoundOfSame
  <2>. QED BY <1>2, <1>3, <2>2, PromisedActions
<1>. QED BY <1>5, <1>6

LEMMA PromisedGoesBack ==
  ASSUME LoopsWired, NestInv, Started, RoundsInv, IndexBelowCount, NEW t \in executing, GoesBack(t)
  PROVE  \E l \in Loops : Rounds!NextRound(l)
<1>. DEFINE l == SubflowOf[t.node]
<1>0. l \in Loops /\ t.output.route = "loop_continue" /\ t.output # None
  BY BackFromEnd DEF NestInv, GoesBack, SentinelCompletes
<1>1. /\ t.node = EndOf[l] /\ executing' = executing \ {t}
      /\ \A m \in Loops : scope'[m] = IF m = l \/ m \notin Within(l) THEN scope[m] ELSE None
      /\ \A m \in Loops : past'[m] = IF m = l THEN Append(past[l], Round(l))
                                     ELSE IF m \in Within(l) THEN <<>> ELSE past[m]
      /\ \A n \in Nodes : blockStates'[n] = IF n \in Inside(l) THEN None ELSE blockStates[n]
      /\ \A n \in Nodes : mark'[n] = IF n \in Inside(l) THEN starts[n] ELSE mark[n]
      /\ UNCHANGED <<starts, misjudged, cancelledFlag>>
  BY <1>0, BackScopes DEF NestInv
<1>. HIDE DEF l
<1>2. Busy' = Busy \ {EndOf[l]}
  BY <1>1 DEF NestInv, QuietInv, OneCallAtATime, Busy
<1>3. UNCHANGED StoppedLoops
  BY <1>1 DEF StoppedLoops
<1>4. CalledNodes' = CalledNodes \ Inside(l)
  <2>1. \A n \in Nodes : starts[n] \in Nat /\ mark[n] \in Nat
    BY DEF NestInv, QuietInv, LoopTypeOK, TypeOK
  <2>. QED BY <1>1, <2>1 DEF CalledNodes
<1>5. /\ Rounds!Quiet(l) /\ RoundOf[l] = Len(past[l]) + 1 /\ Len(past[l]) \in Nat /\ scope[l] # None
  BY <1>0, <1>1, PromisedQuietness
<1>6. CountOf[l] # None => RoundOf[l] < CountOf[l]
  <2>1. scope[l].iteration = Len(past[l]) + 1
    BY <1>0, <1>1 DEF RoundsInv, GoingOn
  <2>2. CountOf[l] # None => scope[l].iteration = 0 \/ scope[l].iteration < CountOf[l]
    BY <1>0, <1>5 DEF IndexBelowCount
  <2>. QED BY <1>5, <2>1, <2>2
<1>7. RoundOf'[l] = RoundOf[l] + 1
  <2>1. Len(past'[l]) = Len(past[l]) + 1
    BY <1>0, <1>1, RoundTyped DEF NestInv, QuietInv
  <2>2. scope'[l] # None /\ ~Exited(l)'
    BY <1>0, <1>1, <1>5, SentinelsInside DEF Exited
  <2>. QED BY <1>0, <1>5, <2>1, <2>2 DEF RoundOf
<1>8. ASSUME NEW m \in Loops \ {l} PROVE RoundOf'[m] = RoundOf[m]
  <2>1. CASE m \in Within(l)
    <3>1. RoundOf[m] = 0
      BY <1>5, <1>8, <2>1, PromisedQuiet
    <3>. QED BY <1>1, <1>8, <2>1, <3>1 DEF RoundOf
  <2>2. CASE m \notin Within(l)
    <3>1. EndOf[m] \in Nodes /\ EndOf[m] \notin Inside(l)
      BY <1>8, <2>2, SentinelsInside DEF Inside
    <3>2. scope'[m] = scope[m] /\ past'[m] = past[m] /\ blockStates'[EndOf[m]] = blockStates[EndOf[m]]
      BY <1>1, <1>8, <2>2, <3>1
    <3>. QED BY <1>8, <3>2, RoundOfKept
  <2>. QED BY <2>1, <2>2
<1>9. RoundOf' = [RoundOf EXCEPT ![l] = @ + 1]
  <2>1. RoundOf' = [RoundOf EXCEPT ![l] = RoundOf[l] + 1]
    BY <1>0, <1>7, <1>8, RoundOfSet
  <2>. QED BY <2>1
<1>10. Rounds!NextRound(l)
  BY <1>2, <1>3, <1>4, <1>5, <1>6, <1>9, PromisedQuiet
<1>. QED BY <1>0, <1>10

LEMMA PromisedNext ==
  ASSUME LoopsWired, BranchesWired, NestInv, Started, RoundsInv, IndexBelowCount,
         [LoopNext]_allVars
  PROVE  [Rounds!Next]_(Rounds!vars)
<1>1. CASE \/ (WakeUp \/ LeaveLoop \/ AllSettled \/ Ended) /\ UNCHANGED scopeVars
           \/ UNCHANGED allVars
  <2>1. UNCHANGED <<executing, starts, blockStates, scope, past, mark, misjudged, cancelledFlag>>
    BY <1>1 DEF WakeUp, LeaveLoop, AllSettled, Ended, vars, scopeVars, history, allVars
  <2>. QED BY <2>1, PromisedIdle, PromisedVars
<1>2. CASE ProcessQueue /\ UNCHANGED scopeVars
  BY <1>2, PromisedStart DEF Rounds!Next
<1>3. CASE SignalCancelled /\ UNCHANGED scopeVars
  BY <1>3, PromisedCancel DEF Rounds!Next, NestInv, QuietInv
<1>4. ASSUME NEW t \in executing, Completion(t) PROVE Rounds!Next
  BY <1>4, CompletionShape, PromisedCallEnds, PromisedGoesBack DEF NestInv, Rounds!Next
<1>5. ASSUME NEW t \in executing, Returns(t) PROVE [Rounds!Next]_(Rounds!vars)
  <2>1. CASE BlockEnds(t)
    BY <2>1, PromisedBlockEnds, PromisedVars
  <2>2. CASE StartReturns(t)
    BY <2>2, PromisedStartReturns, PromisedVars DEF Rounds!Next
  <2>3. CASE EndReturns(t)
    BY <2>3, PromisedEndReturns DEF Rounds!Next
  <2>. QED BY <1>5, <2>1, <2>2, <2>3 DEF Returns
<1>. QED BY <1>1, <1>2, <1>3, <1>4, <1>5 DEF LoopNext, MainLoop

(* The loops of such a run keep what the documentation promises: the blocks    *)
(* inside run once per iteration, iterations run one after another, a counted  *)
(* loop runs its count unless it is cancelled or its condition cannot be        *)
(* evaluated, and a loop inside is over before the one around it goes on or is *)
(* left.                                                                    *)
THEOREM LoopKeepsPromise == LoopsWired /\ BranchesWired => (LoopSpec => KeepsLoopPromise)
<1>. SUFFICES ASSUME LoopsWired, BranchesWired PROVE LoopSpec => KeepsLoopPromise
  OBVIOUS
<1>. DEFINE J == NestInv /\ Started /\ RoundsInv
<1>1. LoopInit => J
  BY NestInit, InitStarted, InitRounds
<1>2. J /\ IndexBelowCount /\ [LoopNext]_allVars => J'
  BY NextNest, NextStarted, NextRounds
<1>3. LoopInit => Rounds!Init
  BY PromisedInit
<1>4. J /\ IndexBelowCount /\ [LoopNext]_allVars => [Rounds!Next]_(Rounds!vars)
  BY PromisedNext
<1>. HIDE DEF J
<1>. QED BY <1>1, <1>2, <1>3, <1>4, LoopIndexBelowCount, PTL DEF LoopSpec, KeepsLoopPromise, Rounds!Spec

----------------------------------------------------------------------------
(* The results of a loop, round by round.                                   *)

LEMMA ProducedTyped ==
  ASSUME NEW rounds, NEW k \in Nat
  PROVE  /\ Produced(rounds, k) \in Nat
         /\ \A j \in 1..k : rounds[j] # {} => Produced(rounds, j) \in 1..Produced(rounds, k)
<1>. DEFINE P(j) == {i \in 1..j : rounds[i] # {}}
<1>1. \A j \in 0..k : IsFiniteSet(P(j)) /\ Cardinality(P(j)) \in Nat
  <2>. SUFFICES ASSUME NEW j \in 0..k PROVE IsFiniteSet(P(j)) /\ Cardinality(P(j)) \in Nat
    OBVIOUS
  <2>1. IsFiniteSet(1..j) /\ P(j) \in SUBSET (1..j)
    BY FS_Interval
  <2>. QED BY <2>1, FS_Subset, FS_CardinalityType
<1>2. \A j \in 1..k : P(j) \in SUBSET P(k) /\ (rounds[j] # {} => P(j) # {})
  OBVIOUS
<1>3. \A j \in 0..k : Produced(rounds, j) = Cardinality(P(j))
  BY DEF Produced
<1>. HIDE DEF P
<1>4. ASSUME NEW j \in 1..k, rounds[j] # {}
      PROVE  Cardinality(P(j)) \in 1..Cardinality(P(k))
  <2>1. P(j) \in SUBSET P(k) /\ P(j) # {}
    BY <1>2, <1>4
  <2>2. /\ IsFiniteSet(P(j)) /\ Cardinality(P(j)) \in Nat
        /\ IsFiniteSet(P(k)) /\ Cardinality(P(k)) \in Nat
    BY <1>1
  <2>3. Cardinality(P(j)) # 0
    BY <2>1, <2>2, FS_EmptySet
  <2>4. Cardinality(P(j)) <= Cardinality(P(k))
    BY <2>1, <2>2, FS_Subset
  <2>. QED BY <2>2, <2>3, <2>4
<1>. QED BY <1>1, <1>3, <1>4

(* One more round adds its outputs, if it has any. *)
LEMMA CompleteAppend ==
  ASSUME NEW S, NEW results \in Seq(S), NEW rounds \in Seq(S), Complete(results, rounds),
         NEW r \in S
  PROVE  Complete(IF r = {} THEN results ELSE Append(results, r), Append(rounds, r))
<1>. DEFINE N == Len(rounds)
            more == Append(rounds, r)
            P(s, j) == {i \in 1..j : s[i] # {}}
<1>1. /\ N \in Nat /\ Len(results) \in Nat /\ Len(more) = N + 1 /\ more[N + 1] = r
      /\ \A i \in 1..N : more[i] = rounds[i]
  BY AppendProperties
<1>. HIDE DEF more, N
<1>2. ASSUME NEW j \in 0..N PROVE Produced(more, j) = Produced(rounds, j)
  <2>1. P(more, j) = P(rounds, j)
    BY <1>1, <1>2
  <2>. QED BY <2>1 DEF Produced
<1>3. Produced(more, N + 1) = IF r = {} THEN Produced(rounds, N) ELSE Produced(rounds, N) + 1
  <2>1. P(more, N + 1) = IF r = {} THEN P(rounds, N) ELSE P(rounds, N) \cup {N + 1}
    BY <1>1
  <2>2. IsFiniteSet(P(rounds, N)) /\ N + 1 \notin P(rounds, N)
    <3>1. IsFiniteSet(1..N)
      BY <1>1, FS_Interval
    <3>2. P(rounds, N) \in SUBSET (1..N)
      OBVIOUS
    <3>3. N + 1 \notin P(rounds, N)
      BY <1>1
    <3>. QED BY <3>1, <3>2, <3>3, FS_Subset
  <2>. QED BY <2>1, <2>2, FS_AddElement DEF Produced
<1>4. /\ Len(results) = Produced(rounds, N)
      /\ \A k \in 1..N : rounds[k] # {} =>
           results[Produced(rounds, k)] = rounds[k] /\ Produced(rounds, k) \in 1..Len(results)
  BY <1>1, ProducedTyped DEF Complete, N
<1>5. CASE r = {}
  <2>1. Len(results) = Produced(more, N + 1)
    BY <1>3, <1>4, <1>5
  <2>2. ASSUME NEW k \in 1..(N + 1), more[k] # {} PROVE results[Produced(more, k)] = more[k]
    <3>1. k \in 1..N
      BY <1>1, <1>5, <2>2
    <3>. QED BY <1>1, <1>2, <1>4, <2>2, <3>1
  <2>. QED BY <1>1, <1>5, <2>1, <2>2 DEF Complete, more
<1>6. CASE r # {}
  <2>. DEFINE res == Append(results, r)
  <2>1. /\ Len(res) = Len(results) + 1 /\ res[Len(results) + 1] = r
        /\ \A i \in 1..Len(results) : res[i] = results[i]
    BY AppendProperties
  <2>. HIDE DEF res
  <2>2. Len(res) = Produced(more, N + 1)
    BY <1>3, <1>4, <1>6, <2>1
  <2>3. ASSUME NEW k \in 1..(N + 1), more[k] # {} PROVE res[Produced(more, k)] = more[k]
    <3>1. CASE k = N + 1
      BY <1>1, <1>3, <1>4, <1>6, <2>1, <3>1
    <3>2. CASE k \in 1..N
      BY <1>1, <1>2, <1>4, <2>1, <2>3, <3>2
    <3>. QED BY <1>1, <3>1, <3>2
  <2>. QED BY <1>1, <1>6, <2>2, <2>3 DEF Complete, more, res
<1>. QED BY <1>5, <1>6

LEMMA CompleteEmpty == Complete(<<>>, <<>>)
<1>1. Len(<<>>) = 0 /\ {j \in 1..0 : <<>>[j] # {}} = {}
  OBVIOUS
<1>. QED BY <1>1, FS_EmptySet DEF Complete, Produced

(* Until its end sentinel has answered, a loop is undecided. *)
Undecided(l) ==
  /\ scope[l] # None
  /\ \/ starts[EndOf[l]] = mark[EndOf[l]]
     \/ \E t \in executing : t.node = EndOf[l] /\ t.output = None

Answers(l, route) ==
  \E t \in executing : t.node = EndOf[l] /\ t.output # None /\ t.output.route = route

(* Till then it holds the results of the rounds that are over, and of this one *)
(* what was called, unless that is still to come in.                         *)
Collects(l) ==
  Undecided(l) =>
    /\ Complete(scope[l].results, past[l])
    /\ \A n \in Members(l) : starts[n] > mark[n] => <<n, starts[n]>> \in scope[l].outputs \/ Anchor(n)

(* An output is that of the last call. *)
HoldsLast(l) == scope[l] # None => \A c \in scope[l].outputs : c[2] = starts[c[1]]

(* Having answered, it holds those of this round too. *)
TakesAll(l) ==
  Answers(l, "loop_continue") =>
    Complete(scope[l].results, Append(past[l], Round(l))) /\ ~scope[l].skipped

LeavesWithAll(l) ==
  Exited(l) \/ Answers(l, "loop_exit") =>
    cancelledFlag \/ Complete(aggregated[l], Append(past[l], Round(l)))

(* A loop is skipped when its start sentinel says so; nothing inside then runs. *)
PassedBy(l) ==
  Undecided(l) /\ scope[l].skipped =>
    /\ \A n \in Inside(l) \ {StartOf[l], EndOf[l]} : n \notin Active /\ starts[n] = mark[n]
    /\ \A t \in executing : t.node = StartOf[l] =>
         t.output # None /\ (t.output.kind = "done" => t.output.route = "loop_exit")

NotYetSkipped(l) ==
  /\ scope[l] # None
  /\ \/ starts[StartOf[l]] = mark[StartOf[l]]
     \/ \E t \in executing : t.node = StartOf[l] /\ t.output = None
  => ~scope[l].skipped

(* A loop that was left is over. *)
IsOver(l) ==
  blockStates[EndOf[l]] # None =>
    scope[l] # None /\ \A n \in Inside(l) : IsNodeReady(n) /\ n \notin Active

Accounts(l) ==
  /\ Collects(l) /\ HoldsLast(l) /\ TakesAll(l) /\ LeavesWithAll(l)
  /\ PassedBy(l) /\ NotYetSkipped(l) /\ IsOver(l)

ResultsInv == \A l \in Loops : Accounts(l)

LEMMA MembersInside ==
  ASSUME LoopsWired, NEW l \in Loops, NEW n \in Members(l)
  PROVE  n \in Nodes /\ n \in Inside(l) \ {StartOf[l], EndOf[l]}
<1>1. CASE n \in Nodes \ Sentinels /\ SubflowOf[n] = l
  BY <1>1, WithinSelf, LoopAssumption DEF Inside
<1>2. ASSUME NEW m \in Loops, ParentOf[m] = l, n = EndOf[m] PROVE n \in Nodes /\ n \in Inside(l) \ {StartOf[l], EndOf[l]}
  <2>1. m \in Within(l) /\ m # l
    BY <1>2, WithinSelf, WithinDown DEF LoopsWired, WiredByConstruction
  <2>. QED BY <1>2, <2>1, SentinelsInside, SentinelsApart, WithinNested
<1>. QED BY <1>1, <1>2 DEF Members

LEMMA RoundKept ==
  ASSUME NEW l \in Loops, \A n \in Members(l) : starts'[n] = starts[n] /\ mark'[n] = mark[n]
  PROVE  Round(l)' = Round(l)
BY DEF Round

(* What the end sentinel finds when it is called. *)
LEMMA EndFindsReady ==
  ASSUME LoopsWired, QuietInv, NEW l \in Loops, EndOf[l] \in Active, NEW n \in Inside(l)
  PROVE  IsNodeReady(n) /\ (n # EndOf[l] => n \notin Active /\ ~Live(n))
<1>1. IsNodeReady(EndOf[l])
  BY QuietGives
<1>2. n # EndOf[l] => ~Live(n)
  BY <1>1, LiveReachesEnd DEF QuietInv
<1>. QED BY <1>1, <1>2 DEF QuietInv, OpenEdgesLive, Open, Inside

(* What the start sentinel finds. *)
LEMMA StartFindsWaiting ==
  ASSUME LoopsWired, QuietInv, NEW l \in Loops, StartOf[l] \in Active,
         NEW n \in Inside(l), n # StartOf[l]
  PROVE  n \notin Active /\ starts[n] = mark[n] /\ blockStates[n] = None
<1>1. ~IsNodeReady(n)
  BY ActiveLive, LiveReachesBody DEF QuietInv
<1>. QED BY <1>1, QuietGives DEF QuietInv, CalledInRound, Inside

(* Whatever does not concern the loop leaves its account as it is.            *)
LEMMA AccountKept ==
  ASSUME NEW l \in Loops, Accounts(l),
         scope'[l] = scope[l], past'[l] = past[l], aggregated'[l] = aggregated[l],
         cancelledFlag => cancelledFlag', Active' = Active, UNCHANGED <<edgeVars, starts, mark>>,
         blockStates'[EndOf[l]] = blockStates[EndOf[l]],
         \A v \in executing' : v.node \in {StartOf[l], EndOf[l]} => v \in executing
  PROVE  Accounts(l)'
<1>1. Undecided(l)' => Undecided(l)
  BY DEF Undecided
<1>2. \A r : Answers(l, r)' => Answers(l, r)
  BY DEF Answers
<1>3. Round(l)' = Round(l)
  BY RoundKept
<1>4. \A n : (Anchor(n) => Anchor(n)') /\ (IsNodeReady(n) => IsNodeReady(n)')
  BY DEF Anchor, Live, IsNodeReady, NoActiveIncoming, edgeVars
<1>5. Collects(l)' /\ HoldsLast(l)'
  BY <1>1, <1>4 DEF Accounts, Collects, HoldsLast
<1>6. TakesAll(l)' /\ LeavesWithAll(l)'
  BY <1>2, <1>3 DEF Accounts, TakesAll, LeavesWithAll, Exited
<1>7. PassedBy(l)' /\ NotYetSkipped(l)'
  BY <1>1 DEF Accounts, PassedBy, NotYetSkipped
<1>8. IsOver(l)'
  BY <1>4 DEF Accounts, IsOver
<1>. QED BY <1>5, <1>6, <1>7, <1>8 DEF Accounts

LEMMA AnswersActive ==
  ASSUME NEW l, NEW r, Answers(l, r)
  PROVE  EndOf[l] \in Active
BY DEF Answers, Active, Busy

LEMMA ResultsInit == LoopsWired /\ LoopInit => ResultsInv
<1>. SUFFICES ASSUME LoopsWired, LoopInit, NEW l \in Loops PROVE Accounts(l)
  BY DEF ResultsInv
<1>1. scope[l] = None /\ executing = {} /\ blockStates[EndOf[l]] = None
  BY SentinelsInside DEF LoopInit, Init
<1>. QED BY <1>1 DEF Accounts, Collects, HoldsLast, TakesAll, LeavesWithAll, PassedBy,
                     NotYetSkipped, IsOver, Undecided, Answers, Exited

LEMMA ResultsProcessQueue ==
  ASSUME LoopsWired, NestInv, ResultsInv, ProcessQueue, UNCHANGED scopeVars
  PROVE  ResultsInv'
<1>. SUFFICES ASSUME NEW l \in Loops PROVE Accounts(l)'
  BY DEF ResultsInv
<1>1. /\ Active' = Active
      /\ \A t \in executing' : t \in executing \/ (t.node \in readyQueue /\ t.output = None)
  BY QueueActive
<1>2. UNCHANGED <<edgeVars, blockStates, scope, past, mark, aggregated, cancelledFlag>>
  BY DEF ProcessQueue, scopeVars, history
<1>3. \A n \in Nodes : /\ n \in readyQueue => starts[n] = mark[n] /\ n \in Active
                       /\ n \notin readyQueue => starts'[n] = starts[n]
  BY DEF ProcessQueue, NestInv, QuietInv, CalledInRound, Active
<1>4. Accounts(l) /\ StartOf[l] \in Nodes /\ EndOf[l] \in Nodes
  BY SentinelsInside DEF ResultsInv
<1>5. Undecided(l)' => Undecided(l)
  BY <1>1, <1>2, <1>3, <1>4 DEF Undecided
<1>6. \A r : Answers(l, r)' => Answers(l, r)
  BY <1>1 DEF Answers
<1>7. \A n : (Anchor(n) => Anchor(n)') /\ (IsNodeReady(n) => IsNodeReady(n)')
  BY <1>2 DEF Anchor, Live, IsNodeReady, NoActiveIncoming, edgeVars
<1>8. Collects(l)'
  <2>1. ASSUME Undecided(l), NEW n \in Members(l), starts'[n] > mark[n]
        PROVE  <<n, starts'[n]>> \in scope[l].outputs \/ Anchor(n)'
    <3>1. n \in Nodes
      BY MembersInside
    <3>2. CASE n \in readyQueue
      BY <1>3, <1>7, <3>1, <3>2, ActiveAnchor DEF NestInv
    <3>3. CASE n \notin readyQueue
      BY <1>3, <1>4, <1>7, <2>1, <3>1, <3>3 DEF Accounts, Collects
    <3>. QED BY <3>2, <3>3
  <2>. QED BY <1>2, <1>4, <1>5, <2>1 DEF Accounts, Collects
<1>9. HoldsLast(l)'
  <2>. SUFFICES ASSUME scope[l] # None, NEW c \in scope[l].outputs PROVE c[2] = starts'[c[1]]
    BY <1>2 DEF HoldsLast
  <2>1. c[1] \in Nodes /\ blockStates[c[1]] # None
    BY MembersInside DEF NestInv, OutputsNest
  <2>2. c[1] \notin readyQueue
    BY <2>1 DEF NestInv, QuietInv, CalledInRound
  <2>. QED BY <1>3, <1>4, <2>1, <2>2 DEF Accounts, HoldsLast
<1>10. TakesAll(l)' /\ LeavesWithAll(l)'
  <2>1. ASSUME Exited(l) \/ EndOf[l] \in Active PROVE Round(l)' = Round(l)
    <3>1. \A n \in Members(l) : n \in Nodes /\ n \notin Active
      BY <1>4, <2>1, MembersInside, EndFindsReady DEF Accounts, IsOver, Exited, NestInv
    <3>. QED BY <1>2, <1>3, <3>1, RoundKept DEF Active
  <2>2. \A r : Answers(l, r) => EndOf[l] \in Active
    BY AnswersActive
  <2>3. Exited(l)' => Exited(l)
    BY <1>2 DEF Exited
  <2>. QED BY <1>2, <1>4, <1>6, <2>1, <2>2, <2>3 DEF Accounts, TakesAll, LeavesWithAll
<1>11. PassedBy(l)'
  <2>. SUFFICES ASSUME Undecided(l), scope[l].skipped
                PROVE  /\ \A n \in Inside(l) \ {StartOf[l], EndOf[l]} :
                            n \notin Active /\ starts'[n] = mark[n]
                       /\ \A t \in executing' : t.node = StartOf[l] =>
                            t.output # None /\ (t.output.kind = "done" => t.output.route = "loop_exit")
    BY <1>1, <1>2, <1>5 DEF PassedBy
  <2>1. ASSUME NEW n \in Inside(l) \ {StartOf[l], EndOf[l]}
        PROVE  n \notin Active /\ starts'[n] = mark[n]
    <3>1. n \in Nodes /\ n \notin Active /\ starts[n] = mark[n]
      BY <1>4 DEF Accounts, PassedBy, Inside
    <3>. QED BY <1>3, <3>1 DEF Active
  <2>2. StartOf[l] \notin readyQueue
    BY <1>3, <1>4 DEF Accounts, NotYetSkipped, Undecided
  <2>. QED BY <1>1, <1>4, <2>1, <2>2 DEF Accounts, PassedBy
<1>12. NotYetSkipped(l)'
  BY <1>1, <1>2, <1>3, <1>4 DEF Accounts, NotYetSkipped
<1>13. IsOver(l)'
  BY <1>1, <1>2, <1>4, <1>7 DEF Accounts, IsOver
<1>. QED BY <1>8, <1>9, <1>10, <1>11, <1>12, <1>13 DEF Accounts

LEMMA ResultsBlockEnds ==
  ASSUME LoopsWired, NestInv, ResultsInv, NEW t \in executing, BlockEnds(t)
  PROVE  ResultsInv'
<1>. SUFFICES ASSUME NEW l \in Loops PROVE Accounts(l)'
  BY DEF ResultsInv
<1>1. /\ t.node \notin Sentinels /\ t.node \in Nodes
      /\ UNCHANGED <<edgeVars, readyQueue, starts, cancelledFlag, scope, past, mark, aggregated>>
  BY BlockShape DEF NestInv, scopeVars, history
<1>2. PICK out : Returned(t, out) /\ blockStates' = [blockStates EXCEPT ![t.node] = out]
  BY BlockShape DEF NestInv
<1>3. /\ Active' = Active
      /\ \A v \in executing' : v \in executing \/ v.node \notin Sentinels
  BY <1>1, <1>2, ReturnedActive DEF NestInv, QuietInv
<1>4. StartOf[l] \in Sentinels /\ EndOf[l] \in Sentinels /\ EndOf[l] \in Nodes
  BY LoopAssumption
<1>5. blockStates'[EndOf[l]] = blockStates[EndOf[l]]
  BY <1>1, <1>2, <1>4 DEF NestInv, QuietInv, LoopTypeOK, TypeOK
<1>6. Accounts(l)
  BY DEF ResultsInv
<1>. QED BY <1>1, <1>3, <1>4, <1>5, <1>6, AccountKept

LEMMA ResultsStartReturns ==
  ASSUME LoopsWired, NestInv, ResultsInv, NEW t \in executing, StartReturns(t)
  PROVE  ResultsInv'
<1>. DEFINE l == SubflowOf[t.node]
<1>0. LoopTypeOK /\ t.node \in Active
  BY QuietGives DEF NestInv, QuietInv
<1>1. /\ l \in Loops /\ t.node = StartOf[l] /\ t.output = None
      /\ UNCHANGED <<edgeVars, readyQueue, starts, blockStates, mark, cancelledFlag, aggregated>>
      /\ past' = IF scope[l] = None THEN [past EXCEPT ![l] = <<>>] ELSE past
  BY <1>0, StartShape
<1>2. PICK q \in Scope, out \in StartAnswers : StartStep(t, l, q, out)
  BY <1>0, StartShape
<1>. HIDE DEF l
<1>3. /\ Active' = Active
      /\ \A v \in executing' : v \in executing \ {t} \/ (v.node = t.node /\ v.output = out)
  BY <1>0, <1>1, <1>2, ReturnedActive DEF StartStep
<1>4. \A v \in executing \ {t} : v.node # t.node
  BY DEF NestInv, QuietInv, OneCallAtATime
<1>5. ASSUME NEW m \in Loops \ {l} PROVE Accounts(m)'
  <2>1. Accounts(m)
    BY DEF ResultsInv
  <2>2. scope'[m] = scope[m] /\ past'[m] = past[m]
    BY <1>0, <1>1, <1>2 DEF StartStep, LoopTypeOK
  <2>3. \A v \in executing' : v.node \in {StartOf[m], EndOf[m]} => v \in executing
    BY <1>1, <1>3, SentinelsApart, SentinelsInside
  <2>. QED BY <1>1, <1>3, <2>1, <2>2, <2>3, AccountKept
<1>6. /\ scope'[l] = q /\ q # None
      /\ q.results = Scoped(l).results /\ q.outputs = Scoped(l).outputs
      /\ q.skipped => Scoped(l).skipped \/ out.route = "loop_exit"
      /\ past'[l] = IF scope[l] = None THEN <<>> ELSE past[l]
  BY <1>0, <1>1, <1>2, ScopeAssumption DEF StartStep, LoopTypeOK
<1>7. \A n \in Inside(l) : n # StartOf[l] =>
        n \notin Active /\ starts[n] = mark[n] /\ blockStates[n] = None
  BY <1>0, <1>1, StartFindsWaiting DEF NestInv
<1>8. EndOf[l] \notin Active /\ blockStates[EndOf[l]] = None
  BY <1>1, <1>7, SentinelsInside
<1>9. Accounts(l)
  BY <1>1 DEF ResultsInv
<1>10. ~Scoped(l).skipped /\ Complete(q.results, past'[l])
  <2>1. CASE scope[l] = None
    BY <1>6, <2>1, CompleteEmpty DEF Scoped, NewScope
  <2>2. CASE scope[l] # None
    <3>1. starts[EndOf[l]] = mark[EndOf[l]]
      BY <1>1, <1>7, SentinelsInside
    <3>. QED BY <1>1, <1>6, <1>9, <2>2, <3>1 DEF Accounts, NotYetSkipped, Collects, Undecided, Scoped
  <2>. QED BY <2>1, <2>2
<1>11. Collects(l)'
  <2>1. \A n \in Members(l) : ~(starts[n] > mark[n])
    <3>. SUFFICES ASSUME NEW n \in Members(l) PROVE ~(starts[n] > mark[n])
      OBVIOUS
    <3>1. n \in Nodes /\ starts[n] = mark[n]
      BY <1>1, <1>7, MembersInside
    <3>. QED BY <1>0, <3>1 DEF LoopTypeOK, TypeOK
  <2>. QED BY <1>1, <1>6, <1>10, <2>1 DEF Collects
<1>12. HoldsLast(l)'
  <2>1. \A c \in q.outputs : scope[l] # None /\ c \in scope[l].outputs
    BY <1>6 DEF Scoped, NewScope
  <2>. QED BY <1>1, <1>6, <1>9, <2>1 DEF Accounts, HoldsLast
<1>13. TakesAll(l)' /\ LeavesWithAll(l)' /\ IsOver(l)'
  <2>1. ~Exited(l)' /\ blockStates'[EndOf[l]] = None
    BY <1>1, <1>8 DEF Exited
  <2>2. \A r : ~Answers(l, r)'
    <3>1. \A v \in executing' : v.node # EndOf[l]
      BY <1>3, <1>8 DEF Active, Busy
    <3>. QED BY <3>1 DEF Answers
  <2>. QED BY <2>1, <2>2 DEF TakesAll, LeavesWithAll, IsOver
<1>14. out # None
  <2>1. StartAnswers \subseteq BlockOutput
    BY DEF StartAnswers, Result, BlockOutput, ControlHandles, LoopRoutes
  <2>. QED BY <2>1, EdgesAssumption
<1>15. PassedBy(l)'
  <2>1. \A v \in executing' : v.node = StartOf[l] => v.output = out
    BY <1>1, <1>3, <1>4
  <2>. QED BY <1>1, <1>3, <1>6, <1>7, <1>10, <1>14, <2>1 DEF PassedBy
<1>16. NotYetSkipped(l)'
  <2>1. starts[StartOf[l]] # mark[StartOf[l]]
    <3>1. /\ mark[StartOf[l]] < starts[StartOf[l]]
          /\ starts[StartOf[l]] \in Nat /\ mark[StartOf[l]] \in Nat
      BY <1>0, <1>1, SentinelsInside DEF NestInv, QuietInv, CalledInRound, LoopTypeOK, TypeOK
    <3>. QED BY <3>1
  <2>. QED BY <1>1, <1>3, <1>4, <1>14, <2>1 DEF NotYetSkipped
<1>17. Accounts(l)'
  BY <1>11, <1>12, <1>13, <1>15, <1>16 DEF Accounts
<1>. QED BY <1>5, <1>17 DEF ResultsInv

(* When its end sentinel is called, every output of the round is in.          *)
LEMMA OutputsAreIn ==
  ASSUME LoopsWired, NestInv, NEW l \in Loops, Accounts(l), Undecided(l), EndOf[l] \in Active
  PROVE  scope[l].outputs = Round(l)
<1>1. ASSUME NEW c \in scope[l].outputs PROVE c \in Round(l)
  <2>1. c[1] \in Members(l) /\ mark[c[1]] < c[2] /\ c[2] = starts[c[1]]
    BY DEF Undecided, NestInv, OutputsNest, Accounts, HoldsLast
  <2>2. c = <<c[1], c[2]>>
    <3>1. scope[l] \in Scope
      BY DEF Undecided, NestInv, QuietInv, LoopTypeOK
    <3>. QED BY <3>1 DEF Scope, Call
  <2>3. starts[c[1]] > mark[c[1]]
    BY <2>1
  <2>. QED BY <2>1, <2>2, <2>3 DEF Round
<1>2. ASSUME NEW n \in Members(l), starts[n] > mark[n] PROVE <<n, starts[n]>> \in scope[l].outputs
  <2>1. ~Anchor(n)
    BY MembersInside, EndFindsReady DEF Anchor, NestInv
  <2>. QED BY <1>2, <2>1 DEF Accounts, Collects
<1>3. ASSUME NEW c \in Round(l) PROVE c \in scope[l].outputs
  BY <1>2 DEF Round
<1>. QED BY <1>1, <1>3

LEMMA ResultsEndReturns ==
  ASSUME LoopsWired, NestInv, ResultsInv, NEW t \in executing, EndReturns(t)
  PROVE  ResultsInv'
<1>. DEFINE l == SubflowOf[t.node]
<1>0. LoopTypeOK /\ t.node \in Active
  BY QuietGives DEF NestInv, QuietInv
<1>1. /\ l \in Loops /\ t.node = EndOf[l] /\ t.output = None
      /\ UNCHANGED <<edgeVars, readyQueue, starts, blockStates, mark, cancelledFlag>>
      /\ past' = IF scope[l] = None THEN [past EXCEPT ![l] = <<>>] ELSE past
      /\ \A m \in Loops \ {l} : aggregated'[m] = aggregated[m]
  BY <1>0, EndShape
<1>2. PICK q \in Scope, out \in EndAnswers : EndStep(t, l, q, out)
  BY <1>0, EndShape
<1>. HIDE DEF l
<1>3. scope[l] # None /\ past' = past
  BY <1>0, <1>1, SentinelsInside DEF NestInv, Entered
<1>4. /\ scope'[l] = q /\ q # None /\ \A m \in Loops \ {l} : scope'[m] = scope[m]
      /\ Scoped(l) = scope[l] /\ Returned(t, out)
      /\ q.skipped => scope[l].skipped
      /\ q.outputs \in {scope[l].outputs, {}}
      /\ out.route = "loop_continue" => q.results = Collected(scope[l]) /\ ~scope[l].skipped
      /\ out.route = "loop_exit" /\ ~cancelledFlag =>
           aggregated'[l] = IF scope[l].skipped THEN scope[l].results ELSE Collected(scope[l])
  BY <1>0, <1>1, <1>2, <1>3, ScopeAssumption DEF EndStep, Scoped, LoopTypeOK
<1>5. /\ Active' = Active
      /\ \A v \in executing' : v \in executing \ {t} \/ (v.node = t.node /\ v.output = out)
  BY <1>0, <1>1, <1>4, ReturnedActive
<1>6. \A v \in executing \ {t} : v.node # EndOf[l]
  BY <1>1 DEF NestInv, QuietInv, OneCallAtATime
<1>7. ASSUME NEW m \in Loops \ {l} PROVE Accounts(m)'
  <2>1. Accounts(m)
    BY DEF ResultsInv
  <2>2. \A v \in executing' : v.node \in {StartOf[m], EndOf[m]} => v \in executing
    BY <1>1, <1>5, SentinelsApart, SentinelsInside
  <2>. QED BY <1>1, <1>3, <1>4, <1>5, <2>1, <2>2, AccountKept
<1>8. Accounts(l) /\ Undecided(l)
  BY <1>1, <1>3 DEF ResultsInv, Undecided
<1>9. Round(l)' = Round(l) /\ scope[l].outputs = Round(l)
  BY <1>0, <1>1, <1>8, RoundKept, OutputsAreIn
<1>10. Complete(scope[l].results, past[l])
  BY <1>8 DEF Accounts, Collects
<1>11. /\ scope[l].results \in Seq(SUBSET Call) /\ past[l] \in Seq(SUBSET Call)
       /\ Round(l) \in SUBSET Call
  BY <1>0, <1>1, <1>3, LoopRoundTyped DEF LoopTypeOK, Scope
<1>12. Complete(Collected(scope[l]), Append(past[l], Round(l)))
  BY <1>9, <1>10, <1>11, CompleteAppend DEF Collected
<1>13. scope[l].skipped => Complete(scope[l].results, Append(past[l], Round(l)))
  <2>. SUFFICES ASSUME scope[l].skipped PROVE Complete(scope[l].results, Append(past[l], Round(l)))
    OBVIOUS
  <2>1. ASSUME NEW n \in Members(l) PROVE ~(starts[n] > mark[n])
    <3>1. n \in Nodes /\ starts[n] = mark[n]
      BY <1>1, <1>8, MembersInside DEF Accounts, PassedBy
    <3>. QED BY <1>0, <3>1 DEF LoopTypeOK, TypeOK
  <2>2. Round(l) = {}
    BY <2>1 DEF Round
  <2>. QED BY <1>10, <1>11, <2>2, CompleteAppend
<1>14. out # None
  BY EndAnswered
<1>15. ~Undecided(l)'
  <2>1. starts[EndOf[l]] # mark[EndOf[l]]
    <3>1. /\ mark[EndOf[l]] < starts[EndOf[l]]
          /\ starts[EndOf[l]] \in Nat /\ mark[EndOf[l]] \in Nat
      BY <1>0, <1>1, SentinelsInside DEF NestInv, QuietInv, CalledInRound, LoopTypeOK, TypeOK
    <3>. QED BY <3>1
  <2>2. \A v \in executing' : v.node = EndOf[l] => v.output # None
    BY <1>5, <1>6, <1>14
  <2>. QED BY <1>1, <2>1, <2>2 DEF Undecided
<1>16. Collects(l)' /\ PassedBy(l)'
  BY <1>15 DEF Collects, PassedBy
<1>17. HoldsLast(l)'
  BY <1>1, <1>3, <1>4, <1>8 DEF Accounts, HoldsLast
<1>18. \A r : Answers(l, r)' => out.route = r
  BY <1>5, <1>6 DEF Answers
<1>19. TakesAll(l)'
  BY <1>3, <1>4, <1>9, <1>12, <1>18 DEF TakesAll
<1>20. blockStates[EndOf[l]] = None
  BY <1>1, LoopAssumption DEF NestInv, QuietInv, CalledInRound
<1>21. LeavesWithAll(l)' /\ IsOver(l)'
  BY <1>1, <1>3, <1>4, <1>9, <1>12, <1>13, <1>18, <1>20 DEF LeavesWithAll, IsOver, Exited
<1>22. NotYetSkipped(l)'
  <2>1. \A v \in executing' : v.node = StartOf[l] => v \in executing
    BY <1>1, <1>5, SentinelsInside
  <2>. QED BY <1>1, <1>3, <1>4, <1>8, <2>1 DEF Accounts, NotYetSkipped
<1>23. Accounts(l)'
  BY <1>16, <1>17, <1>19, <1>21, <1>22 DEF Accounts
<1>. QED BY <1>7, <1>23 DEF ResultsInv

(* A settling call stores its output in the loop it is a member of. *)
LEMMA SettledOutputs ==
  ASSUME LoopsWired, QuietInv, NEW t \in executing, CallEnds(t), NEW l \in Loops, scope[l] # None
  PROVE  /\ scope'[l] # None
         /\ scope'[l].results = scope[l].results /\ scope'[l].skipped = scope[l].skipped
         /\ \A c \in scope[l].outputs : c[1] # t.node => c \in scope'[l].outputs
         /\ \/ UNCHANGED <<edgeVars, scope>>
            \/ t.node \in Members(l) => <<t.node, t.nth>> \in scope'[l].outputs
<1>1. LoopTypeOK /\ <<t.node, t.nth>> \in Call /\ t.node \in Nodes
  BY TasksTyped DEF QuietInv, LoopTypeOK, Call
<1>2. ASSUME NEW p, Store(p, t.node, <<t.node, t.nth>>), t.node \in Members(l) => l = p
      PROVE  /\ scope'[l] # None
             /\ scope'[l].results = scope[l].results /\ scope'[l].skipped = scope[l].skipped
             /\ \A c \in scope[l].outputs : c[1] # t.node => c \in scope'[l].outputs
             /\ t.node \in Members(l) => <<t.node, t.nth>> \in scope'[l].outputs
  BY <1>1, <1>2, StoreKeeps
<1>3. CASE BlockSettles(t)
  <2>1. Store(SubflowOf[t.node], t.node, <<t.node, t.nth>>) /\ t.node \notin Sentinels
    BY <1>3 DEF BlockSettles
  <2>2. t.node \in Members(l) => l = SubflowOf[t.node]
    BY <2>1, LoopAssumption DEF Members
  <2>. QED BY <1>2, <2>1, <2>2
<1>4. CASE SentinelSettles(t) /\ t.node \in Ends
  <2>1. Store(ParentOf[SubflowOf[t.node]], t.node, <<t.node, t.nth>>) /\ t.node \in Sentinels
    BY <1>4 DEF SentinelSettles
  <2>2. t.node \in Members(l) => l = ParentOf[SubflowOf[t.node]]
    BY <2>1, SentinelsInside DEF Members
  <2>. QED BY <1>2, <2>1, <2>2
<1>5. CASE SentinelSettles(t) /\ t.node \notin Ends
  <2>1. UNCHANGED scope /\ t.node \in Sentinels
    BY <1>5 DEF SentinelSettles
  <2>2. t.node \notin Members(l)
    BY <1>5, <2>1, SentinelsInside DEF Members
  <2>. QED BY <2>1, <2>2
<1>6. CASE UNCHANGED <<edgeVars, scope>>
  BY <1>6
<1>. QED BY <1>3, <1>4, <1>5, <1>6 DEF CallEnds

LEMMA ResultsCallEnds ==
  ASSUME LoopsWired, NestInv, ResultsInv, NEW t \in executing, CallEnds(t), UNCHANGED aggregated
  PROVE  ResultsInv'
<1>. SUFFICES ASSUME NEW l \in Loops PROVE Accounts(l)'
  BY DEF ResultsInv
<1>0. LoopTypeOK /\ t.node \in Active /\ t.node \in Nodes /\ t.output # None
  BY QuietGives DEF NestInv, QuietInv, CallEnds
<1>1. executing' = executing \ {t} /\ UNCHANGED <<starts, past, mark, cancelledFlag>>
  BY DEF CallEnds, history
<1>2. Accounts(l)
  BY DEF ResultsInv
<1>3. scope'[l] = None <=> scope[l] = None
  BY SettledScopes DEF NestInv
<1>4. scope[l] # None =>
        /\ scope'[l].results = scope[l].results /\ scope'[l].skipped = scope[l].skipped
        /\ \A c \in scope[l].outputs : c[1] # t.node => c \in scope'[l].outputs
        /\ \/ UNCHANGED <<edgeVars, scope>>
           \/ t.node \in Members(l) => <<t.node, t.nth>> \in scope'[l].outputs
        /\ scope'[l].outputs \subseteq scope[l].outputs \cup {<<t.node, t.nth>>}
  BY SettledOutputs, SettledScopes DEF NestInv
<1>5. Undecided(l)' => Undecided(l)
  BY <1>1, <1>3 DEF Undecided
<1>6. \A r : Answers(l, r)' => Answers(l, r)
  BY <1>1 DEF Answers
<1>7. Round(l)' = Round(l)
  BY <1>1, RoundKept
<1>8. t.nth = starts[t.node]
  BY DEF NestInv, QuietInv, CalledInRound
<1>9. ASSUME NEW n \in Nodes, n # t.node, Anchor(n) PROVE Anchor(n)'
  BY <1>9, AnchorKept, AnchorRouted DEF CallEnds, BlockSettles, SentinelSettles, Moves, NestInv, edgeVars
<1>10. Collects(l)'
  <2>. SUFFICES ASSUME Undecided(l)
                PROVE  /\ Complete(scope'[l].results, past[l])
                       /\ \A n \in Members(l) : starts[n] > mark[n] =>
                            <<n, starts[n]>> \in scope'[l].outputs \/ Anchor(n)'
    BY <1>1, <1>5 DEF Collects
  <2>1. scope[l] # None
    BY DEF Undecided
  <2>2. ASSUME NEW n \in Members(l), starts[n] > mark[n]
        PROVE  <<n, starts[n]>> \in scope'[l].outputs \/ Anchor(n)'
    <3>1. n \in Nodes /\ (<<n, starts[n]>> \in scope[l].outputs \/ Anchor(n))
      BY <1>2, <2>2, MembersInside DEF Accounts, Collects
    <3>2. CASE UNCHANGED <<edgeVars, scope>>
      BY <3>1, <3>2, AnchorKept
    <3>3. CASE n = t.node /\ <<t.node, t.nth>> \in scope'[l].outputs
      BY <1>8, <3>3
    <3>4. CASE n # t.node
      BY <1>4, <1>9, <2>1, <3>1, <3>4
    <3>. QED BY <1>4, <2>1, <3>2, <3>3, <3>4
  <2>. QED BY <1>2, <1>4, <2>1, <2>2 DEF Accounts, Collects
<1>11. HoldsLast(l)'
  BY <1>1, <1>2, <1>3, <1>4, <1>8 DEF Accounts, HoldsLast
<1>12. TakesAll(l)'
  <2>1. ASSUME Answers(l, "loop_continue") PROVE scope[l] # None
    BY <2>1, AnswersActive, SentinelsInside DEF NestInv, Entered
  <2>. QED BY <1>1, <1>2, <1>4, <1>6, <1>7, <2>1 DEF Accounts, TakesAll
<1>13. ASSUME SentinelSettles(t), t.node = EndOf[l] PROVE LeavesWithAll(l)' /\ IsOver(l)'
  <2>1. t.output \in EndAnswers /\ t.output.kind = "done" /\ t.output.route # "loop_continue"
    BY <1>0, <1>13, SentinelsInside DEF SentinelSettles, NestInv, QuietInv, AnswersKnown
  <2>2. t.output.route = "loop_exit"
    BY <2>1 DEF EndAnswers, Result
  <2>3. Answers(l, "loop_exit")
    BY <1>0, <1>13, <2>2 DEF Answers
  <2>4. scope[l] # None
    BY <1>0, <1>13, SentinelsInside DEF NestInv, Entered
  <2>5. LeavesWithAll(l)'
    BY <1>1, <1>2, <1>7, <2>3 DEF Accounts, LeavesWithAll
  <2>6. IsOver(l)'
    <3>. SUFFICES ASSUME NEW n \in Inside(l) PROVE IsNodeReady(n)' /\ n \notin Active'
      BY <1>3, <2>4 DEF IsOver
    <3>1. IsNodeReady(n)' /\ n \notin Active'
      <4>1. n \in Nodes /\ IsNodeReady(n) /\ (n # EndOf[l] => n \notin Active)
        BY <1>0, <1>13, EndFindsReady DEF NestInv, Inside
      <4>2. IsNodeReady(n)' /\ (n \in Active' => n \in Active)
        BY <4>1, CallEndsReady DEF NestInv
      <4>3. t.node \notin Active'
        BY CallEndsActive DEF NestInv
      <4>. QED BY <1>13, <4>1, <4>2, <4>3
    <3>. QED BY <3>1
  <2>. QED BY <2>5, <2>6
<1>14. ASSUME ~SentinelSettles(t) \/ t.node # EndOf[l] PROVE LeavesWithAll(l)' /\ IsOver(l)'
  <2>1. blockStates'[EndOf[l]] = blockStates[EndOf[l]]
    BY <1>14, SentinelsInside DEF CallEnds, BlockSettles, SentinelSettles, NestInv, QuietInv,
                                  LoopTypeOK, TypeOK
  <2>2. LeavesWithAll(l)'
    BY <1>1, <1>2, <1>6, <1>7, <2>1 DEF Accounts, LeavesWithAll, Exited
  <2>3. IsOver(l)'
    <3>. SUFFICES ASSUME blockStates[EndOf[l]] # None, NEW n \in Inside(l)
                  PROVE  scope[l] # None /\ IsNodeReady(n)' /\ n \notin Active'
      BY <1>3, <2>1, SentinelsInside DEF IsOver
    <3>1. scope[l] # None /\ IsNodeReady(n) /\ n \notin Active
      BY <1>2 DEF Accounts, IsOver
    <3>. QED BY <3>1, CallEndsReady DEF NestInv, Inside
  <2>. QED BY <2>2, <2>3
<1>15. PassedBy(l)'
  <2>. SUFFICES ASSUME Undecided(l), scope[l].skipped
                PROVE  /\ \A n \in Inside(l) \ {StartOf[l], EndOf[l]} :
                            n \notin Active' /\ starts[n] = mark[n]
                       /\ \A v \in executing' : v.node = StartOf[l] =>
                            v.output # None /\ (v.output.kind = "done" => v.output.route = "loop_exit")
    BY <1>1, <1>4, <1>5 DEF PassedBy, Undecided
  <2>1. /\ \A n \in Inside(l) \ {StartOf[l], EndOf[l]} : n \notin Active /\ starts[n] = mark[n]
        /\ \A v \in executing : v.node = StartOf[l] =>
             v.output # None /\ (v.output.kind = "done" => v.output.route = "loop_exit")
    BY <1>2 DEF Accounts, PassedBy
  <2>2. ASSUME NEW n \in Inside(l) \ {StartOf[l], EndOf[l]} PROVE n \notin Active'
    BY <2>1, PassedStaysOut
  <2>. QED BY <1>1, <2>1, <2>2
<1>16. NotYetSkipped(l)'
  BY <1>1, <1>2, <1>3, <1>4 DEF Accounts, NotYetSkipped
<1>. QED BY <1>10, <1>11, <1>12, <1>13, <1>14, <1>15, <1>16 DEF Accounts

(* Two loops that share a node are one within the other. *)
LEMMA WithinMeet ==
  ASSUME NEW l \in Loops, NEW k \in Loops, NEW j \in Within(l) \cap Within(k), l \notin Within(k)
  PROVE  k \in Within(l)
<1>. DEFINE S == {i \in Within(k) : i \in Within(l) => k \in Within(l)}
<1>1. k \in S /\ S \in SUBSET Loops
  BY WithinSelf DEF Within
<1>2. ASSUME NEW i \in Loops, ParentOf[i] \in S PROVE i \in S
  <2>1. i \in Within(k)
    BY <1>2, WithinDown
  <2>2. ASSUME i \in Within(l) PROVE k \in Within(l)
    BY <1>2, <2>1, <2>2, WithinUp
  <2>. QED BY <2>1, <2>2
<1>3. j \in S
  <2>1. \A T \in SUBSET Loops :
          (k \in T /\ \A i \in Loops : ParentOf[i] \in T => i \in T) => j \in T
    BY DEF Within
  <2>. QED BY <1>1, <1>2, <2>1
<1>. QED BY <1>3

LEMMA ResultsGoesBack ==
  ASSUME LoopsWired, NestInv, ResultsInv, NEW t \in executing, GoesBack(t)
  PROVE  ResultsInv'
<1>. DEFINE k == SubflowOf[t.node]
<1>0. /\ k \in Loops /\ t.output.route = "loop_continue" /\ t.output # None
      /\ ActivatedTargets(t.node, t.output) = {StartOf[k]} /\ t.node \in Active
      /\ LoopTypeOK
  BY BackFromEnd, QuietGives DEF NestInv, QuietInv, GoesBack, SentinelCompletes
<1>1. /\ t.node = EndOf[k] /\ executing' = executing \ {t}
      /\ \A m \in Loops : scope'[m] = IF m = k \/ m \notin Within(k) THEN scope[m] ELSE None
      /\ \A m \in Loops : past'[m] = IF m = k THEN Append(past[k], Round(k))
                                     ELSE IF m \in Within(k) THEN <<>> ELSE past[m]
      /\ \A n \in Nodes : blockStates'[n] = IF n \in Inside(k) THEN None ELSE blockStates[n]
      /\ \A n \in Nodes : mark'[n] = IF n \in Inside(k) THEN starts[n] ELSE mark[n]
      /\ UNCHANGED <<starts, cancelledFlag>>
      /\ \A v \in executing' : v \in executing /\ v.node \in Nodes \ Inside(k)
      /\ \A n \in Active' : n = StartOf[k] \/ (n \in Active /\ n \notin Inside(k))
  BY <1>0, BackScopes DEF NestInv
<1>2. /\ \A n \in Nodes \ Inside(k) : Live(n) => Live(n)'
      /\ \A n \in Nodes \ Inside(k) : IsNodeReady(n)' <=> IsNodeReady(n)
  BY <1>0, BackEdges DEF NestInv
<1>3. /\ nodesWithActivatedEdge' = (nodesWithActivatedEdge \ Inside(k)) \cup {StartOf[k]}
      /\ UNCHANGED aggregated
  BY <1>0 DEF GoesBack, SentinelCompletes
<1>4. Answers(k, "loop_continue")
  BY <1>0, <1>1 DEF Answers
<1>. HIDE DEF k
<1>5. Accounts(k)'
  <2>1. Complete(scope'[k].results, past'[k]) /\ ~scope'[k].skipped
    BY <1>0, <1>1, <1>4 DEF ResultsInv, Accounts, TakesAll
  <2>2. \A n \in Members(k) : n \in Nodes /\ mark'[n] = starts[n] /\ starts[n] \in Nat
    BY <1>0, <1>1, MembersInside DEF LoopTypeOK, TypeOK
  <2>3. Collects(k)'
    BY <1>1, <2>1, <2>2 DEF Collects
  <2>4. HoldsLast(k)'
    BY <1>0, <1>1 DEF ResultsInv, Accounts, HoldsLast
  <2>5. \A r : ~Answers(k, r)'
    BY <1>0, <1>1, SentinelsInside DEF Answers
  <2>6. blockStates'[EndOf[k]] = None
    BY <1>0, <1>1, SentinelsInside
  <2>7. TakesAll(k)' /\ LeavesWithAll(k)' /\ IsOver(k)'
    BY <2>5, <2>6 DEF TakesAll, LeavesWithAll, IsOver, Exited
  <2>8. PassedBy(k)' /\ NotYetSkipped(k)'
    BY <2>1 DEF PassedBy, NotYetSkipped
  <2>. QED BY <2>3, <2>4, <2>7, <2>8 DEF Accounts
<1>6. ASSUME NEW l \in Within(k) \ {k} PROVE Accounts(l)'
  <2>1. l \in Loops /\ scope'[l] = None /\ EndOf[l] \in Inside(k) /\ EndOf[l] \in Nodes
    BY <1>0, <1>1, <1>6, WithinNested, SentinelsInside
  <2>2. blockStates'[EndOf[l]] = None /\ \A r : ~Answers(l, r)'
    BY <1>1, <2>1 DEF Answers
  <2>. QED BY <2>1, <2>2 DEF Accounts, Collects, HoldsLast, TakesAll, LeavesWithAll, PassedBy,
                             NotYetSkipped, IsOver, Undecided, Exited
<1>7. ASSUME NEW l \in Loops \ Within(k) PROVE Accounts(l)'
  <2>1. /\ Accounts(l) /\ l # k /\ scope'[l] = scope[l] /\ past'[l] = past[l]
    BY <1>0, <1>1, <1>7, WithinSelf DEF ResultsInv
  <2>2. /\ StartOf[l] \in Nodes \ Inside(k) /\ EndOf[l] \in Nodes \ Inside(k)
    BY <1>7, SentinelsInside DEF Inside
  <2>3. /\ mark'[StartOf[l]] = mark[StartOf[l]] /\ mark'[EndOf[l]] = mark[EndOf[l]]
        /\ blockStates'[EndOf[l]] = blockStates[EndOf[l]]
    BY <1>1, <2>2
  <2>4. Undecided(l)' => Undecided(l)
    BY <1>1, <2>1, <2>3 DEF Undecided
  <2>5. \A r : Answers(l, r)' => Answers(l, r)
    BY <1>1 DEF Answers
  <2>6. ASSUME NEW n \in Inside(l), n \in Inside(k) PROVE EndOf[k] \in Inside(l) \ {StartOf[l], EndOf[l]}
    <3>1. k \in Within(l)
      BY <1>0, <1>7, <2>6, WithinMeet DEF Inside
    <3>. QED BY <1>0, <2>1, <3>1, WithinNested, SentinelsInside, SentinelsApart
  <2>7. Collects(l)'
    <3>1. ASSUME Undecided(l), NEW n \in Members(l), starts[n] > mark'[n]
          PROVE  <<n, starts[n]>> \in scope[l].outputs \/ Anchor(n)'
      <4>1. n \in Nodes /\ starts[n] \in Nat
        BY <1>0, MembersInside DEF LoopTypeOK, TypeOK
      <4>2. n \notin Inside(k) /\ mark'[n] = mark[n]
        BY <1>1, <3>1, <4>1
      <4>3. <<n, starts[n]>> \in scope[l].outputs \/ Anchor(n)
        BY <2>1, <3>1, <4>2 DEF Accounts, Collects
      <4>. QED BY <1>2, <1>3, <4>1, <4>2, <4>3 DEF Anchor
    <3>. QED BY <1>1, <2>1, <2>4, <3>1 DEF Accounts, Collects
  <2>8. HoldsLast(l)'
    BY <1>1, <2>1 DEF Accounts, HoldsLast
  <2>9. ASSUME Exited(l) \/ EndOf[l] \in Active PROVE Round(l)' = Round(l)
    <3>1. EndOf[k] \notin Inside(l) \ {StartOf[l], EndOf[l]}
      BY <1>0, <1>1, <2>1, <2>9, EndFindsReady DEF Accounts, IsOver, Exited, NestInv
    <3>2. \A n \in Members(l) : n \in Nodes \ Inside(k)
      BY <2>6, <3>1, MembersInside
    <3>. QED BY <1>1, <3>2, RoundKept
  <2>10. TakesAll(l)' /\ LeavesWithAll(l)'
    <3>1. \A r : Answers(l, r) => EndOf[l] \in Active
      BY AnswersActive
    <3>2. Exited(l)' => Exited(l)
      BY <2>3 DEF Exited
    <3>. QED BY <1>1, <1>3, <2>1, <2>5, <2>9, <3>1, <3>2 DEF Accounts, TakesAll, LeavesWithAll
  <2>11. PassedBy(l)'
    <3>. SUFFICES ASSUME Undecided(l), scope[l].skipped
                  PROVE  /\ \A n \in Inside(l) \ {StartOf[l], EndOf[l]} :
                              n \notin Active' /\ starts[n] = mark'[n]
                         /\ \A v \in executing : v.node = StartOf[l] =>
                              v.output # None /\ (v.output.kind = "done" => v.output.route = "loop_exit")
      BY <1>1, <2>1, <2>4 DEF PassedBy
    <3>1. /\ \A n \in Inside(l) \ {StartOf[l], EndOf[l]} : n \notin Active /\ starts[n] = mark[n]
          /\ \A v \in executing : v.node = StartOf[l] =>
               v.output # None /\ (v.output.kind = "done" => v.output.route = "loop_exit")
      BY <2>1 DEF Accounts, PassedBy
    <3>2. StartOf[k] \notin Inside(l)
      BY <1>0, <1>1, <2>6, <3>1, SentinelsInside
    <3>3. ASSUME NEW n \in Inside(l) \ {StartOf[l], EndOf[l]}
          PROVE  n \notin Active' /\ starts[n] = mark'[n]
      BY <1>1, <3>1, <3>2 DEF Inside
    <3>. QED BY <3>1, <3>3
  <2>12. NotYetSkipped(l)'
    BY <1>1, <2>1, <2>3 DEF Accounts, NotYetSkipped
  <2>13. IsOver(l)'
    <3>. SUFFICES ASSUME blockStates[EndOf[l]] # None
                  PROVE  scope[l] # None /\ \A n \in Inside(l) : IsNodeReady(n)' /\ n \notin Active'
      BY <2>1, <2>3 DEF IsOver
    <3>1. scope[l] # None /\ \A n \in Inside(l) : IsNodeReady(n) /\ n \notin Active
      BY <2>1 DEF Accounts, IsOver
    <3>2. \A n \in Inside(l) : n \in Nodes \ Inside(k)
      BY <1>0, <1>1, <2>6, <3>1 DEF Inside
    <3>. QED BY <1>0, <1>1, <1>2, <3>1, <3>2, SentinelsInside
  <2>. QED BY <2>7, <2>8, <2>10, <2>11, <2>12, <2>13 DEF Accounts
<1>. QED BY <1>5, <1>6, <1>7 DEF ResultsInv

LEMMA NextResults ==
  ASSUME LoopsWired, BranchesWired, NestInv, ResultsInv, [LoopNext]_allVars
  PROVE  ResultsInv'
<1>1. CASE \/ (WakeUp \/ LeaveLoop \/ AllSettled \/ SignalCancelled \/ Ended) /\ UNCHANGED scopeVars
           \/ UNCHANGED allVars
  <2>1. /\ UNCHANGED <<edgeVars, readyQueue, executing, starts, blockStates, scope, past, mark, aggregated>>
        /\ cancelledFlag => cancelledFlag'
    BY <1>1 DEF WakeUp, LeaveLoop, AllSettled, SignalCancelled, Ended, vars, scopeVars, history, allVars
  <2>2. Active' = Active
    BY <2>1 DEF Active, Busy
  <2>. QED BY <2>1, <2>2, AccountKept DEF ResultsInv
<1>2. ASSUME NEW t \in executing, Completion(t) PROVE ResultsInv'
  <2>1. UNCHANGED aggregated
    BY <1>2 DEF Completion, BlockCompletes, Passes, GoesBack, SentinelCompletes, scopeVars
  <2>. QED BY <1>2, <2>1, CompletionShape, ResultsCallEnds, ResultsGoesBack DEF NestInv
<1>3. ASSUME NEW t \in executing, Returns(t) PROVE ResultsInv'
  BY <1>3, ResultsBlockEnds, ResultsStartReturns, ResultsEndReturns DEF Returns
<1>. QED BY <1>1, <1>2, <1>3, ResultsProcessQueue DEF LoopNext, MainLoop

(* A loop that is left, and was not cancelled, has the outputs of all its      *)
(* rounds, in their order, and nothing else: no output is lost between two     *)
(* rounds or taken over from an earlier one, in nested loops either, however   *)
(* the blocks of the body interleave.                                       *)
THEOREM LoopResultsAreComplete ==
  LoopsWired /\ BranchesWired => (LoopSpec => []ResultsAreComplete)
<1>. SUFFICES ASSUME LoopsWired, BranchesWired PROVE LoopSpec => []ResultsAreComplete
  OBVIOUS
<1>. DEFINE J == NestInv /\ ResultsInv
<1>1. LoopInit => J
  BY NestInit, ResultsInit
<1>2. J /\ [LoopNext]_allVars => J'
  BY NextNest, NextResults
<1>3. J => ResultsAreComplete
  BY DEF ResultsInv, Accounts, LeavesWithAll, ResultsAreComplete
<1>. HIDE DEF J
<1>. QED BY <1>1, <1>2, <1>3, PTL DEF LoopSpec

----------------------------------------------------------------------------
(* Loops that are entered are left.                                         *)

(* A node that waits for nothing, and neither was called in this round nor is  *)
(* going to be.                                                             *)
Idle(n) == IsNodeReady(n) /\ n \notin Active /\ n \notin CalledNodes

(* One that was cut off: whatever it leads to no longer waits for it.          *)
Skipped(n) == Idle(n) /\ ForwardEdgesOf({n}) \subseteq deactivatedEdges

(* One that a feeder chose, and that no longer waits because the cascade cut    *)
(* off another feeder: the engine looks again only at the direct targets of a  *)
(* dropped edge, and leaves it behind.                                       *)
Stranded(n) ==
  /\ Idle(n) /\ n \in nodesWithActivatedEdge
  /\ \E e \in InEdges(n) : e.handle \notin BackHandles /\ Skipped(e.src)

(* Nothing kept a call from routing its answer. *)
Unhindered == ~errorFlag /\ ~stoppedEarlyFlag /\ pausedBlocks = {}

----------------------------------------------------------------------------
(* What a node waits for feeds it. *)
SourcesForward ==
  \A n \in Nodes : \A m \in incomingEdges[n] : \E f \in Forward : f.src = m /\ f.dst = n

Fed == {n \in Nodes : \E f \in Forward : f.dst = n}

(* One that waits for nothing and will not run was cut off, or stranded.       *)
IdleForAReason == \A n \in Fed : Idle(n) => Skipped(n) \/ Stranded(n)

(* In a loop, what was activated was activated by a call of this round.        *)
ActivatedByCall ==
  \A l \in Loops : \A n \in Inside(l) \ {StartOf[l]} : n \in nodesWithActivatedEdge =>
    \E e \in InEdges(n) :
      e.handle \notin BackHandles /\ e.src \in CalledNodes /\ e.src \notin Active

CallsActivated ==
  \A n \in Nodes : n \in Active \/ n \in CalledNodes => n \in nodesWithActivatedEdge \/ n = Trigger

StatesOfCalled == \A n \in Nodes : blockStates[n] # None => n \in CalledNodes

(* A loop of which a node was called has a scope, and one that has a scope was  *)
(* called from its start sentinel on.                                       *)
CalledInScope ==
  \A l \in Loops : \A n \in Inside(l) :
    n \in CalledNodes /\ (n # StartOf[l] \/ n \notin Active) => scope[l] # None

StartWasCalled ==
  \A l \in Loops : scope[l] # None =>
    IsNodeReady(StartOf[l]) /\ (StartOf[l] \in Active \/ StartOf[l] \in CalledNodes)

NodesInv ==
  /\ SourcesForward /\ IdleForAReason /\ ActivatedByCall /\ CallsActivated
  /\ StatesOfCalled /\ CalledInScope /\ StartWasCalled

(* Unless the run is hindered: no one waits for a call that ended, and the end  *)
(* sentinel of a loop under way waits or is about to run.                     *)
Delivered ==
  \A e \in Edges : e.src \in CalledNodes /\ e.src \notin Active =>
    e.src \notin incomingEdges[e.dst] \/ e \in deactivatedEdges

EndIsDue ==
  \A l \in Loops : scope[l] # None =>
    Exited(l) \/ EndOf[l] \in Active \/ ~IsNodeReady(EndOf[l])

----------------------------------------------------------------------------
(* Edges. *)

(* The start of a loop has no feeder inside it. *)
LEMMA StartFedFromOutside ==
  ASSUME LoopsWired, ForwardAcyclic, NEW l \in Loops, NEW e \in Forward, e.dst = StartOf[l]
  PROVE  e.src \notin Inside(l)
<1>1. Inside(l) \in (SUBSET Nodes) \ {{}}
  BY SentinelsInside DEF Inside
<1>2. PICK n \in Inside(l) : \A f \in Forward : f.dst = n => f.src \notin Inside(l)
  BY <1>1 DEF ForwardAcyclic
<1>3. n = StartOf[l]
  <2>. SUFFICES ASSUME n # StartOf[l] PROVE FALSE
    OBVIOUS
  <2>1. {n} \in (SUBSET Inside(l)) \ {{}} /\ StartOf[l] \notin {n}
    OBVIOUS
  <2>2. \A S \in (SUBSET Inside(l)) \ {{}} :
          StartOf[l] \notin S => \E f \in Forward : f.dst \in S /\ f.src \in Inside(l) \ S
    BY DEF LoopsWired, WiredByConstruction
  <2>3. PICK f \in Forward : f.dst \in {n} /\ f.src \in Inside(l) \ {n}
    BY <2>1, <2>2
  <2>. QED BY <1>2, <2>3
<1>. QED BY <1>2, <1>3

(* An edge that is not forward leads back to the start of its loop, or past it. *)
LEMMA EdgeKinds ==
  ASSUME LoopsWired, NEW e \in Edges
  PROVE  /\ e \in Forward => e.handle \notin BackHandles /\ ~IsBypass(e)
         /\ e.handle \in BackHandles =>
              \E l \in Loops : e.src = EndOf[l] /\ e.dst = StartOf[l]
         /\ IsBypass(e) =>
              \E l \in Loops : e.src = StartOf[l] /\ e.dst = EndOf[l] /\ e.handle = "loop_exit"
         /\ e \notin Forward => e.handle \in BackHandles \/ IsBypass(e)
<1>1. e \in Forward => e.handle \notin BackHandles /\ ~IsBypass(e)
  BY DEF LoopsWired, Forward
<1>2. ASSUME e.handle \in BackHandles
      PROVE  \E l \in Loops : e.src = EndOf[l] /\ e.dst = StartOf[l]
  <2>1. e.handle = "loop_continue" /\ e.handle \in ControlHandles
    BY <1>2, ControlEdges DEF ControlHandles, LoopRoutes
  <2>2. ~IsBypass(e)
    BY <2>1 DEF IsBypass
  <2>. QED BY <2>1, <2>2 DEF LoopsWired
<1>3. e \notin Forward => e.handle \in BackHandles \/ IsBypass(e)
  BY ControlEdges DEF Forward
<1>. QED BY <1>1, <1>2, <1>3 DEF IsBypass

(* An edge that leads back is awaited by no one. *)
LEMMA BackNotAwaited ==
  ASSUME LoopsWired, SourcesForward, NEW e \in Edges, e.handle \in BackHandles
  PROVE  e.src \notin incomingEdges[e.dst]
<1>1. PICK l \in Loops : e.src = EndOf[l] /\ e.dst = StartOf[l]
  BY EdgeKinds
<1>. SUFFICES ASSUME e.src \in incomingEdges[e.dst] PROVE FALSE
  OBVIOUS
<1>2. PICK f \in Forward : f.src = EndOf[l] /\ f.dst = StartOf[l]
  BY <1>1, SentinelsInside DEF SourcesForward
<1>3. f.handle = "loop_exit" /\ f \in Edges /\ f.handle \in ControlHandles /\ ~IsBypass(f)
  BY <1>2, EdgeKinds DEF LoopsWired, WiredByConstruction, ControlHandles, LoopRoutes, Forward
<1>4. PICK k \in Loops : f.src = EndOf[k] /\ f.dst \notin Inside(k)
  BY <1>3 DEF LoopsWired
<1>5. k = l
  BY <1>2, <1>4, SentinelsApart
<1>. QED BY <1>2, <1>4, <1>5, SentinelsInside

(* The cut-off nodes are closed under the cascade. *)
LEMMA CutOffClosed ==
  ASSUME NEW seeds, NEW activated
  PROVE  ClosedUnderCascade(CutOff(seeds, activated), seeds, activated)
<1>. DEFINE C == CutOff(seeds, activated)
<1>. SUFFICES ASSUME NEW n \in Nodes \ activated,
                     \E e \in InEdges(n) : e \in (seeds \cup ForwardEdgesOf(C)) \ deactivatedEdges,
                     NoActiveIncoming(n, deactivatedEdges \cup (seeds \cup ForwardEdgesOf(C))),
                     NEW S \in SUBSET (Nodes \ activated), ClosedUnderCascade(S, seeds, activated)
              PROVE  n \in S
  BY DEF ClosedUnderCascade, CutOff
<1>1. C \subseteq S
  BY CutOffBelow
<1>2. ForwardEdgesOf(C) \subseteq ForwardEdgesOf(S)
  BY <1>1 DEF ForwardEdgesOf
<1>3. /\ \E e \in InEdges(n) : e \in (seeds \cup ForwardEdgesOf(S)) \ deactivatedEdges
      /\ NoActiveIncoming(n, deactivatedEdges \cup (seeds \cup ForwardEdgesOf(S)))
  BY <1>2 DEF NoActiveIncoming
<1>. QED BY <1>3 DEF ClosedUnderCascade

----------------------------------------------------------------------------
(* Steps that leave the edges alone.                                        *)

LEMMA CalledActive ==
  ASSUME QuietInv, NEW n \in CalledNodes
  PROVE  IsNodeReady(n) /\ n \in Nodes /\ n \notin readyQueue
BY DEF CalledNodes, QuietInv, CalledInRound, LoopTypeOK, TypeOK

LEMMA BusyCalled ==
  ASSUME QuietInv, NEW t \in executing
  PROVE  t.node \in CalledNodes
<1>1. t.nth = starts[t.node] /\ mark[t.node] < t.nth /\ t.node \in Nodes
  BY QuietGives DEF QuietInv, CalledInRound
<1>2. starts[t.node] \in Nat /\ mark[t.node] \in Nat
  BY <1>1 DEF QuietInv, LoopTypeOK, TypeOK
<1>. QED BY <1>1, <1>2 DEF CalledNodes

LEMMA NodesKept ==
  ASSUME LoopsWired, QuietInv, NodesInv, UNCHANGED <<edgeVars, starts, mark>>, Active' = Active,
         \A l \in Loops : scope[l] # None => scope'[l] # None,
         \A l \in Loops : scope'[l] # None => scope[l] # None \/ StartOf[l] \in Active,
         \A n \in Nodes : blockStates'[n] # None => blockStates[n] # None \/ n \in CalledNodes
  PROVE  NodesInv'
<1>1. CalledNodes' = CalledNodes
  BY DEF CalledNodes
<1>2. \A n \in Nodes : IsNodeReady(n)' <=> IsNodeReady(n)
  BY DEF IsNodeReady, NoActiveIncoming, edgeVars
<1>3. \A n \in Nodes : (Idle(n)' <=> Idle(n)) /\ (Skipped(n)' <=> Skipped(n))
  BY <1>1, <1>2 DEF Idle, Skipped, edgeVars
<1>4. \A n \in Nodes : Stranded(n)' <=> Stranded(n)
  <2>1. \A n \in Nodes : \A e \in InEdges(n) : e.src \in Nodes
    BY EdgeEnds DEF InEdges
  <2>. QED BY <1>3, <2>1 DEF Stranded, edgeVars
<1>5. SourcesForward' /\ IdleForAReason'
  BY <1>3, <1>4 DEF NodesInv, SourcesForward, IdleForAReason, Fed, edgeVars
<1>6. ActivatedByCall' /\ CallsActivated' /\ StatesOfCalled'
  BY <1>1 DEF NodesInv, ActivatedByCall, CallsActivated, StatesOfCalled, edgeVars
<1>7. CalledInScope'
  BY <1>1 DEF NodesInv, CalledInScope
<1>8. StartWasCalled'
  BY <1>1, <1>2, SentinelsInside, QuietGives DEF NodesInv, StartWasCalled
<1>. QED BY <1>5, <1>6, <1>7, <1>8 DEF NodesInv

LEMMA DueKept ==
  ASSUME LoopsWired, QuietInv, Delivered, EndIsDue,
         UNCHANGED <<edgeVars, starts, mark>>, Active' = Active,
         \A l \in Loops : scope'[l] # None => scope[l] # None \/ StartOf[l] \in Active,
         \A l \in Loops : Exited(l) => Exited(l)'
  PROVE  Delivered' /\ EndIsDue'
<1>1. CalledNodes' = CalledNodes
  BY DEF CalledNodes
<1>2. \A n \in Nodes : IsNodeReady(n)' <=> IsNodeReady(n)
  BY DEF IsNodeReady, NoActiveIncoming, edgeVars
<1>3. Delivered'
  BY <1>1 DEF Delivered, edgeVars
<1>4. ASSUME NEW l \in Loops, StartOf[l] \in Active PROVE ~IsNodeReady(EndOf[l])
  BY <1>4, SentinelsInside, ActiveLive, LiveReachesEnd DEF QuietInv
<1>5. EndIsDue'
  BY <1>2, <1>4, SentinelsInside DEF EndIsDue
<1>. QED BY <1>3, <1>5

(* A call has its answer. *)
LEMMA ReturnsKeep ==
  ASSUME LoopsWired, NestInv, NEW t \in executing, Returns(t)
  PROVE  /\ UNCHANGED <<edgeVars, starts, mark>> /\ Active' = Active
         /\ \A l \in Loops : scope[l] # None => scope'[l] # None
         /\ \A l \in Loops : scope'[l] # None => scope[l] # None \/ StartOf[l] \in Active
         /\ \A n \in Nodes : blockStates'[n] # None => blockStates[n] # None \/ n \in CalledNodes
         /\ \A l \in Loops : Exited(l) => Exited(l)'
<1>0. /\ LoopTypeOK /\ t.node \in Active /\ t.node \in Nodes /\ t.node \in CalledNodes
      /\ QuietInv /\ Entered
  BY QuietGives, BusyCalled DEF NestInv, QuietInv
<1>1. CASE BlockEnds(t)
  <2>1. /\ t.node \notin Sentinels /\ UNCHANGED <<edgeVars, readyQueue, starts, scope, mark>>
    BY <1>0, <1>1, BlockShape DEF scopeVars, history
  <2>2. PICK out : Returned(t, out) /\ blockStates' = [blockStates EXCEPT ![t.node] = out]
    BY <1>0, <1>1, BlockShape
  <2>3. Active' = Active
    BY <1>0, <2>1, <2>2, ReturnedActive
  <2>4. \A l \in Loops : blockStates'[EndOf[l]] = blockStates[EndOf[l]]
    BY <1>0, <2>1, <2>2, LoopAssumption DEF LoopTypeOK, TypeOK
  <2>5. \A n \in Nodes : blockStates'[n] # None => blockStates[n] # None \/ n \in CalledNodes
    BY <1>0, <2>2 DEF LoopTypeOK, TypeOK
  <2>. QED BY <2>1, <2>3, <2>4, <2>5 DEF Exited
<1>2. CASE StartReturns(t) \/ EndReturns(t)
  <2>. DEFINE l == SubflowOf[t.node]
  <2>1. /\ l \in Loops /\ UNCHANGED <<edgeVars, readyQueue, starts, blockStates, mark>>
        /\ t.node = StartOf[l] \/ (t.node = EndOf[l] /\ scope[l] # None)
    <3>1. CASE StartReturns(t)
      BY <1>0, <3>1, StartShape
    <3>2. CASE EndReturns(t)
      <4>1. l \in Loops /\ t.node = EndOf[l] /\ UNCHANGED <<edgeVars, readyQueue, starts, blockStates, mark>>
        BY <1>0, <3>2, EndShape
      <4>. QED BY <1>0, <4>1, SentinelsInside DEF Entered
    <3>. QED BY <1>2, <3>1, <3>2
  <2>2. \E q \in Scope, out \in StartAnswers \cup EndAnswers :
        Returned(t, out) /\ scope' = [scope EXCEPT ![l] = q]
    <3>1. CASE StartReturns(t)
      <4>1. PICK q \in Scope, out \in StartAnswers : StartStep(t, l, q, out)
        BY <1>0, <3>1, StartShape
      <4>. QED BY <4>1 DEF StartStep
    <3>2. CASE EndReturns(t)
      <4>1. PICK q \in Scope, out \in EndAnswers : EndStep(t, l, q, out)
        BY <1>0, <3>2, EndShape
      <4>. QED BY <4>1 DEF EndStep
    <3>. QED BY <1>2, <3>1, <3>2
  <2>. HIDE DEF l
  <2>3. PICK q \in Scope, out \in StartAnswers \cup EndAnswers :
        Returned(t, out) /\ scope' = [scope EXCEPT ![l] = q]
    BY <2>2
  <2>4. Active' = Active
    BY <1>0, <2>1, <2>3, ReturnedActive
  <2>5. q # None
    BY ScopeAssumption
  <2>6. \A m \in Loops : scope'[m] = IF m = l THEN q ELSE scope[m]
    BY <1>0, <2>1, <2>3 DEF LoopTypeOK
  <2>. QED BY <1>0, <2>1, <2>4, <2>5, <2>6 DEF Exited
<1>. QED BY <1>1, <1>2 DEF Returns

(* The queue is emptied: what was queued is called. *)
LEMMA QueueKeeps ==
  ASSUME QuietInv, NodesInv, ProcessQueue, UNCHANGED scopeVars, Entered
  PROVE  /\ NodesInv'
         /\ Delivered => Delivered'
         /\ EndIsDue => EndIsDue'
<1>0. /\ Active' = Active /\ readyQueue' = {} /\ UNCHANGED <<edgeVars, blockStates, scope, mark>>
      /\ \A n \in Nodes : starts'[n] = IF n \in readyQueue THEN starts[n] + 1 ELSE starts[n]
  BY QueueActive DEF ProcessQueue, scopeVars, history
<1>1. CalledNodes' = CalledNodes \cup readyQueue
  <2>1. \A n \in readyQueue : n \in Nodes /\ starts[n] = mark[n] /\ starts[n] \in Nat
    BY DEF QuietInv, CalledInRound, LoopTypeOK, TypeOK
  <2>2. \A n \in Nodes : n \in CalledNodes' <=> n \in CalledNodes \/ n \in readyQueue
    BY <1>0, <2>1 DEF CalledNodes
  <2>. QED BY <2>1, <2>2 DEF CalledNodes
<1>2. \A n \in Nodes : IsNodeReady(n)' <=> IsNodeReady(n)
  BY <1>0 DEF IsNodeReady, NoActiveIncoming, edgeVars
<1>3. readyQueue \subseteq Active
  BY DEF Active
<1>4. \A n \in Nodes : (Idle(n)' <=> Idle(n)) /\ (Skipped(n)' <=> Skipped(n))
  BY <1>0, <1>1, <1>2, <1>3 DEF Idle, Skipped, edgeVars
<1>5. \A n \in Nodes : Stranded(n)' <=> Stranded(n)
  <2>1. \A n \in Nodes : \A e \in InEdges(n) : e.src \in Nodes
    BY EdgeEnds DEF InEdges
  <2>. QED BY <1>0, <1>4, <2>1 DEF Stranded, edgeVars
<1>6. SourcesForward' /\ IdleForAReason'
  BY <1>0, <1>4, <1>5 DEF NodesInv, SourcesForward, IdleForAReason, Fed, edgeVars
<1>7. ActivatedByCall'
  BY <1>0, <1>1 DEF NodesInv, ActivatedByCall, edgeVars
<1>8. CallsActivated' /\ StatesOfCalled'
  BY <1>0, <1>1, <1>3 DEF NodesInv, CallsActivated, StatesOfCalled, edgeVars
<1>9. CalledInScope'
  BY <1>0, <1>1, <1>3 DEF NodesInv, CalledInScope, Entered
<1>10. StartWasCalled'
  BY <1>0, <1>1, <1>2, SentinelsInside DEF NodesInv, StartWasCalled
<1>11. Delivered => Delivered'
  BY <1>0, <1>1, <1>3 DEF Delivered, edgeVars
<1>12. EndIsDue => EndIsDue'
  BY <1>0, <1>2, SentinelsInside DEF EndIsDue, Exited
<1>. QED BY <1>6, <1>7, <1>8, <1>9, <1>10, <1>11, <1>12 DEF NodesInv

----------------------------------------------------------------------------
(* A call settles.                                                          *)

(* In the next state too, a live edge keeps the end of its loop waiting, and the *)
(* start of a loop its body.                                                 *)
LEMMA LiveReachesNext ==
  /\ \A l \in Loops : \A n \in Inside(l) :
       LoopsWired /\ OpenEdgesLive' /\ n # EndOf[l] /\ Live(n)' => ~IsNodeReady(EndOf[l])'
  /\ \A l \in Loops : \A n \in Inside(l) :
       LoopsWired /\ OpenEdgesLive' /\ n # StartOf[l] /\ Live(StartOf[l])' => ~IsNodeReady(n)'
<1>1. \A l \in Loops : \A n \in Inside(l) :
        LoopsWired /\ OpenEdgesLive /\ n # EndOf[l] /\ Live(n) => ~IsNodeReady(EndOf[l])
  BY LiveReachesEnd
<1>2. \A l \in Loops : \A n \in Inside(l) :
        LoopsWired /\ OpenEdgesLive /\ n # StartOf[l] /\ Live(StartOf[l]) => ~IsNodeReady(n)
  BY LiveReachesBody
<1>3. (\A l \in Loops : \A n \in Inside(l) :
         LoopsWired /\ OpenEdgesLive /\ n # EndOf[l] /\ Live(n) => ~IsNodeReady(EndOf[l]))'
  BY <1>1, PTL
<1>4. (\A l \in Loops : \A n \in Inside(l) :
         LoopsWired /\ OpenEdgesLive /\ n # StartOf[l] /\ Live(StartOf[l]) => ~IsNodeReady(n))'
  BY <1>2, PTL
<1>. QED BY <1>3, <1>4

LEMMA SettledCalls ==
  ASSUME LoopsWired, NestInv, NodesInv, NEW t \in executing, CallEnds(t)
  PROVE  /\ CalledNodes' = CalledNodes
         /\ t.node \in CalledNodes /\ t.node \notin Active'
         /\ \A k \in Nodes : IsNodeReady(k) => IsNodeReady(k)' /\ (k \in Active' => k \in Active)
         /\ \A k \in Active : k = t.node \/ k \in Active'
         /\ \A k \in Nodes : Idle(k) => Idle(k)'
         /\ StatesOfCalled' /\ CalledInScope' /\ StartWasCalled'
<1>0. QuietInv /\ Entered
  BY DEF NestInv
<1>1. CalledNodes' = CalledNodes
  BY DEF CallEnds, CalledNodes, history
<1>2. t.node \in CalledNodes /\ t.node \in Nodes
  BY <1>0, BusyCalled, QuietGives
<1>3. t.node \notin Active'
  BY <1>0, CallEndsActive
<1>4. \A k \in Nodes : IsNodeReady(k) => IsNodeReady(k)' /\ (k \in Active' => k \in Active)
  BY <1>0, CallEndsReady
<1>5. \A k \in Active : k = t.node \/ k \in Active'
  <2>1. readyQueue \subseteq readyQueue' /\ executing' = executing \ {t}
    BY DEF CallEnds, BlockSettles, SentinelSettles, Moves, Routes
  <2>. QED BY <2>1 DEF Active, Busy
<1>6. \A k \in Nodes : Idle(k) => Idle(k)'
  BY <1>1, <1>4 DEF Idle
<1>7. StatesOfCalled'
  <2>1. \A k \in Nodes : k # t.node => blockStates'[k] = blockStates[k]
    BY <1>0 DEF CallEnds, BlockSettles, SentinelSettles, QuietInv, LoopTypeOK, TypeOK
  <2>. QED BY <1>1, <1>2, <2>1 DEF NodesInv, StatesOfCalled
<1>8. \A l \in Loops : scope'[l] = None <=> scope[l] = None
  BY <1>0, SettledScopes
<1>9. CalledInScope'
  <2>. SUFFICES ASSUME NEW l \in Loops, NEW n \in Inside(l), n \in CalledNodes',
                       n # StartOf[l] \/ n \notin Active'
                PROVE  scope[l] # None
    BY <1>8 DEF CalledInScope
  <2>1. CASE n # StartOf[l] \/ n \notin Active
    BY <1>1, <2>1 DEF NodesInv, CalledInScope
  <2>2. CASE n = StartOf[l] /\ n \in Active
    <3>1. t.node = StartOf[l] /\ t.output # None
      BY <1>5, <2>2 DEF CallEnds
    <3>. QED BY <1>0, <3>1, SentinelsInside DEF Entered
  <2>. QED BY <2>1, <2>2
<1>10. StartWasCalled'
  BY <1>1, <1>2, <1>4, <1>5, <1>8, SentinelsInside DEF NodesInv, StartWasCalled
<1>. QED BY <1>1, <1>2, <1>3, <1>4, <1>5, <1>6, <1>7, <1>9, <1>10

(* A skipped node stays skipped while edges only die.                          *)
LEMMA SkippedStays ==
  ASSUME \A k \in Nodes : Idle(k) => Idle(k)', deactivatedEdges \subseteq deactivatedEdges',
         nodesWithActivatedEdge \subseteq nodesWithActivatedEdge'
  PROVE  \A k \in Nodes : (Skipped(k) => Skipped(k)') /\ (Stranded(k) => Stranded(k)')
<1>1. \A k \in Nodes : Skipped(k) => Skipped(k)'
  BY DEF Skipped
<1>2. \A n \in Nodes : \A e \in InEdges(n) : e.src \in Nodes
  BY EdgeEnds DEF InEdges
<1>. QED BY <1>1, <1>2 DEF Stranded

LEMMA ActivationsStay ==
  ASSUME LoopsWired, NestInv, NodesInv, NEW t \in executing, CallEnds(t),
         NEW l \in Loops, NEW n \in Inside(l) \ {StartOf[l]}, n \in nodesWithActivatedEdge
  PROVE  \E e \in InEdges(n) :
           e.handle \notin BackHandles /\ e.src \in CalledNodes' /\ e.src \notin Active'
<1>1. PICK e \in InEdges(n) :
        e.handle \notin BackHandles /\ e.src \in CalledNodes /\ e.src \notin Active
  BY DEF NodesInv, ActivatedByCall
<1>2. IsNodeReady(e.src) /\ e.src \in Nodes
  BY <1>1, CalledActive DEF NestInv
<1>. QED BY <1>1, <1>2, SettledCalls

(* A call that moves no edge. *)
LEMMA StillNodes ==
  ASSUME LoopsWired, NestInv, NodesInv, NEW t \in executing, CallEnds(t),
         UNCHANGED <<edgeVars, readyQueue>>
  PROVE  NodesInv'
<1>1. /\ CalledNodes' = CalledNodes /\ t.node \in CalledNodes
      /\ \A k \in Nodes : Idle(k) => Idle(k)'
      /\ StatesOfCalled' /\ CalledInScope' /\ StartWasCalled'
  BY SettledCalls
<1>2. Active' \subseteq Active /\ \A k \in Active : k = t.node \/ k \in Active'
  BY SettledCalls DEF CallEnds, Active, Busy
<1>3. \A k \in Nodes : (Skipped(k) => Skipped(k)') /\ (Stranded(k) => Stranded(k)')
  BY <1>1, SkippedStays DEF edgeVars
<1>4. \A k \in Nodes : Idle(k)' => Idle(k)
  BY <1>1, <1>2 DEF Idle, IsNodeReady, NoActiveIncoming, edgeVars
<1>5. SourcesForward' /\ IdleForAReason'
  BY <1>3, <1>4 DEF NodesInv, SourcesForward, IdleForAReason, Fed, edgeVars
<1>6. ActivatedByCall'
  BY ActivationsStay DEF ActivatedByCall, edgeVars
<1>7. CallsActivated'
  BY <1>1, <1>2 DEF NodesInv, CallsActivated, edgeVars
<1>. QED BY <1>1, <1>5, <1>6, <1>7 DEF NodesInv

(* The edges an answer drops on the way out of a loop lead to nodes that no     *)
(* feeder has chosen yet: nothing of a loop runs before its start.              *)
LEMMA PassedNotActivated ==
  ASSUME LoopsWired, ForwardAcyclic, NestInv, NodesInv, NEW t \in executing, Routes(t), t.output # None,
         t.output.route \in ExitHandles, NEW e \in EdgesToDeactivate(t.node, t.output)
  PROVE  e.dst \notin nodesWithActivatedEdge
<1>0. QuietInv /\ t.node \in Active /\ t.node \in Nodes
  BY QuietGives DEF NestInv
<1>1. e \in Edges /\ e.src = t.node /\ e.handle \notin ControlHandles /\ e \in Forward
  BY ControlEdges DEF EdgesToDeactivate, OutEdges
<1>2. t.node \in Sentinels
  <2>. SUFFICES ASSUME t.node \notin Sentinels PROVE FALSE
    OBVIOUS
  <2>1. t.output \in Results(t.node)
    BY <1>0 DEF QuietInv, AnswersKnown
  <2>2. t.output.route \in Options \cup {NoRoute}
    BY <2>1, EngineAssumption DEF Results, Result
  <2>3. ExitHandles \subseteq ControlHandles
    BY DEF ExitHandles, ControlHandles, LoopRoutes, ParallelRoutes
  <2>. QED BY <2>2, <2>3, HandlesAssumption DEF Handles
<1>3. ASSUME NEW l \in Loops, t.node = EndOf[l] PROVE FALSE
  <2>0. \A f \in Forward : f.src = EndOf[l] => f.handle = "loop_exit"
    BY DEF LoopsWired, WiredByConstruction
  <2>1. e.handle = "loop_exit"
    BY <1>1, <1>3, <2>0
  <2>. QED BY <1>1, <2>1 DEF ControlHandles, LoopRoutes
<1>4. PICK l \in Loops : t.node = StartOf[l]
  BY <1>2, <1>3 DEF LoopsWired, Starts, Ends
<1>5. e.dst \in Inside(l) /\ e.dst # StartOf[l]
  <2>1. e.src \in Inside(l) \ {EndOf[l]}
    BY <1>1, <1>4, SentinelsInside
  <2>2. e.dst \in Inside(l)
    BY <1>1, <2>1 DEF LoopsWired, WiredByConstruction
  <2>. QED BY <1>1, <2>1, <2>2, StartFedFromOutside
<1>. SUFFICES ASSUME e.dst \in nodesWithActivatedEdge PROVE FALSE
  OBVIOUS
<1>6. PICK f \in InEdges(e.dst) : f.src \in CalledNodes /\ f.src \notin Active
  BY <1>5 DEF NodesInv, ActivatedByCall
<1>7. f.src \in Inside(l) /\ f.src # StartOf[l]
  BY <1>0, <1>4, <1>5, <1>6 DEF LoopsWired, WiredByConstruction, InEdges
<1>8. starts[f.src] = mark[f.src]
  BY <1>0, <1>4, <1>7, StartFindsWaiting
<1>. QED BY <1>0, <1>6, <1>8 DEF CalledNodes, QuietInv, LoopTypeOK, TypeOK

(* Of a node that falls idle while an answer is routed, the cascade cut off the  *)
(* node or one of its feeders.                                               *)
LEMMA FallsIdle ==
  ASSUME LoopsWired, ForwardAcyclic, NestInv, NodesInv, NEW t \in executing, CallEnds(t), Routes(t),
         NEW n \in Nodes, Idle(n)', ~Idle(n)
  PROVE  Skipped(n)' \/ Stranded(n)'
<1>. DEFINE seeds == EdgesToDeactivate(t.node, t.output)
            targets == ActivatedTargets(t.node, t.output)
            acts == nodesWithActivatedEdge'
            C == CutOff(seeds, acts)
<1>0. QuietInv /\ EdgeTypeOK /\ OpenEdgesLive /\ t.output # None
  BY DEF NestInv, QuietInv, LoopTypeOK, TypeOK, CallEnds
<1>1. /\ CalledNodes' = CalledNodes /\ t.node \in CalledNodes
      /\ \A k \in Active : k = t.node \/ k \in Active'
  BY SettledCalls
<1>2. ~IsNodeReady(n) /\ IsNodeReady(n)' /\ n \notin readyQueue'
  BY <1>1 DEF Idle, Active
<1>3. /\ acts = nodesWithActivatedEdge \cup targets
      /\ deactivatedEdges' = deactivatedEdges \cup seeds \cup ForwardEdgesOf(C)
      /\ incomingEdges' = [k \in Nodes |-> IF k \in targets THEN incomingEdges[k] \ {t.node}
                                                            ELSE incomingEdges[k]]
      /\ ReadyNodes(t.node, t.output) \subseteq readyQueue'
  BY DEF Routes, ProcessOutgoingEdges, Deactivate
<1>4. n \notin targets
  BY <1>2, <1>3 DEF ReadyNodes, ReadyTargets
<1>5. incomingEdges'[n] = incomingEdges[n]
  BY <1>3, <1>4
<1>6. PICK e \in InEdges(n) : e.src \in incomingEdges[n] /\ e \notin deactivatedEdges
  BY <1>2 DEF IsNodeReady, NoActiveIncoming
<1>7. e \in seeds \cup ForwardEdgesOf(C)
  BY <1>2, <1>3, <1>5, <1>6 DEF IsNodeReady, NoActiveIncoming
<1>8. ASSUME NEW k \in C PROVE Skipped(k)' /\ k \in Nodes
  <2>1. k \in Nodes /\ ~IsNodeReady(k) /\ IsNodeReady(k)' /\ k \notin acts
    BY <1>0, <1>8, RoutedReady DEF Routes, CutOff
  <2>2. k \notin Active /\ k \notin CalledNodes
    BY <1>0, <2>1, CalledActive, QuietGives
  <2>3. k \notin ReadyNodes(t.node, t.output)
    BY <1>0, <2>1, RoutedQueued DEF Routes
  <2>4. k \notin Active'
    BY <2>2, <2>3 DEF Routes, CallEnds, Active, Busy
  <2>5. ForwardEdgesOf({k}) \subseteq deactivatedEdges'
    BY <1>3 DEF ForwardEdgesOf
  <2>. QED BY <1>1, <2>1, <2>2, <2>4, <2>5 DEF Skipped, Idle
<1>9. CASE n \notin acts
  <2>1. NoActiveIncoming(n, deactivatedEdges \cup (seeds \cup ForwardEdgesOf(C)))
    BY <1>2, <1>3, <1>5 DEF IsNodeReady, NoActiveIncoming
  <2>2. \E f \in InEdges(n) : f \in (seeds \cup ForwardEdgesOf(C)) \ deactivatedEdges
    BY <1>6, <1>7
  <2>3. n \in C
    BY <1>9, <2>1, <2>2, CutOffClosed DEF ClosedUnderCascade
  <2>. QED BY <1>8, <2>3
<1>10. CASE n \in acts
  <2>1. n \in nodesWithActivatedEdge /\ e.dst = n
    BY <1>3, <1>4, <1>10 DEF InEdges
  <2>2. e \notin seeds
    <3>. SUFFICES ASSUME e \in seeds PROVE FALSE
      OBVIOUS
    <3>1. t.output.route \notin ExitHandles
      BY <1>0, <2>1, PassedNotActivated
    <3>2. n \in ReadyConvergences(t.node, t.output)
      BY <1>2, <1>4, <1>10, <2>1, <3>1 DEF ReadyConvergences
    <3>. QED BY <1>2, <1>3, <3>2 DEF ReadyNodes
  <2>3. e.src \in C /\ e.handle \notin BackHandles
    BY <1>7, <2>2 DEF ForwardEdgesOf
  <2>. QED BY <1>6, <1>8, <1>10, <2>3 DEF Stranded
<1>. QED BY <1>9, <1>10

LEMMA RoutedNodes ==
  ASSUME LoopsWired, ForwardAcyclic, NestInv, NodesInv, NEW t \in executing, CallEnds(t), Routes(t)
  PROVE  NodesInv'
<1>. DEFINE targets == ActivatedTargets(t.node, t.output)
<1>0. QuietInv /\ EdgeTypeOK /\ OpenEdgesLive
  BY DEF NestInv, QuietInv, LoopTypeOK, TypeOK
<1>1. /\ CalledNodes' = CalledNodes /\ t.node \in CalledNodes /\ t.node \notin Active'
      /\ \A k \in Nodes : Idle(k) => Idle(k)'
      /\ StatesOfCalled' /\ CalledInScope' /\ StartWasCalled'
  BY SettledCalls
<1>2. /\ nodesWithActivatedEdge' = nodesWithActivatedEdge \cup targets
      /\ deactivatedEdges \subseteq deactivatedEdges'
      /\ \A k \in Nodes : incomingEdges'[k] \subseteq incomingEdges[k]
  BY DEF Routes, ProcessOutgoingEdges, Deactivate
<1>3. \A k \in Nodes : (Skipped(k) => Skipped(k)') /\ (Stranded(k) => Stranded(k)')
  BY <1>1, <1>2, SkippedStays
<1>4. SourcesForward'
  BY <1>2 DEF NodesInv, SourcesForward
<1>5. IdleForAReason'
  BY <1>3, FallsIdle DEF NodesInv, IdleForAReason, Fed
<1>6. ASSUME NEW n \in targets
      PROVE  \E e \in InEdges(n) : e.handle \notin BackHandles /\ e.src = t.node
  <2>1. PICK e \in OutEdges(t.node) : e.dst = n /\ ShouldActivate(e, t.output)
    BY <1>6 DEF ActivatedTargets
  <2>2. e \in InEdges(n) /\ e.src = t.node /\ e \in Edges
    BY <2>1 DEF OutEdges, InEdges
  <2>3. ASSUME e.handle \in BackHandles PROVE FALSE
    <3>1. e.handle = "loop_continue"
      BY <2>2, <2>3, ControlEdges
    <3>2. t.output.route = "loop_continue"
      BY <2>1, <3>1, HandlesAssumption
         DEF ShouldActivate, PortHandles, ControlHandles, LoopRoutes, ParallelRoutes
    <3>. QED BY <3>2 DEF Routes, Fires
  <2>. QED BY <2>2, <2>3
<1>7. ActivatedByCall'
  BY <1>1, <1>2, <1>6, ActivationsStay DEF ActivatedByCall
<1>8. CallsActivated'
  <2>1. ASSUME NEW n \in Nodes, n \in Active' PROVE n \in Active \/ n \in nodesWithActivatedEdge'
    <3>1. n \in Active \/ n \in ReadyNodes(t.node, t.output)
      BY <2>1 DEF Routes, CallEnds, Active, Busy
    <3>. QED BY <1>0, <3>1, RoutedQueued DEF Routes
  <2>. QED BY <1>1, <1>2, <2>1 DEF NodesInv, CallsActivated
<1>. QED BY <1>1, <1>4, <1>5, <1>7, <1>8 DEF NodesInv

(* Whoever routed its answer is waited for by no one.                          *)
LEMMA RoutedDelivered ==
  ASSUME LoopsWired, NestInv, NodesInv, Delivered, NEW t \in executing, CallEnds(t), Routes(t)
  PROVE  Delivered'
<1>. DEFINE n == t.node
            out == t.output
            targets == ActivatedTargets(n, out)
<1>0. QuietInv /\ out # None /\ n \in Nodes /\ out.kind = "done"
  BY QuietGives DEF NestInv, CallEnds, Routes
<1>1. CalledNodes' = CalledNodes /\ \A k \in Active : k = n \/ k \in Active'
  BY SettledCalls
<1>2. /\ deactivatedEdges \cup EdgesToDeactivate(n, out) \subseteq deactivatedEdges'
      /\ \A k \in Nodes : incomingEdges'[k] \subseteq incomingEdges[k]
      /\ \A k \in Nodes : k \in targets => n \notin incomingEdges'[k]
      /\ out.route # "loop_continue"
  BY DEF Routes, Fires, ProcessOutgoingEdges, Deactivate
<1>. SUFFICES ASSUME NEW e \in Edges, e.src \in CalledNodes', e.src \notin Active',
                     e.src \in incomingEdges'[e.dst], e \notin deactivatedEdges'
              PROVE  FALSE
  BY DEF Delivered
<1>3. e.dst \in Nodes /\ e.src \in incomingEdges[e.dst] /\ e \notin deactivatedEdges
  BY <1>2, EdgeEnds
<1>4. e.src = n
  BY <1>1, <1>3 DEF Delivered
<1>5. e \in OutEdges(n) /\ e.dst \notin targets
  BY <1>2, <1>3, <1>4 DEF OutEdges
<1>6. ~ShouldActivate(e, out) /\ e.handle \in ControlHandles
  BY <1>2, <1>5 DEF ActivatedTargets, EdgesToDeactivate
<1>7. e.handle \notin BackHandles
  BY <1>3, BackNotAwaited DEF NodesInv
<1>8. CASE e \in Forward
  <2>1. ~IsBypass(e)
    BY <1>8, EdgeKinds
  <2>2. PICK l \in Loops : n = EndOf[l] /\ e.handle = "loop_exit"
    BY <1>4, <1>6, <1>7, <2>1 DEF LoopsWired, BackHandles
  <2>3. out \in EndAnswers
    BY <1>0, <2>2, SentinelsInside DEF QuietInv, AnswersKnown
  <2>4. out.route = "loop_exit"
    BY <1>0, <1>2, <2>3 DEF EndAnswers, Result
  <2>. QED BY <1>6, <2>2, <2>4 DEF ShouldActivate
<1>9. CASE e \notin Forward
  <2>1. PICK l \in Loops : n = StartOf[l] /\ e.dst = EndOf[l] /\ e.handle = "loop_exit"
    BY <1>4, <1>7, <1>9, EdgeKinds
  <2>2. PICK f \in Forward : f.src = n /\ f.dst = EndOf[l]
    BY <1>3, <1>4, <2>1 DEF NodesInv, SourcesForward
  <2>0. \A g \in Forward : g.src = StartOf[l] => g.handle = "always"
    BY DEF LoopsWired, WiredByConstruction
  <2>3. f.handle = "always" /\ f \in OutEdges(n)
    BY <2>0, <2>1, <2>2 DEF OutEdges, Forward
  <2>4. out \in StartAnswers
    BY <1>0, <2>1, SentinelsInside DEF QuietInv, AnswersKnown
  <2>5. out.route = NoRoute \/ out.route = "loop_exit"
    BY <2>4 DEF StartAnswers, Result
  <2>6. NoRoute \notin ControlHandles /\ "loop_exit" \in ControlHandles
    BY HandlesAssumption DEF Handles, ControlHandles, LoopRoutes
  <2>7. ShouldActivate(e, out) \/ ShouldActivate(f, out)
    BY <2>1, <2>3, <2>5, <2>6 DEF ShouldActivate
  <2>. QED BY <1>5, <1>6, <2>1, <2>2, <2>3, <2>7 DEF ActivatedTargets
<1>. QED BY <1>8, <1>9

(* The cascade of an answer from outside stops at a loop that was started.      *)
LEMMA CutOffOutside ==
  ASSUME LoopsWired, QuietInv, NEW t \in executing, Routes(t), NEW l \in Loops,
         t.node \notin Inside(l), IsNodeReady(StartOf[l])
  PROVE  CutOff(EdgesToDeactivate(t.node, t.output), nodesWithActivatedEdge') \cap Inside(l) = {}
<1>. DEFINE seeds == EdgesToDeactivate(t.node, t.output)
            acts == nodesWithActivatedEdge'
            C == CutOff(seeds, acts)
            D == C \ Inside(l)
<1>0. EdgeTypeOK /\ OpenEdgesLive
  BY DEF QuietInv, LoopTypeOK, TypeOK
<1>1. StartOf[l] \notin C
  BY <1>0, SentinelsInside, RoutedReady DEF Routes
<1>2. C \in SUBSET (Nodes \ acts)
  BY DEF CutOff
<1>3. ASSUME NEW n \in Nodes \ acts,
             \E e \in InEdges(n) : e \in (seeds \cup ForwardEdgesOf(D)) \ deactivatedEdges,
             NoActiveIncoming(n, deactivatedEdges \cup (seeds \cup ForwardEdgesOf(D)))
      PROVE  n \in D
  <2>1. ForwardEdgesOf(D) \subseteq ForwardEdgesOf(C)
    BY DEF ForwardEdgesOf
  <2>2. /\ \E e \in InEdges(n) : e \in (seeds \cup ForwardEdgesOf(C)) \ deactivatedEdges
        /\ NoActiveIncoming(n, deactivatedEdges \cup (seeds \cup ForwardEdgesOf(C)))
    BY <1>3, <2>1 DEF NoActiveIncoming
  <2>3. n \in C
    BY <2>2, CutOffClosed DEF ClosedUnderCascade
  <2>4. n \notin Inside(l)
    <3>. SUFFICES ASSUME n \in Inside(l) PROVE FALSE
      OBVIOUS
    <3>1. PICK e \in InEdges(n) : e \in seeds \cup ForwardEdgesOf(D)
      BY <1>3
    <3>2. e \in Edges /\ e.dst = n /\ e.src \notin Inside(l)
      BY <3>1 DEF InEdges, EdgesToDeactivate, OutEdges, ForwardEdgesOf
    <3>3. n = StartOf[l]
      BY <3>2 DEF LoopsWired, WiredByConstruction
    <3>. QED BY <1>1, <2>3, <3>3
  <2>. QED BY <2>3, <2>4
<1>4. ClosedUnderCascade(D, seeds, acts)
  BY <1>3 DEF ClosedUnderCascade
<1>5. C \subseteq D
  BY <1>2, <1>4, CutOffBelow
<1>. QED BY <1>5

(* A loop that was started and not left has its end sentinel queued, or waiting: *)
(* routing queues it when it waits no more.                                   *)
LEMMA RoutedEndIsDue ==
  ASSUME LoopsWired, NestInv, QuietInv', NodesInv, EndIsDue, NEW t \in executing, CallEnds(t),
         Routes(t), BlockSettles(t) \/ SentinelSettles(t)
  PROVE  EndIsDue'
<1>. DEFINE targets == ActivatedTargets(t.node, t.output)
            seeds == EdgesToDeactivate(t.node, t.output)
            C == CutOff(seeds, nodesWithActivatedEdge')
<1>0. QuietInv /\ EdgeTypeOK /\ OpenEdgesLive /\ OpenEdgesLive' /\ t.output # None
  BY DEF NestInv, QuietInv, LoopTypeOK, TypeOK, CallEnds
<1>1. \A k \in Active : k = t.node \/ k \in Active'
  BY SettledCalls
<1>2. /\ deactivatedEdges' = deactivatedEdges \cup seeds \cup ForwardEdgesOf(C)
      /\ incomingEdges' = [k \in Nodes |-> IF k \in targets THEN incomingEdges[k] \ {t.node}
                                                            ELSE incomingEdges[k]]
      /\ ReadyNodes(t.node, t.output) \subseteq readyQueue'
  BY DEF Routes, ProcessOutgoingEdges, Deactivate
<1>. SUFFICES ASSUME NEW l \in Loops, scope'[l] # None
              PROVE  Exited(l)' \/ EndOf[l] \in Active' \/ ~IsNodeReady(EndOf[l])'
  BY DEF EndIsDue
<1>3. scope[l] # None
  BY <1>0, SettledScopes
<1>4. CASE t.node = EndOf[l]
  <2>1. SentinelSettles(t)
    BY <1>4, LoopAssumption DEF BlockSettles
  <2>2. t.output \in EndAnswers /\ t.output.kind = "done" /\ t.output.route # "loop_continue"
    BY <1>0, <1>4, <2>1, SentinelsInside DEF SentinelSettles, QuietInv, AnswersKnown
  <2>3. t.output.route = "loop_exit"
    BY <2>2 DEF EndAnswers, Result
  <2>4. blockStates'[EndOf[l]] = t.output
    BY <1>0, <1>4, <2>1, SentinelsInside DEF SentinelSettles, QuietInv, LoopTypeOK, TypeOK
  <2>. QED BY <1>0, <2>3, <2>4 DEF Exited
<1>5. CASE t.node # EndOf[l]
  <2>1. blockStates'[EndOf[l]] = blockStates[EndOf[l]]
    BY <1>0, <1>5, SentinelsInside DEF BlockSettles, SentinelSettles, QuietInv, LoopTypeOK, TypeOK
  <2>2. Exited(l) \/ EndOf[l] \in Active \/ ~IsNodeReady(EndOf[l])
    BY <1>3 DEF EndIsDue
  <2>3. ASSUME ~IsNodeReady(EndOf[l]), t.node \notin Inside(l) PROVE ~IsNodeReady(EndOf[l])'
    <3>1. PICK e \in InEdges(EndOf[l]) : e.src \in incomingEdges[EndOf[l]] /\ e \notin deactivatedEdges
      BY <2>3 DEF IsNodeReady, NoActiveIncoming
    <3>2. e.src \in Inside(l) /\ e \in Edges
      BY <3>1, SentinelsInside DEF InEdges, LoopsWired, WiredByConstruction
    <3>3. C \cap Inside(l) = {}
      BY <1>0, <1>3, <2>3, CutOffOutside DEF NodesInv, StartWasCalled
    <3>4. e \notin deactivatedEdges'
      BY <1>2, <2>3, <3>1, <3>2, <3>3 DEF EdgesToDeactivate, OutEdges, ForwardEdgesOf
    <3>5. e.src \in incomingEdges'[EndOf[l]]
      BY <1>2, <2>3, <3>1, <3>2, SentinelsInside
    <3>. QED BY <3>1, <3>4, <3>5 DEF IsNodeReady, NoActiveIncoming
  <2>4. ASSUME t.node \in Inside(l), IsNodeReady(EndOf[l])' PROVE EndOf[l] \in Active'
    <3>1. PICK k \in targets : k \in Inside(l) /\ Live(k)'
      BY <1>0, <1>5, <2>4, PassedOn DEF NestInv
    <3>2. k = EndOf[l]
      BY <1>0, <2>4, <3>1, LiveReachesNext
    <3>3. EndOf[l] \in ReadyTargets(t.node, t.output)
      BY <2>4, <3>2 DEF ReadyTargets
    <3>. QED BY <1>2, <3>3 DEF ReadyNodes, Active
  <2>5. Exited(l) => Exited(l)'
    BY <2>1 DEF Exited
  <2>. QED BY <1>1, <1>5, <2>2, <2>3, <2>4, <2>5
<1>. QED BY <1>4, <1>5

----------------------------------------------------------------------------
(* A loop goes back.                                                        *)

LEMMA BackCalls ==
  ASSUME LoopsWired, ForwardAcyclic, NestInv, NodesInv, NEW t \in executing, GoesBack(t),
         NEW l \in Loops, l = SubflowOf[t.node]
  PROVE  /\ t.node = EndOf[l] /\ EndOf[l] \in Active /\ scope[l] # None
         /\ CalledNodes' = CalledNodes \ Inside(l)
         /\ \A n \in Active' : n = StartOf[l] \/ (n \in Active /\ n \notin Inside(l))
         /\ \A n \in Active : n \notin Inside(l) => n \in Active'
         /\ nodesWithActivatedEdge' = (nodesWithActivatedEdge \ Inside(l)) \cup {StartOf[l]}
         /\ deactivatedEdges' = {e \in deactivatedEdges : e.src \notin Inside(l)}
         /\ \A n \in Nodes : incomingEdges'[n] \subseteq incomingEdges[n]
              \cup {e.src : e \in {f \in Forward : f.dst = n /\ f.src \in Inside(l)}}
         /\ StartOf[l] \in CalledNodes
         /\ IsNodeReady(StartOf[l])' /\ StartOf[l] \in Active'
<1>0. QuietInv /\ Entered
  BY DEF NestInv
<1>1. /\ t.node = EndOf[l] /\ ActivatedTargets(t.node, t.output) = {StartOf[l]}
      /\ ReadyNodes(t.node, t.output) = {k \in {StartOf[l]} : IsNodeReady(k)'}
      /\ Active \cap Inside(l) = {t.node}
  BY <1>0, BackFromEnd
<1>2. /\ \A n \in Nodes : mark'[n] = IF n \in Inside(l) THEN starts[n] ELSE mark[n]
      /\ UNCHANGED starts /\ executing' = executing \ {t}
      /\ \A n \in Active' : n = StartOf[l] \/ (n \in Active /\ n \notin Inside(l))
  BY <1>0, BackScopes
<1>3. CalledNodes' = CalledNodes \ Inside(l)
  BY <1>0, <1>2 DEF CalledNodes, QuietInv, LoopTypeOK, TypeOK
<1>4. /\ readyQueue' = readyQueue \cup ReadyNodes(t.node, t.output)
      /\ nodesWithActivatedEdge' = (nodesWithActivatedEdge \ Inside(l)) \cup {StartOf[l]}
      /\ deactivatedEdges' = {e \in deactivatedEdges : e.src \notin Inside(l)}
      /\ incomingEdges' = [n \in Nodes |-> IF n \in {StartOf[l]} THEN Restored(l, n) \ {EndOf[l]}
                                                                 ELSE Restored(l, n)]
  BY <1>1 DEF GoesBack
<1>5. ASSUME NEW n \in Active, n \notin Inside(l) PROVE n \in Active'
  <2>1. t.node \in Inside(l)
    BY <1>1, SentinelsInside
  <2>2. CASE n \in readyQueue
    BY <1>4, <2>2 DEF Active
  <2>3. CASE n \in Busy
    <3>1. PICK u \in executing : u.node = n
      BY <2>3 DEF Busy
    <3>2. u \in executing'
      BY <1>2, <1>5, <2>1, <3>1
    <3>. QED BY <3>1, <3>2 DEF Active, Busy
  <2>. QED BY <2>2, <2>3 DEF Active
<1>6. EndOf[l] \in Active /\ scope[l] # None
  BY <1>0, <1>1, QuietGives, SentinelsInside DEF Entered
<1>7. ASSUME NEW n \in Nodes
      PROVE  incomingEdges'[n] \subseteq incomingEdges[n]
               \cup {e.src : e \in {f \in Forward : f.dst = n /\ f.src \in Inside(l)}}
  <2>1. RestoredSources(l, n) \subseteq {e.src : e \in {f \in Forward : f.dst = n /\ f.src \in Inside(l)}}
    <3>1. \A f \in InEdges(n) : ~IsBypass(f) /\ f.handle \notin BackHandles => f \in Forward /\ f.dst = n
      BY EdgeKinds DEF InEdges
    <3>. QED BY <3>1 DEF RestoredSources
  <2>. QED BY <1>4, <2>1 DEF Restored
<1>8. StartOf[l] \in CalledNodes /\ IsNodeReady(StartOf[l])
  BY <1>1, <1>6, SentinelsInside DEF NodesInv, StartWasCalled
<1>9. IsNodeReady(StartOf[l])'
  <2>. SUFFICES ASSUME NEW e \in InEdges(StartOf[l]), e.src \in incomingEdges'[StartOf[l]]
                PROVE  e \in deactivatedEdges'
    BY DEF IsNodeReady, NoActiveIncoming
  <2>1. {g.src : g \in {f \in Forward : f.dst = StartOf[l] /\ f.src \in Inside(l)}} = {}
    <3>1. {f \in Forward : f.dst = StartOf[l] /\ f.src \in Inside(l)} = {}
      BY StartFedFromOutside
    <3>. QED BY <3>1
  <2>2. e.src \in incomingEdges[StartOf[l]]
    BY <1>7, <2>1, SentinelsInside
  <2>3. PICK f \in Forward : f.src = e.src /\ f.dst = StartOf[l]
    BY <2>2, SentinelsInside DEF NodesInv, SourcesForward
  <2>4. e.src \notin Inside(l)
    BY <2>3, StartFedFromOutside
  <2>. QED BY <1>4, <1>8, <2>2, <2>4 DEF IsNodeReady, NoActiveIncoming
<1>10. StartOf[l] \in Active'
  BY <1>1, <1>4, <1>9 DEF Active
<1>. QED BY <1>1, <1>2, <1>3, <1>4, <1>5, <1>6, <1>7, <1>8, <1>9, <1>10

LEMMA BackNodes ==
  ASSUME LoopsWired, ForwardAcyclic, NestInv, QuietInv', NodesInv, NEW t \in executing, GoesBack(t)
  PROVE  NodesInv'
<1>0. PICK l \in Loops : l = SubflowOf[t.node]
  BY BackFromEnd DEF NestInv
<1>1. /\ t.node = EndOf[l] /\ EndOf[l] \in Active /\ scope[l] # None
      /\ CalledNodes' = CalledNodes \ Inside(l)
      /\ \A n \in Active' : n = StartOf[l] \/ (n \in Active /\ n \notin Inside(l))
      /\ \A n \in Active : n \notin Inside(l) => n \in Active'
      /\ nodesWithActivatedEdge' = (nodesWithActivatedEdge \ Inside(l)) \cup {StartOf[l]}
      /\ deactivatedEdges' = {e \in deactivatedEdges : e.src \notin Inside(l)}
      /\ \A n \in Nodes : incomingEdges'[n] \subseteq incomingEdges[n]
           \cup {e.src : e \in {f \in Forward : f.dst = n /\ f.src \in Inside(l)}}
      /\ StartOf[l] \in CalledNodes
      /\ IsNodeReady(StartOf[l])' /\ StartOf[l] \in Active'
  BY <1>0, BackCalls
<1>2. /\ \A n \in Inside(l) : Live(n)'
      /\ \A n \in Nodes \ Inside(l) : IsNodeReady(n)' <=> IsNodeReady(n)
  BY <1>0, BackEdges DEF NestInv
<1>3. /\ \A m \in Loops : scope'[m] = IF m = l \/ m \notin Within(l) THEN scope[m] ELSE None
      /\ \A n \in Nodes : blockStates'[n] = IF n \in Inside(l) THEN None ELSE blockStates[n]
  BY <1>0, BackScopes DEF NestInv
<1>4. StartOf[l] \in Inside(l) /\ EndOf[l] \in Inside(l) /\ OpenEdgesLive'
  BY SentinelsInside DEF QuietInv
<1>5. \A e \in Edges : e.src \in Inside(l) /\ e.dst \notin Inside(l) => e.src = EndOf[l]
  BY DEF LoopsWired, WiredByConstruction
<1>6. \A n \in Nodes \ Inside(l) : (Idle(n)' <=> Idle(n)) /\ (Skipped(n) => Skipped(n)')
  <2>1. \A n \in Nodes \ Inside(l) : Idle(n)' <=> Idle(n)
    BY <1>1, <1>2, <1>4 DEF Idle
  <2>2. ASSUME NEW n \in Nodes \ Inside(l), Skipped(n) PROVE Skipped(n)'
    BY <1>1, <2>1, <2>2 DEF Skipped, ForwardEdgesOf
  <2>. QED BY <2>1, <2>2
<1>7. SourcesForward'
  BY <1>1 DEF NodesInv, SourcesForward
<1>8. IdleForAReason'
  <2>. SUFFICES ASSUME NEW n \in Fed, Idle(n)' PROVE Skipped(n)' \/ Stranded(n)'
    BY DEF IdleForAReason, Fed
  <2>1. n \in Nodes /\ n \notin Inside(l)
    <3>1. n # StartOf[l] /\ n \in Nodes
      BY <1>1 DEF Idle, Fed
    <3>2. n \notin Inside(l)
      BY <1>2, <1>4, <3>1, LiveReachesNext DEF Idle
    <3>. QED BY <3>1, <3>2
  <2>2. Skipped(n) \/ Stranded(n)
    BY <1>6, <2>1 DEF NodesInv, IdleForAReason
  <2>3. CASE Stranded(n)
    <3>1. PICK e \in InEdges(n) : e.handle \notin BackHandles /\ Skipped(e.src)
      BY <2>3 DEF Stranded
    <3>2. e.src \in Nodes /\ e.src # EndOf[l] /\ e.src \notin Inside(l)
      BY <1>1, <1>5, <2>1, <3>1, EdgeEnds DEF InEdges, Skipped, Idle
    <3>. QED BY <1>1, <1>6, <2>1, <2>3, <3>1, <3>2 DEF Stranded
  <2>. QED BY <1>6, <2>1, <2>2, <2>3
<1>9. ActivatedByCall'
  <2>. SUFFICES ASSUME NEW m \in Loops, NEW n \in Inside(m) \ {StartOf[m]}, n \in nodesWithActivatedEdge'
                PROVE  \E e \in InEdges(n) :
                         e.handle \notin BackHandles /\ e.src \in CalledNodes' /\ e.src \notin Active'
    BY DEF ActivatedByCall
  <2>1. n \in nodesWithActivatedEdge
    <3>1. n = StartOf[l] => n \in nodesWithActivatedEdge \/ n = Trigger
      BY <1>1, SentinelsInside DEF NodesInv, CallsActivated
    <3>2. n # Trigger
      BY DEF LoopsWired
    <3>. QED BY <1>1, <3>1, <3>2
  <2>2. PICK e \in InEdges(n) :
          e.handle \notin BackHandles /\ e.src \in CalledNodes /\ e.src \notin Active
    BY <2>1 DEF NodesInv, ActivatedByCall
  <2>3. e \in Edges /\ e.dst = n /\ e.src # EndOf[l]
    BY <1>1, <2>2 DEF InEdges
  <2>4. e.src \notin Inside(l)
    <3>1. CASE n = StartOf[l]
      <4>1. ~IsBypass(e)
        BY <2>3, <3>1, SentinelsInside DEF IsBypass, Ends
      <4>2. e \in Forward
        BY <2>2, <2>3, <4>1, EdgeKinds
      <4>. QED BY <2>3, <3>1, <4>2, StartFedFromOutside
    <3>2. CASE n # StartOf[l]
      BY <1>1, <1>5, <2>3, <3>2
    <3>. QED BY <3>1, <3>2
  <2>. QED BY <1>1, <1>4, <2>2, <2>4
<1>10. CallsActivated'
  <2>. SUFFICES ASSUME NEW n \in Nodes, n \in Active' \/ n \in CalledNodes', n # StartOf[l]
                PROVE  n \in nodesWithActivatedEdge' \/ n = Trigger
    BY <1>1 DEF CallsActivated
  <2>1. (n \in Active \/ n \in CalledNodes) /\ n \notin Inside(l)
    BY <1>1
  <2>. QED BY <1>1, <2>1 DEF NodesInv, CallsActivated
<1>11. StatesOfCalled'
  BY <1>1, <1>3 DEF NodesInv, StatesOfCalled
<1>12. CalledInScope'
  <2>. SUFFICES ASSUME NEW m \in Loops, NEW n \in Inside(m), n \in CalledNodes',
                       n # StartOf[m] \/ n \notin Active'
                PROVE  scope'[m] # None
    BY DEF CalledInScope
  <2>1. n \in CalledNodes /\ n \notin Inside(l) /\ n \in Nodes
    BY <1>1 DEF Inside
  <2>2. m \notin Within(l)
    BY <2>1, WithinNested
  <2>3. n # StartOf[m] \/ n \notin Active
    BY <1>1, <2>1
  <2>. QED BY <1>3, <2>1, <2>2, <2>3 DEF NodesInv, CalledInScope
<1>13. StartWasCalled'
  <2>. SUFFICES ASSUME NEW m \in Loops, scope'[m] # None
                PROVE  IsNodeReady(StartOf[m])' /\ (StartOf[m] \in Active' \/ StartOf[m] \in CalledNodes')
    BY DEF StartWasCalled
  <2>1. CASE m = l
    BY <1>1, <2>1
  <2>2. CASE m # l
    <3>1. m \notin Within(l) /\ scope[m] # None
      BY <1>3, <2>2
    <3>2. StartOf[m] \in Nodes \ Inside(l)
      BY <3>1, SentinelsInside DEF Inside
    <3>. QED BY <1>1, <1>2, <3>1, <3>2 DEF NodesInv, StartWasCalled
  <2>. QED BY <2>1, <2>2
<1>. QED BY <1>7, <1>8, <1>9, <1>10, <1>11, <1>12, <1>13 DEF NodesInv

LEMMA BackDue ==
  ASSUME LoopsWired, ForwardAcyclic, NestInv, QuietInv', NodesInv, Delivered, EndIsDue,
         NEW t \in executing, GoesBack(t)
  PROVE  Delivered' /\ EndIsDue'
<1>0. PICK l \in Loops : l = SubflowOf[t.node]
  BY BackFromEnd DEF NestInv
<1>1. /\ CalledNodes' = CalledNodes \ Inside(l)
      /\ \A n \in Active : n \notin Inside(l) => n \in Active'
      /\ deactivatedEdges' = {e \in deactivatedEdges : e.src \notin Inside(l)}
      /\ \A n \in Nodes : incomingEdges'[n] \subseteq incomingEdges[n]
           \cup {e.src : e \in {f \in Forward : f.dst = n /\ f.src \in Inside(l)}}
  BY <1>0, BackCalls
<1>2. /\ \A n \in Inside(l) : Live(n)'
      /\ \A n \in Nodes \ Inside(l) : IsNodeReady(n)' <=> IsNodeReady(n)
  BY <1>0, BackEdges DEF NestInv
<1>3. /\ \A m \in Loops : scope'[m] = IF m = l \/ m \notin Within(l) THEN scope[m] ELSE None
      /\ \A n \in Nodes : blockStates'[n] = IF n \in Inside(l) THEN None ELSE blockStates[n]
  BY <1>0, BackScopes DEF NestInv
<1>4. Delivered'
  <2>. SUFFICES ASSUME NEW e \in Edges, e.src \in CalledNodes', e.src \notin Active',
                       e.src \in incomingEdges'[e.dst]
                PROVE  e \in deactivatedEdges'
    BY DEF Delivered
  <2>1. e.src \in CalledNodes /\ e.src \notin Inside(l) /\ e.src \notin Active /\ e.dst \in Nodes
    BY <1>1, EdgeEnds
  <2>2. e.src \in incomingEdges[e.dst]
    BY <1>1, <2>1
  <2>. QED BY <1>1, <2>1, <2>2 DEF Delivered
<1>5. EndIsDue'
  <2>. SUFFICES ASSUME NEW m \in Loops, scope'[m] # None
                PROVE  Exited(m)' \/ EndOf[m] \in Active' \/ ~IsNodeReady(EndOf[m])'
    BY DEF EndIsDue
  <2>1. CASE m = l
    BY <1>2, <2>1, SentinelsInside, LiveReachesNext DEF QuietInv
  <2>2. CASE m # l
    <3>1. m \notin Within(l) /\ scope[m] # None
      BY <1>3, <2>2
    <3>2. EndOf[m] \in Nodes \ Inside(l)
      BY <3>1, SentinelsInside DEF Inside
    <3>3. Exited(m) => Exited(m)'
      BY <1>3, <3>2 DEF Exited
    <3>. QED BY <1>1, <1>2, <3>1, <3>2, <3>3 DEF EndIsDue
  <2>. QED BY <2>1, <2>2
<1>. QED BY <1>4, <1>5

----------------------------------------------------------------------------
(* How a run ends.                                                          *)

CleanFinish ==
  /\ responseOutputLocked => stoppedEarlyFlag
  /\ errorFlag => executionError # None
  /\ status # "running" => pc = "done"
  /\ pc \in {"waitAll", "done"} /\ ~Halted => ~HasWork
  /\ status = "success" /\ ~stoppedEarlyFlag => Unhindered /\ ~HasWork

(* What a settling call does to the flags. *)
LEMMA SettledFlags ==
  ASSUME QuietInv, NEW t \in executing, Completion(t)
  PROVE  /\ UNCHANGED <<pc, status, cancelledFlag>>
         /\ errorFlag => errorFlag' /\ executionError' = executionError
         /\ errorFlag' => errorFlag \/ executionError' = t.node
         /\ stoppedEarlyFlag => stoppedEarlyFlag'
         /\ pausedBlocks \subseteq pausedBlocks'
         /\ responseOutputLocked' => responseOutputLocked \/ stoppedEarlyFlag'
<1>1. CASE CompletionDropped(t) \/ CompletionThrows(t)
  BY <1>1 DEF CompletionDropped, CompletionThrows, Settles, loopVars, flagVars, errorVars
<1>2. CASE BlockCompletes(t)
  BY <1>2 DEF BlockCompletes, CompletionPauses, CompletionResponds, CompletionStops, CompletionRoutes,
              Handled, Settles, loopVars, errorVars
<1>3. CASE Passes(t) \/ GoesBack(t)
  BY <1>3 DEF Passes, GoesBack, SentinelCompletes, loopVars, errorVars
<1>. QED BY <1>1, <1>2, <1>3 DEF Completion

(* Unless a run is hindered, every call routes its answer, or goes back.       *)
LEMMA UnhinderedRoutes ==
  ASSUME LoopsWired, BranchesWired, QuietInv, NEW t \in executing, Completion(t), Unhindered'
  PROVE  GoesBack(t) \/ (CallEnds(t) /\ Routes(t) /\ (BlockSettles(t) \/ SentinelSettles(t)))
<1>1. ~CompletionDropped(t) /\ ~CompletionThrows(t)
  BY DEF CompletionDropped, CompletionThrows, QuietInv, OneCallAtATime, Frozen, flagVars, Unhindered
<1>2. CASE BlockCompletes(t)
  <2>1. /\ t.node \notin Sentinels /\ UNCHANGED history
        /\ Store(SubflowOf[t.node], t.node, <<t.node, t.nth>>)
    BY <1>2 DEF BlockCompletes, LoopsWired
  <2>2. CompletionRoutes(t)
    BY <1>2 DEF BlockCompletes, CompletionPauses, CompletionResponds, CompletionStops, Unhindered
  <2>3. Settles(t) /\ t.output # None /\ t.output.kind = "done"
    BY <2>2 DEF CompletionRoutes, Handled, Settles
  <2>4. t.output.route # "loop_continue"
    <3>1. t.output \in Results(t.node)
      BY <2>1, <2>3 DEF QuietInv, AnswersKnown
    <3>2. t.output.route \in Options \cup {NoRoute}
      BY <3>1, EngineAssumption DEF Results, Result
    <3>. QED BY <3>2, HandlesAssumption DEF Handles, ControlHandles, LoopRoutes
  <2>5. Fires(t.node, t.output)
    BY <2>3, <2>4, AnswersFire
  <2>6. Routes(t)
    BY <2>2, <2>3, <2>5 DEF CompletionRoutes, Routes
  <2>. QED BY <2>1, <2>3, <2>6 DEF Settles, CallEnds, BlockSettles, Moves
<1>3. CASE Passes(t)
  <2>1. /\ t.output # None /\ t.output.kind = "done" /\ t.output.route # "loop_continue"
        /\ t.node \in Sentinels
        /\ executing' = executing \ {t} /\ UNCHANGED <<starts, history, cancelledFlag>>
        /\ blockStates' = [blockStates EXCEPT ![t.node] = t.output]
        /\ IF t.node \in Ends THEN Store(ParentOf[SubflowOf[t.node]], t.node, <<t.node, t.nth>>)
           ELSE UNCHANGED scope
    BY <1>3 DEF Passes, SentinelCompletes, Sentinel, LoopsWired
  <2>2. t.node # StopAfter
    BY <1>3 DEF Passes, Unhindered
  <2>3. Fires(t.node, t.output)
    BY <2>1, AnswersFire
  <2>4. Routes(t)
    BY <1>3, <2>1, <2>2, <2>3 DEF Passes, Routes
  <2>. QED BY <2>1, <2>4 DEF CallEnds, SentinelSettles, Moves
<1>. QED BY <1>1, <1>2, <1>3 DEF Completion

LEMMA InitFinish == LoopInit => CleanFinish /\ Unhindered
BY DEF LoopInit, Init, CleanFinish, Unhindered, Halted

LEMMA FinishMain ==
  ASSUME CleanFinish, MainLoop
  PROVE  CleanFinish' /\ UNCHANGED <<errorFlag, stoppedEarlyFlag, pausedBlocks>>
<1>1. UNCHANGED <<flagVars, errorVars, cancelledFlag>>
  BY DEF MainLoop, ProcessQueue, WakeUp, LeaveLoop, AllSettled
<1>2. pc # "done" /\ status = "running"
  BY DEF MainLoop, ProcessQueue, WakeUp, LeaveLoop, AllSettled, CleanFinish
<1>3. CASE ProcessQueue \/ WakeUp
  <2>1. pc' \notin {"waitAll", "done"} /\ status' = "running"
    BY <1>2, <1>3 DEF ProcessQueue, WakeUp
  <2>. QED BY <1>1, <2>1 DEF CleanFinish, flagVars, errorVars
<1>4. CASE LeaveLoop /\ ~cancelledFlag
  <2>1. /\ pc' = "waitAll" /\ status' = "running" /\ (~HasWork \/ Halted)
        /\ UNCHANGED <<readyQueue, executing>>
    BY <1>2, <1>4 DEF LeaveLoop
  <2>. QED BY <1>1, <2>1 DEF CleanFinish, flagVars, errorVars, Halted, HasWork
<1>5. CASE (LeaveLoop /\ cancelledFlag) \/ AllSettled
  <2>1. /\ pc' = "done" /\ status' = Outcome /\ UNCHANGED <<readyQueue, executing>>
        /\ cancelledFlag \/ pc = "waitAll"
    BY <1>5 DEF LeaveLoop, AllSettled, Finish
  <2>2. ASSUME ~Halted PROVE ~HasWork
    BY <2>1, <2>2 DEF CleanFinish, Halted
  <2>3. ASSUME Outcome = "success", ~stoppedEarlyFlag PROVE Unhindered /\ ~Halted
    BY <2>3 DEF Outcome, CleanFinish, Unhindered, Halted
  <2>4. (HasWork' <=> HasWork) /\ (Halted' <=> Halted) /\ (Unhindered' <=> Unhindered)
    BY <1>1, <2>1 DEF HasWork, Halted, Unhindered, flagVars, errorVars
  <2>. QED BY <1>1, <2>1, <2>2, <2>3, <2>4 DEF CleanFinish, flagVars, errorVars
<1>. QED BY <1>1, <1>3, <1>4, <1>5 DEF MainLoop, flagVars, errorVars

LEMMA FinishSettles ==
  ASSUME QuietInv, CleanFinish, NEW t \in executing, Completion(t)
  PROVE  CleanFinish' /\ (Unhindered' => Unhindered)
<1>1. HasWork /\ t.node # None
  BY QuietGives, EdgesAssumption DEF HasWork
<1>2. Unhindered' => Unhindered
  BY SettledFlags DEF Unhindered
<1>3. Halted => Halted'
  BY SettledFlags DEF Halted
<1>. QED BY <1>1, <1>2, <1>3, SettledFlags DEF CleanFinish

LEMMA FinishReturns ==
  ASSUME QuietInv, CleanFinish, NEW t \in executing, Returns(t)
  PROVE  CleanFinish' /\ (Unhindered' <=> Unhindered)
<1>1. UNCHANGED <<flagVars, errorVars, cancelledFlag, loopVars, readyQueue>> /\ executing' # {}
  BY DEF Returns, BlockEnds, BlockReturns, StartReturns, EndReturns, Leaves, GoesOn, SentinelReturns, Returned
<1>2. HasWork /\ HasWork'
  BY <1>1 DEF HasWork
<1>. QED BY <1>1, <1>2 DEF CleanFinish, Unhindered, Halted, flagVars, errorVars, loopVars

LEMMA InitNodes == LoopsWired /\ LoopInit => NodesInv /\ Delivered /\ EndIsDue
<1>. SUFFICES ASSUME LoopsWired, LoopInit PROVE NodesInv /\ Delivered /\ EndIsDue
  OBVIOUS
<1>1. /\ Active = {Trigger} /\ CalledNodes = {} /\ nodesWithActivatedEdge = {}
      /\ \A n \in Nodes : blockStates[n] = None
      /\ \A l \in Loops : scope[l] = None
      /\ incomingEdges = [n \in Nodes |-> {e.src : e \in InEdges(n) \ SilentEdges}]
      /\ deactivatedEdges = {}
  BY DEF LoopInit, Init, EdgeInit, Active, Busy, CalledNodes
<1>2. SourcesForward
  <2>1. \A n \in Nodes : \A e \in InEdges(n) \ SilentEdges : e \in Forward /\ e.dst = n
    BY DEF InEdges, Forward
  <2>. QED BY <1>1, <2>1 DEF SourcesForward
<1>3. IdleForAReason
  <2>. SUFFICES ASSUME NEW n \in Fed PROVE ~IsNodeReady(n)
    BY DEF IdleForAReason, Idle
  <2>1. PICK f \in Forward : f.dst = n
    BY DEF Fed
  <2>2. f \in InEdges(n) \ SilentEdges /\ n \in Nodes
    BY <2>1 DEF Forward, InEdges, Fed
  <2>3. f.src \in incomingEdges[n] /\ f \notin deactivatedEdges
    BY <1>1, <2>2
  <2>. QED BY <2>2, <2>3 DEF IsNodeReady, NoActiveIncoming
<1>4. ActivatedByCall /\ CallsActivated /\ StatesOfCalled /\ CalledInScope /\ StartWasCalled
  BY <1>1 DEF ActivatedByCall, CallsActivated, StatesOfCalled, CalledInScope, StartWasCalled
<1>5. Delivered /\ EndIsDue
  BY <1>1 DEF Delivered, EndIsDue
<1>. QED BY <1>2, <1>3, <1>4, <1>5 DEF NodesInv

LEMMA SettledNodes ==
  ASSUME LoopsWired, ForwardAcyclic, NestInv, NodesInv, NEW t \in executing, CallEnds(t)
  PROVE  NodesInv'
<1>1. UNCHANGED <<edgeVars, readyQueue>> \/ Routes(t)
  BY DEF CallEnds, BlockSettles, SentinelSettles, Moves
<1>. QED BY <1>1, StillNodes, RoutedNodes

(* The account of the nodes of a run: what each waits for, and why.           *)
AccountInv ==
  /\ NestInv /\ NodesInv /\ CleanFinish
  /\ Unhindered => Delivered /\ EndIsDue

LEMMA AccountIdle ==
  ASSUME LoopsWired, AccountInv, UNCHANGED <<edgeVars, readyQueue, executing, starts, blockStates>>,
         UNCHANGED scopeVars, UNCHANGED <<errorFlag, stoppedEarlyFlag, pausedBlocks>>
  PROVE  NodesInv' /\ (Unhindered' => Delivered' /\ EndIsDue')
<1>1. /\ Active' = Active /\ UNCHANGED <<scope, mark>>
      /\ \A l \in Loops : Exited(l) => Exited(l)'
      /\ Unhindered' <=> Unhindered
  BY DEF Active, Busy, scopeVars, history, Exited, Unhindered
<1>2. QuietInv
  BY DEF AccountInv, NestInv
<1>3. NodesInv'
  BY <1>1, <1>2, NodesKept DEF AccountInv
<1>4. Delivered /\ EndIsDue => Delivered' /\ EndIsDue'
  BY <1>1, <1>2, DueKept
<1>. QED BY <1>1, <1>3, <1>4 DEF AccountInv

LEMMA AccountReturns ==
  ASSUME LoopsWired, AccountInv, NEW t \in executing, Returns(t)
  PROVE  NodesInv' /\ CleanFinish' /\ (Unhindered' => Delivered' /\ EndIsDue')
<1>1. NestInv /\ QuietInv
  BY DEF AccountInv, NestInv
<1>2. CleanFinish' /\ (Unhindered' <=> Unhindered)
  BY <1>1, FinishReturns DEF AccountInv
<1>3. NodesInv'
  BY <1>1, ReturnsKeep, NodesKept DEF AccountInv
<1>4. Delivered /\ EndIsDue => Delivered' /\ EndIsDue'
  BY <1>1, ReturnsKeep, DueKept
<1>. QED BY <1>2, <1>3, <1>4 DEF AccountInv

LEMMA AccountSettles ==
  ASSUME LoopsWired, BranchesWired, ForwardAcyclic, AccountInv, QuietInv',
         NEW t \in executing, Completion(t)
  PROVE  NodesInv' /\ CleanFinish' /\ (Unhindered' => Delivered' /\ EndIsDue')
<1>1. NestInv /\ QuietInv /\ NodesInv
  BY DEF AccountInv, NestInv
<1>2. CleanFinish' /\ (Unhindered' => Unhindered)
  BY <1>1, FinishSettles DEF AccountInv
<1>3. NodesInv'
  BY <1>1, CompletionShape, SettledNodes, BackNodes
<1>4. ASSUME Unhindered' PROVE Delivered' /\ EndIsDue'
  <2>1. Delivered /\ EndIsDue
    BY <1>2, <1>4 DEF AccountInv
  <2>2. GoesBack(t) \/ (CallEnds(t) /\ Routes(t) /\ (BlockSettles(t) \/ SentinelSettles(t)))
    BY <1>1, <1>4, UnhinderedRoutes
  <2>. QED BY <1>1, <2>1, <2>2, BackDue, RoutedDelivered, RoutedEndIsDue
<1>. QED BY <1>2, <1>3, <1>4

LEMMA NextAccount ==
  LoopsWired /\ BranchesWired /\ ForwardAcyclic /\ AccountInv /\ [LoopNext]_allVars => AccountInv'
<1>. SUFFICES ASSUME LoopsWired, BranchesWired, ForwardAcyclic, AccountInv, [LoopNext]_allVars
              PROVE  AccountInv'
  OBVIOUS
<1>1. NestInv' /\ QuietInv'
  BY NextNest DEF AccountInv, NestInv
<1>2. QuietInv /\ Entered /\ NodesInv /\ CleanFinish
  BY DEF AccountInv, NestInv
<1>. SUFFICES NodesInv' /\ CleanFinish' /\ (Unhindered' => Delivered' /\ EndIsDue')
  BY <1>1 DEF AccountInv
<1>3. CASE ProcessQueue /\ UNCHANGED scopeVars
  <2>1. CleanFinish' /\ (Unhindered' <=> Unhindered)
    BY <1>2, <1>3, FinishMain DEF MainLoop, Unhindered
  <2>. QED BY <1>2, <1>3, <2>1, QueueKeeps DEF AccountInv
<1>4. CASE (WakeUp \/ LeaveLoop \/ AllSettled) /\ UNCHANGED scopeVars
  <2>1. UNCHANGED <<edgeVars, readyQueue, executing, starts, blockStates>>
    BY <1>4 DEF WakeUp, LeaveLoop, AllSettled
  <2>2. CleanFinish' /\ UNCHANGED <<errorFlag, stoppedEarlyFlag, pausedBlocks>>
    BY <1>2, <1>4, FinishMain DEF MainLoop
  <2>. QED BY <1>4, <2>1, <2>2, AccountIdle
<1>5. CASE SignalCancelled /\ UNCHANGED scopeVars
  <2>1. /\ UNCHANGED <<edgeVars, readyQueue, executing, starts, blockStates>>
        /\ UNCHANGED <<flagVars, errorVars, loopVars>> /\ pc # "done" /\ cancelledFlag'
    BY <1>5 DEF SignalCancelled
  <2>2. CleanFinish'
    BY <1>2, <2>1 DEF CleanFinish, flagVars, errorVars, loopVars, Halted
  <2>. QED BY <1>5, <2>1, <2>2, AccountIdle DEF flagVars, errorVars
<1>6. CASE (Ended /\ UNCHANGED scopeVars) \/ UNCHANGED allVars
  <2>1. UNCHANGED vars /\ UNCHANGED scopeVars
    BY <1>6 DEF Ended, allVars
  <2>2. /\ UNCHANGED <<edgeVars, readyQueue, executing, starts, blockStates>>
        /\ UNCHANGED <<errorFlag, stoppedEarlyFlag, pausedBlocks>>
        /\ UNCHANGED <<flagVars, errorVars, loopVars, cancelledFlag>>
    BY <2>1 DEF vars, flagVars, errorVars, loopVars
  <2>3. CleanFinish'
    BY <1>2, <2>2 DEF CleanFinish, flagVars, errorVars, loopVars, Halted, HasWork, Unhindered
  <2>. QED BY <2>1, <2>2, <2>3, AccountIdle
<1>7. CASE \E t \in executing : Returns(t)
  BY <1>7, AccountReturns
<1>8. CASE \E t \in executing : Completion(t)
  BY <1>1, <1>8, AccountSettles
<1>. QED BY <1>3, <1>4, <1>5, <1>6, <1>7, <1>8 DEF LoopNext, MainLoop

(* A run is over, and has not left loop l, which it entered.                  *)
Abandoned(l) ==
  status = "success" /\ ~stoppedEarlyFlag /\ scope[l] # None /\ ~Exited(l)

AbandonedAtAJoin ==
  \A l \in Loops : Abandoned(l) => \E n \in Inside(l) : Stranded(n)

LEMMA AbandonedIsOver ==
  ASSUME AccountInv, NEW l \in Loops, Abandoned(l)
  PROVE  Active = {} /\ NodesInv /\ Delivered /\ EndIsDue
BY DEF AccountInv, CleanFinish, Abandoned, HasWork, Active, Busy

(* The first node of a loop that still waits waits for one that will not run:  *)
(* it was activated, and it is a join that the cascade passed by.             *)
LEMMA AbandonedHasStranded ==
  ASSUME LoopsWired, ForwardAcyclic, AccountInv, NEW l \in Loops, Abandoned(l)
  PROVE  \E n \in Inside(l) \ {StartOf[l]} : Stranded(n)
<1>1. Active = {} /\ NodesInv /\ Delivered /\ EndIsDue
  BY AbandonedIsOver
<1>2. StartOf[l] \in CalledNodes /\ IsNodeReady(StartOf[l]) /\ ~IsNodeReady(EndOf[l])
  BY <1>1 DEF NodesInv, StartWasCalled, EndIsDue, Abandoned
<1>. DEFINE W == {k \in Inside(l) : ~IsNodeReady(k)}
<1>3. W \in (SUBSET Nodes) \ {{}} /\ StartOf[l] \notin W
  BY <1>2, SentinelsInside DEF Inside
<1>4. PICK k \in W : \A e \in Forward : e.dst = k => e.src \notin W
  BY <1>3 DEF ForwardAcyclic
<1>5. PICK e \in InEdges(k) : e.src \in incomingEdges[k] /\ e \notin deactivatedEdges
  BY <1>4 DEF IsNodeReady, NoActiveIncoming
<1>6. e \in Edges /\ e.dst = k /\ k \in Inside(l) \ {StartOf[l]} /\ k \in Nodes
  BY <1>3, <1>4, <1>5 DEF InEdges, Inside
<1>7. e.src \in Inside(l) /\ e.src \in Nodes
  BY <1>6 DEF LoopsWired, WiredByConstruction, Inside
<1>8. PICK f \in Forward : f.src = e.src /\ f.dst = k
  BY <1>1, <1>5, <1>6 DEF NodesInv, SourcesForward
<1>9. IsNodeReady(e.src)
  BY <1>4, <1>7, <1>8
<1>10. e.src \notin CalledNodes
  BY <1>1, <1>5, <1>6 DEF Delivered
<1>11. Idle(e.src) /\ e.src # StartOf[l]
  BY <1>1, <1>2, <1>9, <1>10 DEF Idle
<1>12. e.src \in Fed
  <2>1. \A S \in (SUBSET Inside(l)) \ {{}} :
          StartOf[l] \notin S => \E g \in Forward : g.dst \in S
    BY DEF LoopsWired, WiredByConstruction
  <2>2. {e.src} \in (SUBSET Inside(l)) \ {{}} /\ StartOf[l] \notin {e.src}
    BY <1>7, <1>11
  <2>3. PICK g \in Forward : g.dst \in {e.src}
    BY <2>1, <2>2
  <2>. QED BY <1>7, <2>3 DEF Fed
<1>13. ~Skipped(e.src)
  <2>1. e.handle \notin BackHandles
    BY <1>1, <1>5, <1>6, BackNotAwaited DEF NodesInv
  <2>. QED BY <1>5, <1>6, <2>1 DEF Skipped, ForwardEdgesOf
<1>. QED BY <1>1, <1>7, <1>11, <1>12, <1>13 DEF NodesInv, IdleForAReason

LEMMA OnlyJoinsAreStranded ==
  ASSUME LoopsWired, OnlyEndsJoin, AccountInv, NEW l \in Loops, Abandoned(l),
         NEW n \in Inside(l) \ {StartOf[l]}, Stranded(n)
  PROVE  FALSE
<1>1. Active = {} /\ NodesInv /\ Delivered /\ EndIsDue
  BY AbandonedIsOver
<1>2. PICK e \in InEdges(n) : e.handle \notin BackHandles /\ Skipped(e.src)
  BY DEF Stranded
<1>3. n \in nodesWithActivatedEdge /\ IsNodeReady(n) /\ n \notin CalledNodes /\ n \in Nodes
  BY DEF Stranded, Idle, Inside
<1>4. CASE n \in Ends
  <2>1. PICK m \in Loops : n = EndOf[m]
    BY <1>4 DEF Ends
  <2>2. n \in Inside(m) \ {StartOf[m]}
    BY <2>1, SentinelsInside
  <2>3. PICK f \in InEdges(n) : f.src \in CalledNodes
    BY <1>1, <1>3, <2>2 DEF NodesInv, ActivatedByCall
  <2>4. f.src \in Inside(m)
    <3>1. f \in Edges /\ f.dst = n
      BY <2>3 DEF InEdges
    <3>2. \A g \in Edges : g.dst \in Inside(m) \ {StartOf[m]} => g.src \in Inside(m)
      BY DEF LoopsWired, WiredByConstruction
    <3>. QED BY <2>2, <3>1, <3>2
  <2>5. scope[m] # None
    BY <1>1, <2>3, <2>4 DEF NodesInv, CalledInScope
  <2>6. blockStates[n] # None
    BY <1>1, <1>3, <2>1, <2>5 DEF EndIsDue, Exited
  <2>. QED BY <1>1, <1>3, <2>6 DEF NodesInv, StatesOfCalled
<1>5. CASE n \notin Ends
  <2>1. PICK f \in InEdges(n) : f.handle \notin BackHandles /\ f.src \in CalledNodes
    BY <1>1, <1>3 DEF NodesInv, ActivatedByCall
  <2>2. \A g \in InEdges(n) : g \in Edges /\ g.dst = n /\ ~IsBypass(g)
    BY <1>5 DEF InEdges, IsBypass, Ends
  <2>3. e \in Forward /\ f \in Forward /\ e.dst = n /\ f.dst = n
    BY <1>2, <2>1, <2>2, EdgeKinds
  <2>4. e.src = f.src
    BY <1>5, <2>3 DEF OnlyEndsJoin
  <2>. QED BY <1>2, <2>1, <2>4 DEF Skipped, Idle
<1>. QED BY <1>4, <1>5

(* How a loop comes to be abandoned: a run that succeeds, and was not stopped  *)
(* early, has left every loop it entered, or a node of that loop is stranded, a *)
(* join that a feeder chose, and that stopped waiting when the cascade cut off  *)
(* the others: nothing looks at it again, and what follows waits for it.       *)
THEOREM LoopsAbandonedAtAJoin ==
  LoopsWired /\ BranchesWired /\ ForwardAcyclic => (LoopSpec => []AbandonedAtAJoin)
<1>. SUFFICES ASSUME LoopsWired, BranchesWired, ForwardAcyclic
              PROVE  LoopSpec => []AbandonedAtAJoin
  OBVIOUS
<1>1. LoopInit => AccountInv
  BY NestInit, InitNodes, InitFinish DEF AccountInv
<1>2. AccountInv /\ [LoopNext]_allVars => AccountInv'
  BY NextAccount
<1>3. AccountInv => AbandonedAtAJoin
  BY AbandonedHasStranded DEF AbandonedAtAJoin
<1>. QED BY <1>1, <1>2, <1>3, PTL DEF LoopSpec

(* Where branches of a loop meet again at end sentinels only, none is: a run    *)
(* that succeeds, and was not stopped early, has left every loop it entered,   *)
(* however deep a dead end in a body lies and whatever loops are around it.     *)
THEOREM LoopsAreLeft ==
  LoopsWired /\ BranchesWired /\ ForwardAcyclic /\ OnlyEndsJoin =>
    (LoopSpec => []NoLoopIsAbandoned)
<1>. SUFFICES ASSUME LoopsWired, BranchesWired, ForwardAcyclic, OnlyEndsJoin
              PROVE  LoopSpec => []NoLoopIsAbandoned
  OBVIOUS
<1>1. LoopInit => AccountInv
  BY NestInit, InitNodes, InitFinish DEF AccountInv
<1>2. AccountInv /\ [LoopNext]_allVars => AccountInv'
  BY NextAccount
<1>3. AccountInv => NoLoopIsAbandoned
  BY AbandonedHasStranded, OnlyJoinsAreStranded DEF NoLoopIsAbandoned, Abandoned
<1>. QED BY <1>1, <1>2, <1>3, PTL DEF LoopSpec

----------------------------------------------------------------------------
(* What sends a run into a loop.                                            *)

(* A call of a block has the output that is stored for it. *)
AnswersStored ==
  \A t \in executing : t.node \notin Sentinels => t.output = blockStates[t.node]

(* An activated start sentinel was activated from outside, by an output that is *)
(* still there.                                                             *)
EnteredFromOutside ==
  \A l \in Loops : StartOf[l] \in nodesWithActivatedEdge =>
    \/ StartOf[l] = Trigger
    \/ \E e \in InEdges(StartOf[l]) : e.src \notin Inside(l) /\ Promise!Taken(e)

EntryInv == AnswersStored /\ EnteredFromOutside

(* Outputs of blocks that had none, and no more activations. *)
LEMMA EntryKept ==
  ASSUME EnteredFromOutside, nodesWithActivatedEdge' \subseteq nodesWithActivatedEdge,
         \A n \in Nodes : blockStates[n] # None => blockStates'[n] = blockStates[n]
  PROVE  EnteredFromOutside'
<1>1. \A e \in Edges : Promise!Taken(e) => Promise!Taken(e)'
  BY EdgeEnds DEF Promise!Taken
<1>. QED BY <1>1 DEF EnteredFromOutside, InEdges

LEMMA EntryProcessQueue ==
  ASSUME QuietInv, EntryInv, ProcessQueue
  PROVE  EntryInv'
<1>1. UNCHANGED <<edgeVars, blockStates>>
  BY DEF ProcessQueue
<1>2. EnteredFromOutside'
  BY <1>1, EntryKept DEF EntryInv, edgeVars
<1>3. AnswersStored'
  <2>1. ASSUME NEW n \in readyQueue PROVE blockStates[n] = None
    BY <2>1 DEF QuietInv, CalledInRound, LoopTypeOK, TypeOK
  <2>. QED BY <1>1, <2>1, QueueActive DEF EntryInv, AnswersStored
<1>. QED BY <1>2, <1>3 DEF EntryInv

LEMMA EntryReturns ==
  ASSUME LoopsWired, NestInv, EntryInv, NEW t \in executing, Returns(t)
  PROVE  EntryInv'
<1>0. /\ LoopTypeOK /\ t.node \in Nodes /\ QuietInv /\ Entered
      /\ UNCHANGED edgeVars
  BY QuietGives, ReturnsKeep DEF NestInv, QuietInv
<1>1. CASE BlockEnds(t)
  <2>1. t.node \notin Sentinels /\ UNCHANGED readyQueue
    BY <1>0, <1>1, BlockShape
  <2>2. PICK out : /\ Returned(t, out)
                   /\ blockStates' = [blockStates EXCEPT ![t.node] = out]
    BY <1>0, <1>1, BlockShape
  <2>3. blockStates[t.node] = None
    BY <2>1, <2>2 DEF Returned, EntryInv, AnswersStored
  <2>4. \A n \in Nodes : blockStates'[n] = IF n = t.node THEN out ELSE blockStates[n]
    BY <1>0, <2>2 DEF LoopTypeOK, TypeOK
  <2>5. EnteredFromOutside'
    BY <1>0, <2>3, <2>4, EntryKept DEF EntryInv, edgeVars
  <2>6. AnswersStored'
    <3>. SUFFICES ASSUME NEW v \in executing', v.node \notin Sentinels PROVE v.output = blockStates'[v.node]
      BY DEF AnswersStored
    <3>1. v \in executing \ {t} \/ (v.node = t.node /\ v.output = out)
      BY <1>0, <2>1, <2>2, ReturnedActive
    <3>2. v \in executing \ {t} => v.node # t.node /\ v.node \in Nodes /\ v.output = blockStates[v.node]
      BY QuietGives, <1>0 DEF QuietInv, OneCallAtATime, EntryInv, AnswersStored
    <3>. QED BY <1>0, <2>4, <3>1, <3>2
  <2>. QED BY <2>5, <2>6 DEF EntryInv
<1>2. CASE StartReturns(t) \/ EndReturns(t)
  <2>1. t.node \in Sentinels /\ UNCHANGED <<readyQueue, blockStates>>
    <3>1. t.node \in Sentinels
      BY <1>2 DEF StartReturns, EndReturns, LoopsWired
    <3>2. UNCHANGED <<readyQueue, blockStates>>
      BY <1>0, <1>2, StartShape, EndShape
    <3>. QED BY <3>1, <3>2
  <2>2. \E out : Returned(t, out)
    BY <1>2 DEF StartReturns, EndReturns, SentinelReturns, Leaves, GoesOn
  <2>3. EnteredFromOutside'
    BY <1>0, <2>1, EntryKept DEF EntryInv, edgeVars
  <2>4. AnswersStored'
    BY <1>0, <2>1, <2>2, ReturnedActive DEF EntryInv, AnswersStored
  <2>. QED BY <2>3, <2>4 DEF EntryInv
<1>. QED BY <1>1, <1>2 DEF Returns

LEMMA EntryCallEnds ==
  ASSUME LoopsWired, ForwardAcyclic, QuietInv, EntryInv, NEW t \in executing, CallEnds(t)
  PROVE  EntryInv'
<1>0. /\ t.node \in Nodes /\ blockStates \in [Nodes -> BlockOutput \cup {None}]
      /\ executing' \subseteq executing
  BY QuietGives DEF QuietInv, LoopTypeOK, TypeOK, CallEnds
<1>1. \/ UNCHANGED blockStates
      \/ t.node \in Sentinels /\ blockStates' = [blockStates EXCEPT ![t.node] = t.output]
  BY DEF CallEnds, BlockSettles, SentinelSettles
<1>2. t.node \in Sentinels => blockStates[t.node] = None
  BY DEF QuietInv, CalledInRound
<1>3. \A n \in Nodes : blockStates[n] # None => blockStates'[n] = blockStates[n]
  BY <1>0, <1>1, <1>2
<1>4. AnswersStored'
  <2>1. \A n \in Nodes \ Sentinels : blockStates'[n] = blockStates[n]
    BY <1>0, <1>1
  <2>2. \A v \in executing : v.node \in Nodes
    BY QuietGives
  <2>. QED BY <1>0, <2>1, <2>2 DEF EntryInv, AnswersStored
<1>5. CASE UNCHANGED edgeVars
  BY <1>3, <1>4, <1>5, EntryKept DEF EntryInv, edgeVars
<1>6. CASE Routes(t) /\ (BlockSettles(t) \/ SentinelSettles(t))
  <2>1. blockStates'[t.node] = t.output /\ t.output # None /\ t.output.kind = "done"
        /\ t.output.route # "loop_continue"
    <3>1. CASE BlockSettles(t)
      <4>1. t.node \notin Sentinels /\ UNCHANGED blockStates /\ t.output.kind = "done" /\ t.output # None
        BY <1>6, <3>1 DEF BlockSettles, Routes, CallEnds
      <4>2. t.output \in Results(t.node)
        BY <4>1 DEF QuietInv, AnswersKnown
      <4>3. t.output.route \in Options \cup {NoRoute}
        BY <1>0, <4>2, EngineAssumption DEF Results, Result
      <4>4. t.output.route # "loop_continue"
        BY <4>3, HandlesAssumption DEF Handles, ControlHandles, LoopRoutes
      <4>. QED BY <4>1, <4>4 DEF EntryInv, AnswersStored
    <3>2. CASE SentinelSettles(t)
      BY <1>0, <3>2 DEF SentinelSettles, CallEnds
    <3>. QED BY <1>6, <3>1, <3>2
  <2>2. ASSUME NEW l \in Loops, StartOf[l] \in nodesWithActivatedEdge'
        PROVE  \/ StartOf[l] = Trigger
               \/ \E e \in InEdges(StartOf[l]) : e.src \notin Inside(l) /\ Promise!Taken(e)'
    <3>1. CASE StartOf[l] \in nodesWithActivatedEdge
      <4>1. \A e \in Edges : Promise!Taken(e) => Promise!Taken(e)'
        BY <1>3, EdgeEnds DEF Promise!Taken
      <4>. QED BY <3>1, <4>1 DEF EntryInv, EnteredFromOutside, InEdges
    <3>2. CASE StartOf[l] \notin nodesWithActivatedEdge
      <4>1. StartOf[l] \in ActivatedTargets(t.node, t.output)
        BY <1>6, <2>2, <3>2 DEF Routes, ProcessOutgoingEdges
      <4>2. PICK e \in OutEdges(t.node) : e.dst = StartOf[l] /\ ShouldActivate(e, t.output)
        BY <4>1 DEF ActivatedTargets
      <4>3. e \in Edges /\ e.src = t.node /\ e \in InEdges(StartOf[l])
        BY <4>2 DEF OutEdges, InEdges
      <4>4. Promise!Taken(e)'
        BY <2>1, <4>2, <4>3 DEF Promise!Taken, Promise!ShouldActivate, ShouldActivate,
             Promise!ControlHandles, Promise!LoopRoutes, Promise!ParallelRoutes,
             ControlHandles, LoopRoutes, ParallelRoutes
      <4>5. e.handle \notin BackHandles
        <5>1. e.handle \in BackHandles => e.handle = "loop_continue" /\ e.handle \in ControlHandles
          BY <4>3, ControlEdges DEF ControlHandles, LoopRoutes
        <5>. QED BY <2>1, <4>2, <5>1, HandlesAssumption DEF ShouldActivate, Handles, PortHandles
      <4>6. ~IsBypass(e)
        BY <4>2, SentinelsInside DEF IsBypass, Ends
      <4>7. e \in Forward
        BY <4>3, <4>5, <4>6, EdgeKinds
      <4>. QED BY <4>2, <4>3, <4>4, <4>7, StartFedFromOutside
    <3>. QED BY <3>1, <3>2
  <2>3. EnteredFromOutside'
    BY <2>2 DEF EnteredFromOutside
  <2>. QED BY <1>4, <2>3 DEF EntryInv
<1>. QED BY <1>5, <1>6 DEF CallEnds, BlockSettles, SentinelSettles, Moves

LEMMA EntryGoesBack ==
  ASSUME LoopsWired, ForwardAcyclic, NestInv, NodesInv, EntryInv, NEW t \in executing, GoesBack(t)
  PROVE  EntryInv'
<1>0. PICK l \in Loops : l = SubflowOf[t.node]
  BY BackFromEnd DEF NestInv
<1>1. /\ t.node = EndOf[l] /\ EndOf[l] \in Active /\ scope[l] # None
      /\ nodesWithActivatedEdge' = (nodesWithActivatedEdge \ Inside(l)) \cup {StartOf[l]}
  BY <1>0, BackCalls
<1>2. \A n \in Nodes : blockStates'[n] = IF n \in Inside(l) THEN None ELSE blockStates[n]
  BY <1>0, BackScopes DEF NestInv
<1>3. QuietInv /\ executing' = executing \ {t}
  BY DEF NestInv, GoesBack, SentinelCompletes
<1>4. AnswersStored'
  <2>. SUFFICES ASSUME NEW v \in executing', v.node \notin Sentinels PROVE v.output = blockStates'[v.node]
    BY DEF AnswersStored
  <2>1. v \in executing /\ v.node \in Active /\ v.node \in Nodes
    BY <1>3, QuietGives
  <2>2. v.node \notin Inside(l)
    <3>1. Active \cap Inside(l) = {EndOf[l]}
      BY <1>1, <1>3, QuietEnd DEF EndIsQuiet
    <3>2. EndOf[l] \in Sentinels
      BY LoopAssumption
    <3>. QED BY <2>1, <3>1, <3>2
  <2>. QED BY <1>2, <2>1, <2>2 DEF EntryInv, AnswersStored
<1>5. \A e \in Edges : e.src \notin Inside(l) /\ Promise!Taken(e) => Promise!Taken(e)'
  BY <1>2, EdgeEnds DEF Promise!Taken
<1>6. EnteredFromOutside'
  <2>. SUFFICES ASSUME NEW m \in Loops, StartOf[m] \in nodesWithActivatedEdge', StartOf[m] # Trigger
                PROVE  \E e \in InEdges(StartOf[m]) : e.src \notin Inside(m) /\ Promise!Taken(e)'
    BY DEF EnteredFromOutside
  <2>1. StartOf[m] \in nodesWithActivatedEdge
    <3>1. StartOf[m] = StartOf[l] => StartOf[m] \in nodesWithActivatedEdge
      BY <1>1, SentinelsInside DEF NodesInv, StartWasCalled, CallsActivated
    <3>. QED BY <1>1, <3>1
  <2>2. PICK e \in InEdges(StartOf[m]) : e.src \notin Inside(m) /\ Promise!Taken(e)
    BY <2>1 DEF EntryInv, EnteredFromOutside
  <2>3. e \in Edges /\ e.dst = StartOf[m]
    BY <2>2 DEF InEdges
  <2>4. e.src \notin Inside(l)
    <3>1. CASE StartOf[m] = StartOf[l]
      <4>1. m = l
        BY <3>1, SentinelsInside
      <4>. QED BY <2>2, <4>1
    <3>2. CASE StartOf[m] # StartOf[l]
      <4>1. StartOf[m] \notin Inside(l)
        BY <1>1, <3>2
      <4>2. e.src \in Inside(l) => e.src = EndOf[l]
        BY <2>3, <4>1 DEF LoopsWired, WiredByConstruction
      <4>3. blockStates[EndOf[l]] = None
        BY <1>1, LoopAssumption DEF NestInv, QuietInv, CalledInRound
      <4>. QED BY <2>2, <4>2, <4>3 DEF Promise!Taken
    <3>. QED BY <3>1, <3>2
  <2>. QED BY <1>5, <2>2, <2>3, <2>4
<1>. QED BY <1>4, <1>6 DEF EntryInv

LEMMA NextEntry ==
  ASSUME LoopsWired, BranchesWired, ForwardAcyclic, AccountInv, EntryInv, [LoopNext]_allVars
  PROVE  EntryInv'
<1>0. NestInv /\ QuietInv /\ NodesInv
  BY DEF AccountInv, NestInv
<1>1. CASE \/ (WakeUp \/ LeaveLoop \/ AllSettled \/ SignalCancelled \/ Ended) /\ UNCHANGED scopeVars
           \/ UNCHANGED allVars
  <2>1. UNCHANGED <<edgeVars, executing, blockStates>>
    BY <1>1 DEF WakeUp, LeaveLoop, AllSettled, SignalCancelled, Ended, vars, allVars
  <2>2. EnteredFromOutside'
    BY <2>1, EntryKept DEF EntryInv, edgeVars
  <2>. QED BY <2>1, <2>2 DEF EntryInv, AnswersStored
<1>2. ASSUME NEW t \in executing, Completion(t) PROVE EntryInv'
  BY <1>0, <1>2, CompletionShape, EntryCallEnds, EntryGoesBack
<1>3. ASSUME NEW t \in executing, Returns(t) PROVE EntryInv'
  BY <1>0, <1>3, EntryReturns
<1>. QED BY <1>0, <1>1, <1>2, <1>3, EntryProcessQueue DEF LoopNext, MainLoop

LEMMA EntryGives ==
  ASSUME LoopsWired, AccountInv, EntryInv
  PROVE  OnlyEnteredLoopsRun
<1>. SUFFICES ASSUME NEW l \in Loops, NEW n \in (Busy \cap Inside(l)) \ Sentinels
              PROVE  \/ StartOf[l] = Trigger
                     \/ \E e \in InEdges(StartOf[l]) : e.src \notin Inside(l) /\ Promise!Taken(e)
  BY DEF OnlyEnteredLoopsRun
<1>1. n # StartOf[l] /\ n \in Active
  BY LoopAssumption DEF Active
<1>2. scope[l] # None
  BY <1>1 DEF AccountInv, NestInv, Entered
<1>3. StartOf[l] \in nodesWithActivatedEdge \/ StartOf[l] = Trigger
  BY <1>2, SentinelsInside DEF AccountInv, NodesInv, StartWasCalled, CallsActivated
<1>. QED BY <1>3 DEF EntryInv, EnteredFromOutside

(* Where every answer of a block fires an edge, or leads nowhere by a branch     *)
(* that was selected, the body of a loop runs only when an output from outside   *)
(* sent the run into it.  LoopUntaken shows the other case, a condition that     *)
(* selects no branch at all: nothing else lets a body run that was not entered. *)
THEOREM LoopsRunWhenEntered ==
  LoopsWired /\ BranchesWired /\ ForwardAcyclic => (LoopSpec => []OnlyEnteredLoopsRun)
<1>. SUFFICES ASSUME LoopsWired, BranchesWired, ForwardAcyclic
              PROVE  LoopSpec => []OnlyEnteredLoopsRun
  OBVIOUS
<1>1. LoopInit => AccountInv /\ EntryInv
  <2>1. LoopInit => AnswersStored /\ EnteredFromOutside
    BY DEF LoopInit, Init, EdgeInit, AnswersStored, EnteredFromOutside
  <2>. QED BY <2>1, NestInit, InitNodes, InitFinish DEF AccountInv, EntryInv
<1>2. AccountInv /\ EntryInv /\ [LoopNext]_allVars => AccountInv' /\ EntryInv'
  BY NextAccount, NextEntry
<1>3. AccountInv /\ EntryInv => OnlyEnteredLoopsRun
  BY EntryGives
<1>. QED BY <1>1, <1>2, <1>3, PTL DEF LoopSpec
=============================================================================

--------------------------- MODULE WorkflowEngine ---------------------------
(***************************************************************************)
(* One run of a workflow by ExecutionEngine                                *)
(* (apps/sim/executor/execution/engine.ts), with the part of the node      *)
(* orchestrator and block executor a block outside every loop and parallel *)
(* goes through.                                                           *)
(*                                                                         *)
(* The run loop and every executeNodeAsync call are tasks of one event     *)
(* loop: what the code does between two awaits is one action here, and     *)
(* the tasks interleave at the awaits.  The main loop always drains the    *)
(* ready queue whole, without an await, so the queue's order is not kept.  *)
(***************************************************************************)
EXTENDS EdgeManager

CONSTANTS
  Decisions,    \* condition and router blocks
  Pauses,       \* human-in-the-loop and wait blocks, whose output is a pause
  Responses,    \* Response blocks
  Fallible,     \* blocks whose handler may throw
  StopAfter,    \* stopAfterBlockId, or None
  OptionsOf,    \* [Decisions -> the options a decision may select; NoRoute: none, without an else]
  MayCancel     \* whether the run may be cancelled

ASSUME EngineAssumption ==
  /\ Decisions \subseteq Nodes /\ Pauses \subseteq Nodes
  /\ Responses \subseteq Nodes /\ Fallible \subseteq Nodes
  /\ OptionsOf \in [Decisions -> SUBSET (Options \cup {NoRoute})]
  /\ StopAfter \in Nodes \cup {None}
  /\ MayCancel \in BOOLEAN

VARIABLES
  readyQueue,           \* nodes waiting for the main loop
  executing,            \* in-flight executeNodeAsync calls
  awaited,              \* the calls waitForAnyExecution races on
  starts,               \* [Nodes -> number of executeNodeAsync calls made for it]
  blockStates,          \* [Nodes -> the output the block executor stored, or None]
  pausedBlocks,         \* nodes whose pause is recorded
  finalOutput,          \* the node whose output the run returns, or None
  responseOutputLocked,
  stoppedEarlyFlag,
  cancelledFlag,
  errorFlag,
  executionError,       \* the node whose error is reported, or None
  pc,                   \* where run() is: "loop", "waitAny", "waitAll", "done"
  status                \* what run() returned or threw, "running" before

flagVars  == <<finalOutput, responseOutputLocked, stoppedEarlyFlag, pausedBlocks>>
errorVars == <<errorFlag, executionError>>
loopVars  == <<awaited, pc, status>>
vars == <<edgeVars, readyQueue, executing, starts, blockStates, flagVars, errorVars,
          cancelledFlag, loopVars>>

executedBlocks == {n \in Nodes : blockStates[n] # None}

(* An executeNodeAsync call: its node, its number, whether the node had not  *)
(* executed when the call began (~wasAlreadyExecuted), and its output once   *)
(* the node orchestrator has returned it.                                    *)
Task == [node : Nodes, nth : Nat \ {0}, fresh : BOOLEAN, output : BlockOutput \cup {None}]

Promises(tasks) == {<<t.node, t.nth>> : t \in tasks}

TypeOK ==
  /\ EdgeTypeOK
  /\ readyQueue \in SUBSET Nodes
  /\ executing \in SUBSET Task
  /\ awaited \in SUBSET (Nodes \X (Nat \ {0}))
  /\ starts \in [Nodes -> Nat]
  /\ blockStates \in [Nodes -> BlockOutput \cup {None}]
  /\ pausedBlocks \in SUBSET Nodes
  /\ finalOutput \in Nodes \cup {None} /\ executionError \in Nodes \cup {None}
  /\ responseOutputLocked \in BOOLEAN /\ stoppedEarlyFlag \in BOOLEAN
  /\ cancelledFlag \in BOOLEAN /\ errorFlag \in BOOLEAN
  /\ pc \in {"loop", "waitAny", "waitAll", "done"}
  /\ status \in {"running", "success", "paused", "cancelled", "failed"}

Init ==
  /\ EdgeInit
  /\ readyQueue = {Trigger}
  /\ executing = {} /\ awaited = {}
  /\ starts = [n \in Nodes |-> 0]
  /\ blockStates = [n \in Nodes |-> None]
  /\ pausedBlocks = {}
  /\ finalOutput = None /\ executionError = None
  /\ responseOutputLocked = FALSE /\ stoppedEarlyFlag = FALSE
  /\ cancelledFlag = FALSE /\ errorFlag = FALSE
  /\ pc = "loop" /\ status = "running"

----------------------------------------------------------------------------
(* The main loop of run().                                                  *)

HasWork == readyQueue # {} \/ executing # {}
Halted  == cancelledFlag \/ errorFlag \/ stoppedEarlyFlag

(* The race is built before the queue is drained. *)
WrongWaitSet ==
  /\ pc = "loop" /\ HasWork /\ ~Halted
  /\ awaited' = Promises(executing)
  /\ executing' = executing \cup
       {[node |-> n, nth |-> starts[n] + 1, fresh |-> n \notin executedBlocks,
         output |-> None] : n \in readyQueue}
  /\ starts' = [n \in Nodes |-> IF n \in readyQueue THEN starts[n] + 1 ELSE starts[n]]
  /\ readyQueue' = {}
  /\ pc' = "waitAny"
  /\ UNCHANGED <<edgeVars, blockStates, flagVars, errorVars, cancelledFlag, status>>

(* processQueue starts a call for every queued node, then waits for one.    *)
ProcessQueue ==
  /\ pc = "loop" /\ HasWork /\ ~Halted
  /\ executing' = executing \cup
       {[node |-> n, nth |-> starts[n] + 1, fresh |-> n \notin executedBlocks,
         output |-> None] : n \in readyQueue}
  /\ starts' = [n \in Nodes |-> IF n \in readyQueue THEN starts[n] + 1 ELSE starts[n]]
  /\ readyQueue' = {}
  /\ awaited' = Promises(executing')
  /\ pc' = "waitAny"
  /\ UNCHANGED <<edgeVars, blockStates, flagVars, errorVars, cancelledFlag, status>>

(* Only the calls are raced on, not the abort promise. *)
WrongWakeUp ==
  /\ pc = "waitAny"
  /\ ~(awaited \subseteq Promises(executing))
  /\ awaited' = {}
  /\ pc' = "loop"
  /\ UNCHANGED <<edgeVars, readyQueue, executing, starts, blockStates, flagVars, errorVars,
                 cancelledFlag, status>>

(* Promise.race: one of the raced calls settled, or the abort promise did.  *)
WakeUp ==
  /\ pc = "waitAny"
  /\ cancelledFlag \/ ~(awaited \subseteq Promises(executing))
  /\ awaited' = {}
  /\ pc' = "loop"
  /\ UNCHANGED <<edgeVars, readyQueue, executing, starts, blockStates, flagVars, errorVars,
                 cancelledFlag, status>>

(* A recorded error is thrown unless a Response locked the output; then a    *)
(* pause comes before a cancellation, and the catch block turns a thrown     *)
(* error into a cancellation.                                                *)
Outcome ==
  IF errorFlag /\ executionError # None /\ ~responseOutputLocked
  THEN IF cancelledFlag THEN "cancelled" ELSE "failed"
  ELSE IF pausedBlocks # {} THEN "paused"
  ELSE IF cancelledFlag THEN "cancelled" ELSE "success"

Finish ==
  /\ pc' = "done"
  /\ status' = Outcome
  /\ UNCHANGED awaited

(* A stopped run returns without waiting for the calls in flight. *)
WrongLeaveLoop ==
  /\ pc = "loop" /\ (~HasWork \/ Halted)
  /\ Finish
  /\ UNCHANGED <<edgeVars, readyQueue, executing, starts, blockStates, flagVars, errorVars,
                 cancelledFlag>>

(* The loop ends: a cancelled run returns at once, any other first waits for *)
(* the calls in flight.                                                      *)
LeaveLoop ==
  /\ pc = "loop" /\ (~HasWork \/ Halted)
  /\ IF cancelledFlag THEN Finish
     ELSE pc' = "waitAll" /\ UNCHANGED <<awaited, status>>
  /\ UNCHANGED <<edgeVars, readyQueue, executing, starts, blockStates, flagVars, errorVars,
                 cancelledFlag>>

(* waitForAllExecutions: its race with the abort promise is followed by      *)
(* allSettled, so it ends only when no call is in flight.                    *)
AllSettled ==
  /\ pc = "waitAll" /\ executing = {}
  /\ Finish
  /\ UNCHANGED <<edgeVars, readyQueue, executing, starts, blockStates, flagVars, errorVars,
                 cancelledFlag>>

(* signalCancelled, from the abort signal or the cancellation channel; the   *)
(* listeners are removed when run() ends.                                    *)
SignalCancelled ==
  /\ MayCancel /\ ~cancelledFlag /\ pc # "done"
  /\ cancelledFlag' = TRUE
  /\ UNCHANGED <<edgeVars, readyQueue, executing, starts, blockStates, flagVars, errorVars,
                 loopVars>>

----------------------------------------------------------------------------
(* A block execution.                                                       *)

HasErrorPort(n) == \E e \in OutEdges(n) : e.handle = "error"

Result(kind, route, error) == [kind |-> kind, route |-> route, error |-> error]

(* What the handler of n may produce.  A decision selects one of its options *)
(* (none where it has no else); an error becomes an output where n has an     *)
(* error port, and is thrown otherwise.                                       *)
Results(n) ==
  (IF n \in Pauses THEN {Result("pause", NoRoute, FALSE)}
   ELSE {Result("done", r, FALSE) :
           r \in IF n \in Decisions THEN OptionsOf[n] ELSE {NoRoute}})
  \cup
  (IF n \notin Fallible THEN {}
   ELSE IF HasErrorPort(n) THEN {Result("done", NoRoute, TRUE)}
   ELSE {Result("throw", NoRoute, TRUE)})

(* The block executor stores the output when the handler ends, before the   *)
(* call reaches the queue lock; a node already executed answers from cache.  *)
BlockReturns(t) ==
  /\ t \in executing /\ t.output = None
  /\ \E out \in IF t.fresh THEN Results(t.node) ELSE {blockStates[t.node]} :
       /\ executing' = (executing \ {t}) \cup {[t EXCEPT !.output = out]}
       /\ blockStates' = [blockStates EXCEPT ![t.node] = out]
  /\ UNCHANGED <<edgeVars, readyQueue, starts, flagVars, errorVars, cancelledFlag, loopVars>>

(* The call holds the queue lock (or needs it not) and settles.              *)
Settles(t) ==
  /\ t \in executing /\ t.output # None
  /\ executing' = executing \ {t}
  /\ UNCHANGED <<starts, blockStates, cancelledFlag, loopVars>>

(* A completion after a Response is handled like any other. *)
WrongFrozen == FALSE

Frozen == stoppedEarlyFlag /\ responseOutputLocked

(* A completion the engine drops: the node had executed before, or a        *)
(* Response already ended the run.                                          *)
CompletionDropped(t) ==
  /\ Settles(t)
  /\ ~t.fresh \/ (Frozen /\ t.output.kind # "throw")
  /\ UNCHANGED <<edgeVars, readyQueue, flagVars, errorVars>>

(* trackExecution keeps the first error.                                     *)
CompletionThrows(t) ==
  /\ Settles(t)
  /\ t.fresh /\ t.output.kind = "throw"
  /\ errorFlag' = TRUE
  /\ executionError' = IF errorFlag THEN executionError ELSE t.node
  /\ UNCHANGED <<edgeVars, readyQueue, flagVars>>

Handled(t) == Settles(t) /\ t.fresh /\ ~Frozen /\ UNCHANGED errorVars

(* A pause also fires the block's edges. *)
WrongPause(t) ==
  /\ Handled(t)
  /\ t.output.kind = "pause"
  /\ pausedBlocks' = pausedBlocks \cup {t.node}
  /\ ProcessOutgoingEdges(t.node, t.output)
  /\ readyQueue' = readyQueue \cup ReadyNodes(t.node, t.output)
  /\ UNCHANGED <<finalOutput, responseOutputLocked, stoppedEarlyFlag>>

CompletionPauses(t) ==
  /\ Handled(t)
  /\ t.output.kind = "pause"
  /\ pausedBlocks' = pausedBlocks \cup {t.node}
  /\ UNCHANGED <<edgeVars, readyQueue, finalOutput, responseOutputLocked, stoppedEarlyFlag>>

(* The first Response locks the output; each one stops the run.              *)
CompletionResponds(t) ==
  /\ Handled(t)
  /\ t.output.kind = "done" /\ t.node \in Responses
  /\ finalOutput' = IF responseOutputLocked THEN finalOutput ELSE t.node
  /\ responseOutputLocked' = TRUE
  /\ stoppedEarlyFlag' = TRUE
  /\ UNCHANGED <<edgeVars, readyQueue, pausedBlocks>>

(* A node with no outgoing edge gives the run its output. *)
NextFinalOutput(n) ==
  IF OutEdges(n) = {} /\ ~responseOutputLocked THEN n ELSE finalOutput

CompletionStops(t) ==
  /\ Handled(t)
  /\ t.output.kind = "done" /\ t.node \notin Responses /\ t.node = StopAfter
  /\ finalOutput' = NextFinalOutput(t.node)
  /\ stoppedEarlyFlag' = TRUE
  /\ UNCHANGED <<edgeVars, readyQueue, pausedBlocks, responseOutputLocked>>

CompletionRoutes(t) ==
  /\ Handled(t)
  /\ t.output.kind = "done" /\ t.node \notin Responses /\ t.node # StopAfter
  /\ finalOutput' = NextFinalOutput(t.node)
  /\ ProcessOutgoingEdges(t.node, t.output)
  /\ readyQueue' = readyQueue \cup ReadyNodes(t.node, t.output)
  /\ UNCHANGED <<pausedBlocks, responseOutputLocked, stoppedEarlyFlag>>

Completes(t) ==
  \/ CompletionDropped(t)
  \/ CompletionThrows(t)
  \/ CompletionPauses(t)
  \/ CompletionResponds(t)
  \/ CompletionStops(t)
  \/ CompletionRoutes(t)

(* run() has returned and no call is left in flight: nothing happens any more. *)
Ended == pc = "done" /\ executing = {} /\ UNCHANGED vars

MainLoop == ProcessQueue \/ WakeUp \/ LeaveLoop \/ AllSettled

Next ==
  \/ MainLoop
  \/ SignalCancelled
  \/ \E t \in executing : BlockReturns(t) \/ Completes(t)
  \/ Ended

Spec == Init /\ [][Next]_vars

(* The call of n settles, as every completion of it does. *)
CallSettles(n) ==
  \E t \in executing : t.node = n /\ t.output # None /\ executing' = executing \ {t}

(* The event loop runs whatever is runnable of run().  Whether a handler ends *)
(* is up to the tool or model it waits for.                                  *)
Fairness == WF_vars(MainLoop)

FairSpec == Spec /\ Fairness

----------------------------------------------------------------------------
(* Properties.                                                              *)

(* The run keeps the documented promise: a block starts at most once, after *)
(* some feeder chose it and when every feeder has ended or is on a branch   *)
(* not taken, whatever the order in which blocks end.                       *)
Promise == INSTANCE DagRun WITH
  running <- {t.node : t \in {c \in executing : c.output = None}},
  outputs <- blockStates

KeepsPromise == Promise!Spec

(* A DAG without loops and parallels, whose trigger has no feeder. *)
PlainDag ==
  /\ SilentEdges = {}
  /\ \A e \in Edges : e.handle \notin ControlHandles /\ e.dst # Trigger

(* Why it does, on a PlainDag: the edge bookkeeping read as outputs.  A call *)
(* in flight is the only one of its node; a node queued or called is ready,  *)
(* and was activated by an output; a source no longer awaited has ended; a   *)
(* dead edge was refused, or leaves a block that is skipped.                 *)
EndedWithOutput(n) ==
  /\ blockStates[n] # None /\ blockStates[n].kind = "done"
  /\ \A t \in executing : t.node # n

OneCallPerNode ==
  /\ \A t \in executing : /\ starts[t.node] = 1 /\ t.nth = 1 /\ t.fresh
                           /\ t.output = blockStates[t.node]
  /\ \A n \in Nodes : /\ starts[n] \in {0, 1}
                      /\ starts[n] = 0 => blockStates[n] = None
                      /\ n \in readyQueue => starts[n] = 0

Called(n) == n \in readyQueue \/ starts[n] = 1

CalledWhenReady ==
  \A n \in Nodes : Called(n) =>
    IsNodeReady(n) /\ (n = Trigger \/ n \in nodesWithActivatedEdge)

ActivatedByOutput ==
  \A n \in nodesWithActivatedEdge : \E e \in InEdges(n) : Promise!Taken(e)

SettledSources ==
  \A e \in Edges : e.src \notin incomingEdges[e.dst] =>
    EndedWithOutput(e.src) /\ e.dst \in nodesWithActivatedEdge

DeadEdges ==
  \A e \in deactivatedEdges :
    \/ Promise!Refused(e) /\ EndedWithOutput(e.src)
    \/ e.src \in Promise!Skipped

(* The edge bookkeeping and the calls in flight agree with the outputs the    *)
(* blocks produced: what hasActiveIncomingEdges and isNodeReady rely on.      *)
IInv ==
  /\ TypeOK
  /\ OneCallPerNode
  /\ CalledWhenReady
  /\ ActivatedByOutput
  /\ SettledSources
  /\ DeadEdges

(* A locked Response output is what the run returns: blocks still in flight  *)
(* neither replace it nor pause the run nor move an edge.                    *)
ResponseIsFinal ==
  [][responseOutputLocked =>
       UNCHANGED <<finalOutput, pausedBlocks, edgeVars, readyQueue>>]_vars

(* The outcome a caller sees agrees with what happened: success means that  *)
(* nothing is in flight, queued or paused, and that an error was reported   *)
(* unless a Response had locked the output; a failure names its block.      *)
OutcomeIsHonest ==
  /\ status = "success" =>
       /\ executing = {} /\ pausedBlocks = {}
       /\ readyQueue = {} \/ stoppedEarlyFlag
       /\ errorFlag => finalOutput \in Responses
  /\ status = "failed" =>
       /\ executing = {} /\ executionError # None
       /\ blockStates[executionError].kind = "throw"
  /\ status = "paused" => pausedBlocks # {}

(* A recorded pause holds back every block that waits on the paused one,     *)
(* until the run is resumed from its snapshot.                               *)
PauseHoldsConsumers ==
  \A p \in pausedBlocks : \A e \in OutEdges(p) :
    /\ starts[e.dst] = 0
    /\ p \in incomingEdges[e.dst] /\ e \notin deactivatedEdges

(* A run that ended well, with nothing stopping it early, has run every block *)
(* that was due: the promise "a block starts the moment its dependencies      *)
(* finish, and it waits on nothing else".                                     *)
NothingLeftBehind ==
  status = "success" /\ ~stoppedEarlyFlag => \A n \in Nodes : ~Promise!Due(n)

(* What the edge manager does deliver of it: a block left behind has a feeder *)
(* that was cut off by a cascade, never one that ran.                         *)
LeftBehindOnlyByCascade ==
  status = "success" /\ ~stoppedEarlyFlag =>
    \A n \in Nodes : Promise!Due(n) => \E e \in InEdges(n) : e.src \in Promise!Skipped

(* Every run ends.                                                          *)
RunEnds == <>(pc = "done")

(* Every block call that is made ends and is handled: handlers are bounded by  *)
(* timeouts of their own, and the queue lock is released by its holder.       *)
CallsEnd ==
  \A n \in Nodes :
    /\ WF_vars(\E t \in executing : t.node = n /\ BlockReturns(t))
    /\ WF_executing(CallSettles(n))

(* A run whose calls end ends itself, whichever calls the main loop was        *)
(* waiting for and whatever they did to the queue and the flags meanwhile.    *)
RunEndsWithItsCalls == CallsEnd => RunEnds

(* A cancelled run returns although its calls may never end: the signal, at    *)
(* any moment, wakes a main loop that waits for a call, and the loop then      *)
(* waits for none ("should not wait for slow executions when cancelled").  A   *)
(* run that had left the loop is the exception: its last wait is for all calls. *)
CancelledRunReturns == (cancelledFlag /\ pc # "waitAll") ~> (pc = "done")
=============================================================================

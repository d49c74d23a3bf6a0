--------------------------- MODULE OperationQueue ---------------------------
(***************************************************************************)
(* The editor's queue of unsaved edits                                     *)
(* (apps/sim/stores/operation-queue/store.ts), with the realtime server    *)
(* that stores them (apps/realtime/src/handlers/subblocks.ts) as the queue *)
(* sees it.  One open workflow, one editing client.                        *)
(*                                                                         *)
(* An edit gives a Key (a field, a variable, a property of a block) a      *)
(* value.  The queue sends one operation and waits for its answer, retries *)
(* it when it fails or times out, and gives up by emptying itself and      *)
(* turning the editor read-only (hasOperationError, "offline mode").       *)
(*                                                                         *)
(* operations is a set: ids are given in the order of the calls and every  *)
(* call appends, so the array order is the order of the ids.               *)
(***************************************************************************)
EXTENDS Naturals

CONSTANTS
  Coalesced,   \* keys whose pending update a newer one replaces: subblocks, variables
  ById,        \* keys compared by block id alone: operations on target 'block'
  Others,      \* the rest, such as subflow settings
  Blocks,
  BlockOf,     \* [Keys -> Blocks]
  Removable,   \* blocks a collaborator may delete
  Values,
  MaxRetries,  \* [Keys -> Nat]: 5 for Coalesced, 3 for the rest
  MaxEdits,    \* bound on the user's edits
  MaxFaults,   \* bound on refusals, losses, disconnections and late answers
  None

Keys == Coalesced \cup ById \cup Others

ASSUME KeyAssumption ==
  /\ Coalesced \cap ById = {} /\ Coalesced \cap Others = {} /\ ById \cap Others = {}
  /\ BlockOf \in [Keys -> Blocks]
  /\ Removable \subseteq Blocks
ASSUME BoundAssumption ==
  /\ MaxRetries \in [Keys -> Nat] /\ MaxEdits \in Nat /\ MaxFaults \in Nat

VARIABLES
  operations,       \* the queue: set of [id, key, value, status, retryCount]
  isProcessing,
  hasOperationError,
  joined,           \* is the workflow registered, so that an emit goes out?
  operationTimers,  \* ids with a response timer running
  retryTimers,      \* running retry timers; held: still in the map retryTimeouts
  updates,          \* what the server has not finished: [id, nth, key, value, seen, live]
  answers,          \* what the server answered on this connection: [id, kind]
  stored,           \* [Keys -> Values \cup {None}], the database
  gone,             \* blocks a collaborator deleted
  edits,            \* how many operations the editor created
  faults,
  latest,           \* what the editor shows: the user's last edit of each key
  accepted,         \* the last edit of each key that addToQueue took
  skipped,          \* keys of a locked block, confirmed without being stored
  overlapped        \* was one sent while another awaited its answer or was being stored?

queueVars  == <<operations, isProcessing, hasOperationError, operationTimers, retryTimers>>
serverVars == <<stored, answers, skipped>>
editVars   == <<edits, latest, accepted>>
vars == <<queueVars, serverVars, editVars, joined, updates, gone, faults, overlapped>>

Ids == 1..MaxEdits

Ops == [id : Ids, key : Keys, value : Values,
        status : {"pending", "processing"}, retryCount : Nat]

(* The keys the server reads and writes back with k: the fields of a block  *)
(* are one JSON column.                                                     *)
RowOf(k) ==
  IF k \in Coalesced THEN {j \in Coalesced : BlockOf[j] = BlockOf[k]} ELSE {k}

QueueOK ==
  /\ operations \in SUBSET Ops
  /\ isProcessing \in BOOLEAN /\ hasOperationError \in BOOLEAN /\ joined \in BOOLEAN
  /\ operationTimers \in SUBSET Ids
  /\ retryTimers \in SUBSET [id : Ids, nth : Nat, held : BOOLEAN]
  /\ edits \in 0..MaxEdits

Update(u) ==
  /\ u.id \in Ids /\ u.nth \in Nat /\ u.key \in Keys /\ u.value \in Values
  /\ u.live \in BOOLEAN
  /\ u.seen # None => u.seen \in [RowOf(u.key) -> Values \cup {None}]

ServerOK ==
  /\ \A u \in updates : Update(u)
  /\ answers \in SUBSET [id : Ids, kind : {"confirmed", "retryable", "final"}]
  /\ stored \in [Keys -> Values \cup {None}]
  /\ gone \in SUBSET Blocks /\ skipped \in SUBSET Keys

TypeOK ==
  /\ QueueOK
  /\ ServerOK
  /\ latest \in [Keys -> Values \cup {None}]
  /\ accepted \in [Keys -> Values \cup {None}]
  /\ faults \in 0..MaxFaults /\ overlapped \in BOOLEAN

Init ==
  /\ operations = {} /\ operationTimers = {} /\ retryTimers = {}
  /\ isProcessing = FALSE /\ hasOperationError = FALSE /\ joined = FALSE
  /\ updates = {} /\ answers = {} /\ gone = {} /\ skipped = {}
  /\ stored = [k \in Keys |-> None] /\ latest = stored /\ accepted = stored
  /\ edits = 0 /\ faults = 0 /\ overlapped = FALSE

----------------------------------------------------------------------------
(* Helpers.  An operator that changes the queue takes the operations, the   *)
(* processing flag and the timers its caller has just computed.             *)

Pending(ops) == {op \in ops : op.status = "pending"}

(* The newest edit goes out first. *)
WrongNextOperation(ops) == {op \in Pending(ops) : \A other \in Pending(ops) : op.id >= other.id}

(* The first pending operation, as a set of at most one. *)
NextOperation(ops) == {op \in Pending(ops) : \A other \in Pending(ops) : op.id <= other.id}

(* emitSubblockUpdate and its siblings *)
Emit(op) ==
  updates' = updates \cup {[id |-> op.id, nth |-> op.retryCount, key |-> op.key,
                            value |-> op.value, seen |-> None, live |-> TRUE]}

(* processNextOperation: marks the first pending operation, emits it and    *)
(* starts its timer, unless one is being processed or none can go out.      *)
ProcessNext(registered, ops, busy, timers) ==
  \/ /\ busy \/ ~registered \/ Pending(ops) = {}
     /\ operations' = ops /\ isProcessing' = busy /\ operationTimers' = timers
     /\ UNCHANGED <<updates, overlapped>>
  \/ /\ ~busy /\ registered
     /\ \E op \in NextOperation(ops) :
          /\ operations' = (ops \ {op}) \cup {[op EXCEPT !.status = "processing"]}
          /\ isProcessing' = TRUE
          /\ operationTimers' = timers \cup {op.id}
          /\ Emit(op)
          /\ overlapped' = (overlapped \/ timers # {} \/ updates # {})

ProcessNextOperation(ops, busy, timers) == ProcessNext(joined, ops, busy, timers)

(* clearTimeout of the retry timers of ids that the map still holds. *)
WithoutRetryTimers(ids) == {t \in retryTimers : t.id \notin ids \/ ~t.held}

(* The map holds one timer of an id: the one set last. *)
Released(id) == {IF t.id = id THEN [t EXCEPT !.held = FALSE] ELSE t : t \in retryTimers}

----------------------------------------------------------------------------
(* The editor.                                                              *)

Superseded(k) == {op \in Pending(operations) : op.key = k /\ k \in Coalesced}

Duplicates(k, v) ==
  {op \in operations \ Superseded(k) : op.key = k /\ (k \in ById \/ op.value = v)}

(* addToQueue; the editor shows the edit whatever the queue does with it.   *)
(* A read-only editor makes no edits, and a deleted block has none.         *)
Edit(k, v) ==
  /\ ~hasOperationError /\ edits < MaxEdits
  /\ BlockOf[k] \notin gone /\ latest[k] # v
  /\ edits' = edits + 1
  /\ latest' = [latest EXCEPT ![k] = v]
  /\ IF Duplicates(k, v) # {}
     THEN UNCHANGED <<accepted, operations, isProcessing, operationTimers, updates, overlapped>>
     ELSE /\ accepted' = [accepted EXCEPT ![k] = v]
          /\ ProcessNextOperation(
               (operations \ Superseded(k)) \cup
                 {[id |-> edits + 1, key |-> k, value |-> v, status |-> "pending", retryCount |-> 0]},
               isProcessing, operationTimers)
  /\ UNCHANGED <<hasOperationError, retryTimers, serverVars, joined, gone, faults>>

(* confirmOperation, for an operation that may have left the queue. *)
ConfirmOperation(id) ==
  /\ retryTimers' = WithoutRetryTimers({id})
  /\ ProcessNextOperation({op \in operations : op.id # id}, FALSE, operationTimers \ {id})
  /\ UNCHANGED hasOperationError

(* triggerOfflineMode *)
TriggerOfflineMode ==
  /\ operations' = {} /\ isProcessing' = FALSE /\ hasOperationError' = TRUE
  /\ operationTimers' = {} /\ retryTimers' = {t \in retryTimers : ~t.held}
  /\ UNCHANGED <<updates, overlapped>>

(* dropOperationForMissingTarget: the block was deleted meanwhile. *)
DropOperation(op) ==
  /\ ProcessNextOperation(operations \ {op}, FALSE, operationTimers \ {op.id})
  /\ UNCHANGED <<hasOperationError, retryTimers>>

(* The attempts are not counted. *)
WrongRetry(op) ==
  /\ operations' = (operations \ {op}) \cup {[op EXCEPT !.status = "pending"]}
  /\ isProcessing' = FALSE
  /\ operationTimers' = operationTimers \ {op.id}
  /\ retryTimers' = Released(op.id) \cup {[id |-> op.id, nth |-> op.retryCount + 1, held |-> TRUE]}
  /\ UNCHANGED <<hasOperationError, updates, overlapped>>

Retry(op) ==
  /\ operations' = (operations \ {op}) \cup
                     {[op EXCEPT !.status = "pending", !.retryCount = op.retryCount + 1]}
  /\ isProcessing' = FALSE
  /\ operationTimers' = operationTimers \ {op.id}
  /\ retryTimers' = Released(op.id) \cup {[id |-> op.id, nth |-> op.retryCount + 1, held |-> TRUE]}
  /\ UNCHANGED <<hasOperationError, updates, overlapped>>

(* failOperation; timers are the response timers still set.                 *)
FailOperation(id, retryable) ==
  LET failed == {op \in operations : op.id = id}
  IN  \/ failed = {} /\ UNCHANGED <<queueVars, updates, overlapped>>
      \/ \E op \in failed :
           \/ retryable /\ op.retryCount < MaxRetries[op.key] /\ Retry(op)
           \/ /\ ~retryable \/ op.retryCount >= MaxRetries[op.key]
              /\ IF BlockOf[op.key] \in gone THEN DropOperation(op) ELSE TriggerOfflineMode

(* handleOperationConfirmed, handleOperationFailed *)
Answered(a) ==
  /\ answers' = answers \ {a}
  /\ \/ a.kind = "confirmed" /\ ConfirmOperation(a.id)
     \/ a.kind # "confirmed" /\ FailOperation(a.id, a.kind = "retryable")
  /\ UNCHANGED <<stored, skipped, editVars, joined, gone, faults>>

AwaitsAnswer(id) == (\E u \in updates : u.id = id) \/ (\E a \in answers : a.id = id)

(* handleOperationTimeout: no answer is to come, or it is late. *)
OperationTimesOut(id) ==
  /\ id \in operationTimers
  /\ \/ ~AwaitsAnswer(id) /\ UNCHANGED faults
     \/ AwaitsAnswer(id) /\ faults < MaxFaults /\ faults' = faults + 1
  /\ FailOperation(id, TRUE)
  /\ UNCHANGED <<serverVars, editVars, joined, gone>>

(* The retry timer of failOperation. *)
RetryFires(t) ==
  /\ retryTimers' = Released(t.id) \ {[t EXCEPT !.held = FALSE]}
  /\ ProcessNextOperation(operations, isProcessing, operationTimers)
  /\ UNCHANGED <<hasOperationError, serverVars, editVars, joined, gone, faults>>

(* A collaborator deletes block b: cancelOperationsForBlock. *)
BlockRemoved(b) ==
  LET cancelled == {op \in operations : BlockOf[op.key] = b /\ op.key \notin Others}
      ids       == {op.id : op \in cancelled}
  IN  /\ joined /\ b \in Removable \ gone
      /\ gone' = gone \cup {b}
      /\ retryTimers' = WithoutRetryTimers(ids)
      /\ ProcessNextOperation(operations \ cancelled, FALSE, operationTimers \ ids)
      /\ UNCHANGED <<hasOperationError, serverVars, editVars, joined, faults>>

(* registerEmitFunctions forgets the operations that were left pending. *)
WrongRegister == UNCHANGED <<operations, isProcessing, operationTimers, updates, overlapped>>

(* registerEmitFunctions with the id of the workflow whose room is joined. *)
RegisterEmitFunctions == ProcessNext(TRUE, operations, isProcessing, operationTimers)

(* join-workflow-success, first or after a reconnection *)
Joins ==
  /\ ~joined /\ joined' = TRUE
  /\ RegisterEmitFunctions
  /\ UNCHANGED <<hasOperationError, retryTimers, serverVars, editVars, gone, faults>>

(* disconnect: the answers under way are lost, and the server no longer     *)
(* knows whom to answer (cleanupPendingSubblocksForSocket).                 *)
Disconnects ==
  /\ joined /\ faults < MaxFaults
  /\ joined' = FALSE /\ faults' = faults + 1
  /\ answers' = {}
  /\ updates' = {[u EXCEPT !.live = FALSE] : u \in updates}
  /\ UNCHANGED <<queueVars, stored, skipped, editVars, gone, overlapped>>

----------------------------------------------------------------------------
(* The server.  flushSubblockUpdate reads the row of the block, then writes *)
(* it back with the new value; the transaction does not lock the row.       *)

Finishes(u, kind) ==
  /\ updates' = updates \ {u}
  /\ answers' = IF u.live THEN answers \cup {[id |-> u.id, kind |-> kind]} ELSE answers

ServerOnly == UNCHANGED <<queueVars, editVars, joined, gone, overlapped>>

Reads(u) ==
  /\ u.seen = None /\ BlockOf[u.key] \notin gone
  /\ updates' = (updates \ {u}) \cup {[u EXCEPT !.seen = [k \in RowOf(u.key) |-> stored[k]]]}
  /\ UNCHANGED <<serverVars, faults>> /\ ServerOnly

Writes(u) ==
  /\ u.seen # None
  /\ stored' = [k \in Keys |-> IF k = u.key THEN u.value
                               ELSE IF k \in RowOf(u.key) THEN u.seen[k] ELSE stored[k]]
  /\ Finishes(u, "confirmed")
  /\ UNCHANGED <<skipped, faults>> /\ ServerOnly

(* No permission or a locked workflow is final; a session or room that is   *)
(* not there, a missing block or a failed transaction may be retried.       *)
Refuses(u) ==
  /\ \/ faults < MaxFaults /\ faults' = faults + 1 /\ \E kind \in {"retryable", "final"} : Finishes(u, kind)
     \/ BlockOf[u.key] \in gone /\ UNCHANGED faults /\ Finishes(u, "retryable")
  /\ UNCHANGED <<stored, skipped>> /\ ServerOnly

(* A block a collaborator locked: confirmed, and not stored. *)
Skips(u) ==
  /\ u.seen # None /\ faults < MaxFaults
  /\ faults' = faults + 1
  /\ skipped' = skipped \cup {u.key}
  /\ Finishes(u, "confirmed")
  /\ UNCHANGED stored /\ ServerOnly

(* The connection or the process breaks, or the room is not found: the      *)
(* update is dropped without an answer.                                     *)
Loses(u) ==
  /\ faults < MaxFaults /\ faults' = faults + 1
  /\ updates' = updates \ {u}
  /\ UNCHANGED serverVars /\ ServerOnly

Serves(u) == Reads(u) \/ Writes(u) \/ Refuses(u)

----------------------------------------------------------------------------
Next ==
  \/ \E k \in Keys, v \in Values : Edit(k, v)
  \/ \E a \in answers : Answered(a)
  \/ \E id \in operationTimers : OperationTimesOut(id)
  \/ \E t \in retryTimers : RetryFires(t)
  \/ \E b \in Removable : BlockRemoved(b)
  \/ Joins \/ Disconnects
  \/ \E u \in updates : Serves(u) \/ Skips(u) \/ Loses(u)

Spec == Init /\ [][Next]_vars

(* Timers fire, the server finishes what it received, answers arrive, and   *)
(* socket.io reconnects.                                                    *)
Fairness ==
  /\ WF_vars(Joins)
  /\ WF_vars(\E a \in answers : Answered(a))
  /\ WF_vars(\E u \in updates : Serves(u))
  /\ \A id \in Ids : /\ WF_vars(OperationTimesOut(id))
                     /\ WF_vars(\E t \in retryTimers : t.id = id /\ RetryFires(t))

FairSpec == Spec /\ Fairness

----------------------------------------------------------------------------
(* Properties.                                                              *)

(* Somebody always wakes the queue: an operation in flight has its response *)
(* timer, the processing flag stands for an operation in flight, and an     *)
(* operation left pending in a joined room has a retry timer ahead of it.   *)
TimersMatch == operationTimers = {op.id : op \in {o \in operations : o.status = "processing"}}

BusyMeansInFlight == isProcessing => operationTimers # {}

IdleMeansWaiting ==
  joined /\ ~isProcessing /\ Pending(operations) # {} => retryTimers # {}

IdsAreOld == \A op \in operations : op.id <= edits

UniqueIds == \A op, other \in operations : op.id = other.id => op = other

IInv ==
  /\ TypeOK
  /\ UniqueIds
  /\ TimersMatch
  /\ BusyMeansInFlight
  /\ IdleMeansWaiting
  /\ IdsAreOld

(* What the deploy button takes for ready: nothing left to save, no error.   *)
NothingToSave == operations = {} /\ ~hasOperationError

Saved(k, value) == BlockOf[k] \notin gone /\ k \notin skipped => stored[k] = value

(* When nothing is left to save, the database holds the last accepted edit   *)
(* of every key, as long as each operation was sent after the one before it  *)
(* was answered: neither retries nor losses nor replaced edits break it.     *)
ReadyMeansSaved ==
  NothingToSave /\ ~overlapped => \A k \in Keys : Saved(k, accepted[k])

(* Every edit leaves the queue: confirmed, replaced, cancelled, or given up  *)
(* with the editor read-only.                                               *)
QueueDrains == <>[](operations = {})

(* ReadyMeansSaved without its condition, which the queue is meant to keep   *)
(* by itself: "Processing operation sequentially".                           *)
ReadyToDeploy == NothingToSave => \A k \in Keys : Saved(k, accepted[k])
=============================================================================

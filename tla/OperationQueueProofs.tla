------------------------ MODULE OperationQueueProofs ------------------------
(***************************************************************************)
(* Proofs about OperationQueue, for every set of keys, blocks and values   *)
(* and every bound: the queue always has somebody to wake it.              *)
(***************************************************************************)
EXTENDS OperationQueue, TLAPS

(* What a caller of processNextOperation hands over: well-formed operations *)
(* with ids of their own, and a timer for each that is being processed.     *)
Handed(ops, busy, timers) ==
  /\ ops \in SUBSET Ops
  /\ \A op, other \in ops : op.id = other.id => op = other
  /\ timers = {op.id : op \in {o \in ops : o.status = "processing"}}
  /\ busy \in BOOLEAN
  /\ busy => timers # {}

(* The part of the invariant that processNextOperation is responsible for.  *)
QueueInv ==
  /\ operations \in SUBSET Ops
  /\ operationTimers \in SUBSET Ids
  /\ isProcessing \in BOOLEAN
  /\ UniqueIds /\ TimersMatch /\ BusyMeansInFlight

(* processNextOperation keeps the queue well formed, changes no id, and      *)
(* leaves an operation pending in a joined room only when it was told that   *)
(* another is in flight.                                                     *)
LEMMA ProcessNextKeeps ==
  ASSUME NEW registered \in BOOLEAN, NEW ops, NEW busy, NEW timers,
         Handed(ops, busy, timers), ProcessNext(registered, ops, busy, timers),
         \A u \in updates : Update(u), overlapped \in BOOLEAN
  PROVE  /\ QueueInv'
         /\ \A op \in operations' : \E o \in ops : o.id = op.id
         /\ registered /\ ~isProcessing' => Pending(operations') = {}
         /\ \A u \in updates' : Update(u)
         /\ overlapped' \in BOOLEAN
<1>0. \A op \in ops : op \in Ops /\ op.id \in Ids
  BY DEF Handed, Ops
<1>1. CASE /\ busy \/ ~registered \/ Pending(ops) = {}
           /\ operations' = ops /\ isProcessing' = busy /\ operationTimers' = timers
           /\ UNCHANGED <<updates, overlapped>>
  BY <1>0, <1>1 DEF Handed, QueueInv, UniqueIds, TimersMatch, BusyMeansInFlight
<1>2. ASSUME ~busy, registered, NEW op \in NextOperation(ops),
             operations' = (ops \ {op}) \cup {[op EXCEPT !.status = "processing"]},
             isProcessing' = TRUE,
             operationTimers' = timers \cup {op.id},
             Emit(op),
             overlapped' = (overlapped \/ timers # {} \/ updates # {})
      PROVE  /\ QueueInv'
             /\ \A p \in operations' : \E o \in ops : o.id = p.id
             /\ \A u \in updates' : Update(u)
             /\ overlapped' \in BOOLEAN
  <2> DEFINE sent == [op EXCEPT !.status = "processing"]
  <2>1. op \in ops /\ op.status = "pending"
    BY <1>2 DEF NextOperation, Pending
  <2>2. op \in Ops
    BY <2>1, <1>0
  <2>3. sent \in Ops /\ sent.id = op.id /\ sent.status = "processing"
    BY <2>2 DEF Ops
  <2> HIDE DEF sent
  <2>4. operations' = (ops \ {op}) \cup {sent}
    BY <1>2 DEF sent
  <2>5. operations' \in SUBSET Ops
    BY <2>3, <2>4, <1>0
  <2>6. UniqueIds'
    BY <2>1, <2>3, <2>4 DEF Handed, UniqueIds
  <2>7. {o \in operations' : o.status = "processing"} = {o \in ops : o.status = "processing"} \cup {sent}
    BY <2>1, <2>3, <2>4
  <2>8. TimersMatch'
    BY <2>3, <2>7, <1>2 DEF Handed, TimersMatch
  <2>9. operationTimers' \in SUBSET Ids
    BY <2>1, <1>0, <1>2 DEF Handed
  <2>10. \A u \in updates' : Update(u)
    <3> DEFINE new == [id |-> op.id, nth |-> op.retryCount, key |-> op.key,
                       value |-> op.value, seen |-> None, live |-> TRUE]
    <3>1. /\ op.id \in Ids /\ op.retryCount \in Nat /\ op.key \in Keys /\ op.value \in Values
          /\ new.live = TRUE /\ new.seen = None
          /\ new.id = op.id /\ new.nth = op.retryCount /\ new.key = op.key /\ new.value = op.value
      BY <2>2 DEF Ops
    <3> HIDE DEF new
    <3>2. Update(new)
      BY <3>1, Zenon DEF Update
    <3>3. updates' = updates \cup {new}
      BY <1>2 DEF Emit, new
    <3> QED
      BY <3>2, <3>3
  <2>11. \A p \in operations' : \E o \in ops : o.id = p.id
    BY <2>1, <2>3, <2>4
  <2> QED
    BY <2>5, <2>6, <2>8, <2>9, <2>10, <2>11, <1>2 DEF QueueInv, BusyMeansInFlight
<1>3. registered /\ ~isProcessing' => Pending(operations') = {}
  BY DEF ProcessNext
<1>4. CASE /\ ~busy /\ registered
           /\ \E op \in NextOperation(ops) :
                /\ operations' = (ops \ {op}) \cup {[op EXCEPT !.status = "processing"]}
                /\ isProcessing' = TRUE
                /\ operationTimers' = timers \cup {op.id}
                /\ Emit(op)
                /\ overlapped' = (overlapped \/ timers # {} \/ updates # {})
  BY <1>2, <1>3, <1>4, Zenon
<1> QED
  BY <1>1, <1>4, Zenon DEF ProcessNext

(* A callback finds the queue as processNextOperation may find it. *)
LEMMA HandedQueue ==
  ASSUME IInv
  PROVE  Handed(operations, isProcessing, operationTimers)
BY DEF IInv, TypeOK, QueueOK, Handed, UniqueIds, TimersMatch, BusyMeansInFlight

(* So does an operation that leaves, with its timer. *)
LEMMA HandedWithout ==
  ASSUME IInv, NEW S \in SUBSET operations
  PROVE  Handed(operations \ S, FALSE, operationTimers \ {op.id : op \in S})
<1>1. \A op \in operations : (\E s \in S : s.id = op.id) => op \in S
  BY DEF IInv, UniqueIds
<1>2. operationTimers \ {op.id : op \in S}
        = {op.id : op \in {o \in operations \ S : o.status = "processing"}}
  BY <1>1 DEF IInv, TimersMatch
<1> QED
  BY <1>2 DEF IInv, TypeOK, QueueOK, Handed, UniqueIds

(* What a step of the queue has to show, once processNextOperation ran.     *)
LEMMA QueueStep ==
  ASSUME IInv, QueueInv',
         \A op \in operations' : op.id <= edits',
         hasOperationError' \in BOOLEAN, joined' \in BOOLEAN,
         retryTimers' \in SUBSET [id : Ids, nth : Nat, held : BOOLEAN],
         edits' \in 0..MaxEdits, ServerOK',
         latest' \in [Keys -> Values \cup {None}], accepted' \in [Keys -> Values \cup {None}],
         faults' \in 0..MaxFaults, overlapped' \in BOOLEAN,
         joined' /\ ~isProcessing' => Pending(operations') = {} \/ retryTimers' # {}
  PROVE  IInv'
<1>1. Pending(operations)' = Pending(operations')
  BY DEF Pending
<1> QED
  BY <1>1 DEF IInv, QueueInv, TypeOK, QueueOK, IdleMeansWaiting, IdsAreOld

LEMMA Retyped ==
  ASSUME IInv, NEW id
  PROVE  /\ Released(id) \in SUBSET [id : Ids, nth : Nat, held : BOOLEAN]
         /\ \A ids : WithoutRetryTimers(ids) \in SUBSET [id : Ids, nth : Nat, held : BOOLEAN]
<1>0. retryTimers \in SUBSET [id : Ids, nth : Nat, held : BOOLEAN]
  BY DEF IInv, TypeOK, QueueOK
<1>1. ASSUME NEW t \in retryTimers
      PROVE  (IF t.id = id THEN [t EXCEPT !.held = FALSE] ELSE t) \in [id : Ids, nth : Nat, held : BOOLEAN]
  BY <1>0, <1>1
<1>2. Released(id) \in SUBSET [id : Ids, nth : Nat, held : BOOLEAN]
  BY <1>1 DEF Released
<1>3. \A ids : WithoutRetryTimers(ids) \in SUBSET [id : Ids, nth : Nat, held : BOOLEAN]
  BY <1>0 DEF WithoutRetryTimers
<1> QED BY <1>2, <1>3

(* What a handler of the queue leaves for QueueStep, apart from the           *)
(* variables it does not touch.                                             *)
QueueKept ==
  /\ QueueInv'
  /\ \A op \in operations' : op.id <= edits
  /\ hasOperationError' \in BOOLEAN
  /\ retryTimers' \in SUBSET [id : Ids, nth : Nat, held : BOOLEAN]
  /\ \A u \in updates' : Update(u)
  /\ overlapped' \in BOOLEAN
  /\ joined /\ ~isProcessing' => Pending(operations') = {} \/ retryTimers' # {}

LEMMA LeavesKeep ==
  ASSUME IInv, NEW S \in SUBSET operations, hasOperationError' = hasOperationError,
         retryTimers' \in SUBSET [id : Ids, nth : Nat, held : BOOLEAN],
         ProcessNextOperation(operations \ S, FALSE, operationTimers \ {op.id : op \in S})
  PROVE  QueueKept
<1>1. Handed(operations \ S, FALSE, operationTimers \ {op.id : op \in S})
  BY HandedWithout
<1>2. joined \in BOOLEAN /\ overlapped \in BOOLEAN /\ hasOperationError \in BOOLEAN
      /\ \A u \in updates : Update(u)
  BY DEF IInv, TypeOK, QueueOK, ServerOK
<1>3. ProcessNext(joined, operations \ S, FALSE, operationTimers \ {op.id : op \in S})
  BY DEF ProcessNextOperation
<1>4. /\ QueueInv'
      /\ \A op \in operations' : \E o \in operations \ S : o.id = op.id
      /\ joined /\ ~isProcessing' => Pending(operations') = {}
      /\ \A u \in updates' : Update(u)
      /\ overlapped' \in BOOLEAN
  BY <1>1, <1>2, <1>3, ProcessNextKeeps, Zenon
<1>5. \A op \in operations' : op.id <= edits
  BY <1>4 DEF IInv, IdsAreOld
<1> QED
  BY <1>2, <1>4, <1>5 DEF QueueKept

LEMMA FailKeeps ==
  ASSUME IInv, NEW id \in Ids, NEW retryable \in BOOLEAN, FailOperation(id, retryable)
  PROVE  QueueKept
<1>0. /\ joined \in BOOLEAN /\ overlapped \in BOOLEAN /\ hasOperationError \in BOOLEAN
      /\ \A u \in updates : Update(u)
      /\ operations \in SUBSET Ops
      /\ operationTimers \in SUBSET Ids
      /\ retryTimers \in SUBSET [id : Ids, nth : Nat, held : BOOLEAN]
  BY DEF IInv, TypeOK, QueueOK, ServerOK
<1>1. CASE UNCHANGED <<queueVars, updates, overlapped>>
  <2>1. QueueInv'
    BY <1>0, <1>1 DEF IInv, TypeOK, QueueOK, QueueInv, queueVars, UniqueIds, TimersMatch, BusyMeansInFlight
  <2>2. joined /\ ~isProcessing' => Pending(operations') = {} \/ retryTimers' # {}
    BY <1>1 DEF queueVars, IInv, IdleMeansWaiting
  <2> QED
    BY <1>0, <1>1, <2>1, <2>2 DEF QueueKept, queueVars, IInv, IdsAreOld
<1>2. ASSUME NEW op \in operations, Retry(op) PROVE QueueKept
  <2> DEFINE again == [op EXCEPT !.status = "pending", !.retryCount = op.retryCount + 1]
             timer == [id |-> op.id, nth |-> op.retryCount + 1, held |-> TRUE]
  <2>1. op \in Ops
    BY <1>0, <1>2
  <2>2. again \in Ops /\ again.id = op.id /\ again.status = "pending"
    <3>1. op.retryCount + 1 \in Nat
      BY <2>1 DEF Ops
    <3>2. [op EXCEPT !.status = "pending"] \in Ops
      BY <2>1 DEF Ops
    <3>3. [[op EXCEPT !.status = "pending"] EXCEPT !.retryCount = op.retryCount + 1] \in Ops
      BY <3>1, <3>2 DEF Ops
    <3>4. again = [[op EXCEPT !.status = "pending"] EXCEPT !.retryCount = op.retryCount + 1]
      BY <2>1 DEF Ops
    <3> QED
      BY <2>1, <3>3, <3>4 DEF Ops
  <2>3. timer \in [id : Ids, nth : Nat, held : BOOLEAN]
    BY <2>1 DEF Ops
  <2>4. /\ operations' = (operations \ {op}) \cup {again} /\ isProcessing' = FALSE
        /\ operationTimers' = operationTimers \ {op.id}
        /\ retryTimers' = Released(op.id) \cup {timer}
        /\ hasOperationError' = hasOperationError /\ updates' = updates /\ overlapped' = overlapped
    BY <1>2 DEF Retry
  <2> HIDE DEF again, timer
  <2>5. retryTimers' \in SUBSET [id : Ids, nth : Nat, held : BOOLEAN] /\ retryTimers' # {}
    BY <2>3, <2>4, Retyped
  <2>6. UniqueIds'
    BY <1>2, <2>2, <2>4 DEF UniqueIds, IInv
  <2>7. {o \in operations' : o.status = "processing"} = {o \in operations \ {op} : o.status = "processing"}
    BY <2>2, <2>4
  <2>8. \A o \in operations : o.id = op.id => o = op
    BY <1>2 DEF UniqueIds, IInv
  <2>9. TimersMatch'
    BY <2>4, <2>7, <2>8 DEF TimersMatch, IInv
  <2>10. QueueInv'
    BY <1>0, <2>2, <2>4, <2>6, <2>9 DEF QueueInv, BusyMeansInFlight
  <2>11. \A o \in operations' : o.id <= edits
    BY <1>2, <2>2, <2>4 DEF IInv, IdsAreOld
  <2> QED
    BY <1>0, <2>4, <2>5, <2>10, <2>11 DEF QueueKept
<1>3. ASSUME NEW op \in operations, DropOperation(op) PROVE QueueKept
  <2>1. {op} \in SUBSET operations /\ {o.id : o \in {op}} = {op.id}
    BY <1>3
  <2>2. ProcessNextOperation(operations \ {op}, FALSE, operationTimers \ {o.id : o \in {op}})
    BY <1>3, <2>1 DEF DropOperation
  <2>3. hasOperationError' = hasOperationError
        /\ retryTimers' \in SUBSET [id : Ids, nth : Nat, held : BOOLEAN]
    BY <1>0, <1>3 DEF DropOperation
  <2> QED
    BY <2>1, <2>2, <2>3, LeavesKeep
<1>4. CASE TriggerOfflineMode
  <2>0. operations' = {} /\ operationTimers' = {} /\ isProcessing' = FALSE
    BY <1>4 DEF TriggerOfflineMode
  <2>1. {o \in operations' : o.status = "processing"} = {} /\ Pending(operations') = {}
    BY <2>0 DEF Pending
  <2>2. TimersMatch'
    BY <2>0, <2>1 DEF TimersMatch
  <2>3. QueueInv'
    BY <2>0, <2>2 DEF QueueInv, UniqueIds, BusyMeansInFlight
  <2> QED
    BY <1>0, <1>4, <2>0, <2>1, <2>3 DEF TriggerOfflineMode, QueueKept
<1> QED
  BY <1>1, <1>2, <1>3, <1>4 DEF FailOperation

LEMMA ConfirmKeeps ==
  ASSUME IInv, NEW id \in Ids, ConfirmOperation(id)
  PROVE  QueueKept
<1> DEFINE S == {op \in operations : op.id = id}
<1>1. S \in SUBSET operations /\ {op \in operations : op.id # id} = operations \ S
  OBVIOUS
<1>2. operationTimers \ {id} = operationTimers \ {op.id : op \in S}
  BY DEF IInv, TimersMatch
<1>3. /\ hasOperationError' = hasOperationError
      /\ retryTimers' \in SUBSET [id : Ids, nth : Nat, held : BOOLEAN]
      /\ ProcessNextOperation(operations \ S, FALSE, operationTimers \ {op.id : op \in S})
  BY <1>1, <1>2, Retyped DEF ConfirmOperation
<1> QED
  BY <1>1, <1>3, LeavesKeep

(* A step of the queue that leaves the server's own state alone. *)
LEMMA QueueOnly ==
  ASSUME IInv, QueueKept, UNCHANGED <<stored, skipped, edits, latest, accepted, joined>>,
         answers' \in SUBSET answers, gone' \in SUBSET Blocks, faults' \in 0..MaxFaults
  PROVE  IInv'
<1>1. /\ joined \in BOOLEAN /\ edits \in 0..MaxEdits /\ ServerOK
      /\ latest \in [Keys -> Values \cup {None}] /\ accepted \in [Keys -> Values \cup {None}]
  BY DEF IInv, TypeOK, QueueOK
<1>2. ServerOK'
  <2>1. answers' \in SUBSET [id : Ids, kind : {"confirmed", "retryable", "final"}]
    BY <1>1 DEF ServerOK
  <2>2. \A u \in updates' : Update(u)'
    BY DEF QueueKept, Update
  <2> QED
    BY <1>1, <2>1, <2>2 DEF ServerOK
<1> QED
  BY <1>1, <1>2, QueueStep DEF QueueKept

(* A step of the server alone. *)
LEMMA ServerStep ==
  ASSUME IInv, ServerOnly, ServerOK', faults' \in 0..MaxFaults
  PROVE  IInv'
BY DEF IInv, TypeOK, QueueOK, ServerOnly, queueVars, editVars, UniqueIds, IdsAreOld, TimersMatch,
       BusyMeansInFlight, IdleMeansWaiting, Pending

(* Finishing an update answers one that the client sent. *)
LEMMA FinishKeeps ==
  ASSUME IInv, NEW u \in updates, NEW kind \in {"confirmed", "retryable", "final"}, Finishes(u, kind)
  PROVE  /\ \A x \in updates' : Update(x)
         /\ answers' \in SUBSET [id : Ids, kind : {"confirmed", "retryable", "final"}]
<1>1. Update(u) /\ answers \in SUBSET [id : Ids, kind : {"confirmed", "retryable", "final"}]
      /\ \A x \in updates : Update(x)
  BY DEF IInv, TypeOK, ServerOK
<1>2. [id |-> u.id, kind |-> kind] \in [id : Ids, kind : {"confirmed", "retryable", "final"}]
  BY <1>1 DEF Update
<1> QED
  BY <1>1, <1>2 DEF Finishes

LEMMA EditKeeps ==
  ASSUME IInv, NEW k \in Keys, NEW v \in Values, Edit(k, v)
  PROVE  IInv'
<1>0. /\ edits \in 0..MaxEdits /\ edits < MaxEdits /\ MaxEdits \in Nat /\ edits' = edits + 1
      /\ joined \in BOOLEAN /\ hasOperationError \in BOOLEAN /\ overlapped \in BOOLEAN
      /\ isProcessing \in BOOLEAN /\ operations \in SUBSET Ops /\ operationTimers \in SUBSET Ids
      /\ retryTimers \in SUBSET [id : Ids, nth : Nat, held : BOOLEAN]
      /\ faults \in 0..MaxFaults /\ ServerOK
      /\ latest \in [Keys -> Values \cup {None}] /\ accepted \in [Keys -> Values \cup {None}]
  BY BoundAssumption DEF Edit, IInv, TypeOK, QueueOK
<1>1. edits + 1 \in Ids /\ edits' \in 0..MaxEdits
  BY <1>0 DEF Ids
<1>2. latest' \in [Keys -> Values \cup {None}] /\ accepted' \in [Keys -> Values \cup {None}]
  BY <1>0 DEF Edit
<1>3. UNCHANGED <<hasOperationError, retryTimers, stored, answers, skipped, joined, gone, faults>>
  BY DEF Edit, serverVars
<1>4. CASE UNCHANGED <<operations, isProcessing, operationTimers, updates, overlapped>>
  <2>1. QueueInv'
    BY <1>0, <1>4 DEF IInv, QueueInv, UniqueIds, TimersMatch, BusyMeansInFlight
  <2>2. \A op \in operations' : op.id <= edits'
    BY <1>0, <1>4 DEF IInv, IdsAreOld, Ops, Ids
  <2>3. ServerOK'
    BY <1>0, <1>3, <1>4 DEF ServerOK, Update
  <2>4. joined' /\ ~isProcessing' => Pending(operations') = {} \/ retryTimers' # {}
    BY <1>3, <1>4 DEF IInv, IdleMeansWaiting
  <2> QED
    BY <1>0, <1>1, <1>2, <1>3, <1>4, <2>1, <2>2, <2>3, <2>4, QueueStep
<1>5. ASSUME NEW new, new = [id |-> edits + 1, key |-> k, value |-> v, status |-> "pending", retryCount |-> 0],
             ProcessNextOperation((operations \ Superseded(k)) \cup {new}, isProcessing, operationTimers)
      PROVE  IInv'
  <2> DEFINE ops == (operations \ Superseded(k)) \cup {new}
  <2>1. new \in Ops /\ new.id = edits + 1 /\ new.status = "pending"
    BY <1>1, <1>5 DEF Ops
  <2>2. \A op \in operations : op.id \in Nat /\ op.id <= edits
    BY <1>0 DEF IInv, IdsAreOld, Ops, Ids
  <2>3. ops \in SUBSET Ops
    BY <1>0, <2>1
  <2>4. \A op, other \in ops : op.id = other.id => op = other
    BY <1>0, <2>1, <2>2 DEF IInv, UniqueIds
  <2>5. {o \in ops : o.status = "processing"} = {o \in operations : o.status = "processing"}
    BY <2>1 DEF Superseded, Pending
  <2>6. Handed(ops, isProcessing, operationTimers)
    BY <1>0, <2>3, <2>4, <2>5 DEF Handed, IInv, TimersMatch, BusyMeansInFlight
  <2>7. ProcessNext(joined, ops, isProcessing, operationTimers)
    BY <1>5 DEF ProcessNextOperation
  <2>8. \A u \in updates : Update(u)
    BY <1>0 DEF ServerOK
  <2> HIDE DEF ops
  <2>9. /\ QueueInv'
        /\ \A op \in operations' : \E o \in ops : o.id = op.id
        /\ joined /\ ~isProcessing' => Pending(operations') = {}
        /\ \A u \in updates' : Update(u)
        /\ overlapped' \in BOOLEAN
    BY <1>0, <2>6, <2>7, <2>8, ProcessNextKeeps, Zenon
  <2>10. \A op \in ops : op.id <= edits'
    BY <1>0, <2>1, <2>2 DEF ops
  <2>11. \A op \in operations' : op.id <= edits'
    BY <2>9, <2>10
  <2>12. ServerOK'
    BY <1>0, <1>3, <2>9 DEF ServerOK, Update
  <2> QED
    BY <1>0, <1>1, <1>2, <1>3, <2>9, <2>11, <2>12, QueueStep
<1> QED
  BY <1>4, <1>5 DEF Edit

LEMMA InitHolds == Init => IInv
<1> SUFFICES ASSUME Init PROVE IInv
  OBVIOUS
<1>1. {o \in operations : o.status = "processing"} = {} /\ Pending(operations) = {}
  BY DEF Init, Pending
<1>2. TimersMatch
  BY <1>1 DEF Init, TimersMatch
<1>0. edits \in 0..MaxEdits /\ faults \in 0..MaxFaults
  BY BoundAssumption DEF Init
<1>3. QueueOK
  BY <1>0 DEF Init, QueueOK
<1>4. ServerOK
  BY DEF Init, ServerOK
<1>5. faults \in 0..MaxFaults /\ overlapped \in BOOLEAN
      /\ latest \in [Keys -> Values \cup {None}] /\ accepted \in [Keys -> Values \cup {None}]
  BY <1>0 DEF Init
<1> QED
  BY <1>2, <1>3, <1>4, <1>5 DEF Init, IInv, TypeOK, UniqueIds, IdsAreOld, BusyMeansInFlight, IdleMeansWaiting

LEMMA StepHolds == IInv /\ [Next]_vars => IInv'
<1> SUFFICES ASSUME IInv, [Next]_vars PROVE IInv'
  OBVIOUS
<1>0. /\ joined \in BOOLEAN /\ gone \in SUBSET Blocks /\ faults \in 0..MaxFaults
      /\ MaxFaults \in Nat /\ ServerOK /\ operationTimers \in SUBSET Ids
      /\ retryTimers \in SUBSET [id : Ids, nth : Nat, held : BOOLEAN]
      /\ answers \in SUBSET [id : Ids, kind : {"confirmed", "retryable", "final"}]
      /\ \A u \in updates : Update(u)
      /\ stored \in [Keys -> Values \cup {None}] /\ skipped \in SUBSET Keys
  BY BoundAssumption DEF IInv, TypeOK, QueueOK, ServerOK
<1>1. ASSUME NEW k \in Keys, NEW v \in Values, Edit(k, v) PROVE IInv'
  BY <1>1, EditKeeps
<1>2. ASSUME NEW a \in answers, Answered(a) PROVE IInv'
  <2>1. a.id \in Ids /\ (a.kind = "retryable") \in BOOLEAN
    BY <1>0
  <2>2. QueueKept
    <3>1. CASE ConfirmOperation(a.id)
      BY <2>1, <3>1, ConfirmKeeps
    <3>2. CASE FailOperation(a.id, a.kind = "retryable")
      BY <2>1, <3>2, FailKeeps
    <3> QED
      BY <1>2, <3>1, <3>2 DEF Answered
  <2>3. /\ UNCHANGED <<stored, skipped, edits, latest, accepted, joined>>
        /\ answers' \in SUBSET answers /\ gone' \in SUBSET Blocks /\ faults' \in 0..MaxFaults
    BY <1>0, <1>2 DEF Answered, editVars
  <2> QED
    BY <2>2, <2>3, QueueOnly
<1>3. ASSUME NEW id \in operationTimers, OperationTimesOut(id) PROVE IInv'
  <2>1. QueueKept
    <3>1. id \in Ids
      BY <1>0
    <3> QED
      BY <1>3, <3>1, FailKeeps DEF OperationTimesOut
  <2>2. /\ UNCHANGED <<stored, skipped, edits, latest, accepted, joined>>
        /\ answers' \in SUBSET answers /\ gone' \in SUBSET Blocks /\ faults' \in 0..MaxFaults
    BY <1>0, <1>3 DEF OperationTimesOut, serverVars, editVars
  <2> QED
    BY <2>1, <2>2, QueueOnly
<1>4. ASSUME NEW t \in retryTimers, RetryFires(t) PROVE IInv'
  <2>1. Handed(operations, isProcessing, operationTimers)
    BY HandedQueue
  <2>2. ProcessNext(joined, operations, isProcessing, operationTimers)
    BY <1>4 DEF RetryFires, ProcessNextOperation
  <2>3. overlapped \in BOOLEAN /\ hasOperationError \in BOOLEAN
    BY DEF IInv, TypeOK, QueueOK
  <2>4. /\ QueueInv'
        /\ \A op \in operations' : \E o \in operations : o.id = op.id
        /\ joined /\ ~isProcessing' => Pending(operations') = {}
        /\ \A u \in updates' : Update(u)
        /\ overlapped' \in BOOLEAN
    BY <1>0, <2>1, <2>2, <2>3, ProcessNextKeeps, Zenon
  <2>5. \A op \in operations' : op.id <= edits
    BY <2>4 DEF IInv, IdsAreOld
  <2>6. retryTimers' \in SUBSET [id : Ids, nth : Nat, held : BOOLEAN]
    BY <1>4, Retyped DEF RetryFires
  <2>7. QueueKept
    BY <1>4, <2>3, <2>4, <2>5, <2>6 DEF RetryFires, QueueKept
  <2>8. /\ UNCHANGED <<stored, skipped, edits, latest, accepted, joined>>
        /\ answers' \in SUBSET answers /\ gone' \in SUBSET Blocks /\ faults' \in 0..MaxFaults
    BY <1>0, <1>4 DEF RetryFires, serverVars, editVars
  <2> QED
    BY <2>7, <2>8, QueueOnly
<1>5. ASSUME NEW b \in Removable, BlockRemoved(b) PROVE IInv'
  <2> DEFINE S == {op \in operations : BlockOf[op.key] = b /\ op.key \notin Others}
  <2>1. S \in SUBSET operations
    OBVIOUS
  <2>2. /\ hasOperationError' = hasOperationError
        /\ retryTimers' \in SUBSET [id : Ids, nth : Nat, held : BOOLEAN]
        /\ ProcessNextOperation(operations \ S, FALSE, operationTimers \ {op.id : op \in S})
    BY <1>5, Retyped DEF BlockRemoved
  <2>3. QueueKept
    BY <2>1, <2>2, LeavesKeep
  <2>4. /\ UNCHANGED <<stored, skipped, edits, latest, accepted, joined>>
        /\ answers' \in SUBSET answers /\ gone' \in SUBSET Blocks /\ faults' \in 0..MaxFaults
    BY <1>0, <1>5, KeyAssumption DEF BlockRemoved, serverVars, editVars
  <2> QED
    BY <2>3, <2>4, QueueOnly
<1>6. CASE Joins
  <2>1. Handed(operations, isProcessing, operationTimers)
    BY HandedQueue
  <2>2. ProcessNext(TRUE, operations, isProcessing, operationTimers)
    BY <1>6 DEF Joins, RegisterEmitFunctions
  <2>3. overlapped \in BOOLEAN /\ hasOperationError \in BOOLEAN /\ TRUE \in BOOLEAN
    BY DEF IInv, TypeOK, QueueOK
  <2>4. /\ QueueInv'
        /\ \A op \in operations' : \E o \in operations : o.id = op.id
        /\ TRUE /\ ~isProcessing' => Pending(operations') = {}
        /\ \A u \in updates' : Update(u)
        /\ overlapped' \in BOOLEAN
    BY <1>0, <2>1, <2>2, <2>3, ProcessNextKeeps, Zenon
  <2>5. UNCHANGED <<hasOperationError, retryTimers, stored, answers, skipped, edits, latest, accepted, gone, faults>>
        /\ joined' = TRUE
    BY <1>6 DEF Joins, serverVars, editVars
  <2>6. \A op \in operations' : op.id <= edits'
    BY <2>4, <2>5 DEF IInv, IdsAreOld
  <2>7. ServerOK'
    BY <1>0, <2>4, <2>5 DEF ServerOK, Update
  <2>8. edits \in 0..MaxEdits /\ latest \in [Keys -> Values \cup {None}] /\ accepted \in [Keys -> Values \cup {None}]
    BY DEF IInv, TypeOK, QueueOK
  <2> QED
    BY <1>0, <2>3, <2>4, <2>5, <2>6, <2>7, <2>8, QueueStep
<1>7. CASE Disconnects
  <2>1. \A u \in updates' : Update(u)
    <3>1. ASSUME NEW u \in updates PROVE Update([u EXCEPT !.live = FALSE])
      BY <1>0, <3>1 DEF Update
    <3> QED
      BY <1>7, <3>1 DEF Disconnects
  <2>2. UNCHANGED <<operations, isProcessing, hasOperationError, operationTimers, retryTimers, overlapped,
                    stored, skipped, edits, latest, accepted, gone>>
        /\ joined' = FALSE /\ faults' = faults + 1 /\ faults < MaxFaults /\ answers' = {}
    BY <1>7 DEF Disconnects, queueVars, editVars
  <2>3. ServerOK' /\ faults' \in 0..MaxFaults
    BY <1>0, <2>1, <2>2 DEF ServerOK, Update
  <2>4. QueueInv' /\ \A op \in operations' : op.id <= edits'
    BY <2>2 DEF IInv, TypeOK, QueueOK, QueueInv, UniqueIds, TimersMatch, BusyMeansInFlight, IdsAreOld
  <2>5. /\ edits \in 0..MaxEdits /\ latest \in [Keys -> Values \cup {None}] /\ accepted \in [Keys -> Values \cup {None}]
        /\ hasOperationError \in BOOLEAN /\ overlapped \in BOOLEAN
    BY DEF IInv, TypeOK, QueueOK
  <2> QED
    BY <1>0, <2>2, <2>3, <2>4, <2>5, QueueStep
<1>8. ASSUME NEW u \in updates, Reads(u) PROVE IInv'
  <2> DEFINE row == [k \in RowOf(u.key) |-> stored[k]]
  <2>1. Update(u)
    BY <1>0
  <2>2. RowOf(u.key) \subseteq Keys
    BY <2>1 DEF RowOf, Update, Keys
  <2>3. row \in [RowOf(u.key) -> Values \cup {None}]
    BY <1>0, <2>2
  <2> HIDE DEF row
  <2>4. Update([u EXCEPT !.seen = row])
    BY <2>1, <2>3 DEF Update
  <2>5. updates' = (updates \ {u}) \cup {[u EXCEPT !.seen = row]}
    BY <1>8 DEF Reads, row
  <2>6. \A x \in updates' : Update(x)
    BY <1>0, <2>4, <2>5
  <2>7. UNCHANGED <<stored, answers, skipped, gone, faults>> /\ ServerOnly
    BY <1>8 DEF Reads, serverVars, ServerOnly
  <2>8. ServerOK'
    BY <1>0, <2>6, <2>7 DEF ServerOK, Update
  <2> QED
    BY <1>0, <2>7, <2>8, ServerStep
<1>9. ASSUME NEW u \in updates, Writes(u) PROVE IInv'
  <2>1. Update(u) /\ u.seen \in [RowOf(u.key) -> Values \cup {None}]
    BY <1>0, <1>9 DEF Writes, Update
  <2>2. stored' \in [Keys -> Values \cup {None}]
    <3>1. stored' = [k \in Keys |-> IF k = u.key THEN u.value
                                    ELSE IF k \in RowOf(u.key) THEN u.seen[k] ELSE stored[k]]
      BY <1>9 DEF Writes
    <3>2. ASSUME NEW k \in Keys
          PROVE (IF k = u.key THEN u.value ELSE IF k \in RowOf(u.key) THEN u.seen[k] ELSE stored[k])
                  \in Values \cup {None}
      BY <1>0, <2>1 DEF Update
    <3> QED
      BY <3>1, <3>2
  <2>3. \A x \in updates' : Update(x)
    BY <1>9, FinishKeeps DEF Writes
  <2>4. answers' \in SUBSET [id : Ids, kind : {"confirmed", "retryable", "final"}]
    BY <1>9, FinishKeeps DEF Writes
  <2>5. UNCHANGED <<skipped, gone, faults>> /\ ServerOnly
    BY <1>9 DEF Writes, ServerOnly
  <2>6. ServerOK'
    BY <1>0, <2>2, <2>3, <2>4, <2>5 DEF ServerOK, Update
  <2> QED
    BY <1>0, <2>5, <2>6, ServerStep
<1>10. ASSUME NEW u \in updates, Refuses(u) PROVE IInv'
  <2>1. \E kind \in {"confirmed", "retryable", "final"} : Finishes(u, kind)
    BY <1>10 DEF Refuses
  <2>2. \A x \in updates' : Update(x)
    BY <2>1, FinishKeeps
  <2>3. answers' \in SUBSET [id : Ids, kind : {"confirmed", "retryable", "final"}]
    BY <2>1, FinishKeeps
  <2>4. UNCHANGED <<stored, skipped, gone>> /\ ServerOnly /\ faults' \in 0..MaxFaults
    BY <1>0, <1>10 DEF Refuses, ServerOnly
  <2>5. ServerOK'
    BY <1>0, <2>2, <2>3, <2>4 DEF ServerOK, Update
  <2> QED
    BY <2>4, <2>5, ServerStep
<1>11. ASSUME NEW u \in updates, Skips(u) PROVE IInv'
  <2>1. \A x \in updates' : Update(x)
    BY <1>11, FinishKeeps DEF Skips
  <2>2. answers' \in SUBSET [id : Ids, kind : {"confirmed", "retryable", "final"}]
    BY <1>11, FinishKeeps DEF Skips
  <2>3. UNCHANGED <<stored, gone>> /\ ServerOnly /\ faults' \in 0..MaxFaults /\ skipped' \in SUBSET Keys
    BY <1>0, <1>11 DEF Skips, ServerOnly, Update
  <2>4. ServerOK'
    BY <1>0, <2>1, <2>2, <2>3 DEF ServerOK, Update
  <2> QED
    BY <2>3, <2>4, ServerStep
<1>12. ASSUME NEW u \in updates, Loses(u) PROVE IInv'
  <2>1. UNCHANGED <<stored, answers, skipped, gone>> /\ ServerOnly /\ faults' \in 0..MaxFaults
        /\ updates' = updates \ {u}
    BY <1>0, <1>12 DEF Loses, ServerOnly, serverVars
  <2>2. ServerOK'
    BY <1>0, <2>1 DEF ServerOK, Update
  <2> QED
    BY <2>1, <2>2, ServerStep
<1>13. CASE UNCHANGED vars
  <2>1. ServerOnly /\ UNCHANGED <<stored, answers, skipped, gone, faults, updates>>
    BY <1>13 DEF vars, serverVars, ServerOnly
  <2>2. ServerOK'
    BY <1>0, <2>1 DEF ServerOK, Update
  <2> QED
    BY <1>0, <2>1, <2>2, ServerStep
<1> QED
  BY <1>1, <1>2, <1>3, <1>4, <1>5, <1>6, <1>7, <1>8, <1>9, <1>10, <1>11, <1>12, <1>13
     DEF Next, Serves

(* Whatever fails, is late, or is cancelled, the queue is never left with an *)
(* operation to send, a joined room, and nobody to send it.                  *)
THEOREM QueueIsAlwaysWoken == Spec => []IInv
<1>1. Init => IInv
  BY InitHolds
<1>2. IInv /\ [Next]_vars => IInv'
  BY StepHolds
<1> QED
  BY <1>1, <1>2, PTL DEF Spec
=============================================================================

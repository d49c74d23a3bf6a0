---------------------- MODULE OperationQueueSavedProofs ----------------------
(***************************************************************************)
(* Proofs about OperationQueue: no accepted edit is lost while each        *)
(* operation is sent after the one before it was answered.                 *)
(***************************************************************************)
EXTENDS OperationQueueProofs

(* Why no accepted edit is lost.  The parameters stand for the queue, the    *)
(* server's updates and answers, the stored and the accepted values, and the *)
(* keys that count.                                                          *)

(* The keys whose block is there, whose writes were not skipped, while the   *)
(* editor still saves.                                                       *)
Watched == IF hasOperationError THEN {}
           ELSE {k \in Keys : BlockOf[k] \notin gone /\ k \notin skipped}

(* The server works on one update at a time, so what it read still holds. *)
OneUpdate(ups) == \A u, w \in ups : u = w
SeenIsStored(ups, st) ==
  \A u \in ups : u.seen # None => \A j \in RowOf(u.key) : u.seen[j] = st[j]

(* What was sent or answered is not younger than what is queued. *)
SentIsFirst(ops, ups) ==
  \A u \in ups, op \in ops :
    u.id <= op.id /\ (u.id = op.id => u.key = op.key /\ u.value = op.value)
AnsweredIsFirst(ops, ups, ans) ==
  \A a \in ans : (\A op \in ops : a.id <= op.id) /\ (\A u \in ups : a.id <= u.id)

(* The last operation of a key carries its accepted edit; a confirmed one is *)
(* stored; without an operation the accepted edit is stored, and nothing     *)
(* else is about to be.                                                      *)
LastIsAccepted(ops, acc, ks) ==
  \A op \in ops : op.key \in ks /\ (\A other \in ops : other.key = op.key => other.id <= op.id)
                  => op.value = acc[op.key]
ConfirmedIsStored(ops, ans, st, ks) ==
  \A a \in ans, op \in ops :
    a.kind = "confirmed" /\ a.id = op.id /\ op.key \in ks => st[op.key] = op.value
RestIsStored(ops, ups, st, acc, ks) ==
  \A k \in ks : (\A op \in ops : op.key # k) =>
    st[k] = acc[k] /\ \A u \in ups : u.key = k => u.value = acc[k]

Careful(ops, ups, ans, st, acc, ks) ==
  /\ OneUpdate(ups) /\ SeenIsStored(ups, st)
  /\ SentIsFirst(ops, ups) /\ AnsweredIsFirst(ops, ups, ans)
  /\ LastIsAccepted(ops, acc, ks)
  /\ ConfirmedIsStored(ops, ans, st, ks)
  /\ RestIsStored(ops, ups, st, acc, ks)

SavedInv ==
  /\ \A u \in updates : u.id <= edits
  /\ \A a \in answers : a.id <= edits
  /\ ~overlapped => Careful(operations, updates, answers, stored, accepted, Watched)

(* The types these facts need. *)
Typed(ops, ups, ans) ==
  /\ ops \in SUBSET Ops
  /\ \A op, other \in ops : op.id = other.id => op = other
  /\ \A u \in ups : u.id \in Nat
  /\ \A a \in ans : a.id \in Nat

LEMMA SendIsCareful ==
  ASSUME NEW ops, NEW ans, NEW st, NEW acc, NEW ks, Typed(ops, {}, ans),
         Careful(ops, {}, ans, st, acc, ks),
         NEW op \in ops, \A other \in ops : op.id <= other.id,
         NEW sent, sent.id = op.id, sent.key = op.key, sent.value = op.value,
         NEW u, u.id = op.id, u.key = op.key, u.value = op.value, u.seen = None
  PROVE  Careful((ops \ {op}) \cup {sent}, {u}, ans, st, acc, ks)
<1> DEFINE now == (ops \ {op}) \cup {sent}
<1>0. \A p \in ops : p.id \in Nat
  BY DEF Typed, Ops, Ids
<1>1. ASSUME NEW p \in now
      PROVE  \E o \in ops : o.id = p.id /\ o.key = p.key /\ o.value = p.value
  OBVIOUS
<1>2. ASSUME NEW o \in ops
      PROVE  \E p \in now : o.id = p.id /\ o.key = p.key /\ o.value = p.value
  OBVIOUS
<1> HIDE DEF now
<1>3. OneUpdate({u}) /\ SeenIsStored({u}, st)
  BY DEF OneUpdate, SeenIsStored
<1>4. SentIsFirst(now, {u})
  BY <1>1 DEF SentIsFirst, Typed
<1>5. AnsweredIsFirst(now, {u}, ans)
  BY <1>1 DEF AnsweredIsFirst, Careful
<1>6. LastIsAccepted(now, acc, ks)
  BY <1>1, <1>2 DEF LastIsAccepted, Careful
<1>7. ConfirmedIsStored(now, ans, st, ks)
  BY <1>1 DEF ConfirmedIsStored, Careful
<1>8. RestIsStored(now, {u}, st, acc, ks)
  BY <1>2 DEF RestIsStored, Careful
<1> QED
  BY <1>3, <1>4, <1>5, <1>6, <1>7, <1>8 DEF Careful, now

(* The confirmed operation is the oldest, and an update of its key its own. *)
LEMMA ConfirmIsCareful ==
  ASSUME NEW ops, NEW ups, NEW ans, NEW st, NEW acc, NEW ks, Typed(ops, ups, ans),
         Careful(ops, ups, ans, st, acc, ks),
         NEW a \in ans, a.kind = "confirmed"
  PROVE  Careful({op \in ops : op.id # a.id}, ups, ans \ {a}, st, acc, ks)
<1> DEFINE now == {op \in ops : op.id # a.id}
<1>0. /\ \A p \in ops : p.id \in Nat
      /\ \A u \in ups : u.id \in Nat
      /\ a.id \in Nat
  BY DEF Typed, Ops, Ids
<1>1. /\ \A op \in ops : a.id <= op.id
      /\ \A u \in ups : a.id <= u.id
      /\ \A u \in ups, op \in ops : u.id <= op.id
  BY DEF Careful, AnsweredIsFirst, SentIsFirst
<1>2. SentIsFirst(now, ups) /\ AnsweredIsFirst(now, ups, ans \ {a})
  BY DEF Careful, SentIsFirst, AnsweredIsFirst
<1>3. LastIsAccepted(now, acc, ks)
  <2> SUFFICES ASSUME NEW op \in now, op.key \in ks,
                      \A other \in now : other.key = op.key => other.id <= op.id
               PROVE  op.value = acc[op.key]
    BY DEF LastIsAccepted
  <2>1. \A other \in ops : other.key = op.key => other.id <= op.id
    BY <1>0, <1>1
  <2> QED
    BY <2>1 DEF Careful, LastIsAccepted
<1>4. ConfirmedIsStored(now, ans \ {a}, st, ks)
  BY DEF Careful, ConfirmedIsStored
<1>5. RestIsStored(now, ups, st, acc, ks)
  <2> SUFFICES ASSUME NEW k \in ks, \A op \in now : op.key # k
               PROVE  st[k] = acc[k] /\ \A u \in ups : u.key = k => u.value = acc[k]
    BY DEF RestIsStored
  <2>1. CASE \A op \in ops : op.key # k
    BY <2>1 DEF Careful, RestIsStored
  <2>2. ASSUME NEW op \in ops, op.key = k
        PROVE  st[k] = acc[k] /\ \A u \in ups : u.key = k => u.value = acc[k]
    <3>1. op.id = a.id
      BY <2>2
    <3>2. \A other \in ops : other.key = k => other = op
      BY <3>1, <2>2 DEF Typed
    <3>3. op.value = acc[k]
      BY <1>0, <2>2, <3>2 DEF Careful, LastIsAccepted
    <3>4. st[k] = acc[k]
      BY <2>2, <3>1, <3>3 DEF Careful, ConfirmedIsStored
    <3>5. \A u \in ups : u.value = op.value
      BY <1>0, <1>1, <3>1 DEF Careful, SentIsFirst
    <3> QED
      BY <3>3, <3>4, <3>5
  <2> QED
    BY <2>1, <2>2
<1> QED
  BY <1>2, <1>3, <1>4, <1>5 DEF Careful

(* Operations that leave with their keys no longer watched. *)
LEMMA LeaveIsCareful ==
  ASSUME NEW ops, NEW ups, NEW ans, NEW st, NEW acc, NEW ks,
         Careful(ops, ups, ans, st, acc, ks),
         NEW now \in SUBSET ops, NEW left \in SUBSET ans, NEW ks2 \in SUBSET ks,
         \A op \in ops \ now : op.key \notin ks2
  PROVE  Careful(now, ups, left, st, acc, ks2)
<1>1. SentIsFirst(now, ups) /\ AnsweredIsFirst(now, ups, left)
  BY DEF Careful, SentIsFirst, AnsweredIsFirst
<1>2. LastIsAccepted(now, acc, ks2)
  BY DEF Careful, LastIsAccepted
<1>3. ConfirmedIsStored(now, left, st, ks2)
  BY DEF Careful, ConfirmedIsStored
<1>4. RestIsStored(now, ups, st, acc, ks2)
  BY DEF Careful, RestIsStored
<1> QED
  BY <1>1, <1>2, <1>3, <1>4 DEF Careful

LEMMA RetryIsCareful ==
  ASSUME NEW ops, NEW ups, NEW ans, NEW st, NEW acc, NEW ks,
         Careful(ops, ups, ans, st, acc, ks), NEW left \in SUBSET ans,
         NEW op \in ops, NEW again,
         again.id = op.id, again.key = op.key, again.value = op.value
  PROVE  Careful((ops \ {op}) \cup {again}, ups, left, st, acc, ks)
<1> DEFINE now == (ops \ {op}) \cup {again}
<1>1. ASSUME NEW p \in now
      PROVE  \E o \in ops : o.id = p.id /\ o.key = p.key /\ o.value = p.value
  OBVIOUS
<1>2. ASSUME NEW o \in ops
      PROVE  \E p \in now : o.id = p.id /\ o.key = p.key /\ o.value = p.value
  OBVIOUS
<1> HIDE DEF now
<1>3. SentIsFirst(now, ups)
  BY <1>1 DEF SentIsFirst, Careful
<1>4. AnsweredIsFirst(now, ups, left)
  BY <1>1 DEF AnsweredIsFirst, Careful
<1>5. LastIsAccepted(now, acc, ks)
  BY <1>1, <1>2 DEF LastIsAccepted, Careful
<1>6. ConfirmedIsStored(now, left, st, ks)
  BY <1>1 DEF ConfirmedIsStored, Careful
<1>7. RestIsStored(now, ups, st, acc, ks)
  BY <1>2 DEF RestIsStored, Careful
<1> QED
  BY <1>3, <1>4, <1>5, <1>6, <1>7 DEF Careful, now

(* An edit replaces pending operations of its own key only. *)
LEMMA EditIsCareful ==
  ASSUME NEW ops, NEW ups, NEW ans, NEW st, NEW acc \in [Keys -> Values \cup {None}],
         NEW ks \in SUBSET Keys, Typed(ops, ups, ans),
         Careful(ops, ups, ans, st, acc, ks),
         NEW k \in Keys, NEW v, NEW old \in SUBSET ops, \A op \in old : op.key = k,
         NEW new, new.key = k, new.value = v, new.id \in Nat,
         \A op \in ops : op.id < new.id, \A u \in ups : u.id < new.id, \A a \in ans : a.id < new.id
  PROVE  Careful((ops \ old) \cup {new}, ups, ans, st, [acc EXCEPT ![k] = v], ks)
<1> DEFINE now == (ops \ old) \cup {new}
           acc2 == [acc EXCEPT ![k] = v]
<1>0. /\ \A p \in ops : p.id \in Nat
      /\ \A u \in ups : u.id \in Nat
      /\ \A a \in ans : a.id \in Nat
  BY DEF Typed, Ops, Ids
<1>1. acc2[k] = v /\ \A j \in Keys \ {k} : acc2[j] = acc[j]
  OBVIOUS
<1>2. new \in now /\ \A op \in now : op = new \/ op \in ops
  OBVIOUS
<1>3. \A op \in ops : op.key # k => op \in now
  OBVIOUS
<1> HIDE DEF now, acc2
<1>4. SentIsFirst(now, ups)
  BY <1>0, <1>2 DEF Careful, SentIsFirst
<1>5. AnsweredIsFirst(now, ups, ans)
  BY <1>0, <1>2 DEF Careful, AnsweredIsFirst
<1>6. LastIsAccepted(now, acc2, ks)
  <2> SUFFICES ASSUME NEW op \in now, op.key \in ks,
                      \A other \in now : other.key = op.key => other.id <= op.id
               PROVE  op.value = acc2[op.key]
    BY DEF LastIsAccepted
  <2>1. CASE op = new
    BY <1>1, <2>1
  <2>2. CASE op # new
    <3>1. op \in ops /\ op.key # k
      BY <1>0, <1>2, <2>2
    <3>2. \A other \in ops : other.key = op.key => other.id <= op.id
      BY <1>3, <3>1
    <3> QED
      BY <1>1, <3>1, <3>2 DEF Careful, LastIsAccepted
  <2> QED
    BY <2>1, <2>2
<1>7. ConfirmedIsStored(now, ans, st, ks)
  BY <1>0, <1>2 DEF Careful, ConfirmedIsStored
<1>8. RestIsStored(now, ups, st, acc2, ks)
  <2> SUFFICES ASSUME NEW j \in ks, \A op \in now : op.key # j
               PROVE  st[j] = acc2[j] /\ \A u \in ups : u.key = j => u.value = acc2[j]
    BY DEF RestIsStored
  <2>1. j # k /\ acc2[j] = acc[j]
    BY <1>1, <1>2
  <2>2. \A op \in ops : op.key # j
    BY <1>3, <2>1
  <2> QED
    BY <2>1, <2>2 DEF Careful, RestIsStored
<1> QED
  BY <1>4, <1>5, <1>6, <1>7, <1>8 DEF Careful, now, acc2

(* The server writes back what it read, which is what is stored, but for     *)
(* the key of the update.                                                   *)
LEMMA WriteIsCareful ==
  ASSUME NEW ops, NEW ups, NEW ans, NEW st, NEW acc, NEW ks \in SUBSET Keys, Typed(ops, ups, ans),
         Careful(ops, ups, ans, st, acc, ks), NEW u \in ups, u.seen # None, NEW st2, NEW ans2,
         st2[u.key] = u.value,
         \A k \in ks \ {u.key} : st2[k] = IF k \in RowOf(u.key) THEN u.seen[k] ELSE st[k],
         \A a \in ans2 : a \in ans \/ a.id = u.id
  PROVE  Careful(ops, {}, ans2, st2, acc, ks)
<1>0. /\ \A p \in ops : p.id \in Nat
      /\ u.id \in Nat
      /\ \A a \in ans2 : a.id \in Nat
  BY DEF Typed, Ops, Ids
<1>1. \A k \in ks \ {u.key} : st2[k] = st[k]
  BY DEF Careful, SeenIsStored
<1>2. \A a \in ans2 : a.id <= u.id
  BY <1>0 DEF Careful, AnsweredIsFirst
<1>3. \A op \in ops : u.id <= op.id /\ (u.id = op.id => u.key = op.key /\ u.value = op.value)
  BY DEF Careful, SentIsFirst
<1>4. OneUpdate({}) /\ SeenIsStored({}, st2) /\ SentIsFirst(ops, {})
  BY DEF OneUpdate, SeenIsStored, SentIsFirst
<1>5. AnsweredIsFirst(ops, {}, ans2)
  BY <1>0, <1>2, <1>3 DEF AnsweredIsFirst
<1>6. ConfirmedIsStored(ops, ans2, st2, ks)
  <2> SUFFICES ASSUME NEW a \in ans2, NEW op \in ops, a.kind = "confirmed", a.id = op.id, op.key \in ks
               PROVE  st2[op.key] = op.value
    BY DEF ConfirmedIsStored
  <2>1. u.id = op.id /\ u.key = op.key /\ u.value = op.value
    BY <1>0, <1>2, <1>3
  <2> QED
    BY <2>1
<1>7. RestIsStored(ops, {}, st2, acc, ks)
  BY <1>1 DEF Careful, RestIsStored
<1> QED
  BY <1>4, <1>5, <1>6, <1>7 DEF Careful

(* Otherwise an update leaves with or without an answer, which confirms only *)
(* a key that is no longer watched.                                         *)
LEMMA FinishIsCareful ==
  ASSUME NEW ops, NEW ups, NEW ans, NEW st, NEW acc, NEW ks, Typed(ops, ups, ans),
         Careful(ops, ups, ans, st, acc, ks), NEW u \in ups, NEW ans2, NEW ks2 \in SUBSET ks,
         \A a \in ans2 : a \in ans \/ (a.id = u.id /\ (a.kind = "confirmed" => u.key \notin ks2))
  PROVE  Careful(ops, {}, ans2, st, acc, ks2)
<1>1. OneUpdate({}) /\ SeenIsStored({}, st) /\ SentIsFirst(ops, {})
  BY DEF OneUpdate, SeenIsStored, SentIsFirst
<1>2. AnsweredIsFirst(ops, {}, ans2)
  BY DEF AnsweredIsFirst, Careful, SentIsFirst
<1>3. LastIsAccepted(ops, acc, ks2)
  BY DEF LastIsAccepted, Careful
<1>4. ConfirmedIsStored(ops, ans2, st, ks2)
  BY DEF ConfirmedIsStored, Careful, SentIsFirst
<1>5. RestIsStored(ops, {}, st, acc, ks2)
  BY DEF RestIsStored, Careful
<1> QED
  BY <1>1, <1>2, <1>3, <1>4, <1>5 DEF Careful

(* An update that changes neither id nor key nor value. *)
LEMMA ReadIsCareful ==
  ASSUME NEW ops, NEW ups, NEW ans, NEW st, NEW acc, NEW ks,
         Careful(ops, ups, ans, st, acc, ks), NEW ups2, NEW left \in SUBSET ans,
         OneUpdate(ups2), SeenIsStored(ups2, st),
         \A w \in ups2 : \E u \in ups : w.id = u.id /\ w.key = u.key /\ w.value = u.value
  PROVE  Careful(ops, ups2, left, st, acc, ks)
<1>1. SentIsFirst(ops, ups2)
  BY DEF SentIsFirst, Careful
<1>2. AnsweredIsFirst(ops, ups2, left)
  BY DEF AnsweredIsFirst, Careful
<1>3. LastIsAccepted(ops, acc, ks)
  BY DEF LastIsAccepted, Careful
<1>4. ConfirmedIsStored(ops, left, st, ks)
  BY DEF ConfirmedIsStored, Careful
<1>5. RestIsStored(ops, ups2, st, acc, ks)
  BY DEF RestIsStored, Careful
<1> QED
  BY <1>1, <1>2, <1>3, <1>4, <1>5 DEF Careful

LEMMA TypedHolds ==
  ASSUME IInv
  PROVE  /\ Typed(operations, updates, answers)
         /\ accepted \in [Keys -> Values \cup {None}] /\ Watched \in SUBSET Keys
         /\ edits \in Nat /\ overlapped \in BOOLEAN /\ joined \in BOOLEAN
         /\ \A u \in updates : u.id \in Nat /\ u.key \in Keys
<1>1. operations \in SUBSET Ops /\ \A op, other \in operations : op.id = other.id => op = other
  BY DEF IInv, TypeOK, QueueOK, UniqueIds
<1>2. \A u \in updates : u.id \in Nat /\ u.key \in Keys
  BY DEF IInv, TypeOK, ServerOK, Update, Ids
<1>3. \A a \in answers : a.id \in Nat
  BY DEF IInv, TypeOK, ServerOK, Ids
<1>4. /\ accepted \in [Keys -> Values \cup {None}]
      /\ edits \in Nat /\ overlapped \in BOOLEAN /\ joined \in BOOLEAN
  BY BoundAssumption DEF IInv, TypeOK, QueueOK
<1>5. Watched \in SUBSET Keys
  BY DEF Watched
<1> QED
  BY <1>1, <1>2, <1>3, <1>4, <1>5 DEF Typed


(* processNextOperation sends the oldest operation: with no timer running,   *)
(* none is being processed.                                                 *)
LEMMA NextIsSaved ==
  ASSUME IInv, SavedInv, NEW registered \in BOOLEAN, NEW ops, NEW busy, NEW timers,
         Handed(ops, busy, timers), ProcessNext(registered, ops, busy, timers),
         answers' \in SUBSET answers, stored' = stored,
         edits' \in Nat, edits <= edits', \A op \in ops : op.id <= edits',
         ~overlapped => Careful(ops, updates, answers', stored, accepted', Watched')
  PROVE  SavedInv'
<1>0. /\ Typed(operations, updates, answers) /\ edits \in Nat /\ overlapped \in BOOLEAN
      /\ \A u \in updates : u.id \in Nat
      /\ \A a \in answers : a.id \in Nat
  BY TypedHolds DEF Typed
<1>1. \A u \in updates : u.id <= edits'
  BY <1>0 DEF SavedInv
<1>2. \A a \in answers' : a.id <= edits'
  BY <1>0 DEF SavedInv
<1>3. CASE operations' = ops /\ updates' = updates /\ overlapped' = overlapped
  BY <1>1, <1>2, <1>3 DEF SavedInv
<1>4. ASSUME NEW op \in NextOperation(ops),
             operations' = (ops \ {op}) \cup {[op EXCEPT !.status = "processing"]},
             Emit(op),
             overlapped' = (overlapped \/ timers # {} \/ updates # {})
      PROVE  SavedInv'
  <2> DEFINE sent == [op EXCEPT !.status = "processing"]
             new == [id |-> op.id, nth |-> op.retryCount, key |-> op.key,
                     value |-> op.value, seen |-> None, live |-> TRUE]
  <2>1. op \in ops /\ op \in Ops
    BY <1>4 DEF NextOperation, Pending, Handed
  <2>2. sent.id = op.id /\ sent.key = op.key /\ sent.value = op.value
    BY <2>1 DEF Ops
  <2>3. new.id = op.id /\ new.key = op.key /\ new.value = op.value /\ new.seen = None
    OBVIOUS
  <2>4. operations' = (ops \ {op}) \cup {sent} /\ updates' = updates \cup {new}
    BY <1>4 DEF Emit
  <2> HIDE DEF sent, new
  <2>5. \A u \in updates' : u.id <= edits'
    BY <1>1, <2>1, <2>3, <2>4
  <2>6. ASSUME ~overlapped'
        PROVE  Careful(operations', updates', answers', stored', accepted', Watched')
    <3>1. timers = {} /\ updates = {} /\ ~overlapped
      BY <1>4, <2>6
    <3>2. \A o \in ops : o \in Pending(ops)
      <4>1. \A o \in ops : o.status # "processing"
        BY <3>1 DEF Handed
      <4>2. \A o \in ops : o.status \in {"pending", "processing"}
        BY DEF Handed, Ops
      <4> QED
        BY <4>1, <4>2 DEF Pending
    <3>3. \A o \in ops : op.id <= o.id
      BY <1>4, <3>2 DEF NextOperation
    <3>4. Typed(ops, {}, answers')
      BY <1>0 DEF Typed, Handed
    <3>5. Careful(ops, {}, answers', stored, accepted', Watched')
      BY <3>1
    <3>6. Careful((ops \ {op}) \cup {sent}, {new}, answers', stored, accepted', Watched')
      BY <2>1, <2>2, <2>3, <3>3, <3>4, <3>5, SendIsCareful
    <3> QED
      BY <2>4, <3>1, <3>6
  <2> QED
    BY <1>2, <2>5, <2>6 DEF SavedInv
<1>5. CASE /\ ~busy /\ registered
           /\ \E op \in NextOperation(ops) :
                /\ operations' = (ops \ {op}) \cup {[op EXCEPT !.status = "processing"]}
                /\ isProcessing' = TRUE
                /\ operationTimers' = timers \cup {op.id}
                /\ Emit(op)
                /\ overlapped' = (overlapped \/ timers # {} \/ updates # {})
  BY <1>4, <1>5, Zenon
<1> QED
  BY <1>3, <1>5 DEF ProcessNext

(* A handler that sends nothing. *)
LEMMA QuietIsSaved ==
  ASSUME IInv, SavedInv, UNCHANGED <<updates, overlapped, stored, edits>>,
         answers' \in SUBSET answers,
         ~overlapped => Careful(operations', updates, answers', stored, accepted', Watched')
  PROVE  SavedInv'
BY DEF SavedInv

LEMMA FailIsSaved ==
  ASSUME IInv, SavedInv, NEW id \in Ids, NEW retryable \in BOOLEAN, FailOperation(id, retryable),
         UNCHANGED <<stored, skipped, edits, accepted, gone>>, answers' \in SUBSET answers
  PROVE  SavedInv'
<1>0. /\ Typed(operations, updates, answers)
      /\ edits \in Nat /\ overlapped \in BOOLEAN /\ joined \in BOOLEAN
  BY TypedHolds
<1>1. CASE UNCHANGED <<queueVars, updates, overlapped>>
  <2>1. operations' = operations /\ Watched' = Watched
    BY <1>1 DEF queueVars, Watched
  <2>2. ~overlapped => Careful(operations, updates, answers', stored, accepted, Watched)
    BY LeaveIsCareful DEF SavedInv
  <2> QED
    BY <1>1, <2>1, <2>2, QuietIsSaved
<1>2. ASSUME NEW op \in operations, Retry(op) PROVE SavedInv'
  <2> DEFINE again == [op EXCEPT !.status = "pending", !.retryCount = op.retryCount + 1]
  <2>1. op \in Ops
    BY <1>0 DEF Typed
  <2>2. again.id = op.id /\ again.key = op.key /\ again.value = op.value
    BY <2>1 DEF Ops
  <2>3. operations' = (operations \ {op}) \cup {again} /\ UNCHANGED <<updates, overlapped>>
    BY <1>2 DEF Retry
  <2>4. Watched' = Watched
    BY <1>2 DEF Retry, Watched
  <2> HIDE DEF again
  <2>5. ~overlapped => Careful((operations \ {op}) \cup {again}, updates, answers', stored, accepted, Watched)
    BY <2>2, RetryIsCareful DEF SavedInv
  <2> QED
    BY <2>3, <2>4, <2>5, QuietIsSaved
<1>3. ASSUME NEW op \in operations, BlockOf[op.key] \in gone, DropOperation(op) PROVE SavedInv'
  <2>1. {op} \in SUBSET operations /\ {o.id : o \in {op}} = {op.id}
    OBVIOUS
  <2>2. Handed(operations \ {op}, FALSE, operationTimers \ {op.id})
    BY <2>1, HandedWithout
  <2>3. ProcessNext(joined, operations \ {op}, FALSE, operationTimers \ {op.id})
    BY <1>3 DEF DropOperation, ProcessNextOperation
  <2>4. Watched' = Watched /\ op.key \notin Watched
    BY <1>3 DEF DropOperation, Watched
  <2>5. ~overlapped => Careful(operations \ {op}, updates, answers', stored, accepted, Watched)
    BY <2>4, LeaveIsCareful DEF SavedInv
  <2>6. \A o \in operations \ {op} : o.id <= edits
    BY DEF IInv, IdsAreOld
  <2>7. ~overlapped => Careful(operations \ {op}, updates, answers', stored, accepted', Watched')
    BY <2>4, <2>5
  <2>8. edits' \in Nat /\ edits <= edits' /\ \A o \in operations \ {op} : o.id <= edits'
    BY <1>0, <2>6
  <2> QED
    BY <1>0, <2>2, <2>3, <2>7, <2>8, NextIsSaved
<1>4. CASE TriggerOfflineMode
  <2>1. operations' = {} /\ Watched' = {} /\ UNCHANGED <<updates, overlapped>>
    BY <1>4 DEF TriggerOfflineMode, Watched
  <2>2. ~overlapped => Careful({}, updates, answers', stored, accepted, {})
    BY LeaveIsCareful DEF SavedInv
  <2> QED
    BY <2>1, <2>2, QuietIsSaved
<1> QED
  BY <1>1, <1>2, <1>3, <1>4 DEF FailOperation

LEMMA ConfirmIsSaved ==
  ASSUME IInv, SavedInv, NEW a \in answers, a.kind = "confirmed", ConfirmOperation(a.id),
         UNCHANGED <<stored, skipped, edits, accepted, gone>>, answers' = answers \ {a}
  PROVE  SavedInv'
<1> DEFINE S == {op \in operations : op.id = a.id}
           now == {op \in operations : op.id # a.id}
<1>0. /\ Typed(operations, updates, answers)
      /\ edits \in Nat /\ overlapped \in BOOLEAN /\ joined \in BOOLEAN
  BY TypedHolds
<1>1. S \in SUBSET operations /\ now = operations \ S
  OBVIOUS
<1>2. operationTimers \ {a.id} = operationTimers \ {op.id : op \in S}
  BY DEF IInv, TimersMatch
<1>3. Handed(operations \ S, FALSE, operationTimers \ {op.id : op \in S})
  BY <1>1, HandedWithout
<1>4. Handed(now, FALSE, operationTimers \ {a.id})
  BY <1>1, <1>2, <1>3
<1>5. ProcessNext(joined, now, FALSE, operationTimers \ {a.id}) /\ Watched' = Watched
  BY DEF ConfirmOperation, ProcessNextOperation, Watched
<1>6. ~overlapped => Careful(now, updates, answers \ {a}, stored, accepted, Watched)
  BY <1>0, ConfirmIsCareful DEF SavedInv
<1>7. edits' \in Nat /\ edits <= edits' /\ \A op \in now : op.id <= edits'
  BY <1>0 DEF IInv, IdsAreOld
<1> HIDE DEF now, S
<1>8. ~overlapped => Careful(now, updates, answers', stored, accepted', Watched')
  BY <1>5, <1>6
<1> QED
  BY <1>0, <1>4, <1>5, <1>7, <1>8, NextIsSaved

LEMMA EditIsSaved ==
  ASSUME IInv, SavedInv, NEW k \in Keys, NEW v \in Values, Edit(k, v)
  PROVE  SavedInv'
<1>0. /\ Typed(operations, updates, answers) /\ accepted \in [Keys -> Values \cup {None}]
      /\ Watched \in SUBSET Keys
      /\ edits \in Nat /\ overlapped \in BOOLEAN /\ joined \in BOOLEAN
  BY TypedHolds
<1>1. /\ edits' = edits + 1
      /\ UNCHANGED <<hasOperationError, stored, answers, skipped, gone>>
  BY DEF Edit, serverVars
<1>2. Watched' = Watched
  BY <1>1 DEF Watched
<1>3. /\ \A u \in updates : u.id \in Nat /\ u.id <= edits
      /\ \A a \in answers : a.id \in Nat /\ a.id <= edits
      /\ \A op \in operations : op.id \in Nat /\ op.id <= edits
  BY <1>0 DEF Typed, SavedInv, IInv, IdsAreOld, Ops, Ids
<1>4. CASE UNCHANGED <<accepted, operations, updates, overlapped>>
  <2>1. \A u \in updates' : u.id <= edits'
    BY <1>0, <1>1, <1>3, <1>4
  <2>2. \A a \in answers' : a.id <= edits'
    BY <1>0, <1>1, <1>3
  <2> QED
    BY <1>1, <1>2, <1>4, <2>1, <2>2 DEF SavedInv
<1>5. ASSUME NEW new, new = [id |-> edits + 1, key |-> k, value |-> v, status |-> "pending", retryCount |-> 0],
             accepted' = [accepted EXCEPT ![k] = v],
             ProcessNextOperation((operations \ Superseded(k)) \cup {new}, isProcessing, operationTimers)
      PROVE  SavedInv'
  <2> DEFINE ops == (operations \ Superseded(k)) \cup {new}
  <2>1. new.id = edits + 1 /\ new.key = k /\ new.value = v /\ new.status = "pending"
    BY <1>5
  <2>2. new \in Ops
    BY <1>0, <1>5, BoundAssumption DEF Edit, Ops, Ids
  <2>3. ops \in SUBSET Ops
    BY <1>0, <2>2 DEF Typed
  <2>4. \A op, other \in ops : op.id = other.id => op = other
    BY <1>0, <1>3, <2>1 DEF Typed
  <2>5. {o \in ops : o.status = "processing"} = {o \in operations : o.status = "processing"}
    BY <2>1 DEF Superseded, Pending
  <2>6. isProcessing \in BOOLEAN
    BY DEF IInv, TypeOK, QueueOK
  <2>7. Handed(ops, isProcessing, operationTimers)
    BY <2>3, <2>4, <2>5, <2>6 DEF Handed, IInv, TimersMatch, BusyMeansInFlight
  <2>8. ProcessNext(joined, ops, isProcessing, operationTimers)
    BY <1>5 DEF ProcessNextOperation
  <2>9. /\ Superseded(k) \in SUBSET operations /\ \A op \in Superseded(k) : op.key = k
        /\ new.id \in Nat
        /\ \A op \in operations : op.id < new.id
        /\ \A u \in updates : u.id < new.id
        /\ \A a \in answers : a.id < new.id
    BY <1>0, <1>3, <2>1 DEF Superseded, Pending
  <2>10. ~overlapped => Careful(ops, updates, answers, stored, [accepted EXCEPT ![k] = v], Watched)
    BY <1>0, <2>1, <2>9, EditIsCareful DEF SavedInv
  <2>11. \A op \in ops : op.id <= edits'
    BY <1>0, <1>1, <1>3, <2>1
  <2> HIDE DEF ops
  <2>12. ~overlapped => Careful(ops, updates, answers', stored, accepted', Watched')
    BY <1>1, <1>2, <1>5, <2>10
  <2>13. edits' \in Nat /\ edits <= edits' /\ stored' = stored /\ answers' \in SUBSET answers
    BY <1>0, <1>1
  <2> QED
    BY <1>0, <2>7, <2>8, <2>11, <2>12, <2>13, NextIsSaved
<1> QED
  BY <1>4, <1>5 DEF Edit

LEMMA RemovalIsSaved ==
  ASSUME IInv, SavedInv, NEW b \in Removable, BlockRemoved(b)
  PROVE  SavedInv'
<1> DEFINE S == {op \in operations : BlockOf[op.key] = b /\ op.key \notin Others}
<1>0. edits \in Nat /\ overlapped \in BOOLEAN /\ joined \in BOOLEAN
  BY TypedHolds
<1>1. S \in SUBSET operations /\ \A op \in S : BlockOf[op.key] = b
  OBVIOUS
<1>2. Handed(operations \ S, FALSE, operationTimers \ {op.id : op \in S})
  BY HandedWithout
<1>3. /\ ProcessNext(joined, operations \ S, FALSE, operationTimers \ {op.id : op \in S})
      /\ UNCHANGED <<stored, answers, edits, accepted, skipped, hasOperationError>>
      /\ gone' = gone \cup {b}
  BY DEF BlockRemoved, ProcessNextOperation, serverVars, editVars
<1> HIDE DEF S
<1>4. Watched' \in SUBSET Watched /\ \A op \in S : op.key \notin Watched'
  BY <1>1, <1>3 DEF Watched
<1>5. ~overlapped => Careful(operations \ S, updates, answers', stored, accepted', Watched')
  <2>1. operations \ S \in SUBSET operations /\ \A op \in operations \ (operations \ S) : op.key \notin Watched'
    BY <1>4
  <2>2. ~overlapped => Careful(operations \ S, updates, answers, stored, accepted, Watched')
    BY <1>4, <2>1, LeaveIsCareful DEF SavedInv
  <2> QED
    BY <1>3, <2>2
<1>6. edits' \in Nat /\ edits <= edits' /\ \A op \in operations \ S : op.id <= edits'
  BY <1>0, <1>3 DEF IInv, IdsAreOld
<1> QED
  BY <1>0, <1>2, <1>3, <1>5, <1>6, NextIsSaved

(* A step of the server: what it leaves of the updates, answers it and stores. *)
LEMMA ServerIsSaved ==
  ASSUME IInv, SavedInv, ServerOnly,
         \A u \in updates' : u.id <= edits, \A a \in answers' : a.id <= edits,
         ~overlapped => Careful(operations, updates', answers', stored', accepted, Watched')
  PROVE  SavedInv'
BY DEF SavedInv, ServerOnly, queueVars, editVars

(* Without an overlap the update that is finished is the only one. *)
LEMMA FinishIsSaved ==
  ASSUME IInv, SavedInv, NEW u \in updates, NEW kind, Finishes(u, kind), ServerOnly,
         ~overlapped => Careful(operations, {}, answers', stored', accepted, Watched')
  PROVE  SavedInv'
<1>1. \A w \in updates' : w.id <= edits
  BY DEF Finishes, SavedInv
<1>2. \A a \in answers' : a.id <= edits
  BY DEF Finishes, SavedInv
<1>3. ~overlapped => updates' = {}
  BY DEF Finishes, SavedInv, Careful, OneUpdate
<1>4. ~overlapped => Careful(operations, updates', answers', stored', accepted, Watched')
  BY <1>3
<1> QED
  BY <1>1, <1>2, <1>4, ServerIsSaved

LEMMA ReadIsSaved ==
  ASSUME IInv, SavedInv, NEW u \in updates, Reads(u)
  PROVE  SavedInv'
<1> DEFINE row == [k \in RowOf(u.key) |-> stored[k]]
           read == [u EXCEPT !.seen = row]
<1>1. u.id <= edits /\ \A w \in updates : w.id <= edits
  BY DEF SavedInv
<1>2. read.id = u.id /\ read.key = u.key /\ read.value = u.value /\ read.seen = row
  BY DEF IInv, TypeOK, ServerOK, Update
<1>3. \A j \in RowOf(read.key) : row[j] = stored[j]
  BY <1>2
<1>4. updates' = (updates \ {u}) \cup {read} /\ ServerOnly /\ UNCHANGED <<stored, answers, skipped>>
  BY DEF Reads, serverVars
<1> HIDE DEF read, row
<1>5. Watched' = Watched
  BY <1>4 DEF Watched, ServerOnly, queueVars
<1>6. ASSUME ~overlapped
      PROVE  Careful(operations, updates', answers, stored, accepted, Watched)
  <2>1. updates' = {read}
    BY <1>4, <1>6 DEF SavedInv, Careful, OneUpdate
  <2>2. OneUpdate({read}) /\ SeenIsStored({read}, stored)
    BY <1>2, <1>3 DEF OneUpdate, SeenIsStored
  <2>3. \A w \in {read} : \E x \in updates : w.id = x.id /\ w.key = x.key /\ w.value = x.value
    BY <1>2
  <2>4. Careful(operations, updates, answers, stored, accepted, Watched)
    BY <1>6 DEF SavedInv
  <2> QED
    BY <2>1, <2>2, <2>3, <2>4, ReadIsCareful
<1>7. \A w \in updates' : w.id <= edits
  BY <1>1, <1>2, <1>4
<1>8. \A a \in answers' : a.id <= edits
  BY <1>4 DEF SavedInv
<1>9. ~overlapped => Careful(operations, updates', answers', stored', accepted, Watched')
  BY <1>4, <1>5, <1>6
<1> QED
  BY <1>4, <1>7, <1>8, <1>9, ServerIsSaved

LEMMA WriteIsSaved ==
  ASSUME IInv, SavedInv, NEW u \in updates, Writes(u)
  PROVE  SavedInv'
<1>0. /\ Typed(operations, updates, answers) /\ Watched \in SUBSET Keys /\ u.key \in Keys
  BY TypedHolds
<1>1. /\ ServerOnly /\ skipped' = skipped /\ Finishes(u, "confirmed") /\ u.seen # None
      /\ stored' = [k \in Keys |-> IF k = u.key THEN u.value
                                   ELSE IF k \in RowOf(u.key) THEN u.seen[k] ELSE stored[k]]
  BY DEF Writes
<1>2. Watched' = Watched
  BY <1>1 DEF Watched, ServerOnly, queueVars
<1>3. stored'[u.key] = u.value
  BY <1>0, <1>1
<1>4. \A k \in Watched \ {u.key} : stored'[k] = IF k \in RowOf(u.key) THEN u.seen[k] ELSE stored[k]
  BY <1>0, <1>1
<1>5. \A a \in answers' : a \in answers \/ a.id = u.id
  BY <1>1 DEF Finishes
<1>6. ASSUME ~overlapped
      PROVE  Careful(operations, {}, answers', stored', accepted, Watched)
  <2>1. Careful(operations, updates, answers, stored, accepted, Watched)
    BY <1>6 DEF SavedInv
  <2> QED
    BY <1>0, <1>1, <1>3, <1>4, <1>5, <2>1, WriteIsCareful
<1>7. ~overlapped => Careful(operations, {}, answers', stored', accepted, Watched')
  BY <1>2, <1>6
<1> QED
  BY <1>1, <1>7, FinishIsSaved

LEMMA RefuseIsSaved ==
  ASSUME IInv, SavedInv, NEW u \in updates, Refuses(u)
  PROVE  SavedInv'
<1>0. Typed(operations, updates, answers)
  BY TypedHolds
<1>1. PICK kind \in {"retryable", "final"} : Finishes(u, kind)
  BY DEF Refuses
<1>2. ServerOnly /\ UNCHANGED <<stored, skipped>>
  BY DEF Refuses
<1>3. Watched' = Watched
  BY <1>2 DEF Watched, ServerOnly, queueVars
<1>4. \A a \in answers' : a \in answers \/ (a.id = u.id /\ (a.kind = "confirmed" => u.key \notin Watched))
  BY <1>1 DEF Finishes
<1>5. ~overlapped => Careful(operations, {}, answers', stored, accepted, Watched)
  BY <1>0, <1>4, FinishIsCareful DEF SavedInv
<1>6. ~overlapped => Careful(operations, {}, answers', stored', accepted, Watched')
  BY <1>2, <1>3, <1>5
<1> QED
  BY <1>1, <1>2, <1>6, FinishIsSaved

LEMMA SkipIsSaved ==
  ASSUME IInv, SavedInv, NEW u \in updates, Skips(u)
  PROVE  SavedInv'
<1>0. Typed(operations, updates, answers)
  BY TypedHolds
<1>1. ServerOnly /\ stored' = stored /\ skipped' = skipped \cup {u.key} /\ Finishes(u, "confirmed")
  BY DEF Skips
<1>2. Watched' \in SUBSET Watched /\ u.key \notin Watched'
  BY <1>1 DEF Watched, ServerOnly, queueVars
<1>3. \A a \in answers' : a \in answers \/ (a.id = u.id /\ (a.kind = "confirmed" => u.key \notin Watched'))
  BY <1>1, <1>2 DEF Finishes
<1>4. ~overlapped => Careful(operations, {}, answers', stored, accepted, Watched')
  BY <1>0, <1>2, <1>3, FinishIsCareful DEF SavedInv
<1>5. ~overlapped => Careful(operations, {}, answers', stored', accepted, Watched')
  BY <1>1, <1>4
<1> QED
  BY <1>1, <1>5, FinishIsSaved

LEMMA LossIsSaved ==
  ASSUME IInv, SavedInv, NEW u \in updates, Loses(u)
  PROVE  SavedInv'
<1>1. ServerOnly /\ UNCHANGED <<stored, answers, skipped>> /\ updates' = updates \ {u}
  BY DEF Loses, serverVars
<1>2. Watched' = Watched
  BY <1>1 DEF Watched, ServerOnly, queueVars
<1>3. ASSUME ~overlapped
      PROVE  Careful(operations, updates', answers, stored, accepted, Watched)
  <2>1. Careful(operations, updates, answers, stored, accepted, Watched)
    BY <1>3 DEF SavedInv
  <2>2. OneUpdate(updates') /\ SeenIsStored(updates', stored)
    BY <1>1, <2>1 DEF Careful, OneUpdate, SeenIsStored
  <2> QED
    BY <1>1, <2>1, <2>2, ReadIsCareful
<1>4. \A w \in updates' : w.id <= edits
  BY <1>1 DEF SavedInv
<1>5. \A a \in answers' : a.id <= edits
  BY <1>1 DEF SavedInv
<1>6. ~overlapped => Careful(operations, updates', answers', stored', accepted, Watched')
  BY <1>1, <1>2, <1>3
<1> QED
  BY <1>1, <1>4, <1>5, <1>6, ServerIsSaved

LEMMA DisconnectIsSaved ==
  ASSUME IInv, SavedInv, Disconnects
  PROVE  SavedInv'
<1>1. /\ UNCHANGED <<operations, hasOperationError, stored, skipped, edits, accepted, gone, overlapped>>
      /\ answers' = {} /\ updates' = {[u EXCEPT !.live = FALSE] : u \in updates}
  BY DEF Disconnects, queueVars, editVars
<1>2. Watched' = Watched
  BY <1>1 DEF Watched
<1>3. ASSUME NEW w \in updates'
      PROVE  \E u \in updates : /\ w = [u EXCEPT !.live = FALSE] /\ w.id = u.id /\ w.key = u.key
                                /\ w.value = u.value /\ w.seen = u.seen
  <2>1. PICK u \in updates : w = [u EXCEPT !.live = FALSE]
    BY <1>1
  <2>2. w.id = u.id /\ w.key = u.key /\ w.value = u.value /\ w.seen = u.seen
    BY <2>1 DEF IInv, TypeOK, ServerOK, Update
  <2> QED
    BY <2>1, <2>2
<1>4. ASSUME ~overlapped
      PROVE  Careful(operations, updates', {}, stored, accepted, Watched)
  <2>1. Careful(operations, updates, answers, stored, accepted, Watched)
    BY <1>4 DEF SavedInv
  <2>2. OneUpdate(updates')
    BY <1>1, <2>1 DEF Careful, OneUpdate
  <2>3. SeenIsStored(updates', stored)
    BY <1>3, <2>1 DEF Careful, SeenIsStored
  <2>4. \A w \in updates' : \E u \in updates : w.id = u.id /\ w.key = u.key /\ w.value = u.value
    BY <1>3
  <2> QED
    BY <2>1, <2>2, <2>3, <2>4, ReadIsCareful
<1>5. \A w \in updates' : w.id <= edits'
  BY <1>1, <1>3 DEF SavedInv
<1>6. ~overlapped' => Careful(operations', updates', answers', stored', accepted', Watched')
  BY <1>1, <1>2, <1>4
<1> QED
  BY <1>1, <1>5, <1>6 DEF SavedInv

LEMMA SavedStep == IInv /\ SavedInv /\ [Next]_vars => SavedInv'
<1> SUFFICES ASSUME IInv, SavedInv, [Next]_vars PROVE SavedInv'
  OBVIOUS
<1>0. /\ edits \in Nat /\ joined \in BOOLEAN
      /\ operationTimers \in SUBSET Ids /\ \A a \in answers : a.id \in Ids
      /\ \A op \in operations : op.id <= edits
  BY TypedHolds DEF IInv, TypeOK, QueueOK, ServerOK, IdsAreOld
<1>1. ASSUME NEW k \in Keys, NEW v \in Values, Edit(k, v) PROVE SavedInv'
  BY <1>1, EditIsSaved
<1>2. ASSUME NEW a \in answers, Answered(a) PROVE SavedInv'
  <2>1. UNCHANGED <<stored, skipped, edits, accepted, gone>> /\ answers' = answers \ {a}
    BY <1>2 DEF Answered, editVars
  <2>2. CASE a.kind = "confirmed" /\ ConfirmOperation(a.id)
    BY <2>1, <2>2, ConfirmIsSaved
  <2>3. CASE FailOperation(a.id, a.kind = "retryable")
    <3>1. (a.kind = "retryable") \in BOOLEAN
      OBVIOUS
    <3> QED
      BY <1>0, <2>1, <2>3, <3>1, FailIsSaved
  <2> QED
    BY <1>2, <2>2, <2>3 DEF Answered
<1>3. ASSUME NEW id \in operationTimers, OperationTimesOut(id) PROVE SavedInv'
  <2>1. UNCHANGED <<stored, skipped, edits, accepted, gone>> /\ answers' \in SUBSET answers
    BY <1>3 DEF OperationTimesOut, serverVars, editVars
  <2> QED
    BY <1>0, <1>3, <2>1, FailIsSaved DEF OperationTimesOut
<1>4. ASSUME NEW registered \in BOOLEAN, ProcessNext(registered, operations, isProcessing, operationTimers),
             UNCHANGED <<hasOperationError, serverVars, editVars, gone>>
      PROVE  SavedInv'
  <2>1. Handed(operations, isProcessing, operationTimers)
    BY HandedQueue
  <2>2. UNCHANGED <<stored, answers, accepted, edits>> /\ Watched' = Watched
    BY <1>4 DEF serverVars, editVars, Watched
  <2>3. ~overlapped => Careful(operations, updates, answers', stored, accepted', Watched')
    BY <2>2 DEF SavedInv
  <2>4. /\ answers' \in SUBSET answers /\ stored' = stored /\ edits' \in Nat /\ edits <= edits'
        /\ \A op \in operations : op.id <= edits'
    BY <1>0, <2>2
  <2> QED
    BY <1>4, <2>1, <2>3, <2>4, NextIsSaved
<1>5. ASSUME NEW t \in retryTimers, RetryFires(t) PROVE SavedInv'
  BY <1>0, <1>4, <1>5 DEF RetryFires, ProcessNextOperation
<1>6. ASSUME NEW b \in Removable, BlockRemoved(b) PROVE SavedInv'
  BY <1>6, RemovalIsSaved
<1>7. CASE Joins
  BY <1>4, <1>7 DEF Joins, RegisterEmitFunctions
<1>8. CASE Disconnects
  BY <1>8, DisconnectIsSaved
<1>9. ASSUME NEW u \in updates, Serves(u) \/ Skips(u) \/ Loses(u) PROVE SavedInv'
  BY <1>9, ReadIsSaved, WriteIsSaved, RefuseIsSaved, SkipIsSaved, LossIsSaved DEF Serves
<1>10. CASE UNCHANGED vars
  <2>1. Watched' = Watched
    BY <1>10 DEF vars, queueVars, serverVars, Watched
  <2> QED
    BY <1>10, <2>1 DEF vars, queueVars, serverVars, editVars, SavedInv
<1> QED
  BY <1>1, <1>2, <1>3, <1>5, <1>6, <1>7, <1>8, <1>9, <1>10 DEF Next

LEMMA SavedInit == Init => SavedInv
<1> SUFFICES ASSUME Init PROVE SavedInv
  OBVIOUS
<1>1. \A k \in Watched : stored[k] = accepted[k]
  BY DEF Init, Watched
<1> QED
  BY <1>1 DEF Init, SavedInv, Careful, OneUpdate, SeenIsStored, SentIsFirst, AnsweredIsFirst,
              LastIsAccepted, ConfirmedIsStored, RestIsStored

LEMMA SavedInvSuffices == SavedInv => ReadyMeansSaved
BY DEF SavedInv, Careful, RestIsStored, Watched, ReadyMeansSaved, NothingToSave, Saved

(* While each operation is sent after the one before it was answered, an     *)
(* editor with nothing left to save, which is when the workflow may be       *)
(* deployed, has its last accepted edit of every key in the database: retries, *)
(* losses, late answers, reconnections and replaced edits do not change it.  *)
THEOREM ReadyIsSaved == Spec => []ReadyMeansSaved
<1>1. Init => IInv /\ SavedInv
  BY InitHolds, SavedInit
<1>2. IInv /\ SavedInv /\ [Next]_vars => IInv' /\ SavedInv'
  BY StepHolds, SavedStep
<1> QED
  BY <1>1, <1>2, SavedInvSuffices, PTL DEF Spec
=============================================================================

---------------------------- MODULE OutboxProofs ----------------------------
(***************************************************************************)
(* Theorems of Outbox, for any number of workers, events and attempts and  *)
(* any clock: they rest on HandlerTimeout < StuckThreshold alone.          *)
(***************************************************************************)
EXTENDS Outbox, TLAPS

LEMMA BackoffNat == \A n \in Nat : Backoff(n) \in Nat
  BY OutboxAssumption DEF Backoff

LEMMA IdleWorker == Idle \in Worker /\ Idle.pc = "idle"
  BY DEF Idle, Worker, Outcomes

(* What a worker may write: a row, that is processing only with the lease of *)
(* the moment.                                                              *)
LEMMA RecordedRow ==
  ASSUME now \in Nat, NEW r \in Row, NEW me \in Worker, me.outcome \in Outcomes,
         r.status = "processing"
  PROVE  /\ Recorded(r, me) \in Row
         /\ Recorded(r, me).status \in {"pending", "processing", "completed", "dead_letter"}
         /\ Recorded(r, me).status = "processing" =>
              Recorded(r, me).lockedAt = now
<1>1. AttemptsAfter(me) \in Nat
  BY DEF AttemptsAfter, Worker
<1>2. now + Backoff(AttemptsAfter(me)) \in Nat
  BY <1>1, BackoffNat
<1>3. StatusAfter(me) \in {"pending", "processing", "completed", "dead_letter"}
  BY DEF StatusAfter
<1>. QED BY <1>1, <1>2, <1>3 DEF Recorded, Row

----------------------------------------------------------------------------
(* Type correctness. *)

(* A worker knows its event once it claimed one, and the outcome once the    *)
(* handler ended.                                                            *)
WorkerKnows(w) ==
  /\ workers[w].pc # "idle" => workers[w].event \in Events
  /\ workers[w].pc = "recording" => workers[w].outcome \in Outcomes

TypeInv == TypeOK /\ \A w \in Workers : WorkerKnows(w)

(* What every action must show of rows and workers. *)
RowsOK == rows \in [Events -> Row]

WorkersOK == workers \in [Workers -> Worker] /\ \A w \in Workers : WorkerKnows(w)

LEMMA UpdatedWorker ==
  ASSUME TypeInv, NEW w \in Workers, NEW me \in Worker,
         me.pc # "idle" => me.event \in Events,
         me.pc = "recording" => me.outcome \in Outcomes,
         workers' = [workers EXCEPT ![w] = me]
  PROVE  WorkersOK'
<1>1. workers' \in [Workers -> Worker]
  BY DEF TypeInv, TypeOK
<1>2. \A v \in Workers : workers'[v] = IF v = w THEN me ELSE workers[v]
  BY DEF TypeInv, TypeOK
<1>. QED BY <1>1, <1>2 DEF WorkersOK, WorkerKnows, TypeInv

LEMMA UpdatedRow ==
  ASSUME TypeInv, NEW e \in Events, NEW r \in Row, rows' = [rows EXCEPT ![e] = r]
  PROVE  RowsOK'
  BY DEF RowsOK, TypeInv, TypeOK

LEMMA NextTypeInv == TypeInv /\ [Next]_vars => TypeInv'
<1>. SUFFICES ASSUME TypeInv, [Next]_vars PROVE TypeInv'
  OBVIOUS
<1>. DEFINE RestOK ==
       /\ now \in Nat /\ enqueued \in 0 .. MaxEvents
       /\ reschedules \in 0 .. MaxReschedules /\ waits \in 0 .. MaxWaits /\ faults \in 0 .. MaxFaults
       /\ lastClaimer \in [Events -> Workers \cup {None}]
       /\ unserved \in BOOLEAN
<1>0. RowsOK /\ WorkersOK /\ RestOK
  BY DEF TypeInv, TypeOK, RowsOK, WorkersOK
<1>00. SUFFICES RowsOK' /\ WorkersOK' /\ RestOK'
  BY DEF TypeInv, TypeOK, RowsOK, WorkersOK, WorkerKnows
<1>1. ASSUME NEW at \in Nat, InsertRow(at) PROVE RowsOK' /\ enqueued' \in 0 .. MaxEvents /\ UNCHANGED reschedules
  <2>1. enqueued + 1 \in Events /\ enqueued' \in 0 .. MaxEvents
    BY <1>0, <1>1, OutboxAssumption DEF InsertRow, Events
  <2>2. [rows[enqueued + 1] EXCEPT !.status = "pending", !.availableAt = at] \in Row
    BY <1>0, <2>1 DEF RowsOK, Row
  <2>. QED BY <1>1, <2>1, <2>2, UpdatedRow DEF InsertRow
<1>2. CASE Enqueue
  BY <1>0, <1>1, <1>2 DEF Enqueue, WorkersOK, WorkerKnows
<1>3. CASE Request
  <2>1. CASE Pending = {} /\ InsertRow(now + SettleWindow)
    BY <1>0, <1>3, <1>1, <2>1, OutboxAssumption DEF Request, WorkersOK, WorkerKnows
  <2>2. ASSUME NEW e \in Pending, reschedules > 0, reschedules' = reschedules - 1, UNCHANGED enqueued,
               rows' = [rows EXCEPT ![e].availableAt = Later(@, now + SettleWindow)]
        PROVE  RowsOK' /\ WorkersOK' /\ RestOK'
    <3>1. e \in Events /\ [rows[e] EXCEPT !.availableAt = Later(@, now + SettleWindow)] \in Row
      BY <1>0, OutboxAssumption DEF RowsOK, Row, Later, Pending
    <3>2. RowsOK'
      BY <2>2, <3>1, UpdatedRow
    <3>. QED BY <1>0, <1>3, <2>2, <3>2, OutboxAssumption DEF Request, WorkersOK, WorkerKnows
  <2>. QED BY <1>3, <2>1, <2>2 DEF Request
<1>4. CASE Reap
  <2>1. \A e \in Events : [rows[e] EXCEPT !.status = "pending", !.lockedAt = None] \in Row
    BY <1>0 DEF RowsOK, Row
  <2>2. RowsOK'
    BY <1>0, <1>4, <2>1 DEF Reap, RowsOK
  <2>. QED BY <1>0, <1>4, <2>2 DEF Reap, WorkersOK, WorkerKnows, bounds, ghosts
<1>5. ASSUME NEW w \in Workers, NEW e \in Events, Claim(w, e) PROVE RowsOK' /\ WorkersOK' /\ RestOK'
  <2>1. [rows[e] EXCEPT !.status = "processing", !.lockedAt = now] \in Row /\ rows[e].attempts \in Nat
    BY <1>0 DEF RowsOK, Row
  <2>2. RowsOK'
    BY <1>5, <2>1, UpdatedRow DEF Claim
  <2>3. WorkersOK'
    <3>. DEFINE me == [pc |-> IF e \in Unhandled THEN "recording" ELSE "handling",
                       event |-> e, attempts |-> rows[e].attempts, lockedAt |-> now,
                       outcome |-> IF e \in Unhandled THEN "unhandled" ELSE None]
    <3>1. me \in Worker /\ (me.pc = "recording" => me.outcome \in Outcomes) /\ me.event \in Events
      BY <1>0, <2>1 DEF Worker, Outcomes
    <3>2. workers' = [workers EXCEPT ![w] = me]
      BY <1>5 DEF Claim
    <3>. QED BY <3>1, <3>2, UpdatedWorker
  <2>4. lastClaimer' \in [Events -> Workers \cup {None}]
    BY <1>0, <1>5 DEF Claim
  <2>. QED BY <1>0, <1>5, <2>2, <2>3, <2>4 DEF Claim, bounds
<1>6. ASSUME NEW w \in Workers, HandlerReturns(w) \/ HandlerWaits(w) \/ HandlerTimesOut(w)
      PROVE  RowsOK' /\ WorkersOK' /\ RestOK'
  <2>1. PICK outcome \in Outcomes : HandlerEnds(w, outcome)
    BY <1>6 DEF HandlerReturns, HandlerWaits, HandlerTimesOut, Outcomes
  <2>2. WorkersOK'
    <3>. DEFINE me == [workers[w] EXCEPT !.pc = "recording", !.outcome = outcome]
    <3>1. me \in Worker /\ me.outcome \in Outcomes /\ me.event = workers[w].event
      BY <1>0 DEF WorkersOK, Worker
    <3>2. me.event \in Events /\ workers' = [workers EXCEPT ![w] = me]
      BY <1>0, <2>1, <3>1 DEF HandlerEnds, WorkersOK, WorkerKnows
    <3>. QED BY <3>1, <3>2, UpdatedWorker
  <2>3. waits' \in 0 .. MaxWaits /\ UNCHANGED <<reschedules, faults>>
    BY <1>0, <1>6, OutboxAssumption DEF HandlerReturns, HandlerWaits, HandlerTimesOut, bounds
  <2>. QED BY <1>0, <2>1, <2>2, <2>3 DEF HandlerEnds, ghosts, RowsOK
<1>7. ASSUME NEW w \in Workers, workers' = [workers EXCEPT ![w] = Idle] PROVE WorkersOK'
  BY <1>7, IdleWorker, UpdatedWorker
<1>8. ASSUME NEW w \in Workers, Record(w) PROVE RowsOK' /\ WorkersOK' /\ RestOK'
  <2>1. workers[w] \in Worker /\ workers[w].outcome \in Outcomes
    BY <1>0, <1>8 DEF Record, WorkersOK, WorkerKnows
  <2>2. \A e \in Events : e = workers[w].event /\ LeaseHeld(workers[w]) =>
          Recorded(rows[e], workers[w]) \in Row
    BY <1>0, <2>1, RecordedRow DEF LeaseHeld, RowsOK
  <2>3. RowsOK'
    BY <1>0, <1>8, <2>2 DEF Record, RowsOK
  <2>. QED BY <1>0, <1>7, <1>8, <2>3 DEF Record, bounds, ghosts
<1>9. ASSUME NEW w \in Workers, Fault PROVE faults' \in 0 .. MaxFaults /\ UNCHANGED <<reschedules, waits>>
  BY <1>0, <1>9, OutboxAssumption DEF Fault
<1>10. ASSUME NEW w \in Workers, WriteFails(w) PROVE RowsOK' /\ WorkersOK' /\ RestOK'
  <2>. DEFINE me == [workers[w] EXCEPT !.outcome = "failed"]
  <2>1. me \in Worker /\ me.outcome \in Outcomes /\ me.event \in Events
    BY <1>0, <1>10 DEF WriteFails, WorkersOK, WorkerKnows, Worker, Outcomes
  <2>2. workers' = [workers EXCEPT ![w] = me] \/ workers' = [workers EXCEPT ![w] = Idle]
    BY <1>10 DEF WriteFails
  <2>3. WorkersOK'
    BY <1>7, <2>1, <2>2, UpdatedWorker
  <2>. QED BY <1>0, <1>9, <1>10, <2>3 DEF WriteFails, ghosts, RowsOK
<1>11. ASSUME NEW w \in Workers, Crash(w) PROVE RowsOK' /\ WorkersOK' /\ RestOK'
  BY <1>0, <1>7, <1>9, <1>11 DEF Crash, ghosts, RowsOK
<1>12. CASE Tick \/ Stall
  <2>1. RestOK'
    BY <1>0, <1>12, OutboxAssumption DEF Tick, Stall, Advance, Fault, bounds, ghosts
  <2>. QED BY <1>0, <1>12, <2>1 DEF Tick, Stall, Advance, RowsOK, WorkersOK, WorkerKnows
<1>13. CASE UNCHANGED vars
  BY <1>0, <1>13 DEF vars, bounds, ghosts, RowsOK, WorkersOK, WorkerKnows
<1>. QED BY <1>2, <1>3, <1>4, <1>5, <1>6, <1>8, <1>10, <1>11, <1>12, <1>13 DEF Next, Ended

LEMMA TypeAtInit == Init => TypeInv
<1>. SUFFICES ASSUME Init PROVE TypeInv
  OBVIOUS
<1>1. rows \in [Events -> Row]
  BY DEF Init, Row
<1>2. workers \in [Workers -> Worker] /\ \A w \in Workers : WorkerKnows(w)
  BY IdleWorker DEF Init, WorkerKnows
<1>3. now \in Nat /\ enqueued \in 0 .. MaxEvents
  BY OutboxAssumption DEF Init
<1>6. unserved \in BOOLEAN
  BY Zenon DEF Init
<1>4. reschedules \in 0 .. MaxReschedules /\ waits \in 0 .. MaxWaits /\ faults \in 0 .. MaxFaults
  BY OutboxAssumption DEF Init
<1>5. lastClaimer \in [Events -> Workers \cup {None}]
  BY DEF Init
<1>. QED BY <1>1, <1>2, <1>3, <1>4, <1>5, <1>6 DEF TypeInv, TypeOK, WorkerKnows

(* Every state of the outbox is well typed. *)
THEOREM TypeCorrect == Spec => []TypeOK
<1>1. TypeInv => TypeOK
  BY DEF TypeInv
<1>. QED BY <1>1, TypeAtInit, NextTypeInv, PTL DEF Spec

----------------------------------------------------------------------------
(* Leases. *)

LeaseInv == TypeInv /\ IInv

(* A step that leaves the holders of a row and the row alone, while time may *)
(* pass, keeps what is known of them.                                        *)
HolderOK(w) ==
  workers[w].pc # "idle" =>
    LET r == rows[workers[w].event]
    IN  /\ r.status # "absent" /\ workers[w].lockedAt <= now
        /\ r.status = "pending" => workers[w].lockedAt < now
        /\ r.status = "processing" =>
             /\ workers[w].lockedAt <= r.lockedAt /\ r.lockedAt <= now
             /\ workers[w].lockedAt = r.lockedAt => lastClaimer[workers[w].event] = w

ActiveOK(w) ==
  workers[w].pc = "handling" =>
    LeaseHeld(workers[w]) /\ now <= workers[w].lockedAt + HandlerTimeout

LeasedOK(e) ==
  /\ rows[e].status = "processing" => rows[e].lockedAt \in 0 .. now
  /\ rows[e].status # "absent" => e <= enqueued

LEMMA InvByParts ==
  LeaseInv <=> /\ TypeInv
               /\ \A e \in Events : LeasedOK(e)
               /\ \A w \in Workers : HolderOK(w)
               /\ \A w \in Workers : ActiveOK(w)
  BY DEF LeaseInv, IInv, TypeInv, LeasedOK, HolderOK, HoldersAreOlder, ActiveOK, ActiveLeases

(* At most one worker can still hold the lease of a row. *)
LEMMA OneHolder ==
  ASSUME LeaseInv, NEW v \in Workers, NEW w \in Workers,
         workers[v].pc # "idle", workers[w].pc # "idle",
         workers[v].event = workers[w].event, LeaseHeld(workers[v]), LeaseHeld(workers[w])
  PROVE  v = w
<1>1. lastClaimer[workers[v].event] = v
  BY InvByParts DEF HolderOK, LeaseHeld
<1>2. lastClaimer[workers[w].event] = w
  BY InvByParts DEF HolderOK, LeaseHeld
<1>. QED BY <1>1, <1>2

LEMMA NextLeaseInv == LeaseInv /\ [Next]_vars => LeaseInv'
<1>. SUFFICES ASSUME LeaseInv, [Next]_vars PROVE LeaseInv'
  OBVIOUS
<1>1. TypeInv /\ TypeInv'
  BY NextTypeInv, InvByParts
<1>2. SUFFICES /\ \A e \in Events : LeasedOK(e)'
               /\ \A w \in Workers : HolderOK(w)'
               /\ \A w \in Workers : ActiveOK(w)'
  BY <1>1, InvByParts DEF LeaseInv, IInv, TypeInv, LeasedOK, HolderOK, HoldersAreOlder,
                          ActiveOK, ActiveLeases
<1>3. /\ now \in Nat /\ now' \in Nat /\ enqueued \in 0 .. MaxEvents
      /\ \A e \in Events : /\ rows[e] \in Row /\ LeasedOK(e)
                           /\ rows[e].status = "processing" => rows[e].lockedAt \in 0 .. now
      /\ \A w \in Workers : /\ workers[w] \in Worker /\ workers[w].lockedAt \in Nat
                            /\ workers[w].pc # "idle" => workers[w].event \in Events
                            /\ HolderOK(w) /\ ActiveOK(w)
  BY <1>1, InvByParts DEF TypeInv, TypeOK, LeasedOK, Worker, WorkerKnows
<1>. DEFINE Goal == /\ \A e \in Events : LeasedOK(e)'
                    /\ \A w \in Workers : HolderOK(w)'
                    /\ \A w \in Workers : ActiveOK(w)'
(* No row starts or stops being processed, no worker changes. *)
<1>4. ASSUME UNCHANGED <<now, workers, lastClaimer>>, enqueued' \in Nat, enqueued <= enqueued',
             \A e \in Events : /\ rows'[e].status # "absent" => e <= enqueued'
                               /\ \/ rows'[e] = rows[e]
                                  \/ rows[e].status = "absent" /\ rows'[e].status = "pending"
                                  \/ rows[e].status = "pending" /\ rows'[e].status = "pending"
      PROVE  Goal
  <2>1. \A e \in Events : LeasedOK(e)'
    BY <1>3, <1>4 DEF LeasedOK
  <2>2. \A w \in Workers : HolderOK(w)'
    BY <1>3, <1>4 DEF HolderOK
  <2>3. \A w \in Workers : ActiveOK(w)'
    BY <1>3, <1>4 DEF ActiveOK, HolderOK, LeaseHeld
  <2>. QED BY <2>1, <2>2, <2>3
<1>5. ASSUME NEW at, InsertRow(at), UNCHANGED <<now, workers, lastClaimer>> PROVE Goal
  <2>1. enqueued + 1 \in Events
    BY <1>3, <1>5, OutboxAssumption DEF InsertRow, Events
  <2>2. rows[enqueued + 1].status = "absent"
    BY <1>3, <2>1 DEF LeasedOK
  <2>3. \A e \in Events : e # enqueued + 1 => rows'[e] = rows[e]
    BY <1>1, <1>5 DEF InsertRow, TypeInv, TypeOK
  <2>4. rows'[enqueued + 1].status = "pending"
    BY <1>1, <1>3, <1>5, <2>1 DEF InsertRow, TypeInv, TypeOK, Row
  <2>5. enqueued' = enqueued + 1 /\ enqueued' \in Nat /\ enqueued <= enqueued'
    BY <1>3, <1>5, OutboxAssumption DEF InsertRow
  <2>6. \A e \in Events : rows'[e].status # "absent" => e <= enqueued'
    BY <1>3, <2>1, <2>3, <2>5, OutboxAssumption DEF LeasedOK, Events
  <2>7. \A e \in Events :
          \/ rows'[e] = rows[e]
          \/ rows[e].status = "absent" /\ rows'[e].status = "pending"
    BY <2>2, <2>3, <2>4
  <2>. QED BY <1>4, <1>5, <2>5, <2>6, <2>7
<1>6. CASE Enqueue
  BY <1>5, <1>6 DEF Enqueue
<1>7. CASE Request
  <2>1. CASE Pending = {} /\ InsertRow(now + SettleWindow)
    BY <1>5, <1>7, <2>1 DEF Request
  <2>2. ASSUME NEW e \in Pending, UNCHANGED enqueued,
               rows' = [rows EXCEPT ![e].availableAt = Later(@, now + SettleWindow)]
        PROVE  Goal
    <3>1. \A f \in Events : f # e => rows'[f] = rows[f]
      BY <1>1, <2>2 DEF TypeInv, TypeOK
    <3>2. e \in Events /\ rows[e].status = "pending" /\ rows'[e].status = "pending"
      BY <1>1, <1>3, <2>2 DEF TypeInv, TypeOK, Pending, Row
    <3>. QED BY <1>3, <1>4, <1>7, <2>2, <3>1, <3>2 DEF Request, LeasedOK
  <2>. QED BY <1>7, <2>1, <2>2 DEF Request
<1>8. CASE Reap
  <2>1. \A e \in Events : ~Stuck(e) => rows'[e] = rows[e]
    BY <1>8 DEF Reap
  <2>2. \A e \in Events : Stuck(e) => rows[e].status = "processing" /\ rows'[e].status = "pending"
    BY <1>3, <1>8 DEF Reap, Stuck, Row
  <2>3. \A e \in Events : Stuck(e) => rows[e].lockedAt < now
    BY <1>3, OutboxAssumption DEF Stuck
  <2>4. \A e \in Events : LeasedOK(e)'
    BY <1>3, <1>8, <2>1, <2>2 DEF Reap, LeasedOK
  <2>5. \A w \in Workers : HolderOK(w)'
    <3>1. ASSUME NEW w \in Workers, workers[w].pc # "idle", Stuck(workers[w].event)
          PROVE  rows'[workers[w].event].status = "pending" /\ workers[w].lockedAt < now
      BY <1>3, <2>2, <2>3, <3>1 DEF HolderOK
    <3>2. ASSUME NEW w \in Workers, workers[w].pc # "idle", ~Stuck(workers[w].event)
          PROVE  rows'[workers[w].event] = rows[workers[w].event]
      BY <1>3, <2>1, <3>2
    <3>. QED BY <1>3, <1>8, <3>1, <3>2 DEF Reap, HolderOK, ghosts
  <2>6. \A w \in Workers : workers[w].pc = "handling" => ~Stuck(workers[w].event)
    BY <1>3, OutboxAssumption DEF ActiveOK, LeaseHeld, Stuck
  <2>7. \A w \in Workers : ActiveOK(w)'
    BY <1>3, <1>8, <2>1, <2>6 DEF Reap, ActiveOK, LeaseHeld
  <2>. QED BY <2>4, <2>5, <2>7
<1>9. ASSUME NEW w \in Workers, NEW e \in Events, Claim(w, e) PROVE Goal
  <2>1. /\ rows[e].status = "pending" /\ workers[w].pc = "idle"
        /\ \A f \in Events : f # e => rows'[f] = rows[f]
        /\ \A v \in Workers : v # w => workers'[v] = workers[v]
        /\ UNCHANGED <<now, enqueued>>
    BY <1>1, <1>9 DEF Claim, TypeInv, TypeOK
  <2>2. rows'[e].status = "processing" /\ rows'[e].lockedAt = now
    BY <1>1, <1>3, <1>9 DEF Claim, TypeInv, TypeOK, Row
  <2>3. workers'[w].event = e /\ workers'[w].lockedAt = now
    BY <1>1, <1>9 DEF Claim, TypeInv, TypeOK
  <2>4. lastClaimer'[e] = w /\ \A f \in Events : f # e => lastClaimer'[f] = lastClaimer[f]
    BY <1>1, <1>9 DEF Claim, TypeInv, TypeOK
  <2>5. \A f \in Events : LeasedOK(f)'
    BY <1>3, <2>1, <2>2 DEF LeasedOK
  <2>6. \A v \in Workers : HolderOK(v)'
    BY <1>3, <2>1, <2>2, <2>3, <2>4 DEF HolderOK
  <2>7. \A v \in Workers : ActiveOK(v)'
    BY <1>3, <2>1, <2>2, <2>3, OutboxAssumption DEF ActiveOK, LeaseHeld
  <2>. QED BY <2>5, <2>6, <2>7
(* A worker stops handling, or holding, its event and no row changes. *)
<1>10. ASSUME NEW w \in Workers, UNCHANGED <<now, rows, enqueued, lastClaimer>>,
              \A v \in Workers : v # w => workers'[v] = workers[v],
              workers'[w].pc # "handling",
              workers'[w].pc # "idle" =>
                /\ workers[w].pc # "idle"
                /\ workers'[w].event = workers[w].event
                /\ workers'[w].lockedAt = workers[w].lockedAt
       PROVE  Goal
  BY <1>3, <1>10 DEF LeasedOK, HolderOK, ActiveOK, LeaseHeld
<1>11. ASSUME NEW w \in Workers, HandlerReturns(w) \/ HandlerWaits(w) \/ HandlerTimesOut(w)
       PROVE  Goal
  <2>1. PICK outcome : HandlerEnds(w, outcome)
    BY <1>11 DEF HandlerReturns, HandlerWaits, HandlerTimesOut
  <2>2. /\ workers'[w].pc = "recording" /\ workers'[w].event = workers[w].event
        /\ workers'[w].lockedAt = workers[w].lockedAt
        /\ \A v \in Workers : v # w => workers'[v] = workers[v]
    BY <1>1, <1>3, <2>1 DEF HandlerEnds, TypeInv, TypeOK, Worker
  <2>. QED BY <1>10, <2>1, <2>2 DEF HandlerEnds, ghosts
<1>12. ASSUME NEW w \in Workers, WriteFails(w) PROVE Goal
  <2>1. \A v \in Workers : v # w => workers'[v] = workers[v]
    BY <1>1, <1>12 DEF WriteFails, TypeInv, TypeOK
  <2>2. \/ workers'[w].pc = "idle"
        \/ /\ workers'[w].pc = "recording" /\ workers'[w].event = workers[w].event
           /\ workers'[w].lockedAt = workers[w].lockedAt
    BY <1>1, <1>3, <1>12, IdleWorker DEF WriteFails, TypeInv, TypeOK, Worker
  <2>. QED BY <1>10, <1>12, <2>1, <2>2 DEF WriteFails, ghosts
<1>13. ASSUME NEW w \in Workers, Crash(w) PROVE Goal
  <2>1. workers'[w].pc = "idle" /\ \A v \in Workers : v # w => workers'[v] = workers[v]
    BY <1>1, <1>13, IdleWorker DEF Crash, TypeInv, TypeOK
  <2>. QED BY <1>10, <1>13, <2>1 DEF Crash, ghosts
<1>14. ASSUME NEW w \in Workers, Record(w) PROVE Goal
  <2>. DEFINE e == workers[w].event
  <2>1. /\ workers[w].pc = "recording" /\ e \in Events /\ workers[w].outcome \in Outcomes
        /\ workers'[w].pc = "idle" /\ UNCHANGED <<now, enqueued, lastClaimer>>
        /\ \A v \in Workers : v # w => workers'[v] = workers[v]
        /\ \A f \in Events : f # e => rows'[f] = rows[f]
    BY <1>1, <1>14, IdleWorker DEF Record, TypeInv, TypeOK, WorkerKnows, ghosts
  <2>2. CASE ~LeaseHeld(workers[w])
    <3>1. \A f \in Events : rows'[f] = rows[f]
      BY <1>14, <2>1, <2>2 DEF Record
    <3>. QED BY <1>3, <2>1, <3>1 DEF LeasedOK, HolderOK, ActiveOK, LeaseHeld
  <2>3. CASE LeaseHeld(workers[w])
    <3>1. /\ rows'[e].status \in {"pending", "processing", "completed", "dead_letter"}
          /\ rows'[e].status = "processing" => rows'[e].lockedAt = now
      BY <1>3, <1>14, <2>1, <2>3, RecordedRow DEF Record, LeaseHeld
    <3>2. \A v \in Workers : v # w /\ workers[v].pc # "idle" /\ workers[v].event = e =>
            workers[v].lockedAt < now /\ workers[v].pc # "handling"
      <4>1. lastClaimer[e] = w /\ rows[e].lockedAt = workers[w].lockedAt
        BY <1>3, <2>1, <2>3 DEF HolderOK, LeaseHeld
      <4>2. ASSUME NEW v \in Workers, v # w, workers[v].pc # "idle", workers[v].event = e
            PROVE  workers[v].lockedAt # rows[e].lockedAt
        BY <1>3, <2>1, <2>3, <4>1, <4>2 DEF HolderOK, LeaseHeld
      <4>. QED BY <1>3, <2>1, <2>3, <4>2 DEF HolderOK, ActiveOK, LeaseHeld
    <3>3. \A f \in Events : LeasedOK(f)'
      BY <1>3, <2>1, <2>3, <3>1 DEF LeasedOK, LeaseHeld
    <3>4. \A v \in Workers : HolderOK(v)'
      BY <1>3, <2>1, <3>1, <3>2 DEF HolderOK
    <3>5. \A v \in Workers : ActiveOK(v)'
      BY <1>3, <2>1, <3>2 DEF ActiveOK, LeaseHeld
    <3>. QED BY <3>3, <3>4, <3>5
  <2>. QED BY <2>2, <2>3
<1>15. CASE Tick \/ Stall
  <2>1. /\ now' = now + 1 /\ UNCHANGED <<rows, workers, enqueued, lastClaimer>>
        /\ \A w \in Workers : ~TimerDue(w)
    BY <1>15 DEF Tick, Stall, Advance, ghosts
  <2>2. \A e \in Events : LeasedOK(e)'
    BY <1>3, <2>1 DEF LeasedOK
  <2>3. \A w \in Workers : HolderOK(w)'
    BY <1>3, <2>1 DEF HolderOK
  <2>4. \A w \in Workers : ActiveOK(w)'
    BY <1>3, <2>1, OutboxAssumption DEF ActiveOK, LeaseHeld, TimerDue
  <2>. QED BY <2>2, <2>3, <2>4
<1>16. CASE UNCHANGED vars
  BY <1>3, <1>4, <1>16 DEF vars, ghosts, LeasedOK
<1>. QED BY <1>6, <1>7, <1>8, <1>9, <1>11, <1>12, <1>13, <1>14, <1>15, <1>16 DEF Next, Ended

(* Leases exclude each other: the strengthening the theorems below rest on. *)
THEOREM LeasesExclude == Spec => []IInv
<1>1. Init => LeaseInv
  BY TypeAtInit, IdleWorker DEF Init, LeaseInv, IInv, TypeInv, HoldersAreOlder, ActiveLeases
<1>2. LeaseInv => IInv
  BY DEF LeaseInv
<1>. QED BY <1>1, <1>2, NextLeaseInv, PTL DEF Spec

LEMMA LeaseInvHolds == Spec => []LeaseInv
<1>1. Init => LeaseInv
  BY TypeAtInit, IdleWorker DEF Init, LeaseInv, IInv, TypeInv, HoldersAreOlder, ActiveLeases
<1>. QED BY <1>1, NextLeaseInv, PTL DEF Spec

(* Two handlers that were not told to stop never run for one event at once.  *)
THEOREM OutboxOneActiveHandler == Spec => []OneActiveHandler
<1>1. LeaseInv => OneActiveHandler
  BY OneHolder, InvByParts DEF OneActiveHandler, ActiveOK
<1>. QED BY <1>1, LeaseInvHolds, PTL

(* Only Record lets a worker go from recording to idle and changes a row.    *)
LEMMA RecordingStep ==
  ASSUME LeaseInv, [Next]_vars, NEW w \in Workers,
         workers[w].pc = "recording", workers'[w].pc = "idle",
         rows'[workers[w].event] # rows[workers[w].event]
  PROVE  lastClaimer[workers[w].event] = w
<1>1. workers[w].event \in Events /\ TypeInv
  BY InvByParts DEF TypeInv, WorkerKnows
<1>2. CASE Enqueue \/ Request \/ Reap \/ Tick \/ Stall \/ UNCHANGED vars
  BY <1>2 DEF Enqueue, Request, Reap, Tick, Stall, Advance, vars
<1>3. ASSUME NEW v \in Workers, NEW e \in Events, Claim(v, e) PROVE FALSE
  <2>1. v # w
    BY <1>3 DEF Claim
  <2>2. workers'[w] = workers[w]
    BY <1>1, <1>3, <2>1 DEF Claim, TypeInv, TypeOK
  <2>. QED BY <2>2
<1>4. ASSUME NEW v \in Workers,
             HandlerReturns(v) \/ HandlerWaits(v) \/ HandlerTimesOut(v) \/ WriteFails(v) \/ Crash(v)
      PROVE  FALSE
  BY <1>4 DEF HandlerReturns, HandlerWaits, HandlerTimesOut, HandlerEnds, WriteFails, Crash
<1>5. ASSUME NEW v \in Workers, Record(v) PROVE lastClaimer[workers[w].event] = w
  <2>1. CASE v = w
    <3>1. LeaseHeld(workers[w])
      BY <1>1, <1>5, <2>1 DEF Record
    <3>. QED BY <3>1, InvByParts DEF HolderOK, LeaseHeld
  <2>2. CASE v # w
    <3>1. workers'[w] = workers[w]
      BY <1>1, <1>5, <2>2 DEF Record, TypeInv, TypeOK
    <3>. QED BY <3>1
  <2>. QED BY <2>1, <2>2
<1>. QED BY <1>2, <1>3, <1>4, <1>5 DEF Next, Ended

(* A slow worker's write changes a row only if nobody claimed it since.      *)
THEOREM OutboxStaleWritesAreFenced == Spec => StaleWritesAreFenced
<1>1. LeaseInv /\ [Next]_vars =>
        [\A w \in Workers :
           /\ workers[w].pc = "recording"
           /\ workers'[w].pc = "idle"
           /\ rows'[workers[w].event] # rows[workers[w].event]
           => lastClaimer[workers[w].event] = w]_vars
  BY RecordingStep
<1>. QED BY <1>1, LeaseInvHolds, PTL DEF Spec, StaleWritesAreFenced

(* A completed or dead-lettered row stays as it is.                          *)
LEMMA TerminalStep ==
  ASSUME LeaseInv, [Next]_vars, NEW e \in Events, rows[e].status \in {"completed", "dead_letter"}
  PROVE  rows'[e] = rows[e]
<1>1. TypeInv /\ e <= enqueued /\ enqueued \in Nat /\ e \in Nat
  BY InvByParts, OutboxAssumption DEF LeasedOK, TypeInv, TypeOK, Events
<1>2. ASSUME NEW at, InsertRow(at) PROVE rows'[e] = rows[e]
  BY <1>1, <1>2 DEF InsertRow, TypeInv, TypeOK
<1>3. CASE Enqueue
  BY <1>2, <1>3 DEF Enqueue
<1>4. CASE Request
  <2>1. ASSUME NEW f \in Pending, rows' = [rows EXCEPT ![f].availableAt = Later(@, now + SettleWindow)]
        PROVE  rows'[e] = rows[e]
    BY <1>1, <2>1 DEF Pending, TypeInv, TypeOK
  <2>. QED BY <1>2, <1>4, <2>1 DEF Request
<1>5. CASE Reap
  BY <1>5 DEF Reap, Stuck
<1>6. ASSUME NEW w \in Workers, NEW f \in Events, Claim(w, f) PROVE rows'[e] = rows[e]
  BY <1>1, <1>6 DEF Claim, TypeInv, TypeOK
<1>7. ASSUME NEW w \in Workers, Record(w) PROVE rows'[e] = rows[e]
  BY <1>7 DEF Record, LeaseHeld
<1>8. ASSUME NEW w \in Workers,
             HandlerReturns(w) \/ HandlerWaits(w) \/ HandlerTimesOut(w) \/ WriteFails(w) \/ Crash(w)
      PROVE  rows'[e] = rows[e]
  BY <1>8 DEF HandlerReturns, HandlerWaits, HandlerTimesOut, HandlerEnds, WriteFails, Crash
<1>9. CASE Tick \/ Stall \/ UNCHANGED vars
  BY <1>9 DEF Tick, Stall, Advance, vars
<1>. QED BY <1>3, <1>4, <1>5, <1>6, <1>7, <1>8, <1>9 DEF Next, Ended

(* Neither a slow worker nor the reaper nor a producer revives a row.        *)
THEOREM OutboxTerminalRowsAreFinal == Spec => TerminalRowsAreFinal
<1>1. LeaseInv /\ [Next]_vars =>
        [\A e \in Events : rows[e].status \in {"completed", "dead_letter"} => rows'[e] = rows[e]]_vars
  BY TerminalStep
<1>. QED BY <1>1, LeaseInvHolds, PTL DEF Spec, TerminalRowsAreFinal

----------------------------------------------------------------------------
(* Coalescing. *)

LEMMA NextCarried == LeaseInv /\ RequestsAreCarried /\ [Next]_vars => RequestsAreCarried'
<1>. SUFFICES ASSUME LeaseInv, RequestsAreCarried, [Next]_vars PROVE RequestsAreCarried'
  OBVIOUS
<1>1. TypeInv /\ enqueued \in Nat
  BY InvByParts, OutboxAssumption DEF TypeInv, TypeOK
<1>2. ASSUME unserved' = unserved, \A e \in Pending : rows'[e].status = "pending"
      PROVE  RequestsAreCarried'
  BY <1>2 DEF RequestsAreCarried, Pending
<1>3. ASSUME NEW e \in Events, rows'[e].status = "pending" PROVE RequestsAreCarried'
  BY <1>3 DEF RequestsAreCarried, Pending
<1>4. ASSUME NEW at, InsertRow(at) PROVE RequestsAreCarried'
  <2>1. enqueued + 1 \in Events
    BY <1>1, <1>4, OutboxAssumption DEF InsertRow, Events
  <2>2. rows'[enqueued + 1].status = "pending"
    BY <1>1, <1>4, <2>1 DEF InsertRow, TypeInv, TypeOK, Row
  <2>. QED BY <1>3, <2>1, <2>2
<1>5. CASE Enqueue
  BY <1>4, <1>5 DEF Enqueue
<1>6. CASE Request
  <2>1. ASSUME NEW e \in Pending, rows' = [rows EXCEPT ![e].availableAt = Later(@, now + SettleWindow)]
        PROVE  RequestsAreCarried'
    <3>1. e \in Events /\ rows'[e].status = "pending"
      BY <1>1, <2>1 DEF Pending, TypeInv, TypeOK, Row
    <3>. QED BY <1>3, <3>1
  <2>. QED BY <1>4, <1>6, <2>1 DEF Request
<1>7. CASE Reap
  BY <1>2, <1>7 DEF Reap, Stuck, Pending, ghosts
<1>8. ASSUME NEW w \in Workers, NEW e \in Events, Claim(w, e) PROVE RequestsAreCarried'
  BY <1>8 DEF Claim, RequestsAreCarried
<1>9. ASSUME NEW w \in Workers, Record(w) PROVE RequestsAreCarried'
  BY <1>2, <1>9 DEF Record, LeaseHeld, Pending, ghosts
<1>10. ASSUME NEW w \in Workers,
              HandlerReturns(w) \/ HandlerWaits(w) \/ HandlerTimesOut(w) \/ WriteFails(w) \/ Crash(w)
       PROVE  RequestsAreCarried'
  BY <1>2, <1>10 DEF HandlerReturns, HandlerWaits, HandlerTimesOut, HandlerEnds, WriteFails,
                     Crash, ghosts, Pending
<1>11. CASE Tick \/ Stall \/ UNCHANGED vars
  BY <1>2, <1>11 DEF Tick, Stall, Advance, vars, ghosts, Pending
<1>. QED BY <1>5, <1>6, <1>7, <1>8, <1>9, <1>10, <1>11 DEF Next, Ended

(* A coalesced request stays on a pending event until a claim follows it.    *)
THEOREM OutboxRequestsAreCarried == Spec => []RequestsAreCarried
<1>1. Init => RequestsAreCarried
  BY Zenon DEF Init, RequestsAreCarried
<1>. QED BY <1>1, NextCarried, LeaseInvHolds, PTL DEF Spec
=============================================================================

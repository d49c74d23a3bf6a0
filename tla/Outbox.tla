------------------------------- MODULE Outbox -------------------------------
(***************************************************************************)
(* The transactional outbox (apps/sim/lib/core/outbox/service.ts).         *)
(*                                                                         *)
(* Rows of outbox_event are claimed by workers (cron invocations of        *)
(* processOutboxEvents, and processOutboxEventById after a commit), whose   *)
(* handlers run outside any transaction.  A row carries no owner: a worker *)
(* holds its lease while locked_at is the time it claimed the row at.      *)
(*                                                                         *)
(* Each database statement or transaction is one action.  Time is one      *)
(* clock, in ticks; it advances only while some deadline lies ahead, since  *)
(* the code does nothing but compare it with deadlines.                    *)
(***************************************************************************)
EXTENDS Naturals

(* Operators whose name begins with Wrong are not the code: they are the     *)
(* mistakes the runs' properties must catch, each defined just before the    *)
(* definition it would replace.                                              *)

CONSTANTS
  Workers,
  MaxEvents,        \* bound: rows ever enqueued, with ids 1, 2, ... in created_at order
  MaxAttempts,      \* maxAttempts of every row
  HandlerTimeout,   \* DEFAULT_HANDLER_TIMEOUT_MS
  StuckThreshold,   \* STUCK_PROCESSING_THRESHOLD_MS
  BaseBackoff,      \* BASE_BACKOFF_MS
  MaxBackoff,       \* MAX_BACKOFF_MS
  SettleWindow,     \* how far ahead a coalescing caller sets availableAt
  Unhandled,        \* events whose type has no registered handler
  MaxReschedules,   \* bound: pending events rescheduled by a coalescing caller
  MaxWaits,         \* bound: deferrals that consume no attempt
  MaxFaults,        \* bound: worker crashes and failed database writes
  None

ASSUME OutboxAssumption ==
  /\ MaxEvents \in Nat /\ MaxAttempts \in Nat \ {0}
  /\ HandlerTimeout \in Nat /\ StuckThreshold \in Nat /\ HandlerTimeout < StuckThreshold
  /\ BaseBackoff \in Nat /\ MaxBackoff \in Nat /\ SettleWindow \in Nat
  /\ MaxReschedules \in Nat /\ MaxWaits \in Nat /\ MaxFaults \in Nat
  /\ None \notin Nat \cup Workers

Events == 1 .. MaxEvents

ASSUME UnhandledAssumption == Unhandled \subseteq Events

VARIABLES
  now,
  rows,        \* [Events -> row], status "absent" before the row is enqueued
  workers,     \* [Workers -> the event a worker holds and what it knows of it]
  enqueued,    \* how many rows were enqueued
  reschedules, waits, faults, \* what is left of the three bounds on the environment
  lastClaimer, \* [Events -> the worker that claimed it last, or None], read by properties only
  unserved     \* a request was made since the last claim, likewise

ghosts == <<lastClaimer, unserved>>
bounds == <<reschedules, waits, faults>>
vars   == <<now, rows, workers, enqueued, bounds, ghosts>>

Row == [status : {"absent", "pending", "processing", "completed", "dead_letter"},
        attempts : Nat, availableAt : Nat, lockedAt : Nat \cup {None}]

Outcomes == {"completed", "failed", "deferred", "waiting", "timedOut", "unhandled"}

(* event, attempts and lockedAt are the worker's copy of the row it claimed. *)
Worker == [pc : {"idle", "handling", "recording"}, event : Events \cup {None},
           attempts : Nat, lockedAt : Nat, outcome : Outcomes \cup {None}]

Idle == [pc |-> "idle", event |-> None, attempts |-> 0, lockedAt |-> 0, outcome |-> None]

TypeOK ==
  /\ now \in Nat
  /\ rows \in [Events -> Row]
  /\ workers \in [Workers -> Worker]
  /\ \A w \in Workers : workers[w].pc # "idle" => workers[w].event \in Events
  /\ enqueued \in 0 .. MaxEvents
  /\ reschedules \in 0 .. MaxReschedules /\ waits \in 0 .. MaxWaits /\ faults \in 0 .. MaxFaults
  /\ lastClaimer \in [Events -> Workers \cup {None}]
  /\ unserved \in BOOLEAN

Init ==
  /\ now = 0
  /\ rows = [e \in Events |->
       [status |-> "absent", attempts |-> 0, availableAt |-> 0, lockedAt |-> None]]
  /\ workers = [w \in Workers |-> Idle]
  /\ enqueued = 0
  /\ reschedules = MaxReschedules /\ waits = MaxWaits /\ faults = MaxFaults
  /\ lastClaimer = [e \in Events |-> None]
  /\ unserved = FALSE

----------------------------------------------------------------------------
(* Producers.                                                               *)

InsertRow(availableAt) ==
  /\ enqueued < MaxEvents
  /\ enqueued' = enqueued + 1
  /\ rows' = [rows EXCEPT ![enqueued + 1] =
                [@ EXCEPT !.status = "pending", !.availableAt = availableAt]]
  /\ UNCHANGED reschedules

Pending == {e \in Events : rows[e].status = "pending"}

Later(s, t) == IF s > t THEN s ELSE t

(* enqueueOrReschedulePendingOutboxEvent of one subject extends the pending  *)
(* event created last; with none pending it inserts, as enqueueOutboxEvent   *)
(* always does.                                                             *)
Enqueue ==
  /\ InsertRow(now)
  /\ unserved' = TRUE
  /\ UNCHANGED <<now, workers, waits, faults, lastClaimer>>

(* Work already claimed is extended as if it were still pending. *)
WrongRequest ==
  /\ LET open == {e \in Events : rows[e].status \in {"pending", "processing"}}
     IN  \/ open = {} /\ InsertRow(now + SettleWindow)
         \/ /\ reschedules > 0
            /\ \E e \in open :
                 /\ \A f \in open : f <= e
                 /\ rows' = [rows EXCEPT ![e].availableAt = Later(@, now + SettleWindow)]
            /\ reschedules' = reschedules - 1
            /\ UNCHANGED enqueued
  /\ unserved' = TRUE
  /\ UNCHANGED <<now, workers, waits, faults, lastClaimer>>

Request ==
  /\ \/ Pending = {} /\ InsertRow(now + SettleWindow)
     \/ /\ reschedules > 0
        /\ \E e \in Pending :
             /\ \A f \in Pending : f <= e
             /\ rows' = [rows EXCEPT ![e].availableAt = Later(@, now + SettleWindow)]
        /\ reschedules' = reschedules - 1
        /\ UNCHANGED enqueued
  /\ unserved' = TRUE
  /\ UNCHANGED <<now, workers, waits, faults, lastClaimer>>

----------------------------------------------------------------------------
(* Workers.                                                                 *)

(* The reaper's threshold is the handler's timeout. *)
WrongStuck(e) ==
  /\ rows[e].status = "processing" /\ rows[e].lockedAt # None
  /\ rows[e].lockedAt + HandlerTimeout <= now

(* reapStuckProcessingRows, one UPDATE, at the start of every cron run.      *)
Stuck(e) ==
  /\ rows[e].status = "processing" /\ rows[e].lockedAt # None
  /\ rows[e].lockedAt + StuckThreshold <= now

Reap ==
  /\ \E e \in Events : Stuck(e)
  /\ rows' = [e \in Events |-> IF Stuck(e)
                               THEN [rows[e] EXCEPT !.status = "pending", !.lockedAt = None]
                               ELSE rows[e]]
  /\ UNCHANGED <<now, workers, enqueued, bounds, ghosts>>

(* claimBatch(1) or the claim of processOutboxEventById, then the call of    *)
(* the handler.  Cron takes the oldest due row that no other transaction has *)
(* locked, so any due row may be the one.                                    *)
Claim(w, e) ==
  /\ workers[w].pc = "idle"
  /\ rows[e].status = "pending" /\ rows[e].availableAt <= now
  /\ rows' = [rows EXCEPT ![e] = [@ EXCEPT !.status = "processing", !.lockedAt = now]]
  /\ workers' = [workers EXCEPT ![w] =
       [pc |-> IF e \in Unhandled THEN "recording" ELSE "handling",
        event |-> e, attempts |-> rows[e].attempts, lockedAt |-> now,
        outcome |-> IF e \in Unhandled THEN "unhandled" ELSE None]]
  /\ lastClaimer' = [lastClaimer EXCEPT ![e] = w]
  /\ unserved' = FALSE
  /\ UNCHANGED <<now, enqueued, bounds>>

HandlerEnds(w, outcome) ==
  /\ workers[w].pc = "handling"
  /\ workers' = [workers EXCEPT ![w] = [@ EXCEPT !.pc = "recording", !.outcome = outcome]]
  /\ UNCHANGED <<now, rows, enqueued, ghosts>>

HandlerReturns(w) ==
  \E outcome \in {"completed", "failed", "deferred"} :
    HandlerEnds(w, outcome) /\ UNCHANGED bounds

(* A deferral with consumeAttempt: false. *)
HandlerWaits(w) ==
  /\ waits > 0
  /\ waits' = waits - 1
  /\ UNCHANGED <<reschedules, faults>>
  /\ HandlerEnds(w, "waiting")

TimerDue(w) ==
  workers[w].pc = "handling" /\ now >= workers[w].lockedAt + HandlerTimeout

(* The in-process timer aborts the handler's signal and gives up waiting.    *)
HandlerTimesOut(w) ==
  TimerDue(w) /\ HandlerEnds(w, "timedOut") /\ UNCHANGED bounds

(* BASE_BACKOFF_MS doubled per attempt, capped. *)
Backoff(n) ==
  LET doubled == BaseBackoff * 2 ^ n
  IN  IF doubled \in 0 .. MaxBackoff THEN doubled ELSE MaxBackoff

(* A handler that timed out is not charged an attempt. *)
WrongAttemptsAfter(me) ==
  me.attempts + (IF me.outcome \in {"failed", "deferred"} THEN 1 ELSE 0)

(* What runHandler writes to row r: every outcome but a plain wait counts as *)
(* an attempt, and the last attempt sends the row to dead_letter.  A timeout *)
(* keeps the row processing, with a lease the reaper will end.               *)
AttemptsAfter(me) ==
  me.attempts + (IF me.outcome \in {"failed", "deferred", "timedOut"} THEN 1 ELSE 0)

Exhausted(me) ==
  me.outcome \in {"failed", "deferred", "timedOut"} /\ AttemptsAfter(me) >= MaxAttempts

StatusAfter(me) ==
  IF me.outcome = "completed" THEN "completed"
  ELSE IF me.outcome = "unhandled" \/ Exhausted(me) THEN "dead_letter"
  ELSE IF me.outcome = "timedOut" THEN "processing" ELSE "pending"

Recorded(r, me) ==
  [r EXCEPT !.status      = StatusAfter(me),
            !.attempts    = AttemptsAfter(me),
            !.lockedAt    = IF StatusAfter(me) = "processing" THEN now ELSE None,
            !.availableAt = IF StatusAfter(me) = "pending"
                            THEN now + Backoff(AttemptsAfter(me)) ELSE @]

(* The row is written by its id alone. *)
WrongLeaseHeld(me) == TRUE

(* updateIfLeaseHeld and updateProcessingIfLeaseHeld: WHERE status =         *)
(* 'processing' AND locked_at = the claim's.                                 *)
LeaseHeld(me) ==
  /\ rows[me.event].status = "processing"
  /\ rows[me.event].lockedAt = me.lockedAt

Record(w) ==
  LET me == workers[w]
  IN  /\ me.pc = "recording"
      /\ rows' = [e \in Events |-> IF e = me.event /\ LeaseHeld(me)
                                   THEN Recorded(rows[e], me) ELSE rows[e]]
      /\ workers' = [workers EXCEPT ![w] = Idle]
      /\ UNCHANGED <<now, enqueued, bounds, ghosts>>

Fault ==
  /\ faults > 0
  /\ faults' = faults - 1
  /\ UNCHANGED <<reschedules, waits>>

(* The write of "completed" is awaited inside the try block, so its failure  *)
(* is handled as a failure of the handler; any other failed write ends the   *)
(* invocation.                                                              *)
WriteFails(w) ==
  /\ Fault
  /\ workers[w].pc = "recording"
  /\ UNCHANGED <<now, rows, enqueued, ghosts>>
  /\ workers' = [workers EXCEPT ![w] =
       IF workers[w].outcome = "completed" THEN [workers[w] EXCEPT !.outcome = "failed"]
       ELSE Idle]

(* The process dies, with its handlers and timers. *)
Crash(w) ==
  /\ Fault
  /\ workers[w].pc # "idle"
  /\ UNCHANGED <<now, rows, enqueued, ghosts>>
  /\ workers' = [workers EXCEPT ![w] = Idle]

Deadlines ==
  {rows[e].availableAt : e \in Pending}
  \cup {rows[e].lockedAt + StuckThreshold :
          e \in {f \in Events : rows[f].status = "processing" /\ rows[f].lockedAt # None}}

(* A live process fires its timers on time, and its writes end before the    *)
(* lease does; a stalled write is a fault.                                   *)
WriteLate(w) ==
  /\ workers[w].pc = "recording"
  /\ LeaseHeld(workers[w])
  /\ now + 1 >= workers[w].lockedAt + StuckThreshold

Advance ==
  /\ \E d \in Deadlines : d > now
  /\ \A w \in Workers : ~TimerDue(w)
  /\ now' = now + 1
  /\ UNCHANGED <<rows, workers, enqueued, ghosts>>

Tick ==
  /\ \A w \in Workers : ~WriteLate(w)
  /\ Advance
  /\ UNCHANGED bounds

Stall ==
  /\ \E w \in Workers : WriteLate(w)
  /\ Advance
  /\ Fault

Ended ==
  /\ \A e \in Events : rows[e].status \in {"absent", "completed", "dead_letter"}
  /\ \A w \in Workers : workers[w].pc = "idle"
  /\ UNCHANGED vars

Next ==
  \/ Enqueue
  \/ Request
  \/ Reap
  \/ \E w \in Workers :
       \/ \E e \in Events : Claim(w, e)
       \/ HandlerReturns(w)
       \/ HandlerWaits(w)
       \/ HandlerTimesOut(w)
       \/ Record(w)
       \/ WriteFails(w)
       \/ Crash(w)
  \/ Tick
  \/ Stall
  \/ Ended

Spec == Init /\ [][Next]_vars

(* Cron keeps invoking the processor, timers fire and statements complete;   *)
(* nothing obliges a handler to return, or a producer to produce.            *)
Fairness ==
  /\ WF_vars(Reap)
  /\ WF_vars(Tick)
  /\ \A e \in Events : WF_vars(\E w \in Workers : Claim(w, e))
  /\ \A w \in Workers : WF_vars(HandlerTimesOut(w)) /\ WF_vars(Record(w))

FairSpec == Spec /\ Fairness

----------------------------------------------------------------------------
(* Properties.                                                              *)

(* Two handlers that were not told to stop never run for one event at once:  *)
(* "the reaper cannot steal a row a worker is still actively processing".    *)
OneActiveHandler ==
  \A v, w \in Workers :
    /\ workers[v].pc = "handling" /\ workers[w].pc = "handling"
    /\ workers[v].event = workers[w].event
    => v = w

(* A worker's write changes a row only if nobody claimed the row after it:   *)
(* the time of the claim is a sound fencing token, although it is no id.     *)
StaleWritesAreFenced ==
  [][\A w \in Workers :
       /\ workers[w].pc = "recording"
       /\ workers'[w].pc = "idle"
       /\ rows'[workers[w].event] # rows[workers[w].event]
       => lastClaimer[workers[w].event] = w]_vars

(* A row that was completed or dead-lettered stays as it is, whatever a slow *)
(* worker, the reaper or a coalescing producer does later.                   *)
TerminalRowsAreFinal ==
  [][\A e \in Events : rows[e].status \in {"completed", "dead_letter"} => rows'[e] = rows[e]]_vars

(* A coalesced request is never folded into work already under way: until a  *)
(* claim follows it, some event is pending.                                  *)
RequestsAreCarried == unserved => Pending # {}

(* Every event enqueued is completed or dead-lettered in the end, when       *)
(* handlers may hang and a bounded number of workers crash.                  *)
EventsSettle ==
  \A e \in Events :
    rows[e].status = "pending" ~> rows[e].status \in {"completed", "dead_letter"}

(* Why leases exclude each other: no holder's claim is later than the row's  *)
(* lease, only the last claimer's can equal it, and none equals the time     *)
(* while the row is free; and a handler still running has an unexpired lease. *)
HoldersAreOlder ==
  \A w \in Workers : workers[w].pc # "idle" =>
    LET r == rows[workers[w].event]
    IN  /\ r.status # "absent" /\ workers[w].lockedAt <= now
        /\ r.status = "pending" => workers[w].lockedAt < now
        /\ r.status = "processing" =>
             /\ workers[w].lockedAt <= r.lockedAt /\ r.lockedAt <= now
             /\ workers[w].lockedAt = r.lockedAt => lastClaimer[workers[w].event] = w

ActiveLeases ==
  \A w \in Workers : workers[w].pc = "handling" =>
    /\ LeaseHeld(workers[w])
    /\ now <= workers[w].lockedAt + HandlerTimeout

(* The leases of the table and the claims the workers remember agree, so that *)
(* comparing locked_at tells the holder from everybody else.                  *)
IInv ==
  /\ TypeOK
  /\ \A e \in Events :
       /\ rows[e].status = "processing" => rows[e].lockedAt \in 0 .. now
       /\ rows[e].status # "absent" => e <= enqueued
  /\ HoldersAreOlder
  /\ ActiveLeases
=============================================================================

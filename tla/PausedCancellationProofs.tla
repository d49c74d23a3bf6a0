----------------------- MODULE PausedCancellationProofs -----------------------
(***************************************************************************)
(* Proofs about PausedCancellation, for any number of requests to cancel,   *)
(* made at any moment: a cancelled run is never revived, no resume is        *)
(* claimed while a cancellation is staged, and a continuation goes through   *)
(* twice only if a rollback offered its point again.                        *)
(*                                                                         *)
(* The inductive invariant of PauseResume does not survive here: an entry    *)
(* may fail under its worker, a staged one comes back, a rollback reopens a  *)
(* point.  CancelInv is what is left of it, for points never reopened.       *)
(*                                                                         *)
(* The second half adds who is active and where a queued point stands       *)
(* (ActiveInv), and, for a single request, that an undone staging leaves     *)
(* nothing behind (StagingFits).                                            *)
(***************************************************************************)
EXTENDS PausedCancellation, PauseResumeProofs

(* The entry a request remembers exists, and a request that stops or rolls    *)
(* back a resume remembers one.                                              *)
TargetsExist ==
  \A k \in Cancellers :
    /\ cancel[k].target = 0 \/ cancel[k].target \in DOMAIN queue
    /\ cancel[k].pc \in {"signal", "postSignal", "rollback"} => cancel[k].target # 0

(* Only the row of the run is ever cancelled, with its log, and the poller     *)
(* has no reason to look at it.                                              *)
OnlyRootCancels ==
  /\ row[Root].status = "cancelled" => log = "cancelled" /\ ~row[Root].next
  /\ \A e \in Executions \ {Root} : row[e].status \notin {"cancelling", "cancelled"}

(* An entry that a worker may still take up.                                  *)
Waits(i) == queue[i].status = "pending" \/ queue[i].staged

(* An entry holds its pause point while it waits or is claimed, while a worker *)
(* is at it, though it may have been cancelled meanwhile, and once its         *)
(* continuation went through.                                                *)
Holds(i) ==
  \/ Waits(i) \/ queue[i].status = "claimed"
  \/ worker[i].pc \in Working \/ worker[i].out \in Gone

(* A process is at the entry, or has yet to drain the queue behind it. *)
Busy == Working \cup {"stopped", "completes", "drain"}

WorkersFit ==
  /\ \A i \in Entries \ DOMAIN queue : worker[i].pc = "idle" /\ worker[i].out = "none"
  /\ \A i \in DOMAIN queue :
       /\ queue[i].staged => queue[i].status = "failed"
       /\ Waits(i) => worker[i].pc \notin Busy /\ worker[i].out \notin Gone
       /\ worker[i].pc \in {"admit", "running"} => worker[i].out = "none"
       /\ worker[i].pc \in {"persist", "drainChild"} => worker[i].out = "repaused"

RowsFit ==
  /\ run.pc \in {"running", "persist"} => row[Root].status = "none"
  /\ \A i \in Entries : row[i].status # "none" =>
       worker[i].out = "repaused" /\ worker[i].pc # "persist"
  /\ \A i \in DOMAIN queue : row[Exec(i)].status # "none"
  /\ poll.pc # "idle" => row[poll.exec].status # "none"

(* A point that no rollback reopened is held by one entry, and is not offered  *)
(* meanwhile.                                                                *)
PointsHeld ==
  \A i \in DOMAIN queue : Holds(i) /\ Ctx(i) \notin reopened =>
    /\ row[Exec(i)].points[Ctx(i)] # "paused"
    /\ \A j \in DOMAIN queue : Exec(j) = Exec(i) /\ Ctx(j) = Ctx(i) /\ Holds(j) => j = i

DueFit ==
  poll.pc \in {"prepare", "enqueue"} =>
    /\ poll.due # {} /\ poll.due \subseteq TimeContexts
    /\ \A c \in poll.due \ reopened : row[poll.exec].points[c] = "paused"

CancelInv ==
  /\ CancelTypeOK /\ TargetsExist /\ OnlyRootCancels
  /\ WorkersFit /\ RowsFit /\ PointsHeld /\ DueFit

(* What a step may not do: revive a cancelled row or log, ...                  *)
StaysCancelled ==
  /\ log = "cancelled" => log' = "cancelled"
  /\ \A e \in Executions :
       row[e].status = "cancelled" => row'[e] = [row[e] EXCEPT !.done = row'[e].done]

(* ... or claim an entry of an execution that cannot be resumed.              *)
ClaimsResumable ==
  \A i \in DOMAIN queue' : queue'[i].status = "claimed" =>
    \/ i \in DOMAIN queue /\ queue[i].status = "claimed" /\ queue'[i].exec = Exec(i)
    \/ row[queue'[i].exec].status \in Resumable

Good == CancelInv' /\ StaysCancelled /\ ClaimsResumable

-----------------------------------------------------------------------------
(* Entries.                                                                  *)

(* A worker goes on, or is told to stop.                                      *)
Onward(j) ==
  /\ worker'[j].out = worker[j].out \/ worker[j].pc \in {"admit", "running"}
  /\ worker'[j].pc \in Working => worker[j].pc \in Working
  /\ worker'[j].pc \in Busy => worker[j].pc \in Busy
  /\ worker'[j].pc \in {"admit", "running"} => worker'[j].out = "none"
  /\ worker'[j].pc \in {"persist", "drainChild"} => worker'[j].out = "repaused"
  /\ worker'[j].pc = "persist" => worker[j].pc \in {"running", "persist"}

(* The drain starts it. *)
Starts(j) ==
  /\ queue[j].status = "pending" /\ queue'[j].status = "claimed"
  /\ worker'[j].pc = "admit" /\ worker'[j].out = "none"

EntryMoves(j) ==
  /\ queue'[j].exec = queue[j].exec /\ queue'[j].ctx = queue[j].ctx
  /\ queue'[j].staged => queue'[j].status = "failed"
  /\ queue'[j].status \in {"pending", "claimed"} \/ queue'[j].staged => Holds(j)
  /\ Onward(j) \/ Starts(j)
  /\ Waits(j)' => Waits(j) \/ (worker'[j].pc \notin Busy /\ worker'[j].out \notin Gone)

EntriesMove ==
  /\ DOMAIN queue' = DOMAIN queue
  /\ \A j \in DOMAIN queue : EntryMoves(j)
  /\ \A j \in Entries \ DOMAIN queue : worker'[j] = worker[j]

LEMMA EntriesFit ==
  ASSUME CancelInv, EntriesMove
  PROVE  /\ WorkersFit'
         /\ \A j \in DOMAIN queue : Holds(j)' => Holds(j)
         /\ \A i \in Entries : row[i].status # "none" =>
              worker'[i].out = "repaused" /\ worker'[i].pc # "persist"
<1>1. WorkersFit /\ RowsFit /\ \A j \in DOMAIN queue : j \in Entries
  BY QueueTypes DEF CancelInv, CancelTypeOK
<1>2. ASSUME NEW j \in DOMAIN queue
      PROVE  /\ queue'[j].staged => queue'[j].status = "failed"
             /\ Waits(j)' => worker'[j].pc \notin Busy /\ worker'[j].out \notin Gone
             /\ worker'[j].pc \in {"admit", "running"} => worker'[j].out = "none"
             /\ worker'[j].pc \in {"persist", "drainChild"} => worker'[j].out = "repaused"
             /\ Holds(j)' => Holds(j)
  <2>1. EntryMoves(j)
    BY DEF EntriesMove
  <2>2. /\ queue[j].staged => queue[j].status = "failed"
        /\ Waits(j) => worker[j].pc \notin Busy /\ worker[j].out \notin Gone
        /\ worker[j].pc \in {"admit", "running"} => worker[j].out = "none"
    BY <1>1 DEF WorkersFit
  <2>3. CASE Starts(j)
    BY <2>1, <2>2, <2>3 DEF EntryMoves, Starts, Waits, Holds
  <2>4. CASE Onward(j)
    <3>1. /\ worker'[j].pc \in Working => worker[j].pc \in Working
          /\ worker'[j].pc \in Busy => worker[j].pc \in Busy
      BY <2>4 DEF Onward
    <3>2. worker'[j].out \in Gone => worker[j].out \in Gone \/ worker[j].pc \in Working
      BY <2>4 DEF Onward, Working, Busy
    <3>3. Waits(j)' => worker'[j].pc \notin Busy /\ worker'[j].out \notin Gone
      BY <2>1, <2>2, <3>1, <3>2 DEF EntryMoves, Busy
    <3>4. Holds(j)' => Holds(j)
      BY <2>1, <3>1, <3>2 DEF EntryMoves, Holds, Waits
    <3> QED
      BY <2>1, <2>4, <3>3, <3>4 DEF EntryMoves, Onward
  <2> QED
    BY <2>1, <2>3, <2>4 DEF EntryMoves
<1>3. WorkersFit'
  BY <1>1, <1>2 DEF WorkersFit, EntriesMove
<1>4. ASSUME NEW i \in Entries, row[i].status # "none"
      PROVE  worker'[i].out = "repaused" /\ worker'[i].pc # "persist"
  <2>1. worker[i].out = "repaused" /\ worker[i].pc # "persist"
    BY <1>1, <1>4 DEF RowsFit
  <2>2. i \in DOMAIN queue
    BY <1>1, <2>1 DEF WorkersFit
  <2>3. worker[i].pc \notin {"admit", "running"} /\ ~Waits(i)
    BY <1>1, <2>1, <2>2 DEF WorkersFit, Gone
  <2>4. EntryMoves(i)
    BY <2>2 DEF EntriesMove
  <2> QED
    BY <2>1, <2>3, <2>4 DEF EntryMoves, Onward, Starts, Waits
<1> QED
  BY <1>2, <1>3, <1>4

-----------------------------------------------------------------------------
(* Rows.                                                                     *)

(* How a step may change the row of e: not at all or only its snapshot; it is  *)
(* cancelled with the log; it appears; or neither is nor becomes cancelled.    *)
RowMoves(e) ==
  \/ row'[e] = row[e]
  \/ \E d \in SUBSET Contexts : row'[e] = [row[e] EXCEPT !.done = d]
  \/ e = Root /\ row'[e] = CancelRow(row[e]) /\ log' = "cancelled"
  \/ /\ row[e].status = "none" /\ row'[e].status = "paused"
     /\ IF e = Root THEN run'.pc \notin {"running", "persist"}
        ELSE worker'[e].out = "repaused" /\ worker'[e].pc # "persist"
  \/ /\ row[e].status \notin {"none", "cancelled"} /\ row'[e].status \notin {"none", "cancelled"}
     /\ row'[e].status = "cancelling" => e = Root

(* A point nobody reopened is not taken away while it waits, and is offered    *)
(* only when no entry holds it.                                              *)
PointsMove(e) ==
  row[e].status # "none" =>
    \A c \in Contexts \ reopened' :
      /\ row[e].points[c] = "paused" => row'[e].points[c] = "paused"
      /\ row'[e].points[c] = "paused" =>
           \/ row[e].points[c] = "paused"
           \/ \A j \in DOMAIN queue : Exec(j) = e /\ Ctx(j) = c => ~Holds(j)'

LEMMA CancelRowIs ==
  ASSUME NEW r \in Row
  PROVE  /\ CancelRow(r) \in Row /\ CancelRow(r).points = r.points
         /\ (CancelRow(r).status = "none") <=> (r.status = "none")
         /\ r.status # "none" => CancelRow(r).status = "cancelled" /\ ~CancelRow(r).next
         /\ r.status = "cancelled" /\ ~r.next => CancelRow(r) = r
<1>1. CASE r.status = "none"
  BY <1>1 DEF CancelRow
<1>2. CASE r.status # "none"
  <2>1. CancelRow(r) = [r EXCEPT !.status = "cancelled", !.next = FALSE]
    BY <1>2 DEF CancelRow
  <2> QED
    BY <1>2, <2>1 DEF Row, RowStatuses
<1> QED
  BY <1>1, <1>2

LEMMA RowFits ==
  ASSUME CancelInv, TypeOK', NEW e \in Executions, RowMoves(e), log = "cancelled" => log' = "cancelled"
  PROVE  /\ row[e].status # "none" => row'[e].status # "none"
         /\ row[e].status = "cancelled" => row'[e] = [row[e] EXCEPT !.done = row'[e].done]
         /\ row'[e].status = "cancelled" => e = Root /\ log' = "cancelled" /\ ~row'[e].next
         /\ row'[e].status = "cancelling" => e = Root
<1>1. /\ row[e] \in Row /\ row'[e] \in Row /\ OnlyRootCancels
      /\ row[e].status = "cancelled" => e = Root /\ log = "cancelled" /\ ~row[e].next
      /\ row[e].status = "cancelling" => e = Root
  BY DEF CancelInv, CancelTypeOK, TypeOK, OnlyRootCancels
<1>2. CASE row'[e] = row[e]
  BY <1>1, <1>2 DEF Row
<1>3. CASE \E d \in SUBSET Contexts : row'[e] = [row[e] EXCEPT !.done = d]
  BY <1>1, <1>3 DEF Row
<1>4. CASE e = Root /\ row'[e] = CancelRow(row[e]) /\ log' = "cancelled"
  <2>1. row[e].status = "cancelled" => row'[e] = row[e]
    BY <1>1, <1>4, CancelRowIs
  <2>2. row[e].status = "cancelled" => row'[e] = [row[e] EXCEPT !.done = row'[e].done]
    BY <1>1, <2>1 DEF Row
  <2>3. row'[e].status = "cancelled" => ~row'[e].next
    BY <1>1, <1>4, CancelRowIs
  <2>4. row'[e].status = "none" <=> row[e].status = "none"
    BY <1>1, <1>4, CancelRowIs
  <2> QED
    BY <1>4, <2>2, <2>3, <2>4
<1>5. CASE row[e].status = "none" /\ row'[e].status = "paused"
  BY <1>5
<1>6. CASE /\ row[e].status \notin {"none", "cancelled"} /\ row'[e].status \notin {"none", "cancelled"}
           /\ row'[e].status = "cancelling" => e = Root
  BY <1>6
<1> QED
  BY <1>2, <1>3, <1>4, <1>5, <1>6 DEF RowMoves

(* The poller keeps what it read, or has dealt with what was due.              *)
PollMoves ==
  \/ poll' = poll
  \/ /\ poll'.pc \notin {"prepare", "enqueue"}
     /\ poll'.pc # "idle" => poll.pc # "idle" /\ poll'.exec = poll.exec

(* The steps that add no entry to the queue.                                  *)
LEMMA StepGood ==
  ASSUME CancelInv, CancelTypeOK', TargetsExist', EntriesMove,
         \A e \in Executions : RowMoves(e) /\ PointsMove(e),
         log = "cancelled" => log' = "cancelled",
         run'.pc \in {"running", "persist"} => run.pc \in {"running", "persist"},
         reopened \subseteq reopened',
         poll'.pc # "idle" => row[poll'.exec].status # "none",
         PollMoves \/ DueFit',
         ClaimsResumable
  PROVE  Good
<1>1. /\ TypeOK /\ TypeOK' /\ WorkersFit /\ RowsFit /\ PointsHeld /\ DueFit
      /\ \A j \in DOMAIN queue : j \in Entries /\ Exec(j) \in Executions /\ Ctx(j) \in Contexts
      /\ Root \in Executions /\ \A i \in Entries : i \in Executions /\ i # Root
      /\ poll.exec \in Executions /\ poll'.exec \in Executions
  BY QueueTypes, EntryTypes DEF CancelInv, CancelTypeOK, TypeOK, Poll
<1>2. /\ WorkersFit'
      /\ \A j \in DOMAIN queue : Holds(j)' => Holds(j)
      /\ \A i \in Entries : row[i].status # "none" =>
           worker'[i].out = "repaused" /\ worker'[i].pc # "persist"
  BY EntriesFit
<1>3. /\ DOMAIN queue' = DOMAIN queue
      /\ \A j \in DOMAIN queue : Exec(j)' = Exec(j) /\ Ctx(j)' = Ctx(j)
  BY DEF EntriesMove, EntryMoves, Exec, Ctx
<1>4. ASSUME NEW e \in Executions
      PROVE  /\ row[e].status # "none" => row'[e].status # "none"
             /\ row[e].status = "cancelled" => row'[e] = [row[e] EXCEPT !.done = row'[e].done]
             /\ row'[e].status = "cancelled" => e = Root /\ log' = "cancelled" /\ ~row'[e].next
             /\ row'[e].status = "cancelling" => e = Root
  BY <1>1, RowFits
<1>5. OnlyRootCancels' /\ StaysCancelled
  BY <1>1, <1>4 DEF OnlyRootCancels, StaysCancelled
<1>6. ASSUME NEW e \in Executions, row[e].status = "none", row'[e].status # "none"
      PROVE  IF e = Root THEN run'.pc \notin {"running", "persist"}
             ELSE worker'[e].out = "repaused" /\ worker'[e].pc # "persist"
  <2>1. row[e] \in Row /\ RowMoves(e)
    BY <1>1 DEF TypeOK
  <2>2. \A d \in SUBSET Contexts : [row[e] EXCEPT !.done = d].status = "none"
    BY <1>6, <2>1 DEF Row
  <2>3. CancelRow(row[e]).status = "none"
    BY <1>6, <2>1, CancelRowIs
  <2> QED
    BY <1>6, <2>1, <2>2, <2>3 DEF RowMoves
<1>7. RowsFit'
  <2>1. run'.pc \in {"running", "persist"} => row'[Root].status = "none"
    BY <1>1, <1>6 DEF RowsFit
  <2>2. ASSUME NEW i \in Entries, row'[i].status # "none"
        PROVE  worker'[i].out = "repaused" /\ worker'[i].pc # "persist"
    BY <1>1, <1>2, <1>6, <2>2
  <2>3. ASSUME NEW i \in DOMAIN queue
        PROVE  row'[Exec(i)].status # "none" /\ Exec(i)' = Exec(i)
    <3>1. Exec(i) \in Executions /\ row[Exec(i)].status # "none"
      BY <1>1 DEF RowsFit
    <3> QED
      BY <1>3, <1>4, <3>1
  <2>4. poll'.pc # "idle" => row'[poll'.exec].status # "none"
    BY <1>1, <1>4
  <2> QED
    BY <1>3, <2>1, <2>2, <2>3, <2>4 DEF RowsFit
<1>8. PointsHeld'
  <2> SUFFICES ASSUME NEW i \in DOMAIN queue, Holds(i)', Ctx(i) \notin reopened'
               PROVE  /\ row'[Exec(i)].points[Ctx(i)] # "paused"
                      /\ \A j \in DOMAIN queue :
                           Exec(j) = Exec(i) /\ Ctx(j) = Ctx(i) /\ Holds(j)' => j = i
    BY <1>3 DEF PointsHeld
  <2>1. Holds(i) /\ Ctx(i) \notin reopened
    BY <1>2
  <2>2. /\ row[Exec(i)].points[Ctx(i)] # "paused"
        /\ \A j \in DOMAIN queue : Exec(j) = Exec(i) /\ Ctx(j) = Ctx(i) /\ Holds(j) => j = i
    BY <1>1, <2>1 DEF PointsHeld
  <2>3. row[Exec(i)].status # "none" /\ PointsMove(Exec(i)) /\ Ctx(i) \in Contexts \ reopened'
    BY <1>1 DEF RowsFit
  <2>4. row'[Exec(i)].points[Ctx(i)] # "paused"
    BY <2>2, <2>3 DEF PointsMove
  <2> QED
    BY <1>2, <2>2, <2>4
<1>9. DueFit'
  <2>1. SUFFICES ASSUME PollMoves, poll'.pc \in {"prepare", "enqueue"}
                 PROVE  DueFit'
    BY DEF DueFit
  <2>2. poll' = poll
    BY <2>1 DEF PollMoves
  <2>3. /\ poll.due # {} /\ poll.due \subseteq TimeContexts
        /\ \A c \in poll.due \ reopened : row[poll.exec].points[c] = "paused"
    BY <1>1, <2>1, <2>2 DEF DueFit
  <2>4. PointsMove(poll.exec) /\ row[poll.exec].status # "none"
    BY <1>1, <2>1, <2>2 DEF RowsFit
  <2>5. \A c \in poll.due \ reopened' : c \in Contexts /\ row'[poll.exec].points[c] = "paused"
    BY <2>3, <2>4, PauseAssumption DEF PointsMove
  <2> QED
    BY <2>2, <2>3, <2>5 DEF DueFit
<1> QED
  BY <1>2, <1>5, <1>7, <1>8, <1>9 DEF Good, CancelInv
-----------------------------------------------------------------------------
(* Steps that leave the rows or the queue alone.                             *)

LEMMA SameRows ==
  ASSUME row' = row
  PROVE  \A e \in Executions : RowMoves(e) /\ PointsMove(e)
BY DEF RowMoves, PointsMove

LEMMA StandsStill ==
  ASSUME WorkersFit, NEW j \in DOMAIN queue, worker'[j] = worker[j]
  PROVE  Onward(j)
BY DEF WorkersFit, Onward

LEMMA SameQueue ==
  ASSUME CancelInv, CancelTypeOK', TargetsExist', queue' = queue,
         \A j \in Entries : worker'[j] = worker[j] \/ (j \in DOMAIN queue /\ Onward(j)),
         \A e \in Executions : RowMoves(e) /\ PointsMove(e),
         log = "cancelled" => log' = "cancelled",
         run'.pc \in {"running", "persist"} => run.pc \in {"running", "persist"},
         reopened \subseteq reopened',
         poll'.pc # "idle" => row[poll'.exec].status # "none",
         PollMoves \/ DueFit'
  PROVE  Good
<1>1. WorkersFit /\ \A j \in DOMAIN queue : j \in Entries
  BY QueueTypes DEF CancelInv, CancelTypeOK
<1>2. ASSUME NEW j \in DOMAIN queue
      PROVE  EntryMoves(j)
  <2>1. Onward(j)
    BY <1>1, StandsStill
  <2>2. queue[j].staged => queue[j].status = "failed"
    BY <1>1 DEF WorkersFit
  <2> QED
    BY <2>1, <2>2 DEF EntryMoves, Holds, Waits
<1>3. EntriesMove
  BY <1>2 DEF EntriesMove
<1>4. ClaimsResumable
  BY DEF ClaimsResumable, Exec
<1> QED
  BY <1>3, <1>4, StepGood

(* The requests go nowhere, whatever is added to the queue. *)
LEMMA TargetsKept ==
  ASSUME CancelInv, UNCHANGED cancelVars, DOMAIN queue \subseteq DOMAIN queue', TypeOK'
  PROVE  CancelTypeOK' /\ TargetsExist'
BY DEF CancelInv, CancelTypeOK, cancelVars, TargetsExist

(* Worker i goes on, and no row changes. *)
LEMMA WorkerStep ==
  ASSUME CancelInv, NEW i \in DOMAIN queue, NEW pc \in Pcs, NEW out \in Outcomes,
         worker' = GotoWith(i, pc, out), row' = row, queue' = queue, UNCHANGED <<run, poll>>,
         UNCHANGED cancelVars, crashes' \in 0 .. MaxCrashes,
         log' \in LogStatuses, log = "cancelled" => log' = "cancelled",
         out = worker[i].out \/ worker[i].pc \in {"admit", "running"},
         pc \in Working => worker[i].pc \in Working, pc \in Busy => worker[i].pc \in Busy,
         pc \in {"admit", "running"} => out = "none",
         pc \in {"persist", "drainChild"} => out = "repaused",
         pc = "persist" => worker[i].pc \in {"running", "persist"}
  PROVE  Good
<1>1. TypeOK /\ i \in Entries /\ RowsFit
  BY QueueTypes DEF CancelInv, CancelTypeOK
<1>2. /\ worker' \in [Entries -> Worker]
      /\ \A j \in Entries \ {i} : worker'[j] = worker[j]
      /\ worker'[i].pc = pc /\ worker'[i].out = out
  BY <1>1, GotoWithType
<1>3. TypeOK'
  BY <1>1, <1>2 DEF TypeOK
<1>4. CancelTypeOK' /\ TargetsExist'
  BY <1>3, TargetsKept
<1>5. Onward(i)
  BY <1>2 DEF Onward
<1>6. \A j \in Entries : worker'[j] = worker[j] \/ (j \in DOMAIN queue /\ Onward(j))
  BY <1>2, <1>5
<1>7. PollMoves /\ (poll'.pc # "idle" => row[poll'.exec].status # "none")
  BY <1>1 DEF PollMoves, RowsFit
<1> QED
  BY <1>4, <1>6, <1>7, SameRows, SameQueue DEF cancelVars

LEMMA ClaimLogGood ==
  ASSUME CancelInv, NEW i \in Entries, ClaimLog(i), UNCHANGED cancelVars
  PROVE  Good
<1>1. /\ TypeOK /\ i \in DOMAIN queue /\ worker[i].pc = "admit" /\ worker[i].out = "none"
      /\ row' = row /\ queue' = queue /\ UNCHANGED <<run, poll>> /\ crashes' \in 0 .. MaxCrashes
  BY DEF CancelInv, CancelTypeOK, TypeOK, WorkersFit, ClaimLog, At, Rest
<1>2. {"running", "settle"} \subseteq Pcs /\ {"none", "refused"} \subseteq Outcomes
  BY Names
<1>3. CASE worker' = Goto(i, "running") /\ log' = "running" /\ log # "cancelled"
  <2>1. worker' = GotoWith(i, "running", "none") /\ log' \in LogStatuses
    BY <1>1, <1>2, <1>3, GotoIsGotoWith DEF LogStatuses
  <2> QED
    BY <1>1, <1>2, <1>3, <2>1, WorkerStep DEF Working, Busy
<1>4. CASE worker' = GotoWith(i, "settle", "refused") /\ log' = log
  <2>1. log' \in LogStatuses
    BY <1>1, <1>4 DEF TypeOK
  <2> QED
    BY <1>1, <1>2, <1>4, <2>1, WorkerStep DEF Working, Busy
<1> QED
  BY <1>3, <1>4 DEF ClaimLog, Claimable

LEMMA LeavesGood ==
  ASSUME CancelInv, NEW i \in Entries, NotAdmitted(i) \/ NotDispatched(i), UNCHANGED cancelVars
  PROVE  Good
<1>1. /\ i \in DOMAIN queue /\ worker[i].pc \in {"admit", "running"}
      /\ row' = row /\ queue' = queue /\ UNCHANGED <<run, poll>> /\ crashes' \in 0 .. MaxCrashes
      /\ log' = log /\ log' \in LogStatuses
  BY DEF CancelInv, CancelTypeOK, TypeOK, NotAdmitted, NotDispatched, At, Rest, stores
<1>2. PICK out \in {"refused", "retry", "dropped"} : worker' = GotoWith(i, "settle", out)
  BY DEF NotAdmitted, NotDispatched
<1>3. out \in Outcomes /\ "settle" \in Pcs
  BY DEF Outcomes, Pcs
<1> QED
  BY <1>1, <1>2, <1>3, WorkerStep DEF Working, Busy

LEMMA EngineEndsGood ==
  ASSUME CancelInv, NEW i \in Entries, EngineEnds(i), UNCHANGED cancelVars
  PROVE  Good
<1>1. /\ i \in DOMAIN queue /\ worker[i].pc = "running" /\ log \in LogStatuses
      /\ row' = row /\ queue' = queue /\ UNCHANGED <<run, poll>> /\ crashes' \in 0 .. MaxCrashes
  BY DEF CancelInv, CancelTypeOK, TypeOK, EngineEnds, At, Rest
<1>2. PICK end \in Endings(i) : log' = LogWrite(end[2]) /\ worker' = GotoWith(i, AfterEnd(end[1]), end[1])
  BY DEF EngineEnds
<1>3. /\ end[1] \in {"finished", "repaused", "errored", "stopped"}
      /\ end[2] \in {"completed", "failed", "pending", "cancelled"}
  BY <1>2 DEF Endings
<1>4. log' \in LogStatuses /\ (log = "cancelled" => log' = "cancelled")
  BY <1>1, <1>2, <1>3 DEF LogWrite, LogStatuses
<1>5. /\ AfterEnd(end[1]) \in {"snapshot", "persist", "settle"}
      /\ AfterEnd(end[1]) = "persist" => end[1] = "repaused"
  BY <1>3 DEF AfterEnd
<1>6. end[1] \in Outcomes /\ AfterEnd(end[1]) \in Pcs
  BY <1>3, <1>5 DEF Outcomes, Pcs
<1> HIDE DEF Endings
<1> QED
  BY <1>1, <1>2, <1>4, <1>5, <1>6, WorkerStep DEF Working, Busy

LEMMA PersistAgainFailsGood ==
  ASSUME CancelInv, NEW i \in Entries, PersistAgainFails(i), UNCHANGED cancelVars
  PROVE  Good
<1>1. /\ TypeOK /\ i \in DOMAIN queue /\ worker[i].pc = "persist" /\ worker[i].out = "repaused"
      /\ row' = row /\ queue' = queue /\ UNCHANGED <<run, poll>> /\ crashes' \in 0 .. MaxCrashes
      /\ log' = log /\ log' \in LogStatuses
  BY DEF CancelInv, CancelTypeOK, TypeOK, WorkersFit, PersistAgainFails, At, Rest, stores
<1>2. "settle" \in Pcs /\ "repaused" \in Outcomes
  BY Names
<1>3. worker' = GotoWith(i, "settle", "repaused")
  BY <1>1, <1>2, GotoIsGotoWith DEF PersistAgainFails
<1> QED
  BY <1>1, <1>2, <1>3, WorkerStep DEF Working, Busy

-----------------------------------------------------------------------------
(* Steps that touch neither a row, nor an entry, nor a worker.               *)

LEMMA QuietGood ==
  ASSUME CancelInv, CancelTypeOK', TargetsExist', UNCHANGED <<row, queue, worker, reopened>>,
         log = "cancelled" => log' = "cancelled",
         run'.pc \in {"running", "persist"} => run.pc \in {"running", "persist"},
         poll'.pc # "idle" => row[poll'.exec].status # "none",
         PollMoves \/ DueFit'
  PROVE  Good
<1>1. \A j \in Entries : worker'[j] = worker[j] \/ (j \in DOMAIN queue /\ Onward(j))
  OBVIOUS
<1> QED
  BY <1>1, SameRows, SameQueue

LEMMA SamePoll ==
  ASSUME CancelInv, poll' = poll
  PROVE  PollMoves /\ (poll'.pc # "idle" => row[poll'.exec].status # "none")
BY DEF CancelInv, RowsFit, PollMoves

LEMMA NoPollType == NoPoll \in Poll /\ NoPoll.pc = "idle"
BY EntryTypes DEF NoPoll, Poll

LEMMA CrashGood ==
  ASSUME CancelInv, Crash, UNCHANGED cancelVars
  PROVE  Good
<1>1. /\ TypeOK /\ UNCHANGED stores /\ run' = run /\ crashes' \in 0 .. MaxCrashes /\ WorkersFit
      /\ log' = log /\ row' = row /\ queue' = queue
  BY BoundTypes DEF CancelInv, CancelTypeOK, Crash, TypeOK, stores
<1>2. CASE \E i \in Entries : Alive(i) /\ worker' = Goto(i, "dead") /\ poll' = poll
  <2>1. PICK i \in Entries : Alive(i) /\ worker' = Goto(i, "dead") /\ poll' = poll
    BY <1>2
  <2>2. i \in DOMAIN queue
    BY <1>1, <2>1 DEF Alive, WorkersFit
  <2>3. "dead" \in Pcs /\ worker[i].out \in Outcomes
    BY <1>1, Names DEF TypeOK, Worker
  <2>4. worker' = GotoWith(i, "dead", worker[i].out) /\ log' \in LogStatuses
    BY <1>1, <2>1, <2>3, GotoIsGotoWith DEF TypeOK
  <2> QED
    BY <1>1, <2>1, <2>2, <2>3, <2>4, WorkerStep DEF Working, Busy
<1>3. CASE poll' = NoPoll /\ worker' = worker
  <2>1. TypeOK'
    BY <1>1, <1>3, NoPollType DEF TypeOK
  <2>2. CancelTypeOK' /\ TargetsExist'
    BY <1>1, <2>1, TargetsKept
  <2> QED
    BY <1>1, <1>3, <2>2, NoPollType, QuietGood DEF PollMoves, cancelVars
<1> QED
  BY <1>2, <1>3 DEF Crash

LEMMA RunQuietGood ==
  ASSUME CancelInv,
         \/ (RunPauses \/ RunPersistFails) /\ UNCHANGED cancelVars
         \/ RunPersists /\ log = "cancelled" /\ UNCHANGED cancelVars
         \/ RunStops
  PROVE  Good
<1>1. /\ TypeOK /\ run \in [pc : {"running", "persist", "drain", "done"}, signalled : BOOLEAN]
      /\ log \in LogStatuses
  BY DEF CancelInv, CancelTypeOK, TypeOK
<1>2. /\ UNCHANGED <<row, queue, worker, poll, crashes>> /\ UNCHANGED cancelVars
      /\ run.pc \in {"running", "persist"} /\ log' \in {"pending", "failed", "cancelled"}
      /\ log = "cancelled" => log' = "cancelled"
      /\ \E pc \in {"persist", "drain", "done"} : run' = [run EXCEPT !.pc = pc]
  BY <1>1 DEF RunPauses, RunPersistFails, RunPersists, RunStops, LogWrite
<1>3. run' \in [pc : {"running", "persist", "drain", "done"}, signalled : BOOLEAN]
  BY <1>1, <1>2
<1>4. TypeOK'
  BY <1>1, <1>2, <1>3 DEF TypeOK, LogStatuses
<1>5. CancelTypeOK' /\ TargetsExist'
  BY <1>2, <1>4, TargetsKept
<1> QED
  BY <1>2, <1>5, SamePoll, QuietGood DEF cancelVars

LEMMA PollReadsGood ==
  ASSUME CancelInv, PollReads, UNCHANGED cancelVars
  PROVE  Good
<1>1. /\ TypeOK /\ UNCHANGED <<log, row, queue, worker, run, crashes>>
  BY DEF CancelInv, CancelTypeOK, PollReads, stores
<1>2. PICK e \in Executions : \E due \in SUBSET {c \in TimeContexts : row[e].points[c] = "paused"} :
        /\ row[e].status \in Resumable
        /\ \E later, busy \in BOOLEAN :
             poll' = [pc |-> IF due = {} THEN "drain" ELSE "prepare", exec |-> e, due |-> due,
                      later |-> later, busy |-> busy]
  BY DEF PollReads
<1>3. PICK due \in SUBSET {c \in TimeContexts : row[e].points[c] = "paused"} :
        /\ row[e].status \in Resumable
        /\ \E later, busy \in BOOLEAN :
             poll' = [pc |-> IF due = {} THEN "drain" ELSE "prepare", exec |-> e, due |-> due,
                      later |-> later, busy |-> busy]
  BY <1>2
<1>4. due \in SUBSET Contexts
  BY <1>3, PauseAssumption
<1>5. /\ poll' \in Poll /\ poll'.exec = e /\ poll'.due = due
      /\ poll'.pc = IF due = {} THEN "drain" ELSE "prepare"
  BY <1>3, <1>4 DEF Poll
<1>6. TypeOK'
  BY <1>1, <1>5 DEF TypeOK
<1>7. CancelTypeOK' /\ TargetsExist'
  BY <1>1, <1>6, TargetsKept
<1>8. DueFit' /\ row[poll'.exec].status # "none"
  BY <1>1, <1>3, <1>5 DEF DueFit, Resumable
<1> QED
  BY <1>1, <1>7, <1>8, QuietGood DEF cancelVars

LEMMA PollAdmitsGood ==
  ASSUME CancelInv, PollAdmits, UNCHANGED cancelVars
  PROVE  Good
<1>1. /\ TypeOK /\ UNCHANGED <<log, row, queue, worker, run, crashes, reopened>> /\ DueFit /\ RowsFit
      /\ poll \in Poll /\ poll.pc = "prepare" /\ poll' = [poll EXCEPT !.pc = "enqueue"]
  BY DEF CancelInv, CancelTypeOK, PollAdmits, TypeOK, stores, cancelVars
<1>2. poll' \in Poll /\ poll'.exec = poll.exec /\ poll'.due = poll.due
  BY <1>1 DEF Poll
<1>3. TypeOK'
  BY <1>1, <1>2 DEF TypeOK
<1>4. CancelTypeOK' /\ TargetsExist'
  BY <1>1, <1>3, TargetsKept
<1>5. DueFit' /\ row[poll'.exec].status # "none"
  BY <1>1, <1>2 DEF DueFit, RowsFit
<1> QED
  BY <1>1, <1>4, <1>5, QuietGood

-----------------------------------------------------------------------------
(* The requests.                                                             *)

RequestPcs ==
  {"idle", "stage", "restage", "signal", "signalRun", "claimLog", "claimStopped", "post",
   "postSignal", "publish", "status", "signalV2", "block", "logV2", "publishV2",
   "complete", "rollback", "clear", "drain", "done"}

LEMMA ToType ==
  ASSUME CancelInv, NEW k \in Cancellers, NEW pc \in RequestPcs, cancel' = To(k, pc),
         pc \in {"signal", "postSignal", "rollback"} => cancel[k].target # 0,
         DOMAIN queue \subseteq DOMAIN queue'
  PROVE  cancel' \in [Cancellers -> Canceller] /\ TargetsExist'
<1>1. cancel \in [Cancellers -> Canceller] /\ TargetsExist /\ cancel[k] \in Canceller
  BY DEF CancelInv, CancelTypeOK
<1> DEFINE one == [cancel[k] EXCEPT !.pc = pc]
<1>2. one \in Canceller /\ one.pc = pc /\ one.target = cancel[k].target
  BY <1>1 DEF Canceller, RequestPcs
<1>3. cancel' = [cancel EXCEPT ![k] = one]
  BY DEF To
<1> HIDE DEF one
<1>4. /\ cancel' \in [Cancellers -> Canceller] /\ cancel'[k] = one
      /\ \A l \in Cancellers \ {k} : cancel'[l] = cancel[l]
  BY <1>1, <1>2, <1>3
<1>5. TargetsExist'
  BY <1>1, <1>2, <1>4 DEF TargetsExist
<1> QED
  BY <1>4, <1>5

LEMMA FoundType ==
  ASSUME CancelInv, NEW k \in Cancellers, NEW pc \in RequestPcs, NEW t, cancel' = Found(k, pc, t, TRUE),
         t = 0 \/ t \in DOMAIN queue,
         pc \in {"signal", "postSignal", "rollback"} => t # 0,
         DOMAIN queue \subseteq DOMAIN queue'
  PROVE  cancel' \in [Cancellers -> Canceller] /\ TargetsExist'
<1>1. cancel \in [Cancellers -> Canceller] /\ TargetsExist
  BY DEF CancelInv, CancelTypeOK
<1> DEFINE one == [pc |-> pc, target |-> t, paused |-> TRUE]
<1>2. t \in 0 .. MaxEntries
  BY BoundTypes, QueueTypes DEF Entries, CancelInv, CancelTypeOK
<1>3. one \in Canceller /\ one.pc = pc /\ one.target = t
  BY <1>2 DEF Canceller, RequestPcs
<1>4. cancel' = [cancel EXCEPT ![k] = one]
  BY DEF Found
<1> HIDE DEF one
<1>5. /\ cancel' \in [Cancellers -> Canceller] /\ cancel'[k] = one
      /\ \A l \in Cancellers \ {k} : cancel'[l] = cancel[l]
  BY <1>1, <1>3, <1>4
<1>6. TargetsExist'
  BY <1>1, <1>3, <1>5 DEF TargetsExist
<1> QED
  BY <1>5, <1>6

LEMMA ActiveType ==
  ASSUME TypeOK
  PROVE  ActiveEntry = 0 \/ (ActiveEntry \in Claimed(Root) /\ ActiveEntry \in DOMAIN queue)
<1>1. Claimed(Root) \subseteq Nat
  BY QueueTypes DEF Claimed, WithStatus
<1>2. CASE Claimed(Root) # {}
  <2>1. \E i \in Claimed(Root) : \A j \in Claimed(Root) : i <= j
    BY <1>1, <1>2, LeastNumber
  <2>2. First(Claimed(Root)) \in Claimed(Root)
    BY <2>1 DEF First
  <2> QED
    BY <1>2, <2>2 DEF ActiveEntry, Claimed, WithStatus
<1> QED
  BY <1>2 DEF ActiveEntry

(* The steps in which a request only asks, decides or writes the log. *)
LEMMA RequestQuietGood ==
  ASSUME CancelInv, NEW k \in Cancellers, NEW pc \in RequestPcs, cancel' = To(k, pc),
         pc \in {"signal", "postSignal", "rollback"} => cancel[k].target # 0,
         UNCHANGED <<row, queue, worker, poll, reopened>>,
         crashes' \in 0 .. MaxCrashes,
         log' = log \/ log' = "cancelled", run' = run \/ run' = [run EXCEPT !.signalled = TRUE]
  PROVE  Good
<1>1. TypeOK
  BY DEF CancelInv, CancelTypeOK
<1>2. /\ run' \in [pc : {"running", "persist", "drain", "done"}, signalled : BOOLEAN]
      /\ run'.pc = run.pc
  BY <1>1 DEF TypeOK
<1>3. log' \in LogStatuses /\ (log = "cancelled" => log' = "cancelled")
  BY <1>1 DEF TypeOK, LogStatuses
<1>4. TypeOK'
  BY <1>1, <1>2, <1>3 DEF TypeOK
<1>5. cancel' \in [Cancellers -> Canceller] /\ TargetsExist'
  BY ToType
<1>6. CancelTypeOK'
  BY <1>4, <1>5 DEF CancelInv, CancelTypeOK
<1> QED
  BY <1>2, <1>3, <1>5, <1>6, SamePoll, QuietGood

LEMMA RequestsAskGood ==
  ASSUME CancelInv, NEW k \in Cancellers,
         \/ CancelReads(k) \/ CancelSignalsRun(k) \/ CancelClaimsLog(k) \/ CancelClaimFails(k)
         \/ CancelPublishes(k) \/ V2ReadsStatus(k) \/ V2SignalsRun(k) \/ V2ClaimsLog(k)
         \/ V2Publishes(k) \/ CancelDies(k)
  PROVE  Good
<1>1. /\ UNCHANGED <<row, queue, worker, poll, reopened>> /\ crashes' \in 0 .. MaxCrashes
      /\ log' = log \/ log' = "cancelled"
      /\ run' = run \/ run' = [run EXCEPT !.signalled = TRUE]
  <2>1. crashes \in 0 .. MaxCrashes
    BY DEF CancelInv, CancelTypeOK, TypeOK
  <2>2. CASE CancelDies(k)
    BY <2>1, <2>2, BoundTypes DEF CancelDies, stores
  <2>3. CASE CancelReads(k) \/ CancelClaimFails(k) \/ CancelPublishes(k) \/ V2ReadsStatus(k) \/ V2Publishes(k)
    BY <2>1, <2>3 DEF CancelReads, CancelClaimFails, CancelPublishes, V2ReadsStatus, V2Publishes, vars
  <2>4. CASE CancelSignalsRun(k) \/ V2SignalsRun(k)
    BY <2>1, <2>4 DEF CancelSignalsRun, V2SignalsRun, stores
  <2>5. CASE CancelClaimsLog(k) \/ V2ClaimsLog(k)
    BY <2>1, <2>5 DEF CancelClaimsLog, V2ClaimsLog, Rest
  <2> QED
    BY <2>2, <2>3, <2>4, <2>5
<1>2. \E pc \in RequestPcs : /\ cancel' = To(k, pc)
                             /\ pc \notin {"signal", "postSignal"}
                             /\ pc = "rollback" => cancel[k].target # 0
  <2>1. CASE CancelReads(k)
    BY <2>1 DEF CancelReads, RequestPcs
  <2>2. CASE CancelClaimFails(k)
    <3>1. \E pc \in {"done", "rollback", "clear"} :
            cancel' = To(k, pc) /\ (pc = "rollback" => cancel[k].target # 0)
      BY <2>2 DEF CancelClaimFails
    <3> QED
      BY <3>1 DEF RequestPcs
  <2>3. CASE CancelClaimsLog(k)
    <3>1. \E pc \in {"post", "done", "rollback", "clear"} :
            cancel' = To(k, pc) /\ (pc = "rollback" => cancel[k].target # 0)
      BY <2>3 DEF CancelClaimsLog
    <3> QED
      BY <3>1 DEF RequestPcs
  <2>4. CASE V2ReadsStatus(k)
    <3>1. \E pc \in {"done", "publishV2", "signalV2"} : cancel' = To(k, pc)
      BY <2>4 DEF V2ReadsStatus
    <3> QED
      BY <3>1 DEF RequestPcs
  <2>5. CASE CancelSignalsRun(k) \/ V2SignalsRun(k) \/ CancelPublishes(k) \/ V2Publishes(k)
             \/ V2ClaimsLog(k) \/ CancelDies(k)
    BY <2>5 DEF CancelSignalsRun, V2SignalsRun, CancelPublishes, V2Publishes, V2ClaimsLog,
                CancelDies, RequestPcs
  <2> QED
    BY <2>1, <2>2, <2>3, <2>4, <2>5
<1> QED
  BY <1>1, <1>2, RequestQuietGood

(* A resume is told to stop. *)
LEMMA CancelSignalsGood ==
  ASSUME CancelInv, NEW k \in Cancellers, CancelSignals(k) \/ CancelSignalsAgain(k)
  PROVE  Good
<1>1. /\ TypeOK /\ UNCHANGED <<log, row, queue, run, poll, crashes, reopened>>
      /\ cancel[k].pc \in {"signal", "postSignal"}
  BY DEF CancelInv, CancelTypeOK, CancelSignals, CancelSignalsAgain, stores, Rest, Here
<1> DEFINE t == cancel[k].target
<1>2. t \in DOMAIN queue /\ t \in Entries /\ t # 0
  BY <1>1, QueueTypes DEF CancelInv, TargetsExist
<1>3. \E pc \in RequestPcs : /\ cancel' = To(k, pc) /\ pc \notin {"signal", "postSignal"}
                             /\ worker' = worker \/ worker' = [worker EXCEPT ![t].signalled = TRUE]
  BY DEF CancelSignals, CancelSignalsAgain, SignalsResume, RequestPcs
<1>4. cancel' \in [Cancellers -> Canceller] /\ TargetsExist'
  BY <1>1, <1>2, <1>3, ToType
<1> HIDE DEF t
<1>5. /\ worker' \in [Entries -> Worker]
      /\ \A j \in Entries : worker'[j].pc = worker[j].pc /\ worker'[j].out = worker[j].out
      /\ \A j \in Entries \ {t} : worker'[j] = worker[j]
  <2>1. worker \in [Entries -> Worker] /\ worker[t] \in Worker
    BY <1>1, <1>2 DEF TypeOK
  <2> DEFINE one == [worker[t] EXCEPT !.signalled = TRUE]
  <2>2. one \in Worker /\ one.pc = worker[t].pc /\ one.out = worker[t].out
    BY <2>1 DEF Worker
  <2>3. worker' = worker \/ worker' = [worker EXCEPT ![t] = one]
    BY <1>3
  <2> HIDE DEF one
  <2> QED
    BY <1>2, <2>1, <2>2, <2>3
<1>6. CancelTypeOK'
  BY <1>1, <1>4, <1>5 DEF CancelInv, CancelTypeOK, TypeOK
<1>7. WorkersFit /\ \A j \in Entries : worker'[j] = worker[j] \/ j \in DOMAIN queue
  BY <1>2, <1>5 DEF CancelInv
<1>8. \A j \in DOMAIN queue : Onward(j)
  BY <1>1, <1>5, <1>7, QueueTypes DEF WorkersFit, Onward
<1> QED
  BY <1>1, <1>4, <1>6, <1>7, <1>8, SamePoll, SameRows, SameQueue

-----------------------------------------------------------------------------
(* Steps that change one row.                                                *)

LEMMA OneRow ==
  ASSUME NEW e \in Executions, \A f \in Executions \ {e} : row'[f] = row[f],
         RowMoves(e), PointsMove(e)
  PROVE  \A f \in Executions : RowMoves(f) /\ PointsMove(f)
BY DEF RowMoves, PointsMove

(* A row whose points stay the same, and which neither was nor is cancelled.  *)
LEMMA StatusStep ==
  ASSUME CancelInv, NEW e \in Executions, NEW r \in Row, row' = [row EXCEPT ![e] = r],
         r.points = row[e].points, row[e].status \notin {"none", "cancelled"},
         r.status \notin {"none", "cancelled"}, r.status = "cancelling" => e = Root,
         UNCHANGED <<log, queue, worker, run, crashes, reopened>>,
         poll' \in Poll, poll' = poll \/ poll'.pc = "idle",
         cancel' \in [Cancellers -> Canceller], TargetsExist'
  PROVE  Good
<1>1. TypeOK
  BY DEF CancelInv, CancelTypeOK
<1>2. /\ row' \in [Executions -> Row] /\ row'[e] = r
      /\ \A f \in Executions \ {e} : row'[f] = row[f]
  BY <1>1, RowUpdate
<1>3. RowMoves(e)
  BY <1>2 DEF RowMoves
<1>4. PointsMove(e)
  BY <1>2 DEF PointsMove
<1>5. CancelTypeOK'
  BY <1>1, <1>2 DEF CancelInv, CancelTypeOK, TypeOK
<1>6. PollMoves /\ (poll'.pc # "idle" => row[poll'.exec].status # "none")
  BY DEF PollMoves, CancelInv, RowsFit
<1>7. \A f \in Executions : RowMoves(f) /\ PointsMove(f)
  BY <1>2, <1>3, <1>4, OneRow
<1>8. \A j \in Entries : worker'[j] = worker[j] \/ (j \in DOMAIN queue /\ Onward(j))
  OBVIOUS
<1> QED
  BY <1>5, <1>6, <1>7, <1>8, SameQueue

LEMMA PollNextGood ==
  ASSUME CancelInv, PollSetsNext \/ PollClearsNext, UNCHANGED cancelVars
  PROVE  Good
<1>1. /\ TypeOK /\ poll \in Poll /\ poll.exec \in Executions /\ poll.later \in BOOLEAN
      /\ UNCHANGED <<log, queue, worker, run, crashes>> /\ poll' = NoPoll
      /\ row[poll.exec] \in Row
  BY DEF CancelInv, CancelTypeOK, TypeOK, Poll, PollSetsNext, PollClearsNext
<1>2. PICK b \in BOOLEAN : row' = SetNext(poll.exec, b)
  BY <1>1 DEF PollSetsNext, PollClearsNext
<1>3. TypeOK'
  BY <1>1, <1>2, NextType, NoPollType DEF TypeOK
<1>4. CancelTypeOK' /\ TargetsExist'
  BY <1>1, <1>3, TargetsKept
<1>5. CASE row[poll.exec].status \in Resumable
  <2> DEFINE r == [row[poll.exec] EXCEPT !.next = b]
  <2>1. r \in Row /\ r.points = row[poll.exec].points /\ r.status = row[poll.exec].status
    BY <1>1 DEF Row
  <2>2. row' = [row EXCEPT ![poll.exec] = r]
    BY <1>2, <1>5 DEF SetNext
  <2> HIDE DEF r
  <2>3. cancel' \in [Cancellers -> Canceller] /\ reopened' = reopened
    BY <1>4 DEF CancelTypeOK, cancelVars
  <2> QED
    BY <1>1, <1>4, <1>5, <2>1, <2>2, <2>3, NoPollType, StatusStep DEF Resumable
<1>6. CASE row[poll.exec].status \notin Resumable
  <2>1. row' = row
    BY <1>2, <1>6 DEF SetNext
  <2> QED
    BY <1>1, <1>4, <2>1, NoPollType, QuietGood DEF PollMoves, cancelVars
<1> QED
  BY <1>5, <1>6

(* A row is marked: the status of the run's row becomes s.                     *)
LEMMA MarkType ==
  ASSUME TypeOK, NEW s \in RowStatuses
  PROVE  /\ [row[Root] EXCEPT !.status = s] \in Row
         /\ [row[Root] EXCEPT !.status = s].points = row[Root].points
         /\ [row[Root] EXCEPT !.status = s].status = s
<1>1. row[Root] \in Row
  BY EntryTypes DEF TypeOK
<1> QED
  BY <1>1 DEF Row

LEMMA V2BeginsGood ==
  ASSUME CancelInv, NEW k \in Cancellers, V2Begins(k)
  PROVE  Good
<1>1. /\ TypeOK /\ UNCHANGED <<log, queue, worker, run, poll, crashes, reopened>> /\ Root \in Executions
      /\ poll' \in Poll
  BY EntryTypes DEF CancelInv, CancelTypeOK, V2Begins, Rest, TypeOK
<1>2. \E pc \in {"publishV2", "status"} : cancel' = To(k, pc)
  BY DEF V2Begins
<1>3. cancel' \in [Cancellers -> Canceller] /\ TargetsExist'
  BY <1>1, <1>2, ToType DEF RequestPcs
<1>4. CASE Stoppable
  <2> DEFINE r == [row[Root] EXCEPT !.status = "cancelling"]
  <2>1. r \in Row /\ r.points = row[Root].points /\ r.status = "cancelling"
    BY <1>1, MarkType DEF RowStatuses
  <2>2. row' = [row EXCEPT ![Root] = r]
    BY <1>4 DEF V2Begins, WithRoot
  <2> HIDE DEF r
  <2>3. row[Root].status \notin {"none", "cancelled"}
    BY <1>4 DEF Stoppable, Resumable
  <2> QED
    BY <1>1, <1>3, <2>1, <2>2, <2>3, StatusStep
<1>5. CASE ~Stoppable
  <2>1. row' = row
    BY <1>5 DEF V2Begins
  <2>2. CancelTypeOK'
    BY <1>1, <1>3, <2>1 DEF CancelInv, CancelTypeOK, TypeOK
  <2> QED
    BY <1>1, <1>3, <2>1, <2>2, SamePoll, QuietGood
<1> QED
  BY <1>4, <1>5

LEMMA UpdateSnapshotGood ==
  ASSUME CancelInv, NEW i \in Entries, UpdateSnapshot(i), UNCHANGED cancelVars
  PROVE  Good
<1> DEFINE e == Exec(i)
           d == worker[i].seen \cup {Ctx(i)}
           r == [row[e] EXCEPT !.done = d]
<1>1. /\ TypeOK /\ i \in DOMAIN queue /\ worker[i].pc = "snapshot" /\ worker[i] \in Worker
      /\ e \in Executions /\ Ctx(i) \in Contexts /\ row[e] \in Row
      /\ UNCHANGED <<log, queue, run, poll, crashes>> /\ worker' = Goto(i, "settle")
      /\ row' = [row EXCEPT ![e].done = d]
  BY QueueTypes DEF CancelInv, CancelTypeOK, UpdateSnapshot, At, Rest, TypeOK
<1>2. d \in SUBSET Contexts
  BY <1>1 DEF Worker
<1>3. r \in Row /\ r.points = row[e].points /\ row' = [row EXCEPT ![e] = r]
  BY <1>1, <1>2 DEF Row
<1>4. /\ row' \in [Executions -> Row] /\ row'[e] = r
      /\ \A f \in Executions \ {e} : row'[f] = row[f]
  BY <1>1, <1>3, RowUpdate
<1>5. RowMoves(e)
  BY <1>2, <1>4 DEF RowMoves
<1>6. PointsMove(e)
  BY <1>3, <1>4 DEF PointsMove
<1> HIDE DEF e, d, r
<1>7. \A f \in Executions : RowMoves(f) /\ PointsMove(f)
  BY <1>1, <1>4, <1>5, <1>6, OneRow
<1>8. /\ worker' \in [Entries -> Worker] /\ \A j \in Entries \ {i} : worker'[j] = worker[j]
      /\ worker'[i].pc = "settle" /\ worker'[i].out = worker[i].out
  BY <1>1, GotoType, Names
<1>9. TypeOK'
  BY <1>1, <1>4, <1>8 DEF TypeOK
<1>10. CancelTypeOK' /\ TargetsExist'
  BY <1>1, <1>9, TargetsKept
<1>11. Onward(i)
  BY <1>1, <1>8 DEF Onward, Working, Busy
<1>12. \A j \in Entries : worker'[j] = worker[j] \/ (j \in DOMAIN queue /\ Onward(j))
  BY <1>1, <1>8, <1>11
<1> QED
  BY <1>1, <1>7, <1>10, <1>12, SamePoll, SameQueue DEF cancelVars

LEMMA RunPersistsGood ==
  ASSUME CancelInv, RunPersists, UNCHANGED cancelVars
  PROVE  Good
<1>1. /\ TypeOK /\ run \in [pc : {"running", "persist", "drain", "done"}, signalled : BOOLEAN]
      /\ RowsFit /\ run.pc = "persist" /\ Root \in Executions /\ row[Root].status = "none"
      /\ UNCHANGED <<log, queue, worker, poll, crashes>>
  BY EntryTypes DEF CancelInv, CancelTypeOK, TypeOK, RowsFit, RunPersists
<1>2. SUFFICES ASSUME log # "cancelled"
               PROVE  Good
  BY RunQuietGood
<1>3. row' = [row EXCEPT ![Root] = Paused(FirstPauses, {})] /\ run' = [run EXCEPT !.pc = "drain"]
  BY <1>1, <1>2 DEF RunPersists
<1>4. Paused(FirstPauses, {}) \in Row /\ Paused(FirstPauses, {}).status = "paused"
  <2>1. FirstPauses \in SUBSET Contexts /\ {} \in SUBSET Contexts
    BY PauseAssumption
  <2> QED
    BY <2>1, PausedType
<1>5. /\ row' \in [Executions -> Row] /\ row'[Root] = Paused(FirstPauses, {})
      /\ \A f \in Executions \ {Root} : row'[f] = row[f]
  BY <1>1, <1>3, <1>4, RowUpdate
<1>6. /\ run' \in [pc : {"running", "persist", "drain", "done"}, signalled : BOOLEAN]
      /\ run'.pc = "drain"
  BY <1>1, <1>3
<1>7. CancelTypeOK' /\ TargetsExist'
  <2>1. TypeOK'
    BY <1>1, <1>5, <1>6 DEF TypeOK
  <2> QED
    BY <1>1, <2>1, TargetsKept
<1>8. RowMoves(Root) /\ PointsMove(Root)
  BY <1>1, <1>4, <1>5, <1>6 DEF RowMoves, PointsMove
<1>9. \A f \in Executions : RowMoves(f) /\ PointsMove(f)
  BY <1>1, <1>5, <1>8, OneRow
<1>10. \A j \in Entries : worker'[j] = worker[j] \/ (j \in DOMAIN queue /\ Onward(j))
  BY <1>1
<1> QED
  BY <1>1, <1>6, <1>7, <1>9, <1>10, SamePoll, SameQueue DEF cancelVars

LEMMA PersistAgainGood ==
  ASSUME CancelInv, NEW i \in Entries, PersistAgain(i), UNCHANGED cancelVars
  PROVE  Good
<1> DEFINE done == worker[i].seen \cup {Ctx(i)}
           cs == PausesAt[Ctx(i)]
<1>1. /\ TypeOK /\ i \in DOMAIN queue /\ worker[i].pc = "persist" /\ worker[i] \in Worker
      /\ Ctx(i) \in Contexts /\ i \in Executions /\ i # Root
      /\ row' = [row EXCEPT ![i] = Paused(cs, done)] /\ worker' = Goto(i, "drainChild")
      /\ UNCHANGED <<log, queue, run, poll, crashes>>
  BY QueueTypes, EntryTypes DEF CancelInv, CancelTypeOK, PersistAgain, At, Rest
<1>2. cs \in SUBSET Contexts /\ done \in SUBSET Contexts
  BY <1>1, PauseAssumption DEF Worker
<1> HIDE DEF cs, done
<1>3. Paused(cs, done) \in Row /\ Paused(cs, done).status = "paused"
  BY <1>2, PausedType
<1>4. /\ row' \in [Executions -> Row] /\ row'[i] = Paused(cs, done)
      /\ \A f \in Executions \ {i} : row'[f] = row[f]
  BY <1>1, <1>3, RowUpdate
<1>5. /\ worker' \in [Entries -> Worker] /\ \A j \in Entries \ {i} : worker'[j] = worker[j]
      /\ worker'[i].pc = "drainChild" /\ worker'[i].out = worker[i].out
  BY <1>1, GotoType, Names
<1>6. TypeOK'
  BY <1>1, <1>4, <1>5 DEF TypeOK
<1>7. CancelTypeOK' /\ TargetsExist'
  BY <1>1, <1>6, TargetsKept
<1>8. worker[i].out = "repaused" /\ row[i].status = "none"
  BY <1>1 DEF CancelInv, WorkersFit, RowsFit
<1>9. RowMoves(i) /\ PointsMove(i)
  BY <1>1, <1>3, <1>4, <1>5, <1>8 DEF RowMoves, PointsMove
<1>10. \A f \in Executions : RowMoves(f) /\ PointsMove(f)
  BY <1>1, <1>4, <1>9, OneRow
<1>11. Onward(i)
  BY <1>1, <1>5, <1>8 DEF Onward, Working, Busy
<1>12. \A j \in Entries : worker'[j] = worker[j] \/ (j \in DOMAIN queue /\ Onward(j))
  BY <1>1, <1>5, <1>11
<1> QED
  BY <1>1, <1>7, <1>10, <1>12, SamePoll, SameQueue DEF cancelVars

-----------------------------------------------------------------------------
(* Steps that mark entries: stage, restore, or cancel them.                  *)

MarkedQueue(S, s, b) ==
  [j \in DOMAIN queue |-> IF j \in S THEN [queue[j] EXCEPT !.status = s, !.staged = b] ELSE queue[j]]

LEMMA MarkGood ==
  ASSUME CancelInv, NEW S, NEW s \in {"pending", "failed"}, NEW b \in BOOLEAN,
         queue' = MarkedQueue(S, s, b), b => s = "failed",
         s = "pending" \/ b => \A j \in DOMAIN queue : j \in S => Waits(j),
         \A j \in Entries : worker'[j] = worker[j] \/ (j \in DOMAIN queue /\ Onward(j)),
         worker' \in [Entries -> Worker], row' \in [Executions -> Row], log' \in LogStatuses,
         \A e \in Executions : RowMoves(e) /\ PointsMove(e),
         log = "cancelled" => log' = "cancelled", run' = run, crashes' = crashes,
         poll' \in Poll, poll' = poll \/ poll'.pc = "idle",
         cancel' \in [Cancellers -> Canceller], TargetsExist',
         reopened \subseteq reopened', reopened' \subseteq Contexts
  PROVE  Good
<1>1. /\ TypeOK /\ WorkersFit /\ \A j \in DOMAIN queue : j \in Entries
  BY QueueTypes DEF CancelInv, CancelTypeOK
<1>2. /\ queue' \in Seq(Entry) /\ Len(queue') = Len(queue) /\ DOMAIN queue' = DOMAIN queue
      /\ \A j \in DOMAIN queue :
           /\ queue'[j].exec = Exec(j) /\ queue'[j].ctx = Ctx(j)
           /\ j \in S => queue'[j].status = s /\ queue'[j].staged = b
           /\ j \notin S => queue'[j] = queue[j]
  <2> DEFINE new(j) == [queue[j] EXCEPT !.status = s, !.staged = b]
  <2>1. /\ DOMAIN queue = 1 .. Len(queue) /\ Len(queue) \in Nat
        /\ \A j \in DOMAIN queue : queue[j] \in Entry
    BY <1>1, QueueTypes
  <2>2. ASSUME NEW j \in DOMAIN queue
        PROVE  /\ new(j) \in Entry /\ new(j).status = s /\ new(j).staged = b
               /\ new(j).exec = Exec(j) /\ new(j).ctx = Ctx(j)
    <3>1. queue[j] \in Entry
      BY <2>1
    <3> QED
      BY <3>1 DEF Entry, Exec, Ctx
  <2>3. queue' = [j \in DOMAIN queue |-> IF j \in S THEN new(j) ELSE queue[j]]
    BY DEF MarkedQueue
  <2> HIDE DEF new
  <2>4. ASSUME NEW j \in DOMAIN queue
        PROVE  /\ queue'[j] \in Entry /\ queue'[j].exec = Exec(j) /\ queue'[j].ctx = Ctx(j)
               /\ j \in S => queue'[j].status = s /\ queue'[j].staged = b
               /\ j \notin S => queue'[j] = queue[j]
    <3>1. queue'[j] = IF j \in S THEN new(j) ELSE queue[j]
      BY <2>3
    <3> QED
      BY <2>1, <2>2, <3>1 DEF Exec, Ctx
  <2>5. queue' \in [1 .. Len(queue) -> Entry]
    BY <2>1, <2>3, <2>4
  <2>6. queue' \in Seq(Entry) /\ Len(queue') = Len(queue)
    BY <2>1, <2>5
  <2>7. DOMAIN queue' = DOMAIN queue
    BY <2>3
  <2> QED
    BY <2>4, <2>6, <2>7
<1>3. CancelTypeOK'
  BY <1>1, <1>2 DEF TypeOK, CancelTypeOK
<1>4. ASSUME NEW j \in DOMAIN queue
      PROVE  EntryMoves(j)
  <2>1. Onward(j)
    BY <1>1, StandsStill
  <2>2. queue[j].staged => queue[j].status = "failed"
    BY <1>1 DEF WorkersFit
  <2>3. CASE j \in S
    <3>1. queue'[j].status = s /\ queue'[j].staged = b
      BY <1>2, <2>3
    <3>2. s = "pending" \/ b => Waits(j)
      BY <2>3
    <3> QED
      BY <1>2, <2>1, <3>1, <3>2 DEF EntryMoves, Holds, Waits, Exec, Ctx
  <2>4. CASE j \notin S
    <3>1. queue'[j] = queue[j]
      BY <1>2, <2>4
    <3> QED
      BY <2>1, <2>2, <3>1 DEF EntryMoves, Holds, Waits
  <2> QED
    BY <2>3, <2>4
<1>5. EntriesMove
  BY <1>2, <1>4 DEF EntriesMove
<1>6. ClaimsResumable
  BY <1>2 DEF ClaimsResumable, Exec
<1>7. PollMoves /\ (poll'.pc # "idle" => row[poll'.exec].status # "none")
  BY DEF PollMoves, CancelInv, RowsFit
<1> QED
  BY <1>3, <1>5, <1>6, <1>7, StepGood

LEMMA StagedIsMarked == StagedQueue = MarkedQueue(Pending(Root), "failed", TRUE)
BY DEF StagedQueue, MarkedQueue

LEMMA RestoredIsMarked ==
  RestoredQueue = MarkedQueue({j \in DOMAIN queue : queue[j].exec = Root /\ queue[j].status = "failed"
                                                     /\ queue[j].staged}, "pending", FALSE)
BY DEF RestoredQueue, MarkedQueue

(* A row of the run that is marked, its points the same but for those reopened. *)
LEMMA RootMoves ==
  ASSUME CancelInv, NEW r \in Row, row' = WithRoot(r),
         row[Root].status \notin {"none", "cancelled"}, r.status \notin {"none", "cancelled"},
         reopened \subseteq reopened', reopened' \subseteq Contexts,
         \A c \in Contexts \ reopened' : r.points[c] = row[Root].points[c]
  PROVE  row' \in [Executions -> Row] /\ \A e \in Executions : RowMoves(e) /\ PointsMove(e)
<1>1. TypeOK /\ Root \in Executions
  BY EntryTypes DEF CancelInv, CancelTypeOK
<1>2. /\ row' \in [Executions -> Row] /\ row'[Root] = r
      /\ \A f \in Executions \ {Root} : row'[f] = row[f]
  BY <1>1, RowUpdate DEF WithRoot
<1>3. RowMoves(Root)
  BY <1>2 DEF RowMoves
<1>4. PointsMove(Root)
  BY <1>2 DEF PointsMove
<1> QED
  BY <1>1, <1>2, <1>3, <1>4, OneRow

(* The cancellation is staged. *)
LEMMA StageGood ==
  ASSUME CancelInv, Stoppable, queue' = StagedQueue,
         row' = WithRoot([row[Root] EXCEPT !.status = "cancelling"]),
         UNCHANGED <<log, worker, run, poll, crashes, reopened>>,
         cancel' \in [Cancellers -> Canceller], TargetsExist'
  PROVE  Good
<1>1. /\ TypeOK /\ row[Root].status \notin {"none", "cancelled"} /\ log' \in LogStatuses
      /\ worker' \in [Entries -> Worker] /\ poll' \in Poll /\ reopened' \subseteq Contexts
  BY DEF CancelInv, CancelTypeOK, TypeOK, Stoppable, Resumable
<1> DEFINE r == [row[Root] EXCEPT !.status = "cancelling"]
<1>2. r \in Row /\ r.points = row[Root].points /\ r.status = "cancelling"
  BY <1>1, MarkType DEF RowStatuses
<1> HIDE DEF r
<1>3. row' \in [Executions -> Row] /\ \A e \in Executions : RowMoves(e) /\ PointsMove(e)
  BY <1>1, <1>2, RootMoves DEF r
<1>4. \A j \in DOMAIN queue : j \in Pending(Root) => Waits(j)
  BY DEF Pending, WithStatus, Waits
<1>5. \A j \in Entries : worker'[j] = worker[j] \/ (j \in DOMAIN queue /\ Onward(j))
  OBVIOUS
<1>6. queue' = MarkedQueue(Pending(Root), "failed", TRUE)
  BY StagedIsMarked
<1> QED
  BY <1>1, <1>3, <1>4, <1>5, <1>6, MarkGood

LEMMA StagedDomain == TypeOK => DOMAIN StagedQueue = DOMAIN queue /\ DOMAIN RestoredQueue = DOMAIN queue
BY StagedIsMarked, RestoredIsMarked DEF StagedQueue, RestoredQueue

LEMMA CancelStagesGood ==
  ASSUME CancelInv, NEW k \in Cancellers, CancelStages(k) \/ CancelRechecks(k)
  PROVE  Good
<1>1. /\ TypeOK /\ Stage /\ UNCHANGED <<log, worker, run, poll, crashes, reopened>>
  BY DEF CancelInv, CancelTypeOK, CancelStages, CancelRechecks, Rest
<1>2. DOMAIN queue' = DOMAIN queue
  BY <1>1, StagedDomain DEF Stage
<1>3. CASE CanStage
  <2>1. \E pc \in {"claimLog", "signal", "publish", "postSignal"} :
          /\ cancel' = Found(k, pc, ActiveEntry, TRUE)
          /\ pc \in {"signal", "postSignal", "rollback"} => ActiveEntry # 0
    BY <1>3 DEF CancelStages, CancelRechecks
  <2>2. ActiveEntry = 0 \/ ActiveEntry \in DOMAIN queue
    BY <1>1, ActiveType
  <2>3. cancel' \in [Cancellers -> Canceller] /\ TargetsExist'
    BY <1>2, <2>1, <2>2, FoundType DEF RequestPcs
  <2>4. Stoppable /\ queue' = StagedQueue /\ row' = WithRoot([row[Root] EXCEPT !.status = "cancelling"])
    BY <1>1, <1>3 DEF Stage, CanStage
  <2> QED
    BY <1>1, <2>3, <2>4, StageGood
<1>4. CASE ~CanStage
  <2>1. row' = row /\ queue' = queue
    BY <1>1, <1>4 DEF Stage
  <2>2. \E pc \in {"signalRun", "done", "publish"} : cancel' = To(k, pc)
    BY <1>4 DEF CancelStages, CancelRechecks
  <2>3. cancel' \in [Cancellers -> Canceller] /\ TargetsExist'
    BY <1>2, <2>2, ToType DEF RequestPcs
  <2>4. CancelTypeOK'
    BY <1>1, <2>1, <2>3 DEF CancelInv, CancelTypeOK, TypeOK
  <2> QED
    BY <1>1, <2>1, <2>3, <2>4, SamePoll, QuietGood
<1> QED
  BY <1>3, <1>4

LEMMA V2BlocksGood ==
  ASSUME CancelInv, NEW k \in Cancellers, V2Blocks(k)
  PROVE  Good
<1>1. /\ TypeOK /\ UNCHANGED <<log, worker, run, poll, crashes, reopened>> /\ cancel' = To(k, "logV2")
  BY DEF CancelInv, CancelTypeOK, V2Blocks, Rest
<1>2. DOMAIN queue' = DOMAIN queue
  BY <1>1, StagedDomain DEF V2Blocks
<1>3. cancel' \in [Cancellers -> Canceller] /\ TargetsExist'
  BY <1>1, <1>2, ToType DEF RequestPcs
<1>4. CASE Stoppable
  BY <1>1, <1>3, <1>4, StageGood DEF V2Blocks
<1>5. CASE ~Stoppable
  <2>1. row' = row /\ queue' = queue
    BY <1>5 DEF V2Blocks
  <2>2. CancelTypeOK'
    BY <1>1, <1>3, <2>1 DEF CancelInv, CancelTypeOK, TypeOK
  <2> QED
    BY <1>1, <1>3, <2>1, <2>2, SamePoll, QuietGood
<1> QED
  BY <1>4, <1>5

(* The cancellation is carried out: every entry left fails for good. *)
LEMMA CompletesGood ==
  ASSUME CancelInv, NEW e \in Executions, CompleteCancellation(e), CancelCompletes(e),
         \A j \in Entries : worker'[j] = worker[j] \/ (j \in DOMAIN queue /\ Onward(j)),
         worker' \in [Entries -> Worker], UNCHANGED <<run, poll, crashes, reopened>>,
         cancel' \in [Cancellers -> Canceller], TargetsExist'
  PROVE  Good
<1>1. /\ TypeOK /\ Root \in Executions /\ e = Root /\ row[Root] \in Row
      /\ poll' \in Poll /\ reopened' \subseteq Contexts
  BY EntryTypes DEF CancelInv, CancelTypeOK, TypeOK, CancelCompletes, LogIs
<1>2. /\ log' = "cancelled" /\ row' = [row EXCEPT ![Root] = CancelRow(row[Root])]
      /\ queue' = MarkedQueue(Claimed(Root) \cup Pending(Root), "failed", FALSE)
  BY <1>1 DEF CompleteCancellation, MarkedQueue
<1>3. CancelRow(row[Root]) \in Row /\ CancelRow(row[Root]).points = row[Root].points
  BY <1>1, CancelRowIs
<1>4. /\ row' \in [Executions -> Row] /\ row'[Root] = CancelRow(row[Root])
      /\ \A f \in Executions \ {Root} : row'[f] = row[f]
  BY <1>1, <1>2, <1>3, RowUpdate
<1>5. RowMoves(Root) /\ PointsMove(Root)
  BY <1>2, <1>3, <1>4 DEF RowMoves, PointsMove
<1>6. \A f \in Executions : RowMoves(f) /\ PointsMove(f)
  BY <1>1, <1>4, <1>5, OneRow
<1>7. log' \in LogStatuses
  BY <1>2 DEF LogStatuses
<1> QED
  BY <1>1, <1>2, <1>4, <1>6, <1>7, MarkGood

LEMMA CompletedDomain ==
  ASSUME NEW e, CompleteCancellation(e)
  PROVE  DOMAIN queue' = DOMAIN queue
BY DEF CompleteCancellation, stores

LEMMA CancelCompletesRowGood ==
  ASSUME CancelInv, NEW k \in Cancellers, CancelCompletesRow(k)
  PROVE  Good
<1>1. /\ TypeOK /\ CompleteCancellation(Root) /\ cancel' = To(k, "done") /\ Root \in Executions
      /\ UNCHANGED <<worker, run, poll, crashes, reopened>> /\ worker' \in [Entries -> Worker]
  BY EntryTypes DEF CancelInv, CancelTypeOK, CancelCompletesRow, Rest, TypeOK
<1>2. cancel' \in [Cancellers -> Canceller] /\ TargetsExist'
  BY <1>1, CompletedDomain, ToType DEF RequestPcs
<1>3. CASE CancelCompletes(Root)
  BY <1>1, <1>2, <1>3, CompletesGood
<1>4. CASE ~CancelCompletes(Root)
  <2>1. UNCHANGED <<log, row, queue>>
    BY <1>1, <1>4 DEF CompleteCancellation, stores
  <2>2. CancelTypeOK'
    BY <1>1, <1>2, <2>1 DEF CancelInv, CancelTypeOK, TypeOK
  <2> QED
    BY <1>1, <1>2, <2>1, <2>2, SamePoll, QuietGood
<1> QED
  BY <1>3, <1>4

LEMMA StoppedResumeReadsGood ==
  ASSUME CancelInv, NEW i \in Entries, StoppedResumeReads(i), UNCHANGED cancelVars
  PROVE  Good
<1>1. /\ TypeOK /\ i \in DOMAIN queue /\ worker[i].pc = "stopped" /\ worker[i] \in Worker
      /\ UNCHANGED <<stores, run, poll, crashes>> /\ crashes' \in 0 .. MaxCrashes /\ log \in LogStatuses
  BY QueueTypes DEF CancelInv, CancelTypeOK, TypeOK, StoppedResumeReads, At, Rest
<1>2. {"completes", "drain"} \subseteq Pcs /\ worker[i].out \in Outcomes
  BY <1>1, Names DEF Worker
<1>3. PICK pc \in {"completes", "drain"} : worker' = GotoWith(i, pc, worker[i].out)
  BY <1>1, <1>2, GotoIsGotoWith DEF StoppedResumeReads
<1> QED
  BY <1>1, <1>2, <1>3, WorkerStep DEF stores, Working, Busy

LEMMA StoppedResumeGood ==
  ASSUME CancelInv, NEW i \in Entries, StoppedResumeCancels(i)
  PROVE  Good
<1>1. /\ TypeOK /\ i \in DOMAIN queue /\ worker[i].pc = "completes" /\ Exec(i) \in Executions
      /\ worker' = Goto(i, "drain") /\ UNCHANGED <<run, poll, crashes, cancelVars>>
      /\ log \in LogStatuses /\ worker[i] \in Worker /\ crashes' \in 0 .. MaxCrashes
  BY QueueTypes DEF CancelInv, CancelTypeOK, TypeOK, StoppedResumeCancels, At, Rest
<1>2. CASE UNCHANGED stores
  <2>1. "drain" \in Pcs /\ worker[i].out \in Outcomes
    BY <1>1, Names DEF Worker
  <2>2. worker' = GotoWith(i, "drain", worker[i].out)
    BY <1>1, <2>1, GotoIsGotoWith
  <2> QED
    BY <1>1, <1>2, <2>1, <2>2, WorkerStep DEF stores, Working, Busy
<1>3. CASE CompleteCancellation(Exec(i)) /\ CancelCompletes(Exec(i))
  <2>1. /\ worker' \in [Entries -> Worker] /\ \A j \in Entries \ {i} : worker'[j] = worker[j]
        /\ worker'[i].pc = "drain" /\ worker'[i].out = worker[i].out
    BY <1>1, GotoType, Names
  <2>2. Onward(i)
    BY <1>1, <2>1 DEF Onward, Working, Busy
  <2>3. \A j \in Entries : worker'[j] = worker[j] \/ (j \in DOMAIN queue /\ Onward(j))
    BY <1>1, <2>1, <2>2
  <2>4. cancel' \in [Cancellers -> Canceller] /\ TargetsExist' /\ reopened' = reopened
    <3>1. DOMAIN queue' = DOMAIN queue
      BY <1>3, CompletedDomain
    <3> QED
      BY <1>1, <3>1 DEF CancelInv, CancelTypeOK, TargetsExist, cancelVars
  <2> QED
    BY <1>1, <1>3, <2>1, <2>3, <2>4, CompletesGood
<1> QED
  BY <1>2, <1>3 DEF StoppedResumeCancels, CompleteCancellation

-----------------------------------------------------------------------------
(* A cancellation that is withdrawn: its staging is undone.                    *)

LEMMA WithdrawnType ==
  ASSUME NEW r \in Row
  PROVE  /\ Withdrawn(r) \in Row /\ Withdrawn(r).points = r.points
         /\ Withdrawn(r).status \notin {"none", "cancelling", "cancelled"}
<1>1. Progress(r) \in {"fully_resumed", "partially_resumed", "paused"}
  BY DEF Progress
<1>2. Progress(r) \in RowStatuses
  BY <1>1 DEF RowStatuses
<1> DEFINE s == Progress(r)
<1>3. s \in RowStatuses /\ s \notin {"none", "cancelling", "cancelled"}
  BY <1>1, <1>2
<1> HIDE DEF s
<1>4. /\ [r EXCEPT !.status = s] \in Row /\ [r EXCEPT !.status = s].points = r.points
      /\ [r EXCEPT !.status = s].status = s
  BY <1>3 DEF Row
<1>5. Withdrawn(r) = [r EXCEPT !.status = s]
  BY DEF Withdrawn, s
<1> QED
  BY <1>3, <1>4, <1>5

(* What the staging took away comes back; only points reopened change. *)
LEMMA WithdrawGood ==
  ASSUME CancelInv, NEW r \in Row, row' = WithRoot(r), row[Root].status = "cancelling",
         r.status \notin {"none", "cancelling", "cancelled"},
         queue' = queue \/ queue' = RestoredQueue,
         UNCHANGED <<log, worker, run, poll, crashes>>,
         cancel' \in [Cancellers -> Canceller], TargetsExist',
         reopened \subseteq reopened', reopened' \subseteq Contexts,
         \A c \in Contexts \ reopened' : r.points[c] = row[Root].points[c]
  PROVE  Good
<1>1. /\ TypeOK /\ log' \in LogStatuses /\ worker' \in [Entries -> Worker] /\ poll' \in Poll
  BY DEF CancelInv, CancelTypeOK, TypeOK
<1>2. row' \in [Executions -> Row] /\ \A e \in Executions : RowMoves(e) /\ PointsMove(e)
  BY RootMoves
<1>3. \A j \in Entries : worker'[j] = worker[j] \/ (j \in DOMAIN queue /\ Onward(j))
  OBVIOUS
<1>4. CASE queue' = queue
  <2>1. CancelTypeOK'
    BY <1>1, <1>2, <1>4 DEF CancelTypeOK, TypeOK
  <2> QED
    BY <1>2, <1>3, <1>4, <2>1, SamePoll, SameQueue
<1>5. CASE queue' = RestoredQueue
  <2> DEFINE S == {j \in DOMAIN queue : queue[j].exec = Root /\ queue[j].status = "failed"
                                        /\ queue[j].staged}
  <2>1. queue' = MarkedQueue(S, "pending", FALSE)
    BY <1>5, RestoredIsMarked
  <2>2. \A j \in DOMAIN queue : j \in S => Waits(j)
    BY DEF Waits
  <2> QED
    BY <1>1, <1>2, <1>3, <2>1, <2>2, MarkGood
<1> QED
  BY <1>4, <1>5

LEMMA CancelClearsGood ==
  ASSUME CancelInv, NEW k \in Cancellers, CancelClears(k)
  PROVE  Good
<1>1. /\ TypeOK /\ UNCHANGED <<log, worker, run, poll, crashes, reopened>> /\ row[Root] \in Row
      /\ reopened \subseteq Contexts
  BY EntryTypes DEF CancelInv, CancelTypeOK, TypeOK, CancelClears, Rest
<1>2. queue' = queue \/ queue' = RestoredQueue
  BY DEF CancelClears
<1>3. \E pc \in {"drain", "done"} : cancel' = To(k, pc)
  BY DEF CancelClears
<1>4. cancel' \in [Cancellers -> Canceller] /\ TargetsExist'
  BY <1>1, <1>2, <1>3, StagedDomain, ToType DEF RequestPcs
<1>5. CASE row[Root].status = "cancelling"
  <2>1. row' = WithRoot(Withdrawn(row[Root]))
    BY <1>5 DEF CancelClears
  <2>2. /\ Withdrawn(row[Root]) \in Row /\ Withdrawn(row[Root]).points = row[Root].points
        /\ Withdrawn(row[Root]).status \notin {"none", "cancelling", "cancelled"}
    BY <1>1, WithdrawnType
  <2> QED
    BY <1>1, <1>2, <1>4, <1>5, <2>1, <2>2, WithdrawGood
<1>6. CASE row[Root].status # "cancelling"
  <2>1. row' = row /\ queue' = queue
    BY <1>6 DEF CancelClears
  <2>2. CancelTypeOK'
    BY <1>1, <1>4, <2>1 DEF CancelInv, CancelTypeOK, TypeOK
  <2> QED
    BY <1>1, <1>4, <2>1, <2>2, SamePoll, QuietGood
<1> QED
  BY <1>5, <1>6

LEMMA CancelRollsBackGood ==
  ASSUME CancelInv, NEW k \in Cancellers, CancelRollsBack(k)
  PROVE  Good
<1> DEFINE t == cancel[k].target
           c == queue[t].ctx
           p == [SetPoint(row[Root], c, "paused") EXCEPT !.retries = 0, !.next = FALSE]
<1>1. /\ TypeOK /\ UNCHANGED <<log, worker, run, poll, crashes>> /\ row[Root] \in Row
      /\ reopened \subseteq Contexts /\ cancel[k].pc = "rollback"
  BY EntryTypes DEF CancelInv, CancelTypeOK, TypeOK, CancelRollsBack, Rest, Here
<1>2. t \in DOMAIN queue /\ c \in Contexts
  BY <1>1, QueueTypes DEF CancelInv, TargetsExist, Ctx
<1>3. queue' = queue \/ queue' = RestoredQueue
  BY DEF CancelRollsBack
<1>4. \E pc \in {"drain", "done"} : cancel' = To(k, pc)
  BY DEF CancelRollsBack
<1>5. cancel' \in [Cancellers -> Canceller] /\ TargetsExist'
  BY <1>1, <1>3, <1>4, StagedDomain, ToType DEF RequestPcs
<1>6. CASE CanRollBack(t)
  <2>1. row[Root].status = "cancelling" /\ row' = WithRoot(RolledBack(t))
    BY <1>6 DEF CanRollBack, CancelRollsBack
  <2>2. CASE queue[t].status = "failed"
    <3>1. reopened' = reopened \cup {c}
      BY <1>6, <2>2 DEF CancelRollsBack
    <3>2. /\ SetPoint(row[Root], c, "paused") \in Row
          /\ \A d \in Contexts \ {c} : SetPoint(row[Root], c, "paused").points[d] = row[Root].points[d]
      <4>1. "paused" \in PointStatuses
        BY DEF PointStatuses
      <4> QED
        BY <1>1, <1>2, <4>1, PointType
    <3>3. p \in Row /\ p.points = SetPoint(row[Root], c, "paused").points
      <4> DEFINE q == SetPoint(row[Root], c, "paused")
      <4>1. q \in Row /\ 0 \in 0 .. MaxRetries
        BY <3>2, BoundTypes
      <4>2. p = [q EXCEPT !.retries = 0, !.next = FALSE]
        OBVIOUS
      <4> HIDE DEF q, p
      <4>3. /\ [q EXCEPT !.retries = 0, !.next = FALSE] \in Row
            /\ [q EXCEPT !.retries = 0, !.next = FALSE].points = q.points
        BY <4>1 DEF Row
      <4> QED
        BY <4>2, <4>3 DEF q
    <3>4. RolledBack(t) = Withdrawn(p)
      BY <2>2 DEF RolledBack
    <3> HIDE DEF p
    <3>5. /\ RolledBack(t) \in Row
          /\ \A d \in Contexts \ {c} : RolledBack(t).points[d] = row[Root].points[d]
          /\ RolledBack(t).status \notin {"none", "cancelling", "cancelled"}
      BY <3>2, <3>3, <3>4, WithdrawnType
    <3>6. \A d \in Contexts \ reopened' : RolledBack(t).points[d] = row[Root].points[d]
      BY <3>1, <3>5
    <3>7. reopened \subseteq reopened' /\ reopened' \subseteq Contexts
      BY <1>1, <1>2, <3>1
    <3> HIDE DEF t, c
    <3> QED
      BY <1>1, <1>3, <1>5, <2>1, <3>5, <3>6, <3>7, WithdrawGood
  <2>3. CASE queue[t].status # "failed"
    <3>1. reopened' = reopened
      BY <1>6, <2>3 DEF CancelRollsBack
    <3>2. RolledBack(t) = Withdrawn(row[Root])
      BY <2>3 DEF RolledBack
    <3>3. /\ RolledBack(t) \in Row /\ RolledBack(t).points = row[Root].points
          /\ RolledBack(t).status \notin {"none", "cancelling", "cancelled"}
      BY <1>1, <3>2, WithdrawnType
    <3> HIDE DEF t, c
    <3> QED
      BY <1>1, <1>3, <1>5, <2>1, <3>1, <3>3, WithdrawGood
  <2> QED
    BY <2>2, <2>3
<1>7. CASE ~CanRollBack(t)
  <2>1. row' = row /\ queue' = queue /\ reopened' = reopened
    BY <1>7 DEF CancelRollsBack
  <2>2. CancelTypeOK'
    BY <1>1, <1>5, <2>1 DEF CancelInv, CancelTypeOK, TypeOK
  <2> QED
    BY <1>1, <1>5, <2>1, <2>2, SamePoll, QuietGood
<1> QED
  BY <1>6, <1>7

(* The poller gives up on a point: the resumes queued for it fail. *)
LEMMA PollWaitsGood ==
  ASSUME CancelInv, PollWaits, UNCHANGED cancelVars
  PROVE  Good
<1> DEFINE e == poll.exec
           c == CHOOSE d \in poll.due : TRUE
<1>1. /\ TypeOK /\ poll \in Poll /\ poll.pc = "prepare" /\ e \in Executions /\ WorkersFit /\ DueFit
      /\ UNCHANGED <<log, worker, run, crashes>> /\ poll' = NoPoll /\ row[e] \in Row
      /\ log' \in LogStatuses /\ worker' \in [Entries -> Worker] /\ reopened' \subseteq Contexts
      /\ reopened' = reopened /\ OnlyRootCancels
  BY DEF CancelInv, CancelTypeOK, TypeOK, Poll, PollWaits, cancelVars
<1>2. /\ c \in Contexts /\ (c \notin reopened => row[e].points[c] = "paused")
  BY <1>1, PauseAssumption DEF DueFit
<1>3. PICK waiting \in BOOLEAN :
        /\ waiting => row[e].retries < MaxRetries
        /\ \/ row[e].status \notin Resumable /\ row' = row /\ queue' = queue
           \/ /\ row[e].status \in Resumable
              /\ queue' = [i \in DOMAIN queue |->
                            IF ~waiting /\ i \in Pending(e) /\ Ctx(i) = c
                            THEN [queue[i] EXCEPT !.status = "failed"] ELSE queue[i]]
              /\ row' = [row EXCEPT ![e] = Waited(e, c, waiting)]
  BY DEF PollWaits
<1> HIDE DEF c, e
<1>4. CASE row' = row /\ queue' = queue
  <2>1. TypeOK'
    BY <1>1, <1>4, NoPollType DEF TypeOK
  <2>2. CancelTypeOK' /\ TargetsExist'
    BY <1>4, <2>1, TargetsKept
  <2> QED
    BY <1>1, <1>4, <2>2, NoPollType, QuietGood DEF PollMoves
<1>5. CASE /\ row[e].status \in Resumable
           /\ queue' = [i \in DOMAIN queue |->
                         IF ~waiting /\ i \in Pending(e) /\ Ctx(i) = c
                         THEN [queue[i] EXCEPT !.status = "failed"] ELSE queue[i]]
           /\ row' = [row EXCEPT ![e] = Waited(e, c, waiting)]
  <2> DEFINE S == {i \in Pending(e) : ~waiting /\ Ctx(i) = c}
             n == IF waiting THEN row[e].retries + 1 ELSE row[e].retries
             q == IF waiting \/ \E i \in Claimed(e) : Ctx(i) = c THEN row[e]
                  ELSE SetPoint(row[e], c, "paused")
             r == [q EXCEPT !.next = waiting, !.retries = n]
  <2>1. queue' = MarkedQueue(S, "failed", FALSE)
    <3>1. ASSUME NEW i \in DOMAIN queue, i \in S
          PROVE  [queue[i] EXCEPT !.status = "failed"]
                   = [queue[i] EXCEPT !.status = "failed", !.staged = FALSE]
      <4>1. queue[i] \in Entry
        BY <1>1, QueueTypes
      <4>2. ~queue[i].staged
        BY <1>1, <3>1 DEF WorkersFit, Pending, WithStatus
      <4>3. queue[i].staged = FALSE
        BY <4>1, <4>2 DEF Entry
      <4> QED
        BY <4>1, <4>3 DEF Entry
    <3>2. \A i \in DOMAIN queue : (~waiting /\ i \in Pending(e) /\ Ctx(i) = c) <=> i \in S
      OBVIOUS
    <3> HIDE DEF S
    <3>3. queue' = [i \in DOMAIN queue |->
                      IF i \in S THEN [queue[i] EXCEPT !.status = "failed"] ELSE queue[i]]
      BY <1>5, <3>2
    <3> QED
      BY <3>1, <3>3 DEF MarkedQueue
  <2>2. /\ q \in Row /\ q.status = row[e].status /\ q.retries = row[e].retries
        /\ \A d \in Contexts \ {c} : q.points[d] = row[e].points[d]
        /\ row[e].points[c] = "paused" => q.points[c] = "paused"
    <3>1. "paused" \in PointStatuses
      BY DEF PointStatuses
    <3> QED
      BY <1>1, <1>2, <3>1, PointType
  <2>3. n \in 0 .. MaxRetries
    BY <1>1, <1>3, BoundTypes DEF Row
  <2>4. Waited(e, c, waiting) = r
    <3>1. Waited(e, c, waiting) = [q EXCEPT !.next = waiting, !.retries = IF waiting THEN @ + 1 ELSE @]
      BY DEF Waited
    <3> HIDE DEF q
    <3> QED
      BY <2>2, <3>1 DEF Row
  <2> HIDE DEF q, n
  <2>5. r \in Row /\ r.points = q.points /\ r.status = q.status
    BY <2>2, <2>3 DEF Row
  <2>6. row' = [row EXCEPT ![e] = r]
    BY <1>5, <2>4
  <2> HIDE DEF r, S
  <2>7. /\ row' \in [Executions -> Row] /\ row'[e] = r
        /\ \A f \in Executions \ {e} : row'[f] = row[f]
    BY <1>1, <2>5, <2>6, RowUpdate
  <2>8. RowMoves(e)
    BY <1>5, <2>2, <2>5, <2>7 DEF RowMoves, Resumable
  <2>9. \A d \in Contexts \ reopened' : row'[e].points[d] = row[e].points[d]
    BY <1>1, <1>2, <2>2, <2>5, <2>7
  <2>10. PointsMove(e)
    BY <2>9 DEF PointsMove
  <2>11. \A f \in Executions : RowMoves(f) /\ PointsMove(f)
    BY <1>1, <2>7, <2>8, <2>10, OneRow
  <2>12. cancel' \in [Cancellers -> Canceller] /\ TargetsExist'
    <3>1. DOMAIN queue' = DOMAIN queue
      BY <2>1 DEF MarkedQueue
    <3> QED
      BY <3>1 DEF CancelInv, CancelTypeOK, TargetsExist, cancelVars
  <2>13. \A j \in Entries : worker'[j] = worker[j] \/ (j \in DOMAIN queue /\ Onward(j))
    BY <1>1
  <2> QED
    BY <1>1, <2>1, <2>7, <2>11, <2>12, <2>13, NoPollType, MarkGood
<1> QED
  BY <1>3, <1>4, <1>5

-----------------------------------------------------------------------------
(* An entry is settled.                                                      *)

LEMMA SettleGood ==
  ASSUME CancelInv, NEW i \in DOMAIN queue, worker[i].pc = "settle",
         NEW s \in {"pending", "completed", "failed"}, NEW pc \in {"drain", "stopped", "done"},
         queue' = queue \/ queue' = SetEntry(i, s),
         s = "pending" => pc = "done" /\ worker[i].out \notin Gone,
         worker' = Goto(i, pc), row' \in [Executions -> Row], log' \in LogStatuses,
         \A e \in Executions : RowMoves(e) /\ PointsMove(e),
         log = "cancelled" => log' = "cancelled", UNCHANGED Rest, UNCHANGED cancelVars
  PROVE  Good
<1>1. /\ TypeOK /\ WorkersFit /\ i \in Entries /\ \A j \in DOMAIN queue : j \in Entries
      /\ UNCHANGED <<run, poll, crashes>> /\ queue \in Seq(Entry) /\ Len(queue) <= MaxEntries
  BY QueueTypes DEF CancelInv, CancelTypeOK, TypeOK, Rest
<1>2. /\ queue' \in Seq(Entry) /\ Len(queue') = Len(queue) /\ DOMAIN queue' = DOMAIN queue
      /\ queue'[i].exec = Exec(i) /\ queue'[i].ctx = Ctx(i)
      /\ queue'[i].status \in {s, queue[i].status}
      /\ \A j \in DOMAIN queue \ {i} : queue'[j] = queue[j]
  <2>1. CASE queue' = queue
    BY <1>1, <2>1 DEF Exec, Ctx
  <2>2. CASE queue' = SetEntry(i, s)
    BY <1>1, <2>2, EntryStatus
  <2> QED
    BY <2>1, <2>2
<1>3. queue'[i].staged = queue[i].staged
  <2>1. CASE queue' = queue
    BY <2>1
  <2>2. CASE queue' = SetEntry(i, s)
    <3>1. queue[i] \in Entry
      BY <1>1, QueueTypes
    <3> DEFINE one == [queue[i] EXCEPT !.status = s]
    <3>2. one.staged = queue[i].staged
      BY <3>1 DEF Entry
    <3>3. queue' = [queue EXCEPT ![i] = one]
      BY <2>2 DEF SetEntry
    <3> HIDE DEF one
    <3> QED
      BY <3>2, <3>3
  <2> QED
    BY <2>1, <2>2
<1>4. pc \in Pcs
  BY DEF Pcs
<1>5. /\ worker' \in [Entries -> Worker] /\ \A j \in Entries \ {i} : worker'[j] = worker[j]
      /\ worker'[i].pc = pc /\ worker'[i].out = worker[i].out
  BY <1>1, <1>4, GotoType
<1>6. TypeOK'
  BY <1>1, <1>2, <1>5 DEF TypeOK
<1>7. CancelTypeOK' /\ TargetsExist'
  BY <1>2, <1>6, TargetsKept
<1>8. Holds(i) /\ ~Waits(i) /\ ~queue[i].staged /\ queue[i].status # "pending"
  BY <1>1 DEF WorkersFit, Holds, Waits, Working, Busy
<1>9. EntryMoves(i)
  <2>1. Onward(i)
    BY <1>5 DEF Onward, Working, Busy
  <2>2. ~queue'[i].staged
    BY <1>3, <1>8
  <2>3. Waits(i)' => pc = "done" /\ worker[i].out \notin Gone
    BY <1>2, <1>8, <2>2 DEF Waits
  <2> QED
    BY <1>2, <1>5, <1>8, <2>1, <2>2, <2>3 DEF EntryMoves, Exec, Ctx, Working, Busy
<1>10. ASSUME NEW j \in DOMAIN queue \ {i}
       PROVE  EntryMoves(j)
  <2>1. queue'[j] = queue[j] /\ worker'[j] = worker[j]
    BY <1>1, <1>2, <1>5
  <2>2. Onward(j) /\ (queue[j].staged => queue[j].status = "failed")
    BY <1>1, <2>1, StandsStill DEF WorkersFit
  <2> QED
    BY <2>1, <2>2 DEF EntryMoves, Holds, Waits
<1>11. EntriesMove
  BY <1>1, <1>2, <1>5, <1>9, <1>10 DEF EntriesMove
<1>12. ClaimsResumable
  BY <1>2 DEF ClaimsResumable, Exec
<1> QED
  BY <1>1, <1>7, <1>11, <1>12, SamePoll, StepGood DEF cancelVars

(* The row of e is cancelled, as its log is. *)
LEMMA CutMoves ==
  ASSUME CancelInv, NEW e \in Executions, row' = [row EXCEPT ![e] = CancelRow(@)],
         LogIs(e, "cancelled") \/ row[e].status = "cancelled", log' = log
  PROVE  row' \in [Executions -> Row] /\ \A f \in Executions : RowMoves(f) /\ PointsMove(f)
<1>1. TypeOK /\ row[e] \in Row /\ OnlyRootCancels
  BY DEF CancelInv, CancelTypeOK, TypeOK
<1>2. e = Root /\ log = "cancelled"
  BY <1>1 DEF OnlyRootCancels, LogIs
<1>3. CancelRow(row[e]) \in Row /\ CancelRow(row[e]).points = row[e].points
  BY <1>1, CancelRowIs
<1>4. row' = [row EXCEPT ![e] = CancelRow(row[e])]
  OBVIOUS
<1>5. /\ row' \in [Executions -> Row] /\ row'[e] = CancelRow(row[e])
      /\ \A f \in Executions \ {e} : row'[f] = row[f]
  BY <1>1, <1>3, <1>4, RowUpdate
<1>6. RowMoves(e) /\ PointsMove(e)
  BY <1>2, <1>3, <1>5 DEF RowMoves, PointsMove
<1> QED
  BY <1>5, <1>6, OneRow

LEMMA MarkFailedGood ==
  ASSUME CancelInv, NEW i \in Entries, MarkFailed(i), UNCHANGED cancelVars
  PROVE  Good
<1> DEFINE e == Exec(i)
           c == Ctx(i)
           cut == LogIs(e, "cancelled") \/ row[e].status = "cancelled"
<1>1. /\ TypeOK /\ i \in DOMAIN queue /\ worker[i].pc = "settle" /\ UNCHANGED Rest
      /\ e \in Executions /\ c \in Contexts /\ row[e] \in Row /\ log \in LogStatuses
      /\ queue' = SetEntry(i, "failed") /\ worker' = Goto(i, "drain")
  BY QueueTypes DEF CancelInv, CancelTypeOK, MarkFailed, At, TypeOK
<1>2. CASE cut
  <2>1. row' = [row EXCEPT ![e] = CancelRow(@)] /\ log' = log
    BY <1>2 DEF MarkFailed
  <2>2. row' \in [Executions -> Row] /\ \A f \in Executions : RowMoves(f) /\ PointsMove(f)
    BY <1>1, <1>2, <2>1, CutMoves
  <2> QED
    BY <1>1, <2>1, <2>2, SettleGood
<1>3. CASE ~cut
  <2> DEFINE r == SetPoint(row[e], c, "failed")
  <2>1. row' = [row EXCEPT ![e] = r]
    BY <1>3 DEF MarkFailed
  <2>2. log' \in LogStatuses /\ (log = "cancelled" => log' = "cancelled")
    BY <1>1, <1>3 DEF MarkFailed, LogStatuses, LogIs
  <2>3. /\ r \in Row /\ r.points[c] = "failed" /\ r.status = row[e].status
        /\ \A d \in Contexts \ {c} : r.points[d] = row[e].points[d]
    <3>1. "failed" \in PointStatuses
      BY DEF PointStatuses
    <3> QED
      BY <1>1, <3>1, PointType
  <2> HIDE DEF r
  <2>4. /\ row' \in [Executions -> Row] /\ row'[e] = r
        /\ \A f \in Executions \ {e} : row'[f] = row[f]
    BY <1>1, <2>1, <2>3, RowUpdate
  <2>5. row[e].status \notin {"none", "cancelled"} /\ (row[e].status = "cancelling" => e = Root)
    BY <1>1, <1>3 DEF CancelInv, RowsFit, OnlyRootCancels
  <2>6. c \notin reopened => row[e].points[c] # "paused"
    BY <1>1 DEF CancelInv, PointsHeld, Holds, Working
  <2>7. RowMoves(e)
    BY <2>3, <2>4, <2>5 DEF RowMoves
  <2>8. PointsMove(e)
    BY <2>3, <2>4, <2>6 DEF PointsMove, cancelVars
  <2>9. \A f \in Executions : RowMoves(f) /\ PointsMove(f)
    BY <1>1, <2>4, <2>7, <2>8, OneRow
  <2> QED
    BY <1>1, <2>2, <2>4, <2>9, SettleGood
<1> QED
  BY <1>2, <1>3

(* The resume did not start its blocks, so another of its point may be asked for. *)
LEMMA MarkAttemptFailedGood ==
  ASSUME CancelInv, NEW i \in Entries, MarkAttemptFailed(i), UNCHANGED cancelVars
  PROVE  Good
<1> DEFINE e == Exec(i)
           c == Ctx(i)
           cut == LogIs(e, "cancelled") \/ row[e].status = "cancelled"
           s == IF CanRetry(i) THEN "pending" ELSE "failed"
           pc == IF Preserved(i) THEN "done" ELSE IF worker[i].out = "stopped" THEN "stopped" ELSE "drain"
<1>1. /\ TypeOK /\ i \in DOMAIN queue /\ worker[i].pc = "settle" /\ UNCHANGED Rest
      /\ e \in Executions /\ c \in Contexts /\ row[e] \in Row /\ log \in LogStatuses
      /\ queue' = SetEntry(i, s) /\ worker' = Goto(i, pc)
      /\ worker[i].out \in {"stopped", "refused", "retry", "dropped"}
  BY QueueTypes DEF CancelInv, CancelTypeOK, MarkAttemptFailed, At, TypeOK
<1>2. /\ s \in {"pending", "completed", "failed"} /\ pc \in {"drain", "stopped", "done"}
      /\ s = "pending" => pc = "done" /\ worker[i].out \notin Gone
      /\ s = "pending" <=> CanRetry(i)
  BY <1>1 DEF CanRetry, Admission, Preserved, Gone
<1> HIDE DEF s, pc
<1>3. CASE cut
  <2>1. row' = [row EXCEPT ![e] = CancelRow(@)] /\ log' = log
    BY <1>3 DEF MarkAttemptFailed
  <2>2. row' \in [Executions -> Row] /\ \A f \in Executions : RowMoves(f) /\ PointsMove(f)
    BY <1>1, <1>3, <2>1, CutMoves
  <2> QED
    BY <1>1, <1>2, <2>1, <2>2, SettleGood
<1>4. CASE ~cut
  <2> DEFINE r == Attempted(i, row[e])
  <2>1. row' = [row EXCEPT ![e] = r]
    BY <1>4 DEF MarkAttemptFailed
  <2>2. log' \in LogStatuses /\ (log = "cancelled" => log' = "cancelled")
    BY <1>1, <1>4 DEF MarkAttemptFailed, LogStatuses, LogIs
  <2>3. /\ r \in Row /\ r.status = row[e].status
        /\ r.points[c] = IF CanRetry(i) THEN "queued" ELSE "paused"
        /\ \A d \in Contexts \ {c} : r.points[d] = row[e].points[d]
    BY <1>1, AttemptedType
  <2> HIDE DEF r
  <2>4. /\ row' \in [Executions -> Row] /\ row'[e] = r
        /\ \A f \in Executions \ {e} : row'[f] = row[f]
    BY <1>1, <2>1, <2>3, RowUpdate
  <2>5. row[e].status \notin {"none", "cancelled"} /\ (row[e].status = "cancelling" => e = Root)
    BY <1>1, <1>4 DEF CancelInv, RowsFit, OnlyRootCancels
  <2>6. /\ c \notin reopened => row[e].points[c] # "paused"
        /\ c \notin reopened => \A j \in DOMAIN queue : Exec(j) = e /\ Ctx(j) = c /\ Holds(j) => j = i
    BY <1>1 DEF CancelInv, PointsHeld, Holds, Working
  <2>7. RowMoves(e)
    BY <2>3, <2>4, <2>5 DEF RowMoves
  <2>8. ~CanRetry(i) /\ c \notin reopened =>
          \A j \in DOMAIN queue : Exec(j) = e /\ Ctx(j) = c => ~Holds(j)'
    <3> SUFFICES ASSUME ~CanRetry(i), c \notin reopened,
                        NEW j \in DOMAIN queue, Exec(j) = e, Ctx(j) = c
                 PROVE  ~Holds(j)'
      OBVIOUS
    <3>1. /\ pc \in Pcs /\ s \in {"pending", "claimed", "completed", "failed"} /\ s = "failed"
          /\ i \in Entries /\ j \in Entries /\ queue[i] \in Entry
      BY <1>1, <1>2, QueueTypes DEF Pcs, s
    <3>2. CASE j # i
      <4>1. queue'[j] = queue[j] /\ worker'[j] = worker[j]
        BY <1>1, <3>1, <3>2, EntryStatus, GotoType
      <4>2. ~Holds(j)
        BY <2>6, <3>2
      <4> QED
        BY <4>1, <4>2 DEF Holds, Waits
    <3>3. CASE j = i
      <4>1. ~queue[i].staged
        BY <1>1 DEF CancelInv, WorkersFit, Waits, Busy, Working
      <4>2. queue'[i].status = "failed" /\ queue'[i].staged = queue[i].staged
        <5> DEFINE one == [queue[i] EXCEPT !.status = s]
        <5>1. one.staged = queue[i].staged /\ one.status = s
          BY <3>1 DEF Entry
        <5>2. queue' = [queue EXCEPT ![i] = one]
          BY <1>1 DEF SetEntry
        <5> HIDE DEF one
        <5> QED
          BY <1>1, <3>1, <5>1, <5>2
      <4>3. worker'[i].pc = pc /\ worker'[i].out = worker[i].out
        BY <1>1, <3>1, GotoType
      <4> QED
        BY <1>1, <1>2, <3>3, <4>1, <4>2, <4>3 DEF Holds, Waits, Working, Gone
    <3> QED
      BY <3>2, <3>3
  <2>9. PointsMove(e)
    BY <2>3, <2>4, <2>6, <2>8 DEF PointsMove, cancelVars
  <2>10. \A f \in Executions : RowMoves(f) /\ PointsMove(f)
    BY <1>1, <2>4, <2>7, <2>9, OneRow
  <2> QED
    BY <1>1, <1>2, <2>2, <2>4, <2>10, SettleGood
<1> QED
  BY <1>3, <1>4

LEMMA CompletedType ==
  ASSUME NEW r \in Row, NEW c \in Contexts
  PROVE  /\ Completed(r, c) \in Row
         /\ Completed(r, c).points[c] = "resumed"
         /\ \A d \in Contexts \ {c} : Completed(r, c).points[d] = r.points[d]
         /\ Completed(r, c).status \notin {"none", "cancelling", "cancelled"}
<1> DEFINE t == SetPoint(r, c, "resumed")
           u == [t EXCEPT !.resumed = @ + 1, !.retries = 0]
           n == t.resumed + 1
<1>1. t \in Row /\ t.points[c] = "resumed" /\ \A d \in Contexts \ {c} : t.points[d] = r.points[d]
  <2>1. "resumed" \in PointStatuses
    BY DEF PointStatuses
  <2> QED
    BY <2>1, PointType
<1>2. Completed(r, c) = [u EXCEPT !.status = Progress(u)]
  BY DEF Completed
<1> HIDE DEF t
<1>3. n \in Nat /\ 0 \in 0 .. MaxRetries
  BY <1>1, BoundTypes DEF Row
<1>4. u = [t EXCEPT !.resumed = n, !.retries = 0]
  BY <1>1 DEF Row
<1> HIDE DEF n, u
<1>5. u \in Row /\ u.points = t.points
  BY <1>1, <1>3, <1>4 DEF Row
<1> DEFINE s == Progress(u)
<1>6. s \in RowStatuses /\ s \notin {"none", "cancelling", "cancelled"}
  <2>1. s \in {"fully_resumed", "partially_resumed", "paused"}
    BY DEF Progress
  <2> HIDE DEF s
  <2> QED
    BY <2>1 DEF RowStatuses
<1>7. Completed(r, c) = [u EXCEPT !.status = s]
  BY <1>2
<1> HIDE DEF s
<1>8. /\ [u EXCEPT !.status = s] \in Row /\ [u EXCEPT !.status = s].points = u.points
      /\ [u EXCEPT !.status = s].status = s
  BY <1>5, <1>6 DEF Row
<1> QED
  BY <1>1, <1>5, <1>6, <1>7, <1>8

LEMMA MarkCompletedGood ==
  ASSUME CancelInv, NEW i \in Entries, MarkCompleted(i), UNCHANGED cancelVars
  PROVE  Good
<1> DEFINE e == Exec(i)
           c == Ctx(i)
           wins == queue[i].status = "claimed" /\ ~CancellationWon(e) /\ worker[i].out = "finished"
<1>1. /\ TypeOK /\ i \in DOMAIN queue /\ worker[i].pc = "settle" /\ UNCHANGED Rest
      /\ e \in Executions /\ c \in Contexts /\ row[e] \in Row /\ log \in LogStatuses
      /\ queue' = SettledQueue(i) /\ worker' = Goto(i, "drain") /\ row \in [Executions -> Row]
  BY QueueTypes DEF CancelInv, CancelTypeOK, MarkCompleted, At, TypeOK
<1>2. \E s \in {"completed", "failed"} : queue' = queue \/ queue' = SetEntry(i, s)
  BY <1>1 DEF SettledQueue
<1>3. CASE wins
  <2> DEFINE r == Completed(row[e], c)
  <2>1. row' = [row EXCEPT ![e] = r]
    BY <1>3 DEF MarkCompleted
  <2>2. log' \in LogStatuses /\ (log = "cancelled" => log' = "cancelled")
    BY <1>1, <1>3 DEF MarkCompleted, LogStatuses, LogIs, CancellationWon
  <2>3. /\ r \in Row /\ r.points[c] = "resumed"
        /\ \A d \in Contexts \ {c} : r.points[d] = row[e].points[d]
        /\ r.status \notin {"none", "cancelling", "cancelled"}
    BY <1>1, CompletedType
  <2> HIDE DEF r
  <2>4. /\ row' \in [Executions -> Row] /\ row'[e] = r
        /\ \A f \in Executions \ {e} : row'[f] = row[f]
    BY <1>1, <2>1, <2>3, RowUpdate
  <2>5. row[e].status \notin {"none", "cancelled"}
    BY <1>1, <1>3 DEF CancelInv, RowsFit, CancellationWon
  <2>6. c \notin reopened => row[e].points[c] # "paused"
    BY <1>1 DEF CancelInv, PointsHeld, Holds, Working
  <2>7. RowMoves(e)
    BY <2>3, <2>4, <2>5 DEF RowMoves
  <2>8. PointsMove(e)
    BY <2>3, <2>4, <2>6 DEF PointsMove, cancelVars
  <2>9. \A f \in Executions : RowMoves(f) /\ PointsMove(f)
    BY <1>1, <2>4, <2>7, <2>8, OneRow
  <2> QED
    BY <1>1, <1>2, <2>2, <2>4, <2>9, SettleGood
<1>4. CASE ~wins
  <2>1. log' = log
    BY <1>4 DEF MarkCompleted
  <2>2. row' = row \/ (row' = [row EXCEPT ![e] = CancelRow(@)] /\ LogIs(e, "cancelled"))
    <3>1. row' = IF CancellationWon(e) THEN CancelledRows(e) ELSE row
      BY <1>4 DEF MarkCompleted
    <3>2. CASE LogIs(e, "cancelled")
      BY <3>1, <3>2 DEF CancelledRows, CancellationWon
    <3>3. CASE ~LogIs(e, "cancelled")
      <4>1. [row EXCEPT ![e] = row[e]] = row
        BY <1>1
      <4> QED
        BY <3>1, <3>3, <4>1 DEF CancelledRows
    <3> QED
      BY <3>2, <3>3
  <2>3. row' \in [Executions -> Row] /\ \A f \in Executions : RowMoves(f) /\ PointsMove(f)
    BY <1>1, <2>1, <2>2, SameRows, CutMoves
  <2> QED
    BY <1>1, <1>2, <2>1, <2>3, SettleGood
<1> QED
  BY <1>3, <1>4

-----------------------------------------------------------------------------
(* The queue is drained: its head starts, or fails if its point is not queued. *)

LEMMA DrainGood ==
  ASSUME CancelInv, NEW e \in Executions, Drain(e), log' = log,
         run' \in [pc : {"running", "persist", "drain", "done"}, signalled : BOOLEAN],
         run'.pc \in {"running", "persist"} => run.pc \in {"running", "persist"},
         poll' \in Poll, crashes' = crashes, PollMoves,
         worker' \in [Entries -> Worker],
         \A j \in Entries : IF Startable(e) /\ j = First(Pending(e))
                            THEN worker'[j] = Start(j, e)[j]
                            ELSE worker'[j] = worker[j] \/ (j \in DOMAIN queue /\ Onward(j)),
         cancel' \in [Cancellers -> Canceller], reopened' = reopened,
         DOMAIN queue' = DOMAIN queue => TargetsExist'
  PROVE  Good
<1>1. /\ TypeOK /\ WorkersFit /\ PointsHeld /\ RowsFit /\ \A j \in DOMAIN queue : j \in Entries
      /\ row \in [Executions -> Row] /\ queue \in Seq(Entry) /\ Len(queue) <= MaxEntries
  BY QueueTypes DEF CancelInv, CancelTypeOK, TypeOK
<1>2. poll'.pc # "idle" => row[poll'.exec].status # "none"
  BY <1>1 DEF PollMoves, RowsFit
<1>3. CASE ~Drainable(e)
  <2>1. row' = row /\ queue' = queue
    BY <1>3 DEF Drain, DrainedQueue, DrainedRow, Startable
  <2>2. CancelTypeOK' /\ TargetsExist'
    BY <1>1, <2>1 DEF CancelInv, CancelTypeOK, TypeOK
  <2>3. \A j \in Entries : worker'[j] = worker[j] \/ (j \in DOMAIN queue /\ Onward(j))
    BY <1>3 DEF Startable
  <2> QED
    BY <1>2, <2>1, <2>2, <2>3, SameRows, SameQueue
<1>4. CASE Drainable(e)
  <2> DEFINE p == First(Pending(e))
             c == Ctx(p)
             s == IF Stale(e) THEN "failed" ELSE "claimed"
             r == SetPoint(row[e], c, "resuming")
  <2>1. row[e].status \in Resumable /\ Pending(e) # {}
    BY <1>4 DEF Drainable
  <2>2. /\ p \in DOMAIN queue /\ Exec(p) = e /\ queue[p].status = "pending" /\ p \in Entries
        /\ c \in Contexts /\ row[e] \in Row
    BY <1>1, <2>1, FirstPending, QueueTypes
  <2>3. queue' = SetEntry(p, s)
    BY <1>4 DEF Drain, DrainedQueue
  <2>4. row' = IF Stale(e) THEN row ELSE [row EXCEPT ![e] = r]
    BY <1>4 DEF Drain, DrainedRow, Startable, Ctx
  <2>5. ~Stale(e) => row[e].points[c] = "queued"
    BY <1>4 DEF Stale, Ctx
  <2>6. \A j \in Entries \ {p} : worker'[j] = worker[j] \/ (j \in DOMAIN queue /\ Onward(j))
    OBVIOUS
  <2>7. IF Stale(e) THEN worker'[p] = worker[p] \/ Onward(p)
        ELSE worker'[p].pc = "admit" /\ worker'[p].out = "none"
    BY <1>1, <1>4, <2>2, StartType DEF Startable
  <2> HIDE DEF p
  <2>8. /\ queue' \in Seq(Entry) /\ Len(queue') = Len(queue) /\ DOMAIN queue' = DOMAIN queue
        /\ queue'[p].status = s /\ queue'[p].exec = e /\ queue'[p].ctx = c
        /\ \A j \in DOMAIN queue \ {p} : queue'[j] = queue[j]
    BY <1>1, <2>2, <2>3, EntryStatus
  <2>9. /\ r \in Row /\ r.points[c] = "resuming" /\ r.status = row[e].status
        /\ \A d \in Contexts \ {c} : r.points[d] = row[e].points[d]
    <3>1. "resuming" \in PointStatuses
      BY DEF PointStatuses
    <3> QED
      BY <2>2, <3>1, PointType
  <2> HIDE DEF r
  <2>10. row' \in [Executions -> Row] /\ \A f \in Executions : RowMoves(f) /\ PointsMove(f)
    <3>1. CASE Stale(e)
      BY <1>1, <2>4, <3>1, SameRows
    <3>2. CASE ~Stale(e)
      <4>1. /\ row' \in [Executions -> Row] /\ row'[e] = r
            /\ \A f \in Executions \ {e} : row'[f] = row[f]
        BY <1>1, <2>4, <2>9, <3>2, RowUpdate
      <4>2. RowMoves(e)
        BY <2>1, <2>9, <4>1 DEF RowMoves, Resumable
      <4>3. PointsMove(e)
        BY <2>5, <2>9, <3>2, <4>1 DEF PointsMove
      <4> QED
        BY <4>1, <4>2, <4>3, OneRow
    <3> QED
      BY <3>1, <3>2
  <2>11. ~queue'[p].staged
    <3>1. queue[p] \in Entry /\ ~queue[p].staged
      BY <1>1, <2>2, QueueTypes DEF WorkersFit
    <3> DEFINE one == [queue[p] EXCEPT !.status = s]
    <3>2. one.staged = queue[p].staged
      BY <3>1 DEF Entry
    <3>3. queue' = [queue EXCEPT ![p] = one]
      BY <2>3 DEF SetEntry
    <3> HIDE DEF one
    <3> QED
      BY <2>2, <3>1, <3>2, <3>3
  <2>12. EntryMoves(p)
    <3>1. Onward(p) \/ Starts(p)
      <4>1. CASE Stale(e)
        BY <1>1, <2>2, <2>7, <4>1, StandsStill
      <4>2. CASE ~Stale(e)
        BY <2>2, <2>7, <2>8, <4>2 DEF Starts
      <4> QED
        BY <4>1, <4>2
    <3>2. Holds(p) /\ Waits(p)
      BY <2>2 DEF Holds, Waits
    <3> QED
      BY <2>2, <2>8, <2>11, <3>1, <3>2 DEF EntryMoves, Exec, Ctx
  <2>13. ASSUME NEW j \in DOMAIN queue \ {p}
         PROVE  EntryMoves(j)
    <3>1. queue'[j] = queue[j] /\ j \in Entries
      BY <1>1, <2>8
    <3>2. Onward(j) /\ (queue[j].staged => queue[j].status = "failed")
      BY <1>1, <2>6, <3>1, StandsStill DEF WorkersFit
    <3> QED
      BY <3>1, <3>2 DEF EntryMoves, Holds, Waits
  <2>14. EntriesMove
    BY <2>2, <2>6, <2>8, <2>12, <2>13 DEF EntriesMove
  <2>15. ClaimsResumable
    BY <2>1, <2>8 DEF ClaimsResumable, Exec
  <2>16. CancelTypeOK' /\ TargetsExist'
    <3>1. TypeOK'
      BY <1>1, <2>8, <2>10 DEF TypeOK
    <3> QED
      BY <2>8, <3>1 DEF CancelInv, CancelTypeOK
  <2> QED
    BY <1>2, <2>10, <2>14, <2>15, <2>16, StepGood
<1> QED
  BY <1>3, <1>4

LEMMA RunDrainsGood ==
  ASSUME CancelInv, RunDrains, UNCHANGED cancelVars
  PROVE  Good
<1>1. /\ run \in [pc : {"running", "persist", "drain", "done"}, signalled : BOOLEAN] /\ poll \in Poll
      /\ Root \in Executions /\ TypeOK /\ run.pc = "drain"
  BY EntryTypes DEF CancelInv, CancelTypeOK, TypeOK, RunDrains
<1>2. /\ Drain(Root) /\ worker' = DrainedWorker(Root) /\ log' = log /\ poll' = poll /\ crashes' = crashes
      /\ \E pc \in {"drain", "done"} : run' = [run EXCEPT !.pc = pc]
  BY <1>1 DEF RunDrains
<1>3. /\ run' \in [pc : {"running", "persist", "drain", "done"}, signalled : BOOLEAN]
      /\ run'.pc \notin {"running", "persist"}
  BY <1>1, <1>2
<1>4. \A j \in Entries : IF Startable(Root) /\ j = First(Pending(Root))
                         THEN worker'[j] = Start(j, Root)[j]
                         ELSE worker'[j] = worker[j] \/ (j \in DOMAIN queue /\ Onward(j))
  BY <1>1, <1>2, DrainedWorkerType
<1>5. worker' \in [Entries -> Worker]
  BY <1>1, <1>2, DrainedWorkerType
<1>6. /\ cancel' \in [Cancellers -> Canceller] /\ reopened' = reopened
      /\ DOMAIN queue' = DOMAIN queue => TargetsExist'
  BY DEF CancelInv, CancelTypeOK, cancelVars, TargetsExist
<1> QED
  BY <1>1, <1>2, <1>3, <1>4, <1>5, <1>6, DrainGood DEF PollMoves

LEMMA PollDrainsGood ==
  ASSUME CancelInv, PollDrains, UNCHANGED cancelVars
  PROVE  Good
<1> DEFINE e == poll.exec
<1>1. /\ run \in [pc : {"running", "persist", "drain", "done"}, signalled : BOOLEAN] /\ poll \in Poll
      /\ e \in Executions /\ TypeOK
  BY DEF CancelInv, CancelTypeOK, TypeOK, Poll
<1>2. /\ Drain(e) /\ worker' = DrainedWorker(e) /\ poll.pc = "drain"
      /\ log' = log /\ run' = run /\ crashes' = crashes
  BY <1>1 DEF PollDrains
<1>3. poll' = poll \/ poll' = NoPoll \/ poll' = [poll EXCEPT !.pc = "clearNext"]
  BY <1>2 DEF PollDrains
<1>4. poll' \in Poll /\ PollMoves
  BY <1>1, <1>2, <1>3, NoPollType DEF Poll, PollMoves
<1>5. \A j \in Entries : IF Startable(e) /\ j = First(Pending(e))
                         THEN worker'[j] = Start(j, e)[j]
                         ELSE worker'[j] = worker[j] \/ (j \in DOMAIN queue /\ Onward(j))
  BY <1>1, <1>2, DrainedWorkerType
<1>6. worker' \in [Entries -> Worker]
  BY <1>1, <1>2, DrainedWorkerType
<1>7. /\ cancel' \in [Cancellers -> Canceller] /\ reopened' = reopened
      /\ DOMAIN queue' = DOMAIN queue => TargetsExist'
  BY DEF CancelInv, CancelTypeOK, cancelVars, TargetsExist
<1> QED
  BY <1>1, <1>2, <1>4, <1>5, <1>6, <1>7, DrainGood

LEMMA CancelDrainsGood ==
  ASSUME CancelInv, NEW k \in Cancellers, CancelDrains(k)
  PROVE  Good
<1>1. /\ run' \in [pc : {"running", "persist", "drain", "done"}, signalled : BOOLEAN] /\ poll' \in Poll
      /\ Root \in Executions /\ TypeOK
      /\ Drain(Root) /\ worker' = DrainedWorker(Root)
      /\ UNCHANGED <<log, run, poll, crashes, reopened>>
  BY EntryTypes DEF CancelInv, CancelTypeOK, TypeOK, CancelDrains, Rest
<1>2. \A j \in Entries : IF Startable(Root) /\ j = First(Pending(Root))
                         THEN worker'[j] = Start(j, Root)[j]
                         ELSE worker'[j] = worker[j] \/ (j \in DOMAIN queue /\ Onward(j))
  BY <1>1, DrainedWorkerType
<1>3. worker' \in [Entries -> Worker]
  BY <1>1, DrainedWorkerType
<1>4. \E pc \in {"drain", "done"} : cancel' = To(k, pc)
  BY DEF CancelDrains
<1>5. DOMAIN queue \subseteq DOMAIN queue'
  BY DEF CancelDrains, Drain, DrainedQueue, SetEntry
<1>6. cancel' \in [Cancellers -> Canceller] /\ TargetsExist'
  BY <1>4, <1>5, ToType DEF RequestPcs
<1> QED
  BY <1>1, <1>2, <1>3, <1>6, DrainGood DEF PollMoves

(* A worker drains its own queue, or that of the execution its resume became. *)
LEMMA WorkerDrainsGood ==
  ASSUME CancelInv, NEW i \in Entries, WorkerDrains(i) \/ DrainChild(i), UNCHANGED cancelVars
  PROVE  Good
<1>1. /\ i \in DOMAIN queue /\ worker[i].pc \in {"drain", "drainChild"} /\ worker[i] \in Worker
      /\ log' = log /\ UNCHANGED <<run, poll, crashes>> /\ Exec(i) \in Executions /\ i \in Executions
      /\ TypeOK /\ WorkersFit /\ run \in [pc : {"running", "persist", "drain", "done"}, signalled : BOOLEAN]
      /\ poll \in Poll
  BY QueueTypes, EntryTypes DEF CancelInv, CancelTypeOK, TypeOK, WorkerDrains, DrainChild, At, Rest
<1>2. \E e \in Executions, pc \in Pcs :
        /\ Drain(e) /\ worker' = [DrainedWorker(e) EXCEPT ![i].pc = IF Stale(e) THEN @ ELSE pc]
        /\ (pc = "settle" /\ worker[i].pc = "drainChild") \/ pc = "done"
  <2>1. CASE WorkerDrains(i)
    BY <1>1, <2>1, Names DEF WorkerDrains
  <2>2. CASE DrainChild(i)
    BY <1>1, <2>2, Names DEF DrainChild, At
  <2> QED
    BY <2>1, <2>2
<1>3. PICK e \in Executions, pc \in Pcs :
        /\ Drain(e) /\ worker' = [DrainedWorker(e) EXCEPT ![i].pc = IF Stale(e) THEN @ ELSE pc]
        /\ (pc = "settle" /\ worker[i].pc = "drainChild") \/ pc = "done"
  BY <1>2
<1>4. queue[i].status # "pending"
  BY <1>1 DEF WorkersFit, Waits, Busy, Working
<1>5. /\ DrainedWorker(e) \in [Entries -> Worker]
      /\ \A j \in Entries : IF Startable(e) /\ j = First(Pending(e))
                            THEN DrainedWorker(e)[j] = Start(j, e)[j]
                            ELSE DrainedWorker(e)[j] = worker[j]
      /\ Startable(e) => First(Pending(e)) \in DOMAIN queue /\ First(Pending(e)) # i
  BY <1>1, <1>4, DrainedWorkerType
<1>6. DrainedWorker(e)[i] = worker[i]
  BY <1>5
<1> DEFINE pc2 == IF Stale(e) THEN worker[i].pc ELSE pc
           one == [worker[i] EXCEPT !.pc = pc2]
<1>7. one \in Worker /\ one.pc = pc2 /\ one.out = worker[i].out
  <2>1. pc2 \in Pcs
    BY <1>1 DEF Worker, Pcs
  <2> HIDE DEF pc2
  <2> QED
    BY <1>1, <2>1 DEF Worker, Pcs
<1>8. worker' = [DrainedWorker(e) EXCEPT ![i] = one]
  BY <1>3, <1>5, <1>6
<1> HIDE DEF one
<1>9. /\ worker' \in [Entries -> Worker] /\ worker'[i] = one
      /\ \A j \in Entries \ {i} : worker'[j] = DrainedWorker(e)[j]
  BY <1>5, <1>7, <1>8
<1>10. Onward(i)
  BY <1>1, <1>3, <1>7, <1>9 DEF Onward, Working, Busy, WorkersFit
<1>11. \A j \in Entries : IF Startable(e) /\ j = First(Pending(e))
                          THEN worker'[j] = Start(j, e)[j]
                          ELSE worker'[j] = worker[j] \/ (j \in DOMAIN queue /\ Onward(j))
  BY <1>1, <1>5, <1>9, <1>10
<1>12. /\ cancel' \in [Cancellers -> Canceller] /\ reopened' = reopened
       /\ DOMAIN queue' = DOMAIN queue => TargetsExist'
  BY DEF CancelInv, CancelTypeOK, cancelVars, TargetsExist
<1> QED
  BY <1>1, <1>3, <1>9, <1>11, <1>12, DrainGood DEF PollMoves

-----------------------------------------------------------------------------
(* A resume is asked for: the point waited, so no entry holds it.             *)

LEMMA EnqueueGood ==
  ASSUME CancelInv, NEW e \in Executions, NEW c \in Contexts, Enqueue(e, c),
         log' = log, run' = run, crashes' = crashes, UNCHANGED cancelVars, poll' \in Poll,
         poll'.pc # "idle" => poll.pc # "idle" /\ poll'.exec = poll.exec,
         poll'.pc \in {"prepare", "enqueue"} =>
           /\ poll.pc \in {"prepare", "enqueue"}
           /\ poll'.due # {} /\ poll'.due \subseteq poll.due \ {c}
  PROVE  Good
<1>0. PICK p : p = Len(queue) + 1
  OBVIOUS
<1> DEFINE busy == Claimed(e) # {}
           new == [exec |-> e, ctx |-> c, staged |-> FALSE, status |-> IF busy THEN "pending" ELSE "claimed"]
           s == IF busy THEN "queued" ELSE "resuming"
<1>1. /\ TypeOK /\ WorkersFit /\ RowsFit /\ PointsHeld /\ DueFit /\ OnlyRootCancels
      /\ poll.exec \in Executions /\ Root \in Executions
      /\ \A i \in Entries : i \in Executions
      /\ \A j \in DOMAIN queue : j \in Entries /\ Exec(j) \in Executions /\ Ctx(j) \in Contexts
  BY QueueTypes, EntryTypes DEF CancelInv, CancelTypeOK, TypeOK, Poll
<1>2. /\ p <= MaxEntries /\ row[e].status \in Resumable /\ row[e].points[c] = "paused"
      /\ queue' = Append(queue, new) /\ row' = [row EXCEPT ![e] = SetPoint(row[e], c, s)]
      /\ worker' = IF busy THEN worker ELSE Start(p, e)
  BY <1>0 DEF Enqueue
<1>3. /\ new \in Entry /\ new.exec = e /\ new.ctx = c /\ ~new.staged
      /\ new.status = IF busy THEN "pending" ELSE "claimed"
  BY DEF Entry
<1> HIDE DEF new
<1>4. /\ queue' \in Seq(Entry) /\ Len(queue') = Len(queue) + 1 /\ DOMAIN queue' = DOMAIN queue \cup {p}
      /\ queue'[p] = new /\ p \in Entries /\ p \notin DOMAIN queue
      /\ \A j \in DOMAIN queue : queue'[j] = queue[j]
  BY <1>0, <1>1, <1>2, <1>3, AppendType
<1>5. row[e] \in Row /\ s \in PointStatuses /\ s # "paused" /\ row \in [Executions -> Row]
  BY <1>1 DEF TypeOK, PointStatuses
<1>6. /\ SetPoint(row[e], c, s) \in Row
      /\ SetPoint(row[e], c, s).points[c] = s
      /\ \A d \in Contexts \ {c} : SetPoint(row[e], c, s).points[d] = row[e].points[d]
      /\ SetPoint(row[e], c, s).status = row[e].status
      /\ SetPoint(row[e], c, s).next = row[e].next
  BY <1>5, PointType
<1>7. /\ row' \in [Executions -> Row] /\ row'[e] = SetPoint(row[e], c, s)
      /\ \A f \in Executions \ {e} : row'[f] = row[f]
  BY <1>1, <1>2, <1>6, RowUpdate
<1>8. worker[p].pc = "idle" /\ worker[p].out = "none"
  BY <1>1, <1>4 DEF WorkersFit
<1>9. /\ worker' \in [Entries -> Worker]
      /\ \A j \in Entries \ {p} : worker'[j].pc = worker[j].pc /\ worker'[j].out = worker[j].out
      /\ worker'[p].out = "none" /\ worker'[p].pc \in {"idle", "admit"}
      /\ busy => worker'[p].pc = "idle"
  <2>1. CASE busy
    BY <1>1, <1>2, <1>8, <2>1 DEF TypeOK
  <2>2. CASE ~busy
    BY <1>1, <1>2, <1>4, <2>2, StartType
  <2> QED
    BY <2>1, <2>2
<1> HIDE DEF busy, s
<1>10. TypeOK'
  <2>1. Len(queue') <= MaxEntries
    BY <1>0, <1>2, <1>4
  <2> QED
    BY <1>1, <1>4, <1>7, <1>9, <2>1 DEF TypeOK
<1>11. CancelTypeOK' /\ TargetsExist'
  BY <1>4, <1>10, TargetsKept
<1>12. \A f \in Executions : row'[f].status = row[f].status /\ row'[f].next = row[f].next
  BY <1>6, <1>7
<1>13. OnlyRootCancels'
  BY <1>1, <1>12 DEF OnlyRootCancels
<1>14. /\ \A j \in DOMAIN queue : Exec(j)' = Exec(j) /\ Ctx(j)' = Ctx(j) /\ (Waits(j)' <=> Waits(j))
       /\ \A j \in DOMAIN queue : Holds(j)' <=> Holds(j)
       /\ Exec(p)' = e /\ Ctx(p)' = c
  BY <1>1, <1>3, <1>4, <1>9 DEF Exec, Ctx, Waits, Holds
<1>15. WorkersFit'
  <2>1. \A j \in Entries \ DOMAIN queue' : worker'[j].pc = "idle" /\ worker'[j].out = "none"
    BY <1>1, <1>4, <1>9 DEF WorkersFit
  <2>2. ASSUME NEW j \in DOMAIN queue
        PROVE  /\ queue'[j].staged => queue'[j].status = "failed"
               /\ Waits(j)' => worker'[j].pc \notin Busy /\ worker'[j].out \notin Gone
               /\ worker'[j].pc \in {"admit", "running"} => worker'[j].out = "none"
               /\ worker'[j].pc \in {"persist", "drainChild"} => worker'[j].out = "repaused"
    BY <1>1, <1>4, <1>9, <1>14 DEF WorkersFit
  <2>3. Waits(p)' => worker'[p].pc = "idle"
    BY <1>3, <1>4, <1>9 DEF Waits
  <2>4. /\ queue'[p].staged => queue'[p].status = "failed"
        /\ Waits(p)' => worker'[p].pc \notin Busy /\ worker'[p].out \notin Gone
        /\ worker'[p].pc \in {"admit", "running"} => worker'[p].out = "none"
        /\ worker'[p].pc \in {"persist", "drainChild"} => worker'[p].out = "repaused"
    BY <1>3, <1>4, <1>9, <2>3 DEF Busy, Working, Gone
  <2> QED
    BY <1>4, <2>1, <2>2, <2>4 DEF WorkersFit
<1>16. RowsFit'
  <2>1. row[p].status = "none"
    BY <1>1, <1>4, <1>8 DEF RowsFit
  <2>2. \A i \in Entries : row'[i].status # "none" => worker'[i].out = "repaused" /\ worker'[i].pc # "persist"
    BY <1>1, <1>9, <1>12, <2>1 DEF RowsFit
  <2>3. \A j \in DOMAIN queue' : row'[Exec(j)'].status # "none"
    BY <1>1, <1>2, <1>4, <1>12, <1>14 DEF RowsFit, Resumable
  <2>4. poll'.pc # "idle" => row'[poll'.exec].status # "none"
    BY <1>1, <1>12 DEF RowsFit
  <2> QED
    BY <1>1, <1>12, <2>2, <2>3, <2>4 DEF RowsFit
<1>17. reopened' = reopened
  BY DEF cancelVars
<1>18. \A j \in DOMAIN queue : Exec(j) = e /\ Ctx(j) = c /\ c \notin reopened => ~Holds(j)
  BY <1>1, <1>2 DEF PointsHeld
<1>19. PointsHeld'
  <2> SUFFICES ASSUME NEW i \in DOMAIN queue', Holds(i)', Ctx(i)' \notin reopened
               PROVE  /\ row'[Exec(i)'].points[Ctx(i)'] # "paused"
                      /\ \A j \in DOMAIN queue' :
                           Exec(j)' = Exec(i)' /\ Ctx(j)' = Ctx(i)' /\ Holds(j)' => j = i
    BY <1>17 DEF PointsHeld
  <2>1. CASE i = p
    BY <1>4, <1>5, <1>6, <1>7, <1>14, <1>18, <2>1
  <2>2. CASE i \in DOMAIN queue
    <3>1. /\ Holds(i) /\ row[Exec(i)].points[Ctx(i)] # "paused"
          /\ \A j \in DOMAIN queue : Exec(j) = Exec(i) /\ Ctx(j) = Ctx(i) /\ Holds(j) => j = i
      BY <1>1, <1>14, <2>2 DEF PointsHeld
    <3>2. ~ (Exec(i) = e /\ Ctx(i) = c)
      BY <1>2, <3>1
    <3>3. row'[Exec(i)].points[Ctx(i)] = row[Exec(i)].points[Ctx(i)]
      BY <1>1, <1>6, <1>7, <2>2, <3>2
    <3> QED
      BY <1>4, <1>14, <2>2, <3>1, <3>2, <3>3
  <2> QED
    BY <1>4, <2>1, <2>2
<1>20. DueFit'
  <2>1. \A d \in Contexts \ {c} : row'[poll.exec].points[d] = row[poll.exec].points[d]
    BY <1>1, <1>6, <1>7
  <2> QED
    BY <1>1, <1>17, <2>1, PauseAssumption DEF DueFit
<1>21. StaysCancelled
  <2>1. \A f \in Executions \ {e} : row'[f] = [row[f] EXCEPT !.done = row'[f].done]
    BY <1>5, <1>7 DEF Row
  <2> QED
    BY <1>2, <2>1 DEF StaysCancelled, Resumable
<1>22. ClaimsResumable
  BY <1>2, <1>3, <1>4 DEF ClaimsResumable, Exec
<1> QED
  BY <1>11, <1>13, <1>15, <1>16, <1>19, <1>20, <1>21, <1>22 DEF Good, CancelInv

LEMMA ResumeGood ==
  ASSUME CancelInv, NEW e \in Executions, NEW c \in Contexts, Resume(e, c), UNCHANGED cancelVars
  PROVE  Good
<1>1. /\ Enqueue(e, c) /\ log' = log /\ run' = run /\ poll' = poll /\ crashes' = crashes
      /\ c \notin TimeContexts
  BY DEF Resume
<1>2. poll \in Poll /\ DueFit
  BY DEF CancelInv, CancelTypeOK, TypeOK
<1>3. poll.pc \in {"prepare", "enqueue"} => poll.due # {} /\ c \notin poll.due
  BY <1>1, <1>2 DEF DueFit
<1> QED
  BY <1>1, <1>2, <1>3, EnqueueGood

LEMMA PollResumesGood ==
  ASSUME CancelInv, PollResumes, UNCHANGED cancelVars
  PROVE  Good
<1>1. /\ TypeOK /\ poll \in Poll /\ poll.exec \in Executions /\ DueFit /\ RowsFit
      /\ poll.pc = "enqueue" /\ log' = log /\ run' = run /\ crashes' = crashes
      /\ reopened' = reopened
  BY DEF CancelInv, CancelTypeOK, TypeOK, Poll, PollResumes, cancelVars
<1>2. PICK c \in poll.due :
        /\ \/ Enqueue(poll.exec, c)
           \/ UNCHANGED <<row, queue, worker>>
        /\ poll' = [poll EXCEPT !.due = @ \ {c}, !.pc = IF poll.due = {c} THEN "setNext" ELSE @]
  BY DEF PollResumes
<1>3. c \in Contexts
  BY <1>1, PauseAssumption DEF DueFit
<1>4. /\ poll' \in Poll /\ poll'.exec = poll.exec /\ poll'.due = poll.due \ {c}
      /\ poll'.pc = "enqueue" => poll'.due # {}
      /\ poll'.pc \in {"enqueue", "setNext"}
  BY <1>1, <1>2 DEF Poll
<1>5. CASE Enqueue(poll.exec, c)
  BY <1>1, <1>3, <1>4, <1>5, EnqueueGood
<1>6. CASE UNCHANGED <<row, queue, worker>>
  <2>1. TypeOK'
    BY <1>1, <1>4, <1>6 DEF TypeOK
  <2>2. CancelTypeOK' /\ TargetsExist'
    BY <1>6, <2>1, TargetsKept
  <2>3. DueFit' /\ row[poll'.exec].status # "none"
    BY <1>1, <1>4, <1>6 DEF DueFit, RowsFit
  <2> QED
    BY <1>1, <1>6, <2>2, <2>3, QuietGood
<1> QED
  BY <1>2, <1>5, <1>6

-----------------------------------------------------------------------------
(* The inductive invariant.                                                  *)

LEMMA StillGood ==
  ASSUME CancelInv, UNCHANGED allVars
  PROVE  Good
<1>1. /\ UNCHANGED cancelVars /\ log' = log /\ row' = row /\ queue' = queue /\ worker' = worker
      /\ run' = run /\ poll' = poll /\ crashes' = crashes /\ reopened' = reopened
  BY DEF allVars, vars, cancelVars
<1>2. TypeOK'
  BY <1>1 DEF CancelInv, CancelTypeOK, TypeOK
<1>3. CancelTypeOK' /\ TargetsExist'
  BY <1>1, <1>2, TargetsKept
<1> QED
  BY <1>1, <1>3, SamePoll, QuietGood

LEMMA WorkGood ==
  ASSUME CancelInv, NEW i \in Entries, Work(i), UNCHANGED cancelVars
  PROVE  Good
<1>1. CASE ClaimLog(i) \/ EngineEnds(i) \/ NotAdmitted(i) \/ NotDispatched(i)
  BY <1>1, ClaimLogGood, EngineEndsGood, LeavesGood
<1>2. CASE UpdateSnapshot(i) \/ PersistAgain(i) \/ PersistAgainFails(i)
  BY <1>2, UpdateSnapshotGood, PersistAgainGood, PersistAgainFailsGood
<1>3. CASE MarkCompleted(i) \/ MarkFailed(i) \/ MarkAttemptFailed(i)
  BY <1>3, MarkCompletedGood, MarkFailedGood, MarkAttemptFailedGood
<1>4. CASE DrainChild(i) \/ StoppedResumeReads(i) \/ WorkerDrains(i)
  BY <1>4, StoppedResumeReadsGood, WorkerDrainsGood
<1> QED
  BY <1>1, <1>2, <1>3, <1>4 DEF Work

LEMMA RequestGood ==
  ASSUME CancelInv, NEW k \in Cancellers, CancelStep(k) \/ CancelDies(k)
  PROVE  Good
<1>1. CASE \/ CancelReads(k) \/ CancelSignalsRun(k) \/ CancelClaimsLog(k) \/ CancelClaimFails(k)
           \/ CancelPublishes(k) \/ V2ReadsStatus(k) \/ V2SignalsRun(k) \/ V2ClaimsLog(k)
           \/ V2Publishes(k) \/ CancelDies(k)
  BY <1>1, RequestsAskGood
<1>2. CASE CancelStages(k) \/ CancelRechecks(k) \/ V2Begins(k) \/ V2Blocks(k)
  BY <1>2, CancelStagesGood, V2BeginsGood, V2BlocksGood
<1>3. CASE CancelSignals(k) \/ CancelSignalsAgain(k) \/ CancelCompletesRow(k)
  BY <1>3, CancelSignalsGood, CancelCompletesRowGood
<1>4. CASE CancelRollsBack(k) \/ CancelClears(k) \/ CancelDrains(k)
  BY <1>4, CancelRollsBackGood, CancelClearsGood, CancelDrainsGood
<1> QED
  BY <1>1, <1>2, <1>3, <1>4 DEF CancelStep

LEMMA StepsAreGood == CancelInv /\ [CancelNext]_allVars => Good
<1> SUFFICES ASSUME CancelInv, [CancelNext]_allVars PROVE Good
  OBVIOUS
<1>1. CASE Run /\ UNCHANGED cancelVars
  BY <1>1, RunQuietGood, RunPersistsGood, RunDrainsGood DEF Run
<1>2. ASSUME NEW e \in Executions, NEW c \in Contexts, Resume(e, c), UNCHANGED cancelVars
      PROVE  Good
  BY <1>2, ResumeGood
<1>3. ASSUME NEW i \in Entries, Work(i), UNCHANGED cancelVars
      PROVE  Good
  BY <1>3, WorkGood
<1>4. CASE PollStep /\ UNCHANGED cancelVars
  BY <1>4, PollReadsGood, PollAdmitsGood, PollWaitsGood, PollResumesGood, PollNextGood, PollDrainsGood
     DEF PollStep
<1>5. CASE Crash /\ UNCHANGED cancelVars
  BY <1>5, CrashGood
<1>6. CASE Next /\ UNCHANGED cancelVars
  BY <1>1, <1>2, <1>3, <1>4, <1>5, <1>6 DEF Next
<1>7. CASE RunStops
  BY <1>7, RunQuietGood
<1>8. ASSUME NEW k \in Cancellers, CancelStep(k) \/ CancelDies(k)
      PROVE  Good
  BY <1>8, RequestGood
<1>9. ASSUME NEW i \in Entries, StoppedResumeCancels(i)
      PROVE  Good
  BY <1>9, StoppedResumeGood
<1>10. CASE UNCHANGED allVars
  BY <1>10, StillGood
<1> QED
  BY <1>6, <1>7, <1>8, <1>9, <1>10 DEF CancelNext

LEMMA CancelInitInv == CancelInit => CancelInv
<1> SUFFICES ASSUME CancelInit PROVE CancelInv
  OBVIOUS
<1>1. Init /\ TypeOK /\ Root \in Executions
  BY InitInv, EntryTypes DEF CancelInit, IInv
<1>2. /\ DOMAIN queue = {} /\ run.pc = "running" /\ poll.pc = "idle" /\ log = "running"
      /\ \A e \in Executions : row[e].status = "none" /\ ~row[e].next
      /\ \A i \in Entries : i \in Executions /\ worker[i].pc = "idle" /\ worker[i].out = "none"
  BY <1>1, EntryTypes, NoPollType DEF Init, NoRow, NoWorker
<1>3. /\ CancelTypeOK
      /\ \A k \in Cancellers : cancel[k].pc = "idle" /\ cancel[k].target = 0
  <2>1. [pc |-> "idle", target |-> 0, paused |-> FALSE] \in Canceller
    BY BoundTypes DEF Canceller
  <2> QED
    BY <1>1, <2>1 DEF CancelInit, CancelTypeOK
<1>4. TargetsExist
  BY <1>3 DEF TargetsExist
<1>5. OnlyRootCancels /\ WorkersFit /\ RowsFit
  BY <1>1, <1>2 DEF OnlyRootCancels, WorkersFit, RowsFit
<1>6. PointsHeld /\ DueFit
  BY <1>2 DEF PointsHeld, DueFit
<1> QED
  BY <1>3, <1>4, <1>5, <1>6 DEF CancelInv

(* Requests, entries, rows and points agree, in every state.                 *)
THEOREM CancelInvariant == CancelSpec => []CancelInv
<1>1. CancelInv /\ [CancelNext]_allVars => CancelInv'
  BY StepsAreGood DEF Good
<1> QED
  BY <1>1, CancelInitInv, PTL DEF CancelSpec

(* The variables keep their types, and a request only remembers an entry      *)
(* there can be.                                                              *)
THEOREM CancelTypeCorrect == CancelSpec => []CancelTypeOK
<1>1. CancelInv => CancelTypeOK
  BY DEF CancelInv
<1> QED
  BY <1>1, CancelInvariant, PTL

(* completePausedCancellation and the late writes of resumes never leave a     *)
(* cancelled paused row behind a run that is not logged as cancelled.         *)
THEOREM CancelledRunIsLogged == CancelSpec => []CancelledIsLogged
<1>1. CancelInv => CancelledIsLogged
  BY DEF CancelInv, OnlyRootCancels, CancelledIsLogged
<1> QED
  BY <1>1, CancelInvariant, PTL

(* No step of a resume, the poller, a rollback or another request revives a    *)
(* run that was cancelled.                                                   *)
THEOREM CancelledRunStaysCancelled == CancelSpec => CancelledIsFinal
<1>1. CancelInv /\ [CancelNext]_allVars => StaysCancelled
  BY StepsAreGood DEF Good
<1>2. CancelInv /\ [CancelNext]_allVars =>
        [/\ log = "cancelled" => log' = "cancelled"
         /\ \A e \in Executions :
              row[e].status = "cancelled" => row'[e] = [row[e] EXCEPT !.done = row'[e].done]]_allVars
  BY <1>1 DEF StaysCancelled
<1> QED
  BY <1>2, CancelInvariant, PTL DEF CancelSpec, CancelledIsFinal

(* While a cancellation is staged, neither a request nor a drain claims an     *)
(* entry of the run.                                                         *)
THEOREM NoResumeStartsWhileCancelling == CancelSpec => NoClaimWhileCancelling
<1>1. CancelInv /\ [CancelNext]_allVars =>
        [row[Root].status \in {"cancelling", "cancelled"} =>
           \A i \in DOMAIN queue' : (Exec(i)' = Root /\ queue'[i].status = "claimed")
                                     => i \in Claimed(Root)]_allVars
  <2> SUFFICES ASSUME CancelInv, [CancelNext]_allVars, row[Root].status \in {"cancelling", "cancelled"},
                      NEW i \in DOMAIN queue', Exec(i)' = Root, queue'[i].status = "claimed"
               PROVE  i \in Claimed(Root)
    OBVIOUS
  <2>1. ClaimsResumable
    BY StepsAreGood DEF Good
  <2>2. queue'[i].exec = Root /\ row[Root].status \notin Resumable
    BY DEF Exec, Resumable
  <2> QED
    BY <2>1, <2>2 DEF ClaimsResumable, Claimed, WithStatus, Exec
<1> QED
  BY <1>1, CancelInvariant, PTL DEF CancelSpec, NoClaimWhileCancelling

(* A continuation goes through twice only when rollbackActiveResumeCancellation *)
(* offered the point of a resume that was still at work again.               *)
THEOREM OnlyReopenedRunTwice == CancelSpec => []ReopenedAtMost
<1>1. CancelInv => ReopenedAtMost
  <2> SUFFICES ASSUME CancelInv, NEW c \in Contexts \ reopened, NEW e \in Executions
               PROVE  ~ (Cardinality(Through(e, c)) > 1)
    BY DEF ReopenedAtMost, RanTwice
  <2>1. PointsHeld
    BY DEF CancelInv
  <2>2. \A x, y \in Through(e, c) : x = y
    BY <2>1 DEF Through, PointsHeld, Holds, Gone
  <2>3. Cardinality(Through(e, c)) <= 1
    BY <2>2, AtMostOne
  <2>4. IsFiniteSet(Through(e, c))
    <3>1. CASE Through(e, c) = {}
      BY <3>1, FS_EmptySet
    <3>2. ASSUME NEW x \in Through(e, c)
          PROVE  IsFiniteSet(Through(e, c))
      <4>1. Through(e, c) = {x}
        BY <2>2
      <4> QED
        BY <4>1, FS_Singleton
    <3> QED
      BY <3>1, <3>2
  <2>5. Cardinality(Through(e, c)) \in Nat
    BY <2>4, FS_CardinalityType
  <2> QED
    BY <2>3, <2>5
<1> QED
  BY <1>1, CancelInvariant, PTL

-----------------------------------------------------------------------------
(* Who is active, and where a queued point stands, while requests to cancel   *)
(* come and go.                                                              *)

(* One entry of an execution is claimed; one resume is in its blocks, and the  *)
(* log says so.                                                              *)
OneIsActive ==
  /\ \A i, j \in DOMAIN queue :
       queue[i].status = "claimed" /\ queue[j].status = "claimed" /\ Exec(i) = Exec(j) => i = j
  /\ \A i \in DOMAIN queue : worker[i].pc = "running" =>
       /\ Exec(i) = Root /\ log \in {"running", "cancelled"}
       /\ \A j \in DOMAIN queue : worker[j].pc = "running" => j = i

(* Until the run is cancelled, no entry fails under its worker, and the point  *)
(* of a claimed one is being resumed.                                         *)
ClaimsSurvive ==
  log # "cancelled" =>
    \A i \in DOMAIN queue : Exec(i) = Root =>
      /\ worker[i].pc \in Working => queue[i].status = "claimed"
      /\ queue[i].status = "claimed" => row[Root].points[Ctx(i)] = "resuming"

(* Until then a queued point has an entry that waits: a pending one, or one    *)
(* that a cancellation took away and would give back.                         *)
QueuedPointsWait ==
  log # "cancelled" =>
    \A c \in Contexts : row[Root].points[c] = "queued" =>
      \E i \in DOMAIN queue : Exec(i) = Root /\ Ctx(i) = c /\ Waits(i)

ActiveInv == OneIsActive /\ ClaimsSurvive /\ QueuedPointsWait

(* What a step that claims nothing may do to the entries, ...                  *)
EntryStays(j) ==
  /\ queue'[j].exec = queue[j].exec /\ queue'[j].ctx = queue[j].ctx
  /\ queue'[j].status = "claimed" => queue[j].status = "claimed"
  /\ worker'[j].pc = "running" => worker[j].pc = "running"

(* ... and, while the run is not cancelled, to those of the run.               *)
EntryIsCarried(j) ==
  /\ worker'[j].pc \in Working =>
       worker[j].pc \in Working /\ (queue[j].status = "claimed" => queue'[j].status = "claimed")
  /\ queue'[j].status = "claimed" => row'[Root].points[Ctx(j)] = row[Root].points[Ctx(j)]
  /\ Waits(j) => Waits(j)' \/ row'[Root].points[Ctx(j)] # "queued"

ClaimsNothing ==
  /\ DOMAIN queue' = DOMAIN queue /\ \A j \in DOMAIN queue : EntryStays(j)
  /\ log' \in {log, "running", "cancelled"} \/ \A j \in DOMAIN queue : worker'[j].pc # "running"
  /\ log = "cancelled" => log' = "cancelled"
  /\ log' # "cancelled" =>
       /\ \A j \in DOMAIN queue : Exec(j) = Root => EntryIsCarried(j)
       /\ \A c \in Contexts : row'[Root].points[c] = "queued" =>
            \/ row[Root].points[c] = "queued"
            \/ \E j \in DOMAIN queue : Exec(j) = Root /\ Ctx(j) = c /\ Waits(j)'

LEMMA NothingClaimed ==
  ASSUME CancelInv, ActiveInv, ClaimsNothing
  PROVE  ActiveInv'
<1>1. /\ OneIsActive /\ ClaimsSurvive /\ QueuedPointsWait /\ DOMAIN queue' = DOMAIN queue
      /\ \A j \in DOMAIN queue : EntryStays(j) /\ Exec(j)' = Exec(j) /\ Ctx(j)' = Ctx(j)
      /\ \A j \in DOMAIN queue : Ctx(j) \in Contexts
  BY QueueTypes DEF ActiveInv, ClaimsNothing, EntryStays, Exec, Ctx, CancelInv, CancelTypeOK
<1>2. OneIsActive'
  <2>1. ASSUME NEW i \in DOMAIN queue, worker'[i].pc = "running"
        PROVE  /\ Exec(i) = Root /\ log' \in {"running", "cancelled"}
               /\ \A j \in DOMAIN queue : worker'[j].pc = "running" => j = i
    BY <1>1, <2>1 DEF OneIsActive, EntryStays, ClaimsNothing
  <2>2. ASSUME NEW i \in DOMAIN queue, NEW j \in DOMAIN queue, Exec(i) = Exec(j),
               queue'[i].status = "claimed", queue'[j].status = "claimed"
        PROVE  i = j
    BY <1>1, <2>2 DEF OneIsActive, EntryStays
  <2> QED
    BY <1>1, <2>1, <2>2 DEF OneIsActive
<1>3. SUFFICES ASSUME log' # "cancelled"
               PROVE  ClaimsSurvive' /\ QueuedPointsWait'
  BY <1>2 DEF ActiveInv, ClaimsSurvive, QueuedPointsWait
<1>4. /\ log # "cancelled"
      /\ \A j \in DOMAIN queue : Exec(j) = Root => EntryIsCarried(j)
      /\ \A c \in Contexts : row'[Root].points[c] = "queued" =>
           \/ row[Root].points[c] = "queued"
           \/ \E j \in DOMAIN queue : Exec(j) = Root /\ Ctx(j) = c /\ Waits(j)'
  BY <1>3 DEF ClaimsNothing
<1>5. ClaimsSurvive'
  <2>1. ASSUME NEW i \in DOMAIN queue, Exec(i) = Root
        PROVE  /\ worker'[i].pc \in Working => queue'[i].status = "claimed"
               /\ queue'[i].status = "claimed" => row'[Root].points[Ctx(i)] = "resuming"
    <3>1. EntryIsCarried(i) /\ EntryStays(i)
      BY <1>1, <1>4, <2>1
    <3>2. /\ worker[i].pc \in Working => queue[i].status = "claimed"
          /\ queue[i].status = "claimed" => row[Root].points[Ctx(i)] = "resuming"
      BY <1>1, <1>4, <2>1 DEF ClaimsSurvive
    <3> QED
      BY <3>1, <3>2 DEF EntryIsCarried, EntryStays
  <2> QED
    BY <1>1, <2>1 DEF ClaimsSurvive
<1>6. QueuedPointsWait'
  <2> SUFFICES ASSUME NEW c \in Contexts, row'[Root].points[c] = "queued"
               PROVE  \E i \in DOMAIN queue : Exec(i) = Root /\ Ctx(i) = c /\ Waits(i)'
    BY <1>1 DEF QueuedPointsWait
  <2>1. CASE \E j \in DOMAIN queue : Exec(j) = Root /\ Ctx(j) = c /\ Waits(j)'
    BY <2>1
  <2>2. CASE row[Root].points[c] = "queued"
    <3>1. PICK i \in DOMAIN queue : Exec(i) = Root /\ Ctx(i) = c /\ Waits(i)
      BY <1>1, <1>4, <2>2 DEF QueuedPointsWait
    <3>2. Waits(i)'
      BY <1>4, <3>1 DEF EntryIsCarried
    <3> QED
      BY <3>1, <3>2
  <2> QED
    BY <1>4, <2>1, <2>2
<1> QED
  BY <1>2, <1>5, <1>6 DEF ActiveInv

(* The steps that leave the entries, and the points of the run, alone.         *)
WorksOn(j) ==
  /\ worker'[j].pc \in Working => worker[j].pc \in Working
  /\ worker'[j].pc = "running" => worker[j].pc = "running"
WorkersGoOn == \A j \in DOMAIN queue : WorksOn(j)

LEMMA EntriesAlone ==
  ASSUME CancelInv, ActiveInv, queue' = queue, WorkersGoOn,
         row'[Root].points = row[Root].points,
         log' \in {log, "running", "cancelled"} \/ \A j \in DOMAIN queue : worker'[j].pc # "running",
         log = "cancelled" => log' = "cancelled"
  PROVE  ActiveInv'
<1>1. \A j \in DOMAIN queue : EntryStays(j) /\ EntryIsCarried(j) /\ (Waits(j)' <=> Waits(j))
  BY DEF EntryStays, EntryIsCarried, WorkersGoOn, WorksOn, Waits
<1>2. ClaimsNothing
  BY <1>1 DEF ClaimsNothing
<1> QED
  BY <1>2, NothingClaimed

(* Before the run is stored, no entry is its own.                              *)
LEMMA NoEntryYet ==
  ASSUME CancelInv, ActiveInv, run.pc \in {"running", "persist"}
  PROVE  /\ \A j \in DOMAIN queue : Exec(j) # Root /\ worker[j].pc # "running"
         /\ row[Root].status = "none"
<1>1. RowsFit /\ OneIsActive
  BY DEF CancelInv, ActiveInv
<1> QED
  BY <1>1 DEF RowsFit, OneIsActive

(* What the steps of the run, its resumes and the poller do to a cancellation  *)
(* that is staged: they take no entry away for it, do not withdraw it, and    *)
(* write the log only for a resume that is active.                            *)
StagesNothing ==
  log' # "cancelled" =>
    /\ \A j \in DOMAIN queue' : queue'[j].staged =>
         j \in DOMAIN queue /\ queue[j].staged /\ queue'[j].exec = Exec(j)
    /\ row[Root].status = "cancelling" =>
         row'[Root].status = "cancelling" /\ (Claimed(Root) = {} => log' = log)

Steady == ActiveInv' /\ StagesNothing

LEMMA SteadyAlone ==
  ASSUME CancelInv, ActiveInv, queue' = queue, WorkersGoOn,
         row'[Root].points = row[Root].points, row'[Root].status = row[Root].status,
         log' \in {log, "running", "cancelled"} \/ \A j \in DOMAIN queue : worker'[j].pc # "running",
         log = "cancelled" => log' = "cancelled",
         log' \in {log, "cancelled"} \/ row[Root].status = "none" \/ Claimed(Root) # {}
  PROVE  Steady
<1>1. ActiveInv'
  BY EntriesAlone
<1>2. StagesNothing
  BY DEF StagesNothing, Exec
<1> QED
  BY <1>1, <1>2 DEF Steady

(* A worker that has work to do at an entry of the run has it claimed.         *)
LEMMA WorkIsClaimed ==
  ASSUME ActiveInv, NEW i \in DOMAIN queue, Exec(i) = Root, worker[i].pc \in Working, log # "cancelled"
  PROVE  /\ queue[i].status = "claimed" /\ i \in Claimed(Root)
         /\ row[Root].points[Ctx(i)] = "resuming"
         /\ \A j \in DOMAIN queue : queue[j].status = "claimed" /\ Exec(j) = Root => j = i
         /\ \A j \in DOMAIN queue : worker[j].pc = "running" => j = i
<1>1. OneIsActive /\ ClaimsSurvive
  BY DEF ActiveInv
<1>2. queue[i].status = "claimed" /\ row[Root].points[Ctx(i)] = "resuming"
  BY <1>1 DEF ClaimsSurvive
<1>3. ASSUME NEW j \in DOMAIN queue, worker[j].pc = "running"
      PROVE  j = i
  BY <1>1, <1>2, <1>3 DEF OneIsActive, ClaimsSurvive, Working
<1> QED
  BY <1>1, <1>2, <1>3 DEF OneIsActive, Claimed, WithStatus, Exec

LEMMA ClaimLogSteady ==
  ASSUME CancelInv, ActiveInv, NEW i \in Entries, ClaimLog(i)
  PROVE  Steady
<1>1. /\ TypeOK /\ i \in DOMAIN queue /\ worker[i].pc = "admit" /\ row' = row /\ queue' = queue
      /\ {"running", "settle"} \subseteq Pcs /\ "refused" \in Outcomes
  BY Names DEF CancelInv, CancelTypeOK, ClaimLog, At
<1>2. CASE ~Claimable(i)
  <2>1. worker' = GotoWith(i, "settle", "refused") /\ log' = log
    BY <1>2 DEF ClaimLog
  <2>2. WorkersGoOn
    BY <1>1, <2>1, GotoWithType, QueueTypes DEF WorkersGoOn, WorksOn, Working
  <2> QED
    BY <1>1, <2>1, <2>2, SteadyAlone
<1>3. CASE Claimable(i)
  <2>1. worker' = Goto(i, "running") /\ log' = "running" /\ Exec(i) = Root /\ log # "cancelled"
    BY <1>3 DEF ClaimLog, Claimable
  <2>2. /\ worker'[i].pc = "running" /\ worker[i].pc \in Working
        /\ \A j \in DOMAIN queue \ {i} : worker'[j] = worker[j]
    BY <1>1, <2>1, GotoType, QueueTypes DEF Working
  <2>3. /\ i \in Claimed(Root) /\ queue[i].status = "claimed"
        /\ \A j \in DOMAIN queue : worker[j].pc = "running" => j = i
    BY <1>1, <2>1, <2>2, WorkIsClaimed
  <2>4. OneIsActive'
    BY <1>1, <2>1, <2>2, <2>3 DEF ActiveInv, OneIsActive, Exec
  <2>5. ClaimsSurvive'
    BY <1>1, <2>1, <2>2, <2>3 DEF ActiveInv, ClaimsSurvive, Exec, Ctx
  <2>6. QueuedPointsWait'
    BY <1>1, <2>1 DEF ActiveInv, QueuedPointsWait, Exec, Ctx, Waits
  <2>7. StagesNothing
    BY <1>1, <2>3 DEF StagesNothing, Exec
  <2> QED
    BY <2>4, <2>5, <2>6, <2>7 DEF Steady, ActiveInv
<1> QED
  BY <1>2, <1>3

(* A worker leaves its blocks, or goes on to its next step.                    *)
LEMMA WorkerSteady ==
  ASSUME CancelInv, ActiveInv, NEW i \in DOMAIN queue, NEW pc \in Pcs \ {"running"}, NEW out \in Outcomes,
         worker' = Goto(i, pc) \/ worker' = GotoWith(i, pc, out), queue' = queue,
         pc \in Working => worker[i].pc \in Working,
         row'[Root].points = row[Root].points, row'[Root].status = row[Root].status,
         log = "cancelled" => log' = "cancelled",
         log' \in {log, "cancelled"} \/ worker[i].pc = "running"
  PROVE  Steady
<1>1. TypeOK /\ i \in Entries /\ \A j \in DOMAIN queue : j \in Entries
  BY QueueTypes DEF CancelInv, CancelTypeOK
<1>2. worker'[i].pc = pc /\ \A j \in DOMAIN queue \ {i} : worker'[j] = worker[j]
  BY <1>1, GotoType, GotoWithType
<1>3. WorkersGoOn
  BY <1>2 DEF WorkersGoOn, WorksOn
<1>4. CASE log' \in {log, "cancelled"}
  BY <1>3, <1>4, SteadyAlone
<1>5. CASE log' \notin {log, "cancelled"} /\ worker[i].pc = "running"
  <2>1. Exec(i) = Root /\ log # "cancelled" /\ worker[i].pc \in Working
    BY <1>5 DEF ActiveInv, OneIsActive, Working
  <2>2. i \in Claimed(Root) /\ \A j \in DOMAIN queue : worker[j].pc = "running" => j = i
    BY <2>1, WorkIsClaimed
  <2>3. \A j \in DOMAIN queue : worker'[j].pc # "running"
    BY <1>2, <2>2
  <2> QED
    BY <1>3, <2>2, <2>3, SteadyAlone, <1>5
<1> QED
  BY <1>4, <1>5

LEMMA LeavesSteady ==
  ASSUME CancelInv, ActiveInv, NEW i \in Entries, NotAdmitted(i) \/ NotDispatched(i)
  PROVE  Steady
<1>1. /\ i \in DOMAIN queue /\ worker[i].pc \in {"admit", "running"}
      /\ row' = row /\ queue' = queue /\ log' = log
  BY DEF NotAdmitted, NotDispatched, At, stores
<1>2. PICK out \in {"refused", "retry", "dropped"} : worker' = GotoWith(i, "settle", out)
  BY DEF NotAdmitted, NotDispatched
<1>3. out \in Outcomes /\ "settle" \in Pcs \ {"running"}
  BY DEF Outcomes, Pcs
<1>4. worker[i].pc \in Working
  BY <1>1 DEF Working
<1> QED
  BY <1>1, <1>2, <1>3, <1>4, WorkerSteady

LEMMA EngineEndsSteady ==
  ASSUME CancelInv, ActiveInv, NEW i \in Entries, EngineEnds(i)
  PROVE  Steady
<1>1. i \in DOMAIN queue /\ worker[i].pc = "running" /\ row' = row /\ queue' = queue
  BY DEF EngineEnds, At
<1>2. PICK end \in Endings(i) : log' = LogWrite(end[2]) /\ worker' = GotoWith(i, AfterEnd(end[1]), end[1])
  BY DEF EngineEnds
<1>3. end[1] \in {"finished", "repaused", "errored", "stopped"}
  BY <1>2 DEF Endings
<1>4. AfterEnd(end[1]) \in {"snapshot", "persist", "settle"}
  BY <1>3 DEF AfterEnd
<1>5. end[1] \in Outcomes /\ AfterEnd(end[1]) \in Pcs \ {"running"} /\ worker[i].pc \in Working
  BY <1>1, <1>3, <1>4 DEF Outcomes, Pcs, Working
<1>6. log = "cancelled" => log' = "cancelled"
  BY <1>2 DEF LogWrite
<1> HIDE DEF Endings
<1> QED
  BY <1>1, <1>2, <1>5, <1>6, WorkerSteady

(* A row of another execution is written, or only the snapshot of a row.       *)
LEMMA SnapshotSteady ==
  ASSUME CancelInv, ActiveInv, NEW i \in Entries, UpdateSnapshot(i) \/ PersistAgain(i) \/ PersistAgainFails(i)
  PROVE  Steady
<1>1. /\ TypeOK /\ i \in DOMAIN queue /\ worker[i].pc \in Working /\ queue' = queue /\ log' = log
      /\ Root \in Executions /\ Exec(i) \in Executions /\ i \in Executions /\ i # Root
      /\ worker[i].out \in Outcomes /\ row \in [Executions -> Row]
  BY QueueTypes, EntryTypes
     DEF CancelInv, CancelTypeOK, TypeOK, Worker, UpdateSnapshot, PersistAgain, PersistAgainFails, At,
         Working, stores
<1>2. \E pc \in {"settle", "drainChild"} : worker' = Goto(i, pc)
  BY DEF UpdateSnapshot, PersistAgain, PersistAgainFails
<1>3. {"settle", "drainChild"} \subseteq Pcs \ {"running"}
  BY Names DEF Pcs
<1>4. row'[Root].points = row[Root].points /\ row'[Root].status = row[Root].status
  <2>1. CASE UpdateSnapshot(i)
    <3> DEFINE d == worker[i].seen \cup {Ctx(i)}
               one == [row[Exec(i)] EXCEPT !.done = d]
    <3>1. row' = [row EXCEPT ![Exec(i)] = one]
      BY <2>1 DEF UpdateSnapshot
    <3>2. one.points = row[Exec(i)].points /\ one.status = row[Exec(i)].status
      BY <1>1 DEF Row
    <3> HIDE DEF one
    <3> QED
      BY <1>1, <3>1, <3>2
  <2>2. CASE PersistAgain(i)
    BY <1>1, <2>2 DEF PersistAgain
  <2>3. CASE PersistAgainFails(i)
    BY <2>3 DEF PersistAgainFails, stores
  <2> QED
    BY <2>1, <2>2, <2>3
<1> QED
  BY <1>1, <1>2, <1>3, <1>4, WorkerSteady

LEMMA CrashSteady ==
  ASSUME CancelInv, ActiveInv, Crash
  PROVE  Steady
<1>1. TypeOK /\ row' = row /\ queue' = queue /\ log' = log /\ WorkersFit
  BY DEF CancelInv, CancelTypeOK, Crash, stores
<1>2. CASE worker' = worker
  <2>1. WorkersGoOn
    BY <1>2 DEF WorkersGoOn, WorksOn
  <2> QED
    BY <1>1, <2>1, SteadyAlone
<1>3. ASSUME NEW i \in Entries, Alive(i), worker' = Goto(i, "dead")
      PROVE  Steady
  <2>1. i \in DOMAIN queue
    BY <1>1, <1>3 DEF Alive, WorkersFit
  <2>2. "dead" \in Pcs \ {"running"} /\ "none" \in Outcomes /\ "dead" \notin Working
    BY Names DEF Working, Pcs
  <2> QED
    BY <1>1, <1>3, <2>1, <2>2, WorkerSteady
<1> QED
  BY <1>2, <1>3 DEF Crash

(* The first execution, until its row is stored. *)
LEMMA RunSteady ==
  ASSUME CancelInv, ActiveInv, RunPauses \/ RunPersists \/ RunPersistFails \/ RunStops
  PROVE  Steady
<1>1. /\ run.pc \in {"running", "persist"} /\ queue' = queue /\ worker' = worker /\ TypeOK
      /\ log' \in {"pending", "failed", "cancelled", log} /\ (log = "cancelled" => log' = "cancelled")
  BY DEF RunPauses, RunPersists, RunPersistFails, RunStops, LogWrite, CancelInv, CancelTypeOK
<1>2. /\ row[Root].status = "none" /\ \A j \in DOMAIN queue : Exec(j) # Root /\ worker[j].pc # "running"
  BY <1>1, NoEntryYet
<1>3. row' = row \/ row' = [row EXCEPT ![Root] = Paused(FirstPauses, {})]
  BY DEF RunPauses, RunPersists, RunPersistFails, RunStops
<1>4. \A c \in Contexts : row'[Root].points[c] = "queued" => row[Root].points[c] = "queued"
  <2>1. \A c \in Contexts : Paused(FirstPauses, {}).points[c] # "queued"
    BY DEF Paused, NoRow
  <2>2. row \in [Executions -> Row] /\ Root \in Executions
    BY <1>1, EntryTypes DEF TypeOK
  <2> QED
    BY <1>3, <2>1, <2>2
<1>5. ClaimsNothing
  BY <1>1, <1>2, <1>4 DEF ClaimsNothing, EntryStays
<1>6. ActiveInv'
  BY <1>5, NothingClaimed
<1>7. StagesNothing
  BY <1>1, <1>2 DEF StagesNothing, Exec
<1> QED
  BY <1>6, <1>7 DEF Steady

(* The poller looks, or marks when a row is next due. *)
LEMMA PollQuietSteady ==
  ASSUME CancelInv, ActiveInv, PollReads \/ PollAdmits \/ PollSetsNext \/ PollClearsNext
  PROVE  Steady
<1>1. /\ TypeOK /\ queue' = queue /\ worker' = worker /\ log' = log /\ poll.exec \in Executions
      /\ Root \in Executions /\ row \in [Executions -> Row]
  BY EntryTypes DEF CancelInv, CancelTypeOK, TypeOK, Poll, PollReads, PollAdmits, PollSetsNext,
     PollClearsNext, stores
<1>2. row' = row \/ \E b : row' = SetNext(poll.exec, b)
  BY DEF PollReads, PollAdmits, PollSetsNext, PollClearsNext, stores
<1>3. row'[Root].points = row[Root].points /\ row'[Root].status = row[Root].status
  <2>1. ASSUME NEW b, row' = SetNext(poll.exec, b)
        PROVE  row'[Root].points = row[Root].points /\ row'[Root].status = row[Root].status
    <3> DEFINE one == [row[poll.exec] EXCEPT !.next = b]
    <3>1. row' = row \/ row' = [row EXCEPT ![poll.exec] = one]
      BY <2>1 DEF SetNext
    <3>2. one.points = row[poll.exec].points /\ one.status = row[poll.exec].status
      BY <1>1 DEF Row
    <3> HIDE DEF one
    <3> QED
      BY <1>1, <3>1, <3>2
  <2> QED
    BY <1>2, <2>1
<1>4. WorkersGoOn
  BY <1>1 DEF WorkersGoOn, WorksOn
<1> QED
  BY <1>1, <1>3, <1>4, SteadyAlone

(* The queue is drained: its head is claimed, or fails.                        *)
LEMMA DrainSteady ==
  ASSUME CancelInv, ActiveInv, NEW e \in Executions, Drain(e), log' = log,
         \A j \in DOMAIN queue : IF Startable(e) /\ j = First(Pending(e))
                                 THEN worker'[j].pc = "admit" ELSE WorksOn(j)
  PROVE  Steady
<1>1. /\ TypeOK /\ WorkersFit /\ queue \in Seq(Entry) /\ Root \in Executions /\ row \in [Executions -> Row]
      /\ \A j \in DOMAIN queue : j \in Entries /\ Ctx(j) \in Contexts
      /\ OneIsActive /\ ClaimsSurvive /\ QueuedPointsWait
  BY QueueTypes, EntryTypes DEF CancelInv, CancelTypeOK, TypeOK, ActiveInv
<1>2. CASE ~Drainable(e)
  <2>1. row' = row /\ queue' = queue
    BY <1>2 DEF Drain, DrainedQueue, DrainedRow, Startable
  <2>2. WorkersGoOn
    BY <1>2 DEF Startable, WorkersGoOn
  <2> QED
    BY <2>1, <2>2, SteadyAlone
<1>3. CASE Drainable(e)
  <2> DEFINE p == First(Pending(e))
             c == Ctx(p)
             s == IF Stale(e) THEN "failed" ELSE "claimed"
             r == SetPoint(row[e], c, "resuming")
  <2>1. Claimed(e) = {} /\ Pending(e) # {}
    BY <1>3 DEF Drainable
  <2>2. /\ p \in DOMAIN queue /\ Exec(p) = e /\ queue[p].status = "pending" /\ p \in Entries
        /\ c \in Contexts /\ row[e] \in Row
    BY <1>1, <2>1, FirstPending
  <2>3. queue' = SetEntry(p, s)
    BY <1>3 DEF Drain, DrainedQueue
  <2>4. row' = IF Stale(e) THEN row ELSE [row EXCEPT ![e] = r]
    BY <1>3 DEF Drain, DrainedRow, Startable, Ctx
  <2>5. Stale(e) <=> row[e].points[c] # "queued"
    BY <1>3 DEF Stale, Ctx
  <2>6. /\ \A j \in DOMAIN queue \ {p} : WorksOn(j)
        /\ IF Stale(e) THEN WorksOn(p) ELSE worker'[p].pc = "admit"
    BY <1>3, <2>2 DEF Startable
  <2> HIDE DEF p
  <2>7. /\ DOMAIN queue' = DOMAIN queue
        /\ queue'[p].status = s /\ queue'[p].exec = e /\ queue'[p].ctx = c
        /\ \A j \in DOMAIN queue \ {p} : queue'[j] = queue[j]
    BY <1>1, <2>2, <2>3, EntryStatus
  <2>8. queue'[p].staged = queue[p].staged
    <3> DEFINE one == [queue[p] EXCEPT !.status = s]
    <3>1. queue[p] \in Entry /\ queue' = [queue EXCEPT ![p] = one]
      BY <1>1, <2>2, <2>3, QueueTypes DEF SetEntry
    <3>2. one.staged = queue[p].staged
      BY <3>1 DEF Entry
    <3> HIDE DEF one
    <3> QED
      BY <2>2, <3>1, <3>2
  <2>9. /\ r \in Row /\ r.points[c] = "resuming" /\ r.status = row[e].status
        /\ \A d \in Contexts \ {c} : r.points[d] = row[e].points[d]
    <3>1. "resuming" \in PointStatuses
      BY DEF PointStatuses
    <3> QED
      BY <2>2, <3>1, PointType
  <2> HIDE DEF r
  <2>10. ~queue[p].staged
    BY <1>1, <2>2 DEF WorkersFit
  <2>11. CASE Stale(e)
    <3>1. row' = row /\ WorkersGoOn
      BY <2>2, <2>4, <2>6, <2>11 DEF WorkersGoOn
    <3>2. ASSUME NEW j \in DOMAIN queue
          PROVE  EntryStays(j) /\ (Exec(j) = Root => EntryIsCarried(j))
      <4>1. CASE j = p
        BY <2>2, <2>5, <2>7, <2>11, <3>1, <4>1
           DEF EntryStays, EntryIsCarried, WorkersGoOn, WorksOn, Exec, Ctx
      <4>2. CASE j # p
        BY <2>7, <3>1, <4>2 DEF EntryStays, EntryIsCarried, WorkersGoOn, WorksOn, Waits
      <4> QED
        BY <4>1, <4>2
    <3>3. ClaimsNothing
      BY <2>7, <3>1, <3>2 DEF ClaimsNothing
    <3>4. StagesNothing
      BY <2>2, <2>7, <2>8, <3>1 DEF StagesNothing, Exec
    <3> QED
      BY <3>3, <3>4, NothingClaimed DEF Steady
  <2>12. CASE ~Stale(e)
    <3>1. /\ row'[e] = r /\ (\A f \in Executions \ {e} : row'[f] = row[f])
          /\ worker'[p].pc = "admit" /\ queue'[p].status = "claimed"
      <4>1. row' = [row EXCEPT ![e] = r] /\ worker'[p].pc = "admit" /\ queue'[p].status = "claimed"
        BY <2>4, <2>6, <2>7, <2>12
      <4> QED
        BY <1>1, <2>9, <4>1, RowUpdate
    <3>2. \A j \in DOMAIN queue : Exec(j)' = Exec(j) /\ Ctx(j)' = Ctx(j)
      BY <2>2, <2>7 DEF Exec, Ctx
    <3>3. \A j \in DOMAIN queue : Exec(j) = e => queue[j].status # "claimed"
      BY <2>1 DEF Claimed, WithStatus, Exec
    <3>4. OneIsActive'
      <4>1. ASSUME NEW i \in DOMAIN queue, worker'[i].pc = "running"
            PROVE  /\ Exec(i) = Root /\ log' \in {"running", "cancelled"}
                   /\ \A j \in DOMAIN queue : worker'[j].pc = "running" => j = i
        <5>1. \A j \in DOMAIN queue : worker'[j].pc = "running" => worker[j].pc = "running"
          BY <2>6, <3>1 DEF WorksOn
        <5> QED
          BY <1>1, <4>1, <5>1 DEF OneIsActive
      <4>2. ASSUME NEW i \in DOMAIN queue, NEW j \in DOMAIN queue, Exec(i) = Exec(j),
                   queue'[i].status = "claimed", queue'[j].status = "claimed"
            PROVE  i = j
        BY <1>1, <2>2, <2>7, <3>3, <4>2 DEF OneIsActive
      <4> QED
        BY <2>7, <3>2, <4>1, <4>2 DEF OneIsActive
    <3>5. ClaimsSurvive'
      <4> SUFFICES ASSUME log # "cancelled", NEW i \in DOMAIN queue, Exec(i) = Root
                   PROVE  /\ worker'[i].pc \in Working => queue'[i].status = "claimed"
                          /\ queue'[i].status = "claimed" => row'[Root].points[Ctx(i)] = "resuming"
        BY <2>7, <3>2 DEF ClaimsSurvive
      <4>1. CASE i = p
        BY <2>2, <2>9, <3>1, <4>1
      <4>2. CASE i # p
        <5>1. /\ queue'[i] = queue[i] /\ WorksOn(i)
              /\ worker[i].pc \in Working => queue[i].status = "claimed"
              /\ queue[i].status = "claimed" => row[Root].points[Ctx(i)] = "resuming"
          BY <1>1, <2>6, <2>7, <4>2 DEF ClaimsSurvive
        <5>2. queue[i].status = "claimed" => e # Root
          BY <3>3
        <5> QED
          BY <1>1, <3>1, <5>1, <5>2 DEF WorksOn
      <4> QED
        BY <4>1, <4>2
    <3>6. QueuedPointsWait'
      <4> SUFFICES ASSUME log # "cancelled", NEW d \in Contexts, row'[Root].points[d] = "queued"
                   PROVE  \E i \in DOMAIN queue : Exec(i) = Root /\ Ctx(i) = d /\ Waits(i)'
        BY <2>7, <3>2 DEF QueuedPointsWait
      <4>1. row[Root].points[d] = "queued" /\ (e = Root => d # c)
        BY <1>1, <2>9, <3>1
      <4>2. PICK i \in DOMAIN queue : Exec(i) = Root /\ Ctx(i) = d /\ Waits(i)
        BY <1>1, <4>1 DEF QueuedPointsWait
      <4>3. i # p
        BY <2>2, <4>1, <4>2
      <4> QED
        BY <2>7, <4>2, <4>3 DEF Waits
    <3>7. StagesNothing
      <4>1. row'[Root].status = row[Root].status
        BY <1>1, <2>9, <3>1
      <4> QED
        BY <2>2, <2>7, <2>8, <4>1 DEF StagesNothing, Exec
    <3> QED
      BY <3>4, <3>5, <3>6, <3>7 DEF Steady, ActiveInv
  <2> QED
    BY <2>11, <2>12
<1> QED
  BY <1>2, <1>3

LEMMA DrainedGoOn ==
  ASSUME CancelInv, NEW e \in Executions, worker' = DrainedWorker(e)
  PROVE  \A j \in DOMAIN queue : IF Startable(e) /\ j = First(Pending(e))
                                 THEN worker'[j].pc = "admit" ELSE WorksOn(j)
<1>1. TypeOK /\ \A j \in DOMAIN queue : j \in Entries
  BY QueueTypes DEF CancelInv, CancelTypeOK
<1>2. \A j \in Entries : IF Startable(e) /\ j = First(Pending(e))
                         THEN worker'[j] = Start(j, e)[j] ELSE worker'[j] = worker[j]
  BY <1>1, DrainedWorkerType
<1>3. \A j \in Entries : Start(j, e)[j].pc = "admit"
  BY <1>1, StartType
<1> QED
  BY <1>1, <1>2, <1>3 DEF WorksOn

LEMMA DrainsSteady ==
  ASSUME CancelInv, ActiveInv, NEW e \in Executions, Drain(e), worker' = DrainedWorker(e), log' = log
  PROVE  Steady
BY DrainedGoOn, DrainSteady

LEMMA PlainDrainsSteady ==
  ASSUME CancelInv, ActiveInv, RunDrains \/ PollDrains
  PROVE  Steady
<1>1. \E e \in Executions : Drain(e) /\ worker' = DrainedWorker(e) /\ log' = log
  BY EntryTypes DEF CancelInv, CancelTypeOK, TypeOK, Poll, RunDrains, PollDrains
<1> QED
  BY <1>1, DrainsSteady

LEMMA WorkerDrainsSteady ==
  ASSUME CancelInv, ActiveInv, NEW i \in Entries, WorkerDrains(i) \/ DrainChild(i)
  PROVE  Steady
<1>1. /\ i \in DOMAIN queue /\ worker[i].pc \in {"drain", "drainChild"} /\ worker[i] \in Worker
      /\ log' = log /\ Exec(i) \in Executions /\ i \in Executions /\ TypeOK /\ WorkersFit
      /\ \A j \in DOMAIN queue : j \in Entries
  BY QueueTypes, EntryTypes DEF CancelInv, CancelTypeOK, TypeOK, WorkerDrains, DrainChild, At
<1>2. \E e \in Executions, pc \in {worker[i].pc, "settle", "done"} :
        /\ Drain(e) /\ worker' = [DrainedWorker(e) EXCEPT ![i].pc = IF Stale(e) THEN @ ELSE pc]
        /\ pc = "settle" => worker[i].pc = "drainChild"
  <2>1. CASE WorkerDrains(i)
    BY <1>1, <2>1 DEF WorkerDrains
  <2>2. CASE DrainChild(i)
    BY <1>1, <2>2 DEF DrainChild, At
  <2> QED
    BY <2>1, <2>2
<1>3. PICK e \in Executions, pc \in {worker[i].pc, "settle", "done"} :
        /\ Drain(e) /\ worker' = [DrainedWorker(e) EXCEPT ![i].pc = IF Stale(e) THEN @ ELSE pc]
        /\ pc = "settle" => worker[i].pc = "drainChild"
  BY <1>2
<1>4. queue[i].status # "pending"
  BY <1>1 DEF WorkersFit, Waits, Busy, Working
<1>5. /\ DrainedWorker(e) \in [Entries -> Worker]
      /\ \A j \in Entries : IF Startable(e) /\ j = First(Pending(e))
                            THEN DrainedWorker(e)[j] = Start(j, e)[j]
                            ELSE DrainedWorker(e)[j] = worker[j]
      /\ Startable(e) => First(Pending(e)) \in DOMAIN queue /\ First(Pending(e)) # i
  BY <1>1, <1>4, DrainedWorkerType
<1>6. DrainedWorker(e)[i] = worker[i]
  BY <1>5
<1> DEFINE pc2 == IF Stale(e) THEN worker[i].pc ELSE pc
           one == [worker[i] EXCEPT !.pc = pc2]
<1>7. one.pc = pc2
  BY <1>1 DEF Worker
<1>8. worker' = [DrainedWorker(e) EXCEPT ![i] = one]
  BY <1>3, <1>5, <1>6
<1> HIDE DEF one
<1>9. worker'[i] = one /\ \A j \in Entries \ {i} : worker'[j] = DrainedWorker(e)[j]
  BY <1>5, <1>8
<1>10. WorksOn(i)
  BY <1>1, <1>3, <1>7, <1>9 DEF WorksOn, Working
<1>11. \A j \in Entries : Start(j, e)[j].pc = "admit"
  BY <1>1, StartType
<1>12. \A j \in DOMAIN queue : IF Startable(e) /\ j = First(Pending(e))
                               THEN worker'[j].pc = "admit" ELSE WorksOn(j)
  BY <1>1, <1>5, <1>9, <1>10, <1>11 DEF WorksOn
<1> QED
  BY <1>1, <1>3, <1>12, DrainSteady

(* A worker settles its entry, which is claimed unless the run was cancelled.  *)
LEMMA SettleSteady ==
  ASSUME CancelInv, ActiveInv, NEW i \in DOMAIN queue, worker[i].pc = "settle",
         NEW s \in {"pending", "completed", "failed"}, NEW pc \in {"drain", "stopped", "done"},
         queue' = SetEntry(i, s) \/ (queue' = queue /\ queue[i].status # "claimed"),
         worker' = Goto(i, pc), log = "cancelled" => log' = "cancelled", log' = log \/ Exec(i) = Root,
         log' # "cancelled" =>
           /\ \A c \in Contexts :
                \/ row'[Root].points[c] = row[Root].points[c]
                \/ Exec(i) = Root /\ Ctx(i) = c /\ (row'[Root].points[c] = "queued" => s = "pending")
           /\ row[Root].status = "cancelling" => row'[Root].status = "cancelling"
  PROVE  Steady
<1>1. /\ TypeOK /\ WorkersFit /\ i \in Entries /\ queue \in Seq(Entry) /\ queue[i] \in Entry
      /\ \A j \in DOMAIN queue : j \in Entries /\ Ctx(j) \in Contexts
  BY QueueTypes DEF CancelInv, CancelTypeOK, TypeOK
<1>2. /\ DOMAIN queue' = DOMAIN queue /\ queue'[i].exec = Exec(i) /\ queue'[i].ctx = Ctx(i)
      /\ queue'[i].status # "claimed" /\ queue'[i].staged = queue[i].staged
      /\ \A j \in DOMAIN queue \ {i} : queue'[j] = queue[j]
  <2>1. CASE queue' = SetEntry(i, s)
    <3> DEFINE one == [queue[i] EXCEPT !.status = s]
    <3>1. one.staged = queue[i].staged
      BY <1>1 DEF Entry
    <3>2. queue' = [queue EXCEPT ![i] = one]
      BY <2>1 DEF SetEntry
    <3> HIDE DEF one
    <3>3. queue'[i].staged = queue[i].staged
      BY <1>1, <3>1, <3>2
    <3> QED
      BY <1>1, <2>1, <3>3, EntryStatus
  <2>2. CASE queue' = queue /\ queue[i].status # "claimed"
    BY <2>2 DEF Exec, Ctx
  <2> QED
    BY <2>1, <2>2
<1>3. pc \in Pcs
  BY DEF Pcs
<1>4. worker'[i].pc = pc /\ \A j \in Entries \ {i} : worker'[j] = worker[j]
  BY <1>1, <1>3, GotoType
<1>5. ~Waits(i)
  BY <1>1 DEF WorkersFit, Busy, Working
<1>6. Exec(i) = Root /\ log # "cancelled" =>
        /\ queue[i].status = "claimed" /\ i \in Claimed(Root)
        /\ \A j \in DOMAIN queue : queue[j].status = "claimed" /\ Exec(j) = Root => j = i
        /\ \A j \in DOMAIN queue : worker[j].pc # "running"
  BY WorkIsClaimed DEF Working
<1>7. \A j \in DOMAIN queue : EntryStays(j)
  BY <1>1, <1>2, <1>4 DEF EntryStays, Exec, Ctx
<1>8. log' \in {log, "running", "cancelled"} \/ \A j \in DOMAIN queue : worker'[j].pc # "running"
  BY <1>1, <1>4, <1>6
<1>9. ASSUME log' # "cancelled", NEW j \in DOMAIN queue, Exec(j) = Root
      PROVE  EntryIsCarried(j)
  <2>1. CASE j = i
    BY <1>2, <1>4, <1>5, <2>1 DEF EntryIsCarried, Working
  <2>2. CASE j # i
    <3>1. queue'[j] = queue[j] /\ worker'[j] = worker[j]
      BY <1>1, <1>2, <1>4, <2>2
    <3>2. queue[j].status = "claimed" => row'[Root].points[Ctx(j)] = row[Root].points[Ctx(j)]
      BY <1>1, <1>6, <1>9, <2>2
    <3> QED
      BY <3>1, <3>2 DEF EntryIsCarried, Waits
  <2> QED
    BY <2>1, <2>2
<1>10. ASSUME log' # "cancelled", NEW c \in Contexts, row'[Root].points[c] = "queued"
       PROVE  \/ row[Root].points[c] = "queued"
              \/ \E j \in DOMAIN queue : Exec(j) = Root /\ Ctx(j) = c /\ Waits(j)'
  <2>1. SUFFICES ASSUME Exec(i) = Root, Ctx(i) = c, s = "pending"
                 PROVE  Waits(i)'
    BY <1>10
  <2>2. queue' = SetEntry(i, s)
    BY <1>6, <1>10, <2>1
  <2> QED
    BY <1>1, <2>1, <2>2, EntryStatus DEF Waits
<1>11. ClaimsNothing
  BY <1>2, <1>7, <1>8, <1>9, <1>10 DEF ClaimsNothing
<1>12. StagesNothing
  <2> SUFFICES ASSUME log' # "cancelled"
               PROVE  /\ \A j \in DOMAIN queue : queue'[j].staged => queue[j].staged /\ queue'[j].exec = Exec(j)
                      /\ row[Root].status = "cancelling" => (Claimed(Root) = {} => log' = log)
    BY <1>2 DEF StagesNothing
  <2>1. \A j \in DOMAIN queue : queue'[j].staged => queue[j].staged /\ queue'[j].exec = Exec(j)
    BY <1>2 DEF Exec
  <2> QED
    BY <1>6, <2>1
<1> QED
  BY <1>11, <1>12, NothingClaimed DEF Steady

LEMMA MarkFailedSteady ==
  ASSUME CancelInv, ActiveInv, NEW i \in Entries, MarkFailed(i)
  PROVE  Steady
<1> DEFINE e == Exec(i)
           c == Ctx(i)
           cut == LogIs(e, "cancelled") \/ row[e].status = "cancelled"
           r == SetPoint(row[e], c, "failed")
<1>1. /\ TypeOK /\ i \in DOMAIN queue /\ worker[i].pc = "settle" /\ row \in [Executions -> Row]
      /\ e \in Executions /\ c \in Contexts /\ row[e] \in Row /\ Root \in Executions
      /\ queue' = SetEntry(i, "failed") /\ worker' = Goto(i, "drain")
      /\ (log = "cancelled" => log' = "cancelled") /\ (log' = log \/ e = Root)
  BY QueueTypes, EntryTypes DEF CancelInv, CancelTypeOK, MarkFailed, At, TypeOK, LogIs
<1>2. log' # "cancelled" => row' = [row EXCEPT ![e] = r]
  <2>1. log' # "cancelled" => ~cut
    BY <1>1 DEF CancelInv, OnlyRootCancels, LogIs
  <2>2. ~cut => row' = [row EXCEPT ![e] = r]
    BY DEF MarkFailed
  <2> QED
    BY <2>1, <2>2
<1>3. /\ r \in Row /\ r.points[c] = "failed" /\ r.status = row[e].status
      /\ \A d \in Contexts \ {c} : r.points[d] = row[e].points[d]
  <2>1. "failed" \in PointStatuses
    BY DEF PointStatuses
  <2> QED
    BY <1>1, <2>1, PointType
<1> HIDE DEF r
<1>4. log' # "cancelled" => row'[e] = r /\ \A f \in Executions \ {e} : row'[f] = row[f]
  BY <1>1, <1>2, <1>3, RowUpdate
<1> QED
  BY <1>1, <1>3, <1>4, SettleSteady

LEMMA MarkAttemptFailedSteady ==
  ASSUME CancelInv, ActiveInv, NEW i \in Entries, MarkAttemptFailed(i)
  PROVE  Steady
<1> DEFINE e == Exec(i)
           c == Ctx(i)
           cut == LogIs(e, "cancelled") \/ row[e].status = "cancelled"
           s == IF CanRetry(i) THEN "pending" ELSE "failed"
           pc == IF Preserved(i) THEN "done" ELSE IF worker[i].out = "stopped" THEN "stopped" ELSE "drain"
           r == Attempted(i, row[e])
<1>1. /\ TypeOK /\ i \in DOMAIN queue /\ worker[i].pc = "settle" /\ row \in [Executions -> Row]
      /\ e \in Executions /\ c \in Contexts /\ row[e] \in Row /\ Root \in Executions
      /\ queue' = SetEntry(i, s) /\ worker' = Goto(i, pc)
      /\ (log = "cancelled" => log' = "cancelled") /\ (log' = log \/ e = Root)
  BY QueueTypes, EntryTypes DEF CancelInv, CancelTypeOK, MarkAttemptFailed, At, TypeOK, LogIs
<1>2. /\ s \in {"pending", "completed", "failed"} /\ pc \in {"drain", "stopped", "done"}
      /\ s = "pending" <=> CanRetry(i)
  OBVIOUS
<1> HIDE DEF s, pc
<1>3. log' # "cancelled" => row' = [row EXCEPT ![e] = r]
  <2>1. log' # "cancelled" => ~cut
    BY <1>1 DEF CancelInv, OnlyRootCancels, LogIs
  <2>2. ~cut => row' = [row EXCEPT ![e] = r]
    BY DEF MarkAttemptFailed
  <2> QED
    BY <2>1, <2>2
<1>4. /\ r \in Row /\ r.status = row[e].status
      /\ r.points[c] = IF CanRetry(i) THEN "queued" ELSE "paused"
      /\ \A d \in Contexts \ {c} : r.points[d] = row[e].points[d]
  BY <1>1, AttemptedType
<1> HIDE DEF r
<1>5. log' # "cancelled" => row'[e] = r /\ \A f \in Executions \ {e} : row'[f] = row[f]
  BY <1>1, <1>3, <1>4, RowUpdate
<1> QED
  BY <1>1, <1>2, <1>4, <1>5, SettleSteady

LEMMA MarkCompletedSteady ==
  ASSUME CancelInv, ActiveInv, NEW i \in Entries, MarkCompleted(i)
  PROVE  Steady
<1> DEFINE e == Exec(i)
           c == Ctx(i)
           wins == queue[i].status = "claimed" /\ ~CancellationWon(e) /\ worker[i].out = "finished"
           r == Completed(row[e], c)
<1>1. /\ TypeOK /\ i \in DOMAIN queue /\ worker[i].pc = "settle" /\ row \in [Executions -> Row]
      /\ e \in Executions /\ c \in Contexts /\ row[e] \in Row /\ Root \in Executions
      /\ queue' = SettledQueue(i) /\ worker' = Goto(i, "drain")
      /\ (log = "cancelled" => log' = "cancelled") /\ (log' = log \/ e = Root)
  BY QueueTypes, EntryTypes
     DEF CancelInv, CancelTypeOK, MarkCompleted, At, TypeOK, LogIs, CancellationWon
<1>2. \E s \in {"completed", "failed"} :
        queue' = SetEntry(i, s) \/ (queue' = queue /\ queue[i].status # "claimed")
  BY <1>1 DEF SettledQueue
<1>3. CASE wins
  <2>1. row' = [row EXCEPT ![e] = r] /\ row[e].status # "cancelling"
    BY <1>3 DEF MarkCompleted, CancellationWon
  <2>2. /\ r \in Row /\ r.points[c] = "resumed"
        /\ \A d \in Contexts \ {c} : r.points[d] = row[e].points[d]
    BY <1>1, CompletedType
  <2> HIDE DEF r
  <2>3. row'[e] = r /\ \A f \in Executions \ {e} : row'[f] = row[f]
    BY <1>1, <2>1, <2>2, RowUpdate
  <2> QED
    BY <1>1, <1>2, <2>1, <2>2, <2>3, SettleSteady
<1>4. CASE ~wins
  <2>1. log' = log
    BY <1>4 DEF MarkCompleted
  <2>2. log' # "cancelled" => row'[Root] = row[Root]
    <3>1. row' = IF CancellationWon(e) THEN CancelledRows(e) ELSE row
      BY <1>4 DEF MarkCompleted
    <3> QED
      BY <1>1, <2>1, <3>1 DEF CancelledRows, LogIs
  <2> QED
    BY <1>1, <1>2, <2>1, <2>2, SettleSteady
<1> QED
  BY <1>3, <1>4

-----------------------------------------------------------------------------
(* The cancellation is carried out. *)
LEMMA CompletesSteady ==
  ASSUME CancelInv, ActiveInv, NEW e \in Executions, CompleteCancellation(e), CancelCompletes(e),
         WorkersGoOn
  PROVE  ActiveInv' /\ log' = "cancelled"
<1>1. log' = "cancelled" /\ DOMAIN queue' = DOMAIN queue
  BY DEF CompleteCancellation
<1>2. ASSUME NEW j \in DOMAIN queue
      PROVE  EntryStays(j)
  <2> DEFINE one == [queue[j] EXCEPT !.status = "failed", !.staged = FALSE]
  <2>1. queue[j] \in Entry
    BY QueueTypes DEF CancelInv, CancelTypeOK
  <2>2. one.exec = queue[j].exec /\ one.ctx = queue[j].ctx /\ one.status = "failed"
    BY <2>1 DEF Entry
  <2>3. queue'[j] \in {one, queue[j]}
    BY DEF CompleteCancellation
  <2> HIDE DEF one
  <2> QED
    BY <2>2, <2>3 DEF EntryStays, WorkersGoOn, WorksOn
<1>3. ClaimsNothing
  BY <1>1, <1>2 DEF ClaimsNothing
<1> QED
  BY <1>1, <1>3, NothingClaimed

LEMMA StoppedResumeReadsSteady ==
  ASSUME CancelInv, ActiveInv, NEW i \in Entries, StoppedResumeReads(i)
  PROVE  Steady
<1>1. /\ i \in DOMAIN queue /\ TypeOK /\ UNCHANGED stores
      /\ {"completes", "drain"} \subseteq Pcs \ {"running"}
      /\ {"completes", "drain"} \cap Working = {} /\ "none" \in Outcomes
  BY QueueTypes, Names DEF CancelInv, CancelTypeOK, StoppedResumeReads, At, Working
<1>2. PICK pc \in {"completes", "drain"} : worker' = Goto(i, pc)
  BY DEF StoppedResumeReads
<1> QED
  BY <1>1, <1>2, WorkerSteady DEF stores

LEMMA StoppedResumeSteady ==
  ASSUME CancelInv, ActiveInv, NEW i \in Entries, StoppedResumeCancels(i)
  PROVE  Steady
<1>1. /\ i \in DOMAIN queue /\ Exec(i) \in Executions /\ worker' = Goto(i, "drain") /\ TypeOK
      /\ "drain" \in Pcs \ {"running"} /\ "drain" \notin Working /\ "none" \in Outcomes
  BY QueueTypes, Names DEF CancelInv, CancelTypeOK, StoppedResumeCancels, At, Working
<1>2. CASE UNCHANGED stores
  BY <1>1, <1>2, WorkerSteady DEF stores
<1>3. CASE CompleteCancellation(Exec(i)) /\ CancelCompletes(Exec(i))
  <2>1. WorkersGoOn
    <3>1. \A j \in DOMAIN queue : j \in Entries
      BY <1>1, QueueTypes
    <3> QED
      BY <1>1, <3>1, GotoType DEF WorkersGoOn, WorksOn
  <2> QED
    BY <1>1, <1>3, <2>1, CompletesSteady DEF Steady, StagesNothing
<1> QED
  BY <1>2, <1>3 DEF StoppedResumeCancels, CompleteCancellation

(* The poller gives up on a point.  It is not queued: either the point is      *)
(* offered again, or one of its resumes is claimed.                           *)
LEMMA PollWaitsSteady ==
  ASSUME CancelInv, ActiveInv, PollWaits
  PROVE  Steady
<1> DEFINE e == poll.exec
           c == CHOOSE d \in poll.due : TRUE
<1>1. /\ TypeOK /\ poll.pc = "prepare" /\ e \in Executions /\ log' = log /\ worker' = worker
      /\ row \in [Executions -> Row] /\ row[e] \in Row /\ Root \in Executions /\ DueFit
      /\ ClaimsSurvive /\ \A j \in DOMAIN queue : queue[j] \in Entry /\ Ctx(j) \in Contexts
  BY QueueTypes, EntryTypes DEF CancelInv, CancelTypeOK, TypeOK, Poll, PollWaits, ActiveInv
<1>2. c \in Contexts
  BY <1>1, PauseAssumption DEF DueFit
<1>3. PICK waiting \in BOOLEAN :
        \/ row' = row /\ queue' = queue
        \/ /\ row[e].status \in Resumable
           /\ queue' = [i \in DOMAIN queue |->
                         IF ~waiting /\ i \in Pending(e) /\ Ctx(i) = c
                         THEN [queue[i] EXCEPT !.status = "failed"] ELSE queue[i]]
           /\ row' = [row EXCEPT ![e] = Waited(e, c, waiting)]
           /\ waiting => row[e].retries < MaxRetries
  BY DEF PollWaits
<1> HIDE DEF c, e
<1>4. WorkersGoOn
  BY <1>1 DEF WorkersGoOn, WorksOn
<1>5. CASE row' = row /\ queue' = queue
  BY <1>1, <1>4, <1>5, SteadyAlone
<1>6. CASE /\ row[e].status \in Resumable
           /\ queue' = [i \in DOMAIN queue |->
                         IF ~waiting /\ i \in Pending(e) /\ Ctx(i) = c
                         THEN [queue[i] EXCEPT !.status = "failed"] ELSE queue[i]]
           /\ row' = [row EXCEPT ![e] = Waited(e, c, waiting)]
           /\ waiting => row[e].retries < MaxRetries
  <2> DEFINE held == \E i \in Claimed(e) : Ctx(i) = c
             q == IF waiting \/ held THEN row[e] ELSE SetPoint(row[e], c, "paused")
             n == IF waiting THEN q.retries + 1 ELSE q.retries
             r == [q EXCEPT !.next = waiting, !.retries = n]
  <2>1. /\ q \in Row /\ q.status = row[e].status
        /\ \A d \in Contexts \ {c} : q.points[d] = row[e].points[d]
        /\ IF waiting \/ held THEN q.points = row[e].points ELSE q.points[c] = "paused"
    <3>1. "paused" \in PointStatuses
      BY DEF PointStatuses
    <3> QED
      BY <1>1, <1>2, <3>1, PointType
  <2>2. row' = [row EXCEPT ![e] = r]
    <3>1. Waited(e, c, waiting) = [q EXCEPT !.next = waiting, !.retries = IF waiting THEN @ + 1 ELSE @]
      BY DEF Waited
    <3> HIDE DEF q
    <3>2. Waited(e, c, waiting) = r
      BY <2>1, <3>1 DEF Row
    <3> QED
      BY <1>6, <3>2
  <2> HIDE DEF q, n
  <2>3. r.points = q.points /\ r.status = q.status
    BY <2>1 DEF Row
  <2> HIDE DEF r
  <2>4. /\ row'[e] = r /\ \A f \in Executions \ {e} : row'[f] = row[f]
        /\ row'[Root].status = row[Root].status
    BY <1>1, <2>1, <2>2, <2>3
  <2>5. ASSUME NEW j \in DOMAIN queue
        PROVE  /\ queue'[j].exec = Exec(j) /\ queue'[j].ctx = Ctx(j) /\ queue'[j].staged = queue[j].staged
               /\ queue'[j].status \in {"failed", queue[j].status}
               /\ queue'[j].status = queue[j].status \/ (~waiting /\ Exec(j) = e /\ Ctx(j) = c)
    <3> DEFINE one == [queue[j] EXCEPT !.status = "failed"]
    <3>1. /\ one.exec = Exec(j) /\ one.ctx = Ctx(j) /\ one.staged = queue[j].staged
          /\ one.status = "failed"
      BY <1>1 DEF Entry, Exec, Ctx
    <3>2. \/ queue'[j] = queue[j]
          \/ queue'[j] = one /\ ~waiting /\ Exec(j) = e /\ Ctx(j) = c
      BY <1>6 DEF Pending, WithStatus, Exec
    <3> HIDE DEF one
    <3> QED
      BY <3>1, <3>2 DEF Exec, Ctx
  <2>6. \A j \in DOMAIN queue : EntryStays(j)
    BY <1>1, <2>5 DEF EntryStays, Exec, Ctx
  <2>7. held /\ e = Root /\ log # "cancelled" => row[Root].points[c] = "resuming"
    BY <1>1 DEF Claimed, WithStatus, ClaimsSurvive, Exec
  <2>8. ASSUME log # "cancelled", NEW j \in DOMAIN queue, Exec(j) = Root
        PROVE  EntryIsCarried(j)
    <3>1. queue[j].status = "claimed" /\ e = Root /\ Ctx(j) = c => held
      BY <2>8 DEF Claimed, WithStatus, Exec
    <3>2. queue[j].status = "claimed" => row'[Root].points[Ctx(j)] = row[Root].points[Ctx(j)]
      BY <1>1, <2>1, <2>3, <2>4, <3>1
    <3>3. queue'[j].status = "claimed" => queue[j].status = "claimed"
      BY <2>5
    <3>4. Waits(j) => Waits(j)' \/ row'[Root].points[Ctx(j)] # "queued"
      <4>1. SUFFICES ASSUME ~waiting, e = Root, Ctx(j) = c
                     PROVE  row'[Root].points[c] # "queued"
        BY <2>5, <2>8 DEF Waits
      <4> QED
        BY <2>1, <2>3, <2>4, <2>7, <2>8, <4>1
    <3> DEFINE stays == queue[j].status = "claimed" => queue'[j].status = "claimed"
    <3>5. stays
      BY <1>6, <2>5 DEF Pending, WithStatus
    <3> QED
      BY <1>1, <3>2, <3>3, <3>4, <3>5 DEF EntryIsCarried
  <2>9. \A d \in Contexts : row'[Root].points[d] = "queued" => row[Root].points[d] = "queued"
    BY <1>1, <2>1, <2>3, <2>4
  <2>10. DOMAIN queue' = DOMAIN queue
    BY <1>6
  <2>11. ClaimsNothing
    BY <1>1, <2>6, <2>8, <2>9, <2>10 DEF ClaimsNothing
  <2>12. StagesNothing
    BY <1>1, <2>4, <2>5, <2>10 DEF StagesNothing
  <2> QED
    BY <2>11, <2>12, NothingClaimed DEF Steady
<1> QED
  BY <1>3, <1>5, <1>6

(* A resume is asked for.  The point waited, so none of its resumes is claimed. *)
LEMMA EnqueueSteady ==
  ASSUME CancelInv, ActiveInv, NEW e \in Executions, NEW c \in Contexts, Enqueue(e, c), log' = log
  PROVE  Steady
<1>0. PICK p : p = Len(queue) + 1
  OBVIOUS
<1> DEFINE busy == Claimed(e) # {}
           new == [exec |-> e, ctx |-> c, staged |-> FALSE, status |-> IF busy THEN "pending" ELSE "claimed"]
           s == IF busy THEN "queued" ELSE "resuming"
           r == SetPoint(row[e], c, s)
<1>1. /\ TypeOK /\ WorkersFit /\ row[e] \in Row /\ s \in PointStatuses /\ row \in [Executions -> Row]
      /\ OneIsActive /\ ClaimsSurvive /\ QueuedPointsWait /\ Root \in Executions
      /\ \A j \in DOMAIN queue : j \in Entries /\ Ctx(j) \in Contexts
  BY QueueTypes, EntryTypes DEF CancelInv, CancelTypeOK, TypeOK, ActiveInv, PointStatuses
<1>2. /\ p <= MaxEntries /\ row[e].status \in Resumable /\ row[e].points[c] = "paused"
      /\ queue' = Append(queue, new) /\ row' = [row EXCEPT ![e] = r]
      /\ worker' = IF busy THEN worker ELSE Start(p, e)
  BY <1>0 DEF Enqueue
<1>3. /\ new \in Entry /\ new.exec = e /\ new.ctx = c /\ ~new.staged
      /\ new.status = IF busy THEN "pending" ELSE "claimed"
  BY DEF Entry
<1> HIDE DEF new
<1>4. /\ DOMAIN queue' = DOMAIN queue \cup {p}
      /\ queue'[p] = new /\ p \in Entries /\ p \notin DOMAIN queue
      /\ \A j \in DOMAIN queue : queue'[j] = queue[j]
  BY <1>0, <1>1, <1>2, <1>3, AppendType
<1>5. /\ r \in Row /\ r.points[c] = s /\ r.status = row[e].status
      /\ \A d \in Contexts \ {c} : r.points[d] = row[e].points[d]
  BY <1>1, PointType
<1> HIDE DEF r
<1>6. row'[e] = r /\ \A f \in Executions \ {e} : row'[f] = row[f]
  BY <1>1, <1>2, <1>5, RowUpdate
<1>7. /\ \A j \in DOMAIN queue : worker'[j] = worker[j]
      /\ worker'[p].pc = IF busy THEN "idle" ELSE "admit"
  <2>1. worker[p].pc = "idle"
    BY <1>1, <1>4 DEF WorkersFit
  <2>2. CASE busy
    BY <1>2, <2>1, <2>2
  <2>3. CASE ~busy
    BY <1>1, <1>2, <1>4, <2>3, StartType
  <2> QED
    BY <2>2, <2>3
<1>8. \A j \in DOMAIN queue : Exec(j) = e /\ queue[j].status = "claimed" => busy
  BY DEF Claimed, WithStatus, Exec
<1> HIDE DEF busy
<1>9. \A j \in DOMAIN queue : Exec(j)' = Exec(j) /\ Ctx(j)' = Ctx(j) /\ (Waits(j)' <=> Waits(j))
  BY <1>4 DEF Exec, Ctx, Waits
<1>10. OneIsActive'
  <2>1. ASSUME NEW i \in DOMAIN queue', worker'[i].pc = "running"
        PROVE  /\ Exec(i)' = Root /\ log' \in {"running", "cancelled"}
               /\ \A j \in DOMAIN queue' : worker'[j].pc = "running" => j = i
    <3>1. i \in DOMAIN queue /\ worker[i].pc = "running"
      BY <1>4, <1>7, <2>1
    <3>2. \A j \in DOMAIN queue' : worker'[j].pc = "running" => j \in DOMAIN queue /\ worker[j].pc = "running"
      BY <1>4, <1>7
    <3> QED
      BY <1>1, <1>9, <3>1, <3>2 DEF OneIsActive
  <2>2. ASSUME NEW i \in DOMAIN queue', NEW j \in DOMAIN queue', queue'[i].exec = queue'[j].exec,
               queue'[i].status = "claimed", queue'[j].status = "claimed"
        PROVE  i = j
    BY <1>1, <1>3, <1>4, <1>8, <2>2 DEF OneIsActive, Exec
  <2> QED
    BY <2>1, <2>2 DEF OneIsActive, Exec
<1>11. ASSUME log # "cancelled"
       PROVE  ClaimsSurvive' /\ QueuedPointsWait'
  <2>1. ASSUME NEW i \in DOMAIN queue', queue'[i].exec = Root
        PROVE  /\ worker'[i].pc \in Working => queue'[i].status = "claimed"
               /\ queue'[i].status = "claimed" => row'[Root].points[queue'[i].ctx] = "resuming"
    <3>1. CASE i = p
      BY <1>1, <1>3, <1>4, <1>5, <1>6, <1>7, <2>1, <3>1 DEF Working
    <3>2. CASE i \in DOMAIN queue
      <4>1. /\ worker[i].pc \in Working => queue[i].status = "claimed"
            /\ queue[i].status = "claimed" => row[Root].points[Ctx(i)] = "resuming"
            /\ queue'[i].ctx = Ctx(i) /\ Ctx(i) \in Contexts
        BY <1>1, <1>4, <1>11, <2>1, <3>2 DEF ClaimsSurvive, Exec, Ctx
      <4>2. queue[i].status = "claimed" => row'[Root].points[Ctx(i)] = "resuming"
        BY <1>1, <1>2, <1>5, <1>6, <4>1
      <4> QED
        BY <1>4, <1>7, <3>2, <4>1, <4>2
    <3> QED
      BY <1>4, <3>1, <3>2
  <2>2. ASSUME NEW d \in Contexts, row'[Root].points[d] = "queued"
        PROVE  \E i \in DOMAIN queue' : queue'[i].exec = Root /\ queue'[i].ctx = d /\ Waits(i)'
    <3>1. CASE e = Root /\ d = c
      <4>1. busy
        BY <1>5, <1>6, <2>2, <3>1
      <4>2. Waits(p)'
        BY <1>3, <1>4, <4>1 DEF Waits
      <4> QED
        BY <1>3, <1>4, <3>1, <4>2
    <3>2. CASE ~(e = Root /\ d = c)
      <4>1. row[Root].points[d] = "queued"
        BY <1>1, <1>5, <1>6, <2>2, <3>2
      <4>2. PICK i \in DOMAIN queue : Exec(i) = Root /\ Ctx(i) = d /\ Waits(i)
        BY <1>1, <1>11, <4>1 DEF QueuedPointsWait
      <4> QED
        BY <1>4, <1>9, <4>2 DEF Exec, Ctx
    <3> QED
      BY <3>1, <3>2
  <2>3. ClaimsSurvive'
    BY <2>1 DEF ClaimsSurvive, Exec, Ctx
  <2> QED
    BY <2>2, <2>3 DEF QueuedPointsWait, Exec, Ctx
<1>12. ActiveInv'
  BY <1>10, <1>11 DEF ActiveInv, ClaimsSurvive, QueuedPointsWait
<1>13. StagesNothing
  <2>1. row'[Root].status = row[Root].status
    BY <1>1, <1>5, <1>6
  <2> QED
    BY <1>3, <1>4, <2>1 DEF StagesNothing, Exec
<1> QED
  BY <1>12, <1>13 DEF Steady

LEMMA ResumesSteady ==
  ASSUME CancelInv, ActiveInv,
         PollResumes \/ \E e \in Executions, c \in Contexts : Resume(e, c)
  PROVE  Steady
<1>1. CASE \E e \in Executions, c \in Contexts : Resume(e, c)
  BY <1>1, EnqueueSteady DEF Resume
<1>2. CASE PollResumes
  <2>1. /\ TypeOK /\ poll.exec \in Executions /\ poll.pc = "enqueue" /\ log' = log
        /\ poll.due \subseteq Contexts
    BY <1>2, PauseAssumption DEF CancelInv, CancelTypeOK, TypeOK, Poll, PollResumes
  <2>2. PICK c \in poll.due : Enqueue(poll.exec, c) \/ UNCHANGED <<row, queue, worker>>
    BY <1>2 DEF PollResumes
  <2>3. CASE UNCHANGED <<row, queue, worker>>
    <3>1. WorkersGoOn
      BY <2>3 DEF WorkersGoOn, WorksOn
    <3> QED
      BY <2>1, <2>3, <3>1, SteadyAlone
  <2>4. CASE Enqueue(poll.exec, c)
    BY <2>1, <2>4, EnqueueSteady
  <2> QED
    BY <2>2, <2>3, <2>4
<1> QED
  BY <1>1, <1>2

(* No step of the run, its resumes or the poller disturbs any of this.         *)
LEMMA NextSteady ==
  ASSUME CancelInv, ActiveInv, Next \/ RunStops
  PROVE  Steady
<1>1. CASE RunStops \/ Run
  BY <1>1, RunSteady, PlainDrainsSteady DEF Run
<1>2. CASE \E e \in Executions, c \in Contexts : Resume(e, c)
  BY <1>2, ResumesSteady
<1>3. CASE PollStep
  BY <1>3, PollQuietSteady, PollWaitsSteady, ResumesSteady, PlainDrainsSteady DEF PollStep
<1>4. CASE Crash
  BY <1>4, CrashSteady
<1>5. ASSUME NEW i \in Entries, Work(i)
      PROVE  Steady
  <2>1. CASE ClaimLog(i)
    BY <2>1, ClaimLogSteady
  <2>2. CASE EngineEnds(i)
    BY <2>2, EngineEndsSteady
  <2>3. CASE NotAdmitted(i) \/ NotDispatched(i)
    BY <2>3, LeavesSteady
  <2>4. CASE UpdateSnapshot(i) \/ PersistAgain(i) \/ PersistAgainFails(i)
    BY <2>4, SnapshotSteady
  <2>5. CASE DrainChild(i) \/ WorkerDrains(i)
    BY <2>5, WorkerDrainsSteady
  <2>6. CASE MarkCompleted(i)
    BY <2>6, MarkCompletedSteady
  <2>7. CASE MarkFailed(i)
    BY <2>7, MarkFailedSteady
  <2>8. CASE MarkAttemptFailed(i)
    BY <2>8, MarkAttemptFailedSteady
  <2>9. CASE StoppedResumeReads(i)
    BY <2>9, StoppedResumeReadsSteady
  <2> QED
    BY <1>5, <2>1, <2>2, <2>3, <2>4, <2>5, <2>6, <2>7, <2>8, <2>9 DEF Work
<1> QED
  BY <1>1, <1>2, <1>3, <1>4, <1>5 DEF Next

-----------------------------------------------------------------------------
(* The steps of a request.                                                   *)

(* Entries that are not claimed are marked, none to fail for good.             *)
LEMMA MarkActive ==
  ASSUME CancelInv, ActiveInv, DOMAIN queue' = DOMAIN queue, worker' = worker, log' = log,
         \A j \in DOMAIN queue :
           /\ queue'[j].exec = Exec(j) /\ queue'[j].ctx = Ctx(j)
           /\ queue'[j].status = "claimed" <=> queue[j].status = "claimed"
           /\ Waits(j) => Waits(j)',
         \A c \in Contexts : \/ row'[Root].points[c] = row[Root].points[c]
                             \/ row'[Root].points[c] # "queued" /\ Claimed(Root) = {}
  PROVE  ActiveInv'
<1>1. \A j \in DOMAIN queue : Ctx(j) \in Contexts
  BY QueueTypes DEF CancelInv, CancelTypeOK
<1>2. ASSUME NEW j \in DOMAIN queue
      PROVE  EntryStays(j) /\ (Exec(j) = Root => EntryIsCarried(j))
  <2>1. Exec(j) = Root /\ queue[j].status = "claimed" =>
          row'[Root].points[Ctx(j)] = row[Root].points[Ctx(j)]
    BY <1>1 DEF Claimed, WithStatus, Exec
  <2> QED
    BY <2>1 DEF EntryStays, EntryIsCarried, Exec, Ctx
<1>3. ClaimsNothing
  BY <1>2 DEF ClaimsNothing
<1> QED
  BY <1>3, NothingClaimed

LEMMA RootPoints ==
  ASSUME CancelInv, NEW r, row' = WithRoot(r)
  PROVE  row'[Root] = r
BY EntryTypes DEF CancelInv, CancelTypeOK, TypeOK, WithRoot

LEMMA StageActive ==
  ASSUME CancelInv, ActiveInv, queue' = StagedQueue,
         row' = WithRoot([row[Root] EXCEPT !.status = "cancelling"]), worker' = worker, log' = log
  PROVE  ActiveInv'
<1>1. TypeOK
  BY DEF CancelInv, CancelTypeOK
<1> DEFINE r == [row[Root] EXCEPT !.status = "cancelling"]
<1>2. r.points = row[Root].points
  BY <1>1, MarkType DEF RowStatuses
<1> HIDE DEF r
<1>3. row'[Root].points = row[Root].points
  BY <1>2, RootPoints DEF r
<1>4. ASSUME NEW j \in DOMAIN queue
      PROVE  /\ queue'[j].exec = Exec(j) /\ queue'[j].ctx = Ctx(j)
             /\ queue'[j].status = "claimed" <=> queue[j].status = "claimed"
             /\ Waits(j) => Waits(j)'
  <2> DEFINE one == [queue[j] EXCEPT !.status = "failed", !.staged = TRUE]
  <2>1. queue[j] \in Entry
    BY <1>1, QueueTypes
  <2>2. /\ one.exec = queue[j].exec /\ one.ctx = queue[j].ctx /\ one.status = "failed"
        /\ one.staged
    BY <2>1 DEF Entry
  <2>3. queue'[j] = queue[j] \/ (queue'[j] = one /\ queue[j].status = "pending")
    BY DEF StagedQueue, Pending, WithStatus
  <2> HIDE DEF one
  <2> QED
    BY <2>2, <2>3 DEF Exec, Ctx, Waits
<1>5. DOMAIN queue' = DOMAIN queue
  BY DEF StagedQueue
<1> QED
  BY <1>3, <1>4, <1>5, MarkActive

(* A staging is undone: at most a point that no entry claims is offered again.  *)
LEMMA UndoneActive ==
  ASSUME CancelInv, ActiveInv, queue' = queue \/ queue' = RestoredQueue, worker' = worker, log' = log,
         \A c \in Contexts : \/ row'[Root].points[c] = row[Root].points[c]
                             \/ row'[Root].points[c] # "queued" /\ Claimed(Root) = {}
  PROVE  ActiveInv'
<1>1. ASSUME NEW j \in DOMAIN queue
      PROVE  /\ queue'[j].exec = Exec(j) /\ queue'[j].ctx = Ctx(j)
             /\ queue'[j].status = "claimed" <=> queue[j].status = "claimed"
             /\ Waits(j) => Waits(j)'
  <2> DEFINE one == [queue[j] EXCEPT !.status = "pending", !.staged = FALSE]
  <2>1. queue[j] \in Entry
    BY QueueTypes DEF CancelInv, CancelTypeOK
  <2>2. one.exec = queue[j].exec /\ one.ctx = queue[j].ctx /\ one.status = "pending"
    BY <2>1 DEF Entry
  <2>3. queue'[j] = queue[j] \/ (queue'[j] = one /\ queue[j].status = "failed")
    BY DEF RestoredQueue
  <2> HIDE DEF one
  <2> QED
    BY <2>2, <2>3 DEF Exec, Ctx, Waits
<1>2. DOMAIN queue' = DOMAIN queue
  BY DEF RestoredQueue
<1> QED
  BY <1>1, <1>2, MarkActive

LEMMA CancelRollsBackActive ==
  ASSUME CancelInv, ActiveInv, NEW k \in Cancellers, CancelRollsBack(k)
  PROVE  ActiveInv'
<1> DEFINE t == cancel[k].target
           c == queue[t].ctx
           p == [SetPoint(row[Root], c, "paused") EXCEPT !.retries = 0, !.next = FALSE]
<1>1. /\ TypeOK /\ UNCHANGED <<log, worker>> /\ row[Root] \in Row /\ cancel[k].pc = "rollback"
  BY EntryTypes DEF CancelInv, CancelTypeOK, TypeOK, CancelRollsBack, Here
<1>2. t \in DOMAIN queue /\ c \in Contexts
  BY <1>1, QueueTypes DEF CancelInv, TargetsExist, Ctx
<1>3. queue' = queue \/ queue' = RestoredQueue
  BY DEF CancelRollsBack
<1>4. CASE CanRollBack(t)
  <2>1. row' = WithRoot(RolledBack(t)) /\ Claimed(Root) \subseteq {t}
    BY <1>4 DEF CanRollBack, CancelRollsBack
  <2>2. row'[Root] = RolledBack(t)
    BY <2>1, RootPoints
  <2>3. CASE queue[t].status = "failed"
    <3>1. Claimed(Root) = {}
      BY <2>1, <2>3 DEF Claimed, WithStatus
    <3> DEFINE q == SetPoint(row[Root], c, "paused")
    <3>2. /\ q \in Row /\ q.points[c] = "paused"
          /\ \A d \in Contexts \ {c} : q.points[d] = row[Root].points[d]
      <4>1. "paused" \in PointStatuses
        BY DEF PointStatuses
      <4> QED
        BY <1>1, <1>2, <4>1, PointType
    <3>3. p \in Row /\ p.points = q.points
      <4>1. p = [q EXCEPT !.retries = 0, !.next = FALSE] /\ 0 \in 0 .. MaxRetries
        BY BoundTypes
      <4> HIDE DEF q, p
      <4>2. /\ [q EXCEPT !.retries = 0, !.next = FALSE] \in Row
            /\ [q EXCEPT !.retries = 0, !.next = FALSE].points = q.points
        BY <3>2, <4>1 DEF Row
      <4> QED
        BY <4>1, <4>2
    <3> HIDE DEF q
    <3>4. RolledBack(t) = Withdrawn(p)
      BY <2>3 DEF RolledBack
    <3> HIDE DEF p
    <3>5. RolledBack(t).points = q.points
      BY <3>3, <3>4, WithdrawnType
    <3> HIDE DEF t, c
    <3>6. \A d \in Contexts : \/ row'[Root].points[d] = row[Root].points[d]
                              \/ row'[Root].points[d] # "queued" /\ Claimed(Root) = {}
      BY <2>2, <3>1, <3>2, <3>5
    <3> QED
      BY <1>1, <1>3, <3>6, UndoneActive
  <2>4. CASE queue[t].status # "failed"
    <3>1. RolledBack(t).points = row[Root].points
      BY <1>1, <2>4, WithdrawnType DEF RolledBack
    <3> HIDE DEF t, c
    <3> QED
      BY <1>1, <1>3, <2>2, <3>1, UndoneActive
  <2> QED
    BY <2>3, <2>4
<1>5. CASE ~CanRollBack(t)
  BY <1>1, <1>3, <1>5, UndoneActive DEF CancelRollsBack
<1> QED
  BY <1>4, <1>5

LEMMA CancelClearsActive ==
  ASSUME CancelInv, ActiveInv, NEW k \in Cancellers, CancelClears(k)
  PROVE  ActiveInv'
<1>1. /\ row[Root] \in Row /\ UNCHANGED <<log, worker>> /\ (queue' = queue \/ queue' = RestoredQueue)
      /\ row' = row \/ row' = WithRoot(Withdrawn(row[Root]))
  BY EntryTypes DEF CancelInv, CancelTypeOK, TypeOK, CancelClears
<1>2. row'[Root].points = row[Root].points
  BY <1>1, RootPoints, WithdrawnType
<1> QED
  BY <1>1, <1>2, UndoneActive

(* A request asks, decides, writes the log, or only marks the row.             *)
LEMMA AsksActive ==
  ASSUME CancelInv, ActiveInv, NEW k \in Cancellers,
         \/ CancelReads(k) \/ CancelSignals(k) \/ CancelSignalsRun(k) \/ CancelClaimsLog(k)
         \/ CancelClaimFails(k) \/ CancelSignalsAgain(k) \/ CancelPublishes(k) \/ V2Begins(k)
         \/ V2ReadsStatus(k) \/ V2SignalsRun(k) \/ V2ClaimsLog(k) \/ V2Publishes(k) \/ CancelDies(k)
  PROVE  ActiveInv'
<1>1. TypeOK /\ \A j \in DOMAIN queue : worker[j] \in Worker
  BY QueueTypes DEF CancelInv, CancelTypeOK, TypeOK
<1>2. /\ queue' = queue /\ log' \in {log, "cancelled"}
      /\ row' = row \/ row' = WithRoot([row[Root] EXCEPT !.status = "cancelling"])
      /\ worker' = worker \/ worker' = [worker EXCEPT ![cancel[k].target].signalled = TRUE]
  <2>1. CASE CancelReads(k) \/ CancelClaimFails(k) \/ CancelPublishes(k) \/ V2ReadsStatus(k)
             \/ V2Publishes(k) \/ CancelDies(k)
    BY <2>1 DEF CancelReads, CancelClaimFails, CancelPublishes, V2ReadsStatus, V2Publishes,
                CancelDies, vars, stores
  <2>2. CASE CancelSignalsRun(k) \/ V2SignalsRun(k)
    BY <2>2 DEF CancelSignalsRun, V2SignalsRun, stores
  <2>3. CASE CancelClaimsLog(k) \/ V2ClaimsLog(k)
    BY <2>3 DEF CancelClaimsLog, V2ClaimsLog
  <2>4. CASE CancelSignals(k) \/ CancelSignalsAgain(k)
    BY <2>4 DEF CancelSignals, CancelSignalsAgain, SignalsResume, stores
  <2>5. CASE V2Begins(k)
    BY <2>5 DEF V2Begins
  <2> QED
    BY <2>1, <2>2, <2>3, <2>4, <2>5
<1>3. row'[Root].points = row[Root].points
  BY <1>1, <1>2, RootPoints, MarkType DEF RowStatuses
<1>4. WorkersGoOn
  <2> DEFINE t == cancel[k].target
             one == [worker[t] EXCEPT !.signalled = TRUE]
  <2>1. t \in DOMAIN queue => one.pc = worker[t].pc
    BY <1>1 DEF Worker
  <2>2. worker' = worker \/ worker' = [worker EXCEPT ![t] = one]
    BY <1>2
  <2> HIDE DEF one, t
  <2>3. worker \in [Entries -> Worker] /\ \A j \in DOMAIN queue : j \in Entries
    BY <1>1, QueueTypes DEF TypeOK
  <2> QED
    BY <2>1, <2>2, <2>3 DEF WorkersGoOn, WorksOn
<1> QED
  BY <1>2, <1>3, <1>4, EntriesAlone

LEMMA RequestActive ==
  ASSUME CancelInv, ActiveInv, NEW k \in Cancellers, CancelStep(k) \/ CancelDies(k)
  PROVE  ActiveInv'
<1>1. TypeOK /\ Root \in Executions /\ row[Root].points = row[Root].points
  BY EntryTypes DEF CancelInv, CancelTypeOK
<1>2. ASSUME row' = row, queue' = queue, worker' = worker, log' = log
      PROVE  ActiveInv'
  BY <1>2, EntriesAlone DEF WorkersGoOn, WorksOn
<1>3. CASE CancelStages(k) \/ CancelRechecks(k)
  <2>1. Stage /\ worker' = worker /\ log' = log
    BY <1>3 DEF CancelStages, CancelRechecks
  <2> QED
    BY <1>2, <2>1, StageActive DEF Stage
<1>4. CASE V2Blocks(k)
  BY <1>2, <1>4, StageActive DEF V2Blocks
<1>5. CASE CancelRollsBack(k)
  BY <1>5, CancelRollsBackActive
<1>6. CASE CancelClears(k)
  BY <1>6, CancelClearsActive
<1>7. CASE CancelDrains(k)
  BY <1>1, <1>7, DrainsSteady DEF CancelDrains, Steady
<1>8. CASE CancelCompletesRow(k)
  <2>1. CompleteCancellation(Root) /\ worker' = worker
    BY <1>8 DEF CancelCompletesRow
  <2>2. CASE CancelCompletes(Root)
    BY <1>1, <2>1, <2>2, CompletesSteady DEF WorkersGoOn, WorksOn
  <2>3. CASE ~CancelCompletes(Root)
    BY <1>2, <2>1, <2>3 DEF CompleteCancellation, stores
  <2> QED
    BY <2>2, <2>3
<1> QED
  BY <1>3, <1>4, <1>5, <1>6, <1>7, <1>8, AsksActive DEF CancelStep

-----------------------------------------------------------------------------
(* What a single request has taken away, it gives back.                        *)

(* At most one request has been made.                                         *)
OneRequest == \A j, k \in Cancellers : cancel[j].pc # "idle" /\ cancel[k].pc # "idle" => j = k

NoneStaged == \A i \in DOMAIN queue : Exec(i) = Root => ~queue[i].staged

(* Where a request that has taken entries away can be: on its way to cancel the *)
(* run or to undo the staging, or over.  About to undo it, it finds the run    *)
(* live, and no resume that could pause it or end it.                         *)
StagedAt(k) ==
  /\ cancel[k].pc \in {"signal", "claimLog", "claimStopped", "rollback", "clear", "logV2", "done"}
  /\ cancel[k].pc = "clear" \/ (cancel[k].pc \in {"claimLog", "claimStopped"} /\ cancel[k].target = 0) =>
       log \in {"running", "pending"} /\ Claimed(Root) = {}

Stages(k) == NoneStaged \/ (row[Root].status = "cancelling" /\ StagedAt(k))

StagingFits ==
  /\ \A k \in Cancellers : cancel[k].pc \in {"post", "postSignal", "publish"} => log = "cancelled"
  /\ log # "cancelled" /\ OneRequest =>
       \/ NoneStaged
       \/ /\ row[Root].status = "cancelling"
          /\ \E k \in Cancellers : cancel[k].pc # "idle"
          /\ \A k \in Cancellers : cancel[k].pc # "idle" => StagedAt(k)

(* A step of another process.                                                *)
LEMMA OthersStaging ==
  ASSUME CancelInv, StagingFits, StagesNothing, Good, UNCHANGED cancelVars
  PROVE  StagingFits'
<1>1. (log = "cancelled" => log' = "cancelled") /\ cancel' = cancel /\ ClaimsResumable
  BY DEF Good, StaysCancelled, cancelVars
<1>2. \A k \in Cancellers : cancel'[k].pc \in {"post", "postSignal", "publish"} => log' = "cancelled"
  BY <1>1 DEF StagingFits
<1>3. SUFFICES ASSUME log' # "cancelled", OneRequest, ~NoneStaged'
               PROVE  /\ row'[Root].status = "cancelling"
                      /\ \E k \in Cancellers : cancel[k].pc # "idle"
                      /\ \A k \in Cancellers : cancel[k].pc # "idle" => StagedAt(k)'
  BY <1>1, <1>2 DEF StagingFits, OneRequest
<1>4. ~NoneStaged
  BY <1>3 DEF StagesNothing, NoneStaged, Exec
<1>5. /\ row[Root].status = "cancelling"
      /\ \E k \in Cancellers : cancel[k].pc # "idle"
      /\ \A k \in Cancellers : cancel[k].pc # "idle" => StagedAt(k)
  BY <1>1, <1>3, <1>4 DEF StagingFits
<1>6. row'[Root].status = "cancelling" /\ (Claimed(Root) = {} => log' = log)
  BY <1>3, <1>5 DEF StagesNothing
<1>7. Claimed(Root) = {} => Claimed(Root)' = {}
  <2>1. \A i \in DOMAIN queue' : queue'[i].status = "claimed" /\ queue'[i].exec = Root =>
          i \in DOMAIN queue /\ queue[i].status = "claimed" /\ Exec(i) = Root
    BY <1>1, <1>5 DEF ClaimsResumable, Resumable
  <2> QED
    BY <2>1 DEF Claimed, WithStatus, Exec
<1>8. ASSUME NEW k \in Cancellers, cancel[k].pc # "idle"
      PROVE  StagedAt(k)'
  BY <1>1, <1>5, <1>6, <1>7, <1>8 DEF StagedAt
<1> QED
  BY <1>5, <1>6, <1>8

(* A step of request k: the others stand still.                               *)
LEMMA RequestStaging ==
  ASSUME CancelInv, StagingFits, NEW k \in Cancellers, log = "cancelled" => log' = "cancelled",
         \A j \in Cancellers \ {k} : cancel'[j] = cancel[j], cancel'[k].pc # "idle",
         cancel'[k].pc \in {"post", "postSignal", "publish"} => log' = "cancelled",
         (log' # "cancelled" /\ Stages(k)) => Stages(k)'
  PROVE  StagingFits'
<1>1. \A j \in Cancellers : cancel'[j].pc \in {"post", "postSignal", "publish"} => log' = "cancelled"
  BY DEF StagingFits
<1>2. SUFFICES ASSUME log' # "cancelled", OneRequest'
               PROVE  \/ NoneStaged'
                      \/ /\ row'[Root].status = "cancelling"
                         /\ \A j \in Cancellers : cancel'[j].pc # "idle" => StagedAt(j)'
  BY <1>1 DEF StagingFits
<1>3. \A j \in Cancellers : cancel'[j].pc # "idle" => j = k
  BY <1>2 DEF OneRequest
<1>4. \A j \in Cancellers : cancel[j].pc # "idle" => j = k
  BY <1>3
<1>5. OneRequest
  BY <1>4 DEF OneRequest
<1>6. Stages(k)
  BY <1>2, <1>4, <1>5 DEF StagingFits, Stages
<1>7. Stages(k)'
  BY <1>2, <1>6
<1> QED
  BY <1>3, <1>7 DEF Stages

LEMMA ToIs ==
  ASSUME CancelInv, NEW k \in Cancellers, NEW pc, cancel' = To(k, pc)
  PROVE  /\ cancel'[k].pc = pc /\ cancel'[k].target = cancel[k].target
         /\ \A j \in Cancellers \ {k} : cancel'[j] = cancel[j]
<1>1. cancel \in [Cancellers -> Canceller] /\ cancel[k] \in Canceller
  BY DEF CancelInv, CancelTypeOK
<1> DEFINE one == [cancel[k] EXCEPT !.pc = pc]
<1>2. one.pc = pc /\ one.target = cancel[k].target
  BY <1>1 DEF Canceller
<1>3. cancel' = [cancel EXCEPT ![k] = one]
  BY DEF To
<1> HIDE DEF one
<1> QED
  BY <1>1, <1>2, <1>3

LEMMA FoundIs ==
  ASSUME CancelInv, NEW k \in Cancellers, NEW pc, NEW t, cancel' = Found(k, pc, t, TRUE)
  PROVE  /\ cancel'[k].pc = pc /\ cancel'[k].target = t
         /\ \A j \in Cancellers \ {k} : cancel'[j] = cancel[j]
<1>1. cancel \in [Cancellers -> Canceller]
  BY DEF CancelInv, CancelTypeOK
<1> DEFINE one == [pc |-> pc, target |-> t, paused |-> TRUE]
<1>2. one.pc = pc /\ one.target = t
  OBVIOUS
<1>3. cancel' = [cancel EXCEPT ![k] = one]
  BY DEF Found
<1> HIDE DEF one
<1> QED
  BY <1>1, <1>2, <1>3

(* A request goes on and takes no entry away.                                 *)
LEMMA MovesOn ==
  ASSUME CancelInv, StagingFits, NEW k \in Cancellers, NEW pc, cancel' = To(k, pc), pc # "idle",
         log = "cancelled" => log' = "cancelled",
         pc \in {"post", "postSignal", "publish"} => log' = "cancelled",
         log' # "cancelled" =>
           /\ NoneStaged => NoneStaged'
           /\ StagedAt(k) => NoneStaged' \/ (row'[Root].status = row[Root].status /\ StagedAt(k)')
  PROVE  StagingFits'
<1>1. cancel'[k].pc = pc /\ \A j \in Cancellers \ {k} : cancel'[j] = cancel[j]
  BY ToIs
<1>2. (log' # "cancelled" /\ Stages(k)) => Stages(k)'
  BY DEF Stages
<1> QED
  BY <1>1, <1>2, RequestStaging

(* Where nothing can be staged, nothing is.                                   *)
LEMMA GoesUnstaged ==
  ASSUME CancelInv, StagingFits, NEW k \in Cancellers, NEW pc, cancel' = To(k, pc), pc # "idle",
         log = "cancelled" => log' = "cancelled",
         pc \in {"post", "postSignal", "publish"} => log' = "cancelled",
         cancel[k].pc \notin {"signal", "claimLog", "claimStopped", "rollback", "clear", "logV2", "done"},
         queue' = queue \/ StagesNothing
  PROVE  StagingFits'
<1>1. ~StagedAt(k)
  BY DEF StagedAt
<1>2. log' # "cancelled" => (NoneStaged => NoneStaged')
  BY DEF NoneStaged, StagesNothing, Exec
<1> QED
  BY <1>1, <1>2, MovesOn

LEMMA AsksStaging ==
  ASSUME CancelInv, StagingFits, NEW k \in Cancellers,
         \/ CancelReads(k) \/ CancelSignalsRun(k) \/ CancelSignalsAgain(k) \/ CancelPublishes(k)
         \/ V2Begins(k) \/ V2ReadsStatus(k) \/ V2SignalsRun(k) \/ V2Publishes(k)
  PROVE  StagingFits'
<1>1. CASE CancelReads(k)
  <2>1. PICK pc \in {"stage", "post"} : cancel' = To(k, pc) /\ (pc = "post" => log = "cancelled")
    BY <1>1 DEF CancelReads
  <2>2. queue' = queue /\ log' = log /\ cancel[k].pc = "idle"
    BY <1>1 DEF CancelReads, Here, vars, stores
  <2> QED
    BY <2>1, <2>2, GoesUnstaged
<1>2. CASE CancelSignalsRun(k)
  <2>1. PICK pc \in {"claimLog", "restage"} : cancel' = To(k, pc)
    BY <1>2 DEF CancelSignalsRun
  <2>2. queue' = queue /\ log' = log /\ cancel[k].pc = "signalRun"
    BY <1>2 DEF CancelSignalsRun, Here, stores
  <2> QED
    BY <2>1, <2>2, GoesUnstaged
<1>3. CASE CancelSignalsAgain(k)
  <2>1. PICK pc \in {"publish", "done"} : cancel' = To(k, pc)
    BY <1>3 DEF CancelSignalsAgain, SignalsResume
  <2>2. queue' = queue /\ log' = log /\ cancel[k].pc = "postSignal"
    BY <1>3 DEF CancelSignalsAgain, Here, stores
  <2>3. log = "cancelled"
    BY <2>2 DEF StagingFits
  <2> QED
    BY <2>1, <2>2, <2>3, GoesUnstaged
<1>4. CASE CancelPublishes(k)
  <2>1. PICK pc \in {"complete", "done"} : cancel' = To(k, pc)
    BY <1>4 DEF CancelPublishes
  <2>2. queue' = queue /\ log' = log /\ cancel[k].pc = "publish"
    BY <1>4 DEF CancelPublishes, Here, vars, stores
  <2> QED
    BY <2>1, <2>2, GoesUnstaged
<1>5. CASE V2Begins(k)
  <2>1. PICK pc \in {"publishV2", "status"} : cancel' = To(k, pc)
    BY <1>5 DEF V2Begins
  <2>2. queue' = queue /\ log' = log /\ cancel[k].pc = "idle"
    BY <1>5 DEF V2Begins, Here
  <2> QED
    BY <2>1, <2>2, GoesUnstaged
<1>6. CASE V2ReadsStatus(k)
  <2>1. PICK pc \in {"done", "publishV2", "signalV2"} : cancel' = To(k, pc)
    BY <1>6 DEF V2ReadsStatus
  <2>2. queue' = queue /\ log' = log /\ cancel[k].pc = "status"
    BY <1>6 DEF V2ReadsStatus, Here, vars, stores
  <2> QED
    BY <2>1, <2>2, GoesUnstaged
<1>7. CASE V2SignalsRun(k)
  <2>1. PICK pc \in {"block", "clear"} : cancel' = To(k, pc)
    BY <1>7 DEF V2SignalsRun
  <2>2. queue' = queue /\ log' = log /\ cancel[k].pc = "signalV2"
    BY <1>7 DEF V2SignalsRun, Here, stores
  <2> QED
    BY <2>1, <2>2, GoesUnstaged
<1>8. CASE V2Publishes(k)
  <2>1. PICK pc \in {"complete", "clear"} : cancel' = To(k, pc)
    BY <1>8 DEF V2Publishes
  <2>2. queue' = queue /\ log' = log /\ cancel[k].pc = "publishV2"
    BY <1>8 DEF V2Publishes, Here, vars, stores
  <2> QED
    BY <2>1, <2>2, GoesUnstaged
<1> QED
  BY <1>1, <1>2, <1>3, <1>4, <1>5, <1>6, <1>7, <1>8

(* A request signals, writes the log, or gives up.                            *)
LEMMA DecidesStaging ==
  ASSUME CancelInv, StagingFits, NEW k \in Cancellers,
         \/ CancelSignals(k) \/ CancelClaimsLog(k) \/ CancelClaimFails(k) \/ V2ClaimsLog(k)
         \/ CancelDies(k)
  PROVE  StagingFits'
<1>1. /\ cancel[k].pc \in {"signal", "rollback"} => cancel[k].target # 0
      /\ Claimed(Root)' = Claimed(Root) \/ queue' # queue
  BY DEF CancelInv, TargetsExist, Claimed, WithStatus, Exec
<1>2. CASE CancelSignals(k)
  <2>1. PICK pc \in {"claimLog", "claimStopped", "rollback"} : cancel' = To(k, pc)
    BY <1>2 DEF CancelSignals, SignalsResume
  <2>2. queue' = queue /\ log' = log /\ row' = row /\ cancel[k].pc = "signal"
    BY <1>2 DEF CancelSignals, Here, stores
  <2>3. cancel'[k].pc = pc /\ cancel'[k].target = cancel[k].target /\ cancel[k].target # 0
    BY <1>1, <2>1, <2>2, ToIs
  <2>4. StagedAt(k)'
    BY <2>1, <2>3 DEF StagedAt
  <2>5. NoneStaged => NoneStaged'
    BY <2>2 DEF NoneStaged, Exec
  <2> QED
    BY <2>1, <2>2, <2>4, <2>5, MovesOn
<1>3. CASE CancelClaimsLog(k) /\ log \in {"running", "pending", "cancelled"}
  <2>1. cancel' = To(k, "post") /\ log' = "cancelled"
    BY <1>3 DEF CancelClaimsLog
  <2> QED
    BY <2>1, MovesOn
<1>4. CASE CancelClaimsLog(k) /\ log \notin {"running", "pending", "cancelled"}
  <2>1. PICK pc \in {"rollback", "clear", "done"} :
          cancel' = To(k, pc) /\ (cancel[k].target # 0 => pc = "rollback")
    BY <1>4 DEF CancelClaimsLog
  <2>2. /\ queue' = queue /\ log' = log /\ row' = row
        /\ cancel[k].pc \in {"claimLog", "claimStopped"}
    BY <1>4 DEF CancelClaimsLog, Here
  <2>3. cancel'[k].pc = pc
    BY <2>1, ToIs
  <2>4. StagedAt(k) => StagedAt(k)'
    BY <1>4, <2>1, <2>2, <2>3 DEF StagedAt
  <2>5. NoneStaged => NoneStaged'
    BY <2>2 DEF NoneStaged, Exec
  <2> QED
    BY <2>1, <2>2, <2>4, <2>5, MovesOn
<1>5. CASE CancelClaimFails(k)
  <2>1. PICK pc \in {"rollback", "clear", "done"} :
          cancel' = To(k, pc) /\ (pc = "clear" => cancel[k].target = 0)
    BY <1>5 DEF CancelClaimFails
  <2>2. /\ queue' = queue /\ log' = log /\ row' = row
        /\ cancel[k].pc \in {"claimLog", "claimStopped"}
    BY <1>5 DEF CancelClaimFails, Here, vars, stores
  <2>3. cancel'[k].pc = pc /\ Claimed(Root)' = Claimed(Root)
    BY <1>1, <2>1, <2>2, ToIs
  <2>4. StagedAt(k) => StagedAt(k)'
    BY <2>1, <2>2, <2>3 DEF StagedAt
  <2>5. NoneStaged => NoneStaged'
    BY <2>2 DEF NoneStaged, Exec
  <2> QED
    BY <2>1, <2>2, <2>4, <2>5, MovesOn
<1>6. CASE V2ClaimsLog(k) \/ CancelDies(k)
  <2>1. cancel' = To(k, "done") /\ queue' = queue /\ row' = row
    BY <1>6 DEF V2ClaimsLog, CancelDies, stores
  <2>2. log' \in {log, "cancelled"}
    BY <1>6 DEF V2ClaimsLog, CancelDies, stores
  <2>3. cancel'[k].pc = "done"
    BY <2>1, ToIs
  <2>4. StagedAt(k)'
    BY <2>3 DEF StagedAt
  <2>5. NoneStaged => NoneStaged'
    BY <2>1 DEF NoneStaged, Exec
  <2> QED
    BY <2>1, <2>2, <2>4, <2>5, MovesOn
<1> QED
  BY <1>2, <1>3, <1>4, <1>5, <1>6

(* Everything a cancellation took away comes back.                            *)
LEMMA RestoredIsUnstaged ==
  ASSUME CancelInv, queue' = RestoredQueue
  PROVE  NoneStaged'
<1>1. WorkersFit /\ DOMAIN queue' = DOMAIN queue
  BY StagedDomain DEF CancelInv, CancelTypeOK
<1>2. ASSUME NEW j \in DOMAIN queue, queue'[j].exec = Root
      PROVE  ~queue'[j].staged
  <2> DEFINE one == [queue[j] EXCEPT !.status = "pending", !.staged = FALSE]
  <2>1. queue[j] \in Entry /\ (queue[j].staged => queue[j].status = "failed")
    BY <1>1, QueueTypes DEF CancelInv, CancelTypeOK, WorkersFit
  <2>2. ~one.staged
    BY <2>1 DEF Entry
  <2>3. IF queue[j].exec = Root /\ queue[j].status = "failed" /\ queue[j].staged
        THEN queue'[j] = one ELSE queue'[j] = queue[j]
    BY DEF RestoredQueue
  <2> HIDE DEF one
  <2> QED
    BY <1>2, <2>1, <2>2, <2>3
<1> QED
  BY <1>1, <1>2 DEF NoneStaged, Exec

LEMMA UndoStaging ==
  ASSUME CancelInv, StagingFits, NEW k \in Cancellers, CancelRollsBack(k) \/ CancelClears(k)
  PROVE  StagingFits'
<1>1. PICK pc \in {"done", "drain"} : cancel' = To(k, pc)
  BY DEF CancelRollsBack, CancelClears
<1>2. log' = log /\ cancel'[k].pc = pc /\ (pc = "done" => StagedAt(k)')
  <2>1. cancel'[k].pc = pc
    BY <1>1, ToIs
  <2> QED
    BY <1>1, <2>1 DEF CancelRollsBack, CancelClears, StagedAt
<1>3. CASE queue' = RestoredQueue
  BY <1>1, <1>2, <1>3, RestoredIsUnstaged, MovesOn
<1>4. CASE queue' = queue /\ row' = row /\ pc = "done"
  <2>1. NoneStaged => NoneStaged'
    BY <1>4 DEF NoneStaged, Exec
  <2> QED
    BY <1>1, <1>2, <1>4, <2>1, MovesOn
<1>5. CASE CancelClears(k) /\ log \notin {"running", "pending"} /\ queue' = queue
  <2>1. ~StagedAt(k)
    BY <1>5 DEF CancelClears, Here, StagedAt
  <2>2. NoneStaged => NoneStaged'
    BY <1>5 DEF NoneStaged, Exec
  <2> QED
    BY <1>1, <1>2, <2>1, <2>2, MovesOn
<1>6. \/ queue' = RestoredQueue
      \/ queue' = queue /\ row' = row /\ cancel' = To(k, "done")
      \/ CancelClears(k) /\ log \notin {"running", "pending"} /\ queue' = queue
  BY DEF CancelRollsBack, CancelClears
<1>7. ASSUME cancel' = To(k, "done")
      PROVE  pc = "done"
  BY <1>2, <1>7, ToIs
<1> QED
  BY <1>3, <1>4, <1>5, <1>6, <1>7

(* Queued resumes are taken away, and the row says so.                         *)
LEMMA StageStaging ==
  ASSUME CancelInv, StagingFits, NEW k \in Cancellers, CancelStages(k) \/ V2Blocks(k)
  PROVE  StagingFits'
<1>1. /\ TypeOK /\ row[Root] \in Row /\ log' = log
      /\ cancel[k].pc \in {"stage", "restage", "block"}
  BY EntryTypes DEF CancelInv, CancelTypeOK, TypeOK, CancelStages, V2Blocks, Here
<1>2. ASSUME row' = WithRoot([row[Root] EXCEPT !.status = "cancelling"])
      PROVE  row'[Root].status = "cancelling"
  <2>1. [row[Root] EXCEPT !.status = "cancelling"].status = "cancelling"
    BY <1>1 DEF Row
  <2> QED
    BY <1>2, <2>1, RootPoints
<1>3. CASE V2Blocks(k)
  <2>1. cancel' = To(k, "logV2")
    BY <1>3 DEF V2Blocks
  <2>2. cancel'[k].pc = "logV2" /\ \A j \in Cancellers \ {k} : cancel'[j] = cancel[j]
    BY <2>1, ToIs
  <2>3. StagedAt(k)'
    BY <2>2 DEF StagedAt
  <2>4. CASE Stoppable
    <3>1. row'[Root].status = "cancelling"
      BY <1>2, <1>3, <2>4 DEF V2Blocks
    <3> QED
      BY <1>1, <2>2, <2>3, <3>1, RequestStaging DEF Stages
  <2>5. CASE ~Stoppable
    <3>1. queue' = queue
      BY <1>3, <2>5 DEF V2Blocks
    <3> QED
      BY <1>1, <2>1, <3>1, GoesUnstaged
  <2> QED
    BY <2>4, <2>5
<1>4. CASE CancelStages(k) /\ ~CanStage
  <2>1. PICK pc \in {"signalRun", "done"} : cancel' = To(k, pc)
    BY <1>4 DEF CancelStages
  <2>2. queue' = queue
    BY <1>4 DEF CancelStages, Stage
  <2> QED
    BY <1>1, <2>1, <2>2, GoesUnstaged
<1>5. CASE CancelStages(k) /\ CanStage
  <2>1. PICK pc \in {"claimLog", "signal"} :
          /\ cancel' = Found(k, pc, ActiveEntry, TRUE)
          /\ pc = "claimLog" => ActiveEntry = 0
    BY <1>5 DEF CancelStages
  <2>2. /\ cancel'[k].pc = pc /\ cancel'[k].target = ActiveEntry
        /\ \A j \in Cancellers \ {k} : cancel'[j] = cancel[j]
    BY <2>1, FoundIs
  <2>3. row'[Root].status = "cancelling" /\ queue' = StagedQueue
    BY <1>2, <1>5 DEF CancelStages, Stage
  <2>4. ASSUME pc = "claimLog", log' # "cancelled"
        PROVE  log' \in {"running", "pending"} /\ Claimed(Root)' = {}
    <3>1. Claimed(Root) = {}
      <4>1. \A i \in Claimed(Root) : i \in DOMAIN queue /\ i \in Nat /\ i # 0
        BY <1>1, QueueTypes DEF Claimed, WithStatus
      <4>2. ActiveEntry = 0 \/ ActiveEntry \in Claimed(Root)
        BY <1>1, ActiveType
      <4>3. Claimed(Root) # {} => ActiveEntry \in Claimed(Root)
        <5>1. SUFFICES ASSUME Claimed(Root) # {}
                       PROVE  First(Claimed(Root)) \in Claimed(Root)
          BY DEF ActiveEntry
        <5>2. \E i \in Claimed(Root) : \A j \in Claimed(Root) : i <= j
          BY <4>1, <5>1, LeastNumber
        <5> QED
          BY <5>2 DEF First
      <4> QED
        BY <2>1, <2>4, <4>1, <4>3
    <3>2. ASSUME NEW j \in DOMAIN queue', queue'[j].exec = Root
          PROVE  queue'[j].status # "claimed"
      <4> DEFINE one == [queue[j] EXCEPT !.status = "failed", !.staged = TRUE]
      <4>1. j \in DOMAIN queue /\ queue[j] \in Entry
        BY <1>1, <2>3, StagedDomain, QueueTypes
      <4>2. one.exec = queue[j].exec /\ one.status = "failed"
        BY <4>1 DEF Entry
      <4>3. queue'[j] \in {one, queue[j]}
        BY <2>3, <4>1 DEF StagedQueue
      <4> HIDE DEF one
      <4> QED
        BY <3>1, <3>2, <4>1, <4>2, <4>3 DEF Claimed, WithStatus, Exec
    <3>3. Claimed(Root)' = {}
      BY <3>2 DEF Claimed, WithStatus, Exec
    <3>4. log \in {"running", "pending"}
      BY <1>1, <1>5, <2>4 DEF CanStage
    <3> QED
      BY <1>1, <3>3, <3>4
  <2>5. log' # "cancelled" => StagedAt(k)'
    BY <2>1, <2>2, <2>4 DEF StagedAt
  <2> QED
    BY <1>1, <2>1, <2>2, <2>3, <2>5, RequestStaging DEF Stages
<1> QED
  BY <1>3, <1>4, <1>5

(* With the log cancelled nothing comes back.                                 *)
LEMMA RecheckStaging ==
  ASSUME CancelInv, StagingFits, NEW k \in Cancellers, CancelRechecks(k)
  PROVE  StagingFits'
<1>1. log' = "cancelled"
  BY DEF CancelRechecks, Here, StagingFits
<1>2. PICK pc \in {"publish", "postSignal", "done"} :
        cancel' = To(k, pc) \/ cancel' = Found(k, pc, ActiveEntry, TRUE)
  BY DEF CancelRechecks
<1>3. cancel'[k].pc = pc /\ \A j \in Cancellers \ {k} : cancel'[j] = cancel[j]
  <2>1. CASE cancel' = To(k, pc)
    BY <2>1, ToIs
  <2>2. CASE cancel' = Found(k, pc, ActiveEntry, TRUE)
    BY <2>2, FoundIs
  <2> QED
    BY <1>2, <2>1, <2>2
<1> QED
  BY <1>1, <1>2, <1>3, RequestStaging

LEMMA EndsStaging ==
  ASSUME CancelInv, ActiveInv, StagingFits, NEW k \in Cancellers,
         CancelDrains(k) \/ CancelCompletesRow(k)
  PROVE  StagingFits'
<1>1. CASE CancelDrains(k)
  <2>1. PICK pc \in {"drain", "done"} : cancel' = To(k, pc)
    BY <1>1 DEF CancelDrains
  <2>2. cancel[k].pc = "drain" /\ log' = log
    BY <1>1 DEF CancelDrains, Here
  <2>3. Drain(Root) /\ worker' = DrainedWorker(Root)
    BY <1>1 DEF CancelDrains
  <2>4. StagesNothing
    BY <2>2, <2>3, EntryTypes, DrainsSteady DEF Steady
  <2> QED
    BY <2>1, <2>2, <2>4, GoesUnstaged
<1>2. CASE CancelCompletesRow(k)
  <2>1. cancel' = To(k, "done") /\ cancel[k].pc = "complete" /\ CompleteCancellation(Root)
    BY <1>2 DEF CancelCompletesRow, Here
  <2>2. log' = "cancelled" \/ (queue' = queue /\ log' = log)
    BY <2>1 DEF CompleteCancellation, stores
  <2>3. queue' = queue \/ StagesNothing
    BY <2>2 DEF StagesNothing
  <2> QED
    BY <2>1, <2>2, <2>3, GoesUnstaged
<1> QED
  BY <1>1, <1>2

LEMMA RequestStages ==
  ASSUME CancelInv, ActiveInv, StagingFits, NEW k \in Cancellers, CancelStep(k) \/ CancelDies(k)
  PROVE  StagingFits'
BY AsksStaging, DecidesStaging, UndoStaging, StageStaging, RecheckStaging, EndsStaging DEF CancelStep

-----------------------------------------------------------------------------
(* The three together are inductive.                                          *)
LEMMA ActiveInit == CancelInit => ActiveInv /\ StagingFits
<1> SUFFICES ASSUME CancelInit PROVE ActiveInv /\ StagingFits
  OBVIOUS
<1>1. /\ DOMAIN queue = {} /\ Root \in Executions
      /\ \A c \in Contexts : row[Root].points[c] # "queued"
      /\ \A k \in Cancellers : cancel[k].pc = "idle"
  BY EntryTypes DEF CancelInit, Init, NoRow
<1> QED
  BY <1>1 DEF ActiveInv, OneIsActive, ClaimsSurvive, QueuedPointsWait, StagingFits, NoneStaged

LEMMA ActiveNext ==
  CancelInv /\ ActiveInv /\ StagingFits /\ [CancelNext]_allVars => ActiveInv' /\ StagingFits'
<1> SUFFICES ASSUME CancelInv, ActiveInv, StagingFits, [CancelNext]_allVars
             PROVE  ActiveInv' /\ StagingFits'
  OBVIOUS
<1>1. Good
  BY StepsAreGood
<1>2. CASE \/ (Next /\ UNCHANGED cancelVars) \/ RunStops
            \/ \E i \in Entries : StoppedResumeCancels(i)
  <2>1. UNCHANGED cancelVars
    BY <1>2 DEF RunStops, StoppedResumeCancels
  <2>2. Steady
    BY <1>2, NextSteady, StoppedResumeSteady
  <2> QED
    BY <1>1, <2>1, <2>2, OthersStaging DEF Steady
<1>3. ASSUME NEW k \in Cancellers, CancelStep(k) \/ CancelDies(k)
      PROVE  ActiveInv' /\ StagingFits'
  BY <1>3, RequestActive, RequestStages
<1>4. CASE UNCHANGED allVars
  <2>1. UNCHANGED cancelVars /\ queue' = queue /\ row' = row /\ log' = log /\ worker' = worker
    BY <1>4 DEF allVars, cancelVars, vars, stores
  <2>2. WorkersGoOn
    BY <2>1 DEF WorkersGoOn, WorksOn
  <2>3. Steady
    BY <2>1, <2>2, SteadyAlone
  <2> QED
    BY <1>1, <2>1, <2>3, OthersStaging DEF Steady
<1> QED
  BY <1>2, <1>3, <1>4 DEF CancelNext

THEOREM ActiveInvariant == CancelSpec => [](ActiveInv /\ StagingFits)
<1>1. CancelInv /\ CancelInv' /\ ActiveInv /\ StagingFits /\ [CancelNext]_allVars =>
        ActiveInv' /\ StagingFits'
  BY ActiveNext
<1> QED
  BY <1>1, ActiveInit, CancelInvariant, PTL DEF CancelSpec

(* Whatever requests are made, until the run is cancelled a queued point keeps *)
(* an entry that waits for it: pending, or set aside by a staged cancellation  *)
(* and marked as one that an undoing gives back.  No drain, rollback, late     *)
(* write of a resume or crash loses it.                                       *)
THEOREM QueuedPointsKeepAnEntry == CancelSpec => []QueuedPointsWait
<1>1. ActiveInv /\ StagingFits => QueuedPointsWait
  BY DEF ActiveInv
<1> QED
  BY <1>1, ActiveInvariant, PTL

(* A cancellation that is staged and undone (rollbackActiveResumeCancellation, *)
(* clearPausedCancellationIntent) gives back every resume it took away.  This  *)
(* is for one request: of two, one may take the row out of cancelling while a   *)
(* resume has just written the log, give nothing back, and leave the other      *)
(* nothing to undo.                                                          *)
THEOREM UndoneStagingRestoresTheQueue == CancelSpec => [](OneRequest => QueueIsRestored)
<1>1. CancelInv /\ ActiveInv /\ StagingFits => (OneRequest => QueueIsRestored)
  <2> SUFFICES ASSUME CancelInv, ActiveInv, StagingFits, OneRequest,
                      row[Root].status \in Resumable, log \in {"running", "pending"},
                      NEW c \in Contexts, row[Root].points[c] = "queued"
               PROVE  \E i \in Pending(Root) : Ctx(i) = c
    BY DEF QueueIsRestored
  <2>1. NoneStaged
    BY DEF StagingFits, Resumable
  <2>2. PICK i \in DOMAIN queue : Exec(i) = Root /\ Ctx(i) = c /\ Waits(i)
    BY DEF ActiveInv, QueuedPointsWait
  <2>3. queue[i].status = "pending"
    BY <2>1, <2>2 DEF NoneStaged, Waits
  <2> QED
    BY <2>2, <2>3 DEF Pending, WithStatus, Exec
<1> QED
  BY <1>1, CancelInvariant, ActiveInvariant, PTL

(* However requests, resumes and the poller interleave, at most one resume of  *)
(* an execution is active (markResumeCompleted and the rollbacks free its      *)
(* slot), and one process at most is in the blocks of the run.                *)
THEOREM OneResumeWhileCancelling == CancelSpec => []OneActiveResume
<1>1. CancelInv /\ ActiveInv /\ StagingFits => OneActiveResume
  <2> SUFFICES ASSUME CancelInv, ActiveInv, NEW e \in Executions
               PROVE  Cardinality(Claimed(e)) <= 1 /\ Cardinality(Running(e)) <= 1
    BY DEF OneActiveResume
  <2>1. \A x, y \in Claimed(e) : x = y
    BY DEF ActiveInv, OneIsActive, Claimed, WithStatus, Exec
  <2>2. \A x, y \in Running(e) : x = y
    BY DEF ActiveInv, OneIsActive, Running
  <2> QED
    BY <2>1, <2>2, AtMostOne
<1> QED
  BY <1>1, CancelInvariant, ActiveInvariant, PTL

(* While a resume is in the blocks of the run, the log says running, or that   *)
(* it is being cancelled; a request that gives up leaves no stopped log behind *)
(* a resume at work.                                                         *)
THEOREM RunningIsLoggedWhileCancelling == CancelSpec => []RunningIsLogged
<1>1. ActiveInv /\ StagingFits => RunningIsLogged
  BY DEF ActiveInv, OneIsActive, RunningIsLogged, Running
<1> QED
  BY <1>1, ActiveInvariant, PTL
=============================================================================

----------------------------- MODULE PauseResume -----------------------------
(***************************************************************************)
(* Pausing a run and resuming it (PauseResumeManager, in                    *)
(* apps/sim/lib/workflows/executor/human-in-the-loop-manager.ts).           *)
(*                                                                         *)
(* A run that reaches a human or time pause is stored in paused_executions  *)
(* with one pause point per context.  A resume of one point is an entry of  *)
(* resume_queue: claimed at once when no other resume of that execution is   *)
(* active, queued behind it otherwise.  A claimed entry is run by a worker   *)
(* (a request, or a job), which continues the workflow from the snapshot it  *)
(* read with the claim and then settles the entry; whoever settles one       *)
(* drains the queue.  The cron poller resumes time pauses that are due.      *)
(*                                                                         *)
(* Each database statement or transaction is one action.  The run is        *)
(* execution Root; a resume runs under the id of its own queue entry, and    *)
(* writes the log of its parent.  Cancelling is in PausedCancellation.       *)
(***************************************************************************)
EXTENDS Integers, FiniteSets, Sequences

(* Operators whose name begins with Wrong are not the code: they are the     *)
(* mistakes the runs' properties must catch, each defined just before the    *)
(* definition it would replace.                                              *)

CONSTANTS
  Contexts,     \* the contexts a run can pause at
  FirstPauses,  \* those the first execution of the workflow pauses at
  TimeContexts, \* those whose pauseKind is time; the others are human
  PausesAt,     \* [Contexts -> the contexts the continuation of one can pause at]
  MaxEntries,   \* bound: resumes ever requested
  MaxRetries,   \* MAX_AUTOMATIC_RESUME_ADMISSION_RETRIES
  MaxCrashes    \* bound: processes that die

ASSUME PauseAssumption ==
  /\ FirstPauses \subseteq Contexts /\ FirstPauses # {} /\ IsFiniteSet(Contexts)
  /\ TimeContexts \subseteq Contexts
  /\ PausesAt \in [Contexts -> SUBSET Contexts]
  /\ MaxEntries \in Nat /\ MaxRetries \in Nat /\ MaxCrashes \in Nat

Entries    == 1 .. MaxEntries
Root       == 0
Executions == 0 .. MaxEntries   \* i > 0 is the newExecutionId of queue entry i

VARIABLES
  log,     \* the status of the run's row of workflow_execution_logs
  row,     \* [Executions -> its row of paused_executions]
  queue,   \* resume_queue, in queuedAt order
  worker,  \* [Entries -> the process that runs the entry's resume]
  run,     \* where the first execution of the workflow is
  poll,    \* the cron poller: the row it dispatches and what it read of it
  crashes  \* what is left of MaxCrashes

stores == <<log, row, queue>>
vars   == <<log, row, queue, worker, run, poll, crashes>>

LogStatuses   == {"running", "pending", "paused", "completed", "failed", "cancelled"}
RowStatuses   == {"none", "paused", "partially_resumed", "fully_resumed", "cancelling", "cancelled"}
PointStatuses == {"absent", "paused", "queued", "resuming", "resumed", "failed"}
Resumable     == {"paused", "partially_resumed"}

(* next: next_resume_at is set.  done: completedPauseContexts of the stored   *)
(* snapshot.                                                                  *)
Row == [status : RowStatuses, points : [Contexts -> PointStatuses], resumed : Nat,
        retries : 0 .. MaxRetries, next : BOOLEAN, done : SUBSET Contexts]

(* staged: it failed because a cancellation was staged, so that undoing the   *)
(* cancellation restores it.                                                  *)
Entry == [exec : Executions, ctx : Contexts, staged : BOOLEAN,
          status : {"pending", "claimed", "completed", "failed"}]

Outcomes == {"none", "finished", "repaused", "errored", "stopped", "refused", "retry", "dropped"}

(* seen: completedPauseContexts of the snapshot read with the claim.          *)
Worker == [pc : {"idle", "admit", "running", "snapshot", "persist", "drainChild", "settle",
                 "stopped", "completes", "drain", "done", "dead"},
           seen : SUBSET Contexts, out : Outcomes, signalled : BOOLEAN]

Poll == [pc : {"idle", "prepare", "enqueue", "setNext", "drain", "clearNext"}, exec : Executions,
         due : SUBSET Contexts, later : BOOLEAN, busy : BOOLEAN]

TypeOK ==
  /\ log \in LogStatuses
  /\ row \in [Executions -> Row]
  /\ queue \in Seq(Entry) /\ Len(queue) <= MaxEntries
  /\ worker \in [Entries -> Worker]
  /\ run \in [pc : {"running", "persist", "drain", "done"}, signalled : BOOLEAN]
  /\ poll \in Poll
  /\ crashes \in 0 .. MaxCrashes

NoRow    == [status |-> "none", points |-> [c \in Contexts |-> "absent"], resumed |-> 0,
             retries |-> 0, next |-> FALSE, done |-> {}]
NoWorker == [pc |-> "idle", seen |-> {}, out |-> "none", signalled |-> FALSE]
NoPoll   == [pc |-> "idle", exec |-> Root, due |-> {}, later |-> FALSE, busy |-> FALSE]

Init ==
  /\ log = "running"
  /\ row = [e \in Executions |-> NoRow]
  /\ queue = <<>>
  /\ worker = [i \in Entries |-> NoWorker]
  /\ run = [pc |-> "running", signalled |-> FALSE]
  /\ poll = NoPoll
  /\ crashes = MaxCrashes

-----------------------------------------------------------------------------
(* What the rows say.                                                       *)

WithStatus(e, s) == {i \in DOMAIN queue : queue[i].exec = e /\ queue[i].status = s}
Is(i, s)         == i \in DOMAIN queue /\ queue[i].status = s
Claimed(e)       == WithStatus(e, "claimed")
Pending(e)       == WithStatus(e, "pending")
First(S)         == CHOOSE i \in S : \A j \in S : i <= j

Points(r)  == {c \in Contexts : r.points[c] # "absent"}
Resumed(r) == {c \in Contexts : r.points[c] = "resumed"}

(* The status the counters call for, once no cancellation holds the row.     *)
Progress(r) == IF r.resumed >= Cardinality(Points(r)) THEN "fully_resumed"
               ELSE IF r.resumed > 0 THEN "partially_resumed" ELSE "paused"

LogIs(e, s)   == e = Root /\ log = s   \* only the run itself has a log row
CancelRow(r)  == IF r.status = "none" THEN r ELSE [r EXCEPT !.status = "cancelled", !.next = FALSE]
SetPoint(r, c, s) == [r EXCEPT !.points[c] = s]
SetEntry(i, s)    == [queue EXCEPT ![i].status = s]

(* A log write of a running execution: never over a cancellation.            *)
WrongLogWrite(s) == s

LogWrite(s) == IF log = "cancelled" THEN log ELSE s

-----------------------------------------------------------------------------
(* A resume starts: when requested, or when a drain finds it at the head of   *)
(* the queue.                                                                 *)

Start(i, e) == [worker EXCEPT ![i] = [NoWorker EXCEPT !.pc = "admit", !.seen = row[e].done]]

WrongEnqueue(e, c) ==
  LET i == Len(queue) + 1
  IN  /\ i <= MaxEntries
      /\ row[e].status \in Resumable /\ row[e].points[c] = "paused"
      /\ queue' = Append(queue, [exec |-> e, ctx |-> c, staged |-> FALSE, status |-> "claimed"])
      /\ row' = [row EXCEPT ![e] = SetPoint(@, c, "resuming")]
      /\ worker' = Start(i, e)

WrongEnqueueAgain(e, c) ==
  LET i    == Len(queue) + 1
      busy == Claimed(e) # {}
  IN  /\ i <= MaxEntries
      /\ row[e].status \in Resumable /\ row[e].points[c] \in {"paused", "resumed"}
      /\ queue' = Append(queue, [exec |-> e, ctx |-> c, staged |-> FALSE,
                                 status |-> IF busy THEN "pending" ELSE "claimed"])
      /\ row' = [row EXCEPT ![e] = SetPoint(@, c, IF busy THEN "queued" ELSE "resuming")]
      /\ worker' = IF busy THEN worker ELSE Start(i, e)

Enqueue(e, c) ==
  LET i    == Len(queue) + 1
      busy == Claimed(e) # {}
  IN  /\ i <= MaxEntries
      /\ row[e].status \in Resumable /\ row[e].points[c] = "paused"
      /\ queue' = Append(queue, [exec |-> e, ctx |-> c, staged |-> FALSE,
                                 status |-> IF busy THEN "pending" ELSE "claimed"])
      /\ row' = [row EXCEPT ![e] = SetPoint(@, c, IF busy THEN "queued" ELSE "resuming")]
      /\ worker' = IF busy THEN worker ELSE Start(i, e)

(* A person resumes a human pause.                                           *)
Resume(e, c) ==
  /\ c \notin TimeContexts
  /\ Enqueue(e, c)
  /\ UNCHANGED <<log, run, poll, crashes>>

(* One round of processQueuedResumes(e): it ends unless the entry it found    *)
(* was stale.                                                                 *)
WrongDrainable(e) == row[e].status # "none" /\ Claimed(e) = {} /\ Pending(e) # {}

Drainable(e) == row[e].status \in Resumable /\ Claimed(e) = {} /\ Pending(e) # {}
Stale(e)     == Drainable(e) /\ row[e].points[queue[First(Pending(e))].ctx] # "queued"
Startable(e) == Drainable(e) /\ ~Stale(e)

DrainedQueue(e) ==
  IF Drainable(e) THEN SetEntry(First(Pending(e)), IF Stale(e) THEN "failed" ELSE "claimed")
  ELSE queue
DrainedRow(e) ==
  IF Startable(e) THEN [row EXCEPT ![e] = SetPoint(@, queue[First(Pending(e))].ctx, "resuming")]
  ELSE row
DrainedWorker(e) == IF Startable(e) THEN Start(First(Pending(e)), e) ELSE worker

Drain(e) == queue' = DrainedQueue(e) /\ row' = DrainedRow(e)

-----------------------------------------------------------------------------
(* The first execution: the log is written before the paused row.            *)

Paused(cs, done) ==
  [NoRow EXCEPT !.status = "paused", !.done = done, !.next = cs \cap TimeContexts # {},
                !.points = [c \in Contexts |-> IF c \in cs THEN "paused" ELSE "absent"]]

RunPauses ==
  /\ run.pc = "running"
  /\ log' = LogWrite("pending") /\ run' = [run EXCEPT !.pc = "persist"]
  /\ UNCHANGED <<row, queue, worker, poll, crashes>>

(* persistPauseResult: a cancelled run leaves no paused row; a failed          *)
(* transaction fails the run.                                                 *)
RunPersists ==
  /\ run.pc = "persist"
  /\ row' = IF log = "cancelled" THEN row ELSE [row EXCEPT ![Root] = Paused(FirstPauses, {})]
  /\ run' = [run EXCEPT !.pc = IF log = "cancelled" THEN "done" ELSE "drain"]
  /\ UNCHANGED <<log, queue, worker, poll, crashes>>

RunPersistFails ==
  /\ run.pc = "persist"
  /\ log' = LogWrite("failed") /\ run' = [run EXCEPT !.pc = "done"]
  /\ UNCHANGED <<row, queue, worker, poll, crashes>>

RunDrains ==
  /\ run.pc = "drain"
  /\ Drain(Root) /\ worker' = DrainedWorker(Root)
  /\ run' = [run EXCEPT !.pc = IF Stale(Root) THEN @ ELSE "done"]
  /\ UNCHANGED <<log, poll, crashes>>

-----------------------------------------------------------------------------
(* A resume runs (startResumeExecution).                                     *)

Exec(i) == queue[i].exec
Ctx(i)  == queue[i].ctx
At(i, pc) == i \in DOMAIN queue /\ worker[i].pc = pc
Goto(i, pc)         == [worker EXCEPT ![i].pc = pc]
GotoWith(i, pc, out) == [worker EXCEPT ![i].pc = pc, ![i].out = out]
Rest == <<run, poll, crashes>>

(* claimResumeExecutionLog.                                                  *)
Claimable(i) == Exec(i) = Root /\ log \in {"pending", "paused"}

WrongClaimLog(i) ==
  /\ At(i, "admit")
  /\ worker' = IF Claimable(i) THEN Goto(i, "running") ELSE GotoWith(i, "settle", "refused")
  /\ UNCHANGED <<stores, Rest>>

ClaimLog(i) ==
  /\ At(i, "admit")
  /\ IF Claimable(i) THEN log' = "running" /\ worker' = Goto(i, "running")
     ELSE log' = log /\ worker' = GotoWith(i, "settle", "refused")
  /\ UNCHANGED <<row, queue, Rest>>

(* The log is claimed before the run is admitted (a limit, or an outage that   *)
(* may pass) and before its event buffer is found unavailable; a job that      *)
(* could not be dispatched never claims it.                                   *)
NotAdmitted(i) ==
  /\ At(i, "running")
  /\ \E out \in {"refused", "retry", "dropped"} : worker' = GotoWith(i, "settle", out)
  /\ UNCHANGED <<stores, Rest>>

NotDispatched(i) ==
  /\ At(i, "admit")
  /\ worker' = GotoWith(i, "settle", "dropped")
  /\ UNCHANGED <<stores, Rest>>

(* How an engine run ends, and what it writes to the log: blocks that failed   *)
(* on a handled path finish a run as failed; an exception can come before or   *)
(* after the log is completed, or after it was written as paused; a run that   *)
(* is stopped was signalled or timed out.                                     *)
Endings(i) ==
  {<<"finished", "completed">>, <<"finished", "failed">>,
   <<"errored", "failed">>, <<"errored", "completed">>, <<"stopped", "failed">>}
  \cup (IF PausesAt[Ctx(i)] # {} THEN {<<"repaused", "pending">>, <<"errored", "pending">>} ELSE {})
  \cup (IF worker[i].signalled THEN {<<"stopped", "cancelled">>} ELSE {})

AfterEnd(out) == CASE out = "finished" -> "snapshot" [] out = "repaused" -> "persist"
                   [] OTHER -> "settle"

EngineEnds(i) ==
  /\ At(i, "running")
  /\ \E end \in Endings(i) :
       /\ log' = LogWrite(end[2])
       /\ worker' = GotoWith(i, AfterEnd(end[1]), end[1])
  /\ UNCHANGED <<row, queue, Rest>>

(* updateSnapshotAfterResume: the state the run ended in replaces the stored   *)
(* one.                                                                       *)
WrongUpdateSnapshot(i) ==
  /\ At(i, "snapshot")
  /\ row' = [row EXCEPT ![Exec(i)].done = {Ctx(i)}]
  /\ worker' = Goto(i, "settle")
  /\ UNCHANGED <<log, queue, Rest>>

UpdateSnapshot(i) ==
  /\ At(i, "snapshot")
  /\ row' = [row EXCEPT ![Exec(i)].done = worker[i].seen \cup {Ctx(i)}]
  /\ worker' = Goto(i, "settle")
  /\ UNCHANGED <<log, queue, Rest>>

(* persistPauseResult of a resume that paused again, under its own execution   *)
(* id; that id has no log, so a failure to persist leaves no trace.            *)
PersistAgain(i) ==
  /\ At(i, "persist")
  /\ row' = [row EXCEPT ![i] = Paused(PausesAt[Ctx(i)], worker[i].seen \cup {Ctx(i)})]
  /\ worker' = Goto(i, "drainChild")
  /\ UNCHANGED <<log, queue, Rest>>

PersistAgainFails(i) ==
  /\ At(i, "persist")
  /\ worker' = Goto(i, "settle")
  /\ UNCHANGED <<stores, Rest>>

DrainChild(i) ==
  /\ At(i, "drainChild")
  /\ Drain(i)
  /\ worker' = [DrainedWorker(i) EXCEPT ![i].pc = IF Stale(i) THEN @ ELSE "settle"]
  /\ UNCHANGED <<log, Rest>>

(* markResumeCompleted, with the context when the run finished.  The run is    *)
(* live again while some point is left, whatever its log said.                *)
CancellationWon(e) == LogIs(e, "cancelled") \/ row[e].status \in {"cancelling", "cancelled"}
WrongCancelledRows(e) == [row EXCEPT ![e] = CancelRow(@)]
CancelledRows(e)   == [row EXCEPT ![e] = IF LogIs(e, "cancelled") THEN CancelRow(@) ELSE @]
Completed(r, c)    == LET s == [SetPoint(r, c, "resumed") EXCEPT !.resumed = @ + 1, !.retries = 0]
                      IN  [s EXCEPT !.status = Progress(s)]

WrongSettledQueue(i) ==
  IF queue[i].status = "claimed" /\ ~CancellationWon(Exec(i)) THEN SetEntry(i, "completed") ELSE queue

SettledQueue(i) ==
  IF queue[i].status # "claimed" THEN queue
  ELSE SetEntry(i, IF CancellationWon(Exec(i)) THEN "failed" ELSE "completed")

MarkCompleted(i) ==
  LET e    == Exec(i)
      done == Completed(row[e], Ctx(i))
      wins == queue[i].status = "claimed" /\ ~CancellationWon(e) /\ worker[i].out = "finished"
  IN  /\ At(i, "settle") /\ worker[i].out \in {"finished", "repaused"}
      /\ queue' = SettledQueue(i)
      /\ row' = IF wins THEN [row EXCEPT ![e] = done]
                ELSE IF CancellationWon(e) THEN CancelledRows(e) ELSE row
      /\ log' = IF wins /\ e = Root /\ done.status # "fully_resumed" THEN "pending" ELSE log
      /\ worker' = Goto(i, "drain")
      /\ UNCHANGED Rest

(* markResumeFailed.                                                         *)
MarkFailed(i) ==
  LET e   == Exec(i)
      cut == LogIs(e, "cancelled") \/ row[e].status = "cancelled"
  IN  /\ At(i, "settle") /\ worker[i].out = "errored"
      /\ queue' = SetEntry(i, "failed")
      /\ row' = [row EXCEPT ![e] = IF cut THEN CancelRow(@) ELSE SetPoint(@, Ctx(i), "failed")]
      /\ log' = IF cut \/ row[e].status = "cancelling" \/ e # Root THEN log ELSE "failed"
      /\ worker' = Goto(i, "drain")
      /\ UNCHANGED Rest

(* markResumeAttemptFailed.  Only an admission failure is kept for a retry,    *)
(* and it alone does not drain the queue behind it.                           *)
Preserved(i) == worker[i].out \in {"refused", "retry"}
Admission(i) == Preserved(i) /\ row[Exec(i)].status \in Resumable /\ ~LogIs(Exec(i), "cancelled")
WrongCanRetry(i) ==
  Admission(i) /\ worker[i].out = "retry" /\ row[Exec(i)].retries <= MaxRetries

CanRetry(i)  == Admission(i) /\ worker[i].out = "retry" /\ row[Exec(i)].retries < MaxRetries

WrongAttempted(i, r) ==
  LET s == SetPoint(r, Ctx(i), "queued")
  IN  IF ~Admission(i) THEN s
      ELSE [s EXCEPT !.next = CanRetry(i), !.retries = IF CanRetry(i) THEN @ + 1 ELSE @]

Attempted(i, r) ==
  LET s == SetPoint(r, Ctx(i), IF CanRetry(i) THEN "queued" ELSE "paused")
  IN  IF ~Admission(i) THEN s
      ELSE [s EXCEPT !.next = CanRetry(i), !.retries = IF CanRetry(i) THEN @ + 1 ELSE @]

MarkAttemptFailed(i) ==
  LET e   == Exec(i)
      cut == LogIs(e, "cancelled") \/ row[e].status = "cancelled"
  IN  /\ At(i, "settle") /\ worker[i].out \in {"stopped", "refused", "retry", "dropped"}
      /\ queue' = SetEntry(i, IF CanRetry(i) THEN "pending" ELSE "failed")
      /\ row' = [row EXCEPT ![e] = IF cut THEN CancelRow(@) ELSE Attempted(i, @)]
      /\ log' = IF cut \/ row[e].status = "cancelling" \/ e # Root
                   \/ log \in {"failed", "completed"}
                THEN log ELSE "paused"
      /\ worker' = Goto(i, IF Preserved(i) THEN "done"
                           ELSE IF worker[i].out = "stopped" THEN "stopped" ELSE "drain")
      /\ UNCHANGED Rest

(* A resume that was stopped asks whether a cancellation waits for it.  It then *)
(* "completes" that cancellation, which PausedCancellation adds.              *)
StoppedResumeReads(i) ==
  /\ At(i, "stopped")
  /\ worker' = Goto(i, IF Claimed(Exec(i)) = {} /\ row[Exec(i)].status = "cancelling"
                       THEN "completes" ELSE "drain")
  /\ UNCHANGED <<stores, Rest>>

WorkerDrains(i) ==
  /\ At(i, "drain")
  /\ Drain(Exec(i))
  /\ worker' = [DrainedWorker(Exec(i)) EXCEPT ![i].pc = IF Stale(Exec(i)) THEN @ ELSE "done"]
  /\ UNCHANGED <<log, Rest>>

Work(i) ==
  \/ ClaimLog(i) \/ EngineEnds(i) \/ NotAdmitted(i) \/ NotDispatched(i)
  \/ UpdateSnapshot(i) \/ PersistAgain(i) \/ PersistAgainFails(i) \/ DrainChild(i)
  \/ MarkCompleted(i) \/ MarkFailed(i) \/ MarkAttemptFailed(i)
  \/ StoppedResumeReads(i) \/ WorkerDrains(i)

-----------------------------------------------------------------------------
(* The cron poller (apps/sim/app/api/resume/poll/route.ts), one due row at a   *)
(* time; any of the eligible time pauses may be due.                          *)

PollReads ==
  \E e \in Executions :
    LET eligible == {c \in TimeContexts : row[e].points[c] = "paused"}
    IN  /\ poll.pc = "idle"
        /\ row[e].status \in Resumable /\ row[e].next
        /\ \E due \in SUBSET eligible :
             poll' = [pc |-> IF due = {} THEN "drain" ELSE "prepare", exec |-> e, due |-> due,
                      later |-> due # eligible,
                      busy |-> \E c \in Contexts : row[e].points[c] \in {"queued", "resuming"}]
        /\ UNCHANGED <<stores, worker, run, crashes>>

(* The due points were admitted, or the admission failed (setAutomaticResume-  *)
(* Waiting): the row waits for a retry, or for a person.                      *)
PollAdmits ==
  /\ poll.pc = "prepare"
  /\ poll' = [poll EXCEPT !.pc = "enqueue"]
  /\ UNCHANGED <<stores, worker, run, crashes>>

Waited(e, c, waiting) ==
  LET claimed == \E i \in Claimed(e) : Ctx(i) = c
      r == IF waiting \/ claimed THEN row[e] ELSE SetPoint(row[e], c, "paused")
  IN  [r EXCEPT !.next = waiting, !.retries = IF waiting THEN @ + 1 ELSE @]

PollWaits ==
  LET e == poll.exec
      c == CHOOSE d \in poll.due : TRUE
  IN  /\ poll.pc = "prepare"
      /\ \E waiting \in BOOLEAN :
           /\ waiting => row[e].retries < MaxRetries
           /\ IF row[e].status \notin Resumable THEN UNCHANGED <<row, queue>>
              ELSE /\ row' = [row EXCEPT ![e] = Waited(e, c, waiting)]
                   /\ queue' = [i \in DOMAIN queue |->
                                  IF ~waiting /\ i \in Pending(e) /\ Ctx(i) = c
                                  THEN [queue[i] EXCEPT !.status = "failed"] ELSE queue[i]]
      /\ poll' = NoPoll
      /\ UNCHANGED <<log, worker, run, crashes>>

(* Each due point is resumed; one that was resumed meanwhile is refused.       *)
PollResumes ==
  /\ poll.pc = "enqueue"
  /\ \E c \in poll.due :
       /\ \/ Enqueue(poll.exec, c)
          \/ /\ ~ (row[poll.exec].status \in Resumable /\ row[poll.exec].points[c] = "paused")
             /\ UNCHANGED <<row, queue, worker>>
       /\ poll' = [poll EXCEPT !.due = @ \ {c}, !.pc = IF poll.due = {c} THEN "setNext" ELSE @]
  /\ UNCHANGED <<log, run, crashes>>

SetNext(e, set) == IF row[e].status \in Resumable THEN [row EXCEPT ![e].next = set] ELSE row

PollSetsNext ==
  /\ poll.pc = "setNext"
  /\ row' = SetNext(poll.exec, poll.later)
  /\ poll' = NoPoll
  /\ UNCHANGED <<log, queue, worker, run, crashes>>

(* Nothing was due: the row is due for a retry, so the queue is drained.       *)
PollDrains ==
  /\ poll.pc = "drain"
  /\ Drain(poll.exec) /\ worker' = DrainedWorker(poll.exec)
  /\ poll' = IF Stale(poll.exec) THEN poll
             ELSE IF poll.busy THEN NoPoll ELSE [poll EXCEPT !.pc = "clearNext"]
  /\ UNCHANGED <<log, run, crashes>>

PollClearsNext ==
  /\ poll.pc = "clearNext"
  /\ row' = SetNext(poll.exec, FALSE)
  /\ poll' = NoPoll
  /\ UNCHANGED <<log, queue, worker, run, crashes>>

PollStep ==
  \/ PollReads \/ PollAdmits \/ PollWaits \/ PollResumes \/ PollSetsNext
  \/ PollDrains \/ PollClearsNext

-----------------------------------------------------------------------------
(* A process dies between two steps: nothing takes over what it was doing.     *)

Alive(i) == worker[i].pc \notin {"idle", "done", "dead"}

Crash ==
  /\ crashes > 0 /\ crashes' = crashes - 1
  /\ \/ /\ \E i \in Entries : Alive(i) /\ worker' = Goto(i, "dead")
        /\ UNCHANGED poll
     \/ /\ poll.pc # "idle" /\ poll' = NoPoll
        /\ UNCHANGED worker
  /\ UNCHANGED <<stores, run>>

Run == RunPauses \/ RunPersists \/ RunPersistFails \/ RunDrains

Next ==
  \/ Run
  \/ \E e \in Executions, c \in Contexts : Resume(e, c)
  \/ \E i \in Entries : Work(i)
  \/ PollStep
  \/ Crash

Spec == Init /\ [][Next]_vars

(* Processes that are alive go on, and cron keeps polling; people need not act. *)
FairSpec ==
  Spec /\ WF_vars(Run) /\ WF_vars(PollStep) /\ \A i \in Entries : WF_vars(Work(i))

-----------------------------------------------------------------------------
(* Properties.                                                               *)

Running(e)  == {i \in DOMAIN queue : Exec(i) = e /\ worker[i].pc = "running"}

(* However requests, drains, the poller and retries interleave, at most one    *)
(* resume of an execution is active, and its blocks run in one process.        *)
OneActiveResume ==
  \A e \in Executions : Cardinality(Claimed(e)) <= 1 /\ Cardinality(Running(e)) <= 1

(* A resume continues from a snapshot that holds every resume that completed   *)
(* before it, and the stored snapshot never loses one: finishing a second      *)
(* point must not undo, or forget, the first.                                 *)
ResumeSeesEarlier ==
  \A e \in Executions :
    /\ Resumed(row[e]) \subseteq row[e].done
    /\ \A i \in Running(e) : Resumed(row[e]) \subseteq worker[i].seen

(* The counter the status is computed from counts the points resumed, and the  *)
(* run is called fully resumed exactly when every point is.                    *)
CountMatches ==
  \A e \in Executions :
    /\ row[e].resumed = Cardinality(Resumed(row[e]))
    /\ row[e].status = "paused" => Resumed(row[e]) = {}
    /\ row[e].status = "partially_resumed" => Resumed(row[e]) \notin {{}, Points(row[e])}
    /\ row[e].status = "fully_resumed" => Resumed(row[e]) = Points(row[e])

(* A point cannot be asked for again while it is queued or resuming, so it     *)
(* must not be left so by itself: there is a pending entry for a queued point, *)
(* and a resuming one has a claimed entry or its continuation paused again.    *)
PointsAreCarried ==
  \A e \in Executions, c \in Contexts : row[e].status \in Resumable =>
    /\ row[e].points[c] = "queued" => \E i \in Pending(e) : Ctx(i) = c
    /\ row[e].points[c] = "resuming" =>
         \E i \in DOMAIN queue : /\ Exec(i) = e /\ Ctx(i) = c
                                 /\ \/ queue[i].status = "claimed"
                                    \/ queue[i].status = "completed" /\ worker[i].out = "repaused"

(* No continuation goes through twice: the blocks behind a pause are not       *)
(* idempotent.                                                                *)
Through(e, c) == {i \in DOMAIN queue : /\ Exec(i) = e /\ Ctx(i) = c
                                       /\ worker[i].out \in {"finished", "repaused"}}
RanTwice == {c \in Contexts : \E e \in Executions : Cardinality(Through(e, c)) > 1}
ContinuationRunsOnce == RanTwice = {}

(* The log of a run with a resume in its blocks is running: a person who looks *)
(* sees a live run, and no second resume can claim it.                         *)
RunningIsLogged == Running(Root) # {} => log \in {"running", "cancelled"}

(* Why they hold.  A process works on an entry only while the entry is claimed, *)
(* and lets go of it for good when it settles it, except for a retry.          *)
Working == {"admit", "running", "snapshot", "persist", "drainChild", "settle"}

ClaimsAreHeld ==
  /\ \A i \in Entries \ DOMAIN queue : worker[i] = NoWorker
  /\ \A i \in DOMAIN queue :
       /\ worker[i].pc \in Working => queue[i].status = "claimed"
       /\ worker[i].pc \in {"stopped", "completes", "drain"} => queue[i].status \in {"completed", "failed"}
       /\ queue[i].status = "pending" => worker[i].out \in {"none", "retry"}
       /\ worker[i].pc \in {"idle", "admit", "running"} => worker[i].out = "none"
       /\ worker[i].pc = "running" => Exec(i) = Root
       /\ worker[i].pc = "snapshot" => worker[i].out = "finished"
       /\ worker[i].pc \in {"persist", "drainChild"} => worker[i].out = "repaused"

(* One entry of an execution is claimed.  One entry of a pause point is on its *)
(* way or went through, and the point says so.                                *)
Live(i) == queue[i].status \in {"pending", "claimed"} \/ worker[i].out \in {"finished", "repaused"}

EntriesExclude ==
  \A i, j \in DOMAIN queue : Exec(i) = Exec(j) =>
    /\ queue[i].status = "claimed" /\ queue[j].status = "claimed" => i = j
    /\ Live(i) /\ Live(j) /\ Ctx(i) = Ctx(j) => i = j

PointsFollow ==
  \A i \in DOMAIN queue :
    /\ row[Exec(i)].status # "none"
    /\ queue[i].status = "claimed" => row[Exec(i)].points[Ctx(i)] = "resuming"
    /\ queue[i].status = "pending" => row[Exec(i)].points[Ctx(i)] = "queued"
    /\ worker[i].out \in {"finished", "repaused"} =>
         row[Exec(i)].points[Ctx(i)] \in {"resuming", "resumed"}

(* An execution that has a row has paused, and pauses once.                    *)
RowsAppearOnce ==
  /\ run.pc \in {"running", "persist"} => row[Root].status = "none"
  /\ \A i \in Entries : row[i].status # "none" =>
       worker[i].out = "repaused" /\ worker[i].pc # "persist"

(* A snapshot in use holds what was resumed; no other resume completes before   *)
(* the one that uses it.                                                      *)
SnapshotsAreFresh ==
  /\ \A e \in Executions : Resumed(row[e]) \subseteq row[e].done
  /\ \A i \in DOMAIN queue :
       /\ worker[i].pc \in Working => Resumed(row[Exec(i)]) \subseteq worker[i].seen
       /\ worker[i].pc = "settle" /\ worker[i].out = "finished" => Ctx(i) \in row[Exec(i)].done

(* Nobody else resumes the time pauses the poller has found due.               *)
DuePointsWait ==
  /\ poll.pc # "idle" => row[poll.exec].status # "none"
  /\ poll.pc \in {"prepare", "enqueue"} =>
       /\ poll.due # {}
       /\ \A c \in poll.due : c \in TimeContexts /\ row[poll.exec].points[c] = "paused"

(* Nothing of this module cancels.                                           *)
NothingIsCancelled ==
  /\ log # "cancelled" /\ ~run.signalled
  /\ \A e \in Executions : row[e].status \notin {"cancelling", "cancelled"}
  /\ \A i \in Entries : ~worker[i].signalled

IInv ==
  /\ TypeOK /\ ClaimsAreHeld /\ EntriesExclude /\ PointsFollow /\ RowsAppearOnce
  /\ SnapshotsAreFresh /\ DuePointsWait /\ CountMatches /\ PointsAreCarried /\ RunningIsLogged
  /\ NothingIsCancelled

(* A claimed entry is released, unless the process that runs it died: nothing  *)
(* else frees it, and every other resume of the execution waits behind it.     *)
ClaimIsReleased ==
  \A i \in Entries : Is(i, "claimed") ~> (~Is(i, "claimed") \/ worker[i].pc = "dead")

(* What the reply to a queued resume says (resume-handler.ts:42: "Resume       *)
(* queued. It will run after current resumes finish."), when no process dies.  *)
QueuedResumeRuns == \A i \in Entries : Is(i, "pending") ~> ~Is(i, "pending")

(* A resume is told its execution "can no longer be resumed" only when the run *)
(* ended (the documentation promises that a run which paused again can be      *)
(* resumed again).                                                            *)
RefusedOnlyAfterEnd ==
  [][\A i \in Entries : (ClaimLog(i) /\ worker'[i].out = "refused")
                           => log \in {"completed", "failed", "cancelled"}]_vars
=============================================================================

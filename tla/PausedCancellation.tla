-------------------------- MODULE PausedCancellation --------------------------
(***************************************************************************)
(* Cancelling a run that is paused or being resumed: PauseResume with the   *)
(* requests that cancel it, each a sequence of transactions of its own.     *)
(*                                                                         *)
(* There are two of them, and both may be under way at once: the cancel      *)
(* route of the application (.../executions/[executionId]/cancel/route.ts), *)
(* which stages the cancellation, stops the active resume, cancels the log   *)
(* and then the paused row, and undoes the staging when it cannot stop the  *)
(* resume; and the service behind the public v2 API                         *)
(* (lib/execution/cancel-workflow-execution.ts), which leaves an active     *)
(* resume alone.  Runs of table cells (workflow groups) are left out.       *)
(***************************************************************************)
EXTENDS PauseResume

CONSTANT Cancellers   \* requests to cancel the run; each is made at most once

VARIABLES
  cancel,   \* [Cancellers -> where the request is, and what it learned]
  reopened  \* contexts whose point a rollback set back to paused, read by properties only

cancelVars == <<cancel, reopened>>
allVars    == <<vars, cancelVars>>

(* target: the entry of the resume it found active, 0 for none.  paused: it   *)
(* found the run paused.                                                     *)
Canceller ==
  [pc : {"idle", "stage", "restage", "signal", "signalRun", "claimLog", "claimStopped", "post",
         "postSignal", "publish", "status", "signalV2", "block", "logV2", "publishV2",
         "complete", "rollback", "clear", "drain", "done"},
   target : 0 .. MaxEntries, paused : BOOLEAN]

CancelTypeOK ==
  /\ TypeOK
  /\ cancel \in [Cancellers -> Canceller]
  /\ reopened \subseteq Contexts

CancelInit ==
  /\ Init
  /\ cancel = [k \in Cancellers |-> [pc |-> "idle", target |-> 0, paused |-> FALSE]]
  /\ reopened = {}

-----------------------------------------------------------------------------
Here(k, pc)         == cancel[k].pc = pc
To(k, pc)           == [cancel EXCEPT ![k].pc = pc]
Found(k, pc, t, p)  == [cancel EXCEPT ![k] = [pc |-> pc, target |-> t, paused |-> p]]
Stoppable           == row[Root].status \in Resumable \cup {"cancelling"}
WithRoot(r)         == [row EXCEPT ![Root] = r]

(* Pending entries fail with the reason a rollback looks for, and come back.   *)
WrongStagedQueue ==
  [i \in DOMAIN queue |-> IF i \in Pending(Root) THEN [queue[i] EXCEPT !.status = "failed"] ELSE queue[i]]

StagedQueue ==
  [i \in DOMAIN queue |-> IF i \in Pending(Root)
                          THEN [queue[i] EXCEPT !.status = "failed", !.staged = TRUE] ELSE queue[i]]
RestoredQueue ==
  [i \in DOMAIN queue |-> IF queue[i].exec = Root /\ queue[i].status = "failed" /\ queue[i].staged
                          THEN [queue[i] EXCEPT !.status = "pending", !.staged = FALSE] ELSE queue[i]]

(* stagePausedCancellation: no further resume can start.                      *)
CanStage == log \in {"running", "pending", "cancelled"} /\ Stoppable
Stage ==
  IF CanStage THEN row' = WithRoot([row[Root] EXCEPT !.status = "cancelling"]) /\ queue' = StagedQueue
  ELSE UNCHANGED <<row, queue>>
ActiveEntry == IF Claimed(Root) = {} THEN 0 ELSE First(Claimed(Root))

-----------------------------------------------------------------------------
(* The application's route.                                                  *)

CancelReads(k) ==
  /\ Here(k, "idle")
  /\ \/ log \in {"running", "pending"} /\ cancel' = To(k, "stage")
     \/ log = "cancelled" /\ cancel' = To(k, "post")
  /\ UNCHANGED <<vars, reopened>>

CancelStages(k) ==
  /\ Here(k, "stage") \/ Here(k, "restage")
  /\ Stage
  /\ cancel' = IF ~CanStage THEN To(k, IF Here(k, "stage") THEN "signalRun" ELSE "done")
               ELSE Found(k, IF ActiveEntry = 0 THEN "claimLog" ELSE "signal", ActiveEntry, TRUE)
  /\ UNCHANGED <<log, worker, Rest, reopened>>

(* The signal is accepted when it reached the resume's process, its job or the *)
(* durable record; one that is not suffices if the resume ended by itself.     *)
SignalsResume(k, accepted, ended, otherwise) ==
  \/ worker' = [worker EXCEPT ![cancel[k].target].signalled = TRUE] /\ cancel' = To(k, accepted)
  \/ worker' = worker /\ cancel' = To(k, IF Claimed(Root) = {} THEN ended ELSE otherwise)

CancelSignals(k) ==
  /\ Here(k, "signal") /\ SignalsResume(k, "claimLog", "claimStopped", "rollback")
  /\ UNCHANGED <<stores, Rest, reopened>>

CancelSignalsRun(k) ==
  /\ Here(k, "signalRun")
  /\ \/ run' = [run EXCEPT !.signalled = TRUE] /\ cancel' = To(k, "claimLog")
     \/ run' = run /\ cancel' = To(k, "restage")
  /\ UNCHANGED <<stores, worker, poll, crashes, reopened>>

(* claimExecutionLogCancellation; a run that ended otherwise is left alone.    *)
CancelClaimsLog(k) ==
  /\ Here(k, "claimLog") \/ Here(k, "claimStopped")
  /\ IF log \in {"running", "pending", "cancelled"}
     THEN log' = "cancelled" /\ cancel' = To(k, "post")
     ELSE log' = log /\ cancel' = To(k, IF cancel[k].target # 0 THEN "rollback"
                                        ELSE IF cancel[k].paused THEN "clear" ELSE "done")
  /\ UNCHANGED <<row, queue, worker, Rest, reopened>>

(* The statement fails: the staging is undone unless this request had a signal *)
(* accepted, as one that found an active resume and claims the log has.        *)
CancelClaimFails(k) ==
  /\ Here(k, "claimLog") \/ Here(k, "claimStopped")
  /\ cancel' = To(k, IF cancel[k].target = 0 THEN IF cancel[k].paused THEN "clear" ELSE "done"
                     ELSE IF Here(k, "claimLog") THEN "done" ELSE "rollback")
  /\ UNCHANGED <<vars, reopened>>

(* With the log cancelled the staging is repeated: the run may have paused, or *)
(* another resume started, since.                                            *)
CancelRechecks(k) ==
  /\ Here(k, "post")
  /\ Stage
  /\ cancel' = IF CanStage
               THEN Found(k, IF ActiveEntry \in {0, cancel[k].target} THEN "publish" ELSE "postSignal",
                          ActiveEntry, TRUE)
               ELSE To(k, IF cancel[k].paused THEN "publish" ELSE "done")
  /\ UNCHANGED <<log, worker, Rest, reopened>>

CancelSignalsAgain(k) ==
  /\ Here(k, "postSignal") /\ SignalsResume(k, "publish", "publish", "done")
  /\ UNCHANGED <<stores, Rest, reopened>>

(* The event is published, or the request gives up.                           *)
CancelPublishes(k) ==
  /\ Here(k, "publish")
  /\ \E pc \in {"complete", "done"} : cancel' = To(k, pc)
  /\ UNCHANGED <<vars, reopened>>

(* completePausedCancellation.                                               *)
CancelCompletes(e) ==
  \/ LogIs(e, "cancelled") /\ row[e].status # "none"
  \/ e = Root /\ row[e].status \in {"cancelling", "cancelled"} /\ log \in {"running", "pending"}

CompleteCancellation(e) ==
  IF CancelCompletes(e)
  THEN /\ log' = "cancelled" /\ row' = [row EXCEPT ![e] = CancelRow(@)]
       /\ queue' = [i \in DOMAIN queue |->
                      IF i \in Claimed(e) \cup Pending(e)
                      THEN [queue[i] EXCEPT !.status = "failed", !.staged = FALSE] ELSE queue[i]]
  ELSE UNCHANGED stores

CancelCompletesRow(k) ==
  /\ Here(k, "complete")
  /\ CompleteCancellation(Root)
  /\ cancel' = To(k, "done")
  /\ UNCHANGED <<worker, Rest, reopened>>

(* rollbackActiveResumeCancellation: the stop signal was not accepted.  The    *)
(* point of a resume that failed is offered again.                            *)
CanRollBack(t) ==
  /\ log \in {"running", "pending"} /\ row[Root].status = "cancelling"
  /\ queue[t].status # "pending" /\ Claimed(Root) \subseteq {t}

WrongWithdrawn(r) ==
  [r EXCEPT !.status = Progress(r),
            !.points = [c \in Contexts |-> IF r.points[c] = "resuming" THEN "paused" ELSE r.points[c]]]

Withdrawn(r) == [r EXCEPT !.status = Progress(r)]
RolledBack(t) ==
  IF queue[t].status = "failed"
  THEN Withdrawn([SetPoint(row[Root], queue[t].ctx, "paused") EXCEPT !.retries = 0, !.next = FALSE])
  ELSE Withdrawn(row[Root])

CancelRollsBack(k) ==
  LET t == cancel[k].target
  IN  /\ Here(k, "rollback")
      /\ IF CanRollBack(t)
         THEN /\ row' = WithRoot(RolledBack(t)) /\ queue' = RestoredQueue
              /\ reopened' = IF queue[t].status = "failed" THEN reopened \cup {queue[t].ctx} ELSE reopened
              /\ cancel' = To(k, IF queue[t].status = "claimed" THEN "done" ELSE "drain")
         ELSE cancel' = To(k, "done") /\ UNCHANGED <<row, queue, reopened>>
      /\ UNCHANGED <<log, worker, Rest>>

(* clearPausedCancellationIntent: queued resumes come back if the run is live. *)
CancelClears(k) ==
  LET live == log \in {"running", "pending"}
  IN  /\ Here(k, "clear")
      /\ IF row[Root].status = "cancelling"
         THEN /\ row' = WithRoot(Withdrawn(row[Root]))
              /\ queue' = IF live THEN RestoredQueue ELSE queue
              /\ cancel' = To(k, IF live THEN "drain" ELSE "done")
         ELSE cancel' = To(k, "done") /\ UNCHANGED <<row, queue>>
      /\ UNCHANGED <<log, worker, Rest, reopened>>

CancelDrains(k) ==
  /\ Here(k, "drain")
  /\ Drain(Root) /\ worker' = DrainedWorker(Root)
  /\ cancel' = To(k, IF Stale(Root) THEN "drain" ELSE "done")
  /\ UNCHANGED <<log, Rest, reopened>>

-----------------------------------------------------------------------------
(* The v2 service.                                                           *)

(* beginPausedCancellation: an active resume is marked, not stopped.           *)
V2Begins(k) ==
  /\ Here(k, "idle")
  /\ row' = IF Stoppable THEN WithRoot([row[Root] EXCEPT !.status = "cancelling"]) ELSE row
  /\ cancel' = To(k, IF Stoppable /\ Claimed(Root) = {} THEN "publishV2" ELSE "status")
  /\ UNCHANGED <<log, queue, worker, Rest, reopened>>

(* getPausedCancellationStatus.                                              *)
V2ReadsStatus(k) ==
  /\ Here(k, "status")
  /\ cancel' = To(k, IF Claimed(Root) # {} \/ row[Root].status = "cancelled" THEN "done"
                     ELSE IF row[Root].status = "cancelling" THEN "publishV2" ELSE "signalV2")
  /\ UNCHANGED <<vars, reopened>>

V2SignalsRun(k) ==
  /\ Here(k, "signalV2")
  /\ \/ run' = [run EXCEPT !.signalled = TRUE] /\ cancel' = To(k, "block")
     \/ run' = run /\ cancel' = To(k, "clear")
  /\ UNCHANGED <<stores, worker, poll, crashes, reopened>>

(* blockQueuedResumesForCancellation.                                        *)
V2Blocks(k) ==
  /\ Here(k, "block")
  /\ IF Stoppable
     THEN row' = WithRoot([row[Root] EXCEPT !.status = "cancelling"]) /\ queue' = StagedQueue
     ELSE UNCHANGED <<row, queue>>
  /\ cancel' = To(k, "logV2")
  /\ UNCHANGED <<log, worker, Rest, reopened>>

V2ClaimsLog(k) ==
  /\ Here(k, "logV2")
  /\ log' = IF log = "running" THEN "cancelled" ELSE log
  /\ cancel' = To(k, "done")
  /\ UNCHANGED <<row, queue, worker, Rest, reopened>>

V2Publishes(k) ==
  /\ Here(k, "publishV2")
  /\ \E pc \in {"complete", "clear"} : cancel' = To(k, pc)
  /\ UNCHANGED <<vars, reopened>>

CancelStep(k) ==
  \/ CancelReads(k) \/ CancelStages(k) \/ CancelSignals(k) \/ CancelSignalsRun(k)
  \/ CancelClaimsLog(k) \/ CancelClaimFails(k) \/ CancelRechecks(k) \/ CancelSignalsAgain(k)
  \/ CancelPublishes(k) \/ CancelCompletesRow(k) \/ CancelRollsBack(k) \/ CancelClears(k)
  \/ CancelDrains(k)
  \/ V2Begins(k) \/ V2ReadsStatus(k) \/ V2SignalsRun(k) \/ V2Blocks(k) \/ V2ClaimsLog(k)
  \/ V2Publishes(k)

CancelDies(k) ==
  /\ crashes > 0 /\ crashes' = crashes - 1
  /\ cancel[k].pc \notin {"idle", "done"} /\ cancel' = To(k, "done")
  /\ UNCHANGED <<stores, worker, run, poll, reopened>>

(* The run meets its stop signal between two blocks and ends.                  *)
RunStops ==
  /\ run.pc = "running" /\ run.signalled
  /\ log' = "cancelled" /\ run' = [run EXCEPT !.pc = "drain"]
  /\ UNCHANGED <<row, queue, worker, poll, crashes, cancelVars>>

(* A stopped resume completes the cancellation it read of, which may have been *)
(* undone since.                                                             *)
StoppedResumeCancels(i) ==
  /\ At(i, "completes")
  /\ CompleteCancellation(Exec(i))
  /\ worker' = Goto(i, "drain")
  /\ UNCHANGED <<Rest, cancelVars>>

CancelNext ==
  \/ Next /\ UNCHANGED cancelVars
  \/ RunStops
  \/ \E i \in Entries : StoppedResumeCancels(i)
  \/ \E k \in Cancellers : CancelStep(k) \/ CancelDies(k)

CancelSpec == CancelInit /\ [][CancelNext]_allVars
CancelFairSpec == CancelSpec /\ \A i \in Entries : WF_allVars((Work(i) /\ UNCHANGED cancelVars) \/ StoppedResumeCancels(i))

-----------------------------------------------------------------------------
(* Properties.                                                               *)

(* A cancelled run stays cancelled, whatever its resumes go on to write: no    *)
(* resume completing, failing or pausing late revives it.                     *)
CancelledIsFinal ==
  [][/\ log = "cancelled" => log' = "cancelled"
     /\ \A e \in Executions :
          row[e].status = "cancelled" => row'[e] = [row[e] EXCEPT !.done = row'[e].done]]_allVars

(* The paused row says cancelled only of a run whose log does.                 *)
CancelledIsLogged == row[Root].status = "cancelled" => log = "cancelled"

(* From the moment a cancellation is staged until it is undone, no resume of   *)
(* the run is claimed.                                                       *)
NoClaimWhileCancelling ==
  [][row[Root].status \in {"cancelling", "cancelled"} =>
       \A i \in DOMAIN queue' : (Exec(i)' = Root /\ queue'[i].status = "claimed")
                                 => i \in Claimed(Root)]_allVars

(* A staging that is undone gives back every queued resume it took away.       *)
QueueIsRestored ==
  (row[Root].status \in Resumable /\ log \in {"running", "pending"}) =>
    \A c \in Contexts : row[Root].points[c] = "queued" => \E i \in Pending(Root) : Ctx(i) = c

(* A continuation goes through twice only if a rollback offered its point again *)
ReopenedAtMost == RanTwice \subseteq reopened
=============================================================================

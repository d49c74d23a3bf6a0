# A verification project for HyperFixSIM

The repository is a workflow automation platform: users draw workflows of
blocks, the server executes them, webhooks and schedules trigger them, and
several people edit one workflow at a time. This directory holds TLA+ modules
of the parts whose correctness depends on the order in which things happen,
TLC configurations that model-check them on small instances, and proofs that
TLAPS checks for every instance.

Paths below are relative to `src/apps/sim/` unless they begin with another
application's name.

## 1. Inventory

| Component | State it keeps | Operations | Talks to | What is hard | What makes it correct |
|---|---|---|---|---|---|
| **Execution engine** `executor/execution/engine.ts` | ready queue, in-flight promises, paused blocks, final output, flags (error, cancelled, stopped early, response locked) | `run`, `processQueue`, `handleNodeCompletion`, cancellation | edge manager, node orchestrator | completions in any order between awaits; pause, Response, error and cancellation in one run | a Response is final; the reported outcome is what happened; every run ends, a cancelled one without its slow calls |
| **Edge manager** `executor/execution/edge-manager.ts` | activated nodes, deactivated edges, each node's incoming set | `processOutgoingEdges` with its cascade, restore and clear for loops | the engine, loop and parallel orchestrators | readiness of a join depends on who ends last | a block starts once, chosen, and when no feeder can still run |
| **DAG construction** `executor/dag/` | nodes, edges with handles, scopes | `build` | engine | sentinels and control edges around subflows | every node reachable has its edges |
| **Node orchestrator, block executor** `executor/orchestrators/node.ts`, `executor/execution/block-executor.ts` | block states and logs | `executeNode`, `execute` | tools, providers | errors taken by an error port or thrown | an error is reported or handled, never both |
| **Loops** `executor/orchestrators/loop.ts` | a scope per loop: iteration, outputs of the iteration under way, results | sentinel start and end, condition, going back, leaving | edge manager, node orchestrator, the loop around | edges of the body are revived between iterations; branches, errors and dead ends inside; loops in loops | each iteration runs each body block at most once, one after another; results are those of the iterations; the loop is left |
| **Parallels** `executor/orchestrators/parallel.ts` | scopes: batch, branch outputs; clones of the body in the DAG | sentinels, expansion, batches | edge manager | the DAG changes while the run goes on | each branch runs once |
| **Pause and resume** `lib/workflows/executor/human-in-the-loop-manager.ts`, `app/api/resume/poll/route.ts` | one paused-execution row per run that paused, its pause points and snapshot; resume queue; execution log | persist, enqueue or start a resume, claim, admit, run, complete, fail, drain; the cron poller | engine, async jobs, cancellation | two resumes of one run; pausing again while resuming; retries of admission; a worker that dies | one active resume; a continuation goes through once; no point is lost; every resume sees those before it |
| **Transactional outbox** `lib/core/outbox/service.ts` | `outbox_event` rows: status, attempts, availableAt, lockedAt | enqueue, coalesce, reap, claim, handle, retry, defer | Postgres, handlers | workers that crash, hang or write late; the reaper | one handler at a time; stale writes fenced; everything settles |
| **Idempotency service** `lib/core/idempotency/service.ts` | one entry per key in Redis or Postgres: status, token, expiry | claim, observe, poll, store, release | webhook and polling handlers | expiry while the operation runs; deleting failed entries; lost answers | one live run; no unexcused second effect; waiters return |
| **Async jobs, schedules** `lib/core/async-jobs/`, `app/api/schedules/execute/route.ts` | job rows, schedule rows, concurrency counts | enqueue, claim due, start turn, recover | engine | stale claims, a shared concurrency budget | a due schedule is started once per turn, within its budget |
| **Rate limiter** `lib/core/rate-limiter/storage/db-token-bucket.ts` | tokens and last refill | consume | API routes | boundary arithmetic in one upsert | never more than capacity plus refill |
| **Client operation queue** `stores/operation-queue/store.ts` | queued and processing operations, timers, offline flag | add, confirm, fail, retry, time out | realtime server | lost acknowledgements, retries, coalescing | acknowledged means persisted or superseded; the queue drains |
| **Realtime server** `apps/realtime/src/handlers/` | coalesced updates, rooms | update, flush, broadcast, confirm | clients, Postgres | an update arriving while its predecessor is being written | editors converge to the stored value |
| **Cancellation** `app/api/workflows/[id]/executions/[executionId]/cancel/route.ts`, `lib/execution/cancel-workflow-execution.ts` | a staged intent in the paused row and the queue; stop signals | stage, signal, claim the log, recheck, complete, roll back, clear | paused rows, resumes, the run | a resume completing, pausing or failing in between; half of it failing | cancelled is final; an undone cancellation gives back what it took |
| **Event buffer, execution id claims, stale-run cleanup, upload sessions, table dispatch, admission** | see `PROJECT.json` | | | | |
| **Blocks, tools, UI, billing, logs, docs, desktop, CLI, deployment** | none of protocol interest | | | | |

The hazards of each part, at the line where they bite and with the property that
would catch them, are the `hazards` of `PROJECT.json`.

## 2. Modules, and the code they model

```
WorkflowDag ── EdgeManager ── WorkflowEngine ── MCWorkflowEngine
     └──────── DagRun (abstract) ──┘ ├───────── WorkflowEngineProofs ──┐
LoopRun (abstract) ──────────── LoopEngine ──── MCLoopEngine           │
                                     └───────── LoopEngineProofs ──────┘
Outbox ── MCOutbox                 Idempotency
   └───── OutboxProofs                └── IdempotencyProofs

OperationQueue ── MCOperationQueue
   └───────────── OperationQueueProofs ── OperationQueueSavedProofs

PauseResume ── MCPauseResume
   ├────────── PausedCancellation ── MCPausedCancellation
   │                   └──────────── PausedCancellationProofs ──┐
   └────────── PauseResumeProofs ───────────────────────────────┘
```

**WorkflowDag** holds the constants of a DAG: nodes, edges with their source
handles, the incoming sets, sentinels and their subflows, and
`ShouldActivate`, the table of `shouldActivateEdge`.

**EdgeManager** is `processOutgoingEdges` as one step, as it is in the code,
which has no await in it. `ActivatedTargets` and `EdgesToDeactivate` are the first
loop; `Deactivate` is the recursive `deactivateEdgeAndDescendants`, written
without recursion as the least set closed under its rules (`CutOff`);
`ReadyTargets`, `ReadySentinels` and `ReadyConvergences` are the three places that
find nodes to queue. Loop and parallel sentinels, control handles and back
edges are part of it: `LoopEngine` uses them.

**WorkflowEngine** is one run. The actions are what the code does between two
awaits:

| Action | Code |
|---|---|
| `ProcessQueue`, `WakeUp`, `LeaveLoop`, `Finish` (`MainLoop`) | the loop of `run()`, `waitForAnyExecution`, `waitForAllExecutions` and the result |
| `BlockReturns` | a handler ends; the block executor stores output or error and the node orchestrator returns |
| `CompletionDropped`, `CompletionThrows`, `CompletionPauses`, `CompletionResponds`, `CompletionStops`, `CompletionRoutes` | the continuations of `executeNodeAsync` and the paths of `handleNodeCompletion` |
| `SignalCancelled` | the abort signal |

The race of `waitForAnyExecution` is over the promises that existed when it was
built (`awaited`), not over those in flight. The ready queue is a set because the
main loop drains it whole without an await.

**DagRun** is the abstract specification: the sentence of the documentation
("a block starts the moment its dependencies finish") on outputs alone, without
queues, flags or edge bookkeeping. `WorkflowEngine!Promise` is the refinement
mapping: running blocks are those in flight that have not returned; outputs are the
stored ones.

**LoopEngine** is a run whose DAG holds loops, one in another to any depth. It adds to
`WorkflowEngine` the scopes of `ctx.loopExecutions` and replaces what sentinels and blocks of
loops do differently:

| Action | Code |
|---|---|
| `BlockEnds` | a block ends as before; the first node of a loop that runs makes its scope (`initializeLoopScope`) |
| `StartReturns`, `EndReturns` | `handleSentinel`: `evaluateInitialCondition`; `evaluateLoopContinuation` with `createExitResult` |
| `BlockCompletes` | a completion that also stores the output in the scope (`storeLoopNodeOutput`) |
| `Passes` | the completion of a start sentinel, or of an end sentinel that leaves: `isFinalSentinelOutput`, `handleParentSubflowCompletion` |
| `GoesBack` | the completion of an end sentinel that goes on: `clearLoopExecutionState`, `restoreLoopEdges`, `clearDeactivatedEdgesForNodes`, then the back edge |

A sentinel's answer is computed in one action and takes effect in another, as in the code,
where other blocks run in between. Outputs are known by the call that produced them, so that
a result can be told from one of an earlier round. A condition of the user's own holds or
not as it likes, up to `MaxIterations`; the evaluation of a condition may fail for the loops in
`Unevaluable`. `past`, `mark` and `misjudged` are history for the properties.

**LoopRun** is the abstract specification of loops, from the documentation of the loop block:
which calls are under way, which nodes were called in this round, and the rounds, which follow
one another, each over before the next, as many as the count says. `LoopEngine!Rounds` is the
mapping.

**Outbox** has rows, workers and a clock. Each SQL statement or transaction is one
action: `Enqueue`, `Request` (the coalescing
`enqueueOrReschedulePendingOutboxEvent`), `Reap`, `Claim`, `HandlerReturns`,
`HandlerWaits`, `HandlerTimesOut`, `Record` (every write behind
`updateIfLeaseHeld`), `WriteFails`, `Crash`, `Tick`. A worker's lease is the time of
its claim, as in the code: no owner is stored.

**Idempotency** is `executeWithIdempotency` by several callers on one key, on
Redis (the entry vanishes at its expiry) and on Postgres (it stays until it is
claimed over): `WinsClaim`, `LosesClaim`, `Observes`, `DeletesFailed`, `WaitEnds`,
`OperationSucceeds`, `OperationFails`, `Stores`, `Releases`, and the faults
`ClaimAnswerLost`, `StorageFails`, `Crashes`.

**OperationQueue** is the editor's queue of unsaved edits, with one client and one
workflow. A call of the queue runs to its end without an await, so each is one action and
includes the `processNextOperation` the code ends it with: `Edit` (`addToQueue` and
what the editor shows), `Answered` (`confirmOperation`, `failOperation`),
`OperationTimesOut`, `RetryFires`, `BlockRemoved` (`cancelOperationsForBlock`), `Joins`
(`registerEmitFunctions`), `Disconnects`. The server is what the queue sees of it: `Reads`
and `Writes` are the two statements of `flushSubblockUpdate`, `Refuses`, `Skips` (a locked
block, confirmed but not stored) and `Loses` its other ends. The keys come in three kinds,
as `addToQueue` tells them apart: replaced while pending, duplicates by block id, and
duplicates by payload. `overlapped` remembers that an operation was sent while another
was unanswered or being stored.

**PauseResume** is one run, its resumes, and the runs those start. A resume runs under the
id of its own queue entry and writes the log of the run that paused; a resumed run that
pauses again gets a row under the id of its entry, so executions are numbered 0 (`Root`)
and by entry. Each database statement or transaction is one action:

| Actions | Code |
|---|---|
| `RunPauses`, `RunPersists`, `RunPersistFails`, `RunDrains` | the first run and `persistPauseResult` |
| `Resume` (with `Enqueue`) | `enqueueOrStartResume` |
| `ClaimLog`, `NotAdmitted`, `NotDispatched`, `EngineEnds` | `claimResumeExecutionLog`, admission, `runResumeExecution` |
| `UpdateSnapshot`, `PersistAgain`, `PersistAgainFails`, `DrainChild` | what a resume that ended or paused again stores |
| `MarkCompleted`, `MarkFailed`, `MarkAttemptFailed`, `StoppedResumeReads`, `WorkerDrains` | the ways to settle an entry, and `processQueuedResumes` |
| `PollReads` ... `PollClearsNext` | a tick of the cron poller on one row |
| `Crash` | the process of a resume or of the poller dies |

**PausedCancellation** composes it with requests that cancel the run: the route of the
application (`CancelReads` ... `CancelDrains`) and the v2 service (`V2Begins` ...
`V2Publishes`), each transaction an action, with the signals and statements that fail. A request
whose signal was refused although the resume had ended by itself goes on as `claimStopped`: it
cancels the log like any other, but undoes its staging if that statement fails. It adds the
last step of a stopped resume (`StoppedResumeCancels`), which completes a cancellation that it read of
one transaction earlier.

Operators whose name begins with `Wrong` are not the code. Each is a plausible
mistake in the definition below it, and with it in place the property it is
paired with in `PROJECT.json` fails: they show that the properties can fail.

## 3. Runs

| Run | Instance | Shows |
|---|---|---|
| `Engine` | 9 nodes: a condition with two wired branches and one unwired, an error port, two joins, a pause with a join below it, two Responses, `stopAfterBlockId`; cancellation at any moment | `IInv`, the documented promise (`KeepsPromise`), termination if calls end (`RunEndsWithItsCalls`), the return of a cancelled run even if they never do (`CancelledRunReturns`), `ResponseIsFinal`, `PauseHoldsConsumers`, `OutcomeIsHonest`, and that a block left behind always has a feeder cut off by a cascade |
| `EngineStranded` | the 7 nodes with joins (`JoinNodes`) | `NothingLeftBehind` is violated, see findings |
| `Loop` | 11 nodes: a For loop of 2 rounds with a While loop of at most 2 inside, a condition of 4 outcomes (the loop, a block, a Response, not wired), an error port, throwing sentinels; cancellation at any moment | `LoopInv`, the documented promise (`KeepsLoopPromise`), `ResultsAreComplete`, `NoLoopIsAbandoned`, termination (`RunEnds`) |
| `LoopUntaken` | a condition without an else in front of a loop | `OnlyEnteredLoopsRun` is violated, see findings |
| `LoopJoin` | a loop of 2 rounds with an unwired branch, and a join behind it | `WaitsForFeeders` is violated, see findings |
| `Outbox` | 2 workers, 2 events, one without a handler, 2 attempts, 1 reschedule, 1 deferral, 2 faults | mutual exclusion, fencing, finality, no lost request, and that every event is completed or dead-lettered |
| `Idempotency` | 3 callers, lease and result lifetime of 1 tick, 1 fault, a new key or one with a memoized failure, both stores, with and without `retryFailures` | one live run, no unexcused duplicate effect, no invented result, waiters return |
| `OperationQueue` | 3 keys of the 3 kinds in 2 blocks, one of which may be deleted; 2 values, 3 edits, 1 retry (none for one key), 1 fault | the queue is always woken (`IInv`), `ReadyMeansSaved`, `QueueDrains` |
| `QueueOverlap` | 2 fields of a block and the name of another, no fault | `ReadyToDeploy` is violated, see findings |
| `PauseResume` | a run that pauses for an approval and a wait, and after the approval for a review; 3 resumes, 1 retry, 1 process that dies, the poller | `IInv`, `OneActiveResume`, `ResumeSeesEarlier`, `PointsAreCarried`, `ContinuationRunsOnce`, `RunningIsLogged` |
| `PausedCancellation` | 2 human pauses, 2 resumes, 1 request to cancel (either kind), no retry, 1 process that dies | `CancelledIsFinal`, `CancelledIsLogged`, `NoClaimWhileCancelling`, `QueueIsRestored`, `ReopenedAtMost`, `ClaimIsReleased` |
| `SecondPause` | an approval whose continuation pauses for a review | `RefusedOnlyAfterEnd` is violated, see findings |

`ResumeStranded.cfg` is kept beside the runs: `tlc -config ResumeStranded.cfg MCPauseResume` (2 human
pauses, 2 resumes, nobody dies) shows `QueuedResumeRuns` violated, see findings. So is `LoopAbandoned.cfg`:
`tlc -config LoopAbandoned.cfg MCLoopEngine` (a join in a loop) shows `NoLoopIsAbandoned` violated, see section 5.

Why the bounds are enough. The engine's graphs hold each shape the code tells
apart: a join whose feeders end in either order, a feeder dropped directly and one
dropped by cascade, an error port, an unwired option; the proofs remove the bound on
the graph. In `Loop` a second round is the first that finds edges as another round left them,
and an inner loop is there to be entered again, skipped, or cut off; both outcomes of each branch
follow each other in either order. The outbox's conflicts are between the last claimer and an earlier
one, so two workers and one row suffice, and the second event lets a producer
coalesce while the first is being handled; durations keep the order the code relies on,
handler timeout < stuck threshold. `Outbox` uses a view that forgets absolute time
(`MCOutbox!View`): the code compares times with deadlines only, so states with equal views
have the same futures up to the view, and liveness may be checked with it. Idempotency needs a holder, one that takes the key over and one
that waits; three callers give these at once. `MaxEvents`, `MaxReschedules`,
`MaxWaits` and `MaxFaults` bound counters in guards; `Tick` is bounded by
advancing only while a deadline lies ahead. For the queue, three edits are a value in
flight, one behind it, and one that replaces or repeats it; a fault is a refusal, a loss,
a skipped write, a disconnection or a timer that fires before a late answer, and with a block
deleted refusals come for free. `MaxRetries` is 5 or 3 in the code; 1 and 0 reach every
branch. For resumes, two entries are one active and one behind it, and the third may be
the retry of a point that failed or the resume of a second pause; a retry and
a death give each settling path a late rival. A cancellation needs one active resume and
one behind it; it is bounded to one request, since a second one started while the first
is under way brings what section 5 says of it.

### Fairness

* Engine: the specification asks only that the main loop goes on when what it waits for is
  resolved, which is what the event loop does. That a call ends is an assumption of one property
  (`CallsEnd` in `RunEndsWithItsCalls`): block handlers have timeouts of their own, which are
  external. `CancelledRunReturns` does without it. Cancellation is not fair. That a completion is handled is
  stated of what every completion does (`CallSettles`, the call leaves `executing`): exactly one
  of the completions is enabled for a call that returned, and TLC need not evaluate
  them twice to see it.
* Loops: the main loop and the calls are both fair. The user's condition fails some day, by `MaxIterations`.
* Outbox: cron recurs, so the reaper and claims are weakly fair (a claim per
  event, by any worker); the timeout of a handler and the write after it are.
  A handler's return is not: it may hang. `Crash` and `WriteFails` are bounded by
  `MaxFaults`, since nothing settles when every worker always dies.
* Idempotency: storage calls and polls are weakly fair; the operation itself is not,
  so `WaitersReturn` holds although the operation runs for ever.
* Pause and resume: the run, the workers of entries and the poller are weakly fair, since
  processes go on unless they die and cron recurs; people and deaths are not.
  `PausedCancellation` assumes it of the workers only.
* Operation queue: timers fire, the server finishes what it received (or a fault loses
  it), answers arrive unless the socket drops, and socket.io reconnects. Edits,
  deletions and faults are not fair and are bounded.

## 4. Proofs

`WorkflowEngineProofs`, `OutboxProofs`, `IdempotencyProofs`, `OperationQueueProofs`,
`OperationQueueSavedProofs`, `PauseResumeProofs`, `PausedCancellationProofs` and
`LoopEngineProofs` extend the models.
Their assumptions are the ASSUMEs of the modules (types of the constants, timeout
below stuck threshold) and, for some engine theorems, `PlainDag`: no loop or
parallel, no self-activated trigger.

* **Engine.** `IInv` is what readiness means on outputs: each node has at most one
  call and was ready when queued (`OneCallPerNode`, `CalledWhenReady`), an
  activated node was activated by an output (`ActivatedByOutput`), a source removed from an
  incoming set has ended (`SettledSources`), and a dead edge was refused or leaves a
  skipped block (`DeadEdges`). The last is the crux: the
  cascade's least fixpoint is inside the documentation's least fixpoint
  (`CutOffIsSkipped`). From it `EngineKeepsPromise` shows that each step of the engine
  is a step of `DagRun` or a stutter. The Response, pause and outcome
  theorems each add what they need (`LockedIsStopped`, `PausedByOutput`, `OutcomeInv`).
  `EngineLeftBehindOnlyByCascade` needs what was delivered (`DeliveryInv`): a block that
  ended has settled all its edges unless the run stopped early, and an activated
  node that waits for nothing was queued or called unless a cascade cut off a feeder.
* **Loops** (`LoopEngineProofs`, for loops nested to any depth and any counts). On every DAG: types;
  a Response is final, which the end sentinel could break by
  reviving edges while the run is frozen; the index of a counted loop stays below its
  count (`LoopIndexBelowCount`); and what an end sentinel that goes back leaves behind: every
  node of the body with a feeder inside waits for it again and no dead edge of the body is
  left (`LoopBodyWaitsAgain`), whatever the round before did to the sets.

  The other theorems have two hypotheses on the constants. `LoopsWired` is what
  `dag/construction/edges.ts` makes of any workflow whose loops have no cycle in their body: only its
  sentinels join a loop to the rest, everything in it lies between them, and the edges added without
  an incoming source are those that lead back or past it. Every DAG of `MCLoopEngine` has it
  (`WiringAssumption`). `BranchesWired` excludes what the code gets wrong: an answer in a loop that
  fires no edge (the finding of `LoopJoin` is what it does), and one anywhere that neither fires nor selects
  (`LoopUntaken`). A condition outside loops may have unwired branches. `TheoremsApply` has
  TLC evaluate both on two DAGs with two nested loops, three branches, an error port and an unwired branch.
  The last three theorems also assume `ForwardAcyclic`, that there is no cycle apart from the edges that
  lead back or past a loop: the editor's store (`stores/workflows/workflow/store.ts`) and the server that saves
  edges (`apps/realtime/src/database/operations.ts`) filter those that would close one (`filterAcyclicEdges`).
  - `LoopWaitsForFeeders`. A node that is queued, under way or still waits is *open*, and the edges that
    leave an open node are alive and still in the incoming sets behind it (`OpenEdgesLive`). From it and the wiring, as long as
    anything of a loop is open its end sentinel waits, and so does whatever is behind any open node. Routing keeps this:
    what a cascade cuts off was waiting, and only what waited for it can be reached
    (`RoutedReady`, `RoutedQueued`, `RoutedLive`). Going back restores it for the whole body at once,
    since the end sentinel is then the only open node of the loop.
  - `LoopInvariant` adds that scopes nest (`NestInv`): a node inside a loop runs only while the loop, and
    those around it, have scopes, and what they collected is of this round and of their members.
  - `LoopKeepsPromise` is the refinement of `LoopRun`, step by step. It needs that a
    loop with a scope that has not been left has a node with live edges that no cascade can cut off (`Started`), so that
    its end is still to come, and how the iteration counter, the history and an answer under way of either
    sentinel agree (`RoundsInv`, `LoopIndexBelowCount`), so that a round begins exactly when one is over, and the loop is
    left at its count.
  - `LoopResultsAreComplete` keeps an account of each loop (`Accounts`). Until its end sentinel answers, the scope holds
    the results of the rounds that are over, and of this round every output, unless its node still has live edges to route
    (`Collects`); the end sentinel, when it runs, finds no such node, so what it takes is the whole round (`OutputsAreIn`), and one more
    round keeps the list complete (`CompleteAppend`). Besides, an output is that of its node's last call
    (`HoldsLast`), only a start sentinel that lets nothing in marks the scope as skipped (`PassedBy`), and a loop that was left is
    over (`IsOver`), so what follows a loop finds its results unchanged.
  - `LoopsAreLeft` and `LoopsAbandonedAtAJoin` say when a run that succeeded has left every loop it entered. The account
    (`AccountInv`) is of all nodes. One that waits for nothing and is not called is `Idle`; every idle node that has feeders was cut off
    (`Skipped`: its edges are dead) or is a *stranded* join (`Stranded`: a feeder chose it, and it stopped waiting when
    a cascade cut off another feeder, which nobody looks at again). Unless the run was hindered (an error, a pause, an early stop), the calls that
    ended are awaited by nobody (`Delivered`), and the end sentinel of a loop under way waits or is about to run (`EndIsDue`).
    So where the end sentinel of an entered loop still waits when all is over, take the first node of that loop that
    waits (`ForwardAcyclic`): the feeder it waits for neither runs nor will, and its edge is alive,
    so it is stranded. A loop has no such node when only end sentinels join branches in it (`OnlyEndsJoin`); an inner end sentinel
    with a cut-off feeder is seen to run (`EndIsDue` for the inner loop). `OnlyEndsJoin` is a class of workflows, not something the code ensures, and the second DAG of
    `TheoremsApply` has it; `LoopsAbandonedAtAJoin` does without it, and `LoopAbandoned.cfg` shows that some hypothesis is needed.
  - `LoopsRunWhenEntered` (`OnlyEnteredLoopsRun`, the property that `LoopUntaken` violates): an activated start sentinel was
    activated from outside by an output that is still stored (`EnteredFromOutside`). Going back removes the outputs of a body
    only, and the end sentinel that goes back has none of its own, so what led into a loop behind stays.
* **Outbox.** `LeaseInv`: a worker's claim is never later than its row's lease, only
  the last claimer's can be equal, and a pending row was claimed strictly earlier.
  The strictness holds because the reaper waits longer than a handler may run,
  and makes a timestamp as good as a token. Exclusion, fencing, finality and
  the carrying of coalesced requests follow.
* **Idempotency.** `ClaimInv`: tokens of claim holders differ, and a holder on a live
  lease finds its own token, with its own deadline, in the entry. `OneLiveRun` follows.
  `CachedIsReal` follows from `RealInv`: a success that is stored, about to be stored, or was
  handed out, took effect. `NoDuplicateEffect` follows from `HonestInv`: until something excuses
  it, nothing stored expires, whoever has a claim finds it in the entry, and the
  effect happened at most once, its success then being stored or about to be by the holder.
* **Operation queue.** `IInv` is inductive as it stands: response timers are those of the
  operations in flight (`TimersMatch`), the processing flag stands for one of them
  (`BusyMeansInFlight`), and a pending operation in a joined room has a retry timer ahead
  of it (`IdleMeansWaiting`). `ProcessNextKeeps` says what `processNextOperation` does
  with any queue a caller hands it; each action only shows that it hands over a well-formed one.
  `ReadyIsSaved` proves `ReadyMeansSaved` from `SavedInv`: without an overlap (`Careful`), what
  was sent or answered is not younger than anything queued, so a confirmed operation is the
  oldest and the only update of its key can be its own; the last operation of a key carries
  the accepted edit, and a key with no operation left is stored, with nothing else about
  to be written over it. The lemmas named `...IsCareful` are about the data alone; the ones
  named `...IsSaved` apply them to the actions.

* **Pause and resume.** `IInv` of `PauseResume` is inductive as it stands, for any contexts,
  pauses, retries and number of deaths. A worker acts on an entry only while the entry is
  claimed (`ClaimsAreHeld`) and two entries of an execution are never claimed together
  (`EntriesExclude`): hence `OneActiveResume`. `EntriesExclude` also says that the entries of one
  point that are on their way or went through (`Live`) are one, which needs `PointsFollow` (the
  point tells of its entry, so a second request is refused) and gives
  `ContinuationRunsOnce`. `SnapshotsAreFresh` holds because no other resume completes while
  one works, and gives `ResumeSeesEarlier`. `DuePointsWait` keeps the poller honest between its read and
  its writes: a time pause is resumed by nobody else. `RowsAppearOnce` says when an execution gets its
  row, so a row in use is never replaced, and `NothingIsCancelled` that this module alone cancels nothing.
  With these, the branch of the drain that meets a stale entry is unreachable, which the
  proof of each drain uses.
* **Cancellation of a paused run** (`PausedCancellationProofs`, for any number of requests made at
  any moment). None of the above survives: an entry fails under its worker, a staged one comes
  back after its worker is gone, a rollback offers a point again, and the log moves. What is left
  is `CancelInv`: an entry that waits (staged ones too), is claimed, is worked on or went through
  holds its point alone, and the point is not offered meanwhile, unless a rollback reopened it
  (`PointsHeld`); no process is at an entry that may still be taken up (`WorkersFit`); only the
  run's own row is cancelled, with its log and with nothing for the poller (`OnlyRootCancels`). Each
  action is shown to be `Good`: it keeps `CancelInv`, revives nothing (`StaysCancelled`) and
  claims only entries of resumable executions (`ClaimsResumable`). The last two need only the state
  before the step, which is why the two action properties come with the invariant.

  What survives of who is active is `ActiveInv`, inductive given `CancelInv`, again for any number of
  requests: one entry of an execution is claimed and one resume is in its blocks, with its log
  (`OneIsActive`, hence `OneResumeWhileCancelling` and `RunningIsLoggedWhileCancelling`); until the
  run is cancelled no entry fails under its worker, and the point of a claimed one is being resumed
  (`ClaimsSurvive`); and a queued point keeps an entry that is pending or set aside by a staging
  (`QueuedPointsWait`, the theorem `QueuedPointsKeepAnEntry`). The second is what the third needs: a late
  write of a resume could otherwise queue a point anew. Every step of the run, its resumes and the
  poller is shown to be `Steady` (it keeps `ActiveInv` and sets no entry aside); a request only
  moves entries between pending and set aside.

  `QueueIsRestored` asks that nothing be set aside once the row can be resumed. It holds until a second request is made
  (`OneRequest`, which is what run `PausedCancellation` has), and `UndoneStagingRestoresTheQueue` proves it from `StagingFits`:
  where entries are set aside, the row is cancelling and the request is at a step from which it cancels
  the run, undoes the staging, or has given up and left the row as it is (`StagedAt`). The step that would forget them is
  the clearing of the intent while the log says the run is over, and a request that is about to clear found no claimed
  resume, so nobody writes the log meanwhile. With two requests, one through either interface, that last step fails:
  the service's clearing can fall between a resume writing the log and its settling, takes the row out of
  cancelling and restores nothing, and the route's rollback then finds no staging to undo (section 5).

Only model-checked: liveness (`RunEndsWithItsCalls`, `CancelledRunReturns`, `RunEnds`,
`EventsSettle`, `WaitersReturn`, `QueueDrains`, `ClaimIsReleased`), which is out of the prover's reach; and `LoopInv`, `KeepsLoopPromise`, `ResultsAreComplete`
and `NoLoopIsAbandoned` on the body that run `Loop` has, with an unwired branch and a join (the
first two do not hold of every body with such a branch, see `LoopJoin`).

## 5. Findings

* **A join can be stranded** (`EngineStranded`). When a cascade removes a join's last
  open edge after its other feeder already ran, nobody queues the join: the run
  succeeds without it. With the opposite order it runs. The documentation
  promises that a block starts the moment its dependencies finish.
* **The body of a loop that was not entered runs** (`LoopUntaken`). A condition that matches
  nothing, with no else, selects nothing; `processOutgoingEdges` takes that for an unrouted dead end
  and queues every ready terminal control node the cascade reached, the end sentinel
  of a loop downstream among them. The sentinel makes a scope, goes back, and the body runs one round
  short. With an else that leads nowhere the same branch is skipped as it should be, and by
  `LoopsRunWhenEntered` only an answer that neither fires an edge nor selects a branch, or a dead end in a
  loop, can do it.
* **A dead end in a loop kills the edges behind it** (`LoopJoin`). When a condition in a loop takes a
  branch that leads nowhere, the cascade passes through the end sentinel, all of whose feeders died, and
  on to whatever is behind the loop; going back revives only the edges whose source is inside. Blocks
  behind the loop are still started one after another as outputs reach them, but a join there finds no
  live edge left, starts with the first of its feeders while the second runs, and is started again
  after it. With a loop around it, the end sentinel of the outer loop is such a join: it goes back
  while blocks of its round still run (`KeepsLoopPromise` fails on such a DAG), although iterations are promised to run one after another. By the theorems about loops, neither can happen without
  a dead end in a loop or one as in `LoopUntaken`.
* **Deleting a block can lose an edit of another** (`QueueOverlap`).
  `cancelOperationsForBlock` clears `isProcessing` whatever is in flight, the next operation
  goes out beside it, and `flushSubblockUpdate` reads and writes back all fields of a block
  without a lock: one of two confirmed edits is gone, and the deploy button says ready.
* **A second pause cannot be resumed** (`SecondPause`). A resumed run that pauses again is
  stored under the id of its queue entry, which has no execution log: claiming the log finds
  nothing, and every resume of the second pause is refused.
* **A queued resume can be stranded** (`ResumeStranded.cfg`). When the admission of the active resume
  is refused for good, nobody drains the queue and nothing makes the poller look at the row.

What else the models show, not stated as a run because no document promises otherwise:

* A loop condition that cannot be evaluated (a sandbox error or timeout) counts as false, of a
  For loop too: the loop leaves before its count with the results so far, and the run succeeds.
  `KeepsLoopPromise` says that nothing else but a cancellation cuts a counted loop short.
* A join stranded as in `EngineStranded` inside a loop abandons the loop: its end sentinel waits
  for the join, and the run succeeds without what follows the loop, and without the remaining
  rounds. `tlc -config LoopAbandoned.cfg MCLoopEngine` shows it (`NoLoopIsAbandoned`) on a body of six blocks;
  `LoopsAbandonedAtAJoin` proves that nothing else abandons a loop where no dead end is in it.
* A run cancelled while it waits for its last calls still waits for them: when the abort signal wins
  the race of `waitForAllExecutions` (`engine.ts:253`), what is still executing is awaited all the same. A run
  cancelled in its loop returns at once, which is what the test "should not wait for slow executions
  when cancelled" (`engine.test.ts:632`) is about; `CancelledRunReturns` leaves the other case out.
* `maxAttempts` of the outbox does not bound invocations: the reaper (`service.ts:483`) puts the
  row of a dead worker back without counting the attempt, although `EnqueueOptions` calls it the
  "Total attempts before the event moves to `dead_letter`".
* An edit can be dropped as a duplicate of an older one: a field changed to a value, to another,
  and back while the first is in flight. `addToQueue` (`store.ts:183`) finds the third equal
  to the operation in flight and returns, and the second, still pending, is stored, while the
  editor shows the third.
* A cancellation that is rolled back sets the point of a resume that ended as failed
  to paused again, although its blocks may have run: the continuation can go through twice.
  `ReopenedAtMost` says that nothing else can make it.
* A resume that completes while the v2 service has the row marked loses its completion: its
  entry is failed, its point stays resuming.
* Two requests to cancel at once can undo each other's staging and leave a queued point
  without a pending entry: `clearPausedCancellationIntent` of the one, called while a resume has logged
  the run as completed and not yet settled, makes the row resumable and restores nothing; the
  rollback of the other then has no staging to undo. The entry stays marked as set aside
  (`QueuedPointsKeepAnEntry`), but nothing restores it unless a later request is rolled back.
* A row stays cancelling when its log is paused: the route answers 409, and
  `completePausedCancellation` refuses.
* The poller's `setNextResumeAt` overwrites the time a retry had set meanwhile.
* The poller's comment that a sibling resumes successfully after a failed one
  (`app/api/resume/poll/route.ts`) cannot come about once `markResumeFailed` ran.
* An entry claimed by a process that died is never recovered, and the resumes behind it wait for ever.

## 6. Not modelled, and why

Payload contents (outbox checkpoints and patches), batch sizes and budgets, logs,
redaction and streaming change no decision of the protocols above. Handlers,
tools, providers, Redis and Postgres are external: modelled from how the code uses
them. UI, documentation, desktop, CLI and packaging keep no protocol state. The
failed database statements of the poller and of settling a resume, runs of table cells, and the
transport of stop signals are left out of the resume models. Of the poller
(`app/api/resume/poll/route.ts`) these are a row whose resume metadata cannot be read (375-403, which
puts its due points, or those queued or resuming, on a wait that is not retried) and the `catch`
of the drain of a row without due points (416-432). Both go through `setAutomaticResumeWaiting`, which,
once it does not retry, fails the pending entry of the point and puts the point back to paused unless
it has a claimed one: `PollWaits` models it for due points only, not for a queued or resuming
point that was settled since the poller read the row. `WorkflowEngine` starts fresh runs only:
`Init` is the last branch of `initializeQueue`, and its branches for runs that resume from a
snapshot are left to the plan. The remaining components are planned:

## 7. Plan

In order of importance; each with its abstract promise, its runs and its theorems.

1. `Collaboration`: the coalescing realtime server (`handlers/subblocks.ts`) with two
   clients, each a sequential sender as `OperationQueue` shows one to be, and the broadcasts.
   Promise: an acknowledged update was persisted or superseded; when all is quiet, editors
   and database agree. Runs: 2 clients, 2 fields of a block, 2 values. Then
   `DraftSync`: the reload of the server state under version guards.
2. Parallels over `LoopEngine`. The orchestrator clones the body into the DAG batch by batch, so
   nodes, edges and incoming sets become variables there. Promise: each branch runs every
   body block once, and the exit fires once. With it, loops resumed from a snapshot.
3. `ScheduleClaims`: claims, start turns and recovery. Promise: starts within the budget,
   one start per due turn unless a claim went stale.
4. `TokenBucket`: the upsert against a reference bucket, as a pure operator.
5. More proofs: the engine theorems beyond `PlainDag`; of loops, which blocks of a body run in a round,
   as `DagRun` says it of a plain DAG.

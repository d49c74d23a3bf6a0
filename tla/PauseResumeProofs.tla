-------------------------- MODULE PauseResumeProofs --------------------------
(***************************************************************************)
(* Proofs about PauseResume: its inductive invariant, and what follows from *)
(* it: one resume of an execution runs at a time, from a snapshot with      *)
(* every resume before it, and no continuation goes through twice.          *)
(***************************************************************************)
EXTENDS PauseResume, FiniteSetTheorems, WellFoundedInduction, TLAPS

-----------------------------------------------------------------------------
(* Types.                                                                   *)

LEMMA BoundTypes == MaxEntries \in Nat /\ MaxRetries \in Nat /\ MaxCrashes \in Nat
BY PauseAssumption

LEMMA EntryTypes ==
  /\ Root \in Executions /\ Root \notin Entries
  /\ \A i \in Entries : i \in Executions /\ i \in Nat /\ i # Root
BY BoundTypes DEF Root, Executions, Entries

LEMMA QueueTypes ==
  ASSUME TypeOK
  PROVE  /\ DOMAIN queue = 1 .. Len(queue) /\ Len(queue) \in Nat
         /\ \A i \in DOMAIN queue :
              /\ i \in Entries /\ i \in Nat
              /\ queue[i] \in Entry /\ worker[i] \in Worker
              /\ Exec(i) \in Executions /\ Ctx(i) \in Contexts
<1>1. queue \in Seq(Entry) /\ Len(queue) \in Nat /\ Len(queue) <= MaxEntries
  BY DEF TypeOK
<1>2. DOMAIN queue = 1 .. Len(queue)
  BY <1>1
<1>3. ASSUME NEW i \in DOMAIN queue
      PROVE  i \in Entries /\ i \in Nat /\ queue[i] \in Entry
  BY <1>1, <1>2, BoundTypes DEF Entries
<1>4. worker \in [Entries -> Worker]
  BY DEF TypeOK
<1> QED
  BY <1>1, <1>2, <1>3, <1>4 DEF Entry, Exec, Ctx

LEMMA PointType ==
  ASSUME NEW r \in Row, NEW c \in Contexts, NEW s \in PointStatuses
  PROVE  /\ SetPoint(r, c, s) \in Row
         /\ SetPoint(r, c, s).points[c] = s
         /\ \A d \in Contexts \ {c} : SetPoint(r, c, s).points[d] = r.points[d]
         /\ SetPoint(r, c, s).status = r.status
         /\ SetPoint(r, c, s).resumed = r.resumed
         /\ SetPoint(r, c, s).retries = r.retries
         /\ SetPoint(r, c, s).next = r.next
         /\ SetPoint(r, c, s).done = r.done
BY DEF SetPoint, Row

LEMMA RowUpdate ==
  ASSUME TypeOK, NEW e \in Executions, NEW r \in Row, row' = [row EXCEPT ![e] = r]
  PROVE  /\ row' \in [Executions -> Row] /\ row'[e] = r
         /\ \A f \in Executions \ {e} : row'[f] = row[f]
BY DEF TypeOK

LEMMA EntryStatus ==
  ASSUME TypeOK, NEW i \in DOMAIN queue,
         NEW s \in {"pending", "claimed", "completed", "failed"}
  PROVE  /\ SetEntry(i, s) \in Seq(Entry)
         /\ Len(SetEntry(i, s)) = Len(queue)
         /\ DOMAIN SetEntry(i, s) = DOMAIN queue
         /\ SetEntry(i, s)[i].status = s
         /\ SetEntry(i, s)[i].exec = Exec(i) /\ SetEntry(i, s)[i].ctx = Ctx(i)
         /\ \A j \in DOMAIN queue \ {i} : SetEntry(i, s)[j] = queue[j]
<1>1. queue \in Seq(Entry) /\ queue[i] \in Entry
  BY QueueTypes DEF TypeOK
<1>2. [queue[i] EXCEPT !.status = s] \in Entry
  BY <1>1 DEF Entry
<1>3. SetEntry(i, s) = [queue EXCEPT ![i] = [queue[i] EXCEPT !.status = s]]
  BY DEF SetEntry
<1>4. [queue[i] EXCEPT !.status = s].status = s
      /\ [queue[i] EXCEPT !.status = s].exec = Exec(i)
      /\ [queue[i] EXCEPT !.status = s].ctx = Ctx(i)
  BY <1>1 DEF Entry, Exec, Ctx
<1> DEFINE new == [queue[i] EXCEPT !.status = s]
<1>5. new \in Entry /\ new.status = s /\ new.exec = Exec(i) /\ new.ctx = Ctx(i)
  BY <1>2, <1>4
<1>6. SetEntry(i, s) = [queue EXCEPT ![i] = new]
  BY <1>3
<1> HIDE DEF new
<1>7. /\ [queue EXCEPT ![i] = new] \in Seq(Entry)
      /\ Len([queue EXCEPT ![i] = new]) = Len(queue)
      /\ DOMAIN [queue EXCEPT ![i] = new] = DOMAIN queue
  BY <1>1, <1>5
<1>8. /\ [queue EXCEPT ![i] = new][i] = new
      /\ \A j \in DOMAIN queue \ {i} : [queue EXCEPT ![i] = new][j] = queue[j]
  OBVIOUS
<1> QED
  BY <1>5, <1>6, <1>7, <1>8

LEMMA LeastNumber ==
  ASSUME NEW S, S \subseteq Nat, S # {}
  PROVE  \E i \in S : \A j \in S : i <= j
<1>1. PICK i \in S : \A j \in S : <<j, i>> \notin OpToRel(<, Nat)
  BY NatLessThanWellFounded, WFMin
<1>2. \A j \in S : ~ (j < i)
  BY <1>1 DEF OpToRel
<1> QED
  BY <1>2

(* The head of the queue of an execution. *)
LEMMA FirstPending ==
  ASSUME TypeOK, NEW e, Pending(e) # {}
  PROVE  /\ First(Pending(e)) \in DOMAIN queue
         /\ Exec(First(Pending(e))) = e
         /\ queue[First(Pending(e))].status = "pending"
<1>1. Pending(e) \subseteq Nat
  BY QueueTypes DEF Pending, WithStatus
<1>2. \E i \in Pending(e) : \A j \in Pending(e) : i <= j
  BY <1>1, LeastNumber
<1>3. First(Pending(e)) \in Pending(e)
  BY <1>2 DEF First
<1> QED
  BY <1>3 DEF Pending, WithStatus, Exec
-----------------------------------------------------------------------------
(* Steps that leave the queue and the points alone.                          *)

Gone == {"finished", "repaused"}

(* What the points say of a row does not change. *)
SamePoints ==
  \A e \in Executions : /\ row'[e].points = row[e].points /\ row'[e].status = row[e].status
                        /\ row'[e].resumed = row[e].resumed

(* A worker goes on with its entry: its outcome is set when its run ends. *)
GoesOn(j) ==
  /\ j \in DOMAIN queue
  /\ worker'[j].seen = worker[j].seen /\ worker'[j].signalled = worker[j].signalled
  /\ worker'[j].out = worker[j].out \/ worker[j].pc \in {"admit", "running"}
  /\ worker'[j].pc \in Working => worker[j].pc \in Working
  /\ worker'[j].pc \in {"stopped", "completes", "drain"} => worker[j].pc \in {"stopped", "completes", "drain"}
  /\ worker'[j].pc \in {"idle", "admit", "running"} => worker'[j].out = "none"
  /\ worker'[j].pc = "running" => Exec(j) = Root
  /\ worker'[j].pc = "snapshot" => worker'[j].out = "finished"
  /\ worker'[j].pc \in {"persist", "drainChild"} => worker'[j].out = "repaused"
  /\ worker'[j].pc = "persist" => worker[j].pc = "running"

LEMMA SameClaims ==
  ASSUME IInv, queue' = queue, \A j \in Entries : worker'[j] = worker[j] \/ GoesOn(j)
  PROVE  ClaimsAreHeld' /\ EntriesExclude'
<1>1. ClaimsAreHeld /\ EntriesExclude /\ \A j \in DOMAIN queue : j \in Entries
  BY QueueTypes DEF IInv
<1>2. ClaimsAreHeld'
  <2>1. \A j \in Entries \ DOMAIN queue : worker'[j] = NoWorker
    BY <1>1 DEF GoesOn, ClaimsAreHeld
  <2>2. ASSUME NEW j \in DOMAIN queue
        PROVE  /\ worker'[j].pc \in Working => queue[j].status = "claimed"
               /\ worker'[j].pc \in {"stopped", "completes", "drain"} => queue[j].status \in {"completed", "failed"}
               /\ queue[j].status = "pending" => worker'[j].out \in {"none", "retry"}
               /\ worker'[j].pc \in {"idle", "admit", "running"} => worker'[j].out = "none"
               /\ worker'[j].pc = "running" => Exec(j) = Root
               /\ worker'[j].pc = "snapshot" => worker'[j].out = "finished"
               /\ worker'[j].pc \in {"persist", "drainChild"} => worker'[j].out = "repaused"
    BY <1>1, <2>2 DEF GoesOn, ClaimsAreHeld, Working
  <2> QED
    BY <2>1, <2>2 DEF ClaimsAreHeld, Exec, NoWorker, Working
<1>3. ASSUME NEW j \in DOMAIN queue, Live(j)'
      PROVE  Live(j)
  BY <1>1, <1>3 DEF GoesOn, ClaimsAreHeld, Live, Working
<1>4. EntriesExclude'
  BY <1>1, <1>3 DEF EntriesExclude, Exec, Ctx
<1> QED
  BY <1>2, <1>4

LEMMA SameFollow ==
  ASSUME IInv, TypeOK', queue' = queue, SamePoints,
         \A j \in Entries : worker'[j] = worker[j] \/ GoesOn(j)
  PROVE  PointsFollow' /\ PointsAreCarried'
<1>1. /\ ClaimsAreHeld /\ PointsFollow /\ PointsAreCarried
      /\ \A j \in DOMAIN queue : j \in Entries /\ Exec(j) \in Executions
  BY QueueTypes DEF IInv
<1>2. ASSUME NEW j \in DOMAIN queue
      PROVE  /\ row'[Exec(j)].status = row[Exec(j)].status
             /\ row'[Exec(j)].points = row[Exec(j)].points
  BY <1>1 DEF SamePoints
<1>3. ASSUME NEW j \in DOMAIN queue, worker'[j].out \in Gone
      PROVE  worker[j].out \in Gone \/ queue[j].status = "claimed"
  BY <1>1, <1>3 DEF GoesOn, ClaimsAreHeld, Working
<1>4. PointsFollow'
  BY <1>1, <1>2, <1>3 DEF PointsFollow, Exec, Ctx, Gone
<1>5. ASSUME NEW j \in DOMAIN queue, queue[j].status = "completed"
      PROVE  worker'[j].out = worker[j].out
  BY <1>1, <1>5 DEF GoesOn, ClaimsAreHeld, Working
<1>6. PointsAreCarried'
  <2> SUFFICES ASSUME NEW e \in Executions, NEW c \in Contexts, row[e].status \in Resumable
               PROVE  /\ row[e].points[c] = "queued" => \E i \in Pending(e) : Ctx(i) = c
                      /\ row[e].points[c] = "resuming" =>
                           \E i \in DOMAIN queue :
                             /\ Exec(i) = e /\ Ctx(i) = c
                             /\ \/ queue[i].status = "claimed"
                                \/ queue[i].status = "completed" /\ worker'[i].out = "repaused"
    BY DEF PointsAreCarried, SamePoints, Pending, WithStatus, Exec, Ctx
  <2> QED
    BY <1>1, <1>5 DEF PointsAreCarried
<1> QED
  BY <1>4, <1>6

LEMMA SameCounts ==
  ASSUME IInv, SamePoints
  PROVE  CountMatches' /\ \A e \in Executions : Resumed(row'[e]) = Resumed(row[e])
<1>1. \A e \in Executions : Resumed(row'[e]) = Resumed(row[e]) /\ Points(row'[e]) = Points(row[e])
  BY DEF SamePoints, Resumed, Points
<1> QED
  BY <1>1 DEF SamePoints, CountMatches, IInv

LEMMA SameDue ==
  ASSUME IInv, TypeOK', SamePoints, poll' = poll \/ poll'.pc = "idle"
  PROVE  DuePointsWait'
<1>1. poll.exec \in Executions
  BY DEF IInv, TypeOK, Poll
<1> QED
  BY <1>1 DEF SamePoints, DuePointsWait, IInv

LEMMA QuietStep ==
  ASSUME IInv, TypeOK', queue' = queue, SamePoints,
         \A j \in Entries : worker'[j] = worker[j] \/ GoesOn(j),
         \A e \in Executions : Resumed(row[e]) \subseteq row'[e].done,
         \A j \in DOMAIN queue :
           worker'[j].pc = "settle" /\ worker'[j].out = "finished" => Ctx(j) \in row'[Exec(j)].done,
         run'.signalled = run.signalled,
         run'.pc \in {"running", "persist"} => run.pc \in {"running", "persist"},
         log' # "cancelled", DuePointsWait', RunningIsLogged'
  PROVE  IInv'
<1>1. /\ ClaimsAreHeld /\ EntriesExclude /\ PointsFollow /\ RowsAppearOnce
      /\ SnapshotsAreFresh /\ NothingIsCancelled
      /\ \A j \in DOMAIN queue : j \in Entries /\ Exec(j) \in Executions
      /\ Root \in Executions /\ \A i \in Entries : i \in Executions
  BY QueueTypes, EntryTypes DEF IInv
<1>2. ClaimsAreHeld' /\ EntriesExclude' /\ PointsFollow' /\ PointsAreCarried' /\ CountMatches'
  BY SameClaims, SameFollow, SameCounts
<1>3. RowsAppearOnce'
  <2>1. run'.pc \in {"running", "persist"} => row'[Root].status = "none"
    BY <1>1 DEF RowsAppearOnce, SamePoints
  <2>2. ASSUME NEW i \in Entries, row'[i].status # "none"
        PROVE  worker'[i].out = "repaused" /\ worker'[i].pc # "persist"
    BY <1>1, <2>2 DEF RowsAppearOnce, SamePoints, GoesOn, ClaimsAreHeld
  <2> QED
    BY <2>1, <2>2 DEF RowsAppearOnce
<1>4. SnapshotsAreFresh'
  <2>1. \A e \in Executions : Resumed(row'[e]) = Resumed(row[e])
    BY SameCounts
  <2>2. ASSUME NEW i \in DOMAIN queue, worker'[i].pc \in Working
        PROVE  Resumed(row'[Exec(i)]) \subseteq worker'[i].seen
    <3>1. worker[i].pc \in Working /\ worker'[i].seen = worker[i].seen
      BY <1>1, <2>2 DEF GoesOn
    <3> QED
      BY <1>1, <2>1, <3>1 DEF SnapshotsAreFresh
  <2> QED
    BY <2>1, <2>2 DEF SnapshotsAreFresh, Exec, Ctx, Working
<1>5. NothingIsCancelled'
  BY <1>1 DEF NothingIsCancelled, SamePoints, GoesOn
<1> QED
  BY <1>2, <1>3, <1>4, <1>5 DEF IInv
-----------------------------------------------------------------------------
(* The quiet steps of a worker.                                              *)

Pcs == {"idle", "admit", "running", "snapshot", "persist", "drainChild", "settle",
        "stopped", "completes", "drain", "done", "dead"}

LEMMA Names ==
  /\ {"idle", "admit", "running", "snapshot", "persist", "drainChild", "settle",
      "stopped", "completes", "drain", "done", "dead"} \subseteq Pcs
  /\ {"none", "finished", "repaused", "errored", "stopped", "refused", "retry", "dropped"}
       \subseteq Outcomes
BY DEF Pcs, Outcomes

LEMMA GotoType ==
  ASSUME TypeOK, NEW i \in Entries, NEW pc \in Pcs
  PROVE  /\ Goto(i, pc) \in [Entries -> Worker]
         /\ \A j \in Entries \ {i} : Goto(i, pc)[j] = worker[j]
         /\ Goto(i, pc)[i].pc = pc /\ Goto(i, pc)[i].out = worker[i].out
         /\ Goto(i, pc)[i].seen = worker[i].seen /\ Goto(i, pc)[i].signalled = worker[i].signalled
<1>1. worker \in [Entries -> Worker] /\ worker[i] \in Worker
  BY DEF TypeOK
<1> DEFINE one == [worker[i] EXCEPT !.pc = pc]
<1>2. /\ one \in Worker /\ one.pc = pc /\ one.out = worker[i].out
      /\ one.seen = worker[i].seen /\ one.signalled = worker[i].signalled
  BY <1>1 DEF Worker, Pcs
<1>3. Goto(i, pc) = [worker EXCEPT ![i] = one]
  BY DEF Goto
<1> HIDE DEF one
<1> QED
  BY <1>1, <1>2, <1>3

LEMMA GotoWithType ==
  ASSUME TypeOK, NEW i \in Entries, NEW pc \in Pcs, NEW out \in Outcomes
  PROVE  /\ GotoWith(i, pc, out) \in [Entries -> Worker]
         /\ \A j \in Entries \ {i} : GotoWith(i, pc, out)[j] = worker[j]
         /\ GotoWith(i, pc, out)[i].pc = pc /\ GotoWith(i, pc, out)[i].out = out
         /\ GotoWith(i, pc, out)[i].seen = worker[i].seen
         /\ GotoWith(i, pc, out)[i].signalled = worker[i].signalled
<1>1. worker \in [Entries -> Worker] /\ worker[i] \in Worker
  BY DEF TypeOK
<1> DEFINE two == [worker[i] EXCEPT !.pc = pc, !.out = out]
<1>2. /\ two \in Worker /\ two.pc = pc /\ two.out = out
      /\ two.seen = worker[i].seen /\ two.signalled = worker[i].signalled
  BY <1>1 DEF Worker, Pcs
<1>3. GotoWith(i, pc, out) = [worker EXCEPT ![i] = two]
  BY <1>1 DEF GotoWith
<1> HIDE DEF two
<1> QED
  BY <1>1, <1>2, <1>3

(* With the same queue, no more resumes run in their blocks.                 *)
LEMMA FewerRunning ==
  ASSUME IInv, queue' = queue, \A j \in DOMAIN queue : worker'[j].pc = "running" => worker[j].pc = "running",
         log' = log \/ log' = "running" \/ \A j \in DOMAIN queue : worker'[j].pc # "running"
  PROVE  RunningIsLogged'
<1>1. (Running(Root) # {})' => Running(Root) # {}
  BY DEF Running, Exec
<1>2. CASE log' = log
  BY <1>1, <1>2 DEF RunningIsLogged, IInv
<1>3. CASE log' = "running"
  BY <1>3 DEF RunningIsLogged
<1>4. CASE \A j \in DOMAIN queue : worker'[j].pc # "running"
  BY <1>4 DEF RunningIsLogged, Running
<1> QED
  BY <1>2, <1>3, <1>4

LEMMA ClaimLogInv ==
  ASSUME IInv, NEW i \in Entries, ClaimLog(i)
  PROVE  IInv'
<1>1. TypeOK /\ i \in DOMAIN queue /\ worker[i].pc = "admit" /\ row' = row /\ queue' = queue
      /\ UNCHANGED Rest
  BY DEF IInv, ClaimLog, At
<1>2. \/ worker' = Goto(i, "running") /\ log' = "running" /\ Exec(i) = Root
      \/ worker' = GotoWith(i, "settle", "refused") /\ log' = log
  BY DEF ClaimLog, Claimable
<1>3. /\ worker' \in [Entries -> Worker] /\ log' \in LogStatuses
      /\ \A j \in Entries \ {i} : worker'[j] = worker[j]
      /\ worker'[i].seen = worker[i].seen /\ worker'[i].signalled = worker[i].signalled
      /\ \/ worker'[i].pc = "running" /\ worker'[i].out = worker[i].out /\ Exec(i) = Root
         \/ worker'[i].pc = "settle" /\ worker'[i].out = "refused"
  <2>1. log' \in LogStatuses
    BY <1>1, <1>2 DEF LogStatuses, TypeOK
  <2>2. "running" \in Pcs /\ "settle" \in Pcs /\ "refused" \in Outcomes
    BY Names
  <2>3. CASE worker' = Goto(i, "running") /\ Exec(i) = Root
    BY <1>1, <2>1, <2>2, <2>3, GotoType
  <2>4. CASE worker' = GotoWith(i, "settle", "refused")
    BY <1>1, <2>1, <2>2, <2>4, GotoWithType
  <2> QED
    BY <1>2, <2>3, <2>4
<1>4. TypeOK'
  BY <1>1, <1>3 DEF TypeOK, Rest
<1>5. worker[i].out = "none" /\ log # "cancelled" /\ SnapshotsAreFresh
  BY <1>1 DEF IInv, ClaimsAreHeld, NothingIsCancelled
<1>6. SamePoints /\ DuePointsWait'
  BY <1>1 DEF SamePoints, Rest, IInv, DuePointsWait
<1>7. GoesOn(i)
  BY <1>1, <1>3, <1>5 DEF GoesOn, Working
<1>8. RunningIsLogged'
  <2>1. CASE log' = "running"
    BY <2>1 DEF RunningIsLogged
  <2>2. CASE worker'[i].pc = "settle" /\ log' = log
    BY <1>1, <1>3, <2>2, FewerRunning, QueueTypes
  <2> QED
    BY <1>1, <1>2, <2>1, <2>2, GotoWithType, Names
<1> QED
  BY <1>1, <1>2, <1>3, <1>4, <1>5, <1>6, <1>7, <1>8, QuietStep, QueueTypes
     DEF SnapshotsAreFresh, Rest
LEMMA GotoIsGotoWith ==
  ASSUME TypeOK, NEW i \in Entries, NEW pc \in Pcs
  PROVE  Goto(i, pc) = GotoWith(i, pc, worker[i].out)
<1>1. worker \in [Entries -> Worker] /\ worker[i] \in Worker
  BY DEF TypeOK
<1>2. [worker[i] EXCEPT !.pc = pc] = [worker[i] EXCEPT !.pc = pc, !.out = worker[i].out]
  BY <1>1 DEF Worker
<1> QED
  BY <1>1, <1>2 DEF Goto, GotoWith

(* A worker goes on, and no row changes.  The log is written by the one that *)
(* runs its blocks.                                                          *)
LEMMA WorkerGoesOn ==
  ASSUME IInv, NEW i \in DOMAIN queue, NEW pc \in Pcs \ {"idle", "admit", "running"},
         NEW out \in Outcomes, worker' = GotoWith(i, pc, out),
         row' = row, queue' = queue, UNCHANGED <<run, poll>>,
         crashes' \in 0 .. MaxCrashes,
         log' \in LogStatuses, log' # "cancelled", log' = log \/ worker[i].pc = "running",
         out = worker[i].out \/ worker[i].pc \in {"admit", "running"},
         pc \in Working => worker[i].pc \in Working,
         pc \in {"stopped", "completes", "drain"} => worker[i].pc \in {"stopped", "completes", "drain"},
         pc = "snapshot" => out = "finished",
         pc \in {"persist", "drainChild"} => out = "repaused",
         pc = "persist" => worker[i].pc = "running",
         ~ (pc = "settle" /\ out = "finished")
  PROVE  IInv'
<1>1. TypeOK /\ i \in Entries
  BY QueueTypes DEF IInv
<1>2. /\ worker' \in [Entries -> Worker]
      /\ \A j \in Entries \ {i} : worker'[j] = worker[j]
      /\ worker'[i].pc = pc /\ worker'[i].out = out
      /\ worker'[i].seen = worker[i].seen /\ worker'[i].signalled = worker[i].signalled
  BY <1>1, GotoWithType
<1>3. TypeOK'
  BY <1>1, <1>2 DEF TypeOK
<1>4. SamePoints /\ DuePointsWait'
  BY DEF SamePoints, IInv, DuePointsWait
<1>5. GoesOn(i)
  BY <1>2 DEF GoesOn
<1>6. SnapshotsAreFresh /\ ClaimsAreHeld /\ EntriesExclude
  BY DEF IInv
<1>7. \A j \in DOMAIN queue : worker'[j].pc = "running" => worker[j].pc = "running" /\ j # i
  BY <1>1, <1>2, QueueTypes
<1>8. log' = log \/ \A j \in DOMAIN queue : worker'[j].pc # "running"
  <2> SUFFICES ASSUME worker[i].pc = "running", NEW j \in DOMAIN queue, worker'[j].pc = "running"
               PROVE  FALSE
    OBVIOUS
  <2>1. worker[j].pc = "running" /\ j # i
    BY <1>7
  <2>2. Exec(i) = Root /\ Exec(j) = Root /\ queue[i].status = "claimed" /\ queue[j].status = "claimed"
    BY <1>6, <2>1 DEF ClaimsAreHeld, Working
  <2> QED
    BY <1>6, <2>1, <2>2 DEF EntriesExclude
<1>9. RunningIsLogged'
  BY <1>7, <1>8, FewerRunning
<1>10. \A j \in DOMAIN queue :
         worker'[j].pc = "settle" /\ worker'[j].out = "finished" => Ctx(j) \in row'[Exec(j)].done
  BY <1>1, <1>2, <1>6, QueueTypes DEF SnapshotsAreFresh
<1>11. \A j \in Entries : worker'[j] = worker[j] \/ GoesOn(j)
  BY <1>2, <1>5
<1>12. \A e \in Executions : Resumed(row[e]) \subseteq row'[e].done
  BY <1>6 DEF SnapshotsAreFresh
<1> QED
  BY <1>3, <1>4, <1>9, <1>10, <1>11, <1>12, QuietStep

LEMMA EngineEndsInv ==
  ASSUME IInv, NEW i \in Entries, EngineEnds(i)
  PROVE  IInv'
<1>1. /\ TypeOK /\ i \in DOMAIN queue /\ worker[i].pc = "running" /\ worker[i] \in Worker
      /\ row' = row /\ queue' = queue /\ UNCHANGED Rest /\ log # "cancelled" /\ ~worker[i].signalled
  BY QueueTypes DEF IInv, EngineEnds, At, NothingIsCancelled
<1>2. PICK end \in Endings(i) : log' = LogWrite(end[2]) /\ worker' = GotoWith(i, AfterEnd(end[1]), end[1])
  BY DEF EngineEnds
<1>3. /\ end[1] \in {"finished", "repaused", "errored", "stopped"}
      /\ log' \in {"completed", "failed", "pending"}
  BY <1>1, <1>2 DEF Endings, LogWrite
<1>4. /\ AfterEnd(end[1]) \in {"snapshot", "persist", "settle"}
      /\ AfterEnd(end[1]) = "snapshot" => end[1] = "finished"
      /\ AfterEnd(end[1]) = "persist" => end[1] = "repaused"
      /\ AfterEnd(end[1]) = "settle" => end[1] # "finished"
  BY <1>3 DEF AfterEnd
<1>5. crashes' \in 0 .. MaxCrashes
  BY <1>1 DEF Rest, TypeOK
<1>6. end[1] \in Outcomes /\ AfterEnd(end[1]) \in Pcs \ {"idle", "admit", "running"}
  BY <1>3, <1>4 DEF Outcomes, Pcs
<1>7. log' \in LogStatuses /\ log' # "cancelled"
  BY <1>3 DEF LogStatuses
<1> HIDE DEF Endings
<1> QED
  BY <1>1, <1>2, <1>4, <1>5, <1>6, <1>7, WorkerGoesOn DEF Rest, Working

LEMMA LeavesInv ==
  ASSUME IInv, NEW i \in Entries, NotAdmitted(i) \/ NotDispatched(i)
  PROVE  IInv'
<1>1. /\ TypeOK /\ i \in DOMAIN queue /\ worker[i].pc \in {"admit", "running"}
      /\ UNCHANGED stores /\ UNCHANGED Rest /\ log # "cancelled"
  BY DEF IInv, NotAdmitted, NotDispatched, At, NothingIsCancelled
<1>2. PICK out \in {"refused", "retry", "dropped"} : worker' = GotoWith(i, "settle", out)
  BY DEF NotAdmitted, NotDispatched
<1>3. out \in Outcomes /\ "settle" \in Pcs \ {"idle", "admit", "running"}
  BY DEF Outcomes, Pcs
<1>4. log' \in LogStatuses /\ crashes' \in 0 .. MaxCrashes
  BY <1>1 DEF Rest, stores, TypeOK
<1> QED
  BY <1>1, <1>2, <1>3, <1>4, WorkerGoesOn DEF Rest, stores, Working

LEMMA PersistAgainFailsInv ==
  ASSUME IInv, NEW i \in Entries, PersistAgainFails(i)
  PROVE  IInv'
<1>1. /\ TypeOK /\ i \in DOMAIN queue /\ worker[i].pc = "persist" /\ worker[i].out = "repaused"
      /\ UNCHANGED stores /\ UNCHANGED Rest /\ log # "cancelled"
  BY DEF IInv, PersistAgainFails, At, NothingIsCancelled, ClaimsAreHeld
<1>2. "settle" \in Pcs \ {"idle", "admit", "running"} /\ "repaused" \in Outcomes
  BY DEF Pcs, Outcomes
<1>3. worker' = GotoWith(i, "settle", "repaused")
  BY <1>1, <1>2, GotoIsGotoWith DEF PersistAgainFails
<1>4. log' \in LogStatuses /\ crashes' \in 0 .. MaxCrashes
  BY <1>1 DEF Rest, stores, TypeOK
<1> QED
  BY <1>1, <1>2, <1>3, <1>4, WorkerGoesOn DEF Rest, stores, Working

LEMMA StoppedResumeInv ==
  ASSUME IInv, NEW i \in Entries, StoppedResumeReads(i)
  PROVE  IInv'
<1>1. /\ TypeOK /\ i \in DOMAIN queue /\ worker[i].pc = "stopped" /\ worker[i] \in Worker
      /\ UNCHANGED Rest /\ log # "cancelled" /\ Exec(i) \in Executions
      /\ row[Exec(i)].status # "cancelling"
  BY QueueTypes DEF IInv, StoppedResumeReads, At, NothingIsCancelled
<1>2. UNCHANGED stores
  BY <1>1 DEF StoppedResumeReads
<1>3. "drain" \in Pcs \ {"idle", "admit", "running"} /\ worker[i].out \in Outcomes
  BY <1>1 DEF Pcs, Worker
<1>4. worker' = GotoWith(i, "drain", worker[i].out)
  BY <1>1, <1>3, GotoIsGotoWith DEF StoppedResumeReads
<1>5. log' \in LogStatuses /\ crashes' \in 0 .. MaxCrashes
  BY <1>1, <1>2 DEF Rest, stores, TypeOK
<1> QED
  BY <1>1, <1>2, <1>3, <1>4, <1>5, WorkerGoesOn DEF Rest, stores, Working

(* The snapshot of a resume holds what was resumed before it, and its own. *)
LEMMA UpdateSnapshotInv ==
  ASSUME IInv, NEW i \in Entries, UpdateSnapshot(i)
  PROVE  IInv'
<1> DEFINE e == Exec(i)
           d == worker[i].seen \cup {Ctx(i)}
<1>1. /\ TypeOK /\ i \in DOMAIN queue /\ worker[i].pc = "snapshot" /\ worker[i] \in Worker
      /\ e \in Executions /\ Ctx(i) \in Contexts
      /\ log' = log /\ queue' = queue /\ UNCHANGED Rest /\ worker' = Goto(i, "settle")
      /\ row' = [row EXCEPT ![e].done = d]
  BY QueueTypes DEF IInv, UpdateSnapshot, At
<1>2. /\ ClaimsAreHeld /\ EntriesExclude /\ SnapshotsAreFresh /\ NothingIsCancelled
  BY DEF IInv
<1>3. row[e] \in Row /\ d \in SUBSET Contexts
  BY <1>1 DEF TypeOK, Worker
<1> DEFINE r == [row[e] EXCEPT !.done = d]
<1>4. /\ r \in Row /\ r.done = d /\ r.points = row[e].points /\ r.status = row[e].status
      /\ r.resumed = row[e].resumed
  BY <1>1, <1>3 DEF Row
<1>a. row' = [row EXCEPT ![e] = r]
  BY <1>1
<1> HIDE DEF r, d, e
<1>5. /\ row' \in [Executions -> Row] /\ row'[e].done = d
      /\ \A f \in Executions \ {e} : row'[f] = row[f]
      /\ row'[e].points = row[e].points /\ row'[e].status = row[e].status
      /\ row'[e].resumed = row[e].resumed
  BY <1>1, <1>4, <1>a, RowUpdate
<1>6. SamePoints
  BY <1>5 DEF SamePoints
<1>7. /\ worker' \in [Entries -> Worker] /\ \A j \in Entries \ {i} : worker'[j] = worker[j]
      /\ worker'[i].pc = "settle" /\ worker'[i].out = worker[i].out
      /\ worker'[i].seen = worker[i].seen /\ worker'[i].signalled = worker[i].signalled
  BY <1>1, GotoType, Names
<1>8. TypeOK'
  BY <1>1, <1>5, <1>7 DEF TypeOK, Rest
<1>9. \A j \in Entries : worker'[j] = worker[j] \/ GoesOn(j)
  BY <1>1, <1>7 DEF GoesOn, Working
<1>10. DuePointsWait'
  BY <1>1, <1>6, <1>8, SameDue DEF Rest
<1>11. RunningIsLogged'
  BY <1>1, <1>7, FewerRunning, QueueTypes
<1>12. Resumed(row[e]) \subseteq worker[i].seen
  BY <1>1, <1>2 DEF SnapshotsAreFresh, Working, e
<1>13. \A f \in Executions : Resumed(row[f]) \subseteq row'[f].done
  BY <1>2, <1>5, <1>12 DEF SnapshotsAreFresh, d
<1>14. ASSUME NEW j \in DOMAIN queue, worker'[j].pc = "settle", worker'[j].out = "finished"
       PROVE  Ctx(j) \in row'[Exec(j)].done
  <2>1. CASE j = i
    BY <1>5, <2>1 DEF d, e
  <2>2. CASE j # i
    <3>1. worker[j].pc = "settle" /\ worker[j].out = "finished" /\ Exec(j) \in Executions
      BY <1>1, <1>7, <1>14, <2>2, QueueTypes
    <3>2. Exec(j) # e
      BY <1>1, <1>2, <2>2, <3>1 DEF ClaimsAreHeld, EntriesExclude, Working, e
    <3> QED
      BY <1>2, <1>5, <3>1, <3>2 DEF SnapshotsAreFresh
  <2> QED
    BY <2>1, <2>2
<1> QED
  BY <1>1, <1>2, <1>6, <1>8, <1>9, <1>10, <1>11, <1>13, <1>14, QuietStep
     DEF Rest, NothingIsCancelled

-----------------------------------------------------------------------------
(* The quiet steps of the run, of the poller, and of a crash.                *)

(* The steps that change no worker and, of the rows, only when they are due. *)
LEMMA OthersStep ==
  ASSUME IInv, TypeOK', worker' = worker, queue' = queue, SamePoints,
         \A e \in Executions : row'[e].done = row[e].done,
         run'.signalled = run.signalled,
         run'.pc \in {"running", "persist"} => run.pc \in {"running", "persist"},
         log' = log \/ (log' # "cancelled" /\ Running(Root) = {}),
         DuePointsWait'
  PROVE  IInv'
<1>1. SnapshotsAreFresh /\ NothingIsCancelled /\ RunningIsLogged
      /\ \A j \in DOMAIN queue : Exec(j) \in Executions
  BY QueueTypes DEF IInv
<1>2. RunningIsLogged'
  BY <1>1 DEF RunningIsLogged, Running, Exec
<1>3. \A j \in DOMAIN queue :
        worker'[j].pc = "settle" /\ worker'[j].out = "finished" => Ctx(j) \in row'[Exec(j)].done
  BY <1>1 DEF SnapshotsAreFresh
<1> QED
  BY <1>1, <1>2, <1>3, QuietStep DEF SnapshotsAreFresh, NothingIsCancelled

LEMMA NextType ==
  ASSUME TypeOK, NEW e \in Executions, NEW b \in BOOLEAN, row' = SetNext(e, b)
  PROVE  /\ row' \in [Executions -> Row] /\ SamePoints
         /\ \A f \in Executions : row'[f].done = row[f].done
<1>1. row \in [Executions -> Row] /\ row[e] \in Row
  BY DEF TypeOK
<1>2. CASE row' = row
  BY <1>1, <1>2 DEF SamePoints
<1>3. CASE row' = [row EXCEPT ![e].next = b]
  <2> DEFINE r == [row[e] EXCEPT !.next = b]
  <2>1. /\ r \in Row /\ r.points = row[e].points /\ r.status = row[e].status
        /\ r.resumed = row[e].resumed /\ r.done = row[e].done
    BY <1>1 DEF Row
  <2>2. row' = [row EXCEPT ![e] = r]
    BY <1>3
  <2> HIDE DEF r
  <2>3. /\ row' \in [Executions -> Row] /\ row'[e] = r
        /\ \A f \in Executions \ {e} : row'[f] = row[f]
    BY <2>2, <2>1, RowUpdate
  <2> QED
    BY <2>1, <2>3 DEF SamePoints
<1> QED
  BY <1>2, <1>3 DEF SetNext

LEMMA PollNextInv ==
  ASSUME IInv, PollSetsNext \/ PollClearsNext
  PROVE  IInv'
<1>1. /\ TypeOK /\ poll \in Poll /\ poll.exec \in Executions /\ poll.later \in BOOLEAN
      /\ log' = log /\ queue' = queue /\ worker' = worker /\ run' = run /\ crashes' = crashes
      /\ poll' = NoPoll
  BY DEF IInv, TypeOK, Poll, PollSetsNext, PollClearsNext
<1>2. \E b \in BOOLEAN : row' = SetNext(poll.exec, b)
  BY <1>1 DEF PollSetsNext, PollClearsNext
<1>3. row' \in [Executions -> Row] /\ SamePoints /\ \A f \in Executions : row'[f].done = row[f].done
  BY <1>1, <1>2, NextType
<1>4. NoPoll \in Poll /\ NoPoll.pc = "idle"
  BY EntryTypes DEF NoPoll, Poll
<1>5. TypeOK'
  BY <1>1, <1>3, <1>4 DEF TypeOK
<1>6. DuePointsWait'
  BY <1>1, <1>3, <1>4, <1>5, SameDue
<1> QED
  BY <1>1, <1>3, <1>5, <1>6, OthersStep

LEMMA PollReadsInv ==
  ASSUME IInv, PollReads
  PROVE  IInv'
<1>1. /\ TypeOK /\ UNCHANGED <<stores, worker, run, crashes>>
  BY DEF IInv, PollReads
<1>2. PICK e \in Executions : \E due \in SUBSET {c \in TimeContexts : row[e].points[c] = "paused"} :
        /\ row[e].status \in Resumable
        /\ \E later, busy \in BOOLEAN :
             poll' = [pc |-> IF due = {} THEN "drain" ELSE "prepare", exec |-> e, due |-> due,
                      later |-> later, busy |-> busy]
  BY DEF PollReads
<1>3. PICK due \in SUBSET {c \in TimeContexts : row[e].points[c] = "paused"} :
        /\ row[e].status \in Resumable
        /\ \E later, busy \in BOOLEAN :
             poll' = [pc |-> IF due = {} THEN "drain" ELSE "prepare", exec |-> e, due |-> due,
                      later |-> later, busy |-> busy]
  BY <1>2
<1>4. due \in SUBSET Contexts
  BY <1>3, PauseAssumption
<1>5. /\ poll' \in Poll /\ poll'.exec = e /\ poll'.due = due
      /\ poll'.pc = IF due = {} THEN "drain" ELSE "prepare"
  BY <1>3, <1>4 DEF Poll
<1>6. TypeOK'
  BY <1>1, <1>5 DEF TypeOK, stores
<1>7. DuePointsWait'
  BY <1>1, <1>3, <1>5 DEF DuePointsWait, stores, Resumable
<1>8. SamePoints /\ \A f \in Executions : row'[f].done = row[f].done
  BY <1>1 DEF SamePoints, stores
<1> QED
  BY <1>1, <1>6, <1>7, <1>8, OthersStep DEF stores

LEMMA PollAdmitsInv ==
  ASSUME IInv, PollAdmits
  PROVE  IInv'
<1>1. /\ TypeOK /\ UNCHANGED <<stores, worker, run, crashes>> /\ DuePointsWait
      /\ poll \in Poll /\ poll.pc = "prepare" /\ poll' = [poll EXCEPT !.pc = "enqueue"]
  BY DEF IInv, PollAdmits, TypeOK
<1>2. poll' \in Poll /\ poll'.exec = poll.exec /\ poll'.due = poll.due
  BY <1>1 DEF Poll
<1>3. TypeOK'
  BY <1>1, <1>2 DEF TypeOK, stores
<1>4. DuePointsWait'
  BY <1>1, <1>2 DEF DuePointsWait, stores
<1>5. SamePoints /\ \A f \in Executions : row'[f].done = row[f].done
  BY <1>1 DEF SamePoints, stores
<1> QED
  BY <1>1, <1>3, <1>4, <1>5, OthersStep DEF stores

(* The points found due still wait, so none of their entries is failed. *)
LEMMA PollWaitsInv ==
  ASSUME IInv, PollWaits
  PROVE  IInv'
<1> DEFINE e == poll.exec
           c == CHOOSE d \in poll.due : TRUE
<1>1. /\ TypeOK /\ poll \in Poll /\ poll.pc = "prepare" /\ e \in Executions
      /\ log' = log /\ worker' = worker /\ run' = run /\ crashes' = crashes /\ poll' = NoPoll
  BY DEF IInv, TypeOK, Poll, PollWaits
<1>2. c \in Contexts /\ row[e].points[c] = "paused"
  BY <1>1, PauseAssumption DEF IInv, DuePointsWait
<1>3. ~ \E i \in Pending(e) : Ctx(i) = c
  BY <1>2 DEF IInv, PointsFollow, Pending, WithStatus, Exec, Ctx
<1>4. row[e] \in Row /\ row \in [Executions -> Row] /\ queue \in Seq(Entry)
  BY <1>1 DEF TypeOK
<1>5. SetPoint(row[e], c, "paused") = row[e]
  BY <1>2, <1>4 DEF SetPoint, Row
<1>6. PICK waiting \in BOOLEAN :
        /\ waiting => row[e].retries < MaxRetries
        /\ \/ row' = row /\ queue' = queue
           \/ /\ queue' = [i \in DOMAIN queue |->
                            IF ~waiting /\ i \in Pending(e) /\ Ctx(i) = c
                            THEN [queue[i] EXCEPT !.status = "failed"] ELSE queue[i]]
              /\ row' = [row EXCEPT ![e] = Waited(e, c, waiting)]
  BY DEF PollWaits
<1> HIDE DEF c, e
<1>a. Waited(e, c, waiting) = [row[e] EXCEPT !.next = waiting, !.retries = IF waiting THEN @ + 1 ELSE @]
  BY <1>5 DEF Waited, e
<1>7. queue' = queue
  BY <1>3, <1>4, <1>6
<1>8. row' \in [Executions -> Row] /\ SamePoints /\ \A f \in Executions : row'[f].done = row[f].done
  <2> DEFINE n == IF waiting THEN row[e].retries + 1 ELSE row[e].retries
             r == [row[e] EXCEPT !.next = waiting, !.retries = n]
  <2>1. CASE row' = row
    BY <1>4, <2>1 DEF SamePoints
  <2>2. CASE row' = [row EXCEPT ![e] = Waited(e, c, waiting)]
    <3>0. row' = [row EXCEPT ![e] = r]
      BY <1>4, <1>a, <2>2
    <3>1. n \in 0 .. MaxRetries
      BY <1>4, <1>6, BoundTypes DEF Row
    <3>2. /\ r \in Row /\ r.points = row[e].points /\ r.status = row[e].status
          /\ r.resumed = row[e].resumed /\ r.done = row[e].done
      BY <1>4, <3>1 DEF Row
    <3> HIDE DEF r
    <3>3. /\ row' \in [Executions -> Row] /\ row'[e] = r
          /\ \A f \in Executions \ {e} : row'[f] = row[f]
      BY <1>1, <3>0, <3>2, RowUpdate
    <3> QED
      BY <3>2, <3>3 DEF SamePoints
  <2> QED
    BY <1>6, <2>1, <2>2
<1>9. NoPoll \in Poll /\ NoPoll.pc = "idle"
  BY EntryTypes DEF NoPoll, Poll
<1>10. TypeOK'
  BY <1>1, <1>7, <1>8, <1>9 DEF TypeOK
<1>11. DuePointsWait'
  BY <1>1, <1>8, <1>9, <1>10, SameDue
<1> QED
  BY <1>1, <1>7, <1>8, <1>10, <1>11, OthersStep

LEMMA NoneRunsFirst ==
  ASSUME IInv, run.pc \in {"running", "persist"}
  PROVE  Running(Root) = {}
BY DEF IInv, RowsAppearOnce, PointsFollow, Running

LEMMA RunQuietInv ==
  ASSUME IInv, RunPauses \/ RunPersistFails
  PROVE  IInv'
<1>1. /\ TypeOK /\ run \in [pc : {"running", "persist", "drain", "done"}, signalled : BOOLEAN]
      /\ log # "cancelled" /\ ~run.signalled
  BY DEF IInv, TypeOK, NothingIsCancelled
<1>2. /\ row' = row /\ queue' = queue /\ worker' = worker /\ poll' = poll /\ crashes' = crashes
      /\ run.pc \in {"running", "persist"} /\ log' \in {"pending", "failed"}
      /\ \E pc \in {"persist", "done"} : run' = [run EXCEPT !.pc = pc]
  BY <1>1 DEF RunPauses, RunPersistFails, LogWrite
<1>3. /\ run' \in [pc : {"running", "persist", "drain", "done"}, signalled : BOOLEAN]
      /\ run'.signalled = run.signalled
  BY <1>1, <1>2
<1>4. TypeOK'
  BY <1>1, <1>2, <1>3 DEF TypeOK, LogStatuses
<1>5. SamePoints /\ (\A f \in Executions : row'[f].done = row[f].done) /\ DuePointsWait'
  BY <1>2 DEF SamePoints, IInv, DuePointsWait
<1> QED
  BY <1>2, <1>3, <1>4, <1>5, NoneRunsFirst, OthersStep

LEMMA CrashInv ==
  ASSUME IInv, Crash
  PROVE  IInv'
<1>1. /\ TypeOK /\ UNCHANGED stores /\ run' = run /\ crashes' \in 0 .. MaxCrashes /\ log # "cancelled"
      /\ \A i \in Entries : worker[i] \in Worker
  BY BoundTypes DEF IInv, Crash, TypeOK, NothingIsCancelled
<1>2. CASE \E i \in Entries : Alive(i) /\ worker' = Goto(i, "dead") /\ poll' = poll
  <2>1. PICK i \in Entries : Alive(i) /\ worker' = Goto(i, "dead") /\ poll' = poll
    BY <1>2
  <2>2. i \in DOMAIN queue
    BY <2>1 DEF Alive, IInv, ClaimsAreHeld, NoWorker
  <2>3. "dead" \in Pcs \ {"idle", "admit", "running"} /\ worker[i].out \in Outcomes
    BY <1>1 DEF Pcs, Worker
  <2>4. worker' = GotoWith(i, "dead", worker[i].out)
    BY <1>1, <2>1, <2>3, GotoIsGotoWith
  <2>5. log' \in LogStatuses
    BY <1>1 DEF stores, TypeOK
  <2> QED
    BY <1>1, <2>1, <2>2, <2>3, <2>4, <2>5, WorkerGoesOn DEF stores, Working
<1>3. CASE poll' = NoPoll /\ worker' = worker
  <2>1. NoPoll \in Poll /\ NoPoll.pc = "idle"
    BY EntryTypes DEF NoPoll, Poll
  <2>2. TypeOK'
    BY <1>1, <1>3, <2>1 DEF TypeOK, stores
  <2>3. SamePoints /\ (\A f \in Executions : row'[f].done = row[f].done) /\ DuePointsWait'
    BY <1>1, <1>3, <2>1 DEF SamePoints, DuePointsWait, stores
  <2> QED
    BY <1>1, <1>3, <2>2, <2>3, OthersStep DEF stores
<1> QED
  BY <1>2, <1>3 DEF Crash

-----------------------------------------------------------------------------
(* A row appears.                                                            *)

LEMMA PausedType ==
  ASSUME NEW cs \in SUBSET Contexts, NEW done \in SUBSET Contexts
  PROVE  /\ Paused(cs, done) \in Row /\ Paused(cs, done).status = "paused"
         /\ Paused(cs, done).resumed = 0 /\ Paused(cs, done).done = done
         /\ \A c \in Contexts : Paused(cs, done).points[c] \in {"paused", "absent"}
<1> DEFINE ps == [c \in Contexts |-> IF c \in cs THEN "paused" ELSE "absent"]
<1>1. ps \in [Contexts -> PointStatuses] /\ \A c \in Contexts : ps[c] \in {"paused", "absent"}
  BY DEF PointStatuses
<1>2. NoRow \in Row /\ NoRow.resumed = 0
  BY BoundTypes DEF NoRow, Row, RowStatuses, PointStatuses
<1>3. Paused(cs, done) = [NoRow EXCEPT !.status = "paused", !.done = done,
                          !.next = cs \cap TimeContexts # {}, !.points = ps]
  BY DEF Paused
<1> HIDE DEF ps
<1> QED
  BY <1>1, <1>2, <1>3 DEF Row, RowStatuses

LEMMA RowAppears ==
  ASSUME IInv, TypeOK', NEW e \in Executions, row[e].status = "none",
         NEW cs \in SUBSET Contexts, NEW done \in SUBSET Contexts,
         row' = [row EXCEPT ![e] = Paused(cs, done)],
         log' = log, queue' = queue, poll' = poll, run'.signalled = run.signalled,
         \A j \in Entries : worker'[j] = worker[j] \/ GoesOn(j),
         \A j \in DOMAIN queue : worker'[j].pc \notin {"running", "settle"} \/ worker'[j] = worker[j],
         RowsAppearOnce'
  PROVE  IInv'
<1>1. /\ TypeOK /\ ClaimsAreHeld /\ PointsFollow /\ PointsAreCarried /\ SnapshotsAreFresh
      /\ DuePointsWait /\ CountMatches /\ NothingIsCancelled
      /\ \A j \in DOMAIN queue : j \in Entries /\ Exec(j) \in Executions
  BY QueueTypes DEF IInv
<1>2. /\ Paused(cs, done) \in Row /\ Paused(cs, done).status = "paused"
      /\ Paused(cs, done).resumed = 0 /\ Paused(cs, done).done = done
      /\ \A c \in Contexts : Paused(cs, done).points[c] \in {"paused", "absent"}
  BY PausedType
<1>3. row'[e] = Paused(cs, done) /\ \A f \in Executions \ {e} : row'[f] = row[f]
  BY <1>1, <1>2, RowUpdate
<1>4. \A j \in DOMAIN queue : Exec(j) # e /\ row'[Exec(j)] = row[Exec(j)]
  BY <1>1, <1>3 DEF PointsFollow
<1>5. ClaimsAreHeld' /\ EntriesExclude'
  BY SameClaims
<1>6. Resumed(row'[e]) = {}
  BY <1>2, <1>3 DEF Resumed
<1>7. PointsFollow'
  <2>1. ASSUME NEW j \in DOMAIN queue, worker'[j].out \in Gone
        PROVE  worker[j].out \in Gone \/ queue[j].status = "claimed"
    BY <1>1, <2>1 DEF GoesOn, ClaimsAreHeld, Working
  <2> QED
    BY <1>1, <1>4, <2>1 DEF PointsFollow, Exec, Ctx, Gone
<1>8. SnapshotsAreFresh'
  <2>1. \A f \in Executions : Resumed(row'[f]) \subseteq row'[f].done
    BY <1>1, <1>3, <1>6 DEF SnapshotsAreFresh
  <2>2. ASSUME NEW i \in DOMAIN queue, worker'[i].pc \in Working
        PROVE  Resumed(row'[Exec(i)]) \subseteq worker'[i].seen
    <3>1. worker[i].pc \in Working /\ worker'[i].seen = worker[i].seen
      BY <1>1, <2>2 DEF GoesOn
    <3> QED
      BY <1>1, <1>4, <3>1 DEF SnapshotsAreFresh
  <2>3. ASSUME NEW i \in DOMAIN queue, worker'[i].pc = "settle", worker'[i].out = "finished"
        PROVE  Ctx(i) \in row'[Exec(i)].done
    BY <1>1, <1>4, <2>3 DEF SnapshotsAreFresh
  <2> QED
    BY <2>1, <2>2, <2>3 DEF SnapshotsAreFresh, Exec, Ctx
<1>9. DuePointsWait'
  <2>1. poll \in Poll /\ poll.exec \in Executions
    BY <1>1 DEF TypeOK, Poll
  <2>2. CASE poll.pc = "idle"
    BY <2>2 DEF DuePointsWait
  <2>3. CASE poll.pc # "idle"
    <3>1. row'[poll.exec] = row[poll.exec]
      BY <1>1, <1>3, <2>1, <2>3 DEF DuePointsWait
    <3> QED
      BY <1>1, <3>1 DEF DuePointsWait
  <2> QED
    BY <2>2, <2>3
<1>10. CountMatches'
  <2>1. Cardinality({}) = 0
    BY FS_EmptySet
  <2> QED
    BY <1>1, <1>2, <1>3, <1>6, <2>1 DEF CountMatches
<1>11. PointsAreCarried'
  <2>1. ASSUME NEW j \in DOMAIN queue, queue[j].status = "completed"
        PROVE  worker'[j].out = worker[j].out
    BY <1>1, <2>1 DEF GoesOn, ClaimsAreHeld, Working
  <2>2. ASSUME NEW f \in Executions \ {e}, NEW c \in Contexts, row[f].status \in Resumable
        PROVE  /\ row[f].points[c] = "queued" => \E i \in Pending(f) : Ctx(i) = c
               /\ row[f].points[c] = "resuming" =>
                    \E i \in DOMAIN queue :
                      /\ Exec(i) = f /\ Ctx(i) = c
                      /\ \/ queue[i].status = "claimed"
                         \/ queue[i].status = "completed" /\ worker'[i].out = "repaused"
    BY <1>1, <2>1, <2>2 DEF PointsAreCarried
  <2>3. ASSUME NEW f \in Executions, NEW c \in Contexts, row'[f].status \in Resumable
        PROVE  /\ row'[f].points[c] = "queued" => \E i \in Pending(f) : Ctx(i) = c
               /\ row'[f].points[c] = "resuming" =>
                    \E i \in DOMAIN queue :
                      /\ Exec(i) = f /\ Ctx(i) = c
                      /\ \/ queue[i].status = "claimed"
                         \/ queue[i].status = "completed" /\ worker'[i].out = "repaused"
    BY <1>2, <1>3, <2>2, <2>3
  <2> QED
    BY <2>3 DEF PointsAreCarried, Pending, WithStatus, Exec, Ctx
<1>12. RunningIsLogged'
  BY <1>1, FewerRunning DEF GoesOn
<1>13. NothingIsCancelled'
  BY <1>1, <1>2, <1>3 DEF NothingIsCancelled, GoesOn
<1> QED
  BY <1>5, <1>7, <1>8, <1>9, <1>10, <1>11, <1>12, <1>13 DEF IInv

LEMMA RunPersistsInv ==
  ASSUME IInv, RunPersists
  PROVE  IInv'
<1>1. /\ TypeOK /\ run \in [pc : {"running", "persist", "drain", "done"}, signalled : BOOLEAN]
      /\ log # "cancelled" /\ RowsAppearOnce /\ run.pc = "persist" /\ Root \in Executions
  BY EntryTypes DEF IInv, TypeOK, NothingIsCancelled, RunPersists
<1>2. /\ row' = [row EXCEPT ![Root] = Paused(FirstPauses, {})] /\ run' = [run EXCEPT !.pc = "drain"]
      /\ log' = log /\ queue' = queue /\ worker' = worker /\ poll' = poll /\ crashes' = crashes
  BY <1>1 DEF RunPersists
<1>3. FirstPauses \in SUBSET Contexts /\ {} \in SUBSET Contexts
  BY PauseAssumption
<1>4. Paused(FirstPauses, {}) \in Row
  BY <1>3, PausedType
<1>5. row' \in [Executions -> Row] /\ \A f \in Executions \ {Root} : row'[f] = row[f]
  BY <1>1, <1>2, <1>4, RowUpdate
<1>6. /\ run' \in [pc : {"running", "persist", "drain", "done"}, signalled : BOOLEAN]
      /\ run'.signalled = run.signalled /\ run'.pc = "drain"
  BY <1>1, <1>2
<1>7. TypeOK'
  BY <1>1, <1>2, <1>5, <1>6 DEF TypeOK
<1>8. RowsAppearOnce'
  BY <1>1, <1>2, <1>5, <1>6, EntryTypes DEF RowsAppearOnce
<1>9. row[Root].status = "none"
  BY <1>1 DEF RowsAppearOnce
<1> QED
  BY <1>1, <1>2, <1>3, <1>6, <1>7, <1>8, <1>9, RowAppears

LEMMA PersistAgainInv ==
  ASSUME IInv, NEW i \in Entries, PersistAgain(i)
  PROVE  IInv'
<1> DEFINE done == worker[i].seen \cup {Ctx(i)}
           cs == PausesAt[Ctx(i)]
<1>1. /\ TypeOK /\ i \in DOMAIN queue /\ worker[i].pc = "persist" /\ worker[i] \in Worker
      /\ Ctx(i) \in Contexts /\ i \in Executions /\ i # Root
      /\ row' = [row EXCEPT ![i] = Paused(cs, done)] /\ worker' = Goto(i, "drainChild")
      /\ log' = log /\ queue' = queue /\ run' = run /\ poll' = poll /\ crashes' = crashes
  BY QueueTypes, EntryTypes DEF IInv, PersistAgain, At, Rest
<1>2. RowsAppearOnce /\ ClaimsAreHeld
  BY DEF IInv
<1>3. cs \in SUBSET Contexts /\ done \in SUBSET Contexts
  BY <1>1, PauseAssumption DEF Worker
<1> HIDE DEF cs, done
<1>4. Paused(cs, done) \in Row
  BY <1>3, PausedType
<1>5. row' \in [Executions -> Row] /\ \A f \in Executions \ {i} : row'[f] = row[f]
  BY <1>1, <1>4, RowUpdate
<1>6. /\ worker' \in [Entries -> Worker] /\ \A j \in Entries \ {i} : worker'[j] = worker[j]
      /\ worker'[i].pc = "drainChild" /\ worker'[i].out = worker[i].out
      /\ worker'[i].seen = worker[i].seen /\ worker'[i].signalled = worker[i].signalled
  BY <1>1, GotoType, Names
<1>7. TypeOK'
  BY <1>1, <1>5, <1>6 DEF TypeOK
<1>8. worker[i].out = "repaused" /\ row[i].status = "none"
  BY <1>1, <1>2 DEF ClaimsAreHeld, RowsAppearOnce
<1>9. RowsAppearOnce'
  <2>1. row'[Root] = row[Root]
    BY <1>1, <1>5, EntryTypes
  <2>2. ASSUME NEW j \in Entries, row'[j].status # "none"
        PROVE  worker'[j].out = "repaused" /\ worker'[j].pc # "persist"
    BY <1>2, <1>5, <1>6, <1>8, <2>2, EntryTypes DEF RowsAppearOnce
  <2> QED
    BY <1>1, <1>2, <2>1, <2>2 DEF RowsAppearOnce
<1>10. GoesOn(i)
  BY <1>1, <1>6, <1>8 DEF GoesOn, Working
<1>11. \A j \in Entries : worker'[j] = worker[j] \/ GoesOn(j)
  BY <1>6, <1>10
<1>12. \A j \in DOMAIN queue : worker'[j].pc \notin {"running", "settle"} \/ worker'[j] = worker[j]
  BY <1>1, <1>6, QueueTypes
<1> QED
  BY <1>1, <1>3, <1>7, <1>8, <1>9, <1>11, <1>12, RowAppears

-----------------------------------------------------------------------------
(* An entry is put in the queue, or taken from it.                           *)

(* A worker is at most done with draining. *)
Moves(j) ==
  \/ worker'[j] = worker[j]
  \/ /\ GoesOn(j) /\ worker'[j].out = worker[j].out /\ worker'[j].pc # "running"
     /\ ~ (worker'[j].pc = "settle" /\ worker'[j].out = "finished")

(* Entry p, of point c of e, is now pending or claimed. *)
Assigned(p, e, c) ==
  /\ p \in Entries /\ e \in Executions /\ c \in Contexts
  /\ DOMAIN queue' = DOMAIN queue \cup {p}
  /\ \A j \in DOMAIN queue \ {p} : queue'[j] = queue[j]
  /\ p \in DOMAIN queue => Exec(p) = e /\ Ctx(p) = c
  /\ queue'[p].exec = e /\ queue'[p].ctx = c
  /\ \A f \in Executions \ {e} : row'[f] = row[f]
  /\ \A d \in Contexts \ {c} : row'[e].points[d] = row[e].points[d]
  /\ row'[e].status = row[e].status /\ row'[e].resumed = row[e].resumed
  /\ row'[e].done = row[e].done
  /\ \/ queue'[p].status = "pending" /\ row'[e].points[c] = "queued" /\ worker'[p] = NoWorker
     \/ /\ queue'[p].status = "claimed" /\ row'[e].points[c] = "resuming"
        /\ worker'[p].pc = "admit" /\ worker'[p].out = "none" /\ ~worker'[p].signalled
        /\ worker'[p].seen = row[e].done
        /\ \A j \in DOMAIN queue : Exec(j) = e => queue[j].status # "claimed"
  /\ row[e].status \in Resumable /\ row[e].points[c] \in {"paused", "queued"}
  /\ worker[p].out # "repaused"
  /\ \A j \in DOMAIN queue \ {p} : Exec(j) = e /\ Ctx(j) = c => ~Live(j)
  /\ \A j \in Entries \ {p} : Moves(j)

LEMMA AssignedWorkers ==
  ASSUME IInv, NEW p, NEW e, NEW c, Assigned(p, e, c), log' = log
  PROVE  ClaimsAreHeld' /\ EntriesExclude' /\ RunningIsLogged'
<1>1. ClaimsAreHeld /\ EntriesExclude /\ RunningIsLogged /\ \A j \in DOMAIN queue : j \in Entries
  BY QueueTypes DEF IInv
<1>2. ASSUME NEW j \in DOMAIN queue \ {p}
      PROVE  queue'[j] = queue[j] /\ Moves(j) /\ worker'[j].out = worker[j].out
             /\ (Live(j)' => Live(j))
  BY <1>1 DEF Assigned, Moves, Live
<1>3. \A j \in DOMAIN queue' : j = p \/ j \in DOMAIN queue \ {p}
  BY DEF Assigned
<1>4. ClaimsAreHeld'
  <2>1. \A j \in Entries \ DOMAIN queue' : worker'[j] = NoWorker
    BY <1>1 DEF Assigned, Moves, GoesOn, ClaimsAreHeld
  <2>2. ASSUME NEW j \in DOMAIN queue \ {p}
        PROVE  /\ worker'[j].pc \in Working => queue'[j].status = "claimed"
               /\ worker'[j].pc \in {"stopped", "completes", "drain"} => queue'[j].status \in {"completed", "failed"}
               /\ queue'[j].status = "pending" => worker'[j].out \in {"none", "retry"}
               /\ worker'[j].pc \in {"idle", "admit", "running"} => worker'[j].out = "none"
               /\ worker'[j].pc = "running" => queue'[j].exec = Root
               /\ worker'[j].pc = "snapshot" => worker'[j].out = "finished"
               /\ worker'[j].pc \in {"persist", "drainChild"} => worker'[j].out = "repaused"
    BY <1>1, <1>2 DEF Moves, GoesOn, ClaimsAreHeld, Exec
  <2>3. /\ worker'[p].pc \in Working => queue'[p].status = "claimed"
        /\ worker'[p].pc \notin {"stopped", "completes", "drain", "running", "snapshot", "persist", "drainChild"}
        /\ worker'[p].out = "none"
    BY DEF Assigned, NoWorker, Working
  <2> QED
    BY <1>3, <2>1, <2>2, <2>3 DEF ClaimsAreHeld, Exec
<1>5. EntriesExclude'
  <2> SUFFICES ASSUME NEW i \in DOMAIN queue', NEW j \in DOMAIN queue', queue'[i].exec = queue'[j].exec,
                      i # j
               PROVE  /\ ~ (queue'[i].status = "claimed" /\ queue'[j].status = "claimed")
                      /\ ~ (Live(i)' /\ Live(j)' /\ queue'[i].ctx = queue'[j].ctx)
    BY DEF EntriesExclude, Exec, Ctx
  <2>1. CASE i # p /\ j # p
    BY <1>1, <1>2, <1>3, <2>1 DEF EntriesExclude, Exec, Ctx
  <2>2. CASE i = p /\ j # p
    <3>1. queue'[j] = queue[j] /\ (Live(j)' => Live(j)) /\ queue[j].exec = e /\ j \in DOMAIN queue \ {p}
      BY <1>2, <1>3, <2>2 DEF Assigned
    <3> QED
      BY <2>2, <3>1 DEF Assigned, Exec, Ctx
  <2>3. CASE j = p /\ i # p
    <3>1. queue'[i] = queue[i] /\ (Live(i)' => Live(i)) /\ queue[i].exec = e /\ i \in DOMAIN queue \ {p}
      BY <1>2, <1>3, <2>3 DEF Assigned
    <3> QED
      BY <2>3, <3>1 DEF Assigned, Exec, Ctx
  <2> QED
    BY <2>1, <2>2, <2>3
<1>6. RunningIsLogged'
  <2>1. ASSUME NEW j \in DOMAIN queue', worker'[j].pc = "running", queue'[j].exec = Root
        PROVE  j \in Running(Root)
    BY <1>1, <1>2, <1>3, <2>1 DEF Moves, Assigned, Running, Exec, NoWorker
  <2> QED
    BY <1>1, <2>1 DEF RunningIsLogged, Running, Exec
<1> QED
  BY <1>4, <1>5, <1>6

LEMMA AssignedPoints ==
  ASSUME IInv, TypeOK', NEW p, NEW e, NEW c, Assigned(p, e, c)
  PROVE  /\ PointsFollow' /\ PointsAreCarried' /\ CountMatches'
         /\ \A f \in Executions : Resumed(row'[f]) = Resumed(row[f])
<1>1. /\ ClaimsAreHeld /\ PointsFollow /\ PointsAreCarried /\ CountMatches
      /\ \A j \in DOMAIN queue : j \in Entries /\ Exec(j) \in Executions /\ Ctx(j) \in Contexts
  BY QueueTypes DEF IInv
<1>2. ASSUME NEW j \in DOMAIN queue \ {p}
      PROVE  queue'[j] = queue[j] /\ worker'[j].out = worker[j].out
  BY <1>1 DEF Assigned, Moves
<1>3. \A j \in DOMAIN queue' : j = p \/ j \in DOMAIN queue \ {p}
  BY DEF Assigned
<1>4. PointsFollow'
  <2>1. /\ row'[e].status # "none" /\ queue'[p].exec = e /\ queue'[p].ctx = c
        /\ queue'[p].status = "claimed" => row'[e].points[c] = "resuming"
        /\ queue'[p].status = "pending" => row'[e].points[c] = "queued"
        /\ worker'[p].out = "none"
    BY DEF Assigned, Resumable, NoWorker
  <2>2. ASSUME NEW j \in DOMAIN queue \ {p}
        PROVE  /\ row'[Exec(j)].status # "none"
               /\ queue[j].status = "claimed" => row'[Exec(j)].points[Ctx(j)] = "resuming"
               /\ queue[j].status = "pending" => row'[Exec(j)].points[Ctx(j)] = "queued"
               /\ worker[j].out \in Gone => row'[Exec(j)].points[Ctx(j)] \in {"resuming", "resumed"}
    <3>1. CASE Exec(j) = e /\ Ctx(j) = c
      BY <1>1, <2>2, <3>1 DEF Assigned, Live, Gone, Resumable
    <3>2. CASE Exec(j) # e \/ Ctx(j) # c
      <4>1. /\ row'[Exec(j)].status = row[Exec(j)].status
            /\ row'[Exec(j)].points[Ctx(j)] = row[Exec(j)].points[Ctx(j)]
        BY <1>1, <2>2, <3>2 DEF Assigned
      <4> QED
        BY <1>1, <2>2, <4>1 DEF PointsFollow, Gone
    <3> QED
      BY <3>1, <3>2
  <2> QED
    BY <1>2, <1>3, <2>1, <2>2 DEF PointsFollow, Exec, Ctx, Gone
<1>5. ASSUME NEW f \in Executions
      PROVE  Resumed(row'[f]) = Resumed(row[f]) /\ Points(row'[f]) = Points(row[f])
             /\ row'[f].status = row[f].status /\ row'[f].resumed = row[f].resumed
  <2>1. row'[e].points[c] \in {"queued", "resuming"} /\ row[e].points[c] \in {"paused", "queued"}
    BY DEF Assigned
  <2>2. \A d \in Contexts : (row'[f].points[d] = "resumed") <=> (row[f].points[d] = "resumed")
    BY <2>1 DEF Assigned
  <2>3. \A d \in Contexts : (row'[f].points[d] = "absent") <=> (row[f].points[d] = "absent")
    BY <2>1 DEF Assigned
  <2> QED
    BY <2>2, <2>3 DEF Assigned, Resumed, Points
<1>6. CountMatches'
  BY <1>1, <1>5 DEF CountMatches
<1>7. PointsAreCarried'
  <2>1. /\ p \in DOMAIN queue' /\ queue'[p].exec = e /\ queue'[p].ctx = c
        /\ queue'[p].status = "claimed" \/ queue'[p].status = "pending"
        /\ row'[e].points[c] = "queued" => queue'[p].status = "pending"
        /\ row'[e].points[c] = "resuming" => queue'[p].status = "claimed"
    BY DEF Assigned
  <2>2. ASSUME NEW f \in Executions, NEW d \in Contexts, row'[f].status \in Resumable, f # e \/ d # c
        PROVE  /\ row'[f].points[d] = "queued" =>
                    \E i \in DOMAIN queue \ {p} :
                      Exec(i) = f /\ Ctx(i) = d /\ queue[i].status = "pending"
               /\ row'[f].points[d] = "resuming" =>
                    \E i \in DOMAIN queue \ {p} :
                      /\ Exec(i) = f /\ Ctx(i) = d
                      /\ \/ queue[i].status = "claimed"
                         \/ queue[i].status = "completed" /\ worker[i].out = "repaused"
    <3>1. row'[f].points[d] = row[f].points[d] /\ row[f].status \in Resumable
      BY <1>5, <2>2 DEF Assigned
    <3>2. \A i \in DOMAIN queue : Exec(i) = f /\ Ctx(i) = d => i # p
      BY <2>2 DEF Assigned
    <3> QED
      BY <1>1, <3>1, <3>2 DEF PointsAreCarried, Pending, WithStatus, Exec
  <2>3. ASSUME NEW f \in Executions, NEW d \in Contexts, row'[f].status \in Resumable
        PROVE  /\ row'[f].points[d] = "queued" =>
                    \E i \in DOMAIN queue' :
                      queue'[i].exec = f /\ queue'[i].ctx = d /\ queue'[i].status = "pending"
               /\ row'[f].points[d] = "resuming" =>
                    \E i \in DOMAIN queue' :
                      /\ queue'[i].exec = f /\ queue'[i].ctx = d
                      /\ \/ queue'[i].status = "claimed"
                         \/ queue'[i].status = "completed" /\ worker'[i].out = "repaused"
    <3>1. CASE f = e /\ d = c
      BY <2>1, <3>1
    <3>2. CASE f # e \/ d # c
      <4>1. \A i \in DOMAIN queue \ {p} : i \in DOMAIN queue' /\ queue'[i] = queue[i]
                                          /\ worker'[i].out = worker[i].out
        BY <1>2 DEF Assigned
      <4> QED
        BY <2>2, <2>3, <3>2, <4>1 DEF Exec, Ctx
    <3> QED
      BY <3>1, <3>2
  <2> QED
    BY <2>3 DEF PointsAreCarried, Pending, WithStatus, Exec, Ctx
<1> QED
  BY <1>4, <1>5, <1>6, <1>7

LEMMA AssignedInv ==
  ASSUME IInv, TypeOK', NEW p, NEW e, NEW c, Assigned(p, e, c), log' = log,
         run'.signalled = run.signalled,
         run'.pc \in {"running", "persist"} => run.pc \in {"running", "persist"},
         DuePointsWait'
  PROVE  IInv'
<1>1. /\ ClaimsAreHeld /\ RowsAppearOnce /\ SnapshotsAreFresh /\ NothingIsCancelled
      /\ \A j \in DOMAIN queue : j \in Entries /\ Exec(j) \in Executions
      /\ Root \in Executions /\ \A i \in Entries : i \in Executions
  BY QueueTypes, EntryTypes DEF IInv
<1>2. ClaimsAreHeld' /\ EntriesExclude' /\ RunningIsLogged'
  BY AssignedWorkers
<1>3. /\ PointsFollow' /\ PointsAreCarried' /\ CountMatches'
      /\ \A f \in Executions : Resumed(row'[f]) = Resumed(row[f])
  BY AssignedPoints
<1>4. \A f \in Executions : row'[f].status = row[f].status /\ row'[f].done = row[f].done
  BY DEF Assigned
<1>5. RowsAppearOnce'
  <2>1. run'.pc \in {"running", "persist"} => row'[Root].status = "none"
    BY <1>1, <1>4 DEF RowsAppearOnce
  <2>2. ASSUME NEW i \in Entries, row'[i].status # "none"
        PROVE  worker'[i].out = "repaused" /\ worker'[i].pc # "persist"
    <3>1. worker[i].out = "repaused" /\ worker[i].pc # "persist"
      BY <1>1, <1>4, <2>2 DEF RowsAppearOnce
    <3> QED
      BY <1>1, <3>1 DEF Assigned, Moves, GoesOn, ClaimsAreHeld
  <2> QED
    BY <2>1, <2>2 DEF RowsAppearOnce
<1>6. SnapshotsAreFresh'
  <2>1. \A f \in Executions : Resumed(row'[f]) \subseteq row'[f].done
    BY <1>1, <1>3, <1>4 DEF SnapshotsAreFresh
  <2>2. ASSUME NEW j \in DOMAIN queue'
        PROVE  /\ worker'[j].pc \in Working => Resumed(row'[queue'[j].exec]) \subseteq worker'[j].seen
               /\ worker'[j].pc = "settle" /\ worker'[j].out = "finished" =>
                    queue'[j].ctx \in row'[queue'[j].exec].done
    <3>1. CASE j = p
      BY <1>1, <1>3, <3>1 DEF Assigned, SnapshotsAreFresh, NoWorker, Working
    <3>2. CASE j # p
      <4>1. j \in DOMAIN queue /\ queue'[j] = queue[j] /\ Moves(j) /\ Exec(j) \in Executions
            /\ queue[j].exec = Exec(j) /\ queue[j].ctx = Ctx(j)
        BY <1>1, <2>2, <3>2 DEF Assigned, Exec, Ctx
      <4>2. worker'[j].pc \in Working => worker[j].pc \in Working /\ worker'[j].seen = worker[j].seen
        BY <4>1 DEF Moves, GoesOn
      <4>3. worker'[j].pc = "settle" /\ worker'[j].out = "finished" => worker'[j] = worker[j]
        BY <4>1 DEF Moves
      <4> QED
        BY <1>1, <1>3, <1>4, <4>1, <4>2, <4>3 DEF SnapshotsAreFresh
    <3> QED
      BY <3>1, <3>2
  <2> QED
    BY <2>1, <2>2 DEF SnapshotsAreFresh, Exec, Ctx
<1>7. NothingIsCancelled'
  <2>1. \A i \in Entries : ~worker'[i].signalled
    BY <1>1 DEF Assigned, Moves, GoesOn, NothingIsCancelled, NoWorker
  <2> QED
    BY <1>1, <1>4, <2>1 DEF NothingIsCancelled
<1> QED
  BY <1>2, <1>3, <1>5, <1>6, <1>7 DEF IInv

LEMMA StartType ==
  ASSUME TypeOK, NEW i \in Entries, NEW e \in Executions
  PROVE  /\ Start(i, e) \in [Entries -> Worker]
         /\ \A j \in Entries \ {i} : Start(i, e)[j] = worker[j]
         /\ Start(i, e)[i].pc = "admit" /\ Start(i, e)[i].out = "none"
         /\ Start(i, e)[i].seen = row[e].done /\ ~Start(i, e)[i].signalled
<1>1. worker \in [Entries -> Worker] /\ row[e].done \in SUBSET Contexts
  BY DEF TypeOK, Row
<1> DEFINE one == [NoWorker EXCEPT !.pc = "admit", !.seen = row[e].done]
<1>2. /\ one \in Worker /\ one.pc = "admit" /\ one.out = "none"
      /\ one.seen = row[e].done /\ ~one.signalled
  BY <1>1 DEF Worker, NoWorker, Outcomes
<1>3. Start(i, e) = [worker EXCEPT ![i] = one]
  BY DEF Start
<1> HIDE DEF one
<1> QED
  BY <1>1, <1>2, <1>3

(* The point of a pending entry is queued, so the drains start what they find. *)
LEMMA NoneIsStale ==
  ASSUME IInv, NEW e \in Executions
  PROVE  ~Stale(e)
<1>1. TypeOK /\ PointsFollow
  BY DEF IInv
<1>2. SUFFICES ASSUME Drainable(e)
               PROVE  row[e].points[queue[First(Pending(e))].ctx] = "queued"
  BY DEF Stale
<1>3. Pending(e) # {}
  BY <1>2 DEF Drainable
<1> QED
  BY <1>1, <1>3, FirstPending DEF PointsFollow, Exec, Ctx

LEMMA DrainInv ==
  ASSUME IInv, NEW e \in Executions, Drain(e), log' = log,
         run' \in [pc : {"running", "persist", "drain", "done"}, signalled : BOOLEAN],
         run'.signalled = run.signalled,
         run'.pc \in {"running", "persist"} => run.pc \in {"running", "persist"},
         poll' \in Poll, crashes' = crashes,
         \/ poll' = poll
         \/ /\ poll'.pc \notin {"prepare", "enqueue"}
            /\ poll'.pc # "idle" => poll.pc # "idle" /\ poll'.exec = poll.exec,
         worker' \in [Entries -> Worker],
         \A j \in Entries : IF Startable(e) /\ j = First(Pending(e))
                            THEN worker'[j] = Start(j, e)[j] ELSE Moves(j)
  PROVE  IInv'
<1>1. /\ TypeOK /\ PointsFollow /\ EntriesExclude /\ ClaimsAreHeld /\ DuePointsWait /\ SnapshotsAreFresh
      /\ NothingIsCancelled /\ RunningIsLogged /\ poll.exec \in Executions
      /\ \A i \in Entries : worker[i] \in Worker
  BY DEF IInv, TypeOK, Poll
<1>2. CASE ~Startable(e)
  <2>1. row' = row /\ queue' = queue
    BY <1>2, NoneIsStale DEF Drain, DrainedQueue, DrainedRow, Startable
  <2>2. TypeOK'
    BY <1>1, <2>1 DEF TypeOK
  <2>3. SamePoints
    BY <2>1 DEF SamePoints
  <2>4. DuePointsWait'
    BY <1>1, <2>1 DEF DuePointsWait
  <2>5. \A j \in Entries : Moves(j)
    BY <1>2
  <2>6. \A j \in Entries : worker'[j] = worker[j] \/ GoesOn(j)
    BY <2>5 DEF Moves
  <2>7. RunningIsLogged'
    BY <2>1, <2>5, FewerRunning, <1>1, QueueTypes DEF Moves
  <2>8. \A j \in DOMAIN queue :
          worker'[j].pc = "settle" /\ worker'[j].out = "finished" => Ctx(j) \in row'[Exec(j)].done
    BY <1>1, <2>1, <2>5, QueueTypes DEF Moves, SnapshotsAreFresh
  <2>9. \A f \in Executions : Resumed(row[f]) \subseteq row'[f].done
    BY <1>1, <2>1 DEF SnapshotsAreFresh
  <2> QED
    BY <1>1, <2>1, <2>2, <2>3, <2>4, <2>6, <2>7, <2>8, <2>9, QuietStep DEF NothingIsCancelled
<1>3. CASE Startable(e)
  <2> DEFINE p == First(Pending(e))
             c == Ctx(p)
  <2>1. /\ row[e].status \in Resumable /\ Claimed(e) = {} /\ Pending(e) # {} /\ Drainable(e)
    BY <1>3 DEF Startable, Drainable
  <2>2. /\ p \in DOMAIN queue /\ Exec(p) = e /\ queue[p].status = "pending" /\ p \in Entries
        /\ c \in Contexts
    BY <1>1, <2>1, FirstPending, QueueTypes
  <2>3. queue' = SetEntry(p, "claimed") /\ row' = [row EXCEPT ![e] = SetPoint(row[e], c, "resuming")]
    BY <1>3, <2>1, NoneIsStale DEF Drain, DrainedQueue, DrainedRow, Ctx
  <2> HIDE DEF p
  <2>4. /\ queue' \in Seq(Entry) /\ Len(queue') = Len(queue) /\ DOMAIN queue' = DOMAIN queue
        /\ queue'[p].status = "claimed" /\ queue'[p].exec = e /\ queue'[p].ctx = c
        /\ \A j \in DOMAIN queue \ {p} : queue'[j] = queue[j]
    BY <1>1, <2>2, <2>3, EntryStatus
  <2>5. row[e] \in Row /\ "resuming" \in PointStatuses
    BY <1>1 DEF TypeOK, PointStatuses
  <2>6. /\ SetPoint(row[e], c, "resuming") \in Row
        /\ SetPoint(row[e], c, "resuming").points[c] = "resuming"
        /\ \A d \in Contexts \ {c} : SetPoint(row[e], c, "resuming").points[d] = row[e].points[d]
        /\ SetPoint(row[e], c, "resuming").status = row[e].status
        /\ SetPoint(row[e], c, "resuming").resumed = row[e].resumed
        /\ SetPoint(row[e], c, "resuming").done = row[e].done
    BY <2>2, <2>5, PointType
  <2>7. /\ row' \in [Executions -> Row] /\ row'[e] = SetPoint(row[e], c, "resuming")
        /\ \A f \in Executions \ {e} : row'[f] = row[f]
    BY <1>1, <2>3, <2>6, RowUpdate
  <2>8. TypeOK'
    BY <1>1, <2>4, <2>7 DEF TypeOK
  <2>9. /\ worker'[p].pc = "admit" /\ worker'[p].out = "none" /\ ~worker'[p].signalled
        /\ worker'[p].seen = row[e].done
        /\ \A j \in Entries \ {p} : Moves(j)
    BY <1>1, <1>3, <2>2, StartType DEF p
  <2>10. row[e].points[c] = "queued" /\ worker[p].out # "repaused"
    BY <1>1, <2>2 DEF PointsFollow, ClaimsAreHeld
  <2>11. \A j \in DOMAIN queue \ {p} : Exec(j) = e /\ Ctx(j) = c => ~Live(j)
    BY <1>1, <2>2 DEF EntriesExclude, Live
  <2>12. \A j \in DOMAIN queue : Exec(j) = e => queue[j].status # "claimed"
    BY <2>1 DEF Claimed, WithStatus, Exec
  <2>13. Assigned(p, e, c)
    BY <2>1, <2>2, <2>4, <2>6, <2>7, <2>9, <2>10, <2>11, <2>12 DEF Assigned
  <2>14. DuePointsWait'
    <3>1. \A d \in Contexts : row[e].points[d] = "paused" => row'[e].points[d] = "paused"
      BY <2>6, <2>7, <2>10
    <3>2. /\ row'[poll.exec].status = row[poll.exec].status
          /\ \A d \in Contexts : row[poll.exec].points[d] = "paused" => row'[poll.exec].points[d] = "paused"
      BY <1>1, <2>6, <2>7, <3>1
    <3> QED
      BY <1>1, <3>2, PauseAssumption DEF DuePointsWait
  <2> QED
    BY <2>8, <2>13, <2>14, AssignedInv
<1> QED
  BY <1>2, <1>3

LEMMA DrainedWorkerType ==
  ASSUME TypeOK, NEW e \in Executions
  PROVE  /\ DrainedWorker(e) \in [Entries -> Worker]
         /\ \A j \in Entries : IF Startable(e) /\ j = First(Pending(e))
                               THEN DrainedWorker(e)[j] = Start(j, e)[j]
                               ELSE DrainedWorker(e)[j] = worker[j]
         /\ Startable(e) => First(Pending(e)) \in DOMAIN queue
                             /\ queue[First(Pending(e))].status = "pending"
<1>1. TypeOK
  OBVIOUS
<1>2. CASE ~Startable(e)
  BY <1>1, <1>2 DEF DrainedWorker, TypeOK
<1>3. CASE Startable(e)
  <2>1. Pending(e) # {}
    BY <1>3 DEF Startable, Drainable
  <2>2. /\ First(Pending(e)) \in DOMAIN queue /\ queue[First(Pending(e))].status = "pending"
        /\ First(Pending(e)) \in Entries
    BY <1>1, <2>1, FirstPending, QueueTypes
  <2>3. DrainedWorker(e) = Start(First(Pending(e)), e)
    BY <1>3 DEF DrainedWorker
  <2> QED
    BY <1>1, <1>3, <2>2, <2>3, StartType
<1> QED
  BY <1>2, <1>3

LEMMA RunDrainsInv ==
  ASSUME IInv, RunDrains
  PROVE  IInv'
<1>1. /\ run \in [pc : {"running", "persist", "drain", "done"}, signalled : BOOLEAN] /\ poll \in Poll
      /\ ~Stale(Root) /\ Root \in Executions /\ TypeOK
  BY NoneIsStale, EntryTypes DEF IInv, TypeOK
<1>2. /\ Drain(Root) /\ worker' = DrainedWorker(Root) /\ run' = [run EXCEPT !.pc = "done"]
      /\ log' = log /\ poll' = poll /\ crashes' = crashes
  BY <1>1 DEF RunDrains
<1>3. /\ run' \in [pc : {"running", "persist", "drain", "done"}, signalled : BOOLEAN]
      /\ run'.signalled = run.signalled /\ run'.pc = "done"
  BY <1>1, <1>2
<1>4. \A j \in Entries : IF Startable(Root) /\ j = First(Pending(Root))
                         THEN worker'[j] = Start(j, Root)[j] ELSE Moves(j)
  BY <1>1, <1>2, DrainedWorkerType DEF Moves
<1>5. worker' \in [Entries -> Worker]
  BY <1>1, <1>2, DrainedWorkerType
<1> QED
  BY <1>1, <1>2, <1>3, <1>4, <1>5, DrainInv

LEMMA PollDrainsInv ==
  ASSUME IInv, PollDrains
  PROVE  IInv'
<1> DEFINE e == poll.exec
<1>1. /\ run \in [pc : {"running", "persist", "drain", "done"}, signalled : BOOLEAN] /\ poll \in Poll
      /\ e \in Executions /\ TypeOK
  BY DEF IInv, TypeOK, Poll
<1>2. /\ Drain(e) /\ worker' = DrainedWorker(e) /\ poll.pc = "drain" /\ ~Stale(e)
      /\ log' = log /\ run' = run /\ crashes' = crashes
  BY <1>1, NoneIsStale DEF PollDrains
<1>3. poll' = NoPoll \/ poll' = [poll EXCEPT !.pc = "clearNext"]
  BY <1>2 DEF PollDrains
<1>4. NoPoll \in Poll /\ NoPoll.pc = "idle"
  BY EntryTypes DEF NoPoll, Poll
<1>5. /\ poll' \in Poll /\ poll'.pc \notin {"prepare", "enqueue"}
      /\ poll'.pc # "idle" => poll'.exec = e
  BY <1>1, <1>3, <1>4 DEF Poll
<1>6. \A j \in Entries : IF Startable(e) /\ j = First(Pending(e))
                         THEN worker'[j] = Start(j, e)[j] ELSE Moves(j)
  BY <1>1, <1>2, DrainedWorkerType DEF Moves
<1>7. worker' \in [Entries -> Worker]
  BY <1>1, <1>2, DrainedWorkerType
<1> QED
  BY <1>1, <1>2, <1>5, <1>6, <1>7, DrainInv

(* A worker drains its own queue, or that of the execution its resume became. *)
LEMMA WorkerDrainsStep ==
  ASSUME IInv, NEW i \in DOMAIN queue, NEW e \in Executions, Drain(e), queue[i].status # "pending",
         NEW pc \in {"settle", "done"},
         pc = "settle" => worker[i].pc = "drainChild",
         worker' = [DrainedWorker(e) EXCEPT ![i].pc = pc],
         log' = log, UNCHANGED Rest
  PROVE  IInv'
<1>1. /\ TypeOK /\ i \in Entries /\ worker[i] \in Worker /\ poll \in Poll /\ ClaimsAreHeld
      /\ run \in [pc : {"running", "persist", "drain", "done"}, signalled : BOOLEAN]
  BY QueueTypes DEF IInv, TypeOK
<1>2. /\ DrainedWorker(e) \in [Entries -> Worker]
      /\ \A j \in Entries : IF Startable(e) /\ j = First(Pending(e))
                            THEN DrainedWorker(e)[j] = Start(j, e)[j]
                            ELSE DrainedWorker(e)[j] = worker[j]
      /\ Startable(e) => First(Pending(e)) \in DOMAIN queue /\ First(Pending(e)) # i
  BY <1>1, DrainedWorkerType
<1>3. DrainedWorker(e)[i] = worker[i]
  BY <1>1, <1>2
<1> DEFINE one == [worker[i] EXCEPT !.pc = pc]
<1>4. /\ one \in Worker /\ one.pc = pc /\ one.out = worker[i].out
      /\ one.seen = worker[i].seen /\ one.signalled = worker[i].signalled
  BY <1>1 DEF Worker
<1>5. worker' = [DrainedWorker(e) EXCEPT ![i] = one]
  BY <1>1, <1>2, <1>3
<1> HIDE DEF one
<1>6. /\ worker' \in [Entries -> Worker] /\ worker'[i] = one
      /\ \A j \in Entries \ {i} : worker'[j] = DrainedWorker(e)[j]
  BY <1>1, <1>2, <1>4, <1>5
<1>7. Moves(i)
  BY <1>1, <1>4, <1>6 DEF Moves, GoesOn, Working, ClaimsAreHeld
<1>8. \A j \in Entries : IF Startable(e) /\ j = First(Pending(e))
                         THEN worker'[j] = Start(j, e)[j] ELSE Moves(j)
  BY <1>2, <1>6, <1>7 DEF Moves
<1> QED
  BY <1>1, <1>6, <1>8, DrainInv DEF Rest

LEMMA WorkerDrainsInv ==
  ASSUME IInv, NEW i \in Entries, WorkerDrains(i) \/ DrainChild(i)
  PROVE  IInv'
<1>1. /\ i \in DOMAIN queue /\ worker[i].pc \in {"drain", "drainChild"} /\ ClaimsAreHeld
      /\ log' = log /\ UNCHANGED Rest /\ Exec(i) \in Executions /\ i \in Executions
  BY QueueTypes, EntryTypes DEF IInv, WorkerDrains, DrainChild, At
<1>2. queue[i].status # "pending"
  BY <1>1 DEF ClaimsAreHeld, Working
<1>3. CASE WorkerDrains(i)
  <2>1. Drain(Exec(i)) /\ worker' = [DrainedWorker(Exec(i)) EXCEPT ![i].pc = "done"]
    BY <1>1, <1>3, NoneIsStale DEF WorkerDrains
  <2> QED
    BY <1>1, <1>2, <2>1, WorkerDrainsStep
<1>4. CASE DrainChild(i)
  <2>1. /\ Drain(i) /\ worker' = [DrainedWorker(i) EXCEPT ![i].pc = "settle"]
        /\ worker[i].pc = "drainChild"
    BY <1>1, <1>4, NoneIsStale DEF DrainChild, At
  <2> QED
    BY <1>1, <1>2, <2>1, WorkerDrainsStep
<1> QED
  BY <1>3, <1>4

LEMMA AppendType ==
  ASSUME TypeOK, NEW new \in Entry, Len(queue) + 1 <= MaxEntries
  PROVE  /\ Append(queue, new) \in Seq(Entry) /\ Len(Append(queue, new)) = Len(queue) + 1
         /\ DOMAIN Append(queue, new) = DOMAIN queue \cup {Len(queue) + 1}
         /\ Append(queue, new)[Len(queue) + 1] = new
         /\ \A j \in DOMAIN queue : Append(queue, new)[j] = queue[j]
         /\ Len(queue) + 1 \in Entries /\ Len(queue) + 1 \notin DOMAIN queue
<1>1. queue \in Seq(Entry) /\ Len(queue) \in Nat /\ DOMAIN queue = 1 .. Len(queue)
  BY DEF TypeOK
<1>2. /\ Append(queue, new) \in Seq(Entry) /\ Len(Append(queue, new)) = Len(queue) + 1
      /\ Append(queue, new)[Len(queue) + 1] = new
      /\ \A j \in 1 .. Len(queue) : Append(queue, new)[j] = queue[j]
  BY <1>1
<1>3. DOMAIN Append(queue, new) = 1 .. (Len(queue) + 1)
  BY <1>2
<1>4. 1 .. (Len(queue) + 1) = (1 .. Len(queue)) \cup {Len(queue) + 1}
  BY <1>1
<1>5. Len(queue) + 1 \in Entries /\ Len(queue) + 1 \notin 1 .. Len(queue)
  BY <1>1, BoundTypes DEF Entries
<1> QED
  BY <1>1, <1>2, <1>3, <1>4, <1>5

(* The point waited to be resumed, so no entry of it is on its way. *)
LEMMA EnqueueInv ==
  ASSUME IInv, NEW e \in Executions, NEW c \in Contexts, Enqueue(e, c),
         log' = log, run' = run, crashes' = crashes, poll' \in Poll,
         poll'.pc # "idle" => poll.pc # "idle" /\ poll'.exec = poll.exec,
         poll'.pc \in {"prepare", "enqueue"} =>
           /\ poll.pc \in {"prepare", "enqueue"}
           /\ poll'.due # {} /\ poll'.due \subseteq poll.due \ {c}
  PROVE  IInv'
<1> DEFINE p == Len(queue) + 1
           busy == Claimed(e) # {}
           new == [exec |-> e, ctx |-> c, staged |-> FALSE, status |-> IF busy THEN "pending" ELSE "claimed"]
           s == IF busy THEN "queued" ELSE "resuming"
<1>1. /\ TypeOK /\ PointsFollow /\ ClaimsAreHeld /\ DuePointsWait /\ poll.exec \in Executions
  BY DEF IInv, TypeOK, Poll
<1>2. /\ p <= MaxEntries /\ row[e].status \in Resumable /\ row[e].points[c] = "paused"
      /\ queue' = Append(queue, new) /\ row' = [row EXCEPT ![e] = SetPoint(row[e], c, s)]
      /\ worker' = IF busy THEN worker ELSE Start(p, e)
  BY DEF Enqueue
<1>3. /\ new \in Entry /\ new.exec = e /\ new.ctx = c
      /\ new.status = IF busy THEN "pending" ELSE "claimed"
  BY DEF Entry
<1> HIDE DEF new
<1>4. /\ queue' \in Seq(Entry) /\ Len(queue') = Len(queue) + 1 /\ DOMAIN queue' = DOMAIN queue \cup {p}
      /\ queue'[p] = new /\ p \in Entries /\ p \notin DOMAIN queue
      /\ \A j \in DOMAIN queue : queue'[j] = queue[j]
  BY <1>1, <1>2, <1>3, AppendType
<1>5. row[e] \in Row /\ s \in PointStatuses /\ row \in [Executions -> Row]
  BY <1>1 DEF TypeOK, PointStatuses
<1>6. /\ SetPoint(row[e], c, s) \in Row
      /\ SetPoint(row[e], c, s).points[c] = s
      /\ \A d \in Contexts \ {c} : SetPoint(row[e], c, s).points[d] = row[e].points[d]
      /\ SetPoint(row[e], c, s).status = row[e].status
      /\ SetPoint(row[e], c, s).resumed = row[e].resumed
      /\ SetPoint(row[e], c, s).done = row[e].done
  BY <1>5, PointType
<1>7. /\ row' \in [Executions -> Row] /\ row'[e] = SetPoint(row[e], c, s)
      /\ \A f \in Executions \ {e} : row'[f] = row[f]
  BY <1>1, <1>2, <1>6, RowUpdate
<1>8. worker[p] = NoWorker
  BY <1>1, <1>4 DEF ClaimsAreHeld
<1>9. /\ worker' \in [Entries -> Worker] /\ \A j \in Entries \ {p} : Moves(j)
      /\ busy => worker'[p] = NoWorker
      /\ ~busy => /\ worker'[p].pc = "admit" /\ worker'[p].out = "none" /\ ~worker'[p].signalled
                  /\ worker'[p].seen = row[e].done
  <2>1. CASE busy
    BY <1>1, <1>2, <1>8, <2>1 DEF Moves, TypeOK
  <2>2. CASE ~busy
    BY <1>1, <1>2, <1>4, <2>2, StartType DEF Moves
  <2> QED
    BY <2>1, <2>2
<1> HIDE DEF p
<1>10. TypeOK'
  <2>1. Len(queue') <= MaxEntries
    BY <1>2, <1>4 DEF p
  <2> QED
    BY <1>1, <1>4, <1>7, <1>9, <2>1 DEF TypeOK
<1>11. \A j \in DOMAIN queue \ {p} : Exec(j) = e /\ Ctx(j) = c => ~Live(j)
  BY <1>1, <1>2 DEF PointsFollow, Live
<1>12. ~busy => \A j \in DOMAIN queue : Exec(j) = e => queue[j].status # "claimed"
  BY DEF Claimed, WithStatus, Exec
<1>13. worker[p].out # "repaused"
  BY <1>8 DEF NoWorker
<1>14. Assigned(p, e, c)
  <2>1. CASE busy
    BY <1>2, <1>3, <1>4, <1>6, <1>7, <1>9, <1>11, <1>13, <2>1 DEF Assigned
  <2>2. CASE ~busy
    BY <1>2, <1>3, <1>4, <1>6, <1>7, <1>9, <1>11, <1>12, <1>13, <2>2 DEF Assigned
  <2> QED
    BY <2>1, <2>2
<1>15. DuePointsWait'
  <2>1. /\ row'[poll.exec].status = row[poll.exec].status
        /\ \A d \in Contexts \ {c} : row'[poll.exec].points[d] = row[poll.exec].points[d]
    BY <1>1, <1>6, <1>7
  <2> QED
    BY <1>1, <2>1, PauseAssumption DEF DuePointsWait
<1> QED
  BY <1>10, <1>14, <1>15, AssignedInv

LEMMA ResumeInv ==
  ASSUME IInv, NEW e \in Executions, NEW c \in Contexts, Resume(e, c)
  PROVE  IInv'
<1>1. /\ Enqueue(e, c) /\ log' = log /\ run' = run /\ poll' = poll /\ crashes' = crashes
      /\ c \notin TimeContexts
  BY DEF Resume
<1>2. poll \in Poll /\ DuePointsWait
  BY DEF IInv, TypeOK
<1>3. poll.pc \in {"prepare", "enqueue"} => poll.due # {} /\ c \notin poll.due
  BY <1>1, <1>2 DEF DuePointsWait
<1> QED
  BY <1>1, <1>2, <1>3, EnqueueInv

LEMMA PollResumesInv ==
  ASSUME IInv, PollResumes
  PROVE  IInv'
<1>1. /\ TypeOK /\ poll \in Poll /\ poll.exec \in Executions /\ DuePointsWait
      /\ poll.pc = "enqueue" /\ log' = log /\ run' = run /\ crashes' = crashes
  BY DEF IInv, TypeOK, Poll, PollResumes
<1>2. PICK c \in poll.due :
        /\ \/ Enqueue(poll.exec, c)
           \/ UNCHANGED <<row, queue, worker>>
        /\ poll' = [poll EXCEPT !.due = @ \ {c}, !.pc = IF poll.due = {c} THEN "setNext" ELSE @]
  BY DEF PollResumes
<1>3. c \in Contexts
  BY <1>1, PauseAssumption DEF DuePointsWait
<1>4. /\ poll' \in Poll /\ poll'.exec = poll.exec /\ poll'.due = poll.due \ {c}
      /\ poll'.pc = "enqueue" => poll'.due # {}
      /\ poll'.pc \in {"enqueue", "setNext"}
  BY <1>1, <1>2 DEF Poll
<1>5. CASE Enqueue(poll.exec, c)
  BY <1>1, <1>3, <1>4, <1>5, EnqueueInv
<1>6. CASE UNCHANGED <<row, queue, worker>>
  <2>1. TypeOK'
    BY <1>1, <1>4, <1>6 DEF TypeOK
  <2>2. SamePoints /\ (\A f \in Executions : row'[f].done = row[f].done) /\ DuePointsWait'
    BY <1>1, <1>4, <1>6 DEF SamePoints, DuePointsWait
  <2> QED
    BY <1>1, <1>6, <2>1, <2>2, OthersStep
<1> QED
  BY <1>2, <1>5, <1>6

-----------------------------------------------------------------------------
(* An entry is settled.                                                      *)

(* Entry i, claimed and settled by its worker, is now s and its point v. *)
Settled(i, e, c, s, v) ==
  /\ i \in DOMAIN queue /\ e = Exec(i) /\ c = Ctx(i) /\ worker[i].pc = "settle"
  /\ DOMAIN queue' = DOMAIN queue
  /\ \A j \in DOMAIN queue \ {i} : queue'[j] = queue[j]
  /\ queue'[i].exec = e /\ queue'[i].ctx = c /\ queue'[i].status = s
  /\ \A j \in Entries \ {i} : worker'[j] = worker[j]
  /\ worker'[i].pc \in {"drain", "stopped", "done"} /\ worker'[i].out = worker[i].out
  /\ worker'[i].signalled = worker[i].signalled
  /\ \A f \in Executions \ {e} : row'[f] = row[f]
  /\ \A d \in Contexts \ {c} : row'[e].points[d] = row[e].points[d]
  /\ row'[e].points[c] = v /\ row'[e].done = row[e].done
  /\ row'[e].status \in {"paused", "partially_resumed", "fully_resumed"}
  /\ \/ s = "pending" /\ v = "queued" /\ worker[i].out = "retry" /\ worker'[i].pc = "done"
     \/ s = "failed" /\ v \in {"failed", "paused"} /\ worker[i].out \notin Gone
     \/ s = "completed" /\ v = "resuming" /\ worker[i].out = "repaused"
     \/ s = "completed" /\ v = "resumed" /\ worker[i].out = "finished"

(* The execution of a claimed entry waits for more than it. *)
LEMMA ClaimedRow ==
  ASSUME IInv, NEW i \in DOMAIN queue, queue[i].status = "claimed"
  PROVE  /\ row[Exec(i)].status \in Resumable /\ row[Exec(i)].points[Ctx(i)] = "resuming"
<1>1. /\ PointsFollow /\ CountMatches /\ NothingIsCancelled /\ row[Exec(i)] \in Row
      /\ Exec(i) \in Executions /\ Ctx(i) \in Contexts
  BY QueueTypes DEF IInv, TypeOK
<1>2. row[Exec(i)].status # "none" /\ row[Exec(i)].points[Ctx(i)] = "resuming"
  BY <1>1 DEF PointsFollow
<1>3. row[Exec(i)].status # "fully_resumed"
  BY <1>1, <1>2 DEF CountMatches, Resumed, Points
<1> QED
  BY <1>1, <1>2, <1>3 DEF Row, RowStatuses, Resumable, NothingIsCancelled

LEMMA SettledWorkers ==
  ASSUME IInv, NEW i, NEW e, NEW c, NEW s, NEW v, Settled(i, e, c, s, v), log' = log \/ e = Root
  PROVE  ClaimsAreHeld' /\ EntriesExclude' /\ RunningIsLogged'
<1>1. /\ ClaimsAreHeld /\ EntriesExclude /\ RunningIsLogged /\ i \in DOMAIN queue
      /\ \A j \in DOMAIN queue : j \in Entries
  BY QueueTypes DEF IInv, Settled
<1>2. queue[i].status = "claimed"
  BY <1>1 DEF Settled, ClaimsAreHeld, Working
<1>3. ClaimsAreHeld'
  <2>1. \A j \in Entries \ DOMAIN queue' : worker'[j] = NoWorker
    BY <1>1 DEF Settled, ClaimsAreHeld
  <2>2. ASSUME NEW j \in DOMAIN queue \ {i}
        PROVE  queue'[j] = queue[j] /\ worker'[j] = worker[j]
    BY <1>1 DEF Settled
  <2>3. /\ worker'[i].pc \in {"drain", "stopped"} => s \in {"completed", "failed"}
        /\ s = "pending" => worker'[i].out = "retry"
        /\ worker'[i].pc \notin Working \cup {"idle"}
    BY DEF Settled, Working
  <2> QED
    BY <1>1, <2>1, <2>2, <2>3 DEF Settled, ClaimsAreHeld, Exec, Working
<1>4. ASSUME NEW j \in DOMAIN queue
      PROVE  /\ queue'[j].exec = queue[j].exec /\ queue'[j].ctx = queue[j].ctx
             /\ queue'[j].status = "claimed" => queue[j].status = "claimed"
             /\ Live(j)' => Live(j)
  BY <1>1, <1>2 DEF Settled, Live, Exec, Ctx
<1>5. EntriesExclude'
  BY <1>1, <1>4 DEF EntriesExclude, Exec, Ctx, Settled
<1>6. RunningIsLogged'
  <2>1. \A j \in DOMAIN queue' : worker'[j].pc = "running" /\ queue'[j].exec = Root =>
          j \in DOMAIN queue /\ j # i /\ worker[j].pc = "running" /\ Exec(j) = Root
    BY <1>1 DEF Settled, Exec
  <2>2. CASE log' = log
    BY <1>1, <2>1, <2>2 DEF RunningIsLogged, Running, Exec
  <2>3. CASE e = Root
    <3>1. \A j \in DOMAIN queue : j # i /\ worker[j].pc = "running" => Exec(j) # Root
      <4>1. \A j \in DOMAIN queue : worker[j].pc = "running" => queue[j].status = "claimed"
        BY <1>1 DEF ClaimsAreHeld, Working
      <4>2. Exec(i) = Root
        BY <2>3 DEF Settled
      <4> QED
        BY <1>1, <1>2, <4>1, <4>2 DEF EntriesExclude
    <3> QED
      BY <2>1, <3>1 DEF RunningIsLogged, Running, Exec
  <2> QED
    BY <2>2, <2>3
<1> QED
  BY <1>3, <1>5, <1>6

LEMMA SettledPoints ==
  ASSUME IInv, NEW i, NEW e, NEW c, NEW s, NEW v, Settled(i, e, c, s, v)
  PROVE  PointsFollow' /\ PointsAreCarried'
<1>1. /\ TypeOK /\ ClaimsAreHeld /\ PointsFollow /\ PointsAreCarried /\ EntriesExclude
      /\ i \in DOMAIN queue /\ e \in Executions /\ c \in Contexts /\ e = Exec(i) /\ c = Ctx(i)
      /\ \A j \in DOMAIN queue : j \in Entries /\ Exec(j) \in Executions /\ Ctx(j) \in Contexts
  BY QueueTypes DEF IInv, Settled
<1>2. queue[i].status = "claimed" /\ row[e].status \in Resumable
  BY <1>1, ClaimedRow DEF Settled, ClaimsAreHeld, Working
<1>3. \A j \in DOMAIN queue \ {i} : queue'[j] = queue[j] /\ worker'[j] = worker[j]
  BY <1>1 DEF Settled
<1>4. PointsFollow'
  <2>1. ASSUME NEW j \in DOMAIN queue \ {i}
        PROVE  /\ row'[Exec(j)].status # "none"
               /\ queue[j].status = "claimed" => row'[Exec(j)].points[Ctx(j)] = "resuming"
               /\ queue[j].status = "pending" => row'[Exec(j)].points[Ctx(j)] = "queued"
               /\ worker[j].out \in Gone => row'[Exec(j)].points[Ctx(j)] \in {"resuming", "resumed"}
    <3>1. row'[Exec(j)].status # "none"
      BY <1>1 DEF Settled, PointsFollow
    <3>2. CASE Exec(j) = e /\ Ctx(j) = c
      <4>1. ~Live(j)
        BY <1>1, <1>2, <3>2 DEF EntriesExclude, Live
      <4> QED
        BY <3>1, <4>1 DEF Live, Gone
    <3>3. CASE Exec(j) # e \/ Ctx(j) # c
      <4>1. row'[Exec(j)].points[Ctx(j)] = row[Exec(j)].points[Ctx(j)]
        BY <1>1, <3>3 DEF Settled
      <4> QED
        BY <1>1, <3>1, <4>1 DEF PointsFollow, Gone
    <3> QED
      BY <3>2, <3>3
  <2>2. /\ row'[e].status # "none" /\ queue'[i].exec = e /\ queue'[i].ctx = c
        /\ queue'[i].status # "claimed"
        /\ queue'[i].status = "pending" => row'[e].points[c] = "queued"
        /\ worker'[i].out \in Gone => row'[e].points[c] \in {"resuming", "resumed"}
    BY DEF Settled, Gone
  <2> QED
    BY <1>3, <2>1, <2>2 DEF PointsFollow, Exec, Ctx, Gone, Settled
<1>5. PointsAreCarried'
  <2>1. ASSUME NEW f \in Executions, NEW d \in Contexts, row'[f].status \in Resumable, f # e \/ d # c
        PROVE  /\ row'[f].points[d] = "queued" =>
                    \E j \in DOMAIN queue \ {i} :
                      Exec(j) = f /\ Ctx(j) = d /\ queue[j].status = "pending"
               /\ row'[f].points[d] = "resuming" =>
                    \E j \in DOMAIN queue \ {i} :
                      /\ Exec(j) = f /\ Ctx(j) = d
                      /\ \/ queue[j].status = "claimed"
                         \/ queue[j].status = "completed" /\ worker[j].out = "repaused"
    <3>1. row'[f].points[d] = row[f].points[d] /\ row[f].status \in Resumable
      BY <1>2, <2>1 DEF Settled
    <3>2. \A j \in DOMAIN queue : Exec(j) = f /\ Ctx(j) = d => j # i
      BY <1>1, <2>1
    <3> QED
      BY <1>1, <3>1, <3>2 DEF PointsAreCarried, Pending, WithStatus, Exec
  <2>2. ASSUME NEW f \in Executions, NEW d \in Contexts, row'[f].status \in Resumable
        PROVE  /\ row'[f].points[d] = "queued" =>
                    \E j \in DOMAIN queue' :
                      queue'[j].exec = f /\ queue'[j].ctx = d /\ queue'[j].status = "pending"
               /\ row'[f].points[d] = "resuming" =>
                    \E j \in DOMAIN queue' :
                      /\ queue'[j].exec = f /\ queue'[j].ctx = d
                      /\ \/ queue'[j].status = "claimed"
                         \/ queue'[j].status = "completed" /\ worker'[j].out = "repaused"
    <3>1. CASE f = e /\ d = c
      BY <3>1 DEF Settled
    <3>2. CASE f # e \/ d # c
      BY <1>3, <2>1, <2>2, <3>2 DEF Exec, Ctx, Settled
    <3> QED
      BY <3>1, <3>2
  <2> QED
    BY <2>2 DEF PointsAreCarried, Pending, WithStatus, Exec, Ctx
<1> QED
  BY <1>4, <1>5

LEMMA SettledInv ==
  ASSUME IInv, TypeOK', NEW i, NEW e, NEW c, NEW s, NEW v, Settled(i, e, c, s, v),
         log' = log \/ e = Root, log' # "cancelled", run' = run, poll' = poll, CountMatches'
  PROVE  IInv'
<1>1. /\ TypeOK /\ ClaimsAreHeld /\ PointsFollow /\ EntriesExclude /\ RowsAppearOnce
      /\ SnapshotsAreFresh /\ DuePointsWait /\ NothingIsCancelled
      /\ i \in DOMAIN queue /\ e \in Executions /\ c \in Contexts /\ e = Exec(i) /\ c = Ctx(i)
      /\ \A j \in DOMAIN queue : j \in Entries /\ Exec(j) \in Executions
      /\ Root \in Executions /\ \A j \in Entries : j \in Executions
  BY QueueTypes, EntryTypes DEF IInv, Settled
<1>2. queue[i].status = "claimed" /\ row[e].status \in Resumable /\ row[e].points[c] = "resuming"
  BY <1>1, ClaimedRow DEF Settled, ClaimsAreHeld, Working
<1>3. ClaimsAreHeld' /\ EntriesExclude' /\ RunningIsLogged' /\ PointsFollow' /\ PointsAreCarried'
  BY SettledWorkers, SettledPoints
<1>4. \A j \in DOMAIN queue \ {i} : queue'[j] = queue[j] /\ worker'[j] = worker[j]
  BY <1>1 DEF Settled
<1>5. \A f \in Executions : row'[f].status = "none" <=> row[f].status = "none"
  BY <1>2 DEF Settled, Resumable
<1>6. RowsAppearOnce'
  <2>1. run'.pc \in {"running", "persist"} => row'[Root].status = "none"
    BY <1>1, <1>5 DEF RowsAppearOnce
  <2>2. ASSUME NEW j \in Entries, row'[j].status # "none"
        PROVE  worker'[j].out = "repaused" /\ worker'[j].pc # "persist"
    BY <1>1, <1>5, <2>2 DEF RowsAppearOnce, Settled
  <2> QED
    BY <2>1, <2>2 DEF RowsAppearOnce
<1>7. SnapshotsAreFresh'
  <2>1. Resumed(row'[e]) \subseteq row'[e].done
    <3>1. v = "resumed" => c \in row[e].done
      BY <1>1 DEF Settled, SnapshotsAreFresh
    <3>2. \A d \in Contexts \ {c} : d \in Resumed(row'[e]) => d \in Resumed(row[e])
      BY DEF Settled, Resumed
    <3> QED
      BY <1>1, <3>1, <3>2 DEF Settled, SnapshotsAreFresh, Resumed
  <2>2. \A f \in Executions : Resumed(row'[f]) \subseteq row'[f].done
    BY <1>1, <2>1 DEF Settled, SnapshotsAreFresh
  <2>3. ASSUME NEW j \in DOMAIN queue, worker'[j].pc \in Working
        PROVE  /\ j # i /\ Exec(j) # e /\ worker'[j] = worker[j]
               /\ row'[Exec(j)] = row[Exec(j)]
    <3>1. j # i
      BY <2>3 DEF Settled, Working
    <3>2. queue[j].status = "claimed" /\ worker'[j] = worker[j]
      BY <1>1, <1>4, <2>3, <3>1 DEF ClaimsAreHeld
    <3>3. Exec(j) # e
      BY <1>1, <1>2, <3>1, <3>2 DEF EntriesExclude
    <3> QED
      BY <1>1, <3>1, <3>2, <3>3 DEF Settled
  <2>4. \A j \in DOMAIN queue' : queue'[j].exec = Exec(j) /\ queue'[j].ctx = Ctx(j) /\ j \in DOMAIN queue
    BY <1>1, <1>4 DEF Settled, Exec, Ctx
  <2> QED
    BY <1>1, <2>2, <2>3, <2>4 DEF SnapshotsAreFresh, Exec, Ctx, Working
<1>8. DuePointsWait'
  <2>1. poll.exec \in Executions
    BY <1>1 DEF TypeOK, Poll
  <2>2. poll.exec # e => row'[poll.exec] = row[poll.exec]
    BY <2>1 DEF Settled
  <2>3. \A d \in Contexts : row[e].points[d] = "paused" => row'[e].points[d] = "paused"
    BY <1>2 DEF Settled
  <2> QED
    BY <1>1, <1>5, <2>1, <2>2, <2>3, PauseAssumption DEF DuePointsWait
<1>9. NothingIsCancelled'
  BY <1>1 DEF NothingIsCancelled, Settled
<1> QED
  BY <1>3, <1>6, <1>7, <1>8, <1>9 DEF IInv

(* The counters of a point that was resuming and is not resumed. *)
LEMMA CountKept ==
  ASSUME IInv, NEW e \in Executions, NEW c \in Contexts,
         \A f \in Executions \ {e} : row'[f] = row[f],
         \A d \in Contexts \ {c} : row'[e].points[d] = row[e].points[d],
         row[e].points[c] = "resuming", row'[e].points[c] \notin {"absent", "resumed"},
         row'[e].status = row[e].status, row'[e].resumed = row[e].resumed
  PROVE  CountMatches'
<1>1. Resumed(row'[e]) = Resumed(row[e]) /\ Points(row'[e]) = Points(row[e])
  BY DEF Resumed, Points
<1> QED
  BY <1>1 DEF CountMatches, IInv

LEMMA MarkFailedInv ==
  ASSUME IInv, NEW i \in Entries, MarkFailed(i)
  PROVE  IInv'
<1> DEFINE e == Exec(i)
           c == Ctx(i)
           r == SetPoint(row[e], c, "failed")
<1>1. /\ TypeOK /\ i \in DOMAIN queue /\ worker[i].pc = "settle" /\ worker[i].out = "errored"
      /\ e \in Executions /\ c \in Contexts /\ NothingIsCancelled /\ ClaimsAreHeld
      /\ row[e] \in Row
  BY QueueTypes DEF IInv, MarkFailed, At, TypeOK
<1>2. row[e].status \in Resumable /\ row[e].points[c] = "resuming"
  BY <1>1, ClaimedRow DEF ClaimsAreHeld, Working
<1>3. /\ queue' = SetEntry(i, "failed") /\ row' = [row EXCEPT ![e] = r]
      /\ log' \in {log, "failed"} /\ (log' = log \/ e = Root)
      /\ worker' = Goto(i, "drain") /\ run' = run /\ poll' = poll /\ crashes' = crashes
  BY <1>1 DEF MarkFailed, Rest, LogIs, NothingIsCancelled
<1>4. /\ r \in Row /\ r.points[c] = "failed"
      /\ \A d \in Contexts \ {c} : r.points[d] = row[e].points[d]
      /\ r.status = row[e].status /\ r.resumed = row[e].resumed /\ r.done = row[e].done
  <2>1. "failed" \in PointStatuses
    BY DEF PointStatuses
  <2> QED
    BY <1>1, <2>1, PointType
<1> HIDE DEF r
<1>5. /\ row' \in [Executions -> Row] /\ row'[e] = r
      /\ \A f \in Executions \ {e} : row'[f] = row[f]
  BY <1>1, <1>3, <1>4, RowUpdate
<1>6. /\ queue' \in Seq(Entry) /\ Len(queue') = Len(queue) /\ DOMAIN queue' = DOMAIN queue
      /\ queue'[i].status = "failed" /\ queue'[i].exec = e /\ queue'[i].ctx = c
      /\ \A j \in DOMAIN queue \ {i} : queue'[j] = queue[j]
  BY <1>1, <1>3, EntryStatus
<1>7. /\ worker' \in [Entries -> Worker] /\ \A j \in Entries \ {i} : worker'[j] = worker[j]
      /\ worker'[i].pc = "drain" /\ worker'[i].out = worker[i].out
      /\ worker'[i].signalled = worker[i].signalled
  BY <1>1, <1>3, GotoType, Names
<1>8. TypeOK'
  BY <1>1, <1>3, <1>5, <1>6, <1>7 DEF TypeOK, LogStatuses
<1>9. CountMatches'
  BY <1>1, <1>2, <1>4, <1>5, CountKept
<1>10. Settled(i, e, c, "failed", "failed")
  BY <1>1, <1>2, <1>4, <1>5, <1>6, <1>7 DEF Settled, Gone, Resumable
<1>11. log' # "cancelled"
  BY <1>1, <1>3 DEF NothingIsCancelled
<1> QED
  BY <1>3, <1>8, <1>9, <1>10, <1>11, SettledInv

(* A resume that did not start its blocks: kept for a retry, or given up.    *)
LEMMA AttemptedType ==
  ASSUME TypeOK, NEW i \in DOMAIN queue
  PROVE  /\ Attempted(i, row[Exec(i)]) \in Row
         /\ Attempted(i, row[Exec(i)]).points[Ctx(i)] = IF CanRetry(i) THEN "queued" ELSE "paused"
         /\ \A d \in Contexts \ {Ctx(i)} :
              Attempted(i, row[Exec(i)]).points[d] = row[Exec(i)].points[d]
         /\ Attempted(i, row[Exec(i)]).status = row[Exec(i)].status
         /\ Attempted(i, row[Exec(i)]).resumed = row[Exec(i)].resumed
         /\ Attempted(i, row[Exec(i)]).done = row[Exec(i)].done
<1> DEFINE r == row[Exec(i)]
           v == IF CanRetry(i) THEN "queued" ELSE "paused"
           s == SetPoint(r, Ctx(i), v)
           n == IF CanRetry(i) THEN r.retries + 1 ELSE r.retries
<1>1. r \in Row /\ Ctx(i) \in Contexts /\ v \in PointStatuses
  BY QueueTypes DEF TypeOK, PointStatuses
<1>2. /\ s \in Row /\ s.points[Ctx(i)] = v /\ \A d \in Contexts \ {Ctx(i)} : s.points[d] = r.points[d]
      /\ s.status = r.status /\ s.resumed = r.resumed /\ s.done = r.done /\ s.retries = r.retries
  BY <1>1, PointType
<1>3. n \in 0 .. MaxRetries
  BY <1>1, BoundTypes DEF Row, CanRetry
<1>4. CanRetry(i) \in BOOLEAN
  BY DEF CanRetry
<1>5. Attempted(i, r) = IF ~Admission(i) THEN s ELSE [s EXCEPT !.next = CanRetry(i),
                                                      !.retries = IF CanRetry(i) THEN @ + 1 ELSE @]
  BY DEF Attempted
<1> HIDE DEF s, v, r
<1>6. [s EXCEPT !.next = CanRetry(i), !.retries = IF CanRetry(i) THEN @ + 1 ELSE @]
      = [s EXCEPT !.next = CanRetry(i), !.retries = n]
  BY <1>2 DEF Row
<1> HIDE DEF n
<1>7. [s EXCEPT !.next = CanRetry(i), !.retries = n] \in Row
  BY <1>2, <1>3, <1>4 DEF Row
<1>8. /\ [s EXCEPT !.next = CanRetry(i), !.retries = n].points = s.points
      /\ [s EXCEPT !.next = CanRetry(i), !.retries = n].status = s.status
      /\ [s EXCEPT !.next = CanRetry(i), !.retries = n].resumed = s.resumed
      /\ [s EXCEPT !.next = CanRetry(i), !.retries = n].done = s.done
  BY <1>2 DEF Row
<1> QED
  BY <1>2, <1>5, <1>6, <1>7, <1>8 DEF v, r

LEMMA MarkAttemptFailedInv ==
  ASSUME IInv, NEW i \in Entries, MarkAttemptFailed(i)
  PROVE  IInv'
<1> DEFINE e == Exec(i)
           c == Ctx(i)
           r == Attempted(i, row[e])
           s == IF CanRetry(i) THEN "pending" ELSE "failed"
           v == IF CanRetry(i) THEN "queued" ELSE "paused"
           pc == IF Preserved(i) THEN "done" ELSE IF worker[i].out = "stopped" THEN "stopped" ELSE "drain"
<1>1. /\ TypeOK /\ i \in DOMAIN queue /\ worker[i].pc = "settle"
      /\ worker[i].out \in {"stopped", "refused", "retry", "dropped"}
      /\ e \in Executions /\ c \in Contexts /\ NothingIsCancelled /\ ClaimsAreHeld
      /\ row[e] \in Row
  BY QueueTypes DEF IInv, MarkAttemptFailed, At, TypeOK
<1>2. row[e].status \in Resumable /\ row[e].points[c] = "resuming"
  BY <1>1, ClaimedRow DEF ClaimsAreHeld, Working
<1>3. /\ queue' = SetEntry(i, s) /\ row' = [row EXCEPT ![e] = r]
      /\ log' \in {log, "paused"} /\ (log' = log \/ e = Root)
      /\ worker' = Goto(i, pc) /\ run' = run /\ poll' = poll /\ crashes' = crashes
  BY <1>1 DEF MarkAttemptFailed, Rest, LogIs, NothingIsCancelled
<1>4. /\ r \in Row /\ r.points[c] = v
      /\ \A d \in Contexts \ {c} : r.points[d] = row[e].points[d]
      /\ r.status = row[e].status /\ r.resumed = row[e].resumed /\ r.done = row[e].done
  BY <1>1, <1>2, AttemptedType
<1> HIDE DEF r
<1>5. /\ row' \in [Executions -> Row] /\ row'[e] = r
      /\ \A f \in Executions \ {e} : row'[f] = row[f]
  BY <1>1, <1>3, <1>4, RowUpdate
<1>6. /\ queue' \in Seq(Entry) /\ Len(queue') = Len(queue) /\ DOMAIN queue' = DOMAIN queue
      /\ queue'[i].status = s /\ queue'[i].exec = e /\ queue'[i].ctx = c
      /\ \A j \in DOMAIN queue \ {i} : queue'[j] = queue[j]
  BY <1>1, <1>3, EntryStatus
<1>7. pc \in Pcs /\ pc \in {"drain", "stopped", "done"}
  BY Names
<1>8. /\ s = "pending" => v = "queued" /\ worker[i].out = "retry" /\ pc = "done"
      /\ s # "pending" => s = "failed" /\ v = "paused"
      /\ v \notin {"absent", "resumed"}
  BY DEF CanRetry, Preserved
<1> HIDE DEF s, v, pc
<1>9. /\ worker' \in [Entries -> Worker] /\ \A j \in Entries \ {i} : worker'[j] = worker[j]
      /\ worker'[i].pc = pc /\ worker'[i].out = worker[i].out
      /\ worker'[i].signalled = worker[i].signalled
  BY <1>1, <1>3, <1>7, GotoType
<1>10. TypeOK'
  BY <1>1, <1>3, <1>5, <1>6, <1>9 DEF TypeOK, LogStatuses
<1>11. CountMatches'
  BY <1>1, <1>2, <1>4, <1>5, <1>8, CountKept
<1>12. Settled(i, e, c, s, v)
  BY <1>1, <1>2, <1>4, <1>5, <1>6, <1>7, <1>8, <1>9 DEF Settled, Gone, Resumable
<1>13. log' # "cancelled"
  BY <1>1, <1>3 DEF NothingIsCancelled
<1> QED
  BY <1>3, <1>10, <1>11, <1>12, <1>13, SettledInv

(* A point more is resumed, and the status follows from the count. *)
LEMMA ProgressMatches ==
  ASSUME NEW r \in Row, NEW r2 \in Row, NEW c \in Contexts,
         r.points[c] = "resuming", r2.points[c] = "resumed",
         \A d \in Contexts \ {c} : r2.points[d] = r.points[d],
         r.resumed = Cardinality(Resumed(r)), r2.resumed = r.resumed + 1,
         r2.status = IF r2.resumed >= Cardinality(Points(r2)) THEN "fully_resumed"
                     ELSE IF r2.resumed > 0 THEN "partially_resumed" ELSE "paused"
  PROVE  /\ r2.resumed = Cardinality(Resumed(r2))
         /\ r2.status = "fully_resumed" => Resumed(r2) = Points(r2)
         /\ r2.status = "partially_resumed" => Resumed(r2) \notin {{}, Points(r2)}
         /\ r2.status \in {"fully_resumed", "partially_resumed"}
<1>1. IsFiniteSet(Contexts) /\ Points(r2) \subseteq Contexts /\ Resumed(r) \subseteq Contexts
      /\ Resumed(r2) \subseteq Points(r2)
  BY PauseAssumption DEF Points, Resumed
<1>2. Resumed(r2) = Resumed(r) \cup {c} /\ c \notin Resumed(r)
  BY DEF Resumed
<1>3. IsFiniteSet(Points(r2)) /\ IsFiniteSet(Resumed(r))
  BY <1>1, FS_Subset
<1>4. IsFiniteSet(Resumed(r2)) /\ Cardinality(Resumed(r2)) = Cardinality(Resumed(r)) + 1
  BY <1>2, <1>3, FS_AddElement
<1>5. r2.resumed = Cardinality(Resumed(r2))
  BY <1>4
<1>6. /\ Cardinality(Resumed(r)) \in Nat /\ Cardinality(Points(r2)) \in Nat
      /\ Cardinality(Resumed(r2)) \in Nat
  BY <1>3, <1>4, FS_CardinalityType
<1>7. /\ Cardinality(Resumed(r2)) <= Cardinality(Points(r2))
      /\ Cardinality(Points(r2)) = Cardinality(Resumed(r2)) => Points(r2) = Resumed(r2)
  BY <1>1, <1>3, FS_Subset
<1>8. r2.resumed \in Nat /\ r2.resumed > 0
  BY <1>4, <1>5, <1>6
<1>9. CASE r2.resumed >= Cardinality(Points(r2))
  BY <1>5, <1>6, <1>7, <1>9
<1>10. CASE ~ (r2.resumed >= Cardinality(Points(r2)))
  <2>1. r2.status = "partially_resumed"
    BY <1>8, <1>10
  <2>2. Resumed(r2) # Points(r2)
    BY <1>5, <1>6, <1>10
  <2> QED
    BY <1>2, <1>5, <2>1, <2>2
<1> QED
  BY <1>9, <1>10

LEMMA MarkCompletedInv ==
  ASSUME IInv, NEW i \in Entries, MarkCompleted(i)
  PROVE  IInv'
<1> DEFINE e == Exec(i)
           c == Ctx(i)
           r == row[e]
           t == SetPoint(r, c, "resumed")
           u == [t EXCEPT !.resumed = @ + 1, !.retries = 0]
           done == [u EXCEPT !.status = Progress(u)]
<1>1. /\ TypeOK /\ i \in DOMAIN queue /\ worker[i].pc = "settle" /\ worker[i].out \in {"finished", "repaused"}
      /\ e \in Executions /\ c \in Contexts /\ NothingIsCancelled /\ ClaimsAreHeld /\ CountMatches
      /\ r \in Row
  BY QueueTypes DEF IInv, MarkCompleted, At, TypeOK
<1>2. queue[i].status = "claimed" /\ row[e].status \in Resumable /\ row[e].points[c] = "resuming"
  BY <1>1, ClaimedRow DEF ClaimsAreHeld, Working
<1>3. ~CancellationWon(e)
  BY <1>1 DEF CancellationWon, LogIs, NothingIsCancelled
<1>4. /\ queue' = SetEntry(i, "completed") /\ worker' = Goto(i, "drain")
      /\ row' = IF worker[i].out = "finished" THEN [row EXCEPT ![e] = Completed(r, c)] ELSE row
      /\ log' \in {log, "pending"} /\ (log' = log \/ e = Root)
      /\ run' = run /\ poll' = poll /\ crashes' = crashes
  BY <1>2, <1>3 DEF MarkCompleted, SettledQueue, Rest
<1>5. /\ queue' \in Seq(Entry) /\ Len(queue') = Len(queue) /\ DOMAIN queue' = DOMAIN queue
      /\ queue'[i].status = "completed" /\ queue'[i].exec = e /\ queue'[i].ctx = c
      /\ \A j \in DOMAIN queue \ {i} : queue'[j] = queue[j]
  BY <1>1, <1>4, EntryStatus
<1>6. /\ worker' \in [Entries -> Worker] /\ \A j \in Entries \ {i} : worker'[j] = worker[j]
      /\ worker'[i].pc = "drain" /\ worker'[i].out = worker[i].out
      /\ worker'[i].signalled = worker[i].signalled
  BY <1>1, <1>4, GotoType, Names
<1>7. log' # "cancelled" /\ log' \in LogStatuses
  BY <1>1, <1>4 DEF NothingIsCancelled, TypeOK, LogStatuses
<1>8. CASE worker[i].out = "repaused"
  <2>1. row' = row
    BY <1>4, <1>8
  <2>2. TypeOK'
    BY <1>1, <1>4, <1>5, <1>6, <1>7, <2>1 DEF TypeOK
  <2>3. Settled(i, e, c, "completed", "resuming")
    BY <1>1, <1>2, <1>5, <1>6, <1>8, <2>1 DEF Settled, Resumable
  <2>4. CountMatches'
    BY <1>1, <2>1 DEF CountMatches
  <2> QED
    BY <1>4, <1>7, <2>2, <2>3, <2>4, SettledInv
<1>9. CASE worker[i].out = "finished"
  <2>1. row' = [row EXCEPT ![e] = done]
    BY <1>4, <1>9 DEF Completed
  <2>2. "resumed" \in PointStatuses
    BY DEF PointStatuses
  <2>3. /\ t \in Row /\ t.points[c] = "resumed" /\ \A d \in Contexts \ {c} : t.points[d] = r.points[d]
        /\ t.resumed = r.resumed /\ t.done = r.done
    BY <1>1, <2>2, PointType
  <2> HIDE DEF t
  <2>4. /\ u \in Row /\ u.points = t.points /\ u.resumed = r.resumed + 1 /\ u.done = r.done
    <3>1. r.resumed \in Nat /\ r.resumed + 1 \in Nat /\ 0 \in 0 .. MaxRetries
      BY <1>1, BoundTypes DEF Row
    <3> DEFINE n == r.resumed + 1
    <3>2. u = [t EXCEPT !.resumed = n, !.retries = 0]
      BY <2>3 DEF Row
    <3> HIDE DEF n, u
    <3>3. /\ [t EXCEPT !.resumed = n, !.retries = 0] \in Row
          /\ [t EXCEPT !.resumed = n, !.retries = 0].points = t.points
          /\ [t EXCEPT !.resumed = n, !.retries = 0].resumed = n
          /\ [t EXCEPT !.resumed = n, !.retries = 0].done = t.done
      BY <2>3, <3>1 DEF Row, n
    <3> QED
      BY <2>3, <3>2, <3>3 DEF n
  <2> HIDE DEF u
  <2>5. /\ Progress(u) \in RowStatuses
        /\ Progress(u) = IF u.resumed >= Cardinality(Points(u)) THEN "fully_resumed"
                         ELSE IF u.resumed > 0 THEN "partially_resumed" ELSE "paused"
    BY DEF Progress, RowStatuses
  <2>6. /\ done \in Row /\ done.points = u.points /\ done.resumed = u.resumed
        /\ done.done = u.done /\ done.status = Progress(u)
    BY <2>4, <2>5 DEF Row
  <2> HIDE DEF done
  <2>7. Points(done) = Points(u)
    BY <2>6 DEF Points
  <2>8. /\ done.resumed = Cardinality(Resumed(done))
        /\ done.status = "fully_resumed" => Resumed(done) = Points(done)
        /\ done.status = "partially_resumed" => Resumed(done) \notin {{}, Points(done)}
        /\ done.status \in {"fully_resumed", "partially_resumed"}
    <3>1. r.resumed = Cardinality(Resumed(r))
      BY <1>1 DEF CountMatches
    <3>2. /\ done.points[c] = "resumed" /\ \A d \in Contexts \ {c} : done.points[d] = r.points[d]
          /\ done.resumed = r.resumed + 1
      BY <2>3, <2>4, <2>6
    <3>3. done.status = IF done.resumed >= Cardinality(Points(done)) THEN "fully_resumed"
                        ELSE IF done.resumed > 0 THEN "partially_resumed" ELSE "paused"
      BY <2>5, <2>6, <2>7
    <3> QED
      BY <1>1, <1>2, <2>6, <3>1, <3>2, <3>3, ProgressMatches
  <2>9. /\ row' \in [Executions -> Row] /\ row'[e] = done
        /\ \A f \in Executions \ {e} : row'[f] = row[f]
    BY <1>1, <2>1, <2>6, RowUpdate
  <2>10. TypeOK'
    BY <1>1, <1>4, <1>5, <1>6, <1>7, <2>9 DEF TypeOK
  <2>11. Settled(i, e, c, "completed", "resumed")
    BY <1>1, <1>5, <1>6, <1>9, <2>3, <2>4, <2>6, <2>8, <2>9 DEF Settled
  <2>12. CountMatches'
    BY <1>1, <2>8, <2>9 DEF CountMatches
  <2> QED
    BY <1>4, <1>7, <2>10, <2>11, <2>12, SettledInv
<1> QED
  BY <1>1, <1>8, <1>9

-----------------------------------------------------------------------------
(* The inductive invariant.                                                  *)

LEMMA InitInv == Init => IInv
<1> SUFFICES ASSUME Init PROVE IInv
  OBVIOUS
<1>1. queue = <<>> /\ DOMAIN queue = {} /\ Root \in Executions
  BY EntryTypes DEF Init
<1>2. \A e \in Executions : row[e] = NoRow
  BY DEF Init
<1>3. /\ NoRow \in Row /\ NoRow.status = "none" /\ NoRow.resumed = 0 /\ NoRow.done = {}
      /\ \A c \in Contexts : NoRow.points[c] = "absent"
  BY BoundTypes DEF NoRow, Row, RowStatuses, PointStatuses
<1>4. NoWorker \in Worker /\ NoWorker.out = "none" /\ NoWorker.pc = "idle" /\ ~NoWorker.signalled
  BY DEF NoWorker, Worker, Outcomes
<1>5. NoPoll \in Poll /\ NoPoll.pc = "idle"
  BY EntryTypes DEF NoPoll, Poll
<1>6. TypeOK
  <2>1. queue \in Seq(Entry) /\ Len(queue) <= MaxEntries
    BY <1>1, BoundTypes
  <2>2. crashes \in 0 .. MaxCrashes
    BY BoundTypes DEF Init
  <2> QED
    BY <1>3, <1>4, <1>5, <2>1, <2>2 DEF TypeOK, Init, LogStatuses
<1>7. ClaimsAreHeld /\ EntriesExclude /\ PointsFollow
  BY <1>1 DEF Init, ClaimsAreHeld, EntriesExclude, PointsFollow
<1>8. RowsAppearOnce
  BY <1>1, <1>2, <1>3, EntryTypes DEF RowsAppearOnce
<1>9. \A e \in Executions : Resumed(row[e]) = {}
  BY <1>2, <1>3 DEF Resumed
<1>10. SnapshotsAreFresh
  BY <1>1, <1>9 DEF SnapshotsAreFresh
<1>11. DuePointsWait
  BY <1>5 DEF DuePointsWait, Init
<1>12. CountMatches
  <2>1. Cardinality({}) = 0
    BY FS_EmptySet
  <2> QED
    BY <1>2, <1>3, <1>9, <2>1 DEF CountMatches
<1>13. PointsAreCarried
  BY <1>2, <1>3 DEF PointsAreCarried, Resumable
<1>14. RunningIsLogged
  BY <1>1 DEF RunningIsLogged, Running
<1>15. NothingIsCancelled
  BY <1>2, <1>3, <1>4 DEF NothingIsCancelled, Init
<1> QED
  BY <1>6, <1>7, <1>8, <1>10, <1>11, <1>12, <1>13, <1>14, <1>15 DEF IInv

LEMMA StutterInv == IInv /\ UNCHANGED vars => IInv'
<1> SUFFICES ASSUME IInv, UNCHANGED vars PROVE IInv'
  OBVIOUS
<1>1. /\ row' = row /\ queue' = queue /\ worker' = worker /\ run' = run /\ log' = log
      /\ poll' = poll /\ crashes' = crashes
  BY DEF vars
<1>2. TypeOK'
  BY <1>1 DEF TypeOK, IInv
<1>3. SamePoints /\ (\A f \in Executions : row'[f].done = row[f].done) /\ DuePointsWait'
  BY <1>1 DEF SamePoints, DuePointsWait, IInv
<1> QED
  BY <1>1, <1>2, <1>3, OthersStep

LEMMA NextInv == IInv /\ [Next]_vars => IInv'
<1> SUFFICES ASSUME IInv, [Next]_vars PROVE IInv'
  OBVIOUS
<1>1. CASE Run
  BY <1>1, RunQuietInv, RunPersistsInv, RunDrainsInv DEF Run
<1>2. ASSUME NEW e \in Executions, NEW c \in Contexts, Resume(e, c)
      PROVE  IInv'
  BY <1>2, ResumeInv
<1>3. ASSUME NEW i \in Entries, Work(i)
      PROVE  IInv'
  <2>1. CASE ClaimLog(i) \/ EngineEnds(i) \/ NotAdmitted(i) \/ NotDispatched(i)
    BY <2>1, ClaimLogInv, EngineEndsInv, LeavesInv
  <2>2. CASE UpdateSnapshot(i) \/ PersistAgain(i) \/ PersistAgainFails(i)
    BY <2>2, UpdateSnapshotInv, PersistAgainInv, PersistAgainFailsInv
  <2>3. CASE MarkCompleted(i) \/ MarkFailed(i) \/ MarkAttemptFailed(i)
    BY <2>3, MarkCompletedInv, MarkFailedInv, MarkAttemptFailedInv
  <2>4. CASE DrainChild(i) \/ StoppedResumeReads(i) \/ WorkerDrains(i)
    BY <2>4, StoppedResumeInv, WorkerDrainsInv
  <2> QED
    BY <1>3, <2>1, <2>2, <2>3, <2>4 DEF Work
<1>4. CASE PollStep
  BY <1>4, PollReadsInv, PollAdmitsInv, PollWaitsInv, PollResumesInv, PollNextInv, PollDrainsInv
     DEF PollStep
<1>5. CASE Crash
  BY <1>5, CrashInv
<1>6. CASE UNCHANGED vars
  BY <1>6, StutterInv
<1> QED
  BY <1>1, <1>2, <1>3, <1>4, <1>5, <1>6 DEF Next

(* What the rows, the queue and the workers say agrees, in every state.      *)
THEOREM Invariant == Spec => []IInv
BY InitInv, NextInv, PTL DEF Spec

(* The variables keep their types.                                           *)
THEOREM TypeCorrect == Spec => []TypeOK
<1>1. IInv => TypeOK
  BY DEF IInv
<1> QED
  BY <1>1, Invariant, PTL

LEMMA AtMostOne ==
  ASSUME NEW S, \A x, y \in S : x = y
  PROVE  Cardinality(S) <= 1
<1>1. CASE S = {}
  BY <1>1, FS_EmptySet
<1>2. ASSUME NEW x \in S
      PROVE  Cardinality(S) <= 1
  <2>1. S = {x}
    OBVIOUS
  <2> QED
    BY <2>1, FS_Singleton
<1> QED
  BY <1>1, <1>2

(* At most one resume of an execution is active (markResumeCompleted and the *)
(* drains exclude each other by the claimed entry).                          *)
THEOREM OneResumeAtATime == Spec => []OneActiveResume
<1>1. IInv => OneActiveResume
  <2> SUFFICES ASSUME IInv, NEW e \in Executions
               PROVE  Cardinality(Claimed(e)) <= 1 /\ Cardinality(Running(e)) <= 1
    BY DEF OneActiveResume
  <2>1. ClaimsAreHeld /\ EntriesExclude
    BY DEF IInv
  <2>2. \A x, y \in Claimed(e) : x = y
    BY <2>1 DEF Claimed, WithStatus, EntriesExclude, Exec
  <2>3. Running(e) \subseteq Claimed(e)
    BY <2>1 DEF Running, Claimed, WithStatus, ClaimsAreHeld, Working, Exec
  <2>4. \A x, y \in Running(e) : x = y
    BY <2>2, <2>3
  <2> QED
    BY <2>2, <2>4, AtMostOne
<1> QED
  BY <1>1, Invariant, PTL

(* A resume continues from a snapshot with every resume completed before it. *)
THEOREM NoResumeIsForgotten == Spec => []ResumeSeesEarlier
<1>1. IInv => ResumeSeesEarlier
  <2> SUFFICES ASSUME IInv, NEW e \in Executions
               PROVE  /\ Resumed(row[e]) \subseteq row[e].done
                      /\ \A i \in Running(e) : Resumed(row[e]) \subseteq worker[i].seen
    BY DEF ResumeSeesEarlier
  <2>1. SnapshotsAreFresh
    BY DEF IInv
  <2> QED
    BY <2>1 DEF SnapshotsAreFresh, Running, Working
<1> QED
  BY <1>1, Invariant, PTL

(* The counters agree with the points, and the status with the counters.     *)
THEOREM CountsAgree == Spec => []CountMatches
<1>1. IInv => CountMatches
  BY DEF IInv
<1> QED
  BY <1>1, Invariant, PTL

(* No point is left queued or resuming by itself.                            *)
THEOREM NoPointIsLeft == Spec => []PointsAreCarried
<1>1. IInv => PointsAreCarried
  BY DEF IInv
<1> QED
  BY <1>1, Invariant, PTL

(* No continuation goes through twice, retries and crashes included.         *)
THEOREM NoContinuationTwice == Spec => []ContinuationRunsOnce
<1>1. IInv => ContinuationRunsOnce
  <2> SUFFICES ASSUME IInv, NEW c \in Contexts, NEW e \in Executions
               PROVE  ~ (Cardinality(Through(e, c)) > 1)
    BY DEF ContinuationRunsOnce, RanTwice
  <2>1. EntriesExclude
    BY DEF IInv
  <2>2. \A x, y \in Through(e, c) : x = y
    BY <2>1 DEF Through, EntriesExclude, Live
  <2>3. Cardinality(Through(e, c)) <= 1
    BY <2>2, AtMostOne
  <2>4. IsFiniteSet(Through(e, c))
    <3>1. CASE Through(e, c) = {}
      BY <3>1, FS_EmptySet
    <3>2. ASSUME NEW x \in Through(e, c)
          PROVE  IsFiniteSet(Through(e, c))
      <4>1. Through(e, c) = {x}
        BY <2>2
      <4> QED
        BY <4>1, FS_Singleton
    <3> QED
      BY <3>1, <3>2
  <2>5. Cardinality(Through(e, c)) \in Nat
    BY <2>4, FS_CardinalityType
  <2> QED
    BY <2>3, <2>5
<1> QED
  BY <1>1, Invariant, PTL

(* A run whose blocks are running is logged as running.                      *)
THEOREM RunningRunIsLogged == Spec => []RunningIsLogged
<1>1. IInv => RunningIsLogged
  BY DEF IInv
<1> QED
  BY <1>1, Invariant, PTL
=============================================================================

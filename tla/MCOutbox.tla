------------------------------ MODULE MCOutbox ------------------------------
(***************************************************************************)
(* The view under which TLC checks Outbox.                                 *)
(***************************************************************************)
EXTENDS Outbox

Age(t) == now - t

(* The state up to a shift of the clock.  Of a stuck row only that it is     *)
(* stuck matters; of a worker's lease, whether it is held, how old it is     *)
(* while the handler runs, and whether the claim was the row's last.  States *)
(* with one view take the same steps to states with one view, so that the    *)
(* view tells fair behaviours apart as far as the properties do.             *)
View ==
  <<[e \in Events |->
       [status |-> rows[e].status, attempts |-> rows[e].attempts,
        wait |-> IF rows[e].status = "pending" /\ rows[e].availableAt > now
                 THEN rows[e].availableAt - now ELSE 0,
        age |-> IF rows[e].status # "processing" THEN 0
                ELSE IF rows[e].lockedAt = None THEN None
                ELSE IF Stuck(e) THEN StuckThreshold ELSE Age(rows[e].lockedAt)]],
    [w \in Workers |->
       IF workers[w].pc = "idle" THEN <<"idle">>
       ELSE <<workers[w].pc, workers[w].event, workers[w].attempts, workers[w].outcome,
              LeaseHeld(workers[w]), lastClaimer[workers[w].event] = w,
              IF workers[w].pc = "handling" THEN Age(workers[w].lockedAt) ELSE 0>>],
    enqueued, bounds, unserved>>
=============================================================================

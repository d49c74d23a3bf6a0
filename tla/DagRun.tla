------------------------------- MODULE DagRun -------------------------------
(***************************************************************************)
(* What a run of a workflow promises, as the documentation states it       *)
(* (apps/docs/content/docs/workflows/how-it-runs.mdx): a block waits for   *)
(* every feeder that is going to run, then runs once; a feeder on a branch *)
(* that was not taken does not hold it up; only the branch taken runs.     *)
(*                                                                         *)
(* The state is what the blocks did, without queues, edge bookkeeping or   *)
(* flags.  It holds for a DAG without loops and parallels.                 *)
(***************************************************************************)
EXTENDS WorkflowDag

VARIABLES
  running,   \* blocks whose handler is executing
  outputs    \* [Nodes -> the output of a block that ended, or None]

vars == <<running, outputs>>

TypeOK ==
  /\ running \in SUBSET Nodes
  /\ outputs \in [Nodes -> BlockOutput \cup {None}]

(* An edge is taken or refused once its source ended with an output. *)
Taken(e) ==
  /\ outputs[e.src] # None
  /\ outputs[e.src].kind = "done"
  /\ ShouldActivate(e, outputs[e.src])

Refused(e) ==
  /\ outputs[e.src] # None
  /\ outputs[e.src].kind = "done"
  /\ ~ShouldActivate(e, outputs[e.src])

(* S holds every block, the trigger apart, all of whose feeders refused it   *)
(* or are in S.                                                             *)
ClosedUnderSkipping(S) ==
  \A n \in Nodes \ {Trigger} : (\A e \in InEdges(n) : Refused(e) \/ e.src \in S) => n \in S

(* The blocks on branches not taken: they will never run. *)
Skipped == {n \in Nodes : \A S \in SUBSET Nodes : ClosedUnderSkipping(S) => n \in S}

(* A block is due when a feeder took it and no feeder may still run. *)
Due(n) ==
  /\ n \notin running /\ outputs[n] = None
  /\ n = Trigger \/ \E e \in InEdges(n) : Taken(e)
  /\ \A e \in InEdges(n) : Taken(e) \/ Refused(e) \/ e.src \in Skipped

Init ==
  /\ running = {}
  /\ outputs = [n \in Nodes |-> None]

(* Any number of due blocks start together. *)
Start ==
  \E S \in SUBSET {n \in Nodes : Due(n)} :
    /\ running' = running \cup S
    /\ UNCHANGED outputs

End(n) ==
  /\ n \in running
  /\ running' = running \ {n}
  /\ \E out \in BlockOutput : outputs' = [outputs EXCEPT ![n] = out]

Next == Start \/ \E n \in Nodes : End(n)

Spec == Init /\ [][Next]_vars
=============================================================================

-------------------------- MODULE MCOperationQueue --------------------------
(***************************************************************************)
(* The keys on which TLC checks OperationQueue.                            *)
(***************************************************************************)
EXTENDS OperationQueue

(* Two fields of block B, one operation of the removable block C. *)
QueueBlockOf == [k \in Keys |-> IF k \in {"f", "g"} THEN "B" ELSE "C"]
Retries      == [k \in Keys |-> IF k = "g" THEN 0 ELSE 1]
=============================================================================

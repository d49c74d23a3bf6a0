------------------------- MODULE MCPausedCancellation -------------------------
(***************************************************************************)
(* An instance of PausedCancellation: a run that pauses for two people, the  *)
(* continuation of the first of which can pause for the second again.        *)
(***************************************************************************)
EXTENDS PausedCancellation

MCHuman    == {"approve", "review"}
MCPausesAt == [c \in MCHuman |-> IF c = "approve" THEN {"review"} ELSE {}]
MCNone     == {}
=============================================================================

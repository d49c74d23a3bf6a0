---------------------------- MODULE MCPauseResume ----------------------------
(***************************************************************************)
(* Instances of PauseResume: a run that pauses at an approval and a wait,    *)
(* and at a review when the approval is given; or at both human pauses.      *)
(***************************************************************************)
EXTENDS PauseResume, TLC

MCContexts   == {"approve", "review", "wait"}
MCFirst      == {"approve", "wait"}
MCTime       == {"wait"}
MCPausesAt   == [c \in MCContexts |-> IF c = "approve" THEN {"review"} ELSE {}]

MCHuman      == {"approve", "review"}
MCNeverAgain == [c \in MCHuman |-> {}]
MCNone       == {}
=============================================================================

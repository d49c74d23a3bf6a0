------------------------------- MODULE LoopRun -------------------------------
(***************************************************************************)
(* What loops promise, as the documentation states it                      *)
(* (apps/docs/content/docs/workflows/blocks/loop.mdx): the blocks inside    *)
(* run once per iteration; iterations run one after another; a For loop     *)
(* runs a fixed number of times, a ForEach loop once per item.              *)
(*                                                                         *)
(* The state is which calls are under way, which nodes were called in this   *)
(* round of the loop they are in, and the rounds themselves.                *)
(***************************************************************************)
EXTENDS WorkflowDag

CONSTANTS Loops, StartOf, EndOf, ParentOf, CountOf

VARIABLES
  busy,     \* nodes whose call is under way
  called,   \* nodes called in this round
  round,    \* [Loops -> the round under way, 0 when the loop does not run]
  stopped   \* loops that are to stop before their time

vars == <<busy, called, round, stopped>>

Within(l) ==
  {m \in Loops : \A S \in SUBSET Loops :
     (l \in S /\ \A k \in Loops : ParentOf[k] \in S => k \in S) => m \in S}

Inside(l) == {n \in Nodes : SubflowOf[n] \in Within(l)}
Body(l)   == Inside(l) \ {StartOf[l], EndOf[l]}

Runs(l) == l = NoSubflow \/ round[l] > 0

Init ==
  /\ busy = {} /\ called = {}
  /\ round = [l \in Loops |-> 0]
  /\ stopped = {}

(* A node may start once a round, and only while the loop it is in runs.      *)
MayStart(n) ==
  /\ n \notin called
  /\ IF \E l \in Loops : n = StartOf[l] THEN Runs(ParentOf[SubflowOf[n]])
     ELSE Runs(SubflowOf[n])

Start ==
  \E T \in SUBSET {n \in Nodes : MayStart(n)} :
    /\ busy' = busy \cup T /\ called' = called \cup T
    /\ UNCHANGED <<round, stopped>>

End(n) ==
  /\ n \in busy
  /\ busy' = busy \ {n}
  /\ UNCHANGED <<called, round, stopped>>

(* A loop starts with its start sentinel, none of its body having run.        *)
Enter(l) ==
  /\ round[l] = 0 /\ Runs(ParentOf[l])
  /\ called \cap Inside(l) = {StartOf[l]}
  /\ round' = [round EXCEPT ![l] = 1]
  /\ UNCHANGED <<busy, called, stopped>>

(* Nothing of the loop is under way but its end sentinel.                     *)
Quiet(l) ==
  /\ round[l] > 0 /\ busy \cap Inside(l) = {EndOf[l]}
  /\ \A m \in Within(l) \ {l} : round[m] = 0

NextRound(l) ==
  /\ Quiet(l)
  /\ CountOf[l] # None => round[l] < CountOf[l]
  /\ round' = [round EXCEPT ![l] = @ + 1]
  /\ busy' = busy \ {EndOf[l]} /\ called' = called \ Inside(l)
  /\ UNCHANGED stopped

Leave(l) ==
  /\ Quiet(l)
  /\ CountOf[l] # None /\ l \notin stopped =>
       IF CountOf[l] = 0 THEN called \cap Body(l) = {} ELSE round[l] = CountOf[l]
  /\ round' = [round EXCEPT ![l] = 0]
  /\ busy' = busy \ {EndOf[l]}
  /\ UNCHANGED <<called, stopped>>

Stop ==
  /\ stopped' \in {S \in SUBSET Loops : stopped \subseteq S}
  /\ UNCHANGED <<busy, called, round>>

Next ==
  \/ Start
  \/ \E n \in Nodes : End(n)
  \/ \E l \in Loops : Enter(l) \/ NextRound(l) \/ Leave(l)
  \/ Stop

Spec == Init /\ [][Next]_vars
=============================================================================

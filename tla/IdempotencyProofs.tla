-------------------------- MODULE IdempotencyProofs --------------------------
(***************************************************************************)
(* Theorems of Idempotency, for any number of callers, on both stores and  *)
(* under any faults.                                                       *)
(***************************************************************************)
EXTENDS Idempotency, TLAPS

LEMMA GoesKeeps ==
  ASSUME TypeOK, NEW c \in Callers, NEW pc, NEW outcome,
         pc \in {"claiming", "observing", "deleting", "waiting", "running", "storing",
                 "releasing", "ended", "crashed"},
         outcome \in Results \cup {"none", "cached"}, Goes(c, pc, outcome)
  PROVE  /\ callers' \in [Callers -> Caller]
         /\ \A d \in Callers : d # c => callers'[d] = callers[d]
         /\ callers'[c].pc = pc
         /\ pc \notin {"claiming", "ended", "crashed"} =>
              callers'[c].token = callers[c].token
<1>. DEFINE Base == IF pc \in {"claiming", "ended", "crashed"} THEN NewCall ELSE callers[c]
<1>1. Base \in Caller
  BY DEF TypeOK, Caller, NewCall, NoEntry, Entry
<1>0. \A b \in Caller : [b EXCEPT !.pc = pc, !.outcome = outcome] \in Caller
  BY DEF Caller
<1>2. [Base EXCEPT !.pc = pc, !.outcome = outcome] \in Caller
  BY <1>0, <1>1
<1>3. callers' = [callers EXCEPT ![c] = [Base EXCEPT !.pc = pc, !.outcome = outcome]]
  BY DEF Goes
<1>4. /\ callers' \in [Callers -> Caller]
      /\ \A d \in Callers : d # c => callers'[d] = callers[d]
      /\ callers'[c] = [Base EXCEPT !.pc = pc, !.outcome = outcome]
  <2>. HIDE DEF Base
  <2>. QED BY <1>2, <1>3 DEF TypeOK
<1>5. callers'[c].pc = pc /\ callers'[c].token = Base.token
  <2>. HIDE DEF Base
  <2>. QED BY <1>1, <1>4 DEF Caller
<1>. QED BY <1>4, <1>5

LEMMA EntryTypes ==
  ASSUME IdempotencyAssumption, TypeOK
  PROVE  /\ NoEntry \in Entry /\ Stored \in Entry
         /\ \A c \in Callers : callers[c].outcome \in Results /\ Save(c) => entry' \in Entry
         /\ \A c \in Callers : Release(c) => entry' \in Entry
  BY DEF TypeOK, Entry, NoEntry, Stored, Save, Release, Caller, Results

(* The invariant caller by caller; one that stores or releases knows an      *)
(* outcome.                                                                  *)
CallerOK(c) ==
  /\ HasClaim(c) => callers[c].token \in 1 .. issued
  /\ HoldsLease(c) => /\ entry.status = "in-progress"
                      /\ entry.token = callers[c].token
                      /\ entry.expiresAt = callers[c].deadline
  /\ callers[c].pc = "deleting" => callers[c].observed.status = "failed"
  /\ callers[c].pc \in {"storing", "releasing"} => callers[c].outcome \in Results

TokensDistinct ==
  \A c, d \in Callers :
    HasClaim(c) /\ HasClaim(d) /\ callers[c].token = callers[d].token => c = d

ClaimInv == TypeOK /\ (\A c \in Callers : CallerOK(c)) /\ TokensDistinct

(* One caller moves on, keeping its token, and the entry stays, unless it is *)
(* that caller's own or nobody holds its lease.                              *)
LEMMA CallerMoves ==
  ASSUME ClaimInv, NEW c \in Callers, UNCHANGED <<config, now, issued>>, entry' \in Entry,
         \/ UNCHANGED entry
         \/ entry.token = callers[c].token /\ HasClaim(c)
         \/ \A d \in Callers : ~HoldsLease(d),
         callers' \in [Callers -> Caller], faults' \in 0 .. MaxFaults, effects' \in Nat,
         excused' \in BOOLEAN,
         \A d \in Callers : d # c => callers'[d] = callers[d],
         callers'[c].pc # "running",
         HasClaim(c)' => HasClaim(c) /\ callers'[c].token = callers[c].token,
         callers'[c].pc = "deleting" => callers'[c].observed.status = "failed",
         callers'[c].pc \in {"storing", "releasing"} => callers'[c].outcome \in Results
  PROVE  ClaimInv'
<1>1. TypeOK'
  BY DEF ClaimInv, TypeOK
<1>2. CallerOK(c)'
  BY DEF ClaimInv, CallerOK, HasClaim, HoldsLease
<1>3. ASSUME NEW d \in Callers, d # c PROVE CallerOK(d)'
  <2>1. callers'[d] = callers[d] /\ CallerOK(d)
    BY <1>3 DEF ClaimInv
  <2>2. HoldsLease(d) => UNCHANGED entry
    <3>1. HoldsLease(d) => HasClaim(d) /\ entry.token = callers[d].token
      BY <2>1 DEF HoldsLease, HasClaim, CallerOK
    <3>. QED BY <1>3, <3>1 DEF ClaimInv, TokensDistinct
  <2>. QED BY <2>1, <2>2 DEF CallerOK, HasClaim, HoldsLease
<1>4. TokensDistinct'
  BY DEF ClaimInv, TokensDistinct, HasClaim
<1>. QED BY <1>1, <1>2, <1>3, <1>4 DEF ClaimInv

(* A caller that holds nothing ends. *)
LEMMA CallerEnds ==
  ASSUME ClaimInv, NEW c \in Callers, NEW outcome \in {"cached", "failed"},
         Goes(c, "ended", outcome),
         UNCHANGED <<config, now, entry, issued, faults, effects, excused>>
  PROVE  ClaimInv'
<1>1. TypeOK /\ entry' \in Entry /\ faults' \in 0 .. MaxFaults /\ effects' \in Nat
  BY DEF ClaimInv, TypeOK
<1>2. excused' \in BOOLEAN
  BY Zenon DEF ClaimInv, TypeOK
<1>3. outcome \in Results \cup {"none", "cached"}
  BY DEF Results
<1>4. /\ callers' \in [Callers -> Caller] /\ callers'[c].pc = "ended"
      /\ \A d \in Callers : d # c => callers'[d] = callers[d]
  BY <1>1, <1>3, GoesKeeps
<1>5. ~HasClaim(c)' /\ callers'[c].pc # "running" /\ callers'[c].pc # "deleting"
      /\ callers'[c].pc \notin {"storing", "releasing"}
  BY <1>4 DEF HasClaim
<1>. QED BY <1>1, <1>2, <1>4, <1>5, CallerMoves

(* A caller takes the key, which no live lease was on, and knows its claim or *)
(* ends.                                                                      *)
LEMMA KeyTaken ==
  ASSUME ClaimInv, NEW c \in Callers, TakesKey(c), UNCHANGED <<config, now>>,
         faults' \in 0 .. MaxFaults, effects' \in Nat, excused' \in BOOLEAN,
         callers' \in [Callers -> Caller],
         \A d \in Callers : d # c => callers'[d] = callers[d],
         \/ /\ callers'[c].pc = "running" /\ callers'[c].token = issued + 1
            /\ callers'[c].deadline = now + Lease
         \/ callers'[c].pc = "ended"
  PROVE  ClaimInv'
<1>1. /\ TypeOK /\ now \in Nat /\ issued \in Nat /\ Lease \in Nat
      /\ \A d \in Callers : callers[d] \in Caller /\ CallerOK(d)
  BY IdempotencyAssumption DEF ClaimInv, TypeOK
<1>2. \A d \in Callers : ~HoldsLease(d)
  BY <1>1 DEF TakesKey, Expired, Results, CallerOK, HoldsLease, NoEntry, Caller, TypeOK, Entry
<1>3. /\ entry' \in Entry /\ entry'.status = "in-progress" /\ entry'.token = issued + 1
      /\ entry'.expiresAt = now + Lease /\ issued' = issued + 1
  BY <1>1 DEF TakesKey, Entry
<1>4. TypeOK'
  BY <1>1, <1>3 DEF TypeOK
<1>5. \A d \in Callers : CallerOK(d)'
  BY <1>1, <1>2, <1>3 DEF CallerOK, HasClaim, HoldsLease
<1>6. TokensDistinct'
  BY <1>1, <1>3 DEF ClaimInv, TokensDistinct, HasClaim, CallerOK
<1>. QED BY <1>4, <1>5, <1>6 DEF ClaimInv

LEMMA NextClaimInv == ClaimInv /\ [Next]_vars => ClaimInv'
<1>. SUFFICES ASSUME ClaimInv, [Next]_vars PROVE ClaimInv'
  OBVIOUS
<1>0. /\ TypeOK /\ now \in Nat /\ issued \in Nat
      /\ NoEntry \in Entry /\ Stored \in Entry /\ entry \in Entry
      /\ \A c \in Callers : callers[c] \in Caller /\ CallerOK(c)
  BY IdempotencyAssumption, EntryTypes DEF ClaimInv, TypeOK
<1>1. ASSUME NEW c \in Callers, NEW e \in Entry, Meets(c, e),
             UNCHANGED <<config, now, entry, issued, faults, effects, excused>>
      PROVE  ClaimInv'
  <2>1. ASSUME NEW outcome \in {"cached", "failed"}, Goes(c, "ended", outcome) PROVE ClaimInv'
    BY <1>1, <2>1, CallerEnds
  <2>2. CASE callers' = [callers EXCEPT ![c] = [@ EXCEPT !.pc = "waiting", !.deadline = e.expiresAt]]
    <3>1. [callers[c] EXCEPT !.pc = "waiting", !.deadline = e.expiresAt] \in Caller
      BY <1>0, <1>1 DEF Caller, Entry
    <3>2. /\ callers' \in [Callers -> Caller] /\ callers'[c].pc = "waiting"
          /\ \A d \in Callers : d # c => callers'[d] = callers[d]
      BY <1>0, <2>2, <3>1 DEF TypeOK, Caller
    <3>. QED BY <1>0, <1>1, <3>2, CallerMoves DEF TypeOK, HasClaim
  <2>3. CASE /\ e.status = "failed"
             /\ callers' = [callers EXCEPT ![c] = [@ EXCEPT !.pc = "deleting", !.observed = e]]
    <3>1. [callers[c] EXCEPT !.pc = "deleting", !.observed = e] \in Caller
      BY <1>0, <1>1 DEF Caller
    <3>2. /\ callers' \in [Callers -> Caller] /\ callers'[c].pc = "deleting"
          /\ callers'[c].observed = e
          /\ \A d \in Callers : d # c => callers'[d] = callers[d]
      BY <1>0, <2>3, <3>1 DEF TypeOK, Caller
    <3>. QED BY <1>0, <1>1, <2>3, <3>2, CallerMoves DEF TypeOK, HasClaim
  <2>. QED BY <1>1, <2>1, <2>2, <2>3 DEF Meets
<1>2. ASSUME NEW c \in Callers, WinsClaim(c) PROVE ClaimInv'
  <2>1. [callers[c] EXCEPT !.pc = "running", !.token = issued + 1, !.deadline = now + Lease] \in Caller
    <3>1. issued + 1 \in Nat /\ now + Lease \in Nat
      BY <1>0, IdempotencyAssumption
    <3>2. callers[c] \in Caller
      BY <1>0
    <3>. QED BY <3>1, <3>2 DEF Caller
  <2>2. /\ callers' \in [Callers -> Caller] /\ callers'[c].pc = "running"
        /\ callers'[c].token = issued + 1 /\ callers'[c].deadline = now + Lease
        /\ \A d \in Callers : d # c => callers'[d] = callers[d]
    BY <1>0, <1>2, <2>1 DEF WinsClaim, TypeOK, Caller
  <2>. QED BY <1>0, <1>2, <2>2, KeyTaken DEF WinsClaim, TypeOK
<1>12. ASSUME NEW c \in Callers, ClaimAnswerLost(c) PROVE ClaimInv'
  <2>1. TakesKey(c) /\ Goes(c, "ended", "failed") /\ UNCHANGED <<config, now, effects>>
    BY <1>12 DEF ClaimAnswerLost
  <2>2. faults' \in 0 .. MaxFaults
    BY <1>0, <1>12, IdempotencyAssumption DEF ClaimAnswerLost, TypeOK
  <2>3. excused' \in BOOLEAN
    BY <1>12, Zenon DEF ClaimAnswerLost
  <2>4. /\ callers' \in [Callers -> Caller] /\ callers'[c].pc = "ended"
        /\ \A d \in Callers : d # c => callers'[d] = callers[d]
    BY <1>0, <2>1, GoesKeeps DEF Results
  <2>. QED BY <1>0, <2>1, <2>2, <2>3, <2>4, KeyTaken DEF TypeOK
<1>3. ASSUME NEW c \in Callers, LosesClaim(c) \/ Observes(c) PROVE ClaimInv'
  <2>1. ASSUME Goes(c, "observing", "none"),
               UNCHANGED <<config, now, entry, issued, faults, effects, excused>>
        PROVE  ClaimInv'
    BY <1>0, <2>1, GoesKeeps, CallerMoves DEF TypeOK, HasClaim
  <2>. QED BY <1>0, <1>1, <1>3, <2>1 DEF LosesClaim, Observes
<1>4. ASSUME NEW c \in Callers, DeletesFailed(c) PROVE ClaimInv'
  <2>1. callers[c].observed.status = "failed"
    BY <1>0, <1>4 DEF DeletesFailed, CallerOK
  <2>2. UNCHANGED entry \/ \A d \in Callers : ~HoldsLease(d)
    BY <1>0, <1>4, <2>1 DEF DeletesFailed, Stored, NoEntry, CallerOK
  <2>3. entry' \in Entry
    BY <1>0, <1>4 DEF DeletesFailed
  <2>. QED BY <1>0, <1>4, <2>2, <2>3, GoesKeeps, CallerMoves DEF DeletesFailed, TypeOK, HasClaim
<1>5. ASSUME NEW c \in Callers, WaitEnds(c) PROVE ClaimInv'
  <2>1. PICK outcome \in {"cached", "failed"} : Goes(c, "ended", outcome)
    BY <1>5 DEF WaitEnds
  <2>. QED BY <1>5, <2>1, CallerEnds DEF WaitEnds
<1>6. ASSUME NEW c \in Callers, OperationSucceeds(c) \/ OperationFails(c) PROVE ClaimInv'
  <2>1. PICK pc \in {"storing", "releasing"}, outcome \in Results : Goes(c, pc, outcome)
    BY <1>6 DEF OperationSucceeds, OperationFails, Results
  <2>2. /\ callers[c].pc = "running" /\ UNCHANGED <<config, now, entry, issued, faults, excused>>
        /\ effects' \in Nat
    BY <1>0, <1>6 DEF OperationSucceeds, OperationFails, TypeOK
  <2>3. callers'[c].outcome = outcome
    BY <1>0, <2>1 DEF Goes, TypeOK, Caller
  <2>. QED BY <1>0, <2>1, <2>2, <2>3, GoesKeeps, CallerMoves DEF TypeOK, HasClaim
(* A write or deletion by the owner, or none, and then on to pc. *)
<1>7. ASSUME NEW c \in Callers, callers[c].pc \in {"storing", "releasing"},
             Save(c) \/ Release(c) \/ UNCHANGED entry,
             NEW pc \in {"storing", "releasing", "ended"}, NEW outcome \in Results,
             Goes(c, pc, outcome), faults' \in 0 .. MaxFaults, excused' \in BOOLEAN,
             UNCHANGED <<config, now, issued, effects>>
      PROVE  ClaimInv'
  <2>1. entry' \in Entry
    BY <1>0, <1>7, EntryTypes, IdempotencyAssumption DEF CallerOK
  <2>2. UNCHANGED entry \/ (entry.token = callers[c].token /\ HasClaim(c))
    BY <1>7 DEF Save, Release, Owns, HasClaim
  <2>3. callers'[c].outcome = outcome
    BY <1>0, <1>7 DEF Goes, TypeOK, Caller
  <2>. QED BY <1>0, <1>7, <2>1, <2>2, <2>3, GoesKeeps, CallerMoves DEF TypeOK, HasClaim
<1>8. ASSUME NEW c \in Callers, Settles(c) \/ StorageFails(c) PROVE ClaimInv'
  <2>1. callers[c].pc \in {"storing", "releasing"} /\ callers[c].outcome \in Results
    BY <1>0, <1>8 DEF Settles, Stores, Releases, StorageFails, CallerOK
  <2>2. PICK pc \in {"storing", "releasing", "ended"}, outcome \in Results : Goes(c, pc, outcome)
    BY <1>8, <2>1 DEF Settles, Stores, Releases, StorageFails, Results
  <2>3. faults' \in 0 .. MaxFaults /\ UNCHANGED <<config, now, issued, effects>>
    BY <1>0, <1>8, IdempotencyAssumption DEF Settles, Stores, Releases, StorageFails, TypeOK
  <2>4. excused' \in BOOLEAN
    BY <1>0, <1>8, Zenon DEF Settles, Stores, Releases, StorageFails, TypeOK
  <2>5. Save(c) \/ Release(c) \/ UNCHANGED entry
    BY <1>8 DEF Settles, Stores, Releases, StorageFails
  <2>. QED BY <1>7, <2>1, <2>2, <2>3, <2>4, <2>5
<1>9. ASSUME NEW c \in Callers, Crashes(c) PROVE ClaimInv'
  <2>1. faults' \in 0 .. MaxFaults
    BY <1>0, <1>9, IdempotencyAssumption DEF Crashes, TypeOK
  <2>2. callers[c].outcome \in Results \cup {"none", "cached"}
    BY <1>0 DEF Caller
  <2>. QED BY <1>0, <1>9, <2>1, <2>2, GoesKeeps, CallerMoves DEF Crashes, TypeOK, HasClaim
<1>10. CASE Tick
  <2>1. now' = now + 1 /\ UNCHANGED <<config, entry, callers, issued, faults, effects>>
    BY <1>10 DEF Tick
  <2>2. excused' \in BOOLEAN
    BY <1>10, Zenon DEF Tick
  <2>3. TypeOK'
    BY <1>0, <2>1, <2>2 DEF TypeOK
  <2>4. \A c \in Callers : CallerOK(c)'
    BY <1>0, <2>1 DEF CallerOK, HasClaim, HoldsLease, Caller
  <2>5. TokensDistinct'
    BY <2>1 DEF ClaimInv, TokensDistinct, HasClaim
  <2>. QED BY <2>3, <2>4, <2>5 DEF ClaimInv
<1>11. CASE UNCHANGED vars
  BY <1>11 DEF vars, ClaimInv, TypeOK, CallerOK, TokensDistinct, HasClaim, HoldsLease,
               Expired, Stored
<1>. QED BY <1>2, <1>3, <1>4, <1>5, <1>6, <1>8, <1>9, <1>10, <1>11, <1>12
         DEF Next, Claims, Runs, Ended

LEMMA InitClaimInv == Init => ClaimInv
<1>. SUFFICES ASSUME Init PROVE ClaimInv
  OBVIOUS
<1>1. TypeOK
  <2>1. callers \in [Callers -> Caller]
    BY DEF Init, NewCall, Caller, NoEntry, Entry
  <2>2. entry \in Entry /\ now \in Nat /\ issued \in Nat /\ effects \in Nat
    BY IdempotencyAssumption DEF Init, NoEntry, MemoizedFailure, Entry, Results
  <2>3. faults \in 0 .. MaxFaults
    BY IdempotencyAssumption DEF Init
  <2>4. config \in [storage : {"redis", "database"}, retryFailures : BOOLEAN]
    BY Zenon DEF Init
  <2>5. excused \in BOOLEAN
    BY Zenon DEF Init
  <2>. QED BY <2>1, <2>2, <2>3, <2>4, <2>5 DEF TypeOK
<1>2. \A c \in Callers : callers[c].pc = "claiming"
  BY DEF Init, NewCall
<1>. QED BY <1>1, <1>2 DEF ClaimInv, CallerOK, TokensDistinct, HasClaim, HoldsLease

(* Claims exclude each other: the strengthening the next theorem rests on.   *)
THEOREM ClaimsExclude == Spec => []IInv
<1>1. ClaimInv => IInv
  BY DEF ClaimInv, IInv, CallerOK, TokensDistinct
<1>. QED BY <1>1, InitClaimInv, NextClaimInv, PTL DEF Spec

(* While a lease lasts, nobody else runs the operation on a live lease.      *)
THEOREM IdempotencyOneLiveRun == Spec => []OneLiveRun
<1>1. IInv => OneLiveRun
  BY DEF IInv, OneLiveRun, HoldsLease, HasClaim
<1>. QED BY <1>1, ClaimsExclude, PTL

----------------------------------------------------------------------------
(* What the operation did.                                                  *)

(* A success that is stored, about to be stored, or was handed out, took      *)
(* effect.                                                                   *)
RealInv ==
  /\ entry.status = "completed" => effects > 0
  /\ \A c \in Callers :
       \/ callers[c].pc = "storing" /\ callers[c].outcome = "completed"
       \/ callers[c].outcome = "cached"
       => effects > 0

(* What a step of a caller does to the outcomes of callers. *)
LEMMA OutcomeGoes ==
  ASSUME TypeOK, NEW c \in Callers, NEW pc, NEW outcome, Goes(c, pc, outcome)
  PROVE  /\ callers'[c].pc = pc /\ callers'[c].outcome = outcome
         /\ \A d \in Callers : d # c => callers'[d] = callers[d]
<1>. DEFINE Base == IF pc \in {"claiming", "ended", "crashed"} THEN NewCall ELSE callers[c]
<1>1. Base \in Caller
  BY DEF TypeOK, Caller, NewCall, NoEntry, Entry
<1>2. callers' = [callers EXCEPT ![c] = [Base EXCEPT !.pc = pc, !.outcome = outcome]]
  BY DEF Goes
<1>. HIDE DEF Base
<1>. QED BY <1>1, <1>2 DEF TypeOK, Caller

LEMMA NextRealInv == TypeOK /\ RealInv /\ [Next]_vars => RealInv'
<1>. SUFFICES ASSUME TypeOK, RealInv, [Next]_vars PROVE RealInv'
  OBVIOUS
<1>0. effects \in Nat /\ \A c \in Callers : callers[c] \in Caller
  BY DEF TypeOK
(* One caller moves, and what it knows or stores was a success only if one    *)
(* took effect.                                                              *)
<1>1. ASSUME NEW c \in Callers, \A d \in Callers : d # c => callers'[d] = callers[d],
             effects' \in Nat, effects' >= effects,
             entry'.status = "completed" => effects' > 0,
             \/ callers'[c].pc = "storing" /\ callers'[c].outcome = "completed"
             \/ callers'[c].outcome = "cached"
             => effects' > 0
      PROVE  RealInv'
  BY <1>0, <1>1 DEF RealInv
<1>2. ASSUME NEW c \in Callers, NEW e, e.status = "completed" => effects > 0, Meets(c, e),
             UNCHANGED <<entry, effects>>
      PROVE  RealInv'
  <2>1. ASSUME NEW outcome \in {"cached", "failed"}, Goes(c, "ended", outcome),
               outcome = "cached" => e.status = "completed"
        PROVE  RealInv'
    BY <1>0, <1>1, <1>2, <2>1, OutcomeGoes DEF RealInv
  <2>2. CASE callers' = [callers EXCEPT ![c] = [@ EXCEPT !.pc = "waiting", !.deadline = e.expiresAt]]
    <3>1. callers'[c].outcome = callers[c].outcome /\ callers'[c].pc = "waiting"
          /\ \A d \in Callers : d # c => callers'[d] = callers[d]
      BY <1>0, <2>2 DEF TypeOK, Caller
    <3>. QED BY <1>0, <1>1, <1>2, <3>1 DEF RealInv
  <2>3. CASE callers' = [callers EXCEPT ![c] = [@ EXCEPT !.pc = "deleting", !.observed = e]]
    <3>1. callers'[c].outcome = callers[c].outcome /\ callers'[c].pc = "deleting"
          /\ \A d \in Callers : d # c => callers'[d] = callers[d]
      BY <1>0, <2>3 DEF TypeOK, Caller
    <3>. QED BY <1>0, <1>1, <1>2, <3>1 DEF RealInv
  <2>. QED BY <1>2, <2>1, <2>2, <2>3 DEF Meets
<1>3. ASSUME NEW c \in Callers, WinsClaim(c) PROVE RealInv'
  BY <1>0, <1>1, <1>3 DEF WinsClaim, TakesKey, RealInv, TypeOK, Caller
<1>4. ASSUME NEW c \in Callers, ClaimAnswerLost(c) PROVE RealInv'
  BY <1>0, <1>1, <1>4, OutcomeGoes DEF ClaimAnswerLost, TakesKey, RealInv
<1>5. ASSUME NEW c \in Callers, LosesClaim(c) \/ Observes(c) PROVE RealInv'
  <2>1. CASE Goes(c, "observing", "none") /\ UNCHANGED <<entry, effects>>
    BY <1>0, <1>1, <2>1, OutcomeGoes DEF RealInv
  <2>. QED BY <1>2, <1>5, <2>1 DEF LosesClaim, Observes, RealInv
<1>6. ASSUME NEW c \in Callers, DeletesFailed(c) PROVE RealInv'
  BY <1>0, <1>1, <1>6, OutcomeGoes DEF DeletesFailed, NoEntry, RealInv
<1>7. ASSUME NEW c \in Callers, WaitEnds(c) PROVE RealInv'
  <2>1. PICK outcome : Goes(c, "ended", outcome) /\ (outcome = "cached" => entry.status = "completed")
    BY <1>7 DEF WaitEnds
  <2>. QED BY <1>0, <1>1, <1>7, <2>1, OutcomeGoes DEF WaitEnds, RealInv
<1>8. ASSUME NEW c \in Callers, OperationSucceeds(c) \/ OperationFails(c) PROVE RealInv'
  BY <1>0, <1>1, <1>8, OutcomeGoes DEF OperationSucceeds, OperationFails, RealInv
(* A write of what the caller stores, or a deletion.                          *)
<1>9. ASSUME NEW c \in Callers, callers[c].pc \in {"storing", "releasing"}, UNCHANGED effects,
             (callers[c].pc = "storing" /\ Save(c)) \/ Release(c) \/ UNCHANGED entry,
             NEW pc, NEW outcome \in {"failed", callers[c].outcome}, Goes(c, pc, outcome),
             pc \in {"ended", "crashed"} \/ outcome = "failed"
      PROVE  RealInv'
  <2>1. entry'.status = "completed" => effects > 0
    BY <1>9 DEF Save, Release, NoEntry, RealInv
  <2>. QED BY <1>0, <1>1, <1>9, <2>1, OutcomeGoes DEF RealInv
<1>10. ASSUME NEW c \in Callers, Settles(c) \/ StorageFails(c) PROVE RealInv'
  BY <1>9, <1>10 DEF Settles, Stores, Releases, StorageFails
<1>11. ASSUME NEW c \in Callers, Crashes(c) PROVE RealInv'
  BY <1>0, <1>1, <1>11, OutcomeGoes DEF Crashes, RealInv
<1>12. CASE Tick \/ UNCHANGED vars
  BY <1>12 DEF Tick, vars, RealInv
<1>. QED BY <1>3, <1>4, <1>5, <1>6, <1>7, <1>8, <1>10, <1>11, <1>12
         DEF Next, Claims, Runs, Ended

(* A caller handed a stored success is told the truth: whatever fails or      *)
(* expires, no result is invented.                                           *)
THEOREM IdempotencyCachedIsReal == Spec => []CachedIsReal
<1>1. Init => RealInv
  BY DEF Init, RealInv, NewCall, NoEntry, MemoizedFailure
<1>2. ClaimInv => TypeOK
  BY DEF ClaimInv
<1>3. RealInv => CachedIsReal
  BY DEF RealInv, CachedIsReal
<1>. QED BY <1>1, <1>2, <1>3, InitClaimInv, NextClaimInv, NextRealInv, PTL DEF Spec

(* While nothing was excused, nothing stored expires, whoever has a claim finds *)
(* it in the entry, and the operation took effect at most once: then its       *)
(* success is stored, or about to be by the caller that has the claim.         *)
HonestInv ==
  ~excused =>
    /\ entry = NoEntry \/ ~Expired
    /\ \A c \in Callers :
         HasClaim(c) => entry.status = "in-progress" /\ entry.token = callers[c].token
    /\ effects \in {0, 1}
    /\ effects = 1 => \/ entry.status = "completed"
                      \/ \E c \in Callers : /\ callers[c].pc = "storing"
                                            /\ callers[c].outcome = "completed"

LEMMA NextHonestInv == ClaimInv /\ HonestInv /\ [Next]_vars => HonestInv'
<1>. SUFFICES ASSUME ClaimInv, HonestInv, [Next]_vars, ~excused' PROVE HonestInv'
  BY DEF HonestInv
<1>0. /\ TypeOK /\ now \in Nat /\ issued \in Nat /\ effects \in Nat /\ entry \in Entry
      /\ \A c \in Callers : callers[c] \in Caller /\ CallerOK(c)
      /\ ResultTTL > 0 /\ ResultTTL \in Nat /\ Lease > 0 /\ Lease \in Nat
  BY IdempotencyAssumption DEF ClaimInv, TypeOK
<1>00. ~excused
  BY DEF Next, Claims, WinsClaim, LosesClaim, Observes, DeletesFailed, WaitEnds, Runs,
         OperationSucceeds, OperationFails, Settles, Stores, Releases, StorageFails,
         ClaimAnswerLost, Crashes, Tick, Ended, vars
<1>000. /\ entry = NoEntry \/ ~Expired
        /\ \A c \in Callers :
             HasClaim(c) => entry.status = "in-progress" /\ entry.token = callers[c].token
        /\ effects \in {0, 1}
        /\ effects = 1 => \/ entry.status = "completed"
                          \/ \E c \in Callers : /\ callers[c].pc = "storing"
                                                /\ callers[c].outcome = "completed"
  BY <1>00 DEF HonestInv
(* A caller without a claim moves, and gets none.                             *)
<1>1. ASSUME NEW c \in Callers, ~HasClaim(c), ~HasClaim(c)',
             \A d \in Callers : d # c => callers'[d] = callers[d],
             UNCHANGED <<config, now, effects>>,
             \/ UNCHANGED entry
             \/ entry.status = "failed" /\ entry' = NoEntry
      PROVE  HonestInv'
  <2>1. (entry = NoEntry \/ ~Expired)'
    BY <1>000, <1>1 DEF Expired, NoEntry
  <2>2. \A d \in Callers : HasClaim(d)' => HasClaim(d) /\ callers'[d] = callers[d]
    BY <1>1 DEF HasClaim
  <2>3. \A d \in Callers :
          callers[d].pc = "storing" => callers'[d] = callers[d]
    BY <1>1 DEF HasClaim
  <2>4. \A d \in Callers :
          HasClaim(d)' => entry'.status = "in-progress" /\ entry'.token = callers'[d].token
    BY <1>000, <1>1, <2>2
  <2>5. entry.status = "completed" => entry'.status = "completed"
    BY <1>1
  <2>. QED BY <1>000, <1>1, <2>1, <2>3, <2>4, <2>5 DEF HonestInv
<1>2. ASSUME NEW c \in Callers, WinsClaim(c) PROVE HonestInv'
  <2>1. entry = NoEntry /\ \A d \in Callers : ~HasClaim(d)
    BY <1>000, <1>2 DEF WinsClaim, TakesKey, NoEntry
  <2>2. effects = 0 /\ UNCHANGED <<config, now, effects>>
    BY <1>000, <1>2, <2>1 DEF WinsClaim, NoEntry, HasClaim
  <2>3. /\ entry'.status = "in-progress" /\ entry'.token = issued + 1
        /\ entry'.expiresAt = now + Lease /\ entry'.expiresAt \in Nat /\ now' = now
    BY <1>0, <1>2 DEF WinsClaim, TakesKey
  <2>4. ~Expired'
    BY <1>0, <2>3 DEF Expired
  <2>5. /\ callers'[c].token = issued + 1
        /\ \A d \in Callers : d # c => callers'[d] = callers[d]
    BY <1>0, <1>2 DEF WinsClaim, TypeOK, Caller
  <2>6. \A d \in Callers :
          HasClaim(d)' => entry'.status = "in-progress" /\ entry'.token = callers'[d].token
    BY <2>1, <2>3, <2>5 DEF HasClaim
  <2>. QED BY <2>2, <2>4, <2>6 DEF HonestInv
<1>3. ASSUME NEW c \in Callers, LosesClaim(c) \/ Observes(c) \/ WaitEnds(c) PROVE HonestInv'
  <2>1. ~HasClaim(c) /\ UNCHANGED <<config, now, entry, effects>>
    BY <1>3 DEF LosesClaim, Observes, WaitEnds, HasClaim
  <2>2. ASSUME NEW e, Meets(c, e)
        PROVE  ~HasClaim(c)' /\ \A d \in Callers : d # c => callers'[d] = callers[d]
    <3>1. ASSUME NEW outcome, Goes(c, "ended", outcome)
          PROVE  ~HasClaim(c)' /\ \A d \in Callers : d # c => callers'[d] = callers[d]
      BY <1>0, <3>1, OutcomeGoes DEF HasClaim
    <3>2. CASE callers' = [callers EXCEPT ![c] = [@ EXCEPT !.pc = "waiting", !.deadline = e.expiresAt]]
      BY <1>0, <3>2 DEF HasClaim, TypeOK, Caller
    <3>3. CASE callers' = [callers EXCEPT ![c] = [@ EXCEPT !.pc = "deleting", !.observed = e]]
      BY <1>0, <3>3 DEF HasClaim, TypeOK, Caller
    <3>. QED BY <2>2, <3>1, <3>2, <3>3 DEF Meets
  <2>3. ASSUME NEW pc \in {"observing", "ended"}, NEW outcome, Goes(c, pc, outcome)
        PROVE  ~HasClaim(c)' /\ \A d \in Callers : d # c => callers'[d] = callers[d]
    BY <1>0, <2>3, OutcomeGoes DEF HasClaim
  <2>. QED BY <1>1, <1>3, <2>1, <2>2, <2>3 DEF LosesClaim, Observes, WaitEnds
<1>4. ASSUME NEW c \in Callers, DeletesFailed(c) PROVE HonestInv'
  <2>1. UNCHANGED entry \/ (entry.status = "failed" /\ entry' = NoEntry)
    BY <1>0, <1>4 DEF DeletesFailed, Stored, NoEntry, CallerOK
  <2>. QED BY <1>0, <1>1, <1>4, <2>1, OutcomeGoes DEF DeletesFailed, HasClaim
<1>5. ASSUME NEW c \in Callers, OperationSucceeds(c) \/ OperationFails(c) PROVE HonestInv'
  <2>1. /\ HasClaim(c) /\ callers[c].pc = "running" /\ entry.status = "in-progress"
        /\ UNCHANGED <<config, now, entry>>
    BY <1>000, <1>5 DEF OperationSucceeds, OperationFails, HasClaim
  <2>2. \A d \in Callers : HasClaim(d) => d = c
    BY <1>000, <2>1 DEF ClaimInv, TokensDistinct
  <2>3. effects = 0
    BY <1>000, <2>1, <2>2 DEF HasClaim
  <2>4. PICK pc \in {"storing", "releasing"}, outcome \in {"completed", "failed"} :
          /\ Goes(c, pc, outcome)
          /\ effects' = 0 \/ (effects' = 1 /\ pc = "storing" /\ outcome = "completed")
    BY <1>5, <2>3 DEF OperationSucceeds, OperationFails
  <2>5. /\ callers'[c].pc = pc /\ callers'[c].outcome = outcome
        /\ \A d \in Callers : d # c => callers'[d] = callers[d]
    BY <1>0, <2>4, OutcomeGoes
  <2>6. callers'[c].token = callers[c].token
    BY <1>0, <2>4 DEF Goes, TypeOK, Caller
  <2>7. \A d \in Callers :
          HasClaim(d)' => entry'.status = "in-progress" /\ entry'.token = callers'[d].token
    BY <1>000, <2>1, <2>5, <2>6 DEF HasClaim
  <2>8. (entry = NoEntry \/ ~Expired)'
    BY <1>000, <2>1 DEF Expired, NoEntry
  <2>. QED BY <2>4, <2>5, <2>7, <2>8 DEF HonestInv
<1>6. ASSUME NEW c \in Callers, Settles(c) PROVE HonestInv'
  <2>1. /\ HasClaim(c) /\ callers[c].pc \in {"storing", "releasing"}
        /\ entry.status = "in-progress" /\ entry.token = callers[c].token
        /\ UNCHANGED <<config, now, effects>>
    BY <1>000, <1>6 DEF Settles, Stores, Releases, HasClaim
  <2>2. Owns(c)
    BY <1>000, <2>1 DEF Owns, Stored, NoEntry
  <2>3. /\ callers'[c].pc = "ended"
        /\ \A d \in Callers : d # c => callers'[d] = callers[d]
    BY <1>0, <1>6, OutcomeGoes DEF Settles, Stores, Releases
  <2>4. \A d \in Callers : ~HasClaim(d)'
    BY <1>000, <2>1, <2>3 DEF ClaimInv, TokensDistinct, HasClaim
  <2>5. effects = 1 => callers[c].pc = "storing" /\ callers[c].outcome = "completed"
    BY <1>000, <2>1 DEF ClaimInv, TokensDistinct, HasClaim
  <2>6. CASE Stores(c)
    <3>1. entry' = [status |-> callers[c].outcome, token |-> callers[c].token,
                    expiresAt |-> now + ResultTTL]
      BY <2>2, <2>6 DEF Stores, Save
    <3>2. ~Expired'
      BY <1>0, <2>1, <3>1 DEF Expired
    <3>. QED BY <1>000, <2>1, <2>4, <2>5, <3>1, <3>2 DEF HonestInv
  <2>7. CASE Releases(c)
    <3>1. entry' = NoEntry /\ effects = 0
      BY <1>000, <2>2, <2>5, <2>7 DEF Releases, Release
    <3>. QED BY <2>1, <2>4, <3>1 DEF HonestInv
  <2>. QED BY <1>6, <2>6, <2>7 DEF Settles
<1>7. CASE Tick
  <2>1. UNCHANGED <<entry, callers, effects>> /\ (entry = NoEntry \/ ~Expired')
    BY <1>7 DEF Tick
  <2>. QED BY <1>000, <2>1 DEF HonestInv, HasClaim
<1>8. CASE UNCHANGED vars
  BY <1>8 DEF vars, HonestInv, HasClaim, Expired
<1>9. ASSUME NEW c \in Callers, StorageFails(c) \/ ClaimAnswerLost(c) \/ Crashes(c) PROVE FALSE
  BY <1>9 DEF StorageFails, ClaimAnswerLost, Crashes
<1>. QED BY <1>2, <1>3, <1>4, <1>5, <1>6, <1>7, <1>8, <1>9 DEF Next, Claims, Runs, Ended

(* One delivery has one effect, unless a lease or a result expired, a process   *)
(* crashed or a storage call failed; so on either store, and for any number of  *)
(* callers.                                                                  *)
THEOREM IdempotencyNoDuplicateEffect == Spec => []NoDuplicateEffect
<1>1. Init => HonestInv
  <2>. SUFFICES ASSUME Init PROVE HonestInv
    OBVIOUS
  <2>1. entry = NoEntry \/ ~Expired
    BY IdempotencyAssumption DEF Init, MemoizedFailure, Expired
  <2>. QED BY <2>1 DEF Init, HonestInv, NewCall, HasClaim
<1>2. HonestInv => NoDuplicateEffect
  BY DEF HonestInv, NoDuplicateEffect
<1>. QED BY <1>1, <1>2, InitClaimInv, NextClaimInv, NextHonestInv, PTL DEF Spec
=============================================================================

---------------------------- MODULE Idempotency ----------------------------
(***************************************************************************)
(* executeWithIdempotency (apps/sim/lib/core/idempotency/service.ts) on    *)
(* one normalized key: several callers bring the same delivery, one of     *)
(* them claims the key and runs the operation, the others return its       *)
(* result, wait for it or fail.                                            *)
(*                                                                         *)
(* A key's entry lives in Redis, where it vanishes at its expiry, or in    *)
(* Postgres, where it stays until someone claims over it.  Each Redis      *)
(* script or command and each SQL statement is one action.  Time is one    *)
(* clock, which advances while some deadline lies ahead.                   *)
(*                                                                         *)
(* Operators whose name begins with Wrong are not the code: they are the   *)
(* mistakes the runs' properties must catch, each defined just before the  *)
(* definition it would replace.                                            *)
(***************************************************************************)
EXTENDS Naturals

CONSTANTS
  Callers,    \* calls of executeWithIdempotency
  Lease,      \* inProgressTtlSeconds
  ResultTTL,  \* ttlSeconds
  MaxFaults   \* bound: process crashes and failed storage calls

ASSUME IdempotencyAssumption ==
  Lease \in Nat \ {0} /\ ResultTTL \in Nat \ {0} /\ MaxFaults \in Nat

VARIABLES
  config,   \* storage method and retryFailures, fixed when the service is built
  now,
  entry,    \* what is stored under the key; token 0 where there is nothing
  callers,  \* [Callers -> caller]
  issued,   \* claims won so far: the last claim token
  faults,   \* faults left
  effects,  \* operations that succeeded, read by properties only
  excused   \* a fault hit, or a lease or result expired, likewise

vars == <<config, now, entry, callers, issued, faults, effects, excused>>

Results == {"completed", "failed"}

Entry == [status : {"absent", "in-progress"} \cup Results, token : Nat, expiresAt : Nat]

NoEntry == [status |-> "absent", token |-> 0, expiresAt |-> 0]

(* pc: where the call is; token and deadline: of its claim, or, when it      *)
(* waits, the deadline it observed; outcome: what it is about to store or,   *)
(* at the end, what it gave its caller; observed: the failed entry it is     *)
(* about to delete.                                                         *)
Caller == [pc : {"claiming", "observing", "deleting", "waiting", "running", "storing",
                 "releasing", "ended", "crashed"},
           token : Nat, deadline : Nat,
           outcome : Results \cup {"none", "cached"}, observed : Entry]

TypeOK ==
  /\ config \in [storage : {"redis", "database"}, retryFailures : BOOLEAN]
  /\ now \in Nat /\ issued \in Nat /\ effects \in Nat
  /\ faults \in 0 .. MaxFaults
  /\ entry \in Entry
  /\ callers \in [Callers -> Caller]
  /\ excused \in BOOLEAN

NewCall == [pc |-> "claiming", token |-> 0, deadline |-> 0, outcome |-> "none",
            observed |-> NoEntry]

(* A failure memoized before retryFailures was set for the service. *)
MemoizedFailure == [status |-> "failed", token |-> 0, expiresAt |-> ResultTTL]

(* The key is new, or holds a failure that an earlier run left behind.       *)
Init ==
  /\ config \in [storage : {"redis", "database"}, retryFailures : BOOLEAN]
  /\ now = 0 /\ issued = 0 /\ effects = 0
  /\ faults = MaxFaults
  /\ entry \in {NoEntry, MemoizedFailure}
  /\ callers = [c \in Callers |-> NewCall]
  /\ excused = FALSE

----------------------------------------------------------------------------
(* Storage.                                                                 *)

(* Redis drops a key at its expiry; Postgres compares createdAt strictly for *)
(* a result and inProgressExpiresAt loosely for a claim.                     *)
Expired ==
  IF config.storage = "database" /\ entry.status \in Results
  THEN entry.expiresAt < now ELSE entry.expiresAt <= now

(* What a reader of the key finds. *)
Stored == IF config.storage = "redis" /\ Expired THEN NoEntry ELSE entry

(* The holder of any claim may write. *)
WrongOwns(c) == Stored # NoEntry

Owns(c) == Stored # NoEntry /\ entry.token = callers[c].token

(* A call that ends or starts over forgets its claim and what it observed.   *)
Goes(c, pc, outcome) ==
  callers' = [callers EXCEPT ![c] =
    [(IF pc \in {"claiming", "ended", "crashed"} THEN NewCall ELSE callers[c])
       EXCEPT !.pc = pc, !.outcome = outcome]]

----------------------------------------------------------------------------
(* Claiming.                                                                *)

(* The claim wins on an absent or expired entry.                             *)
TakesKey(c) ==
  /\ callers[c].pc = "claiming"
  /\ entry = NoEntry \/ Expired
  /\ issued' = issued + 1
  /\ entry' = [status |-> "in-progress", token |-> issued + 1, expiresAt |-> now + Lease]

WinsClaim(c) ==
  /\ TakesKey(c)
  /\ callers' = [callers EXCEPT ![c] = [@ EXCEPT !.pc = "running", !.token = issued + 1,
                                                 !.deadline = now + Lease]]
  /\ UNCHANGED <<config, now, faults, effects, excused>>

(* Any stored outcome is taken for a result. *)
WrongMeets(c, e) ==
  \/ e.status \in Results /\ Goes(c, "ended", "cached")
  \/ /\ e.status = "in-progress"
     /\ callers' = [callers EXCEPT ![c] = [@ EXCEPT !.pc = "waiting", !.deadline = e.expiresAt]]
  \/ e.status = "absent" /\ Goes(c, "ended", "failed")

(* What executeWithIdempotency does with another's entry e: a completed one  *)
(* is returned, a failed one thrown or deleted and claimed again, a live     *)
(* claim waited for until its lease ends; no entry is an error.              *)
Meets(c, e) ==
  \/ e.status = "completed" /\ Goes(c, "ended", "cached")
  \/ /\ e.status = "in-progress"
     /\ callers' = [callers EXCEPT ![c] = [@ EXCEPT !.pc = "waiting", !.deadline = e.expiresAt]]
  \/ /\ e.status = "failed" /\ config.retryFailures
     /\ callers' = [callers EXCEPT ![c] = [@ EXCEPT !.pc = "deleting", !.observed = e]]
  \/ /\ e.status = "absent" \/ (e.status = "failed" /\ ~config.retryFailures)
     /\ Goes(c, "ended", "failed")

(* The Redis script returns the entry it lost to; in Postgres a second       *)
(* statement reads it, and may find that it is gone.                         *)
LosesClaim(c) ==
  /\ callers[c].pc = "claiming"
  /\ entry # NoEntry /\ ~Expired
  /\ IF config.storage = "redis" THEN Meets(c, entry) ELSE Goes(c, "observing", "none")
  /\ UNCHANGED <<config, now, entry, issued, faults, effects, excused>>

Observes(c) ==
  /\ callers[c].pc = "observing"
  /\ Meets(c, entry)
  /\ UNCHANGED <<config, now, entry, issued, faults, effects, excused>>

(* The failed entry is deleted by its key alone. *)
WrongDelete(c) ==
  /\ callers[c].pc = "deleting"
  /\ entry' = NoEntry
  /\ Goes(c, "claiming", "none")
  /\ UNCHANGED <<config, now, issued, faults, effects, excused>>

(* Deletes the failed entry it saw, if it is still there, and starts over.   *)
DeletesFailed(c) ==
  /\ callers[c].pc = "deleting"
  /\ entry' = IF Stored = callers[c].observed THEN NoEntry ELSE entry
  /\ Goes(c, "claiming", "none")
  /\ UNCHANGED <<config, now, issued, faults, effects, excused>>

(* A waiter polls until it finds a result. *)
WrongWaitEnds(c) ==
  /\ callers[c].pc = "waiting"
  /\ Stored.status \in Results
  /\ Goes(c, "ended", IF entry.status = "completed" THEN "cached" ELSE "failed")
  /\ UNCHANGED <<config, now, entry, issued, faults, effects, excused>>

(* waitForResult polls until the deadline of the claim it saw.               *)
WaitEnds(c) ==
  /\ callers[c].pc = "waiting"
  /\ \/ now >= callers[c].deadline /\ Goes(c, "ended", "failed")
     \/ /\ now < callers[c].deadline /\ Stored.status \in Results
        /\ Goes(c, "ended", IF entry.status = "completed" THEN "cached" ELSE "failed")
  /\ UNCHANGED <<config, now, entry, issued, faults, effects, excused>>

----------------------------------------------------------------------------
(* Running the operation.                                                   *)

OperationSucceeds(c) ==
  /\ callers[c].pc = "running"
  /\ Goes(c, "storing", "completed")
  /\ effects' = effects + 1
  /\ UNCHANGED <<config, now, entry, issued, faults, excused>>

(* An ordinary failure is stored, unless failures are retried; a             *)
(* RetryableSetupError always releases the key.                              *)
OperationFails(c) ==
  /\ callers[c].pc = "running"
  /\ \/ ~config.retryFailures /\ Goes(c, "storing", "failed")
     \/ Goes(c, "releasing", "failed")
  /\ UNCHANGED <<config, now, entry, issued, faults, effects, excused>>

Save(c) ==
  entry' = IF Owns(c)
           THEN [status |-> callers[c].outcome, token |-> callers[c].token,
                 expiresAt |-> now + ResultTTL]
           ELSE entry

Release(c) == entry' = IF Owns(c) THEN NoEntry ELSE entry

Stores(c) ==
  /\ callers[c].pc = "storing"
  /\ Save(c)
  /\ Goes(c, "ended", callers[c].outcome)
  /\ UNCHANGED <<config, now, issued, faults, effects, excused>>

Releases(c) ==
  /\ callers[c].pc = "releasing"
  /\ Release(c)
  /\ Goes(c, "ended", callers[c].outcome)
  /\ UNCHANGED <<config, now, issued, faults, effects, excused>>

(* The claim wins, but its answer is lost: the call throws, and nobody holds *)
(* the claim.                                                               *)
ClaimAnswerLost(c) ==
  /\ faults > 0 /\ faults' = faults - 1 /\ excused' = TRUE
  /\ TakesKey(c)
  /\ Goes(c, "ended", "failed")
  /\ UNCHANGED <<config, now, effects>>

(* A storage call throws, having taken effect or not.  If it was to store a  *)
(* success, the catch block treats it as a failure of the operation.         *)
StorageFails(c) ==
  /\ faults > 0 /\ faults' = faults - 1 /\ excused' = TRUE
  /\ \/ /\ callers[c].pc = "storing"
        /\ Save(c) \/ UNCHANGED entry
        /\ IF callers[c].outcome = "failed" THEN Goes(c, "ended", "failed")
           ELSE Goes(c, IF config.retryFailures THEN "releasing" ELSE "storing", "failed")
     \/ /\ callers[c].pc = "releasing"
        /\ Release(c) \/ UNCHANGED entry
        /\ Goes(c, "ended", "failed")
  /\ UNCHANGED <<config, now, issued, effects>>

Crashes(c) ==
  /\ callers[c].pc \in {"running", "storing", "releasing"}
  /\ faults > 0 /\ faults' = faults - 1 /\ excused' = TRUE
  /\ Goes(c, "crashed", callers[c].outcome)
  /\ UNCHANGED <<config, now, entry, issued, effects>>

Tick ==
  /\ \/ entry # NoEntry /\ ~Expired
     \/ \E c \in Callers : callers[c].pc = "waiting" /\ callers[c].deadline > now
  /\ now' = now + 1
  /\ UNCHANGED <<config, entry, callers, issued, faults, effects>>
  /\ excused' = (excused \/ (entry # NoEntry /\ Expired'))

Ended ==
  /\ \A c \in Callers : callers[c].pc \in {"ended", "crashed"}
  /\ UNCHANGED vars

Claims(c) == WinsClaim(c) \/ LosesClaim(c) \/ Observes(c) \/ DeletesFailed(c)
Runs(c)   == OperationSucceeds(c) \/ OperationFails(c)
Settles(c) == Stores(c) \/ Releases(c)

Next ==
  \/ \E c \in Callers :
       \/ Claims(c) \/ WaitEnds(c) \/ Runs(c) \/ Settles(c)
       \/ StorageFails(c) \/ ClaimAnswerLost(c) \/ Crashes(c)
  \/ Tick
  \/ Ended

Spec == Init /\ [][Next]_vars

(* Storage calls complete, polls recur, time passes; an operation may run    *)
(* for ever.                                                                 *)
Fairness ==
  /\ WF_vars(Tick)
  /\ \A c \in Callers : WF_vars(Claims(c)) /\ WF_vars(WaitEnds(c)) /\ WF_vars(Settles(c))

FairSpec == Spec /\ Fairness

----------------------------------------------------------------------------
(* Properties.                                                              *)

HoldsLease(c) == callers[c].pc = "running" /\ now < callers[c].deadline

(* While a claim's lease lasts, no other caller runs the operation on a live *)
(* lease: neither a release, nor the deletion of a failed entry, nor a late  *)
(* holder's write frees a key that somebody holds.                           *)
OneLiveRun == \A c, d \in Callers : HoldsLease(c) /\ HoldsLease(d) => c = d

(* The operation takes effect at most once, unless a lease or a result       *)
(* expired, a process crashed or a storage call failed.                      *)
NoDuplicateEffect == effects > 1 => excused

(* A caller handed a stored success, without running the operation, is told  *)
(* the truth.                                                                *)
CachedIsReal == \A c \in Callers : callers[c].outcome = "cached" => effects > 0

(* No duplicate delivery waits for ever, though the operation may: it ends,  *)
(* or runs the operation itself.                                             *)
WaitersReturn == \A c \in Callers : callers[c].pc = "waiting" ~> callers[c].pc = "ended"

HasClaim(c) == callers[c].pc \in {"running", "storing", "releasing"}

(* A claimant on a live lease finds its own token in the entry, and no two     *)
(* claimants have the same token.                                              *)
IInv ==
  /\ TypeOK
  /\ \A c \in Callers :
       /\ HasClaim(c) => callers[c].token \in 1 .. issued
       /\ HoldsLease(c) => /\ entry.status = "in-progress"
                           /\ entry.token = callers[c].token
                           /\ entry.expiresAt = callers[c].deadline
       /\ callers[c].pc = "deleting" => callers[c].observed.status = "failed"
  /\ \A c, d \in Callers :
       HasClaim(c) /\ HasClaim(d) /\ callers[c].token = callers[d].token => c = d
=============================================================================

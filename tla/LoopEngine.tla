----------------------------- MODULE LoopEngine -----------------------------
(***************************************************************************)
(* A run whose DAG holds loops: WorkflowEngine with the loop orchestrator    *)
(* (apps/sim/executor/orchestrators/loop.ts) and the part of the node       *)
(* orchestrator (orchestrators/node.ts) that sentinels and the blocks of a   *)
(* loop go through.                                                         *)
(*                                                                         *)
(* A loop is its two sentinels and the nodes between them.  The start        *)
(* sentinel sends the run into the body or past it; the end sentinel        *)
(* collects what the body produced and either revives the edges of the body  *)
(* and goes back to the start, or leaves.  An output is known by the call    *)
(* that produced it, <<node, number of the call>>.                          *)
(*                                                                         *)
(* A node whose executed mark was removed has blockStates None; its old      *)
(* output, which stays readable, is not kept.                               *)
(***************************************************************************)
EXTENDS WorkflowEngine, Sequences

(* Operators whose name begins with Wrong are not the code: they are the     *)
(* mistakes the runs' properties must catch, each defined just before the   *)
(* definition it would replace.                                             *)

CONSTANTS
  Loops,          \* loops of the workflow
  StartOf, EndOf, \* [Loops -> their sentinels]
  ParentOf,       \* [Loops -> the loop they are in, or NoSubflow]
  LoopType,       \* [Loops -> "for", "forEach", "while" or "doWhile"]
  CountOf,        \* [Loops -> iterations or items; None: the loop has a condition of its own]
  Unevaluable,    \* loops the evaluation of whose condition may fail
  MaxIterations   \* bound: how long such a condition can hold

ASSUME LoopAssumption ==
  /\ StartOf \in [Loops -> Sentinels] /\ EndOf \in [Loops -> Sentinels]
  /\ \A l \in Loops : SubflowOf[StartOf[l]] = l /\ SubflowOf[EndOf[l]] = l /\ StartOf[l] # EndOf[l]
  /\ Sentinels \subseteq Nodes
  /\ ParentOf \in [Loops -> Loops \cup {NoSubflow}] /\ NoSubflow \notin Loops
  /\ LoopType \in [Loops -> {"for", "forEach", "while", "doWhile"}]
  /\ CountOf \in [Loops -> Nat \cup {None}] /\ None \notin Nat
  /\ \A l \in Loops : /\ LoopType[l] \in {"for", "forEach"} => CountOf[l] # None
                      /\ LoopType[l] = "while" => CountOf[l] = None
                      /\ LoopType[l] \in {"for", "doWhile"} => CountOf[l] # 0
  /\ Unevaluable \subseteq Loops
  /\ IsFiniteSet(Loops)
  /\ MaxIterations \in Nat

VARIABLES
  scope,       \* [Loops -> the LoopScope in ctx.loopExecutions, or None]
  aggregated,  \* [Loops -> the results the loop last left with]
  past,        \* [Loops -> the calls of each round that is over], read by properties only
  mark,        \* [Nodes -> calls made before the round under way], likewise
  misjudged    \* loops left because their condition could not be evaluated, likewise

history   == <<past, mark, misjudged>>
scopeVars == <<scope, aggregated, history>>
allVars   == <<vars, scopeVars>>

Call  == Nodes \X (Nat \ {0})
Scope == [iteration : Nat,           \* of the iteration under way
          outputs : SUBSET Call,     \* currentIterationOutputs
          results : Seq(SUBSET Call),\* allIterationOutputs
          skipped : BOOLEAN]         \* skippedAtStart

ASSUME ScopeAssumption == None \notin Scope

LoopTypeOK ==
  /\ TypeOK
  /\ scope \in [Loops -> Scope \cup {None}]
  /\ aggregated \in [Loops -> Seq(SUBSET Call)]
  /\ past \in [Loops -> Seq(SUBSET Call)]
  /\ mark \in [Nodes -> Nat]
  /\ misjudged \in SUBSET Loops

LoopInit ==
  /\ Init
  /\ scope = [l \in Loops |-> None]
  /\ aggregated = [l \in Loops |-> <<>>]
  /\ past = [l \in Loops |-> <<>>]
  /\ mark = [n \in Nodes |-> 0]
  /\ misjudged = {}

----------------------------------------------------------------------------
(* The nodes of loops.                                                      *)

Starts == {StartOf[l] : l \in Loops}
Ends   == {EndOf[l] : l \in Loops}

(* l and the loops inside it: the least set that holds l and, with a loop,    *)
(* every loop it is the parent of.                                           *)
Within(l) ==
  {m \in Loops : \A S \in SUBSET Loops :
     (l \in S /\ \A k \in Loops : ParentOf[k] \in S => k \in S) => m \in S}

(* collectAllLoopNodeIds: sentinels and blocks of l and of the loops in it.   *)
Inside(l) == {n \in Nodes : SubflowOf[n] \in Within(l)}

(* isSubflowStartExitBypassEdge. *)
IsBypass(e) ==
  e.handle = "loop_exit" /\ \E l \in Loops : e.src = StartOf[l] /\ e.dst = EndOf[l]

----------------------------------------------------------------------------
(* The loop orchestrator.                                                   *)

(* initializeLoopScope, when a node of a loop runs without a scope.           *)
NewScope  == [iteration |-> 0, outputs |-> {}, results |-> <<>>, skipped |-> FALSE]
Scoped(l) == IF scope[l] = None THEN NewScope ELSE scope[l]
Initialized(l) ==
  /\ scope' = [scope EXCEPT ![l] = Scoped(l)]
  /\ past' = IF scope[l] = None THEN [past EXCEPT ![l] = <<>>] ELSE past

(* What the condition may answer for iteration i: <loop.index> < count, or a  *)
(* condition of the user, who sees to it that it fails some day.              *)
WrongConditionHolds(l, i) ==
  IF CountOf[l] # None THEN {i <= CountOf[l]} ELSE IF i < MaxIterations THEN BOOLEAN ELSE {FALSE}

ConditionHolds(l, i) ==
  IF CountOf[l] # None THEN {i < CountOf[l]}
  ELSE IF i < MaxIterations THEN BOOLEAN ELSE {FALSE}

(* evaluateInitialCondition, asked again each time the start sentinel runs.   *)
EntersBody(l) ==
  CASE LoopType[l] \in {"for", "forEach"} -> {CountOf[l] > 0}
    [] LoopType[l] = "doWhile" -> {TRUE}
    [] LoopType[l] = "while"   -> ConditionHolds(l, Scoped(l).iteration)

(* storeLoopNodeOutput: call c of a member of l under the id key.             *)
Store(l, key, c) ==
  scope' = IF l \notin Loops THEN scope
           ELSE IF scope[l] = None THEN scope
           ELSE [scope EXCEPT ![l].outputs = {d \in @ : d[1] # key} \cup {c}]

(* An iteration without outputs leaves no result. *)
Collected(s) == IF s.outputs = {} THEN s.results ELSE Append(s.results, s.outputs)

(* restoreLoopEdges: the edges of the body live again, apart from those that  *)
(* lead back or past it; edges from outside stay as they are.                 *)
RestoredSources(l, n) ==
  {e.src : e \in {f \in InEdges(n) : /\ f.src \in Inside(l)
                                     /\ ~IsBypass(f) /\ f.handle \notin BackHandles}}

(* Dead edges are revived, but no node waits for its feeders again.           *)
WrongRestored(l, n) == incomingEdges[n]

Restored(l, n) ==
  IF n \in Inside(l) THEN incomingEdges[n] \cup RestoredSources(l, n) ELSE incomingEdges[n]

----------------------------------------------------------------------------
(* Node executions.                                                         *)

Returned(t, out) ==
  /\ t \in executing /\ t.output = None
  /\ executing' = (executing \ {t}) \cup {[t EXCEPT !.output = out]}

Sentinel(t) == t.node \in Starts \cup Ends /\ t.fresh

(* A block ends; the state of a sentinel is stored by its completion.         *)
BlockEnds(t) ==
  /\ ~Sentinel(t)
  /\ BlockReturns(t)
  /\ IF SubflowOf[t.node] \in Loops /\ t.fresh
     THEN Initialized(SubflowOf[t.node]) ELSE UNCHANGED <<scope, past>>
  /\ UNCHANGED <<aggregated, mark, misjudged>>

SentinelReturns(t, out) ==
  /\ Sentinel(t)
  /\ Returned(t, out)
  /\ UNCHANGED <<edgeVars, readyQueue, starts, blockStates, flagVars, errorVars, cancelledFlag,
                 loopVars, mark>>

(* The start sentinel lets the run into the body or past it, or throws when   *)
(* the collection cannot be resolved.                                        *)
StartReturns(t) ==
  LET l == SubflowOf[t.node]
      s == Scoped(l)
      started == IF scope[l] = None THEN [past EXCEPT ![l] = <<>>] ELSE past
  IN  /\ t.node \in Starts
      /\ \/ \E enters \in EntersBody(l) :
              /\ SentinelReturns(t, Result("done", IF enters THEN NoRoute ELSE "loop_exit", FALSE))
              /\ scope' = [scope EXCEPT ![l] = [s EXCEPT !.skipped = @ \/ ~enters]]
         \/ /\ t.node \in Fallible /\ scope[l] = None
            /\ SentinelReturns(t, Result("throw", NoRoute, TRUE))
            /\ scope' = [scope EXCEPT ![l] = s]
      /\ past' = started
      /\ UNCHANGED <<aggregated, misjudged>>

(* evaluateLoopContinuation: cancelled or skipped, the loop leaves with what   *)
(* it has; otherwise the iteration is collected, and the condition asked for   *)
(* the next one.  One that cannot be evaluated counts as false, of a counted   *)
(* loop too.  Storing the results may throw; what was collected is then never  *)
(* read again.                                                              *)
Leaves(t, l, s, results) ==
  /\ SentinelReturns(t, Result("done", "loop_exit", FALSE))
  /\ aggregated' = [aggregated EXCEPT ![l] = results]
  /\ scope' = [scope EXCEPT ![l] = [s EXCEPT !.results = <<>>]]

(* The outputs of the iteration are not cleared. *)
WrongGoesOn(t, l, s) ==
  /\ SentinelReturns(t, Result("done", "loop_continue", FALSE))
  /\ scope' = [scope EXCEPT ![l] = [s EXCEPT !.iteration = @ + 1, !.results = Collected(s)]]
  /\ UNCHANGED aggregated

GoesOn(t, l, s) ==
  /\ SentinelReturns(t, Result("done", "loop_continue", FALSE))
  /\ scope' = [scope EXCEPT ![l] =
       [s EXCEPT !.iteration = @ + 1, !.outputs = {}, !.results = Collected(s)]]
  /\ UNCHANGED aggregated

EndReturns(t) ==
  LET l == SubflowOf[t.node]
      s == Scoped(l)
      next == s.iteration + 1
  IN  /\ t.node \in Ends
      /\ \/ cancelledFlag /\ Leaves(t, l, s, s.results) /\ UNCHANGED misjudged
         \/ /\ ~cancelledFlag /\ s.skipped
            /\ Leaves(t, l, [s EXCEPT !.skipped = FALSE], s.results)
            /\ UNCHANGED misjudged
         \/ /\ ~cancelledFlag /\ ~s.skipped
            /\ TRUE \in ConditionHolds(l, next)
            /\ GoesOn(t, l, s) /\ UNCHANGED misjudged
         \/ /\ ~cancelledFlag /\ ~s.skipped
            /\ \/ FALSE \in ConditionHolds(l, next) /\ UNCHANGED misjudged
               \/ l \in Unevaluable /\ misjudged' = misjudged \cup {l}
            /\ Leaves(t, l, [s EXCEPT !.outputs = {}], Collected(s))
         \/ /\ t.node \in Fallible
            /\ SentinelReturns(t, Result("throw", NoRoute, TRUE))
            /\ scope' = [scope EXCEPT ![l] = s]
            /\ UNCHANGED <<aggregated, misjudged>>
      /\ past' = IF scope[l] = None THEN [past EXCEPT ![l] = <<>>] ELSE past

----------------------------------------------------------------------------
(* Completions.                                                             *)

(* A block of a loop, or outside: its output is stored in the scope.          *)
BlockCompletes(t) ==
  /\ t.node \notin Starts \cup Ends
  /\ \/ CompletionPauses(t) \/ CompletionResponds(t) \/ CompletionStops(t) \/ CompletionRoutes(t)
  /\ Store(SubflowOf[t.node], t.node, <<t.node, t.nth>>)
  /\ UNCHANGED <<aggregated, history>>

SentinelCompletes(t) ==
  /\ Sentinel(t) /\ t.output # None /\ t.output.kind = "done" /\ ~Frozen
  /\ executing' = executing \ {t}
  /\ UNCHANGED <<starts, errorVars, cancelledFlag, loopVars, pausedBlocks, responseOutputLocked,
                 aggregated>>

(* isFinalSentinelOutput: nothing follows the loop.                          *)
IsFinal(t) == ~\E e \in OutEdges(t.node) : e.handle = t.output.route

(* A start sentinel, or the end sentinel of a loop that is left: the results   *)
(* are an output of the loop around it.                                      *)
Passes(t) ==
  LET l == SubflowOf[t.node]
  IN  /\ SentinelCompletes(t) /\ t.output.route # "loop_continue"
      /\ blockStates' = [blockStates EXCEPT ![t.node] = t.output]
      /\ IF t.node \in Ends THEN Store(ParentOf[l], t.node, <<t.node, t.nth>>) ELSE UNCHANGED scope
      /\ finalOutput' = IF t.node \in Ends /\ IsFinal(t) /\ ~responseOutputLocked
                        THEN t.node ELSE finalOutput
      /\ IF t.node = StopAfter
         THEN stoppedEarlyFlag' = TRUE /\ UNCHANGED <<edgeVars, readyQueue>>
         ELSE /\ ProcessOutgoingEdges(t.node, t.output)
              /\ readyQueue' = readyQueue \cup ReadyNodes(t.node, t.output)
              /\ UNCHANGED stoppedEarlyFlag
      /\ UNCHANGED history

(* The calls of l's members in the round under way. *)
Members(l) == {n \in Nodes \ Sentinels : SubflowOf[n] = l}
                \cup {EndOf[m] : m \in {k \in Loops : ParentOf[k] = l}}
Round(l)   == {<<n, starts[n]>> : n \in {m \in Members(l) : starts[m] > mark[m]}}

(* resetNestedLoopScopes: which scopes outlive an iteration of l. *)
ScopesKept(l) == (Loops \ Within(l)) \cup {l}

(* The end sentinel goes back: clearLoopExecutionState and restoreLoopEdges,   *)
(* then processOutgoingEdges, of which the back edge is all there is to do.   *)
GoesBack(t) ==
  LET l == SubflowOf[t.node]
      targets == ActivatedTargets(t.node, t.output)
  IN  /\ SentinelCompletes(t) /\ t.output.route = "loop_continue"
      /\ blockStates' = [n \in Nodes |-> IF n \in Inside(l) THEN None ELSE blockStates[n]]
      /\ scope' = [m \in Loops |-> IF m \in ScopesKept(l) THEN scope[m] ELSE None]
      /\ deactivatedEdges' = {e \in deactivatedEdges : e.src \notin Inside(l)}
      /\ nodesWithActivatedEdge' = (nodesWithActivatedEdge \ Inside(l)) \cup targets
      /\ incomingEdges' = [n \in Nodes |-> IF n \in targets THEN Restored(l, n) \ {t.node}
                                                            ELSE Restored(l, n)]
      /\ readyQueue' = readyQueue \cup ReadyNodes(t.node, t.output)
      /\ past' = [m \in Loops |-> IF m = l THEN Append(past[l], Round(l))
                                  ELSE IF m \in Within(l) THEN <<>> ELSE past[m]]
      /\ mark' = [n \in Nodes |-> IF n \in Inside(l) THEN starts[n] ELSE mark[n]]
      /\ UNCHANGED <<finalOutput, stoppedEarlyFlag, misjudged>>

Completion(t) ==
  \/ (CompletionDropped(t) \/ CompletionThrows(t)) /\ UNCHANGED scopeVars
  \/ BlockCompletes(t)
  \/ Passes(t)
  \/ GoesBack(t)

Returns(t) == BlockEnds(t) \/ StartReturns(t) \/ EndReturns(t)

LoopNext ==
  \/ (MainLoop \/ SignalCancelled) /\ UNCHANGED scopeVars
  \/ \E t \in executing : Returns(t) \/ Completion(t)
  \/ Ended /\ UNCHANGED scopeVars

LoopSpec == LoopInit /\ [][LoopNext]_allVars

LoopFairness ==
  /\ WF_allVars(MainLoop /\ UNCHANGED scopeVars)
  /\ \A n \in Nodes :
       /\ WF_allVars(\E t \in executing : t.node = n /\ Returns(t))
       /\ WF_executing(CallSettles(n))

LoopFairSpec == LoopSpec /\ LoopFairness

----------------------------------------------------------------------------
(* Properties.                                                              *)

Busy      == {t.node : t \in executing}
Exited(l) == blockStates[EndOf[l]] # None /\ blockStates[EndOf[l]].route = "loop_exit"

(* Loops do what the documentation says of them, round by round: the inner    *)
(* blocks run once per iteration, iterations run one after another, a counted  *)
(* loop runs its count unless it is cancelled or its condition cannot be      *)
(* evaluated, and a loop inside is over before the one around goes on; however *)
(* the blocks of the body interleave.                                       *)
Rounds == INSTANCE LoopRun WITH
  busy    <- Busy,
  called  <- {n \in Nodes : starts[n] > mark[n]},
  round   <- [l \in Loops |-> IF scope[l] = None \/ Exited(l) THEN 0 ELSE Len(past[l]) + 1],
  stopped <- IF cancelledFlag THEN Loops ELSE misjudged

KeepsLoopPromise == Rounds!Spec

(* How the edge constructor wires loops (dag/construction/edges.ts): only its  *)
(* sentinels join a loop to the rest, every node of it lies between them, and  *)
(* the edges added silently are those that lead back or past it.             *)
Forward == Edges \ SilentEdges

WiredByConstruction(l) ==
  /\ ParentOf[l] \notin Within(l)
  /\ [src |-> EndOf[l], dst |-> StartOf[l], handle |-> "loop_continue"] \in Edges
  /\ [src |-> StartOf[l], dst |-> EndOf[l], handle |-> "loop_exit"] \in Edges
  /\ \A e \in Forward : /\ e.src = StartOf[l] => e.handle = "always"
                        /\ e.src = EndOf[l] => e.handle = "loop_exit"
  /\ \A e \in Edges : /\ e.dst \in Inside(l) \ {StartOf[l]} => e.src \in Inside(l)
                      /\ e.src \in Inside(l) \ {EndOf[l]} => e.dst \in Inside(l)
  /\ \A S \in (SUBSET Inside(l)) \ {{}} :
       /\ EndOf[l] \notin S => \E e \in Forward : e.src \in S /\ e.dst \in Inside(l) \ S
       /\ StartOf[l] \notin S => \E e \in Forward : e.dst \in S /\ e.src \in Inside(l) \ S

LoopsWired ==
  /\ SubflowOf \in [Nodes -> Loops \cup {NoSubflow}] /\ Sentinels = Starts \cup Ends
  /\ SilentEdges = {e \in Edges : e.handle \in BackHandles \/ IsBypass(e)}
  /\ \A e \in Edges : e.handle \in ControlHandles =>
       \/ IsBypass(e)
       \/ \E l \in Loops : /\ e.src = EndOf[l]
                           /\ \/ e.handle = "loop_continue" /\ e.dst = StartOf[l]
                              \/ e.handle = "loop_exit" /\ e.dst \notin Inside(l)
  /\ \A l \in Loops : WiredByConstruction(l)
  /\ InEdges(Trigger) \subseteq SilentEdges
  /\ \A l \in Loops : Trigger \in Inside(l) => Trigger = StartOf[l]

(* Whatever a block answers, an edge of its fires, if it has any.  Outside     *)
(* loops a branch that was selected may lead nowhere; in a loop no branch is  *)
(* left unconnected, and nowhere is an error port the only one wired.        *)
BranchesWired ==
  \A n \in Nodes \ Sentinels : \A out \in Results(n) :
    out.kind = "done" /\ OutEdges(n) # {} =>
      \/ ActivatedTargets(n, out) # {}
      \/ SubflowOf[n] = NoSubflow /\ out.route # NoRoute

(* The editor and the server that saves edges keep them free of cycles         *)
(* (filterAcyclicEdges, in realtime/src/database/operations.ts and the         *)
(* workflow store): apart from the edges that lead back or past a loop, there  *)
(* is a first node in every set of nodes.                                     *)
ForwardAcyclic ==
  \A S \in (SUBSET Nodes) \ {{}} : \E n \in S : \A e \in Forward : e.dst = n => e.src \notin S

(* Inside loops, branches meet again at end sentinels only.                    *)
OnlyEndsJoin ==
  \A l \in Loops : \A e, f \in Forward :
    e.dst = f.dst /\ e.dst \in Inside(l) \ ({StartOf[l]} \cup Ends) => e.src = f.src

(* What makes it so: the end sentinel is queued when nothing of its loop is    *)
(* left to run, no node is queued or called twice at a time, and a block runs  *)
(* in a loop that was started.                                               *)
Active == readyQueue \cup Busy

EndIsQuiet ==
  \A l \in Loops : EndOf[l] \in Active => Active \cap Inside(l) = {EndOf[l]}

OneCallAtATime ==
  /\ \A t \in executing : t.fresh /\ t.node \notin readyQueue
  /\ \A t, u \in executing : t.node = u.node => t = u

(* A node that waits, or is queued, was not called in this round; one that is  *)
(* queued or called waits for nothing.                                       *)
CalledInRound ==
  /\ \A n \in Nodes : n \in readyQueue \/ ~IsNodeReady(n) =>
       blockStates[n] = None /\ starts[n] = mark[n]
  /\ \A n \in Active : IsNodeReady(n)
  /\ \A t \in executing : /\ t.nth = starts[t.node] /\ mark[t.node] < t.nth
                          /\ t.node \in Sentinels => blockStates[t.node] = None

ScopesNest ==
  \A l \in Loops : scope[l] # None =>
    /\ ParentOf[l] \in Loops => scope[ParentOf[l]] # None
    /\ \A c \in scope[l].outputs : c[1] \in Members(l) /\ mark[c[1]] < c[2]

(* A block waits for every feeder that is going to run: none of them is queued *)
(* or under way when it is called, behind a loop too.                        *)
WaitsForFeeders ==
  \A t \in executing : \A e \in InEdges(t.node) \cap Forward : e.src \notin Active

LoopInv ==
  /\ LoopTypeOK
  /\ EndIsQuiet /\ OneCallAtATime /\ CalledInRound /\ WaitsForFeeders
  /\ ScopesNest

(* The results are the outputs of the rounds that had any, in order.           *)
Produced(rounds, k) == Cardinality({j \in 1..k : rounds[j] # {}})

Complete(results, rounds) ==
  /\ Len(results) = Produced(rounds, Len(rounds))
  /\ \A k \in 1..Len(rounds) : rounds[k] # {} => results[Produced(rounds, k)] = rounds[k]

(* The results a loop leaves with are the outputs of its iterations, in order: *)
(* none is lost, or taken over from an earlier iteration, or from an earlier   *)
(* run of a loop inside.                                                     *)
ResultsAreComplete ==
  \A l \in Loops : Exited(l) /\ ~cancelledFlag =>
    Complete(aggregated[l], Append(past[l], Round(l)))

(* A run that succeeds, and was not stopped early, has left every loop it      *)
(* entered: a dead end in the body must not swallow what follows the loop.    *)
NoLoopIsAbandoned ==
  status = "success" /\ ~stoppedEarlyFlag =>
    \A l \in Loops : scope[l] # None => Exited(l)

(* Only the branch that is taken runs: a block of a loop runs only when an     *)
(* output from outside sent the run into the loop.                           *)
OnlyEnteredLoopsRun ==
  \A l \in Loops : (Busy \cap Inside(l)) \ Sentinels # {} =>
    \/ StartOf[l] = Trigger
    \/ \E e \in InEdges(StartOf[l]) : e.src \notin Inside(l) /\ Promise!Taken(e)
=============================================================================

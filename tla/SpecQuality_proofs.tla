------------------------- MODULE SpecQuality_proofs -------------------------
(***************************************************************************)
(* Theorems about SpecQuality, for every file, set of processes, number of *)
(* threads and set of answers: no mutant is left behind, a verdict is of   *)
(* its own mutant, no call graph is read before it is whole, what the      *)
(* callers of a clause are said to need, they need, and what the stream    *)
(* says of a function is true of it.                                       *)
(***************************************************************************)
EXTENDS SpecQuality, SequenceFacts

PoolPlaces == {"pool", "drain"}

ClausePlaces == {"isolation", "caller_side"}

MutantPaths(p) == {PathTo("mutant", Target(p), i) : i \in DOMAIN Mutants[Target(p)]}

ClausePaths(p) == {ClausePath(p, i) : i \in 1 .. Clauses[Target(p)]}

(* Where a process is, and the shape of what it holds there. It scores the *)
(* functions it was asked to score, and no others.                         *)
Shape ==
  /\ pc \in [Processes -> Places]
  /\ todo \in [Processes -> Seq(Function)]
  /\ DOMAIN futures = Processes /\ DOMAIN vresults = Processes
  /\ \A p \in Processes :
       /\ \A k \in DOMAIN todo[p] : todo[p][k] \in ToSet(Job[p].functions)
       /\ pc[p] \notin {"function", "ended", "aborted"} => todo[p] # <<>>
       /\ DOMAIN futures[p] =
            IF pc[p] \in PoolPlaces THEN DOMAIN Mutants[Target(p)] ELSE {}
       /\ DOMAIN vresults[p] = DOMAIN futures[p]

ClauseShape ==
  /\ DOMAIN baselines = Processes /\ DOMAIN isolated = Processes
  /\ DOMAIN callers = Processes /\ DOMAIN callerSide = Processes
  /\ \A p \in Processes :
       /\ \A g \in DOMAIN callers[p] : callers[p][g] \in CallerResults
       /\ isolated[p] \in Seq(IsolationResults)
       /\ callerSide[p] \in Seq(CallerSideVerdicts)

(* Each mutant on disk is one of a function that is being scored ...       *)
FilesOwned ==
  \A path \in DOMAIN files : \E p \in Processes :
    \/ pc[p] \in PoolPlaces /\ path \in MutantPaths(p)
    \/ pc[p] \in ClausePlaces /\ path \in ClausePaths(p)

(* ... and its text is the one that its name says.                         *)
FilesTrue ==
  \A f \in Function :
    /\ \A i \in DOMAIN Mutants[f] : PathTo("mutant", f, i) \in DOMAIN files =>
         files[PathTo("mutant", f, i)] = Mutants[f][i]
    /\ \A i \in 1 .. Clauses[f] : PathTo("clause_drop", f, i) \in DOMAIN files =>
         files[PathTo("clause_drop", f, i)] = ClauseMutant(f, i)

(* The result is a verdict of CBMC on the i-th mutant of p's function.     *)
OnItsMutant(p, i, result) ==
  \E answer \in Answers(Target(p), Mutants[Target(p)][i], Job[p].include_dirs) :
    result = verify_mutant(answer)

(* A mutant that is being verified is on disk, and what came of it is its  *)
(* own verdict.                                                            *)
FuturesTrue ==
  \A p \in Processes : \A i \in DOMAIN futures[p] :
    /\ futures[p][i] = "written" => PathTo("mutant", Target(p), i) \in DOMAIN files
    /\ futures[p][i] \in VerificationResults => OnItsMutant(p, i, futures[p][i])
    /\ vresults[p][i] # "none" => OnItsMutant(p, i, vresults[p][i])

ScoringInv == Shape /\ ClauseShape /\ FilesOwned /\ FilesTrue /\ FuturesTrue

-----------------------------------------------------------------------------
(* The call graphs.                                                        *)

(* What earlier runs cached was renamed into place, too.                   *)
CachedWhole ==
  \A cached \in InitialGraphs : \A path \in DOMAIN cached :
    cached[path].complete = TRUE

GraphsWhole ==
  /\ \A path \in DOMAIN graphs : graphs[path].complete = TRUE
  /\ DOMAIN cause = Processes
  /\ CallGraphIsWhole

(* A process writes the call graph that it asks for, and none that another *)
(* one has cached in the meantime is different.                            *)
BuildsForUse ==
  \A p \in building :
    /\ p \in Processes /\ GraphWanted(p) # {}
    /\ \A path \in GraphWanted(p) \cap DOMAIN graphs : graphs[path] = CurrentGraph

(* Who the callers are, and whether each verifies on the source.           *)
CallersTrueOf(p) ==
  /\ pc[p] \in ClausePlaces \cup {"caller_baselines"} =>
       /\ Source \in DOMAIN graphs
       /\ graphs[Source] = CurrentGraph
            => DOMAIN baselines[p] = InFileCallers(Target(p), CurrentGraph)
       /\ \A g \in DOMAIN baselines[p] :
            /\ baselines[p][g] \in {"unknown", "verified", "unverified"}
            /\ baselines[p][g] = "verified" => "success" \in Answers(g, Original, FALSE)
            /\ baselines[p][g] = "unverified" => Answers(g, Original, FALSE) # {"success"}
  /\ pc[p] \in ClausePlaces =>
       \A g \in DOMAIN baselines[p] : baselines[p][g] # "unknown"

CallersTrue == \A p \in Processes : CallersTrueOf(p)

(* What the callers say of the clause that is judged, and what was said of *)
(* those before it.                                                        *)
Weakened(p, g, i) == Answers(g, ClauseMutant(Target(p), i), FALSE)

ClausesTrueOf(p) ==
  /\ pc[p] # "caller_side" => DOMAIN callerSide[p] = {} /\ DOMAIN callers[p] = {}
  /\ pc[p] = "caller_side" =>
       /\ \A g \in DOMAIN callers[p] :
            /\ g \in VerifyingCallers(p)
            /\ callers[p][g] = "verified" => "success" \in Weakened(p, g, Clause(p))
            /\ callers[p][g] = "failed" => "failure" \in Weakened(p, g, Clause(p))
       /\ \A i \in DOMAIN callerSide[p] :
            /\ callerSide[p][i] = "redundant_for_callers" =>
                 \A g \in VerifyingCallers(p) : "success" \in Weakened(p, g, i)
            /\ callerSide[p][i] = "required_by_callers" =>
                 \E g \in VerifyingCallers(p) : "failure" \in Weakened(p, g, i)

ClausesTrue == \A p \in Processes : ClausesTrueOf(p)

RedundancyInv == ScoringInv /\ BuildsForUse /\ CallersTrue /\ ClausesTrue

-----------------------------------------------------------------------------
(* What a step does to the directory and to the pool of the process that   *)
(* takes it.                                                               *)

(* It stays where it is.                                                   *)
Stays == UNCHANGED <<pc, todo, files, futures, vresults>>

(* It goes on to a place that is not in a pool, and leaves no clause.      *)
Moves(p) ==
  \E where \in Places \ PoolPlaces :
    /\ pc[p] \notin PoolPlaces
    /\ pc[p] \in ClausePlaces => where \in ClausePlaces
    /\ pc' = [pc EXCEPT ![p] = where]
    /\ \/ /\ todo' = todo
          /\ where \notin {"function", "ended", "aborted"} => todo[p] # <<>>
       \/ where = "function" /\ todo[p] # <<>>
          /\ todo' = [todo EXCEPT ![p] = Tail(@)]
    /\ UNCHANGED <<files, futures, vresults>>

LeavesClauses(p) ==
  \E where \in {"scored", "aborted"} :
    /\ pc[p] \in ClausePlaces
    /\ pc' = [pc EXCEPT ![p] = where]
    /\ files' = Without(ClausePaths(p))
    /\ UNCHANGED <<todo, futures, vresults>>

EntersPool(p) ==
  /\ pc[p] = "call_graph"
  /\ pc' = [pc EXCEPT ![p] = "pool"]
  /\ futures' = [futures EXCEPT ![p] = [i \in DOMAIN Mutants[Target(p)] |-> "queued"]]
  /\ vresults' = [vresults EXCEPT ![p] = [i \in DOMAIN Mutants[Target(p)] |-> "none"]]
  /\ UNCHANGED <<todo, files>>

StopsPool(p) ==
  /\ pc[p] = "pool"
  /\ CancelQueued(p)
  /\ pc' = [pc EXCEPT ![p] = "drain"]
  /\ UNCHANGED <<todo, files, vresults>>

LeavesPool(p) ==
  \E where \in {"tested", "aborted"} :
    /\ pc[p] \in PoolPlaces
    /\ pc' = [pc EXCEPT ![p] = where]
    /\ Unlink(p)
    /\ UNCHANGED todo

WritesClause(p) == WriteClause(p) /\ UNCHANGED mutationVars

PoolStep(p) ==
  \/ EntersPool(p)
  \/ \E i \in DOMAIN futures[p] :
       StartMutant(p, i) \/ WriteMutant(p, i) \/ VerifyMutant(p, i) \/ Collect(p, i)
  \/ StopsPool(p)
  \/ LeavesPool(p)

LEMMA ScoringSteps ==
  ASSUME ScoringInv, NEW p \in Processes, Step(p) \/ Interrupt(p)
  PROVE  Stays \/ Moves(p) \/ LeavesClauses(p) \/ WritesClause(p) \/ PoolStep(p)
<1> USE DEF PoolPlaces, ClausePlaces
<1>p. pc[p] \in Places /\ (pc[p] \notin {"function", "ended", "aborted"} => todo[p] # <<>>)
  BY DEF ScoringInv, Shape
<1>1. CASE ConstructCallGraph(p)
  BY <1>1 DEF ConstructCallGraph, BuildGraph, PublishGraph, mutationVars, Stays
<1>2. CASE Verify(p)
  BY <1>2, <1>p DEF Verify, AbortWith, GoTo, Moves, Places, mutationVars
<1>3. CASE StartFunction(p)
  BY <1>3, <1>p DEF StartFunction, GoTo, Moves, Places, mutationVars
<1>4. CASE MutationStep(p)
  <2>1. CASE GetMutants(p)
    BY <2>1, <1>p DEF GetMutants, GoTo, Moves, Places
  <2>2. CASE Baseline(p)
    BY <2>2, <1>p DEF Baseline, AbortWith, GoTo, Moves, Places, mutationVars
  <2>3. CASE StartPool(p)
    BY <2>3, <1>p DEF StartPool, AbortWith, GoTo, Moves, Places, PoolStep, EntersPool
  <2>4. ASSUME NEW i \in DOMAIN futures[p],
               StartMutant(p, i) \/ WriteMutant(p, i) \/ VerifyMutant(p, i) \/ Collect(p, i)
        PROVE  PoolStep(p)
    BY <2>4 DEF PoolStep
  <2>5. ASSUME NEW i \in DOMAIN futures[p], CollectError(p, i)
        PROVE  PoolStep(p)
    BY <2>5 DEF PoolStep, CollectError, StopsPool
  <2>6. CASE ReturnScore(p)
    BY <2>6 DEF ReturnScore, GoTo, PoolStep, LeavesPool
  <2>7. CASE RaiseError(p)
    BY <2>7 DEF RaiseError, AbortWith, PoolStep, LeavesPool
  <2> QED
    BY <1>4, <2>1, <2>2, <2>3, <2>4, <2>5, <2>6, <2>7 DEF MutationStep
<1>5. CASE ReportMutation(p)
  BY <1>5, <1>p DEF ReportMutation, GoTo, NextFunction, Moves, Places
<1>6. CASE RedundancyStep(p) /\ UNCHANGED mutationVars
  <2> USE <1>6, <1>p DEF mutationVars, redundancyVars, workspaceVars
  <2>1. CASE RedundancyBaseline(p)
    BY <2>1 DEF RedundancyBaseline, AbortWith, GoTo, Moves, Places
  <2>2. CASE FindCallers(p)
    BY <2>2 DEF FindCallers, AbortWith, GoTo, Moves, Places
  <2>3. ASSUME NEW g \in Function, CallerBaseline(p, g)
        PROVE  Stays
    BY <2>3 DEF CallerBaseline, Stays
  <2>4. ASSUME NEW g \in Function, VerifyCaller(p, g)
        PROVE  Stays \/ LeavesClauses(p)
    BY <2>4 DEF VerifyCaller, Stays, LeavesClauses, AbortClauses, AbortWith,
                UnlinkClauses, ClausePaths
  <2>5. CASE StartClauses(p)
    BY <2>5 DEF StartClauses, GoTo, Moves, Places
  <2>6. CASE VerifyWithoutClause(p)
    BY <2>6 DEF VerifyWithoutClause, Stays, LeavesClauses, AbortClauses, AbortWith,
                UnlinkClauses, ClausePaths
  <2>7. CASE StartCallerSide(p)
    BY <2>7 DEF StartCallerSide, GoTo, Moves, Places
  <2>8. CASE JudgeWithoutCallers(p) \/ Judge(p)
    BY <2>8 DEF JudgeWithoutCallers, Judge, Stays
  <2>9. CASE ReturnRedundancy(p)
    BY <2>9 DEF ReturnRedundancy, GoTo, LeavesClauses, UnlinkClauses, ClausePaths
  <2> QED
    BY <2>1, <2>2, <2>3, <2>4, <2>5, <2>6, <2>7, <2>8, <2>9 DEF RedundancyStep, WritesClause
<1>7. CASE ReportRedundancy(p)
  BY <1>7, <1>p DEF ReportRedundancy, NextFunction, Moves, Places, mutationVars
<1>8. CASE Interrupt(p)
  <2>1. CASE InterruptPool(p)
    BY <2>1 DEF InterruptPool, PoolStep, StopsPool
  <2>2. CASE pc[p] \in ClausePlaces /\ AbortClauses(p, "interrupted") /\ UNCHANGED mutationVars
    BY <2>2 DEF AbortClauses, AbortWith, LeavesClauses, UnlinkClauses, ClausePaths,
                mutationVars
  <2>3. CASE /\ pc[p] \notin {"pool", "drain", "isolation", "caller_side", "ended", "aborted"}
             /\ AbortWith(p, "interrupted")
             /\ UNCHANGED <<files, mutationVars>>
    BY <2>3 DEF AbortWith, Moves, Places, mutationVars
  <2> QED
    BY <1>8, <2>1, <2>2, <2>3 DEF Interrupt
<1> QED
  BY <1>1, <1>2, <1>3, <1>4, <1>5, <1>6, <1>7, <1>8 DEF Step

(* Two processes score different functions.                                *)
LEMMA Targets ==
  ASSUME Shape, NEW p \in Processes, todo[p] # <<>>
  PROVE  /\ Target(p) \in Function
         /\ \A q \in Processes : todo[q] # <<>> /\ Target(q) = Target(p) => q = p
<1>1. ASSUME NEW q \in Processes, todo[q] # <<>>
      PROVE  Target(q) \in Function /\ Target(q) \in ToSet(Job[q].functions)
  BY <1>1, HeadTailProperties DEF Shape, Target
<1>2. \A q \in Processes :
        ToSet(Job[p].functions) \cap ToSet(Job[q].functions) # {} => p = q
  BY WorkspaceAssumption
<1> QED
  BY <1>1, <1>2

(* A process that has mutants on disk scores a function.                   *)
LEMMA Scoring ==
  ASSUME Shape, NEW p \in Processes, pc[p] \in PoolPlaces \cup ClausePlaces
  PROVE  todo[p] # <<>>
BY DEF Shape, PoolPlaces, ClausePlaces

LEMMA ShapeInit ==
  ASSUME Init
  PROVE  Shape
<1>1. ASSUME NEW p \in Processes
      PROVE  /\ Job[p].functions \in Seq(Function)
             /\ Job[p].agent => Job[p].functions # <<>>
             /\ \A k \in DOMAIN Job[p].functions :
                  Job[p].functions[k] \in ToSet(Job[p].functions)
  <2>1. Job[p] \in Jobs /\ (Job[p].agent => Len(Job[p].functions) = 1)
    BY WorkspaceAssumption
  <2>2. Job[p].functions \in Seq(Function)
    BY <2>1 DEF Jobs
  <2>3. Job[p].agent => Job[p].functions # <<>>
    <3>1. ASSUME Job[p].agent, Job[p].functions = <<>>
          PROVE  FALSE
      <4>1. Len(<<>>) = 1
        BY <2>1, <3>1
      <4> QED
        BY <4>1, EmptySeq
    <3> QED
      BY <3>1
  <2> QED
    BY <2>2, <2>3 DEF ToSet
<1>2. /\ todo = [p \in Processes |-> Job[p].functions]
      /\ pc = [p \in Processes |-> IF Job[p].agent THEN "verify" ELSE "function"]
      /\ futures = [p \in Processes |-> <<>>]
      /\ vresults = [p \in Processes |-> <<>>]
  BY DEF Init, MutationInit
<1>3. pc \in [Processes -> Places] /\ todo \in [Processes -> Seq(Function)]
  BY <1>1, <1>2 DEF Places
<1>4. \A p \in Processes :
        /\ \A k \in DOMAIN todo[p] : todo[p][k] \in ToSet(Job[p].functions)
        /\ pc[p] \notin {"function", "ended", "aborted"} => todo[p] # <<>>
        /\ pc[p] \notin PoolPlaces
  BY <1>1, <1>2 DEF PoolPlaces
<1> QED
  BY <1>2, <1>3, <1>4 DEF Shape

LEMMA ShapeStep ==
  ASSUME ScoringInv, NEW p \in Processes,
         Stays \/ Moves(p) \/ LeavesClauses(p) \/ WritesClause(p) \/ PoolStep(p)
  PROVE  Shape'
<1> USE DEF PoolPlaces, ClausePlaces
<1>s. Shape
  BY DEF ScoringInv
<1>1. CASE Stays
  BY <1>1, <1>s DEF Stays, Shape, Target
<1>2. CASE Moves(p)
  <2>1. PICK where \in Places \ PoolPlaces :
          /\ pc[p] \notin PoolPlaces
          /\ pc' = [pc EXCEPT ![p] = where]
          /\ \/ /\ todo' = todo
                /\ where \notin {"function", "ended", "aborted"} => todo[p] # <<>>
             \/ where = "function" /\ todo[p] # <<>>
                /\ todo' = [todo EXCEPT ![p] = Tail(@)]
          /\ UNCHANGED <<futures, vresults>>
    BY <1>2 DEF Moves
  <2>2. CASE todo' = todo
    BY <2>1, <2>2, <1>s DEF Shape, Target
  <2>3. CASE where = "function" /\ todo[p] # <<>>
             /\ todo' = [todo EXCEPT ![p] = Tail(@)]
    <3>1. /\ Tail(todo[p]) \in Seq(Function)
          /\ \A k \in DOMAIN Tail(todo[p]) : Tail(todo[p])[k] \in ToSet(Job[p].functions)
      BY <2>3, <1>s, HeadTailProperties DEF Shape
    <3>2. todo' \in [Processes -> Seq(Function)]
      BY <2>3, <3>1, <1>s DEF Shape
    <3>3. \A q \in Processes : q # p => todo'[q] = todo[q] /\ pc'[q] = pc[q]
      BY <2>1, <2>3, <1>s DEF Shape
    <3> QED
      BY <2>1, <2>3, <3>1, <3>2, <3>3, <1>s DEF Shape, Target
  <2>4. \/ todo' = todo
        \/ where = "function" /\ todo[p] # <<>> /\ todo' = [todo EXCEPT ![p] = Tail(@)]
    BY <2>1
  <2> QED
    BY <2>2, <2>3, <2>4
<1>3. CASE LeavesClauses(p)
  BY <1>3, <1>s DEF LeavesClauses, Shape, Target, Places
<1>4. CASE WritesClause(p)
  BY <1>4, <1>s DEF WritesClause, WriteClause, mutationVars, Shape, Target
<1>5. CASE PoolStep(p)
  <2>1. CASE EntersPool(p)
    BY <2>1, <1>s DEF EntersPool, Shape, Target, Places
  <2>2. ASSUME NEW i \in DOMAIN futures[p],
               StartMutant(p, i) \/ WriteMutant(p, i) \/ VerifyMutant(p, i) \/ Collect(p, i)
        PROVE  Shape'
    <3>1. /\ UNCHANGED <<pc, todo>>
          /\ DOMAIN futures' = DOMAIN futures /\ DOMAIN vresults' = DOMAIN vresults
          /\ \A q \in Processes :
               DOMAIN futures'[q] = DOMAIN futures[q] /\ DOMAIN vresults'[q] = DOMAIN vresults[q]
      BY <2>2, <1>s DEF StartMutant, WriteMutant, VerifyMutant, Collect, workspaceVars, Shape
    <3> QED
      BY <3>1, <1>s DEF Shape, Target
  <2>3. CASE StopsPool(p)
    BY <2>3, <1>s DEF StopsPool, CancelQueued, Shape, Target, Places
  <2>4. CASE LeavesPool(p)
    BY <2>4, <1>s DEF LeavesPool, Unlink, Shape, Target, Places
  <2> QED
    BY <1>5, <2>1, <2>2, <2>3, <2>4 DEF PoolStep
<1> QED
  BY <1>1, <1>2, <1>3, <1>4, <1>5

(* The results of the clauses are sequences.                               *)
LEMMA ClauseShapeStep ==
  ASSUME ClauseShape, NEW p \in Processes, Step(p) \/ Interrupt(p)
  PROVE  ClauseShape'
<1>1. CASE UNCHANGED <<isolated, callers, callerSide>> /\ DOMAIN baselines' = DOMAIN baselines
  BY <1>1 DEF ClauseShape
<1>2. CASE Forget(p)
  BY <1>2 DEF Forget, ClauseShape
<1>3. CASE \E r \in IsolationResults :
             isolated' = [isolated EXCEPT ![p] = Append(@, r)]
               /\ UNCHANGED <<baselines, callers, callerSide>>
  BY <1>3 DEF ClauseShape
<1>4. CASE \E v \in CallerSideVerdicts :
             /\ callerSide' = [callerSide EXCEPT ![p] = Append(@, v)]
             /\ UNCHANGED <<baselines, isolated>>
             /\ UNCHANGED callers \/ callers' = [callers EXCEPT ![p] = <<>>]
  BY <1>4 DEF ClauseShape
<1>5. CASE VerifyWithoutClause(p)
  <2>1. PICK answer \in RedundancyAnswers(Target(p), ClausePath(p, Clause(p))) :
          IF answer \notin Expected
          THEN AbortClauses(p, "unexpected_return_code")
          ELSE /\ isolated' = [isolated EXCEPT ![p] = Append(@,
                     CASE answer = "success" -> "redundant"
                       [] answer = "failure" -> "required"
                       [] answer = "timeout" -> "timed_out")]
               /\ UNCHANGED <<baselines, callers, callerSide>>
    BY <1>5 DEF VerifyWithoutClause
  <2>2. CASE answer \notin Expected
    BY <2>1, <2>2, <1>2 DEF AbortClauses
  <2>3. CASE answer \in Expected
    <3>1. (CASE answer = "success" -> "redundant"
             [] answer = "failure" -> "required"
             [] answer = "timeout" -> "timed_out") \in IsolationResults
      BY <2>3 DEF Expected, IsolationResults
    <3> QED
      BY <2>1, <2>3, <3>1, <1>3
  <2> QED
    BY <2>2, <2>3
<1>6. CASE JudgeWithoutCallers(p)
  BY <1>6, <1>4 DEF JudgeWithoutCallers, CallerSideVerdicts
<1>7. CASE Judge(p)
  <2>1. VerdictOf(callers[p]) \in CallerSideVerdicts
    BY DEF VerdictOf, CallerSideVerdicts, ClauseShape, CallerResults
  <2> QED
    BY <1>7, <2>1, <1>4 DEF Judge
<1>8. ASSUME NEW g \in Function, CallerBaseline(p, g) \/ VerifyCaller(p, g)
      PROVE  ClauseShape'
  <2>1. CASE CallerBaseline(p, g)
    BY <2>1, <1>1 DEF CallerBaseline
  <2>2. CASE VerifyCaller(p, g)
    <3>1. PICK answer \in RedundancyAnswers(g, ClausePath(p, Clause(p))) :
            IF answer \notin Expected
            THEN AbortClauses(p, "unexpected_return_code")
            ELSE /\ callers' = [callers EXCEPT ![p] =
                      [h \in DOMAIN @ \cup {g} |->
                         IF h # g THEN @[h]
                         ELSE CASE answer = "success" -> "verified"
                                [] answer = "failure" -> "failed"
                                [] answer = "timeout" -> "timed_out"]]
                 /\ UNCHANGED <<baselines, isolated, callerSide>>
      BY <2>2 DEF VerifyCaller
    <3>2. CASE answer \notin Expected
      BY <3>1, <3>2, <1>2 DEF AbortClauses
    <3>3. CASE answer \in Expected
      <4>1. (CASE answer = "success" -> "verified"
               [] answer = "failure" -> "failed"
               [] answer = "timeout" -> "timed_out") \in CallerResults
        BY <3>3 DEF Expected, CallerResults
      <4> DEFINE r == CASE answer = "success" -> "verified"
                        [] answer = "failure" -> "failed"
                        [] answer = "timeout" -> "timed_out"
      <4>2. /\ r \in CallerResults
            /\ callers' = [callers EXCEPT ![p] =
                 [h \in DOMAIN callers[p] \cup {g} |-> IF h # g THEN callers[p][h] ELSE r]]
        BY <3>1, <3>3, <4>1
      <4> HIDE DEF r
      <4>3. \A q \in Processes : \A h \in DOMAIN callers'[q] : callers'[q][h] \in CallerResults
        BY <4>2 DEF ClauseShape
      <4>4. UNCHANGED <<baselines, isolated, callerSide>> /\ DOMAIN callers' = DOMAIN callers
        BY <3>1, <3>3, <4>2
      <4> QED
        BY <4>3, <4>4 DEF ClauseShape
    <3> QED
      BY <3>2, <3>3
  <2> QED
    BY <1>8, <2>1, <2>2
<1>9. CASE Interrupt(p)
  BY <1>9, <1>1, <1>2 DEF Interrupt, redundancyVars, AbortClauses
<1>10. CASE RedundancyStep(p)
  <2>1. CASE RedundancyBaseline(p) \/ FindCallers(p) \/ StartClauses(p)
             \/ WriteClause(p) \/ StartCallerSide(p)
    BY <2>1, <1>1 DEF RedundancyBaseline, FindCallers, StartClauses, WriteClause,
                      StartCallerSide, redundancyVars
  <2>2. CASE ReturnRedundancy(p)
    BY <2>2, <1>2 DEF ReturnRedundancy
  <2> QED
    BY <1>10, <2>1, <2>2, <1>1, <1>2, <1>5, <1>6, <1>7, <1>8 DEF RedundancyStep
<1> QED
  <2>1. Step(p) => RedundancyStep(p) \/ UNCHANGED <<baselines, isolated, callers, callerSide>>
    BY DEF Step, ConstructCallGraph, Verify, StartFunction, ReportMutation,
           ReportRedundancy, redundancyVars
  <2> QED
    BY <2>1, <1>1, <1>9, <1>10

-----------------------------------------------------------------------------
(* The mutants on disk.                                                    *)

LEMMA PathsDiffer ==
  ASSUME NEW f, NEW i, NEW g, NEW j
  PROVE  /\ PathTo("mutant", f, i) # PathTo("clause_drop", g, j)
         /\ PathTo("mutant", f, i) = PathTo("mutant", g, j) => f = g /\ i = j
         /\ PathTo("clause_drop", f, i) = PathTo("clause_drop", g, j) => f = g /\ i = j
         /\ PathTo("mutant", f, i) # Source /\ PathTo("clause_drop", f, i) # Source
BY DEF PathTo, Source

(* The clause that a process drops is one of the contract.                 *)
LEMMA ClauseInRange ==
  ASSUME Shape, ClauseShape, NEW p \in Processes, pc[p] \in ClausePlaces
  PROVE  /\ Clause(p) \in Nat \ {0}
         /\ Clause(p) <= Clauses[Target(p)] => Clause(p) \in 1 .. Clauses[Target(p)]
<1>1. Len(isolated[p]) \in Nat /\ Len(callerSide[p]) \in Nat
  BY LenProperties DEF ClauseShape
<1>2. Clauses[Target(p)] \in Nat
  BY Targets, Scoring, WorkspaceAssumption
<1> QED
  BY <1>1, <1>2 DEF Clause

LEMMA FilesOwnedStep ==
  ASSUME ScoringInv, NEW p \in Processes,
         Stays \/ Moves(p) \/ LeavesClauses(p) \/ WritesClause(p) \/ PoolStep(p)
  PROVE  FilesOwned'
<1> DEFINE Owns(q, path) ==
      \/ pc[q] \in PoolPlaces /\ path \in MutantPaths(q)
      \/ pc[q] \in ClausePlaces /\ path \in ClausePaths(q)
<1>s. Shape /\ ClauseShape /\ FilesOwned
  BY DEF ScoringInv
<1>d. PoolPlaces \cap ClausePlaces = {}
  BY DEF PoolPlaces, ClausePlaces
<1>o. ASSUME NEW q \in Processes, UNCHANGED <<pc[q], todo[q]>>
      PROVE  \A path : Owns(q, path)' <=> Owns(q, path)
  BY <1>o DEF MutantPaths, ClausePaths, ClausePath, Target, PathTo
<1>h. \A path \in DOMAIN files : \E q \in Processes : Owns(q, path)
  BY <1>s DEF FilesOwned
<1>g. (\A path \in DOMAIN files' : \E q \in Processes : Owns(q, path)') => FilesOwned'
  BY DEF FilesOwned
<1>1. CASE Stays
  BY <1>1, <1>o, <1>h, <1>g DEF Stays
<1>2. CASE Moves(p)
  <2>1. PICK where \in Places \ PoolPlaces :
          /\ pc[p] \notin PoolPlaces
          /\ pc[p] \in ClausePlaces => where \in ClausePlaces
          /\ pc' = [pc EXCEPT ![p] = where]
          /\ \/ todo' = todo
             \/ where = "function" /\ todo' = [todo EXCEPT ![p] = Tail(@)]
          /\ UNCHANGED files
    BY <1>2 DEF Moves
  <2>2. \A q \in Processes \ {p} : UNCHANGED <<pc[q], todo[q]>>
    BY <2>1, <1>s DEF Shape
  <2>3. ASSUME NEW path, Owns(p, path)
        PROVE  Owns(p, path)'
    <3>1. pc[p] \in ClausePlaces /\ path \in ClausePaths(p)
      BY <2>1, <2>3
    <3>2. where \in ClausePlaces /\ where # "function" /\ pc'[p] = where
      BY <3>1, <2>1, <1>s DEF ClausePlaces, Shape
    <3>3. todo' = todo
      BY <2>1, <3>2
    <3> QED
      BY <3>1, <3>2, <3>3 DEF ClausePaths, ClausePath, Target, PathTo
  <2> QED
    BY <2>1, <2>2, <2>3, <1>o, <1>h, <1>g
<1>3. CASE LeavesClauses(p)
  <2>1. \A q \in Processes \ {p} : UNCHANGED <<pc[q], todo[q]>>
    BY <1>3, <1>s DEF LeavesClauses, Shape
  <2>2. DOMAIN files' = DOMAIN files \ ClausePaths(p)
    BY <1>3 DEF LeavesClauses, Without
  <2>3. \A path \in DOMAIN files' : ~Owns(p, path)
    BY <1>3, <1>d, <2>2 DEF LeavesClauses
  <2> QED
    BY <2>1, <2>2, <2>3, <1>o, <1>h, <1>g
<1>4. CASE WritesClause(p)
  <2> DEFINE mine == ClausePath(p, Clause(p))
  <2>1. DOMAIN files' = DOMAIN files \cup {mine} /\ UNCHANGED <<pc, todo>>
    BY <1>4 DEF WritesClause, WriteClause, With
  <2>2. pc[p] \in ClausePlaces /\ mine \in ClausePaths(p)
    BY <1>4, <1>s, ClauseInRange DEF WritesClause, WriteClause, ClausePlaces, ClausePaths
  <2> QED
    BY <2>1, <2>2, <1>o, <1>h, <1>g
<1>5. CASE PoolStep(p)
  <2>1. CASE EntersPool(p) \/ StopsPool(p)
    <3>1. \A q \in Processes \ {p} : UNCHANGED <<pc[q], todo[q]>>
      BY <2>1, <1>s DEF EntersPool, StopsPool, Shape
    <3>2. UNCHANGED <<todo, files>>
      BY <2>1 DEF EntersPool, StopsPool
    <3>3. \/ pc[p] \notin PoolPlaces \cup ClausePlaces
          \/ pc[p] \in PoolPlaces /\ pc'[p] \in PoolPlaces
      BY <2>1, <1>s DEF EntersPool, StopsPool, Shape, PoolPlaces, ClausePlaces
    <3>4. \A path : Owns(p, path) => Owns(p, path)'
      BY <3>2, <3>3, <1>d DEF MutantPaths, ClausePaths, ClausePath, Target, PathTo
    <3> QED
      BY <3>1, <3>2, <3>4, <1>o, <1>h, <1>g
  <2>2. ASSUME NEW i \in DOMAIN futures[p],
               StartMutant(p, i) \/ WriteMutant(p, i) \/ VerifyMutant(p, i) \/ Collect(p, i)
        PROVE  FilesOwned'
    <3>1. UNCHANGED <<pc, todo>>
      BY <2>2 DEF StartMutant, WriteMutant, VerifyMutant, Collect, workspaceVars
    <3>2. DOMAIN files' \subseteq DOMAIN files \cup {PathTo("mutant", Target(p), i)}
      BY <2>2 DEF StartMutant, WriteMutant, VerifyMutant, Collect, workspaceVars, With
    <3>3. Owns(p, PathTo("mutant", Target(p), i))
      BY <1>s DEF Shape, MutantPaths
    <3> QED
      BY <3>1, <3>2, <3>3, <1>o, <1>h, <1>g
  <2>3. CASE LeavesPool(p)
    <3>1. \A q \in Processes \ {p} : UNCHANGED <<pc[q], todo[q]>>
      BY <2>3, <1>s DEF LeavesPool, Shape
    <3>2. pc[p] \in PoolPlaces
      BY <2>3 DEF LeavesPool
    <3>3. DOMAIN files' = DOMAIN files \ MutantPaths(p)
      BY <2>3, <3>2, <1>s DEF LeavesPool, Unlink, Without, MutantPaths, Shape
    <3>4. \A path \in DOMAIN files' : ~Owns(p, path)
      BY <3>2, <3>3, <1>d
    <3> QED
      BY <3>1, <3>3, <3>4, <1>o, <1>h, <1>g
  <2> QED
    BY <1>5, <2>1, <2>2, <2>3 DEF PoolStep
<1> QED
  BY <1>1, <1>2, <1>3, <1>4, <1>5

LEMMA FilesTrueStep ==
  ASSUME ScoringInv, NEW p \in Processes,
         Stays \/ Moves(p) \/ LeavesClauses(p) \/ WritesClause(p) \/ PoolStep(p)
  PROVE  FilesTrue'
<1>s. Shape /\ ClauseShape /\ FilesTrue
  BY DEF ScoringInv
<1>1. CASE files' = files
  BY <1>1, <1>s DEF FilesTrue
<1>2. CASE \E paths : files' = Without(paths)
  BY <1>2, <1>s DEF FilesTrue, Without
<1>3. CASE WritesClause(p)
  <2>1. files' = With(PathTo("clause_drop", Target(p), Clause(p)),
                      ClauseMutant(Target(p), Clause(p)))
    BY <1>3 DEF WritesClause, WriteClause, ClausePath
  <2> QED
    BY <2>1, <1>s, PathsDiffer DEF FilesTrue, With
<1>4. CASE PoolStep(p)
  <2>1. CASE EntersPool(p) \/ StopsPool(p) \/ LeavesPool(p)
    BY <2>1, <1>1, <1>2 DEF EntersPool, StopsPool, LeavesPool, Unlink
  <2>2. ASSUME NEW i \in DOMAIN futures[p], WriteMutant(p, i)
        PROVE  FilesTrue'
    <3>1. files' = With(PathTo("mutant", Target(p), i), Mutants[Target(p)][i])
      BY <2>2 DEF WriteMutant
    <3> QED
      BY <3>1, <1>s, PathsDiffer DEF FilesTrue, With
  <2>3. ASSUME NEW i \in DOMAIN futures[p],
               StartMutant(p, i) \/ VerifyMutant(p, i) \/ Collect(p, i)
        PROVE  FilesTrue'
    BY <2>3, <1>1 DEF StartMutant, VerifyMutant, Collect, workspaceVars
  <2> QED
    BY <1>4, <2>1, <2>2, <2>3 DEF PoolStep
<1>5. CASE Stays \/ Moves(p) \/ LeavesClauses(p)
  BY <1>5, <1>1, <1>2 DEF Stays, Moves, LeavesClauses
<1> QED
  BY <1>3, <1>4, <1>5

LEMMA FuturesTrueStep ==
  ASSUME ScoringInv, NEW p \in Processes,
         Stays \/ Moves(p) \/ LeavesClauses(p) \/ WritesClause(p) \/ PoolStep(p)
  PROVE  FuturesTrue'
<1> DEFINE True(q) == \A i \in DOMAIN futures[q] :
      /\ futures[q][i] = "written" => PathTo("mutant", Target(q), i) \in DOMAIN files
      /\ futures[q][i] \in VerificationResults => OnItsMutant(q, i, futures[q][i])
      /\ vresults[q][i] # "none" => OnItsMutant(q, i, vresults[q][i])
<1>s. Shape /\ FilesTrue /\ \A q \in Processes : True(q)
  BY DEF ScoringInv, FuturesTrue
<1>g. (\A q \in Processes : True(q)') => FuturesTrue'
  BY DEF FuturesTrue
(* Nobody else removes a mutant of q, and nobody writes its results.       *)
<1>k. ASSUME NEW q \in Processes,
             futures'[q] = futures[q], vresults'[q] = vresults[q],
             DOMAIN futures[q] # {} => todo'[q] = todo[q],
             \A i \in DOMAIN futures[q] :
               PathTo("mutant", Target(q), i) \in DOMAIN files
                 => PathTo("mutant", Target(q), i) \in DOMAIN files'
      PROVE  True(q)'
  <2>1. CASE DOMAIN futures[q] = {}
    BY <1>k, <2>1
  <2>2. CASE todo'[q] = todo[q]
    <3>1. Target(q)' = Target(q) /\ True(q)
      BY <2>2, <1>s DEF Target
    <3>2. \A i : \A result : OnItsMutant(q, i, result)' <=> OnItsMutant(q, i, result)
      BY <3>1 DEF OnItsMutant
    <3> QED
      BY <1>k, <3>1, <3>2 DEF PathTo
  <2> QED
    BY <1>k, <2>1, <2>2
<1>1. CASE Stays
  BY <1>1, <1>k, <1>g DEF Stays
<1>2. CASE Moves(p)
  <2>1. /\ DOMAIN futures[p] = {}
        /\ UNCHANGED <<files, futures, vresults>>
        /\ \A q \in Processes \ {p} : todo'[q] = todo[q]
    BY <1>2, <1>s DEF Moves, Shape
  <2> QED
    BY <2>1, <1>k, <1>g
<1>3. CASE LeavesClauses(p)
  <2>1. UNCHANGED <<todo, futures, vresults>> /\ DOMAIN files' = DOMAIN files \ ClausePaths(p)
    BY <1>3 DEF LeavesClauses, Without
  <2>2. \A f, i : PathTo("mutant", f, i) \notin ClausePaths(p)
    BY PathsDiffer DEF ClausePaths, ClausePath
  <2> QED
    BY <2>1, <2>2, <1>k, <1>g
<1>4. CASE WritesClause(p)
  BY <1>4, <1>k, <1>g DEF WritesClause, WriteClause, mutationVars, With
<1>5. CASE PoolStep(p)
  <2>1. CASE EntersPool(p)
    <3>1. True(p)'
      BY <2>1, <1>s DEF EntersPool, Shape, VerificationResults
    <3>2. UNCHANGED <<todo, files>> /\ \A q \in Processes \ {p} :
            futures'[q] = futures[q] /\ vresults'[q] = vresults[q]
      BY <2>1, <1>s DEF EntersPool, Shape
    <3> QED
      BY <3>1, <3>2, <1>k, <1>g
  <2>2. ASSUME NEW i \in DOMAIN futures[p],
               StartMutant(p, i) \/ WriteMutant(p, i) \/ VerifyMutant(p, i) \/ Collect(p, i)
        PROVE  FuturesTrue'
    <3>1. /\ UNCHANGED todo
          /\ \A q \in Processes \ {p} : futures'[q] = futures[q] /\ vresults'[q] = vresults[q]
          /\ DOMAIN files \subseteq DOMAIN files'
          /\ DOMAIN futures'[p] = DOMAIN futures[p]
          /\ \A j \in DOMAIN futures[p] \ {i} :
               futures'[p][j] = futures[p][j] /\ vresults'[p][j] = vresults[p][j]
      BY <2>2, <1>s DEF StartMutant, WriteMutant, VerifyMutant, Collect, workspaceVars,
                        With, Shape
    <3>2. /\ futures'[p][i] = "written" => PathTo("mutant", Target(p), i) \in DOMAIN files'
          /\ futures'[p][i] \in VerificationResults => OnItsMutant(p, i, futures'[p][i])
          /\ vresults'[p][i] # "none" => OnItsMutant(p, i, vresults'[p][i])
      <4>t. /\ DOMAIN futures[p] = DOMAIN Mutants[Target(p)]
            /\ todo[p] # <<>> /\ Target(p) \in Function
        BY <2>2, <1>s, Targets, Scoring DEF Shape
      <4>1. CASE StartMutant(p, i)
        BY <4>1, <1>s DEF StartMutant, workspaceVars, Shape, VerificationResults
      <4>2. CASE WriteMutant(p, i)
        BY <4>2, <1>s DEF WriteMutant, Shape, VerificationResults, With
      <4>3. CASE VerifyMutant(p, i)
        <5>1. PICK answer \in Answer(Target(p), PathTo("mutant", Target(p), i),
                                     Job[p].include_dirs) :
                futures' = [futures EXCEPT ![p][i] = verify_mutant(answer)]
          BY <4>3 DEF VerifyMutant
        <5>2. /\ PathTo("mutant", Target(p), i) \in DOMAIN files
              /\ files[PathTo("mutant", Target(p), i)] = Mutants[Target(p)][i]
          BY <4>3, <4>t, <1>s DEF VerifyMutant, FilesTrue
        <5>3. answer \in Answers(Target(p), Mutants[Target(p)][i], Job[p].include_dirs)
          BY <5>1, <5>2, PathsDiffer DEF Answer
        <5>4. OnItsMutant(p, i, verify_mutant(answer))
          BY <5>3 DEF OnItsMutant
        <5>5. futures'[p][i] = verify_mutant(answer)
          BY <5>1, <1>s DEF Shape
        <5> QED
          BY <4>3, <5>2, <5>4, <5>5, <1>s DEF VerifyMutant, workspaceVars
      <4>4. CASE Collect(p, i)
        BY <4>4, <1>s DEF Collect, workspaceVars, Shape
      <4> QED
        BY <2>2, <4>1, <4>2, <4>3, <4>4
    <3>3. Target(p)' = Target(p)
      BY <3>1 DEF Target
    <3>4. \A j : \A result : OnItsMutant(p, j, result)' <=> OnItsMutant(p, j, result)
      BY <3>3 DEF OnItsMutant
    <3>5. True(p)'
      <4>1. True(p)
        BY <1>s
      <4> QED
        BY <4>1, <3>1, <3>2, <3>3, <3>4 DEF PathTo
    <3> QED
      BY <3>1, <3>5, <1>k, <1>g
  <2>3. CASE StopsPool(p)
    <3>1. UNCHANGED <<todo, files, vresults>> /\ \A q \in Processes \ {p} :
            futures'[q] = futures[q]
      BY <2>3, <1>s DEF StopsPool, CancelQueued, Shape
    <3>2. /\ DOMAIN futures'[p] = DOMAIN futures[p]
          /\ \A i \in DOMAIN futures[p] :
               futures'[p][i] = futures[p][i] \/ futures'[p][i] = "cancelled"
      BY <2>3, <1>s DEF StopsPool, CancelQueued, Shape
    <3>3. Target(p)' = Target(p)
      BY <3>1 DEF Target
    <3>4. \A j : \A result : OnItsMutant(p, j, result)' <=> OnItsMutant(p, j, result)
      BY <3>3 DEF OnItsMutant
    <3>5. True(p)'
      <4>1. True(p) /\ "cancelled" # "written" /\ "cancelled" \notin VerificationResults
        BY <1>s DEF VerificationResults
      <4> QED
        BY <4>1, <3>1, <3>2, <3>3, <3>4 DEF PathTo
    <3> QED
      BY <3>1, <3>5, <1>k, <1>g
  <2>4. CASE LeavesPool(p)
    <3>1. /\ UNCHANGED todo /\ DOMAIN futures'[p] = {}
          /\ \A q \in Processes \ {p} : futures'[q] = futures[q] /\ vresults'[q] = vresults[q]
          /\ DOMAIN files' = DOMAIN files \
               {PathTo("mutant", Target(p), i) : i \in DOMAIN futures[p]}
      BY <2>4, <1>s DEF LeavesPool, Unlink, Without, Shape
    <3>2. ASSUME NEW q \in Processes \ {p}, NEW i \in DOMAIN futures[q]
          PROVE  \A j : PathTo("mutant", Target(q), i) # PathTo("mutant", Target(p), j)
      <4>1. pc[p] \in PoolPlaces /\ pc[q] \in PoolPlaces
        BY <2>4, <3>2, <1>s DEF LeavesPool, Shape
      <4>2. Target(q) # Target(p)
        BY <4>1, <1>s, Targets, Scoring
      <4> QED
        BY <4>2, PathsDiffer
    <3>3. \A q \in Processes \ {p} : True(q)'
      BY <3>1, <3>2, <1>k
    <3>4. True(p)'
      BY <3>1
    <3> QED
      BY <3>3, <3>4, <1>g
  <2> QED
    BY <1>5, <2>1, <2>2, <2>3, <2>4 DEF PoolStep
<1> QED
  BY <1>1, <1>2, <1>3, <1>4, <1>5

-----------------------------------------------------------------------------
LEMMA ScoringInit ==
  ASSUME Init
  PROVE  ScoringInv
<1>1. Shape
  BY ShapeInit
<1>2. ClauseShape
  BY DEF Init, RedundancyInit, ClauseShape
<1>3. FilesOwned /\ FilesTrue /\ FuturesTrue
  BY DEF Init, MutationInit, FilesOwned, FilesTrue, FuturesTrue
<1> QED
  BY <1>1, <1>2, <1>3 DEF ScoringInv

LEMMA ScoringStep ==
  ASSUME ScoringInv, [Next]_vars
  PROVE  ScoringInv'
<1>1. ASSUME NEW p \in Processes, Step(p) \/ Interrupt(p)
      PROVE  ScoringInv'
  <2>1. Stays \/ Moves(p) \/ LeavesClauses(p) \/ WritesClause(p) \/ PoolStep(p)
    BY <1>1, ScoringSteps
  <2>2. ClauseShape'
    BY <1>1, ClauseShapeStep DEF ScoringInv
  <2> QED
    BY <2>1, <2>2, ShapeStep, FilesOwnedStep, FilesTrueStep, FuturesTrueStep
    DEF ScoringInv
<1>2. CASE UNCHANGED vars
  <2>1. \A q, i, result : OnItsMutant(q, i, result)' <=> OnItsMutant(q, i, result)
    BY <1>2 DEF vars, workspaceVars, OnItsMutant, Target
  <2>2. Shape' /\ ClauseShape'
    BY <1>2 DEF ScoringInv, Shape, ClauseShape, vars, workspaceVars, mutationVars,
                redundancyVars, Target
  <2>3. FilesOwned' /\ FilesTrue'
    BY <1>2 DEF ScoringInv, FilesOwned, FilesTrue, MutantPaths, ClausePaths,
                ClausePath, PathTo, vars, workspaceVars, Target
  <2>4. FuturesTrue'
    BY <1>2, <2>1 DEF ScoringInv, FuturesTrue, PathTo, vars, workspaceVars,
                      mutationVars, Target
  <2> QED
    BY <2>2, <2>3, <2>4 DEF ScoringInv
<1> QED
  BY <1>1, <1>2 DEF Next

(* The mutants on disk are those of functions that are being scored, each  *)
(* with its own text, and the result of each is a verdict on it.           *)
THEOREM ScoringInvariant == Spec => []ScoringInv
<1>1. Init => ScoringInv
  BY ScoringInit
<1>2. ScoringInv /\ [Next]_vars => ScoringInv'
  BY ScoringStep
<1> QED
  BY <1>1, <1>2, PTL DEF Spec

(* No mutant is on disk but those of the function that a process scores at *)
(* the time, however the scoring of another ended.                         *)
THEOREM NothingLeftCorrect == Spec => []NothingLeftBehind
<1>1. ASSUME ScoringInv
      PROVE  NothingLeftBehind
  <2>1. ASSUME NEW path \in DOMAIN files
        PROVE  \E p \in Processes :
                 /\ pc[p] \in {"pool", "drain", "isolation", "caller_side"}
                 /\ path \in PathsOf(p)
    <3>1. PICK p \in Processes :
            \/ pc[p] \in PoolPlaces /\ path \in MutantPaths(p)
            \/ pc[p] \in ClausePlaces /\ path \in ClausePaths(p)
      BY <1>1, <2>1 DEF ScoringInv, FilesOwned
    <3>2. todo[p] # <<>>
      BY <1>1, <3>1, Scoring DEF ScoringInv
    <3> QED
      BY <3>1, <3>2 DEF PathsOf, MutantPaths, ClausePaths, ClausePath, PoolPlaces,
                        ClausePlaces
  <2> QED
    BY <2>1 DEF NothingLeftBehind
<1> QED
  BY <1>1, ScoringInvariant, PTL

(* A verdict in a mutant's slot is one that CBMC gives on that mutant, in  *)
(* whatever order the runs end and whoever else writes beside the source.  *)
THEOREM VerdictsCorrect == Spec => []VerdictsAreTheirOwn
<1>1. ASSUME ScoringInv
      PROVE  VerdictsAreTheirOwn
  BY <1>1 DEF ScoringInv, Shape, FuturesTrue, OnItsMutant, VerdictsAreTheirOwn
<1> QED
  BY <1>1, ScoringInvariant, PTL

-----------------------------------------------------------------------------
(* The call graphs that are read.                                          *)

LEMMA GraphsWholeStep ==
  ASSUME GraphsWhole, NEW p \in Processes, Step(p) \/ Interrupt(p)
  PROVE  GraphsWhole'
<1>g. /\ \A path \in DOMAIN graphs : graphs[path].complete = TRUE
      /\ DOMAIN cause = Processes
      /\ \A q \in Processes : cause[q] # "unreadable_graph"
  BY DEF GraphsWhole, CallGraphIsWhole
<1>1. ASSUME UNCHANGED graphs,
             \/ UNCHANGED cause
             \/ \E why : why # "unreadable_graph" /\ AbortWith(p, why)
      PROVE  GraphsWhole'
  BY <1>1, <1>g DEF GraphsWhole, CallGraphIsWhole, AbortWith
<1>2. ASSUME HasGraph(p, Source)
      PROVE  /\ GraphAt(Source).complete
             /\ \A f : GraphFault(Source, f) # "unreadable_graph"
  BY <1>2, <1>g DEF HasGraph, GraphAt, GraphFault
<1>3. CASE ConstructCallGraph(p)
  BY <1>3, <1>g DEF ConstructCallGraph, BuildGraph, PublishGraph, Cache, CurrentGraph,
                    GraphsWhole, CallGraphIsWhole
<1>4. CASE Verify(p) \/ StartFunction(p)
  BY <1>4, <1>1, <1>2 DEF Verify, StartFunction, GoTo
<1>5. CASE MutationStep(p)
  <2>1. CASE GetMutants(p) \/ Baseline(p)
    BY <2>1, <1>1, <1>2 DEF GetMutants, Baseline, GoTo
  <2>2. CASE StartPool(p)
    BY <2>2, <1>1, <1>2 DEF StartPool, GoTo
  <2>3. ASSUME NEW i \in DOMAIN futures[p],
               StartMutant(p, i) \/ WriteMutant(p, i) \/ VerifyMutant(p, i)
                 \/ Collect(p, i)
        PROVE  GraphsWhole'
    BY <2>3, <1>1 DEF StartMutant, WriteMutant, VerifyMutant, Collect, workspaceVars
  <2>4. ASSUME NEW i \in DOMAIN futures[p], CollectError(p, i)
        PROVE  GraphsWhole'
    BY <2>4, <1>g DEF CollectError, GraphsWhole, CallGraphIsWhole
  <2>5. CASE ReturnScore(p) \/ RaiseError(p)
    BY <2>5, <1>1, <1>g DEF ReturnScore, RaiseError, GoTo
  <2> QED
    BY <1>5, <2>1, <2>2, <2>3, <2>4, <2>5 DEF MutationStep
<1>6. CASE ReportMutation(p) \/ ReportRedundancy(p)
  BY <1>6, <1>1 DEF ReportMutation, ReportRedundancy, GoTo, NextFunction
<1>7. CASE RedundancyStep(p)
  <2>1. CASE RedundancyBaseline(p) \/ FindCallers(p)
    BY <2>1, <1>1, <1>2 DEF RedundancyBaseline, FindCallers, GoTo
  <2>2. ASSUME NEW g \in Function, CallerBaseline(p, g) \/ VerifyCaller(p, g)
        PROVE  GraphsWhole'
    BY <2>2, <1>1 DEF CallerBaseline, VerifyCaller, AbortClauses, workspaceVars
  <2>3. CASE StartClauses(p) \/ WriteClause(p) \/ VerifyWithoutClause(p)
             \/ StartCallerSide(p)
    BY <2>3, <1>1 DEF StartClauses, WriteClause, VerifyWithoutClause, StartCallerSide,
                      AbortClauses, GoTo
  <2>4. CASE JudgeWithoutCallers(p) \/ Judge(p) \/ ReturnRedundancy(p)
    BY <2>4, <1>1 DEF JudgeWithoutCallers, Judge, ReturnRedundancy, GoTo, workspaceVars
  <2> QED
    BY <1>7, <2>1, <2>2, <2>3, <2>4 DEF RedundancyStep
<1>8. CASE Interrupt(p)
  <2>1. CASE InterruptPool(p)
    BY <2>1, <1>g DEF InterruptPool, GraphsWhole, CallGraphIsWhole
  <2> QED
    BY <1>8, <2>1, <1>1 DEF Interrupt, AbortClauses
<1> QED
  BY <1>3, <1>4, <1>5, <1>6, <1>7, <1>8 DEF Step

(* Nobody reads a call graph that another process is still writing, if     *)
(* what earlier runs cached is whole.                                      *)
THEOREM CallGraphCorrect == CachedWhole => (Spec => []CallGraphIsWhole)
<1> SUFFICES ASSUME CachedWhole
             PROVE  Spec => []CallGraphIsWhole
  OBVIOUS
<1>1. Init => GraphsWhole
  BY DEF Init, CachedWhole, GraphsWhole, CallGraphIsWhole
<1>2. GraphsWhole /\ [Next]_vars => GraphsWhole'
  <2>1. ASSUME GraphsWhole, UNCHANGED vars
        PROVE  GraphsWhole'
    BY <2>1 DEF GraphsWhole, CallGraphIsWhole, vars, workspaceVars
  <2> QED
    BY <2>1, GraphsWholeStep DEF Next
<1>3. GraphsWhole => CallGraphIsWhole
  BY DEF GraphsWhole
<1> QED
  BY <1>1, <1>2, <1>3, PTL DEF Spec

-----------------------------------------------------------------------------
(* Building the call graphs.                                               *)

redundancyOf(p) == <<baselines[p], isolated[p], callers[p], callerSide[p]>>

(* A step of one process leaves what the others know of their clauses.     *)
LEMMA OthersKept ==
  ASSUME ScoringInv, NEW p \in Processes, Step(p) \/ Interrupt(p),
         NEW q \in Processes, q # p
  PROVE  UNCHANGED <<pc[q], todo[q], redundancyOf(q), GraphWanted(q)>>
<1>s. Shape /\ ClauseShape
  BY DEF ScoringInv
<1>c. Stays \/ Moves(p) \/ LeavesClauses(p) \/ WritesClause(p) \/ PoolStep(p)
  BY ScoringSteps
<1>1. UNCHANGED <<pc[q], todo[q]>>
  <2>1. CASE Stays \/ Moves(p) \/ LeavesClauses(p) \/ WritesClause(p)
    BY <2>1, <1>s DEF Stays, Moves, LeavesClauses, WritesClause, WriteClause, Shape
  <2>2. CASE PoolStep(p)
    BY <2>2, <1>s DEF PoolStep, EntersPool, StopsPool, LeavesPool, StartMutant,
                      WriteMutant, VerifyMutant, Collect, workspaceVars, Shape
  <2> QED
    BY <1>c, <2>1, <2>2
<1>2. UNCHANGED redundancyOf(q)
  <2>1. CASE UNCHANGED <<baselines, isolated, callers, callerSide>> \/ Forget(p)
    BY <2>1, <1>s DEF Forget, redundancyOf, ClauseShape
  <2>2. CASE FindCallers(p)
    BY <2>2, <1>s DEF FindCallers, redundancyOf, ClauseShape
  <2>3. ASSUME NEW g \in Function, CallerBaseline(p, g)
        PROVE  UNCHANGED redundancyOf(q)
    BY <2>3, <1>s DEF CallerBaseline, redundancyOf, ClauseShape
  <2>4. ASSUME NEW g \in Function, VerifyCaller(p, g)
        PROVE  UNCHANGED redundancyOf(q)
    BY <2>4, <2>1, <1>s DEF VerifyCaller, AbortClauses, redundancyOf, ClauseShape
  <2>5. CASE VerifyWithoutClause(p)
    BY <2>5, <2>1, <1>s DEF VerifyWithoutClause, AbortClauses, redundancyOf, ClauseShape
  <2>6. CASE JudgeWithoutCallers(p) \/ Judge(p)
    BY <2>6, <1>s DEF JudgeWithoutCallers, Judge, redundancyOf, ClauseShape
  <2>7. CASE RedundancyBaseline(p) \/ StartClauses(p) \/ WriteClause(p)
             \/ StartCallerSide(p) \/ ReturnRedundancy(p)
    BY <2>7, <2>1 DEF RedundancyBaseline, StartClauses, WriteClause, StartCallerSide,
                      ReturnRedundancy, redundancyVars
  <2>8. CASE RedundancyStep(p)
    BY <2>8, <2>2, <2>3, <2>4, <2>5, <2>6, <2>7 DEF RedundancyStep
  <2>9. CASE Interrupt(p)
    BY <2>9, <2>1 DEF Interrupt, AbortClauses, redundancyVars
  <2>10. Step(p) => RedundancyStep(p) \/ UNCHANGED <<baselines, isolated, callers, callerSide>>
    BY DEF Step, ConstructCallGraph, Verify, StartFunction, ReportMutation,
           ReportRedundancy, redundancyVars
  <2> QED
    BY <2>1, <2>8, <2>9, <2>10
<1>3. ASSUME pc[q] = "isolation"
      PROVE  /\ ClausePath(q, Clause(q))' = ClausePath(q, Clause(q))
             /\ ClausePath(q, Clause(q)) \in DOMAIN files'
                  <=> ClausePath(q, Clause(q)) \in DOMAIN files
  <2>1. ClausePath(q, Clause(q))' = ClausePath(q, Clause(q))
    BY <1>1, <1>2 DEF redundancyOf, Clause, ClausePath, PathTo, Target
  <2>2. ASSUME NEW path, path = ClausePath(q, Clause(q)),
               pc[p] \in PoolPlaces \cup ClausePlaces
        PROVE  path \notin ClausePaths(p) /\ \A i : path # ClausePath(p, i)
    <3>1. Target(q) # Target(p)
      BY <2>2, <1>3, <1>s, Targets, Scoring DEF ClausePlaces
    <3> QED
      BY <2>2, <3>1, PathsDiffer DEF ClausePaths, ClausePath
  <2>3. \A f, i : ClausePath(q, Clause(q)) # PathTo("mutant", f, i)
    BY PathsDiffer DEF ClausePath
  <2>4. CASE LeavesClauses(p)
    BY <2>1, <2>2, <2>4 DEF LeavesClauses, Without
  <2>5. CASE WritesClause(p)
    BY <2>1, <2>2, <2>5 DEF WritesClause, WriteClause, With, ClausePlaces
  <2>6. CASE PoolStep(p)
    <3>1. CASE EntersPool(p) \/ StopsPool(p)
      BY <2>1, <3>1 DEF EntersPool, StopsPool
    <3>2. ASSUME NEW i \in DOMAIN futures[p],
                 StartMutant(p, i) \/ WriteMutant(p, i) \/ VerifyMutant(p, i) \/ Collect(p, i)
          PROVE  \/ files' = files
                 \/ DOMAIN files' = DOMAIN files \cup {PathTo("mutant", Target(p), i)}
      BY <3>2 DEF StartMutant, WriteMutant, VerifyMutant, Collect, workspaceVars, With
    <3>3. CASE LeavesPool(p)
      <4>1. DOMAIN files' =
              DOMAIN files \ {PathTo("mutant", Target(p), i) : i \in DOMAIN futures[p]}
        BY <3>3 DEF LeavesPool, Unlink, Without
      <4> QED
        BY <4>1, <2>1, <2>3
    <3> QED
      BY <2>1, <2>3, <2>6, <3>1, <3>2, <3>3 DEF PoolStep
  <2> QED
    BY <1>c, <2>1, <2>4, <2>5, <2>6 DEF Stays, Moves
<1>4. UNCHANGED GraphWanted(q)
  <2>1. CASE pc[q] = "isolation"
    BY <1>1, <1>3, <2>1 DEF GraphWanted
  <2>2. CASE pc[q] # "isolation"
    BY <1>1, <2>2 DEF GraphWanted, Source
  <2> QED
    BY <2>1, <2>2
<1> QED
  BY <1>1, <1>2, <1>4

(* A process asks for the call graph of one source at a time.              *)
LEMMA OneGraph ==
  ASSUME NEW p, NEW path \in GraphWanted(p)
  PROVE  GraphWanted(p) = {path}
BY DEF GraphWanted

(* A process that writes a call graph does nothing else.                   *)
LEMMA BuildersStay ==
  ASSUME ScoringInv, BuildsForUse, NEW p \in building, Step(p)
  PROVE  ConstructCallGraph(p)
<1>b. p \in Processes /\ GraphWanted(p) # {} /\ (\A path : ~HasGraph(p, path))
  BY DEF BuildsForUse, HasGraph
<1>p. pc[p] \in {"verify", "baseline", "call_graph", "redundancy", "callers", "isolation"}
  BY <1>b DEF GraphWanted
<1>1. ~Verify(p) /\ ~StartFunction(p) /\ ~ReportMutation(p) /\ ~ReportRedundancy(p)
  BY <1>b, <1>p DEF Verify, StartFunction, ReportMutation, ReportRedundancy
<1>2. ~MutationStep(p)
  <2>1. DOMAIN futures[p] = {}
    BY <1>b, <1>p DEF ScoringInv, Shape, PoolPlaces
  <2> QED
    BY <2>1, <1>b, <1>p DEF MutationStep, GetMutants, Baseline, StartPool, ReturnScore,
                            RaiseError
<1>3. ~RedundancyStep(p)
  <2>1. pc[p] = "isolation" =>
          /\ ClausePath(p, Clause(p)) \in DOMAIN files
          /\ Clause(p) <= Clauses[Target(p)]
    <3>1. SUFFICES ASSUME pc[p] = "isolation"
                   PROVE  /\ ClausePath(p, Clause(p)) \in DOMAIN files
                          /\ Clause(p) <= Clauses[Target(p)]
      OBVIOUS
    <3>2. ClausePath(p, Clause(p)) \in DOMAIN files
      BY <1>b, <3>1 DEF GraphWanted
    <3>3. PICK q \in Processes :
            \/ pc[q] \in PoolPlaces /\ ClausePath(p, Clause(p)) \in MutantPaths(q)
            \/ pc[q] \in ClausePlaces /\ ClausePath(p, Clause(p)) \in ClausePaths(q)
      BY <3>2 DEF ScoringInv, FilesOwned
    <3>4. pc[q] \in ClausePlaces /\ ClausePath(p, Clause(p)) \in ClausePaths(q)
      BY <3>3, PathsDiffer DEF MutantPaths, ClausePath
    <3>5. Target(q) = Target(p) /\ Clause(p) \in 1 .. Clauses[Target(q)]
      BY <3>4, PathsDiffer DEF ClausePaths, ClausePath
    <3>6. Clauses[Target(p)] \in Nat
      BY <1>b, <3>1, Targets, Scoring, WorkspaceAssumption DEF ScoringInv, ClausePlaces
    <3> QED
      BY <3>2, <3>5, <3>6
  <2>2. pc[p] = "isolation" => ~(Clause(p) > Clauses[Target(p)])
    <3>1. SUFFICES ASSUME pc[p] = "isolation"
                   PROVE  ~(Clause(p) > Clauses[Target(p)])
      OBVIOUS
    <3>2. Clauses[Target(p)] \in Nat /\ Clause(p) \in Nat
      BY <1>b, <3>1, Targets, Scoring, ClauseInRange, WorkspaceAssumption
      DEF ScoringInv, ClausePlaces
    <3> QED
      BY <2>1, <3>1, <3>2
  <2> QED
    BY <2>1, <2>2, <1>b, <1>p
    DEF RedundancyStep, RedundancyBaseline, FindCallers, CallerBaseline, StartClauses,
        VerifyCaller, WriteClause, VerifyWithoutClause, StartCallerSide,
        JudgeWithoutCallers, Judge, ReturnRedundancy
<1> QED
  BY <1>1, <1>2, <1>3 DEF Step

(* Only the construction of a call graph changes what is cached.           *)
LEMMA GraphSteps ==
  ASSUME NEW p \in Processes, Step(p) \/ Interrupt(p)
  PROVE  ConstructCallGraph(p) \/ (UNCHANGED graphs /\ building' \subseteq building)
<1>1. CASE MutationStep(p)
  BY <1>1 DEF MutationStep, GetMutants, Baseline, StartPool, StartMutant, WriteMutant,
              VerifyMutant, Collect, CollectError, ReturnScore, RaiseError, workspaceVars
<1>2. CASE RedundancyStep(p)
  BY <1>2 DEF RedundancyStep, RedundancyBaseline, FindCallers, CallerBaseline,
              StartClauses, VerifyCaller, WriteClause, VerifyWithoutClause,
              StartCallerSide, JudgeWithoutCallers, Judge, ReturnRedundancy,
              AbortClauses, workspaceVars
<1>3. CASE Interrupt(p)
  BY <1>3 DEF Interrupt, InterruptPool, AbortClauses
<1>4. CASE Verify(p) \/ StartFunction(p) \/ ReportMutation(p) \/ ReportRedundancy(p)
  BY <1>4 DEF Verify, StartFunction, ReportMutation, ReportRedundancy
<1> QED
  BY <1>1, <1>2, <1>3, <1>4 DEF Step

(* What is cached stays, and nothing but the current graph is added.       *)
LEMMA GraphsGrow ==
  ASSUME ScoringInv, BuildsForUse, NEW p \in Processes, Step(p) \/ Interrupt(p)
  PROVE  /\ \A path \in DOMAIN graphs :
              path \in DOMAIN graphs' /\ graphs'[path] = graphs[path]
         /\ \A path \in DOMAIN graphs' \ DOMAIN graphs : graphs'[path] = CurrentGraph
<1>1. CASE ConstructCallGraph(p)
  BY <1>1 DEF ConstructCallGraph, BuildGraph, PublishGraph, Cache, BuildsForUse
<1> QED
  BY <1>1, GraphSteps

LEMMA BuildsForUseStep ==
  ASSUME ScoringInv, BuildsForUse, NEW p \in Processes, Step(p) \/ Interrupt(p)
  PROVE  BuildsForUse'
<1>1. ASSUME NEW b \in building', b # p
      PROVE  /\ b \in Processes /\ b \in building
             /\ UNCHANGED GraphWanted(b)
  <2>1. b \in building
    BY <1>1, GraphSteps DEF ConstructCallGraph, BuildGraph, PublishGraph
  <2> QED
    BY <1>1, <2>1, OthersKept DEF BuildsForUse
<1>2. ASSUME p \in building'
      PROVE  /\ UNCHANGED GraphWanted(p) /\ GraphWanted(p) # {}
             /\ \E path \in GraphWanted(p) : path \notin DOMAIN graphs /\ UNCHANGED graphs
  <2>1. ConstructCallGraph(p)
    <3>1. CASE p \in building /\ Interrupt(p)
      <4>1. building' = building
        BY <1>2, <3>1, GraphSteps DEF Interrupt, InterruptPool, AbortClauses
      <4>2. InterruptPool(p)
        BY <1>2, <3>1 DEF Interrupt
      <4>3. GraphWanted(p) = {}
        BY <4>2 DEF InterruptPool, GraphWanted
      <4> QED
        BY <3>1, <4>3 DEF BuildsForUse
    <3> QED
      BY <1>2, <3>1, GraphSteps, BuildersStay
  <2>2. PICK path \in GraphWanted(p) : BuildGraph(p, path)
    BY <1>2, <2>1 DEF ConstructCallGraph, PublishGraph
  <2>3. UNCHANGED GraphWanted(p)
    BY <2>1, <2>2 DEF ConstructCallGraph, BuildGraph, GraphWanted, ClausePath, Clause,
                      PathTo, Target, redundancyVars, Source
  <2> QED
    BY <2>2, <2>3 DEF BuildGraph
<1>3. ASSUME NEW b \in building'
      PROVE  /\ b \in Processes /\ GraphWanted(b)' # {}
             /\ \A path \in GraphWanted(b)' \cap DOMAIN graphs' :
                  graphs'[path] = CurrentGraph
  <2>1. CASE b = p
    <3>1. PICK path \in GraphWanted(p) : path \notin DOMAIN graphs /\ UNCHANGED graphs
      BY <1>2, <1>3, <2>1
    <3> QED
      BY <1>2, <1>3, <2>1, <3>1, OneGraph
  <2>2. CASE b # p
    BY <1>1, <1>3, <2>2, GraphsGrow DEF BuildsForUse
  <2> QED
    BY <2>1, <2>2
<1> QED
  BY <1>3 DEF BuildsForUse

-----------------------------------------------------------------------------
(* The callers of a clause.                                                *)

ClauseWork(p) ==
  \/ UNCHANGED <<pc[p], todo[p], baselines[p], callers[p], callerSide[p]>>
  \/ /\ pc[p] \notin ClausePlaces
     /\ pc'[p] \notin ClausePlaces \cup {"caller_baselines"}
     /\ UNCHANGED <<callers[p], callerSide[p]>>
  \/ /\ pc'[p] \notin ClausePlaces \cup {"caller_baselines"}
     /\ callers'[p] = <<>> /\ callerSide'[p] = <<>>

LEMMA ClauseSteps ==
  ASSUME ScoringInv, NEW p \in Processes, Step(p) \/ Interrupt(p)
  PROVE  \/ ClauseWork(p)
         \/ FindCallers(p)
         \/ StartClauses(p)
         \/ StartCallerSide(p)
         \/ JudgeWithoutCallers(p)
         \/ Judge(p)
         \/ \E g \in Function : CallerBaseline(p, g) \/ VerifyCaller(p, g)
<1> USE DEF ClausePlaces
<1>s. pc \in [Processes -> Places] /\ DOMAIN callers = Processes /\ DOMAIN callerSide = Processes
      /\ todo \in [Processes -> Seq(Function)]
  BY DEF ScoringInv, Shape, ClauseShape
<1>1. CASE ConstructCallGraph(p)
  BY <1>1 DEF ConstructCallGraph, BuildGraph, PublishGraph, redundancyVars, ClauseWork
<1>2. CASE Verify(p) \/ StartFunction(p)
  BY <1>2, <1>s DEF Verify, StartFunction, AbortWith, GoTo, redundancyVars, ClauseWork
<1>3. CASE MutationStep(p) /\ UNCHANGED redundancyVars
  <2>1. CASE GetMutants(p) \/ Baseline(p) \/ StartPool(p)
    BY <2>1, <1>3, <1>s DEF GetMutants, Baseline, StartPool, AbortWith, GoTo,
                            redundancyVars, ClauseWork
  <2>2. ASSUME NEW i \in DOMAIN futures[p],
               StartMutant(p, i) \/ WriteMutant(p, i) \/ VerifyMutant(p, i)
                 \/ Collect(p, i) \/ CollectError(p, i)
        PROVE  ClauseWork(p)
    BY <2>2, <1>3, <1>s DEF StartMutant, WriteMutant, VerifyMutant, Collect, CollectError,
                            workspaceVars, redundancyVars, ClauseWork
  <2>3. CASE ReturnScore(p) \/ RaiseError(p)
    BY <2>3, <1>3, <1>s DEF ReturnScore, RaiseError, AbortWith, GoTo, redundancyVars,
                            ClauseWork
  <2> QED
    BY <1>3, <2>1, <2>2, <2>3 DEF MutationStep
<1>4. CASE ReportMutation(p) \/ ReportRedundancy(p)
  BY <1>4, <1>s DEF ReportMutation, ReportRedundancy, GoTo, NextFunction, redundancyVars,
                    ClauseWork
<1>5. ASSUME AbortWith(p, "interrupted") \/ AbortWith(p, "unexpected_return_code"), Forget(p)
      PROVE  ClauseWork(p)
  BY <1>5, <1>s DEF AbortWith, Forget, ClauseWork
<1>6. CASE RedundancyStep(p)
  <2>1. CASE RedundancyBaseline(p)
    BY <2>1, <1>s DEF RedundancyBaseline, AbortWith, GoTo, ClauseWork
  <2>2. CASE WriteClause(p)
    BY <2>2 DEF WriteClause, redundancyVars, ClauseWork
  <2>3. CASE VerifyWithoutClause(p)
    BY <2>3, <1>5 DEF VerifyWithoutClause, AbortClauses, ClauseWork
  <2>4. CASE ReturnRedundancy(p)
    BY <2>4, <1>s DEF ReturnRedundancy, GoTo, Forget, ClauseWork
  <2> QED
    BY <1>6, <2>1, <2>2, <2>3, <2>4 DEF RedundancyStep
<1>7. CASE Interrupt(p)
  BY <1>7, <1>5, <1>s DEF Interrupt, InterruptPool, AbortClauses, AbortWith,
                          redundancyVars, ClauseWork
<1> QED
  BY <1>1, <1>2, <1>3, <1>4, <1>6, <1>7 DEF Step

(* run_cbmc of a caller on the source, which no mutant replaces.           *)
LEMMA SourceAnswers ==
  ASSUME ScoringInv, NEW g
  PROVE  RedundancyAnswers(g, Source) = Answers(g, Original, FALSE)
<1>1. Source \notin DOMAIN files
  BY PathsDiffer DEF ScoringInv, FilesOwned, MutantPaths, ClausePaths, ClausePath
<1> QED
  BY <1>1 DEF RedundancyAnswers, Answer

(* run_cbmc of a caller on the file without the clause.                    *)
LEMMA WeakenedAnswers ==
  ASSUME ScoringInv, NEW p \in Processes, pc[p] = "caller_side",
         Clause(p) <= Clauses[Target(p)], NEW g,
         NEW answer \in RedundancyAnswers(g, ClausePath(p, Clause(p))) \cap Expected
  PROVE  answer \in Weakened(p, g, Clause(p))
<1>1. Target(p) \in Function /\ Clause(p) \in 1 .. Clauses[Target(p)]
  BY Targets, Scoring, ClauseInRange DEF ScoringInv, ClausePlaces
<1>2. ClausePath(p, Clause(p)) \in DOMAIN files =>
        files[ClausePath(p, Clause(p))] = ClauseMutant(Target(p), Clause(p))
  BY <1>1 DEF ScoringInv, FilesTrue, ClausePath
<1>3. ClausePath(p, Clause(p)) # Source
  BY PathsDiffer DEF ClausePath
<1> QED
  BY <1>2, <1>3 DEF RedundancyAnswers, Answer, Expected, Weakened

LEMMA CallersTrueStep ==
  ASSUME RedundancyInv, NEW p \in Processes, Step(p) \/ Interrupt(p)
  PROVE  CallersTrue'
<1> USE DEF ClausePlaces
<1>s. ScoringInv /\ BuildsForUse /\ \A q \in Processes : CallersTrueOf(q)
  BY DEF RedundancyInv, CallersTrue
<1>t. Shape /\ ClauseShape
  BY <1>s DEF ScoringInv
<1>g. \A path \in DOMAIN graphs : path \in DOMAIN graphs' /\ graphs'[path] = graphs[path]
  BY <1>s, GraphsGrow
(* It is enough to know as much of the callers as before.                  *)
<1>k. ASSUME NEW q \in Processes, UNCHANGED <<pc[q], todo[q], baselines[q]>>
      PROVE  CallersTrueOf(q)'
  BY <1>k, <1>s, <1>g DEF CallersTrueOf, Target
<1>p. CallersTrueOf(p)'
  <2>1. CASE ClauseWork(p)
    BY <2>1, <1>k DEF ClauseWork, CallersTrueOf
  <2>2. CASE FindCallers(p)
    <3>1. CASE pc'[p] = "aborted"
      BY <3>1 DEF CallersTrueOf
    <3>2. CASE pc'[p] # "aborted"
      <4>1. /\ Source \in DOMAIN graphs /\ UNCHANGED <<graphs, todo>>
            /\ pc'[p] = "caller_baselines"
            /\ baselines'[p] = [g \in InFileCallers(Target(p), graphs[Source]) |-> "unknown"]
        BY <2>2, <3>2, <1>t DEF FindCallers, HasGraph, AbortWith, GoTo, GraphAt, Shape,
                                ClauseShape
      <4> QED
        BY <4>1 DEF CallersTrueOf, Target
    <3> QED
      BY <3>1, <3>2
  <2>3. ASSUME NEW g \in Function, CallerBaseline(p, g)
        PROVE  CallersTrueOf(p)'
    <3>1. PICK answer \in Answers(g, Original, FALSE) :
            baselines' = [baselines EXCEPT ![p][g] =
                            IF answer = "success" THEN "verified" ELSE "unverified"]
      BY <2>3, <1>s, SourceAnswers DEF CallerBaseline
    <3>2. /\ DOMAIN baselines'[p] = DOMAIN baselines[p]
          /\ \A h \in DOMAIN baselines[p] \ {g} : baselines'[p][h] = baselines[p][h]
          /\ g \in DOMAIN baselines[p]
          /\ baselines'[p][g] = IF answer = "success" THEN "verified" ELSE "unverified"
          /\ pc[p] = "caller_baselines" /\ UNCHANGED <<pc, todo, graphs>>
      BY <2>3, <3>1, <1>t DEF CallerBaseline, ClauseShape, workspaceVars
    <3>3. CallersTrueOf(p)
      BY <1>s
    <3> QED
      BY <3>2, <3>3 DEF CallersTrueOf, Target
  <2>4. CASE StartClauses(p)
    <3>1. /\ pc[p] = "caller_baselines" /\ UNCHANGED <<todo, baselines, graphs>>
          /\ \A g \in DOMAIN baselines[p] : baselines[p][g] # "unknown"
      BY <2>4 DEF StartClauses, GoTo, redundancyVars
    <3> QED
      BY <3>1, <1>s DEF CallersTrueOf, Target
  <2>5. CASE StartCallerSide(p)
    <3>1. /\ pc[p] = "isolation" /\ pc'[p] = "caller_side"
          /\ UNCHANGED <<todo, baselines, graphs>>
      BY <2>5, <1>t DEF StartCallerSide, GoTo, redundancyVars, Shape
    <3> QED
      BY <3>1, <1>s DEF CallersTrueOf, Target
  <2>6. CASE JudgeWithoutCallers(p) \/ Judge(p)
    BY <2>6, <1>k DEF JudgeWithoutCallers, Judge, workspaceVars
  <2>7. ASSUME NEW g \in Function, VerifyCaller(p, g)
        PROVE  CallersTrueOf(p)'
    <3>1. \/ pc'[p] = "aborted"
          \/ UNCHANGED <<pc, todo, baselines>>
      BY <2>7, <1>t DEF VerifyCaller, AbortClauses, AbortWith, Shape
    <3> QED
      BY <3>1, <1>k DEF CallersTrueOf
  <2> QED
    BY <1>s, <2>1, <2>2, <2>3, <2>4, <2>5, <2>6, <2>7, ClauseSteps
<1>q. ASSUME NEW q \in Processes, q # p
      PROVE  CallersTrueOf(q)'
  BY <1>q, <1>s, <1>k, OthersKept DEF redundancyOf
<1> QED
  BY <1>p, <1>q DEF CallersTrue

LEMMA ClausesTrueStep ==
  ASSUME RedundancyInv, NEW p \in Processes, Step(p) \/ Interrupt(p)
  PROVE  ClausesTrue'
<1> USE DEF ClausePlaces
<1>s. ScoringInv /\ \A q \in Processes : ClausesTrueOf(q)
  BY DEF RedundancyInv, ClausesTrue
<1>t. /\ Shape /\ ClauseShape
      /\ \A g \in DOMAIN callers[p] : callers[p][g] \in CallerResults
      /\ callerSide[p] \in Seq(CallerSideVerdicts)
  BY <1>s DEF ScoringInv, ClauseShape
<1>k. ASSUME NEW q \in Processes,
             UNCHANGED <<pc[q], todo[q], baselines[q], callers[q], callerSide[q]>>
      PROVE  ClausesTrueOf(q)'
  <2>1. ClausesTrueOf(q)
    BY <1>s
  <2>2. /\ UNCHANGED VerifyingCallers(q)
        /\ pc[q] = "caller_side" => UNCHANGED Clause(q)
        /\ \A g, i : Weakened(q, g, i)' = Weakened(q, g, i)
    BY <1>k DEF VerifyingCallers, Clause, Weakened, Target
  <2> QED
    BY <1>k, <2>1, <2>2 DEF ClausesTrueOf
<1>w. UNCHANGED todo => \A g, i : Weakened(p, g, i)' = Weakened(p, g, i)
  BY DEF Weakened, Target
<1>p. ClausesTrueOf(p)'
  <2>1. CASE ClauseWork(p)
    <3>1. CASE pc'[p] # "caller_side" /\ DOMAIN callerSide'[p] = {} /\ DOMAIN callers'[p] = {}
      BY <3>1 DEF ClausesTrueOf
    <3>2. CASE pc[p] \notin ClausePlaces /\ pc'[p] \notin ClausePlaces
               /\ UNCHANGED <<callers[p], callerSide[p]>>
      BY <3>1, <3>2, <1>s DEF ClausesTrueOf
    <3> QED
      BY <2>1, <3>1, <3>2, <1>k DEF ClauseWork
  <2>2. CASE FindCallers(p) \/ StartClauses(p)
    <3>1. /\ pc[p] # "caller_side" /\ pc'[p] # "caller_side"
          /\ UNCHANGED <<callers, callerSide>>
      BY <2>2, <1>t DEF FindCallers, StartClauses, AbortWith, GoTo, redundancyVars, Shape
    <3> QED
      BY <3>1, <1>s DEF ClausesTrueOf
  <2>3. CASE StartCallerSide(p)
    <3>1. pc[p] # "caller_side" /\ UNCHANGED <<callers, callerSide>>
      BY <2>3 DEF StartCallerSide, redundancyVars
    <3>2. DOMAIN callers'[p] = {} /\ DOMAIN callerSide'[p] = {}
      BY <3>1, <1>s DEF ClausesTrueOf
    <3> QED
      BY <3>2 DEF ClausesTrueOf
  <2>4. CASE JudgeWithoutCallers(p) \/ Judge(p)
    <3> DEFINE n == Len(callerSide[p])
    <3>1. PICK verdict \in CallerSideVerdicts :
            /\ callerSide' = [callerSide EXCEPT ![p] = Append(@, verdict)]
            /\ verdict = "redundant_for_callers" =>
                 \A g \in VerifyingCallers(p) : "success" \in Weakened(p, g, n + 1)
            /\ verdict = "required_by_callers" =>
                 \E g \in VerifyingCallers(p) : "failure" \in Weakened(p, g, n + 1)
      <4>0. pc[p] = "caller_side" /\ Clause(p) = n + 1
        BY <2>4 DEF JudgeWithoutCallers, Judge, Clause
      <4>1. CASE JudgeWithoutCallers(p)
        <5>1. CASE DOMAIN baselines[p] = {}
          BY <4>1, <5>1 DEF JudgeWithoutCallers, CallerSideVerdicts
        <5>2. CASE DOMAIN baselines[p] # {}
          BY <4>1, <5>2 DEF JudgeWithoutCallers, CallerSideVerdicts
        <5> QED
          BY <5>1, <5>2
      <4>2. CASE Judge(p)
        <5>1. /\ callerSide' = [callerSide EXCEPT ![p] = Append(@, VerdictOf(callers[p]))]
              /\ DOMAIN callers[p] = VerifyingCallers(p)
          BY <4>2 DEF Judge
        <5>2. /\ VerdictOf(callers[p]) \in CallerSideVerdicts
              /\ VerdictOf(callers[p]) = "redundant_for_callers" =>
                   \A g \in DOMAIN callers[p] : callers[p][g] = "verified"
              /\ VerdictOf(callers[p]) = "required_by_callers" =>
                   \E g \in DOMAIN callers[p] : callers[p][g] = "failed"
          BY <1>t DEF VerdictOf, CallerSideVerdicts, CallerResults
        <5>3. \A g \in DOMAIN callers[p] :
                /\ callers[p][g] = "verified" => "success" \in Weakened(p, g, n + 1)
                /\ callers[p][g] = "failed" => "failure" \in Weakened(p, g, n + 1)
          BY <4>0, <1>s DEF ClausesTrueOf
        <5> QED
          BY <5>1, <5>2, <5>3
      <4> QED
        BY <2>4, <4>1, <4>2
    <3>2. /\ pc[p] = "caller_side" /\ UNCHANGED <<pc, todo, baselines>>
          /\ DOMAIN callers'[p] = {}
      <4>1. CASE JudgeWithoutCallers(p)
        BY <4>1, <1>s DEF JudgeWithoutCallers, ClausesTrueOf, workspaceVars
      <4>2. CASE Judge(p)
        BY <4>2, <1>t DEF Judge, ClauseShape, workspaceVars
      <4> QED
        BY <2>4, <4>1, <4>2
    <3>3. /\ n \in Nat /\ DOMAIN callerSide[p] = 1 .. n
          /\ DOMAIN callerSide'[p] = 1 .. n + 1
          /\ callerSide'[p][n + 1] = verdict
          /\ \A i \in 1 .. n : callerSide'[p][i] = callerSide[p][i]
      BY <3>1, <1>t DEF ClauseShape
    <3>4. UNCHANGED VerifyingCallers(p) /\ (\A g, i : Weakened(p, g, i)' = Weakened(p, g, i))
      BY <3>2, <1>w DEF VerifyingCallers
    <3>5. ASSUME NEW i \in DOMAIN callerSide'[p]
          PROVE  /\ callerSide'[p][i] = "redundant_for_callers" =>
                      \A g \in VerifyingCallers(p) : "success" \in Weakened(p, g, i)
                 /\ callerSide'[p][i] = "required_by_callers" =>
                      \E g \in VerifyingCallers(p) : "failure" \in Weakened(p, g, i)
      <4>1. CASE i = n + 1
        BY <3>1, <3>3, <4>1
      <4>2. CASE i \in 1 .. n
        <5>1. i \in DOMAIN callerSide[p] /\ callerSide'[p][i] = callerSide[p][i]
          BY <3>3, <4>2
        <5> QED
          BY <5>1, <3>2, <1>s DEF ClausesTrueOf
      <4> QED
        BY <3>3, <3>5, <4>1, <4>2
    <3> QED
      BY <3>2, <3>4, <3>5 DEF ClausesTrueOf
  <2>5. ASSUME NEW g \in Function, CallerBaseline(p, g)
        PROVE  ClausesTrueOf(p)'
    <3>1. /\ pc[p] = "caller_baselines"
          /\ UNCHANGED <<pc, callers, callerSide>>
      BY <2>5 DEF CallerBaseline, workspaceVars
    <3> QED
      BY <3>1, <1>s DEF ClausesTrueOf
  <2>6. ASSUME NEW g \in Function, VerifyCaller(p, g)
        PROVE  ClausesTrueOf(p)'
    <3>1. PICK answer \in RedundancyAnswers(g, ClausePath(p, Clause(p))) :
            IF answer \notin Expected
            THEN AbortClauses(p, "unexpected_return_code")
            ELSE /\ callers' = [callers EXCEPT ![p] =
                      [h \in DOMAIN @ \cup {g} |->
                         IF h # g THEN @[h]
                         ELSE CASE answer = "success" -> "verified"
                                [] answer = "failure" -> "failed"
                                [] answer = "timeout" -> "timed_out"]]
                 /\ UNCHANGED <<pc, todo, baselines, callerSide>>
      BY <2>6 DEF VerifyCaller
    <3>2. CASE answer \notin Expected
      BY <2>1, <3>1, <3>2, <1>t DEF AbortClauses, AbortWith, Forget, ClauseWork, Shape,
                                    ClauseShape
    <3>3. CASE answer \in Expected
      <4> DEFINE r == CASE answer = "success" -> "verified"
                        [] answer = "failure" -> "failed"
                        [] answer = "timeout" -> "timed_out"
      <4>1. /\ r = "verified" => answer = "success"
            /\ r = "failed" => answer = "failure"
        BY <3>3 DEF Expected
      <4>2. callers' = [callers EXCEPT ![p] =
                 [h \in DOMAIN callers[p] \cup {g} |-> IF h # g THEN callers[p][h] ELSE r]]
        BY <3>1, <3>3
      <4> HIDE DEF r
      <4>3. /\ pc[p] = "caller_side" /\ g \in VerifyingCallers(p)
            /\ UNCHANGED <<pc, todo, baselines, callerSide>>
            /\ DOMAIN callers'[p] = DOMAIN callers[p] \cup {g}
            /\ \A h \in DOMAIN callers[p] \ {g} : callers'[p][h] = callers[p][h]
            /\ callers'[p][g] = r
        BY <2>6, <3>1, <3>3, <4>2, <1>t DEF VerifyCaller, ClauseShape
      <4>4. answer \in Weakened(p, g, Clause(p))
        BY <2>6, <3>3, <1>s, WeakenedAnswers DEF VerifyCaller
      <4>5. /\ UNCHANGED <<VerifyingCallers(p), Clause(p)>>
            /\ \A h, i : Weakened(p, h, i)' = Weakened(p, h, i)
        BY <4>3, <1>w DEF VerifyingCallers, Clause
      <4>6. \A h \in DOMAIN callers'[p] :
              /\ h \in VerifyingCallers(p)
              /\ callers'[p][h] = "verified" => "success" \in Weakened(p, h, Clause(p))
              /\ callers'[p][h] = "failed" => "failure" \in Weakened(p, h, Clause(p))
        BY <4>1, <4>3, <4>4, <1>s DEF ClausesTrueOf
      <4>7. ClausesTrueOf(p)
        BY <1>s
      <4> QED
        BY <4>3, <4>5, <4>6, <4>7 DEF ClausesTrueOf
    <3> QED
      BY <3>2, <3>3
  <2> QED
    BY <1>s, <2>1, <2>2, <2>3, <2>4, <2>5, <2>6, ClauseSteps
<1>q. ASSUME NEW q \in Processes, q # p
      PROVE  ClausesTrueOf(q)'
  BY <1>q, <1>s, <1>k, OthersKept DEF redundancyOf
<1> QED
  BY <1>p, <1>q DEF ClausesTrue

LEMMA RedundancyInvStep ==
  ASSUME RedundancyInv, [Next]_vars
  PROVE  RedundancyInv'
<1>1. ASSUME NEW p \in Processes, Step(p) \/ Interrupt(p)
      PROVE  RedundancyInv'
  BY <1>1, ScoringStep, BuildsForUseStep, CallersTrueStep, ClausesTrueStep
  DEF RedundancyInv, Next
<1>2. CASE UNCHANGED vars
  <2>1. ScoringInv'
    BY ScoringStep DEF RedundancyInv
  <2>2. \A p : /\ UNCHANGED <<GraphWanted(p), VerifyingCallers(p), Clause(p), Target(p)>>
               /\ \A g, i : Weakened(p, g, i)' = Weakened(p, g, i)
    BY <1>2 DEF vars, workspaceVars, redundancyVars, GraphWanted, VerifyingCallers,
                Clause, ClausePath, PathTo, Target, Weakened, Source
  <2>3. BuildsForUse'
    BY <1>2, <2>2 DEF RedundancyInv, BuildsForUse, vars, workspaceVars
  <2>4. CallersTrue'
    BY <1>2, <2>2 DEF RedundancyInv, CallersTrue, CallersTrueOf, vars, workspaceVars,
                      redundancyVars
  <2>5. CallersTrue /\ ClausesTrue
    BY DEF RedundancyInv
  <2>6. ClausesTrue'
    BY <1>2, <2>2, <2>5 DEF ClausesTrue, ClausesTrueOf, vars, workspaceVars,
                            redundancyVars
  <2> QED
    BY <2>1, <2>3, <2>4, <2>6 DEF RedundancyInv
<1> QED
  BY <1>1, <1>2 DEF Next

(* What is cached, found and said of the clauses, at every step.           *)
LEMMA RedundancyInvariant == Spec => []RedundancyInv
<1>1. Init => RedundancyInv
  <2>1. SUFFICES ASSUME Init
                 PROVE  RedundancyInv
    OBVIOUS
  <2>2. \A p \in Processes : pc[p] \in {"verify", "function"}
    BY <2>1 DEF Init
  <2>3. BuildsForUse /\ CallersTrue /\ ClausesTrue
    BY <2>1, <2>2 DEF Init, RedundancyInit, BuildsForUse, CallersTrue, CallersTrueOf,
                ClausesTrue, ClausesTrueOf, ClausePlaces
  <2> QED
    BY <2>1, <2>3, ScoringInit DEF RedundancyInv
<1>2. RedundancyInv /\ [Next]_vars => RedundancyInv'
  BY RedundancyInvStep
<1> QED
  BY <1>1, <1>2, PTL DEF Spec

(* With the call graph of the source as it is, a clause called redundant   *)
(* for the callers is one that none of them needs that verifies with it,   *)
(* and a clause called required is one that such a caller fails without.   *)
THEOREM RedundancyCorrect == Spec => []RedundancyIsSound
<1>1. RedundancyInv => RedundancyIsSound
  <2>1. SUFFICES ASSUME RedundancyInv, graphs[Source] = CurrentGraph,
                        NEW p \in Processes, NEW i \in DOMAIN callerSide[p]
                 PROVE  /\ callerSide[p][i] = "redundant_for_callers" =>
                             \A g \in InFileCallers(Target(p), CurrentGraph) :
                               Answers(g, Original, FALSE) = {"success"}
                                 => "success" \in Weakened(p, g, i)
                        /\ callerSide[p][i] = "required_by_callers" =>
                             \E g \in InFileCallers(Target(p), CurrentGraph) :
                               /\ "success" \in Answers(g, Original, FALSE)
                               /\ "failure" \in Weakened(p, g, i)
    BY DEF RedundancyIsSound, GraphAt, Weakened
  <2>2. CallersTrueOf(p) /\ ClausesTrueOf(p)
    BY <2>1 DEF RedundancyInv, CallersTrue, ClausesTrue
  <2>3. pc[p] = "caller_side"
    BY <2>1, <2>2 DEF ClausesTrueOf
  <2>4. /\ DOMAIN baselines[p] = InFileCallers(Target(p), CurrentGraph)
        /\ \A g \in DOMAIN baselines[p] :
             /\ baselines[p][g] \in {"verified", "unverified"}
             /\ baselines[p][g] = "verified" => "success" \in Answers(g, Original, FALSE)
             /\ baselines[p][g] = "unverified" => Answers(g, Original, FALSE) # {"success"}
    BY <2>1, <2>2, <2>3 DEF CallersTrueOf, ClausePlaces
  <2>5. /\ callerSide[p][i] = "redundant_for_callers" =>
             \A g \in VerifyingCallers(p) : "success" \in Weakened(p, g, i)
        /\ callerSide[p][i] = "required_by_callers" =>
             \E g \in VerifyingCallers(p) : "failure" \in Weakened(p, g, i)
    BY <2>1, <2>2, <2>3 DEF ClausesTrueOf
  <2> QED
    BY <2>4, <2>5 DEF VerifyingCallers
<1> QED
  BY <1>1, RedundancyInvariant, PTL

-----------------------------------------------------------------------------
(* What the stream says.                                                   *)

MutationScoreTrue(p, f, s) ==
  LET MutantsWith(answer) ==
        {i \in DOMAIN Mutants[f] :
           answer \in Answers(f, Mutants[f][i], Job[p].include_dirs)}
  IN  /\ s.num_mutants = Len(Mutants[f])
      /\ s.num_killed <= Cardinality(MutantsWith("failure"))
      /\ s.num_survived <= Cardinality(MutantsWith("success"))

RedundancyScoreTrue(f, s) ==
  LET ClausesWith(answer) ==
        {i \in 1 .. Clauses[f] : answer \in Answers(f, ClauseMutant(f, i), FALSE)}
  IN  /\ s.total_clauses = Clauses[f]
      /\ s.num_required_in_isolation = s.total_clauses - s.num_redundant_in_isolation
                                          - s.num_in_isolation_timed_out
      /\ s.num_redundant_in_isolation <= Cardinality(ClausesWith("success"))
      /\ s.num_required_in_isolation <= Cardinality(ClausesWith("failure"))

(* The same of what is written of it.                                      *)
RedundancySummaryTrue(f, s) ==
  LET ClausesWith(answer) ==
        {i \in 1 .. Clauses[f] : answer \in Answers(f, ClauseMutant(f, i), FALSE)}
      rate == s.in_isolation_redundancy_rate
  IN  /\ s.total_clauses = Clauses[f]
      /\ rate.part <= Cardinality(ClausesWith("success"))
      /\ rate.whole - rate.part <= Cardinality(ClausesWith("failure"))

RecordTrue(p, r) ==
  /\ r.kind = "mutation_summary" /\ r.score.tested =>
       MutationScoreTrue(p, r.function, r.score)
  /\ r.kind = "clause_redundancy_summary" => RedundancySummaryTrue(r.function, r.score)

Records ==
  [kind : {"mutation_summary"}, function : Function, score : MutationScores]
    \cup [kind : {"clause_redundancy_summary"}, function : Function,
          score : RedundancySummaries]

StreamShape ==
  /\ score \in [Processes -> MutationScores]
  /\ redundancy \in [Processes -> RedundancyScores]
  /\ stream \in [Processes -> Seq(Records)]
  /\ \A p \in Processes : vresults[p] \in Seq(VerificationResults \cup {"none"})

(* A score is of the function that is being scored, and is forgotten when  *)
(* its record has been written.                                            *)
ScoresTrueOf(p) ==
  /\ score[p].tested =>
       pc[p] \in {"tested", "aborted"} /\ MutationScoreTrue(p, Target(p), score[p])
  /\ redundancy[p].scored =>
       pc[p] \in {"scored", "aborted"} /\ RedundancyScoreTrue(Target(p), redundancy[p])

(* The results in isolation are those of the clauses so far, in order.     *)
IsolatedTrueOf(p) ==
  /\ pc[p] \notin ClausePlaces => isolated[p] = <<>>
  /\ pc[p] = "isolation" => Len(isolated[p]) <= Clauses[Target(p)]
  /\ pc[p] = "caller_side" => Len(isolated[p]) = Clauses[Target(p)]
  /\ \A i \in DOMAIN isolated[p] :
       LET answers == Answers(Target(p), ClauseMutant(Target(p), i), FALSE)
       IN  /\ isolated[p][i] = "redundant" => "success" \in answers
           /\ isolated[p][i] = "required" => "failure" \in answers

StreamInv ==
  /\ StreamShape
  /\ \A p \in Processes : ScoresTrueOf(p) /\ IsolatedTrueOf(p)
  /\ \A p \in Processes : \A k \in DOMAIN stream[p] : RecordTrue(p, stream[p][k])

(* The set of the indices of a sequence.                                   *)
LEMMA Indices ==
  ASSUME NEW n \in Nat
  PROVE  IsFiniteSet(1 .. n) /\ Cardinality(1 .. n) = n
BY FS_Interval

(* Taking a part of a finite set away.                                     *)
LEMMA Removed ==
  ASSUME NEW D, IsFiniteSet(D), NEW K \in SUBSET D
  PROVE  /\ IsFiniteSet(D \ K) /\ IsFiniteSet(K)
         /\ Cardinality(D \ K) = Cardinality(D) - Cardinality(K)
         /\ Cardinality(D) \in Nat /\ Cardinality(K) \in Nat
<1>1. D \cap K = K
  OBVIOUS
<1> QED
  BY <1>1, FS_Difference, FS_Subset, FS_CardinalityType

LEMMA ShortSequences ==
  ASSUME NEW S, NEW a \in S, NEW b \in S, NEW c \in S, NEW d \in S, NEW e \in S, NEW g \in S
  PROVE  <<a>> \in Seq(S) /\ <<a, b, c, d, e, g>> \in Seq(S)
<1> DEFINE t == <<a, b, c, d, e, g>>
<1>1. t = [i \in 1 .. 6 |-> t[i]]
  OBVIOUS
<1>2. t[1] = a /\ t[2] = b /\ t[3] = c /\ t[4] = d /\ t[5] = e /\ t[6] = g
  OBVIOUS
<1>3. \A i \in 1 .. 6 : i = 1 \/ i = 2 \/ i = 3 \/ i = 4 \/ i = 5 \/ i = 6
  OBVIOUS
<1> HIDE DEF t
<1>4. \A i \in 1 .. 6 : t[i] \in S
  BY <1>2, <1>3
<1>5. t \in Seq(S)
  BY <1>1, <1>4
<1> QED
  BY <1>5 DEF t

(* What an operator is replaced by is a sequence of operators.             *)
LEMMA ReplacementsType ==
  \A t \in {Replacements.RELATIONAL, Replacements.ARITHMETIC, Replacements.LOGICAL} :
    \A o \in DOMAIN t : t[o] \in Seq(Operators)
<1> DEFINE relational == <<"<", "<=", ">", ">=", "==", "!=">>
<1>1. relational \in Seq(Operators)
  <2>1. /\ "<" \in Operators /\ "<=" \in Operators /\ ">" \in Operators
        /\ ">=" \in Operators /\ "==" \in Operators /\ "!=" \in Operators
    BY DEF Operators
  <2> QED
    BY <2>1, ShortSequences
<1>2. \A o : RemoveFirst(relational, o) \in Seq(Operators)
  BY <1>1, RemoveFirstType
<1>3. \A a \in Operators : <<a>> \in Seq(Operators)
  BY ShortSequences
<1>4. ASSUME NEW o \in DOMAIN Replacements.RELATIONAL
      PROVE  Replacements.RELATIONAL[o] \in Seq(Operators)
  <2>1. \/ Replacements.RELATIONAL[o] = <<"!=">> \/ Replacements.RELATIONAL[o] = <<"==">>
        \/ Replacements.RELATIONAL[o] = RemoveFirst(relational, o)
    <3>1. CASE o = "=="
      BY <3>1 DEF Replacements
    <3>2. CASE o = "!="
      BY <3>2 DEF Replacements
    <3>3. CASE o # "==" /\ o # "!="
      BY <1>4, <3>3 DEF Replacements
    <3> QED
      BY <3>1, <3>2, <3>3
  <2>2. "!=" \in Operators /\ "==" \in Operators
    BY DEF Operators
  <2> QED
    BY <1>2, <1>3, <2>1, <2>2
<1>5. ASSUME NEW o \in DOMAIN Replacements.ARITHMETIC
      PROVE  Replacements.ARITHMETIC[o] \in Seq(Operators)
  <2>1. \/ Replacements.ARITHMETIC[o] = <<"-">> \/ Replacements.ARITHMETIC[o] = <<"+">>
        \/ Replacements.ARITHMETIC[o] = <<"*">>
    <3>1. CASE o = "+"
      BY <3>1 DEF Replacements
    <3>2. CASE o = "-"
      BY <3>2 DEF Replacements
    <3>3. CASE o # "+" /\ o # "-"
      BY <1>5, <3>3 DEF Replacements
    <3> QED
      BY <3>1, <3>2, <3>3
  <2>2. "-" \in Operators /\ "+" \in Operators /\ "*" \in Operators
    BY DEF Operators
  <2> QED
    BY <1>3, <2>1, <2>2
<1>6. ASSUME NEW o \in DOMAIN Replacements.LOGICAL
      PROVE  Replacements.LOGICAL[o] \in Seq(Operators)
  <2>1. Replacements.LOGICAL[o] = <<"||">> \/ Replacements.LOGICAL[o] = <<"&&">>
    BY <1>6 DEF Replacements
  <2>2. "||" \in Operators /\ "&&" \in Operators
    BY DEF Operators
  <2> QED
    BY <1>3, <2>1, <2>2
<1> QED
  BY <1>4, <1>5, <1>6

(* The mutants of a function are a sequence.                               *)
LEMMA MutantsType ==
  ASSUME NEW f \in Function
  PROVE  /\ DOMAIN Mutants[f] = 1 .. Len(Mutants[f])
         /\ Len(Mutants[f]) \in Nat
<1> DEFINE Text == [change : {"operator"}, function : {f}, at : Nat, to : Operators]
<1>b. Body[f] \in Seq([op : Operators, annotation : BOOLEAN])
  BY WorkspaceAssumption
<1>1. ASSUME NEW table, \A o \in DOMAIN table : table[o] \in Seq(Operators)
      PROVE  MutantsOf(f, table) \in Seq(Text)
  <2> DEFINE texts ==
        [i \in DOMAIN Body[f] |->
           IF Body[f][i].annotation \/ Body[f][i].op \notin DOMAIN table THEN <<>>
           ELSE [k \in DOMAIN table[Body[f][i].op] |->
                   [change |-> "operator", function |-> f, at |-> i,
                    to |-> table[Body[f][i].op][k]]]]
  <2>1. ASSUME NEW i \in DOMAIN Body[f]
        PROVE  texts[i] \in Seq(Text)
    <3>1. CASE Body[f][i].annotation \/ Body[f][i].op \notin DOMAIN table
      BY <3>1
    <3>2. CASE ~ (Body[f][i].annotation \/ Body[f][i].op \notin DOMAIN table)
      <4> DEFINE replaced == table[Body[f][i].op]
      <4>1. replaced \in Seq(Operators)
        BY <1>1, <3>2
      <4>2. i \in Nat
        BY <1>b
      <4>3. \A k \in 1 .. Len(replaced) :
              [change |-> "operator", function |-> f, at |-> i, to |-> replaced[k]] \in Text
        BY <4>1, <4>2
      <4>4. texts[i] = [k \in 1 .. Len(replaced) |->
                          [change |-> "operator", function |-> f, at |-> i,
                           to |-> replaced[k]]]
        <5>1. texts[i] = [k \in DOMAIN replaced |->
                            [change |-> "operator", function |-> f, at |-> i,
                             to |-> replaced[k]]]
          BY <3>2, Zenon
        <5>2. DOMAIN replaced = 1 .. Len(replaced)
          BY <4>1
        <5> HIDE DEF texts, Text, replaced
        <5> QED
          BY <5>1, <5>2
      <4> HIDE DEF texts, Text, replaced
      <4> QED
        BY <4>1, <4>3, <4>4
    <3> QED
      BY <3>1, <3>2
  <2>2. texts \in Seq(Seq(Text))
    <3>1. DOMAIN Body[f] = 1 .. Len(Body[f]) /\ Len(Body[f]) \in Nat
      BY <1>b
    <3>2. DOMAIN texts = DOMAIN Body[f] /\ texts = [i \in DOMAIN texts |-> texts[i]]
      OBVIOUS
    <3> HIDE DEF texts, Text
    <3>3. texts \in [1 .. Len(Body[f]) -> Seq(Text)]
      BY <2>1, <3>1, <3>2
    <3> QED
      BY <3>1, <3>3
  <2> HIDE DEF texts, Text
  <2>3. FlattenSeq(texts) \in Seq(Text)
    BY <2>2, FlattenType
  <2> QED
    BY <2>3 DEF MutantsOf, texts
<1> HIDE DEF Text
<1>2. \A t \in {Replacements.RELATIONAL, Replacements.ARITHMETIC, Replacements.LOGICAL} :
        \A o \in DOMAIN t : t[o] \in Seq(Operators)
  BY ReplacementsType
<1>3. Mutants[f] \in Seq(Text)
  <2>1. /\ MutantsOf(f, Replacements.RELATIONAL) \in Seq(Text)
        /\ MutantsOf(f, Replacements.ARITHMETIC) \in Seq(Text)
        /\ MutantsOf(f, Replacements.LOGICAL) \in Seq(Text)
    BY <1>1, <1>2
  <2> QED
    BY <2>1, ConcatProperties DEF Mutants
<1> QED
  BY <1>3

(* A verdict on a mutant tells the answer of run_cbmc that it comes from.  *)
LEMMA VerdictTells ==
  ASSUME ScoringInv, NEW p \in Processes, pc[p] = "pool",
         NEW i \in DOMAIN vresults[p], vresults[p][i] # "none"
  PROVE  LET answers == Answers(Target(p), Mutants[Target(p)][i], Job[p].include_dirs)
         IN  /\ i \in DOMAIN Mutants[Target(p)]
             /\ vresults[p][i] = "killed" => "failure" \in answers
             /\ vresults[p][i] = "survived" => "success" \in answers
<1>1. Target(p) \in Function /\ i \in DOMAIN Mutants[Target(p)]
  BY Targets, Scoring DEF ScoringInv, Shape, PoolPlaces
<1>2. Mutants[Target(p)][i] \in Texts
  <2>1. Mutants[Target(p)][i] \in ToSet(Mutants[Target(p)])
    BY <1>1 DEF ToSet
  <2> QED
    BY <1>1, <2>1 DEF Texts
<1>3. Job[p].include_dirs \in BOOLEAN
  BY WorkspaceAssumption DEF Jobs
<1>4. Answers(Target(p), Mutants[Target(p)][i], Job[p].include_dirs) \subseteq AllAnswers
  BY <1>1, <1>2, <1>3, AnswersAssumption
<1>5. i \in DOMAIN futures[p] /\ OnItsMutant(p, i, vresults[p][i])
  BY DEF ScoringInv, Shape, FuturesTrue
<1> QED
  BY <1>1, <1>4, <1>5 DEF OnItsMutant, AllAnswers, verify_mutant

(* The mutants that were not killed, timed out or rejected survived.       *)
LEMMA CountsAddUp ==
  ASSUME NEW results \in Seq(VerificationResults)
  PROVE  LET s == aggregate_mutation_score(results)
         IN  s \in MutationScores /\ s.num_survived = Count(results, "survived")
<1> DEFINE D == DOMAIN results
           With_(value) == {i \in D : results[i] = value}
           D1 == D \ With_("killed")
           D2 == D1 \ With_("timed_out")
           D3 == D2 \ With_("compile_failed")
           D4 == D3 \ With_("instrumentation_failed")
<1>1. IsFiniteSet(D) /\ Cardinality(D) = Len(results) /\ Len(results) \in Nat
  <2>1. D = 1 .. Len(results) /\ Len(results) \in Nat
    OBVIOUS
  <2> QED
    BY <2>1, Indices
<1>2. D4 = With_("survived")
  BY DEF VerificationResults
<1>3. /\ With_("killed") \subseteq D /\ With_("timed_out") \subseteq D1
      /\ With_("compile_failed") \subseteq D2 /\ With_("instrumentation_failed") \subseteq D3
  OBVIOUS
<1>4. \A value : Count(results, value) = Cardinality(With_(value))
  BY DEF Count
<1> HIDE DEF With_, D
<1>5. /\ IsFiniteSet(D1)
      /\ Cardinality(D1) = Cardinality(D) - Cardinality(With_("killed"))
      /\ Cardinality(With_("killed")) \in Nat
  BY <1>1, <1>3, Removed
<1> HIDE DEF D1
<1>6. /\ IsFiniteSet(D2)
      /\ Cardinality(D2) = Cardinality(D1) - Cardinality(With_("timed_out"))
      /\ Cardinality(With_("timed_out")) \in Nat
  BY <1>5, <1>3, Removed
<1> HIDE DEF D2
<1>7. /\ IsFiniteSet(D3)
      /\ Cardinality(D3) = Cardinality(D2) - Cardinality(With_("compile_failed"))
      /\ Cardinality(With_("compile_failed")) \in Nat
  BY <1>6, <1>3, Removed
<1> HIDE DEF D3
<1>8. /\ Cardinality(D4) = Cardinality(D3) - Cardinality(With_("instrumentation_failed"))
      /\ Cardinality(With_("instrumentation_failed")) \in Nat
      /\ Cardinality(D4) \in Nat
  <2>1. IsFiniteSet(D4)
    BY <1>7, <1>3, Removed
  <2> QED
    BY <1>7, <1>3, <2>1, Removed, FS_CardinalityType
<1> HIDE DEF D4
<1>9. Cardinality(With_("survived")) =
        Len(results) - Cardinality(With_("killed")) - Cardinality(With_("timed_out"))
          - Cardinality(With_("compile_failed"))
          - Cardinality(With_("instrumentation_failed"))
  <2>1. Cardinality(D) \in Int /\ Cardinality(D1) \in Int /\ Cardinality(D2) \in Int
        /\ Cardinality(D3) \in Int
    BY <1>1, <1>5, <1>6, <1>7
  <2> QED
    BY <1>1, <1>2, <1>5, <1>6, <1>7, <1>8, <2>1
<1> QED
  BY <1>1, <1>2, <1>4, <1>5, <1>6, <1>7, <1>8, <1>9
     DEF aggregate_mutation_score, MutationScores

(* What ReturnScore computes is true of the function.                      *)
LEMMA AggregateTrue ==
  ASSUME ScoringInv, StreamShape, NEW p \in Processes, pc[p] = "pool",
         \A i \in DOMAIN vresults[p] : vresults[p][i] # "none"
  PROVE  LET s == aggregate_mutation_score(vresults[p])
         IN  s \in MutationScores /\ MutationScoreTrue(p, Target(p), s)
<1> DEFINE f == Target(p)
           s == aggregate_mutation_score(vresults[p])
           MutantsWith(answer) ==
             {i \in DOMAIN Mutants[f] :
                answer \in Answers(f, Mutants[f][i], Job[p].include_dirs)}
<1>f. f \in Function
  BY Targets, Scoring DEF ScoringInv, PoolPlaces
<1>1. vresults[p] \in Seq(VerificationResults)
  <2>1. vresults[p] \in Seq(VerificationResults \cup {"none"})
    BY DEF StreamShape
  <2>2. \A i \in 1 .. Len(vresults[p]) : vresults[p][i] \in VerificationResults
    BY <2>1
  <2> QED
    BY <2>1, <2>2
<1>2. DOMAIN vresults[p] = DOMAIN Mutants[f]
  BY DEF ScoringInv, Shape, PoolPlaces
<1>3. IsFiniteSet(DOMAIN Mutants[f]) /\ Len(vresults[p]) = Len(Mutants[f])
  <2>1. DOMAIN vresults[p] = 1 .. Len(vresults[p]) /\ Len(vresults[p]) \in Nat
    BY <1>1
  <2>2. DOMAIN Mutants[f] = 1 .. Len(Mutants[f]) /\ Len(Mutants[f]) \in Nat
    BY <1>f, MutantsType
  <2> HIDE DEF f
  <2>3. /\ Cardinality(1 .. Len(vresults[p])) = Len(vresults[p])
        /\ Cardinality(1 .. Len(Mutants[f])) = Len(Mutants[f])
        /\ IsFiniteSet(1 .. Len(Mutants[f]))
    BY <2>1, <2>2, Indices
  <2> QED
    BY <1>2, <2>1, <2>2, <2>3
<1>4. ASSUME NEW value, NEW answer,
             \A i \in DOMAIN vresults[p] :
               vresults[p][i] = value => i \in MutantsWith(answer)
      PROVE  Count(vresults[p], value) <= Cardinality(MutantsWith(answer))
  <2>1. {i \in DOMAIN vresults[p] : vresults[p][i] = value} \in SUBSET MutantsWith(answer)
    BY <1>4
  <2>2. MutantsWith(answer) \in SUBSET DOMAIN Mutants[f]
    OBVIOUS
  <2> HIDE DEF MutantsWith
  <2> QED
    BY <1>3, <2>1, <2>2, FS_Subset DEF Count
<1>5. /\ Count(vresults[p], "killed") <= Cardinality(MutantsWith("failure"))
      /\ Count(vresults[p], "survived") <= Cardinality(MutantsWith("success"))
  <2>1. \A i \in DOMAIN vresults[p] :
          /\ vresults[p][i] = "killed" => i \in MutantsWith("failure")
          /\ vresults[p][i] = "survived" => i \in MutantsWith("success")
    BY VerdictTells
  <2> HIDE DEF MutantsWith
  <2> QED
    BY <1>4, <2>1
<1>6. s \in MutationScores /\ s.num_survived = Count(vresults[p], "survived")
  BY <1>1, CountsAddUp
<1>7. s.num_mutants = Len(vresults[p]) /\ s.num_killed = Count(vresults[p], "killed")
  BY DEF aggregate_mutation_score
<1> HIDE DEF s
<1>8. MutationScoreTrue(p, f, s)
  BY <1>3, <1>5, <1>6, <1>7 DEF MutationScoreTrue
<1> QED
  BY <1>6, <1>8 DEF s

(* The clauses that were not redundant and did not time out were required. *)
LEMMA ClauseCountsAddUp ==
  ASSUME NEW alone \in Seq(IsolationResults), NEW sides \in Seq(CallerSideVerdicts)
  PROVE  LET s == aggregate_clause_redundancy_score(alone, sides)
         IN  s \in RedundancyScores /\ s.num_required_in_isolation = CountOf(alone, "required")
<1> DEFINE D == DOMAIN alone
           With_(value) == {i \in D : alone[i] = value}
           D1 == D \ With_("redundant")
           D2 == D1 \ With_("timed_out")
<1>1. IsFiniteSet(D) /\ Cardinality(D) = Len(alone) /\ Len(alone) \in Nat
  <2>1. D = 1 .. Len(alone) /\ Len(alone) \in Nat
    OBVIOUS
  <2> QED
    BY <2>1, Indices
<1>2. D2 = With_("required")
  BY DEF IsolationResults
<1>3. With_("redundant") \subseteq D /\ With_("timed_out") \subseteq D1
  OBVIOUS
<1>4. \A value : CountOf(alone, value) = Cardinality(With_(value))
  BY DEF CountOf
<1>5. \A value : CountOf(sides, value) \in Nat
  <2>1. ASSUME NEW value
        PROVE  CountOf(sides, value) \in Nat
    <3>1. DOMAIN sides = 1 .. Len(sides) /\ Len(sides) \in Nat
      OBVIOUS
    <3>2. IsFiniteSet(DOMAIN sides)
      BY <3>1, FS_Interval
    <3>3. IsFiniteSet({i \in DOMAIN sides : sides[i] = value})
      BY <3>2, FS_Subset
    <3> QED
      BY <3>3, FS_CardinalityType DEF CountOf
  <2> QED
    BY <2>1
<1> HIDE DEF With_, D
<1>6. /\ IsFiniteSet(D1)
      /\ Cardinality(D1) = Cardinality(D) - Cardinality(With_("redundant"))
      /\ Cardinality(With_("redundant")) \in Nat
      /\ Cardinality(D1) \in Nat
  <2>1. /\ IsFiniteSet(D1)
        /\ Cardinality(D1) = Cardinality(D) - Cardinality(With_("redundant"))
        /\ Cardinality(With_("redundant")) \in Nat
    BY <1>1, <1>3, Removed
  <2> QED
    BY <2>1, FS_CardinalityType
<1> HIDE DEF D1
<1>7. /\ Cardinality(D2) = Cardinality(D1) - Cardinality(With_("timed_out"))
      /\ Cardinality(With_("timed_out")) \in Nat
      /\ Cardinality(D2) \in Nat
  <2>1. IsFiniteSet(D2)
    BY <1>6, <1>3, Removed
  <2> QED
    BY <1>6, <1>3, <2>1, Removed, FS_CardinalityType
<1> HIDE DEF D2
<1>8. /\ Len(alone) - Cardinality(With_("redundant")) - Cardinality(With_("timed_out"))
           = Cardinality(With_("required"))
      /\ Cardinality(With_("required")) \in Nat
  BY <1>1, <1>2, <1>6, <1>7
<1> QED
  BY <1>1, <1>4, <1>5, <1>6, <1>7, <1>8
  DEF aggregate_clause_redundancy_score, RedundancyScores

(* What ReturnRedundancy computes is true of the function.                 *)
LEMMA RedundancyAggregateTrue ==
  ASSUME ScoringInv, NEW p \in Processes, pc[p] = "caller_side", IsolatedTrueOf(p)
  PROVE  LET s == aggregate_clause_redundancy_score(isolated[p], callerSide[p])
         IN  s \in RedundancyScores /\ RedundancyScoreTrue(Target(p), s)
<1> DEFINE f == Target(p)
           s == aggregate_clause_redundancy_score(isolated[p], callerSide[p])
           ClausesWith(answer) ==
             {i \in 1 .. Clauses[f] : answer \in Answers(f, ClauseMutant(f, i), FALSE)}
<1>1. isolated[p] \in Seq(IsolationResults) /\ callerSide[p] \in Seq(CallerSideVerdicts)
  BY DEF ScoringInv, ClauseShape
<1>2. Len(isolated[p]) = Clauses[f] /\ Clauses[f] \in Nat /\ DOMAIN isolated[p] = 1 .. Clauses[f]
  <2>1. Len(isolated[p]) = Clauses[f]
    BY DEF IsolatedTrueOf
  <2> QED
    BY <1>1, <2>1
<1>3. /\ \A i \in DOMAIN isolated[p] : isolated[p][i] = "redundant" => i \in ClausesWith("success")
      /\ \A i \in DOMAIN isolated[p] : isolated[p][i] = "required" => i \in ClausesWith("failure")
  BY <1>2 DEF IsolatedTrueOf
<1>4. ASSUME NEW value, NEW answer,
             \A i \in DOMAIN isolated[p] :
               isolated[p][i] = value => i \in ClausesWith(answer)
      PROVE  CountOf(isolated[p], value) <= Cardinality(ClausesWith(answer))
  <2>1. {i \in DOMAIN isolated[p] : isolated[p][i] = value} \in SUBSET ClausesWith(answer)
    BY <1>4
  <2>2. ClausesWith(answer) \in SUBSET (1 .. Clauses[f])
    OBVIOUS
  <2> HIDE DEF ClausesWith, f
  <2>3. IsFiniteSet(ClausesWith(answer))
    BY <1>2, <2>2, Indices, FS_Subset
  <2> QED
    BY <2>1, <2>3, FS_Subset DEF CountOf
<1>5. /\ CountOf(isolated[p], "redundant") <= Cardinality(ClausesWith("success"))
      /\ CountOf(isolated[p], "required") <= Cardinality(ClausesWith("failure"))
  <2> HIDE DEF ClausesWith
  <2> QED
    BY <1>3, <1>4
<1>6. s \in RedundancyScores /\ s.num_required_in_isolation = CountOf(isolated[p], "required")
  BY <1>1, ClauseCountsAddUp
<1>7. /\ s.total_clauses = Len(isolated[p])
      /\ s.num_redundant_in_isolation = CountOf(isolated[p], "redundant")
      /\ s.num_required_in_isolation = s.total_clauses - s.num_redundant_in_isolation
                                          - s.num_in_isolation_timed_out
  BY DEF aggregate_clause_redundancy_score
<1> HIDE DEF s
<1>8. RedundancyScoreTrue(f, s)
  BY <1>2, <1>5, <1>6, <1>7 DEF RedundancyScoreTrue
<1> QED
  BY <1>6, <1>8 DEF s

(* What is written of a score is of its type, and as true as the score.    *)
LEMMA SummaryOfScore ==
  ASSUME NEW s \in RedundancyScores
  PROVE  /\ redundancy_summary(s) \in RedundancySummaries
         /\ \A f : RedundancyScoreTrue(f, s)
                    => RedundancySummaryTrue(f, redundancy_summary(s))
<1> DEFINE r == redundancy_summary(s)
<1>1. /\ s.total_clauses \in Nat /\ s.num_redundant_in_isolation \in Nat
      /\ s.num_required_in_isolation \in Nat /\ s.num_in_isolation_timed_out \in Nat
      /\ s.num_redundant_for_callers \in Nat /\ s.num_unobservable \in Nat
      /\ s.num_unverifiable_baseline \in Nat /\ s.num_indeterminate_timeout \in Nat
  BY DEF RedundancyScores
<1>2. r \in RedundancySummaries
  BY <1>1 DEF redundancy_summary, RedundancySummaries, Rate, Rates
<1>3. /\ r.total_clauses = s.total_clauses
      /\ r.in_isolation_redundancy_rate.part = s.num_redundant_in_isolation
      /\ r.in_isolation_redundancy_rate.whole
           = s.total_clauses - s.num_in_isolation_timed_out
  BY DEF redundancy_summary, Rate
<1> HIDE DEF r
<1>4. ASSUME NEW f, RedundancyScoreTrue(f, s) PROVE RedundancySummaryTrue(f, r)
  <2> DEFINE ClausesWith(answer) ==
               {i \in 1 .. Clauses[f] : answer \in Answers(f, ClauseMutant(f, i), FALSE)}
             required == Cardinality(ClausesWith("failure"))
             redundant == Cardinality(ClausesWith("success"))
  <2>1. /\ s.total_clauses = Clauses[f]
        /\ s.num_required_in_isolation = s.total_clauses - s.num_redundant_in_isolation
                                            - s.num_in_isolation_timed_out
        /\ s.num_redundant_in_isolation <= redundant
        /\ s.num_required_in_isolation <= required
    BY <1>4 DEF RedundancyScoreTrue
  <2> HIDE DEF required, redundant
  <2>2. /\ r.total_clauses = Clauses[f]
        /\ r.in_isolation_redundancy_rate.part <= redundant
        /\ r.in_isolation_redundancy_rate.whole - r.in_isolation_redundancy_rate.part
             = s.num_required_in_isolation
    BY <1>1, <1>3, <2>1
  <2> QED
    BY <2>1, <2>2 DEF RedundancySummaryTrue, required, redundant
<1> QED
  BY <1>2, <1>4 DEF r

(* What a step does to the scores and to the stream.                       *)
KeepsScores(p) ==
  /\ UNCHANGED <<score, redundancy, stream, todo>>
  /\ pc[p] \in {"tested", "scored", "aborted"} => pc'[p] \in {pc[p], "aborted"}

LEMMA StreamSteps ==
  ASSUME ScoringInv, NEW p \in Processes, Step(p) \/ Interrupt(p)
  PROVE  \/ KeepsScores(p)
         \/ (GetMutants(p) \/ ReturnScore(p)) /\ UNCHANGED <<redundancy, stream>>
         \/ (RedundancyBaseline(p) \/ ReturnRedundancy(p)) /\ UNCHANGED <<score, stream>>
         \/ ReportMutation(p)
         \/ ReportRedundancy(p)
<1>s. pc \in [Processes -> Places]
  BY DEF ScoringInv, Shape
<1>1. CASE ConstructCallGraph(p)
  BY <1>1 DEF ConstructCallGraph, BuildGraph, PublishGraph, mutationVars, redundancyVars,
              KeepsScores
<1>2. CASE Verify(p) \/ StartFunction(p)
  BY <1>2 DEF Verify, StartFunction, AbortWith, GoTo, mutationVars, redundancyVars,
              KeepsScores
<1>3. CASE MutationStep(p) /\ UNCHANGED <<redundancyVars, stream>>
  <2>1. CASE Baseline(p) \/ StartPool(p)
    BY <2>1, <1>3 DEF Baseline, StartPool, AbortWith, GoTo, mutationVars, redundancyVars,
                      KeepsScores
  <2>2. ASSUME NEW i \in DOMAIN futures[p],
               \/ StartMutant(p, i) \/ WriteMutant(p, i) \/ VerifyMutant(p, i)
               \/ Collect(p, i) \/ CollectError(p, i)
        PROVE  KeepsScores(p)
    <3>1. pc[p] \in PoolPlaces
      BY DEF ScoringInv, Shape
    <3> QED
      BY <2>2, <1>3, <3>1 DEF StartMutant, WriteMutant, VerifyMutant, Collect, CollectError,
                              workspaceVars, redundancyVars, KeepsScores, PoolPlaces
  <2>3. CASE RaiseError(p)
    BY <2>3, <1>3 DEF RaiseError, AbortWith, redundancyVars, KeepsScores
  <2> QED
    BY <1>3, <2>1, <2>2, <2>3 DEF MutationStep, redundancyVars
<1>4. CASE RedundancyStep(p) /\ UNCHANGED <<mutationVars, stream>>
  <2>1. CASE FindCallers(p) \/ StartClauses(p) \/ StartCallerSide(p)
    BY <2>1, <1>4 DEF FindCallers, StartClauses, StartCallerSide, AbortWith, GoTo,
                      mutationVars, redundancyVars, KeepsScores
  <2>2. ASSUME NEW g \in Function, CallerBaseline(p, g) \/ VerifyCaller(p, g)
        PROVE  KeepsScores(p)
    BY <2>2, <1>4 DEF CallerBaseline, VerifyCaller, AbortClauses, AbortWith, workspaceVars,
                      mutationVars, KeepsScores
  <2>3. CASE WriteClause(p) \/ VerifyWithoutClause(p)
    BY <2>3, <1>4 DEF WriteClause, VerifyWithoutClause, AbortClauses, AbortWith,
                      mutationVars, redundancyVars, KeepsScores
  <2>4. CASE JudgeWithoutCallers(p) \/ Judge(p)
    BY <2>4, <1>4 DEF JudgeWithoutCallers, Judge, workspaceVars, mutationVars, KeepsScores
  <2> QED
    BY <1>4, <2>1, <2>2, <2>3, <2>4 DEF RedundancyStep, mutationVars
<1>5. CASE Interrupt(p)
  BY <1>5, <1>s DEF Interrupt, InterruptPool, AbortClauses, AbortWith, mutationVars,
                    redundancyVars, KeepsScores
<1> QED
  BY <1>1, <1>2, <1>3, <1>4, <1>5 DEF Step

LEMMA ResultsShapeStep ==
  ASSUME ScoringInv, StreamShape, NEW p \in Processes, Step(p) \/ Interrupt(p)
  PROVE  \A q \in Processes : vresults'[q] \in Seq(VerificationResults \cup {"none"})
<1> DEFINE Results == VerificationResults \cup {"none"}
<1>s. DOMAIN vresults = Processes /\ (\A q \in Processes : vresults[q] \in Seq(Results))
  BY DEF ScoringInv, Shape, StreamShape
<1>c. Stays \/ Moves(p) \/ LeavesClauses(p) \/ WritesClause(p) \/ PoolStep(p)
  BY ScoringSteps
<1>1. CASE UNCHANGED vresults
  BY <1>1, <1>s
<1>2. CASE EntersPool(p)
  <2>1. Target(p) \in Function
    BY <1>2, Targets DEF EntersPool, ScoringInv, Shape
  <2>2. DOMAIN Mutants[Target(p)] = 1 .. Len(Mutants[Target(p)])
        /\ Len(Mutants[Target(p)]) \in Nat
    BY <2>1, MutantsType
  <2>3. [i \in DOMAIN Mutants[Target(p)] |-> "none"] \in Seq(Results)
    BY <2>2
  <2> QED
    BY <1>2, <2>3, <1>s DEF EntersPool
<1>3. ASSUME NEW i \in DOMAIN futures[p], Collect(p, i)
      PROVE  \A q \in Processes : vresults'[q] \in Seq(Results)
  <2>1. vresults' = [vresults EXCEPT ![p][i] = futures[p][i]] /\ futures[p][i] \in Results
    BY <1>3 DEF Collect
  <2>2. \A q \in Processes \ {p} : vresults'[q] = vresults[q]
    BY <2>1, <1>s
  <2>3. vresults'[p] = [vresults[p] EXCEPT ![i] = futures[p][i]]
    BY <2>1, <1>s
  <2>4. [vresults[p] EXCEPT ![i] = futures[p][i]] \in Seq(Results)
    BY <1>s, <2>1, ExceptSeq DEF ScoringInv, Shape
  <2> QED
    BY <1>s, <2>2, <2>3, <2>4
<1>4. CASE LeavesPool(p)
  BY <1>4, <1>s DEF LeavesPool, Unlink
<1> QED
  BY <1>c, <1>1, <1>2, <1>3, <1>4
  DEF Stays, Moves, LeavesClauses, WritesClause, PoolStep, StopsPool, StartMutant,
      WriteMutant, VerifyMutant, mutationVars

(* What is said of a function in a score, and then in the stream, is true  *)
(* of it.                                                                  *)
LEMMA ScoresStep ==
  ASSUME ScoringInv, StreamInv, NEW p \in Processes, Step(p) \/ Interrupt(p)
  PROVE  /\ score' \in [Processes -> MutationScores]
         /\ redundancy' \in [Processes -> RedundancyScores]
         /\ stream' \in [Processes -> Seq(Records)]
         /\ \A q \in Processes : ScoresTrueOf(q)'
         /\ \A q \in Processes : \A k \in DOMAIN stream'[q] : RecordTrue(q, stream'[q][k])
<1> DEFINE Typed == /\ score' \in [Processes -> MutationScores]
                    /\ redundancy' \in [Processes -> RedundancyScores]
           Recorded == /\ stream' \in [Processes -> Seq(Records)]
                       /\ \A q \in Processes : \A k \in DOMAIN stream'[q] :
                            RecordTrue(q, stream'[q][k])
<1>s. /\ score \in [Processes -> MutationScores]
      /\ redundancy \in [Processes -> RedundancyScores]
      /\ stream \in [Processes -> Seq(Records)]
      /\ \A q \in Processes : ScoresTrueOf(q) /\ IsolatedTrueOf(q)
      /\ \A q \in Processes : \A k \in DOMAIN stream[q] : RecordTrue(q, stream[q][k])
  BY DEF StreamInv, StreamShape
<1>t. pc \in [Processes -> Places] /\ todo \in [Processes -> Seq(Function)]
  BY DEF ScoringInv, Shape
<1>n. /\ NotTested \in MutationScores /\ ~NotTested.tested
      /\ NotScored \in RedundancyScores /\ ~NotScored.scored
  BY DEF NotTested, MutationScores, NotScored, RedundancyScores
<1>u. UNCHANGED stream => Recorded
  BY <1>s
<1>k. ASSUME NEW q \in Processes,
             UNCHANGED <<score[q], redundancy[q], todo[q]>>,
             pc[q] \in {"tested", "scored", "aborted"} => pc'[q] \in {pc[q], "aborted"}
      PROVE  ScoresTrueOf(q)'
  <2>1. Target(q)' = Target(q) /\ ScoresTrueOf(q)
    BY <1>k, <1>s DEF Target
  <2> QED
    BY <1>k, <2>1 DEF ScoresTrueOf
<1>o. ASSUME \A q \in Processes \ {p} : UNCHANGED <<score[q], redundancy[q]>>
      PROVE  \A q \in Processes \ {p} : ScoresTrueOf(q)'
  <2>1. \A q \in Processes \ {p} : UNCHANGED <<pc[q], todo[q]>>
    BY OthersKept
  <2> QED
    BY <1>o, <2>1, <1>k
<1>a. ASSUME NEW r \in Records, RecordTrue(p, r),
             stream' = [stream EXCEPT ![p] = Append(@, r)]
      PROVE  Recorded
  <2>1. stream'[p] = Append(stream[p], r) /\ stream[p] \in Seq(Records)
    BY <1>a, <1>s
  <2>2. \A q \in Processes \ {p} : stream'[q] = stream[q]
    BY <1>a, <1>s
  <2>3. /\ stream'[p] \in Seq(Records)
        /\ \A k \in DOMAIN stream'[p] : k \in DOMAIN stream[p] \/ stream'[p][k] = r
        /\ \A k \in DOMAIN stream[p] : stream'[p][k] = stream[p][k]
    BY <2>1
  <2>4. stream' \in [Processes -> Seq(Records)]
    BY <1>a, <1>s, <2>1, <2>3
  <2>5. \A k \in DOMAIN stream'[p] : RecordTrue(p, stream'[p][k])
    BY <1>a, <1>s, <2>3
  <2> QED
    BY <1>s, <2>2, <2>4, <2>5
<1>1. CASE KeepsScores(p)
  <2>1. \A q \in Processes : UNCHANGED <<score[q], redundancy[q]>>
    BY <1>1 DEF KeepsScores
  <2>2. ScoresTrueOf(p)'
    BY <1>1, <1>k DEF KeepsScores
  <2> QED
    BY <1>1, <2>1, <2>2, <1>s, <1>o, <1>u DEF KeepsScores
<1>2. CASE GetMutants(p) /\ UNCHANGED <<redundancy, stream>>
  <2>1. /\ score' = [score EXCEPT ![p] = NotTested]
        /\ pc[p] = "mutants"
    BY <1>2 DEF GetMutants
  <2>2. ~redundancy[p].scored
    BY <2>1, <1>s DEF ScoresTrueOf
  <2>3. ScoresTrueOf(p)'
    BY <1>2, <2>1, <2>2, <1>s, <1>n DEF ScoresTrueOf
  <2> QED
    BY <1>2, <2>1, <2>3, <1>s, <1>n, <1>o, <1>u
<1>3. CASE ReturnScore(p) /\ UNCHANGED <<redundancy, stream>>
  <2> DEFINE s == aggregate_mutation_score(vresults[p])
  <2>1. /\ score' = [score EXCEPT ![p] = s]
        /\ pc[p] = "pool" /\ pc'[p] = "tested" /\ UNCHANGED todo
        /\ \A i \in DOMAIN vresults[p] : vresults[p][i] # "none"
    BY <1>3, <1>t DEF ReturnScore, GoTo
  <2>2. s \in MutationScores /\ MutationScoreTrue(p, Target(p), s)
    BY <2>1, AggregateTrue DEF StreamInv
  <2>3. ~redundancy[p].scored
    BY <2>1, <1>s DEF ScoresTrueOf
  <2> HIDE DEF s
  <2>4. Target(p)' = Target(p) /\ score'[p] = s
    BY <2>1, <1>s DEF Target
  <2>5. ScoresTrueOf(p)'
    BY <1>3, <2>1, <2>2, <2>3, <2>4 DEF ScoresTrueOf
  <2> QED
    BY <1>3, <2>1, <2>2, <2>5, <1>s, <1>o, <1>u
<1>4. CASE RedundancyBaseline(p) /\ UNCHANGED <<score, stream>>
  <2>1. /\ redundancy' = [redundancy EXCEPT ![p] = NotScored]
        /\ pc[p] = "redundancy"
    BY <1>4 DEF RedundancyBaseline
  <2>2. ~score[p].tested
    BY <2>1, <1>s DEF ScoresTrueOf
  <2>3. ScoresTrueOf(p)'
    BY <1>4, <2>1, <2>2, <1>s, <1>n DEF ScoresTrueOf
  <2> QED
    BY <1>4, <2>1, <2>3, <1>s, <1>n, <1>o, <1>u
<1>5. CASE ReturnRedundancy(p) /\ UNCHANGED <<score, stream>>
  <2> DEFINE s == aggregate_clause_redundancy_score(isolated[p], callerSide[p])
  <2>1. /\ redundancy' = [redundancy EXCEPT ![p] = s]
        /\ pc[p] = "caller_side" /\ pc'[p] = "scored" /\ UNCHANGED todo
    BY <1>5, <1>t DEF ReturnRedundancy, GoTo
  <2>2. s \in RedundancyScores /\ RedundancyScoreTrue(Target(p), s)
    BY <2>1, <1>s, RedundancyAggregateTrue
  <2>3. ~score[p].tested
    BY <2>1, <1>s DEF ScoresTrueOf
  <2> HIDE DEF s
  <2>4. Target(p)' = Target(p) /\ redundancy'[p] = s
    BY <2>1, <1>s DEF Target
  <2>5. ScoresTrueOf(p)'
    BY <1>5, <2>1, <2>2, <2>3, <2>4 DEF ScoresTrueOf
  <2> QED
    BY <1>5, <2>1, <2>2, <2>5, <1>s, <1>o, <1>u
<1>6. CASE ReportMutation(p)
  <2> DEFINE r == MutationRecord(Target(p), score[p])
  <2>1. /\ pc[p] = "tested" /\ Target(p) \in Function
        /\ stream' = [stream EXCEPT ![p] = Append(@, r)]
        /\ score' = [score EXCEPT ![p] = NotTested]
        /\ UNCHANGED redundancy
    BY <1>6, Targets DEF ReportMutation, redundancyVars, ScoringInv, Shape
  <2>2. /\ r.kind = "mutation_summary" /\ r.function = Target(p)
        /\ r.score = summary(score[p])
    BY DEF MutationRecord
  <2>3. /\ summary(score[p]) \in MutationScores
        /\ summary(score[p]).tested = score[p].tested
        /\ summary(score[p]).num_mutants = score[p].num_mutants
        /\ summary(score[p]).num_killed = score[p].num_killed
        /\ summary(score[p]).num_survived = score[p].num_survived
    <3>1. score[p] \in MutationScores
      BY <1>s
    <3> QED
      BY <3>1 DEF summary, MutationScores
  <2>4. r \in Records
    BY <2>1, <2>3 DEF MutationRecord, Records
  <2>5. score[p].tested => MutationScoreTrue(p, Target(p), summary(score[p]))
    BY <2>3, <1>s DEF ScoresTrueOf, MutationScoreTrue
  <2> HIDE DEF r
  <2>6. RecordTrue(p, r)
    BY <2>2, <2>3, <2>5 DEF RecordTrue
  <2>7. Recorded
    BY <2>1, <2>4, <2>6, <1>a
  <2>8. ~redundancy[p].scored
    BY <2>1, <1>s DEF ScoresTrueOf
  <2>9. ScoresTrueOf(p)'
    BY <2>1, <2>8, <1>s, <1>n DEF ScoresTrueOf
  <2> QED
    BY <2>1, <2>7, <2>9, <1>s, <1>n, <1>o
<1>7. CASE ReportRedundancy(p)
  <2> DEFINE r == RedundancyRecord(Target(p), redundancy[p])
  <2>1. /\ pc[p] = "scored" /\ Target(p) \in Function
        /\ redundancy' = [redundancy EXCEPT ![p] = NotScored]
        /\ UNCHANGED score
    BY <1>7, Targets DEF ReportRedundancy, mutationVars, ScoringInv, Shape
  <2>2. Recorded
    <3>1. CASE redundancy[p].scored
      <4>1. stream' = [stream EXCEPT ![p] = Append(@, r)]
        BY <1>7, <3>1 DEF ReportRedundancy
      <4>2. /\ r.kind = "clause_redundancy_summary" /\ r.function = Target(p)
            /\ r.score = redundancy_summary(redundancy[p])
        BY DEF RedundancyRecord
      <4>3. r \in Records
        <5>1. r.score \in RedundancySummaries
          BY <4>2, <1>s, SummaryOfScore
        <5> QED
          BY <2>1, <5>1 DEF RedundancyRecord, Records
      <4>4. RedundancySummaryTrue(Target(p), redundancy_summary(redundancy[p]))
        BY <3>1, <1>s, SummaryOfScore DEF ScoresTrueOf
      <4> HIDE DEF r
      <4>5. RecordTrue(p, r)
        BY <4>2, <4>4 DEF RecordTrue
      <4> QED
        BY <4>1, <4>3, <4>5, <1>a
    <3>2. CASE ~redundancy[p].scored
      BY <1>7, <3>2, <1>u DEF ReportRedundancy
    <3> QED
      BY <3>1, <3>2
  <2>3. ~score[p].tested
    BY <2>1, <1>s DEF ScoresTrueOf
  <2>4. ScoresTrueOf(p)'
    BY <2>1, <2>3, <1>s, <1>n DEF ScoresTrueOf
  <2> QED
    BY <2>1, <2>2, <2>4, <1>s, <1>n, <1>o
<1> QED
  BY <1>1, <1>2, <1>3, <1>4, <1>5, <1>6, <1>7, StreamSteps

(* run_cbmc of the function itself on the file without the clause, which   *)
(* is there.                                                               *)
LEMMA IsolationAnswers ==
  ASSUME ScoringInv, NEW p \in Processes, VerifyWithoutClause(p),
         NEW answer \in RedundancyAnswers(Target(p), ClausePath(p, Clause(p)))
  PROVE  answer \in Answers(Target(p), ClauseMutant(Target(p), Clause(p)), FALSE)
<1>1. Target(p) \in Function /\ Clause(p) \in 1 .. Clauses[Target(p)]
  BY Targets, Scoring, ClauseInRange DEF ScoringInv, ClausePlaces, VerifyWithoutClause
<1>2. /\ ClausePath(p, Clause(p)) \in DOMAIN files
      /\ files[ClausePath(p, Clause(p))] = ClauseMutant(Target(p), Clause(p))
  BY <1>1 DEF ScoringInv, FilesTrue, ClausePath, VerifyWithoutClause
<1>3. ClausePath(p, Clause(p)) # Source
  BY PathsDiffer DEF ClausePath
<1> QED
  BY <1>2, <1>3 DEF RedundancyAnswers, Answer

(* What a step does to the results in isolation.                           *)
KeepsIsolated(p) ==
  \/ UNCHANGED <<pc[p], todo[p], isolated[p]>>
  \/ /\ pc[p] \notin ClausePlaces /\ pc'[p] \notin ClausePlaces
     /\ UNCHANGED isolated[p]
  \/ pc'[p] \notin ClausePlaces /\ isolated'[p] = <<>>

LEMMA IsolatedSteps ==
  ASSUME ScoringInv, NEW p \in Processes, Step(p) \/ Interrupt(p)
  PROVE  KeepsIsolated(p) \/ StartClauses(p) \/ VerifyWithoutClause(p) \/ StartCallerSide(p)
<1> USE DEF ClausePlaces
<1>s. pc \in [Processes -> Places] /\ DOMAIN isolated = Processes
  BY DEF ScoringInv, Shape, ClauseShape
<1>1. CASE \/ ConstructCallGraph(p) \/ Verify(p) \/ StartFunction(p)
           \/ ReportMutation(p) \/ ReportRedundancy(p)
  BY <1>1, <1>s DEF ConstructCallGraph, BuildGraph, PublishGraph, Verify, StartFunction,
                    ReportMutation, ReportRedundancy, NextFunction, AbortWith, GoTo,
                    redundancyVars, KeepsIsolated
<1>2. CASE MutationStep(p) /\ UNCHANGED redundancyVars
  <2>1. CASE GetMutants(p) \/ Baseline(p) \/ StartPool(p)
    BY <2>1, <1>2, <1>s DEF GetMutants, Baseline, StartPool, AbortWith, GoTo,
                            redundancyVars, KeepsIsolated
  <2>2. ASSUME NEW i \in DOMAIN futures[p],
               StartMutant(p, i) \/ WriteMutant(p, i) \/ VerifyMutant(p, i)
                 \/ Collect(p, i) \/ CollectError(p, i)
        PROVE  KeepsIsolated(p)
    BY <2>2, <1>2, <1>s DEF StartMutant, WriteMutant, VerifyMutant, Collect, CollectError,
                            workspaceVars, redundancyVars, KeepsIsolated
  <2>3. CASE ReturnScore(p) \/ RaiseError(p)
    BY <2>3, <1>2, <1>s DEF ReturnScore, RaiseError, AbortWith, GoTo, redundancyVars,
                            KeepsIsolated
  <2> QED
    BY <1>2, <2>1, <2>2, <2>3 DEF MutationStep
<1>3. ASSUME AbortWith(p, "interrupted") \/ AbortWith(p, "unexpected_return_code"), Forget(p)
      PROVE  KeepsIsolated(p)
  BY <1>3, <1>s DEF AbortWith, Forget, KeepsIsolated
<1>4. CASE RedundancyStep(p)
  <2>1. CASE RedundancyBaseline(p) \/ FindCallers(p)
    BY <2>1, <1>s DEF RedundancyBaseline, FindCallers, AbortWith, GoTo, KeepsIsolated
  <2>2. ASSUME NEW g \in Function, CallerBaseline(p, g)
        PROVE  KeepsIsolated(p)
    BY <2>2 DEF CallerBaseline, workspaceVars, KeepsIsolated
  <2>3. ASSUME NEW g \in Function, VerifyCaller(p, g)
        PROVE  KeepsIsolated(p)
    BY <2>3, <1>3 DEF VerifyCaller, AbortClauses, KeepsIsolated
  <2>4. CASE WriteClause(p) \/ JudgeWithoutCallers(p) \/ Judge(p)
    BY <2>4 DEF WriteClause, JudgeWithoutCallers, Judge, workspaceVars, redundancyVars,
                KeepsIsolated
  <2>5. CASE ReturnRedundancy(p)
    BY <2>5, <1>s DEF ReturnRedundancy, GoTo, Forget, KeepsIsolated
  <2> QED
    BY <1>4, <2>1, <2>2, <2>3, <2>4, <2>5 DEF RedundancyStep
<1>5. CASE Interrupt(p)
  BY <1>5, <1>3, <1>s DEF Interrupt, InterruptPool, AbortClauses, AbortWith,
                          redundancyVars, KeepsIsolated
<1> QED
  BY <1>1, <1>2, <1>4, <1>5 DEF Step

LEMMA IsolatedStep ==
  ASSUME ScoringInv, StreamInv, NEW p \in Processes, Step(p) \/ Interrupt(p)
  PROVE  \A q \in Processes : IsolatedTrueOf(q)'
<1> USE DEF ClausePlaces
<1>s. /\ Shape /\ ClauseShape
      /\ \A q \in Processes : IsolatedTrueOf(q)
  BY DEF ScoringInv, StreamInv
<1>k. ASSUME NEW q \in Processes, UNCHANGED <<pc[q], todo[q], isolated[q]>>
      PROVE  IsolatedTrueOf(q)'
  <2>1. Target(q)' = Target(q) /\ IsolatedTrueOf(q)
    BY <1>k, <1>s DEF Target
  <2> QED
    BY <1>k, <2>1 DEF IsolatedTrueOf, ClauseMutant
<1>e. ASSUME isolated'[p] = <<>>, pc'[p] \notin ClausePlaces
      PROVE  IsolatedTrueOf(p)'
  BY <1>e DEF IsolatedTrueOf
<1>p. IsolatedTrueOf(p)'
  <2>1. CASE KeepsIsolated(p)
    <3>1. pc[p] \notin ClausePlaces => isolated[p] = <<>>
      BY <1>s DEF IsolatedTrueOf
    <3> QED
      BY <2>1, <3>1, <1>k, <1>e DEF KeepsIsolated
  <2>2. CASE StartClauses(p)
    <3>1. /\ pc[p] = "caller_baselines" /\ pc'[p] = "isolation"
          /\ UNCHANGED <<todo, isolated>>
      BY <2>2, <1>s DEF StartClauses, GoTo, redundancyVars, Shape
    <3>2. isolated'[p] = <<>> /\ Target(p)' = Target(p)
      BY <3>1, <1>s DEF IsolatedTrueOf, Target
    <3>3. Clauses[Target(p)] \in Nat
      BY <3>1, <1>s, Targets, WorkspaceAssumption DEF Shape
    <3> QED
      BY <3>1, <3>2, <3>3 DEF IsolatedTrueOf
  <2>3. CASE StartCallerSide(p)
    <3>1. /\ pc[p] = "isolation" /\ pc'[p] = "caller_side"
          /\ UNCHANGED <<todo, isolated>>
          /\ Len(isolated[p]) + 1 > Clauses[Target(p)]
      BY <2>3, <1>s DEF StartCallerSide, GoTo, redundancyVars, Shape, Clause
    <3>2. /\ Len(isolated[p]) <= Clauses[Target(p)] /\ IsolatedTrueOf(p)
          /\ Target(p)' = Target(p)
      BY <3>1, <1>s DEF IsolatedTrueOf, Target
    <3>3. Clauses[Target(p)] \in Nat /\ Len(isolated[p]) \in Nat
      BY <3>1, <1>s, Targets, Scoring, WorkspaceAssumption DEF ClauseShape
    <3>4. Len(isolated[p]) = Clauses[Target(p)]
      BY <3>1, <3>2, <3>3
    <3> QED
      BY <3>1, <3>2, <3>4 DEF IsolatedTrueOf, ClauseMutant
  <2>4. CASE VerifyWithoutClause(p)
    <3> DEFINE n == Len(isolated[p])
    <3>1. PICK answer \in RedundancyAnswers(Target(p), ClausePath(p, Clause(p))) :
            IF answer \notin Expected
            THEN AbortClauses(p, "unexpected_return_code")
            ELSE /\ isolated' = [isolated EXCEPT ![p] = Append(@,
                      CASE answer = "success" -> "redundant"
                        [] answer = "failure" -> "required"
                        [] answer = "timeout" -> "timed_out")]
                 /\ UNCHANGED <<pc, todo>>
      BY <2>4 DEF VerifyWithoutClause
    <3>2. CASE answer \notin Expected
      BY <3>1, <3>2, <1>s, <1>e DEF AbortClauses, AbortWith, Forget, Shape, ClauseShape
    <3>3. CASE answer \in Expected
      <4> DEFINE r == CASE answer = "success" -> "redundant"
                        [] answer = "failure" -> "required"
                        [] answer = "timeout" -> "timed_out"
      <4>1. /\ r = "redundant" => answer = "success"
            /\ r = "required" => answer = "failure"
        BY <3>3 DEF Expected
      <4>2. isolated' = [isolated EXCEPT ![p] = Append(@, r)]
        BY <3>1, <3>3
      <4> HIDE DEF r
      <4>3. /\ pc[p] = "isolation" /\ Clause(p) = n + 1
            /\ n + 1 <= Clauses[Target(p)]
            /\ UNCHANGED <<pc, todo>>
        BY <2>4, <3>1, <3>3 DEF VerifyWithoutClause, Clause
      <4>4. answer \in Answers(Target(p), ClauseMutant(Target(p), n + 1), FALSE)
        BY <2>4, <4>3, IsolationAnswers
      <4>5. /\ n \in Nat /\ DOMAIN isolated[p] = 1 .. n
            /\ Len(isolated'[p]) = n + 1 /\ DOMAIN isolated'[p] = 1 .. n + 1
            /\ isolated'[p][n + 1] = r
            /\ \A i \in 1 .. n : isolated'[p][i] = isolated[p][i]
        BY <4>2, <1>s DEF ClauseShape
      <4>6. Target(p)' = Target(p) /\ IsolatedTrueOf(p)
        BY <4>3, <1>s DEF Target
      <4>7. ASSUME NEW i \in DOMAIN isolated'[p]
            PROVE  /\ isolated'[p][i] = "redundant" =>
                        "success" \in Answers(Target(p), ClauseMutant(Target(p), i), FALSE)
                   /\ isolated'[p][i] = "required" =>
                        "failure" \in Answers(Target(p), ClauseMutant(Target(p), i), FALSE)
        <5>1. CASE i = n + 1
          BY <4>1, <4>4, <4>5, <5>1
        <5>2. CASE i \in 1 .. n
          BY <4>5, <4>6, <5>2 DEF IsolatedTrueOf
        <5>3. i = n + 1 \/ i \in 1 .. n
          <6>1. i \in 1 .. n + 1
            BY <4>5, <4>7
          <6> HIDE DEF n
          <6> QED
            BY <4>5, <6>1
        <5> QED
          BY <5>1, <5>2, <5>3
      <4> QED
        BY <4>3, <4>5, <4>6, <4>7 DEF IsolatedTrueOf, ClauseMutant
    <3> QED
      BY <3>2, <3>3
  <2> QED
    BY <2>1, <2>2, <2>3, <2>4, IsolatedSteps
<1>q. ASSUME NEW q \in Processes, q # p
      PROVE  IsolatedTrueOf(q)'
  BY <1>q, <1>k, OthersKept DEF redundancyOf
<1> QED
  BY <1>p, <1>q

(* The scores and the stream, at every step.                               *)
LEMMA StreamInvariant == Spec => []StreamInv
<1>1. Init => ScoringInv /\ StreamInv
  <2>1. SUFFICES ASSUME Init
                 PROVE  ScoringInv /\ StreamInv
    OBVIOUS
  <2>2. /\ NotTested \in MutationScores /\ ~NotTested.tested
        /\ NotScored \in RedundancyScores /\ ~NotScored.scored
    BY DEF NotTested, MutationScores, NotScored, RedundancyScores
  <2>3. \A p \in Processes :
          /\ score[p] = NotTested /\ redundancy[p] = NotScored
          /\ vresults[p] = <<>> /\ isolated[p] = <<>> /\ stream[p] = <<>>
          /\ pc[p] \notin ClausePlaces
    BY <2>1 DEF Init, MutationInit, RedundancyInit, ClausePlaces
  <2>4. StreamShape
    BY <2>1, <2>2, <2>3 DEF StreamShape, Init, MutationInit, RedundancyInit
  <2>5. \A p \in Processes : ScoresTrueOf(p) /\ IsolatedTrueOf(p)
    <3>1. \A p \in Processes : ScoresTrueOf(p)
      BY <2>2, <2>3 DEF ScoresTrueOf
    <3>2. \A p \in Processes : IsolatedTrueOf(p)
      <4>1. DOMAIN <<>> = {}
        OBVIOUS
      <4> QED
        BY <2>3, <4>1 DEF IsolatedTrueOf, ClausePlaces
    <3> QED
      BY <3>1, <3>2
  <2> QED
    BY <2>1, <2>3, <2>4, <2>5, ScoringInit DEF StreamInv
<1>2. ScoringInv /\ StreamInv /\ [Next]_vars => ScoringInv' /\ StreamInv'
  <2>1. SUFFICES ASSUME ScoringInv, StreamInv, [Next]_vars
                 PROVE  StreamInv'
    BY ScoringStep
  <2>2. ASSUME NEW p \in Processes, Step(p) \/ Interrupt(p)
        PROVE  StreamInv'
    <3>1. \A q \in Processes : vresults'[q] \in Seq(VerificationResults \cup {"none"})
      BY <2>1, <2>2, ResultsShapeStep DEF StreamInv
    <3>2. \A q \in Processes : IsolatedTrueOf(q)'
      BY <2>1, <2>2, IsolatedStep
    <3> QED
      BY <2>1, <2>2, <3>1, <3>2, ScoresStep DEF StreamInv, StreamShape
  <2>3. CASE UNCHANGED vars
    <3>1. UNCHANGED <<pc, todo, vresults, score, isolated, redundancy, stream>>
      BY <2>3 DEF vars, workspaceVars, mutationVars, redundancyVars
    <3>2. \A q \in Processes : Target(q)' = Target(q)
      BY <3>1 DEF Target
    <3>3. StreamShape'
      BY <2>1, <3>1 DEF StreamInv, StreamShape
    <3>4. \A q \in Processes : ScoresTrueOf(q)' /\ IsolatedTrueOf(q)'
      BY <2>1, <3>1, <3>2 DEF StreamInv, ScoresTrueOf, IsolatedTrueOf, ClauseMutant
    <3> QED
      BY <2>1, <3>1, <3>3, <3>4 DEF StreamInv
  <2> QED
    BY <2>1, <2>2, <2>3 DEF Next
<1> QED
  BY <1>1, <1>2, PTL DEF Spec

(* What a record says was killed, survived or was redundant can be, on the *)
(* mutants of the function it names.                                       *)
THEOREM StreamCorrect == Spec => []StreamIsTrue
<1>1. StreamInv => StreamIsTrue
  <2>1. ASSUME StreamInv, NEW p \in Processes, NEW k \in DOMAIN stream[p]
        PROVE  RecordTrue(p, stream[p][k])
    BY <2>1 DEF StreamInv
  <2> QED
    BY <2>1 DEF StreamIsTrue, RecordTrue, MutationScoreTrue, RedundancySummaryTrue
<1> QED
  BY <1>1, StreamInvariant, PTL

-----------------------------------------------------------------------------
(* The types.                                                              *)

(* What earlier runs cached lists functions of the file.                   *)
CachedKnown ==
  \A cached \in InitialGraphs : \A path \in DOMAIN cached :
    DOMAIN cached[path].calls \subseteq Function

BaselinesOf(p) ==
  /\ DOMAIN baselines[p] \subseteq Function
  /\ \A g \in DOMAIN baselines[p] :
       baselines[p][g] \in {"unknown", "verified", "unverified"}

Types ==
  /\ \A path \in DOMAIN graphs : DOMAIN graphs[path].calls \subseteq Function
  /\ building \subseteq Processes
  /\ cause \in [Processes -> Causes]
  /\ \A p \in Processes : futures[p] \in Seq(Futures)
  /\ \A p \in Processes : BaselinesOf(p)

LEMMA GraphTypesStep ==
  ASSUME Types, NEW p \in Processes, Step(p) \/ Interrupt(p)
  PROVE  /\ \A path \in DOMAIN graphs' : DOMAIN graphs'[path].calls \subseteq Function
         /\ building' \subseteq Processes
<1>1. DOMAIN CurrentGraph.calls = Function
  BY WorkspaceAssumption DEF CurrentGraph
<1>2. CASE ConstructCallGraph(p)
  BY <1>1, <1>2 DEF ConstructCallGraph, BuildGraph, PublishGraph, Cache, Types
<1> QED
  BY <1>2, GraphSteps DEF Types

LEMMA CauseTypeStep ==
  ASSUME Types, NEW p \in Processes, Step(p) \/ Interrupt(p)
  PROVE  cause' \in [Processes -> Causes]
<1>c. cause \in [Processes -> Causes]
  BY DEF Types
<1>1. ASSUME NEW why \in Causes, AbortWith(p, why)
      PROVE  cause' \in [Processes -> Causes]
  BY <1>1, <1>c DEF AbortWith
<1>2. \A path, f : GraphFault(path, f) \in Causes
  BY DEF GraphFault, Causes
<1>3. /\ "interrupted" \in Causes /\ "unexpected_return_code" \in Causes
      /\ "unreadable_graph" \in Causes /\ cause[p] \in Causes
  BY <1>c DEF Causes
<1>4. CASE ConstructCallGraph(p) \/ Verify(p) \/ StartFunction(p)
  BY <1>4, <1>1, <1>2, <1>c DEF ConstructCallGraph, BuildGraph, PublishGraph, Verify,
                                StartFunction, GoTo
<1>5. CASE MutationStep(p)
  <2>1. CASE GetMutants(p) \/ Baseline(p) \/ StartPool(p)
    BY <2>1, <1>1, <1>2, <1>3, <1>c DEF GetMutants, Baseline, StartPool, GoTo
  <2>2. ASSUME NEW i \in DOMAIN futures[p],
               StartMutant(p, i) \/ WriteMutant(p, i) \/ VerifyMutant(p, i)
                 \/ Collect(p, i) \/ CollectError(p, i)
        PROVE  cause' \in [Processes -> Causes]
    BY <2>2, <1>3, <1>c DEF StartMutant, WriteMutant, VerifyMutant, Collect, CollectError,
                            workspaceVars
  <2>3. CASE ReturnScore(p) \/ RaiseError(p)
    BY <2>3, <1>1, <1>3, <1>c DEF ReturnScore, RaiseError, GoTo
  <2> QED
    BY <1>5, <2>1, <2>2, <2>3 DEF MutationStep
<1>6. CASE ReportMutation(p) \/ ReportRedundancy(p)
  BY <1>6, <1>c DEF ReportMutation, ReportRedundancy, GoTo, NextFunction
<1>7. CASE RedundancyStep(p)
  <2>1. CASE RedundancyBaseline(p) \/ FindCallers(p)
    BY <2>1, <1>1, <1>2, <1>c DEF RedundancyBaseline, FindCallers, GoTo
  <2>2. ASSUME NEW g \in Function, CallerBaseline(p, g) \/ VerifyCaller(p, g)
        PROVE  cause' \in [Processes -> Causes]
    BY <2>2, <1>1, <1>3, <1>c DEF CallerBaseline, VerifyCaller, AbortClauses, workspaceVars
  <2>3. CASE StartClauses(p) \/ WriteClause(p) \/ VerifyWithoutClause(p)
             \/ StartCallerSide(p)
    BY <2>3, <1>1, <1>3, <1>c DEF StartClauses, WriteClause, VerifyWithoutClause,
                                  StartCallerSide, AbortClauses, GoTo
  <2>4. CASE JudgeWithoutCallers(p) \/ Judge(p) \/ ReturnRedundancy(p)
    BY <2>4, <1>c DEF JudgeWithoutCallers, Judge, ReturnRedundancy, GoTo, workspaceVars
  <2> QED
    BY <1>7, <2>1, <2>2, <2>3, <2>4 DEF RedundancyStep
<1>8. CASE Interrupt(p)
  BY <1>8, <1>1, <1>3, <1>c DEF Interrupt, InterruptPool, AbortClauses
<1> QED
  BY <1>4, <1>5, <1>6, <1>7, <1>8 DEF Step

(* What run_cbmc answers for a mutant is one of the results that the pool  *)
(* knows, or raises.                                                       *)
LEMMA VerifiedType ==
  ASSUME ScoringInv, NEW p \in Processes, NEW i \in DOMAIN futures[p],
         VerifyMutant(p, i)
  PROVE  \E result \in Futures : futures' = [futures EXCEPT ![p][i] = result]
<1>1. PICK answer \in Answer(Target(p), PathTo("mutant", Target(p), i),
                             Job[p].include_dirs) :
        futures' = [futures EXCEPT ![p][i] = verify_mutant(answer)]
  BY DEF VerifyMutant
<1>2. Target(p) \in Function /\ i \in DOMAIN Mutants[Target(p)]
  BY Targets, Scoring DEF ScoringInv, Shape
<1>3. /\ PathTo("mutant", Target(p), i) \in DOMAIN files
      /\ files[PathTo("mutant", Target(p), i)] = Mutants[Target(p)][i]
  BY <1>2 DEF VerifyMutant, ScoringInv, FuturesTrue, FilesTrue
<1>4. answer \in Answers(Target(p), Mutants[Target(p)][i], Job[p].include_dirs)
  BY <1>1, <1>3, PathsDiffer DEF Answer
<1>5. Mutants[Target(p)][i] \in Texts
  <2>1. Mutants[Target(p)][i] \in ToSet(Mutants[Target(p)])
    BY <1>2 DEF ToSet
  <2> QED
    BY <1>2, <2>1 DEF Texts
<1>6. Job[p].include_dirs \in BOOLEAN
  BY WorkspaceAssumption DEF Jobs
<1>7. answer \in AllAnswers
  BY <1>2, <1>4, <1>5, <1>6, AnswersAssumption
<1>8. verify_mutant(answer) \in Futures
  BY <1>7 DEF AllAnswers, verify_mutant, Futures, VerificationResults
<1> QED
  BY <1>1, <1>8

LEMMA FuturesTypeStep ==
  ASSUME ScoringInv, Types, NEW p \in Processes, Step(p) \/ Interrupt(p)
  PROVE  \A q \in Processes : futures'[q] \in Seq(Futures)
<1>s. DOMAIN futures = Processes /\ \A q \in Processes : futures[q] \in Seq(Futures)
  BY DEF ScoringInv, Shape, Types
<1>c. Stays \/ Moves(p) \/ LeavesClauses(p) \/ WritesClause(p) \/ PoolStep(p)
  BY ScoringSteps
<1>1. CASE UNCHANGED futures
  BY <1>1, <1>s
<1>o. ASSUME NEW now \in Seq(Futures), futures' = [futures EXCEPT ![p] = now]
      PROVE  \A q \in Processes : futures'[q] \in Seq(Futures)
  BY <1>o, <1>s
<1>2. CASE EntersPool(p)
  <2>1. Target(p) \in Function
    BY <1>2, Targets DEF EntersPool, ScoringInv, Shape
  <2>2. DOMAIN Mutants[Target(p)] = 1 .. Len(Mutants[Target(p)])
        /\ Len(Mutants[Target(p)]) \in Nat
    BY <2>1, MutantsType
  <2>3. "queued" \in Futures
    BY DEF Futures
  <2>4. [i \in DOMAIN Mutants[Target(p)] |-> "queued"] \in Seq(Futures)
    BY <2>2, <2>3
  <2> QED
    BY <1>2, <2>4, <1>o DEF EntersPool
<1>3. ASSUME NEW i \in DOMAIN futures[p], NEW result \in Futures,
             futures' = [futures EXCEPT ![p][i] = result]
      PROVE  \A q \in Processes : futures'[q] \in Seq(Futures)
  <2>1. [futures[p] EXCEPT ![i] = result] \in Seq(Futures)
    BY <1>s, ExceptSeq
  <2>2. futures' = [futures EXCEPT ![p] = [futures[p] EXCEPT ![i] = result]]
    BY <1>3
  <2> QED
    BY <2>1, <2>2, <1>o
<1>4. ASSUME NEW i \in DOMAIN futures[p],
             StartMutant(p, i) \/ WriteMutant(p, i) \/ VerifyMutant(p, i)
      PROVE  \A q \in Processes : futures'[q] \in Seq(Futures)
  <2>1. "started" \in Futures /\ "written" \in Futures
    BY DEF Futures
  <2> QED
    BY <1>3, <1>4, <2>1, VerifiedType DEF StartMutant, WriteMutant
<1>5. CASE StopsPool(p)
  <2> DEFINE now == [i \in DOMAIN futures[p] |->
                       IF futures[p][i] = "queued" THEN "cancelled" ELSE futures[p][i]]
  <2>1. "cancelled" \in Futures
    BY DEF Futures
  <2>2. now \in Seq(Futures)
    BY <1>s, <2>1
  <2>3. futures' = [futures EXCEPT ![p] = now]
    BY <1>5, <1>s DEF StopsPool, CancelQueued
  <2> HIDE DEF now
  <2> QED
    BY <2>2, <2>3, <1>o
<1>6. CASE LeavesPool(p)
  <2>1. << >> \in Seq(Futures)
    OBVIOUS
  <2>2. futures' = [futures EXCEPT ![p] = << >>]
    BY <1>6 DEF LeavesPool, Unlink
  <2> QED
    BY <2>1, <2>2, <1>o
<1>7. CASE Stays \/ Moves(p) \/ LeavesClauses(p)
  BY <1>1, <1>7 DEF Stays, Moves, LeavesClauses, mutationVars
<1>8. CASE WritesClause(p)
  <2>1. UNCHANGED futures
    BY <1>8 DEF WritesClause, WriteClause, mutationVars
  <2> QED
    BY <2>1, <1>1
<1>9. ASSUME NEW i \in DOMAIN futures[p], Collect(p, i)
      PROVE  \A q \in Processes : futures'[q] \in Seq(Futures)
  BY <1>1, <1>9 DEF Collect
<1>10. CASE PoolStep(p)
  BY <1>2, <1>4, <1>5, <1>6, <1>9, <1>10 DEF PoolStep
<1> QED
  BY <1>c, <1>7, <1>8, <1>10

(* A step leaves the baselines, forgets those of its process, or is one of *)
(* the two that look for them.                                             *)
LEMMA BaselinesSteps ==
  ASSUME NEW p \in Processes, Step(p) \/ Interrupt(p)
  PROVE  \/ UNCHANGED baselines
         \/ baselines' = [baselines EXCEPT ![p] = <<>>]
         \/ FindCallers(p)
         \/ \E g \in Function : CallerBaseline(p, g)
<1>1. CASE RedundancyStep(p)
  BY <1>1 DEF RedundancyStep, RedundancyBaseline, StartClauses, VerifyCaller, WriteClause,
              VerifyWithoutClause, StartCallerSide, JudgeWithoutCallers, Judge,
              ReturnRedundancy, AbortClauses, Forget, redundancyVars
<1>2. CASE Interrupt(p)
  BY <1>2 DEF Interrupt, AbortClauses, Forget, redundancyVars
<1> QED
  BY <1>1, <1>2 DEF Step, ConstructCallGraph, Verify, StartFunction, ReportMutation,
                    ReportRedundancy, redundancyVars

LEMMA BaselinesTypeStep ==
  ASSUME ScoringInv, Types, NEW p \in Processes, Step(p) \/ Interrupt(p)
  PROVE  \A q \in Processes : BaselinesOf(q)'
<1>s. DOMAIN baselines = Processes /\ \A q \in Processes : BaselinesOf(q)
  BY DEF ScoringInv, ClauseShape, Types
<1>1. ASSUME NEW q \in Processes, UNCHANGED baselines[q]
      PROVE  BaselinesOf(q)'
  BY <1>1, <1>s DEF BaselinesOf
<1>2. CASE UNCHANGED baselines
  BY <1>1, <1>2
<1>3. CASE baselines' = [baselines EXCEPT ![p] = <<>>]
  <2>1. BaselinesOf(p)'
    BY <1>3, <1>s DEF BaselinesOf
  <2> QED
    BY <1>1, <1>3, <1>s, <2>1
<1>4. CASE FindCallers(p)
  <2> DEFINE found == [g \in InFileCallers(Target(p), GraphAt(Source)) |-> "unknown"]
  <2>1. Source \in DOMAIN graphs
        /\ (UNCHANGED baselines \/ baselines' = [baselines EXCEPT ![p] = found])
    BY <1>4 DEF FindCallers, HasGraph
  <2>2. DOMAIN found \subseteq Function
    BY <2>1 DEF Types, InFileCallers, GraphAt
  <2>3. baselines' = [baselines EXCEPT ![p] = found] => BaselinesOf(p)'
    BY <1>s, <2>2 DEF BaselinesOf
  <2> HIDE DEF found
  <2> QED
    BY <1>1, <1>2, <1>s, <2>1, <2>3
<1>5. ASSUME NEW g \in Function, CallerBaseline(p, g)
      PROVE  \A q \in Processes : BaselinesOf(q)'
  <2>1. PICK now \in {"verified", "unverified"} : baselines' = [baselines EXCEPT ![p][g] = now]
    BY <1>5 DEF CallerBaseline
  <2>2. BaselinesOf(p)'
    BY <1>s, <2>1 DEF BaselinesOf
  <2> QED
    BY <1>1, <1>s, <2>1, <2>2
<1> QED
  BY <1>2, <1>3, <1>4, <1>5, BaselinesSteps

(* What the directory, the pools, the scores and the stream can hold, if   *)
(* what earlier runs cached lists functions of the file.                   *)
THEOREM TypeCorrect == CachedKnown => (Spec => []TypeOK)
<1> SUFFICES ASSUME CachedKnown
             PROVE  Spec => []TypeOK
  OBVIOUS
<1>1. Init => Types
  BY DEF Init, MutationInit, RedundancyInit, CachedKnown, Types, BaselinesOf, Causes
<1>2. ScoringInv /\ Types /\ [Next]_vars => Types'
  <2>1. ASSUME ScoringInv, Types, NEW p \in Processes, Step(p) \/ Interrupt(p)
        PROVE  Types'
    BY <2>1, GraphTypesStep, CauseTypeStep, FuturesTypeStep, BaselinesTypeStep DEF Types
  <2>2. ASSUME Types, UNCHANGED vars
        PROVE  Types'
    BY <2>2 DEF Types, BaselinesOf, vars, workspaceVars, mutationVars, redundancyVars
  <2> QED
    BY <2>1, <2>2 DEF Next
<1>3. RedundancyInv /\ StreamInv /\ Types /\ NothingLeftBehind => TypeOK
  <2>1. SUFFICES ASSUME RedundancyInv, StreamInv, Types, NothingLeftBehind
                 PROVE  TypeOK
    OBVIOUS
  <2>s. Shape /\ ClauseShape /\ ClausesTrue /\ StreamShape
    BY <2>1 DEF RedundancyInv, ScoringInv, StreamInv
  <2>2. DOMAIN files \subseteq UNION {PathsOf(p) : p \in Processes}
    BY <2>1 DEF NothingLeftBehind
  <2>3. MutationTypeOK
    <3>1. ASSUME NEW p \in Processes
          PROVE  Len(vresults[p]) = Len(futures[p])
      <4>1. /\ DOMAIN vresults[p] = 1 .. Len(vresults[p]) /\ Len(vresults[p]) \in Nat
            /\ DOMAIN futures[p] = 1 .. Len(futures[p]) /\ Len(futures[p]) \in Nat
        BY <2>1, <2>s DEF StreamShape, Types
      <4> QED
        BY <4>1, <2>s, Indices DEF Shape
    <3> QED
      BY <2>1, <2>s, <3>1 DEF MutationTypeOK, Types, StreamShape
  <2>4. RedundancyTypeOK
    <3>1. \A p \in Processes : DOMAIN callers[p] \subseteq DOMAIN baselines[p]
      BY <2>s DEF ClausesTrue, ClausesTrueOf, VerifyingCallers
    <3> QED
      BY <2>1, <2>s, <3>1 DEF RedundancyTypeOK, Types, BaselinesOf, ClauseShape, StreamShape
  <2>5. ASSUME NEW p \in Processes, NEW k \in DOMAIN stream[p]
        PROVE  stream[p][k] \in Records
    BY <2>s DEF StreamShape
  <2> QED
    BY <2>1, <2>s, <2>2, <2>3, <2>4, <2>5 DEF TypeOK, Types, Shape, Records
<1> QED
  BY <1>1, <1>2, <1>3, ScoringInvariant, RedundancyInvariant, StreamInvariant,
     NothingLeftCorrect, PTL DEF Spec
=============================================================================

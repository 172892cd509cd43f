----------------------------- MODULE SpecQuality -----------------------------
(***************************************************************************)
(* How the specifications of one file are scored: processes of             *)
(* evaluate_specification_quality.py, which go through annotated functions *)
(* and write a stream of records, and of avocado-run-cbmc, which the agent *)
(* runs on one function and which scores its mutants when it verifies.     *)
(* They compose mutation testing and clause redundancy, and share the      *)
(* directory of the source and the call graph cached in it. Any of them    *)
(* may be interrupted.                                                     *)
(***************************************************************************)
EXTENDS MutationTesting, ClauseRedundancy

VARIABLE stream   \* the records each process has written

vars == <<workspaceVars, mutationVars, redundancyVars, stream>>

Places ==
  {"verify", "function", "mutants", "baseline", "call_graph", "pool", "drain",
   "tested", "redundancy", "callers", "caller_baselines", "isolation",
   "caller_side", "scored", "ended", "aborted"}

Causes ==
  {"none", "interrupted", "unexpected_return_code", "unreadable_graph",
   "not_in_graph"}

Over(p) == pc[p] \in {"ended", "aborted"}

(* MutationScore.summary. It gives the count of the mutants that goto-cc    *)
(* rejected a second time, as that of those goto-instrument failed on.     *)
summary(s) == [s EXCEPT !.num_instrumentation_failed = s.num_compile_failed]

MutationRecord(f, s) ==
  [kind |-> "mutation_summary", function |-> f, score |-> summary(s)]

(* A rate is kept as the fraction it is, not divided and rounded.          *)
Rate(part, whole) == [part |-> part, whole |-> whole]

Rates == [part : Nat, whole : Int]

(* ClauseRedundancyScore.summary gives rates, and the counts of what was   *)
(* not decided.                                                            *)
redundancy_summary(s) ==
  [total_clauses |-> s.total_clauses,
   in_isolation_redundancy_rate |->
     Rate(s.num_redundant_in_isolation,
          s.total_clauses - s.num_in_isolation_timed_out),
   caller_side_redundancy_rate |->
     Rate(s.num_redundant_for_callers,
          s.total_clauses - s.num_unobservable - s.num_unverifiable_baseline
            - s.num_indeterminate_timeout),
   num_unobservable |-> s.num_unobservable,
   num_unverifiable_baseline |-> s.num_unverifiable_baseline,
   num_in_isolation_timed_out |-> s.num_in_isolation_timed_out,
   num_indeterminate_timeout |-> s.num_indeterminate_timeout]

RedundancySummaries ==
  [total_clauses : Nat, in_isolation_redundancy_rate : Rates,
   caller_side_redundancy_rate : Rates, num_unobservable : Nat,
   num_unverifiable_baseline : Nat, num_in_isolation_timed_out : Nat,
   num_indeterminate_timeout : Nat]

RedundancyRecord(f, s) ==
  [kind |-> "clause_redundancy_summary", function |-> f,
   score |-> redundancy_summary(s)]

TypeOK ==
  /\ pc \in [Processes -> Places]
  /\ \A p \in Processes : todo[p] \in Seq(Function)
  /\ DOMAIN files \subseteq UNION {PathsOf(p) : p \in Processes}
  /\ building \subseteq Processes
  /\ cause \in [Processes -> Causes]
  /\ MutationTypeOK
  /\ RedundancyTypeOK
  /\ \A p \in Processes : \A k \in DOMAIN stream[p] :
       /\ stream[p][k].function \in Function
       /\ \/ stream[p][k].kind = "mutation_summary"
             /\ stream[p][k].score \in MutationScores
          \/ stream[p][k].kind = "clause_redundancy_summary"
             /\ stream[p][k].score \in RedundancySummaries

Init ==
  /\ pc = [p \in Processes |-> IF Job[p].agent THEN "verify" ELSE "function"]
  /\ todo = [p \in Processes |-> Job[p].functions]
  /\ files = <<>>
  /\ graphs \in InitialGraphs
  /\ building = {}
  /\ cause = [p \in Processes |-> "none"]
  /\ MutationInit
  /\ RedundancyInit
  /\ stream = [p \in Processes |-> <<>>]

-----------------------------------------------------------------------------
(* The source whose call graph p asks for next.                            *)
GraphWanted(p) ==
  CASE pc[p] \in {"verify", "baseline", "call_graph", "redundancy", "callers"} ->
         {Source}
    [] pc[p] = "isolation" -> {ClausePath(p, Clause(p))} \cap DOMAIN files
    [] OTHER -> {}

ConstructCallGraph(p) ==
  /\ \E path \in GraphWanted(p) : BuildGraph(p, path) \/ PublishGraph(p, path)
  /\ UNCHANGED <<mutationVars, redundancyVars, stream>>

(* avocado-run-cbmc: a run that passes still does not verify the function  *)
(* when it has no contract, or when the pass is vacuous (CbmcPipeline).    *)
Verify(p) ==
  /\ pc[p] = "verify"
  /\ HasGraph(p, Source)
  /\ LET fault == GraphFault(Source, Target(p))
     IN  IF fault # "none" THEN AbortWith(p, fault)
         ELSE \/ "success" \in Answer(Target(p), Source, Job[p].include_dirs)
                 /\ GoTo(p, "mutants")
              \/ GoTo(p, "ended")
  /\ UNCHANGED <<files, graphs, building, mutationVars, redundancyVars, stream>>

(* _process_file goes on to the next annotated function.                   *)
StartFunction(p) ==
  /\ pc[p] = "function"
  /\ GoTo(p, IF todo[p] = <<>> THEN "ended"
             ELSE IF Job[p].mutation THEN "mutants" ELSE "redundancy")
  /\ UNCHANGED <<files, graphs, building, mutationVars, redundancyVars, stream>>

NextFunction(p) ==
  /\ pc' = [pc EXCEPT ![p] = "function"]
  /\ todo' = [todo EXCEPT ![p] = Tail(@)]
  /\ UNCHANGED cause

ReportMutation(p) ==
  /\ pc[p] = "tested"
  /\ stream' = [stream EXCEPT ![p] = Append(@, MutationRecord(Target(p), score[p]))]
  /\ score' = [score EXCEPT ![p] = NotTested]
  /\ IF Job[p].agent THEN GoTo(p, "ended")
     ELSE IF Job[p].redundancy THEN GoTo(p, "redundancy")
     ELSE NextFunction(p)
  /\ UNCHANGED <<files, graphs, building, futures, vresults, redundancyVars>>

ReportRedundancy(p) ==
  /\ pc[p] = "scored"
  /\ stream' = IF redundancy[p].scored
               THEN [stream EXCEPT ![p] =
                       Append(@, RedundancyRecord(Target(p), redundancy[p]))]
               ELSE stream
  /\ redundancy' = [redundancy EXCEPT ![p] = NotScored]
  /\ NextFunction(p)
  /\ UNCHANGED <<files, graphs, building, baselines, isolated, callers,
                 callerSide, mutationVars>>

(* Ctrl-C. A temporary call graph is removed.                              *)
Interrupt(p) ==
  \/ InterruptPool(p) /\ UNCHANGED <<redundancyVars, stream>>
  \/ /\ pc[p] \in {"isolation", "caller_side"}
     /\ AbortClauses(p, "interrupted")
     /\ building' = building \ {p}
     /\ UNCHANGED <<mutationVars, stream>>
  \/ /\ pc[p] \notin {"pool", "drain", "isolation", "caller_side", "ended", "aborted"}
     /\ AbortWith(p, "interrupted")
     /\ building' = building \ {p}
     /\ UNCHANGED <<files, graphs, mutationVars, redundancyVars, stream>>

Step(p) ==
  \/ ConstructCallGraph(p)
  \/ Verify(p)
  \/ StartFunction(p)
  \/ MutationStep(p) /\ UNCHANGED <<redundancyVars, stream>>
  \/ ReportMutation(p)
  \/ RedundancyStep(p) /\ UNCHANGED <<mutationVars, stream>>
  \/ ReportRedundancy(p)

Next == \E p \in Processes : Step(p) \/ Interrupt(p)

(* Every command has a time limit, and a thread that can go on does.       *)
Fairness == \A p \in Processes : WF_vars(Step(p))

Spec == Init /\ [][Next]_vars /\ Fairness

-----------------------------------------------------------------------------
(* Properties.                                                             *)

(* A verdict in a mutant's slot is one that CBMC gives on that mutant, in  *)
(* whatever order the runs end and whoever else writes mutants beside the  *)
(* same source (_get_path_for_mutated_source: the mutants "never overwrite *)
(* one another"; "slotted back into original mutant order").               *)
VerdictsAreTheirOwn ==
  \A p \in Processes : \A i \in DOMAIN vresults[p] :
    vresults[p][i] # "none" =>
      \E answer \in Answers(Target(p), Mutants[Target(p)][i], Job[p].include_dirs) :
        vresults[p][i] = verify_mutant(answer)

(* What a record says was killed, survived or was redundant can be, on the *)
(* mutants of the function it names, and what could not be decided counts  *)
(* for nothing (MutationScore: "over decided mutants only").               *)
StreamIsTrue ==
  \A p \in Processes : \A k \in DOMAIN stream[p] :
    LET f == stream[p][k].function
        s == stream[p][k].score
        MutantsWith(answer) ==
          {i \in DOMAIN Mutants[f] :
             answer \in Answers(f, Mutants[f][i], Job[p].include_dirs)}
        ClausesWith(answer) ==
          {i \in 1 .. Clauses[f] : answer \in Answers(f, ClauseMutant(f, i), FALSE)}
    IN  CASE stream[p][k].kind = "mutation_summary" /\ s.tested ->
               /\ s.num_mutants = Len(Mutants[f])
               /\ s.num_killed <= Cardinality(MutantsWith("failure"))
               /\ s.num_survived <= Cardinality(MutantsWith("success"))
          [] stream[p][k].kind = "clause_redundancy_summary" ->
               LET rate == s.in_isolation_redundancy_rate
               IN  /\ s.total_clauses = Clauses[f]
                   /\ rate.part <= Cardinality(ClausesWith("success"))
                   /\ rate.whole - rate.part <= Cardinality(ClausesWith("failure"))
          [] OTHER -> TRUE

(* No mutant is on disk but those of the function that a process scores at *)
(* the time, however the scoring of another ended, and none is written     *)
(* after that ("Mutants are removed unless keep_artifacts").               *)
NothingLeftBehind ==
  DOMAIN files \subseteq
    UNION {PathsOf(p) : p \in {q \in Processes :
             pc[q] \in {"pool", "drain", "isolation", "caller_side"}}}

(* Nobody reads a call graph that another process is still writing         *)
(* (construct_call_graph: "a concurrent process sees either no file or a   *)
(* complete one").                                                         *)
CallGraphIsWhole ==
  \A p \in Processes : cause[p] # "unreadable_graph"

(* With the call graph of the source as it is, a clause called redundant   *)
(* for the callers is one that none of them needs that verifies with it,   *)
(* and a clause called required is one that such a caller fails without    *)
(* (CallerSideVerdict).                                                    *)
RedundancyIsSound ==
  graphs # <<>> /\ GraphAt(Source) = CurrentGraph =>
    \A p \in Processes : \A i \in DOMAIN callerSide[p] :
      LET Alone(g) == Answers(g, Original, FALSE)
          Weakened(g) == Answers(g, ClauseMutant(Target(p), i), FALSE)
          itsCallers == InFileCallers(Target(p), CurrentGraph)
      IN  /\ callerSide[p][i] = "redundant_for_callers" =>
               \A g \in itsCallers :
                 Alone(g) = {"success"} => "success" \in Weakened(g)
          /\ callerSide[p][i] = "required_by_callers" =>
               \E g \in itsCallers :
                 "success" \in Alone(g) /\ "failure" \in Weakened(g)

(* Every process ends: a pool that is stopped early, because a mutant's    *)
(* run raised or by Ctrl-C, is left once its runs in flight have ended.    *)
EveryScoringEnds == \A p \in Processes : <>Over(p)
=============================================================================

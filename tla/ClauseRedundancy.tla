-------------------------- MODULE ClauseRedundancy --------------------------
(***************************************************************************)
(* compute_clause_redundancy_score: each clause of a function that         *)
(* verifies is dropped in turn, and the function is verified again without *)
(* it; then, clause by clause, each in-file caller that verifies on the    *)
(* original source is verified against the weaker contract. One thread     *)
(* does all of it, and removes the mutants at the end, whatever happened.  *)
(***************************************************************************)
EXTENDS Workspace

VARIABLES
  baselines,   \* whether each in-file caller verifies on the source, so far
  isolated,    \* the in-isolation results, clause by clause, by process
  callers,     \* the results of the callers of the current clause, so far
  callerSide,  \* the caller-side verdicts, clause by clause, by process
  redundancy   \* the ClauseRedundancyScore, by process

redundancyVars == <<baselines, isolated, callers, callerSide, redundancy>>

IsolationResults == {"redundant", "required", "timed_out"}

CallerResults == {"verified", "failed", "timed_out"}

CallerSideVerdicts ==
  {"redundant_for_callers", "required_by_callers", "unobservable",
   "unverifiable_baseline", "indeterminate_timeout"}

RedundancyScores ==
  [scored : BOOLEAN, total_clauses : Nat, num_redundant_in_isolation : Nat,
   num_required_in_isolation : Nat, num_in_isolation_timed_out : Nat,
   num_redundant_for_callers : Nat, num_required_by_callers : Nat,
   num_unobservable : Nat, num_unverifiable_baseline : Nat,
   num_indeterminate_timeout : Nat]

NotScored ==
  [scored |-> FALSE, total_clauses |-> 0, num_redundant_in_isolation |-> 0,
   num_required_in_isolation |-> 0, num_in_isolation_timed_out |-> 0,
   num_redundant_for_callers |-> 0, num_required_by_callers |-> 0,
   num_unobservable |-> 0, num_unverifiable_baseline |-> 0,
   num_indeterminate_timeout |-> 0]

(* A baseline of "unknown" is one that is still to be run.                 *)
RedundancyTypeOK ==
  /\ \A p \in Processes :
       /\ DOMAIN baselines[p] \subseteq Function
       /\ \A g \in DOMAIN baselines[p] :
            baselines[p][g] \in {"unknown", "verified", "unverified"}
       /\ isolated[p] \in Seq(IsolationResults)
       /\ DOMAIN callers[p] \subseteq DOMAIN baselines[p]
       /\ \A g \in DOMAIN callers[p] : callers[p][g] \in CallerResults
       /\ callerSide[p] \in Seq(CallerSideVerdicts)
  /\ redundancy \in [Processes -> RedundancyScores]

RedundancyInit ==
  /\ baselines = [p \in Processes |-> <<>>]
  /\ isolated = [p \in Processes |-> <<>>]
  /\ callers = [p \in Processes |-> <<>>]
  /\ callerSide = [p \in Processes |-> <<>>]
  /\ redundancy = [p \in Processes |-> NotScored]

(* None of these runs gets the include directories, nor a call graph.      *)
RedundancyAnswers(f, path) == Answer(f, path, FALSE)

ClausePath(p, i) == PathTo("clause_drop", Target(p), i)

-----------------------------------------------------------------------------
(* Before the clauses.                                                     *)

RedundancyBaseline(p) ==
  /\ pc[p] = "redundancy"
  /\ HasGraph(p, Source)
  /\ LET fault == GraphFault(Source, Target(p))
     IN  IF fault # "none" THEN AbortWith(p, fault)
         ELSE \E answer \in RedundancyAnswers(Target(p), Source) :
                GoTo(p, IF answer = "success" THEN "callers" ELSE "scored")
  /\ redundancy' = [redundancy EXCEPT ![p] = NotScored]
  /\ UNCHANGED <<files, graphs, building, baselines, isolated, callers, callerSide>>

(* _get_in_file_callers.                                                   *)
FindCallers(p) ==
  /\ pc[p] = "callers"
  /\ HasGraph(p, Source)
  /\ LET fault == GraphFault(Source, Target(p))
     IN  IF fault # "none" THEN AbortWith(p, fault) /\ UNCHANGED baselines
         ELSE /\ GoTo(p, "caller_baselines")
              /\ baselines' = [baselines EXCEPT ![p] =
                   [g \in InFileCallers(Target(p), GraphAt(Source)) |-> "unknown"]]
  /\ UNCHANGED <<files, graphs, building, isolated, callers, callerSide, redundancy>>

(* _get_baseline_verification_results_for_callers, one caller at a time.   *)
CallerBaseline(p, g) ==
  /\ pc[p] = "caller_baselines"
  /\ g \in DOMAIN baselines[p]
  /\ baselines[p][g] = "unknown"
  /\ \E answer \in RedundancyAnswers(g, Source) :
       baselines' = [baselines EXCEPT ![p][g] =
                       IF answer = "success" THEN "verified" ELSE "unverified"]
  /\ UNCHANGED <<workspaceVars, isolated, callers, callerSide, redundancy>>

StartClauses(p) ==
  /\ pc[p] = "caller_baselines"
  /\ \A g \in DOMAIN baselines[p] : baselines[p][g] # "unknown"
  /\ GoTo(p, "isolation")
  /\ UNCHANGED <<files, graphs, building, redundancyVars>>

-----------------------------------------------------------------------------
(* The clauses, in isolation and then for the callers.                     *)

UnlinkClauses(p) ==
  files' = Without({ClausePath(p, i) : i \in 1 .. Clauses[Target(p)]})

Forget(p) ==
  /\ baselines' = [baselines EXCEPT ![p] = <<>>]
  /\ isolated' = [isolated EXCEPT ![p] = <<>>]
  /\ callers' = [callers EXCEPT ![p] = <<>>]
  /\ callerSide' = [callerSide EXCEPT ![p] = <<>>]

(* check_expected_cbmc_return_code raises, and so does Ctrl-C.             *)
AbortClauses(p, why) ==
  /\ UnlinkClauses(p)
  /\ Forget(p)
  /\ AbortWith(p, why)
  /\ UNCHANGED <<graphs, redundancy>>

Clause(p) == IF pc[p] = "isolation" THEN Len(isolated[p]) + 1 ELSE Len(callerSide[p]) + 1

(* The exit codes of the goto tools are not CBMC's own 0 and 10 either.    *)
Expected == {"success", "failure", "timeout"}

WriteClause(p) ==
  /\ pc[p] = "isolation"
  /\ Clause(p) <= Clauses[Target(p)]
  /\ ClausePath(p, Clause(p)) \notin DOMAIN files
  /\ files' = With(ClausePath(p, Clause(p)), ClauseMutant(Target(p), Clause(p)))
  /\ UNCHANGED <<pc, todo, graphs, building, cause, redundancyVars>>

(* _verify_removed_clause_source.                                          *)
VerifyWithoutClause(p) ==
  /\ pc[p] = "isolation"
  /\ Clause(p) <= Clauses[Target(p)]
  /\ ClausePath(p, Clause(p)) \in DOMAIN files
  /\ HasGraph(p, ClausePath(p, Clause(p)))
  /\ \E answer \in RedundancyAnswers(Target(p), ClausePath(p, Clause(p))) :
       IF answer \notin Expected
       THEN AbortClauses(p, "unexpected_return_code")
       ELSE /\ isolated' = [isolated EXCEPT ![p] = Append(@,
                 CASE answer = "success" -> "redundant"
                   [] answer = "failure" -> "required"
                   [] answer = "timeout" -> "timed_out")]
            /\ UNCHANGED <<pc, todo, files, graphs, cause, baselines, callers,
                           callerSide, redundancy>>
  /\ UNCHANGED building

StartCallerSide(p) ==
  /\ pc[p] = "isolation"
  /\ Clause(p) > Clauses[Target(p)]
  /\ GoTo(p, "caller_side")
  /\ UNCHANGED <<files, graphs, building, redundancyVars>>

VerifyingCallers(p) == {g \in DOMAIN baselines[p] : baselines[p][g] = "verified"}

(* Mutant of VerdictOf: a caller that timed out did not verify.            *)
VerdictTimeoutsFail(results) ==
  IF \E g \in DOMAIN results : results[g] # "verified" THEN "required_by_callers"
  ELSE "redundant_for_callers"

(* Mutant of VerdictOf: a caller that timed out is left out of account.    *)
VerdictTimeoutsPass(results) ==
  IF \E g \in DOMAIN results : results[g] = "failed" THEN "required_by_callers"
  ELSE "redundant_for_callers"

(* _verify_callers, when there are callers that verify: a failure counts   *)
(* before a timeout.                                                       *)
VerdictOf(results) ==
  CASE \E g \in DOMAIN results : results[g] = "failed" -> "required_by_callers"
    [] (\A g \in DOMAIN results : results[g] # "failed")
         /\ (\E g \in DOMAIN results : results[g] = "timed_out") ->
         "indeterminate_timeout"
    [] \A g \in DOMAIN results : results[g] = "verified" -> "redundant_for_callers"

(* The verdict on a clause for which no caller can be verified.            *)
JudgeWithoutCallers(p) ==
  /\ pc[p] = "caller_side"
  /\ Clause(p) <= Clauses[Target(p)]
  /\ VerifyingCallers(p) = {}
  /\ callerSide' = [callerSide EXCEPT ![p] = Append(@,
                      IF DOMAIN baselines[p] = {} THEN "unobservable"
                      ELSE "unverifiable_baseline")]
  /\ UNCHANGED <<workspaceVars, baselines, isolated, callers, redundancy>>

VerifyCaller(p, g) ==
  /\ pc[p] = "caller_side"
  /\ Clause(p) <= Clauses[Target(p)]
  /\ g \in VerifyingCallers(p) \ DOMAIN callers[p]
  /\ HasGraph(p, ClausePath(p, Clause(p)))
  /\ \E answer \in RedundancyAnswers(g, ClausePath(p, Clause(p))) :
       IF answer \notin Expected
       THEN AbortClauses(p, "unexpected_return_code")
       ELSE /\ callers' = [callers EXCEPT ![p] =
                 [h \in DOMAIN @ \cup {g} |->
                    IF h # g THEN @[h]
                    ELSE CASE answer = "success" -> "verified"
                           [] answer = "failure" -> "failed"
                           [] answer = "timeout" -> "timed_out"]]
            /\ UNCHANGED <<pc, todo, files, graphs, cause, baselines, isolated,
                           callerSide, redundancy>>
  /\ UNCHANGED building

Judge(p) ==
  /\ pc[p] = "caller_side"
  /\ VerifyingCallers(p) # {}
  /\ DOMAIN callers[p] = VerifyingCallers(p)
  /\ callerSide' = [callerSide EXCEPT ![p] = Append(@, VerdictOf(callers[p]))]
  /\ callers' = [callers EXCEPT ![p] = <<>>]
  /\ UNCHANGED <<workspaceVars, baselines, isolated, redundancy>>

CountOf(results, value) == Cardinality({i \in DOMAIN results : results[i] = value})

(* _aggregate_clause_redundancy_score.                                     *)
aggregate_clause_redundancy_score(alone, sides) ==
  LET timed_out == CountOf(alone, "timed_out")
      redundant == CountOf(alone, "redundant")
  IN  [scored |-> TRUE, total_clauses |-> Len(alone),
       num_redundant_in_isolation |-> redundant,
       num_required_in_isolation |-> Len(alone) - redundant - timed_out,
       num_in_isolation_timed_out |-> timed_out,
       num_redundant_for_callers |-> CountOf(sides, "redundant_for_callers"),
       num_required_by_callers |-> CountOf(sides, "required_by_callers"),
       num_unobservable |-> CountOf(sides, "unobservable"),
       num_unverifiable_baseline |-> CountOf(sides, "unverifiable_baseline"),
       num_indeterminate_timeout |-> CountOf(sides, "indeterminate_timeout")]

ReturnRedundancy(p) ==
  /\ pc[p] = "caller_side"
  /\ Clause(p) > Clauses[Target(p)]
  /\ UnlinkClauses(p)
  /\ redundancy' = [redundancy EXCEPT ![p] =
                      aggregate_clause_redundancy_score(isolated[p], callerSide[p])]
  /\ Forget(p)
  /\ GoTo(p, "scored")
  /\ UNCHANGED <<graphs, building>>

(* The steps of one process.                                               *)
RedundancyStep(p) ==
  \/ RedundancyBaseline(p)
  \/ FindCallers(p)
  \/ \E g \in Function : CallerBaseline(p, g) \/ VerifyCaller(p, g)
  \/ StartClauses(p)
  \/ WriteClause(p)
  \/ VerifyWithoutClause(p)
  \/ StartCallerSide(p)
  \/ JudgeWithoutCallers(p)
  \/ Judge(p)
  \/ ReturnRedundancy(p)
=============================================================================

--------------------------- MODULE MutationTesting ---------------------------
(***************************************************************************)
(* generate_mutants_and_compute_score: the mutants of a function that      *)
(* verifies are written beside its source and verified by a pool of        *)
(* threads, each with the call graph read before the pool is started. The  *)
(* main thread collects the results in the order in which they come, and   *)
(* when the pool is done, or has been stopped early and its runs in flight *)
(* have ended, removes every mutant.                                       *)
(***************************************************************************)
EXTENDS Workspace

CONSTANT MaxWorkers   \* the smaller of the cap and the number of processors

ASSUME WorkersAssumption == MaxWorkers \in Nat \ {0}

VARIABLES
  futures,   \* each mutant's future, by process
  vresults,  \* mutant_vresults: the results collected so far, by process
  score      \* the MutationTestingResult, by process

mutationVars == <<futures, vresults, score>>

(* MutantVerificationResult.                                               *)
VerificationResults ==
  {"killed", "survived", "timed_out", "compile_failed", "instrumentation_failed"}

Futures == VerificationResults \cup {"queued", "started", "written", "raised", "cancelled"}

MutationScores ==
  [tested : BOOLEAN, num_mutants : Nat, num_killed : Nat, num_survived : Nat,
   num_timed_out : Nat, num_compile_failed : Nat,
   num_instrumentation_failed : Nat]

NotTested ==
  [tested |-> FALSE, num_mutants |-> 0, num_killed |-> 0, num_survived |-> 0,
   num_timed_out |-> 0, num_compile_failed |-> 0,
   num_instrumentation_failed |-> 0]

MutationTypeOK ==
  /\ \A p \in Processes :
       /\ futures[p] \in Seq(Futures)
       /\ vresults[p] \in Seq(VerificationResults \cup {"none"})
       /\ Len(vresults[p]) = Len(futures[p])
  /\ score \in [Processes -> MutationScores]

MutationInit ==
  /\ futures = [p \in Processes |-> <<>>]
  /\ vresults = [p \in Processes |-> <<>>]
  /\ score = [p \in Processes |-> NotTested]

-----------------------------------------------------------------------------
(* Before the pool.                                                        *)

GetMutants(p) ==
  /\ pc[p] = "mutants"
  /\ score' = [score EXCEPT ![p] = NotTested]
  /\ GoTo(p, IF Mutants[Target(p)] = <<>> THEN "tested"
             ELSE IF Job[p].agent THEN "call_graph" ELSE "baseline")
  /\ UNCHANGED <<files, graphs, building, futures, vresults>>

Baseline(p) ==
  /\ pc[p] = "baseline"
  /\ HasGraph(p, Source)
  /\ LET fault == GraphFault(Source, Target(p))
     IN  IF fault # "none" THEN AbortWith(p, fault)
         ELSE \E answer \in Answer(Target(p), Source, Job[p].include_dirs) :
                GoTo(p, IF answer = "success" THEN "call_graph" ELSE "tested")
  /\ UNCHANGED <<files, graphs, building, mutationVars>>

StartPool(p) ==
  /\ pc[p] = "call_graph"
  /\ HasGraph(p, Source)
  /\ IF ~GraphAt(Source).complete
     THEN AbortWith(p, "unreadable_graph") /\ UNCHANGED <<futures, vresults>>
     ELSE /\ GoTo(p, "pool")
          /\ futures' = [futures EXCEPT ![p] =
                           [i \in DOMAIN Mutants[Target(p)] |-> "queued"]]
          /\ vresults' = [vresults EXCEPT ![p] =
                            [i \in DOMAIN Mutants[Target(p)] |-> "none"]]
  /\ UNCHANGED <<files, graphs, building, score>>

-----------------------------------------------------------------------------
(* The worker threads.                                                     *)

InFlight(p) == {i \in DOMAIN futures[p] : futures[p][i] \in {"started", "written"}}

mutation_worker_count(p) ==
  IF Len(futures[p]) < MaxWorkers THEN Len(futures[p]) ELSE MaxWorkers

(* Mutant of verify_mutant: a run that timed out did not verify.          *)
VerifyTimeoutsKill(answer) ==
  CASE answer \in {"failure", "timeout"} -> "killed"
    [] answer = "success" -> "survived"
    [] answer = "goto_cc" -> "compile_failed"
    [] answer = "goto_instrument" -> "instrumentation_failed"
    [] answer = "unexpected" -> "raised"

verify_mutant(answer) ==
  CASE answer = "timeout" -> "timed_out"
    [] answer = "failure" -> "killed"
    [] answer = "success" -> "survived"
    [] answer = "goto_cc" -> "compile_failed"
    [] answer = "goto_instrument" -> "instrumentation_failed"
    [] answer = "unexpected" -> "raised"

(* A thread takes the next mutant from the queue, and writes it.           *)
StartMutant(p, i) ==
  /\ pc[p] = "pool"
  /\ futures[p][i] = "queued"
  /\ \A j \in 1 .. i - 1 : futures[p][j] # "queued"
  /\ Cardinality(InFlight(p)) < mutation_worker_count(p)
  /\ futures' = [futures EXCEPT ![p][i] = "started"]
  /\ UNCHANGED <<workspaceVars, vresults, score>>

WriteMutant(p, i) ==
  /\ futures[p][i] = "started"
  /\ futures' = [futures EXCEPT ![p][i] = "written"]
  /\ files' = With(PathTo("mutant", Target(p), i), Mutants[Target(p)][i])
  /\ UNCHANGED <<pc, todo, graphs, building, cause, vresults, score>>

(* Its run of run_cbmc ends.                                               *)
VerifyMutant(p, i) ==
  /\ futures[p][i] = "written"
  /\ \E answer \in Answer(Target(p), PathTo("mutant", Target(p), i),
                          Job[p].include_dirs) :
       futures' = [futures EXCEPT ![p][i] = verify_mutant(answer)]
  /\ UNCHANGED <<workspaceVars, vresults, score>>

-----------------------------------------------------------------------------
(* The main thread.                                                        *)

CancelQueued(p) ==
  futures' = [futures EXCEPT ![p] =
                [i \in DOMAIN @ |-> IF @[i] = "queued" THEN "cancelled" ELSE @[i]]]

(* as_completed gives a future that has a result.                          *)
Collect(p, i) ==
  /\ pc[p] = "pool"
  /\ futures[p][i] \in VerificationResults
  /\ vresults[p][i] = "none"
  /\ vresults' = [vresults EXCEPT ![p][i] = futures[p][i]]
  /\ UNCHANGED <<workspaceVars, futures, score>>

(* future.result() raises what the worker raised, and no other mutant is   *)
(* started.                                                                *)
CollectError(p, i) ==
  /\ pc[p] = "pool"
  /\ futures[p][i] = "raised"
  /\ CancelQueued(p)
  /\ pc' = [pc EXCEPT ![p] = "drain"]
  /\ cause' = [cause EXCEPT ![p] = "unexpected_return_code"]
  /\ UNCHANGED <<todo, files, graphs, building, vresults, score>>

(* Ctrl-C while the pool is at work.                                       *)
InterruptPool(p) ==
  /\ pc[p] = "pool"
  /\ CancelQueued(p)
  /\ pc' = [pc EXCEPT ![p] = "drain"]
  /\ cause' = [cause EXCEPT ![p] = "interrupted"]
  /\ UNCHANGED <<todo, files, graphs, building, vresults, score>>

Count(results, value) == Cardinality({i \in DOMAIN results : results[i] = value})

(* Mutant of aggregate_mutation_score: what timed out was not killed.     *)
AggregateTimeoutsSurvive(results) ==
  LET killed == Count(results, "killed")
      compile_failed == Count(results, "compile_failed")
      instrumentation_failed == Count(results, "instrumentation_failed")
  IN  [tested |-> TRUE, num_mutants |-> Len(results), num_killed |-> killed,
       num_survived |->
         Len(results) - killed - compile_failed - instrumentation_failed,
       num_timed_out |-> Count(results, "timed_out"),
       num_compile_failed |-> compile_failed,
       num_instrumentation_failed |-> instrumentation_failed]

aggregate_mutation_score(results) ==
  LET killed == Count(results, "killed")
      timed_out == Count(results, "timed_out")
      compile_failed == Count(results, "compile_failed")
      instrumentation_failed == Count(results, "instrumentation_failed")
  IN  [tested |-> TRUE, num_mutants |-> Len(results), num_killed |-> killed,
       num_survived |-> Len(results) - killed - timed_out - compile_failed
                          - instrumentation_failed,
       num_timed_out |-> timed_out, num_compile_failed |-> compile_failed,
       num_instrumentation_failed |-> instrumentation_failed]

(* The mutants are removed and the pool is forgotten.                      *)
Unlink(p) ==
  /\ files' = Without({PathTo("mutant", Target(p), i) : i \in DOMAIN futures[p]})
  /\ futures' = [futures EXCEPT ![p] = <<>>]
  /\ vresults' = [vresults EXCEPT ![p] = <<>>]

ReturnScore(p) ==
  /\ pc[p] = "pool"
  /\ \A i \in DOMAIN vresults[p] : vresults[p][i] # "none"
  /\ Unlink(p)
  /\ score' = [score EXCEPT ![p] = aggregate_mutation_score(vresults[p])]
  /\ GoTo(p, "tested")
  /\ UNCHANGED <<graphs, building>>

(* Mutant of RaiseError: the pool is left without waiting for it.          *)
RaiseErrorAtOnce(p) ==
  /\ pc[p] = "drain"
  /\ files' = Without({PathTo("mutant", Target(p), i) : i \in DOMAIN futures[p]})
  /\ AbortWith(p, cause[p])
  /\ UNCHANGED <<graphs, building, mutationVars>>

(* Mutant of RaiseError: it waits for the mutants that were cancelled too. *)
RaiseErrorWhenAllDone(p) ==
  /\ pc[p] = "drain"
  /\ \A i \in DOMAIN futures[p] :
       futures[p][i] \in VerificationResults \cup {"raised"}
  /\ Unlink(p)
  /\ AbortWith(p, cause[p])
  /\ UNCHANGED <<graphs, building, score>>

(* The pool is left, with an exception, when its runs in flight have ended.*)
RaiseError(p) ==
  /\ pc[p] = "drain"
  /\ InFlight(p) = {}
  /\ Unlink(p)
  /\ AbortWith(p, cause[p])
  /\ UNCHANGED <<graphs, building, score>>

-----------------------------------------------------------------------------
(* The steps of one process.                                               *)
MutationStep(p) ==
  \/ GetMutants(p)
  \/ Baseline(p)
  \/ StartPool(p)
  \/ \E i \in DOMAIN futures[p] :
       \/ StartMutant(p, i) \/ WriteMutant(p, i) \/ VerifyMutant(p, i)
       \/ Collect(p, i) \/ CollectError(p, i)
  \/ ReturnScore(p)
  \/ RaiseError(p)
=============================================================================

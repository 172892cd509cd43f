---------------------------- MODULE MergeHarness ----------------------------
(***************************************************************************)
(* The parallel harness of avocado_verify.py: the main loop that starts    *)
(* one session per C function, callees first (_verify_functions), the      *)
(* worker that gives the session a private copy of the file, merges the    *)
(* copy back and records CBMC's ground truth (_verify_via_agent,           *)
(* _merge_and_verify), and what the merges know of each other              *)
(* (_MergeState).                                                          *)
(*                                                                         *)
(* A version of the file is a function from C functions to contracts: the  *)
(* edit rules let a session change nothing else that a verdict depends on. *)
(* What a session writes and what CBMC answers are nondeterministic. Each  *)
(* action is one critical section of _CANONICAL_LOCK, or one step of the   *)
(* main thread; what a worker does outside the lock touches only its own   *)
(* copy and is part of the action that follows it.                         *)
(***************************************************************************)
EXTENDS Naturals, FiniteSets

CONSTANTS
  Functions,        \* the functions to verify in this run
  Rank,             \* position of each function in the topological order
  Callees,          \* the in-file callees of each function
  Contracts,        \* the contracts a function can have, "no contract" included
  InitialFiles,     \* the contents the file may have when the run starts
  Outcomes(_, _),   \* Outcomes(f, file): the verdicts CBMC can give f on file
  Jobs,             \* --jobs
  MaxMergeReruns,   \* _MAX_MERGE_RERUNS_PER_FUNCTION
  SessionEnds,      \* whether a usage limit can stop a session: {FALSE} or BOOLEAN
  MaxForeignEdits   \* bound: other functions whose contract one session edits

Files == [Functions -> Contracts]

(* "fail" stands for every verdict that is neither a pass nor vacuous.     *)
Verdicts == {"pass", "vacuous", "fail"}

ASSUME FunctionsAssumption == IsFiniteSet(Functions)

ASSUME OrderAssumption ==
  /\ Rank \in [Functions -> Nat]
  /\ \A f, g \in Functions : Rank[f] = Rank[g] => f = g

ASSUME CalleesAssumption == Callees \in [Functions -> SUBSET Functions]

ASSUME FilesAssumption == InitialFiles \subseteq Files

ASSUME BoundsAssumption ==
  /\ Jobs \in Nat \ {0}
  /\ MaxMergeReruns \in Nat
  /\ SessionEnds \subseteq BOOLEAN
  /\ MaxForeignEdits \in Nat

(* CBMC always answers.                                                    *)
ASSUME OutcomesAssumption ==
  \A f \in Functions, file \in Files :
    Outcomes(f, file) \in (SUBSET Verdicts) \ {{}}

(* A function is verified against its own contract and its callees'        *)
(* contracts, and against nothing else in the file: the premise of         *)
(* functions_affected_by.                                                  *)
ASSUME LocalityAssumption ==
  \A f \in Functions, file, other \in Files :
    (\A g \in {f} \cup Callees[f] : file[g] = other[g])
      => Outcomes(f, file) = Outcomes(f, other)

(* No mutual recursion: apart from itself, a function calls only functions *)
(* that precede it in the topological order.                               *)
NoMutualRecursion ==
  \A f \in Functions : \A g \in Callees[f] \ {f} : Rank[g] < Rank[f]

VARIABLES
  canonical,     \* the canonical file
  active,        \* _MergeState.active
  verdict,       \* _MergeState.verified and .unverified: the latest verdicts
  phase,         \* where each function's worker is
  usageLimited,  \* _verify_functions: functions stopped by a usage limit
  base,          \* _Session.fork_base of each function's copy
  scratch,       \* verified_on: what each function's ground truth runs on
  report,        \* the MergeReport of each function's last merge
  cbmc,          \* the last ground truth, as the worker holds it
  limited,       \* whether the last session was stopped by a usage limit
  reruns         \* merge_reruns

vars == <<canonical, active, verdict, phase, usageLimited, base, scratch,
          report, cbmc, limited, reruns>>

(* pending:   not started                                                  *)
(* submitted: in the pool, about to fork its copy                          *)
(* working:   claude sessions run on the copy                              *)
(* verifying: merged or rejected; CBMC runs on the scratch copy, unlocked  *)
(* recorded:  verdict recorded; the worker decides whether to run again    *)
(* finished:  the worker has returned its result                           *)
(* done:      the main thread has logged the result                        *)
Phases == {"pending", "submitted", "working", "verifying", "recorded",
           "finished", "done"}

Live == {"submitted", "working", "verifying"}

done == {f \in Functions : phase[f] = "done"}

(* The futures the main thread waits for.                                  *)
inFlight == {f \in Functions : phase[f] \notin {"pending", "done"}}

(* A copy that does not exist: not made yet, or deleted (rmtree).          *)
NoCopy == [f \in Functions |-> CHOOSE c \in Contracts : TRUE]

NoReport == [merged |-> FALSE, carried |-> {}, dropped |-> {}, changed |-> {}]

Reports == [merged : BOOLEAN, carried : SUBSET Functions,
            dropped : SUBSET Functions, changed : SUBSET Functions]

TypeOK ==
  /\ canonical \in Files
  /\ active \subseteq Functions
  /\ verdict \in [Functions -> Verdicts \cup {"unknown"}]
  /\ phase \in [Functions -> Phases]
  /\ usageLimited \subseteq Functions
  /\ base \in [Functions -> Files]
  /\ scratch \in [Functions -> Files]
  /\ report \in [Functions -> Reports]
  /\ cbmc \in [Functions -> Verdicts]
  /\ limited \in [Functions -> BOOLEAN]
  /\ reruns \in [Functions -> 0 .. MaxMergeReruns]

Init ==
  /\ canonical \in InitialFiles
  /\ active = {}
  /\ verdict = [f \in Functions |-> "unknown"]
  /\ phase = [f \in Functions |-> "pending"]
  /\ usageLimited = {}
  /\ base = [f \in Functions |-> NoCopy]
  /\ scratch = [f \in Functions |-> NoCopy]
  /\ report = [f \in Functions |-> NoReport]
  /\ cbmc = [f \in Functions |-> "fail"]
  /\ limited = [f \in Functions |-> FALSE]
  /\ reruns = [f \in Functions |-> 0]

-----------------------------------------------------------------------------
(* The main thread.                                                        *)

(* Mutant of Ready: waits for every callee, later ones too.                *)
ReadyAfterEveryCallee ==
  {f \in Functions : phase[f] = "pending" /\ Callees[f] \ {f} \subseteq done}

(* Mutant of Ready: waits for no callee.                                   *)
ReadyAtOnce == {f \in Functions : phase[f] = "pending"}

Ready ==
  {f \in Functions :
     /\ phase[f] = "pending"
     /\ \A g \in Callees[f] : Rank[g] < Rank[f] => g \in done}

Start(f) ==
  /\ usageLimited = {}
  /\ f \in Ready
  /\ \A g \in Ready : Rank[f] <= Rank[g]
  /\ Cardinality(inFlight) < Jobs
  /\ active' = active \cup {f}
  /\ phase' = [phase EXCEPT ![f] = "submitted"]
  /\ UNCHANGED <<canonical, verdict, usageLimited, base, scratch, report,
                 cbmc, limited, reruns>>

(* _outcome_for: a real pass counts even when the session was cut short.   *)
(* "UNVERIFIED" stands for CLAUDE_TIMED_OUT and CLAUDE_ERROR too.          *)
OutcomeFor(f) ==
  CASE cbmc[f] = "pass" -> "VERIFIED"
    [] cbmc[f] # "pass" /\ limited[f] -> "USAGE_LIMITED"
    [] cbmc[f] = "vacuous" /\ ~limited[f] -> "VERIFIED"
    [] OTHER -> "UNVERIFIED"

StoppedByUsageLimit(f) == OutcomeFor(f) = "USAGE_LIMITED"

(* The worker's locals go with its result.                                 *)
Collect(f) ==
  /\ phase[f] = "finished"
  /\ phase' = [phase EXCEPT ![f] = "done"]
  /\ usageLimited' =
       IF StoppedByUsageLimit(f) THEN usageLimited \cup {f} ELSE usageLimited
  /\ cbmc' = [cbmc EXCEPT ![f] = "fail"]
  /\ limited' = [limited EXCEPT ![f] = FALSE]
  /\ reruns' = [reruns EXCEPT ![f] = 0]
  /\ report' = [report EXCEPT ![f] = NoReport]
  /\ UNCHANGED <<canonical, active, verdict, base, scratch>>

(* Nothing is in flight and nothing more may start: the loop breaks.       *)
Stopped == inFlight = {} /\ (usageLimited # {} \/ Ready = {})

Finalize == Stopped /\ UNCHANGED vars

-----------------------------------------------------------------------------
(* The worker: fork a copy, merge it back, record the ground truth.        *)

Fork(f) ==
  /\ phase[f] = "submitted"
  /\ base' = [base EXCEPT ![f] = canonical]
  /\ phase' = [phase EXCEPT ![f] = "working"]
  /\ UNCHANGED <<canonical, active, verdict, usageLimited, scratch, report,
                 cbmc, limited, reruns>>

(* What the sessions on f's copy can leave in it: any contract for f, and  *)
(* edits to the contracts of a few other functions.                        *)
SessionCopies(f) ==
  {mine \in Files :
     Cardinality({g \in Functions \ {f} : mine[g] # base[f][g]})
       <= MaxForeignEdits}

(* merge_copy: the edits to other functions that the merge decides on ...  *)
Edited(f, mine) ==
  {g \in Functions \ {f} : mine[g] \notin {base[f][g], canonical[g]}}

ChangedSinceFork(f) == {g \in Functions : canonical[g] # base[f][g]}

(* Mutant of FrozenFor: a live session's function may be edited.           *)
FreezeNothing(f) == active \cap {f}

FrozenFor(f) == active \ {f}

(* Mutant of Carried: newer edits are overwritten.                         *)
CarriedOverNewer(f, mine) == Edited(f, mine) \ FrozenFor(f)

(* ... and those of them it keeps.                                         *)
Carried(f, mine) == Edited(f, mine) \ (FrozenFor(f) \cup ChangedSinceFork(f))

(* The canonical file with f's contract, and the contracts in carried,     *)
(* taken from the session's copy.                                          *)
Merged(f, mine, carried) ==
  [g \in Functions |-> IF g = f \/ g \in carried THEN mine[g] ELSE canonical[g]]

RecheckedOnChange == {g \in Functions : verdict[g] \in {"pass", "vacuous"}}

(* Mutant of Affected: callers keep the verdict they had.                  *)
AffectedWithoutCallers(f, carried) == carried \ {f}

Affected(f, carried) ==
  (carried \cup {g \in RecheckedOnChange : Callees[g] \cap carried # {}}) \ {f}

(* The answers CBMC can give when the affected functions are re-verified.  *)
Reverifications(affected, file) ==
  {rv \in [affected -> Verdicts] :
     \A g \in affected : rv[g] \in Outcomes(g, file)}

(* Mutant of Regressed: no function is protected.                          *)
NoneRegressed(rv) == {g \in DOMAIN rv : verdict[g] = "unknown" /\ rv[g] = "pass"}

Regressed(rv) == {g \in DOMAIN rv : verdict[g] = "pass" /\ rv[g] # "pass"}

(* The re-verifications a merge runs before it commits; none without       *)
(* carried edits.                                                          *)
MergeReverifications(f, mine) ==
  LET carried == Carried(f, mine)
  IN  Reverifications(Affected(f, carried), Merged(f, mine, carried))

NoReverification == [g \in {} |-> "fail"]

(* The end of the first critical section: what the canonical file becomes  *)
(* and what the merge reports.                                             *)
EndMerge(f, lim, file, rep) ==
  /\ canonical' = file
  /\ scratch' = [scratch EXCEPT ![f] = file]
  /\ report' = [report EXCEPT ![f] = rep]
  /\ limited' = [limited EXCEPT ![f] = lim]
  /\ phase' = [phase EXCEPT ![f] = "verifying"]
  /\ UNCHANGED <<active, usageLimited, base, cbmc, reruns>>

(* The merge stands with the carried edits: every re-verified function has *)
(* its new verdict recorded, and none that was verified stopped verifying. *)
KeepMerge(f, mine, lim, rv) ==
  LET carried == Carried(f, mine)
  IN  /\ rv \in MergeReverifications(f, mine)
      /\ Regressed(rv) = {}
      /\ verdict' = [g \in Functions |->
                       IF g \in DOMAIN rv THEN rv[g] ELSE verdict[g]]
      /\ EndMerge(f, lim, Merged(f, mine, carried),
                  [merged  |-> TRUE, carried |-> carried,
                   dropped |-> Edited(f, mine) \ carried,
                   changed |-> ChangedSinceFork(f)])

(* The carried edits do not compile (nothing was re-verified yet), or they *)
(* break a verified function.                                              *)
CarriedEditsFail(f, mine, rv) ==
  /\ Carried(f, mine) # {}
  /\ \/ rv = NoReverification
     \/ rv \in MergeReverifications(f, mine) /\ Regressed(rv) # {}

(* without_carried: the merge is redone without the carried edits. The     *)
(* verdicts of the re-verification are not recorded.                       *)
RevertMerge(f, mine, lim, rv) ==
  /\ CarriedEditsFail(f, mine, rv)
  /\ EndMerge(f, lim, Merged(f, mine, {}),
              [merged  |-> TRUE, carried |-> {}, dropped |-> Edited(f, mine),
               changed |-> ChangedSinceFork(f)])
  /\ UNCHANGED verdict

(* The copy is unreadable or breaks an edit rule, a new name clashes with  *)
(* one in the canonical file, or the merged file, with or without the      *)
(* carried edits, does not compile: nothing is committed and the ground    *)
(* truth runs on the canonical file.                                       *)
RejectMerge(f, mine, lim, rv) ==
  /\ rv = NoReverification \/ CarriedEditsFail(f, mine, rv)
  /\ EndMerge(f, lim, canonical, NoReport)
  /\ UNCHANGED verdict

MergeWith(f, mine, lim, rv) ==
  /\ phase[f] = "working"
  /\ \/ KeepMerge(f, mine, lim, rv)
     \/ RevertMerge(f, mine, lim, rv)
     \/ RejectMerge(f, mine, lim, rv)

Merge(f) ==
  \E mine \in SessionCopies(f), lim \in SessionEnds :
    \E rv \in MergeReverifications(f, mine) \cup {NoReverification} :
      MergeWith(f, mine, lim, rv)

(* Mutant of Record: the function is never released.                       *)
Unreleased(f) ==
  /\ phase[f] = "verifying"
  /\ \E v \in Outcomes(f, scratch[f]) :
       /\ cbmc' = [cbmc EXCEPT ![f] = v]
       /\ verdict' = [verdict EXCEPT ![f] = v]
  /\ phase' = [phase EXCEPT ![f] = "recorded"]
  /\ base' = [base EXCEPT ![f] = NoCopy]
  /\ scratch' = [scratch EXCEPT ![f] = NoCopy]
  /\ UNCHANGED <<canonical, active, usageLimited, report, limited, reruns>>

(* Mutant of Moved: what changed during the verification is not looked at. *)
MovedUnnoticed(f) == {}

(* Callees whose contracts other sessions changed while f was verified.    *)
Moved(f) == {g \in Callees[f] \ {f} : canonical[g] # scratch[f][g]}

(* The second critical section: f is verified again if a callee moved.     *)
(* Both copies of the directory are deleted.                               *)
Record(f) ==
  /\ phase[f] = "verifying"
  /\ \E v \in Outcomes(f, IF Moved(f) = {} THEN scratch[f] ELSE canonical) :
       /\ cbmc' = [cbmc EXCEPT ![f] = v]
       /\ verdict' = [verdict EXCEPT ![f] = v]
  /\ report' = [report EXCEPT ![f].changed = @ \cup Moved(f)]
  /\ active' = active \ {f}
  /\ phase' = [phase EXCEPT ![f] = "recorded"]
  /\ base' = [base EXCEPT ![f] = NoCopy]
  /\ scratch' = [scratch EXCEPT ![f] = NoCopy]
  /\ UNCHANGED <<canonical, usageLimited, limited, reruns>>

(* _note_for_rerun_after_merge is not empty.                               *)
WantsRerun(f) ==
  /\ report[f].merged
  /\ cbmc[f] # "pass"
  /\ reruns[f] < MaxMergeReruns
  /\ ~limited[f]
  /\ \/ report[f].dropped # {}
     \/ report[f].changed \cap (Callees[f] \ {f}) # {}

Rerun(f) ==
  /\ phase[f] = "recorded"
  /\ WantsRerun(f)
  /\ reruns' = [reruns EXCEPT ![f] = @ + 1]
  /\ active' = active \cup {f}
  /\ phase' = [phase EXCEPT ![f] = "submitted"]
  /\ UNCHANGED <<canonical, verdict, usageLimited, base, scratch, report,
                 cbmc, limited>>

Finish(f) ==
  /\ phase[f] = "recorded"
  /\ ~WantsRerun(f)
  /\ phase' = [phase EXCEPT ![f] = "finished"]
  /\ UNCHANGED <<canonical, active, verdict, usageLimited, base, scratch,
                 report, cbmc, limited, reruns>>

-----------------------------------------------------------------------------
Worker(f) == Fork(f) \/ Merge(f) \/ Record(f) \/ Rerun(f) \/ Finish(f)

Main == \E f \in Functions : Start(f) \/ Collect(f)

Next == Main \/ (\E f \in Functions : Worker(f)) \/ Finalize

Spec == Init /\ [][Next]_vars

(* Every step of a worker ends: sessions and CBMC runs have time limits,   *)
(* and a lock holder releases it. The main thread never sleeps on a        *)
(* finished future.                                                        *)
FairSpec ==
  /\ Spec
  /\ WF_vars(Main)
  /\ \A f \in Functions : WF_vars(Worker(f))

-----------------------------------------------------------------------------
(* Properties.                                                             *)

(* The active set is exactly the functions that have a live session or a   *)
(* ground truth under way: what the merges freeze is what must be frozen   *)
(* (state.active, added by two threads and discarded by a third place).    *)
ActiveIsLive == active = {f \in Functions : phase[f] \in Live}

(* While a session is live, and until its verdict is recorded, nobody else *)
(* changes its function's contract (_MergeState.active: "Only that session *)
(* may change their definitions").                                         *)
LiveContractsOwned ==
  \A f \in Functions :
    /\ phase[f] = "working" => canonical[f] = base[f][f]
    /\ phase[f] = "verifying" => canonical[f] = scratch[f][f]

(* Once a function has started, every callee that precedes it in the order *)
(* has been processed and logged (_verify_functions: each completion is    *)
(* logged "before its dependents can start").                              *)
CalleesDoneFirst ==
  \A f \in Functions : phase[f] # "pending" =>
    \A g \in Callees[f] : Rank[g] < Rank[f] => g \in done

Settled == {f \in Functions : phase[f] \in {"recorded", "finished", "done"}}

(* A verdict that counts as verified in the final tally, a pass or a       *)
(* vacuous pass, is one CBMC can give on the canonical file as it is now,  *)
(* whatever other sessions merged since it was recorded (_MergeState:      *)
(* "latest ground truth on the canonical file passed").                    *)
VerdictsFresh ==
  \A f \in Settled :
    verdict[f] \in {"pass", "vacuous"} => verdict[f] \in Outcomes(f, canonical)

(* Copies, merges and re-verifications implement VerifiedFile: to a reader *)
(* of the file and of the results, sessions are processed one by one, and  *)
(* "a merge ... never turns a verified function into an unverified one"    *)
(* (_merge_and_verify), nor a proof into one of another file.              *)
Abstract == INSTANCE VerifiedFile WITH
  file      <- canonical,
  processed <- done,
  verified  <- {f \in done : verdict[f] = "pass"}

ImplementsVerifiedFile == Abstract!Spec

(* The inductive invariant behind the safety properties.                   *)
HarnessInv ==
  /\ TypeOK
  /\ ActiveIsLive
  /\ LiveContractsOwned
  /\ CalleesDoneFirst
  /\ VerdictsFresh

(* The main loop ends only when every function was processed, or a usage   *)
(* limit stopped it: no function waits for ever on a callee                *)
(* (_ready_functions: "cannot deadlock on mutual recursion").              *)
StopsOnlyWhenDone == Stopped => usageLimited # {} \/ done = Functions

(* A merge changes another function's contract only if no live session     *)
(* owns it and no merge changed it since the copy was forked: no session's *)
(* work is lost to an older copy (merge_copy, _reason_not_carried).        *)
NoLostUpdate ==
  [][\A f \in Functions :
       phase[f] = "working" /\ phase'[f] = "verifying" =>
         \A g \in Functions \ {f} :
           canonical'[g] # canonical[g] =>
             g \notin active /\ canonical[g] = base[f][g]]_vars

(* "A merge therefore never turns a verified function into an unverified   *)
(* one" (_merge_and_verify): a processed function that is recorded as      *)
(* verified, and is, stays both.                                           *)
VerifiedStaysVerified ==
  [][\A f \in done :
       verdict[f] = "pass" /\ "pass" \in Outcomes(f, canonical) =>
         verdict'[f] = "pass" /\ "pass" \in Outcomes(f, canonical')]_vars

(* The run ends: every function is processed unless a usage limit stops    *)
(* the run, whatever the call graph.                                       *)
RunEnds == <>[]((usageLimited # {} /\ inFlight = {}) \/ done = Functions)

=============================================================================

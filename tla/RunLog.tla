------------------------------- MODULE RunLog -------------------------------
(***************************************************************************)
(* The run log of avocado_verify.py, and --resume-from: MergeHarness with  *)
(* the records its workers' results leave in <stem>-avocado-verify.jsonl,  *)
(* what _read_function_verdicts reads back from them, a process that can   *)
(* die at any moment, and a later run that rebuilds its merge state from   *)
(* the log while the canonical file is what the dead run left.             *)
(*                                                                         *)
(* The log is kept as what its readers make of it: _read_function_verdicts *)
(* is a fold over the records, oldest first, so appending a record is one  *)
(* step of that fold.                                                      *)
(***************************************************************************)
EXTENDS MergeHarness

CONSTANTS
  AppendFails,   \* whether a write to the log can fail: {FALSE} or BOOLEAN
  MaxRestarts    \* bound: how many times the run is resumed

ASSUME LogAssumption == AppendFails \subseteq BOOLEAN /\ MaxRestarts \in Nat

VARIABLES
  reverified,  \* what each worker's merges re-verified, over all its reruns
  entries,     \* _read_function_verdicts of the log
  hearsay,     \* history: functions a merge found verified, and was undone
  restarts     \* history: how many times the run was resumed

logVars == <<reverified, entries, hearsay, restarts>>

NoEntry == [outcome |-> "none", verdict |-> "fail"]

Entries == [outcome : {"none", "VERIFIED", "UNVERIFIED", "USAGE_LIMITED"},
            verdict : Verdicts]

NothingReverified == [g \in Functions |-> "none"]

LogTypeOK ==
  /\ TypeOK
  /\ reverified \in [Functions -> [Functions -> Verdicts \cup {"none"}]]
  /\ entries \in [Functions -> Entries]
  /\ hearsay \subseteq Functions
  /\ restarts \in 0 .. MaxRestarts

LogInit ==
  /\ Init
  /\ reverified = [f \in Functions |-> NothingReverified]
  /\ entries = [f \in Functions |-> NoEntry]
  /\ hearsay = {}
  /\ restarts = 0

(* _get_processed_functions: what a resumed run skips.                     *)
Processed ==
  {f \in Functions : entries[f].outcome \in {"VERIFIED", "UNVERIFIED"}}

-----------------------------------------------------------------------------
(* Writing and reading records.                                            *)

Entry(verdictOf) ==
  [outcome |-> IF verdictOf = "fail" THEN "UNVERIFIED" ELSE "VERIFIED",
   verdict |-> verdictOf]

(* The re-verification of g in f's record changes g's entry: a pass always *)
(* does, another verdict only when f's last merge kept edits.              *)
Counts(f, g) ==
  /\ reverified[f][g] # "none"
  /\ entries[g] # NoEntry
  /\ reverified[f][g] = "pass" \/ report[f].carried # {}

(* The log after f's record is appended to it.                             *)
EntriesWith(f) ==
  [g \in Functions |->
     IF g = f THEN [outcome |-> OutcomeFor(f), verdict |-> cbmc[f]]
     ELSE IF Counts(f, g) THEN Entry(reverified[f][g])
     ELSE entries[g]]

(* _append_jsonl swallows an OSError.                                      *)
LogCollect(f) ==
  /\ Collect(f)
  /\ \E lost \in AppendFails :
       entries' = IF lost THEN entries ELSE EntriesWith(f)
  /\ reverified' = [reverified EXCEPT ![f] = NothingReverified]
  /\ UNCHANGED <<hearsay, restarts>>

-----------------------------------------------------------------------------
(* The worker's merges: what they re-verify is returned for the run log,   *)
(* also when the carried edits were reverted.                              *)
LogMerge(f) ==
  /\ \E mine \in SessionCopies(f), lim \in SessionEnds :
       \E rv \in MergeReverifications(f, mine) \cup {NoReverification} :
         /\ MergeWith(f, mine, lim, rv)
         /\ reverified' =
              [reverified EXCEPT ![f] =
                 [g \in Functions |-> IF g \in DOMAIN rv THEN rv[g] ELSE @[g]]]
         /\ hearsay' =
              hearsay \cup {g \in DOMAIN rv : rv[g] = "pass" /\ verdict'[g] # "pass"}
  /\ UNCHANGED <<entries, restarts>>

-----------------------------------------------------------------------------
(* main starts again with --resume-from: the skipped functions are done,   *)
(* the log's verdicts of the known ones fill the merge state, and nothing  *)
(* else is left of what the process held in memory.                        *)
ResumeFrom(skipped, known) ==
  /\ restarts < MaxRestarts
  /\ restarts' = restarts + 1
  /\ phase' = [f \in Functions |-> IF f \in skipped THEN "done" ELSE "pending"]
  /\ verdict' = [f \in Functions |->
                   IF f \in known THEN entries[f].verdict ELSE "unknown"]
  /\ active' = {}
  /\ usageLimited' = {}
  /\ base' = [f \in Functions |-> NoCopy]
  /\ scratch' = [f \in Functions |-> NoCopy]
  /\ report' = [f \in Functions |-> NoReport]
  /\ cbmc' = [f \in Functions |-> "fail"]
  /\ limited' = [f \in Functions |-> FALSE]
  /\ reruns' = [f \in Functions |-> 0]
  /\ reverified' = [f \in Functions |-> NothingReverified]
  /\ UNCHANGED <<canonical, entries, hearsay>>

(* Mutant of Resume: the merge state starts empty.                         *)
ResumeForgetful == ResumeFrom(Processed, {})

(* Mutant of Resume: whatever has a record is skipped.                     *)
ResumeSkippingRecorded == ResumeFrom({f \in Functions : entries[f] # NoEntry}, Processed)

(* The process ends, or dies, at any moment.                               *)
Resume == ResumeFrom(Processed, Processed)

LogWorker(f) ==
  \/ LogMerge(f)
  \/ (Fork(f) \/ Record(f) \/ Rerun(f) \/ Finish(f)) /\ UNCHANGED logVars

LogMain ==
  \E f \in Functions :
    \/ LogCollect(f)
    \/ Start(f) /\ UNCHANGED logVars

LogNext ==
  \/ LogMain
  \/ \E f \in Functions : LogWorker(f)
  \/ Resume
  \/ Finalize /\ UNCHANGED logVars

LogSpec == LogInit /\ [][LogNext]_<<vars, logVars>>

(* _finalize_run, and main's choice of its arguments.                      *)
ExitCode ==
  IF usageLimited # {} THEN 2
  ELSE IF \A f \in Functions : entries[f].outcome = "VERIFIED" THEN 0
  ELSE 1

-----------------------------------------------------------------------------
(* Properties.                                                             *)

(* A function starts only when each earlier callee's result is in the log, *)
(* and a resumed run skips that callee: what a resumed run specifies again *)
(* is never called by a function it trusts from the log (_verify_functions:*)
(* each completion is "appended to the run log before its dependents can   *)
(* start").                                                                *)
LoggedBeforeDependents ==
  \A f \in Functions : phase[f] # "pending" =>
    \A g \in Callees[f] : Rank[g] < Rank[f] => g \in done \cap Processed

(* A pass in the log is one CBMC can give on the canonical file as it is   *)
(* now, whatever was merged, and whenever the process died, since it was   *)
(* recorded; only a pass that came from a merge that was undone may be     *)
(* wrong (_read_function_verdicts: "each entry reflects the function's     *)
(* most recent attempt").                                                  *)
LoggedPassIsFresh ==
  \A f \in done \ hearsay :
    entries[f].outcome = "VERIFIED" /\ entries[f].verdict = "pass" =>
      "pass" \in Outcomes(f, canonical)

(* When a run exits with a code other than 2 there is nothing to resume:   *)
(* every function has a result that counts as processed, also when a       *)
(* resumed run, or a merge, wrote it (_finalize_run, main).                *)
NothingLeftUnlessLimited ==
  Stopped /\ ExitCode # 2 => Processed = Functions

(* "0 indicates all functions have been verified": the latest ground truth *)
(* of each on the canonical file passed, vacuously or not (_finalize_run). *)
ExitZeroMeansVerified ==
  Stopped /\ ExitCode = 0 =>
    \A f \in Functions : verdict[f] \in {"pass", "vacuous"}

=============================================================================

---------------------------- MODULE CbmcPipeline ----------------------------
(***************************************************************************)
(* How one function is verified (verify_function): the commands goto-cc,   *)
(* goto-instrument and cbmc, each in a process with a time limit; the two  *)
(* retries of run_cbmc in another variant of the pipeline; the check that  *)
(* the function has a contract; and the vacuity check, which runs the same *)
(* variant on a copy with two probes and, when no execution enters the     *)
(* body, once more without the depth bound.                                *)
(*                                                                         *)
(* A file is what the tools can tell about the function in it. The tools   *)
(* give the same answer each time, except that any command may run out of  *)
(* time and the goto tools may fail for a reason of their own. The file    *)
(* stays as it is: the harness verifies frozen copies.                     *)
(***************************************************************************)
EXTENDS Naturals

CONSTANTS
  Function,   \* the function to verify
  Callees,    \* its in-file callees other than itself, read from the source
  Files       \* the contents the file may have

(* The variants of the pipeline.                                           *)
Variants == [replace_self_call : BOOLEAN, prevent_macro_expansion : BOOLEAN]

Plain == [replace_self_call |-> FALSE, prevent_macro_expansion |-> FALSE]

(* How far the executions that CBMC explores get: nowhere, because the     *)
(* preconditions cannot all hold; nowhere within the depth bound; into the *)
(* body; or to the end of the function.                                    *)
Reach == {"nothing", "beyond_depth", "body", "end"}

AllFiles ==
  [listed : BOOLEAN,           \* the call graph knows the function
   recursive : BOOLEAN,        \* the call graph says that it calls itself
   compiles : SUBSET BOOLEAN,  \* with the macros on (FALSE) or off (TRUE)
   absent : SUBSET (Callees \cup {Function}),  \* removed by the preprocessor
   inlines_itself : BOOLEAN,   \* the compiled function calls itself
   bodiless : BOOLEAN,         \* with macros on it calls what has no body
   contract : BOOLEAN,         \* the compiled function has a contract
   holds : SUBSET Variants,    \* the variants in which CBMC finds no failure
   reach : [Variants -> Reach]]

ASSUME FilesAssumption == Files \subseteq AllFiles

VARIABLES
  file,      \* the file on disk
  job,       \* which text is run: the file, the probed copy or the entry copy
  step,      \* the next command
  variant,   \* PipelineVariant of the current run
  callees,   \* compiled_callees: whose contracts replace their calls
  heard,     \* the messages that can trigger a retry, so far in this run
  result     \* the RunCbmcResult

vars == <<file, job, step, variant, callees, heard, result>>

Jobs == {"verify", "probe", "entry"}

Steps == {"call_graph", "goto_cc", "unwind", "contract", "leave_out",
          "add_library", "unwind_library", "cbmc", "unbounded",
          "has_contract", "read_source", "returned"}

Messages == {"recursive_call", "missing_body"}

Vacuities == {"not_vacuous", "unsatisfiable_preconditions",
              "depth_limit_reached", "end_unreachable", "unknown"}

VacuousKinds == {"unsatisfiable_preconditions", "end_unreachable"}

Results ==
  [failed_step : {"none", "call_graph", "goto_cc", "goto_instrument", "cbmc"},
   timed_out : BOOLEAN, no_contract : BOOLEAN, contract_probe_failed : BOOLEAN,
   vacuity : Vacuities \cup {"unchecked"}, variant : Variants]

Passed == [failed_step |-> "none", timed_out |-> FALSE, no_contract |-> FALSE,
           contract_probe_failed |-> FALSE, vacuity |-> "unchecked",
           variant |-> Plain]

cbmc_ran_successfully(r) == r.failed_step = "none" /\ ~r.timed_out

is_vacuous(r) == r.vacuity \in VacuousKinds

(* Mutant of is_function_verified: forgets the missing contract.           *)
VerifiedWithoutContract(r) ==
  cbmc_ran_successfully(r) /\ ~r.contract_probe_failed /\ ~is_vacuous(r)

is_function_verified(r) ==
  /\ cbmc_ran_successfully(r)
  /\ ~r.no_contract
  /\ ~r.contract_probe_failed
  /\ ~is_vacuous(r)

(* The callees whose contracts a run in variant v asks to substitute.      *)
CalleesFor(f, v) ==
  Callees \cup (IF v.replace_self_call /\ f.recursive THEN {Function} ELSE {})

(* The steps that run a command.                                           *)
Commands == Steps \ {"call_graph", "leave_out", "read_source", "returned"}

TypeOK ==
  /\ file \in Files
  /\ job \in Jobs
  /\ step \in Steps
  /\ variant \in Variants
  /\ callees \subseteq Callees \cup {Function}
  /\ heard \subseteq Messages
  /\ result \in Results

Init ==
  /\ file \in Files
  /\ job = "verify"
  /\ step = "call_graph"
  /\ variant = Plain
  /\ callees = Callees
  /\ heard = {}
  /\ result = Passed

-----------------------------------------------------------------------------
(* How a run of the pipeline ends, and what follows.                       *)

(* A run: the step that failed, if one did; whether it ran out of time;    *)
(* the messages in its output; and, for a probed copy, whether its failure *)
(* lines name the entry probe (entered) and something else (left).         *)
Run(failed_step, timed_out, said, entered, left) ==
  [failed_step |-> failed_step, timed_out |-> timed_out, said |-> said,
   entered |-> entered, left |-> left]

TimedOut(failed_step) == Run(failed_step, TRUE, {}, FALSE, FALSE)

Failed(failed_step, said) == Run(failed_step, FALSE, said, FALSE, FALSE)

(* Mutant of classify_probe_run: ignores that the run timed out.           *)
ClassifyAnyFailure(run) ==
  CASE run.failed_step = "none" -> "unsatisfiable_preconditions"
    [] run.failed_step # "none" /\ run.left -> "not_vacuous"
    [] OTHER -> "end_unreachable"

classify_probe_run(run) ==
  CASE run.timed_out -> "unknown"
    [] ~run.timed_out /\ run.failed_step = "none" -> "unsatisfiable_preconditions"
    [] ~run.timed_out /\ run.failed_step = "cbmc" /\ run.entered ->
         IF run.left THEN "not_vacuous" ELSE "end_unreachable"
    [] OTHER -> "unknown"

classify_entry_probe_run(run) ==
  CASE run.failed_step = "cbmc" /\ ~run.timed_out /\ run.entered ->
         "depth_limit_reached"
    [] run.failed_step = "none" /\ ~run.timed_out -> "unsatisfiable_preconditions"
    [] OTHER -> "unknown"

Return(r) ==
  /\ step' = "returned"
  /\ result' = r
  /\ UNCHANGED <<job, variant, callees, heard>>

(* _run_pipeline starts again in variant v, on the text that job j names.  *)
StartRun(j, v) ==
  /\ job' = j
  /\ variant' = v
  /\ callees' = CalleesFor(file, v)
  /\ heard' = {}
  /\ step' = "goto_cc"
  /\ UNCHANGED result

(* The recursion-inlining retry follows the first run only. Mutant: any.   *)
NeedsSelfEveryTime(run) == "recursive_call" \in run.said

NeedsSelf(run) == variant = Plain /\ "recursive_call" \in run.said

NeedsLibrary(run) ==
  ~variant.prevent_macro_expansion /\ "missing_body" \in run.said

(* run_cbmc, after a run of the pipeline that did not pass.                *)
AfterFailedRun(run) ==
  \/ /\ ~run.timed_out
     /\ NeedsSelf(run)
     /\ StartRun("verify", [variant EXCEPT !.replace_self_call = TRUE])
  \/ /\ ~run.timed_out
     /\ ~NeedsSelf(run)
     /\ NeedsLibrary(run)
     /\ StartRun("verify", [variant EXCEPT !.prevent_macro_expansion = TRUE])
  \/ /\ run.timed_out \/ ~(NeedsSelf(run) \/ NeedsLibrary(run))
     /\ Return([Passed EXCEPT !.failed_step = run.failed_step,
                              !.timed_out = run.timed_out,
                              !.variant = variant])

(* check_vacuity, after the run on the probed copy.                        *)
AfterProbeRun(run) ==
  LET vacuity == classify_probe_run(run)
  IN  IF vacuity = "unsatisfiable_preconditions"
        THEN StartRun("entry", variant)
        ELSE Return([result EXCEPT !.vacuity = vacuity])

AfterEntryRun(run) ==
  Return([result EXCEPT !.vacuity = classify_entry_probe_run(run)])

AfterRun(run) ==
  \/ job = "verify" /\ AfterFailedRun(run)
  \/ job = "probe" /\ AfterProbeRun(run)
  \/ job = "entry" /\ AfterEntryRun(run)

-----------------------------------------------------------------------------
(* The commands. Each one may also run out of time: see Timeout.           *)

Goes(next, said) ==
  /\ step' = next
  /\ heard' = said
  /\ UNCHANGED <<job, variant, callees, result>>

(* get_callees raises ValueError for a function that is not in the graph.  *)
LookUp ==
  /\ step = "call_graph"
  /\ \/ file.listed /\ StartRun("verify", Plain)
     \/ ~file.listed /\ Return([Passed EXCEPT !.failed_step = "call_graph"])
  /\ UNCHANGED file

(* The probed copies are compiled elsewhere, which may fail by itself.     *)
GotoCc ==
  /\ step = "goto_cc"
  /\ \/ /\ variant.prevent_macro_expansion \in file.compiles
        /\ Goes("unwind", heard)
     \/ /\ job = "verify" => variant.prevent_macro_expansion \notin file.compiles
        /\ AfterRun(Failed("goto_cc", heard))
  /\ UNCHANGED file

(* Unwinding, and adding the library once the contract is enforced.        *)
Rewrite ==
  /\ \/ step = "unwind" /\ Goes("contract", heard)
     \/ step = "add_library" /\ Goes("unwind_library", heard)
     \/ step = "unwind_library" /\ Goes("cbmc", heard)
     \/ /\ step \in {"unwind", "add_library", "unwind_library"}
        /\ AfterRun(Failed("goto_instrument", heard))
  /\ UNCHANGED file

(* The warnings about missing bodies, which the run with the library       *)
(* drops.                                                                  *)
Warnings ==
  IF file.bodiless /\ ~variant.prevent_macro_expansion
    THEN {"missing_body"} ELSE {}

NotCompiled == (callees \cup {Function}) \cap file.absent

(* Mutant of Drops: gives up on every contract.                            *)
DropsAll(g) == {}

(* Mutant of Drops: runs the same command again.                           *)
DropsNothing(g) == callees

Drops(g) == callees \ {g}

(* The callee that goto-instrument named is left out, and the command runs *)
(* again.                                                                  *)
LeaveOut ==
  /\ step = "leave_out"
  /\ \E g \in NotCompiled \cap callees : callees' = Drops(g)
  /\ step' = "contract"
  /\ UNCHANGED <<file, job, variant, heard, result>>

(* goto-instrument names a function that the program does not contain.     *)
NamesMissing(g) ==
  IF g \in callees
    THEN Goes("leave_out", heard \cup Warnings)
    ELSE AfterRun(Failed("goto_instrument", heard \cup Warnings))

EnforceContract ==
  /\ step = "contract"
  /\ \/ \E g \in NotCompiled : NamesMissing(g)
     \/ /\ NotCompiled = {}
        /\ file.inlines_itself /\ Function \notin callees
        /\ AfterRun(Failed("goto_instrument",
                           heard \cup Warnings \cup {"recursive_call"}))
     \/ /\ NotCompiled = {}
        /\ file.inlines_itself => Function \in callees
        /\ Goes(IF variant.prevent_macro_expansion THEN "add_library" ELSE "cbmc",
                heard \cup Warnings)
     \/ AfterRun(Failed("goto_instrument", heard \cup Warnings))
  /\ UNCHANGED file

Reached == file.reach[variant]

(* CBMC's answer about the binary of the current run.                      *)
CheckVerdict ==
  IF variant \in file.holds
    THEN /\ step' = "has_contract"
         /\ result' = [Passed EXCEPT !.variant = variant]
         /\ UNCHANGED <<job, variant, callees, heard>>
    ELSE AfterRun(Failed("cbmc", heard \cup Warnings))

CheckProbed ==
  LET entered == Reached \in {"body", "end"}
      left == Reached = "end" \/ variant \notin file.holds
  IN  AfterRun(Run(IF entered \/ left THEN "cbmc" ELSE "none", FALSE, {},
                   entered, left))

(* The entry copy ends every path where the body begins.                   *)
CheckEntry ==
  IF Reached \in {"body", "end"}
    THEN AfterRun(Run("cbmc", FALSE, {}, TRUE, FALSE))
    ELSE Goes("unbounded", heard)

Check ==
  /\ step = "cbmc"
  /\ \/ job = "verify" /\ CheckVerdict
     \/ job = "probe" /\ CheckProbed
     \/ job = "entry" /\ CheckEntry
     \/ AfterRun(Failed("cbmc", heard))
  /\ UNCHANGED file

CheckWithoutDepth ==
  /\ step = "unbounded"
  /\ \/ Reached = "nothing" /\ AfterRun(Run("none", FALSE, {}, FALSE, FALSE))
     \/ Reached # "nothing" /\ AfterRun(Run("cbmc", FALSE, {}, TRUE, FALSE))
     \/ AfterRun(Failed("cbmc", heard))
  /\ UNCHANGED file

(* has_contract compiles the file anew, with the macros on and no stubs;   *)
(* None stands for any failure of its own.                                 *)
HasContract ==
  /\ step = "has_contract"
  /\ \/ /\ FALSE \in file.compiles
        /\ file.contract
        /\ Goes("read_source", heard)
     \/ /\ FALSE \in file.compiles
        /\ ~file.contract
        /\ Return([result EXCEPT !.no_contract = TRUE])
     \/ Return([result EXCEPT !.contract_probe_failed = TRUE])
  /\ UNCHANGED file

(* Mutant of ReadSource: the probed copy runs in the plain variant.        *)
ReadSourceForPlainRun ==
  /\ step = "read_source"
  /\ \/ StartRun("probe", Plain)
     \/ Return([result EXCEPT !.vacuity = "unknown"])
  /\ UNCHANGED file

(* check_vacuity reads the source and places the probes, if it finds the   *)
(* function's body.                                                        *)
ReadSource ==
  /\ step = "read_source"
  /\ \/ StartRun("probe", variant)
     \/ Return([result EXCEPT !.vacuity = "unknown"])
  /\ UNCHANGED file

(* The CbmcStep to which a command belongs.                                *)
StepOf ==
  CASE step = "goto_cc" -> "goto_cc"
    [] step \in {"cbmc", "unbounded"} -> "cbmc"
    [] OTHER -> "goto_instrument"

(* The process group is killed. has_contract reports it as no answer.      *)
Timeout ==
  /\ step \in Commands \ {"has_contract"}
  /\ AfterRun(TimedOut(StepOf))
  /\ UNCHANGED file

Tool ==
  \/ LookUp
  \/ GotoCc
  \/ Rewrite
  \/ EnforceContract
  \/ LeaveOut
  \/ Check
  \/ CheckWithoutDepth
  \/ HasContract
  \/ ReadSource
  \/ Timeout

Terminated == step = "returned" /\ UNCHANGED vars

Next == Tool \/ Terminated

Spec == Init /\ [][Next]_vars

(* Every command runs under a time limit, and the program goes on.         *)
FairSpec == Spec /\ WF_vars(Tool)

-----------------------------------------------------------------------------
(* What the answer is worth.                                               *)

Returned == step = "returned"

(* A function counts as verified only if it has a contract, CBMC accepts   *)
(* it in the variant that the result names, and in that variant executions *)
(* reach its end, or the depth bound alone keeps them out, or the vacuity  *)
(* check got no answer (is_function_verified, check_vacuity).              *)
PassIsEarned ==
  Returned /\ is_function_verified(result) =>
    /\ file.contract
    /\ result.variant \in file.holds
    /\ \/ file.reach[result.variant] \in {"beyond_depth", "end"}
       \/ result.vacuity = "unknown"

(* A pass is called vacuous only if it is, and for the right reason: a     *)
(* time-out or a crash of the vacuity check never accuses a contract.      *)
VacuityIsReal ==
  Returned =>
    /\ result.vacuity = "unsatisfiable_preconditions"
         => file.reach[result.variant] = "nothing"
    /\ result.vacuity = "end_unreachable"
         => file.reach[result.variant] = "body"

(* CBMC checks a binary in which every call of an in-file callee that the  *)
(* build contains stands for its contract: leaving out the callees that    *)
(* the preprocessor removed leaves out no other (_run_pipeline).           *)
EveryCalleeReplaced ==
  step = "cbmc" => callees = CalleesFor(file, variant) \ file.absent

(* A retry never repeats a run: it adds something to the variant, so there *)
(* are at most three runs before the contract check (run_cbmc).            *)
RetriesDiffer ==
  [][job = "verify" /\ step \notin {"call_graph", "goto_cc"} /\ step' = "goto_cc"
       => \/ job' = "probe"
          \/ /\ variant' # variant
             /\ variant.replace_self_call => variant'.replace_self_call
             /\ ~variant.prevent_macro_expansion]_vars

(* verify_function returns, whatever the commands do: leaving out callees  *)
(* one at a time comes to an end, and so do the retries.                   *)
AlwaysAnswers == <>Returned

-----------------------------------------------------------------------------
(* The pipeline implements CbmcVerdict.                                    *)

(* The runs of f that CBMC can accept.                                     *)
AcceptedIn(f) ==
  IF f.listed /\ f.contract /\ FALSE \in f.compiles /\ Function \notin f.absent
    THEN {v \in f.holds : v.prevent_macro_expansion \in f.compiles}
    ELSE {}

verdict ==
  IF ~Returned THEN "none"
  ELSE IF is_function_verified(result) THEN "pass"
  ELSE IF is_vacuous(result) THEN "vacuous"
  ELSE "fail"

Verdict == INSTANCE CbmcVerdict WITH
  CanPass <- LAMBDA f : AcceptedIn(f) # {},
  CanBeVacuous <- LAMBDA f :
    \E v \in AcceptedIn(f) : f.reach[v] \in {"nothing", "body"}

(* One of three answers, once, and only one that the file allows.          *)
ImplementsVerdict == Verdict!Spec
=============================================================================

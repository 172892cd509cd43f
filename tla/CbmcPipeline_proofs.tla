------------------------ MODULE CbmcPipeline_proofs ------------------------
(***************************************************************************)
(* Theorems about CbmcPipeline, for every set of callees and of files: a   *)
(* pass is earned, vacuity is real, no callee is forgotten, a retry never  *)
(* repeats a run, and the pipeline implements CbmcVerdict.                 *)
(***************************************************************************)
EXTENDS CbmcPipeline, TLAPS

(* The steps of a run of the pipeline.                                     *)
RunSteps == {"goto_cc", "unwind", "contract", "leave_out", "add_library",
             "unwind_library", "cbmc", "unbounded"}

(* Where a job can be.                                                     *)
Places ==
  /\ step \in {"call_graph", "has_contract", "read_source"} => job = "verify"
  /\ step = "unbounded" => job = "entry"
  /\ step \notin {"call_graph", "returned"} => file.listed

(* A run asks for the contracts of its callees but those left out, which   *)
(* the build does not have; once the contract is enforced there are none   *)
(* of these left.                                                          *)
CalleesKept ==
  /\ step \in RunSteps =>
       /\ callees \subseteq CalleesFor(file, variant)
       /\ CalleesFor(file, variant) \ file.absent \subseteq callees
  /\ step \in {"add_library", "unwind_library", "cbmc", "unbounded"} =>
       (callees \cup {Function}) \cap file.absent = {}

(* What goto-cc has compiled compiles.                                     *)
CompiledFirst ==
  step \in RunSteps \ {"goto_cc"} => variant.prevent_macro_expansion \in file.compiles

(* CBMC has accepted the file in the variant that the result names ...     *)
AcceptedRun ==
  /\ file.listed /\ Function \notin file.absent
  /\ result.variant \in file.holds
  /\ result.variant.prevent_macro_expansion \in file.compiles
  /\ result.failed_step = "none" /\ ~result.timed_out

(* ... and it has a contract.                                              *)
WithContract ==
  /\ AcceptedRun
  /\ file.contract /\ FALSE \in file.compiles
  /\ ~result.no_contract /\ ~result.contract_probe_failed

(* What is known after the run on the file, while the contract and the     *)
(* vacuity of the pass are checked.                                        *)
Checked ==
  /\ step \in {"has_contract", "read_source"} =>
       AcceptedRun /\ result.vacuity = "unchecked"
         /\ ~result.no_contract /\ ~result.contract_probe_failed
  /\ step = "read_source" \/ job # "verify" => WithContract
  /\ step = "read_source" \/ (step # "returned" /\ job # "verify") =>
       result.variant = variant /\ result.vacuity = "unchecked"
  /\ step = "has_contract" => result.variant = variant
  /\ job = "entry" /\ step # "returned" =>
       file.reach[variant] \in {"nothing", "beyond_depth"}

(* What the vacuity of a result says of the file.                          *)
VacuityMeans(r) ==
  /\ r.vacuity = "unsatisfiable_preconditions" => file.reach[r.variant] = "nothing"
  /\ r.vacuity = "depth_limit_reached" => file.reach[r.variant] = "beyond_depth"
  /\ r.vacuity = "end_unreachable" => file.reach[r.variant] = "body"
  /\ r.vacuity = "not_vacuous" => file.reach[r.variant] = "end"

(* The answer: a failure that nobody takes for vacuous, or an accepted run *)
(* whose vacuity was decided rightly, or not at all.                       *)
Answered ==
  step = "returned" =>
    \/ ~is_function_verified(result) /\ ~is_vacuous(result)
    \/ WithContract /\ result.vacuity # "unchecked" /\ VacuityMeans(result)

PipelineInv ==
  TypeOK /\ Places /\ CalleesKept /\ CompiledFirst /\ Checked /\ Answered

-----------------------------------------------------------------------------
(* What each kind of run may say of the file: a run on the file that goes  *)
(* on to a retry or an answer has failed; one on a probed copy fails where *)
(* the probes say, unless it fails for a reason of its own.                *)
Honest(run) ==
  /\ run.timed_out \in BOOLEAN
  /\ run.failed_step \in {"none", "goto_cc", "goto_instrument", "cbmc"}
  /\ job = "verify" => run.failed_step # "none"
  /\ job = "probe" /\ ~run.timed_out =>
       /\ run.failed_step = "none" => file.reach[variant] \in {"nothing", "beyond_depth"}
       /\ run.failed_step = "cbmc" /\ run.entered =>
            file.reach[variant] = IF run.left THEN "end" ELSE "body"
  /\ job = "entry" /\ ~run.timed_out =>
       /\ run.failed_step = "none" => file.reach[variant] = "nothing"
       /\ run.failed_step = "cbmc" /\ run.entered =>
            file.reach[variant] = "beyond_depth"

LEMMA FailuresAreHonest ==
  ASSUME NEW failed \in {"goto_cc", "goto_instrument", "cbmc"}, NEW said
  PROVE  Honest(Failed(failed, said)) /\ Honest(TimedOut(failed))
BY DEF Honest, Failed, TimedOut, Run

LEMMA StepOfType == StepOf \in {"goto_cc", "goto_instrument", "cbmc"}
BY DEF StepOf

(* How the two vacuity runs are read.                                      *)
LEMMA ProbeVerdict ==
  ASSUME NEW run, Honest(run), job = "probe"
  PROVE  LET v == classify_probe_run(run)
         IN  /\ v \in Vacuities \ {"depth_limit_reached"}
             /\ v = "unsatisfiable_preconditions" =>
                  file.reach[variant] \in {"nothing", "beyond_depth"}
             /\ v = "end_unreachable" => file.reach[variant] = "body"
             /\ v = "not_vacuous" => file.reach[variant] = "end"
BY DEF classify_probe_run, Honest, Vacuities

LEMMA EntryVerdict ==
  ASSUME NEW run, Honest(run), job = "entry"
  PROVE  LET v == classify_entry_probe_run(run)
         IN  /\ v \in {"depth_limit_reached", "unsatisfiable_preconditions", "unknown"}
             /\ v = "unsatisfiable_preconditions" => file.reach[variant] = "nothing"
             /\ v = "depth_limit_reached" => file.reach[variant] = "beyond_depth"
BY DEF classify_entry_probe_run, Honest

(* A run starts with every callee.                                         *)
LEMMA StartKeeps ==
  ASSUME TypeOK, NEW j \in Jobs, NEW v \in Variants, StartRun(j, v),
         UNCHANGED file, file.listed,
         j # "verify" => WithContract /\ result.variant = v
                           /\ result.vacuity = "unchecked",
         j = "entry" => file.reach[v] \in {"nothing", "beyond_depth"}
  PROVE  PipelineInv'
<1>1. /\ job' = j /\ variant' = v /\ callees' = CalleesFor(file, v) /\ heard' = {}
      /\ step' = "goto_cc" /\ UNCHANGED <<file, result>>
  BY DEF StartRun
<1>2. CalleesFor(file, v) \subseteq Callees \cup {Function}
  BY DEF CalleesFor
<1>3. TypeOK'
  BY <1>1, <1>2 DEF TypeOK, Steps
<1>4. CalleesKept' /\ CompiledFirst'
  BY <1>1 DEF CalleesKept, CompiledFirst, CalleesFor, RunSteps
<1>5. Checked'
  BY <1>1 DEF Checked, WithContract, AcceptedRun
<1>6. Places' /\ Answered'
  BY <1>1 DEF Places, Answered
<1> QED
  BY <1>3, <1>4, <1>5, <1>6 DEF PipelineInv

(* An answer that is a failure, or that was checked.                       *)
LEMMA ReturnKeeps ==
  ASSUME TypeOK, NEW r \in Results, Return(r), UNCHANGED file,
         \/ job = "verify" /\ ~is_function_verified(r) /\ ~is_vacuous(r)
         \/ /\ WithContract /\ r.vacuity # "unchecked" /\ VacuityMeans(r)
            /\ \E v \in Vacuities : r = [result EXCEPT !.vacuity = v]
  PROVE  PipelineInv'
<1>1. step' = "returned" /\ result' = r /\ UNCHANGED <<file, job, variant, callees, heard>>
  BY DEF Return
<1>2. TypeOK'
  BY <1>1 DEF TypeOK, Steps
<1>3. Places' /\ CalleesKept' /\ CompiledFirst'
  BY <1>1 DEF Places, CalleesKept, CompiledFirst, RunSteps
<1>4. CASE job = "verify" /\ ~is_function_verified(r) /\ ~is_vacuous(r)
  <2>1. Answered' /\ Checked'
    BY <1>1, <1>4 DEF Answered, Checked, is_function_verified, is_vacuous,
                      cbmc_ran_successfully
  <2> QED
    BY <1>2, <1>3, <2>1 DEF PipelineInv
<1>5. CASE /\ WithContract /\ r.vacuity # "unchecked" /\ VacuityMeans(r)
           /\ \E v \in Vacuities : r = [result EXCEPT !.vacuity = v]
  <2>1. r.variant = result.variant /\ r.failed_step = result.failed_step
        /\ r.timed_out = result.timed_out /\ r.no_contract = result.no_contract
        /\ r.contract_probe_failed = result.contract_probe_failed
    BY <1>5 DEF TypeOK, Results
  <2>2. WithContract'
    BY <1>1, <1>5, <2>1 DEF WithContract, AcceptedRun
  <2>3. Answered' /\ Checked'
    BY <1>1, <1>5, <2>2 DEF Answered, Checked, VacuityMeans
  <2> QED
    BY <1>2, <1>3, <2>3 DEF PipelineInv
<1> QED
  BY <1>4, <1>5

(* Whatever follows an honest run.                                         *)
LEMMA AfterRunKeeps ==
  ASSUME PipelineInv, step \in RunSteps, NEW run, Honest(run), AfterRun(run),
         UNCHANGED file
  PROVE  PipelineInv'
<1>1. TypeOK /\ Places /\ Checked /\ file.listed
  BY DEF PipelineInv, Places, RunSteps
<1>2. CASE job = "verify" /\ AfterFailedRun(run)
  <2>1. ASSUME NEW v \in Variants, StartRun("verify", v) PROVE PipelineInv'
    BY <1>1, <2>1, StartKeeps DEF Jobs
  <2>2. /\ [variant EXCEPT !.replace_self_call = TRUE] \in Variants
        /\ [variant EXCEPT !.prevent_macro_expansion = TRUE] \in Variants
    BY <1>1 DEF TypeOK, Variants
  <2>3. ASSUME Return([Passed EXCEPT !.failed_step = run.failed_step,
                                     !.timed_out = run.timed_out,
                                     !.variant = variant])
        PROVE  PipelineInv'
    <3> DEFINE r == [Passed EXCEPT !.failed_step = run.failed_step,
                                   !.timed_out = run.timed_out,
                                   !.variant = variant]
    <3>1. r \in Results /\ r.failed_step # "none" /\ r.vacuity = "unchecked"
      BY <1>1, <1>2 DEF Honest, Passed, Results, TypeOK, Plain
    <3>2. ~is_function_verified(r) /\ ~is_vacuous(r)
      BY <3>1 DEF is_function_verified, is_vacuous, cbmc_ran_successfully, VacuousKinds
    <3> QED
      BY <1>1, <1>2, <2>3, <3>1, <3>2, ReturnKeeps
  <2> QED
    BY <1>2, <2>1, <2>2, <2>3 DEF AfterFailedRun
<1>3. ASSUME job # "verify", NEW v \in Vacuities,
             Return([result EXCEPT !.vacuity = v]),
             VacuityMeans([result EXCEPT !.vacuity = v])
      PROVE  PipelineInv'
  <2> DEFINE r == [result EXCEPT !.vacuity = v]
  <2>1. r \in Results /\ r.vacuity # "unchecked"
    BY <1>1 DEF TypeOK, Results, Vacuities
  <2>2. WithContract
    BY <1>1, <1>3 DEF Checked
  <2> QED
    BY <1>1, <1>3, <2>1, <2>2, ReturnKeeps
<1>4. ASSUME job # "verify", NEW v \in Vacuities
      PROVE  LET r == [result EXCEPT !.vacuity = v]
             IN  r.vacuity = v /\ r.variant = variant
  BY <1>1, <1>4 DEF Checked, RunSteps, TypeOK, Results
<1>5. CASE job = "probe" /\ AfterProbeRun(run)
  <2> DEFINE v == classify_probe_run(run)
  <2>1. /\ v \in Vacuities \ {"depth_limit_reached"}
        /\ v = "unsatisfiable_preconditions" =>
             file.reach[variant] \in {"nothing", "beyond_depth"}
        /\ v = "end_unreachable" => file.reach[variant] = "body"
        /\ v = "not_vacuous" => file.reach[variant] = "end"
    BY <1>5, ProbeVerdict
  <2> HIDE DEF v
  <2>2. CASE v = "unsatisfiable_preconditions"
    <3>1. StartRun("entry", variant)
      BY <1>5, <2>2 DEF AfterProbeRun, v
    <3>2. WithContract /\ result.variant = variant /\ result.vacuity = "unchecked"
      BY <1>1, <1>5 DEF Checked, RunSteps
    <3> QED
      BY <1>1, <2>1, <2>2, <3>1, <3>2, StartKeeps DEF Jobs, TypeOK
  <2>3. CASE v # "unsatisfiable_preconditions"
    <3>1. Return([result EXCEPT !.vacuity = v])
      BY <1>5, <2>3 DEF AfterProbeRun, v
    <3>2. VacuityMeans([result EXCEPT !.vacuity = v])
      BY <1>4, <1>5, <2>1, <2>3 DEF VacuityMeans
    <3> QED
      BY <1>3, <1>5, <2>1, <3>1, <3>2
  <2> QED
    BY <2>2, <2>3
<1>6. CASE job = "entry" /\ AfterEntryRun(run)
  <2> DEFINE v == classify_entry_probe_run(run)
  <2>1. /\ v \in {"depth_limit_reached", "unsatisfiable_preconditions", "unknown"}
        /\ v = "unsatisfiable_preconditions" => file.reach[variant] = "nothing"
        /\ v = "depth_limit_reached" => file.reach[variant] = "beyond_depth"
    BY <1>6, EntryVerdict
  <2>2. Return([result EXCEPT !.vacuity = v])
    BY <1>6 DEF AfterEntryRun
  <2> HIDE DEF v
  <2>3. v \in Vacuities
    BY <2>1 DEF Vacuities
  <2>4. VacuityMeans([result EXCEPT !.vacuity = v])
    BY <1>4, <1>6, <2>1, <2>3 DEF VacuityMeans
  <2> QED
    BY <1>3, <1>6, <2>2, <2>3, <2>4
<1> QED
  BY <1>2, <1>5, <1>6 DEF AfterRun

(* Going on to the next command of a run.                                  *)
LEMMA GoesKeeps ==
  ASSUME PipelineInv, step \in RunSteps, NEW next \in RunSteps,
         NEW said \in SUBSET Messages, Goes(next, said), UNCHANGED file,
         step = "goto_cc" => variant.prevent_macro_expansion \in file.compiles,
         next \in {"add_library", "unwind_library", "cbmc", "unbounded"} =>
           (callees \cup {Function}) \cap file.absent = {},
         next = "unbounded" => job = "entry"
  PROVE  PipelineInv'
<1>1. step' = next /\ heard' = said /\ UNCHANGED <<file, job, variant, callees, result>>
  BY DEF Goes
<1>2. TypeOK'
  BY <1>1 DEF PipelineInv, TypeOK, RunSteps, Steps
<1>3. Places' /\ CalleesKept' /\ CompiledFirst'
  BY <1>1 DEF PipelineInv, Places, CalleesKept, CompiledFirst, RunSteps
<1>4. Checked' /\ Answered'
  BY <1>1 DEF PipelineInv, Checked, Answered, WithContract, AcceptedRun, RunSteps
<1> QED
  BY <1>2, <1>3, <1>4 DEF PipelineInv

LEMMA LookUpStep == PipelineInv /\ LookUp => PipelineInv'
<1> SUFFICES ASSUME PipelineInv, LookUp PROVE PipelineInv'
  OBVIOUS
<1>1. TypeOK /\ job = "verify" /\ UNCHANGED file
  BY DEF PipelineInv, Places, LookUp
<1>2. CASE file.listed /\ StartRun("verify", Plain)
  BY <1>1, <1>2, StartKeeps DEF Plain, Variants, Jobs
<1>3. CASE Return([Passed EXCEPT !.failed_step = "call_graph"])
  <2> DEFINE r == [Passed EXCEPT !.failed_step = "call_graph"]
  <2>1. r \in Results /\ ~is_function_verified(r) /\ ~is_vacuous(r)
    BY DEF Passed, Results, Plain, Variants, is_function_verified,
           cbmc_ran_successfully, is_vacuous, VacuousKinds
  <2> QED
    BY <1>1, <1>3, <2>1, ReturnKeeps
<1> QED
  BY <1>2, <1>3 DEF LookUp

LEMMA GotoCcStep == PipelineInv /\ GotoCc => PipelineInv'
<1> SUFFICES ASSUME PipelineInv, GotoCc PROVE PipelineInv'
  OBVIOUS
<1>1. step \in RunSteps /\ heard \in SUBSET Messages /\ UNCHANGED file
  BY DEF PipelineInv, TypeOK, GotoCc, RunSteps
<1>2. CASE variant.prevent_macro_expansion \in file.compiles /\ Goes("unwind", heard)
  BY <1>1, <1>2, GoesKeeps DEF RunSteps
<1>3. CASE AfterRun(Failed("goto_cc", heard))
  BY <1>1, <1>3, AfterRunKeeps, FailuresAreHonest
<1> QED
  BY <1>2, <1>3 DEF GotoCc

LEMMA RewriteStep == PipelineInv /\ Rewrite => PipelineInv'
<1> SUFFICES ASSUME PipelineInv, Rewrite PROVE PipelineInv'
  OBVIOUS
<1>1. /\ step \in {"unwind", "add_library", "unwind_library"} /\ step \in RunSteps
      /\ heard \in SUBSET Messages /\ UNCHANGED file
  BY DEF PipelineInv, TypeOK, Rewrite, RunSteps
<1>2. CASE step = "unwind" /\ Goes("contract", heard)
  BY <1>1, <1>2, GoesKeeps DEF RunSteps
<1>3. ASSUME NEW next \in {"unwind_library", "cbmc"},
             step \in {"add_library", "unwind_library"}, Goes(next, heard)
      PROVE  PipelineInv'
  <2>1. (callees \cup {Function}) \cap file.absent = {}
    BY <1>3 DEF PipelineInv, CalleesKept
  <2> QED
    BY <1>1, <1>3, <2>1, GoesKeeps DEF RunSteps
<1>4. CASE AfterRun(Failed("goto_instrument", heard))
  BY <1>1, <1>4, AfterRunKeeps, FailuresAreHonest
<1> QED
  BY <1>2, <1>3, <1>4 DEF Rewrite

LEMMA EnforceContractStep == PipelineInv /\ EnforceContract => PipelineInv'
<1> SUFFICES ASSUME PipelineInv, EnforceContract PROVE PipelineInv'
  OBVIOUS
<1> DEFINE said == heard \cup Warnings
<1>1. /\ step \in RunSteps /\ step = "contract" /\ said \in SUBSET Messages
      /\ UNCHANGED file
  BY DEF PipelineInv, TypeOK, EnforceContract, RunSteps, Warnings, Messages
<1> HIDE DEF said
<1>2. ASSUME NEW all, AfterRun(Failed("goto_instrument", all)) PROVE PipelineInv'
  BY <1>1, <1>2, AfterRunKeeps, FailuresAreHonest
<1>3. ASSUME NEW g, NamesMissing(g) PROVE PipelineInv'
  <2>1. CASE Goes("leave_out", said)
    BY <1>1, <2>1, GoesKeeps DEF RunSteps
  <2> QED
    BY <1>2, <1>3, <2>1 DEF NamesMissing, said
<1>4. ASSUME NEW next \in {"add_library", "cbmc"}, NotCompiled = {}, Goes(next, said)
      PROVE  PipelineInv'
  BY <1>1, <1>4, GoesKeeps DEF RunSteps, NotCompiled
<1> QED
  BY <1>2, <1>3, <1>4 DEF EnforceContract, said

(* A callee that is left out is one that the build does not have.          *)
LEMMA LeaveOutStep == PipelineInv /\ LeaveOut => PipelineInv'
<1> SUFFICES ASSUME PipelineInv, LeaveOut PROVE PipelineInv'
  OBVIOUS
<1>1. PICK g \in NotCompiled \cap callees : callees' = callees \ {g}
  BY DEF LeaveOut, Drops
<1>2. /\ step = "leave_out" /\ step' = "contract"
      /\ UNCHANGED <<file, job, variant, heard, result>>
  BY DEF LeaveOut
<1>3. TypeOK'
  BY <1>1, <1>2 DEF PipelineInv, TypeOK, Steps
<1>4. Places' /\ CompiledFirst'
  BY <1>2 DEF PipelineInv, Places, CompiledFirst, RunSteps
<1>5. CalleesKept'
  <2>1. /\ callees \subseteq CalleesFor(file, variant)
        /\ CalleesFor(file, variant) \ file.absent \subseteq callees
    BY <1>2 DEF PipelineInv, CalleesKept, RunSteps
  <2>2. CalleesFor(file, variant)' = CalleesFor(file, variant)
    BY <1>2 DEF CalleesFor
  <2> QED
    BY <1>1, <1>2, <2>1, <2>2 DEF CalleesKept, NotCompiled
<1>6. Checked' /\ Answered'
  BY <1>2 DEF PipelineInv, Checked, Answered, WithContract, AcceptedRun
<1> QED
  BY <1>3, <1>4, <1>5, <1>6 DEF PipelineInv

(* CBMC's answer on the file, on the probed copy and on the entry copy.    *)
LEMMA CheckStep == PipelineInv /\ Check => PipelineInv'
<1> SUFFICES ASSUME PipelineInv, Check PROVE PipelineInv'
  OBVIOUS
<1>1. /\ TypeOK /\ Checked /\ step = "cbmc" /\ step \in RunSteps /\ UNCHANGED file
      /\ file.listed /\ (callees \cup {Function}) \cap file.absent = {}
      /\ variant.prevent_macro_expansion \in file.compiles
  BY DEF PipelineInv, Check, RunSteps, Places, CalleesKept, CompiledFirst
<1>2. ASSUME NEW said, AfterRun(Failed("cbmc", said)) PROVE PipelineInv'
  BY <1>1, <1>2, AfterRunKeeps, FailuresAreHonest
<1>3. variant \in Variants /\ Reached \in Reach
  BY <1>1, FilesAssumption DEF TypeOK, AllFiles, Reached
<1>4. CASE job = "verify" /\ CheckVerdict
  <2>1. SUFFICES ASSUME variant \in file.holds PROVE PipelineInv'
    BY <1>2, <1>4 DEF CheckVerdict
  <2>2. /\ step' = "has_contract" /\ result' = [Passed EXCEPT !.variant = variant]
        /\ UNCHANGED <<file, job, variant, callees, heard>>
    BY <1>1, <1>4, <2>1 DEF CheckVerdict
  <2>3. result' \in Results /\ result'.variant = variant
        /\ result'.failed_step = "none" /\ ~result'.timed_out
        /\ ~result'.no_contract /\ ~result'.contract_probe_failed
        /\ result'.vacuity = "unchecked"
    BY <1>3, <2>2 DEF Passed, Results
  <2>4. TypeOK'
    BY <1>1, <2>2, <2>3 DEF TypeOK, Steps
  <2>5. Places' /\ CalleesKept' /\ CompiledFirst' /\ Answered'
    BY <1>1, <1>4, <2>2 DEF Places, CalleesKept, CompiledFirst, Answered, RunSteps
  <2>6. AcceptedRun'
    BY <1>1, <2>1, <2>2, <2>3 DEF AcceptedRun
  <2>7. Checked'
    BY <1>4, <2>2, <2>3, <2>6 DEF Checked
  <2> QED
    BY <2>4, <2>5, <2>7 DEF PipelineInv
<1>5. CASE job = "probe" /\ CheckProbed
  <2> DEFINE entered == Reached \in {"body", "end"}
             left == Reached = "end" \/ variant \notin file.holds
             run == Run(IF entered \/ left THEN "cbmc" ELSE "none", FALSE, {},
                        entered, left)
  <2>1. variant \in file.holds
    BY <1>1, <1>5 DEF Checked, WithContract, AcceptedRun
  <2>2. Honest(run)
    BY <1>3, <1>5, <2>1 DEF Honest, Run, Reached, Reach
  <2>3. AfterRun(run)
    BY <1>5 DEF CheckProbed
  <2> QED
    BY <1>1, <2>2, <2>3, AfterRunKeeps
<1>6. CASE job = "entry" /\ CheckEntry
  <2>1. Reached \in {"nothing", "beyond_depth"}
    BY <1>1, <1>6 DEF Checked, Reached
  <2>2. Goes("unbounded", heard)
    BY <1>6, <2>1 DEF CheckEntry
  <2>3. heard \in SUBSET Messages
    BY <1>1 DEF TypeOK
  <2> QED
    BY <1>1, <1>6, <2>2, <2>3, GoesKeeps DEF RunSteps
<1> QED
  BY <1>2, <1>4, <1>5, <1>6 DEF Check

LEMMA CheckWithoutDepthStep == PipelineInv /\ CheckWithoutDepth => PipelineInv'
<1> SUFFICES ASSUME PipelineInv, CheckWithoutDepth PROVE PipelineInv'
  OBVIOUS
<1>1. /\ step \in RunSteps /\ UNCHANGED file /\ job = "entry"
      /\ Reached \in {"nothing", "beyond_depth"}
  BY DEF PipelineInv, CheckWithoutDepth, RunSteps, Places, Checked, Reached
<1>2. CASE Reached = "nothing" /\ AfterRun(Run("none", FALSE, {}, FALSE, FALSE))
  <2>1. Honest(Run("none", FALSE, {}, FALSE, FALSE))
    BY <1>1, <1>2 DEF Honest, Run, Reached
  <2> QED
    BY <1>1, <1>2, <2>1, AfterRunKeeps
<1>3. CASE Reached # "nothing" /\ AfterRun(Run("cbmc", FALSE, {}, TRUE, FALSE))
  <2>1. Honest(Run("cbmc", FALSE, {}, TRUE, FALSE))
    BY <1>1, <1>3 DEF Honest, Run, Reached
  <2> QED
    BY <1>1, <1>3, <2>1, AfterRunKeeps
<1>4. CASE AfterRun(Failed("cbmc", heard))
  BY <1>1, <1>4, AfterRunKeeps, FailuresAreHonest
<1> QED
  BY <1>2, <1>3, <1>4 DEF CheckWithoutDepth

(* A pass without a contract, or whose contract could not be looked for,   *)
(* is no pass.                                                             *)
LEMMA HasContractStep == PipelineInv /\ HasContract => PipelineInv'
<1> SUFFICES ASSUME PipelineInv, HasContract PROVE PipelineInv'
  OBVIOUS
<1>1. /\ TypeOK /\ job = "verify" /\ step = "has_contract" /\ UNCHANGED file
      /\ AcceptedRun /\ result.vacuity = "unchecked" /\ result.variant = variant
      /\ ~result.no_contract /\ ~result.contract_probe_failed /\ file.listed
  BY DEF PipelineInv, HasContract, Places, Checked
<1>2. CASE FALSE \in file.compiles /\ file.contract /\ Goes("read_source", heard)
  <2>1. step' = "read_source" /\ UNCHANGED <<file, job, variant, callees, heard, result>>
    BY <1>1, <1>2 DEF Goes
  <2>2. TypeOK'
    BY <1>1, <2>1 DEF TypeOK, Steps
  <2>3. Places' /\ CalleesKept' /\ CompiledFirst' /\ Answered'
    BY <1>1, <2>1 DEF Places, CalleesKept, CompiledFirst, Answered, RunSteps
  <2>4. Checked'
    BY <1>1, <1>2, <2>1 DEF Checked, WithContract, AcceptedRun
  <2> QED
    BY <2>2, <2>3, <2>4 DEF PipelineInv
<1>3. ASSUME NEW r, Return(r),
             \/ r = [result EXCEPT !.no_contract = TRUE]
             \/ r = [result EXCEPT !.contract_probe_failed = TRUE]
      PROVE  PipelineInv'
  <2>1. /\ r \in Results /\ r.vacuity = "unchecked"
        /\ r.no_contract \/ r.contract_probe_failed
    BY <1>1, <1>3 DEF TypeOK, Results
  <2>2. ~is_function_verified(r) /\ ~is_vacuous(r)
    BY <2>1 DEF is_function_verified, is_vacuous, VacuousKinds
  <2> QED
    BY <1>1, <1>3, <2>1, <2>2, ReturnKeeps
<1> QED
  BY <1>2, <1>3 DEF HasContract

LEMMA ReadSourceStep == PipelineInv /\ ReadSource => PipelineInv'
<1> SUFFICES ASSUME PipelineInv, ReadSource PROVE PipelineInv'
  OBVIOUS
<1>1. /\ TypeOK /\ job = "verify" /\ UNCHANGED file /\ WithContract
      /\ result.vacuity = "unchecked" /\ result.variant = variant /\ file.listed
  BY DEF PipelineInv, ReadSource, Places, Checked
<1>2. CASE StartRun("probe", variant)
  BY <1>1, <1>2, StartKeeps DEF TypeOK, Jobs
<1>3. CASE Return([result EXCEPT !.vacuity = "unknown"])
  <2> DEFINE r == [result EXCEPT !.vacuity = "unknown"]
  <2>1. r \in Results /\ r.vacuity = "unknown" /\ "unknown" \in Vacuities
    BY <1>1 DEF TypeOK, Results, Vacuities
  <2>2. VacuityMeans(r)
    BY <2>1 DEF VacuityMeans
  <2> QED
    BY <1>1, <1>3, <2>1, <2>2, ReturnKeeps
<1> QED
  BY <1>2, <1>3 DEF ReadSource

LEMMA TimeoutStep == PipelineInv /\ Timeout => PipelineInv'
<1> SUFFICES ASSUME PipelineInv, Timeout PROVE PipelineInv'
  OBVIOUS
<1>1. step \in RunSteps /\ UNCHANGED file /\ AfterRun(TimedOut(StepOf))
  BY DEF PipelineInv, TypeOK, Timeout, Commands, Steps, RunSteps
<1> QED
  BY <1>1, AfterRunKeeps, FailuresAreHonest, StepOfType

LEMMA PipelineInit == Init => PipelineInv
BY FilesAssumption
   DEF Init, PipelineInv, TypeOK, Places, CalleesKept, CompiledFirst, Checked,
       Answered, Plain, Variants, Passed, Results, Jobs, Steps, RunSteps, AllFiles

LEMMA PipelineStep == PipelineInv /\ [Next]_vars => PipelineInv'
<1> SUFFICES ASSUME PipelineInv, [Next]_vars PROVE PipelineInv'
  OBVIOUS
<1>1. CASE UNCHANGED vars
  BY <1>1 DEF vars, PipelineInv, TypeOK, Places, CalleesKept, CompiledFirst,
              Checked, Answered, WithContract, AcceptedRun, VacuityMeans
<1>2. CASE Tool
  BY <1>2, LookUpStep, GotoCcStep, RewriteStep, EnforceContractStep, LeaveOutStep,
     CheckStep, CheckWithoutDepthStep, HasContractStep, ReadSourceStep, TimeoutStep
     DEF Tool
<1> QED
  BY <1>1, <1>2 DEF Next, Terminated

(* At every moment of every verification: where the job is, which callees  *)
(* are left, what has been compiled and checked, and what the answer       *)
(* means. It includes the type invariant of CbmcPipeline.                  *)
THEOREM PipelineInvariant == Spec => []PipelineInv
<1>1. Init => PipelineInv
  BY PipelineInit
<1>2. PipelineInv /\ [Next]_vars => PipelineInv'
  BY PipelineStep
<1> QED
  BY <1>1, <1>2, PTL DEF Spec

(* is_function_verified says yes only of a function that has a contract,   *)
(* that CBMC accepts in the named variant, and whose executions are not    *)
(* known to miss its end, whatever timed out or crashed on the way.        *)
THEOREM PassCorrect == Spec => []PassIsEarned
<1>1. PipelineInv => PassIsEarned
  <2> SUFFICES ASSUME PipelineInv, Returned, is_function_verified(result)
               PROVE  /\ file.contract
                      /\ result.variant \in file.holds
                      /\ \/ file.reach[result.variant] \in {"beyond_depth", "end"}
                         \/ result.vacuity = "unknown"
    BY DEF PassIsEarned
  <2>1. WithContract /\ result.vacuity # "unchecked" /\ VacuityMeans(result)
    BY DEF PipelineInv, Answered, Returned
  <2>2. result.vacuity \in {"not_vacuous", "depth_limit_reached", "unknown"}
    BY <2>1 DEF PipelineInv, TypeOK, Results, Vacuities, is_function_verified,
                is_vacuous, VacuousKinds
  <2> QED
    BY <2>1, <2>2 DEF WithContract, AcceptedRun, VacuityMeans
<1> QED
  BY <1>1, PipelineInvariant, PTL

(* check_vacuity calls a pass vacuous only for the reason it gives.        *)
THEOREM VacuityCorrect == Spec => []VacuityIsReal
<1>1. PipelineInv => VacuityIsReal
  BY DEF PipelineInv, Answered, Returned, VacuityIsReal, VacuityMeans, is_vacuous,
         VacuousKinds
<1> QED
  BY <1>1, PipelineInvariant, PTL

(* When CBMC runs, exactly the callees that the build contains stand for   *)
(* their contracts (_run_pipeline).                                        *)
THEOREM CalleesCorrect == Spec => []EveryCalleeReplaced
<1>1. PipelineInv => EveryCalleeReplaced
  BY DEF PipelineInv, CalleesKept, RunSteps, EveryCalleeReplaced
<1> QED
  BY <1>1, PipelineInvariant, PTL

-----------------------------------------------------------------------------
(* The retries.                                                            *)

(* What a retry changes: it replaces the call of the function to itself,   *)
(* or it turns the macros off, and never after they are off.               *)
Another ==
  /\ variant' # variant
  /\ variant.replace_self_call => variant'.replace_self_call
  /\ ~variant.prevent_macro_expansion

LEMMA RunThenAnother ==
  ASSUME TypeOK, job = "verify", NEW run, AfterRun(run), step' = "goto_cc"
  PROVE  Another
<1>1. AfterFailedRun(run)
  BY DEF AfterRun
<1>2. CASE NeedsSelf(run) /\ StartRun("verify", [variant EXCEPT !.replace_self_call = TRUE])
  BY <1>2 DEF NeedsSelf, StartRun, Plain, Another
<1>3. CASE /\ NeedsLibrary(run)
           /\ StartRun("verify", [variant EXCEPT !.prevent_macro_expansion = TRUE])
  BY <1>3 DEF NeedsLibrary, StartRun, TypeOK, Variants, Another
<1> QED
  BY <1>1, <1>2, <1>3 DEF AfterFailedRun, Return

(* Every run of verify_function but the first, and but the vacuity check's *)
(* own, is in a variant that has not been tried.                           *)
THEOREM RetriesCorrect == Spec => RetriesDiffer
<1> DEFINE Retry == /\ job = "verify" /\ step \notin {"call_graph", "goto_cc"}
                    /\ step' = "goto_cc"
<1>1. PipelineInv /\ [Next]_vars => [Retry => job' = "probe" \/ Another]_vars
  <2> SUFFICES ASSUME PipelineInv, Tool, Retry PROVE job' = "probe" \/ Another
    BY DEF Next, Terminated
  <2>1. TypeOK
    BY DEF PipelineInv
  <2>2. ASSUME NEW run, AfterRun(run) PROVE Another
    BY <2>1, <2>2, RunThenAnother
  <2>3. CASE LookUp \/ GotoCc \/ LeaveOut \/ HasContract
    BY <2>3 DEF LookUp, GotoCc, LeaveOut, HasContract, Goes, Return
  <2>4. CASE Rewrite
    BY <2>2, <2>4 DEF Rewrite, Goes
  <2>5. CASE EnforceContract
    BY <2>2, <2>5 DEF EnforceContract, NamesMissing, Goes
  <2>6. CASE Check
    BY <2>2, <2>6 DEF Check, CheckVerdict, CheckProbed, CheckEntry, Goes
  <2>7. CASE CheckWithoutDepth
    BY <2>2, <2>7 DEF CheckWithoutDepth
  <2>8. CASE ReadSource
    BY <2>8 DEF ReadSource, StartRun, Return
  <2>9. CASE Timeout
    BY <2>2, <2>9 DEF Timeout
  <2> QED
    BY <2>3, <2>4, <2>5, <2>6, <2>7, <2>8, <2>9 DEF Tool
<1> QED
  BY <1>1, PipelineInvariant, PTL DEF Spec, RetriesDiffer, Another

-----------------------------------------------------------------------------
(* The refinement of CbmcVerdict.                                          *)

(* The invariant makes every answer one that the file allows.              *)
LEMMA AnswerAllowed == PipelineInv /\ Returned => verdict \in Verdict!Allowed(file)
<1> SUFFICES ASSUME PipelineInv, Returned PROVE verdict \in Verdict!Allowed(file)
  OBVIOUS
<1>1. CASE ~is_function_verified(result) /\ ~is_vacuous(result)
  BY <1>1 DEF verdict, Verdict!Allowed
<1>2. CASE /\ WithContract /\ result.vacuity # "unchecked"
           /\ VacuityMeans(result)
  <2>1. result.variant \in AcceptedIn(file)
    BY <1>2 DEF WithContract, AcceptedRun, AcceptedIn
  <2>2. is_vacuous(result) => file.reach[result.variant] \in {"nothing", "body"}
    BY <1>2 DEF VacuityMeans, is_vacuous, VacuousKinds
  <2>3. is_function_verified(result) \/ is_vacuous(result)
    BY <1>2 DEF WithContract, AcceptedRun, is_function_verified,
                cbmc_ran_successfully
  <2> QED
    BY <2>1, <2>2, <2>3 DEF verdict, Verdict!Allowed
<1> QED
  BY <1>1, <1>2 DEF PipelineInv, Answered, Returned

(* verify_function gives one answer, once, and one that the file allows:   *)
(* a step that returns is the Answer of CbmcVerdict, every other step      *)
(* changes nothing that CbmcVerdict sees.                                  *)
THEOREM RefinesVerdict == Spec => ImplementsVerdict
<1>1. Init => Verdict!Init
  BY DEF Init, Verdict!Init, verdict, Returned
<1>2. PipelineInv /\ PipelineInv' /\ [Next]_vars
        => [Verdict!Next]_<<file, verdict>>
  <2> SUFFICES ASSUME PipelineInv, PipelineInv', [Next]_vars
               PROVE  [Verdict!Next]_<<file, verdict>>
    OBVIOUS
  <2>1. CASE UNCHANGED vars
    BY <2>1 DEF vars, verdict, Returned, is_function_verified, is_vacuous,
                cbmc_ran_successfully
  <2>2. CASE Tool
    <3>1. step # "returned" /\ UNCHANGED file
      BY <2>2 DEF PipelineInv, Tool, LookUp, GotoCc, Rewrite, EnforceContract, LeaveOut,
                  Check, CheckWithoutDepth, HasContract, ReadSource, Timeout, Commands
    <3>2. verdict = "none"
      BY <3>1 DEF verdict, Returned
    <3>3. CASE step' # "returned"
      BY <3>1, <3>2, <3>3 DEF verdict, Returned
    <3>4. CASE step' = "returned"
      <4>0. Returned'
        BY <3>4 DEF Returned
      <4>1. (verdict \in Verdict!Allowed(file))'
        BY <4>0, AnswerAllowed, PTL
      <4> QED
        BY <3>1, <3>2, <4>1 DEF Verdict!Next, Verdict!Answer, Verdict!Allowed
    <3> QED
      BY <3>3, <3>4
  <2> QED
    BY <2>1, <2>2 DEF Next, Terminated
<1> QED
  BY <1>1, <1>2, PipelineInvariant, PTL DEF Spec, ImplementsVerdict, Verdict!Spec
=============================================================================

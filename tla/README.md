# A TLA+ model of avocado-verify

`avocado-verify` specifies and verifies a C program one function at a time. A
Claude Code session writes a CBMC contract for each function, callees first; the
harness merges the session's private copy of the file into the shared
("canonical") one and asks CBMC for the ground truth. Several sessions run at
once. Around the harness are the tools a session uses, an evaluation that scores
the contracts, and scripts that run whole batches in containers. This directory
models the parts that are hard to test, checks them with TLC on small instances,
and proves the central ones with TLAPS for every call graph, number of jobs and
set of contracts.

## 1. Inventory

| Part | Source | State | Operations | Hard part |
|---|---|---|---|---|
| Scheduler | `avocado_verify.py` `_verify_functions`, `_ready_functions` | `done`, `active`, `usage_limited`, the futures | start what is ready, wait for the first to finish, log it, stop on a usage limit | readiness on cyclic call graphs, stopping with sessions in flight |
| Worker and merge protocol | `_verify_via_agent`, `_fork_session`, `_merge_and_verify`, `_note_for_rerun_after_merge`, `_MergeState` | canonical file, one private copy and one scratch copy per worker, `active`, `verified`, `unverified` | fork, merge with carried edits, re-verify, revert, reject, verify unlocked, verify again if a callee moved, rerun | everything between two critical sections of `_CANONICAL_LOCK` |
| Run log and resume | `main`, `_finalize_run`, `_append_jsonl`, `_read_function_verdicts`, `_get_processed_functions`, `_outcome_for` | `<stem>-avocado-verify.jsonl` | append a result, fold the records, rebuild the merge state, exit code | crashes, lost appends, record order, re-verifications |
| Session loop | `_run_sessions_for`, `_should_rerun_session` | sessions so far, attempts | run a session, count attempts, decide | five stop rules whose order matters |
| Edit rules, merge | `tools/util/edit_rules.py`, `tools/util/session_state.py` | none (pure); the canonical file between merges | check a copy, align two files, three-way merge of items | items moved, duplicated or renamed by two sessions; conditional blocks that look alike |
| CBMC pipeline | `tools/run_cbmc.py`, `tools/util/vacuity.py`, `stubs.py`, `preproc_blanker.py` | intermediate files, attempts log | goto-cc, goto-instrument, cbmc, retries, contract probe, vacuity check | which retry hides which failure |
| Mutation testing | `tools/util/mutation.py`, `eval/mutants/mutate_function.py`, `run_cbmc_and_mutation_testing.py`, `get_mutation_score.py` | mutants beside the source, thread pool, result slots | generate, write and verify mutants, score, remove | order of results, errors and Ctrl-C with runs in flight, time-outs |
| Call graph | `construct_call_graph.py`, `get_topological_ordering_of_functions.py`, `util/callgraph.py` | JSON cache beside the source | parse, cache, order | several builders, stale cache, cycles |
| C parsing | `tree_sitter_utils.py`, `count_sloc.py` | none | text queries | none that a state model reaches |
| Evaluation: quality | `eval/mutants/evaluate_specification_quality.py`, `compute_clause_redundancy.py` | clause mutants, caller baselines, output stream | drop each clause, verify the function and its callers, write records | which time-out decides what, two processes in one directory |
| Evaluation: batch verification | `eval/verify_program.py`, `compare_specification_quality.py` | result files | loops over functions and programs | none: sequential |
| Experiments | `eval/experiments/*`, `docker/`, `scripts/` | background shells, containers, run directories | start at most `-j` runs, limit their time, stop the batch, publish | signals at any point, clients that die before their container |
| Visualisation | `eval/visualization/*` | none | plots | none |

How they interact. The main thread submits workers to a thread pool; workers and
main thread share `_MergeState` and the canonical file, both under
`_CANONICAL_LOCK`; only the main thread writes the run log. A session changes
nothing but its own copy; in it, the agent runs `avocado-run-cbmc`, which verifies
and scores mutants. A merge reads the fork base, the session's copy and the
canonical file. A later run reads the log and finds the canonical file as the
earlier run left it. Scoring processes share the directory of the annotated file
and the call graph cached in it. A batch shares nothing between its runs but the
engine that runs the containers.

What makes each part correct:

* *Merge protocol*: no session's edit is lost; nobody changes the contract of a
  function another session works on; a recorded pass is a pass on the file as it
  is now; a verified function stays verified.
* *Scheduler*: a function starts after its earlier callees; nothing waits for
  ever; the loop ends with everything processed or stopped by a usage limit.
* *Run log*: what a resumed run skips is closed under earlier callees; a pass in
  the log is a pass on the file; exit code 0 means every function is verified.
* *Session loop*: at most three sessions; no session after a pass, a limit, a
  time-out or the attempt floor; an error alone never ends it early, nor does
  anything else while a session can do better; every attempt is counted once.
* *Edit rules and merge*: original code is never changed nor compiled under
  another condition; the rules hold of the whole run; a good copy is refused for
  a taken name and nothing else; merges lose nothing.
* *CBMC pipeline*: a reported pass had a contract, a non-vacuous proof and no
  hidden failure; a retry only weakens what it says it weakens.
* *Scoring*: a verdict is one of its own mutant; the records say what CBMC can
  say; undecided is not decided; nothing stays on disk; every process ends.
* *Batch*: no container outlives the batch; what is recorded is final; a batch
  that is stopped or has a time limit ends.

## 2. Modules

| Module | Models |
|---|---|
| `VerifiedFile` | what the harness promises of a file (abstract) |
| `MergeHarness` | scheduler, workers, merge protocol |
| `MergeHarness_proofs` | theorems about `MergeHarness`, the refinement of `VerifiedFile` included |
| `TopologicalOrder` | the order of the functions, from the call graph |
| `RunLog` (extends `MergeHarness`), `RunLog_proofs` | run log, crash, resume, exit code, and theorems about them |
| `SessionLoop`, `SessionLoop_proofs` | the sessions and rounds of one function, and theorems about them |
| `EditRules` | `check_edits` and `merge_copy`, as operators on files of items |
| `MergeCopy` (extends `EditRules`), `MergeCopy_proofs` | sessions that fork, edit and merge items, and theorems about them |
| `CbmcVerdict` | what a verification promises (abstract) |
| `CbmcPipeline`, `CbmcPipeline_proofs` | how `verify_function` keeps it, with retries and the vacuity check, and theorems, the refinement of `CbmcVerdict` included |
| `Workspace` | the directory of a file that is scored: mutants, call graph cache, CBMC's answers |
| `MutationTesting`, `ClauseRedundancy` (extend `Workspace`) | the two scores of one function |
| `SpecQuality` (extends both), `SpecQuality_proofs` | scoring processes side by side, and theorems about them |
| `BatchPool`, `BatchPool_proofs` | a batch, the shells of its runs, and their containers, and theorems about them |
| `SequenceFacts` | lemmas about sequences that the proofs need, and the induction they rest on |
| `MCMergeHarness`, `MCMergeAcyclic`, `MCRunLog`, `MCRunLogResume`, `MCCbmcPipeline`, `MCMergeCopy`, `MCSpecQuality` | instances for TLC |

The modules meet in four places.

* `CbmcVerdict` is what `MergeHarness` assumes of a verification: one of three
  answers, which the file decides up to time-outs (`Outcomes`,
  `OutcomesAssumption`); `CbmcPipeline` is shown to implement it. `Workspace`
  assumes the same, answer by answer (`Answers`).
* `SessionLoop` details one worker of `MergeHarness` between `Fork` and `Finish`:
  `MergeHarness` takes any copy and whether a usage limit stopped the session,
  `SessionLoop` takes any result of the merge.
* `MergeCopy` details `Merge` of `MergeHarness`: there a file is one contract per
  function, here it has items, comments and conditional blocks. `NothingLost`
  says, of items, what `KeepMerge` and `RevertMerge` take for granted: the
  session's contract is in, the others' change only where nobody else changed
  them, and `carried` names exactly those.
* `TopologicalOrder` computes the `Rank` that `MergeHarness` takes as a constant.

What the plan leaves, most important first:

1. A copy that `check_edits` accepts has the original items in their order: TLC
   confirms it, and it would follow from the order of `MatchedPairs`. Then
   `NothingLost` and `TakesTheCopy`.
2. Two processes that score the same function, once `WorkspaceAssumption` can be
   stated for each property by itself.

## 3. How the models correspond to the code

### VerifiedFile and MergeHarness

A version of the C file is a function from C functions to contracts. The edit
rules let a session change nothing else that a verdict depends on: the original
code is fixed, and new helpers only enter under fresh names (a clash rejects the
merge). CBMC is `Outcomes(f, file)`, the set of answers it can give; it depends
on the contract of `f` and of its callees only (`LocalityAssumption`), which is
the premise of `functions_affected_by`. Every verdict that is neither a pass nor
vacuous is `"fail"`. A session is the copy it leaves: any contract for its own
function and edits to a bounded number of others.

| Definition | Code |
|---|---|
| `Start(f)` | the submission loop of `_verify_functions`: first ready function in the order, room among `jobs`, no usage limit; `state.active.add` |
| `Fork(f)` | `_fork_session`, under the lock |
| `Merge(f)` | the first critical section of `_merge_and_verify`: `KeepMerge` commits with the carried edits and records the re-verifications, `RevertMerge` commits without them (`without_carried`), `RejectMerge` commits nothing |
| `Record(f)` | the ground truth on the scratch copy and the second critical section: verify again on the canonical file if a callee moved, release, record |
| `Rerun(f)`, `Finish(f)` | `_note_for_rerun_after_merge` wants another session, or not |
| `Collect(f)` | the main thread takes a finished future |
| `Finalize` | the loop breaks |

Each action is one critical section or one step of the main thread. What a worker
does without the lock touches only its own copy, so it is part of the action
that follows. `scratch[f]` is what CBMC runs on, unlocked, between `Merge` and
`Record`: it never changes in that window, so the answer may be drawn at its end,
together with the test for moved callees. Copies that no longer exist have the
value `NoCopy`, and a worker's locals are reset when its result is collected:
this only merges states that no later step can tell apart.

`VerifiedFile` is the same run as a reader of the file and of the results may
think of it: a file, the processed functions, and the verified ones among them.
A commit changes contracts and keeps a proof of every verified function; a
function is processed after its earlier callees, and verified only by a pass on
the file as it is. `MergeHarness` implements it with `processed <- done` and
`verified <- {f \in done : verdict[f] = "pass"}`: a merge is a commit, a
collected result is a processed function, and everything else stutters.

Left out: stray files and edit rules one by one (`RejectMerge` covers their
effect, `MergeCopy` has the rules), the text of retry notes,
`unverified_callees` (a report), functions the preprocessor removes (they are
taken out of the call graph before the run).

### TopologicalOrder

`visit` is the code's recursive search, with the visited set and the ordering it
threads through. `MCMergeHarness` assumes (TLC evaluates it) that the ranks of the
instances are the ones computed, and that for every call graph of three functions
a callee precedes its caller unless the two are mutually recursive.

### RunLog

`_read_function_verdicts` is a fold over the records, so the log is its result,
`entries`, and each append is one step of the fold (`EntriesWith`). The outcome it
appends is `OutcomeFor` of `MergeHarness`, the value the scheduler stops by, too
(`StoppedByUsageLimit`), as both read one `result.outcome`. `reverified`
is the dictionary a worker accumulates over its reruns. `Resume` is a crash at
any point, or a normal end, followed by a run with `--resume-from`: the merge
state is rebuilt from `entries` (`ResumeFrom`, with what is skipped and what the
merge state knows, `Processed` for both), everything in memory is lost, and
`canonical` is what it was. It covers the death of the main thread by an exception in one worker
too: the others then merge and are not logged, which is the same as `Resume`
after those merges. `hearsay` and `restarts` are history variables; `hearsay`
holds the functions that some merge found passing before it was undone.

### SessionLoop

`phase` is the worker's place in its two loops. `Session` is one turn of
`_run_sessions_for` up to the decision: claude runs, the attempts in the copy's
log are counted, and CBMC runs on the copy when the floor is not met. `Again` and
`Advance` are the two answers of `_should_rerun_session`, which keeps its five
stop rules; `IdleSessions` is its backward scan over the sessions without an
attempt. `Merge` is the rest of a turn of `_verify_via_agent`: the copy's log is
mirrored, the copy merged (any result), and `_note_for_rerun_after_merge` decides
between a round on a fresh copy (`NextRound`) and the result (`Return`). A fresh
copy has no attempts log, since `_SNAPSHOT_IGNORE` leaves it out, so the counts of
a round start at zero. How a session ends is one of four ways: a session stopped
by the time limit or by a usage limit is an error, too, as in `ClaudeRun`.

`log` and `mirrored` are files, and files fail: `_read_jsonl_records` makes no
records of a log it cannot read (`Readings`), and `_mirror_tool_logs` swallows
both a log it cannot read and an append that fails, which may have written a part
(`MirroredBy`). `seen`, `made`, `idle` and `unread` are history variables: the
limits and passes met so far, the attempts made over all rounds, the sessions
since the last attempt as they are when no log is read, and whether a read failed.

Left out: the text of the note a session gets, a log that is not UTF-8 and any
other exception of a worker (`RunLog` has the death of the main thread they lead
to).

### EditRules and MergeCopy

A file is a sequence of entries: its top-level items with their contracts, and
the comments between them. The tokens of an item are its `code`, and `Code` says
what the rules ask of a code: its kind, its directive, its name, whether the name
has a reserved prefix, which in-body clauses it has. `MatchedPairs` is what
`SequenceMatcher` returns (the longest common block, the first of those, then both
sides); `AlignmentKeys` are the keys the code gives it. `CompareItems` is
`_compare_items` and `CheckEdits` rules 1 to 5 and 8. `MergeCopyOf` is
`merge_copy`: `Wanted`, `NotCarried` and `ContractEdit` for the contracts;
`Runs`, `Units`, `InsertionPoint`, `PlaceUnit` and `PlaceRun` for the new items
(skipped, moved, refused or inserted); `LeadingComments` and `AfterComments` for
the comments around them; `Apply` for the list of edits; and the last check, that
the original items are still there.

`MergeCopy` lets sessions fork the canonical file, edit their copies by any
contract, insertion or deletion out of a small set, and merge in any order.
`Outcomes` is the part of `_merge_and_verify` that decides what to commit: the
rules, the merge with the carried edits, and the merge without them when the
compiler or CBMC refuses. `Compiles` is the compiler: conditionals closed, no
name defined twice, every name declared before its use, among the items that the
preprocessor leaves.

Left out: splitting a text into tokens and items, recognising clauses, and rule 6
(other files of the directory).

### CbmcPipeline

`Files` abstracts a C file to what the tools can tell about the function in it:
whether the call graph lists it, with which macros it compiles, which callees the
preprocessor removed, whether it inlines itself, whether it has a contract, in
which variants of the pipeline CBMC accepts it, and how far executions get. The
tools answer the same for the same file, but every command may time out
(`Timeout`) and every goto tool may fail for a reason of its own. Each command is
an action; `step` is the next one, `job` tells the run on the file from the run on
the probed copy and the one without the depth bound, and `variant` is
`PipelineVariant`. `AfterFailedRun` is `run_cbmc`'s retry logic, `AfterProbeRun`
and `AfterEntryRun` are `check_vacuity`. `heard` is the part of the output that
can trigger a retry. `EnforceContract` and `LeaveOut` are the command and the loop
around it that leaves out callees the build does not have. The file does not
change while it is verified: the harness verifies copies that nobody edits. An
agent that edits its own copy while the tool runs on it in the background is not
modelled.

Left out: which stubs are compiled in and which lines are blanked, the truncation
of responses, the attempts log.

### Workspace, MutationTesting, ClauseRedundancy, SpecQuality

A text is the original source, or a mutant of it: one operator replaced, or one
clause dropped. `files` is what stands beside the source, by path, and a path
says which kind of mutant of which function it holds, as the code's file names
do; `graphs` are the cached call graphs. `Answer` is `run_cbmc` on what is on
disk, with goto-cc failing on a file that is not there.

| Definition | Code |
|---|---|
| `BuildGraph`, `PublishGraph` | `construct_call_graph`: the temporary file and its rename |
| `GetMutants`, `Baseline`, `StartPool` | `generate_mutants_and_compute_score` up to the pool; the agent's tool has no baseline of its own |
| `StartMutant`, `WriteMutant`, `VerifyMutant` | one thread of the pool |
| `Collect`, `CollectError`, `ReturnScore` | the `as_completed` loop, its exception, and the score |
| `RaiseError` | the pool is left: queued mutants cancelled, running ones awaited, files removed |
| `RedundancyBaseline` .. `StartClauses` | `compute_clause_redundancy_score` up to the clauses |
| `WriteClause`, `VerifyWithoutClause` | each clause in isolation |
| `VerifyCaller`, `Judge`, `JudgeWithoutCallers` | `_verify_callers`, clause by clause |
| `Verify` | `avocado-run-cbmc`: the tool scores mutants when the function verifies |
| `StartFunction`, `ReportMutation`, `ReportRedundancy` | `_process_file` of the evaluation, and its stream |
| `Interrupt` | Ctrl-C |

`pc` is the place of each process's main thread; the threads of its pool are
`futures`. `cause` is a history variable. The record of a redundancy score has the
rates that `ClauseRedundancyScore.summary` writes, each kept as the fraction it is
before it is divided and rounded (`Rate`).

Left out: the diffs of survivors, the list of callers whose baseline does not
verify, the text of results, the rewriting of the source by byte offsets,
statistics; a second Ctrl-C while the pool is drained or the mutants are removed,
after which some may stay. `NothingLeftBehind` speaks of mutants: the call graphs
cached for clause mutants stay, as section 4 says.

### BatchPool

Three kinds of process. `shell` is the script's: `Launch`, `Check` (the count of
`jobs -rp`) and `Wait` (`wait -n`) are the loop, `Drain` the end, `Stop` the
signal and `StopScan`, `StopKill`, `StopReturn` the handler. `run` is each
background shell: it copies its subject, starts a client under the time limit,
follows up a client that was stopped or killed, and records the exit code.
`container` is each container: SIGTERM is ignored until `on_term` is installed,
then ends the runner; its shell publishes on exit, and a second SIGTERM ends that.
A container may end before it traps its exit, when something it needs is missing
(`Boot`). `unwaited` holds the runs whose end `wait -n` has yet to return, since it
returns at once for those. `early` is a history variable.

Left out: what is published and moved, since the code promises nothing of it (each
`cp` and `mv` may fail, and at most a message says so); arguments, the snapshot of
the harness, file ownership, and the scripts that archive or summarise finished
runs. The engine's `stop` is taken to succeed: the scripts go on when it fails
(`|| true`), and the container then stays up.

## 4. What is checked

| Run | Module / cfg | Shows |
|---|---|---|
| `merge_acyclic` | `MCMergeAcyclic` | `ActiveIsLive`, `LiveContractsOwned`, `CalleesDoneFirst`, `VerdictsFresh`, `VerifiedStaysVerified`, `NoLostUpdate`, `ImplementsVerifiedFile` |
| `merge_cycle` | `MCMergeHarness` / `MCMergeCycle` | `StopsOnlyWhenDone`, `RunEnds` under fairness, where callers come before callees |
| `merge_cycle_breaks` | `MCMergeHarness` / `MCMergeCycleBreaks` | `VerifiedStaysVerified` fails with mutual recursion |
| `log` | `MCRunLogResume` | `LoggedBeforeDependents`, `LoggedPassIsFresh`, `NothingLeftUnlessLimited` with crashes and usage limits |
| `log_stale` | `MCRunLog` / `MCRunLogStale` | `LoggedPassIsFresh` fails with two jobs |
| `log_reverted` | `MCRunLog` / `MCRunLogReverted` | `ExitZeroMeansVerified` fails, one job |
| `session_loop` | `SessionLoop` / `MCSessionLoop` | `LimitIsReported`, `AttemptsAddUp`, `SessionsAreWorthwhile`, and `AlwaysReturns` under fairness |
| `cbmc_pipeline` | `MCCbmcPipeline` | `PassIsEarned`, `VacuityIsReal`, `EveryCalleeReplaced`, `RetriesDiffer`, `ImplementsVerdict`, and `AlwaysAnswers` under fairness |
| `merge_copy` | `MCMergeCopy` | `OriginalItemsKept`, `OriginalConditionsKept`, `RulesHoldOverall`, `GoodCopiesMerge`, `NothingLost`, `TakesTheCopy`, `RulesDecide` |
| `merge_copy_same` | `MCMergeCopy` / `MCMergeCopySame` | `RulesDecide` fails where a new `#if` has the text of an original one |
| `spec_quality` | `MCSpecQuality` | `VerdictsAreTheirOwn`, `StreamIsTrue`, `NothingLeftBehind`, `CallGraphIsWhole`, `RedundancyIsSound`, and `EveryScoringEnds` under fairness |
| `batch_pool` | `BatchPool` / `MCBatchPool` | `AtMostJobs`, `ExitLeavesNothing`, `RecordedIsFinal`, and `BatchEnds` under fairness |

No run lists a `TypeOK`: each is a theorem of its module, or part of one.

Bounds of the harness. Three functions are the fewest with a caller, its callee,
and a third that runs with either and edits both (`mid`, `leaf`, `other`). Two
contracts are enough for an edit that breaks, one that repairs, and one that
makes a caller's proof vacuous: a weak function is vacuous over a strong callee,
a strong one fails over a weak callee, and a strong one may also time out, so a
verdict is not a function of the file. Two sessions that edit the same third
function differently need a third contract, "odd". `merge_acyclic` has both in
one state space: `conflicts` chooses at the start, and with it only `leaf` may be
odd and the others stay weak. Two jobs give every pair of overlapping critical
sections; one rerun after a merge (`MaxMergeReruns`; the code's cap is 2) gives a
second fork of the same function. `MaxForeignEdits` bounds how many other
contracts one session edits. The cyclic graph is `a` calling `b` and `c`, which
call `a`: the search puts `b` and `c` before their callee, so both are processed
without it, together. `log` has one state space for `--jobs 1`, with two crashes,
reruns and foreign edits, and for two jobs, with one crash and neither of those
(`MCBounds`): with two jobs and foreign edits the log is wrong, as `log_stale`
shows. `MaxRestarts` bounds crashes.

`session_loop` uses the code's own limits (floor 2, three sessions, one idle
session, two reruns); a session adds at most one attempt on its function and one
on others (`MaxAdded`), so that the floor is met in two sessions, in three, or
never, with idle sessions and failed ones before, between and after.

`MCFiles` has two families of files: in one CBMC's answer depends on the library,
in the other on the self call, so each retry can cure, change or worsen a result.
Two callees are the fewest of which the build may lack one and have the other.

`merge_copy` has two sessions on a file of two functions, a comment between them,
and the second under an `#if`. One session makes up to two edits (helpers,
`#ifdef`, `#endif`, contracts), the other one (a helper of the same name, a whole
conditional block, a stray declaration, a deleted `#if`); each forks once, at any
time. No insertion has the text of the original `#if`. `merge_copy_same` has one
session on an `#if` with an `#else`, which may insert conditionals with the text
of those that are there.

`spec_quality` has an evaluation that scores `leaf` (two operator mutants, two
clauses, two callers) and `mid`, and an agent's tool that scores `top`, with two
threads each. CBMC's answers differ between mutants, so that a verdict in a wrong
slot shows; each may be a time-out where one is interesting; a cached call graph
may be there, or be an older one that lacks `top`. On the source `leaf` and `top`
verify for certain and `mid` may time out. Both callers may verify without the
first clause of `leaf`, and `top` fails or times out without the second: so a
clause is called redundant by a caller that verifies for certain, and required by
one, and both halves of `RedundancyIsSound` are met. That property speaks of
scores taken with the call graph of the source as it is. With a stale one, what
`compute_clause_redundancy` says of a new caller is not promised by the code.

`batch_pool` has three runs, one at a time: the excess over `-j` needs a run that
ends before `wait -n` and one more to start. For more jobs there are the theorems.

Fairness. `FairSpec` of `MergeHarness` asks weak fairness of the main thread and
of each worker: sessions have a time-out, CBMC runs have one, lock holders release
the lock, and `wait` returns as soon as a future is done. No fairness is assumed
of what a session writes. In `SessionLoop` and `CbmcPipeline` fairness is weak and
of the one process: every session and every command runs under a time limit. In
`SpecQuality` it is weak, of each process's steps, never of an interrupt. In
`BatchPool` it is weak, of the batch's shell and of each run's: nothing is assumed
of a container, which may never start, never stop, or run for ever, so `BatchEnds`
speaks only of batches with a time limit and of those that are stopped.

Deadlock is checked in every run but `merge_copy`, `merge_copy_same` and
`spec_quality`, whose processes all end: nothing is left to do.

### What the failing runs show

* `merge_cycle_breaks`: a function of a call cycle can be verified before its
  callee is specified. The callee's own merge changes the contract the caller
  was verified against and re-verifies nobody, since only *carried* edits count
  as changes. The caller stays in `state.verified`.
* `log_stale`: re-verifications are logged with the merging session's record, in
  completion order. An old pass for `mid` can come after `mid`'s own failing
  record and override it: the log says verified, the file does not verify.
* `log_reverted`: verdicts taken with edits that were then reverted are logged
  too, and a pass among them counts. The run exits 0 with a failing function.
* `merge_copy_same`: the key that aligns an `#else` or an `#endif` is the tokens of
  its `#if`, which a session may write again. From `#if A` f `#else` g `#endif`
  it can make `#if A` f `#if A` `#else` `#endif` g `#endif`: the new block's
  `#else` is taken for the original one, no rule is found broken, and `g` has
  moved to the other branch. The original items are all there, so
  `OriginalItemsKept` holds; `OriginalConditionsKept` would not. The other way
  round, a balanced block of new items with the condition of the block it stands
  in is refused for changing original code or enclosing it, though it does
  neither.

### Divergences seen without a run

Met while reading and modelling; each is in the model as the code has it, or
left out where noted.

* A failing re-verification turns a `USAGE_LIMITED` entry of the log into
  `UNVERIFIED`, which a resumed run skips.
* A failed append is swallowed: callers start although the callee's result is not
  in the log (`AppendFails = {TRUE, FALSE}` breaks `LoggedBeforeDependents`). A
  torn line has no newline, so the next record is lost with it (not modelled).
* A session's comment may be duplicated or end up elsewhere when two sessions add
  items around it.
* Two sessions that both add `#ifdef B`, the same helper, `#endif` may leave it
  twice: a block is a unit, and only equal units are skipped.
* `_report_stray_edits` counts a `.callgraph-*.tmp` that a concurrent
  `construct_call_graph` is writing as a stray file (not modelled).
* `MutationScore.summary` reports the mutants goto-cc rejected as those
  goto-instrument failed on, too (`summary` of `SpecQuality`).
* The runs of the redundancy score get no include directories, unlike those of
  the mutation score, so a file that needs them has no redundancy score.
* The call graphs cached for clause mutants are never removed, and a later mutant
  of the same name finds the earlier one's.
* `avocado-run-cbmc` ends with a traceback, although the function verified, when
  CBMC returns an unexpected code for one mutant.
* Two processes that score the same function write, verify and delete mutants
  under the same names (ruled out by `WorkspaceAssumption`).
* A batch runs more than `-j` runs at once when a run ends before `wait -n` is
  called, which then returns at once (`early` counts these).
* A session's attempts may be missing from the canonical log, and the record of
  the function may count others than were made: both a failed read and a failed
  write of the attempts logs are swallowed (`AttemptsAddUp` bounds what is lost).
* A run whose outputs could not be copied or moved is recorded with the exit code
  of one whose outputs are there; SIGTERM during the publication cuts it off (the
  outputs are not modelled).
* A cached call graph is used whatever the source has become since, so callers
  added after it was built are not asked (`MCInitialGraphs` has one).
* A second kill during `stop_batch` ends it at once and leaves containers (not
  modelled: the handler is reset on purpose).

## 5. What is proved

Eight modules prove theorems and lemmas, each for every value of the constants that satisfies
the named assumptions. Every inductive invariant below was first checked by TLC on
an instance of section 4.

### The harness

`MergeHarness_proofs`:

| Theorem | Property | Needs |
|---|---|---|
| `TypeCorrect` | `TypeOK` | |
| `ActiveCorrect` | `ActiveIsLive` | |
| `OwnedCorrect` | `LiveContractsOwned` | |
| `CalleesFirstCorrect` | `CalleesDoneFirst` | |
| `NoLostUpdateCorrect` | `NoLostUpdate` | |
| `StopCorrect` | `StopsOnlyWhenDone` | the order is a total order |
| `FreshCorrect` | `VerdictsFresh` | `NoMutualRecursion`, locality |
| `VerifiedStaysCorrect` | `VerifiedStaysVerified` | `NoMutualRecursion`, locality |
| `RefinementCorrect` | `ImplementsVerifiedFile` | `NoMutualRecursion`, locality |

The argument. `active` is exactly the set of functions in a live phase, so what a
merge freezes is exactly what must be frozen; hence a live function's contract
changes only in its own merge (`LiveContractsOwned`). Every kind of merge has the
same effect on others (`MergeEffect`): a settled function either got a new
verdict that CBMC can give on the new file, or kept its verdict and no contract
it depends on changed. The second half needs three facts: an affected caller is
rechecked when its verdict counts as verified; the merging function's own callers
are not settled, because it precedes them and is not done (`CalleesDoneFirst`,
which is where mutual recursion breaks the argument, as `merge_cycle_breaks`
shows); and locality. `Record` does not change the file, and its verdict is fresh
because either no callee moved since the scratch copy was made, and the function
itself is owned, or it was taken on the canonical file under the lock. So
`VerdictsFresh` is inductive together with `LiveContractsOwned` and
`CalleesDoneFirst` (`HarnessInv`). `StopCorrect` takes the pending function of
least rank (`LeastRank`): its earlier callees are not pending, and nothing is in
flight, so they are done and it is ready.

`RefinementCorrect` follows from the same invariant. A merge is a commit
(`MergeCommits`): no merge takes a pass away (`MergeEffect`), and after it every
recorded pass is one on the merged file (`VerdictsFresh'`). Taking a result
processes the function (`CollectProcesses`): its earlier callees are done
(`CalleesDoneFirst`) and its pass, if it has one, is fresh. No other step touches
the file, `done`, or the verdict of a function that is done.

### The run log

`RunLog_proofs`, for every call graph, set of contracts, number of jobs and number
of resumes:

| Theorem | Property | Needs |
|---|---|---|
| `LogInvariant` | (`LogInv`) | no append fails |
| `LoggedCorrect` | `LoggedBeforeDependents` | no append fails |
| `NothingLeftCorrect` | `NothingLeftUnlessLimited` | no append fails |
| `FreshLogCorrect` | `LoggedPassIsFresh` | `OneSession`: one job, no append fails, `NoMutualRecursion`, locality |

`_append_jsonl` swallows an append that fails, so the code does not
promise the first three without the hypothesis `TRUE \notin AppendFails`; the
hazard at that line says what is lost then.

`LogInv` says that a function that was started, in this run or in one before it,
has its earlier callees in the log and among the functions that are done, and that
what is done is in the log unless a usage limit stopped it. A resume takes
exactly what the log has as done, so it keeps both; a crash only forgets.

`FreshLogCorrect` has to show that what a resumed run reads is still true, though
a session may have edited, carried or reverted other functions since. With one job
the functions are processed in one order over all resumes (`InOrder`: what is in
flight, or was stopped by a limit, is what a run would start next), so the session
that re-verifies a caller holds the only copy there is. `PassesAgree` then says
that a pass in the log, in a merge's re-verifications or in the worker's hands is
one that `_MergeState` has too, but for those of `hearsay`; and a pass there is
fresh, by the lemmas of `MergeHarness_proofs` on one merge and one record
(`MergeKeepsOneFresh`, `RecordIsFresh`), which are stated for a single function so
that they apply here too. With two jobs the theorem is false: run `log_stale`.

### The session loop

`SessionLoop_proofs`, for every floor, cap and number of attempts:

| Theorem | Property |
|---|---|
| `TypeCorrect` | `TypeOK` |
| `LimitCorrect` | `LimitIsReported` |
| `AttemptsCorrect` | `AttemptsAddUp` |
| `WorthwhileCorrect` | `SessionsAreWorthwhile` |
| `LoopCorrect` | (`LoopInv`) |

`LimitIsReported` speaks of the end and is not inductive. `Open` and `LimitIsLast`
make it so: no session starts while a limit has been hit, hence after a session a
limit that was hit is that session's own, which is the one the outcome is taken
from. For `AttemptsAddUp`, `Counted` says that the worker's last count is of what
the copy's log holds or of nothing, and `MadeBefore` that what was recorded and
mirrored was made before this round; a merge adds the round's attempts to each at
most once, as the next round starts with an empty log. `SessionsAreWorthwhile`
compares two ways to tell idle sessions: the code subtracts running totals and
scans backward (`IdleSessions`), the history variable counts forward as sessions
end. `IdleCounted` says that they agree while the log can be read; its step
(`IdleStep`) shows that a session with an attempt empties the set, a failed one
leaves it, and any other adds itself. `Decided` then says that `Again` and
`Advance` decide by what was seen of the round. `LoopInv` is the conjunction of
these with `TypeOK`.

### The CBMC pipeline

`CbmcPipeline_proofs`, for every set of callees and every set of files:

| Theorem | Property |
|---|---|
| `PipelineInvariant` | (`PipelineInv`, with `TypeOK`) |
| `PassCorrect` | `PassIsEarned` |
| `VacuityCorrect` | `VacuityIsReal` |
| `CalleesCorrect` | `EveryCalleeReplaced` |
| `RetriesCorrect` | `RetriesDiffer` |
| `RefinesVerdict` | `ImplementsVerdict` |

A pass is decided over up to three runs of the pipeline, and a retry restarts the
first of them in a weaker variant, so `PassIsEarned` at the end needs facts about
every step before it. `PipelineInv` names them: where a job can be (`Places`),
which callees are left (`CalleesKept`), that what goes on has compiled
(`CompiledFirst`), what the runs so far have established of the file while the
contract and the vacuity are checked (`Checked`), and what the answer means
(`Answered`). What a run may say is one predicate (`Honest`), proved for each way
in which a run ends, and one lemma (`AfterRunKeeps`) says that from an honest run
every retry, answer or further check keeps the invariant. The refinement follows:
a step that returns gives an answer that `CbmcVerdict` allows, because `Answered`
holds after it, and any other step leaves what `CbmcVerdict` sees.

### Scoring

`SpecQuality_proofs`, for every set of processes that score different functions,
every number of threads, and every set of answers:

| Theorem | Property | Needs |
|---|---|---|
| `ScoringInvariant` | (`ScoringInv`) | |
| `TypeCorrect` | (`TypeOK`) | `CachedKnown` |
| `NothingLeftCorrect` | `NothingLeftBehind` | |
| `VerdictsCorrect` | `VerdictsAreTheirOwn` | |
| `StreamCorrect` | `StreamIsTrue` | |
| `CallGraphCorrect` | `CallGraphIsWhole` | `CachedWhole` |
| `RedundancyCorrect` | `RedundancyIsSound` | |

A verdict is taken after a wait, on a file that other threads and other processes
write beside. `ScoringInv` says what keeps it right: every mutant on disk belongs
to a function that is being scored, at a place where it is removed on every way out
(`FilesOwned`, which is `NothingLeftBehind`); its text is the one its name says
(`FilesTrue`); and a mutant that is being verified is still on disk
(`FuturesTrue`), because nobody else removes it: processes score different
functions (`WorkspaceAssumption`), and names of mutants differ by function.

`CachedKnown` says that what earlier runs cached lists functions of the file;
`CachedWhole` says that what is cached at the start is whole. It is what the
theorem itself shows of every graph a run leaves behind.

`RedundancyIsSound` relates verdicts on one clause, collected over many runs, to a
call graph read long before. `BuildsForUse` says that a process that writes a call
graph does nothing else until it has renamed it (`BuildersStay`), and that none
that was cached in the meantime is different, so a cached graph never changes
(`GraphsGrow`) and the callers that were found stay the callers (`CallersTrue`).
`ClausesTrue` says what the callers say of the clause that is judged and of those
before it.

`StreamIsTrue` speaks of the records an evaluation has written: their counts add up
to the mutants and clauses of the function, each count is one of answers that CBMC
gave, and so are both parts of a rate (`SummaryOfScore`). The mutants are a sequence that `FlattenSeq` makes of the operators of
the body (`MutantsType`), and a score counts answers by their kind
(`CountsAddUp`, `ClauseCountsAddUp`): every answer is of exactly one kind, which
is where `AnswersAssumption` is used. `StreamInv` carries the scores from where
they are computed to the stream, and what was found of a clause in isolation from
the first pass over the clauses to the second (`IsolatedStep`).

### The merge of copies

`MergeCopy_proofs`, for every set of codes, every base file, all sets of
contracts, insertions and deletions, and any number of sessions and forks:

| Theorem | Property |
|---|---|
| `TypeCorrect` | (`TypeOK`) |
| `OriginalItemsStay` | `OriginalItemsKept` |

The canonical file has the original items, in their order, once each. A merge
takes the fork base, the copy and the canonical file, which may have become three
different files, and makes a list of edits. Each of them replaces some entries of
the canonical file by others, and the proof is that each is `Harmless`: what it
puts in has the same original items as what it takes out. A contract edit changes
no code. A comment is no item. A new item is one that `CompareItems` found new in
an accepted copy, and an accepted new item has a prefixed name or is a directive
whose block is new (`NewItemsAreNew`); it takes no original item out, for it is
placed beside an entry, never over one (`PlaceBesideSound` and the lemmas on
`PlaceRun`), and what moves is new in the copy too. `_apply` then makes the edits
from the last to the first, so that the positions of the others stay valid; its
result is the concatenation, entry by entry, of what the edits put there
(`EditedEntryKeeps`), and the original items of a concatenation are the
concatenation of the original items (`ApplyKeeps`). The reverted merge is the same
function with fewer contracts, and a rejected one changes nothing. `OriginalInv`
adds to the property that the fork base of every live session has the original
items, which is what the comparison is made with.

The conditions of the original items (`OriginalConditionsKept`) have no theorem:
in general they change, as `merge_copy_same` shows.

### Sequences

`SequenceFacts` has what these proofs need of sequences: `FlattenSeq` keeps types,
distributes over concatenation, and has the elements of its parts (`FlattenSteps`,
`FlattenType`, `FlattenConcat`, `FlattenElements`), `RemoveFirst` gives a
sequence, and so on. The library's induction theorems take an operator, which the
provers cannot instantiate, so induction is stated with a set in its place:
`InductionUpTo` follows from `LeastNumber`, and `IterationExists` gives the
functions that definitions by recursion name.

### Batches

`BatchPool_proofs`, for every number of runs and of jobs:

| Theorem | Property |
|---|---|
| `JobsInvariant` | (`JobsInv`, with `TypeOK`) |
| `JobsCorrect` | `AtMostJobs` |
| `RunsInvariant` | (`RunsInv`) |
| `RecordedCorrect` | `RecordedIsFinal` |
| `ExitCorrect` | `ExitLeavesNothing` |

`AtMostJobs` counts: `wait -n` may return a run that had ended before the running
ones were counted, so the runs that came early and were not yet waited for are
counted too (`WaitedOnce`, `RoomToLaunch`). The others follow from who looks after
a container: one that is up has a run that follows it, or that will stop it
(`Attended`), so none is up when its run is recorded.

### Assumptions, and what is only model-checked

The assumptions are named in the modules that declare the constants, and TLC
evaluates each in a run. `MergeHarness`: the functions are finitely many, ranks are
distinct naturals, callees are functions of the run, CBMC always answers, and its
answer is local. `EditRules`: a code has the facts of `CodeFacts`, and what is
prefixed has a name (`CodeAssumption`). `MergeCopy`: the base and the insertions
are files, and the bounds on edits naturals (`CopyAssumption`). `SessionLoop`: the bounds are naturals, and the floor and the cap
are positive, as in the code. `Workspace`: no function is scored by two processes,
and the agent's tool is given one function; CBMC's answers are those of
`run_cbmc` (`AnswersAssumption`). `CbmcPipeline`: the files are among
`AllFiles`. `BatchPool`: there is a run, and a job, at least.

Only model-checked:

* liveness (`RunEnds`, `AlwaysReturns`, `AlwaysAnswers`, `EveryScoringEnds`,
  `BatchEnds`): fairness and `ENABLED` are out of the prover's reach;
* `OriginalConditionsKept`, which is false for some values of the constants, and
  holds where no new `#if` has the text of an original one;
* `RulesHoldOverall`, `GoodCopiesMerge`, `NothingLost`, `TakesTheCopy` and
  `RulesDecide` of `MergeCopy`: they say where each item and comment of a copy
  ends up, which needs the alignment of the copy and the placing of its runs to be
  followed item by item; `RulesDecide` is false in general, too;
* the order of `TopologicalOrder`: it is computed by a `RECURSIVE` operator;
* what the `violation` runs refute.

## 6. Not modelled

* C parsing (`tree_sitter_utils.py`, `count_sloc.py`): text queries without state.
* Visualisation: plots.
* Batch verification (`verify_program.py` and its like): sequential loops over the
  tools, with tables of their results; what the tools do is modelled.
* In the modelled parts: prompts and transcripts, the text of logs and reports,
  file ownership, arguments. Each section above names what it leaves out, and
  `PROJECT.json` what each component does.

---------------------------- MODULE SessionLoop ----------------------------
(***************************************************************************)
(* The sessions of one function: _run_sessions_for starts claude again and *)
(* again on one copy until _should_rerun_session says that another session *)
(* cannot do better; _verify_via_agent merges the copy and, when the merge *)
(* left the function unverified through no fault of its session, begins    *)
(* another round on a fresh copy.                                          *)
(*                                                                         *)
(* What a session does is how it ends and how many attempts it adds to the *)
(* attempts log beside its copy, on its function and on others. That log   *)
(* may be unreadable, and its mirror beside the canonical file may fail to *)
(* be written, in whole or in part. The merge is MergeHarness's; here its  *)
(* report is any report.                                                   *)
(***************************************************************************)
EXTENDS Integers, Sequences, FiniteSets

CONSTANTS
  MinAttempts,       \* _MIN_VERIFICATION_ATTEMPTS_PER_FUNCTION
  MaxSessions,       \* _MAX_AGENT_SESSIONS_PER_FUNCTION
  MaxIdleSessions,   \* _MAX_SESSIONS_WITHOUT_ATTEMPT
  MaxMergeReruns,    \* _MAX_MERGE_RERUNS_PER_FUNCTION
  MaxAdded           \* bound: attempts of each kind that one session makes

ASSUME BoundsAssumption ==
  /\ MinAttempts \in Nat \ {0}
  /\ MaxSessions \in Nat \ {0}
  /\ MaxIdleSessions \in Nat
  /\ MaxMergeReruns \in Nat
  /\ MaxAdded \in Nat

(* How a session ends. Whoever is stopped by the time limit or by a usage  *)
(* limit has failed with an error, too.                                    *)
Ends == {"ok", "error", "timed_out", "usage_limit"}

is_error(end) == end # "ok"

(* The ground truth after a merge, as MergeHarness has it.                 *)
Verdicts == {"pass", "vacuous", "fail"}

(* What leaves nothing to do for another session on the function.          *)
Final == {"usage_limit", "pass"}

VARIABLES
  phase,     \* where the worker is
  sessions,  \* how each session of this round ended
  after,     \* the attempts that were read from the copy's log after each
  log,       \* the attempts in the copy's log
  check,     \* CBMC's answer on the copy after the last session
  attempts,  \* the attempts that the worker counted, over all rounds
  mirrored,  \* the attempts on the function in the canonical log
  reruns,    \* merge_reruns
  outcome,   \* the outcome that the worker returns
  seen,      \* history: the usage limits and the passes of all rounds
  made,      \* history: the function's attempts, in all rounds
  idle,      \* history: the sessions of this round since the last attempt,
             \* those that failed with an error aside
  unread     \* history: whether some read of the copy's log failed

history == <<seen, made, idle, unread>>

vars == <<phase, sessions, after, log, check, attempts, mirrored, reruns,
          outcome, history>>

Outcomes == {"VERIFIED", "USAGE_LIMITED", "CLAUDE_TIMED_OUT", "CLAUDE_ERROR",
             "UNVERIFIED"}

NoAttempts == [on_function |-> 0, on_any |-> 0]

Counts == [on_function : Nat, on_any : Nat]

TypeOK ==
  /\ phase \in {"session", "decide", "merge", "returned"}
  /\ sessions \in Seq(Ends) /\ Len(sessions) <= MaxSessions
  /\ after \in Seq(Counts) /\ Len(after) = Len(sessions)
  /\ log \in Counts
  /\ check \in {"none", "pass", "fail"}
  /\ attempts \in Nat
  /\ mirrored \in Nat
  /\ reruns \in 0 .. MaxMergeReruns
  /\ outcome \in Outcomes \cup {"none"}
  /\ seen \subseteq Final
  /\ made \in Nat
  /\ idle \in Nat
  /\ unread \in BOOLEAN

(* A fresh copy, and a round without sessions: _SNAPSHOT_IGNORE leaves the *)
(* attempts log behind.                                                    *)
Fresh ==
  /\ sessions' = <<>>
  /\ after' = <<>>
  /\ log' = NoAttempts
  /\ check' = "none"
  /\ idle' = 0

Init ==
  /\ phase = "session"
  /\ sessions = <<>>
  /\ after = <<>>
  /\ log = NoAttempts
  /\ check = "none"
  /\ attempts = 0
  /\ mirrored = 0
  /\ reruns = 0
  /\ outcome = "none"
  /\ seen = {}
  /\ made = 0
  /\ idle = 0
  /\ unread = FALSE

Last(s) == s[Len(s)]

-----------------------------------------------------------------------------
(* One round of sessions on one copy: _run_sessions_for.                   *)

(* What _read_jsonl_records makes of the copy's log: an unreadable one has *)
(* no records.                                                             *)
Readings(records) == {records, NoAttempts}

(* A claude session runs, the worker counts the attempts in the log, and,  *)
(* if they are too few, runs CBMC on the copy.                             *)
Session ==
  /\ phase = "session"
  /\ phase' = "decide"
  /\ \E end \in Ends, mine, others \in 0 .. MaxAdded :
       /\ sessions' = Append(sessions, end)
       /\ log' = [on_function |-> log.on_function + mine,
                  on_any |-> log.on_any + mine + others]
       /\ seen' = seen \cup (Final \cap {end})
       /\ made' = made + mine
       /\ idle' = IF mine + others > 0 THEN 0
                  ELSE IF is_error(end) THEN idle
                  ELSE idle + 1
  /\ \E read \in Readings(log') :
       /\ after' = Append(after, read)
       /\ unread' = (unread \/ read # log')
       /\ check' \in IF read.on_function < MinAttempts THEN {"pass", "fail"}
                                                      ELSE {"none"}
  /\ UNCHANGED <<attempts, mirrored, reruns, outcome>>

(* _attempts_added_by_each_session, over the attempts on any function.     *)
Added(i) == after[i].on_any - (IF i = 1 THEN 0 ELSE after[i - 1].on_any)

(* Mutant of IdleSessions: those that failed with an error count, too.     *)
IdleOrFailedSessions ==
  {i \in 1 .. Len(sessions) : \A j \in i .. Len(sessions) : Added(j) = 0}

(* The sessions without an attempt since the last one that made some, save *)
(* those that failed with an error.                                        *)
IdleSessions ==
  {i \in 1 .. Len(sessions) :
     /\ ~is_error(sessions[i])
     /\ \A j \in i .. Len(sessions) : Added(j) = 0}

FloorMet == Last(after).on_function >= MinAttempts

CapReached == Len(sessions) >= MaxSessions

should_rerun_session ==
  /\ ~FloorMet
  /\ check # "pass"
  /\ Last(sessions) \notin {"usage_limit", "timed_out"}
  /\ ~CapReached
  /\ Cardinality(IdleSessions) <= MaxIdleSessions

Again ==
  /\ phase = "decide"
  /\ should_rerun_session
  /\ phase' = "session"
  /\ UNCHANGED <<sessions, after, log, check, attempts, mirrored, reruns,
                 outcome, history>>

Advance ==
  /\ phase = "decide"
  /\ ~should_rerun_session
  /\ phase' = "merge"
  /\ UNCHANGED <<sessions, after, log, check, attempts, mirrored, reruns,
                 outcome, history>>

-----------------------------------------------------------------------------
(* The merge, and another round or the result: _verify_via_agent.          *)

(* Mutant of NewAttempts: adds up running totals.                          *)
SumOfTotals ==
  LET total[i \in 0 .. Len(after)] ==
        IF i = 0 THEN 0 ELSE total[i - 1] + after[i].on_function
  IN  total[Len(after)]

(* What _run_sessions_for returns: the last count of the copy's log.       *)
NewAttempts == Last(after).on_function

(* Mutant of NeedsAnotherRound: does not ask how the last session ended.   *)
NeedsAnotherRoundAtOnce(cbmc, cause) ==
  cbmc # "pass" /\ reruns < MaxMergeReruns /\ cause

(* _note_for_rerun_after_merge: the function is not verified, and its copy *)
(* was merged, but the merge left something out or moved a callee (cause). *)
NeedsAnotherRound(cbmc, cause) ==
  /\ cbmc # "pass"
  /\ reruns < MaxMergeReruns
  /\ Last(sessions) # "usage_limit"
  /\ cause

outcome_for(end, cbmc) ==
  CASE cbmc = "pass" -> "VERIFIED"
    [] cbmc # "pass" /\ end = "usage_limit" -> "USAGE_LIMITED"
    [] cbmc = "vacuous" /\ end # "usage_limit" -> "VERIFIED"
    [] cbmc = "fail" /\ end = "timed_out" -> "CLAUDE_TIMED_OUT"
    [] cbmc = "fail" /\ end = "error" -> "CLAUDE_ERROR"
    [] cbmc = "fail" /\ end = "ok" -> "UNVERIFIED"

(* Mutant of NextRound: does not count the round.                          *)
NextRoundUncounted ==
  /\ phase' = "session"
  /\ Fresh
  /\ UNCHANGED <<reruns, outcome>>

NextRound ==
  /\ phase' = "session"
  /\ Fresh
  /\ reruns' = reruns + 1
  /\ UNCHANGED outcome

(* The worker's copy and its locals go with its result.                    *)
Return(cbmc) ==
  /\ phase' = "returned"
  /\ outcome' = outcome_for(Last(sessions), cbmc)
  /\ Fresh
  /\ UNCHANGED reruns

(* How many of the function's attempts _mirror_tool_logs appends to the    *)
(* canonical log: it swallows the failure to read the copy's log, and a    *)
(* failed append may have written a part.                                  *)
MirroredBy(records) == 0 .. records.on_function

Merge ==
  /\ phase = "merge"
  /\ attempts' = attempts + NewAttempts
  /\ \E written \in MirroredBy(log) : mirrored' = mirrored + written
  /\ \E cause \in BOOLEAN, cbmc \in Verdicts :
       /\ seen' = seen \cup (Final \cap {cbmc})
       /\ \/ NeedsAnotherRound(cbmc, cause) /\ NextRound
          \/ ~NeedsAnotherRound(cbmc, cause) /\ Return(cbmc)
  /\ UNCHANGED <<made, unread>>

Worker == Session \/ Again \/ Advance \/ Merge

Terminated == phase = "returned" /\ UNCHANGED vars

Next == Worker \/ Terminated

Spec == Init /\ [][Next]_vars

(* Every session runs under a time limit, and the worker thread goes on.   *)
FairSpec == Spec /\ WF_vars(Worker)

-----------------------------------------------------------------------------
(* A usage limit is never lost: if one stopped any session of a function   *)
(* that ends up not verified, the outcome says so, and the function is     *)
(* tried again on resume (_outcome_for). For that, no session may follow   *)
(* the one that was stopped, in its round or in another.                   *)
LimitIsReported ==
  phase = "returned" /\ "usage_limit" \in seen
    => outcome \in {"VERIFIED", "USAGE_LIMITED"}

(* The verification_attempts of the function's record are the attempts     *)
(* that its own sessions made, over all its rounds, each counted once; a   *)
(* log that cannot be read, or not be mirrored, loses some in the one      *)
(* place or the other, but nothing is ever counted twice                   *)
(* (_count_verification_attempts, _mirror_tool_logs).                      *)
AttemptsAddUp ==
  /\ phase = "returned" /\ ~unread => attempts = made
  /\ attempts <= made /\ mirrored <= made

(* What the worker has seen since its last fork, when it asks for another  *)
(* session, as the comments on the limits of the loop have it.             *)
WorthAnotherSession ==
  /\ log.on_function < MinAttempts
  /\ check # "pass"
  /\ Last(sessions) \in {"ok", "error"}
  /\ Len(sessions) < MaxSessions
  /\ idle <= MaxIdleSessions

(* Sessions are neither wasted nor spared: as long as the copy's log can   *)
(* be read, a round goes on exactly when another session can do better,    *)
(* where a session is idle by what it added and not by what the log holds, *)
(* and errors neither count as idle nor hide an idle session before them;  *)
(* and none starts for a function whose ground truth has passed            *)
(* (_MIN_VERIFICATION_ATTEMPTS_PER_FUNCTION, _MAX_SESSIONS_WITHOUT_ATTEMPT,*)
(* _should_rerun_session, _note_for_rerun_after_merge).                    *)
SessionsAreWorthwhile ==
  /\ ~unread =>
       /\ phase = "session" /\ sessions # <<>> => WorthAnotherSession
       /\ phase = "merge" => ~WorthAnotherSession
  /\ phase = "session" => "pass" \notin seen

(* The worker returns: sessions that fail, time out or do nothing cannot   *)
(* keep it in either loop.                                                 *)
AlwaysReturns == <>(phase = "returned")
=============================================================================

--------------------------- MODULE RunLog_proofs ---------------------------
(***************************************************************************)
(* Theorems about RunLog, for every call graph, set of contracts, number   *)
(* of jobs and number of resumes, when no write to the log fails: what is  *)
(* relied on is in the log, and nothing is left to resume. With one        *)
(* session at a time, a pass in the log is fresh.                          *)
(***************************************************************************)
EXTENDS RunLog, MergeHarness_proofs, FiniteSetTheorems

(* The callees that the main loop waits for.                               *)
Earlier(f) == {g \in Callees[f] : Rank[g] < Rank[f]}

(* What a function that was started, in this run or in one before it,      *)
(* relies on is in the log, and a resumed run does not start it again.     *)
CalleesLogged ==
  \A f \in Functions : phase[f] # "pending" \/ entries[f] # NoEntry =>
    Earlier(f) \subseteq done \cap Processed

(* A function that is done is in the log, unless a usage limit stopped it. *)
DoneIsLogged == done \ usageLimited \subseteq Processed

LogInv == LogTypeOK /\ CalleesLogged /\ DoneIsLogged

-----------------------------------------------------------------------------
(* One session at a time.                                                  *)

(* What the log says in so many words.                                     *)
EntriesMean ==
  \A f \in Functions :
    /\ entries[f].outcome = "none" => entries[f] = NoEntry
    /\ entries[f].verdict = "pass" => entries[f].outcome = "VERIFIED"

(* The function that a run starts next when those in P are processed.      *)
IsNextAfter(P, f) ==
  /\ f \in Functions \ P /\ Earlier(f) \subseteq P
  /\ \A g \in Functions \ P : Earlier(g) \subseteq P => Rank[f] <= Rank[g]

(* The functions are processed in one order, over all resumes: what is not *)
(* finished is next.                                                       *)
InOrder ==
  /\ \A f, g \in inFlight : f = g
  /\ usageLimited \subseteq done
  /\ done \ usageLimited = Processed
  /\ \A f \in Functions :
       \/ f \in inFlight \cup usageLimited
       \/ entries[f].outcome = "USAGE_LIMITED"
       => IsNextAfter(Processed, f)

(* A pass that the worker holds, that a merge found or that the log has is *)
(* one that _MergeState has too, and a pass there is fresh.                *)
PassesAgree ==
  /\ \A f \in Functions :
       phase[f] \in {"recorded", "finished"} /\ cbmc[f] = "pass" => verdict[f] = "pass"
  /\ \A f, g \in Functions : reverified[f][g] = "pass" =>
       /\ g # f /\ f \in inFlight
       /\ verdict[g] = "pass" \/ g \in hearsay
  /\ \A f \in done \ hearsay : entries[f].verdict = "pass" => verdict[f] = "pass"
  /\ \A f \in Settled \ hearsay :
       verdict[f] = "pass" => "pass" \in Outcomes(f, canonical)

OneSessionInv ==
  LogInv /\ ActiveIsLive /\ LiveContractsOwned /\ EntriesMean /\ InOrder /\ PassesAgree

-----------------------------------------------------------------------------
(* The steps of RunLog in terms of those of the harness.                   *)

logAll == <<vars, logVars>>

(* A step is one of the harness, with its record or without, or a resume.  *)
LEMMA LogSteps ==
  ASSUME [LogNext]_logAll
  PROVE  \/ \E f \in Functions : LogCollect(f) \/ LogMerge(f)
         \/ \E f \in Functions :
              (Start(f) \/ Fork(f) \/ Record(f) \/ Rerun(f) \/ Finish(f))
                /\ UNCHANGED logVars
         \/ Resume
         \/ UNCHANGED <<vars, logVars>>
BY DEF LogNext, LogMain, LogWorker, Finalize, logAll, vars, logVars

(* The merge of the worker is one of the harness.                          *)
LEMMA LogMergeIsMerge ==
  ASSUME NEW f \in Functions, LogMerge(f)
  PROVE  Merge(f) /\ UNCHANGED <<entries, restarts>>
BY DEF LogMerge, Merge

(* What a merge adds to the re-verifications of its worker: a verdict, of  *)
(* another function, and a pass is one that the merge recorded, or hearsay.*)
LEMMA LogMergeStep ==
  ASSUME LogTypeOK, NEW f \in Functions, LogMerge(f)
  PROVE  /\ reverified' \in [Functions -> [Functions -> Verdicts \cup {"none"}]]
         /\ hearsay \subseteq hearsay' /\ hearsay' \subseteq Functions
         /\ \A h, g \in Functions : reverified'[h][g] = "pass" =>
              \/ reverified[h][g] = "pass"
              \/ h = f /\ g # f /\ (verdict'[g] = "pass" \/ g \in hearsay')
<1>1. PICK mine \in SessionCopies(f), lim \in SessionEnds :
        \E rv \in MergeReverifications(f, mine) \cup {NoReverification} :
          /\ reverified' =
               [reverified EXCEPT ![f] =
                  [g \in Functions |-> IF g \in DOMAIN rv THEN rv[g] ELSE @[g]]]
          /\ hearsay' =
               hearsay \cup {g \in DOMAIN rv : rv[g] = "pass" /\ verdict'[g] # "pass"}
  BY DEF LogMerge
<1>2. PICK rv \in MergeReverifications(f, mine) \cup {NoReverification} :
        /\ reverified' =
             [reverified EXCEPT ![f] =
                [g \in Functions |-> IF g \in DOMAIN rv THEN rv[g] ELSE @[g]]]
        /\ hearsay' =
             hearsay \cup {g \in DOMAIN rv : rv[g] = "pass" /\ verdict'[g] # "pass"}
  BY <1>1
<1>3. DOMAIN rv \subseteq Functions \ {f} /\ \A g \in DOMAIN rv : rv[g] \in Verdicts
  <2>1. CASE rv = NoReverification
    BY <2>1 DEF NoReverification
  <2>2. CASE rv \in MergeReverifications(f, mine)
    <3>1. Affected(f, Carried(f, mine)) \subseteq Functions \ {f}
      BY DEF Affected, Carried, Edited, RecheckedOnChange
    <3> QED
      BY <2>2, <3>1, ReverificationAnswers DEF MergeReverifications
  <2> QED
    BY <1>2, <2>1, <2>2
<1>4. reverified \in [Functions -> [Functions -> Verdicts \cup {"none"}]]
  BY DEF LogTypeOK
<1>5. \A h \in Functions : reverified'[h] =
        IF h = f
          THEN [g \in Functions |-> IF g \in DOMAIN rv THEN rv[g] ELSE reverified[f][g]]
          ELSE reverified[h]
  BY <1>2, <1>4
<1>6. reverified' \in [Functions -> [Functions -> Verdicts \cup {"none"}]]
  <2>1. [g \in Functions |-> IF g \in DOMAIN rv THEN rv[g] ELSE reverified[f][g]]
          \in [Functions -> Verdicts \cup {"none"}]
    BY <1>3, <1>4
  <2> QED
    BY <1>2, <1>4, <2>1
<1>7. ASSUME NEW h \in Functions, NEW g \in Functions, reverified'[h][g] = "pass"
      PROVE  \/ reverified[h][g] = "pass"
             \/ h = f /\ g # f /\ (verdict'[g] = "pass" \/ g \in hearsay')
  BY <1>2, <1>3, <1>5, <1>7
<1> QED
  BY <1>2, <1>3, <1>6, <1>7 DEF LogTypeOK

(* A record leaves the other processed functions processed.                *)
LEMMA RecordsOfOthers ==
  ASSUME LogTypeOK, NEW f \in Functions, NEW g \in Functions, g # f
  PROVE  /\ EntriesWith(f)[g] =
              IF Counts(f, g) THEN Entry(reverified[f][g]) ELSE entries[g]
         /\ Counts(f, g) => reverified[f][g] \in Verdicts
         /\ Counts(f, g) =>
              EntriesWith(f)[g].outcome \in {"VERIFIED", "UNVERIFIED"}
BY DEF EntriesWith, Counts, Entry, LogTypeOK

LEMMA OwnRecord ==
  ASSUME LogTypeOK, NEW f \in Functions
  PROVE  /\ EntriesWith(f)[f] = [outcome |-> OutcomeFor(f), verdict |-> cbmc[f]]
         /\ OutcomeFor(f) \in {"VERIFIED", "UNVERIFIED", "USAGE_LIMITED"}
         /\ cbmc[f] = "pass" => OutcomeFor(f) = "VERIFIED"
BY DEF EntriesWith, OutcomeFor

LEMMA EntriesType ==
  ASSUME LogTypeOK, NEW f \in Functions
  PROVE  EntriesWith(f) \in [Functions -> Entries]
<1>1. ASSUME NEW g \in Functions PROVE EntriesWith(f)[g] \in Entries
  <2>1. CASE g = f
    <3>1. cbmc[f] \in Verdicts
      BY DEF LogTypeOK, TypeOK
    <3>2. /\ EntriesWith(f)[f] = [outcome |-> OutcomeFor(f), verdict |-> cbmc[f]]
          /\ OutcomeFor(f) \in {"VERIFIED", "UNVERIFIED", "USAGE_LIMITED"}
      BY OwnRecord
    <3> QED
      BY <2>1, <3>1, <3>2 DEF Entries
  <2>2. CASE g # f
    <3>1. entries[g] \in Entries
      BY DEF LogTypeOK
    <3>2. \A v \in Verdicts : Entry(v) \in Entries
      BY DEF Entry, Entries
    <3> QED
      BY <2>2, <3>1, <3>2, RecordsOfOthers
  <2> QED
    BY <2>1, <2>2
<1> QED
  BY <1>1 DEF EntriesWith

LEMMA LogTypeInit == LogInit => LogTypeOK
BY TypeInit, LogAssumption
   DEF LogInit, LogTypeOK, NothingReverified, NoEntry, Entries, Verdicts

LEMMA LogTypeStep == LogTypeOK /\ [LogNext]_logAll => LogTypeOK'
<1> SUFFICES ASSUME LogTypeOK, [LogNext]_logAll PROVE LogTypeOK'
  OBVIOUS
<1>1. TypeOK
  BY DEF LogTypeOK
<1>2. ASSUME NEW f \in Functions, LogCollect(f) PROVE LogTypeOK'
  <2>1. TypeOK'
    BY <1>1, <1>2, TypeStep DEF LogCollect, Next, Main
  <2>2. entries' \in [Functions -> Entries]
    BY <1>2, EntriesType DEF LogCollect, LogTypeOK
  <2>3. NothingReverified \in [Functions -> Verdicts \cup {"none"}]
    BY DEF NothingReverified
  <2> QED
    BY <1>2, <2>1, <2>2, <2>3 DEF LogCollect, LogTypeOK
<1>3. ASSUME NEW f \in Functions, LogMerge(f) PROVE LogTypeOK'
  BY <1>1, <1>3, LogMergeIsMerge, MergeType, LogMergeStep DEF LogTypeOK
<1>4. ASSUME NEW f \in Functions,
             Start(f) \/ Fork(f) \/ Record(f) \/ Rerun(f) \/ Finish(f),
             UNCHANGED logVars
      PROVE  LogTypeOK'
  <2>1. TypeOK'
    BY <1>1, <1>4, TypeStep DEF Next, Main, Worker
  <2> QED
    BY <1>4, <2>1 DEF LogTypeOK, logVars
<1>5. CASE Resume
  <2>1. NoCopy \in Files /\ NoReport \in Reports
    BY <1>1, NoCopyType DEF TypeOK, NoReport, Reports
  <2>2. verdict' \in [Functions -> Verdicts \cup {"unknown"}]
    BY <1>5 DEF Resume, ResumeFrom, LogTypeOK, Entries
  <2>3. TypeOK'
    BY <1>1, <1>5, <2>1, <2>2, BoundsAssumption
       DEF Resume, ResumeFrom, TypeOK, Phases, Verdicts
  <2>4. restarts' \in 0 .. MaxRestarts
    BY <1>5, LogAssumption DEF Resume, ResumeFrom, LogTypeOK
  <2> QED
    BY <1>5, <2>3, <2>4 DEF Resume, ResumeFrom, LogTypeOK, NothingReverified
<1>6. CASE UNCHANGED <<vars, logVars>>
  <2>1. TypeOK'
    BY <1>1, <1>6, TypeStep DEF logAll
  <2> QED
    BY <1>6, <2>1 DEF LogTypeOK, logVars
<1> QED
  BY <1>2, <1>3, <1>4, <1>5, <1>6, LogSteps

-----------------------------------------------------------------------------
(* What is relied on is in the log.                                        *)

(* A record makes its function processed, unless a usage limit stopped it, *)
(* and takes no other function from those.                                 *)
LEMMA ProcessedGrows ==
  ASSUME LogTypeOK, NEW f \in Functions, entries' = EntriesWith(f)
  PROVE  /\ Processed \ {f} \subseteq Processed'
         /\ f \in Processed' <=> ~StoppedByUsageLimit(f)
         /\ \A g \in Functions \ {f} : entries'[g] # NoEntry => entries[g] # NoEntry
<1>1. ASSUME NEW g \in Functions \ {f}
      PROVE  /\ g \in Processed => g \in Processed'
             /\ entries'[g] # NoEntry => entries[g] # NoEntry
  BY <1>1, RecordsOfOthers DEF Processed, Counts
<1>2. f \in Processed' <=> ~StoppedByUsageLimit(f)
  <2>1. entries'[f].outcome = OutcomeFor(f)
    BY DEF EntriesWith
  <2>2. /\ OutcomeFor(f) \in {"VERIFIED", "UNVERIFIED", "USAGE_LIMITED"}
        /\ OutcomeFor(f) = "USAGE_LIMITED" <=> StoppedByUsageLimit(f)
    BY DEF OutcomeFor, StoppedByUsageLimit
  <2> QED
    BY <2>1, <2>2 DEF Processed
<1> QED
  BY <1>1, <1>2 DEF Processed

LEMMA LogInvStep ==
  ASSUME TRUE \notin AppendFails, LogInv, [LogNext]_logAll
  PROVE  LogInv'
<1>1. TypeOK /\ LogTypeOK /\ LogTypeOK'
  BY LogTypeStep DEF LogInv, LogTypeOK
<1>2. \A f \in Functions : Earlier(f) \subseteq Functions
  BY CalleesAssumption DEF Earlier
<1>3. ASSUME UNCHANGED <<usageLimited, entries>>, done \subseteq done',
             done' \subseteq done,
             \A f \in Functions : phase[f] = "pending" => phase'[f] = "pending"
      PROVE  LogInv'
  BY <1>1, <1>3 DEF LogInv, CalleesLogged, DoneIsLogged, Processed, Earlier
<1>4. ASSUME NEW f \in Functions, LogCollect(f) PROVE LogInv'
  <2>1. entries' = EntriesWith(f)
    BY <1>4, LogAssumption DEF LogCollect
  <2>2. /\ phase[f] = "finished" /\ phase' = [phase EXCEPT ![f] = "done"]
        /\ usageLimited' =
             IF StoppedByUsageLimit(f) THEN usageLimited \cup {f} ELSE usageLimited
    BY <1>4 DEF LogCollect, Collect
  <2>3. f \notin done /\ done' = done \cup {f}
    BY <1>1, <2>2 DEF done, TypeOK
  <2>4. CalleesLogged'
    <3> SUFFICES ASSUME NEW g \in Functions, phase'[g] # "pending" \/ entries'[g] # NoEntry,
                        NEW h \in Earlier(g)
                 PROVE  h \in done' \cap Processed'
      BY DEF CalleesLogged, Earlier
    <3>1. phase[g] # "pending" \/ entries[g] # NoEntry
      BY <1>1, <2>1, <2>2, ProcessedGrows DEF TypeOK
    <3>2. h \in done \cap Processed
      BY <3>1 DEF LogInv, CalleesLogged
    <3> QED
      BY <1>1, <2>1, <2>3, <3>2, ProcessedGrows
  <2>5. DoneIsLogged'
    BY <1>1, <2>1, <2>2, <2>3, ProcessedGrows DEF LogInv, DoneIsLogged
  <2> QED
    BY <1>1, <2>4, <2>5 DEF LogInv
<1>5. ASSUME NEW f \in Functions, LogMerge(f) PROVE LogInv'
  <2>1. Merge(f) /\ UNCHANGED entries
    BY <1>5, LogMergeIsMerge
  <2>2. /\ UNCHANGED usageLimited /\ phase[f] = "working"
        /\ phase' = [phase EXCEPT ![f] = "verifying"]
    BY <1>1, <2>1, MergeStep DEF MergeEffect
  <2> QED
    BY <1>1, <1>3, <2>1, <2>2 DEF done, TypeOK
<1>6. ASSUME NEW f \in Functions, Start(f), UNCHANGED logVars PROVE LogInv'
  <2>1. /\ phase[f] = "pending" /\ phase' = [phase EXCEPT ![f] = "submitted"]
        /\ usageLimited = {} /\ UNCHANGED <<usageLimited, entries>>
        /\ Earlier(f) \subseteq done
    BY <1>6 DEF Start, Ready, logVars, Earlier
  <2>2. done' = done /\ Processed' = Processed
    BY <1>1, <2>1 DEF done, TypeOK, Processed
  <2>3. done \subseteq Processed
    BY <2>1 DEF LogInv, DoneIsLogged
  <2>4. CalleesLogged'
    BY <1>1, <2>1, <2>2, <2>3 DEF LogInv, CalleesLogged, TypeOK, Earlier
  <2> QED
    BY <1>1, <2>1, <2>2, <2>4 DEF LogInv, DoneIsLogged
<1>7. ASSUME NEW f \in Functions, Fork(f) \/ Record(f) \/ Rerun(f) \/ Finish(f),
             UNCHANGED logVars
      PROVE  LogInv'
  BY <1>1, <1>3, <1>7 DEF Fork, Record, Rerun, Finish, logVars, done, TypeOK
<1>8. CASE Resume
  <2>1. /\ phase' = [f \in Functions |-> IF f \in Processed THEN "done" ELSE "pending"]
        /\ usageLimited' = {} /\ entries' = entries
    BY <1>8 DEF Resume, ResumeFrom
  <2>2. done' = Processed /\ Processed' = Processed
    BY <2>1 DEF done, Processed
  <2>3. \A f \in Processed : entries[f] # NoEntry
    BY DEF Processed, NoEntry
  <2>4. CalleesLogged'
    BY <2>1, <2>2, <2>3 DEF LogInv, CalleesLogged, Earlier
  <2> QED
    BY <1>1, <2>1, <2>2, <2>4 DEF LogInv, DoneIsLogged
<1>9. CASE UNCHANGED <<vars, logVars>>
  BY <1>3, <1>9 DEF vars, logVars, done
<1> QED
  BY <1>4, <1>5, <1>6, <1>7, <1>8, <1>9, LogSteps

LEMMA LogInvInit == LogInit => LogInv
BY LogTypeInit DEF LogInit, Init, LogInv, CalleesLogged, DoneIsLogged, done, Processed

(* The log is well typed, every function that was started has its earlier  *)
(* callees in it, and every function that is done is in it, unless a usage *)
(* limit stopped it: over crashes and resumes, if no append fails.         *)
THEOREM LogInvariant == TRUE \notin AppendFails => (LogSpec => []LogInv)
<1> SUFFICES ASSUME TRUE \notin AppendFails PROVE LogSpec => []LogInv
  OBVIOUS
<1>1. LogInv /\ [LogNext]_logAll => LogInv'
  BY LogInvStep
<1> QED
  BY <1>1, LogInvInit, PTL DEF LogSpec, logAll

(* No function is started before the results of the callees it relies on   *)
(* are in the log, where no crash can lose them (_verify_functions).       *)
THEOREM LoggedCorrect ==
  TRUE \notin AppendFails => (LogSpec => []LoggedBeforeDependents)
<1> SUFFICES ASSUME TRUE \notin AppendFails PROVE LogSpec => []LoggedBeforeDependents
  OBVIOUS
<1>1. LogInv => LoggedBeforeDependents
  BY DEF LogInv, CalleesLogged, LoggedBeforeDependents, Earlier
<1> QED
  BY <1>1, LogInvariant, PTL

(* A run that exits with another code than 2, after whatever resumes,      *)
(* leaves nothing to resume (_finalize_run, main).                         *)
THEOREM NothingLeftCorrect ==
  TRUE \notin AppendFails => (LogSpec => []NothingLeftUnlessLimited)
<1> SUFFICES ASSUME TRUE \notin AppendFails
             PROVE  LogSpec => []NothingLeftUnlessLimited
  OBVIOUS
<1>1. LogInv => NothingLeftUnlessLimited
  <2> SUFFICES ASSUME LogInv, Stopped, ExitCode # 2 PROVE Processed = Functions
    BY DEF NothingLeftUnlessLimited
  <2>1. usageLimited = {}
    BY DEF ExitCode
  <2>2. done = Functions
    BY <2>1, StopsLate DEF LogInv, LogTypeOK, StopsOnlyWhenDone
  <2> QED
    BY <2>1, <2>2 DEF LogInv, DoneIsLogged, Processed
<1> QED
  BY <1>1, LogInvariant, PTL

-----------------------------------------------------------------------------
(* With one session at a time, a pass in the log is fresh.                 *)

OneSession == NoMutualRecursion /\ Jobs = 1 /\ TRUE \notin AppendFails

LogState == EntriesMean /\ InOrder /\ PassesAgree

(* Two functions that are next are the same.                               *)
LEMMA OneIsNext ==
  ASSUME NEW P, NEW f, NEW g, IsNextAfter(P, f), IsNextAfter(P, g)
  PROVE  f = g
<1>1. f \in Functions /\ g \in Functions /\ Rank[f] <= Rank[g] /\ Rank[g] <= Rank[f]
  BY DEF IsNextAfter
<1>2. Rank[f] \in Nat /\ Rank[g] \in Nat
  BY <1>1, OrderAssumption
<1>3. Rank[f] = Rank[g]
  BY <1>1, <1>2
<1> QED
  BY <1>1, <1>3, OrderAssumption

LEMMA HarnessKept ==
  ASSUME LogTypeOK, ActiveIsLive, LiveContractsOwned, [LogNext]_logAll
  PROVE  ActiveIsLive' /\ LiveContractsOwned'
<1>1. CASE Resume
  BY <1>1 DEF Resume, ResumeFrom, ActiveIsLive, LiveContractsOwned, Live
<1>2. CASE [Next]_vars
  BY <1>2, ActiveStep, OwnedStep DEF LogTypeOK
<1>3. ASSUME NEW f \in Functions, LogCollect(f) \/ LogMerge(f) PROVE [Next]_vars
  BY <1>3, LogMergeIsMerge DEF LogCollect, Next, Main, Worker
<1> QED
  BY <1>1, <1>2, <1>3, LogSteps DEF Next, Main, Worker

(* A step that moves a worker on, and no more.                             *)
LEMMA QuietKeeps ==
  ASSUME LogState, UNCHANGED <<canonical, verdict, cbmc, usageLimited, logVars>>,
         inFlight' = inFlight, done' = done, Settled' \subseteq Settled,
         \A f \in Functions :
           phase'[f] \in {"recorded", "finished"} => phase[f] \in {"recorded", "finished"}
  PROVE  LogState'
<1>1. Processed' = Processed
  BY DEF Processed, logVars
<1>2. EntriesMean' /\ InOrder'
  BY <1>1 DEF LogState, EntriesMean, InOrder, logVars, IsNextAfter, Earlier
<1>3. PassesAgree'
  BY DEF LogState, PassesAgree, logVars
<1> QED
  BY <1>2, <1>3 DEF LogState

(* With nothing in flight, what is ready and first in the order is next.   *)
LEMMA StartKeepsLog ==
  ASSUME OneSession, LogInv, LogState, NEW f \in Functions, Start(f),
         UNCHANGED logVars
  PROVE  LogState'
<1>1. /\ phase[f] = "pending" /\ phase' = [phase EXCEPT ![f] = "submitted"]
      /\ UNCHANGED <<canonical, verdict, cbmc, usageLimited, logVars>>
      /\ usageLimited = {} /\ f \in Ready /\ \A g \in Ready : Rank[f] <= Rank[g]
  BY DEF Start, Ready
<1>2. inFlight = {}
  <2>1. IsFiniteSet(inFlight)
    BY FunctionsAssumption, FS_Subset DEF inFlight
  <2>2. Cardinality(inFlight) = 0
    BY <2>1, FS_CardinalityType DEF OneSession, Start
  <2> QED
    BY <2>1, <2>2, FS_EmptySet
<1>3. phase \in [Functions -> Phases]
  BY DEF LogInv, LogTypeOK, TypeOK
<1>4. inFlight' = {f} /\ done' = done /\ Settled' = Settled
  BY <1>1, <1>2, <1>3 DEF inFlight, done, Settled
<1>5. Processed' = Processed /\ Processed = done
  BY <1>1 DEF Processed, logVars, LogState, InOrder
<1>6. \A g \in Functions \ done : phase[g] = "pending"
  BY <1>2 DEF inFlight, done
<1>7. IsNextAfter(Processed, f)
  BY <1>1, <1>5, <1>6 DEF IsNextAfter, Ready, Earlier, done
<1>8. InOrder'
  BY <1>1, <1>4, <1>5, <1>7 DEF LogState, InOrder, IsNextAfter, Earlier, logVars
<1>9. EntriesMean' /\ PassesAgree'
  BY <1>1, <1>2, <1>3, <1>4 DEF LogState, EntriesMean, PassesAgree, logVars
<1> QED
  BY <1>8, <1>9 DEF LogState

(* The only worker in flight records its verdict: it is fresh, and no other*)
(* verdict changes.                                                        *)
LEMMA RecordKeepsLog ==
  ASSUME LogInv, LiveContractsOwned, LogState, NEW f \in Functions, Record(f),
         UNCHANGED logVars
  PROVE  LogState'
<1>1. TypeOK
  BY DEF LogInv, LogTypeOK
<1>2. PICK v : cbmc' = [cbmc EXCEPT ![f] = v] /\ verdict' = [verdict EXCEPT ![f] = v]
  BY DEF Record
<1>3. /\ phase[f] = "verifying" /\ phase' = [phase EXCEPT ![f] = "recorded"]
      /\ UNCHANGED <<canonical, usageLimited, logVars>>
  BY DEF Record
<1>4. /\ inFlight' = inFlight /\ done' = done /\ f \in inFlight /\ f \notin done
      /\ Settled' = Settled \cup {f}
  BY <1>1, <1>3 DEF inFlight, done, Settled, TypeOK
<1>5. EntriesMean' /\ InOrder'
  BY <1>3, <1>4 DEF LogState, EntriesMean, InOrder, IsNextAfter, Earlier, logVars,
                    Processed
<1>6. /\ cbmc'[f] = v /\ verdict'[f] = v
      /\ \A g \in Functions \ {f} : cbmc'[g] = cbmc[g] /\ verdict'[g] = verdict[g]
                                     /\ phase'[g] = phase[g]
  BY <1>1, <1>2, <1>3 DEF TypeOK
<1>7. PassesAgree'
  <2>1. \A g \in Functions :
          phase'[g] \in {"recorded", "finished"} /\ cbmc'[g] = "pass" => verdict'[g] = "pass"
    BY <1>6 DEF LogState, PassesAgree
  <2>2. \A h, g \in Functions : reverified[h][g] = "pass" =>
          /\ g # h /\ h \in inFlight
          /\ verdict'[g] = "pass" \/ g \in hearsay
    BY <1>4, <1>6 DEF LogState, PassesAgree, InOrder
  <2>3. \A g \in done \ hearsay : entries[g].verdict = "pass" => verdict'[g] = "pass"
    BY <1>4, <1>6 DEF LogState, PassesAgree, done
  <2>4. \A g \in Settled' \ hearsay :
          verdict'[g] = "pass" => "pass" \in Outcomes(g, canonical)
    BY <1>1, <1>4, <1>6, RecordIsFresh DEF LogState, PassesAgree, Settled
  <2> QED
    BY <1>3, <1>4, <2>1, <2>2, <2>3, <2>4 DEF PassesAgree, logVars
<1> QED
  BY <1>5, <1>7 DEF LogState

(* A merge takes no pass away, and re-verifies every settled function that *)
(* it could make stale.                                                    *)
LEMMA MergeKeepsLog ==
  ASSUME OneSession, LogInv, LogState, NEW f \in Functions, LogMerge(f)
  PROVE  LogState'
<1>1. TypeOK /\ LogTypeOK /\ CalleesDoneFirst
  BY DEF LogInv, LogTypeOK, CalleesLogged, CalleesDoneFirst, Earlier
<1>2. Merge(f) /\ UNCHANGED entries
  BY LogMergeIsMerge
<1>3. /\ phase[f] = "working" /\ phase' = [phase EXCEPT ![f] = "verifying"]
      /\ UNCHANGED <<usageLimited, cbmc>>
      /\ \A g \in Functions : verdict[g] = "pass" => verdict'[g] = "pass"
  BY <1>1, <1>2, MergeStep DEF MergeEffect
<1>4. inFlight' = inFlight /\ done' = done /\ f \in inFlight /\ Settled' = Settled
  BY <1>1, <1>3 DEF inFlight, done, Settled, TypeOK
<1>5. EntriesMean' /\ InOrder'
  BY <1>2, <1>3, <1>4 DEF LogState, EntriesMean, InOrder, IsNextAfter, Earlier,
                          Processed
<1>6. PassesAgree'
  <2>1. \A g \in Functions :
          phase'[g] \in {"recorded", "finished"} /\ cbmc'[g] = "pass" => verdict'[g] = "pass"
    BY <1>1, <1>3 DEF LogState, PassesAgree, TypeOK
  <2>2. \A h, g \in Functions : reverified'[h][g] = "pass" =>
          /\ g # h /\ h \in inFlight
          /\ verdict'[g] = "pass" \/ g \in hearsay'
    <3> SUFFICES ASSUME NEW h \in Functions, NEW g \in Functions,
                        reverified'[h][g] = "pass"
                 PROVE  /\ g # h /\ h \in inFlight
                        /\ verdict'[g] = "pass" \/ g \in hearsay'
      OBVIOUS
    <3>1. CASE reverified[h][g] = "pass"
      <4>1. /\ g # h /\ h \in inFlight
            /\ verdict[g] = "pass" \/ g \in hearsay
        BY <3>1 DEF LogState, PassesAgree
      <4> QED
        BY <1>1, <1>3, <4>1, LogMergeStep
    <3>2. CASE h = f /\ g # f /\ (verdict'[g] = "pass" \/ g \in hearsay')
      BY <1>4, <3>2
    <3> QED
      BY <1>1, <3>1, <3>2, LogMergeStep
  <2>3. hearsay \subseteq hearsay'
    BY <1>1, LogMergeStep
  <2>4. \A g \in done \ hearsay' : entries[g].verdict = "pass" => verdict'[g] = "pass"
    BY <1>3, <2>3 DEF LogState, PassesAgree, done
  <2>5. ASSUME NEW g \in Settled \ hearsay', verdict'[g] = "pass"
        PROVE  "pass" \in Outcomes(g, canonical')
    <3>1. g \in Settled' /\ g \notin hearsay
      BY <1>4, <2>3, <2>5
    <3>2. g \in Settled /\ verdict'[g] = verdict[g]
            => verdict[g] \in Outcomes(g, canonical)
      BY <2>5, <3>1 DEF LogState, PassesAgree
    <3> QED
      BY <1>1, <1>2, <2>5, <3>1, <3>2, MergeKeepsOneFresh DEF OneSession
  <2> QED
    BY <1>2, <1>4, <2>1, <2>2, <2>4, <2>5 DEF PassesAgree
<1> QED
  BY <1>5, <1>6 DEF LogState

(* The record of the only worker in flight is the last of its run, or it   *)
(* makes the function processed; the re-verifications it brings are of     *)
(* functions that are processed already.                                   *)
LEMMA CollectKeepsLog ==
  ASSUME OneSession, LogInv, LogState, NEW f \in Functions, LogCollect(f)
  PROVE  LogState'
<1>1. TypeOK /\ LogTypeOK /\ EntriesMean /\ InOrder /\ PassesAgree
  BY DEF LogInv, LogTypeOK, LogState
<1>2. /\ phase[f] = "finished" /\ phase' = [phase EXCEPT ![f] = "done"]
      /\ usageLimited' =
           IF StoppedByUsageLimit(f) THEN usageLimited \cup {f} ELSE usageLimited
      /\ cbmc' = [cbmc EXCEPT ![f] = "fail"]
      /\ UNCHANGED <<canonical, verdict, hearsay>>
      /\ reverified' = [reverified EXCEPT ![f] = NothingReverified]
  BY DEF LogCollect, Collect
<1>3. entries' = EntriesWith(f)
  BY LogAssumption DEF LogCollect, OneSession
<1>4. /\ f \in inFlight /\ f \notin done /\ done' = done \cup {f}
      /\ inFlight = {f} /\ inFlight' = {} /\ Settled' = Settled /\ f \in Settled
  BY <1>1, <1>2 DEF inFlight, done, Settled, TypeOK, InOrder
<1>5. IsNextAfter(Processed, f) /\ f \notin Processed
  BY <1>1, <1>4 DEF InOrder, IsNextAfter
<1>6. ASSUME NEW g \in Functions, g \in usageLimited \/ entries[g].outcome = "USAGE_LIMITED"
      PROVE  g = f
  BY <1>1, <1>5, <1>6, OneIsNext DEF InOrder
<1>7. usageLimited = {}
  BY <1>1, <1>4, <1>6 DEF InOrder, done
<1>8. ASSUME NEW g \in Functions \ {f}
      PROVE  /\ entries'[g] = IF Counts(f, g) THEN Entry(reverified[f][g]) ELSE entries[g]
             /\ Counts(f, g) => g \in Processed /\ reverified[f][g] \in Verdicts
  <2>1. Counts(f, g) => g \in Processed
    <3> SUFFICES ASSUME Counts(f, g) PROVE g \in Processed
      OBVIOUS
    <3>1. entries[g] # NoEntry /\ entries[g] \in Entries
      BY <1>1 DEF Counts, LogTypeOK
    <3>2. entries[g].outcome \notin {"none", "USAGE_LIMITED"}
      BY <1>1, <1>6, <3>1 DEF EntriesMean
    <3> QED
      BY <3>1, <3>2 DEF Entries, Processed
  <2> QED
    BY <1>1, <1>3, <2>1, RecordsOfOthers
<1>9. ASSUME NEW g \in Functions \ {f}, Counts(f, g)
      PROVE  /\ entries'[g].outcome \in {"VERIFIED", "UNVERIFIED"}
             /\ entries'[g].verdict = "pass" =>
                  entries'[g].outcome = "VERIFIED" /\ reverified[f][g] = "pass"
  <2>1. entries'[g] = Entry(reverified[f][g])
    BY <1>8, <1>9
  <2> QED
    BY <2>1 DEF Entry
<1>10. /\ entries'[f].outcome = OutcomeFor(f) /\ entries'[f].verdict = cbmc[f]
       /\ OutcomeFor(f) \in {"VERIFIED", "UNVERIFIED", "USAGE_LIMITED"}
       /\ cbmc[f] = "pass" => OutcomeFor(f) = "VERIFIED"
  <2>1. EntriesWith(f)[f] = [outcome |-> OutcomeFor(f), verdict |-> cbmc[f]]
    BY <1>1, OwnRecord
  <2>2. entries'[f] = [outcome |-> OutcomeFor(f), verdict |-> cbmc[f]]
    BY <1>3, <2>1
  <2>3. /\ OutcomeFor(f) \in {"VERIFIED", "UNVERIFIED", "USAGE_LIMITED"}
        /\ cbmc[f] = "pass" => OutcomeFor(f) = "VERIFIED"
    BY <1>1, OwnRecord
  <2> QED
    BY <2>2, <2>3
<1>11. EntriesMean'
  <2> SUFFICES ASSUME NEW g \in Functions
               PROVE  /\ entries'[g].outcome = "none" => entries'[g] = NoEntry
                      /\ entries'[g].verdict = "pass" => entries'[g].outcome = "VERIFIED"
    BY DEF EntriesMean, NoEntry
  <2>1. CASE g = f
    BY <1>10, <2>1
  <2>2. CASE g # f
    BY <1>1, <1>8, <1>9, <2>2 DEF EntriesMean
  <2> QED
    BY <2>1, <2>2
<1>12. f \in Processed' <=> ~StoppedByUsageLimit(f)
  BY <1>1, <1>3, ProcessedGrows
<1>13. Processed' \ {f} = Processed
  BY <1>5, <1>8, <1>9 DEF Processed
<1>14. InOrder'
  <2>1. usageLimited' \subseteq done' /\ done' \ usageLimited' = Processed'
    <3>1. done = Processed
      BY <1>1, <1>7 DEF InOrder
    <3>2. CASE StoppedByUsageLimit(f)
      BY <1>2, <1>4, <1>7, <1>12, <1>13, <3>1, <3>2
    <3>3. CASE ~StoppedByUsageLimit(f)
      BY <1>2, <1>4, <1>7, <1>12, <1>13, <3>1, <3>3
    <3> QED
      BY <3>2, <3>3
  <2>2. ASSUME NEW g \in Functions,
               g \in usageLimited' \/ entries'[g].outcome = "USAGE_LIMITED"
        PROVE  IsNextAfter(Processed', g)
    <3>1. g = f
      <4> SUFFICES ASSUME g # f PROVE FALSE
        OBVIOUS
      <4>1. entries'[g].outcome = "USAGE_LIMITED"
        BY <1>2, <1>7, <2>2
      <4>2. entries[g].outcome = "USAGE_LIMITED"
        BY <1>8, <1>9, <4>1
      <4> QED
        BY <1>6, <4>2
    <3>2. f \notin Processed'
      <4>1. CASE f \in usageLimited'
        BY <1>2, <1>7, <1>12, <4>1
      <4>2. CASE entries'[f].outcome = "USAGE_LIMITED"
        BY <4>2 DEF Processed
      <4> QED
        BY <2>2, <3>1, <4>1, <4>2
    <3>3. Processed' = Processed
      BY <1>13, <3>2
    <3> QED
      BY <1>5, <3>1, <3>3 DEF IsNextAfter, Earlier
  <2> QED
    BY <1>4, <2>1, <2>2 DEF InOrder, IsNextAfter, Earlier
<1>15. PassesAgree'
  <2>1. \A g \in Functions :
          phase'[g] \in {"recorded", "finished"} /\ cbmc'[g] = "pass" => verdict'[g] = "pass"
    BY <1>1, <1>2 DEF PassesAgree, TypeOK
  <2>2. \A h, g \in Functions : reverified'[h][g] # "pass"
    <3>1. reverified \in [Functions -> [Functions -> Verdicts \cup {"none"}]]
      BY <1>1 DEF LogTypeOK
    <3>2. ASSUME NEW h \in Functions, NEW g \in Functions, reverified'[h][g] = "pass"
          PROVE  FALSE
      <4>1. CASE h = f
        BY <1>2, <3>1, <3>2, <4>1 DEF NothingReverified
      <4>2. CASE h # f
        BY <1>1, <1>2, <1>4, <3>1, <3>2, <4>2 DEF PassesAgree
      <4> QED
        BY <4>1, <4>2
    <3> QED
      BY <3>2
  <2>3. ASSUME NEW g \in done' \ hearsay, entries'[g].verdict = "pass"
        PROVE  verdict[g] = "pass"
    <3>1. CASE g = f
      BY <1>1, <1>2, <1>10, <2>3, <3>1 DEF PassesAgree
    <3>2. CASE g # f /\ Counts(f, g)
      <4>1. reverified[f][g] = "pass" /\ g \in Functions
        BY <1>9, <2>3, <3>2 DEF done
      <4> QED
        BY <1>1, <2>3, <4>1 DEF PassesAgree
    <3>3. CASE g # f /\ ~Counts(f, g)
      <4>1. g \in done /\ entries'[g] = entries[g]
        BY <1>4, <1>8, <2>3, <3>3 DEF done
      <4> QED
        BY <1>1, <2>3, <4>1 DEF PassesAgree
    <3> QED
      BY <3>1, <3>2, <3>3
  <2> QED
    BY <1>1, <1>2, <1>4, <2>1, <2>2, <2>3 DEF PassesAgree
<1> QED
  BY <1>11, <1>14, <1>15 DEF LogState

(* What a resumed run reads from the log is what the dead run knew.        *)
LEMMA ResumeKeepsLog ==
  ASSUME LogTypeOK, LogState, Resume
  PROVE  LogState'
<1>1. EntriesMean /\ InOrder /\ PassesAgree
  BY DEF LogState
<1>2. /\ phase' = [f \in Functions |-> IF f \in Processed THEN "done" ELSE "pending"]
      /\ verdict' = [f \in Functions |->
                       IF f \in Processed THEN entries[f].verdict ELSE "unknown"]
      /\ usageLimited' = {} /\ UNCHANGED <<canonical, entries, hearsay>>
      /\ reverified' = [f \in Functions |-> NothingReverified]
  BY DEF Resume, ResumeFrom
<1>3. done' = Processed /\ Settled' = Processed /\ inFlight' = {}
      /\ Processed' = Processed
  BY <1>2 DEF done, Settled, inFlight, Processed
<1>4. EntriesMean'
  BY <1>1, <1>2 DEF EntriesMean, NoEntry
<1>5. InOrder'
  BY <1>1, <1>2, <1>3 DEF InOrder, IsNextAfter, Earlier
<1>6. PassesAgree'
  <2>1. \A h, g \in Functions : reverified'[h][g] = "none"
    BY <1>2 DEF NothingReverified
  <2>2. \A g \in Functions : phase'[g] \notin {"recorded", "finished"}
    BY <1>2
  <2>3. \A g \in Processed : g \in Functions /\ verdict'[g] = entries[g].verdict
    BY <1>2 DEF Processed
  <2>4. ASSUME NEW g \in Processed \ hearsay, verdict'[g] = "pass"
        PROVE  "pass" \in Outcomes(g, canonical)
    <3>1. g \in done /\ entries[g].verdict = "pass"
      BY <1>1, <2>3, <2>4 DEF InOrder
    <3> QED
      BY <1>1, <2>4, <3>1 DEF PassesAgree, Settled, done
  <2> QED
    BY <1>2, <1>3, <2>1, <2>2, <2>3, <2>4 DEF PassesAgree
<1> QED
  BY <1>4, <1>5, <1>6 DEF LogState

LEMMA OneSessionStep ==
  ASSUME OneSession, OneSessionInv, [LogNext]_logAll
  PROVE  OneSessionInv'
<1>1. LogInv /\ ActiveIsLive /\ LiveContractsOwned /\ LogState /\ TypeOK /\ LogTypeOK
  BY DEF OneSessionInv, LogState, LogInv, LogTypeOK
<1>2. LogInv' /\ ActiveIsLive' /\ LiveContractsOwned'
  BY <1>1, HarnessKept, LogInvStep DEF OneSession
<1>3. ASSUME NEW f \in Functions, Fork(f) \/ Rerun(f) \/ Finish(f), UNCHANGED logVars
      PROVE  LogState'
  <2>1. UNCHANGED <<canonical, verdict, cbmc, usageLimited, logVars>>
    BY <1>3 DEF Fork, Rerun, Finish
  <2>2. inFlight' = inFlight /\ done' = done /\ Settled' \subseteq Settled
    BY <1>1, <1>3 DEF Fork, Rerun, Finish, inFlight, done, Settled, TypeOK
  <2>3. \A g \in Functions :
          phase'[g] \in {"recorded", "finished"} => phase[g] \in {"recorded", "finished"}
    BY <1>1, <1>3 DEF Fork, Rerun, Finish, TypeOK
  <2> QED
    BY <1>1, <2>1, <2>2, <2>3, QuietKeeps
<1>4. ASSUME UNCHANGED <<vars, logVars>> PROVE LogState'
  BY <1>1, <1>4, QuietKeeps DEF vars, inFlight, done, Settled
<1>5. LogState'
  BY <1>1, <1>3, <1>4, StartKeepsLog, RecordKeepsLog, MergeKeepsLog, CollectKeepsLog,
     ResumeKeepsLog, LogSteps
<1> QED
  BY <1>2, <1>5 DEF OneSessionInv, LogState

LEMMA OneSessionInit == LogInit => OneSessionInv
<1> SUFFICES ASSUME LogInit PROVE OneSessionInv
  OBVIOUS
<1>1. LogInv
  BY LogInvInit
<1>2. ActiveIsLive /\ LiveContractsOwned
  BY DEF LogInit, Init, ActiveIsLive, LiveContractsOwned, Live
<1>3. EntriesMean /\ InOrder /\ PassesAgree
  BY DEF LogInit, Init, EntriesMean, InOrder, PassesAgree, NoEntry, NothingReverified,
         inFlight, done, Settled, Processed
<1> QED
  BY <1>1, <1>2, <1>3 DEF OneSessionInv

(* With --jobs 1, and without mutual recursion, a pass in the log is one   *)
(* that CBMC can give on the canonical file as it is, over any number of   *)
(* crashes and resumes and whatever was carried, reverted or re-verified   *)
(* (_read_function_verdicts). With two jobs it need not be: run log_stale. *)
THEOREM FreshLogCorrect == OneSession => (LogSpec => []LoggedPassIsFresh)
<1> SUFFICES ASSUME OneSession PROVE LogSpec => []LoggedPassIsFresh
  OBVIOUS
<1>1. OneSessionInv /\ [LogNext]_logAll => OneSessionInv'
  BY OneSessionStep
<1>2. OneSessionInv => LoggedPassIsFresh
  BY DEF OneSessionInv, PassesAgree, LoggedPassIsFresh, Settled, done
<1> QED
  BY <1>1, <1>2, OneSessionInit, PTL DEF LogSpec, logAll
=============================================================================

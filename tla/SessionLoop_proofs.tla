------------------------- MODULE SessionLoop_proofs -------------------------
(***************************************************************************)
(* Theorems about SessionLoop, for every attempt floor, every cap on       *)
(* sessions, idle sessions and rounds, and every number of attempts.       *)
(***************************************************************************)
EXTENDS SessionLoop, FiniteSetTheorems, TLAPS

(* Between sessions neither a limit nor a pass was met, and there is room  *)
(* for one more session.                                                   *)
Open == phase = "session" => seen = {} /\ Len(sessions) < MaxSessions

(* After a session, a limit that was hit is the last session's.            *)
LimitIsLast ==
  phase \in {"decide", "merge"} =>
    /\ sessions # <<>>
    /\ "pass" \notin seen
    /\ "usage_limit" \in seen => Last(sessions) = "usage_limit"

(* A round starts with an empty log, and the worker's last count is of     *)
(* what the log holds, or of nothing.                                      *)
Counted ==
  /\ phase = "returned" => sessions = <<>>
  /\ sessions = <<>> => log = NoAttempts
  /\ sessions # <<>> => Last(after) \in Readings(log)
  /\ sessions # <<>> /\ ~unread => Last(after) = log

(* What the worker has recorded, and what it mirrored, was made before the *)
(* attempts of this round.                                                 *)
MadeBefore ==
  /\ attempts + log.on_function <= made /\ mirrored + log.on_function <= made
  /\ ~unread => attempts + log.on_function = made

(* The backward scan over the running totals finds what was idle.          *)
IdleCounted == ~unread => Cardinality(IdleSessions) = idle

(* What Again and Advance decide by is what was seen of the round.         *)
Decided ==
  ~unread =>
    /\ phase = "session" /\ sessions # <<>> => WorthAnotherSession
    /\ phase = "merge" => ~WorthAnotherSession

LoopInv ==
  TypeOK /\ Open /\ LimitIsLast /\ Counted /\ MadeBefore /\ IdleCounted /\ Decided
    /\ LimitIsReported

(* What a session leaves behind: one more end and one more count.          *)
LEMMA LastOfAppend ==
  ASSUME NEW S, NEW s \in Seq(S), NEW e \in S
  PROVE  /\ Append(s, e) \in Seq(S)
         /\ Len(Append(s, e)) = Len(s) + 1
         /\ Last(Append(s, e)) = e
         /\ Append(s, e) # <<>>
BY DEF Last

(* A sequence without elements is the empty one.                           *)
LEMMA NoLength ==
  ASSUME NEW S, NEW s \in Seq(S), Len(s) = 0
  PROVE  s = <<>>
OBVIOUS

LEMMA EmptyCounts ==
  /\ NoAttempts \in Counts
  /\ <<>> \in Seq(Counts) /\ <<>> \in Seq(Ends) /\ Len(<<>>) = 0
<1>1. NoAttempts \in Counts
  BY DEF NoAttempts, Counts
<1>2. \A S : <<>> \in Seq(S) /\ Len(<<>>) = 0
  OBVIOUS
<1> QED
  BY <1>1, <1>2

LEMMA EmptyRound == sessions = <<>> => IdleSessions = {}
<1>1. sessions = <<>> => 1 .. Len(sessions) = {}
  BY EmptyCounts
<1> QED
  BY <1>1 DEF IdleSessions

LEMMA IdleFinite == TypeOK => IsFiniteSet(IdleSessions)
<1> SUFFICES ASSUME TypeOK PROVE IsFiniteSet(IdleSessions)
  OBVIOUS
<1>1. Len(sessions) \in Nat
  BY DEF TypeOK
<1>2. IsFiniteSet(1 .. Len(sessions)) /\ IdleSessions \subseteq 1 .. Len(sessions)
  BY <1>1, FS_Interval DEF IdleSessions
<1> QED
  BY <1>2, FS_Subset

LEMMA InitLoop == Init => LoopInv
<1> SUFFICES ASSUME Init PROVE LoopInv
  OBVIOUS
<1>1. Len(sessions) = 0 /\ Len(after) = 0
  BY EmptyCounts DEF Init
<1>2. TypeOK
  <2>1. 0 <= MaxSessions /\ 0 \in 0 .. MaxMergeReruns
    BY BoundsAssumption
  <2>2. FALSE \in BOOLEAN /\ {} \subseteq Final
    OBVIOUS
  <2> QED
    BY <1>1, <2>1, <2>2, EmptyCounts DEF Init, TypeOK
<1>3. Open /\ LimitIsLast /\ Counted /\ MadeBefore
  BY <1>1, BoundsAssumption
     DEF Init, Open, LimitIsLast, Counted, MadeBefore, NoAttempts
<1>4. IdleCounted
  BY EmptyRound, FS_EmptySet DEF Init, IdleCounted
<1>5. LimitIsReported /\ Decided
  BY DEF Init, LimitIsReported, Decided
<1> QED
  BY <1>2, <1>3, <1>4, <1>5 DEF LoopInv

(* One more session makes the scan find one more idle session, the same    *)
(* ones or none, by what that session added.                               *)
LEMMA IdleStep ==
  ASSUME TypeOK, Counted, ~unread,
         NEW end \in Ends, NEW mine \in Nat, NEW others \in Nat,
         sessions' = Append(sessions, end),
         log' = [on_function |-> log.on_function + mine,
                 on_any |-> log.on_any + mine + others],
         after' = Append(after, log')
  PROVE  IdleSessions' = IF mine + others > 0 THEN {}
                         ELSE IF is_error(end) THEN IdleSessions
                         ELSE IdleSessions \cup {Len(sessions) + 1}
<1>0. PICK n \in Nat : n = Len(sessions)
  BY DEF TypeOK
<1>1. /\ n = Len(sessions) /\ Len(after) = n /\ log \in Counts /\ log' \in Counts
      /\ sessions \in Seq(Ends) /\ after \in Seq(Counts)
  BY <1>0 DEF TypeOK, Counts
<1>2. /\ Len(sessions') = n + 1 /\ sessions'[n + 1] = end
      /\ \A i \in 1 .. n : sessions'[i] = sessions[i]
  BY <1>1
<1>3. after'[n + 1] = log' /\ \A i \in 1 .. n : after'[i] = after[i]
  BY <1>1
<1>4. \A i \in 1 .. n : Added(i)' = Added(i)
  BY <1>1, <1>3 DEF Added
<1>5. Added(n + 1)' = mine + others
  <2>0. /\ log.on_any \in Nat /\ log'.on_any \in Nat /\ n + 1 \in Nat
        /\ log'.on_any = log.on_any + mine + others
    BY <1>1 DEF Counts
  <2>3. Added(n + 1)' = after'[n + 1].on_any
                          - (IF n + 1 = 1 THEN 0 ELSE after'[n + 1 - 1].on_any)
    BY ONLY DEF Added
  <2>1. CASE n = 0
    <3>1. log = NoAttempts
      <4>1. sessions = <<>>
        BY <1>1, <2>1, NoLength
      <4> QED
        BY <4>1 DEF Counted
    <3>2. Added(n + 1)' = log'.on_any - 0
      <4>1. n + 1 = 1
        BY <2>1
      <4> QED
        BY <1>3, <2>3, <4>1
    <3> QED
      BY <2>0, <3>1, <3>2 DEF NoAttempts
  <2>2. CASE n # 0
    <3>1. after[n] = log
      BY <1>1, <2>2 DEF Counted, Last
    <3>2. after'[n] = log /\ n + 1 # 1 /\ n + 1 - 1 = n
      BY <1>1, <1>3, <2>2, <3>1
    <3>3. Added(n + 1)' = log'.on_any - log.on_any
      BY <1>3, <2>3, <3>2
    <3> QED
      BY <2>0, <3>3
  <2> QED
    BY <2>1, <2>2
<1>6. ASSUME NEW i \in 1 .. n + 1
      PROVE  i \in IdleSessions' <=>
               /\ ~is_error(sessions'[i])
               /\ \A j \in i .. n + 1 : Added(j)' = 0
  BY <1>2 DEF IdleSessions
<1>7. \A i \in IdleSessions' : i \in 1 .. n + 1
  BY <1>2 DEF IdleSessions
<1>8. \A i \in IdleSessions : i \in 1 .. n
  BY <1>1 DEF IdleSessions
<1>9. CASE mine + others > 0
  <2>1. ASSUME NEW i \in IdleSessions' PROVE FALSE
    <3>1. i \in 1 .. n + 1 /\ n + 1 \in i .. n + 1
      BY <1>1, <1>7, <2>1
    <3>2. Added(n + 1)' = 0
      BY <1>6, <2>1, <3>1
    <3> QED
      BY <1>5, <1>9, <3>2
  <2> QED
    BY <1>9, <2>1
<1>10. CASE ~(mine + others > 0)
  <2>1. Added(n + 1)' = 0
    BY <1>5, <1>10
  <2>2. ASSUME NEW i \in 1 .. n PROVE i \in IdleSessions' <=> i \in IdleSessions
    <3>1. i \in 1 .. n + 1 /\ i .. n + 1 = (i .. n) \cup {n + 1}
      BY <1>1
    <3>2. \A j \in i .. n : Added(j)' = Added(j)
      BY <1>1, <1>4
    <3>3. (\A j \in i .. n + 1 : Added(j)' = 0) <=> (\A j \in i .. n : Added(j) = 0)
      BY <2>1, <3>1, <3>2
    <3>4. i \in IdleSessions <=>
            ~is_error(sessions[i]) /\ \A j \in i .. n : Added(j) = 0
      BY <1>1 DEF IdleSessions
    <3> QED
      BY <1>2, <1>6, <3>1, <3>3, <3>4
  <2>3. n + 1 \in IdleSessions' <=> ~is_error(end)
    <3>1. n + 1 \in 1 .. n + 1 /\ (n + 1) .. (n + 1) = {n + 1}
      BY <1>1
    <3> QED
      BY <1>2, <1>6, <2>1, <3>1
  <2>4. 1 .. n + 1 = (1 .. n) \cup {n + 1} /\ n + 1 \notin 1 .. n
    BY <1>1
  <2>5. IdleSessions' = IF is_error(end) THEN IdleSessions ELSE IdleSessions \cup {n + 1}
    <3>1. CASE is_error(end)
      <4>1. \A i \in 1 .. n + 1 : i \in IdleSessions' <=> i \in IdleSessions
        BY <1>8, <2>2, <2>3, <2>4, <3>1
      <4>2. IdleSessions' = IdleSessions
        BY <1>7, <1>8, <2>4, <4>1
      <4> QED
        BY <3>1, <4>2
    <3>2. CASE ~is_error(end)
      <4>1. \A i \in 1 .. n + 1 : i \in IdleSessions' <=> i \in IdleSessions \cup {n + 1}
        BY <1>8, <2>2, <2>3, <2>4, <3>2
      <4>2. \A i \in IdleSessions \cup {n + 1} : i \in 1 .. n + 1
        BY <1>8, <2>4
      <4>3. IdleSessions' = IdleSessions \cup {n + 1}
        BY <1>7, <4>1, <4>2
      <4> QED
        BY <3>2, <4>3
    <3> QED
      BY <3>1, <3>2
  <2> QED
    BY <1>1, <1>10, <2>5
<1> QED
  BY <1>9, <1>10

(* A session appends its end and a count.                                  *)
LEMMA SessionStep == LoopInv /\ Session => LoopInv'
<1> SUFFICES ASSUME LoopInv, Session PROVE LoopInv'
  OBVIOUS
<1> USE DEF LoopInv
<1>1. PICK end \in Ends, mine \in 0 .. MaxAdded, others \in 0 .. MaxAdded :
        /\ sessions' = Append(sessions, end)
        /\ log' = [on_function |-> log.on_function + mine,
                   on_any |-> log.on_any + mine + others]
        /\ seen' = seen \cup (Final \cap {end})
        /\ made' = made + mine
        /\ idle' = IF mine + others > 0 THEN 0
                   ELSE IF is_error(end) THEN idle
                   ELSE idle + 1
  BY DEF Session
<1>2. PICK read \in Readings(log') :
        after' = Append(after, read) /\ unread' = (unread \/ read # log')
  BY DEF Session
<1>3. phase = "session" /\ phase' = "decide" /\ check' \in {"none", "pass", "fail"}
      /\ UNCHANGED <<attempts, mirrored, reruns, outcome>>
  BY DEF Session
<1>4. mine \in Nat /\ others \in Nat /\ log \in Counts /\ log' \in Counts /\ read \in Counts
  <2>1. mine \in Nat /\ others \in Nat
    BY BoundsAssumption
  <2>2. log \in Counts /\ log' \in Counts
    BY <1>1, <2>1 DEF TypeOK, Counts
  <2> QED
    BY <1>2, <2>1, <2>2, EmptyCounts DEF Readings
<1>5. /\ sessions' \in Seq(Ends) /\ Len(sessions') = Len(sessions) + 1
      /\ Last(sessions') = end /\ sessions' # <<>>
  BY <1>1, LastOfAppend DEF TypeOK
<1>6. /\ after' \in Seq(Counts) /\ Len(after') = Len(after) + 1
      /\ Last(after') = read
  BY <1>2, <1>4, LastOfAppend DEF TypeOK
<1>7. TypeOK'
  <2>1. Len(sessions') <= MaxSessions /\ Len(after') = Len(sessions')
    BY <1>3, <1>5, <1>6, BoundsAssumption DEF TypeOK, Open
  <2>2. seen' \subseteq Final /\ unread' \in BOOLEAN
    BY <1>1, <1>2 DEF TypeOK
  <2>3. made' \in Nat /\ idle' \in Nat
    BY <1>1, <1>4 DEF TypeOK
  <2> QED
    BY <1>3, <1>4, <1>5, <1>6, <2>1, <2>2, <2>3 DEF TypeOK
<1>8. Open' /\ LimitIsLast'
  <2>1. end # "pass"
    BY DEF Ends
  <2> QED
    BY <1>1, <1>3, <1>5, <2>1 DEF Open, LimitIsLast, Last
<1>9. Counted'
  <2>1. ~unread' => read = log'
    BY <1>2
  <2> QED
    BY <1>3, <1>5, <1>6, <2>1 DEF Counted
<1>10. MadeBefore'
  <2>1. log.on_function \in Nat /\ attempts \in Nat /\ mirrored \in Nat /\ made \in Nat
    BY <1>4 DEF TypeOK, Counts
  <2>2. log'.on_function = log.on_function + mine /\ made' = made + mine
    BY <1>1
  <2>3. ~unread' => ~unread
    BY <1>2
  <2> QED
    BY <1>3, <1>4, <2>1, <2>2, <2>3 DEF MadeBefore
<1>11. IdleCounted'
  <2> SUFFICES ASSUME ~unread' PROVE Cardinality(IdleSessions') = idle'
    BY DEF IdleCounted
  <2>1. ~unread /\ after' = Append(after, log')
    BY <1>2
  <2>2. IdleSessions' = IF mine + others > 0 THEN {}
                        ELSE IF is_error(end) THEN IdleSessions
                        ELSE IdleSessions \cup {Len(sessions) + 1}
    BY <1>1, <1>4, <2>1, IdleStep
  <2>3. IsFiniteSet(IdleSessions) /\ Cardinality(IdleSessions) = idle
    BY <2>1, IdleFinite DEF IdleCounted
  <2>4. Len(sessions) + 1 \notin IdleSessions
    <3>1. Len(sessions) \in Nat
      BY DEF TypeOK
    <3> QED
      BY <3>1 DEF IdleSessions
  <2>5. Cardinality(IdleSessions \cup {Len(sessions) + 1}) = idle + 1
    BY <2>3, <2>4, FS_AddElement
  <2> QED
    BY <1>1, <2>2, <2>3, <2>5, FS_EmptySet
<1>12. LimitIsReported' /\ Decided'
  BY <1>3 DEF LimitIsReported, Decided
<1> QED
  BY <1>7, <1>8, <1>9, <1>10, <1>11, <1>12

(* As long as the log is read, the rerun rules are about what was seen.    *)
LEMMA RerunsKnow ==
  ASSUME LoopInv, phase = "decide", ~unread
  PROVE  should_rerun_session <=> WorthAnotherSession
<1>1. Last(after) = log /\ Cardinality(IdleSessions) = idle
  BY DEF LoopInv, LimitIsLast, Counted, IdleCounted
<1>2. Last(sessions) \in Ends /\ Len(sessions) \in Nat /\ log.on_function \in Nat
  BY DEF LoopInv, LimitIsLast, TypeOK, Last, Counts
<1>3. Last(sessions) \notin {"usage_limit", "timed_out"} <=> Last(sessions) \in {"ok", "error"}
  BY <1>2 DEF Ends
<1>4. ~FloorMet <=> log.on_function < MinAttempts
  BY <1>1, <1>2, BoundsAssumption DEF FloorMet
<1>5. ~CapReached <=> Len(sessions) < MaxSessions
  BY <1>2, BoundsAssumption DEF CapReached
<1> QED
  BY <1>1, <1>3, <1>4, <1>5 DEF should_rerun_session, WorthAnotherSession

(* The decision changes nothing but the worker's place.                    *)
LEMMA DecisionKeeps ==
  ASSUME LoopInv, phase = "decide", phase' \in {"session", "merge"},
         UNCHANGED <<sessions, after, log, check, attempts, mirrored, reruns,
                     outcome, history>>
  PROVE  /\ TypeOK' /\ Counted' /\ MadeBefore' /\ IdleCounted' /\ LimitIsReported'
         /\ WorthAnotherSession' = WorthAnotherSession
<1> USE DEF LoopInv, history
<1>1. TypeOK' /\ LimitIsReported'
  BY DEF TypeOK, LimitIsReported
<1>2. Counted' /\ MadeBefore'
  BY DEF Counted, MadeBefore, Last
<1>3. IdleCounted'
  BY DEF IdleCounted, IdleSessions, Added
<1>4. WorthAnotherSession' = WorthAnotherSession
  BY DEF WorthAnotherSession, Last
<1> QED
  BY <1>1, <1>2, <1>3, <1>4

(* Another session starts only if no limit was hit and the cap has room.   *)
LEMMA AgainStep == LoopInv /\ Again => LoopInv'
<1> SUFFICES ASSUME LoopInv, Again PROVE LoopInv'
  OBVIOUS
<1>1. /\ phase = "decide" /\ phase' = "session" /\ should_rerun_session
      /\ UNCHANGED <<sessions, after, log, check, attempts, mirrored, reruns,
                     outcome, history>>
  BY DEF Again
<1>2. /\ TypeOK' /\ Counted' /\ MadeBefore' /\ IdleCounted' /\ LimitIsReported'
      /\ WorthAnotherSession' = WorthAnotherSession
  BY <1>1, DecisionKeeps
<1>3. seen = {} /\ Len(sessions) < MaxSessions
  BY <1>1, BoundsAssumption
     DEF LoopInv, should_rerun_session, CapReached, LimitIsLast, TypeOK, Final
<1>4. Open' /\ LimitIsLast'
  BY <1>1, <1>3 DEF Open, LimitIsLast, history
<1>5. Decided'
  BY <1>1, <1>2, RerunsKnow DEF Decided, history
<1> QED
  BY <1>2, <1>4, <1>5 DEF LoopInv

LEMMA AdvanceStep == LoopInv /\ Advance => LoopInv'
<1> SUFFICES ASSUME LoopInv, Advance PROVE LoopInv'
  OBVIOUS
<1>1. /\ phase = "decide" /\ phase' = "merge" /\ ~should_rerun_session
      /\ UNCHANGED <<sessions, after, log, check, attempts, mirrored, reruns,
                     outcome, history>>
  BY DEF Advance
<1>2. /\ TypeOK' /\ Counted' /\ MadeBefore' /\ IdleCounted' /\ LimitIsReported'
      /\ WorthAnotherSession' = WorthAnotherSession
  BY <1>1, DecisionKeeps
<1>3. Open' /\ LimitIsLast'
  BY <1>1 DEF LoopInv, Open, LimitIsLast, history, Last
<1>4. Decided'
  BY <1>1, <1>2, RerunsKnow DEF Decided, history
<1> QED
  BY <1>2, <1>3, <1>4 DEF LoopInv

(* The merge counts the attempts of the round, mirrors some of them, and   *)
(* ends in a fresh round, if the last session was not stopped, or in an    *)
(* outcome.                                                                *)
LEMMA MergeStep == LoopInv /\ Merge => LoopInv'
<1> SUFFICES ASSUME LoopInv, Merge PROVE LoopInv'
  OBVIOUS
<1> USE DEF LoopInv
<1>1. /\ phase = "merge" /\ UNCHANGED <<made, unread>>
      /\ attempts' = attempts + Last(after).on_function
  BY DEF Merge, NewAttempts
<1>2. PICK written \in 0 .. log.on_function : mirrored' = mirrored + written
  BY DEF Merge, MirroredBy
<1>3. PICK cause \in BOOLEAN, cbmc \in Verdicts :
        /\ seen' = seen \cup (Final \cap {cbmc})
        /\ \/ NeedsAnotherRound(cbmc, cause) /\ NextRound
           \/ ~NeedsAnotherRound(cbmc, cause) /\ Return(cbmc)
  BY DEF Merge
<1>4. Fresh
  BY <1>3 DEF NextRound, Return
<1>5. Len(sessions') = 0 /\ Len(after') = 0 /\ sessions' = <<>> /\ log'.on_function = 0
  BY <1>4, EmptyCounts DEF Fresh, NoAttempts
<1>6. /\ Last(after).on_function \in 0 .. log.on_function
      /\ ~unread => Last(after).on_function = log.on_function
      /\ log.on_function \in Nat
  <2>1. log.on_function \in Nat /\ NoAttempts.on_function = 0
    BY DEF TypeOK, Counts, NoAttempts
  <2>2. Last(after) \in {log, NoAttempts} /\ (~unread => Last(after) = log)
    BY <1>1 DEF LimitIsLast, Counted, Readings
  <2> QED
    BY <2>1, <2>2
<1>7. attempts' \in Nat /\ mirrored' \in Nat
  BY <1>1, <1>2, <1>6 DEF TypeOK
<1>8. MadeBefore'
  BY <1>1, <1>2, <1>5, <1>6 DEF MadeBefore, TypeOK
<1>9. Counted' /\ IdleCounted'
  <2>1. IdleSessions' = {}
    BY <1>5 DEF IdleSessions
  <2>2. idle' = 0 /\ log' = NoAttempts
    BY <1>4 DEF Fresh
  <2> QED
    BY <1>5, <2>1, <2>2, FS_EmptySet DEF Counted, IdleCounted
<1>10. TypeOK'
  <2>1. phase' \in {"session", "returned"} /\ reruns' \in 0 .. MaxMergeReruns
        /\ outcome' \in Outcomes \cup {"none"}
    <3>1. CASE NeedsAnotherRound(cbmc, cause) /\ NextRound
      BY <3>1, BoundsAssumption DEF NeedsAnotherRound, NextRound, TypeOK
    <3>2. CASE ~NeedsAnotherRound(cbmc, cause) /\ Return(cbmc)
      <4>1. Last(sessions) \in Ends
        BY <1>1 DEF LimitIsLast, TypeOK, Last
      <4>2. outcome_for(Last(sessions), cbmc) \in Outcomes
        BY <4>1 DEF outcome_for, Outcomes, Ends, Verdicts
      <4> QED
        BY <3>2, <4>2 DEF Return, TypeOK
    <3> QED
      BY <1>3, <3>1, <3>2
  <2>2. sessions' \in Seq(Ends) /\ after' \in Seq(Counts) /\ log' \in Counts
        /\ check' = "none" /\ idle' = 0
    BY <1>4, EmptyCounts DEF Fresh
  <2>3. seen' \subseteq Final
    BY <1>3 DEF TypeOK
  <2> QED
    BY <1>1, <1>5, <1>7, <2>1, <2>2, <2>3, BoundsAssumption DEF TypeOK
<1>11. CASE NeedsAnotherRound(cbmc, cause) /\ NextRound
  <2>1. seen = {} /\ seen' = {}
    BY <1>1, <1>3, <1>11 DEF NeedsAnotherRound, LimitIsLast, TypeOK, Final
  <2>2. phase' = "session"
    BY <1>11 DEF NextRound
  <2>3. Open' /\ LimitIsLast'
    BY <1>5, <2>1, <2>2, BoundsAssumption DEF Open, LimitIsLast
  <2>4. LimitIsReported' /\ Decided'
    BY <1>5, <2>2 DEF LimitIsReported, Decided
  <2> QED
    BY <1>8, <1>9, <1>10, <2>3, <2>4
<1>12. CASE ~NeedsAnotherRound(cbmc, cause) /\ Return(cbmc)
  <2>1. phase' = "returned" /\ outcome' = outcome_for(Last(sessions), cbmc)
    BY <1>12 DEF Return
  <2>2. Last(sessions) = "usage_limit"
          => outcome_for(Last(sessions), cbmc) \in {"VERIFIED", "USAGE_LIMITED"}
    BY DEF outcome_for, Verdicts
  <2>3. "usage_limit" \in seen' => "usage_limit" \in seen
    BY <1>3 DEF Verdicts
  <2>4. LimitIsReported'
    BY <1>1, <2>1, <2>2, <2>3 DEF LimitIsReported, LimitIsLast
  <2>5. Open' /\ LimitIsLast' /\ Decided'
    BY <2>1 DEF Open, LimitIsLast, Decided
  <2> QED
    BY <1>8, <1>9, <1>10, <2>4, <2>5
<1> QED
  BY <1>3, <1>11, <1>12

(* What the worker knows of its sessions is invariant in both loops.       *)
THEOREM LoopCorrect == Spec => []LoopInv
<1>1. LoopInv /\ [Next]_vars => LoopInv'
  <2> SUFFICES ASSUME LoopInv, [Next]_vars PROVE LoopInv'
    OBVIOUS
  <2>1. CASE Terminated \/ UNCHANGED vars
    BY <2>1 DEF Terminated, vars, history, LoopInv, TypeOK, Open, LimitIsLast, Counted,
                Last, MadeBefore, IdleCounted, IdleSessions, Added, Decided,
                WorthAnotherSession, LimitIsReported
  <2>2. CASE Worker
    BY <2>2, SessionStep, AgainStep, AdvanceStep, MergeStep DEF Worker
  <2> QED
    BY <2>1, <2>2 DEF Next
<1> QED
  BY InitLoop, <1>1, PTL DEF Spec

(* TypeOK, with the cap on the sessions of a round (_run_sessions_for).    *)
THEOREM TypeCorrect == Spec => []TypeOK
<1>1. LoopInv => TypeOK
  BY DEF LoopInv
<1> QED
  BY <1>1, LoopCorrect, PTL

(* No usage limit is lost in the two loops (_should_rerun_session,         *)
(* _note_for_rerun_after_merge, _outcome_for).                             *)
THEOREM LimitCorrect == Spec => []LimitIsReported
<1>1. LoopInv => LimitIsReported
  BY DEF LoopInv
<1> QED
  BY <1>1, LoopCorrect, PTL

(* Every attempt is recorded and mirrored at most once, and recorded once  *)
(* if the logs of the copies can be read.                                  *)
THEOREM AttemptsCorrect == Spec => []AttemptsAddUp
<1>1. LoopInv => AttemptsAddUp
  <2> SUFFICES ASSUME LoopInv PROVE AttemptsAddUp
    OBVIOUS
  <2> QED
    <3>1. log.on_function \in Nat /\ (phase = "returned" => log.on_function = 0)
      BY DEF LoopInv, TypeOK, Counts, Counted, NoAttempts
    <3> QED
      BY <3>1 DEF LoopInv, TypeOK, MadeBefore, AttemptsAddUp
<1> QED
  BY <1>1, LoopCorrect, PTL

(* A round goes on exactly when another session can do better, and none    *)
(* starts for a function that has passed (_should_rerun_session,           *)
(* _note_for_rerun_after_merge).                                           *)
THEOREM WorthwhileCorrect == Spec => []SessionsAreWorthwhile
<1>1. LoopInv => SessionsAreWorthwhile
  BY DEF LoopInv, Decided, Open, SessionsAreWorthwhile
<1> QED
  BY <1>1, LoopCorrect, PTL
=============================================================================

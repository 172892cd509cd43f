-------------------------- MODULE BatchPool_proofs --------------------------
(***************************************************************************)
(* Theorems about BatchPool, for every number of runs and every number of  *)
(* jobs: how many runs there are at once, and what is left of a run when   *)
(* its exit code is written and when the batch has exited.                 *)
(***************************************************************************)
EXTENDS BatchPool, FiniteSetTheorems, TLAPS

(* Every wait takes a run that was launched, so the runs that came early   *)
(* are among those that were waited for.                                   *)
WaitedOnce == early + Cardinality(unwaited) <= launched

(* There is room for one more run when the shell is about to launch one,   *)
(* and while it waits, the runs that run are among those it counted.       *)
RoomToLaunch ==
  /\ shell = "launch" => Cardinality(Running) < Jobs + early
  /\ shell = "wait" => /\ Running \subseteq counted
                       /\ Cardinality(counted) <= Jobs + early

JobsInv == TypeOK /\ WaitedOnce /\ RoomToLaunch /\ AtMostJobs

(* A run that was not launched yet has done nothing.                       *)
LaunchedInOrder == \A i \in AllRuns : i > launched => run[i] = "none"

(* Who looks after a container: a container exists only after the subject  *)
(* was copied, one that is up has a run that follows it, and a run whose   *)
(* client returned by itself has none.                                     *)
Attended ==
  \A i \in AllRuns :
    /\ run[i] \in {"none", "copying"} => container[i] = "none"
    /\ i \in Up => run[i] \in {"client", "expired", "after", "halting"}
    /\ i \in Up /\ run[i] = "after" => NeedsStop(i)

(* Nothing runs any more when the shell has exited.                        *)
ExitedIdle == shell = "exited" => Running = {}

RunsInv == LaunchedInOrder /\ Attended /\ ExitedIdle

-----------------------------------------------------------------------------
(* The sets that are counted are finite.                                   *)
LEMMA FiniteRuns ==
  /\ Runs \in Nat
  /\ \A S \in SUBSET AllRuns : IsFiniteSet(S) /\ Cardinality(S) \in Nat
<1>1. Runs \in Nat
  BY BatchAssumption
<1>2. IsFiniteSet(AllRuns)
  BY <1>1, FS_Interval DEF AllRuns
<1> QED
  BY <1>1, <1>2, FS_Subset, FS_CardinalityType

LEMMA SmallerCount ==
  ASSUME NEW S \in SUBSET AllRuns, NEW T \in SUBSET S
  PROVE  Cardinality(T) <= Cardinality(S)
BY FiniteRuns, FS_Subset

(* One run less, or one more.                                              *)
LEMMA OneLess ==
  ASSUME NEW S \in SUBSET AllRuns, NEW i \in S
  PROVE  Cardinality(S \ {i}) = Cardinality(S) - 1
BY FiniteRuns, FS_RemoveElement

LEMMA OneMore ==
  ASSUME NEW S \in SUBSET AllRuns, NEW i \in AllRuns
  PROVE  Cardinality(S \cup {i}) <= Cardinality(S) + 1
BY FiniteRuns, FS_AddElement

-----------------------------------------------------------------------------
(* SIGTERM and SIGKILL: what they make of the containers they reach.       *)
LEMMA TerminateEffect ==
  ASSUME TypeOK, NEW S \in SUBSET AllRuns, Terminate(S)
  PROVE  /\ container' \in [AllRuns -> ContainerPhases]
         /\ \A i \in AllRuns :
              \/ container'[i] = container[i]
              \/ container[i] = "working" /\ container'[i] = "terminating"
              \/ container[i] = "publishing" /\ container'[i] = "ended"
BY DEF Terminate, Terminated, TypeOK, ContainerPhases

LEMMA KillEffect ==
  ASSUME TypeOK, NEW S, Kill(S)
  PROVE  /\ container' \in [AllRuns -> ContainerPhases]
         /\ \A i \in AllRuns :
              \/ container'[i] = container[i]
              \/ i \in S \cap Up /\ container'[i] = "killed"
BY DEF Kill, TypeOK, ContainerPhases

(* The runs and the containers take their steps without the shell's        *)
(* knowledge, and none of them starts a run.                               *)
LEMMA OthersStep ==
  ASSUME TypeOK, NEW i \in AllRuns, RunStep(i) \/ ContainerStep(i)
  PROVE  TypeOK' /\ UNCHANGED <<timeout, pool>> /\ Running' \subseteq Running
<1>1. UNCHANGED <<timeout, shell, launched, unwaited, counted, stopping, status,
                  early>>
  BY DEF RunStep, ContainerStep, Copy, NotStarted, Expire, KillClient,
         ClientReturns, StopContainer, HaltKill, RecordCode, Boot, RunnerEnds,
         Publish, OutOfMemory, pool
<1>2. /\ run' = run \/ \E phase \in RunPhases : run' = [run EXCEPT ![i] = phase]
      /\ run'[i] # run[i] => run[i] \notin {"none", "recorded", "failed"}
      /\ code' = code \/ \E c \in {0, 124, 125, 137} :
                            code' = [code EXCEPT ![i] = c]
  BY DEF TypeOK, RunStep, ContainerStep, Copy, NotStarted, Expire, KillClient,
         ClientReturns, StopContainer, HaltKill, RecordCode, Boot, RunnerEnds,
         Publish, OutOfMemory, jobvars, Goes, RunPhases
<1>3. container' \in [AllRuns -> ContainerPhases]
  <2>1. ASSUME NEW S \in SUBSET AllRuns, Terminate(S) PROVE <1>3
    BY <2>1, TerminateEffect
  <2>2. ASSUME NEW S, Kill(S) PROVE <1>3
    BY <2>2, KillEffect DEF TypeOK
  <2>3. CASE Expire(i) \/ StopContainer(i)
    BY <2>1, <2>3 DEF Expire, StopContainer, Up
  <2>4. CASE HaltKill(i) \/ OutOfMemory(i)
    BY <2>2, <2>4 DEF HaltKill, OutOfMemory
  <2>5. CASE Copy(i) \/ NotStarted(i) \/ KillClient(i) \/ ClientReturns(i)
               \/ RecordCode(i) \/ Boot(i) \/ RunnerEnds(i) \/ Publish(i)
    BY <2>5 DEF TypeOK, ContainerPhases, Copy, NotStarted, KillClient,
                ClientReturns, RecordCode, Boot, RunnerEnds, Publish, Becomes
  <2> QED
    BY <2>3, <2>4, <2>5 DEF RunStep, ContainerStep
<1>4. TypeOK'
  BY <1>1, <1>2, <1>3 DEF TypeOK
<1>5. Running' \subseteq Running
  BY <1>2 DEF TypeOK, Running
<1> QED
  BY <1>1, <1>4, <1>5 DEF pool

(* Stopping the batch changes no count.                                    *)
LEMMA StopStep ==
  ASSUME TypeOK, Stop \/ StopScan \/ StopKill \/ StopReturn
  PROVE  /\ TypeOK' /\ shell' \in {"stop", "stopwait", "exited"}
         /\ UNCHANGED <<timeout, launched, unwaited, early, jobvars>>
<1> USE DEF TypeOK, pool, jobvars
<1>1. CASE Stop
  BY <1>1 DEF Stop
<1>2. CASE StopScan
  <2>1. CASE Running # {}
    <3>1. Terminate(Up) /\ Up \in SUBSET AllRuns
      BY <1>2, <2>1 DEF StopScan, Up
    <3>2. container' \in [AllRuns -> ContainerPhases]
      BY <3>1, TerminateEffect
    <3> QED
      BY <1>2, <2>1, <3>1, <3>2 DEF StopScan
  <2>2. CASE Running = {}
    BY <1>2, <2>2 DEF StopScan
  <2> QED
    BY <2>1, <2>2
<1>3. CASE StopKill
  <2>1. Kill(stopping)
    BY <1>3 DEF StopKill
  <2>2. container' \in [AllRuns -> ContainerPhases]
    BY <2>1, KillEffect
  <2> QED
    BY <1>3, <2>2 DEF StopKill
<1>4. CASE StopReturn
  BY <1>4 DEF StopReturn
<1> QED
  BY <1>1, <1>2, <1>3, <1>4

-----------------------------------------------------------------------------
(* The shell launches a run only where there is room for it.               *)
LEMMA LaunchStep == JobsInv /\ Launch => JobsInv'
<1> SUFFICES ASSUME JobsInv, Launch PROVE JobsInv'
  OBVIOUS
<1> USE FiniteRuns
<1>1. TypeOK /\ shell = "launch" /\ Cardinality(Running) < Jobs + early
      /\ UNCHANGED <<timeout, counted, stopping, status, early, code, container>>
  BY DEF JobsInv, RoomToLaunch, Launch
<1>2. CASE IsLast(launched)
  <2>1. shell' = "drain" /\ UNCHANGED <<launched, unwaited, run>>
    BY <1>2 DEF Launch
  <2> QED
    BY <1>1, <2>1 DEF JobsInv, TypeOK, WaitedOnce, RoomToLaunch, AtMostJobs,
                      Running
<1>3. CASE ~IsLast(launched)
  <2>1. /\ launched' = launched + 1 /\ unwaited' = unwaited \cup {launched'}
        /\ run' = [run EXCEPT ![launched'] = "copying"] /\ shell' = "check"
    BY <1>3 DEF Launch
  <2>2. launched' \in AllRuns /\ launched' \in 0 .. Runs
    BY <1>1, <1>3, <2>1 DEF IsLast, TypeOK, AllRuns
  <2>3. TypeOK'
    <3>1. unwaited' \subseteq 1 .. launched'
      BY <1>1, <2>1 DEF TypeOK
    <3> QED
      BY <1>1, <2>1, <2>2, <3>1 DEF TypeOK, RunPhases
  <2>4. Cardinality(unwaited') <= Cardinality(unwaited) + 1
    <3>1. unwaited \in SUBSET AllRuns
      BY <1>1 DEF TypeOK, AllRuns
    <3> QED
      BY <2>1, <2>2, <3>1, OneMore
  <2>5. WaitedOnce'
    <3>1. unwaited \in SUBSET AllRuns /\ unwaited' \in SUBSET AllRuns
      BY <1>1, <2>3 DEF TypeOK, AllRuns
    <3> QED
      BY <1>1, <2>1, <2>4, <3>1 DEF JobsInv, WaitedOnce, TypeOK
  <2>6. Running' = Running \cup {launched'}
    BY <1>1, <2>1, <2>2 DEF Running, TypeOK
  <2>7. Cardinality(Running') <= Cardinality(Running) + 1
    BY <2>2, <2>6, OneMore DEF Running
  <2>8. AtMostJobs'
    <3>1. Running \in SUBSET AllRuns /\ Running' \in SUBSET AllRuns
      BY DEF Running
    <3> QED
      BY <1>1, <2>7, <3>1, BatchAssumption DEF AtMostJobs, TypeOK
  <2> QED
    BY <2>1, <2>3, <2>5, <2>8 DEF JobsInv, RoomToLaunch
<1> QED
  BY <1>2, <1>3

(* A wait that returns a counted run makes room; the others are counted.   *)
LEMMA WaitStep == JobsInv /\ Wait => JobsInv'
<1> SUFFICES ASSUME JobsInv, Wait PROVE JobsInv'
  OBVIOUS
<1> USE FiniteRuns
<1>1. TypeOK /\ WaitedOnce /\ RoomToLaunch /\ AtMostJobs
  BY DEF JobsInv
<1>2. PICK i \in unwaited \ Running :
        /\ unwaited' = unwaited \ {i}
        /\ early' = IF i \in counted THEN early ELSE early + 1
  BY DEF Wait
<1>3. /\ counted' = {} /\ UNCHANGED <<timeout, launched, stopping, status, jobvars, container>>
      /\ \/ shell = "wait" /\ shell' = "launch"
         \/ shell = "drainwait" /\ shell' = "drain"
  BY DEF Wait
<1>4. /\ unwaited \in SUBSET AllRuns /\ unwaited' \in SUBSET AllRuns
      /\ counted \in SUBSET AllRuns /\ Running \in SUBSET AllRuns
  BY <1>1, <1>2 DEF TypeOK, AllRuns, Running
<1>5. Cardinality(unwaited') = Cardinality(unwaited) - 1
  BY <1>2, <1>4, OneLess
<1>6. early' \in Nat /\ early <= early' /\ early' <= early + 1 /\ launched' \in 0 .. Runs
  BY <1>1, <1>2, <1>3 DEF TypeOK
<1>7. WaitedOnce'
  BY <1>1, <1>3, <1>4, <1>5, <1>6 DEF WaitedOnce, TypeOK
<1>8. TypeOK'
  <2>1. early' \in 0 .. Runs
    BY <1>4, <1>6, <1>7 DEF WaitedOnce
  <2> QED
    BY <1>1, <1>2, <1>3, <2>1 DEF TypeOK, jobvars
<1>9. Running' = Running
  BY <1>3 DEF Running, jobvars
<1>10. AtMostJobs'
  BY <1>1, <1>4, <1>6, <1>9, BatchAssumption DEF AtMostJobs, TypeOK
<1>11. RoomToLaunch'
  <2>1. SUFFICES ASSUME shell = "wait" PROVE Cardinality(Running) < Jobs + early'
    BY <1>3, <1>9 DEF RoomToLaunch
  <2>2. Running \subseteq counted /\ Cardinality(counted) <= Jobs + early
    BY <1>1, <2>1 DEF RoomToLaunch
  <2>3. CASE i \in counted
    <3>1. Cardinality(counted \ {i}) = Cardinality(counted) - 1
      BY <1>4, <2>3, OneLess
    <3>2. Cardinality(Running) <= Cardinality(counted \ {i})
      BY <1>2, <1>4, <2>2, SmallerCount
    <3> QED
      BY <1>1, <1>2, <1>4, <2>2, <2>3, <3>1, <3>2, BatchAssumption DEF TypeOK
  <2>4. CASE i \notin counted
    <3>1. Cardinality(Running) <= Cardinality(counted)
      BY <1>4, <2>2, SmallerCount
    <3> QED
      BY <1>1, <1>2, <1>4, <2>2, <2>4, <3>1, BatchAssumption DEF TypeOK
  <2> QED
    BY <2>3, <2>4
<1> QED
  BY <1>7, <1>8, <1>10, <1>11 DEF JobsInv

(* The types and the counts are invariant together.                        *)
THEOREM JobsInvariant == Spec => []JobsInv
<1> USE FiniteRuns
<1>1. Init => JobsInv
  <2> SUFFICES ASSUME Init PROVE JobsInv
    OBVIOUS
  <2>1. TypeOK /\ Running = {} /\ unwaited = {} /\ early = 0 /\ launched = 0
    BY BatchAssumption DEF Init, TypeOK, Running, RunPhases, ContainerPhases
  <2>2. Cardinality({}) = 0
    BY FS_EmptySet
  <2> QED
    BY <2>1, <2>2, BatchAssumption
       DEF JobsInv, WaitedOnce, RoomToLaunch, AtMostJobs, Init
<1>2. JobsInv /\ [Next]_vars => JobsInv'
  <2> SUFFICES ASSUME JobsInv, [Next]_vars PROVE JobsInv'
    OBVIOUS
  <2>1. TypeOK /\ WaitedOnce /\ RoomToLaunch /\ AtMostJobs
    BY DEF JobsInv
  <2>2. ASSUME TypeOK', Running' \subseteq Running,
               UNCHANGED <<launched, unwaited, early>>,
               shell' = "launch" => shell = "launch",
               shell' = "wait" => shell = "wait" /\ counted' = counted
        PROVE  JobsInv'
    <3>1. Cardinality(Running') <= Cardinality(Running)
      BY <2>2, SmallerCount DEF Running
    <3>2. Running \in SUBSET AllRuns /\ Running' \in SUBSET AllRuns
      BY DEF Running
    <3> QED
      BY <2>1, <2>2, <3>1, <3>2, BatchAssumption
         DEF JobsInv, WaitedOnce, RoomToLaunch, AtMostJobs, TypeOK
  <2>3. CASE Launch
    BY <2>3, LaunchStep
  <2>4. CASE Check
    <3>1. TypeOK' /\ Running' = Running /\ UNCHANGED <<launched, unwaited, early>>
      BY <2>1, <2>4 DEF Check, TypeOK, Running, jobvars
    <3>2. Cardinality(Running) \in Nat /\ early \in Nat
      BY <2>1 DEF Running, TypeOK
    <3>3. /\ shell' \in {"launch", "wait"}
          /\ shell' = "launch" => Cardinality(Running) < Jobs
          /\ shell' = "wait" => counted' = Running
      BY <2>4, <3>2, BatchAssumption DEF Check, IsFull
    <3> QED
      BY <2>1, <3>1, <3>2, <3>3, BatchAssumption
         DEF JobsInv, WaitedOnce, RoomToLaunch, AtMostJobs, TypeOK
  <2>5. CASE Wait
    BY <2>5, WaitStep
  <2>6. CASE Drain
    <3>1. TypeOK' /\ Running' = Running /\ shell' \in {"drainwait", "exited"}
          /\ UNCHANGED <<launched, unwaited, early>>
      BY <2>1, <2>6 DEF Drain, TypeOK, Running, BatchStatus, jobvars
    <3> QED
      BY <2>2, <3>1
  <2>7. CASE Stop \/ StopScan \/ StopKill \/ StopReturn
    <3>1. Running' = Running
      BY <2>1, <2>7, StopStep DEF Running, jobvars
    <3> QED
      BY <2>1, <2>2, <2>7, <3>1, StopStep
  <2>8. ASSUME NEW i \in AllRuns, RunStep(i) \/ ContainerStep(i) PROVE JobsInv'
    BY <2>1, <2>2, <2>8, OthersStep DEF pool
  <2>9. CASE UNCHANGED vars
    BY <2>1, <2>2, <2>9 DEF vars, pool, jobvars, TypeOK, Running
  <2> QED
    BY <2>3, <2>4, <2>5, <2>6, <2>7, <2>8, <2>9 DEF Next, Shell, Exited
<1> QED
  BY <1>1, <1>2, PTL DEF Spec

(* A batch never runs more than Jobs runs at once, and one more for each   *)
(* wait that returned a run that was not among the counted ones.           *)
THEOREM JobsCorrect == Spec => []AtMostJobs
BY JobsInvariant, PTL DEF JobsInv

-----------------------------------------------------------------------------
(* A signal leaves every container attended.                               *)
LEMMA SignalKeeps ==
  ASSUME TypeOK, Attended, NEW S \in SUBSET AllRuns,
         Terminate(S) \/ Kill(S)
  PROVE  /\ \A i \in AllRuns : container[i] = "none" <=> container'[i] = "none"
         /\ Up' \subseteq Up
<1>1. CASE Terminate(S)
  BY <1>1, TerminateEffect DEF Up, TypeOK
<1>2. CASE Kill(S)
  BY <1>2, KillEffect DEF Up, TypeOK
<1> QED
  BY <1>1, <1>2

(* Each step of a run and of its container.                                *)
LEMMA OthersAttend ==
  ASSUME TypeOK, Attended, NEW i \in AllRuns,
         RunStep(i) \/ ContainerStep(i)
  PROVE  Attended'
<1> USE DEF TypeOK, Up, Goes, Becomes
<1>1. CASE Copy(i) \/ NotStarted(i)
  BY <1>1 DEF Copy, NotStarted, Attended, NeedsStop
<1>2. CASE Expire(i) \/ StopContainer(i)
  <2>1. PICK S \in SUBSET AllRuns : Terminate(S)
    BY <1>2 DEF Expire, StopContainer
  <2>2. /\ Up' \subseteq Up
        /\ \A j \in AllRuns : container[j] = "none" <=> container'[j] = "none"
    BY <2>1, SignalKeeps
  <2>3. /\ UNCHANGED code
        /\ \/ run[i] = "client" /\ run' = [run EXCEPT ![i] = "expired"]
           \/ run[i] = "after" /\ run' = [run EXCEPT ![i] = "halting"]
    BY <1>2 DEF Expire, StopContainer
  <2> QED
    BY <2>2, <2>3 DEF Attended, NeedsStop
<1>3. CASE HaltKill(i) \/ OutOfMemory(i)
  <2>1. Kill({i}) /\ UNCHANGED <<run, code>>
    BY <1>3 DEF HaltKill, OutOfMemory, jobvars
  <2>2. /\ Up' \subseteq Up
        /\ \A j \in AllRuns : container[j] = "none" <=> container'[j] = "none"
    BY <2>1, SignalKeeps
  <2> QED
    BY <2>1, <2>2 DEF Attended, NeedsStop
<1>4. CASE KillClient(i) \/ ClientReturns(i)
  BY <1>4 DEF KillClient, ClientReturns, Attended, NeedsStop
<1>5. CASE RecordCode(i)
  BY <1>5 DEF RecordCode, Attended, NeedsStop
<1>6. CASE Boot(i) \/ RunnerEnds(i) \/ Publish(i)
  BY <1>6 DEF Boot, RunnerEnds, Publish, Attended, NeedsStop, jobvars
<1> QED
  BY <1>1, <1>2, <1>3, <1>4, <1>5, <1>6 DEF RunStep, ContainerStep

(* What is left of the runs is invariant, given the types.                 *)
THEOREM RunsInvariant == Spec => []RunsInv
<1>1. Init => RunsInv
  BY DEF Init, RunsInv, LaunchedInOrder, Attended, ExitedIdle, Up,
         Running
<1>2. TypeOK /\ RunsInv /\ [Next]_vars => RunsInv'
  <2> SUFFICES ASSUME TypeOK, RunsInv, [Next]_vars PROVE RunsInv'
    OBVIOUS
  <2> USE DEF RunsInv
  <2>1. ASSUME UNCHANGED <<launched, run, code, container>>,
               shell' = "exited" => shell = "exited" \/ Running = {}
        PROVE  RunsInv'
    BY <2>1 DEF LaunchedInOrder, Attended, ExitedIdle, Up, Running,
                NeedsStop
  <2>2. CASE Launch
    <3>1. shell' # "exited" /\ UNCHANGED <<code, container>>
      BY <2>2 DEF Launch
    <3>2. CASE IsLast(launched)
      BY <2>1, <2>2, <3>1, <3>2 DEF Launch
    <3>3. CASE ~IsLast(launched)
      <4>1. launched' = launched + 1 /\ run' = [run EXCEPT ![launched'] = "copying"]
        BY <2>2, <3>3 DEF Launch
      <4>2. launched' \in AllRuns /\ launched \in Nat
        BY <3>3, <4>1, BatchAssumption DEF IsLast, TypeOK, AllRuns
      <4>3. run[launched'] = "none" /\ container[launched'] = "none"
        BY <4>1, <4>2 DEF LaunchedInOrder, Attended
      <4>4. LaunchedInOrder'
        BY <4>1, <4>2 DEF LaunchedInOrder, AllRuns, TypeOK
      <4>5. Attended'
        BY <3>1, <4>1, <4>2, <4>3 DEF Attended, Up, NeedsStop, TypeOK
      <4> QED
        BY <3>1, <4>4, <4>5 DEF ExitedIdle
    <3> QED
      BY <3>2, <3>3
  <2>3. CASE Check \/ Wait \/ Drain \/ Stop \/ StopReturn
    BY <2>1, <2>3 DEF Check, Wait, Drain, Stop, StopReturn, jobvars
  <2>4. CASE StopScan
    <3>1. CASE Running = {}
      BY <2>1, <2>4, <3>1 DEF StopScan, jobvars
    <3>2. CASE Running # {}
      <4>1. Terminate(Up) /\ UNCHANGED jobvars /\ shell' = "stopwait"
        BY <2>4, <3>2 DEF StopScan
      <4>2. /\ Up' \subseteq Up
            /\ \A j \in AllRuns : container[j] = "none" <=> container'[j] = "none"
        BY <4>1, SignalKeeps DEF Up
      <4> QED
        BY <2>4, <4>1, <4>2
           DEF LaunchedInOrder, Attended, ExitedIdle, NeedsStop, jobvars, StopScan
    <3> QED
      BY <3>1, <3>2
  <2>5. CASE StopKill
    <3>1. Kill(stopping) /\ UNCHANGED jobvars /\ shell' = "stopwait"
      BY <2>5 DEF StopKill, pool
    <3>2. /\ Up' \subseteq Up
          /\ \A j \in AllRuns : container[j] = "none" <=> container'[j] = "none"
      BY <3>1, SignalKeeps DEF TypeOK
    <3> QED
      BY <2>5, <3>1, <3>2
         DEF LaunchedInOrder, Attended, ExitedIdle, NeedsStop, jobvars, StopKill, pool
  <2>6. ASSUME NEW i \in AllRuns, RunStep(i) \/ ContainerStep(i)
        PROVE  RunsInv'
    <3>1. /\ UNCHANGED <<launched, shell>> /\ Running' \subseteq Running
          /\ Attended'
      BY <2>6, OthersStep, OthersAttend DEF pool
    <3>2. \A j \in AllRuns : run[j] = "none" => run'[j] = "none"
      BY <2>6 DEF TypeOK, RunStep, ContainerStep, Copy, NotStarted, Expire,
                  KillClient, ClientReturns, StopContainer, HaltKill, RecordCode,
                  Boot, RunnerEnds, Publish, OutOfMemory, Goes, jobvars
    <3> QED
      BY <3>1, <3>2 DEF LaunchedInOrder, ExitedIdle
  <2>7. CASE UNCHANGED vars
    BY <2>1, <2>7 DEF vars, pool, jobvars
  <2> QED
    BY <2>2, <2>3, <2>4, <2>5, <2>6, <2>7 DEF Next, Shell, Exited
<1> QED
  BY <1>1, <1>2, JobsInvariant, PTL DEF Spec, JobsInv

-----------------------------------------------------------------------------
(* What is recorded is final.                                              *)
THEOREM RecordedCorrect == Spec => []RecordedIsFinal
<1>1. RunsInv => RecordedIsFinal
  BY DEF RunsInv, Attended, RecordedIsFinal
<1> QED
  BY <1>1, RunsInvariant, PTL

(* A batch that has exited leaves no run and no container.                 *)
THEOREM ExitCorrect == Spec => []ExitLeavesNothing
<1>1. RunsInv => ExitLeavesNothing
  BY DEF RunsInv, ExitedIdle, Attended, ExitLeavesNothing, Running, Up
<1> QED
  BY <1>1, RunsInvariant, PTL

=============================================================================

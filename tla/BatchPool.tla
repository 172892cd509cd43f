------------------------------ MODULE BatchPool ------------------------------
(***************************************************************************)
(* eval/experiments/run.sh and docker/run-isolated.sh: a batch runs the    *)
(* harness several times, each run in a container of its own, at most      *)
(* --jobs of them at a time, each for at most --timeout; kill <pid> stops  *)
(* the batch. Three kinds of process: the batch's shell, one background    *)
(* shell per run (run_one) with its container client, and the containers,  *)
(* whose shell publishes what the run produced when it exits. What is      *)
(* published is left out: every step of the publication may fail unnoticed.*)
(***************************************************************************)
EXTENDS Integers, FiniteSets

CONSTANTS
  Runs,  \* -n: the batch makes the runs 1 .. Runs
  Jobs   \* -j

ASSUME BatchAssumption == Runs \in Nat \ {0} /\ Jobs \in Nat \ {0}

VARIABLES
  timeout,    \* whether --timeout is given
  shell,      \* where the batch's shell is
  launched,   \* how many runs it has started
  unwaited,   \* runs whose end wait -n has not returned yet
  counted,    \* the runs that "jobs -rp" listed last
  stopping,   \* the containers that "stop -t" is waiting for
  status,     \* the exit status of the batch, or -1
  run,        \* where each run's shell is
  code,       \* the exit code of each run's client; 0 is any that is not told apart
  container,  \* what each container is doing
  early       \* history: waits that returned a run not counted as running

pool == <<shell, launched, unwaited, counted, stopping, status, early>>
jobvars == <<run, code>>
vars == <<timeout, pool, jobvars, container>>

AllRuns == 1 .. Runs

(* copying:  copy_subject                                                  *)
(* client:   the container's client, within its time limit                 *)
(* expired:  the same, told to stop by timeout                             *)
(* after:    the client has returned                                       *)
(* halting:  "stop -t 5", after a client that was killed                   *)
(* recorded: the exit code is written                                      *)
(* failed:   the shell ended before that                                   *)
RunPhases == {"none", "copying", "client", "expired", "after", "halting",
              "recorded", "failed"}

(* booting: on_term is not installed yet, and PID 1 ignores SIGTERM        *)
ContainerPhases == {"none", "booting", "working", "terminating", "publishing",
                    "ended", "killed", "removed"}

Up == {i \in AllRuns :
         container[i] \in {"booting", "working", "terminating", "publishing"}}

(* jobs -rp: the background shells that run.                               *)
Running == {i \in AllRuns : run[i] \notin {"none", "recorded", "failed"}}

TypeOK ==
  /\ timeout \in BOOLEAN
  /\ shell \in {"launch", "check", "wait", "drain", "drainwait", "stop",
                "stopwait", "exited"}
  /\ launched \in 0 .. Runs
  /\ unwaited \subseteq 1 .. launched
  /\ counted \subseteq AllRuns
  /\ stopping \subseteq AllRuns
  /\ status \in {-1, 0, 1, 143}
  /\ run \in [AllRuns -> RunPhases]
  /\ code \in [AllRuns -> {-1, 0, 124, 125, 137}]
  /\ container \in [AllRuns -> ContainerPhases]
  /\ early \in 0 .. Runs

Init ==
  /\ timeout \in BOOLEAN
  /\ shell = "launch"
  /\ launched = 0
  /\ unwaited = {}
  /\ counted = {}
  /\ stopping = {}
  /\ status = -1
  /\ run = [i \in AllRuns |-> "none"]
  /\ code = [i \in AllRuns |-> -1]
  /\ container = [i \in AllRuns |-> "none"]
  /\ early = 0

-----------------------------------------------------------------------------
(* The batch's shell.                                                      *)

IsLast(i) == i >= Runs

(* The loop over the runs.                                                 *)
Launch ==
  /\ shell = "launch"
  /\ IF ~IsLast(launched)
     THEN /\ launched' = launched + 1
          /\ unwaited' = unwaited \cup {launched'}
          /\ run' = [run EXCEPT ![launched'] = "copying"]
          /\ shell' = "check"
     ELSE /\ shell' = "drain"
          /\ UNCHANGED <<launched, unwaited, run>>
  /\ UNCHANGED <<timeout, counted, stopping, status, early, code, container>>

(* Mutant of IsFull: one more run at a time.                               *)
IsOverfull(jobs) == Cardinality(jobs) > Jobs

IsFull(jobs) == Cardinality(jobs) >= Jobs

Check ==
  /\ shell = "check"
  /\ IF IsFull(Running) THEN shell' = "wait" /\ counted' = Running
                       ELSE shell' = "launch" /\ counted' = {}
  /\ UNCHANGED <<timeout, launched, unwaited, stopping, status, early, jobvars, container>>

(* wait -n returns any run that has ended and was not waited for, also one *)
(* that had ended before the runs were counted.                            *)
Wait ==
  /\ shell \in {"wait", "drainwait"}
  /\ \E i \in unwaited \ Running :
       /\ unwaited' = unwaited \ {i}
       /\ early' = IF i \in counted THEN early ELSE early + 1
  /\ counted' = {}
  /\ shell' = IF shell = "wait" THEN "launch" ELSE "drain"
  /\ UNCHANGED <<timeout, launched, stopping, status, jobvars, container>>

(* The batch fails if a run did not get as far as its container.           *)
BatchStatus ==
  IF \E i \in AllRuns : run[i] # "recorded" \/ code[i] = 125 THEN 1 ELSE 0

Drain ==
  /\ shell = "drain"
  /\ counted' = Running
  /\ IF Running # {}
     THEN shell' = "drainwait" /\ UNCHANGED status
     ELSE shell' = "exited" /\ status' = BatchStatus
  /\ UNCHANGED <<timeout, launched, unwaited, stopping, early, jobvars, container>>

-----------------------------------------------------------------------------
(* SIGTERM in a container, to its PID 1: on_term tells the runner to stop, *)
(* waits for it and exits. While publish runs, on_term's exit ends it,     *)
(* after the command it is at, which may have been its last.               *)

Terminated(phase) ==
  CASE phase = "working" -> "terminating"
    [] phase = "publishing" -> "ended"
    [] OTHER -> phase

(* SIGTERM to the containers of the runs in S.                             *)
Terminate(S) ==
  container' = [i \in AllRuns |-> IF i \in S THEN Terminated(container[i])
                                 ELSE container[i]]

(* Mutant of Kill: SIGTERM once more.                                      *)
KillGently(S) == Terminate(S)

Kill(S) ==
  container' = [i \in AllRuns |-> IF i \in S \cap Up THEN "killed" ELSE container[i]]

-----------------------------------------------------------------------------
(* stop_batch: kill <pid>.                                                 *)
Stop ==
  /\ shell \notin {"stop", "stopwait", "exited"}
  /\ shell' = "stop"
  /\ counted' = {}
  /\ UNCHANGED <<timeout, launched, unwaited, stopping, status, early, jobvars, container>>

(* Mutant of StopScan: until no container is left.                         *)
StopScanContainers ==
  /\ shell = "stop"
  /\ IF Up # {}
     THEN /\ shell' = "stopwait"
          /\ stopping' = Up
          /\ Terminate(Up)
          /\ UNCHANGED status
     ELSE /\ shell' = "exited"
          /\ status' = 143
          /\ UNCHANGED <<stopping, container>>
  /\ UNCHANGED <<timeout, launched, unwaited, counted, early, jobvars>>

StopScan ==
  /\ shell = "stop"
  /\ IF Running # {}
     THEN /\ shell' = "stopwait"
          /\ stopping' = Up
          /\ Terminate(Up)
          /\ UNCHANGED status
     ELSE /\ shell' = "exited"
          /\ status' = 143
          /\ UNCHANGED <<stopping, container>>
  /\ UNCHANGED <<timeout, launched, unwaited, counted, early, jobvars>>

(* "stop -t": after the grace period what has not stopped is killed.       *)
StopKill ==
  /\ shell = "stopwait"
  /\ stopping \cap Up # {}
  /\ Kill(stopping)
  /\ UNCHANGED <<timeout, pool, jobvars>>

StopReturn ==
  /\ shell = "stopwait"
  /\ stopping \cap Up = {}
  /\ shell' = "stop"
  /\ stopping' = {}
  /\ UNCHANGED <<timeout, launched, unwaited, counted, status, early, jobvars, container>>

-----------------------------------------------------------------------------
(* run_one: the shell of one run, and its client.                          *)

Goes(i, phase) == run' = [run EXCEPT ![i] = phase]

(* set -e: a subject that cannot be copied ends the shell.                 *)
Copy(i) ==
  /\ run[i] = "copying"
  /\ \/ Goes(i, "failed") /\ UNCHANGED container
     \/ Goes(i, "client") /\ container' = [container EXCEPT ![i] = "booting"]
  /\ UNCHANGED <<timeout, pool, code>>

(* The engine cannot start the container.                                  *)
NotStarted(i) ==
  /\ run[i] = "copying"
  /\ Goes(i, "after")
  /\ code' = [code EXCEPT ![i] = 125]
  /\ UNCHANGED <<timeout, pool, container>>

Expire(i) ==
  /\ timeout
  /\ run[i] = "client"
  /\ i \in Up
  /\ Goes(i, "expired")
  /\ Terminate({i})
  /\ UNCHANGED <<timeout, pool, code>>

(* --kill-after: the client is killed, the container is not.               *)
KillClient(i) ==
  /\ run[i] = "expired"
  /\ i \in Up
  /\ Goes(i, "after")
  /\ code' = [code EXCEPT ![i] = 137]
  /\ UNCHANGED <<timeout, pool, container>>

ClientReturns(i) ==
  /\ run[i] \in {"client", "expired"}
  /\ i \notin Up
  /\ Goes(i, "after")
  /\ code' = [code EXCEPT ![i] = CASE run[i] = "expired" -> 124
                                   [] container[i] = "killed" -> 137
                                   [] OTHER -> 0]
  /\ UNCHANGED <<timeout, pool, container>>

(* Mutant of NeedsStop: a client that was killed is not followed up.       *)
NeedsNoStop(i) == code[i] = 124

NeedsStop(i) == code[i] \in {124, 137}

StopContainer(i) ==
  /\ run[i] = "after"
  /\ NeedsStop(i)
  /\ Goes(i, "halting")
  /\ Terminate({i} \cap Up)
  /\ UNCHANGED <<timeout, pool, code>>

(* "stop -t 5" gives up waiting.                                           *)
HaltKill(i) ==
  /\ run[i] = "halting"
  /\ i \in Up
  /\ Kill({i})
  /\ UNCHANGED <<timeout, pool, jobvars>>

(* The exit code is written. The container, of which nothing is left, is  *)
(* forgotten.                                                              *)
RecordCode(i) ==
  /\ \/ run[i] = "after" /\ ~NeedsStop(i)
     \/ run[i] = "halting" /\ i \notin Up
  /\ Goes(i, "recorded")
  /\ container' = [container EXCEPT ![i] = IF @ \in {"ended", "killed"}
                                           THEN "removed" ELSE @]
  /\ UNCHANGED <<timeout, pool, code>>

RunStep(i) ==
  \/ Copy(i) \/ NotStarted(i) \/ Expire(i) \/ KillClient(i) \/ ClientReturns(i)
  \/ StopContainer(i) \/ HaltKill(i) \/ RecordCode(i)

-----------------------------------------------------------------------------
(* run-isolated.sh: the shell of one container.                            *)

Becomes(i, phase) == container' = [container EXCEPT ![i] = phase]

(* What the shell needs may be missing before it traps its exit.          *)
Boot(i) ==
  /\ container[i] = "booting"
  /\ Becomes(i, "working") \/ Becomes(i, "ended")
  /\ UNCHANGED <<timeout, pool, jobvars>>

(* The runner ends, by itself or told to, or a step before it fails.       *)
RunnerEnds(i) ==
  /\ container[i] \in {"working", "terminating"}
  /\ Becomes(i, "publishing")
  /\ UNCHANGED <<timeout, pool, jobvars>>

Publish(i) ==
  /\ container[i] = "publishing"
  /\ Becomes(i, "ended")
  /\ UNCHANGED <<timeout, pool, jobvars>>

(* The container runs out of memory.                                       *)
OutOfMemory(i) ==
  /\ container[i] = "working"
  /\ Kill({i})
  /\ UNCHANGED <<timeout, pool, jobvars>>

ContainerStep(i) == Boot(i) \/ RunnerEnds(i) \/ Publish(i) \/ OutOfMemory(i)
-----------------------------------------------------------------------------
Shell == Launch \/ Check \/ Wait \/ Drain \/ StopScan \/ StopKill \/ StopReturn

Exited == shell = "exited" /\ UNCHANGED vars

Next ==
  \/ Shell \/ Stop \/ Exited
  \/ \E i \in AllRuns : RunStep(i) \/ ContainerStep(i)

(* Every command of the shells ends, except that a client runs as long as  *)
(* its container, and a container for as long as nothing stops it.         *)
Spec == Init /\ [][Next]_vars

FairSpec ==
  /\ Spec
  /\ WF_vars(Shell)
  /\ \A i \in AllRuns : WF_vars(RunStep(i))

-----------------------------------------------------------------------------
(* Properties.                                                             *)

(* At most -j runs at a time, and one more for each time wait -n returned  *)
(* a run that had ended before the running ones were counted: that is the  *)
(* only way in which the pool lets more runs in (run.sh: "is how many of   *)
(* them run concurrently").                                                *)
AtMostJobs == Cardinality(Running) <= Jobs + early

(* When the batch has exited, stopped or not, no container of it is left,  *)
(* one whose run was still copying its subject when the batch was stopped  *)
(* included, and every run that was started has ended (stop_batch: "keep   *)
(* stopping containers until every run has ended").                        *)
ExitLeavesNothing == shell = "exited" => Running = {} /\ Up = {}

(* What is recorded is final: when a run's exit code is written, nothing   *)
(* can write to its directory any more (run_one).                          *)
RecordedIsFinal == \A i \in AllRuns : run[i] = "recorded" => i \notin Up

(* A batch with a time limit ends, and so does one that is stopped,        *)
(* whatever its containers do.                                             *)
BatchEnds == (timeout \/ shell \in {"stop", "stopwait"}) ~> (shell = "exited")

=============================================================================

--------------------------- MODULE MCRunLogResume ---------------------------
(* RunLog with one or with two sessions at a time: two instances in one.   *)
EXTENDS MCRunLog

VARIABLE jobs  \* the argument --jobs of the run and of its resumes

MCInit == LogInit /\ jobs \in 1 .. Jobs

(* Bounds on the runs with two sessions: one crash, no merge reruns, and   *)
(* no edits to other functions. The runs with one have all of them.        *)
MCBounds ==
  jobs = 2 =>
    /\ restarts' <= 1
    /\ \A f \in Functions :
         reruns'[f] = 0 /\ report'[f].carried \cup report'[f].dropped = {}

MCNext ==
  /\ LogNext
  /\ Cardinality(inFlight') <= jobs
  /\ MCBounds
  /\ UNCHANGED jobs

MCSpec == MCInit /\ [][MCNext]_<<vars, logVars, jobs>>
=============================================================================

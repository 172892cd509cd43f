---------------------------- MODULE VerifiedFile ----------------------------
(***************************************************************************)
(* What avocado-verify promises of a file that several sessions specify at *)
(* once, without copies, locks, merges or re-verifications: functions are  *)
(* processed callees first, the file changes in atomic commits, and what   *)
(* is verified stays verified, by a proof that holds for the file as it is.*)
(***************************************************************************)
LOCAL INSTANCE Naturals

CONSTANTS
  Functions,      \* the functions of the file
  Rank,           \* their order, callees first
  Callees,        \* whom each calls
  Contracts,      \* the contracts one may have
  InitialFiles,   \* the files a run may start with
  Outcomes(_, _)  \* what CBMC may answer of a function of a file

VARIABLES
  file,       \* the contract of each function
  processed,  \* the functions that are done
  verified    \* those of them that are verified

vars == <<file, processed, verified>>

Passes(f, version) == "pass" \in Outcomes(f, version)

Init ==
  /\ file \in InitialFiles
  /\ processed = {}
  /\ verified = {}

IsNext(f) ==
  /\ f \notin processed
  /\ \A g \in Callees[f] : Rank[g] < Rank[f] => g \in processed

(* A session of f is merged: contracts change, of f and of others, but no  *)
(* verified function's proof is lost.                                      *)
Commit(f) ==
  /\ IsNext(f)
  /\ file' \in [Functions -> Contracts]
  /\ verified \subseteq verified'
  /\ verified' \subseteq processed
  /\ \A g \in verified' : Passes(g, file')
  /\ UNCHANGED processed

(* The result of f is in.                                                  *)
Process(f) ==
  /\ IsNext(f)
  /\ processed' = processed \cup {f}
  /\ \/ UNCHANGED verified
     \/ Passes(f, file) /\ verified' = verified \cup {f}
  /\ UNCHANGED file

Next == \E f \in Functions : Commit(f) \/ Process(f)

Spec == Init /\ [][Next]_vars
=============================================================================

---------------------------- MODULE CbmcVerdict ----------------------------
(***************************************************************************)
(* What the rest of the program may rely on when it verifies a function:   *)
(* one answer, one of three, that the file allows. verify_function in      *)
(* run_cbmc_and_mutation_testing.py promises this; CbmcPipeline shows how  *)
(* the CBMC commands, their retries and the vacuity check keep it.         *)
(*                                                                         *)
(* The tools may always run out of time, so a failure is always allowed,   *)
(* and so is a pass whose vacuity nobody could decide.                     *)
(***************************************************************************)
CONSTANTS
  Files,         \* the contents of the file, as far as a verdict depends on it
  CanPass(_),    \* the function has a contract, and CBMC can accept the file
  CanBeVacuous(_)  \* CBMC can accept it although its end is never reached

VARIABLES
  file,     \* the file the function is verified in
  verdict   \* "none" until the answer is there

Allowed(f) ==
  {"fail"}
    \cup (IF CanPass(f) THEN {"pass"} ELSE {})
    \cup (IF CanBeVacuous(f) THEN {"vacuous"} ELSE {})

Init == file \in Files /\ verdict = "none"

Answer ==
  /\ verdict = "none"
  /\ verdict' \in Allowed(file)
  /\ UNCHANGED file

Next == Answer

Spec == Init /\ [][Next]_<<file, verdict>>
=============================================================================

---------------------------- MODULE MCMergeAcyclic ----------------------------
(* MergeHarness on an acyclic call graph: two instances in one.            *)
EXTENDS MCMergeHarness

VARIABLE conflicts  \* whether two sessions can edit leaf in different ways

MCInit == Init /\ conflicts \in BOOLEAN

(* Bounds: without conflicts every contract is weak or strong; with them   *)
(* that of leaf may be odd, too, and the others stay weak.                 *)
MCBounds ==
  \A f, g \in Functions : phase'[f] = "verifying" =>
    scratch'[f][g] \in IF ~conflicts THEN {"weak", "strong"}
                       ELSE IF g = "leaf" THEN Contracts ELSE {"weak"}

MCNext == Next /\ MCBounds /\ UNCHANGED conflicts

MCSpec == MCInit /\ [][MCNext]_<<vars, conflicts>>
=============================================================================

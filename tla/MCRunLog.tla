------------------------------ MODULE MCRunLog ------------------------------
(* Small instances of RunLog: call graphs, and a CBMC.                  *)
EXTENDS RunLog, TLC

(* A contract is "weak" or "strong". A weak function verifies against weak *)
(* callees, and its proof is vacuous when a callee asks for more than it   *)
(* gives; a strong one needs strong callees, and may run out of time.      *)
MCOutcomes(f, file) ==
  LET others == {file[g] : g \in Callees[f] \ {f}}
  IN  CASE file[f] = "weak" /\ others \subseteq {"weak"} -> {"pass"}
        [] file[f] = "weak" /\ "strong" \in others -> {"vacuous"}
        [] file[f] = "strong" /\ others \subseteq {"strong"} -> {"pass", "fail"}
        [] file[f] = "strong" /\ "weak" \in others -> {"fail"}

MCInitialFiles == {[f \in Functions |-> "weak"]}

(* mid calls leaf; other calls nothing, and can edit either of them.       *)
MCRank == "leaf" :> 1 @@ "mid" :> 2 @@ "other" :> 3
MCCallees == "leaf" :> {} @@ "mid" :> {"leaf"} @@ "other" :> {}
=============================================================================

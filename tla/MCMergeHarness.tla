--------------------------- MODULE MCMergeHarness ---------------------------
(* Small instances of MergeHarness: call graphs, and a CBMC.               *)
EXTENDS MergeHarness, TopologicalOrder, TLC, SequencesExt

(* A contract is "weak" or "strong". A weak function verifies against weak *)
(* callees, and its proof is vacuous when a callee asks for more than it   *)
(* gives; a strong one needs strong callees, and may run out of time.      *)
MCOutcomes(f, file) ==
  LET others == {file[g] : g \in Callees[f] \ {f}}
  IN  CASE file[f] = "weak" /\ others \subseteq {"weak"} -> {"pass"}
        [] file[f] = "weak" /\ "strong" \in others -> {"vacuous"}
        [] file[f] = "strong" /\ others \subseteq {"strong"} -> {"pass", "fail"}
        [] file[f] = "strong" /\ "weak" \in others -> {"fail"}

(* The same without time-outs, with all callees asking for the same.       *)
MCCyclicOutcomes(f, file) ==
  IF \A g \in Callees[f] : file[g] = file[f] THEN {"pass"}
  ELSE IF file[f] = "weak" THEN {"vacuous"} ELSE {"fail"}

(* A third contract, "odd", that takes longer to verify.                   *)
MCOutcomesWithOdd(f, file) ==
  IF file[f] = "odd" THEN {"pass", "fail"}
  ELSE IF \E g \in Callees[f] : file[g] = "odd" THEN {"pass"}
  ELSE MCOutcomes(f, file)

MCInitialFiles == {[f \in Functions |-> "weak"]}

(* mid calls leaf; other calls nothing, and can edit either of them.       *)
MCCallGraph == "mid" :> <<"leaf">> @@ "leaf" :> <<>> @@ "other" :> <<>>
MCCallees == "leaf" :> {} @@ "mid" :> {"leaf"} @@ "other" :> {}
MCRank == "leaf" :> 1 @@ "mid" :> 2 @@ "other" :> 3

(* Mutual recursion: a calls b and c, and both call a. The search starts   *)
(* from a, so b and c come before their callee a; they run together.       *)
MCCyclicCallGraph == "a" :> <<"b", "c">> @@ "b" :> <<"a">> @@ "c" :> <<"a">>
MCCyclicCallees == "a" :> {"b", "c"} @@ "b" :> {"a"} @@ "c" :> {"a"}
MCCyclicRank == "b" :> 1 @@ "c" :> 2 @@ "a" :> 3

(* The ranks are those the code computes from the call graphs ...          *)
ASSUME RanksFromGraphs ==
  /\ MCRank = RankIn(get_topological_ordering_of_functions(
                       MCCallGraph, <<"mid", "leaf", "other">>))
  /\ MCCyclicRank = RankIn(get_topological_ordering_of_functions(
                             MCCyclicCallGraph, <<"a", "b", "c">>))
  /\ \A f \in DOMAIN MCCallGraph : ToSet(MCCallGraph[f]) = MCCallees[f]
  /\ \A f \in DOMAIN MCCyclicCallGraph :
       ToSet(MCCyclicCallGraph[f]) = MCCyclicCallees[f]

(* ... and they are right for every call graph of three functions, cyclic  *)
(* or not, whatever the order of the callees.                              *)
ASSUME OrderAlwaysRight ==
  \A graph \in [{"a", "b", "c"} ->
                 UNION {SetToSeqs(called) : called \in SUBSET {"a", "b", "c"}}] :
    OrdersCalleesFirst(graph, <<"a", "b", "c">>)
=============================================================================

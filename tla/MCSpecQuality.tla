---------------------------- MODULE MCSpecQuality ----------------------------
(* A small instance of SpecQuality: leaf is called by mid and top.         *)
EXTENDS SpecQuality, TLC

MCCallees == "leaf" :> {} @@ "mid" :> {"leaf"} @@ "top" :> {"leaf"}

(* leaf has two mutants, and two operators that have none: one that has no *)
(* replacement, and one in an annotation.                                  *)
MCBody ==
  LET op(o) == [op |-> o, annotation |-> FALSE]
  IN  "leaf" :> <<op("&&"), op("*"), [op |-> "<", annotation |-> TRUE], op("+")>>
        @@ "mid" :> <<>>
        @@ "top" :> <<op("=="), op("%")>>

MCClauses == "leaf" :> 2 @@ "mid" :> 1 @@ "top" :> 1

(* The evaluation scores leaf and mid; an agent's tool scores top.         *)
MCJob ==
  "eval" :> [functions |-> <<"leaf", "mid">>, agent |-> FALSE, mutation |-> TRUE,
             redundancy |-> TRUE, include_dirs |-> FALSE]
    @@ "tool" :> [functions |-> <<"top">>, agent |-> TRUE, mutation |-> TRUE,
                  redundancy |-> FALSE, include_dirs |-> TRUE]

(* The mutant of "+" in leaf is never caught, and that of "&&" is, or they *)
(* run out of time; a mutant of top is refuted or cbmc fails, and the      *)
(* other is not even compiled. leaf needs its first clause. On the source  *)
(* leaf and top verify for certain, and mid may run out of time; without   *)
(* the first clause of leaf both callers may verify, and without the       *)
(* second top does not.                                                    *)
MCAnswers(f, text, include_dirs) ==
  CASE text.change = "none" ->
         IF f = "mid" THEN {"success", "timeout"} ELSE {"success"}
    [] text.change = "operator" /\ text.function = "leaf" ->
         IF text.to = "-" THEN {"success", "timeout"} ELSE {"failure", "timeout"}
    [] text.change = "operator" /\ text.function # "leaf" ->
         IF text.to = "*" THEN {"goto_cc", "goto_instrument"}
         ELSE {"failure", "unexpected"}
    [] text.change = "clause_drop" ->
         CASE f = "leaf" -> IF text.at = 1 THEN {"failure"} ELSE {"success", "timeout"}
           [] f = "mid" -> IF text.at = 1 THEN {"success", "unexpected"}
                           ELSE {"success", "timeout"}
           [] f = "top" -> IF text.at = 1 THEN {"success", "timeout"}
                           ELSE {"failure", "timeout"}

(* No call graph, that of the source, or one from before top was added.    *)
MCInitialGraphs ==
  {<<>>, Source :> CurrentGraph,
   Source :> [complete |-> TRUE, calls |-> [f \in {"leaf", "mid"} |-> MCCallees[f]]]}
=============================================================================

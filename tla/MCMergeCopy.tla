---------------------------- MODULE MCMergeCopy ----------------------------
(* A small instance of MergeCopy: two functions, f, and g under an #if that*)
(* holds, with a comment between them, and an agent's usual helpers.       *)
EXTENDS MergeCopy, TLC

Item(kind, directive, name, prefixed, prototype, extends) ==
  [kind |-> kind, directive |-> directive, name |-> name,
   prefixed |-> prefixed, prototype |-> prototype, assumes |-> FALSE,
   inner |-> {}, extends |-> extends]

MCCode ==
  "f" :> Item("function", None, "f", FALSE, FALSE, {}) @@
  "g" :> Item("function", None, "g", FALSE, FALSE, {}) @@
  (* g with a loop contract in its body.                                   *)
  "g_loop" :> Item("function", None, "g", FALSE, FALSE, {"g"}) @@
  "ifA" :> Item("directive", "if", None, FALSE, FALSE, {}) @@
  "ifB" :> Item("directive", "if", None, FALSE, FALSE, {}) @@
  "ifC" :> Item("directive", "if", None, FALSE, FALSE, {}) @@
  "else" :> Item("directive", "branch", None, FALSE, FALSE, {}) @@
  "endif" :> Item("directive", "endif", None, FALSE, FALSE, {}) @@
  "note" :> Item("comment", None, None, FALSE, FALSE, {}) @@
  (* The helper p, another helper of that name, and a prototype of it.     *)
  "p" :> Item("function", None, "p", TRUE, FALSE, {}) @@
  "p_other" :> Item("function", None, "p", TRUE, FALSE, {}) @@
  "p_proto" :> Item("declaration", None, "p", TRUE, TRUE, {}) @@
  (* A macro, and code without a reserved prefix.                          *)
  "q" :> Item("directive", "define", "q", TRUE, FALSE, {}) @@
  "undef" :> Item("directive", "undef", "q", TRUE, FALSE, {}) @@
  "stray" :> Item("declaration", None, "x", FALSE, FALSE, {})

MCNeeds ==
  [c \in DOMAIN MCCode \cup {"requires", "calls_p", "false"} |->
     CASE c = "calls_p" -> {"p"} [] OTHER -> {}]

Plain(code) == [code |-> code, contract |-> {}]

MCBase == <<Plain("f"), Plain("note"), Plain("ifA"), Plain("g"), Plain("endif")>>
MCContracts == {{"calls_p"}}

Block(opener) == <<Plain(opener), Plain("p"), Plain("endif")>>
MCInsertions ==
  "f" :> {<<Plain("p")>>, <<Plain("ifB")>>, <<Plain("endif")>>} @@
  "g" :> {<<Plain("p")>>, Block("ifC"), <<Plain("stray")>>}
MCDeletions == "f" :> {} @@ "g" :> {"ifA"}
MCMaxEdits == "f" :> 2 @@ "g" :> 1
MCMaxForks == "f" :> 1 @@ "g" :> 1

(* An #else in the file, and conditionals with the text of its #if.        *)
MCBranches == <<Plain("ifA"), Plain("f"), Plain("else"), Plain("g"), Plain("endif")>>
MCSameInsertions == "f" :> {<<Plain("q")>>, <<Plain("ifA")>>, <<Plain("endif")>>}
=============================================================================

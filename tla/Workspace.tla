------------------------------ MODULE Workspace ------------------------------
(***************************************************************************)
(* The directory of one annotated C file whose functions are scored, by    *)
(* one process or by several at once: what the file holds, the mutants     *)
(* that the scorers write beside it, the call graph cached beside each     *)
(* source, and what run_cbmc answers on what it finds on disk.             *)
(*                                                                         *)
(* A text is the original source or a mutant of it: one operator of one    *)
(* body replaced, or one clause of one contract dropped. Every scratch     *)
(* directory is private to a run, so the files in them are left out.       *)
(***************************************************************************)
EXTENDS Naturals, SequencesExt

CONSTANTS
  Function,         \* the functions of the file
  Body,             \* the binary operators in each body, in order
  Clauses,          \* the number of clauses of each contract
  Callees,          \* the in-file callees of each function
  Answers(_, _, _), \* what run_cbmc may answer, of a function, on a text,
                    \* with or without the include directories
  Processes,        \* the scoring processes
  Job,              \* what each is asked to do
  InitialGraphs     \* what may be cached beside the source already

(* An operator, and whether it is inside an in-body __CPROVER_ annotation. *)
Operators == {"<", "<=", ">", ">=", "==", "!=", "+", "-", "*", "/", "%",
              "&&", "||"}

(* avocado-run-cbmc (agent), or the evaluation with its options.           *)
Jobs == [functions : Seq(Function), agent : BOOLEAN, mutation : BOOLEAN,
         redundancy : BOOLEAN, include_dirs : BOOLEAN]

(* Answers of run_cbmc: verified, refuted (exit code 10), out of time,     *)
(* another exit code of cbmc, or a step before cbmc that fails.            *)
AllAnswers ==
  {"success", "failure", "timeout", "unexpected", "goto_cc", "goto_instrument"}

Original == [change |-> "none", function |-> "", at |-> 0, to |-> ""]

(* Functions of one file are scored by different processes, never one      *)
(* function by two: the names of their mutants would be the same.          *)
ASSUME WorkspaceAssumption ==
  /\ Body \in [Function -> Seq([op : Operators, annotation : BOOLEAN])]
  /\ Clauses \in [Function -> Nat]
  /\ Callees \in [Function -> SUBSET Function]
  /\ Job \in [Processes -> Jobs]
  /\ \A p \in Processes : Job[p].agent => Len(Job[p].functions) = 1
  /\ \A p, q \in Processes :
       ToSet(Job[p].functions) \cap ToSet(Job[q].functions) # {} => p = q

VARIABLES
  pc,        \* where each process is
  todo,      \* the functions it has not finished; the first is the target
  files,     \* the mutants on disk: the text at each path that exists
  graphs,    \* the call graphs cached beside the sources, by source
  building,  \* the processes writing a call graph to a temporary file
  cause      \* history: why a process was aborted

workspaceVars == <<pc, todo, files, graphs, building, cause>>

Target(p) == Head(todo[p])

-----------------------------------------------------------------------------
(* Mutants: get_mutants and get_clause_mutants.                            *)

Replacements ==
  [RELATIONAL |->
     [o \in {"<", "<=", ">", ">=", "==", "!="} |->
        CASE o = "==" -> <<"!=">>
          [] o = "!=" -> <<"==">>
          [] OTHER -> RemoveFirst(<<"<", "<=", ">", ">=", "==", "!=">>, o)],
   ARITHMETIC |->
     [o \in {"+", "-", "/", "%"} |->
        CASE o = "+" -> <<"-">> [] o = "-" -> <<"+">> [] OTHER -> <<"*">>],
   LOGICAL |->
     [o \in {"&&", "||"} |-> IF o = "&&" THEN <<"||">> ELSE <<"&&">>]]

(* The mutants of one class: a text for each replacement of an operator    *)
(* that belongs to the program and not to an annotation.                   *)
MutantsOf(f, table) ==
  FlattenSeq(
    [i \in DOMAIN Body[f] |->
       IF Body[f][i].annotation \/ Body[f][i].op \notin DOMAIN table THEN <<>>
       ELSE [k \in DOMAIN table[Body[f][i].op] |->
               [change |-> "operator", function |-> f, at |-> i,
                to |-> table[Body[f][i].op][k]]]])

Mutants ==
  [f \in Function |-> MutantsOf(f, Replacements.RELATIONAL)
                        \o MutantsOf(f, Replacements.ARITHMETIC)
                        \o MutantsOf(f, Replacements.LOGICAL)]

ClauseMutant(f, i) ==
  [change |-> "clause_drop", function |-> f, at |-> i, to |-> ""]

(* What the file beside the source can hold.                               *)
Texts ==
  {Original} \cup UNION {ToSet(Mutants[f]) : f \in Function}
    \cup UNION {{ClauseMutant(f, i) : i \in 1 .. Clauses[f]} : f \in Function}

(* What run_cbmc returns for the codes that the tools exit with.           *)
ASSUME AnswersAssumption ==
  \A f \in Function, text \in Texts, include_dirs \in BOOLEAN :
    Answers(f, text, include_dirs) \subseteq AllAnswers

(* Mutant of PathTo: the name does not say which function the mutant is of.*)
PathWithoutFunction(kind, f, i) == <<kind, "", i>>

(* The file beside the source to which a mutant is written.                *)
PathTo(kind, f, i) == <<kind, f, i>>

Source == <<"source", "", 0>>

PathsOf(p) ==
  IF todo[p] = <<>> THEN {}
  ELSE {PathTo("mutant", Target(p), i) : i \in DOMAIN Mutants[Target(p)]}
         \cup {PathTo("clause_drop", Target(p), i) : i \in 1 .. Clauses[Target(p)]}

With(path, text) ==
  [q \in DOMAIN files \cup {path} |-> IF q = path THEN text ELSE files[q]]

Without(paths) == [q \in DOMAIN files \ paths |-> files[q]]

(* run_cbmc of f on the file at path, which goto-cc has to find there.     *)
Answer(f, path, include_dirs) ==
  CASE path = Source -> Answers(f, Original, include_dirs)
    [] path \in DOMAIN files -> Answers(f, files[path], include_dirs)
    [] OTHER -> {"goto_cc"}

-----------------------------------------------------------------------------
(* construct_call_graph: the cached file if there is one; otherwise a      *)
(* temporary file is written and renamed into place.                       *)

CurrentGraph == [complete |-> TRUE, calls |-> Callees]

PartialGraph == [complete |-> FALSE, calls |-> Callees]

GraphAt(path) == graphs[path]

(* p has called construct_call_graph and can read its result.              *)
HasGraph(p, path) == path \in DOMAIN graphs /\ p \notin building

Cache(path, graph) ==
  [q \in DOMAIN graphs \cup {path} |-> IF q = path THEN graph ELSE graphs[q]]

(* Mutant of BuildGraph: the cache itself is opened for writing.           *)
BuildGraphInPlace(p, path) ==
  /\ path \notin DOMAIN graphs
  /\ p \notin building
  /\ building' = building \cup {p}
  /\ graphs' = Cache(path, PartialGraph)
  /\ UNCHANGED <<pc, todo, files, cause>>

BuildGraph(p, path) ==
  /\ path \notin DOMAIN graphs
  /\ p \notin building
  /\ building' = building \cup {p}
  /\ UNCHANGED <<pc, todo, files, graphs, cause>>

PublishGraph(p, path) ==
  /\ p \in building
  /\ building' = building \ {p}
  /\ graphs' = Cache(path, CurrentGraph)
  /\ UNCHANGED <<pc, todo, files, cause>>

(* Why a process that reads the graph for f cannot go on.                  *)
GraphFault(path, f) ==
  CASE ~GraphAt(path).complete -> "unreadable_graph"
    [] GraphAt(path).complete /\ f \notin DOMAIN GraphAt(path).calls -> "not_in_graph"
    [] OTHER -> "none"

(* get_in_file_callers_of.                                                 *)
InFileCallers(f, graph) ==
  {g \in DOMAIN graph.calls : g # f /\ f \in graph.calls[g]}

-----------------------------------------------------------------------------
(* An exception, or Ctrl-C, that nothing handles ends the process.         *)
AbortWith(p, why) ==
  /\ pc' = [pc EXCEPT ![p] = "aborted"]
  /\ cause' = [cause EXCEPT ![p] = why]
  /\ UNCHANGED todo

GoTo(p, where) ==
  /\ pc' = [pc EXCEPT ![p] = where]
  /\ UNCHANGED <<todo, cause>>
=============================================================================

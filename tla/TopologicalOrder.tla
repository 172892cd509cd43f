--------------------------- MODULE TopologicalOrder ---------------------------
(***************************************************************************)
(* get_topological_ordering_of_functions: the order in which the functions *)
(* of a file are specified, by depth-first search of its call graph. A     *)
(* call graph maps each function of the file to the sequence of its        *)
(* "internal" callees; keys is the order of its functions in the JSON.     *)
(***************************************************************************)
LOCAL INSTANCE Integers
LOCAL INSTANCE Sequences
LOCAL INSTANCE SequencesExt
LOCAL INSTANCE Relation

RECURSIVE visit(_, _, _)
visit(graph, search, f) ==
  IF f \in search.visited \/ f \notin DOMAIN graph THEN search
  ELSE LET after == FoldLeft(LAMBDA s, g : visit(graph, s, g),
                             [search EXCEPT !.visited = @ \cup {f}],
                             graph[f])
       IN  [after EXCEPT !.ordering = Append(@, f)]

get_topological_ordering_of_functions(graph, keys) ==
  FoldLeft(LAMBDA s, f : visit(graph, s, f),
           [visited |-> {}, ordering |-> <<>>], keys).ordering

(* The position of each function in the order.                             *)
RankIn(ordering) ==
  [f \in ToSet(ordering) |-> CHOOSE i \in DOMAIN ordering : ordering[i] = f]

-----------------------------------------------------------------------------
(* Every function comes once; and a callee comes before its caller unless  *)
(* the two call each other, directly or not ("Callees come before their    *)
(* callers ... In case of mutual recursion, functions in the SCC are       *)
(* printed in arbitary order").                                            *)
OrdersCalleesFirst(graph, keys) ==
  LET ordering == get_topological_ordering_of_functions(graph, keys)
      rank     == RankIn(ordering)
      calls    == [p \in (DOMAIN graph) \X (DOMAIN graph) |->
                     p[2] \in ToSet(graph[p[1]])]
      reaches  == TransitiveClosure(calls, DOMAIN graph)
  IN  /\ ToSet(ordering) = DOMAIN graph
      /\ IsInjective(ordering)
      /\ \A f, g \in DOMAIN graph :
           calls[f, g] /\ ~reaches[g, f] => rank[g] < rank[f]
=============================================================================

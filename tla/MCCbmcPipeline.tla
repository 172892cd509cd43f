--------------------------- MODULE MCCbmcPipeline ---------------------------
(* Small instances of CbmcPipeline: the function f and two callees.        *)
EXTENDS CbmcPipeline, TLC

(* What CBMC answers depends on the variant through one of its two parts:  *)
(* the library in the first set of files, the self call in the second.     *)
ByLibrary ==
  [listed : {TRUE}, recursive : {FALSE},
   compiles : {{}, {FALSE}, {TRUE, FALSE}},
   absent : {{}, {"g"}, {"g", "h"}, {"f"}},
   inlines_itself : {FALSE}, bodiless : BOOLEAN, contract : BOOLEAN,
   holds : {{v \in Variants : v.prevent_macro_expansion \in on} :
              on \in SUBSET BOOLEAN},
   reach : {[v \in Variants |-> by[v.prevent_macro_expansion]] :
              by \in [BOOLEAN -> Reach]}]

BySelfCall ==
  [listed : BOOLEAN, recursive : BOOLEAN, compiles : {{TRUE, FALSE}},
   absent : {{}, {"g"}},
   inlines_itself : BOOLEAN, bodiless : BOOLEAN, contract : {TRUE},
   holds : {{v \in Variants : v.replace_self_call \in on} :
              on \in SUBSET BOOLEAN},
   reach : {[v \in Variants |-> by[v.replace_self_call]] :
              by \in [BOOLEAN -> Reach]}]

MCFiles == ByLibrary \cup BySelfCall
=============================================================================

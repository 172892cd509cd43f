----------------------------- MODULE MergeCopy -----------------------------
(***************************************************************************)
(* The text of the canonical file as sessions fork it, edit their copies in*)
(* any way, and merge them back (_merge_and_verify): what the edit rules   *)
(* and the item-level merge of EditRules make of it over many merges.      *)
(*                                                                         *)
(* MergeHarness has the locks, the verdicts and the schedule, and takes a  *)
(* file to be one contract per function; here a file has its items.        *)
(***************************************************************************)
EXTENDS EditRules

CONSTANTS
  Base,          \* the file the run starts with
  Sessions,      \* the functions that have sessions
  Insertions,    \* Insertions[s]: the texts the agent of s may insert
  Deletions,     \* Deletions[s]: the codes of the entries it may delete
  Contracts,     \* the contracts an agent may write
  MaxEdits,      \* MaxEdits[s]: bound on the edits of one session of s
  MaxForks,      \* MaxForks[s]: bound on the sessions of s
  Needs,         \* Needs[c]: the names that the code or clause c uses
  Holds          \* the codes of the #if's whose condition holds

Entry == [code : DOMAIN Code, contract : SUBSET DOMAIN Needs]
File == Seq(Entry)

ASSUME CopyAssumption ==
  /\ Base \in File
  /\ Contracts \subseteq SUBSET DOMAIN Needs
  /\ \A s \in Sessions : Insertions[s] \subseteq File /\ MaxEdits[s] \in Nat

VARIABLES
  canonical,  \* the shared file
  fork_base,  \* the canonical file when each live session forked it
  snapshot,   \* each live session's copy; NoCopy when it is not live
  forks,      \* how many sessions each function has had
  report      \* the report of each function's last merge

vars == <<canonical, fork_base, snapshot, forks, report>>

NoCopy == <<>>
Live == {s \in Sessions : snapshot[s] # NoCopy}

Init ==
  /\ canonical = Base
  /\ fork_base = [s \in Sessions |-> NoCopy]
  /\ snapshot = [s \in Sessions |-> NoCopy]
  /\ forks = [s \in Sessions |-> 0]
  /\ report = [s \in Sessions |-> Refused(NoCopy, "no session")]

(* What one edit of the agent of s can make of its copy: a contract, an    *)
(* insertion anywhere, or a deletion.                                      *)
Edited(s, file) ==
  {[file EXCEPT ![p].contract = c] :
     p \in {q \in DOMAIN file : Kind(file[q]) = "function"}, c \in Contracts}
  \cup {SubSeq(file, 1, p) \o text \o SubSeq(file, p + 1, Len(file)) :
          p \in 0 .. Len(file), text \in Insertions[s]}
  \cup {RemoveAt(file, p) : p \in {q \in DOMAIN file : file[q].code \in Deletions[s]}}

Copies(s, file) ==
  LET after[n \in 0 .. MaxEdits[s]] ==
        IF n = 0 THEN {file}
        ELSE after[n-1] \cup UNION {Edited(s, copy) : copy \in after[n-1]}
  IN  after[MaxEdits[s]] \ {NoCopy}

(* A session forks the file, and its agent edits the copy as it likes. The *)
(* copy is private, so that it is edited in one step loses no behaviour.   *)
Session(s) ==
  /\ s \notin Live
  /\ forks[s] < MaxForks[s]
  /\ fork_base' = [fork_base EXCEPT ![s] = canonical]
  /\ \E copy \in Copies(s, canonical) : snapshot' = [snapshot EXCEPT ![s] = copy]
  /\ forks' = [forks EXCEPT ![s] = @ + 1]
  /\ UNCHANGED <<canonical, report>>

-----------------------------------------------------------------------------
(* The compiler.                                                           *)

(* The conditional blocks around each item, and at the end: the #if of     *)
(* each, and the branch.                                                   *)
Contexts(items) ==
  LET next(open, item) ==
        CASE Directive(item) = "if" -> Append(open, <<item.code, 1>>)
          [] Directive(item) = "branch" /\ open # <<>> ->
               [open EXCEPT ![Len(open)][2] = @ + 1]
          [] Directive(item) = "endif" /\ open # <<>> -> Front(open)
          [] OTHER -> open
  IN  FoldLeft(LAMBDA acc, item : Append(acc, next(Last(acc), item)), << <<>> >>, items)

(* The items that the preprocessor leaves.                                 *)
Compiled(items) ==
  LET contexts == Contexts(items)
  IN  {i \in DOMAIN items :
         /\ Directive(items[i]) \notin Conditionals
         /\ \A block \in Range(contexts[i]) : (block[1] \in Holds) <=> (block[2] = 1)}

Uses(item) == Needs[item.code] \cup UNION {Needs[c] : c \in item.contract}

(* Conditionals are closed, no name is defined twice, and each is declared *)
(* before it is used.                                                      *)
Compiles(file) ==
  LET items == Parse(file).items
      compiled == Compiled(items)
  IN  /\ Last(Contexts(items)) = <<>>
      /\ \A i \in DOMAIN items :
           Directive(items[i]) \in Continuations => OpenBlocks(items)[i] # <<>>
      /\ \A i, j \in compiled :
           i # j /\ Name(items[i]) = Name(items[j]) /\ Name(items[i]) # None =>
             Code[items[i].code].prototype \/ Code[items[j].code].prototype
      /\ \A i \in compiled : \A n \in Uses(items[i]) :
           \E j \in compiled : j <= i /\ Name(items[j]) = n

-----------------------------------------------------------------------------
(* _merge_and_verify, up to the commit.                                    *)

(* merge_copy of the copy of s, which may change no function in frozen.    *)
MergedCopy(s, frozen) ==
  MergeCopyOf(canonical, snapshot[s], fork_base[s], s, frozen)

Everyone == {Code[c].name : c \in DOMAIN Code}

(* A merge is committed if the merged file compiles.                       *)
Built(r) ==
  IF ~r.merged \/ Compiles(r.file) THEN r ELSE Refused(canonical, "does not compile")

(* The merge to commit, of the merge in full: CBMC, or the compiler, may   *)
(* have the carried edits reverted, by a merge that carries none.          *)
Committed(s, full) ==
  IF full.carried = {} THEN {Built(full)}
  ELSE {Built(MergedCopy(s, Everyone))} \cup {r \in {full} : Compiles(r.file)}

(* Mutant of Outcomes: the copy is merged without check_edits.             *)
OutcomesUnchecked(s) == Committed(s, MergedCopy(s, Live \ {s}))

Outcomes(s) ==
  IF CheckEdits(fork_base[s], snapshot[s], s) # {} THEN {Refused(canonical, "rules")}
  ELSE Committed(s, MergedCopy(s, Live \ {s}))

Merge(s) ==
  /\ s \in Live
  /\ \E r \in Outcomes(s) :
       /\ canonical' = r.file
       /\ report' = [report EXCEPT ![s] = [r EXCEPT !.file = NoCopy]]
  /\ snapshot' = [snapshot EXCEPT ![s] = NoCopy]
  /\ fork_base' = [fork_base EXCEPT ![s] = NoCopy]
  /\ UNCHANGED forks

Next ==
  \E s \in Sessions : Session(s) \/ Merge(s)

Spec == Init /\ [][Next]_vars

-----------------------------------------------------------------------------
(* Properties.                                                             *)

TypeOK ==
  /\ canonical \in File
  /\ fork_base \in [Sessions -> File]
  /\ snapshot \in [Sessions -> File]
  /\ forks \in [Sessions -> Nat]

BaseCodes == {Base[p].code : p \in DOMAIN Base}

IsOriginal(entry) ==
  entry.code \in BaseCodes /\ IsItem(entry) /\ Directive(entry) \notin Conditionals

(* The original items of a file.                                           *)
OriginalItems(file) ==
  FlattenSeq([p \in DOMAIN file |->
                IF IsOriginal(file[p]) THEN <<file[p].code>> ELSE <<>>])

(* The conditional blocks around each of them.                             *)
OriginalContexts(file) ==
  LET items == Parse(file).items
      contexts == Contexts(items)
  IN  FlattenSeq([i \in DOMAIN items |->
                    IF IsOriginal(items[i]) THEN <<contexts[i]>> ELSE <<>>])

(* Whatever sessions write and in whatever order they merge, the canonical *)
(* file has the original items, in their order, once each (module docstring*)
(* of edit_rules.py, rule 1) ...                                           *)
OriginalItemsKept == OriginalItems(canonical) = OriginalItems(Base)

(* ... compiled under the same conditions as before (rule 4, and the last  *)
(* check of merge_copy).                                                   *)
OriginalConditionsKept == OriginalContexts(canonical) = OriginalContexts(Base)

Ended(s) == snapshot[s] # NoCopy /\ snapshot'[s] = NoCopy

(* The rules hold of the whole run, not of one session: compared with the  *)
(* file the run started with, the canonical file breaks none of them       *)
(* (merge_copy: "Every version of the file is the same original code plus  *)
(* contracts on some items plus new, prefixed items").                     *)
RulesHoldOverall ==
  [][\A s \in Sessions : Ended(s) => CheckEdits(Base, canonical', s) = {}]_vars

(* A reading of a copy as the fork base with new items: the others are the *)
(* original items, each in the branch of the original conditionals it was  *)
(* in and in no other, and the new ones are conditionals or new names.     *)
Reading(items, original, new) ==
  LET kept == Ascending(DOMAIN items \ new)
      blocks == OpenBlocks(original)
      around(k) == [d \in DOMAIN blocks[k] |-> kept[blocks[k][d]]]
  IN  /\ \A k \in DOMAIN kept : items[kept[k]].code = original[k].code
      /\ \A i \in new :
           \/ Directive(items[i]) \in Conditionals
           \/ /\ Directive(items[i]) \in {None, "define"}
              /\ Code[items[i].code].prefixed
              /\ \A k \in DOMAIN original : Name(original[k]) # Name(items[i])
      /\ LET open == OpenBlocks(items)
         IN  \A k \in DOMAIN kept : open[kept[k]] = around(k)
      /\ LET contexts == Contexts(items)
             before == Contexts(original)
         IN  \A k \in DOMAIN kept : contexts[kept[k]] = before[k]

OnlyAdds(file, forkBase) ==
  LET items == Parse(file).items
      original == Parse(forkBase).items
  IN  \E new \in kSubset(Len(items) - Len(original), DOMAIN items) :
        Reading(items, original, new)

(* check_edits refuses the copies that break the rules, and no others: one *)
(* that compiles, and has no clause that rules 5 and 8 forbid, is accepted *)
(* iff it is the fork base with contracts, prefixed items and conditional  *)
(* blocks of those added (module docstring of edit_rules.py, rules 1 to 4).*)
RulesDecide ==
  [][\A s \in Sessions :
       Ended(s) /\ Compiles(snapshot[s]) =>
         (report'[s].reason = "rules" <=> ~OnlyAdds(snapshot[s], fork_base[s]))]_vars

(* A copy that compiles and keeps the rules is refused for a name that     *)
(* another session took, and for nothing else: the merge never breaks the  *)
(* build, the canonical file is always one that a copy can be compared     *)
(* with, and the last check never fires (merge_copy).                      *)
GoodCopiesMerge ==
  [][\A s \in Sessions :
       Ended(s) /\ Compiles(snapshot[s]) =>
         report'[s].reason \in {None, "rules", "clash"}]_vars

HelperCodes(file) == {file[p].code : p \in {q \in DOMAIN file : Code[file[q].code].prefixed}}

ContractOf(file, g) ==
  {file[p].contract : p \in {q \in DOMAIN file : Kind(file[q]) = "function" /\ Name(file[q]) = g}}

(* A merge loses nothing: all the new items of the copy and of the         *)
(* canonical file are in the result, the session's function has the copy's *)
(* contract, and another function's contract changes only where nobody     *)
(* else has changed it since the fork or is working on it (merge_copy,     *)
(* rule 10). Those that change are the carried ones, for which callers are *)
(* verified again.                                                         *)
NothingLost ==
  [][\A s \in Sessions :
       Ended(s) /\ report'[s].merged =>
         /\ HelperCodes(canonical') = HelperCodes(canonical) \cup HelperCodes(snapshot[s])
         /\ ContractOf(canonical', s) = ContractOf(snapshot[s], s)
         /\ \A g \in Sessions \ {s} :
              ContractOf(canonical', g) # ContractOf(canonical, g) =>
                /\ ContractOf(canonical', g) = ContractOf(snapshot[s], g)
                /\ ContractOf(canonical, g) = ContractOf(fork_base[s], g)
                /\ g \notin Live'
         /\ FunctionsWithChangedContracts(canonical, canonical') \ {s} = report'[s].carried]_vars

(* With one session at a time a merge takes the copy, with the contracts   *)
(* of the fork base where an edit was left out (merge_copy: "When the      *)
(* canonical file is still the fork base ... this reduces to taking the    *)
(* copy itself, minus the edits that are left out").                       *)
WithoutDropped(s) ==
  LET items == Parse(snapshot[s]).items
      left(i) == Name(items[i]) \in report'[s].dropped
      old(i) == CHOOSE c \in ContractOf(fork_base[s], Name(items[i])) : TRUE
  IN  [i \in DOMAIN items |->
         IF left(i) THEN [items[i] EXCEPT !.contract = old(i)] ELSE items[i]]

TakesTheCopy ==
  [][\A s \in Sessions :
       Ended(s) /\ canonical = fork_base[s] /\ report'[s].merged =>
         Parse(canonical').items = WithoutDropped(s)]_vars
=============================================================================

----------------------------- MODULE EditRules -----------------------------
(***************************************************************************)
(* tools/util/edit_rules.py: check_edits, which says what rules a session's*)
(* copy of the file breaks, and merge_copy, which reconciles the copy with *)
(* what other sessions merged since it was forked.                         *)
(*                                                                         *)
(* A file is a sequence of entries: its top-level items, with their        *)
(* contracts, and the comments between them. The code of an item is an     *)
(* element of DOMAIN Code, and its contract is a set of clauses; two items *)
(* have the same tokens iff they have the same code, and the same          *)
(* _code_text iff the contracts are equal too. A byte offset is a boundary *)
(* between entries: entry k reaches from k-1 to k.                         *)
(***************************************************************************)
EXTENDS Integers, Sequences, FiniteSets, SequencesExt

CONSTANTS
  Code,          \* what edit_rules can tell about each code: see CodeFacts
  FalseClauses,  \* the clauses __CPROVER_requires(<constant false>)
  AssumeClauses  \* the clauses that use __CPROVER_assume

None == "none"

(* directive: "if" stands for #if, #ifdef and #ifndef, "branch" for #elif  *)
(* and #else, "other" for #include, #pragma and the rest.                  *)
CodeFacts ==
  [kind : {"directive", "function", "declaration", "linkage", "incomplete",
           "comment"},
   directive : {None, "if", "branch", "endif", "define", "undef", "other"},
   name : STRING,                \* the name it introduces, or None
   prefixed : BOOLEAN,           \* the name has a reserved prefix
   prototype : BOOLEAN,          \* a function declaration without a body
   assumes : BOOLEAN,            \* __CPROVER_assume is among its tokens
   inner : SUBSET DOMAIN Code,   \* the directives inside it
   extends : SUBSET DOMAIN Code] \* codes it is with text inserted into them

ASSUME CodeAssumption ==
  \A c \in DOMAIN Code :
    Code[c] \in CodeFacts /\ (Code[c].prefixed => Code[c].name # None)

IsItem(entry) == Code[entry.code].kind # "comment"
Kind(item) == Code[item.code].kind
Directive(item) == Code[item.code].directive
Name(item) == Code[item.code].name

Continuations == {"branch", "endif"}
Conditionals == {"if"} \cup Continuations

(* The elements of a finite set of indices, the least first.               *)
Ascending(S) ==
  FlattenSeq([i \in 1 .. Max({0} \cup S) |-> IF i \in S THEN <<i>> ELSE <<>>])

(* A file with its items, and the entry each of them is.                   *)
Parse(file) ==
  LET at == Ascending({p \in DOMAIN file : IsItem(file[p])})
  IN  [text |-> file, items |-> [i \in DOMAIN at |-> file[at[i]]], at |-> at]

-----------------------------------------------------------------------------
(* Aligning two files.                                                     *)

(* The #if's open before each item, and at the end, innermost last.        *)
OpenBlocks(items) ==
  LET next(open, i) ==
        CASE Directive(items[i]) = "if" -> Append(open, i)
          [] Directive(items[i]) = "endif" /\ open # <<>> -> Front(open)
          [] OTHER -> open
  IN  FoldLeft(LAMBDA acc, i : Append(acc, next(Last(acc), i)), << <<>> >>,
               [i \in DOMAIN items |-> i])

(* Mutant of AlignmentKeys: an #else or #endif is known by its tokens only.*)
TokensOnly(items) == [i \in DOMAIN items |-> <<items[i].code, None>>]

(* _alignment_keys: an #else or #endif is known by its #if too.            *)
AlignmentKeys(items) ==
  LET open == OpenBlocks(items)
  IN  [i \in DOMAIN items |->
         <<items[i].code,
           IF Directive(items[i]) \in Continuations /\ open[i] # <<>>
             THEN items[Last(open[i])].code ELSE None>>]

(* difflib's SequenceMatcher, given the index pairs at which two sequences *)
(* are equal: the longest block they share, the first in the one and then  *)
(* in the other of those; then the same on both sides of it.               *)
BlockFrom(equal, p) ==
  {q \in equal : /\ q[1] >= p[1]
                 /\ q[2] - p[2] = q[1] - p[1]
                 /\ \A d \in 0 .. q[1] - p[1] : <<p[1] + d, p[2] + d>> \in equal}

LongestBlock(equal) ==
  LET blocks == {<<Cardinality(BlockFrom(equal, p)), p>> : p \in equal}
      best == {x \in blocks : \A y \in blocks :
                 \/ x[1] > y[1]
                 \/ /\ x[1] = y[1]
                    /\ \/ x[2][1] < y[2][1]
                       \/ x[2][1] = y[2][1] /\ x[2][2] <= y[2][2]}
  IN  UNION {BlockFrom(equal, x[2]) : x \in best}

Beside(equal, block) ==
  {{q \in equal : \A p \in block : q[1] < p[1] /\ q[2] < p[2]},
   {q \in equal : \A p \in block : q[1] > p[1] /\ q[2] > p[2]}} \ {{}}

(* What is left on the sides of the blocks that have been found.           *)
MatchRegions(found) ==
  [pairs |-> found.pairs \cup UNION {LongestBlock(equal) : equal \in found.regions},
   regions |-> UNION {Beside(equal, LongestBlock(equal)) : equal \in found.regions}]

MatchedPairs(equal) ==
  LET found[n \in 0 .. Cardinality(equal)] ==
        IF n = 0 THEN [pairs |-> {}, regions |-> {equal}] ELSE MatchRegions(found[n-1])
  IN  found[Cardinality(equal)].pairs

(* The indices of one file between the same matched items as index i of    *)
(* the other.                                                              *)
SameGap(i, j, pairs) ==
  \A p \in pairs : (p[1] < i => p[2] < j) /\ (i < p[1] => j < p[2])

(* _find_counterpart: the edited versions, among added, of base item i.    *)
Counterparts(base, snapshot, pairs, i, added) ==
  IF Name(base[i]) = None /\ Directive(base[i]) # "if" THEN {}
  ELSE {j \in added : /\ SameGap(i, j, pairs)
                      /\ Kind(snapshot[j]) = Kind(base[i])
                      /\ Directive(snapshot[j]) = Directive(base[i])
                      /\ Name(snapshot[j]) = Name(base[i])}

EditOf(base, snapshot, pairs, acc, i) ==
  LET counterparts == Counterparts(base, snapshot, pairs, i, acc.new)
      j == Min(counterparts)
      inserted == base[i].code \in Code[snapshot[j].code].extends
  IN  IF counterparts = {}
      THEN [acc EXCEPT !.missing = Append(@, i)]
      ELSE [acc EXCEPT !.new = @ \ {j},
                       !.rules = @ \cup {IF inserted THEN 2 ELSE 1}]

(* The original items that are gone, one by one: edited, or missing.       *)
EditsOf(base, snapshot, pairs, gone) ==
  LET edited[k \in 0 .. Len(gone)] ==
        IF k = 0 THEN [rules |-> {}, missing |-> <<>>,
                       new |-> DOMAIN snapshot \ {p[2] : p \in pairs}]
        ELSE EditOf(base, snapshot, pairs, edited[k-1], gone[k])
  IN  edited[Len(gone)]

(* A missing item that is among the new ones was moved.                    *)
MoveOf(base, snapshot, new, i) ==
  LET copies == {j \in new : snapshot[j].code = base[i].code}
  IN  IF copies = {} THEN new ELSE new \ {Min(copies)}

(* The new items that are not missing ones.                                *)
NotMoved(base, snapshot, edited) ==
  LET new[k \in 0 .. Len(edited.missing)] ==
        IF k = 0 THEN edited.new ELSE MoveOf(base, snapshot, new[k-1], edited.missing[k])
  IN  new[Len(edited.missing)]

(* Compares the items of two files, of which pairs have been aligned: the  *)
(* rules (1, 2) that the snapshot breaks, the indices of its new items, and*)
(* for each original item that is still there its index in the snapshot.   *)
CompareAligned(base, snapshot, pairs) ==
  LET kept == {p[1] : p \in pairs}
      edited == EditsOf(base, snapshot, pairs, Ascending(DOMAIN base \ kept))
  IN  [rules |-> edited.rules \cup IF edited.missing = <<>> THEN {} ELSE {1},
       new |-> NotMoved(base, snapshot, edited),
       index |-> [i \in kept |-> CHOOSE j \in DOMAIN snapshot : <<i, j>> \in pairs]]

(* _compare_items.                                                         *)
CompareItems(base, snapshot) ==
  LET keyed(items) == {<<i, AlignmentKeys(items)[i]>> : i \in DOMAIN items}
      alike == {z \in keyed(base) \X keyed(snapshot) : z[1][2] = z[2][2]}
      same == {<<z[1][1], z[2][1]>> : z \in alike}
  IN  CompareAligned(base, snapshot, MatchedPairs(same))

-----------------------------------------------------------------------------
(* check_edits.                                                            *)

(* Mutant of NestingBroken: a new conditional may enclose original code.   *)
ContinuationsOnly(items, new) ==
  LET open == OpenBlocks(items)
  IN  \E i \in DOMAIN items :
        /\ Directive(items[i]) \in Continuations
        /\ i \in new /\ (open[i] = <<>> \/ Last(open[i]) \notin new)

(* _check_conditional_nesting: a new conditional encloses original code, or*)
(* a new #else or #endif belongs to an original one.                       *)
NestingBroken(items, new) ==
  LET open == OpenBlocks(items)
  IN  \E i \in DOMAIN items :
        IF Directive(items[i]) \in Continuations
        THEN i \in new /\ (open[i] = <<>> \/ Last(open[i]) \notin new)
        ELSE /\ Directive(items[i]) # "if"
             /\ i \notin new
             /\ Range(open[i]) \cap new # {}

NewName(code, existing) ==
  IF Code[code].prefixed /\ Code[code].name \notin existing THEN {} ELSE {4}

NewDirective(code, existing) ==
  CASE Code[code].directive \in Conditionals -> {}
    [] Code[code].directive = "define" -> NewName(code, existing)
    [] OTHER -> {4}

NewItem(item, existing) ==
  LET inside == UNION {NewDirective(d, existing) : d \in Code[item.code].inner}
      assumes == IF Code[item.code].assumes THEN {5} ELSE {}
  IN  inside \cup assumes \cup
      CASE Kind(item) = "directive" -> NewDirective(item.code, existing)
        [] Kind(item) = "incomplete" \/ (Kind(item) # "directive" /\ Name(item) = None) -> {4}
        [] OTHER -> NewName(item.code, existing)

CheckNewItems(base, snapshot, new) ==
  LET existing == {Name(base[i]) : i \in DOMAIN base} \ {None}
  IN  UNION {NewItem(snapshot[j], existing) : j \in new}
      \cup IF NestingBroken(snapshot, new) THEN {4} ELSE {}

Definitions(items, function) ==
  {i \in DOMAIN items : Kind(items[i]) = "function" /\ Name(items[i]) = function}

CheckFunctionIntact(base, snapshot, function) ==
  LET before == Cardinality(Definitions(base, function))
      after == Cardinality(Definitions(snapshot, function))
  IN  IF after = before \/ (before = 0 /\ after = 1) THEN {} ELSE {3}

(* A clause is the session's unless the same base item has it.             *)
CheckNewClauses(base, snapshot, index) ==
  LET before(j) == UNION {base[i].contract : i \in {k \in DOMAIN index : index[k] = j}}
      written == UNION {snapshot[j].contract \ before(j) : j \in DOMAIN snapshot}
  IN  (IF written \cap AssumeClauses # {} THEN {5} ELSE {})
      \cup IF written \cap FalseClauses # {} THEN {8} ELSE {}

(* The rules, of 1 to 5 and 8, that a session's copy breaks.               *)
CheckEdits(forkBase, snapshot, function) ==
  LET b == Parse(forkBase).items
      s == Parse(snapshot).items
      comparison == CompareItems(b, s)
  IN  comparison.rules
      \cup CheckFunctionIntact(b, s, function)
      \cup CheckNewItems(b, s, comparison.new)
      \cup CheckNewClauses(b, s, comparison.index)

-----------------------------------------------------------------------------
(* merge_copy. An edit is [from, to, text]: a replacement of the entries   *)
(* between two boundaries.                                                 *)

(* Mutant of Covering: an edit takes the entry before it too.              *)
CoveringFromBefore(edits, p) ==
  {k \in DOMAIN edits : edits[k].from <= p /\ p <= edits[k].to}

(* The edits that replace entry p.                                         *)
Covering(edits, p) == {k \in DOMAIN edits : edits[k].from < p /\ p <= edits[k].to}

(* _apply: edits do not overlap; of two insertions at one boundary, the    *)
(* later in the list comes first.                                          *)
Apply(source, edits) ==
  LET inserted(p) ==
        FlattenSeq([k \in DOMAIN edits |->
                      LET e == Reverse(edits)[k]
                      IN  IF e.from = p /\ e.to = p THEN e.text ELSE <<>>])
      entry(p) ==
        IF Covering(edits, p) = {} THEN <<source[p]>>
        ELSE LET e == edits[CHOOSE k \in Covering(edits, p) : TRUE]
             IN  IF e.from = p - 1 THEN e.text ELSE <<>>
  IN  FlattenSeq([p \in 1 .. Len(source) + 1 |->
                    inserted(p - 1) \o IF p <= Len(source) THEN entry(p) ELSE <<>>])

(* _runs: the maximal runs of consecutive indices, in order.               *)
Runs(indices) ==
  LET first == {i \in indices : i - 1 \notin indices}
      upTo(i) == Min({j \in indices : i <= j /\ j + 1 \notin indices})
      starts == Ascending(first)
  IN  [k \in DOMAIN starts |-> <<starts[k], upTo(starts[k])>>]

(* _units: a run as a sequence of [first, last], a conditional block being *)
(* one unit.                                                               *)
Units(items, run) ==
  LET depth[i \in run[1] - 1 .. run[2]] ==
        IF i = run[1] - 1 THEN 0
        ELSE LET before == depth[i-1]
             IN  CASE Directive(items[i]) = "if" -> before + 1
                   [] Directive(items[i]) = "endif" -> Max({0, before - 1})
                   [] OTHER -> before
      first == {i \in run[1] .. run[2] : depth[i-1] = 0}
      upTo(i) == Min({j \in i .. run[2] : j = run[2] \/ j + 1 \in first})
      starts == Ascending(first)
  IN  [k \in DOMAIN starts |-> <<starts[k], upTo(starts[k])>>]

(* _unit_text, with the comments left out.                                 *)
UnitText(items, unit) == SubSeq(items, unit[1], unit[2])

(* _clashes: an item cannot be added beside one that uses its name, unless *)
(* they are a prototype and a definition.                                  *)
Clashes(item, other) ==
  /\ Name(item) = Name(other)
  /\ Name(item) # None
  /\ ~(Code[item.code].prototype /\ Kind(other) = "function")
  /\ ~(Kind(item) = "function" /\ Code[other.code].prototype)

Comments(text) == SelectSeq(text, LAMBDA entry : ~IsItem(entry))
Count(entry, text) == Cardinality({k \in DOMAIN text : text[k] = entry})

(* Entry k of a gap is an original comment: the base gap has as many.      *)
IsOriginalComment(gap, baseGap, k) ==
  ~IsItem(gap[k]) /\ Count(gap[k], SubSeq(gap, 1, k)) <= Count(gap[k], Comments(baseGap))

(* _leading_original_comments: the boundary past the last original comment *)
(* of the gap, the original comments, and the session's before that.       *)
LeadingComments(gap, baseGap) ==
  LET originals == {k \in DOMAIN gap : IsOriginalComment(gap, baseGap, k)}
      cut == Max({0} \cup originals)
      pick(K) == LET at == Ascending(K) IN [k \in DOMAIN at |-> gap[at[k]]]
  IN  [cut |-> cut, found |-> pick(originals), written |-> pick((1 .. cut) \ originals)]

(* _after_comments: past those comments that are found, in order, between  *)
(* boundary p and the next item.                                           *)
AfterComments(file, p, comments) ==
  LET next == Min({Len(file)} \cup {k - 1 : k \in {q \in DOMAIN file : p < q /\ IsItem(file[q])}})
      step(acc, k) ==
        IF acc.left # <<>> /\ file[k] = Head(acc.left)
        THEN [at |-> k, left |-> Tail(acc.left)] ELSE acc
      passed[k \in 0 .. next - p] ==
        IF k = 0 THEN [at |-> p, left |-> comments] ELSE step(passed[k-1], p + k)
  IN  passed[next - p].at

(* What merge_copy compares: the fork base, the copy (mine), and the       *)
(* canonical file (theirs).                                                *)
ThreeWay(canonical, snapshot, forkBase) ==
  LET b == Parse(forkBase)
      m == Parse(snapshot)
      t == Parse(canonical)
  IN  [base |-> b, mine |-> m, theirs |-> t,
       toMine |-> CompareItems(b.items, m.items),
       toTheirs |-> CompareItems(b.items, t.items)]

(* The three contracts of original item i.                                 *)
Contracts3(w, i) ==
  [base |-> w.base.items[i].contract,
   mine |-> w.mine.items[w.toMine.index[i]].contract,
   theirs |-> w.theirs.items[w.toTheirs.index[i]].contract]

(* Mutant of Wanted: only the contract of the session's own function.      *)
WantedOwn(w, function) ==
  {i \in DOMAIN w.toMine.index :
     LET c == Contracts3(w, i)
     IN  c.mine # c.theirs /\ Name(w.base.items[i]) = function}

(* The original items whose contract the copy would set: its function's,   *)
(* also when the copy left it as it was, and those the session edited.     *)
Wanted(w, function) ==
  {i \in DOMAIN w.toMine.index :
     LET c == Contracts3(w, i)
     IN  /\ Kind(w.base.items[i]) # "directive"
         /\ c.mine # c.theirs
         /\ c.mine # c.base \/ Name(w.base.items[i]) = function}

(* Mutant of NotCarried: live sessions are not considered.                 *)
ChangedMeanwhile(w, i, function, frozen) ==
  LET c == Contracts3(w, i)
  IN  Name(w.base.items[i]) # function /\ c.theirs # c.base

(* _reason_not_carried: an edit to another function is left out when a     *)
(* live session works on it or its contract changed since the fork.        *)
NotCarried(w, i, function, frozen) ==
  LET c == Contracts3(w, i)
  IN  /\ Name(w.base.items[i]) # function
      /\ Name(w.base.items[i]) \in frozen \/ c.theirs # c.base

ContractEdit(w, i) ==
  LET p == w.theirs.at[w.toTheirs.index[i]]
  IN  [from |-> p - 1, to |-> p, text |-> <<w.mine.items[w.toMine.index[i]]>>]

(* The units among the canonical file's new items.                         *)
TheirUnits(w) ==
  LET runs == Runs(w.toTheirs.new)
  IN  UNION {Range(Units(w.theirs.items, runs[k])) : k \in DOMAIN runs}

(* Where a run of new items goes: after the original item it follows in    *)
(* the copy, the items others added there, and the comments before the run.*)
InsertionPoint(w, run, leading, removals) ==
  LET original == {i \in DOMAIN w.toMine.index : w.toMine.index[i] = run[1] - 1}
      after == Max({0} \cup {w.toTheirs.index[i] : i \in original})
      last == Min({j \in after .. Len(w.theirs.items) : j + 1 \notin w.toTheirs.new})
      point == AfterComments(w.theirs.text, IF last = 0 THEN 0 ELSE w.theirs.at[last], leading)
      adjust(p, r) == IF r[1] < p /\ p <= r[2] THEN r[1] ELSE p
      adjusted[k \in 0 .. Len(removals)] ==
        IF k = 0 THEN point ELSE adjust(adjusted[k-1], removals[k])
  IN  adjusted[Len(removals)]

(* Mutant of PlaceUnit: a unit that is already there is skipped wherever   *)
(* it is.                                                                  *)
SkipAnywhere(w, acc, unit, point) ==
  LET text == UnitText(w.mine.items, unit)
      same == {u \in TheirUnits(w) : UnitText(w.theirs.items, u) = text}
      lastPart == w.mine.at[unit[2]]
      piece == SubSeq(w.mine.text, acc.end + 1, lastPart)
      clash == \E j \in unit[1] .. unit[2], k \in w.toTheirs.new :
                 Clashes(w.mine.items[j], w.theirs.items[k])
  IN  IF same # {} THEN [acc EXCEPT !.end = lastPart, !.skipped = Append(@, text)]
      ELSE IF clash THEN [acc EXCEPT !.clash = TRUE]
      ELSE [acc EXCEPT !.end = lastPart, !.pieces = Append(@, piece)]

(* One unit of a run, when same are the equal units of the canonical file  *)
(* that it has not been matched with: skipped when the file has it before  *)
(* the place, moved when it has it later, refused when its name is taken,  *)
(* and inserted otherwise.                                                 *)
PlaceBeside(w, acc, unit, point, same) ==
  LET text == UnitText(w.mine.items, unit)
      their == CHOOSE u \in same : \A v \in same : v[1] <= u[1]
      lastPart == w.mine.at[unit[2]]
      piece == SubSeq(w.mine.text, acc.end + 1, lastPart)
      clash == \E j \in unit[1] .. unit[2], k \in w.toTheirs.new :
                 Clashes(w.mine.items[j], w.theirs.items[k])
  IN  IF same # {} /\ w.theirs.at[their[1]] - 1 < point
      THEN [acc EXCEPT !.end = lastPart, !.skipped = Append(@, text)]
      ELSE IF same # {}
      THEN [acc EXCEPT !.end = lastPart, !.skipped = Append(@, text),
                       !.pieces = Append(@, piece),
                       !.moved = @ \cup {text},
                       !.removals = Append(@, <<w.theirs.at[their[1]] - 1,
                                                w.theirs.at[their[2]]>>)]
      ELSE IF clash THEN [acc EXCEPT !.clash = TRUE]
      ELSE [acc EXCEPT !.end = lastPart, !.pieces = Append(@, piece)]

PlaceUnit(w, acc, unit, point) ==
  LET text == UnitText(w.mine.items, unit)
      same == {u \in TheirUnits(w) : UnitText(w.theirs.items, u) = text /\ text \notin acc.moved}
  IN  PlaceBeside(w, acc, unit, point, same)

(* What is placed of a run becomes one edit.                               *)
EndRun(placed, point, written) ==
  IF placed.pieces = <<>> THEN placed
  ELSE [placed EXCEPT !.edits =
          Append(@, [from |-> point, to |-> point,
                     text |-> written \o FlattenSeq(placed.pieces)])]

(* A run of new items of the copy, of which the gap from start on is left, *)
(* at its place in the canonical file.                                     *)
PlaceUnless(w, acc, unit, point) ==
  IF acc.clash THEN acc ELSE PlaceUnit(w, acc, unit, point)

PlaceRunAt(w, acc, run, start, written, point) ==
  LET units == Units(w.mine.items, run)
      placed[k \in 0 .. Len(units)] ==
        IF k = 0 THEN [acc EXCEPT !.end = start, !.pieces = <<>>]
        ELSE PlaceUnless(w, placed[k-1], units[k], point)
  IN  EndRun(placed[Len(units)], point, written)

(* One run of new items of the copy.                                       *)
PlaceRun(w, acc, run) ==
  LET before == run[1] - 1
      gapStart == IF before = 0 THEN 0 ELSE w.mine.at[before]
      original == {i \in DOMAIN w.toMine.index : w.toMine.index[i] = before}
      base == IF original = {} THEN 0 ELSE Max(original)
      baseStart == IF base = 0 THEN 0 ELSE w.base.at[base]
      baseEnd == IF base < Len(w.base.items) THEN w.base.at[base + 1] - 1 ELSE Len(w.base.text)
      leading == LeadingComments(SubSeq(w.mine.text, gapStart + 1, w.mine.at[run[1]] - 1),
                                 SubSeq(w.base.text, baseStart + 1, baseEnd))
  IN  PlaceRunAt(w, acc, run, gapStart + leading.cut, leading.written,
                 InsertionPoint(w, run, leading.found, acc.removals))

PlaceNext(w, acc, run) == IF acc.clash THEN acc ELSE PlaceRun(w, acc, run)

Refused(canonical, reason) ==
  [merged |-> FALSE, reason |-> reason, file |-> canonical, carried |-> {},
   dropped |-> {}, changed_since_fork |-> {}]

(* All runs of new items, after the edits to contracts.                    *)
PlaceRuns(w, contractEdits) ==
  LET runs == Runs(w.toMine.new)
      placed[k \in 0 .. Len(runs)] ==
        IF k = 0 THEN [edits |-> contractEdits, removals |-> <<>>, moved |-> {},
                       skipped |-> <<>>, pieces |-> <<>>, end |-> 0, clash |-> FALSE]
        ELSE PlaceNext(w, placed[k-1], runs[k])
  IN  placed[Len(runs)]

(* The last check: the merged file is the canonical one with items added.  *)
WouldChangeCode(canonical, merged) ==
  LET check == CompareItems(canonical.items, merged.items)
  IN  check.rules # {} \/ NestingBroken(merged.items, check.new)

(* The merge, once it is known what the copy adds and what its place is.   *)
Reconcile(w, function, wanted, dropped, placed) ==
  LET canonical == w.theirs.text
      nameOf(I) == {Name(w.base.items[i]) : i \in I}
      remove == [k \in DOMAIN placed.removals |->
                   [from |-> placed.removals[k][1], to |-> placed.removals[k][2],
                    text |-> <<>>]]
      merged == Apply(canonical, placed.edits \o remove)
  IN  IF w.toTheirs.rules # {} THEN Refused(canonical, "code changed")
      ELSE IF None \in nameOf(wanted) THEN Refused(canonical, "unnamed item")
      ELSE IF placed.clash THEN Refused(canonical, "clash")
      ELSE IF WouldChangeCode(Parse(Apply(canonical, remove)), Parse(merged))
      THEN Refused(canonical, "would change code")
      ELSE [merged |-> TRUE, reason |-> None, file |-> merged,
            carried |-> nameOf(wanted \ dropped) \ {function},
            dropped |-> nameOf(dropped),
            changed_since_fork |->
              nameOf({i \in DOMAIN w.toMine.index :
                        /\ Kind(w.base.items[i]) = "function"
                        /\ Contracts3(w, i).theirs # Contracts3(w, i).base})]

(* merge_copy of what was compared.                                        *)
MergeWays(w, function, frozen) ==
  LET wanted == Wanted(w, function)
      dropped == {i \in wanted : NotCarried(w, i, function, frozen)}
      carried == Ascending(wanted \ dropped)
      edits == [k \in DOMAIN carried |-> ContractEdit(w, carried[k])]
  IN  CASE w.toMine.rules # {} -> Refused(w.theirs.text, "rules")
        [] w.toMine.rules = {} /\ Definitions(w.mine.items, function) = {} ->
             Refused(w.theirs.text, "not found")
        [] OTHER -> Reconcile(w, function, wanted, dropped, PlaceRuns(w, edits))

(* merge_copy. frozen is the set of functions whose contracts the session  *)
(* may not change; None in the code is every function here.                *)
MergeCopyOf(canonical, snapshot, forkBase, function, frozen) ==
  MergeWays(ThreeWay(canonical, snapshot, forkBase), function, frozen)

(* functions_with_changed_contracts.                                       *)
FunctionsWithChangedContracts(before, after) ==
  LET b == Parse(before).items
      a == Parse(after).items
      index == CompareItems(b, a).index
  IN  {Name(b[i]) : i \in {k \in DOMAIN index :
                             /\ Kind(b[k]) = "function"
                             /\ b[k].contract # a[index[k]].contract}}
=============================================================================

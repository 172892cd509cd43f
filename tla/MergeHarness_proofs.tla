------------------------ MODULE MergeHarness_proofs ------------------------
(***************************************************************************)
(* Proofs about MergeHarness, for every call graph, number of jobs, rerun  *)
(* bound and set of contracts, and for every CBMC whose verdict on a       *)
(* function depends only on its contract and its callees' contracts.       *)
(***************************************************************************)
EXTENDS MergeHarness, WellFoundedInduction, TLAPS

(* A deleted copy still has the type of a file, as soon as files exist.    *)
LEMMA NoCopyType ==
  ASSUME NEW file \in Files
  PROVE  NoCopy \in Files
<1>1. ASSUME NEW f \in Functions
      PROVE  (CHOOSE c \in Contracts : TRUE) \in Contracts
  <2>1. file[f] \in Contracts
    BY DEF Files
  <2>2. \E c \in Contracts : TRUE
    BY <2>1
  <2>. QED  BY <2>2, Zenon
<1>. QED  BY <1>1 DEF NoCopy, Files

(* The file a merge produces is a file.                                    *)
LEMMA MergedType ==
  ASSUME canonical \in Files, NEW mine \in Files, NEW f, NEW carried
  PROVE  Merged(f, mine, carried) \in Files
BY DEF Merged, Files

(* What a re-verification answers for each affected function.              *)
LEMMA ReverificationAnswers ==
  ASSUME NEW affected, NEW file,
         NEW rv \in Reverifications(affected, file)
  PROVE  /\ DOMAIN rv = affected
         /\ \A g \in affected : rv[g] \in Verdicts /\ rv[g] \in Outcomes(g, file)
BY DEF Reverifications

(* Every merge ends the first critical section with a file, a report and   *)
(* verdicts of the right types.                                            *)
LEMMA MergeType ==
  ASSUME TypeOK, NEW f \in Functions, Merge(f)
  PROVE  TypeOK'
<1>1. PICK mine \in SessionCopies(f), lim \in SessionEnds :
        \E rv \in MergeReverifications(f, mine) \cup {NoReverification} :
          MergeWith(f, mine, lim, rv)
  BY DEF Merge
<1>2. PICK rv : MergeWith(f, mine, lim, rv)
  BY <1>1
<1>3. mine \in Files /\ lim \in BOOLEAN
  BY BoundsAssumption DEF SessionCopies
<1>4. ASSUME NEW file \in Files, NEW rep \in Reports,
             EndMerge(f, lim, file, rep),
             verdict' \in [Functions -> Verdicts \cup {"unknown"}]
      PROVE  TypeOK'
  BY <1>3, <1>4 DEF EndMerge, TypeOK, Phases
<1>5. /\ Carried(f, mine) \subseteq Functions
      /\ Edited(f, mine) \subseteq Functions
      /\ ChangedSinceFork(f) \subseteq Functions
  BY DEF Carried, Edited, ChangedSinceFork
<1>6. NoReport \in Reports
  BY DEF NoReport, Reports
<1>7. canonical \in Files /\ verdict \in [Functions -> Verdicts \cup {"unknown"}]
  BY DEF TypeOK
<1>8. CASE KeepMerge(f, mine, lim, rv)
  <2> DEFINE carried == Carried(f, mine)
             rep == [merged |-> TRUE, carried |-> carried,
                     dropped |-> Edited(f, mine) \ carried,
                     changed |-> ChangedSinceFork(f)]
  <2>1. Merged(f, mine, carried) \in Files
    BY <1>3, <1>7, MergedType
  <2>2. rep \in Reports
    BY <1>5 DEF Reports
  <2>3. \A g \in DOMAIN rv : rv[g] \in Verdicts
    BY <1>8, ReverificationAnswers DEF KeepMerge, MergeReverifications
  <2>4. verdict' \in [Functions -> Verdicts \cup {"unknown"}]
    BY <1>7, <1>8, <2>3 DEF KeepMerge
  <2>5. EndMerge(f, lim, Merged(f, mine, carried), rep)
    BY <1>8 DEF KeepMerge
  <2>. QED  BY <1>4, <2>1, <2>2, <2>4, <2>5
<1>9. CASE RevertMerge(f, mine, lim, rv)
  <2> DEFINE rep == [merged |-> TRUE, carried |-> {},
                     dropped |-> Edited(f, mine),
                     changed |-> ChangedSinceFork(f)]
  <2>1. Merged(f, mine, {}) \in Files
    BY <1>3, <1>7, MergedType
  <2>2. rep \in Reports
    BY <1>5 DEF Reports
  <2>3. EndMerge(f, lim, Merged(f, mine, {}), rep) /\ verdict' = verdict
    BY <1>9 DEF RevertMerge
  <2>. QED  BY <1>4, <1>7, <2>1, <2>2, <2>3
<1>10. CASE RejectMerge(f, mine, lim, rv)
  <2>1. EndMerge(f, lim, canonical, NoReport) /\ verdict' = verdict
    BY <1>10 DEF RejectMerge
  <2>. QED  BY <1>4, <1>6, <1>7, <2>1
<1>. QED  BY <1>2, <1>8, <1>9, <1>10 DEF MergeWith

(* Recording a verdict keeps the types.                                    *)
LEMMA RecordType ==
  ASSUME TypeOK, NEW f \in Functions, Record(f)
  PROVE  TypeOK'
<1>1. canonical \in Files /\ scratch[f] \in Files /\ NoCopy \in Files
  BY NoCopyType DEF TypeOK
<1>2. PICK v \in Verdicts :
        /\ cbmc' = [cbmc EXCEPT ![f] = v]
        /\ verdict' = [verdict EXCEPT ![f] = v]
  BY <1>1, OutcomesAssumption DEF Record
<1>3. Moved(f) \subseteq Functions
  BY CalleesAssumption DEF Moved
<1>4. report' \in [Functions -> Reports]
  <2>1. report' = [report EXCEPT ![f].changed = @ \cup Moved(f)]
    BY DEF Record
  <2>2. report[f] \in Reports
    BY DEF TypeOK
  <2>3. [report[f] EXCEPT !.changed = @ \cup Moved(f)] \in Reports
    BY <1>3, <2>2 DEF Reports
  <2>. QED  BY <2>1, <2>3 DEF TypeOK
<1>. QED  BY <1>1, <1>2, <1>4 DEF Record, TypeOK, Phases

(* Every step of the harness keeps the types.                              *)
LEMMA TypeStep == TypeOK /\ [Next]_vars => TypeOK'
<1> SUFFICES ASSUME TypeOK, [Next]_vars PROVE TypeOK'
  OBVIOUS
<1>1. ASSUME NEW f \in Functions, Start(f) PROVE TypeOK'
  BY <1>1 DEF Start, TypeOK, Phases
<1>2. ASSUME NEW f \in Functions, Collect(f) PROVE TypeOK'
  <2>1. NoReport \in Reports
    BY DEF NoReport, Reports
  <2>. QED  BY <1>2, <2>1, BoundsAssumption
            DEF Collect, TypeOK, Phases, Verdicts
<1>3. ASSUME NEW f \in Functions, Fork(f) PROVE TypeOK'
  BY <1>3 DEF Fork, TypeOK, Phases
<1>4. ASSUME NEW f \in Functions, Merge(f) PROVE TypeOK'
  BY <1>4, MergeType
<1>5. ASSUME NEW f \in Functions, Record(f) PROVE TypeOK'
  BY <1>5, RecordType
<1>6. ASSUME NEW f \in Functions, Rerun(f) PROVE TypeOK'
  BY <1>6, BoundsAssumption DEF Rerun, WantsRerun, TypeOK, Phases
<1>7. ASSUME NEW f \in Functions, Finish(f) PROVE TypeOK'
  BY <1>7 DEF Finish, TypeOK, Phases
<1>8. CASE UNCHANGED vars
  BY <1>8 DEF vars, TypeOK
<1>. QED  BY <1>1, <1>2, <1>3, <1>4, <1>5, <1>6, <1>7, <1>8
          DEF Next, Main, Worker, Finalize

LEMMA TypeInit == Init => TypeOK
<1> SUFFICES ASSUME Init PROVE TypeOK
  OBVIOUS
<1>1. canonical \in Files
  BY FilesAssumption DEF Init
<1>2. NoCopy \in Files
  BY <1>1, NoCopyType
<1>3. NoReport \in Reports
  BY DEF NoReport, Reports
<1>. QED  BY <1>1, <1>2, <1>3, BoundsAssumption
          DEF Init, TypeOK, Verdicts, Phases

(* TypeOK is an invariant of the harness.                                  *)
THEOREM TypeCorrect == Spec => []TypeOK
BY TypeInit, TypeStep, PTL DEF Spec

-----------------------------------------------------------------------------
(* What a merge does, whichever way it ends: it changes f's contract and   *)
(* those it carries, none of them owned by a live session or newer than    *)
(* the copy; the affected functions get a verdict on the new file, every   *)
(* other function keeps its verdict, and a pass stays a pass.              *)
MergeEffect(f, carried) ==
  /\ phase[f] = "working"
  /\ phase' = [phase EXCEPT ![f] = "verifying"]
  /\ scratch' = [scratch EXCEPT ![f] = canonical']
  /\ UNCHANGED <<active, usageLimited, base, cbmc, reruns>>
  /\ \A g \in carried : g \notin active /\ canonical[g] = base[f][g]
  /\ \A g \in Functions \ (carried \cup {f}) : canonical'[g] = canonical[g]
  /\ \A g \in Affected(f, carried) : verdict'[g] \in Outcomes(g, canonical')
  /\ \A g \in Functions \ Affected(f, carried) : verdict'[g] = verdict[g]
  /\ \A g \in Functions : verdict[g] = "pass" => verdict'[g] = "pass"

LEMMA MergeStep ==
  ASSUME TypeOK, NEW f \in Functions, Merge(f)
  PROVE  \E carried \in SUBSET (Functions \ {f}) : MergeEffect(f, carried)
<1>1. PICK mine \in SessionCopies(f), lim \in SessionEnds :
        \E rv \in MergeReverifications(f, mine) \cup {NoReverification} :
          MergeWith(f, mine, lim, rv)
  BY DEF Merge
<1>2. PICK rv : MergeWith(f, mine, lim, rv)
  BY <1>1
<1>3. /\ Affected(f, {}) = {}
      /\ {} \in SUBSET (Functions \ {f})
  BY DEF Affected
<1>4. ASSUME verdict' = verdict,
             \A g \in Functions \ {f} : canonical'[g] = canonical[g],
             NEW rep, EndMerge(f, lim, canonical', rep)
      PROVE  MergeEffect(f, {})
  BY <1>2, <1>3, <1>4 DEF MergeEffect, EndMerge, MergeWith
<1>5. CASE KeepMerge(f, mine, lim, rv)
  <2> DEFINE carried == Carried(f, mine)
  <2>1. carried \in SUBSET (Functions \ {f})
    BY DEF Carried, Edited
  <2>2. \A g \in carried : g \notin active /\ canonical[g] = base[f][g]
    BY DEF Carried, Edited, FrozenFor, ChangedSinceFork
  <2>3. canonical' = Merged(f, mine, carried)
    BY <1>5 DEF KeepMerge, EndMerge
  <2>4. \A g \in Functions \ (carried \cup {f}) : canonical'[g] = canonical[g]
    BY <2>3 DEF Merged
  <2>5. /\ DOMAIN rv = Affected(f, carried)
        /\ \A g \in Affected(f, carried) : rv[g] \in Outcomes(g, canonical')
    BY <1>5, <2>3, ReverificationAnswers DEF KeepMerge, MergeReverifications
  <2>6. Affected(f, carried) \subseteq Functions
    BY <2>1 DEF Affected, RecheckedOnChange
  <2>7. verdict' = [g \in Functions |->
                      IF g \in DOMAIN rv THEN rv[g] ELSE verdict[g]]
    BY <1>5 DEF KeepMerge
  <2>8. \A g \in DOMAIN rv : verdict[g] = "pass" => rv[g] = "pass"
    BY <1>5 DEF KeepMerge, Regressed
  <2>9. MergeEffect(f, carried)
    <3>1. phase[f] = "working"
      BY <1>2 DEF MergeWith
    <3>2. /\ phase' = [phase EXCEPT ![f] = "verifying"]
          /\ scratch' = [scratch EXCEPT ![f] = canonical']
          /\ UNCHANGED <<active, usageLimited, base, cbmc, reruns>>
      BY <1>5 DEF KeepMerge, EndMerge
    <3>3. \A g \in Affected(f, carried) : verdict'[g] \in Outcomes(g, canonical')
      BY <2>5, <2>6, <2>7
    <3>4. \A g \in Functions \ Affected(f, carried) : verdict'[g] = verdict[g]
      BY <2>5, <2>7
    <3>5. \A g \in Functions : verdict[g] = "pass" => verdict'[g] = "pass"
      BY <2>7, <2>8
    <3>. QED  BY <2>2, <2>4, <3>1, <3>2, <3>3, <3>4, <3>5 DEF MergeEffect
  <2>. QED  BY <2>1, <2>9
<1>6. CASE RevertMerge(f, mine, lim, rv)
  <2>1. /\ verdict' = verdict
        /\ canonical' = Merged(f, mine, {})
    BY <1>6 DEF RevertMerge, EndMerge
  <2>2. \A g \in Functions \ {f} : canonical'[g] = canonical[g]
    BY <2>1 DEF Merged
  <2>3. EndMerge(f, lim, canonical',
                 [merged  |-> TRUE, carried |-> {}, dropped |-> Edited(f, mine),
                  changed |-> ChangedSinceFork(f)])
    BY <1>6, <2>1 DEF RevertMerge
  <2>. QED  BY <1>3, <1>4, <2>1, <2>2, <2>3
<1>7. CASE RejectMerge(f, mine, lim, rv)
  <2>1. /\ verdict' = verdict
        /\ canonical' = canonical
    BY <1>7 DEF RejectMerge, EndMerge
  <2>2. EndMerge(f, lim, canonical', NoReport)
    BY <1>7, <2>1 DEF RejectMerge
  <2>. QED  BY <1>3, <1>4, <2>1, <2>2
<1>. QED  BY <1>2, <1>5, <1>6, <1>7 DEF MergeWith

-----------------------------------------------------------------------------
(* Every step keeps the active set up to date.                             *)
LEMMA ActiveStep == TypeOK /\ ActiveIsLive /\ [Next]_vars => ActiveIsLive'
<1> SUFFICES ASSUME TypeOK, ActiveIsLive, [Next]_vars PROVE ActiveIsLive'
  OBVIOUS
<1> USE DEF TypeOK, ActiveIsLive, Live
<1>1. ASSUME NEW f \in Functions, Start(f) PROVE ActiveIsLive'
  BY <1>1 DEF Start
<1>2. ASSUME NEW f \in Functions, Collect(f) PROVE ActiveIsLive'
  BY <1>2 DEF Collect
<1>3. ASSUME NEW f \in Functions, Fork(f) PROVE ActiveIsLive'
  BY <1>3 DEF Fork
<1>4. ASSUME NEW f \in Functions, Merge(f) PROVE ActiveIsLive'
  BY <1>4, MergeStep DEF MergeEffect
<1>5. ASSUME NEW f \in Functions, Record(f) PROVE ActiveIsLive'
  BY <1>5 DEF Record
<1>6. ASSUME NEW f \in Functions, Rerun(f) PROVE ActiveIsLive'
  BY <1>6 DEF Rerun
<1>7. ASSUME NEW f \in Functions, Finish(f) PROVE ActiveIsLive'
  BY <1>7 DEF Finish
<1>8. CASE UNCHANGED vars
  BY <1>8 DEF vars
<1>. QED  BY <1>1, <1>2, <1>3, <1>4, <1>5, <1>6, <1>7, <1>8
          DEF Next, Main, Worker, Finalize

(* The active set is exactly the set of live functions.                    *)
THEOREM ActiveCorrect == Spec => []ActiveIsLive
<1>1. Init => ActiveIsLive
  BY DEF Init, ActiveIsLive, Live
<1>2. TypeOK /\ ActiveIsLive /\ [Next]_vars => ActiveIsLive'
  BY ActiveStep
<1>. QED  BY <1>1, <1>2, TypeCorrect, PTL DEF Spec

(* No step touches a live session's contract but its own merge.            *)
LEMMA OwnedStep ==
  /\ TypeOK /\ ActiveIsLive /\ LiveContractsOwned /\ [Next]_vars
  => LiveContractsOwned'
<1> SUFFICES ASSUME TypeOK, ActiveIsLive, LiveContractsOwned, [Next]_vars
             PROVE  LiveContractsOwned'
  OBVIOUS
<1> USE DEF TypeOK, LiveContractsOwned
<1>1. ASSUME NEW f \in Functions, Start(f) PROVE LiveContractsOwned'
  BY <1>1 DEF Start
<1>2. ASSUME NEW f \in Functions, Collect(f) PROVE LiveContractsOwned'
  BY <1>2 DEF Collect
<1>3. ASSUME NEW f \in Functions, Fork(f) PROVE LiveContractsOwned'
  BY <1>3 DEF Fork
<1>4. ASSUME NEW f \in Functions, Merge(f) PROVE LiveContractsOwned'
  <2>1. PICK carried \in SUBSET (Functions \ {f}) : MergeEffect(f, carried)
    BY <1>4, MergeStep
  <2>2. ASSUME NEW g \in Functions, g # f, phase[g] \in Live
        PROVE  canonical'[g] = canonical[g]
    BY <2>1, <2>2 DEF MergeEffect, ActiveIsLive
  <2>. QED  BY <2>1, <2>2 DEF MergeEffect, Live
<1>5. ASSUME NEW f \in Functions, Record(f) PROVE LiveContractsOwned'
  BY <1>5 DEF Record
<1>6. ASSUME NEW f \in Functions, Rerun(f) PROVE LiveContractsOwned'
  BY <1>6 DEF Rerun
<1>7. ASSUME NEW f \in Functions, Finish(f) PROVE LiveContractsOwned'
  BY <1>7 DEF Finish
<1>8. CASE UNCHANGED vars
  BY <1>8 DEF vars
<1>. QED  BY <1>1, <1>2, <1>3, <1>4, <1>5, <1>6, <1>7, <1>8
          DEF Next, Main, Worker, Finalize

(* A live session's contract is its own until its verdict is recorded.     *)
THEOREM OwnedCorrect == Spec => []LiveContractsOwned
<1>1. Init => LiveContractsOwned
  BY DEF Init, LiveContractsOwned
<1>2. /\ TypeOK /\ ActiveIsLive /\ LiveContractsOwned /\ [Next]_vars
      => LiveContractsOwned'
  BY OwnedStep
<1>. QED  BY <1>1, <1>2, TypeCorrect, ActiveCorrect, PTL DEF Spec

(* No function starts before the callees that precede it are processed.    *)
THEOREM CalleesFirstCorrect == Spec => []CalleesDoneFirst
<1>1. Init => CalleesDoneFirst
  BY DEF Init, CalleesDoneFirst
<1>2. TypeOK /\ CalleesDoneFirst /\ [Next]_vars => CalleesDoneFirst'
  <2> SUFFICES ASSUME TypeOK, CalleesDoneFirst, [Next]_vars
               PROVE  CalleesDoneFirst'
    OBVIOUS
  <2> USE CalleesAssumption DEF TypeOK, CalleesDoneFirst, done
  <2>1. ASSUME NEW f \in Functions, Start(f) PROVE CalleesDoneFirst'
    BY <2>1 DEF Start, Ready
  <2>2. ASSUME NEW f \in Functions, Collect(f) PROVE CalleesDoneFirst'
    BY <2>2 DEF Collect
  <2>3. ASSUME NEW f \in Functions, Fork(f) PROVE CalleesDoneFirst'
    BY <2>3 DEF Fork
  <2>4. ASSUME NEW f \in Functions, Merge(f) PROVE CalleesDoneFirst'
    BY <2>4, MergeStep DEF MergeEffect
  <2>5. ASSUME NEW f \in Functions, Record(f) PROVE CalleesDoneFirst'
    BY <2>5 DEF Record
  <2>6. ASSUME NEW f \in Functions, Rerun(f) PROVE CalleesDoneFirst'
    BY <2>6 DEF Rerun
  <2>7. ASSUME NEW f \in Functions, Finish(f) PROVE CalleesDoneFirst'
    BY <2>7 DEF Finish
  <2>8. CASE UNCHANGED vars
    BY <2>8 DEF vars
  <2>. QED  BY <2>1, <2>2, <2>3, <2>4, <2>5, <2>6, <2>7, <2>8
            DEF Next, Main, Worker, Finalize
<1>. QED  BY <1>1, <1>2, TypeCorrect, PTL DEF Spec

-----------------------------------------------------------------------------
(* A merge leaves a settled verdict fresh: a settled function does not     *)
(* call the merging one, and if it calls a carried one it is re-verified.  *)
LEMMA MergeKeepsOneFresh ==
  ASSUME NoMutualRecursion, TypeOK, CalleesDoneFirst, NEW f \in Functions, Merge(f),
         NEW g \in Settled', verdict'[g] \in {"pass", "vacuous"},
         g \in Settled /\ verdict'[g] = verdict[g]
           => verdict[g] \in Outcomes(g, canonical)
  PROVE  verdict'[g] \in Outcomes(g, canonical')
<1>1. canonical' \in Files
  BY MergeType DEF TypeOK
<1>2. PICK carried \in SUBSET (Functions \ {f}) : MergeEffect(f, carried)
  BY MergeStep
<1>3. g \in Functions /\ g # f /\ g \in Settled
  BY <1>2 DEF Settled, MergeEffect, TypeOK
<1>4. CASE g \in Affected(f, carried)
  BY <1>2, <1>4 DEF MergeEffect
<1>5. CASE g \notin Affected(f, carried)
  <2>1. verdict'[g] = verdict[g]
    BY <1>2, <1>3, <1>5 DEF MergeEffect
  <2>2. g \notin carried /\ Callees[g] \cap carried = {}
    BY <1>3, <1>5, <2>1 DEF Affected, RecheckedOnChange
  <2>3. f \notin Callees[g]
    <3> SUFFICES ASSUME f \in Callees[g] PROVE FALSE
      OBVIOUS
    <3>1. Rank[f] < Rank[g]
      BY <1>3 DEF NoMutualRecursion
    <3>2. f \in done
      BY <1>3, <3>1 DEF CalleesDoneFirst, Settled
    <3>. QED  BY <1>2, <3>2 DEF done, MergeEffect
  <2>4. \A h \in {g} \cup Callees[g] : canonical'[h] = canonical[h]
    BY <1>2, <1>3, <2>2, <2>3, CalleesAssumption DEF MergeEffect
  <2>5. Outcomes(g, canonical') = Outcomes(g, canonical)
    BY <1>1, <1>3, <2>4, LocalityAssumption DEF TypeOK
  <2>. QED  BY <1>3, <2>1, <2>5
<1>. QED  BY <1>4, <1>5

LEMMA MergeKeepsFresh ==
  ASSUME NoMutualRecursion, HarnessInv, NEW f \in Functions, Merge(f)
  PROVE  VerdictsFresh'
BY MergeKeepsOneFresh DEF HarnessInv, VerdictsFresh

(* The verdict that is recorded is one for the canonical file as it is:    *)
(* f's contract did not move, and f was verified again if a callee's did.  *)
LEMMA RecordIsFresh ==
  ASSUME TypeOK, LiveContractsOwned, NEW f \in Functions, Record(f)
  PROVE  verdict'[f] \in Outcomes(f, canonical)
<1>1. verdict'[f] \in Outcomes(f, IF Moved(f) = {} THEN scratch[f] ELSE canonical)
  BY DEF Record, TypeOK
<1>2. CASE Moved(f) # {}
  BY <1>1, <1>2
<1>3. CASE Moved(f) = {}
  <2>1. canonical[f] = scratch[f][f]
    BY DEF LiveContractsOwned, Record
  <2>2. \A h \in {f} \cup Callees[f] : scratch[f][h] = canonical[h]
    BY <1>3, <2>1 DEF Moved
  <2>3. Outcomes(f, scratch[f]) = Outcomes(f, canonical)
    BY <2>2, LocalityAssumption DEF TypeOK
  <2>. QED  BY <1>1, <1>3, <2>3
<1>. QED  BY <1>2, <1>3

LEMMA RecordKeepsFresh ==
  ASSUME HarnessInv, NEW f \in Functions, Record(f)
  PROVE  VerdictsFresh'
<1>1. TypeOK /\ LiveContractsOwned /\ canonical' = canonical
  BY DEF HarnessInv, Record
<1>2. SUFFICES ASSUME NEW g \in Settled', verdict'[g] \in {"pass", "vacuous"}
               PROVE  verdict'[g] \in Outcomes(g, canonical)
  BY <1>1 DEF VerdictsFresh
<1>3. g \in Functions
  BY DEF Settled
<1>4. CASE g = f
  BY <1>1, <1>4, RecordIsFresh
<1>5. CASE g # f
  <2>1. g \in Settled /\ verdict'[g] = verdict[g]
    BY <1>1, <1>3, <1>5 DEF Record, Settled, TypeOK
  <2>. QED  BY <1>2, <2>1 DEF HarnessInv, VerdictsFresh
<1>. QED  BY <1>4, <1>5

(* Without mutual recursion, every verdict that counts as verified is one  *)
(* CBMC can give on the canonical file as it is now.                       *)
THEOREM FreshCorrect == NoMutualRecursion => (Spec => []VerdictsFresh)
<1> SUFFICES ASSUME NoMutualRecursion PROVE Spec => []VerdictsFresh
  OBVIOUS
<1>1. Init => VerdictsFresh
  BY DEF Init, VerdictsFresh, Settled
<1>2. HarnessInv /\ [Next]_vars => VerdictsFresh'
  <2> SUFFICES ASSUME HarnessInv, [Next]_vars PROVE VerdictsFresh'
    OBVIOUS
  <2>1. TypeOK /\ VerdictsFresh
    BY DEF HarnessInv
  <2>2. ASSUME canonical' = canonical, verdict' = verdict, Settled' \subseteq Settled
        PROVE  VerdictsFresh'
    BY <2>1, <2>2 DEF VerdictsFresh
  <2>3. ASSUME NEW f \in Functions, Start(f) PROVE VerdictsFresh'
    BY <2>1, <2>2, <2>3 DEF Start, Settled, TypeOK
  <2>4. ASSUME NEW f \in Functions, Collect(f) PROVE VerdictsFresh'
    BY <2>1, <2>2, <2>4 DEF Collect, Settled, TypeOK
  <2>5. ASSUME NEW f \in Functions, Fork(f) PROVE VerdictsFresh'
    BY <2>1, <2>2, <2>5 DEF Fork, Settled, TypeOK
  <2>6. ASSUME NEW f \in Functions, Merge(f) PROVE VerdictsFresh'
    BY <2>6, MergeKeepsFresh
  <2>7. ASSUME NEW f \in Functions, Record(f) PROVE VerdictsFresh'
    BY <2>7, RecordKeepsFresh
  <2>8. ASSUME NEW f \in Functions, Rerun(f) PROVE VerdictsFresh'
    BY <2>1, <2>2, <2>8 DEF Rerun, Settled, TypeOK
  <2>9. ASSUME NEW f \in Functions, Finish(f) PROVE VerdictsFresh'
    BY <2>1, <2>2, <2>9 DEF Finish, Settled, TypeOK
  <2>10. CASE UNCHANGED vars
    BY <2>1, <2>2, <2>10 DEF vars, Settled
  <2>. QED  BY <2>3, <2>4, <2>5, <2>6, <2>7, <2>8, <2>9, <2>10
            DEF Next, Main, Worker, Finalize
<1>. QED  BY <1>1, <1>2, TypeCorrect, ActiveCorrect, OwnedCorrect,
             CalleesFirstCorrect, PTL DEF Spec, HarnessInv

(* A merge never overwrites another function's contract that is owned by a *)
(* live session or newer than the merging copy.                            *)
THEOREM NoLostUpdateCorrect == Spec => NoLostUpdate
<1>1. ASSUME TypeOK, [Next]_vars, NEW f \in Functions, phase[f] = "working",
             phase'[f] = "verifying", NEW g \in Functions \ {f},
             canonical'[g] # canonical[g]
      PROVE  g \notin active /\ canonical[g] = base[f][g]
  <2>1. ASSUME NEW h \in Functions, Merge(h)
        PROVE  g \notin active /\ canonical[g] = base[f][g]
    <3>1. PICK carried \in SUBSET (Functions \ {h}) : MergeEffect(h, carried)
      BY <1>1, <2>1, MergeStep
    <3>2. h = f
      BY <1>1, <3>1 DEF MergeEffect, TypeOK
    <3>. QED  BY <1>1, <3>1, <3>2 DEF MergeEffect
  <2>2. CASE canonical' = canonical
    BY <1>1, <2>2
  <2>. QED  BY <1>1, <2>1, <2>2 DEF Next, Main, Worker, Finalize, vars,
            Start, Collect, Fork, Record, Rerun, Finish
<1>2. TypeOK /\ [Next]_vars =>
        [\A f \in Functions :
           phase[f] = "working" /\ phase'[f] = "verifying" =>
             \A g \in Functions \ {f} :
               canonical'[g] # canonical[g] =>
                 g \notin active /\ canonical[g] = base[f][g]]_vars
  BY <1>1
<1>. QED  BY <1>2, TypeCorrect, PTL DEF Spec, NoLostUpdate

(* Without mutual recursion, a processed function that verified is never   *)
(* made to fail by a later merge.                                          *)
THEOREM VerifiedStaysCorrect ==
  NoMutualRecursion => (Spec => VerifiedStaysVerified)
<1> SUFFICES ASSUME NoMutualRecursion PROVE Spec => VerifiedStaysVerified
  OBVIOUS
<1>1. ASSUME TypeOK, [Next]_vars, NEW f \in done, verdict[f] = "pass"
      PROVE  f \in done' /\ verdict'[f] = "pass"
  <2> USE DEF done, TypeOK
  <2>1. ASSUME NEW g \in Functions, Start(g)
        PROVE  f \in done' /\ verdict'[f] = "pass"
    BY <1>1, <2>1 DEF Start, Ready
  <2>2. ASSUME NEW g \in Functions, Merge(g)
        PROVE  f \in done' /\ verdict'[f] = "pass"
    BY <1>1, <2>2, MergeStep DEF MergeEffect
  <2>3. ASSUME NEW g \in Functions,
               Collect(g) \/ Fork(g) \/ Record(g) \/ Rerun(g) \/ Finish(g)
        PROVE  f \in done' /\ verdict'[f] = "pass"
    BY <1>1, <2>3 DEF Collect, Fork, Record, Rerun, Finish
  <2>4. CASE UNCHANGED vars
    BY <1>1, <2>4 DEF vars
  <2>. QED  BY <1>1, <2>1, <2>2, <2>3, <2>4 DEF Next, Main, Worker, Finalize
<1>2. TypeOK /\ VerdictsFresh' /\ [Next]_vars =>
        [\A f \in done :
           verdict[f] = "pass" /\ "pass" \in Outcomes(f, canonical) =>
             verdict'[f] = "pass" /\ "pass" \in Outcomes(f, canonical')]_vars
  BY <1>1 DEF VerdictsFresh, Settled, done
<1>. QED  BY <1>2, TypeCorrect, FreshCorrect, PTL DEF Spec, VerifiedStaysVerified

-----------------------------------------------------------------------------
(* A merge is a commit of the abstract specification: the functions that   *)
(* are verified stay so, and each has a proof for the merged file.         *)
LEMMA MergeCommits ==
  ASSUME HarnessInv, VerdictsFresh', NEW f \in Functions, Merge(f)
  PROVE  Abstract!Commit(f)
<1> DEFINE verified == {g \in done : verdict[g] = "pass"}
<1>1. TypeOK /\ canonical' \in Files
  BY MergeType DEF HarnessInv, TypeOK
<1>2. PICK carried \in SUBSET (Functions \ {f}) : MergeEffect(f, carried)
  BY <1>1, MergeStep
<1>3. done' = done /\ f \notin done
  BY <1>1, <1>2 DEF done, MergeEffect, TypeOK
<1>4. Abstract!IsNext(f)
  BY <1>2, <1>3 DEF Abstract!IsNext, HarnessInv, CalleesDoneFirst, MergeEffect
<1>5. verified \subseteq verified' /\ verified' \subseteq done
  BY <1>2, <1>3 DEF MergeEffect, done
<1>6. \A g \in verified' : "pass" \in Outcomes(g, canonical')
  BY DEF VerdictsFresh, Settled, done
<1>. QED  BY <1>1, <1>3, <1>4, <1>5, <1>6
          DEF Abstract!Commit, Abstract!Passes, Files

(* The main thread's taking a result processes the function.               *)
LEMMA CollectProcesses ==
  ASSUME HarnessInv, NEW f \in Functions, Collect(f)
  PROVE  Abstract!Process(f)
<1> DEFINE verified == {g \in done : verdict[g] = "pass"}
<1>1. TypeOK /\ VerdictsFresh
  BY DEF HarnessInv
<1>2. phase[f] = "finished" /\ canonical' = canonical /\ verdict' = verdict
  BY DEF Collect
<1>3. f \notin done /\ done' = done \cup {f}
  BY <1>1, <1>2 DEF Collect, done, TypeOK
<1>4. Abstract!IsNext(f)
  BY <1>2, <1>3 DEF Abstract!IsNext, HarnessInv, CalleesDoneFirst
<1>5. CASE verdict[f] = "pass"
  <2>1. verified' = verified \cup {f}
    BY <1>2, <1>3, <1>5
  <2>2. "pass" \in Outcomes(f, canonical)
    BY <1>1, <1>2, <1>5 DEF VerdictsFresh, Settled
  <2>. QED  BY <1>2, <1>3, <1>4, <2>1, <2>2
            DEF Abstract!Process, Abstract!Passes
<1>6. CASE verdict[f] # "pass"
  <2>1. verified' = verified
    BY <1>2, <1>3, <1>6
  <2>. QED  BY <1>2, <1>3, <1>4, <2>1 DEF Abstract!Process
<1>. QED  BY <1>5, <1>6

(* Without mutual recursion, the harness implements VerifiedFile: every    *)
(* merge is a commit, every collected result a processed function, and     *)
(* nothing else is seen of forks, ground truths, reruns and rejections.    *)
THEOREM RefinementCorrect ==
  NoMutualRecursion => (Spec => ImplementsVerifiedFile)
<1> SUFFICES ASSUME NoMutualRecursion PROVE Spec => ImplementsVerifiedFile
  OBVIOUS
<1>1. Init => Abstract!Init
  BY DEF Init, Abstract!Init, done
<1>2. HarnessInv /\ VerdictsFresh' /\ [Next]_vars
      => [Abstract!Next]_(Abstract!vars)
  <2> SUFFICES ASSUME HarnessInv, VerdictsFresh', [Next]_vars
               PROVE  Abstract!Next \/ UNCHANGED Abstract!vars
    BY DEF Abstract!vars
  <2>1. TypeOK
    BY DEF HarnessInv
  <2>2. ASSUME canonical' = canonical, done' = done,
               \A g \in done : verdict'[g] = verdict[g]
        PROVE  UNCHANGED Abstract!vars
    BY <2>2 DEF Abstract!vars
  <2>3. ASSUME NEW f \in Functions, Start(f) PROVE UNCHANGED Abstract!vars
    BY <2>1, <2>2, <2>3 DEF Start, Ready, done, TypeOK
  <2>4. ASSUME NEW f \in Functions, Collect(f) PROVE Abstract!Next
    BY <2>4, CollectProcesses DEF Abstract!Next
  <2>5. ASSUME NEW f \in Functions, Merge(f) PROVE Abstract!Next
    BY <2>5, MergeCommits DEF Abstract!Next
  <2>6. ASSUME NEW f \in Functions, Record(f) PROVE UNCHANGED Abstract!vars
    BY <2>1, <2>2, <2>6 DEF Record, done, TypeOK
  <2>7. ASSUME NEW f \in Functions, Fork(f) \/ Rerun(f) \/ Finish(f)
        PROVE  UNCHANGED Abstract!vars
    BY <2>1, <2>2, <2>7 DEF Fork, Rerun, Finish, done, TypeOK
  <2>8. CASE UNCHANGED vars
    BY <2>2, <2>8 DEF vars, done
  <2>. QED  BY <2>3, <2>4, <2>5, <2>6, <2>7, <2>8
            DEF Next, Main, Worker, Finalize
<1>. QED  BY <1>1, <1>2, TypeCorrect, ActiveCorrect, OwnedCorrect,
             CalleesFirstCorrect, FreshCorrect, PTL
          DEF Spec, HarnessInv, ImplementsVerifiedFile, Abstract!Spec

-----------------------------------------------------------------------------
(* Among functions that remain, one has the smallest rank.                 *)
LEMMA LeastRank ==
  ASSUME NEW T, T \subseteq Functions, T # {}
  PROVE  \E f \in T : \A g \in T : Rank[f] <= Rank[g]
<1> DEFINE ranks == {Rank[f] : f \in T}
           less == OpToRel(<, Nat)
<1>1. less = {pair \in Nat \X Nat : pair[1] < pair[2]}
  BY Zenon DEF OpToRel
<1>2. ranks \subseteq Nat /\ ranks # {}
  BY OrderAssumption
<1>3. IsWellFoundedOn(less, Nat)
  BY NatLessThanWellFounded, Zenon
<1> HIDE DEF ranks, less
<1>4. PICK m \in ranks : \A n \in ranks : <<n, m>> \notin less
  BY <1>2, <1>3, WFMin
<1>5. ASSUME NEW n \in Nat, n < m PROVE <<n, m>> \in less
  <2>1. <<n, m>> \in Nat \X Nat /\ <<n, m>>[1] < <<n, m>>[2]
    BY <1>2, <1>4, <1>5
  <2>. QED  BY <1>1, <2>1, Zenon
<1>6. \A n \in ranks : m <= n
  <2>1. \A n \in ranks : ~(n < m)
    BY <1>2, <1>4, <1>5
  <2>. QED  BY <1>2, <2>1
<1>. QED  BY <1>6 DEF ranks

(* When nothing runs and nothing is ready, nothing is left: the earliest   *)
(* function that is not processed would be ready.                          *)
LEMMA StopsLate == TypeOK => StopsOnlyWhenDone
<1> SUFFICES ASSUME TypeOK, inFlight = {}, Ready = {}
             PROVE  done = Functions
  BY DEF StopsOnlyWhenDone, Stopped
<1> DEFINE waiting == Functions \ done
<1>1. \A f \in waiting : phase[f] = "pending"
  BY DEF inFlight, done, TypeOK
<1> SUFFICES ASSUME waiting # {} PROVE FALSE
  BY DEF done
<1>2. PICK f \in waiting : \A g \in waiting : Rank[f] <= Rank[g]
  BY LeastRank
<1>3. \A g \in Callees[f] : Rank[g] < Rank[f] => g \in done
  BY <1>2, CalleesAssumption, OrderAssumption
<1>4. f \in Ready
  BY <1>1, <1>2, <1>3 DEF Ready
<1>. QED  BY <1>4

(* Whatever the call graph, the main loop never stops with a function that *)
(* waits: the earliest of them is always ready.                            *)
THEOREM StopCorrect == Spec => []StopsOnlyWhenDone
BY StopsLate, TypeCorrect, PTL

=============================================================================

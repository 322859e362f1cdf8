----------------------------- MODULE Looks_proofs -----------------------------
(***************************************************************************)
(* The floor of delta.py holds for all counts: the properties of Looks,    *)
(* from the types of the two looks alone.                                  *)
(***************************************************************************)
EXTENDS Looks, TLAPS

\* The two looks that are compared are looks; the older may be missing.
LooksTyped == old \in Looked \cup {NoSnapshot} /\ new \in Looked

LEMMA LooksAreLooks == Spec => []LooksTyped
<1>1. Init => LooksTyped
  BY DEF Init, LooksTyped
<1>2. LooksTyped /\ [Look]_vars => LooksTyped'
  BY DEF LooksTyped, Look, vars
<1>3. QED
  BY <1>1, <1>2, PTL DEF Spec

\* What a comparable pair is made of.
LEMMA ComparableCounts ==
  ASSUME LooksTyped, Comparable
  PROVE  /\ old.counts \in SmallCounts /\ new.counts \in SmallCounts
         /\ delta = Compared(old.counts, new.counts)
<1>1. old \in Looked /\ new \in Looked
  BY DEF LooksTyped, Comparable
<1>2. old.complete = TRUE /\ new.complete = TRUE
  BY <1>1 DEF Comparable, Looked
<1>3. QED
  BY <1>1, <1>2 DEF Comparable, Looked, delta, DiffSnapshots

\* A pair that is not comparable is refused by a guard.
LEMMA NotComparableRefused ==
  ASSUME LooksTyped, ~Comparable
  PROVE  \/ delta = NotCompared(FALSE, "first")
         \/ delta = NotCompared(TRUE, "incomplete")
         \/ delta = NotCompared(TRUE, "query")
  BY DEF LooksTyped, Comparable, delta, DiffSnapshots

\* A pair the guards refuse yields no number and no escalation.
LEMMA RefusedStep == LooksTyped => RefusedMeansSilent
<1> SUFFICES ASSUME LooksTyped, ~Comparable
             PROVE  RuleVerdict(delta) = "decline" /\ delta.newFatal = 0 /\ delta.reportsChange = 0
  BY DEF RefusedMeansSilent
<1>1. QED
  BY NotComparableRefused DEF NotCompared, RuleVerdict

\* The fields of a delta the arithmetic has made.
LEMMA ComparedFields ==
  ASSUME NEW o, NEW n
  PROVE  /\ Compared(o, n).newFatal = Rise(o.fatal, n.fatal)
         /\ Compared(o, n).newSevere = Rise(o.severe, n.severe)
         /\ Compared(o, n).newCollisions = Rise(o.collisions, n.collisions)
         /\ Compared(o, n).unreliable = FALSE
         /\ Compared(o, n).reportsChange = n.reports - o.reports
  BY Zenon DEF Compared

\* What it means for such a delta to be empty.
LEMMA ComparedEmpty ==
  ASSUME NEW o, NEW n, Compared(o, n).empty
  PROVE  /\ Rise(o.collisions, n.collisions) = 0 /\ Rise(o.fatal, n.fatal) = 0
         /\ Rise(o.severe, n.severe) = 0 /\ n.reports - o.reports = 0
  BY Zenon DEF Compared

\* What the rules read of a pair the guards let through.
LEMMA RisesAreCounted ==
  ASSUME LooksTyped, Comparable
  PROVE  /\ delta.newFatal > 0 <=> Rose("fatal")
         /\ delta.newSevere > 0 <=> Rose("severe")
         /\ delta.newCollisions > 0 <=> Rose("collisions")
         /\ delta.newFatal \in Nat /\ delta.newSevere \in Nat /\ delta.newCollisions \in Nat
         /\ delta.unreliable = FALSE
<1>1. /\ old.counts.fatal \in Nat /\ new.counts.fatal \in Nat
      /\ old.counts.severe \in Nat /\ new.counts.severe \in Nat
      /\ old.counts.collisions \in Nat /\ new.counts.collisions \in Nat
  BY ComparableCounts, LooksAssumption DEF SmallCounts, LooksAssumption
<1>2. delta = Compared(old.counts, new.counts)
  BY ComparableCounts
<1>3. /\ delta.newFatal = Rise(old.counts.fatal, new.counts.fatal)
      /\ delta.newSevere = Rise(old.counts.severe, new.counts.severe)
      /\ delta.newCollisions = Rise(old.counts.collisions, new.counts.collisions)
  <2>1. PICK o, n : o = old.counts /\ n = new.counts
    OBVIOUS
  <2>2. /\ Compared(o, n).newFatal = Rise(o.fatal, n.fatal)
        /\ Compared(o, n).newSevere = Rise(o.severe, n.severe)
        /\ Compared(o, n).newCollisions = Rise(o.collisions, n.collisions)
    BY ComparedFields, Zenon
  <2>3. QED
    BY <1>2, <2>1, <2>2, Zenon
<1>4. delta.unreliable = FALSE
  BY <1>2, ComparedFields
<1>5. QED
  BY <1>1, <1>3, <1>4 DEF Rise, Rose

\* The floor escalates exactly a comparable rise of deaths or severe injuries,
\* whatever else the counts do.
LEMMA FloorStep == LooksTyped => FloorIsExact
<1> SUFFICES ASSUME LooksTyped PROVE FloorIsExact
  OBVIOUS
<1>1. CASE ~Comparable
  BY <1>1, RefusedStep DEF FloorIsExact, RefusedMeansSilent
<1>2. CASE Comparable
  BY <1>2, RisesAreCounted DEF FloorIsExact, RuleVerdict
<1>3. QED
  BY <1>1, <1>2

\* A delta declared empty has no lane that rose and no 311 change.
LEMMA NothingCancelledStep == LooksTyped => NothingCancelled
<1> SUFFICES ASSUME LooksTyped, Comparable, delta.empty
             PROVE  /\ \A lane \in {"collisions", "fatal", "severe"} : ~Rose(lane)
                    /\ new.counts.reports = old.counts.reports
  BY DEF NothingCancelled
<1>1. /\ Rise(old.counts.collisions, new.counts.collisions) = 0
      /\ Rise(old.counts.fatal, new.counts.fatal) = 0
      /\ Rise(old.counts.severe, new.counts.severe) = 0
      /\ new.counts.reports - old.counts.reports = 0
  BY ComparableCounts, ComparedEmpty
<1>2. /\ old.counts.fatal \in Nat /\ new.counts.fatal \in Nat
      /\ old.counts.severe \in Nat /\ new.counts.severe \in Nat
      /\ old.counts.collisions \in Nat /\ new.counts.collisions \in Nat
      /\ old.counts.reports \in Nat /\ new.counts.reports \in Nat
  BY ComparableCounts, LooksAssumption DEF SmallCounts, LooksAssumption
<1>3. QED
  BY <1>1, <1>2 DEF Rise, Rose

\* For all counts, the floor of rule_verdict is exact.
THEOREM FloorHolds == Spec => []FloorIsExact
  BY LooksAreLooks, FloorStep, PTL

\* For all counts, a fall in one lane never cancels a rise in another.
THEOREM NothingIsCancelled == Spec => []NothingCancelled
  BY LooksAreLooks, NothingCancelledStep, PTL

\* For all looks, a pair that cannot be subtracted yields no number.
THEOREM RefusalIsSilent == Spec => []RefusedMeansSilent
  BY LooksAreLooks, RefusedStep, PTL
=============================================================================

-------------------------------- MODULE Delta --------------------------------
(***************************************************************************)
(* delta.py: comparing two snapshots of one corner, and the rules that     *)
(* decide before any model is consulted.  Pure operators, no state.        *)
(*                                                                         *)
(* A snapshot is what one fetch returned: the counts of the four lanes and *)
(* the supervisor district, the fingerprint of the query that was asked,   *)
(* and whether every lane answered.  The note of a delta is kept as what   *)
(* the code reads back from it, why nothing could be compared.             *)
(***************************************************************************)
EXTENDS Integers

CONSTANT NoSnapshot     \* None: there is no stored baseline

NoDistrict == 0         \* Counts.district is None

Counts == [collisions : Nat, fatal : Nat, severe : Nat, reports : Nat, district : Nat]

\* max(0, n - o)
Rise(o, n) == IF n > o THEN n - o ELSE 0

\* The deltas of the guards: no arithmetic was done.
NotCompared(isUnreliable, because) ==
    [newCollisions |-> 0, newFatal |-> 0, newSevere |-> 0, reportsChange |-> 0,
     districtChanged |-> FALSE, empty |-> TRUE, unreliable |-> isUnreliable,
     why |-> because]

DistrictChanged(o, n) ==
    o.district # NoDistrict /\ n.district # NoDistrict /\ o.district # n.district

\* Mutant of Compared: empty when the counts balance.
ComparedNet(o, n) ==
    LET collisions == Rise(o.collisions, n.collisions)
        fatal == Rise(o.fatal, n.fatal)
        severe == Rise(o.severe, n.severe)
        reports == n.reports - o.reports
        moved == DistrictChanged(o, n)
        net == (n.collisions - o.collisions) + (n.fatal - o.fatal) + (n.severe - o.severe) + reports
    IN [newCollisions |-> collisions, newFatal |-> fatal, newSevere |-> severe,
        reportsChange |-> reports, districtChanged |-> moved,
        empty |-> net = 0 /\ ~moved,
        unreliable |-> FALSE, why |-> ""]

\* The arithmetic, once every guard has let the pair through.
Compared(o, n) ==
    LET collisions == Rise(o.collisions, n.collisions)
        fatal == Rise(o.fatal, n.fatal)
        severe == Rise(o.severe, n.severe)
        reports == n.reports - o.reports
        moved == DistrictChanged(o, n)
    IN [newCollisions |-> collisions, newFatal |-> fatal, newSevere |-> severe,
        reportsChange |-> reports, districtChanged |-> moved,
        empty |-> collisions = 0 /\ fatal = 0 /\ severe = 0 /\ reports = 0 /\ ~moved,
        unreliable |-> FALSE, why |-> ""]

\* Mutant of DiffSnapshots: the fingerprints of the queries are not compared.
DiffAnyQuery(old, new) ==
    IF old = NoSnapshot THEN NotCompared(FALSE, "first")
    ELSE IF ~old.complete \/ ~new.complete THEN NotCompared(TRUE, "incomplete")
    ELSE Compared(old.counts, new.counts)

\* diff_snapshots: a first look, an unreliable pair, or the arithmetic.
DiffSnapshots(old, new) ==
    IF old = NoSnapshot THEN NotCompared(FALSE, "first")
    ELSE IF ~old.complete \/ ~new.complete THEN NotCompared(TRUE, "incomplete")
    ELSE IF old.query # new.query THEN NotCompared(TRUE, "query")
    ELSE Compared(old.counts, new.counts)

\* Mutants of RuleVerdict: a fatality is left to the tier; 311 settles it first.
VerdictAsks(delta) ==
    IF delta.unreliable \/ delta.empty THEN "decline" ELSE "ask"

VerdictReportsFirst(delta) ==
    IF delta.unreliable \/ delta.empty THEN "decline"
    ELSE IF delta.reportsChange < 0 THEN "ask"
    ELSE IF delta.newFatal > 0 \/ delta.newSevere > 0 THEN "escalate"
    ELSE "ask"

\* rule_verdict: the floor, or "ask" for the ambiguous middle.
RuleVerdict(delta) ==
    IF delta.unreliable THEN "decline"
    ELSE IF delta.newFatal > 0 \/ delta.newSevere > 0 THEN "escalate"
    ELSE IF delta.empty THEN "decline"
    ELSE "ask"

\* Observer._basis: which rule settled it.
RuleBasis(old, delta) ==
    IF delta.unreliable
      THEN CASE delta.why = "query" -> "methodology"
             [] delta.why = "quarantine" -> "corrupt_baseline"
             [] OTHER -> "unreliable"
    ELSE IF old = NoSnapshot THEN "first_sighting"
    ELSE IF delta.newFatal > 0 THEN "rule_fatal"
    ELSE IF delta.newSevere > 0 THEN "rule_severe"
    ELSE "no_change"
=============================================================================

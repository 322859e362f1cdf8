-------------------------------- MODULE Looks --------------------------------
(***************************************************************************)
(* One corner looked at again and again, each look compared with the one   *)
(* before: the behaviours over which the operators of Delta are checked.   *)
(***************************************************************************)
EXTENDS Delta

CONSTANTS MaxCount,     \* bound: the counts of a look
          Queries       \* the query fingerprints a deployment has used

VARIABLES old, new      \* the stored baseline and the look compared with it

vars == <<old, new>>

\* A lane that failed counts zero; fatal is people killed, not collisions.
SmallCounts == [collisions : 0..MaxCount, fatal : 0..MaxCount, severe : 0..MaxCount,
                reports : 0..MaxCount, district : 0..MaxCount + 1]

Looked == [counts : SmallCounts, query : Queries, complete : BOOLEAN]

ASSUME LooksAssumption == MaxCount \in Nat /\ NoSnapshot \notin Looked

Init == old = NoSnapshot /\ new \in Looked

\* The next look: a complete one has become the baseline.
Look ==
    /\ old' = IF new.complete THEN new ELSE old
    /\ new' \in Looked

Spec == Init /\ [][Look]_vars

-----------------------------------------------------------------------------
delta == DiffSnapshots(old, new)

\* The pair can be subtracted.
Comparable == old # NoSnapshot /\ old.complete /\ new.complete /\ old.query = new.query

Rose(lane) == new.counts[lane] > old.counts[lane]

\* The floor cannot be talked out of a death or a severe injury, and nothing
\* else escalates without a tier: whatever fell or rose besides.
FloorIsExact ==
    (RuleVerdict(delta) = "escalate") <=> (Comparable /\ (Rose("fatal") \/ Rose("severe")))

\* A fall in one lane never cancels a rise in another: what is declared empty
\* rose nowhere, and its 311 count and district are the same.
NothingCancelled ==
    (Comparable /\ delta.empty) =>
        /\ \A lane \in {"collisions", "fatal", "severe"} : ~Rose(lane)
        /\ new.counts.reports = old.counts.reports

\* A pair that cannot be subtracted yields no number: nothing a tier or the
\* floor could read as a change at the corner.
RefusedMeansSilent ==
    ~Comparable => (RuleVerdict(delta) = "decline" /\ delta.newFatal = 0 /\ delta.reportsChange = 0)
=============================================================================

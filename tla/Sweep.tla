-------------------------------- MODULE Sweep --------------------------------
(***************************************************************************)
(* observer.py: sweeps of the watched corners.  A sweep journals the       *)
(* roster drops, fetches every corner, and then settles the corners one    *)
(* after the other: compare with the stored baseline, store the new one,   *)
(* and only then decide, journaling a decline or publishing an escalation. *)
(*                                                                         *)
(* Several processes may sweep over the same store (Cloud Run starts up to *)
(* three observers and no lock is taken there); a sweep may die between    *)
(* any two steps, by a crash or by an exception nobody catches, a failed   *)
(* publish among them.                                                     *)
(***************************************************************************)
EXTENDS Delta, Sequences

CONSTANTS
    Sweeper,            \* processes that may sweep
    NumCorners,         \* the corners are 1..NumCorners, swept in this order
    Records,            \* the counts the city may show for a corner
    Queries,            \* the query fingerprints a deployment may use
    LaneGroups,         \* the lanes in the order a fetch reads them; bound: those
                        \* in one group are read in one instant
    LaneFailures,       \* sets of lanes that may fail together in one instant
    JunkLanes,          \* sets of lanes that may answer junk together: a null, a
                        \* text or another key where the number should be
    Garbled,            \* a stored snapshot that from_dict refuses
    Failed,             \* a fetch that raised
    TokenLimit,         \* DAILY_TOKEN_BUDGET; 0 is no ceiling
    Tier1Cost,          \* Cost.for_tiers("tier1").projected_total
    MovesAside,         \* LocalJsonStore moves a bad file, Firestore marks it
    Dying               \* may a sweep die?

Corner == 1..NumCorners

Lanes == {"collisions", "fatal", "severe", "reports", "district"}

\* misread is history, no field of the code: the lanes that had a number and
\* of which the look has a zero that counts as an answer.
Snapshot == [counts : Counts, query : Queries, complete : BOOLEAN, misread : SUBSET Lanes]

ASSUME SweepAssumption ==
    /\ NumCorners \in Nat
    /\ Records \subseteq Counts
    /\ LaneGroups \in Seq(SUBSET Lanes)
    /\ UNION {LaneGroups[i] : i \in 1..Len(LaneGroups)} = Lanes
    /\ JunkLanes \subseteq SUBSET Lanes
    /\ TokenLimit \in Nat /\ Tier1Cost \in Nat \ {0}
    /\ MovesAside \in BOOLEAN /\ Dying \in BOOLEAN
ASSUME ValuesAssumption ==
    /\ NoSnapshot \notin Snapshot /\ Garbled \notin Snapshot /\ Garbled # NoSnapshot
    /\ Failed \notin Snapshot

VARIABLES
    city,       \* city[c]: the counts DataSF holds for corner c now
    query,      \* the fingerprint of the deployed query
    roster,     \* the watched corners
    baseline,   \* baseline[c]: the stored snapshot of c
    phase,      \* phase[s]: where sweeper s is
    at,         \* at[s]: the corner s is settling
    watching,   \* watching[s]: the corners the sweep of s was given
    lanesRead,  \* lanesRead[s][c]: groups of lanes the fetch of c has read
    fresh,      \* fresh[s][c]: what the fetch of c has returned to s so far
    old,        \* old[s]: the baseline s read for corner at[s]
    spent,      \* spent[s]: projected tokens, a budget per run
    record,     \* record[s][c]: what this sweep of s left on record about c
    shown,      \* history: the counts the city has shown at c
    accounted,  \* history: the most fatalities at c that are on record
    lost        \* history: corners a sweep died on, stored but not settled

vars == <<city, query, roster, baseline, phase, at, watching, lanesRead, fresh, old, spent,
          record, shown, accounted, lost>>

world == <<city, query, roster, shown>>

Phase == {"idle", "fetch", "read", "store", "decide", "publish", "dead"}

Basis == {"roster_drop", "fetch_failed", "unreliable", "methodology", "corrupt_baseline",
          "first_sighting", "no_change", "budget_exhausted", "triage", "escalated"}

Larger(a, b) == IF a > b THEN a ELSE b

\* A look before its first lane is read, stamped with the query it will ask.
Unread == [counts |-> [lane \in Lanes |-> 0], query |-> query, complete |-> TRUE,
           misread |-> {}]

-----------------------------------------------------------------------------
Init ==
    /\ city \in [Corner -> Records]
    /\ query \in Queries
    /\ roster = Corner
    /\ baseline = [c \in Corner |-> NoSnapshot]
    /\ phase = [s \in Sweeper |-> "idle"]
    /\ at = [s \in Sweeper |-> 0]
    /\ watching = [s \in Sweeper |-> {}]
    /\ lanesRead = [s \in Sweeper |-> [c \in Corner |-> 0]]
    /\ fresh = [s \in Sweeper |-> [c \in Corner |-> Unread]]
    /\ old = [s \in Sweeper |-> NoSnapshot]
    /\ spent = [s \in Sweeper |-> 0]
    /\ record = [s \in Sweeper |-> [c \in Corner |-> <<>>]]
    /\ shown = [c \in Corner |-> {city[c]}]
    /\ accounted = [c \in Corner |-> 0]
    /\ lost = {}

\* The city publishes, reclassifies or withdraws records at c.
CityChanges(c) ==
    /\ \E r \in Records \ {city[c]} :
         /\ city' = [city EXCEPT ![c] = r]
         /\ shown' = [shown EXCEPT ![c] = @ \cup {r}]
    /\ UNCHANGED <<query, roster, baseline, phase, at, watching, lanesRead, fresh, old, spent,
                   record, accounted, lost>>

\* A deployment with another radius, window or vocabulary: the sweeps that have
\* started go on asking the query they were started with.
Redeploy ==
    /\ query' \in Queries \ {query}
    /\ UNCHANGED <<city, roster, baseline, phase, at, watching, lanesRead, fresh, old, spent,
                   record, shown, accounted, lost>>

\* The watched set is refreshed from the site's busiest corners.
RosterChanges ==
    /\ roster' \in (SUBSET Corner) \ {roster}
    /\ UNCHANGED <<city, query, baseline, phase, at, watching, lanesRead, fresh, old, spent,
                   record, shown, accounted, lost>>

\* Something outside the program leaves an unreadable snapshot in the store.
Garble(c) ==
    /\ baseline[c] \in Snapshot
    /\ baseline' = [baseline EXCEPT ![c] = Garbled]
    /\ UNCHANGED <<world, phase, at, watching, lanesRead, fresh, old, spent, record, accounted, lost>>

\* sweep(): journal the roster drops (all_snapshots passes over a snapshot it
\* cannot read), then ask for every corner.
Start(s) ==
    /\ phase[s] \in {"idle", "dead"}
    /\ phase' = [phase EXCEPT ![s] = "fetch"]
    /\ at' = [at EXCEPT ![s] = 0]
    /\ watching' = [watching EXCEPT ![s] = roster]
    /\ lanesRead' = [lanesRead EXCEPT ![s] = [c \in Corner |-> 0]]
    /\ fresh' = [fresh EXCEPT ![s] = [c \in Corner |-> Unread]]
    /\ old' = [old EXCEPT ![s] = NoSnapshot]
    /\ spent' = [spent EXCEPT ![s] = 0]
    /\ record' = [record EXCEPT ![s] = [c \in Corner |->
                    IF c \notin roster /\ baseline[c] \in Snapshot
                      THEN <<"roster_drop">> ELSE <<>>]]
    /\ UNCHANGED <<world, baseline, accounted, lost>>

\* Mutant of Lane: a lane without a number reads as minus one.
LaneSentinel(mute, lane, n) == IF lane \in mute THEN -1 ELSE n

\* A lane that failed or answered junk counts zero, a district of zero is None.
Lane(mute, lane, n) == IF lane \in mute THEN 0 ELSE n

\* The look, once the lanes of a group have been read from r.  A lane that
\* raises, or answers in another shape (no list, no row, no count key), has
\* failed: the look is partial.  One that answers junk (_as_int of what is no
\* number, a sum under another key, district rows that name none) has not.
WithLanes(look, r, group, failed, junk) ==
    [counts |-> [lane \in Lanes |-> IF lane \in group THEN Lane(failed \cup junk, lane, r[lane])
                                                      ELSE look.counts[lane]],
     query |-> look.query,
     complete |-> look.complete /\ failed = {},
     misread |-> look.misread \cup {lane \in junk : r[lane] # 0}]

\* fetch_corner_records reads one lane after the other, and the city may change
\* in between.  The corners are fetched concurrently, in any order.
ReadLanes(s, c) ==
    /\ phase[s] = "fetch" /\ c \in watching[s]
    /\ fresh[s][c] # Failed /\ lanesRead[s][c] < Len(LaneGroups)
    /\ lanesRead' = [lanesRead EXCEPT ![s][c] = @ + 1]
    /\ LET group == LaneGroups[lanesRead[s][c] + 1] IN
       \E outage \in LaneFailures \cup {{}}, junk \in JunkLanes \cup {{}} :
         fresh' = [fresh EXCEPT ![s][c] =
                     WithLanes(@, city[c], group, outage \cap group, junk \cap group)]
    /\ UNCHANGED <<world, baseline, phase, at, watching, old, spent, record, accounted, lost>>

\* The fetch of one corner raises before it asks for a lane.
FetchRaises(s, c) ==
    /\ phase[s] = "fetch" /\ c \in watching[s]
    /\ fresh[s][c] # Failed /\ lanesRead[s][c] = 0
    /\ fresh' = [fresh EXCEPT ![s][c] = Failed]
    /\ UNCHANGED <<world, baseline, phase, at, watching, lanesRead, old, spent, record,
                   accounted, lost>>

\* On to the next corner in order, or the sweep is over.
Advance(s) ==
    LET left == {c \in watching[s] : c > at[s]} IN
    \/ /\ left = {}
       /\ phase' = [phase EXCEPT ![s] = "idle"]
       /\ at' = [at EXCEPT ![s] = 0]
    \/ \E c \in left :
         /\ \A d \in left : c <= d
         /\ phase' = [phase EXCEPT ![s] = "read"]
         /\ at' = [at EXCEPT ![s] = c]

\* Every result is in, one per corner: deciding is sequential from here.
FetchesDone(s) ==
    /\ phase[s] = "fetch"
    /\ \A c \in watching[s] : fresh[s][c] = Failed \/ lanesRead[s][c] = Len(LaneGroups)
    /\ Advance(s)
    /\ UNCHANGED <<world, baseline, watching, lanesRead, fresh, old, spent, record, accounted, lost>>

Mine(s) == fresh[s][at[s]]

\* What s leaves on record about the corner it is settling.
Leave(s, basis) == record' = [record EXCEPT ![s][at[s]] = Append(@, basis)]

\* The fetch raised: journaled, and the baseline is not touched.
FetchFailed(s) ==
    /\ phase[s] = "read"
    /\ Mine(s) = Failed
    /\ Leave(s, "fetch_failed")
    /\ Advance(s)
    /\ UNCHANGED <<world, baseline, watching, lanesRead, fresh, old, spent, accounted, lost>>

\* store.get_snapshot, which quarantines what it cannot read.
ReadBaseline(s) ==
    /\ phase[s] = "read"
    /\ Mine(s) # Failed
    /\ old' = [old EXCEPT ![s] = baseline[at[s]]]
    /\ baseline' = IF baseline[at[s]] = Garbled /\ MovesAside
                     THEN [baseline EXCEPT ![at[s]] = NoSnapshot] ELSE baseline
    /\ phase' = [phase EXCEPT ![s] = "store"]
    /\ UNCHANGED <<world, at, watching, lanesRead, fresh, spent, record, accounted, lost>>

\* Mutants of StoreBaseline: a partial fetch is stored too; a new baseline is
\* stored only in place of one it could be compared with, or of none.
StoreAlways(s) ==
    /\ phase[s] = "store"
    /\ baseline' = [baseline EXCEPT ![at[s]] = Mine(s)]
    /\ phase' = [phase EXCEPT ![s] = "decide"]
    /\ UNCHANGED <<world, at, watching, lanesRead, fresh, old, spent, record, accounted, lost>>

StoreComparable(s) ==
    /\ phase[s] = "store"
    /\ baseline' = IF Mine(s).complete
                      /\ old[s] # Garbled
                      /\ (old[s] \in Snapshot => old[s].query = Mine(s).query)
                     THEN [baseline EXCEPT ![at[s]] = Mine(s)] ELSE baseline
    /\ phase' = [phase EXCEPT ![s] = "decide"]
    /\ UNCHANGED <<world, at, watching, lanesRead, fresh, old, spent, record, accounted, lost>>

\* put_snapshot when every lane answered, else the last good baseline stays.
StoreBaseline(s) ==
    /\ phase[s] = "store"
    /\ baseline' = IF Mine(s).complete THEN [baseline EXCEPT ![at[s]] = Mine(s)]
                                       ELSE baseline
    /\ phase' = [phase EXCEPT ![s] = "decide"]
    /\ UNCHANGED <<world, at, watching, lanesRead, fresh, old, spent, record, accounted, lost>>

\* Mutant of TheDelta: the baseline is read again, after the new one is stored.
TheDeltaReread(s) ==
    IF old[s] = Garbled
      THEN [DiffSnapshots(NoSnapshot, Mine(s)) EXCEPT !.unreliable = TRUE, !.why = "quarantine"]
      ELSE DiffSnapshots(IF baseline[at[s]] = Garbled THEN NoSnapshot ELSE baseline[at[s]], Mine(s))

\* The delta, marked when the baseline it should have had was quarantined.
TheDelta(s) ==
    IF old[s] = Garbled
      THEN [DiffSnapshots(NoSnapshot, Mine(s)) EXCEPT !.unreliable = TRUE, !.why = "quarantine"]
      ELSE DiffSnapshots(old[s], Mine(s))

\* The bases that put the corner's counts on record, whatever they were before.
NewBaseline == {"first_sighting", "methodology", "corrupt_baseline"}

Account(s) ==
    accounted' = [accounted EXCEPT ![at[s]] = Larger(@, Mine(s).counts.fatal)]

\* A decline is journaled by the observer, and the corner is settled.
Decline(s, basis) ==
    /\ Leave(s, basis)
    /\ IF basis \in NewBaseline /\ Mine(s).complete THEN Account(s) ELSE UNCHANGED accounted
    /\ Advance(s)
    /\ UNCHANGED <<world, baseline, watching, lanesRead, fresh, old, lost>>

Escalate(s) ==
    /\ phase' = [phase EXCEPT ![s] = "publish"]
    /\ UNCHANGED <<world, baseline, at, watching, lanesRead, fresh, old, record, accounted, lost>>

\* The floor settles it, one way or the other, and no tier is consulted.
RuleDeclines(s) ==
    /\ phase[s] = "decide"
    /\ RuleVerdict(TheDelta(s)) = "decline"
    /\ Decline(s, RuleBasis(IF old[s] = Garbled THEN NoSnapshot ELSE old[s], TheDelta(s)))
    /\ UNCHANGED spent

RuleEscalates(s) ==
    /\ phase[s] = "decide"
    /\ RuleVerdict(TheDelta(s)) = "escalate"
    /\ Escalate(s)
    /\ UNCHANGED spent

\* TokenBudget.take: reserve a projected call or refuse it.
CanTake(s) == TokenLimit = 0 \/ spent[s] + Tier1Cost <= TokenLimit

Take(s) == spent' = [spent EXCEPT ![s] = @ + Tier1Cost]

\* Mutant of BudgetExhausted: the corner is passed over in silence.
BudgetSilent(s) ==
    /\ phase[s] = "decide"
    /\ RuleVerdict(TheDelta(s)) = "ask"
    /\ ~CanTake(s)
    /\ Advance(s)
    /\ UNCHANGED <<world, baseline, watching, lanesRead, fresh, old, spent, record, accounted, lost>>

BudgetExhausted(s) ==
    /\ phase[s] = "decide"
    /\ RuleVerdict(TheDelta(s)) = "ask"
    /\ ~CanTake(s)
    /\ Decline(s, "budget_exhausted")
    /\ UNCHANGED spent

\* Tier one judges the ambiguous middle, either way.
TriageDeclines(s) ==
    /\ phase[s] = "decide"
    /\ RuleVerdict(TheDelta(s)) = "ask"
    /\ CanTake(s) /\ Take(s)
    /\ Decline(s, "triage")

TriageEscalates(s) ==
    /\ phase[s] = "decide"
    /\ RuleVerdict(TheDelta(s)) = "ask"
    /\ CanTake(s) /\ Take(s)
    /\ Escalate(s)

\* The bus took the escalation; the observer journals nothing about it.
Publish(s) ==
    /\ phase[s] = "publish"
    /\ Leave(s, "escalated")
    /\ Account(s)
    /\ Advance(s)
    /\ UNCHANGED <<world, baseline, watching, lanesRead, fresh, old, spent, lost>>

\* publish raised, a timeout say: the message may be out, the sweep is dead.
PublishFails(s) ==
    /\ Dying
    /\ phase[s] = "publish"
    /\ phase' = [phase EXCEPT ![s] = "dead"]
    /\ Account(s) \/ UNCHANGED accounted
    /\ lost' = IF Mine(s).complete THEN lost \cup {at[s]} ELSE lost
    /\ UNCHANGED <<world, baseline, at, watching, lanesRead, fresh, old, spent, record>>

\* A crash, a timeout of the request, or an exception of the store.
Die(s) ==
    /\ Dying
    /\ phase[s] \in {"fetch", "read", "store", "decide"}
    /\ phase' = [phase EXCEPT ![s] = "dead"]
    /\ lost' = IF phase[s] = "decide" /\ Mine(s).complete THEN lost \cup {at[s]} ELSE lost
    /\ UNCHANGED <<world, baseline, at, watching, lanesRead, fresh, old, spent, record, accounted>>

SweepStep(s) ==
    \/ \E c \in Corner : ReadLanes(s, c) \/ FetchRaises(s, c)
    \/ FetchesDone(s) \/ FetchFailed(s) \/ ReadBaseline(s) \/ StoreBaseline(s)
    \/ RuleDeclines(s) \/ RuleEscalates(s) \/ BudgetExhausted(s)
    \/ TriageDeclines(s) \/ TriageEscalates(s) \/ Publish(s)

Next ==
    \/ \E c \in Corner : CityChanges(c) \/ Garble(c)
    \/ Redeploy \/ RosterChanges
    \/ \E s \in Sweeper : Start(s) \/ SweepStep(s) \/ PublishFails(s) \/ Die(s)

Spec == Init /\ [][Next]_vars

\* The last lanes of a look in which no lane failed.
LookSucceeds(s, c) ==
    ReadLanes(s, c) /\ fresh'[s][c].complete /\ lanesRead'[s][c] = Len(LaneGroups)

\* The scheduler starts one sweep after another, a sweep that does not die goes
\* on, and DataSF does not fail on every sweep for ever.
Fairness ==
    \A s \in Sweeper :
        /\ WF_vars(Start(s)) /\ WF_vars(SweepStep(s))
        /\ \A c \in Corner : SF_vars(LookSucceeds(s, c))

FairSpec == Spec /\ Fairness

-----------------------------------------------------------------------------
\* A capped run never reserves more than its ceiling.
WithinTokenLimit == \A s \in Sweeper : TokenLimit > 0 => spent[s] <= TokenLimit

Spendable == IF TokenLimit > 0 THEN 0..TokenLimit ELSE Nat

\* Type invariant of the store, of the sweeps and of what they leave on record;
\* the reservations of a capped run stay within its ceiling.
TypeOK ==
    /\ city \in [Corner -> Records]
    /\ query \in Queries
    /\ roster \in SUBSET Corner
    /\ baseline \in [Corner -> Snapshot \cup {NoSnapshot, Garbled}]
    /\ phase \in [Sweeper -> Phase]
    /\ at \in [Sweeper -> Corner \cup {0}]
    /\ watching \in [Sweeper -> SUBSET Corner]
    /\ lanesRead \in [Sweeper -> [Corner -> 0..Len(LaneGroups)]]
    /\ fresh \in [Sweeper -> [Corner -> Snapshot \cup {Failed}]]
    /\ old \in [Sweeper -> Snapshot \cup {NoSnapshot, Garbled}]
    /\ spent \in [Sweeper -> Spendable]
    /\ record \in [Sweeper -> [Corner -> Seq(Basis)]]
    /\ shown \in [Corner -> SUBSET Records]
    /\ accounted \in [Corner -> Nat]
    /\ lost \in SUBSET Corner

\* The number of a lane is one of the records, or a false zero that the lane
\* itself answered with junk for.
Genuine(records, look, lane) ==
    \/ \E r \in records : r[lane] = look.counts[lane]
    \/ look.counts[lane] = 0 /\ lane \in look.misread

\* A baseline is something the city really showed, lane by lane, but for the
\* lanes that answered junk under the right key, which is where a false zero
\* does get into one: a partial look, whose missing lanes read as zero, is
\* never stored, by any sweep or any two.
BaselineIsReal ==
    \A c \in Corner : baseline[c] \in Snapshot =>
        /\ baseline[c].complete
        /\ \A lane \in Lanes : Genuine(shown[c], baseline[c], lane)

\* The sweepers that have stored a snapshot of c and not yet settled it.
Between(c) ==
    {s \in Sweeper : phase[s] \in {"decide", "publish"} /\ at[s] = c /\ Mine(s).complete}

\* A fatality never slips into a baseline unseen: whatever the budget and the
\* triage said, and however sweeps interleave, the fatalities a baseline holds
\* were escalated, or were there when comparison started or started over, or
\* a sweep is still on the corner or died on it.
FatalityOnRecord ==
    \A c \in Corner \ lost :
        (baseline[c] \in Snapshot /\ Between(c) = {}) =>
            baseline[c].counts.fatal <= accounted[c]

\* A sweep that ran to its end left exactly one record per watched corner, an
\* entry or an escalation, and none but a roster drop for the others.
OneRecordEach ==
    \A s \in Sweeper : phase[s] = "idle" =>
        \A c \in Corner :
            IF c \in watching[s] THEN Len(record[s][c]) = 1
                                 ELSE record[s][c] \in {<<>>, <<"roster_drop">>}

\* What may blind a corner for a while.
Disturbance ==
    \/ \E c \in Corner : Garble(c)
    \/ Redeploy
    \/ \E s \in Sweeper : PublishFails(s) \/ Die(s)

\* The last sweep that got through really compared c with its baseline.
Seen(c) ==
    \E s \in Sweeper : \E basis \in {"no_change", "triage", "budget_exhausted", "escalated"} :
        record[s][c] = <<basis>>

\* No corner stays blind: once crashes, redeployments and bad writes to the
\* store stop, every corner that stays watched is compared again and again,
\* whatever a partial fetch, a quarantine or another query left behind.
NeverBlindForever ==
    <>[][~Disturbance]_vars => \A c \in Corner : []<>(c \notin roster \/ Seen(c))

\* What docs/PATTERNS.md says of recovery: after a run that died, a committed
\* baseline is a corner already settled, and the next run need not decide it.
CommittedIsSettled ==
    \A s \in Sweeper :
        (/\ phase[s] = "dead" /\ at[s] \in Corner /\ Mine(s) \in Snapshot
         /\ RuleVerdict(TheDelta(s)) = "escalate" /\ baseline[at[s]] = Mine(s))
            => Mine(s).counts.fatal <= accounted[at[s]]
=============================================================================

----------------------------- MODULE Sweep_proofs -----------------------------
(***************************************************************************)
(* What sweeps guarantee for any number of sweepers and corners, whatever  *)
(* the city, the lanes and the deployment do.                              *)
(***************************************************************************)
EXTENDS Sweep, TLAPS

\* A sweep that settles a corner settles one it was given, and once it has read
\* the baseline it holds a look.
Settling ==
    \A s \in Sweeper :
        /\ phase[s] \in {"read", "store", "decide", "publish"} => at[s] \in watching[s]
        /\ phase[s] \in {"store", "decide", "publish"} => fresh[s][at[s]] \in Snapshot

-----------------------------------------------------------------------------
\* A look stays a look when more of its lanes are read.
LEMMA WithLanesTyped ==
  ASSUME NEW look \in Snapshot, NEW r \in Counts, NEW group, NEW failed,
         NEW junk \in SUBSET Lanes
  PROVE  WithLanes(look, r, group, failed, junk) \in Snapshot
<1>1. look.counts \in Counts /\ look.query \in Queries /\ look.misread \in SUBSET Lanes
  BY DEF Snapshot
<1>2. \A lane \in Lanes :
        (IF lane \in group THEN Lane(failed \cup junk, lane, r[lane]) ELSE look.counts[lane]) \in Nat
  BY <1>1 DEF Lane, Lanes, Counts
<1>3. [lane \in Lanes |-> IF lane \in group THEN Lane(failed \cup junk, lane, r[lane])
                                            ELSE look.counts[lane]] \in Counts
  BY <1>2 DEF Lanes, Counts
<1>4. /\ (look.complete /\ failed = {}) \in BOOLEAN
      /\ look.misread \cup {lane \in junk : r[lane] # 0} \in SUBSET Lanes
  BY <1>1
<1>5. QED
  BY <1>1, <1>3, <1>4 DEF WithLanes, Snapshot

\* A look before its first lane is one.
LEMMA UnreadTyped == ASSUME TypeOK PROVE Unread \in Snapshot
<1>1. [lane \in Lanes |-> 0] \in Counts
  BY DEF Lanes, Counts
<1>2. QED
  BY <1>1 DEF Unread, Snapshot, TypeOK

\* A basis the floor declines with is one an entry may carry.
LEMMA DeclineBasis ==
  ASSUME NEW o, NEW delta, RuleVerdict(delta) = "decline"
  PROVE  RuleBasis(o, delta) \in Basis
  BY DEF RuleVerdict, RuleBasis, Basis

\* Where a sweep goes when it has settled a corner.
LEMMA AdvanceTyped ==
  ASSUME TypeOK, NEW s \in Sweeper, Advance(s)
  PROVE  /\ phase' \in [Sweeper -> Phase]
         /\ at' \in [Sweeper -> Corner \cup {0}]
         /\ phase'[s] \in {"idle", "read"}
         /\ phase'[s] = "read" => at'[s] \in watching[s]
         /\ \A t \in Sweeper \ {s} : phase'[t] = phase[t] /\ at'[t] = at[t]
<1> DEFINE left == {c \in watching[s] : c > at[s]}
<1>1. /\ phase \in [Sweeper -> Phase] /\ at \in [Sweeper -> Corner \cup {0}]
      /\ watching[s] \subseteq Corner
  BY DEF TypeOK
<1>2. CASE /\ phase' = [phase EXCEPT ![s] = "idle"]
           /\ at' = [at EXCEPT ![s] = 0]
  BY <1>1, <1>2 DEF Phase
<1>3. CASE \E c \in left : /\ phase' = [phase EXCEPT ![s] = "read"]
                           /\ at' = [at EXCEPT ![s] = c]
  BY <1>1, <1>3 DEF Phase
<1>4. QED
  BY <1>2, <1>3 DEF Advance

\* What a sweep leaves on record is a sequence of bases.
LEMMA LeaveTyped ==
  ASSUME TypeOK, NEW s \in Sweeper, NEW basis \in Basis, Leave(s, basis)
  PROVE  record' \in [Sweeper -> [Corner -> Seq(Basis)]]
<1>1. record \in [Sweeper -> [Corner -> Seq(Basis)]]
  BY DEF TypeOK
<1>2. [record[s] EXCEPT ![at[s]] = Append(@, basis)] \in [Corner -> Seq(Basis)]
  <2>1. record[s] \in [Corner -> Seq(Basis)]
    BY <1>1
  <2>2. \A c \in Corner : Append(record[s][c], basis) \in Seq(Basis)
    BY <2>1
  <2>3. QED
    BY <2>1, <2>2
<1>3. QED
  BY <1>1, <1>2 DEF Leave

\* The fatalities on record stay a count.
LEMMA AccountTyped ==
  ASSUME TypeOK, NEW s \in Sweeper, Mine(s) \in Snapshot, Account(s) \/ UNCHANGED accounted
  PROVE  accounted' \in [Corner -> Nat]
<1>1. Mine(s).counts.fatal \in Nat
  BY DEF Snapshot, Counts
<1>2. /\ accounted \in [Corner -> Nat]
      /\ \A n \in Nat : Larger(n, Mine(s).counts.fatal) \in Nat
  BY <1>1 DEF TypeOK, Larger
<1>3. QED
  BY <1>2 DEF Account

\* A settled corner, with whatever entry, leaves every type as it was.
LEMMA SettledTyped ==
  ASSUME TypeOK, Settling, NEW s \in Sweeper, Advance(s),
         record' \in [Sweeper -> [Corner -> Seq(Basis)]], accounted' \in [Corner -> Nat],
         spent' \in [Sweeper -> Spendable],
         UNCHANGED <<world, baseline, watching, lanesRead, fresh, old, lost>>
  PROVE  TypeOK' /\ Settling'
<1>1. TypeOK'
  BY AdvanceTyped DEF TypeOK, world
<1>2. Settling'
  <2> SUFFICES ASSUME NEW t \in Sweeper
               PROVE  /\ phase'[t] \in {"read", "store", "decide", "publish"} => at'[t] \in watching[t]
                      /\ phase'[t] \in {"store", "decide", "publish"} => fresh[t][at'[t]] \in Snapshot
    BY DEF Settling
  <2>1. CASE t = s
    BY <2>1, AdvanceTyped
  <2>2. CASE t # s
    BY <2>2, AdvanceTyped DEF Settling
  <2>3. QED
    BY <2>1, <2>2
<1>3. QED
  BY <1>1, <1>2

\* So does a decline.
LEMMA DeclineTyped ==
  ASSUME TypeOK, Settling, NEW s \in Sweeper, phase[s] = "decide",
         NEW basis \in Basis, Decline(s, basis), spent' \in [Sweeper -> Spendable]
  PROVE  TypeOK' /\ Settling'
<1>1. record' \in [Sweeper -> [Corner -> Seq(Basis)]]
  BY LeaveTyped DEF Decline
<1>2. Mine(s) \in Snapshot
  BY DEF Settling, Mine
<1>3. accounted' \in [Corner -> Nat]
  BY <1>2, AccountTyped DEF Decline
<1>4. QED
  BY <1>1, <1>3, SettledTyped DEF Decline

\* And a step that moves one sweep on, from corner to corner nothing else.
LEMMA MovedTyped ==
  ASSUME TypeOK, Settling, NEW s \in Sweeper, NEW next \in Phase,
         phase' = [phase EXCEPT ![s] = next],
         next \in {"read", "store", "decide", "publish"} => at[s] \in watching[s],
         next \in {"store", "decide", "publish"} => fresh[s][at[s]] \in Snapshot,
         baseline' \in [Corner -> Snapshot \cup {NoSnapshot, Garbled}],
         old' \in [Sweeper -> Snapshot \cup {NoSnapshot, Garbled}],
         spent' \in [Sweeper -> Spendable], accounted' \in [Corner -> Nat], lost' \in SUBSET Corner,
         UNCHANGED <<world, at, watching, lanesRead, fresh, record>>
  PROVE  TypeOK' /\ Settling'
<1>1. TypeOK'
  BY DEF TypeOK, world
<1>2. Settling'
  BY DEF Settling, TypeOK
<1>3. QED
  BY <1>1, <1>2

\* A call that may be reserved stays under the ceiling.
LEMMA TakeTyped ==
  ASSUME TypeOK, NEW s \in Sweeper, CanTake(s), Take(s)
  PROVE  spent' \in [Sweeper -> Spendable]
<1>1. /\ TokenLimit \in Nat /\ Tier1Cost \in Nat \ {0}
      /\ spent \in [Sweeper -> Spendable]
  BY SweepAssumption DEF TypeOK, SweepAssumption
<1>2. spent[s] + Tier1Cost \in Spendable
  BY <1>1 DEF CanTake, Spendable
<1>3. QED
  BY <1>1, <1>2 DEF Take

\* What the world does around the sweeps.
LEMMA WorldTyped ==
  ASSUME TypeOK, Settling,
         \/ \E c \in Corner : CityChanges(c) \/ Garble(c)
         \/ Redeploy \/ RosterChanges \/ UNCHANGED vars
  PROVE  TypeOK' /\ Settling'
<1>1. Settling'
  BY DEF Settling, CityChanges, Garble, Redeploy, RosterChanges, vars, world
<1>2. ASSUME NEW c \in Corner, CityChanges(c) PROVE TypeOK'
  BY <1>2 DEF CityChanges, TypeOK
<1>3. ASSUME NEW c \in Corner, Garble(c) PROVE TypeOK'
  BY <1>3 DEF Garble, TypeOK, world
<1>4. CASE Redeploy \/ RosterChanges
  BY <1>1, <1>4 DEF Redeploy, RosterChanges, TypeOK
<1>5. CASE UNCHANGED vars
  BY <1>1, <1>5 DEF vars, TypeOK
<1>6. QED
  BY <1>1, <1>2, <1>3, <1>4, <1>5

LEMMA StartTyped ==
  ASSUME TypeOK, Settling, NEW s \in Sweeper, Start(s)
  PROVE  TypeOK' /\ Settling'
<1>1. record' \in [Sweeper -> [Corner -> Seq(Basis)]]
  <2>1. <<"roster_drop">> \in Seq(Basis) /\ <<>> \in Seq(Basis)
    BY DEF Basis
  <2>2. QED
    BY <2>1 DEF Start, TypeOK
<1>2. fresh' \in [Sweeper -> [Corner -> Snapshot \cup {Failed}]]
  BY UnreadTyped DEF Start, TypeOK
<1>3. lanesRead' \in [Sweeper -> [Corner -> 0..Len(LaneGroups)]]
  <2>1. 0 \in 0..Len(LaneGroups)
    BY SweepAssumption DEF SweepAssumption
  <2>2. QED
    BY <2>1 DEF Start, TypeOK
<1>4. 0 \in Spendable
  BY SweepAssumption DEF Spendable, SweepAssumption
<1>5. TypeOK'
  BY <1>1, <1>2, <1>3, <1>4 DEF Start, TypeOK, world, Phase
<1>6. Settling'
  BY DEF Start, Settling, TypeOK
<1>7. QED
  BY <1>5, <1>6

\* The lanes are in groups, and every lane is in one.
LEMMA Groups ==
  /\ Len(LaneGroups) \in Nat
  /\ \A i \in 1..Len(LaneGroups) : LaneGroups[i] \subseteq Lanes
  /\ \A lane \in Lanes : \E i \in 1..Len(LaneGroups) : lane \in LaneGroups[i]
  BY SweepAssumption DEF SweepAssumption

\* What a step of a fetch makes of the look.
LEMMA ReadLanesReads ==
  ASSUME TypeOK, NEW s \in Sweeper, NEW c \in Corner, ReadLanes(s, c)
  PROVE  \E failed, junk \in SUBSET Lanes :
           fresh' = [fresh EXCEPT ![s][c] =
                       WithLanes(@, city[c], LaneGroups[lanesRead[s][c] + 1], failed, junk)]
<1> DEFINE group == LaneGroups[lanesRead[s][c] + 1]
<1>1. PICK outage, junk :
        fresh' = [fresh EXCEPT ![s][c] =
                    WithLanes(@, city[c], group, outage \cap group, junk \cap group)]
  BY DEF ReadLanes
<1>2. group \subseteq Lanes
  <2>1. lanesRead[s][c] \in 0..Len(LaneGroups) /\ lanesRead[s][c] < Len(LaneGroups)
    BY DEF ReadLanes, TypeOK
  <2>2. QED
    BY <2>1, Groups
<1>3. outage \cap group \in SUBSET Lanes /\ junk \cap group \in SUBSET Lanes
  BY <1>2
<1>4. QED
  BY <1>1, <1>3

\* Reading lanes keeps the looks looks, and touches no sweep that settles.
LEMMA ReadLanesTyped ==
  ASSUME TypeOK, Settling, NEW s \in Sweeper, NEW c \in Corner, ReadLanes(s, c)
  PROVE  TypeOK' /\ Settling'
<1> DEFINE group == LaneGroups[lanesRead[s][c] + 1]
<1>1. PICK failed, junk \in SUBSET Lanes :
        fresh' = [fresh EXCEPT ![s][c] = WithLanes(@, city[c], group, failed, junk)]
  BY ReadLanesReads
<1>2. fresh[s][c] \in Snapshot /\ city[c] \in Counts
  BY SweepAssumption DEF ReadLanes, TypeOK, SweepAssumption
<1>3. WithLanes(fresh[s][c], city[c], group, failed, junk) \in Snapshot
  BY <1>2, WithLanesTyped
<1>4. fresh' \in [Sweeper -> [Corner -> Snapshot \cup {Failed}]]
  BY <1>1, <1>3 DEF TypeOK
<1>5. lanesRead' \in [Sweeper -> [Corner -> 0..Len(LaneGroups)]]
  BY SweepAssumption DEF ReadLanes, TypeOK, SweepAssumption
<1>6. TypeOK'
  BY <1>4, <1>5 DEF ReadLanes, TypeOK, world
<1>7. Settling'
  BY <1>1 DEF ReadLanes, Settling, TypeOK
<1>8. QED
  BY <1>6, <1>7

LEMMA FetchTyped ==
  ASSUME TypeOK, Settling, NEW s \in Sweeper,
         (\E c \in Corner : ReadLanes(s, c) \/ FetchRaises(s, c)) \/ FetchesDone(s) \/ FetchFailed(s)
  PROVE  TypeOK' /\ Settling'
<1>1. ASSUME NEW c \in Corner, ReadLanes(s, c) PROVE TypeOK' /\ Settling'
  BY <1>1, ReadLanesTyped
<1>2. ASSUME NEW c \in Corner, FetchRaises(s, c) PROVE TypeOK' /\ Settling'
  <2>1. TypeOK'
    BY <1>2 DEF FetchRaises, TypeOK, world
  <2>2. Settling'
    BY <1>2 DEF FetchRaises, Settling, TypeOK
  <2>3. QED
    BY <2>1, <2>2
<1>3. CASE FetchesDone(s)
  BY <1>3, SettledTyped DEF FetchesDone, TypeOK
<1>4. CASE FetchFailed(s)
  <2>1. record' \in [Sweeper -> [Corner -> Seq(Basis)]]
    BY <1>4, LeaveTyped DEF FetchFailed, Basis
  <2>2. QED
    BY <1>4, <2>1, SettledTyped DEF FetchFailed, TypeOK
<1>5. QED
  BY <1>1, <1>2, <1>3, <1>4

LEMMA CompareTyped ==
  ASSUME TypeOK, Settling, NEW s \in Sweeper, ReadBaseline(s) \/ StoreBaseline(s)
  PROVE  TypeOK' /\ Settling'
<1>1. at[s] \in watching[s] /\ at[s] \in Corner
  BY DEF ReadBaseline, StoreBaseline, Settling, TypeOK
<1>2. Mine(s) \in Snapshot
  BY <1>1 DEF ReadBaseline, StoreBaseline, Settling, TypeOK, Mine
<1>3. CASE ReadBaseline(s)
  <2>1. /\ baseline' \in [Corner -> Snapshot \cup {NoSnapshot, Garbled}]
        /\ old' \in [Sweeper -> Snapshot \cup {NoSnapshot, Garbled}]
    BY <1>1, <1>3 DEF ReadBaseline, TypeOK
  <2>2. QED
    BY <1>1, <1>2, <1>3, <2>1, MovedTyped DEF ReadBaseline, TypeOK, Phase, Mine
<1>4. CASE StoreBaseline(s)
  <2>1. baseline' \in [Corner -> Snapshot \cup {NoSnapshot, Garbled}]
    BY <1>2, <1>4 DEF StoreBaseline, TypeOK
  <2>2. QED
    BY <1>1, <1>2, <1>4, <2>1, MovedTyped DEF StoreBaseline, TypeOK, Phase, Mine
<1>5. QED
  BY <1>3, <1>4

LEMMA DecideTyped ==
  ASSUME TypeOK, Settling, NEW s \in Sweeper,
         \/ RuleDeclines(s) \/ RuleEscalates(s) \/ BudgetExhausted(s)
         \/ TriageDeclines(s) \/ TriageEscalates(s)
  PROVE  TypeOK' /\ Settling'
<1>1. CASE RuleDeclines(s)
  <2>1. RuleBasis(IF old[s] = Garbled THEN NoSnapshot ELSE old[s], TheDelta(s)) \in Basis
    BY <1>1, DeclineBasis DEF RuleDeclines
  <2>2. QED
    BY <1>1, <2>1, DeclineTyped DEF RuleDeclines, TypeOK
<1>2. CASE BudgetExhausted(s)
  BY <1>2, DeclineTyped DEF BudgetExhausted, TypeOK, Basis
<1>3. CASE TriageDeclines(s)
  BY <1>3, DeclineTyped, TakeTyped DEF TriageDeclines, Basis
<1>4. CASE RuleEscalates(s) \/ TriageEscalates(s)
  <2>1. /\ phase[s] = "decide" /\ Escalate(s)
        /\ spent' \in [Sweeper -> Spendable]
    BY <1>4, TakeTyped DEF RuleEscalates, TriageEscalates, TypeOK
  <2>2. at[s] \in watching[s] /\ fresh[s][at[s]] \in Snapshot
    BY <2>1 DEF Settling
  <2>3. QED
    BY <2>1, <2>2, MovedTyped DEF Escalate, TypeOK, Phase
<1>5. QED
  BY <1>1, <1>2, <1>3, <1>4

LEMMA PublishTyped ==
  ASSUME TypeOK, Settling, NEW s \in Sweeper, Publish(s) \/ PublishFails(s) \/ Die(s)
  PROVE  TypeOK' /\ Settling'
<1>1. CASE Publish(s)
  <2>1. Mine(s) \in Snapshot
    BY <1>1 DEF Publish, Settling, Mine
  <2>2. record' \in [Sweeper -> [Corner -> Seq(Basis)]] /\ accounted' \in [Corner -> Nat]
    BY <1>1, <2>1, LeaveTyped, AccountTyped DEF Publish, Basis
  <2>3. QED
    BY <1>1, <2>2, SettledTyped DEF Publish, TypeOK
<1>2. CASE PublishFails(s)
  <2>1. Mine(s) \in Snapshot /\ at[s] \in Corner
    BY <1>2 DEF PublishFails, Settling, Mine, TypeOK
  <2>2. accounted' \in [Corner -> Nat] /\ lost' \in SUBSET Corner
    BY <1>2, <2>1, AccountTyped DEF PublishFails, TypeOK
  <2>3. QED
    BY <1>2, <2>2, MovedTyped DEF PublishFails, TypeOK, Phase
<1>3. CASE Die(s)
  <2>1. lost' \in SUBSET Corner
    BY <1>3 DEF Die, Settling, TypeOK
  <2>2. QED
    BY <1>3, <2>1, MovedTyped DEF Die, TypeOK, Phase
<1>4. QED
  BY <1>1, <1>2, <1>3

\* The types and what a settling sweep holds are inductive.
LEMMA TypesStep ==
  ASSUME TypeOK, Settling, [Next]_vars
  PROVE  TypeOK' /\ Settling'
  BY WorldTyped, StartTyped, FetchTyped, CompareTyped, DecideTyped, PublishTyped
     DEF Next, SweepStep

LEMMA TypesInit == Init => TypeOK /\ Settling
<1> SUFFICES ASSUME Init PROVE TypeOK /\ Settling
  OBVIOUS
<1>1. [lane \in Lanes |-> 0] \in Counts
  BY DEF Lanes, Counts
<1>2. Unread \in Snapshot
  BY <1>1 DEF Unread, Snapshot, Init
<1>3. <<>> \in Seq(Basis) /\ 0 \in 0..Len(LaneGroups) /\ 0 \in Spendable
  BY SweepAssumption DEF SweepAssumption, Spendable
<1>4. TypeOK
  BY <1>2, <1>3 DEF Init, TypeOK, Phase
<1>5. Settling
  BY DEF Init, Settling
<1>6. QED
  BY <1>4, <1>5

\* Every variable of the sweeps keeps its type, and a sweep that settles a
\* corner holds a look at one of the corners it was given.
LEMMA Types == Spec => [](TypeOK /\ Settling)
  BY TypesInit, TypesStep, PTL DEF Spec

\* The type invariant of the sweeps, for any number of sweepers and corners.
THEOREM TypeCorrect == Spec => []TypeOK
  BY Types, PTL

-----------------------------------------------------------------------------
\* A capped run never reserves more than its ceiling, whatever the corners ask.
THEOREM CeilingHolds == Spec => []WithinTokenLimit
<1>1. TypeOK => WithinTokenLimit
  BY SweepAssumption DEF TypeOK, Spendable, WithinTokenLimit, SweepAssumption
<1>2. QED
  BY <1>1, TypeCorrect, PTL

-----------------------------------------------------------------------------
\* What the city holds now it has shown.
CityShown == \A c \in Corner : city[c] \in shown[c]

\* The lanes a complete look has read are as the city showed them, but for the
\* false zeros of junk.
LooksAreReal ==
    \A s \in Sweeper, c \in Corner :
        (fresh[s][c] \in Snapshot /\ fresh[s][c].complete) =>
            \A i \in 1..lanesRead[s][c] : \A lane \in LaneGroups[i] :
                Genuine(shown[c], fresh[s][c], lane)

\* A sweep that settles corners has read every lane of the looks it has.
AllRead ==
    \A s \in Sweeper : phase[s] \in {"read", "store", "decide", "publish"} =>
        \A c \in watching[s] : fresh[s][c] = Failed \/ lanesRead[s][c] = Len(LaneGroups)

RealInv == CityShown /\ LooksAreReal /\ AllRead /\ BaselineIsReal

\* What reading a group of lanes makes of a look: the lanes of the group are
\* genuine, the others are what they were.
LEMMA WithLanesReads ==
  ASSUME NEW look \in Snapshot, NEW r \in Counts, NEW group, NEW failed,
         NEW junk \in SUBSET Lanes, WithLanes(look, r, group, failed, junk).complete,
         NEW records, NEW lane \in Lanes
  PROVE  /\ look.complete
         /\ lane \in group /\ r \in records =>
              Genuine(records, WithLanes(look, r, group, failed, junk), lane)
         /\ lane \notin group /\ Genuine(records, look, lane) =>
              Genuine(records, WithLanes(look, r, group, failed, junk), lane)
<1>1. look.complete /\ failed = {}
  BY DEF WithLanes
<1> DEFINE new == WithLanes(look, r, group, failed, junk)
<1>2. /\ new.counts[lane] = IF lane \in group THEN Lane(junk, lane, r[lane]) ELSE look.counts[lane]
      /\ look.misread \subseteq new.misread
      /\ lane \in junk /\ r[lane] # 0 => lane \in new.misread
  BY <1>1 DEF WithLanes
<1>3. ASSUME lane \in group, r \in records PROVE Genuine(records, new, lane)
  <2>1. CASE lane \in junk /\ r[lane] # 0
    BY <1>2, <1>3, <2>1 DEF Lane, Genuine
  <2>2. CASE lane \notin junk \/ r[lane] = 0
    <3>1. new.counts[lane] = r[lane]
      BY <1>2, <1>3, <2>2 DEF Lane
    <3>2. QED
      BY <1>3, <3>1 DEF Genuine
  <2>3. QED
    BY <2>1, <2>2
<1>4. ASSUME lane \notin group, Genuine(records, look, lane) PROVE Genuine(records, new, lane)
  BY <1>2, <1>4 DEF Genuine
<1>5. QED
  BY <1>1, <1>3, <1>4

\* What was genuine stays so when the city shows more.
LEMMA StaysGenuine ==
  ASSUME NEW seen, NEW more, seen \subseteq more, NEW look, NEW lane, Genuine(seen, look, lane)
  PROVE  Genuine(more, look, lane)
  BY DEF Genuine

\* Reading the lanes of a group from the city keeps the looks real.
LEMMA ReadLanesReal ==
  ASSUME TypeOK, RealInv, NEW s \in Sweeper, NEW c \in Corner, ReadLanes(s, c)
  PROVE  LooksAreReal'
<1> DEFINE n == lanesRead[s][c]
           group == LaneGroups[n + 1]
<1>1. PICK failed, junk \in SUBSET Lanes :
        fresh' = [fresh EXCEPT ![s][c] = WithLanes(@, city[c], group, failed, junk)]
  BY ReadLanesReads
<1>2. /\ fresh[s][c] \in Snapshot /\ city[c] \in Counts /\ city[c] \in shown[c]
      /\ n \in Nat /\ n < Len(LaneGroups)
  BY SweepAssumption, Groups DEF ReadLanes, TypeOK, SweepAssumption, RealInv, CityShown
<1>3. /\ lanesRead' = [lanesRead EXCEPT ![s][c] = n + 1] /\ shown' = shown
  BY DEF ReadLanes, world
<1>4. SUFFICES ASSUME NEW t \in Sweeper, NEW d \in Corner,
                      fresh'[t][d] \in Snapshot, fresh'[t][d].complete,
                      NEW i \in 1..lanesRead'[t][d], NEW lane \in LaneGroups[i]
               PROVE  Genuine(shown[d], fresh'[t][d], lane)
  BY <1>3 DEF LooksAreReal
<1>5. CASE t # s \/ d # c
  <2>1. fresh'[t][d] = fresh[t][d] /\ lanesRead'[t][d] = lanesRead[t][d]
    BY <1>1, <1>3, <1>5 DEF TypeOK
  <2>2. QED
    BY <1>4, <2>1 DEF RealInv, LooksAreReal
<1>6. CASE t = s /\ d = c
  <2>1. /\ fresh'[t][d] = WithLanes(fresh[s][c], city[c], group, failed, junk)
        /\ lanesRead'[t][d] = n + 1
    BY <1>1, <1>3, <1>6 DEF TypeOK
  <2>2. lane \in Lanes
    BY <1>2, <2>1, Groups
  <2>3. /\ fresh[s][c].complete
        /\ lane \in group => Genuine(shown[c], fresh'[t][d], lane)
        /\ lane \notin group /\ Genuine(shown[c], fresh[s][c], lane) =>
             Genuine(shown[c], fresh'[t][d], lane)
    BY <1>2, <1>4, <2>1, <2>2, WithLanesReads
  <2>4. CASE lane \in group
    BY <1>6, <2>3, <2>4
  <2>5. CASE lane \notin group
    <3>1. i \in 1..n
      BY <1>2, <2>1, <2>5
    <3>2. Genuine(shown[c], fresh[s][c], lane)
      BY <1>2, <2>3, <3>1 DEF RealInv, LooksAreReal
    <3>3. QED
      BY <1>6, <2>3, <2>5, <3>2
  <2>6. QED
    BY <2>4, <2>5
<1>7. QED
  BY <1>5, <1>6

\* A step of a sweep that settles corners, or its end.
SettleStep(s) ==
    \/ FetchFailed(s) \/ ReadBaseline(s) \/ StoreBaseline(s)
    \/ RuleDeclines(s) \/ RuleEscalates(s) \/ BudgetExhausted(s)
    \/ TriageDeclines(s) \/ TriageEscalates(s)
    \/ Publish(s) \/ PublishFails(s) \/ Die(s)

\* Such a step leaves the world, the looks and the other sweeps alone.
LEMMA SettleFrame ==
  ASSUME TypeOK, NEW s \in Sweeper, SettleStep(s)
  PROVE  /\ UNCHANGED <<city, query, shown, watching, lanesRead, fresh>>
         /\ \A t \in Sweeper \ {s} : phase'[t] = phase[t] /\ at'[t] = at[t] /\ old'[t] = old[t]
         /\ phase'[s] \in {"read", "store", "decide", "publish"}
               => phase[s] \in {"read", "store", "decide", "publish"}
<1>1. UNCHANGED <<city, query, shown, watching, lanesRead, fresh>>
  BY DEF SettleStep, FetchFailed, ReadBaseline, StoreBaseline, RuleDeclines, RuleEscalates,
         BudgetExhausted, TriageDeclines, TriageEscalates, Decline, Escalate, Publish,
         PublishFails, Die, world
<1>2. CASE Advance(s) /\ old' = old /\ phase[s] \in {"read", "decide", "publish"}
  BY <1>1, <1>2, AdvanceTyped
<1>3. CASE FetchFailed(s)
  BY <1>2, <1>3 DEF FetchFailed
<1>4. CASE RuleDeclines(s) \/ BudgetExhausted(s) \/ TriageDeclines(s)
  BY <1>2, <1>4 DEF RuleDeclines, BudgetExhausted, TriageDeclines, Decline
<1>5. CASE Publish(s)
  BY <1>2, <1>5 DEF Publish
<1>6. CASE RuleEscalates(s) \/ TriageEscalates(s)
  BY <1>1, <1>6 DEF RuleEscalates, TriageEscalates, Escalate, TypeOK
<1>7. CASE ReadBaseline(s) \/ StoreBaseline(s) \/ PublishFails(s) \/ Die(s)
  BY <1>1, <1>7 DEF ReadBaseline, StoreBaseline, PublishFails, Die, TypeOK
<1>8. QED
  BY <1>3, <1>4, <1>5, <1>6, <1>7 DEF SettleStep

\* What the city has shown stays shown, and what it holds is shown.
LEMMA ShownStep ==
  ASSUME TypeOK, CityShown, [Next]_vars
  PROVE  CityShown' /\ \A c \in Corner : shown[c] \subseteq shown'[c]
<1>1. CASE \E c \in Corner : CityChanges(c)
  BY <1>1 DEF CityChanges, CityShown, TypeOK
<1>2. CASE UNCHANGED <<city, shown>>
  BY <1>2 DEF CityShown
<1>3. ASSUME NEW s \in Sweeper, SettleStep(s) PROVE UNCHANGED <<city, shown>>
  BY <1>3, SettleFrame
<1>4. ASSUME \/ UNCHANGED vars \/ Redeploy \/ RosterChanges \/ \E c \in Corner : Garble(c)
             \/ \E s \in Sweeper : \/ Start(s) \/ FetchesDone(s)
                                  \/ \E c \in Corner : ReadLanes(s, c) \/ FetchRaises(s, c)
      PROVE  UNCHANGED <<city, shown>>
  BY <1>4 DEF vars, Redeploy, RosterChanges, Garble, Start, FetchesDone, ReadLanes, FetchRaises, world
<1>5. QED
  BY <1>1, <1>2, <1>3, <1>4 DEF Next, SweepStep, SettleStep

\* A look that is not read further stays real.
LEMMA LooksStep ==
  ASSUME TypeOK, RealInv, [Next]_vars
  PROVE  LooksAreReal'
<1>1. \A c \in Corner : shown[c] \subseteq shown'[c]
  BY ShownStep DEF RealInv
<1>2. CASE UNCHANGED <<fresh, lanesRead>>
  BY <1>1, <1>2, StaysGenuine DEF RealInv, LooksAreReal
<1>3. ASSUME NEW s \in Sweeper, NEW c \in Corner, ReadLanes(s, c) PROVE LooksAreReal'
  BY <1>3, ReadLanesReal
<1>4. ASSUME NEW s \in Sweeper, NEW c \in Corner, FetchRaises(s, c) PROVE LooksAreReal'
  <2>1. \A t \in Sweeper, d \in Corner :
          fresh'[t][d] = IF t = s /\ d = c THEN Failed ELSE fresh[t][d]
    BY <1>4 DEF FetchRaises, TypeOK
  <2>2. Failed \notin Snapshot /\ lanesRead' = lanesRead
    BY <1>4, ValuesAssumption DEF FetchRaises, ValuesAssumption
  <2>3. \A t \in Sweeper, d \in Corner : fresh'[t][d] \in Snapshot => fresh'[t][d] = fresh[t][d]
    BY <2>1, <2>2
  <2>4. QED
    BY <1>1, <2>2, <2>3, StaysGenuine DEF RealInv, LooksAreReal
<1>5. ASSUME NEW s \in Sweeper, Start(s) PROVE LooksAreReal'
  <2>1. \A t \in Sweeper, d \in Corner : t # s =>
          fresh'[t][d] = fresh[t][d] /\ lanesRead'[t][d] = lanesRead[t][d]
    BY <1>5 DEF Start, TypeOK
  <2>2. \A d \in Corner : lanesRead'[s][d] = 0
    BY <1>5 DEF Start, TypeOK
  <2>3. SUFFICES ASSUME NEW t \in Sweeper, NEW d \in Corner,
                        fresh'[t][d] \in Snapshot, fresh'[t][d].complete,
                        NEW i \in 1..lanesRead'[t][d], NEW lane \in LaneGroups[i]
                 PROVE  Genuine(shown'[d], fresh'[t][d], lane)
    BY DEF LooksAreReal
  <2>4. t # s
    BY <2>2, <2>3
  <2>5. Genuine(shown[d], fresh[t][d], lane)
    BY <2>1, <2>3, <2>4 DEF RealInv, LooksAreReal
  <2>6. QED
    BY <1>1, <2>1, <2>4, <2>5, StaysGenuine
<1>6. ASSUME NEW s \in Sweeper, SettleStep(s) PROVE UNCHANGED <<fresh, lanesRead>>
  BY <1>6, SettleFrame
<1>7. ASSUME \/ UNCHANGED vars \/ Redeploy \/ RosterChanges
             \/ \E c \in Corner : CityChanges(c) \/ Garble(c)
             \/ \E s \in Sweeper : FetchesDone(s)
      PROVE  UNCHANGED <<fresh, lanesRead>>
  BY <1>7 DEF vars, Redeploy, RosterChanges, CityChanges, Garble, FetchesDone
<1>8. QED
  BY <1>2, <1>3, <1>4, <1>5, <1>6, <1>7 DEF Next, SweepStep, SettleStep

\* A sweep begins to settle only when every look has been read to its end.
LEMMA AllReadStep ==
  ASSUME TypeOK, RealInv, [Next]_vars
  PROVE  AllRead'
<1> DEFINE Busy == {"read", "store", "decide", "publish"}
<1>1. CASE UNCHANGED <<phase, watching, lanesRead, fresh>>
  BY <1>1 DEF RealInv, AllRead
<1>2. ASSUME NEW s \in Sweeper, Start(s) PROVE AllRead'
  <2>1. phase'[s] = "fetch"
    BY <1>2 DEF Start, TypeOK
  <2>2. \A t \in Sweeper : t # s =>
          /\ phase'[t] = phase[t] /\ watching'[t] = watching[t]
          /\ fresh'[t] = fresh[t] /\ lanesRead'[t] = lanesRead[t]
    BY <1>2 DEF Start, TypeOK
  <2>3. QED
    BY <2>1, <2>2 DEF RealInv, AllRead
<1>3. ASSUME NEW s \in Sweeper, NEW c \in Corner, ReadLanes(s, c) \/ FetchRaises(s, c)
      PROVE  AllRead'
  <2>1. phase' = phase /\ phase[s] = "fetch" /\ watching' = watching
    BY <1>3 DEF ReadLanes, FetchRaises
  <2>2. \A t \in Sweeper : t # s => fresh'[t] = fresh[t] /\ lanesRead'[t] = lanesRead[t]
    BY <1>3 DEF ReadLanes, FetchRaises, TypeOK
  <2>3. QED
    BY <2>1, <2>2 DEF RealInv, AllRead
<1>4. ASSUME NEW s \in Sweeper, FetchesDone(s) PROVE AllRead'
  <2>1. /\ UNCHANGED <<watching, lanesRead, fresh>>
        /\ \A c \in watching[s] : fresh[s][c] = Failed \/ lanesRead[s][c] = Len(LaneGroups)
    BY <1>4 DEF FetchesDone
  <2>2. \A t \in Sweeper : t # s => phase'[t] = phase[t]
    BY <1>4 DEF FetchesDone, Advance, TypeOK
  <2>3. QED
    BY <2>1, <2>2 DEF RealInv, AllRead
<1>5. ASSUME NEW s \in Sweeper, SettleStep(s) PROVE AllRead'
  <2>1. UNCHANGED <<watching, lanesRead, fresh>>
    BY <1>5, SettleFrame
  <2>2. \A t \in Sweeper : phase'[t] \in Busy => phase[t] \in Busy
    BY <1>5, SettleFrame
  <2>3. QED
    BY <2>1, <2>2 DEF RealInv, AllRead
<1>6. ASSUME \/ UNCHANGED vars \/ Redeploy \/ RosterChanges
             \/ \E c \in Corner : CityChanges(c) \/ Garble(c)
      PROVE  UNCHANGED <<phase, watching, lanesRead, fresh>>
  BY <1>6 DEF vars, Redeploy, RosterChanges, CityChanges, Garble
<1>7. QED
  BY <1>1, <1>2, <1>3, <1>4, <1>5, <1>6 DEF Next, SweepStep, SettleStep

\* A complete look that has been read to its end is real in every lane.
LEMMA WholeLookIsReal ==
  ASSUME TypeOK, Settling, RealInv, NEW s \in Sweeper, phase[s] = "store", Mine(s).complete
  PROVE  /\ Mine(s) \in Snapshot /\ at[s] \in Corner
         /\ \A lane \in Lanes : Genuine(shown[at[s]], Mine(s), lane)
<1>1. at[s] \in watching[s] /\ at[s] \in Corner /\ Mine(s) \in Snapshot
  BY DEF Settling, TypeOK, Mine
<1>2. lanesRead[s][at[s]] = Len(LaneGroups)
  <2>1. Mine(s) # Failed
    BY <1>1, ValuesAssumption DEF ValuesAssumption
  <2>2. QED
    BY <1>1, <2>1 DEF RealInv, AllRead, Mine
<1>3. \A i \in 1..Len(LaneGroups) : \A lane \in LaneGroups[i] :
        Genuine(shown[at[s]], Mine(s), lane)
  BY <1>1, <1>2 DEF RealInv, LooksAreReal, Mine
<1>4. QED
  BY <1>1, <1>3, Groups

\* Storing is the only step that gives a corner a baseline it did not have.
LEMMA BaselineStep ==
  ASSUME TypeOK, Settling, RealInv, [Next]_vars
  PROVE  BaselineIsReal'
<1>1. \A c \in Corner : shown[c] \subseteq shown'[c]
  BY ShownStep DEF RealInv
<1>2. CASE \A c \in Corner : baseline'[c] \in Snapshot => baseline'[c] = baseline[c]
  BY <1>1, <1>2, StaysGenuine DEF RealInv, BaselineIsReal
<1>3. ASSUME NEW c \in Corner, Garble(c) PROVE BaselineIsReal'
  BY <1>2, <1>3, ValuesAssumption DEF Garble, TypeOK, ValuesAssumption
<1>4. ASSUME NEW s \in Sweeper, ReadBaseline(s) PROVE BaselineIsReal'
  BY <1>2, <1>4, ValuesAssumption DEF ReadBaseline, TypeOK, ValuesAssumption
<1>5. ASSUME NEW s \in Sweeper, StoreBaseline(s) PROVE BaselineIsReal'
  <2>1. CASE ~Mine(s).complete
    BY <1>2, <1>5, <2>1 DEF StoreBaseline
  <2>2. CASE Mine(s).complete
    <3>1. /\ phase[s] = "store" /\ shown' = shown
          /\ baseline' = [baseline EXCEPT ![at[s]] = Mine(s)]
      BY <1>5, <2>2 DEF StoreBaseline, world
    <3>2. /\ at[s] \in Corner
          /\ \A lane \in Lanes : Genuine(shown[at[s]], Mine(s), lane)
      BY <2>2, <3>1, WholeLookIsReal
    <3>3. \A c \in Corner : baseline'[c] = IF c = at[s] THEN Mine(s) ELSE baseline[c]
      BY <3>1, <3>2 DEF TypeOK
    <3>4. QED
      BY <2>2, <3>1, <3>2, <3>3 DEF RealInv, BaselineIsReal
  <2>3. QED
    BY <2>1, <2>2
<1>6. ASSUME \/ UNCHANGED vars \/ Redeploy \/ RosterChanges
             \/ \E c \in Corner : CityChanges(c)
             \/ \E s \in Sweeper :
                  \/ Start(s) \/ FetchesDone(s) \/ FetchFailed(s)
                  \/ \E c \in Corner : ReadLanes(s, c) \/ FetchRaises(s, c)
                  \/ RuleDeclines(s) \/ RuleEscalates(s) \/ BudgetExhausted(s)
                  \/ TriageDeclines(s) \/ TriageEscalates(s)
                  \/ Publish(s) \/ PublishFails(s) \/ Die(s)
      PROVE  baseline' = baseline
  BY <1>6 DEF vars, Redeploy, RosterChanges, CityChanges, Start, FetchesDone, FetchFailed,
              ReadLanes, FetchRaises, RuleDeclines, RuleEscalates, BudgetExhausted,
              TriageDeclines, TriageEscalates, Decline, Escalate, Publish, PublishFails, Die
<1>7. QED
  BY <1>2, <1>3, <1>4, <1>5, <1>6 DEF Next, SweepStep

\* The initial state: nothing stored, nothing read, and no sweep settles.
LEMMA RealInit == Init => RealInv
<1> SUFFICES ASSUME Init PROVE RealInv
  OBVIOUS
<1>1. CityShown
  BY DEF Init, CityShown
<1>2. LooksAreReal
  BY DEF Init, LooksAreReal
<1>3. AllRead
  BY DEF Init, AllRead
<1>4. BaselineIsReal
  BY ValuesAssumption DEF Init, BaselineIsReal, ValuesAssumption
<1>5. QED
  BY <1>1, <1>2, <1>3, <1>4 DEF RealInv

\* Whatever is stored as a baseline is complete and was shown by the city lane
\* by lane, but for the false zeros of lanes that answered junk: for any number
\* of sweepers, any grouping of the lanes, any outage and any junk.
THEOREM BaselinesAreReal == Spec => []BaselineIsReal
<1>1. TypeOK /\ Settling /\ RealInv /\ [Next]_vars => RealInv'
  BY ShownStep, LooksStep, AllReadStep, BaselineStep DEF RealInv
<1>2. RealInv => BaselineIsReal
  BY DEF RealInv
<1>3. QED
  BY RealInit, <1>1, <1>2, Types, PTL DEF Spec

-----------------------------------------------------------------------------
\* The sweep of s will put the fatalities of its look on record unless it dies:
\* it publishes, or the rules it is about to apply cannot pass over the corner.
Due(s) ==
    \/ phase[s] = "publish"
    \/ /\ phase[s] = "decide"
       /\ \/ old[s] \notin Snapshot
          \/ old[s].query # Mine(s).query
          \/ Mine(s).counts.fatal > old[s].counts.fatal

\* The numbers of fatalities at c that are on record, or that a sweep in hand of
\* the corner will put there; all of them once a sweep has died on the corner.
Covered(c) ==
    {n \in Nat :
        \/ n <= accounted[c]
        \/ c \in lost
        \/ \E s \in Between(c) : Due(s) /\ n <= Mine(s).counts.fatal}

\* The fatalities of every baseline are covered, and so are those of a baseline
\* that a sweep has read and is comparing with, which may have been replaced.
CoveredInv ==
    /\ \A c \in Corner : baseline[c] \in Snapshot => baseline[c].counts.fatal \in Covered(c)
    /\ \A s \in Sweeper :
         (phase[s] \in {"store", "decide"} /\ old[s] \in Snapshot) =>
            old[s].complete /\ old[s].counts.fatal \in Covered(at[s])

\* What a comparison says of the fatalities.
LEMMA ComparedFatal ==
  ASSUME NEW o, NEW n
  PROVE  ~Compared(o, n).unreliable /\ Compared(o, n).newFatal = Rise(o.fatal, n.fatal)
<1>1. Compared(o, n).newFatal = Rise(o.fatal, n.fatal)
  BY Zenon DEF Compared
<1>2. Compared(o, n).unreliable = FALSE
  BY Zenon DEF Compared
<1>3. QED
  BY <1>1, <1>2

\* The rules never leave a corner that is due to the tier, and a decline of one
\* is a new baseline.
LEMMA DueIsRuled ==
  ASSUME NEW s \in Sweeper, TypeOK, Mine(s) \in Snapshot, Mine(s).complete,
         phase[s] = "decide", Due(s), old[s] \in Snapshot => old[s].complete
  PROVE  /\ RuleVerdict(TheDelta(s)) # "ask"
         /\ RuleVerdict(TheDelta(s)) = "decline" =>
              RuleBasis(IF old[s] = Garbled THEN NoSnapshot ELSE old[s], TheDelta(s)) \in NewBaseline
<1>1. old[s] \in Snapshot \cup {NoSnapshot, Garbled}
  BY DEF TypeOK
<1>2. CASE old[s] = Garbled
  <2>1. TheDelta(s) = [NotCompared(FALSE, "first") EXCEPT !.unreliable = TRUE, !.why = "quarantine"]
    BY <1>2 DEF TheDelta, DiffSnapshots
  <2>2. TheDelta(s).unreliable /\ TheDelta(s).why = "quarantine"
    BY <2>1 DEF NotCompared
  <2>3. QED
    BY <2>2 DEF RuleVerdict, RuleBasis, NewBaseline
<1>3. CASE old[s] = NoSnapshot
  <2>1. TheDelta(s) = NotCompared(FALSE, "first") /\ old[s] # Garbled
    BY <1>3, ValuesAssumption DEF TheDelta, DiffSnapshots, ValuesAssumption
  <2>2. ~TheDelta(s).unreliable /\ TheDelta(s).empty
    BY <2>1 DEF NotCompared
  <2>3. TheDelta(s).newFatal = 0 /\ TheDelta(s).newSevere = 0
    BY <2>1 DEF NotCompared
  <2>4. QED
    BY <1>3, <2>1, <2>2, <2>3 DEF RuleVerdict, RuleBasis, NewBaseline
<1>4. CASE old[s] \in Snapshot
  <2>1. old[s] # Garbled /\ old[s] # NoSnapshot /\ old[s].complete
    BY <1>4, ValuesAssumption DEF ValuesAssumption
  <2>2. CASE old[s].query # Mine(s).query
    <3>1. TheDelta(s) = NotCompared(TRUE, "query")
      BY <2>1, <2>2 DEF TheDelta, DiffSnapshots
    <3>2. TheDelta(s).unreliable /\ TheDelta(s).why = "query"
      BY <3>1 DEF NotCompared
    <3>3. QED
      BY <3>2 DEF RuleVerdict, RuleBasis, NewBaseline
  <2>3. CASE old[s].query = Mine(s).query
    <3>1. TheDelta(s) = Compared(old[s].counts, Mine(s).counts)
      BY <2>1, <2>3 DEF TheDelta, DiffSnapshots
    <3>2. Mine(s).counts.fatal > old[s].counts.fatal
      BY <1>4, <2>3 DEF Due
    <3>3. ~TheDelta(s).unreliable
      BY <3>1, ComparedFatal
    <3>4. TheDelta(s).newFatal > 0
      <4>1. Mine(s).counts.fatal \in Nat /\ old[s].counts.fatal \in Nat
        BY <1>4 DEF Snapshot, Counts
      <4>2. TheDelta(s).newFatal = Rise(old[s].counts.fatal, Mine(s).counts.fatal)
        BY <3>1, ComparedFatal
      <4>3. QED
        BY <3>2, <4>1, <4>2 DEF Rise
    <3>5. QED
      BY <3>3, <3>4 DEF RuleVerdict
  <2>4. QED
    BY <2>2, <2>3
<1>5. QED
  BY <1>1, <1>2, <1>3, <1>4

\* When one sweep moves, what was covered stays covered if the sweep settles what
\* is due, or dies on it, or goes on to publish it.
LEMMA CoveredGrows ==
  ASSUME TypeOK, TypeOK', Settling, NEW s \in Sweeper,
         \A t \in Sweeper \ {s} : /\ phase'[t] = phase[t] /\ at'[t] = at[t]
                                  /\ fresh'[t] = fresh[t] /\ old'[t] = old[t],
         \A c \in Corner : accounted[c] <= accounted'[c],
         lost \subseteq lost',
         s \in Between(at[s]) /\ Due(s) =>
            \/ Mine(s).counts.fatal <= accounted'[at[s]]
            \/ at[s] \in lost'
            \/ phase'[s] = "publish" /\ at'[s] = at[s] /\ fresh'[s] = fresh[s]
  PROVE  \A c \in Corner : Covered(c) \subseteq Covered(c)'
<1> SUFFICES ASSUME NEW c \in Corner, NEW n \in Covered(c) PROVE n \in Covered(c)'
  OBVIOUS
<1>1. n \in Nat /\ accounted[c] \in Nat /\ accounted'[c] \in Nat /\ accounted[c] <= accounted'[c]
  BY DEF Covered, TypeOK
<1>2. CASE n <= accounted[c] \/ c \in lost
  BY <1>1, <1>2 DEF Covered
<1>3. ASSUME NEW t \in Between(c), Due(t), n <= Mine(t).counts.fatal PROVE n \in Covered(c)'
  <2>1. t \in Sweeper /\ phase[t] \in {"decide", "publish"} /\ at[t] = c /\ Mine(t).complete
    BY <1>3 DEF Between
  <2>2. Mine(t).counts.fatal \in Nat
    BY <2>1 DEF Settling, Mine, Snapshot, Counts
  <2>3. CASE t # s
    <3>1. phase'[t] = phase[t] /\ at'[t] = at[t] /\ old'[t] = old[t] /\ Mine(t)' = Mine(t)
      BY <2>1, <2>3 DEF Mine
    <3>2. t \in Between(c)' /\ Due(t)'
      BY <1>3, <2>1, <3>1 DEF Between, Due
    <3>3. QED
      BY <1>1, <1>3, <3>1, <3>2 DEF Covered
  <2>4. CASE t = s
    <3>1. CASE Mine(s).counts.fatal <= accounted'[at[s]]
      BY <1>1, <1>3, <2>1, <2>2, <2>4, <3>1 DEF Covered
    <3>2. CASE at[s] \in lost'
      BY <1>1, <2>1, <2>4, <3>2 DEF Covered
    <3>3. CASE phase'[s] = "publish" /\ at'[s] = at[s] /\ fresh'[s] = fresh[s]
      <4>1. Mine(s)' = Mine(s)
        BY <3>3 DEF Mine
      <4>2. s \in Between(c)' /\ Due(s)'
        BY <2>1, <2>4, <3>3, <4>1 DEF Between, Due
      <4>3. QED
        BY <1>1, <1>3, <2>4, <4>1, <4>2 DEF Covered
    <3>4. QED
      BY <1>3, <2>1, <2>4, <3>1, <3>2, <3>3
  <2>5. QED
    BY <2>3, <2>4
<1>4. QED
  BY <1>2, <1>3 DEF Covered

\* Putting a look on record covers its fatalities, and forgets none.
LEMMA AccountCovers ==
  ASSUME TypeOK, NEW s \in Sweeper, at[s] \in Corner, Mine(s) \in Snapshot, Account(s)
  PROVE  /\ Mine(s).counts.fatal <= accounted'[at[s]]
         /\ \A c \in Corner : accounted[c] <= accounted'[c]
<1>1. Mine(s).counts.fatal \in Nat /\ accounted \in [Corner -> Nat]
  BY DEF Snapshot, Counts, TypeOK
<1>2. \A c \in Corner :
        accounted'[c] = IF c = at[s] THEN Larger(accounted[c], Mine(s).counts.fatal)
                                     ELSE accounted[c]
  BY <1>1 DEF Account
<1>3. QED
  BY <1>1, <1>2 DEF Larger

\* A decline settles what is due, and covers it.
LEMMA DeclineCovers ==
  ASSUME TypeOK, TypeOK', Settling, CoveredInv, NEW s \in Sweeper,
         RuleDeclines(s) \/ BudgetExhausted(s) \/ TriageDeclines(s)
  PROVE  \A c \in Corner : Covered(c) \subseteq Covered(c)'
<1> DEFINE basis == RuleBasis(IF old[s] = Garbled THEN NoSnapshot ELSE old[s], TheDelta(s))
<1>1. /\ phase[s] = "decide" /\ Advance(s)
      /\ UNCHANGED <<fresh, old, lost>>
      /\ Account(s) \/ UNCHANGED accounted
  BY DEF RuleDeclines, BudgetExhausted, TriageDeclines, Decline
<1>2. at[s] \in Corner /\ Mine(s) \in Snapshot
  BY <1>1 DEF Settling, TypeOK, Mine
<1>3. \A c \in Corner : accounted[c] <= accounted'[c]
  <2>1. accounted \in [Corner -> Nat]
    BY DEF TypeOK
  <2>2. CASE Account(s)
    BY <1>2, <2>2, AccountCovers
  <2>3. CASE UNCHANGED accounted
    BY <2>1, <2>3
  <2>4. QED
    BY <1>1, <2>2, <2>3
<1>4. ASSUME s \in Between(at[s]), Due(s) PROVE Mine(s).counts.fatal <= accounted'[at[s]]
  <2>1. Mine(s).complete
    BY <1>4 DEF Between
  <2>2. old[s] \in Snapshot => old[s].complete
    BY <1>1 DEF CoveredInv
  <2>3. /\ RuleVerdict(TheDelta(s)) # "ask"
        /\ RuleVerdict(TheDelta(s)) = "decline" => basis \in NewBaseline
    BY <1>1, <1>2, <1>4, <2>1, <2>2, DueIsRuled
  <2>4. RuleDeclines(s) /\ RuleVerdict(TheDelta(s)) = "decline" /\ Decline(s, basis)
    BY <2>3 DEF RuleDeclines, BudgetExhausted, TriageDeclines
  <2>5. Account(s)
    BY <2>1, <2>3, <2>4 DEF Decline
  <2>6. QED
    BY <1>2, <2>5, AccountCovers
<1>5. \A t \in Sweeper \ {s} : phase'[t] = phase[t] /\ at'[t] = at[t]
  BY <1>1, AdvanceTyped
<1>6. QED
  BY <1>1, <1>3, <1>4, <1>5, CoveredGrows

\* So does a publish; one that fails or a sweep that dies loses the corner.
LEMMA PublishCovers ==
  ASSUME TypeOK, TypeOK', Settling, NEW s \in Sweeper, Publish(s) \/ PublishFails(s) \/ Die(s)
  PROVE  \A c \in Corner : Covered(c) \subseteq Covered(c)'
<1>1. accounted \in [Corner -> Nat] /\ UNCHANGED <<fresh, old>>
  BY DEF Publish, PublishFails, Die, TypeOK
<1>2. \A t \in Sweeper \ {s} : phase'[t] = phase[t] /\ at'[t] = at[t]
  BY AdvanceTyped DEF Publish, PublishFails, Die, TypeOK
<1>3. phase[s] = "publish" => at[s] \in Corner /\ Mine(s) \in Snapshot
  BY DEF Settling, TypeOK, Mine
<1>4. CASE Publish(s)
  <2>1. phase[s] = "publish" /\ Account(s) /\ lost' = lost
    BY <1>4 DEF Publish
  <2>2. /\ Mine(s).counts.fatal <= accounted'[at[s]]
        /\ \A c \in Corner : accounted[c] <= accounted'[c]
    BY <1>3, <2>1, AccountCovers
  <2>3. QED
    BY <1>1, <1>2, <2>1, <2>2, CoveredGrows
<1>5. CASE PublishFails(s)
  <2>1. phase[s] = "publish" /\ (Account(s) \/ UNCHANGED accounted)
    BY <1>5 DEF PublishFails
  <2>2. \A c \in Corner : accounted[c] <= accounted'[c]
    <3>1. CASE Account(s)
      BY <1>3, <2>1, <3>1, AccountCovers
    <3>2. CASE UNCHANGED accounted
      BY <1>1, <3>2
    <3>3. QED
      BY <2>1, <3>1, <3>2
  <2>3. lost \subseteq lost' /\ (s \in Between(at[s]) => at[s] \in lost')
    BY <1>5 DEF PublishFails, Between
  <2>4. QED
    BY <1>1, <1>2, <2>2, <2>3, CoveredGrows
<1>6. CASE Die(s)
  <2>1. \A c \in Corner : accounted[c] <= accounted'[c]
    BY <1>1, <1>6 DEF Die
  <2>2. lost \subseteq lost' /\ (s \in Between(at[s]) => at[s] \in lost')
    BY <1>6 DEF Die, Between
  <2>3. QED
    BY <1>1, <1>2, <2>1, <2>2, CoveredGrows
<1>7. QED
  BY <1>4, <1>5, <1>6

\* The other steps of a sweep leave what is due to it, or begin to publish it.
LEMMA MovingCovers ==
  ASSUME TypeOK, TypeOK', Settling, NEW s \in Sweeper,
         \/ Start(s) \/ FetchesDone(s) \/ FetchFailed(s) \/ ReadBaseline(s) \/ StoreBaseline(s)
         \/ RuleEscalates(s) \/ TriageEscalates(s)
         \/ \E c \in Corner : ReadLanes(s, c) \/ FetchRaises(s, c)
  PROVE  \A c \in Corner : Covered(c) \subseteq Covered(c)'
<1>1. /\ accounted \in [Corner -> Nat]
      /\ UNCHANGED <<accounted, lost>>
  BY DEF Start, FetchesDone, FetchFailed, ReadBaseline, StoreBaseline, RuleEscalates,
         TriageEscalates, Escalate, ReadLanes, FetchRaises, TypeOK
<1>2. \A t \in Sweeper \ {s} : fresh'[t] = fresh[t] /\ old'[t] = old[t]
  <2>1. \A t \in Sweeper \ {s} : fresh'[t] = fresh[t]
    <3>1. CASE Start(s) \/ \E c \in Corner : ReadLanes(s, c) \/ FetchRaises(s, c)
      <4>1. PICK looks : fresh' = [fresh EXCEPT ![s] = looks]
        BY <3>1 DEF Start, ReadLanes, FetchRaises
      <4>2. DOMAIN fresh = Sweeper
        BY DEF TypeOK
      <4>3. QED
        BY <4>1, <4>2
    <3>2. CASE \/ FetchesDone(s) \/ FetchFailed(s) \/ ReadBaseline(s) \/ StoreBaseline(s)
               \/ RuleEscalates(s) \/ TriageEscalates(s)
      BY <3>2 DEF FetchesDone, FetchFailed, ReadBaseline, StoreBaseline, RuleEscalates,
             TriageEscalates, Escalate, TypeOK
    <3>3. QED
      BY <3>1, <3>2
  <2>2. \A t \in Sweeper \ {s} : old'[t] = old[t]
    BY DEF Start, FetchesDone, FetchFailed, ReadBaseline, StoreBaseline, RuleEscalates,
           TriageEscalates, Escalate, ReadLanes, FetchRaises, TypeOK
  <2>3. QED
    BY <2>1, <2>2
<1>3. \A t \in Sweeper \ {s} : phase'[t] = phase[t] /\ at'[t] = at[t]
  <2>1. CASE FetchesDone(s) \/ FetchFailed(s)
    BY <2>1, AdvanceTyped DEF FetchesDone, FetchFailed
  <2>2. CASE \/ Start(s) \/ ReadBaseline(s) \/ StoreBaseline(s)
             \/ RuleEscalates(s) \/ TriageEscalates(s)
             \/ \E c \in Corner : ReadLanes(s, c) \/ FetchRaises(s, c)
    BY <2>2 DEF Start, ReadBaseline, StoreBaseline, RuleEscalates, TriageEscalates, Escalate,
                ReadLanes, FetchRaises, TypeOK
  <2>3. QED
    BY <2>1, <2>2
<1>4. \/ s \notin Between(at[s])
      \/ phase'[s] = "publish" /\ at'[s] = at[s] /\ fresh'[s] = fresh[s]
  BY DEF Start, FetchesDone, FetchFailed, ReadBaseline, StoreBaseline, RuleEscalates,
         TriageEscalates, Escalate, ReadLanes, FetchRaises, TypeOK, Between
<1>5. \A c \in Corner : accounted[c] <= accounted'[c]
  BY <1>1
<1>6. QED
  BY <1>1, <1>2, <1>3, <1>4, <1>5, CoveredGrows

\* What is covered stays covered.
LEMMA CoveredStays ==
  ASSUME TypeOK, Settling, CoveredInv, [Next]_vars
  PROVE  \A c \in Corner : Covered(c) \subseteq Covered(c)'
<1>1. TypeOK'
  BY TypesStep
<1>2. CASE \/ UNCHANGED vars \/ Redeploy \/ RosterChanges
           \/ \E c \in Corner : CityChanges(c) \/ Garble(c)
  <2>1. UNCHANGED <<phase, at, fresh, old, accounted, lost>>
    BY <1>2 DEF vars, Redeploy, RosterChanges, CityChanges, Garble
  <2>2. QED
    BY <2>1 DEF Covered, Between, Due, Mine
<1>3. QED
  BY <1>1, <1>2, DeclineCovers, PublishCovers, MovingCovers DEF Next, SweepStep

\* With a number of fatalities every smaller one is covered.
LEMMA CoveredDown ==
  ASSUME TypeOK, Settling, NEW c \in Corner, NEW n \in Covered(c), NEW m \in Nat, m <= n
  PROVE  m \in Covered(c)
<1>1. accounted[c] \in Nat /\ n \in Nat
  BY DEF TypeOK, Covered
<1>2. \A t \in Between(c) : Mine(t).counts.fatal \in Nat
  BY DEF Between, Settling, Mine, Snapshot, Counts
<1>3. QED
  BY <1>1, <1>2 DEF Covered

\* Storing a look is covered: the sweep is due, or the look holds no more
\* fatalities than the baseline it is compared with, which is covered.
LEMMA StoreCovers ==
  ASSUME TypeOK, Settling, CoveredInv, NEW s \in Sweeper, StoreBaseline(s), Mine(s).complete,
         \A c \in Corner : Covered(c) \subseteq Covered(c)'
  PROVE  at[s] \in Corner /\ Mine(s).counts.fatal \in Covered(at[s])'
<1>1. /\ phase[s] = "store" /\ phase' = [phase EXCEPT ![s] = "decide"]
      /\ UNCHANGED <<at, fresh, old>>
  BY DEF StoreBaseline
<1>2. at[s] \in Corner /\ Mine(s) \in Snapshot
  BY <1>1 DEF Settling, TypeOK, Mine
<1>3. Mine(s).counts.fatal \in Nat /\ Mine(s)' = Mine(s) /\ phase'[s] = "decide"
  BY <1>1, <1>2 DEF Snapshot, Counts, Mine, TypeOK
<1>4. s \in Between(at[s])'
  BY <1>1, <1>3 DEF Between
<1>5. CASE \/ old[s] \notin Snapshot
           \/ old[s].query # Mine(s).query
           \/ Mine(s).counts.fatal > old[s].counts.fatal
  <2>1. Due(s)'
    BY <1>1, <1>3, <1>5 DEF Due
  <2>2. QED
    BY <1>1, <1>2, <1>3, <1>4, <2>1 DEF Covered
<1>6. CASE old[s] \in Snapshot /\ ~(Mine(s).counts.fatal > old[s].counts.fatal)
  <2>1. old[s].counts.fatal \in Covered(at[s])
    BY <1>1, <1>6 DEF CoveredInv
  <2>2. Mine(s).counts.fatal <= old[s].counts.fatal
    BY <1>3, <1>6 DEF Snapshot, Counts
  <2>3. Mine(s).counts.fatal \in Covered(at[s])
    BY <1>2, <1>3, <2>1, <2>2, CoveredDown
  <2>4. QED
    BY <1>1, <1>2, <2>3
<1>7. QED
  BY <1>5, <1>6

\* The baselines stay covered, and those the sweeps hold.
LEMMA CoveredStep ==
  ASSUME TypeOK, Settling, RealInv, CoveredInv, [Next]_vars
  PROVE  CoveredInv'
<1>1. \A c \in Corner : Covered(c) \subseteq Covered(c)'
  BY CoveredStays
<1> DEFINE Kept == \A c \in Corner : baseline'[c] \in Snapshot => baseline'[c] = baseline[c]
           Held(t) == phase[t] \in {"store", "decide"}
           Compares == \A t \in Sweeper : (Held(t))' =>
                          Held(t) /\ at'[t] = at[t] /\ old'[t] = old[t]
<1>2. ASSUME Kept
      PROVE  \A c \in Corner : baseline'[c] \in Snapshot => baseline'[c].counts.fatal \in Covered(c)'
  BY <1>1, <1>2 DEF CoveredInv
<1>3. \A t \in Sweeper : Held(t) => at[t] \in Corner
  BY DEF Settling, TypeOK
<1>4. ASSUME NEW t \in Sweeper, Held(t), at'[t] = at[t], old'[t] = old[t], old'[t] \in Snapshot
      PROVE  old'[t].complete /\ old'[t].counts.fatal \in Covered(at[t])'
  BY <1>1, <1>3, <1>4 DEF CoveredInv
<1>5. ASSUME Compares
      PROVE  \A t \in Sweeper : (Held(t))' /\ old'[t] \in Snapshot =>
                old'[t].complete /\ old'[t].counts.fatal \in Covered(at[t])'
  BY <1>4, <1>5
<1>6. ASSUME Kept, Compares PROVE CoveredInv'
  <2>1. \A c \in Corner : baseline'[c] \in Snapshot => baseline'[c].counts.fatal \in Covered(c)'
    BY <1>2, <1>6
  <2>2. \A t \in Sweeper : (Held(t))' /\ old'[t] \in Snapshot =>
          old'[t].complete /\ at'[t] = at[t] /\ old'[t].counts.fatal \in Covered(at[t])'
    BY <1>5, <1>6
  <2>3. QED
    BY <2>1, <2>2 DEF CoveredInv
<1>7. ASSUME NEW s \in Sweeper, ReadBaseline(s) PROVE CoveredInv'
  <2>1. /\ phase[s] = "read" /\ phase' = [phase EXCEPT ![s] = "store"]
        /\ at' = at /\ old' = [old EXCEPT ![s] = baseline[at[s]]]
    BY <1>7 DEF ReadBaseline
  <2>2. at[s] \in Corner
    BY <2>1 DEF Settling, TypeOK
  <2>3. Kept
    BY <1>7, ValuesAssumption DEF ReadBaseline, TypeOK, ValuesAssumption
  <2>4. baseline[at[s]] \in Snapshot =>
          baseline[at[s]].complete /\ baseline[at[s]].counts.fatal \in Covered(at[s])'
    <3>1. Covered(at[s]) \subseteq Covered(at[s])'
      BY <1>1, <2>1, <2>2
    <3>2. baseline[at[s]] \in Snapshot =>
            baseline[at[s]].complete /\ baseline[at[s]].counts.fatal \in Covered(at[s])
      BY <2>2 DEF RealInv, BaselineIsReal, CoveredInv
    <3>3. QED
      BY <3>1, <3>2
  <2>5. old'[s] = baseline[at[s]]
    BY <2>1 DEF TypeOK
  <2>6. \A t \in Sweeper \ {s} : phase'[t] = phase[t] /\ old'[t] = old[t]
    BY <2>1 DEF TypeOK
  <2>7. ASSUME NEW t \in Sweeper, (Held(t))', old'[t] \in Snapshot
        PROVE  old'[t].complete /\ old'[t].counts.fatal \in Covered(at[t])'
    <3>1. CASE t = s
      BY <2>1, <2>4, <2>5, <2>7, <3>1
    <3>2. CASE t # s
      BY <1>4, <2>1, <2>6, <2>7, <3>2
    <3>3. QED
      BY <3>1, <3>2
  <2>8. \A c \in Corner : baseline'[c] \in Snapshot => baseline'[c].counts.fatal \in Covered(c)'
    BY <1>2, <2>3
  <2>9. QED
    BY <2>1, <2>7, <2>8 DEF CoveredInv
<1>8. ASSUME NEW s \in Sweeper, StoreBaseline(s) PROVE CoveredInv'
  <2>1. /\ phase[s] = "store" /\ phase' = [phase EXCEPT ![s] = "decide"]
        /\ UNCHANGED <<at, old>>
    BY <1>8 DEF StoreBaseline
  <2>2. Compares
    BY <2>1 DEF TypeOK
  <2>3. CASE ~Mine(s).complete
    BY <1>6, <1>8, <2>2, <2>3 DEF StoreBaseline
  <2>4. CASE Mine(s).complete
    <3>1. at[s] \in Corner /\ Mine(s).counts.fatal \in Covered(at[s])'
      BY <1>1, <1>8, <2>4, StoreCovers
    <3>2. \A c \in Corner : baseline'[c] = IF c = at[s] THEN Mine(s) ELSE baseline[c]
      BY <1>8, <2>4, <3>1 DEF StoreBaseline, TypeOK
    <3>3. ASSUME NEW c \in Corner, baseline'[c] \in Snapshot
          PROVE  baseline'[c].counts.fatal \in Covered(c)'
      <4>1. CASE c = at[s]
        BY <2>1, <3>1, <3>2, <4>1
      <4>2. CASE c # at[s]
        BY <1>1, <3>2, <3>3, <4>2 DEF CoveredInv
      <4>3. QED
        BY <4>1, <4>2
    <3>4. \A t \in Sweeper : (Held(t))' /\ old'[t] \in Snapshot =>
            old'[t].complete /\ old'[t].counts.fatal \in Covered(at[t])'
      BY <1>5, <2>2
    <3>5. QED
      BY <2>1, <3>3, <3>4 DEF CoveredInv
  <2>5. QED
    BY <2>3, <2>4
<1>9. ASSUME NEW s \in Sweeper, SettleStep(s), ~ReadBaseline(s), ~StoreBaseline(s)
      PROVE  Kept /\ Compares
  <2>1. baseline' = baseline /\ old' = old
    BY <1>9 DEF SettleStep, FetchFailed, RuleDeclines, RuleEscalates, BudgetExhausted,
                TriageDeclines, TriageEscalates, Decline, Escalate, Publish, PublishFails, Die
  <2>2. phase'[s] \notin {"store", "decide"}
    BY <1>9, AdvanceTyped DEF SettleStep, FetchFailed, RuleDeclines, RuleEscalates,
         BudgetExhausted, TriageDeclines, TriageEscalates, Decline, Escalate, Publish,
         PublishFails, Die, TypeOK
  <2>3. \A t \in Sweeper \ {s} : phase'[t] = phase[t] /\ at'[t] = at[t]
    BY <1>9, SettleFrame
  <2>4. QED
    BY <2>1, <2>2, <2>3
<1>10. ASSUME NEW s \in Sweeper,
              \/ Start(s) \/ FetchesDone(s)
              \/ \E c \in Corner : ReadLanes(s, c) \/ FetchRaises(s, c)
       PROVE  Kept /\ Compares
  <2>1. baseline' = baseline /\ phase'[s] \notin {"store", "decide"}
    BY <1>10, AdvanceTyped DEF Start, FetchesDone, ReadLanes, FetchRaises, TypeOK
  <2>2. \A t \in Sweeper \ {s} : phase'[t] = phase[t] /\ at'[t] = at[t] /\ old'[t] = old[t]
    BY <1>10, AdvanceTyped DEF Start, FetchesDone, ReadLanes, FetchRaises, TypeOK
  <2>3. QED
    BY <2>1, <2>2
<1>11. ASSUME \/ UNCHANGED vars \/ Redeploy \/ RosterChanges
              \/ \E c \in Corner : CityChanges(c) \/ Garble(c)
       PROVE  Kept /\ Compares
  BY <1>11, ValuesAssumption DEF vars, Redeploy, RosterChanges, CityChanges, Garble, TypeOK,
                                 ValuesAssumption
<1>12. QED
  BY <1>6, <1>7, <1>8, <1>9, <1>10, <1>11 DEF Next, SweepStep, SettleStep

LEMMA CoveredInit == Init => CoveredInv
  BY ValuesAssumption DEF Init, CoveredInv, ValuesAssumption

\* A fatality never slips into a baseline unseen, however many sweepers there are,
\* however they interleave and die, and whatever the budget and the tier answer.
THEOREM FatalitiesAreOnRecord == Spec => []FatalityOnRecord
<1>1. /\ TypeOK /\ Settling /\ RealInv /\ [Next]_vars => RealInv'
      /\ TypeOK /\ Settling /\ RealInv /\ CoveredInv /\ [Next]_vars => CoveredInv'
  BY ShownStep, LooksStep, AllReadStep, BaselineStep, CoveredStep DEF RealInv
<1>2. CoveredInv => FatalityOnRecord
  BY DEF CoveredInv, Covered, FatalityOnRecord
<1>3. QED
  BY RealInit, CoveredInit, <1>1, <1>2, Types, PTL DEF Spec

-----------------------------------------------------------------------------
\* A sweep has one record for each corner it has passed, none for those ahead.
Recorded ==
    \A s \in Sweeper : phase[s] # "dead" =>
        /\ phase[s] = "fetch" => at[s] = 0
        /\ \A c \in Corner :
             IF c \notin watching[s] THEN record[s][c] \in {<<>>, <<"roster_drop">>}
             ELSE IF phase[s] = "idle" \/ c < at[s] THEN Len(record[s][c]) = 1
             ELSE record[s][c] = <<>>

\* On to the next corner with one record for every corner up to this one.
LEMMA AdvanceRecorded ==
  ASSUME TypeOK, Recorded, NEW s \in Sweeper, Advance(s), watching' = watching,
         \A t \in Sweeper \ {s} : record'[t] = record[t],
         \A c \in Corner :
            IF c \notin watching[s] THEN record'[s][c] \in {<<>>, <<"roster_drop">>}
            ELSE IF c <= at[s] THEN Len(record'[s][c]) = 1 ELSE record'[s][c] = <<>>
  PROVE  Recorded'
<1>1. \A t \in Sweeper \ {s} : phase'[t] = phase[t] /\ at'[t] = at[t]
  BY AdvanceTyped
<1>2. at[s] \in Nat /\ Corner \subseteq Nat /\ watching[s] \subseteq Corner
  BY SweepAssumption DEF TypeOK, Corner, SweepAssumption
<1>3. CASE /\ {c \in watching[s] : c > at[s]} = {}
           /\ phase' = [phase EXCEPT ![s] = "idle"]
           /\ at' = [at EXCEPT ![s] = 0]
  <2>1. phase'[s] = "idle" /\ \A c \in watching[s] : c <= at[s]
    BY <1>2, <1>3 DEF TypeOK
  <2>2. QED
    BY <1>1, <2>1 DEF Recorded
<1>4. ASSUME NEW d \in watching[s], d > at[s],
             \A c \in watching[s] : c > at[s] => d <= c,
             phase' = [phase EXCEPT ![s] = "read"], at' = [at EXCEPT ![s] = d]
      PROVE  Recorded'
  <2>1. phase'[s] = "read" /\ at'[s] = d
    BY <1>4 DEF TypeOK
  <2>2. ASSUME NEW c \in watching[s] PROVE c < d <=> c <= at[s]
    <3>1. c \in Nat /\ d \in Nat /\ at[s] \in Nat
      BY <1>2
    <3>2. c > at[s] => d <= c
      BY <1>4
    <3>3. QED
      BY <1>4, <3>1, <3>2
  <2>3. QED
    BY <1>1, <2>1, <2>2 DEF Recorded
<1>5. QED
  BY <1>3, <1>4 DEF Advance

\* One record more, and on.
LEMMA LeaveRecorded ==
  ASSUME TypeOK, Settling, Recorded, NEW s \in Sweeper, NEW basis \in Basis,
         phase[s] \in {"read", "decide", "publish"}, Leave(s, basis), Advance(s),
         watching' = watching
  PROVE  Recorded'
<1>1. at[s] \in watching[s] /\ at[s] \in Corner /\ record \in [Sweeper -> [Corner -> Seq(Basis)]]
  BY DEF Settling, TypeOK
<1>2. /\ \A t \in Sweeper \ {s} : record'[t] = record[t]
      /\ \A c \in Corner : record'[s][c] = IF c = at[s] THEN Append(record[s][c], basis)
                                                      ELSE record[s][c]
  BY <1>1 DEF Leave
<1>3. Corner \subseteq Nat
  BY SweepAssumption DEF Corner, SweepAssumption
<1>4. /\ record[s][at[s]] = <<>>
      /\ \A c \in Corner \ {at[s]} :
            IF c \notin watching[s] THEN record[s][c] \in {<<>>, <<"roster_drop">>}
            ELSE IF c < at[s] THEN Len(record[s][c]) = 1 ELSE record[s][c] = <<>>
  <2>1. phase[s] # "dead" /\ phase[s] # "idle" /\ ~(at[s] < at[s])
    <3>1. at[s] \in Nat
      BY <1>1, <1>3
    <3>2. ~(at[s] < at[s])
      BY <3>1
    <3>3. phase[s] # "dead" /\ phase[s] # "idle"
      OBVIOUS
    <3>4. QED
      BY <3>2, <3>3
  <2>2. \A c \in Corner :
          IF c \notin watching[s] THEN record[s][c] \in {<<>>, <<"roster_drop">>}
          ELSE IF c < at[s] THEN Len(record[s][c]) = 1 ELSE record[s][c] = <<>>
    BY <2>1 DEF Recorded
  <2>3. QED
    BY <1>1, <2>1, <2>2
<1>5. Len(record'[s][at[s]]) = 1
  <2>1. <<>> \in Seq(Basis) /\ Len(Append(<<>>, basis)) = 1
    OBVIOUS
  <2>2. QED
    BY <1>1, <1>2, <1>4, <2>1
<1>6. ASSUME NEW c \in Corner
      PROVE  IF c \notin watching[s] THEN record'[s][c] \in {<<>>, <<"roster_drop">>}
             ELSE IF c <= at[s] THEN Len(record'[s][c]) = 1 ELSE record'[s][c] = <<>>
  <2>1. CASE c = at[s]
    BY <1>1, <1>3, <1>5, <2>1
  <2>2. CASE c # at[s]
    <3>1. /\ record'[s][c] = record[s][c] /\ c \in Nat /\ at[s] \in Nat
          /\ c < at[s] <=> c <= at[s]
      BY <1>1, <1>2, <1>3, <2>2
    <3>2. QED
      BY <1>4, <2>2, <3>1
  <2>3. QED
    BY <2>1, <2>2
<1>7. QED
  BY <1>2, <1>6, AdvanceRecorded

LEMMA RecordedStep ==
  ASSUME TypeOK, Settling, Recorded, [Next]_vars
  PROVE  Recorded'
<1>1. CASE UNCHANGED <<phase, at, watching, record>>
  BY <1>1 DEF Recorded
<1>2. ASSUME NEW s \in Sweeper, Start(s) PROVE Recorded'
  <2>1. \A t \in Sweeper \ {s} : /\ phase'[t] = phase[t] /\ at'[t] = at[t]
                                 /\ watching'[t] = watching[t] /\ record'[t] = record[t]
    BY <1>2 DEF Start, TypeOK
  <2>2. /\ phase'[s] = "fetch" /\ at'[s] = 0 /\ watching'[s] = roster
        /\ \A c \in Corner : record'[s][c] = IF c \notin roster /\ baseline[c] \in Snapshot
                                               THEN <<"roster_drop">> ELSE <<>>
    BY <1>2 DEF Start, TypeOK
  <2>3. \A c \in Corner : ~(c < 0)
    BY SweepAssumption DEF Corner, SweepAssumption
  <2>4. QED
    BY <2>1, <2>2, <2>3 DEF Recorded
<1>3. ASSUME NEW s \in Sweeper, FetchesDone(s) PROVE Recorded'
  <2>1. phase[s] = "fetch" /\ Advance(s) /\ UNCHANGED <<watching, record>>
    BY <1>3 DEF FetchesDone
  <2>2. at[s] = 0 /\ \A c \in Corner : ~(c <= at[s]) /\ ~(c < at[s])
    BY <2>1, SweepAssumption DEF Recorded, Corner, SweepAssumption
  <2>3. QED
    BY <2>1, <2>2, AdvanceRecorded DEF Recorded
<1>4. ASSUME NEW s \in Sweeper, FetchFailed(s) \/ Publish(s) PROVE Recorded'
  BY <1>4, LeaveRecorded DEF FetchFailed, Publish, Basis
<1>5. ASSUME NEW s \in Sweeper, RuleDeclines(s) \/ BudgetExhausted(s) \/ TriageDeclines(s)
      PROVE  Recorded'
  <2>1. PICK basis \in Basis : phase[s] = "decide" /\ Decline(s, basis)
    <3>1. CASE RuleDeclines(s)
      BY <3>1, DeclineBasis DEF RuleDeclines
    <3>2. CASE BudgetExhausted(s) \/ TriageDeclines(s)
      BY <3>2 DEF BudgetExhausted, TriageDeclines, Basis
    <3>3. QED
      BY <1>5, <3>1, <3>2
  <2>2. QED
    BY <2>1, LeaveRecorded DEF Decline
<1>6. ASSUME NEW s \in Sweeper,
             ReadBaseline(s) \/ StoreBaseline(s) \/ RuleEscalates(s) \/ TriageEscalates(s)
      PROVE  Recorded'
  <2>1. PICK next \in {"store", "decide", "publish"} : phase' = [phase EXCEPT ![s] = next]
    BY <1>6 DEF ReadBaseline, StoreBaseline, RuleEscalates, TriageEscalates, Escalate
  <2>2. UNCHANGED <<at, watching, record>> /\ phase[s] \in {"read", "store", "decide"}
    BY <1>6 DEF ReadBaseline, StoreBaseline, RuleEscalates, TriageEscalates, Escalate
  <2>3. QED
    BY <2>1, <2>2 DEF Recorded, TypeOK
<1>7. ASSUME NEW s \in Sweeper, PublishFails(s) \/ Die(s) PROVE Recorded'
  <2>1. UNCHANGED <<at, watching, record>> /\ phase' = [phase EXCEPT ![s] = "dead"]
    BY <1>7 DEF PublishFails, Die
  <2>2. QED
    BY <2>1 DEF Recorded, TypeOK
<1>8. ASSUME \/ UNCHANGED vars \/ Redeploy \/ RosterChanges
             \/ \E c \in Corner : CityChanges(c) \/ Garble(c)
             \/ \E s \in Sweeper, c \in Corner : ReadLanes(s, c) \/ FetchRaises(s, c)
      PROVE  UNCHANGED <<phase, at, watching, record>>
  BY <1>8 DEF vars, Redeploy, RosterChanges, CityChanges, Garble, ReadLanes, FetchRaises
<1>9. QED
  BY <1>1, <1>2, <1>3, <1>4, <1>5, <1>6, <1>7, <1>8 DEF Next, SweepStep

\* A sweep that ran to its end left exactly one record per watched corner.
THEOREM EveryCornerIsRecorded == Spec => []OneRecordEach
<1>1. Init => Recorded
  BY DEF Init, Recorded
<1>2. TypeOK /\ Settling /\ Recorded /\ [Next]_vars => Recorded'
  BY RecordedStep
<1>3. Recorded => OneRecordEach
  BY DEF Recorded, OneRecordEach
<1>4. QED
  BY <1>1, <1>2, <1>3, Types, PTL DEF Spec
=============================================================================

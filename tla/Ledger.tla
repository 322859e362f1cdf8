-------------------------------- MODULE Ledger --------------------------------
(***************************************************************************)
(* ledger.py: what the public page says of a journal.  Pure operators over *)
(* a sequence of entries, oldest first; wording and layout are left out.   *)
(*                                                                         *)
(* An entry is what one evaluation wrote: the corner, the id of the run,   *)
(* the basis and the floor's mark of tier one, whether tier two left a     *)
(* decision, the actions taken and the ones refused, an error, the day,    *)
(* and the tiers that were consulted.                                      *)
(***************************************************************************)
EXTENDS Integers, Sequences, FiniteSets

\* The bucket of entries that carry no run id, the roster drops.
NoRun == "unrecorded"

\* The bases a rule settled without any judgment, and the one of a tier that
\* did not trust the evidence.
UnjudgedBases ==
    {"first_sighting", "no_change", "unreliable", "fetch_failed", "methodology", "roster_drop",
     "corrupt_baseline", "budget_exhausted", "triage_defer", "unrecorded"}

DecidedBy(e) ==
    IF e.tier2 THEN "Deliberation" ELSE IF e.byRule THEN "Rule floor" ELSE "Triage"

\* The decider chose to act and the budget refused all of it.
WantedToAct(e) == e.intents # {} /\ e.actions = {}

\* Nothing was done, nobody wanted to, and nothing broke.
IsHeld(e) == e.actions = {} /\ ~WantedToAct(e) /\ ~e.error

\* The entries of a journal that satisfy a predicate, by position.
Where(journal, P(_)) == {i \in DOMAIN journal : P(journal[i])}

Count(journal, P(_)) == Cardinality(Where(journal, P))

\* How many actions, or intents, the entries list between them.
Listed(journal, field) ==
    Cardinality(UNION {{i} \X journal[i][field] : i \in DOMAIN journal})

\* summarise: the headline figures.  What acted is what is left of the total,
\* and what triage declined is what is left of the judged declines.
Summarise(journal) ==
    LET held == Where(journal, IsHeld)
        blocked == Count(journal, WantedToAct)
        errored == Count(journal, LAMBDA e : e.error)
        unjudged == Cardinality({i \in held : journal[i].basis \in UnjudgedBases})
        deliberated == Cardinality({i \in held : journal[i].tier2})
    IN [total |-> Len(journal), held |-> Cardinality(held), blocked |-> blocked,
        errored |-> errored, acted |-> Len(journal) - Cardinality(held) - blocked - errored,
        escalated |-> Count(journal, LAMBDA e : e.tier2),
        byRule |-> Count(journal, LAMBDA e : e.byRule),
        intents |-> Listed(journal, "intents"), actions |-> Listed(journal, "actions"),
        corners |-> {journal[i].slug : i \in DOMAIN journal},
        unjudged |-> unjudged, judged |-> Cardinality(held) - unjudged,
        deliberated |-> deliberated,
        triage |-> Cardinality(held) - unjudged - deliberated]

\* The breakdown under the headline: nothing held, nothing judged, or who judged.
Breakdown(s) ==
    IF s.held = 0 THEN {}
    ELSE IF s.judged = 0 THEN {"no judgment call"}
    ELSE {who \in {"triage", "deliberation"} :
            IF who = "triage" THEN s.triage # 0 ELSE s.deliberated # 0}

\* spend: consultations by tier, and the entries that cost nothing.
Spend(journal) ==
    [consulted |-> [t \in {"tier1", "tier2"} |-> Count(journal, LAMBDA e : t \in e.tiers)],
     free |-> Count(journal, LAMBDA e : e.tiers = {})]

-----------------------------------------------------------------------------
\* A run id joins the ids seen before it, if it is not among them.
Joined(seen, rid) == IF \E k \in DOMAIN seen : seen[k] = rid THEN seen ELSE Append(seen, rid)

\* The run ids in the order in which they first appear.
FirstSeen(journal) ==
    LET seen[i \in 0..Len(journal)] ==
            IF i = 0 THEN <<>> ELSE Joined(seen[i - 1], journal[i].runId)
    IN seen[Len(journal)]

\* What the entries of one run id come to.
OneCycle(journal, rid) ==
    LET group == {i \in DOMAIN journal : journal[i].runId = rid} IN
    [runId |-> rid,
     corners |-> Cardinality({journal[i].slug : i \in group}),
     acted |-> Cardinality({i \in group : journal[i].actions # {}}),
     unreadable |-> Cardinality({i \in group :
                        journal[i].basis \in {"fetch_failed", "unreliable"}})]

\* cycles: the entries grouped by run id, in that order.
Cycles(journal) ==
    LET ids == FirstSeen(journal) IN [k \in DOMAIN ids |-> OneCycle(journal, ids[k])]

Largest(S) == CHOOSE n \in S : \A m \in S : m <= n

\* Mutant of Expected: what a cycle should cover is read off the entries.
ExpectedInferred(runs, roster) == Largest({runs[k].corners : k \in DOMAIN runs})

\* How many corners the last cycle should have covered.
Expected(runs, roster) ==
    IF roster > 0 THEN roster ELSE Largest({runs[k].corners : k \in DOMAIN runs})

\* coverage: how much of the watched set the last of the cycles reached.
\* roster is the number of corners in watched.json, or 0 if nobody can tell.
Coverage(journal, roster) ==
    LET runs == Cycles(journal) IN
    IF runs = <<>>
      THEN [hasCycles |-> FALSE, runId |-> NoRun, covered |-> 0, expected |-> roster,
            missing |-> 0, unreadable |-> 0]
      ELSE LET last == runs[Len(runs)]
               expected == Expected(runs, roster)
           IN [hasCycles |-> TRUE, runId |-> last.runId, covered |-> last.corners,
               expected |-> expected,
               missing |-> IF expected > last.corners THEN expected - last.corners ELSE 0,
               unreadable |-> last.unreadable]

\* The notes at the head of the page.
StateBanner(cov) ==
    IF ~cov.hasCycles THEN {}
    ELSE {note \in {"did not finish", "source unavailable"} :
            IF note = "did not finish" THEN cov.covered < cov.expected ELSE cov.unreadable > 0}

\* The badge of one entry: an error first, then what was done.
Badge(e) == IF e.error THEN "Errored" ELSE IF e.actions = {} THEN "Held" ELSE "Acted"

-----------------------------------------------------------------------------
\* streak: the days from the first entry to the last, the ones without an
\* entry, and the longest run of those, counted day by day.
\* Mutant of RunAfter: a day with an entry does not end a run of gaps.
RunAfterAnyDay(ran, day, run) == IF day \in ran THEN run ELSE run + 1

RunAfter(ran, day, run) == IF day \in ran THEN 0 ELSE run + 1

\* One more day: the run of gaps that ends with it, and the longest so far.
AfterDay(ran, day, before) ==
    LET now == RunAfter(ran, day, before.run)
    IN [run |-> now, longest |-> IF now > before.longest THEN now ELSE before.longest]

LongestRun(ran, first, last) ==
    LET upTo[day \in (first - 1)..last] ==
            IF day < first THEN [run |-> 0, longest |-> 0] ELSE AfterDay(ran, day, upTo[day - 1])
    IN upTo[last].longest

Streak(journal) ==
    LET days == {journal[i].day : i \in DOMAIN journal} IN
    IF days = {} THEN [elapsed |-> 0, ran |-> 0, gaps |-> {}, longestGap |-> 0]
    ELSE LET last == Largest(days)
             first == CHOOSE d \in days : \A e \in days : d <= e
         IN [elapsed |-> last - first + 1, ran |-> Cardinality(days),
             gaps |-> (first..last) \ days,
             longestGap |-> LongestRun(days, first, last)]

\* corner_history and the counts of one corner's page: whatever did not act
\* ended in nothing.
CornerPage(journal, slug) ==
    LET mine == {i \in DOMAIN journal : journal[i].slug = slug}
        acted == {i \in mine : journal[i].actions # {}}
    IN [looked |-> Cardinality(mine), acted |-> Cardinality(acted),
        held |-> Cardinality(mine) - Cardinality(acted),
        runs |-> Cardinality({journal[i].runId : i \in mine} \ {NoRun})]

\* render_body: what the page states of a journal and a roster of this size.
Page(journal, roster) ==
    LET s == Summarise(journal) IN
    [summary |-> s, breakdown |-> Breakdown(s), spend |-> Spend(journal),
     banner |-> StateBanner(Coverage(journal, roster)),
     streak |-> Streak(journal),
     badges |-> [i \in DOMAIN journal |-> Badge(journal[i])],
     tiers |-> [i \in DOMAIN journal |-> DecidedBy(journal[i])]]
=============================================================================

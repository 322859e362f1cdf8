------------------------------- MODULE Watchdog -------------------------------
(***************************************************************************)
(* runner.run_cycle and the commands of cli.py on one machine: the parts   *)
(* put together.  `run` does several cycles and `tick` one, both under the *)
(* cycle lock, so one cycle at a time; `watched` replaces the roster,      *)
(* without the lock, at any time.  A cycle journals the roster drops,      *)
(* settles the corners in order, writes the manifest of its outbox, and    *)
(* lets the review move tier one's bar.  The page, which `ledger` renders  *)
(* at any time and every command at its end, is a function of the journal  *)
(* and the roster; the properties ask what it would say in every state.    *)
(*                                                                         *)
(* A corner is settled in the steps between which its cycle waits for a    *)
(* model: the budget pays for tier one, or for tier two, or the corner     *)
(* ends in one entry, as Sweep and Actor show it to; a cycle may die while *)
(* it waits.  The actor is called inside the sweep, by DirectBus, and its  *)
(* decider is the one select_brains builds, without guardrails.  What the  *)
(* page says is Ledger, what the review does is Calibration.               *)
(***************************************************************************)
EXTENDS Ledger, Calibration

CONSTANTS
    NumCorners,     \* the corners are 1..NumCorners, settled in this order
    Requests,       \* what tier two may ask for: verbs, in its order
    ManualId,       \* ManualId[i]: the run id of the i-th cycle of a `run`
    TickId,         \* TickId[n]: the run id of a tick that is the n-th command;
                    \* bound: how many commands
    TokenLimit,     \* DAILY_TOKEN_BUDGET; 0 is no ceiling
    Tier1Cost, Tier2Cost,
    ActionLimits,   \* what DAILY_ACTION_BUDGET may be
    MaxEntries,     \* bound: entries in the journal
    DayOf,          \* bound: DayOf[n]: the day of the n-th cycle, and how many cycles
    Rosters,        \* bound: the watched sets
    NoManifest

Corner == 1..NumCorners
RunIds == {ManualId[i] : i \in DOMAIN ManualId} \cup {TickId[n] : n \in DOMAIN TickId}

ASSUME WatchdogAssumption ==
    /\ NumCorners \in Nat \ {0} /\ ActionLimits \subseteq Nat
    /\ TokenLimit \in Nat /\ Tier1Cost \in Nat \ {0} /\ Tier2Cost \in Nat \ {0}
    /\ NoRun \notin RunIds /\ ManualId \in Seq(RunIds) /\ TickId \in Seq(RunIds)
    /\ \A verbs \in Requests : verbs \in Seq(STRING \ {"deliberate"})
    /\ MaxEntries \in Nat
    /\ DayOf \in Seq(Nat) /\ \A n \in 2..Len(DayOf) : DayOf[n - 1] <= DayOf[n]
    /\ Corner \in Rosters /\ Rosters \subseteq (SUBSET Corner) \ {{}}

VARIABLES
    roster,         \* watched.json
    baselines,      \* the corners with a stored snapshot
    journal,        \* journal.jsonl
    chose,          \* history: chose[i]: what tier two itself wanted, for entry i,
                    \* or that a gate or a failure left it no say
    calibration,    \* the stored Calibration
    manifest,       \* manifest[r]: the artefacts MANIFEST.txt of run r lists
    day,            \* today
    stage,          \* "idle", "sweep", "between" two cycles of a `run`, or awaiting
                    \* a tier: "triage", "deliberation"
    limit,          \* DAILY_ACTION_BUDGET
    cycle,          \* the cycle it is at, and below how many it will do
    cycles,
    given,          \* the corners it loaded; those of its last cycle when idle
    todo,           \* the corners of this cycle that are left
    runId,          \* the id of this cycle
    tokens, taken,  \* the budgets of this cycle: tokens reserved, actions taken
    written,        \* the artefacts of this cycle's actuator
    launched, begun, \* how many commands, and how many cycles, have begun
    began,          \* history: entries before the newest cycle's own
    uses,           \* history: uses[r]: cycles that began with the id r
    paid,           \* the tiers the corner in hand has cost, or had when the cycle died
    reserved        \* history: calls of each tier that were paid for, without those
                    \* an earlier cycle than the newest died with

Tiers == {"tier1", "tier2"}

world == <<roster, day, baselines>>
records == <<journal, chose, calibration, manifest>>
cli == <<limit, cycle, cycles, launched, begun>>
run == <<given, todo, runId, tokens, taken, written, began, uses>>

calls == <<paid, reserved>>

vars == <<world, records, stage, cli, run, calls>>

-----------------------------------------------------------------------------
Init ==
    /\ roster = Corner /\ baselines = {} /\ day = 0
    /\ journal = <<>> /\ chose = <<>>
    /\ calibration = Fresh
    /\ manifest = [r \in RunIds |-> NoManifest]
    /\ stage = "idle" /\ limit \in ActionLimits /\ cycle = 0 /\ cycles = 0
    /\ given = {} /\ todo = {} /\ runId = NoRun /\ tokens = 0 /\ taken = 0 /\ written = {}
    /\ launched = 0 /\ begun = 0 /\ began = 0 /\ uses = [r \in RunIds |-> 0]
    /\ paid = {} /\ reserved = [t \in Tiers |-> 0]

\* `watched --accept-drift` takes what the scoreboard shows now.
WatchedCommand ==
    /\ roster' \in Rosters \ {roster}
    /\ UNCHANGED <<baselines, day, records, stage, cli, run, calls>>

\* The entry of an evaluation that stopped at tier one, or at the floor.
Dated(today, c, rid, basis, byRule, tiers) ==
    [slug |-> c, runId |-> rid, basis |-> basis, byRule |-> byRule, significant |-> FALSE,
     tier2 |-> FALSE, actions |-> {}, intents |-> {}, error |-> FALSE, day |-> today, tiers |-> tiers]

Entry(c, rid, basis, byRule, tiers) == Dated(day, c, rid, basis, byRule, tiers)

\* The corners with a baseline that are no longer watched, each with an entry
\* that carries no run id.
Drops(corners, today) ==
    LET dropped == baselines \ corners
        nth(i) == CHOOSE c \in dropped : Cardinality({d \in dropped : d < c}) = i - 1
    IN [i \in 1..Cardinality(dropped) |-> Dated(today, nth(i), NoRun, "roster_drop", TRUE, {})]

\* Mutant of NewActuator: what earlier cycles rendered is listed again.
SameActuator(rid) == written

\* A new DryRunActuator for each cycle.
NewActuator(rid) == {}

\* The calls of a tier that are on no entry, or not yet.
Pending(t) == IF t \in paid THEN 1 ELSE 0

\* run_cycle for these corners under this id: new budgets, a new actuator, the
\* roster drops.
BeginCycle(rid, corners) ==
    /\ begun < Len(DayOf)
    /\ begun' = begun + 1 /\ day' = DayOf[begun + 1]
    /\ Len(journal) + Cardinality(baselines \ corners) <= MaxEntries
    /\ given' = corners /\ runId' = rid /\ todo' = corners
    /\ uses' = [uses EXCEPT ![rid] = @ + 1]
    /\ written' = NewActuator(rid)
    /\ journal' = journal \o Drops(corners, day')
    /\ chose' = chose \o [i \in DOMAIN Drops(corners, day') |-> "nothing"]
    /\ began' = Len(journal')
    /\ tokens' = 0 /\ taken' = 0
    /\ paid' = {} /\ reserved' = [t \in Tiers |-> reserved[t] - Pending(t)]
    /\ stage' = "sweep"
    /\ UNCHANGED <<roster, baselines, calibration, manifest, limit>>

\* A command takes the lock, loads the watched set, and begins its first cycle.
Launch(n, rid) ==
    /\ stage = "idle" /\ launched < Len(TickId)
    /\ launched' = launched + 1
    /\ cycle' = 1 /\ cycles' = n
    /\ BeginCycle(rid, roster)

RunCommand(n) == Launch(n, ManualId[1])

TickCommand == Launch(1, TickId[launched + 1])

\* The next cycle of a `run`, for the corners it loaded at the start.
NextCycle ==
    /\ stage = "between"
    /\ cycle' = cycle + 1
    /\ BeginCycle(ManualId[cycle + 1], given)
    /\ UNCHANGED <<cycles, launched>>

-----------------------------------------------------------------------------
\* The corner in hand is the first one left, and there is room for its entry.
InHand(c) == c \in todo /\ (\A d \in todo : c <= d) /\ Len(journal) < MaxEntries

\* It has been looked at, and nothing has been paid for it yet.
Next1(c) == stage = "sweep" /\ InHand(c)

\* The corner in hand is settled with this entry.
Settle(c, entry, wanted) ==
    /\ journal' = Append(journal, entry)
    /\ chose' = Append(chose, wanted)
    /\ todo' = todo \ {c}
    /\ stage' = "sweep" /\ paid' = {}
    /\ UNCHANGED <<roster, day, calibration, manifest, cli, given, runId, tokens, began, uses,
                   reserved>>

NothingDone == UNCHANGED <<taken, written>>

\* The read fails, and the baseline stays what it was.
FetchFails(c) ==
    /\ Next1(c)
    /\ Settle(c, Entry(c, runId, "fetch_failed", TRUE, {}), "nothing")
    /\ NothingDone /\ UNCHANGED baselines

\* A first look, or one at which nothing had changed: the floor declines.
FloorDeclines(c) ==
    /\ Next1(c)
    /\ Settle(c, Entry(c, runId, IF c \in baselines THEN "no_change" ELSE "first_sighting",
                       TRUE, {}), "nothing")
    /\ NothingDone /\ baselines' = baselines \cup {c}

\* Mutant of Affordable: what has been reserved is compared, not what is asked.
AffordableOnce(cost) == TokenLimit = 0 \/ tokens < TokenLimit

\* TokenBudget.take: all of it, or nothing.
Affordable(cost) == TokenLimit = 0 \/ tokens + cost <= TokenLimit

\* The budget pays for a tier, and the cycle waits for its answer.
Ask(tier, cost) ==
    /\ Affordable(cost)
    /\ tokens' = tokens + cost
    /\ paid' = paid \cup {tier}
    /\ reserved' = [reserved EXCEPT ![tier] = @ + 1]
    /\ stage' = IF tier = "tier1" THEN "triage" ELSE "deliberation"
    /\ UNCHANGED <<world, records, cli, given, todo, runId, taken, written, began, uses>>

\* The ambiguous middle, and the budget does not cover tier one.
BudgetExhausted(c) ==
    /\ Next1(c) /\ c \in baselines /\ ~Affordable(Tier1Cost)
    /\ Settle(c, Entry(c, runId, "budget_exhausted", TRUE, {}), "nothing")
    /\ NothingDone /\ UNCHANGED baselines

\* The ambiguous middle: tier one is asked.
AskTierOne(c) == Next1(c) /\ c \in baselines /\ Ask("tier1", Tier1Cost)

\* It declines, or defers.
TriageDeclines(c, basis) ==
    /\ stage = "triage" /\ InHand(c)
    /\ Settle(c, Entry(c, runId, basis, FALSE, paid), "nothing")
    /\ NothingDone /\ UNCHANGED baselines

\* An escalation reaches the actor: the floor's, for which nothing has been paid,
\* or the one of tier one.
Escalated(c) ==
    /\ InHand(c)
    /\ \/ stage = "sweep" /\ c \in baselines
       \/ stage = "triage"

\* What its envelope says it has cost.
Envelope == paid \ {"tier2"}

Escalation(c) ==
    [Entry(c, runId, IF Envelope = {} THEN "rule_fatal" ELSE "triage", Envelope = {}, Envelope)
       EXCEPT !.significant = TRUE]

\* The budget does not cover tier two: nothing was deliberated, and the entry
\* says so and carries no cost, not even tier one's.
TokensRefused(c) ==
    /\ Escalated(c) /\ ~Affordable(Tier2Cost)
    /\ Settle(c, [Escalation(c) EXCEPT !.intents = {"deliberate"}, !.tiers = {}], "nothing")
    /\ NothingDone /\ UNCHANGED baselines

\* Tier two is asked.
AskTierTwo(c) == Escalated(c) /\ Ask("tier2", Tier2Cost)

Deliberated(c) == stage = "deliberation" /\ InHand(c)

\* Mutant of MergedCost: the envelope's cost is forgotten.
ActorsCost(envelope) == {"tier2"}

\* _merge_cost: what tier one cost, and tier two.
MergedCost(envelope) == envelope \cup {"tier2"}

\* Mutant of DeliberationFails: what was refused before it broke is kept.
DeliberationFailsRefused(c) ==
    /\ Deliberated(c)
    /\ Settle(c, [Escalation(c) EXCEPT !.error = TRUE, !.intents = {"flag"},
                                       !.tiers = MergedCost(Envelope)], "broke")
    /\ NothingDone /\ UNCHANGED baselines

\* DeliberationError: an entry with an error and no decision.
DeliberationFails(c) ==
    /\ Deliberated(c)
    /\ Settle(c, [Escalation(c) EXCEPT !.error = TRUE, !.tiers = MergedCost(Envelope)], "broke")
    /\ NothingDone /\ UNCHANGED baselines

\* A gate of the ADK decider stops it before the model: what decide returns has
\* no action, and the actor journals it as it journals a decision.
Screened(c) ==
    /\ Deliberated(c)
    /\ Settle(c, [Escalation(c) EXCEPT !.tier2 = TRUE, !.tiers = MergedCost(Envelope)], "screened")
    /\ NothingDone /\ UNCHANGED baselines

\* The verbs of the actuator: each renders one artefact about the corner.
Rendered(c, done) == {c} \X done

\* ActionBudget.take, verb by verb: how many of them the day's limit covers.
Covered(verbs) == IF taken + Len(verbs) <= limit THEN Len(verbs) ELSE limit - taken

\* Tier two decides: nothing, or verbs, the first of which run and render an
\* artefact each.
Decides(c, verbs) ==
    LET done == {verbs[k] : k \in 1..Covered(verbs)}
        refused == {verbs[k] : k \in Covered(verbs) + 1..Len(verbs)}
    IN /\ Deliberated(c)
       /\ Settle(c, [Escalation(c) EXCEPT !.tier2 = TRUE, !.actions = done, !.intents = refused,
                                          !.tiers = MergedCost(Envelope)],
                 IF verbs = <<>> THEN "decline" ELSE "act")
       /\ taken' = taken + Covered(verbs)
       /\ written' = written \cup Rendered(c, done)
       /\ UNCHANGED baselines

-----------------------------------------------------------------------------
\* Every corner is settled: the manifest, then the review, which reads a journal
\* that includes this cycle.
EndCycle ==
    /\ stage = "sweep" /\ todo = {}
    /\ manifest' = [manifest EXCEPT ![runId] = written]
    /\ calibration' = Review(journal, calibration)
    /\ stage' = IF cycle < cycles THEN "between" ELSE "idle"
    /\ UNCHANGED <<world, journal, chose, cli, run, calls>>

\* The command is killed, or an exception leaves the sweep: no manifest, no
\* review, and its later cycles never begin.  A call that was paid for is on no
\* entry; the snapshot of the corner in hand may be stored.
Die ==
    /\ stage # "idle"
    /\ stage' = "idle"
    /\ \E stored \in SUBSET {c \in Corner : Next1(c)} : baselines' = baselines \cup stored
    /\ UNCHANGED <<roster, day, records, cli, run, calls>>

Evaluate(c) ==
    \/ FetchFails(c) \/ FloorDeclines(c) \/ BudgetExhausted(c) \/ AskTierOne(c)
    \/ \E basis \in {"triage", "triage_defer"} : TriageDeclines(c, basis)
    \/ TokensRefused(c) \/ AskTierTwo(c) \/ DeliberationFails(c) \/ Screened(c)
    \/ \E verbs \in Requests : Decides(c, verbs)

Next ==
    \/ WatchedCommand
    \/ \E n \in DOMAIN ManualId : RunCommand(n)
    \/ TickCommand
    \/ NextCycle \/ (\E c \in Corner : Evaluate(c)) \/ EndCycle \/ Die

Spec == Init /\ [][Next]_vars

-----------------------------------------------------------------------------
\* Type invariant, the budgets of a cycle included.
TypeOK ==
    /\ roster \in Rosters /\ baselines \in SUBSET Corner /\ day \in Nat
    /\ Len(journal) <= MaxEntries /\ Len(chose) = Len(journal)
    /\ \A i \in DOMAIN journal : journal[i].slug \in Corner /\ journal[i].runId \in RunIds \cup {NoRun}
    /\ calibration.jump \in Floor..Ceiling
    /\ stage \in {"idle", "between", "sweep", "triage", "deliberation"}
    /\ given \in SUBSET Corner /\ todo \in SUBSET given
    /\ paid \in SUBSET Tiers
    /\ stage \in {"sweep", "between"} => paid = {}
    /\ stage = "triage" => paid = {"tier1"}
    /\ stage = "deliberation" => "tier2" \in paid
    /\ TokenLimit > 0 => tokens <= TokenLimit
    /\ limit \in ActionLimits /\ taken \in 0..limit
    /\ began \in 0..Len(journal)

\* The figures that the page computes by subtraction are what a count of the
\* entries gives: no entry is subtracted twice, and what is left over is what
\* acted, or what tier one itself declined.  What the page calls a decline by
\* deliberation is one, or a deliberation a gate stopped, which leaves the same
\* entry; never a refused or a failed one.  The badges of the entries and the
\* pages of the corners say the same, except that an entry a budget stopped is
\* badged as held.
AccountsAddUp ==
    LET s == Summarise(journal)
        badged(b) == Cardinality({i \in DOMAIN journal : Badge(journal[i]) = b})
        onCornerPages(n) == Cardinality(UNION {{c} \X (1..n[c]) : c \in Corner})
    IN /\ s.acted = Cardinality({i \in DOMAIN journal : journal[i].actions # {}})
       /\ s.triage = Cardinality({i \in DOMAIN journal :
                         journal[i].basis = "triage" /\ ~journal[i].significant})
       /\ s.deliberated = Cardinality({i \in DOMAIN journal :
                              chose[i] \in {"decline", "screened"}})
       /\ badged("Acted") = s.acted /\ badged("Errored") = s.errored
       /\ badged("Held") = s.held + s.blocked
       /\ onCornerPages([c \in Corner |-> CornerPage(journal, c).acted]) = s.acted
       /\ onCornerPages([c \in Corner |-> CornerPage(journal, c).held]) = s.total - s.acted

\* The streak of the page is right: every day from the first to the last is
\* counted once, and the longest gap is the longest interval of missing days.
StreakIsRight ==
    LET st == Streak(journal)
        empty == {gap \in st.gaps \X st.gaps : gap[1]..gap[2] \subseteq st.gaps}
    IN /\ st.ran + Cardinality(st.gaps) = st.elapsed
       /\ \A gap \in empty : gap[2] - gap[1] + 1 <= st.longestGap
       /\ st.longestGap > 0 => \E gap \in empty : gap[2] - gap[1] + 1 = st.longestGap

\* The page's account of consultations against the budget's: every call that was
\* paid for is on the page, but for the ones the cycle is waiting for, or died
\* with, and tier one's on escalations whose deliberation the budget refused,
\* whose entries carry no cost.
SpendAddsUp ==
    LET s == Spend(journal)
        forgotten == {i \in DOMAIN journal : journal[i].intents = {"deliberate"} /\ ~journal[i].byRule}
    IN /\ s.consulted["tier2"] + Pending("tier2") = reserved["tier2"]
       /\ s.consulted["tier1"] + Cardinality(forgotten) + Pending("tier1") = reserved["tier1"]

\* The manifest of a run and the journal tell one story: for a cycle that ended
\* and whose id no other cycle used, it lists what its entries say was done.
ManifestIsTheRun ==
    \A r \in RunIds : (uses[r] = 1 /\ manifest[r] # NoManifest) =>
        manifest[r] = UNION {{journal[i].slug} \X journal[i].actions :
                                 i \in {k \in DOMAIN journal : journal[k].runId = r}}

\* The bar is explained by its history: as long as the history is complete, each
\* adjustment starts where the one before ended, the first at the default, the
\* last at the bar.
BarIsExplained ==
    LET h == calibration.history IN
    IF h = <<>> THEN calibration.jump = Default
    ELSE /\ h[Len(h)].to = calibration.jump
         /\ Len(h) < HistoryLimit => h[1].from = Default
         /\ \A i \in 2..Len(h) : h[i].from = h[i - 1].to

\* The bar is only ever raised, by a step at most and at the end of a cycle, on
\* enough escalations that reached a decider, most of which it declined of its
\* own or a gate stopped, which the review cannot tell apart: neither a refused
\* budget nor a failed deliberation argues for it.
RaiseIsEarned ==
    [][calibration'.jump # calibration.jump =>
         LET reached == {i \in DOMAIN chose : chose[i] \in {"act", "decline", "screened"}}
             declined == {i \in reached : chose[i] # "act"}
         IN /\ stage = "sweep" /\ todo = {}
            /\ calibration'.jump > calibration.jump
            /\ calibration'.jump <= calibration.jump + Step
            /\ Cardinality(reached) >= MinEvidence
            /\ 2 * Cardinality(declined) > Cardinality(reached)]_vars

\* What the page says of the newest cycle.
Banner == Page(journal, Cardinality(roster)).banner

\* The corners the newest cycle has settled.
Reached == {journal[i].slug : i \in began + 1..Len(journal)}

\* The id of the newest cycle is the one of an earlier cycle too, as those of
\* two uses of `run` are: the page takes the entries of both together.
SharesItsId == uses[runId] > 1

\* However cycles die and whenever the page is rendered, it says that the most
\* recent cycle did not finish if that is so, and only then, but for this.  It
\* says so of a cycle that settled all it was given if the roster has grown
\* since; it hides that a cycle has not, or not yet, if that cycle left no entry
\* at all, or the roster has shrunk since.
BannerIsTrue ==
    (runId \in RunIds /\ ~SharesItsId) =>
        LET says == "did not finish" \in Banner IN
        /\ (says /\ Reached = given) => Cardinality(roster) > Cardinality(given)
        /\ (~says /\ Reached # given) =>
              Reached = {} \/ Cardinality(roster) < Cardinality(given)
=============================================================================

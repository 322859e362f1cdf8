# Corner Watchdog in TLA+

TLA+ models, TLC runs and TLAPS proofs for the agent under `src/src/corner_watchdog`
(paths below are relative to that directory unless they start with `src/`).

The watchdog looks at San Francisco street corners every day: it fetches the
city's counts for each, compares them with the last complete look, lets a rule
floor and then a cheap model decide whether a change matters, and hands what
matters to an actor that deliberates, acts within a budget and journals. The
journal is public, and its claim is *restraint*: how often the agent looked and
left a corner alone. Most of what can go wrong is a change that nobody will see
again, an entry that says something that did not happen, or a failure that
reads as restraint.

## Inventory

| component | code | state | operations | works with |
|---|---|---|---|---|
| Cycle lock | `schedule.py`, `cli.py` | `state/cycle.lock`, its mtime, `locks.log` | take, judge stale, break, write, release | one process per `watchdog run` or `tick` |
| DataSF fetch | `datasf.py` | none | five lanes one after the other, each may fail; the fingerprint of the query | called by the sweep for every corner at once |
| Delta and rule floor | `delta.py` | none | `diff_snapshots`, `rule_verdict` | the sweep; the threshold of Calibration |
| Observer | `observer.py` | what a sweep has fetched and which corner it is at | roster drops, fetch, compare, store, decide, publish | Store, Bus, Triage, TokenBudget |
| Stores | `store.py`, `cloud.py` | baselines, journal, calibration, quarantine | get (quarantining), put, append | everything |
| Budgets | `budget.py` | tokens and actions spent | `take` | made per run, or per push request |
| Bus | `bus.py`, `cloud.py` | Pub/Sub's unacknowledged messages | publish, deliver | observer to actor |
| Actor | `actor.py`, `server.py` | the escalation at hand | reserve, deliberate, run verbs, tally, journal, acknowledge | Decider, ActionBudget, Actuator, Store |
| ADK decider | `adk_decider.py`, `guardrails.py` | session, signatures, outcome | gates before the model, entry after a tool | the actor, and with guardrails its budget and store |
| Decision publisher | `publisher.py`, `publishing_store.py`, `ingest.py` | pending entries, publish log | append, flush, post and retry, receipt, dead-letter | wraps the store; posts to the StreetCred site |
| Calibration | `calibrate.py` | the 311 bar and its history | read outcomes, review, adjust | journal; the thresholds of Triage |
| Triage and deciders | `brains.py`, `contract.py`, `adk_graph.py` | the session of one deliberation | judge with retries and fallback, gate, decide, sign, parse | sweep and actor |
| Ledger | `ledger.py` | none | partition the journal, coverage, streak, spend, the pages | journal, roster |
| Roster | `watched.py`, `roster.py` | `watched.json` | load, replace, hash | sweep, ledger |
| Actuators | `outbox.py` | the artefacts of a run | render, manifest | actor, run cycle |
| Run cycle, command line | `runner.py`, `cli.py` | the objects of a run | wire, sweep, flush, manifest, calibrate, render the page | all of the above |

`PROJECT.json` lists every component with its status; what is left out is under
"Not modelled" below.

What is hard here, and where it bites (each is a hazard in `PROJECT.json`):

* **Interleaving.** Two local cycles between the system calls of `cycle_lock`;
  up to three observer instances over one Firestore without any lock
  (`src/docs/GCP_DEPLOY.md:33`); two push handlers with one message.
* **Crashes.** A baseline is stored before its corner is decided
  (`observer.py:287`); a verb runs before its entry is written (`actor.py:204`);
  entries wait in memory for the flush (`publishing_store.py:52`); a receipt and
  its dead letter are two writes; a cycle dies with its manifest and review undone.
* **Partial failure.** One of five lanes fails and reads as zero; a snapshot in
  the store cannot be parsed; a publish times out though the message is out; the
  site stores a decision whose answer never arrives; a model answers with prose.
* **Ordering.** The guards before any subtraction, the rules before any model,
  the gates before every model call and the entry after every tool.
* **Limits.** Budgets that run out between corners or between two verbs of one
  decision, and that are made anew per run or per request.
* **Accounts.** Figures of the page that are computed by subtraction, coverage
  that is inferred from entries, a bar that a review moves on outcomes of which
  some are refusals: each can be wrong by one kind of entry that nobody tested.

What makes each component correct:

* *Lock*: cycles overlap only as far as `locks.log` admits broken locks; a lock
  is never left behind without a kill; the schedule never wedges.
* *Delta*: the floor answers a death or a severe injury and nothing cancels it;
  a pair that cannot be subtracted yields no number.
* *Observer*: a baseline is something the city showed; a death never slips into
  a baseline unseen; every watched corner leaves one record per sweep; a corner
  does not stay blind; the token ceiling holds.
* *Actor*: nothing acknowledged is off the record; an entry claims exactly what
  ran and was paid for; the ledger counts as restraint only what was decided.
* *Triage*: no answer, silence or failure of a model talks a death out of the
  floor; no model is credited with a verdict a stand-in gave; a flag that was
  named is not lost on the way from a tool call to a decision.
* *Publisher*: a decision is answered for once, by a receipt the diary bears out
  or by a dead letter, and lost only with the process that owed it.
* *Calibration*: the bar rises only on evidence, within bounds, and its history
  explains it.
* *Ledger, manifest*: what the page and the manifest say is what happened.

## Plan

1. `CycleLock` with `CycleLock_proofs`: done.
2. `Delta` (pure operators) and `Looks`, which checks them: done. `Looks_proofs`
   proves the floor for all counts: done.
3. `Sweep` over `Delta`, and `Sweep_proofs` with its types and its four safety
   properties: done.
4. `Actor` with the callbacks of the ADK decider, and `Actor_proofs` with all its
   safety properties: done.
5. `Triage` over `Looks`, from the floor to a decision, and `Triage_proofs`: done.
6. `Diary`, what publishing promises, and `Publisher`, which implements it: done,
   with the refinement and the reconciliation of the records proved.
7. `Ledger` and `Calibration` (operators over a journal) and `Watchdog`, the
   commands of one machine over both: done. `Ledger_proofs` has the facts about
   the page for journals of any length, `Watchdog_proofs` every safety property.
8. Left: an abstract "every escalated change gets an outcome on record" that
   `Sweep` and `Actor` together implement.

A later module is written like the present ones: one action per step that
changes state, constants with named assumptions, no `RECURSIVE` operator.

## Modules

`CycleLock` is `cycle_lock` (`schedule.py:79-121`), one action per system call:
`Create`, `Exists` and `ReadLock` (the two calls of `read_lock`), `Stat`, `Judge`,
`Note`, `Break`, `Recreate`, `WritePayload`, `Release`, with `NoteFails` and
`WriteFails` for a write that raises and `Crash` for a kill. A file that vanishes
between two of them is what the code makes of it: after `exists()` it reads as
corrupt, and by the stat (`StatGone`) its age is infinite, which is stale, and the
`int()` of the note raises before anything is touched: that process ends without a
cycle. A file is noted broken before it is unlinked, and what is unlinked is
whatever is there by then. `owner` is the process whose file is at the path,
`content` whether the payload is in it, `age` its mtime up to the first value that
is stale, `notes` the lines of `locks.log`. A process is a pid; launching it again
is pid reuse.

`Delta` is `diff_snapshots`, `rule_verdict` and `Observer._basis` as operators.
The note of a delta is kept as the reason nothing was compared (the observer
branches on it). `Looks` is one corner looked at again and again, every look
compared with the last complete one; it is run as a part of `Triage`, whose
`NextLook` is its `Look`.

`Triage` takes each comparison to a decision. `Floor` settles what the rules
settle; `AskRules` is `RuleTriage` alone; `AskGemma`, `CallFails`, `Unparsed`,
`FallBack` and `Answers` are `GemmaTriage.judge` (`brains.py:284-316`) with its
attempts; `Gate` is the test of the loop and `_gate_on_triage` of the graph;
`RuleDecides`, `ModelSigns` and `Unsigned` are tier two, with `_sign` (the tools of
the model have other names than the verbs of the journal, `ActionOf`) and
`parse_deliberation`; a deliberation without a decision is an error, or was
screened. `route` is the loop, the graph of `adk_graph.py` (which omits bases, and
may be handed something that is no envelope, `Malformed`), or tier two alone, as the
eval harness calls it. `jump` is the calibrated bar.

`Sweep` is `Observer.sweep` over `Delta`. A sweeper is a process that sweeps;
several share the store. `Start` journals the roster drops and stamps the query;
`ReadLanes` reads lanes in the order of `fetch_corner_records` while the city
may change between two of them. A lane that raises, or answers in another shape,
makes the look partial. One that answers junk under the right key (a null or a text
for a count, a sum under another name, district rows that name none) does not: it
reads as a zero of a complete look (`datasf.py:158-196`, 312-325), and `misread`,
which is history, keeps those lanes. `FetchesDone` is the `gather`; then, for each
corner in order, `ReadBaseline` (which moves a bad file aside locally and marks
it in Firestore), `StoreBaseline`, and one of `RuleDeclines`, `RuleEscalates`,
`BudgetExhausted`, `TriageDeclines`, `TriageEscalates`, and `Publish`. `Die` is
a crash or an exception at any step, `PublishFails` a publish that raised with
the message out or not. The environment changes the city, the roster and the
deployed query, and leaves garbage in the store. `accounted`, `shown` and `lost`
are history. Triage answers either way: what it makes of a change is not what
the properties are about. The model is of the deployed observer, whose token
budget pays for tier one only; in a local run tier two draws on the same budget.

`Actor` is `Actor.handle`, the push endpoint and the callbacks of `AdkDecider`.
`wiring` says how it is deployed: behind Pub/Sub, with budgets per request and
deliveries repeated until acknowledged, or as a call of the sweep with the
budgets of the run; with `RuleDecider`, with `AdkDecider` as `select_brains`
makes it ("adk"), or with the guardrails that move the budget and the entry into
its callbacks ("guarded", which only the tests of the repository build). The
gates run before each model call (`GateBudget`, `GateInjection`, `GatesPass`);
the model ends, signs one or several tools (`ModelSigns`, whose callback spends
and journals when guarded) or signs what the contract rejects; `GateStopped`,
`DeliberationFails` and `DeliberationReturns` are what `decide` makes of it. An
entry is kept as the fields the ledger reads, with two history fields: how the
actor tallied it and whether a tier really decided, which a second signature takes
back. `before` is history too: what the budget had been charged when the handler
began, so that the charge of one handling can be told exactly. A verb is one step; an
exception that leaves `handle` ends the handler as `Crash` does.

`Diary` is abstract: a decision is owed, shown, dead or lost, with no queue and
no attempts. `Publisher` is the code: `Journal` is `append_journal` of
`PublishingStore` (on record, then in the queue), `Flush`, `PublishNext` and
`Flushed` the loop of `flush`, `Accepted`, `Rejected` and `Unanswered` what
`post_journal` makes of an answer or of none (`Unanswered` may have stored the
decision or not), `LogReceipt` and `DeadLetter` the two writes of `_finish`,
`Raise` and `Crash` an exception and a kill, which forget the queue. The site
(external) stores a decision under its id and calls a second one a duplicate;
two decisions of one run, corner and second share an id. The refinement mapping
reads a decision's fate off journal, receipt and its process.

`Ledger` is the page of `ledger.py` as operators over a journal: `Summarise` with
its subtractions, `Spend`, `Cycles` and `Coverage` by run id, the banner, the
badges, `Streak`, and a corner's page. `Calibration` is `review` and
`Calibration.adjust`.

`Watchdog` puts the commands together: `RunCommand` and `TickCommand` (under the
lock, so one at a time), `BeginCycle` with the roster drops and fresh budgets, the
steps of one corner, `EndCycle` with manifest and review, `NextCycle` of the same
command, `Die`, and `WatchedCommand`, which changes the roster without the lock at
any time. A corner is split where its cycle waits for a model: `AskTierOne` and
`AskTierTwo` reserve the tokens and await, and what comes of it ends in the entry
that `Sweep` and `Actor` show it to end in (`FetchFails`, `FloorDeclines`,
`BudgetExhausted`, `TriageDeclines`, `TokensRefused`, `DeliberationFails`,
`Screened`, `Decides`). `Screened` is the gate stop of the `AdkDecider` that
`select_brains` builds without guardrails (`brains.py:497`): its entry is one of
tier two without an action. `Die` may come at any of these steps; a tier that was
reserved for the corner in hand is then on no entry (`paid`). The page is no
variable: it is a function of journal and roster, and the properties say what it
would show in every state. `chose`, `uses`, `began` and `reserved` are history.

The `MC` modules only name constants for TLC.

## Runs

| run | question | bounds | distinct states |
|---|---|---|---|
| `lock` | overlaps and orphans are explained by broken locks, no lock is left behind, cycles keep running | 3 pids (two breakers and a victim), 1 kill, stale after one tick, cycles may be longer; notes stop at 3, the number of pids | 296,753 |
| `lock_overlap` | violated: two cycles never overlap | 2 pids, no kill, no long cycle | |
| `triage` | the floor and its guards over every pair of looks, the tiers, the gate, what becomes of a death | counts 0 and 1, two queries, complete or not: each comparison sees less, equal and more; 3 calls of Gemma as in the code; bars 1 and 2, re-audit at 1; seven signatures, two of which the contract rejects | 744,012 |
| `triage_unanswered` | violated: a tier that timed out leaves a defer | the same | |
| `sweep_single` | types, real baselines, fatalities on record, no corner stays blind | 1 sweeper, 1 corner, 3 states of the city, 2 queries, the fatal lane or all lanes failing, the fatal or the 311 lane answering junk, deaths, garbage moved aside | 355,528 |
| `sweep_double` | real baselines, fatalities on record and one record each with two observers | 2 sweepers (symmetric), 1 corner, a look read in two steps, garbage that Firestore leaves in place, no junk, a ceiling below one call | 1,356,712 |
| `sweep_recovery` | violated: a committed baseline is a settled corner | 1 sweeper, 1 corner, deaths | |
| `actor` | the properties of the actor in every wiring | push: 2 handlers, 1 escalation delivered twice; local: 1 handler, 3 escalations, a budget of one action, tokens for two; 2 signatures, 1 crash | 359,111 |
| `actor_screened` | violated: screened is not restraint | 1 handler, AdkDecider as selected | |
| `actor_carried` | violated: an entry records what was carried out | 1 handler, guardrails, 2 signatures | |
| `publisher` | publishing implements `Diary`; the records can be reconciled; everything settles | a sweep with two decisions and a push request with one, two of the three sharing an id; 4 attempts as in the code; kills | 144,764 |
| `watchdog` | the page, the manifest, the bar and the accounts are what happened | 2 corners, rosters of both and of the first; two commands, each a tick or a `run` of up to three cycles, four cycles in all, on days 0, 0, 2 and 4; 4 entries; tier two asks for nothing or two verbs, budget of none or one; 3 tokens, tiers at 1 and 2; the bar from 0 to 3 in steps of 2, evidence of two, a history of two | 1,162,564 |

Why the bounds are enough. A count is only compared, floored and added, so two
values show each case. A third process adds the case where the victim of a
breaker is itself a breaker. The corners of a sweep share nothing but the
budget: one corner shows everything about a baseline, two are in `watchdog`,
where the budget gives out between them and within one, and `Sweep_proofs` is
for any number. Requests share nothing but the envelope, so two handlers on one;
a local run shares its budgets, so three escalations, the second of which is
refused an action and the third a thought. A junk answer is a matter of one look, and
one sweep after another shows what it does to the next; two observers add nothing to
it that a genuine zero would not. Two decisions in one queue show that
one does not hold up or drop the next, the third that another process may own
the id. Four entries are two cycles of two corners, or a roster drop between
two looks; the gaps of the days are of one and, when the third cycle leaves
no entry, of three. A step of two meets the upper bound of the bar halfway.
The history is full after the two raises the bar has room for here; a history
that overflows is what the theorem adds, as in the code, where the limit is 60
and the bar has room for five raises.

`CHECK_DEADLOCK FALSE` stands where the system may stop: the actor when
everything is acknowledged or delivered as often as the bound allows
(`MaxDeliveries` exceeds `MaxCrashes`, so the bound never stands in for the
retries of Pub/Sub), the publisher when every process has ended, the watchdog
when its commands are used up.

In `sweep_double`, `FatalityOnRecord` is what one would worry about: both
observers may read the same old baseline and store in either order. It holds
because whoever stores a fatality compared with a baseline that lacked it, or
with one another sweep has accounted for or still has in hand.

Some properties carry a proviso that says where the code is weaker than its
documents, or than one would like:

* `BannerIsTrue` compares what the page says with what the newest cycle did, in
  every state, also when the cycle died before its first entry or the roster has
  changed. Three ways of being wrong are in the code and named in the property.
  `run` names its cycles `cycle-1`, `cycle-2`, ... every time, and the page takes two
  of one name together. A cycle that died while it fetched, before any corner, has no
  entry and so does not exist for the page. And the page counts the corners of the
  newest id against the roster of the day it is rendered, so a roster that grew makes
  a finished cycle look unfinished, and one that shrank an unfinished one finished.
* `ManifestIsTheRun` is for an id used once, and for cycles that ended: the manifest
  of the first `cycle-1` is overwritten, and what a cycle that died had rendered is in
  no manifest.
* `SpendAddsUp` excepts tier one's cost on an escalation whose deliberation the token
  budget refused (`actor.py:132` writes that entry without a cost), and the calls a
  cycle waits for, or died with.
* `AccountsAddUp` and `RaiseIsEarned` count a screened deliberation among the
  declines, because ledger and review do: its entry cannot be told from a decline's.
  So gate stops can earn a raise of the bar; a refused budget or an error cannot.
* `BaselineIsReal` excepts the lanes that answered junk under the right key. Their
  zero does become a baseline. `test_a_null_count_is_not_silently_zero`
  (`src/tests/test_datasf_responses.py:154-157`) pins this in spite of its name: a
  null count is asserted to be zero, and complete.
* `DeathsReachTierTwo` says that a death reaches tier two, and that a flag follows
  where a decision came of it that named one. A deliberation that failed or was
  screened flags nobody: `src/docs/GEMINI_WIRING.md:172-176` asks for a flag by rule
  in that case, which the code does not have.
* `PaidFor` is exact where one signature was made; with guardrails a second signature
  makes the deliberation an error, and what the callbacks charged for the first stays
  charged though nothing runs (`adk_decider.py:412-414`, 584, 592-600).
* `RestraintIsDecided` is for the entries the actor writes. Two holes of the wirings
  are outside it and are findings of their own: a screened deliberation without
  guardrails, and with guardrails the entry written at a signature that a second one
  overturns.

### Fairness

* *Lock*: `StartInterval` and cron start a process again and again, a process
  that is not killed makes its next call, the clock runs, and a disk does not
  refuse every note or every payload for ever (strong fairness of `Note` and of
  `WritePayload`, each by some process). Nothing is assumed of a process whose file
  has vanished: it loses its cycle, and another start makes up for it.
* *Sweep*: the scheduler starts sweeps, a sweep that does not die goes on, and
  every fetch of a corner that is tried again and again succeeds at some time.
  `NeverBlindForever` is conditional on crashes, redeployments, garbage and
  failing publishes coming to an end, and on nothing else.
* *Actor*: Pub/Sub delivers what is not acknowledged; a handler makes its next
  step, because every call it awaits returns or raises. No fairness for `Publish`
  (the observer), `NewRun` or `Crash`. `EventuallyJournaled` excepts a local run
  that dies: nothing delivers the escalation again there.

* *Publisher*: weak fairness of `PublishStep` for each process. `post_journal` has
  a timeout and turns every exception into an answer, and a process that is
  neither killed nor raises runs on. No fairness for `Journal`, `Raise` or
  `Crash`, and none for the site: it may never accept anything, and
  `EverythingSettles` then ends in dead letters.

### Where the code and its documents disagree

The five violated runs, each with the sentence it refutes, are the findings of
`PROJECT.json`. `lock_overlap` (an empty lock file reads as a corrupt one),
`sweep_recovery` (the baseline is stored before the corner is settled) and
`triage_unanswered` (a threshold's decline counts as a judgment when the model
was down) need nothing unusual; `actor_carried` needs the guardrails, which no
production wiring builds. Smaller ones seen on the way, without a run:

* a severe count that falls is floored but not noted (`delta.py:71-74`, 80-87);
* a redelivered envelope gets a second entry (`server.py:191`), and the daily
  action budget bounds one message, since each request makes its own;
* with guardrails, a budget spent by the decision itself makes the gate write a
  second entry for one deliberation (`actor.py:188-191`);
* a fallback's `decided_by` says "after N attempts" even when one failure that
  is not retryable ended them;
* entries a budget stopped are badged "Held" (`ledger.py:425-431`), though the
  summary counts them as neither held nor acted (`AccountsAddUp` says so);
* the review counts what the floor escalated as evidence about tier one's bar,
  and the next review counts the same outcomes again: one streak raises the bar
  at the end of every cycle until it meets its upper bound;
* a crash before the flush leaves decisions journaled that neither reach the
  diary nor say why, which `publisher.py:1` promises of every one: `Diary` calls
  them lost.

## Proofs

`CycleLock_proofs`, for any finite set of pids, any number of kills, any stale
age, from the named assumptions on the constants:

* `TypeCorrect`: `TypeOK` is inductive.
* `OrphansAreNoted`: never more processes inside whose file is gone than notes.
  `OrphansNoted` counts with them the processes that have noted a break and not yet
  unlinked, and is inductive with the types. A note adds one breaker. A breaker that
  unlinks leaves the count, and the one process it orphans, whichever that is, takes
  its place; a process that unlinks in its finally block passes on its own orphanhood
  in the same way.
* `OverlapIsExplained`: follows, since at most one process inside owns the file.
* `NothingLeftBehind`: as long as nothing was killed, the file at the path
  belongs to a process that will unlink it.

`Looks_proofs`, for all natural counts and any set of queries:

* `FloorHolds`, `NothingIsCancelled`, `RefusalIsSilent`: the three properties of
  the floor that `triage` checks, from the type of the two looks, which is inductive.

`Sweep_proofs`, for any sets of sweepers, counts, queries and outages, any number
of corners, any order and grouping of the lanes, any ceiling, with or without
sweeps that die, from `SweepAssumption` and `ValuesAssumption` (the model values
that stand for no snapshot, an unreadable one and a failed fetch are no
snapshots):

* `TypeCorrect`: `TypeOK` is inductive only with `Settling`: a sweep settles a
  corner it was given, and holds a look at it once it has read the baseline.
* `CeilingHolds`: `spent` moves only when a sweep starts and in `Take`, after
  `CanTake`.
* `BaselinesAreReal`: `BaselineIsReal` alone is not inductive. It needs that the
  lanes read so far of a complete look are as the city showed them
  or misread (`LooksAreReal`) and that a sweep settles only when every look has been read to
  its end (`AllRead`); the groups cover the lanes by assumption.
* `FatalitiesAreOnRecord`: the strengthening is `CoveredInv`. A number of
  fatalities at a corner is `Covered` when it is on record, when a sweep that
  will put at least as many there has the corner in hand (`Due`), or when a sweep
  died on the corner. Every baseline is covered, and so is the baseline a sweep
  holds to compare with, which another sweep may have replaced since. What is
  covered stays covered, one lemma per kind of step (`DeclineCovers`,
  `PublishCovers`, `MovingCovers`); `DueIsRuled` shows that the floor never hands
  a due corner to the tier or the budget. Without a crash this is what makes
  "store first, then decide" harmless, for any interleaving of the observers.
* `EveryCornerIsRecorded`: the corners a sweep has passed have one record each and
  those ahead have none (`Recorded`), since it takes them in ascending order.

`Publisher_proofs`, for any processes and decisions, any sharing of ids, any
number of attempts, any answers of the site and any failures, from
`PublisherAssumption`:

* `TypeCorrect` and `RecordsReconcile`: `Reconcilable` speaks of receipts, letters
  and the diary only; inductive is `Inv`, which adds what links them to the
  processes. `QueueInv`: a queue holds decisions of its own process, on record,
  each once, without a receipt (but the first while its dead letter is due), so
  two processes never publish one decision (`Apart`). `VerdictInv` and `DiaryInv`:
  the receipt about to be written is already true of the diary, which only grows
  (`DiaryGrows`). `LetterInv`: a dead receipt without a letter belongs to a
  process that is about to write it or has failed.
* `PublishingKeepsThePromise`: `ImplementsDiary`, by the same invariant, one lemma
  per kind of step (`JournalOwes`, `PostAppears`, `ReceiptAnswers`, `FailureLoses`;
  the rest stutters).

`Actor_proofs`, for any number of handlers, envelopes, deliveries, crashes and
signatures, any lists of actions, any budgets and every wiring, from
`ActorAssumption`:

* `TypeCorrect`, `AckedIsJournaled`, `EveryVerbIsPaidFor`, `TheLedgerAgrees` and
  `HeldWasDecided` follow from one inductive invariant, `Inv`. To the properties
  themselves it adds `WorkInv`, which says at which point of a handler what is
  still empty, `BudgetInv` (`Charged`: what a handling has been charged since it began is what ran
  of it, or, with guardrails, what the callbacks took before the actor runs it, once),
  `AckInv` (a handler about to acknowledge has an entry to show, its own or that
  of its callbacks) and `DecisionInv` (what is not run was refused, is still to
  do, or was never decided, and an act that the actor carries out without a journal
  of the callbacks is signed, or comes of the screen).
* `TheRecordIsExact` compares cardinalities: the verbs on the entries of an
  envelope, those in the hands of its handlers, and those that ran. `CountInv`
  keeps the sets finite; each step moves verbs from one set to the next, and only
  a handler that dies takes some away.

`Triage_proofs`, for all counts, any bar, any number of attempts and whatever the
models answer or sign, from `TriageAssumption` and `LooksAssumption`, over
`JudgeSpec`:

* `CreditIsDue`, `TheGateHolds`, `DeathsAreHeard` and
  `RulesNeverWasteTierTwo`, with `TypeCorrect`, from `Inv`: a verdict bears the
  name of who gave it (`VerdictInv`), Gemma was heard exactly when her verdict
  stands (`HeardInv`), and a decision holds every verb the policy or the signature
  named (`DecisionInv`, `Committed`). `DeathsReachTierTwo` takes all three: the
  floor's verdict on a death is the floor's alone, it escalates, and the flag of
  this comparison's policy, or of the tools that were named, is among the actions.
* `TheFloorStands`: the three properties of the floor that the run checks, now
  while the tiers judge.

`Ledger_proofs`, for journals of any length:

* `LongestIsLongest`: `LongestRun` is the length of the longest interval of missing
  days. `NewestIsLast`: the last cycle of `FirstSeen` is the newest, if no entry
  before it bears its id. `CountedByCorner`: the sum of the corners' pages is the
  count of the journal. `FiguresAreCounts`: the figures computed by subtraction are
  cardinalities of sets of entries, if every entry is `Plausible`.
* The first two are about recursive functions. The library's induction theorem
  takes an operator, which no backend here can instantiate; `Induction` is the same
  fact about a set of numbers, from the well-foundedness of `Nat`, and instances
  of it are sets like "the days up to which the fold is right".

`Watchdog_proofs`, for any number of corners, cycles and commands, any budgets and
days, any bounds and step of the bar and any length of its history, from
`WatchdogAssumption` and `CalibrationAssumption`:

* `TheBarIsExplained`: `BarIsExplained` is inductive with the bounds of the bar and
  the type of the history (`Explains`); `NewestKeeps` is the truncation,
  `ReviewExplains` the review, `OnlyReviews` that nothing else touches it.
* `TheBarRises`: any step that changes the document is the end of a cycle and
  raises the bar, by a step at most, within its bounds.
* `TypeCorrect`, `TheSpendAddsUp`, `TheManifestIsTheRun` and `TheBannerIsTrue` from
  `Inv`. `EvaluateShape` says that a step at a corner asks a tier or settles it, and
  brings the ways of settling to one form, `Evaluated`: one corner, one entry, which
  carries what it cost; each part of `Inv` is shown once for it and once for a tier
  that is asked (`AskKeeps`). `HandInv` says what the corner in hand has cost by the
  stage of its cycle. `StoryInv` links run ids to entries: an id has entries only once
  a cycle began with it, the entries since then are that cycle's, and with an id of
  its own what the actuator has rendered is what they say. `SpendInv` counts calls:
  each one paid for is on one entry, or of the corner in hand, but tier one's on the
  escalations that the budget refused. `BannerSays` turns the banner into a
  comparison of two numbers, the corners of the newest id and the roster's size.
* `TheStreakIsRight` and `TheAccountsAddUp` apply the lemmas of `Ledger_proofs`;
  what they need of the journal is that each entry ended in one of four ways
  (`Ended`, in `JournalInv`).
* `TheRaiseIsEarned`: `EndsTell` matches the entries the review reads with what tier
  two chose, or that a gate stopped it, which `chose` records and the review does not
  see.

Every safety property and every action property of the passing runs is a theorem.
Checked by TLC only is liveness (`CyclesKeepRunning`, `NeverBlindForever`,
`EventuallyJournaled`, `EverythingSettles`), which needs fairness and is out of the
prover's reach. The theorems hold of the modules' constants without the bounds of
the runs, but `MaxEntries`, `MaxCrashes` and their like stay in the guards: a
theorem is for any value of them.

## Not modelled

* `rehearsal.py` and `inject.py` drive the same cycle with a constructed baseline
  or a failing fetcher in a state directory of their own; the failures they
  inject are actions of `Sweep` and `Watchdog`.
* `doctor.py`, `/status` and the drift reports of `watched.py` read and print;
  `config.py`, `prompts.py` and `vocabulary.py` are constants and text.
* What the SoQL queries select, what the injection screen matches, and what the
  models answer: the first is the city's lanes, the second a property of the
  envelope, the third any answer.
* Backoff and timeouts as durations: an attempt fails or not. Torn lines of
  `journal.jsonl`: an append is one step.
* HTML and wording; a figure, badge or banner is what the page states.
* `src/tools` (evaluation sets, numbers in documents) is no part of the agent.

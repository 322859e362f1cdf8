---------------------------- MODULE Watchdog_proofs ----------------------------
(***************************************************************************)
(* The run cycle, for any number of corners, cycles and commands, any      *)
(* budgets and days, wherever a cycle dies and whenever the watched set    *)
(* changes: the manifests, the account of the tiers and the page tell what *)
(* happened, and a review moves tier one's bar only when the decisions of  *)
(* tier two argue for it.                                                  *)
(*                                                                         *)
(* Inv is inductive.  It rests on one fact, that an evaluation asks a tier *)
(* or settles its corner with one entry, which carries what it has cost    *)
(* (EvaluateShape): the eight ways of ending one are brought to the form   *)
(* Evaluated, and each part of Inv is shown once for it, once for a tier   *)
(* that is asked, once for the roster drops a cycle begins with, and once  *)
(* for the manifest it ends with.  Explains is inductive of its own: the   *)
(* review needs nothing of the rest to keep its document.                  *)
(***************************************************************************)
EXTENDS Watchdog, Ledger_proofs

\* What tier two may name, and what an entry may say.
Verb == UNION {{verbs[k] : k \in 1..Len(verbs)} : verbs \in Requests}

Bases == UnjudgedBases \cup {"triage", "rule_fatal"}

Entries == [slug : Corner, runId : RunIds \cup {NoRun}, basis : Bases, byRule : BOOLEAN,
            significant : BOOLEAN, tier2 : BOOLEAN, actions : SUBSET Verb,
            intents : SUBSET (Verb \cup {"deliberate"}), error : BOOLEAN, day : Nat,
            tiers : SUBSET Tiers]

Choices == {"nothing", "broke", "screened", "decline", "act"}

\* A cycle is in its sweep, at a corner or waiting for a tier.
Sweeping == {"sweep", "triage", "deliberation"}

\* The four ways an evaluation ends, with what tier two itself wanted: before
\* it, refused by the token budget, broken, or decided, unless a gate stopped it.
Stopped(e, wanted) ==
    /\ e.basis # "rule_fatal" /\ e.significant = FALSE /\ e.tier2 = FALSE /\ e.error = FALSE
    /\ e.actions = {} /\ e.intents = {} /\ wanted = "nothing"

Refused(e, wanted) ==
    /\ e.basis \notin UnjudgedBases /\ e.significant = TRUE /\ e.tier2 = FALSE /\ e.error = FALSE
    /\ e.actions = {} /\ e.intents = {"deliberate"} /\ e.tiers = {} /\ wanted = "nothing"

Broke(e, wanted) ==
    /\ e.basis \notin UnjudgedBases /\ e.significant = TRUE /\ e.tier2 = FALSE /\ e.error = TRUE
    /\ e.actions = {} /\ e.intents = {} /\ wanted = "broke"

Decided(e, wanted) ==
    /\ e.basis \notin UnjudgedBases /\ e.significant = TRUE /\ e.tier2 = TRUE /\ e.error = FALSE
    /\ e.intents # {"deliberate"}
    /\ wanted \in IF e.actions = {} /\ e.intents = {} THEN {"decline", "screened"} ELSE {"act"}

Ended(e, wanted) ==
    Stopped(e, wanted) \/ Refused(e, wanted) \/ Broke(e, wanted) \/ Decided(e, wanted)

\* Every entry tells of one evaluation.
JournalInv ==
    /\ journal \in Seq(Entries) /\ chose \in Seq(Choices) /\ Len(chose) = Len(journal)
    /\ \A i \in 1..Len(journal) : Ended(journal[i], chose[i])

\* The commands keep inside their bounds, and the budgets of a cycle.
CycleInv ==
    /\ roster \in Rosters /\ baselines \in SUBSET Corner /\ day \in Nat
    /\ stage \in Sweeping \cup {"idle", "between"}
    /\ launched \in Nat /\ begun \in Nat
    /\ cycle \in Nat /\ cycles \in Nat
    /\ cycles > 1 => cycles <= Len(ManualId)
    /\ stage # "idle" => cycle >= 1
    /\ stage = "between" => cycle < cycles
    /\ given \in SUBSET Corner /\ todo \in SUBSET given
    /\ limit \in ActionLimits /\ taken \in 0..limit
    /\ tokens \in Nat /\ (TokenLimit > 0 => tokens <= TokenLimit)
    /\ began \in 0..Len(journal) /\ Len(journal) <= MaxEntries

\* What the corner in hand has cost, by how far its evaluation has come.
HandInv ==
    /\ paid \in SUBSET Tiers
    /\ stage \in {"sweep", "between"} => paid = {}
    /\ stage = "triage" => paid = {"tier1"}
    /\ stage = "deliberation" => "tier2" \in paid

\* What the entries of a run say was done.
Done(r) ==
    UNION {{journal[i].slug} \X journal[i].actions :
              i \in {k \in DOMAIN journal : journal[k].runId = r}}

\* A run id has entries only once a cycle has begun with it; the entries after
\* the newest began are its own; and what the actuator of a cycle with an id of
\* its own has rendered so far is what its entries say.
StoryInv ==
    /\ uses \in [RunIds -> Nat] /\ DOMAIN manifest = RunIds
    /\ runId \in RunIds \/ (runId = NoRun /\ stage = "idle" /\ Len(journal) = 0)
    /\ runId \in RunIds => uses[runId] # 0
    /\ \A i \in (began + 1)..Len(journal) : journal[i].runId = runId /\ journal[i].slug \in given
    /\ \A r \in RunIds : uses[r] = 0 =>
         /\ manifest[r] = NoManifest
         /\ \A i \in 1..Len(journal) : journal[i].runId # r
    /\ runId \in RunIds /\ uses[runId] = 1 =>
         /\ \A i \in 1..began : journal[i].runId # runId
         /\ stage \in Sweeping => written = Done(runId) /\ manifest[runId] = NoManifest

\* The entries that carry the cost of a tier, and those that do not carry what
\* tier one cost.
PaidOn(tier) == {i \in DOMAIN journal : tier \in journal[i].tiers}

Forgotten == {i \in DOMAIN journal : journal[i].intents = {"deliberate"} /\ ~journal[i].byRule}

\* Every call that was paid for is on one entry, or of the corner in hand.
SpendInv ==
    /\ reserved \in [Tiers -> Nat]
    /\ Cardinality(PaidOn("tier2")) + Pending("tier2") = reserved["tier2"]
    /\ Cardinality(PaidOn("tier1")) + Cardinality(Forgotten) + Pending("tier1") = reserved["tier1"]

Inv == JournalInv /\ CycleInv /\ HandInv /\ StoryInv /\ SpendInv /\ ManifestIsTheRun

-----------------------------------------------------------------------------
\* The constants, one by one.
LEMMA Bounds ==
  /\ TokenLimit \in Nat /\ Tier1Cost \in Nat \ {0} /\ Tier2Cost \in Nat \ {0}
  /\ NoRun \notin RunIds /\ MaxEntries \in Nat /\ ActionLimits \subseteq Nat
  /\ Corner \in Rosters /\ Rosters \subseteq (SUBSET Corner) \ {{}}
  /\ DayOf \in Seq(Nat)
  /\ \A verbs \in Requests : verbs \in Seq(STRING \ {"deliberate"})
  /\ IsFiniteSet(Corner) /\ Corner \subseteq Nat \ {0}
<1>1. /\ TokenLimit \in Nat /\ Tier1Cost \in Nat \ {0} /\ Tier2Cost \in Nat \ {0}
      /\ NoRun \notin RunIds /\ MaxEntries \in Nat /\ ActionLimits \subseteq Nat
      /\ Corner \in Rosters /\ Rosters \subseteq (SUBSET Corner) \ {{}}
      /\ DayOf \in Seq(Nat)
      /\ \A verbs \in Requests : verbs \in Seq(STRING \ {"deliberate"})
  BY WatchdogAssumption, Zenon DEF WatchdogAssumption
<1>2. NumCorners \in Int
  BY WatchdogAssumption DEF WatchdogAssumption
<1>3. IsFiniteSet(Corner)
  BY <1>2, FS_Interval DEF Corner
<1>4. Corner \subseteq Nat \ {0}
  BY <1>2 DEF Corner
<1>5. QED
  BY <1>1, <1>3, <1>4, Zenon

\* The corner in hand is settled with entry e, which carries what it has cost.
Evaluated(c, e, wanted) ==
    /\ stage \in Sweeping /\ c \in todo /\ Len(journal) < MaxEntries
    /\ e \in Entries /\ wanted \in Choices /\ Ended(e, wanted)
    /\ e.slug = c /\ e.runId = runId
    /\ Settle(c, e, wanted)
    /\ written' = written \cup ({c} \X e.actions)
    /\ "tier2" \in paid <=> "tier2" \in e.tiers
    /\ "tier1" \in paid <=> \/ "tier1" \in e.tiers
                            \/ e.intents = {"deliberate"} /\ e.byRule = FALSE
    /\ e.intents = {"deliberate"} => e.tiers = {}
    /\ baselines' \in SUBSET Corner /\ taken' \in 0..limit

\* An evaluation leaves the id of the cycle and the day alone.
LEMMA Current ==
  ASSUME Inv, NEW c \in Corner, InHand(c), stage \in Sweeping
  PROVE  /\ c \in todo /\ Len(journal) < MaxEntries
         /\ runId \in RunIds \cup {NoRun} /\ day \in Nat
         /\ baselines \in SUBSET Corner /\ taken \in 0..limit /\ limit \in Nat
BY Bounds DEF Inv, StoryInv, CycleInv, InHand

\* What has been paid for, and what of it an envelope carries.
LEMMA InEnvelope ==
  ASSUME Inv
  PROVE  /\ Envelope \in {{}, {"tier1"}} /\ Envelope \in SUBSET Tiers
         /\ stage = "sweep" => paid = {} /\ Envelope = {}
         /\ stage = "triage" => paid = {"tier1"} /\ Envelope = {"tier1"}
         /\ stage = "deliberation" => /\ MergedCost(Envelope) = paid
                                      /\ "tier1" \in paid <=> "tier1" \in Envelope
BY DEF Inv, HandInv, Envelope, Tiers, MergedCost

\* An evaluation that has cost nothing, or tier one, and does nothing.
LEMMA StoppedFree ==
  ASSUME Inv, NEW c \in Corner, InHand(c), stage \in Sweeping,
         NEW basis \in UnjudgedBases \cup {"triage"}, NEW b \in BOOLEAN,
         NEW e, e = [slug |-> c, runId |-> runId, basis |-> basis, byRule |-> b,
              significant |-> FALSE, tier2 |-> FALSE, actions |-> {}, intents |-> {},
              error |-> FALSE, day |-> day, tiers |-> paid],
         Settle(c, e, "nothing"), NothingDone, baselines' \in SUBSET Corner
  PROVE  Evaluated(c, e, "nothing")
<1>1. /\ c \in todo /\ Len(journal) < MaxEntries /\ runId \in RunIds \cup {NoRun} /\ day \in Nat
      /\ taken \in 0..limit
  BY Current
<1>2. paid \in SUBSET Tiers /\ basis \in Bases
  BY DEF Inv, HandInv, Bases
<1>3. e \in Entries
  BY <1>1, <1>2 DEF Entries
<1>4. /\ e.slug = c /\ e.runId = runId /\ e.tiers = paid /\ e.intents = {} /\ e.actions = {}
      /\ e.basis = basis /\ e.significant = FALSE /\ e.tier2 = FALSE /\ e.error = FALSE
  OBVIOUS
<1>5. Stopped(e, "nothing")
  BY <1>4 DEF Stopped, UnjudgedBases
<1>6. taken' \in 0..limit /\ written' = written \cup ({c} \X e.actions)
  BY <1>1, <1>4 DEF NothingDone
<1>7. e.intents # {"deliberate"}
  BY <1>4
<1>8. QED
  BY <1>1, <1>3, <1>4, <1>5, <1>6, <1>7 DEF Evaluated, Ended, Choices

\* The read fails, the floor declines, the budget does not cover tier one, or
\* tier one declines or defers.
LEMMA FloorStops ==
  ASSUME Inv, NEW c \in Corner,
         \/ FetchFails(c) \/ FloorDeclines(c) \/ BudgetExhausted(c)
         \/ \E basis \in {"triage", "triage_defer"} : TriageDeclines(c, basis)
  PROVE  \E e, wanted : Evaluated(c, e, wanted)
<1>1. PICK basis, b : /\ Settle(c, Entry(c, runId, basis, b, paid), "nothing")
                      /\ basis \in UnjudgedBases \cup {"triage"} /\ b \in BOOLEAN
  <2>1. CASE FetchFails(c)
    BY <2>1, InEnvelope DEF FetchFails, Next1, UnjudgedBases
  <2>2. CASE FloorDeclines(c)
    <3>1. PICK basis : basis = IF c \in baselines THEN "no_change" ELSE "first_sighting"
      OBVIOUS
    <3>2. Settle(c, Entry(c, runId, basis, TRUE, {}), "nothing")
      BY <2>2, <3>1, Zenon DEF FloorDeclines
    <3>3. paid = {} /\ basis \in UnjudgedBases
      BY <2>2, <3>1, InEnvelope DEF FloorDeclines, Next1, UnjudgedBases
    <3>4. QED
      BY <3>2, <3>3, Zenon
  <2>3. CASE BudgetExhausted(c)
    BY <2>3, InEnvelope DEF BudgetExhausted, Next1, UnjudgedBases
  <2>4. CASE \E basis \in {"triage", "triage_defer"} : TriageDeclines(c, basis)
    BY <2>4 DEF TriageDeclines, UnjudgedBases
  <2>5. QED
    BY <2>1, <2>2, <2>3, <2>4
<1>2. InHand(c) /\ stage \in Sweeping /\ NothingDone
  BY DEF FetchFails, FloorDeclines, BudgetExhausted, TriageDeclines, Next1, Sweeping
<1>3. baselines' \in SUBSET Corner
  BY DEF FetchFails, FloorDeclines, BudgetExhausted, TriageDeclines, Inv, CycleInv
<1>4. PICK e : e = [slug |-> c, runId |-> runId, basis |-> basis, byRule |-> b,
                    significant |-> FALSE, tier2 |-> FALSE, actions |-> {}, intents |-> {},
                    error |-> FALSE, day |-> day, tiers |-> paid]
  OBVIOUS
<1>5. Settle(c, e, "nothing")
  BY <1>1, <1>4, Zenon DEF Entry, Dated
<1>6. Evaluated(c, e, "nothing")
  BY <1>1, <1>2, <1>3, <1>4, <1>5, StoppedFree, Zenon
<1>7. QED
  BY <1>6

\* What an escalation's entry is, before tier two has had its say.
Unsettled(x, c, basis, b, f, g) ==
    /\ basis \in {"rule_fatal", "triage"} /\ b = (Envelope = {}) /\ f = FALSE /\ g = TRUE
    /\ x = [slug |-> c, runId |-> runId, basis |-> basis, byRule |-> b, significant |-> g,
            tier2 |-> f, actions |-> {}, intents |-> {}, error |-> f, day |-> day,
            tiers |-> Envelope]

\* An escalation's entry says who escalated, and nothing else yet.
LEMMA EscalationIs ==
  ASSUME NEW c
  PROVE  \E basis, b, f, g : Unsettled(Escalation(c), c, basis, b, f, g)
<1>1. PICK tiers, basis, b, f, g : /\ tiers = Envelope
                                   /\ basis = IF tiers = {} THEN "rule_fatal" ELSE "triage"
                                   /\ b = (tiers = {}) /\ f = FALSE /\ g = TRUE
  OBVIOUS
<1>2. PICK x : x = Entry(c, runId, basis, b, tiers)
  OBVIOUS
<1>3. Escalation(c) = [x EXCEPT !.significant = g]
  BY <1>1, <1>2, Zenon DEF Escalation
<1>4. x = [slug |-> c, runId |-> runId, basis |-> basis, byRule |-> b,
           significant |-> f, tier2 |-> f, actions |-> {}, intents |-> {},
           error |-> f, day |-> day, tiers |-> tiers]
  BY <1>1, <1>2, Zenon DEF Entry, Dated
<1>5. [x EXCEPT !.significant = g] =
          [slug |-> c, runId |-> runId, basis |-> basis, byRule |-> b,
           significant |-> g, tier2 |-> f, actions |-> {}, intents |-> {},
           error |-> f, day |-> day, tiers |-> tiers]
  BY <1>4
<1>6. basis \in {"rule_fatal", "triage"}
  BY <1>1
<1>7. Escalation(c) =
          [slug |-> c, runId |-> runId, basis |-> basis, byRule |-> b,
           significant |-> g, tier2 |-> f, actions |-> {}, intents |-> {},
           error |-> f, day |-> day, tiers |-> tiers]
  BY <1>3, <1>5
<1>8. Unsettled(Escalation(c), c, basis, b, f, g)
  BY <1>1, <1>6, <1>7, Zenon DEF Unsettled
<1>9. QED
  BY <1>8

\* What an escalation may come to: whether tier two left a decision, what was
\* done and refused, an error, the cost on the entry, and what tier two wanted.
Outcome(t, done, left, err, cost, wanted) ==
    \/ /\ t = FALSE /\ err = FALSE /\ done = {} /\ left = {"deliberate"} /\ cost = {}
       /\ wanted = "nothing"
    \/ /\ t = FALSE /\ err = TRUE /\ done = {} /\ left = {} /\ wanted = "broke"
    \/ /\ t = TRUE /\ err = FALSE /\ left # {"deliberate"}
       /\ wanted \in IF done = {} /\ left = {} THEN {"decline", "screened"} ELSE {"act"}

\* The cost on the entry is what has been paid for, but for a refusal.
Carries(cost, left, b) ==
    /\ "tier2" \in paid <=> "tier2" \in cost
    /\ "tier1" \in paid <=> ("tier1" \in cost \/ (left = {"deliberate"} /\ b = FALSE))
    /\ left = {"deliberate"} => cost = {}

\* The entry says so, of the corner in hand.
Filing(e, c, basis, b, g, t, done, left, err, cost, wanted) ==
    /\ InHand(c) /\ stage \in Sweeping
    /\ basis \in {"rule_fatal", "triage"} /\ b \in BOOLEAN /\ g \in BOOLEAN /\ g = TRUE
    /\ t \in BOOLEAN /\ err \in BOOLEAN
    /\ done \in SUBSET Verb /\ left \in SUBSET (Verb \cup {"deliberate"})
    /\ cost \in SUBSET Tiers /\ wanted \in Choices
    /\ Outcome(t, done, left, err, cost, wanted)
    /\ e = [slug |-> c, runId |-> runId, basis |-> basis, byRule |-> b,
            significant |-> g, tier2 |-> t, actions |-> done, intents |-> left,
            error |-> err, day |-> day, tiers |-> cost]
    /\ Settle(c, e, wanted)
    /\ written' = written \cup ({c} \X done) /\ baselines' = baselines /\ taken' \in 0..limit
    /\ Carries(cost, left, b)

\* An escalation that comes to this is settled with an entry that tells of it.
LEMMA Filed ==
  ASSUME Inv, NEW c \in Corner, NEW e, NEW basis, NEW b, NEW g, NEW t, NEW done, NEW left,
         NEW err, NEW cost, NEW wanted, Filing(e, c, basis, b, g, t, done, left, err, cost, wanted)
  PROVE  Evaluated(c, e, wanted)
<1>0. /\ InHand(c) /\ stage \in Sweeping
      /\ basis \in {"rule_fatal", "triage"} /\ b \in BOOLEAN /\ g \in BOOLEAN /\ g = TRUE
      /\ t \in BOOLEAN /\ err \in BOOLEAN
      /\ done \in SUBSET Verb /\ left \in SUBSET (Verb \cup {"deliberate"})
      /\ cost \in SUBSET Tiers /\ wanted \in Choices
      /\ Outcome(t, done, left, err, cost, wanted)
      /\ e = [slug |-> c, runId |-> runId, basis |-> basis, byRule |-> b,
              significant |-> g, tier2 |-> t, actions |-> done, intents |-> left,
              error |-> err, day |-> day, tiers |-> cost]
      /\ Settle(c, e, wanted)
      /\ written' = written \cup ({c} \X done) /\ baselines' = baselines /\ taken' \in 0..limit
      /\ "tier2" \in paid <=> "tier2" \in cost
      /\ "tier1" \in paid <=> ("tier1" \in cost \/ (left = {"deliberate"} /\ b = FALSE))
      /\ left = {"deliberate"} => cost = {}
  BY Zenon DEF Filing, Carries
<1>1. /\ c \in todo /\ Len(journal) < MaxEntries /\ runId \in RunIds \cup {NoRun} /\ day \in Nat
      /\ baselines \in SUBSET Corner
  BY <1>0, Current
<1>2. basis \in Bases /\ basis \notin UnjudgedBases
  BY <1>0 DEF Bases, UnjudgedBases
<1>3. e \in Entries
  BY <1>0, <1>1, <1>2 DEF Entries
<1>4. /\ e.slug = c /\ e.runId = runId /\ e.basis = basis /\ e.byRule = b /\ e.significant = g
      /\ e.tier2 = t /\ e.error = err /\ e.actions = done /\ e.intents = left /\ e.tiers = cost
  BY <1>0
<1>5. Ended(e, wanted)
  BY <1>0, <1>2, <1>4 DEF Outcome, Ended, Refused, Broke, Decided
<1>6. QED
  BY <1>0, <1>1, <1>3, <1>4, <1>5, Zenon DEF Evaluated

\* The budget refuses the deliberation: what tier one cost is not on the entry.
LEMMA RefusedShape ==
  ASSUME Inv, NEW c \in Corner, TokensRefused(c)
  PROVE  \E e, wanted : Evaluated(c, e, wanted)
<1>1. PICK basis, b, f, g : Unsettled(Escalation(c), c, basis, b, f, g)
  BY EscalationIs
<1>2. /\ basis \in {"rule_fatal", "triage"} /\ b \in BOOLEAN
      /\ b = (Envelope = {}) /\ f = FALSE /\ g = TRUE
  BY <1>1 DEF Unsettled
<1>3. PICK x, tiers : x = Escalation(c) /\ tiers = Envelope
  OBVIOUS
<1>4. x = [slug |-> c, runId |-> runId, basis |-> basis, byRule |-> b, significant |-> g,
           tier2 |-> f, actions |-> {}, intents |-> {}, error |-> f, day |-> day, tiers |-> tiers]
  BY <1>1, <1>3, Zenon DEF Unsettled
<1>5. PICK y : y = [x EXCEPT !.intents = {"deliberate"}]
  OBVIOUS
<1>6. PICK e : e = [y EXCEPT !.tiers = {}]
  OBVIOUS
<1>7. e = [x EXCEPT !.intents = {"deliberate"}, !.tiers = {}]
  BY <1>6, <1>5
<1>8. e = [slug |-> c, runId |-> runId, basis |-> basis, byRule |-> b,
           significant |-> g, tier2 |-> f, actions |-> {}, intents |-> {"deliberate"},
           error |-> f, day |-> day, tiers |-> {}]
  <2>1. y = [slug |-> c, runId |-> runId, basis |-> basis, byRule |-> b,
             significant |-> g, tier2 |-> f, actions |-> {}, intents |-> {"deliberate"},
             error |-> f, day |-> day, tiers |-> tiers]
    BY <1>4, <1>5
  <2>2. QED
    BY <1>6, <2>1
<1>9. /\ Settle(c, e, "nothing") /\ Escalated(c) /\ NothingDone /\ baselines' = baselines
  BY <1>3, <1>7, Zenon DEF TokensRefused
<1>10. InHand(c) /\ stage \in Sweeping /\ stage \in {"sweep", "triage"}
  BY <1>9 DEF Escalated, Sweeping
<1>11. written' = written \cup ({c} \X {}) /\ taken' \in 0..limit
  BY <1>9, <1>10, Current DEF NothingDone
<1>12. /\ f \in BOOLEAN /\ g \in BOOLEAN
       /\ {} \in SUBSET Verb /\ {"deliberate"} \in SUBSET (Verb \cup {"deliberate"})
       /\ {} \in SUBSET Tiers /\ "nothing" \in Choices
  BY <1>2 DEF Choices
<1>13. Outcome(f, {}, {"deliberate"}, f, {}, "nothing")
  BY <1>2 DEF Outcome
<1>14. Carries({}, {"deliberate"}, b)
  BY <1>2, <1>10, InEnvelope DEF Carries
<1>15. Filing(e, c, basis, b, g, f, {}, {"deliberate"}, f, {}, "nothing")
  BY <1>2, <1>8, <1>9, <1>10, <1>11, <1>12, <1>13, <1>14, Zenon DEF Filing
<1>16. Evaluated(c, e, "nothing")
  BY <1>15, Filed, Zenon
<1>17. QED
  BY <1>16

\* What a deliberation has cost is on its entry.
LEMMA DeliberatedPays ==
  ASSUME Inv, NEW c \in Corner, Deliberated(c)
  PROVE  /\ InHand(c) /\ stage \in Sweeping
         /\ MergedCost(Envelope) = paid /\ paid \in SUBSET Tiers
BY InEnvelope DEF Deliberated, Sweeping, Inv, HandInv

\* The deliberation breaks.
LEMMA BrokeShape ==
  ASSUME Inv, NEW c \in Corner, DeliberationFails(c)
  PROVE  \E e, wanted : Evaluated(c, e, wanted)
<1>1. PICK basis, b, f, g : Unsettled(Escalation(c), c, basis, b, f, g)
  BY EscalationIs
<1>2. /\ basis \in {"rule_fatal", "triage"} /\ b \in BOOLEAN /\ f = FALSE /\ g = TRUE
  BY <1>1 DEF Unsettled
<1>3. PICK x, tiers, cost : x = Escalation(c) /\ tiers = Envelope /\ cost = MergedCost(Envelope)
  OBVIOUS
<1>4. x = [slug |-> c, runId |-> runId, basis |-> basis, byRule |-> b, significant |-> g,
           tier2 |-> f, actions |-> {}, intents |-> {}, error |-> f, day |-> day, tiers |-> tiers]
  BY <1>1, <1>3, Zenon DEF Unsettled
<1>5. PICK y : y = [x EXCEPT !.error = g]
  OBVIOUS
<1>6. PICK e : e = [y EXCEPT !.tiers = cost]
  OBVIOUS
<1>7. e = [x EXCEPT !.error = g, !.tiers = cost]
  BY <1>5, <1>6
<1>8. e = [slug |-> c, runId |-> runId, basis |-> basis, byRule |-> b,
           significant |-> g, tier2 |-> f, actions |-> {}, intents |-> {},
           error |-> g, day |-> day, tiers |-> cost]
  <2>1. y = [slug |-> c, runId |-> runId, basis |-> basis, byRule |-> b,
             significant |-> g, tier2 |-> f, actions |-> {}, intents |-> {},
             error |-> g, day |-> day, tiers |-> tiers]
    BY <1>4, <1>5
  <2>2. QED
    BY <1>6, <2>1
<1>9. /\ Settle(c, e, "broke") /\ Deliberated(c) /\ NothingDone /\ baselines' = baselines
  BY <1>2, <1>3, <1>7, Zenon DEF DeliberationFails
<1>10. InHand(c) /\ stage \in Sweeping /\ cost = paid /\ cost \in SUBSET Tiers
  BY <1>3, <1>9, DeliberatedPays
<1>11. written' = written \cup ({c} \X {}) /\ taken' \in 0..limit
  BY <1>9, <1>10, Current DEF NothingDone
<1>12. /\ f \in BOOLEAN /\ g \in BOOLEAN
       /\ {} \in SUBSET Verb /\ {} \in SUBSET (Verb \cup {"deliberate"}) /\ "broke" \in Choices
       /\ {} # {"deliberate"}
  BY <1>2 DEF Choices
<1>13. Outcome(f, {}, {}, g, cost, "broke")
  BY <1>2 DEF Outcome
<1>14. Carries(cost, {}, b)
  BY <1>10, <1>12 DEF Carries
<1>15. Filing(e, c, basis, b, g, f, {}, {}, g, cost, "broke")
  BY <1>2, <1>8, <1>9, <1>10, <1>11, <1>12, <1>13, <1>14, Zenon DEF Filing
<1>16. Evaluated(c, e, "broke")
  BY <1>15, Filed, Zenon
<1>17. QED
  BY <1>16

\* A gate stops the deliberation.
LEMMA ScreenedShape ==
  ASSUME Inv, NEW c \in Corner, Screened(c)
  PROVE  \E e, wanted : Evaluated(c, e, wanted)
<1>1. PICK basis, b, f, g : Unsettled(Escalation(c), c, basis, b, f, g)
  BY EscalationIs
<1>2. /\ basis \in {"rule_fatal", "triage"} /\ b \in BOOLEAN /\ f = FALSE /\ g = TRUE
  BY <1>1 DEF Unsettled
<1>3. PICK x, tiers, cost : x = Escalation(c) /\ tiers = Envelope /\ cost = MergedCost(Envelope)
  OBVIOUS
<1>4. x = [slug |-> c, runId |-> runId, basis |-> basis, byRule |-> b, significant |-> g,
           tier2 |-> f, actions |-> {}, intents |-> {}, error |-> f, day |-> day, tiers |-> tiers]
  BY <1>1, <1>3, Zenon DEF Unsettled
<1>5. PICK y : y = [x EXCEPT !.tier2 = g]
  OBVIOUS
<1>6. PICK e : e = [y EXCEPT !.tiers = cost]
  OBVIOUS
<1>7. e = [x EXCEPT !.tier2 = g, !.tiers = cost]
  BY <1>5, <1>6
<1>8. e = [slug |-> c, runId |-> runId, basis |-> basis, byRule |-> b,
           significant |-> g, tier2 |-> g, actions |-> {}, intents |-> {},
           error |-> f, day |-> day, tiers |-> cost]
  <2>1. y = [slug |-> c, runId |-> runId, basis |-> basis, byRule |-> b,
             significant |-> g, tier2 |-> g, actions |-> {}, intents |-> {},
             error |-> f, day |-> day, tiers |-> tiers]
    BY <1>4, <1>5
  <2>2. QED
    BY <1>6, <2>1
<1>9. /\ Settle(c, e, "screened") /\ Deliberated(c) /\ NothingDone /\ baselines' = baselines
  BY <1>2, <1>3, <1>7, Zenon DEF Screened
<1>10. InHand(c) /\ stage \in Sweeping /\ cost = paid /\ cost \in SUBSET Tiers
  BY <1>3, <1>9, DeliberatedPays
<1>11. written' = written \cup ({c} \X {}) /\ taken' \in 0..limit
  BY <1>9, <1>10, Current DEF NothingDone
<1>12. /\ f \in BOOLEAN /\ g \in BOOLEAN
       /\ {} \in SUBSET Verb /\ {} \in SUBSET (Verb \cup {"deliberate"}) /\ "screened" \in Choices
       /\ {} # {"deliberate"}
  BY <1>2 DEF Choices
<1>13. Outcome(g, {}, {}, f, cost, "screened")
  BY <1>2, <1>12 DEF Outcome
<1>14. Carries(cost, {}, b)
  BY <1>10, <1>12 DEF Carries
<1>15. Filing(e, c, basis, b, g, g, {}, {}, f, cost, "screened")
  BY <1>2, <1>8, <1>9, <1>10, <1>11, <1>12, <1>13, <1>14, Zenon DEF Filing
<1>16. Evaluated(c, e, "screened")
  BY <1>15, Filed, Zenon
<1>17. QED
  BY <1>16

\* Tier two decides, and the action budget covers some of its verbs.
LEMMA DecidedShape ==
  ASSUME Inv, NEW c \in Corner, NEW verbs \in Requests, Decides(c, verbs)
  PROVE  \E e, wanted : Evaluated(c, e, wanted)
<1>1. PICK basis, b, f, g : Unsettled(Escalation(c), c, basis, b, f, g)
  BY EscalationIs
<1>2. /\ basis \in {"rule_fatal", "triage"} /\ b \in BOOLEAN /\ f = FALSE /\ g = TRUE
  BY <1>1 DEF Unsettled
<1>3. PICK x, tiers, cost : x = Escalation(c) /\ tiers = Envelope /\ cost = MergedCost(Envelope)
  OBVIOUS
<1>4. x = [slug |-> c, runId |-> runId, basis |-> basis, byRule |-> b, significant |-> g,
           tier2 |-> f, actions |-> {}, intents |-> {}, error |-> f, day |-> day, tiers |-> tiers]
  BY <1>1, <1>3, Zenon DEF Unsettled
<1>5. PICK n, done, left, wanted :
         /\ n = Covered(verbs) /\ done = {verbs[k] : k \in 1..n}
         /\ left = {verbs[k] : k \in n + 1..Len(verbs)}
         /\ wanted = IF verbs = <<>> THEN "decline" ELSE "act"
  OBVIOUS
<1>6. /\ Deliberated(c)
      /\ Settle(c, [Escalation(c) EXCEPT !.tier2 = TRUE, !.actions = done, !.intents = left,
                                         !.tiers = MergedCost(Envelope)], wanted)
      /\ taken' = taken + n /\ written' = written \cup Rendered(c, done)
      /\ baselines' = baselines
  BY <1>5, Zenon DEF Decides
<1>7. PICK y1 : y1 = [x EXCEPT !.tier2 = g]
  OBVIOUS
<1>8. PICK y2 : y2 = [y1 EXCEPT !.actions = done]
  OBVIOUS
<1>9. PICK y3 : y3 = [y2 EXCEPT !.intents = left]
  OBVIOUS
<1>10. PICK e : e = [y3 EXCEPT !.tiers = cost]
  OBVIOUS
<1>11. e = [x EXCEPT !.tier2 = g, !.actions = done, !.intents = left, !.tiers = cost]
  BY <1>7, <1>8, <1>9, <1>10
<1>12. e = [slug |-> c, runId |-> runId, basis |-> basis, byRule |-> b,
            significant |-> g, tier2 |-> g, actions |-> done, intents |-> left,
            error |-> f, day |-> day, tiers |-> cost]
  <2>1. y1 = [slug |-> c, runId |-> runId, basis |-> basis, byRule |-> b,
              significant |-> g, tier2 |-> g, actions |-> {}, intents |-> {},
              error |-> f, day |-> day, tiers |-> tiers]
    BY <1>4, <1>7
  <2>2. y2 = [slug |-> c, runId |-> runId, basis |-> basis, byRule |-> b,
              significant |-> g, tier2 |-> g, actions |-> done, intents |-> {},
              error |-> f, day |-> day, tiers |-> tiers]
    BY <1>8, <2>1
  <2>3. y3 = [slug |-> c, runId |-> runId, basis |-> basis, byRule |-> b,
              significant |-> g, tier2 |-> g, actions |-> done, intents |-> left,
              error |-> f, day |-> day, tiers |-> tiers]
    BY <1>9, <2>2
  <2>4. QED
    BY <1>10, <2>3
<1>13. Settle(c, e, wanted)
  BY <1>2, <1>3, <1>6, <1>11, Zenon
<1>14. InHand(c) /\ stage \in Sweeping /\ cost = paid /\ cost \in SUBSET Tiers
  BY <1>3, <1>6, DeliberatedPays
<1>15. taken \in 0..limit /\ limit \in Nat
  BY <1>14, Current
<1>16. PICK l : l = Len(verbs)
  OBVIOUS
<1>17. verbs \in Seq(STRING \ {"deliberate"}) /\ l \in Nat /\ DOMAIN verbs = 1..l
  <2>1. verbs \in Seq(STRING \ {"deliberate"})
    BY Bounds, Zenon
  <2>2. QED
    BY <1>16, <2>1, LenProperties
<1>18. /\ n = IF taken + l <= limit THEN l ELSE limit - taken
       /\ n \in 0..l /\ taken + n \in 0..limit
  <2>1. n = IF taken + l <= limit THEN l ELSE limit - taken
    BY <1>5, <1>16 DEF Covered
  <2>2. QED
    BY <1>15, <1>17, <2>1
<1>19. \A k \in 1..l : verbs[k] # "deliberate" /\ verbs[k] \in Verb
  <2>1. TAKE k \in 1..l
  <2>2. verbs[k] \in STRING \ {"deliberate"}
    BY <1>17
  <2>3. verbs[k] \in {verbs[i] : i \in 1..Len(verbs)}
    BY <1>16
  <2>4. QED
    BY <2>2, <2>3, Zenon DEF Verb
<1>20. /\ done \in SUBSET Verb /\ left \in SUBSET (Verb \cup {"deliberate"})
       /\ "deliberate" \notin left
  <2>1. (\A k \in 1..n : k \in 1..l) /\ (\A k \in n + 1..l : k \in 1..l)
    BY <1>17, <1>18
  <2>2. QED
    BY <1>5, <1>16, <1>19, <2>1
<1>21. (verbs = <<>>) <=> (done = {} /\ left = {})
  <2>1. (verbs = <<>>) <=> (l = 0)
    BY <1>16, <1>17, EmptySeq
  <2>2. ASSUME l = 0 PROVE done = {} /\ left = {}
    <3>1. 1..n = {} /\ n + 1..l = {}
      BY <1>18, <2>2
    <3>2. QED
      BY <1>5, <1>16, <3>1
  <2>3. ASSUME l # 0 PROVE done # {} \/ left # {}
    <3>1. 1 \in 1..n \/ n + 1 \in n + 1..l
      BY <1>17, <1>18, <2>3
    <3>2. QED
      BY <1>5, <1>16, <3>1
  <2>4. QED
    BY <2>1, <2>2, <2>3
<1>22. written' = written \cup ({c} \X done) /\ taken' \in 0..limit
  BY <1>6, <1>18 DEF Rendered
<1>23. f \in BOOLEAN /\ g \in BOOLEAN /\ wanted \in Choices /\ left # {"deliberate"}
  BY <1>2, <1>5, <1>20 DEF Choices
<1>24. Outcome(g, done, left, f, cost, wanted)
  BY <1>2, <1>5, <1>21, <1>23 DEF Outcome
<1>25. Carries(cost, left, b)
  BY <1>14, <1>23 DEF Carries
<1>26. Filing(e, c, basis, b, g, g, done, left, f, cost, wanted)
  BY <1>2, <1>6, <1>12, <1>13, <1>14, <1>20, <1>22, <1>23, <1>24, <1>25, Zenon DEF Filing
<1>27. Evaluated(c, e, wanted)
  BY <1>26, Filed, Zenon
<1>28. QED
  BY <1>27

\* Every evaluation asks a tier, or settles the corner with one entry.
LEMMA EvaluateShape ==
  ASSUME Inv, NEW c \in Corner, Evaluate(c)
  PROVE  AskTierOne(c) \/ AskTierTwo(c) \/ \E e, wanted : Evaluated(c, e, wanted)
<1>1. \/ AskTierOne(c) \/ AskTierTwo(c)
      \/ FetchFails(c) \/ FloorDeclines(c) \/ BudgetExhausted(c)
      \/ \E basis \in {"triage", "triage_defer"} : TriageDeclines(c, basis)
      \/ TokensRefused(c) \/ DeliberationFails(c) \/ Screened(c)
      \/ \E verbs \in Requests : Decides(c, verbs)
  BY Zenon DEF Evaluate
<1>2. QED
  BY <1>1, FloorStops, RefusedShape, BrokeShape, ScreenedShape, DecidedShape, Zenon

-----------------------------------------------------------------------------
\* An evaluation leaves an entry that tells of it.
LEMMA JournalGrows ==
  ASSUME Inv, NEW c \in Corner, NEW e, NEW wanted, Evaluated(c, e, wanted)
  PROVE  /\ JournalInv' /\ Len(journal') = Len(journal) + 1 /\ journal'[Len(journal) + 1] = e
         /\ \A i \in 1..Len(journal) : journal'[i] = journal[i]
<1>1. /\ journal \in Seq(Entries) /\ chose \in Seq(Choices) /\ Len(chose) = Len(journal)
      /\ \A i \in 1..Len(journal) : Ended(journal[i], chose[i])
  BY DEF Inv, JournalInv
<1>2. /\ journal' = Append(journal, e) /\ chose' = Append(chose, wanted)
      /\ e \in Entries /\ wanted \in Choices /\ Ended(e, wanted)
  BY DEF Evaluated, Settle
<1>3. /\ journal' \in Seq(Entries) /\ Len(journal') = Len(journal) + 1
      /\ journal'[Len(journal) + 1] = e
      /\ \A i \in 1..Len(journal) : journal'[i] = journal[i]
  BY <1>1, <1>2, AppendProperties
<1>4. /\ chose' \in Seq(Choices) /\ Len(chose') = Len(chose) + 1
      /\ chose'[Len(chose) + 1] = wanted
      /\ \A i \in 1..Len(chose) : chose'[i] = chose[i]
  BY <1>1, <1>2, AppendProperties
<1>5. \A i \in 1..Len(journal') : Ended(journal'[i], chose'[i])
  <2>1. TAKE i \in 1..Len(journal')
  <2>2. CASE i = Len(journal) + 1
    BY <1>1, <1>2, <1>3, <1>4, <2>2
  <2>3. CASE i \in 1..Len(journal)
    BY <1>1, <1>3, <1>4, <2>3
  <2>4. QED
    BY <1>1, <1>3, <2>2, <2>3, LenProperties
<1>6. QED
  BY <1>1, <1>3, <1>4, <1>5 DEF JournalInv

\* An evaluation keeps inside the bounds of its cycle.
LEMMA CycleGoesOn ==
  ASSUME Inv, NEW c \in Corner, NEW e, NEW wanted, Evaluated(c, e, wanted)
  PROVE  CycleInv' /\ HandInv'
<1>1. Len(journal) \in Nat /\ Len(journal') = Len(journal) + 1 /\ Len(journal) < MaxEntries
  BY JournalGrows, LenProperties DEF Inv, JournalInv, Evaluated
<1>2. /\ todo' = todo \ {c} /\ roster' = roster /\ day' = day /\ stage' = "sweep"
      /\ given' = given /\ began' = began /\ limit' = limit /\ cycle' = cycle
      /\ cycles' = cycles /\ launched' = launched /\ begun' = begun /\ tokens' = tokens
      /\ paid' = {} /\ stage \in Sweeping
  BY DEF Evaluated, Settle, cli
<1>3. baselines' \in SUBSET Corner /\ taken' \in 0..limit
  BY DEF Evaluated
<1>4. began' \in 0..Len(journal') /\ Len(journal') <= MaxEntries
  BY <1>1, <1>2, Bounds DEF Inv, CycleInv
<1>5. todo' \in SUBSET given'
  BY <1>2 DEF Inv, CycleInv
<1>6. /\ tokens' \in Nat /\ (TokenLimit > 0 => tokens' <= TokenLimit)
      /\ stage # "idle" /\ stage' \in Sweeping /\ stage' # "idle" /\ stage' # "between"
  BY <1>2 DEF Inv, CycleInv, Sweeping
<1>7. CycleInv'
  BY <1>2, <1>3, <1>4, <1>5, <1>6 DEF Inv, CycleInv
<1>8. HandInv'
  BY <1>2 DEF HandInv
<1>9. QED
  BY <1>7, <1>8

\* What the entries of each run say was done, after one more.
LEMMA DoneGrows ==
  ASSUME Inv, NEW c \in Corner, NEW e, NEW wanted, Evaluated(c, e, wanted), NEW r
  PROVE  Done(r)' = IF r = runId THEN Done(r) \cup ({c} \X e.actions) ELSE Done(r)
<1>1. /\ journal \in Seq(Entries) /\ journal' \in Seq(Entries)
      /\ Len(journal') = Len(journal) + 1 /\ journal'[Len(journal) + 1] = e
      /\ \A i \in 1..Len(journal) : journal'[i] = journal[i]
  BY JournalGrows DEF Inv, JournalInv
<1>2. e.slug = c /\ e.runId = runId
  BY DEF Evaluated
<1>3. PICK n : n = Len(journal)
  OBVIOUS
<1>4. n \in Nat /\ DOMAIN journal = 1..n /\ DOMAIN journal' = 1..(n + 1)
  BY <1>1, <1>3, LenProperties
<1>5. PICK K, L : /\ K = {k \in DOMAIN journal : journal[k].runId = r}
                  /\ L = {k \in DOMAIN journal' : journal'[k].runId = r}
  OBVIOUS
<1>6. L = IF r = runId THEN K \cup {n + 1} ELSE K
  BY <1>1, <1>2, <1>3, <1>4, <1>5
<1>7. \A i \in K : {journal'[i].slug} \X journal'[i].actions = {journal[i].slug} \X journal[i].actions
  BY <1>1, <1>3, <1>4, <1>5
<1>8. PICK mine, was : /\ mine = {{journal'[i].slug} \X journal'[i].actions : i \in L}
                       /\ was = {{journal[i].slug} \X journal[i].actions : i \in K}
  OBVIOUS
<1>9. mine = IF r = runId THEN was \cup {{c} \X e.actions} ELSE was
  <2>1. {journal'[n + 1].slug} \X journal'[n + 1].actions = {c} \X e.actions
    BY <1>1, <1>2, <1>3
  <2>2. CASE r = runId
    <3>1. mine = {{journal'[i].slug} \X journal'[i].actions : i \in K \cup {n + 1}}
      BY <1>6, <1>8, <2>2
    <3>2. mine = {{journal'[i].slug} \X journal'[i].actions : i \in K} \cup {{c} \X e.actions}
      BY <2>1, <3>1
    <3>3. {{journal'[i].slug} \X journal'[i].actions : i \in K} = was
      BY <1>7, <1>8
    <3>4. QED
      BY <2>2, <3>2, <3>3
  <2>3. CASE r # runId
    BY <1>6, <1>7, <1>8, <2>3
  <2>4. QED
    BY <2>2, <2>3
<1>10. Done(r) = UNION was /\ Done(r)' = UNION mine
  BY <1>5, <1>8, Zenon DEF Done
<1>11. UNION (was \cup {{c} \X e.actions}) = (UNION was) \cup ({c} \X e.actions)
  OBVIOUS
<1>12. QED
  BY <1>9, <1>10, <1>11

\* The story goes on, and the manifests of the runs that ended still tell it.
LEMMA StoryGoesOn ==
  ASSUME Inv, NEW c \in Corner, NEW e, NEW wanted, Evaluated(c, e, wanted)
  PROVE  StoryInv' /\ ManifestIsTheRun'
<1>1. /\ journal \in Seq(Entries) /\ Len(journal') = Len(journal) + 1
      /\ journal'[Len(journal) + 1] = e /\ \A i \in 1..Len(journal) : journal'[i] = journal[i]
  BY JournalGrows DEF Inv, JournalInv
<1>2. /\ uses' = uses /\ manifest' = manifest /\ runId' = runId
      /\ began' = began /\ given' = given /\ stage \in Sweeping /\ c \in todo
      /\ e.slug = c /\ e.runId = runId /\ written' = written \cup ({c} \X e.actions)
  BY DEF Evaluated, Settle
<1>3. /\ uses \in [RunIds -> Nat] /\ DOMAIN manifest = RunIds /\ runId \in RunIds /\ uses[runId] # 0
  BY <1>2 DEF Inv, StoryInv, Sweeping
<1>4. PICK n, b : n = Len(journal) /\ b = began
  OBVIOUS
<1>5. n \in Nat /\ b \in 0..n
  BY <1>1, <1>4, LenProperties DEF Inv, CycleInv
<1>6. \A i \in (b + 1)..(n + 1) : journal'[i].runId = runId /\ journal'[i].slug \in given
  <2>1. TAKE i \in (b + 1)..(n + 1)
  <2>2. CASE i = n + 1
    BY <1>1, <1>2, <1>4, <2>2 DEF Inv, CycleInv
  <2>3. CASE i # n + 1
    <3>1. i \in (b + 1)..n /\ i \in 1..n
      BY <1>5, <2>3
    <3>2. journal[i].runId = runId /\ journal[i].slug \in given
      BY <1>4, <3>1 DEF Inv, StoryInv
    <3>3. QED
      BY <1>1, <1>4, <3>1, <3>2
  <2>4. QED
    BY <2>2, <2>3
<1>7. ASSUME NEW r \in RunIds, uses[r] = 0
      PROVE  manifest[r] = NoManifest /\ \A i \in 1..(n + 1) : journal'[i].runId # r
  <2>1. r # runId /\ manifest[r] = NoManifest /\ \A i \in 1..n : journal[i].runId # r
    BY <1>3, <1>4, <1>7 DEF Inv, StoryInv
  <2>2. QED
    BY <1>1, <1>2, <1>4, <1>5, <2>1
<1>8. ASSUME uses[runId] = 1
      PROVE  /\ \A i \in 1..b : journal'[i].runId # runId
             /\ written' = Done(runId)' /\ manifest[runId] = NoManifest
  <2>1. /\ \A i \in 1..b : journal[i].runId # runId
        /\ written = Done(runId) /\ manifest[runId] = NoManifest
    BY <1>2, <1>3, <1>4, <1>8 DEF Inv, StoryInv
  <2>2. Done(runId)' = Done(runId) \cup ({c} \X e.actions)
    <3>1. \A q : Done(q)' = IF q = runId THEN Done(q) \cup ({c} \X e.actions) ELSE Done(q)
      BY DoneGrows
    <3>2. QED
      BY <1>2, <3>1 DEF Done
  <2>3. QED
    BY <1>1, <1>2, <1>4, <1>5, <2>1, <2>2
<1>9. StoryInv'
  BY <1>1, <1>2, <1>3, <1>4, <1>6, <1>7, <1>8 DEF StoryInv
<1>10. ASSUME NEW r \in RunIds, uses[r] = 1, manifest[r] # NoManifest
       PROVE  manifest[r] = Done(r)'
  <2>1. r # runId
    BY <1>8, <1>10
  <2>2. manifest[r] = Done(r)
    BY <1>10 DEF Inv, ManifestIsTheRun, Done
  <2>3. QED
    BY <2>1, <2>2, DoneGrows
<1>11. ManifestIsTheRun'
  BY <1>2, <1>10 DEF ManifestIsTheRun, Done
<1>12. QED
  BY <1>9, <1>11

\* The entries of a journal can be counted.
LEMMA CountsAreNumbers ==
  ASSUME Inv
  PROVE  /\ \A t : Cardinality(PaidOn(t)) \in Nat
         /\ Cardinality(Forgotten) \in Nat
<1>1. IsFiniteSet(DOMAIN journal)
  <2>1. journal \in Seq(Entries)
    BY DEF Inv, JournalInv
  <2>2. DOMAIN journal = 1..Len(journal) /\ Len(journal) \in Int
    BY <2>1, LenProperties
  <2>3. QED
    BY <2>2, FS_Interval
<1>2. \A S \in SUBSET (DOMAIN journal) : Cardinality(S) \in Nat
  BY <1>1, FS_Subset, FS_CardinalityType
<1>3. (\A t : PaidOn(t) \in SUBSET (DOMAIN journal)) /\ Forgotten \in SUBSET (DOMAIN journal)
  BY DEF PaidOn, Forgotten
<1>4. QED
  BY <1>2, <1>3

\* What was paid for is on the entry, or forgotten with a refusal.
LEMMA SpendGoesOn ==
  ASSUME Inv, NEW c \in Corner, NEW e, NEW wanted, Evaluated(c, e, wanted)
  PROVE  SpendInv'
<1>1. /\ journal \in Seq(Entries) /\ journal' \in Seq(Entries)
      /\ Len(journal') = Len(journal) + 1 /\ journal'[Len(journal) + 1] = e
      /\ \A i \in 1..Len(journal) : journal'[i] = journal[i]
  BY JournalGrows DEF Inv, JournalInv
<1>2. PICK n : n = Len(journal)
  OBVIOUS
<1>3. n \in Nat /\ DOMAIN journal = 1..n /\ DOMAIN journal' = 1..(n + 1)
  BY <1>1, <1>2, LenProperties
<1>4. /\ reserved' = reserved /\ paid' = {} /\ reserved \in [Tiers -> Nat]
      /\ "tier2" \in paid <=> "tier2" \in e.tiers
      /\ "tier1" \in paid <=> \/ "tier1" \in e.tiers
                              \/ e.intents = {"deliberate"} /\ e.byRule = FALSE
      /\ e.intents = {"deliberate"} => e.tiers = {}
      /\ e.byRule \in BOOLEAN
  BY DEF Evaluated, Settle, Inv, SpendInv, Entries
<1>5. ASSUME NEW A \in SUBSET (1..n), NEW B, B = A \/ B = A \cup {n + 1}
      PROVE  /\ Cardinality(A) \in Nat
             /\ Cardinality(B) = Cardinality(A) + IF n + 1 \in B THEN 1 ELSE 0
  <2>1. IsFiniteSet(A) /\ Cardinality(A) \in Nat /\ n + 1 \notin A
    <3>1. IsFiniteSet(1..n) /\ n \in Int
      BY <1>3, FS_Interval
    <3>2. IsFiniteSet(A)
      BY <3>1, FS_Subset
    <3>3. QED
      BY <1>3, <3>2, FS_CardinalityType
  <2>2. CASE B = A
    BY <2>1, <2>2
  <2>3. CASE B = A \cup {n + 1}
    BY <2>1, <2>3, FS_AddElement
  <2>4. QED
    BY <1>5, <2>2, <2>3, <2>1
<1>6. ASSUME NEW t \in Tiers
      PROVE  /\ Cardinality(PaidOn(t)) \in Nat
             /\ Cardinality(PaidOn(t)') = Cardinality(PaidOn(t)) + IF t \in e.tiers THEN 1 ELSE 0
  <2>1. PICK A, B : A = PaidOn(t) /\ B = PaidOn(t)'
    OBVIOUS
  <2>2. /\ A = {i \in 1..n : t \in journal[i].tiers}
        /\ B = {i \in 1..(n + 1) : t \in journal'[i].tiers}
    BY <1>3, <2>1 DEF PaidOn
  <2>3. /\ A \in SUBSET (1..n) /\ (B = A \/ B = A \cup {n + 1})
        /\ n + 1 \in B <=> t \in e.tiers
    BY <1>1, <1>2, <1>3, <2>2
  <2>4. QED
    BY <1>5, <2>1, <2>3
<1>7. /\ Cardinality(Forgotten) \in Nat
      /\ Cardinality(Forgotten') = Cardinality(Forgotten)
            + IF e.intents = {"deliberate"} /\ e.byRule = FALSE THEN 1 ELSE 0
  <2>1. PICK A, B : A = Forgotten /\ B = Forgotten'
    OBVIOUS
  <2>2. /\ A = {i \in 1..n : journal[i].intents = {"deliberate"} /\ ~journal[i].byRule}
        /\ B = {i \in 1..(n + 1) : journal'[i].intents = {"deliberate"} /\ ~journal'[i].byRule}
    BY <1>3, <2>1 DEF Forgotten
  <2>3. /\ A \in SUBSET (1..n) /\ (B = A \/ B = A \cup {n + 1})
        /\ n + 1 \in B <=> (e.intents = {"deliberate"} /\ ~e.byRule)
    BY <1>1, <1>2, <1>3, <2>2
  <2>4. QED
    BY <1>4, <1>5, <2>1, <2>3
<1>8. /\ Cardinality(PaidOn("tier2")) + Pending("tier2") = reserved["tier2"]
      /\ Cardinality(PaidOn("tier1")) + Cardinality(Forgotten) + Pending("tier1") = reserved["tier1"]
  BY DEF Inv, SpendInv
<1>9. "tier1" \in Tiers /\ "tier2" \in Tiers
  BY DEF Tiers
<1>10. ASSUME NEW t \in Tiers
       PROVE  Pending(t)' = 0 /\ Pending(t) = IF t \in paid THEN 1 ELSE 0
  BY <1>4 DEF Pending
<1>11. Cardinality(PaidOn("tier2")') + Pending("tier2")' = reserved'["tier2"]
  <2>1. PICK x, x1, p, q, z : /\ x = Cardinality(PaidOn("tier2")) /\ x1 = Cardinality(PaidOn("tier2")')
                              /\ p = Pending("tier2") /\ q = Pending("tier2")' /\ z = reserved["tier2"]
    OBVIOUS
  <2>2. /\ x \in Nat /\ x + p = z /\ q = 0 /\ p = IF "tier2" \in paid THEN 1 ELSE 0
        /\ x1 = x + (IF "tier2" \in e.tiers THEN 1 ELSE 0)
    BY <1>6, <1>8, <1>9, <1>10, <2>1
  <2>3. x1 + q = z
    BY <1>4, <2>2
  <2>4. QED
    BY <1>4, <2>1, <2>3
<1>12. Cardinality(PaidOn("tier1")') + Cardinality(Forgotten') + Pending("tier1")' = reserved'["tier1"]
  <2>1. PICK x, y, x1, y1, p, q, z :
               /\ x = Cardinality(PaidOn("tier1")) /\ y = Cardinality(Forgotten)
               /\ x1 = Cardinality(PaidOn("tier1")') /\ y1 = Cardinality(Forgotten')
               /\ p = Pending("tier1") /\ q = Pending("tier1")' /\ z = reserved["tier1"]
    OBVIOUS
  <2>2. /\ x \in Nat /\ y \in Nat /\ x + y + p = z
        /\ q = 0 /\ p = IF "tier1" \in paid THEN 1 ELSE 0
        /\ x1 = x + (IF "tier1" \in e.tiers THEN 1 ELSE 0)
        /\ y1 = y + IF e.intents = {"deliberate"} /\ e.byRule = FALSE THEN 1 ELSE 0
    BY <1>6, <1>7, <1>8, <1>9, <1>10, <2>1
  <2>3. x1 + y1 + q = z
    BY <1>4, <2>2
  <2>4. QED
    BY <1>4, <2>1, <2>3
<1>13. SpendInv'
  BY <1>4, <1>11, <1>12 DEF SpendInv
<1>14. QED
  BY <1>13

\* A tier is asked: nothing is written, and the call is of the corner in hand.
LEMMA AskKeeps ==
  ASSUME Inv, NEW tier \in Tiers, NEW cost \in Nat, Ask(tier, cost), stage \in {"sweep", "triage"},
         tier = "tier1" => stage = "sweep"
  PROVE  Inv'
<1>1. /\ Affordable(cost) /\ tokens' = tokens + cost /\ paid' = paid \cup {tier}
      /\ reserved' = [reserved EXCEPT ![tier] = @ + 1]
      /\ stage' = (IF tier = "tier1" THEN "triage" ELSE "deliberation")
      /\ roster' = roster /\ day' = day /\ baselines' = baselines
      /\ journal' = journal /\ chose' = chose /\ calibration' = calibration /\ manifest' = manifest
      /\ limit' = limit /\ cycle' = cycle /\ cycles' = cycles /\ launched' = launched
      /\ begun' = begun /\ given' = given /\ todo' = todo /\ runId' = runId /\ taken' = taken
      /\ written' = written /\ began' = began /\ uses' = uses
  BY DEF Ask, world, records, cli
<1>2. JournalInv' /\ \A r : Done(r)' = Done(r)
  BY <1>1 DEF JournalInv, Done, Inv
<1>3. stage' \in Sweeping /\ stage \in Sweeping
  BY <1>1 DEF Sweeping
<1>4. tokens' \in Nat /\ (TokenLimit > 0 => tokens' <= TokenLimit)
  <2>1. tokens \in Nat
    BY DEF Inv, CycleInv
  <2>2. TokenLimit = 0 \/ tokens + cost <= TokenLimit
    BY <1>1 DEF Affordable
  <2>3. QED
    BY <1>1, <2>1, <2>2, Bounds
<1>5. CycleInv'
  BY <1>1, <1>3, <1>4 DEF CycleInv, Inv, Sweeping
<1>6. paid \in SUBSET Tiers /\ (stage = "sweep" => paid = {}) /\ tier \in {"tier1", "tier2"}
  BY DEF Inv, HandInv, Tiers
<1>7. HandInv'
  BY <1>1, <1>6 DEF HandInv, Tiers
<1>8. StoryInv'
  BY <1>1, <1>2, <1>3 DEF StoryInv, Inv, Sweeping
<1>9. ManifestIsTheRun'
  BY <1>1 DEF ManifestIsTheRun, Inv
<1>10. tier \notin paid
  BY <1>6 DEF Inv, HandInv
<1>11. /\ reserved \in [Tiers -> Nat] /\ reserved' \in [Tiers -> Nat]
       /\ \A t \in Tiers : reserved'[t] = reserved[t] + IF t = tier THEN 1 ELSE 0
  <2>1. reserved \in [Tiers -> Nat]
    BY DEF Inv, SpendInv
  <2>2. QED
    BY <1>1, <2>1
<1>12. \A t \in Tiers : /\ Pending(t) \in Nat
                        /\ Pending(t)' = Pending(t) + IF t = tier THEN 1 ELSE 0
  BY <1>1, <1>10 DEF Pending
<1>13. \A t \in Tiers : PaidOn(t)' = PaidOn(t)
  BY <1>1 DEF PaidOn
<1>14. Forgotten' = Forgotten
  BY <1>1 DEF Forgotten
<1>15. SpendInv'
  <2>1. PICK x, y, z : /\ x = Cardinality(PaidOn("tier1")) /\ y = Cardinality(Forgotten)
                       /\ z = Cardinality(PaidOn("tier2"))
    OBVIOUS
  <2>2. "tier1" \in Tiers /\ "tier2" \in Tiers
    BY DEF Tiers
  <2>3. /\ x = Cardinality(PaidOn("tier1")') /\ y = Cardinality(Forgotten')
        /\ z = Cardinality(PaidOn("tier2")')
    BY <1>13, <1>14, <2>1, <2>2
  <2>4. x \in Nat /\ y \in Nat /\ z \in Nat
    BY <2>1, CountsAreNumbers
  <2>5. z + Pending("tier2") = reserved["tier2"] /\ x + y + Pending("tier1") = reserved["tier1"]
    BY <2>1 DEF Inv, SpendInv
  <2>6. z + Pending("tier2")' = reserved'["tier2"]
    BY <1>11, <1>12, <2>2, <2>4, <2>5
  <2>7. x + y + Pending("tier1")' = reserved'["tier1"]
    BY <1>11, <1>12, <2>2, <2>4, <2>5
  <2>8. QED
    BY <1>11, <2>3, <2>6, <2>7 DEF SpendInv
<1>16. QED
  BY <1>2, <1>5, <1>7, <1>8, <1>9, <1>15 DEF Inv

-----------------------------------------------------------------------------
\* Of finitely many numbers one has exactly i - 1 below it.
LEMMA NthExists ==
  ASSUME NEW D \in SUBSET Corner, NEW i \in 1..Cardinality(D)
  PROVE  \E c \in D : Cardinality({d \in D : d < c}) = i - 1
<1> DEFINE Below(k) == {d \in D : d < k}
           Few == {k \in Nat : Cardinality(Below(k)) < i}
<1>1. /\ IsFiniteSet(D) /\ NumCorners \in Nat
      /\ \A d \in D : d \in Nat /\ 1 <= d /\ d <= NumCorners
  <2>1. NumCorners \in Nat
    BY WatchdogAssumption DEF WatchdogAssumption
  <2>2. IsFiniteSet(D)
    BY Bounds, FS_Subset
  <2>3. \A d \in D : d \in Nat /\ 1 <= d /\ d <= NumCorners
    BY <2>1 DEF Corner
  <2>4. QED
    BY <2>1, <2>2, <2>3
<1>2. \A k : IsFiniteSet(Below(k)) /\ Cardinality(Below(k)) \in Nat
  BY <1>1, FS_Subset, FS_CardinalityType
<1>3. i \in Nat \ {0} /\ i <= Cardinality(D) /\ Cardinality(D) \in Nat
  BY <1>1, FS_CardinalityType
<1>4. 0 \in Few
  <2>1. Below(0) = {}
    BY <1>1
  <2>2. Cardinality(Below(0)) = 0
    BY <2>1, FS_EmptySet
  <2>3. QED
    BY <1>3, <2>2
<1>5. NumCorners + 1 \notin Few
  <2>1. Below(NumCorners + 1) = D
    BY <1>1
  <2>2. Cardinality(Below(NumCorners + 1)) = Cardinality(D)
    BY <2>1
  <2> HIDE DEF Below
  <2>3. QED
    BY <1>3, <2>2
<1>6. PICK k \in Nat : k \in Few /\ k + 1 \notin Few
  <2> HIDE DEF Few
  <2>1. ~(Nat \subseteq Few)
    BY <1>1, <1>5
  <2>2. QED
    BY <1>4, <2>1, Induction
<1>7. Cardinality(Below(k)) < i /\ ~(Cardinality(Below(k + 1)) < i)
  BY <1>6
<1>8. Below(k + 1) = IF k \in D THEN Below(k) \cup {k} ELSE Below(k)
  BY <1>1
<1>9. k \notin Below(k)
  BY <1>1
<1> HIDE DEF Below
<1>10. k \in D
  BY <1>7, <1>8
<1>11. Cardinality(Below(k + 1)) = Cardinality(Below(k)) + 1
  BY <1>2, <1>8, <1>9, <1>10, FS_AddElement
<1>12. Cardinality(Below(k)) = i - 1
  BY <1>2, <1>3, <1>7, <1>11
<1>13. QED
  BY <1>10, <1>12 DEF Below

\* n entries of corners, of no run, that cost and did nothing.
IdleEntries(d, n) ==
    /\ d \in Seq(Entries) /\ Len(d) = n /\ Len(d) \in Nat /\ DOMAIN d = 1..Len(d)
    /\ \A i \in 1..Len(d) :
         /\ d[i].runId = NoRun /\ d[i].tiers = {} /\ d[i].intents = {} /\ d[i].actions = {}
         /\ Stopped(d[i], "nothing")

\* The roster drops are such entries, one for each corner that left.
LEMMA DropsAre ==
  ASSUME baselines \in SUBSET Corner, NEW corners, NEW today \in Nat, NEW d,
         d = Drops(corners, today)
  PROVE  IdleEntries(d, Cardinality(baselines \ corners))
<1> DEFINE D == baselines \ corners
           nth(i) == CHOOSE c \in D : Cardinality({x \in D : x < c}) = i - 1
<1>1. d = [i \in 1..Cardinality(D) |-> Dated(today, nth(i), NoRun, "roster_drop", TRUE, {})]
  BY Zenon DEF Drops
<1>2. ASSUME NEW i \in 1..Cardinality(D) PROVE nth(i) \in Corner
  <2>1. \E c \in D : Cardinality({x \in D : x < c}) = i - 1
    BY NthExists
  <2>2. nth(i) \in D
    BY <2>1, Zenon
  <2>3. QED
    BY <2>2
<1>3. Cardinality(D) \in Nat
  BY Bounds, FS_Subset, FS_CardinalityType
<1> HIDE DEF D, nth
<1>4. ASSUME NEW i \in 1..Cardinality(D)
      PROVE  /\ d[i] \in Entries /\ d[i].runId = NoRun /\ d[i].tiers = {}
             /\ d[i].intents = {} /\ d[i].actions = {} /\ Stopped(d[i], "nothing")
  <2>1. PICK e, c : e = d[i] /\ c = nth(i)
    OBVIOUS
  <2>2. e = Dated(today, c, NoRun, "roster_drop", TRUE, {})
    BY <1>1, <2>1
  <2>3. e = [slug |-> c, runId |-> NoRun, basis |-> "roster_drop", byRule |-> TRUE,
             significant |-> FALSE, tier2 |-> FALSE, actions |-> {}, intents |-> {},
             error |-> FALSE, day |-> today, tiers |-> {}]
    BY <2>2, Zenon DEF Dated
  <2>4. c \in Corner /\ "roster_drop" \in Bases
    BY <1>2, <2>1 DEF Bases, UnjudgedBases
  <2>5. e \in Entries
    BY <2>3, <2>4 DEF Entries
  <2>6. /\ e.runId = NoRun /\ e.tiers = {} /\ e.intents = {} /\ e.actions = {}
        /\ e.basis = "roster_drop" /\ e.significant = FALSE /\ e.tier2 = FALSE /\ e.error = FALSE
    BY <2>3
  <2>7. Stopped(e, "nothing")
    BY <2>6 DEF Stopped
  <2>8. QED
    BY <2>1, <2>5, <2>6, <2>7
<1>5. DOMAIN d = 1..Cardinality(D)
  BY <1>1
<1>6. d \in [1..Cardinality(D) -> Entries]
  <2>1. d = [i \in 1..Cardinality(D) |-> d[i]]
    BY <1>1, <1>5
  <2>2. QED
    BY <1>4, <2>1
<1>7. d \in Seq(Entries) /\ Len(d) = Cardinality(D)
  BY <1>3, <1>5, <1>6
<1>8. IdleEntries(d, Cardinality(D))
  BY <1>3, <1>4, <1>5, <1>7 DEF IdleEntries
<1>9. QED
  BY <1>8, Zenon DEF D

-----------------------------------------------------------------------------
\* The day of the cycle that begins.
LEMMA DayBegins ==
  ASSUME Inv, NEW rid, NEW corners, BeginCycle(rid, corners)
  PROVE  day' \in Nat /\ begun' \in Nat
<1>1. begun \in Nat /\ begun < Len(DayOf) /\ begun' = begun + 1 /\ day' = DayOf[begun + 1]
  BY DEF BeginCycle, Inv, CycleInv
<1>2. DayOf \in Seq(Nat) /\ Len(DayOf) \in Nat
  BY Bounds, LenProperties
<1>3. begun + 1 \in 1..Len(DayOf)
  BY <1>1, <1>2
<1>4. DayOf[begun + 1] \in Nat
  BY <1>2, <1>3
<1>5. QED
  BY <1>1, <1>4

\* A cycle begins: its drops tell of no run, and nothing tells of it yet.
LEMMA BeginKeeps ==
  ASSUME Inv, NEW rid \in RunIds, NEW corners \in SUBSET Corner,
         BeginCycle(rid, corners), NEW r \in RunIds
  PROVE  Done(r)' = Done(r)
<1>0. PICK today \in Nat : today = day'
  BY DayBegins
<1>1. PICK d : d = Drops(corners, today)
  OBVIOUS
<1>2. baselines \in SUBSET Corner
  BY DEF Inv, CycleInv
<1>3. /\ d \in Seq(Entries) /\ Len(d) \in Nat /\ \A i \in 1..Len(d) : d[i].runId = NoRun
  BY <1>1, <1>2, DropsAre DEF IdleEntries
<1>4. journal' = journal \o d /\ journal \in Seq(Entries) /\ NoRun \notin RunIds
  BY <1>0, <1>1, Bounds DEF BeginCycle, Inv, JournalInv
<1>5. PICK n, m : n = Len(journal) /\ m = Len(d)
  OBVIOUS
<1>6. /\ n \in Nat /\ m \in Nat /\ DOMAIN journal = 1..n /\ DOMAIN journal' = 1..(n + m)
      /\ \A i \in 1..(n + m) : journal'[i] = IF i <= n THEN journal[i] ELSE d[i - n]
  BY <1>3, <1>4, <1>5, ConcatProperties, LenProperties
<1>7. PICK K, L : /\ K = {k \in DOMAIN journal : journal[k].runId = r}
                  /\ L = {k \in DOMAIN journal' : journal'[k].runId = r}
  OBVIOUS
<1>8. \A i \in 1..(n + m) : i > n => journal'[i].runId = NoRun
  BY <1>3, <1>5, <1>6
<1>9. L = K
  BY <1>4, <1>6, <1>7, <1>8
<1>10. \A i \in K : {journal'[i].slug} \X journal'[i].actions = {journal[i].slug} \X journal[i].actions
  BY <1>6, <1>7
<1>11. Done(r)' = UNION {{journal'[i].slug} \X journal'[i].actions : i \in L}
  BY <1>7, Zenon DEF Done
<1>12. Done(r) = UNION {{journal[i].slug} \X journal[i].actions : i \in K}
  BY <1>7, Zenon DEF Done
<1>13. {{journal'[i].slug} \X journal'[i].actions : i \in L} = {{journal[i].slug} \X journal[i].actions : i \in K}
  BY <1>9, <1>10
<1>14. QED
  BY <1>11, <1>12, <1>13

\* A cycle begins, and the invariant of the journal and the spend is kept.
LEMMA BeginRecords ==
  ASSUME Inv, NEW rid \in RunIds, NEW corners \in SUBSET Corner,
         BeginCycle(rid, corners)
  PROVE  /\ JournalInv' /\ SpendInv'
         /\ Len(journal) \in Nat /\ Len(journal') \in Nat /\ Len(journal') <= MaxEntries
         /\ DOMAIN journal' = 1..Len(journal')
         /\ \A i \in 1..Len(journal') : \/ i \in 1..Len(journal) /\ journal'[i] = journal[i]
                                        \/ journal'[i].runId = NoRun
<1>0. PICK today \in Nat : today = day'
  BY DayBegins
<1>1. PICK d : d = Drops(corners, today)
  OBVIOUS
<1>2. baselines \in SUBSET Corner
  BY DEF Inv, CycleInv
<1>3. /\ d \in Seq(Entries) /\ Len(d) \in Nat /\ Len(d) = Cardinality(baselines \ corners)
      /\ DOMAIN d = 1..Len(d)
      /\ \A i \in 1..Len(d) : /\ d[i].runId = NoRun /\ d[i].tiers = {} /\ d[i].intents = {}
                               /\ Stopped(d[i], "nothing")
  <2>1. IdleEntries(d, Cardinality(baselines \ corners))
    BY <1>1, <1>2, DropsAre, Zenon
  <2>2. QED
    BY <2>1, Zenon DEF IdleEntries
<1>4. PICK w : w = [i \in DOMAIN d |-> "nothing"]
  OBVIOUS
<1>5. /\ journal' = journal \o d /\ journal \in Seq(Entries) /\ chose' = chose \o w
      /\ chose \in Seq(Choices) /\ Len(chose) = Len(journal)
      /\ Len(journal) + Len(d) <= MaxEntries
      /\ \A i \in 1..Len(journal) : Ended(journal[i], chose[i])
  BY <1>0, <1>1, <1>3, <1>4 DEF BeginCycle, Inv, JournalInv
<1>6. PICK n, m : n = Len(journal) /\ m = Len(d)
  OBVIOUS
<1>7. /\ n \in Nat /\ m \in Nat /\ DOMAIN journal = 1..n /\ DOMAIN journal' = 1..(n + m)
      /\ journal' \in Seq(Entries) /\ Len(journal') = n + m
      /\ \A i \in 1..(n + m) : journal'[i] = IF i <= n THEN journal[i] ELSE d[i - n]
  <2>1. /\ journal \o d \in Seq(Entries) /\ Len(journal \o d) = Len(journal) + Len(d)
        /\ \A i \in 1..(Len(journal) + Len(d)) :
              (journal \o d)[i] = IF i <= Len(journal) THEN journal[i] ELSE d[i - Len(journal)]
    <3>1. journal \in Seq(Entries) /\ d \in Seq(Entries)
      BY <1>3, <1>5, Zenon
    <3>2. QED
      BY <3>1, ConcatProperties, Zenon
  <2>2. n \in Nat /\ m \in Nat /\ DOMAIN journal = 1..n
    BY <1>3, <1>5, <1>6, LenProperties
  <2>3. journal' \in Seq(Entries) /\ Len(journal') = n + m
    BY <1>5, <1>6, <2>1
  <2>4. DOMAIN journal' = 1..(n + m)
    BY <2>3, LenProperties
  <2>5. \A i \in 1..(n + m) : journal'[i] = IF i <= n THEN journal[i] ELSE d[i - n]
    BY <1>5, <1>6, <2>1
  <2>6. QED
    BY <2>2, <2>3, <2>4, <2>5
<1>8. w \in Seq(Choices) /\ Len(w) = m /\ \A i \in 1..m : w[i] = "nothing"
  <2>1. w \in [1..m -> Choices]
    BY <1>3, <1>4, <1>6 DEF Choices
  <2>2. m \in Nat
    BY <1>3, <1>6
  <2>3. w \in Seq(Choices) /\ Len(w) = m
    BY <2>1, <2>2
  <2>4. \A i \in 1..m : w[i] = "nothing"
    BY <1>3, <1>4, <1>6
  <2>5. QED
    BY <2>3, <2>4
<1>9. /\ chose' \in Seq(Choices) /\ Len(chose') = n + m
      /\ \A i \in 1..(n + m) : chose'[i] = IF i <= n THEN chose[i] ELSE w[i - n]
  <2>1. /\ chose \o w \in Seq(Choices) /\ Len(chose \o w) = Len(chose) + Len(w)
        /\ \A i \in 1..(Len(chose) + Len(w)) :
              (chose \o w)[i] = IF i <= Len(chose) THEN chose[i] ELSE w[i - Len(chose)]
    BY <1>5, <1>8, ConcatProperties, Zenon
  <2>2. QED
    BY <1>5, <1>6, <1>8, <2>1
<1>10. \A i \in 1..(n + m) : i > n =>
          /\ journal'[i].runId = NoRun /\ journal'[i].tiers = {} /\ journal'[i].intents = {}
          /\ Stopped(journal'[i], "nothing") /\ chose'[i] = "nothing"
  <2>1. TAKE i \in 1..(n + m)
  <2>2. HAVE i > n
  <2>3. i - n \in 1..m
    BY <1>7, <2>2
  <2>4. journal'[i] = d[i - n] /\ chose'[i] = "nothing"
    BY <1>7, <1>8, <1>9, <2>2, <2>3
  <2>5. QED
    BY <1>3, <1>6, <2>3, <2>4
<1>11. \A i \in 1..(n + m) : Ended(journal'[i], chose'[i])
  <2>1. TAKE i \in 1..(n + m)
  <2>2. CASE i > n
    BY <1>10, <2>2 DEF Ended
  <2>3. CASE i <= n
    BY <1>5, <1>6, <1>7, <1>9, <2>3
  <2>4. QED
    BY <1>7, <2>2, <2>3
<1>12. JournalInv'
  BY <1>7, <1>9, <1>11 DEF JournalInv
<1>13. ASSUME NEW t \in Tiers PROVE PaidOn(t)' = PaidOn(t)
  BY <1>7, <1>10 DEF PaidOn
<1>14. Forgotten' = Forgotten
  <2>1. Forgotten = {i \in 1..n : journal[i].intents = {"deliberate"} /\ ~journal[i].byRule}
    BY <1>7 DEF Forgotten
  <2>2. Forgotten' = {i \in 1..(n + m) : journal'[i].intents = {"deliberate"} /\ ~journal'[i].byRule}
    BY <1>7 DEF Forgotten
  <2>3. \A i \in 1..(n + m) : journal'[i].intents = {"deliberate"} => i <= n
    <3>1. \A i \in 1..(n + m) : i > n => journal'[i].intents = {}
      BY <1>10
    <3>2. {} # {"deliberate"}
      OBVIOUS
    <3>3. n \in Nat /\ m \in Nat
      BY <1>7
    <3>4. QED
      BY <3>1, <3>2, <3>3
  <2>4. \A i \in 1..(n + m) : i <= n => i \in 1..n /\ journal'[i] = journal[i]
    BY <1>7
  <2>5. 1..n \subseteq 1..(n + m)
    BY <1>7
  <2> HIDE DEF Forgotten
  <2>6. QED
    BY <2>1, <2>2, <2>3, <2>4, <2>5
<1>15. SpendInv'
  <2>1. PICK x, y, z : /\ x = Cardinality(PaidOn("tier1")) /\ y = Cardinality(Forgotten)
                       /\ z = Cardinality(PaidOn("tier2"))
    OBVIOUS
  <2>2. "tier1" \in Tiers /\ "tier2" \in Tiers
    BY DEF Tiers
  <2>3. /\ x = Cardinality(PaidOn("tier1")') /\ y = Cardinality(Forgotten')
        /\ z = Cardinality(PaidOn("tier2")')
    BY <1>13, <1>14, <2>1, <2>2
  <2>4. x \in Nat /\ y \in Nat /\ z \in Nat
    BY <2>1, CountsAreNumbers
  <2>5. z + Pending("tier2") = reserved["tier2"] /\ x + y + Pending("tier1") = reserved["tier1"]
    BY <2>1 DEF Inv, SpendInv
  <2>6. paid' = {} /\ reserved' = [t \in Tiers |-> reserved[t] - Pending(t)]
    BY DEF BeginCycle
  <2>7. \A t \in Tiers : Pending(t)' = 0 /\ Pending(t) \in Nat
    BY <2>6 DEF Pending
  <2>8. /\ reserved'["tier2"] = reserved["tier2"] - Pending("tier2")
        /\ reserved'["tier1"] = reserved["tier1"] - Pending("tier1")
    BY <2>2, <2>6
  <2>9. z + Pending("tier2")' = reserved'["tier2"]
    BY <2>2, <2>4, <2>5, <2>7, <2>8
  <2>10. x + y + Pending("tier1")' = reserved'["tier1"]
    BY <2>2, <2>4, <2>5, <2>7, <2>8
  <2>11. reserved' \in [Tiers -> Nat]
    <3>1. reserved'["tier2"] \in Nat /\ reserved'["tier1"] \in Nat
      BY <2>2, <2>4, <2>7, <2>9, <2>10
    <3>2. QED
      BY <2>6, <3>1 DEF Tiers
  <2>12. QED
    BY <2>3, <2>9, <2>10, <2>11 DEF SpendInv
<1>16. QED
  BY <1>5, <1>6, <1>7, <1>10, <1>12, <1>15

\* A cycle begins, and the rest is kept.
LEMMA BeginStory ==
  ASSUME Inv, NEW rid \in RunIds, NEW corners \in SUBSET Corner,
         BeginCycle(rid, corners)
  PROVE  /\ StoryInv' /\ ManifestIsTheRun' /\ HandInv'
         /\ given' \in SUBSET Corner /\ todo' \in SUBSET given' /\ taken' = 0 /\ tokens' = 0
         /\ began' \in 0..Len(journal') /\ Len(journal') <= MaxEntries
<1>1. /\ given' = corners /\ runId' = rid /\ todo' = corners /\ uses' = [uses EXCEPT ![rid] = @ + 1]
      /\ written' = {} /\ began' = Len(journal') /\ tokens' = 0 /\ taken' = 0
      /\ stage' = "sweep" /\ manifest' = manifest
  BY DEF BeginCycle, NewActuator
<1>2. PICK m : m = Len(journal')
  OBVIOUS
<1>3. /\ m \in Nat /\ DOMAIN journal' = 1..m /\ m <= MaxEntries /\ NoRun \notin RunIds
      /\ \A i \in 1..m : (i \in 1..Len(journal) /\ journal'[i] = journal[i]) \/ journal'[i].runId = NoRun
  BY <1>2, BeginRecords, Bounds
<1>4. /\ uses \in [RunIds -> Nat] /\ DOMAIN manifest = RunIds
      /\ \A r \in RunIds : uses[r] = 0 => /\ manifest[r] = NoManifest
                                         /\ \A i \in 1..Len(journal) : journal[i].runId # r
  BY DEF Inv, StoryInv
<1>5. /\ uses' \in [RunIds -> Nat] /\ uses'[rid] = uses[rid] + 1
      /\ \A r \in RunIds \ {rid} : uses'[r] = uses[r]
  BY <1>1, <1>4
<1>6. ASSUME NEW r \in RunIds, uses[r] = 0
      PROVE  manifest[r] = NoManifest /\ \A i \in 1..m : journal'[i].runId # r
  BY <1>3, <1>4, <1>6
<1>7. ASSUME uses[rid] = 0 PROVE Done(rid)' = {}
  <2>1. {k \in DOMAIN journal' : journal'[k].runId = rid} = {}
    BY <1>3, <1>6, <1>7
  <2>2. QED
    BY <2>1 DEF Done
<1>8. \A r \in RunIds : uses'[r] = 0 => uses[r] = 0
  BY <1>4, <1>5
<1>9. uses'[rid] = 1 => uses[rid] = 0
  BY <1>4, <1>5
<1>10. uses'[rid] # 0
  BY <1>4, <1>5
<1>11. \A i \in (m + 1)..m : FALSE
  BY <1>3
<1>12. /\ runId' \in RunIds /\ uses'[runId'] # 0
       /\ \A i \in (began' + 1)..Len(journal') : FALSE
  BY <1>1, <1>2, <1>10, <1>11
<1>13. \A r \in RunIds : uses'[r] = 0 =>
         /\ manifest'[r] = NoManifest /\ \A i \in 1..Len(journal') : journal'[i].runId # r
  BY <1>1, <1>2, <1>6, <1>8
<1>14. uses'[runId'] = 1 =>
         /\ \A i \in 1..began' : journal'[i].runId # runId'
         /\ written' = Done(rid)' /\ manifest'[runId'] = NoManifest
  BY <1>1, <1>2, <1>6, <1>7, <1>9
<1>15. Done(rid)' = Done(runId)'
  BY <1>1 DEF Done
<1>16. StoryInv'
  BY <1>1, <1>4, <1>5, <1>12, <1>13, <1>14, <1>15 DEF StoryInv
<1>17. ASSUME NEW r \in RunIds, uses'[r] = 1, manifest'[r] # NoManifest
       PROVE  manifest'[r] = Done(r)'
  <2>1. r # rid
    BY <1>1, <1>6, <1>9, <1>17
  <2>2. uses[r] = 1 /\ manifest[r] # NoManifest
    BY <1>1, <1>5, <1>17, <2>1
  <2>3. manifest[r] = Done(r)
    BY <2>2 DEF Inv, ManifestIsTheRun, Done
  <2>4. QED
    BY <1>1, <2>3, BeginKeeps
<1>18. ManifestIsTheRun'
  BY <1>17 DEF ManifestIsTheRun, Done
<1>19. HandInv'
  BY DEF BeginCycle, HandInv
<1>20. QED
  BY <1>1, <1>2, <1>3, <1>16, <1>18, <1>19

\* A command begins its first cycle.
LEMMA LaunchKeeps ==
  ASSUME Inv, NEW n \in Nat, NEW rid \in RunIds, Launch(n, rid), n > 1 => n <= Len(ManualId)
  PROVE  Inv'
<1>1. roster \in SUBSET Corner
  BY Bounds DEF Inv, CycleInv
<1>2. BeginCycle(rid, roster)
  BY Zenon DEF Launch
<1>3. day' \in Nat /\ begun' \in Nat
  BY <1>2, DayBegins
<1>4. JournalInv' /\ SpendInv'
  BY <1>1, <1>2, BeginRecords
<1>5. /\ StoryInv' /\ ManifestIsTheRun' /\ HandInv'
      /\ given' \in SUBSET Corner /\ todo' \in SUBSET given' /\ taken' = 0 /\ tokens' = 0
      /\ began' \in 0..Len(journal') /\ Len(journal') <= MaxEntries
  BY <1>1, <1>2, BeginStory
<1>6. /\ roster' = roster /\ baselines' = baselines /\ limit' = limit /\ cycle' = 1
      /\ cycles' = n /\ stage' = "sweep" /\ launched' = launched + 1
  BY <1>2 DEF BeginCycle, Launch
<1>7. taken' \in 0..limit' /\ tokens' \in Nat /\ TokenLimit \in Nat /\ launched' \in Nat
  BY <1>5, <1>6, Bounds DEF Inv, CycleInv
<1>8. CycleInv'
  BY <1>3, <1>5, <1>6, <1>7 DEF CycleInv, Inv, Sweeping
<1>9. QED
  BY <1>4, <1>5, <1>8 DEF Inv

\* The invariant holds at the start.
LEMMA InitInv == Init => Inv
<1> SUFFICES ASSUME Init PROVE Inv
  OBVIOUS
<1>1. /\ roster = Corner /\ baselines = {} /\ day = 0 /\ journal = <<>> /\ chose = <<>>
      /\ manifest = [r \in RunIds |-> NoManifest]
      /\ stage = "idle" /\ limit \in ActionLimits /\ cycle = 0 /\ cycles = 0
      /\ given = {} /\ todo = {} /\ runId = NoRun /\ tokens = 0 /\ taken = 0
      /\ launched = 0 /\ begun = 0 /\ began = 0 /\ uses = [r \in RunIds |-> 0]
      /\ paid = {} /\ reserved = [t \in Tiers |-> 0]
  BY DEF Init
<1>2. Len(journal) = 0 /\ Len(chose) = 0 /\ journal \in Seq(Entries) /\ chose \in Seq(Choices)
      /\ DOMAIN journal = {}
  BY <1>1, EmptySeq
<1>3. JournalInv
  BY <1>2 DEF JournalInv
<1>4. HandInv
  BY <1>1 DEF HandInv
<1>5. CycleInv
  BY <1>1, <1>2, Bounds DEF CycleInv
<1>6. StoryInv
  BY <1>1, <1>2, Bounds DEF StoryInv, Sweeping
<1>7. \A t \in Tiers : PaidOn(t) = {}
  BY <1>2 DEF PaidOn
<1>8. Forgotten = {}
  BY <1>2 DEF Forgotten
<1>9. Cardinality({}) = 0
  BY FS_EmptySet
<1>10. SpendInv
  <2>1. "tier1" \in Tiers /\ "tier2" \in Tiers
    BY DEF Tiers
  <2>2. reserved \in [Tiers -> Nat] /\ reserved["tier1"] = 0 /\ reserved["tier2"] = 0
    BY <1>1, <2>1
  <2>3. PaidOn("tier1") = {} /\ PaidOn("tier2") = {}
    BY <1>7, <2>1
  <2>4. QED
    <3>1. Cardinality(PaidOn("tier1")) = 0 /\ Cardinality(PaidOn("tier2")) = 0 /\ Cardinality(Forgotten) = 0
      BY <1>8, <1>9, <2>3
    <3>2. Pending("tier1") = 0 /\ Pending("tier2") = 0
      BY <1>1 DEF Pending
    <3>3. QED
      BY <2>2, <3>1, <3>2 DEF SpendInv
<1>11. ManifestIsTheRun
  BY <1>1 DEF ManifestIsTheRun
<1>12. QED
  BY <1>3, <1>4, <1>5, <1>6, <1>10, <1>11 DEF Inv

\* Where the journal stays the same, so does what is read off it.
LEMMA SameJournal ==
  ASSUME journal' = journal, chose' = chose, reserved' = reserved, paid' = paid, Inv
  PROVE  JournalInv' /\ SpendInv' /\ \A r : Done(r)' = Done(r)
<1>1. JournalInv'
  BY DEF JournalInv, Inv
<1>2. SpendInv'
  BY DEF SpendInv, Inv, PaidOn, Forgotten, Pending
<1>3. \A r : Done(r)' = Done(r)
  BY DEF Done
<1>4. QED
  BY <1>1, <1>2, <1>3

\* The cycle ends with its manifest.
LEMMA EndKeeps ==
  ASSUME Inv, EndCycle
  PROVE  Inv'
<1>1. /\ stage = "sweep" /\ manifest' = [manifest EXCEPT ![runId] = written]
      /\ stage' = (IF cycle < cycles THEN "between" ELSE "idle")
      /\ roster' = roster /\ baselines' = baselines /\ day' = day
      /\ journal' = journal /\ chose' = chose /\ reserved' = reserved
      /\ limit' = limit /\ cycle' = cycle /\ cycles' = cycles /\ launched' = launched
      /\ begun' = begun /\ paid' = paid /\ given' = given /\ todo' = todo /\ runId' = runId /\ tokens' = tokens
      /\ taken' = taken /\ written' = written /\ began' = began /\ uses' = uses
  BY DEF EndCycle, world, cli, run, calls
<1>2. /\ JournalInv' /\ SpendInv' /\ \A r : Done(r)' = Done(r)
  BY <1>1, SameJournal
<1>3. CycleInv' /\ HandInv'
  BY <1>1 DEF CycleInv, HandInv, Inv, Sweeping
<1>4. runId \in RunIds /\ uses[runId] # 0 /\ DOMAIN manifest = RunIds
  BY <1>1 DEF Inv, StoryInv
<1>5. /\ manifest'[runId] = written
      /\ \A r \in RunIds \ {runId} : manifest'[r] = manifest[r]
      /\ DOMAIN manifest' = RunIds
  BY <1>1, <1>4
<1>6. StoryInv'
  BY <1>1, <1>4, <1>5 DEF StoryInv, Inv, Sweeping
<1>7. ASSUME NEW r \in RunIds, uses[r] = 1, manifest'[r] # NoManifest PROVE manifest'[r] = Done(r)
  <2>1. CASE r = runId
    BY <1>1, <1>4, <1>5, <1>7, <2>1 DEF Inv, StoryInv, Sweeping
  <2>2. CASE r # runId
    BY <1>5, <1>7, <2>2 DEF Inv, ManifestIsTheRun, Done
  <2>3. QED
    BY <2>1, <2>2
<1>8. ManifestIsTheRun'
  BY <1>1, <1>7 DEF ManifestIsTheRun, Done
<1>9. QED
  BY <1>2, <1>3, <1>6, <1>8 DEF Inv

\* The journal, the manifests and the account of the tiers tell one story in
\* every state.
LEMMA Invariance == Spec => []Inv
<1>1. Inv /\ [Next]_vars => Inv'
  <2> SUFFICES ASSUME Inv, [Next]_vars PROVE Inv'
    OBVIOUS
  <2>1. CASE UNCHANGED vars
    <3>1. /\ roster' = roster /\ baselines' = baselines /\ day' = day /\ stage' = stage
          /\ journal' = journal /\ chose' = chose /\ reserved' = reserved /\ manifest' = manifest
          /\ limit' = limit /\ cycle' = cycle /\ cycles' = cycles /\ launched' = launched
          /\ begun' = begun /\ paid' = paid /\ given' = given /\ todo' = todo /\ runId' = runId /\ tokens' = tokens
          /\ taken' = taken /\ written' = written /\ began' = began /\ uses' = uses
      BY <2>1 DEF vars, world, records, cli, run, calls
    <3>2. JournalInv' /\ SpendInv' /\ \A r : Done(r)' = Done(r)
      BY <3>1, SameJournal
    <3>3. CycleInv' /\ HandInv'
      BY <3>1 DEF CycleInv, HandInv, Inv
    <3>4. StoryInv'
      BY <3>1 DEF StoryInv, Inv, Done
    <3>5. ManifestIsTheRun'
      BY <3>1 DEF ManifestIsTheRun, Inv
    <3>6. QED
      BY <3>2, <3>3, <3>4, <3>5 DEF Inv
  <2>2. CASE WatchedCommand
    <3>1. /\ roster' \in Rosters /\ baselines' = baselines /\ day' = day /\ stage' = stage
          /\ journal' = journal /\ chose' = chose /\ reserved' = reserved /\ manifest' = manifest
          /\ limit' = limit /\ cycle' = cycle /\ cycles' = cycles /\ launched' = launched
          /\ begun' = begun /\ paid' = paid /\ given' = given /\ todo' = todo /\ runId' = runId /\ tokens' = tokens
          /\ taken' = taken /\ written' = written /\ began' = began /\ uses' = uses
      BY <2>2 DEF WatchedCommand, records, cli, run, calls
    <3>2. JournalInv' /\ SpendInv' /\ \A r : Done(r)' = Done(r)
      BY <3>1, SameJournal
    <3>3. CycleInv' /\ HandInv'
      BY <3>1 DEF CycleInv, HandInv, Inv
    <3>4. StoryInv'
      BY <3>1 DEF StoryInv, Inv, Done
    <3>5. ManifestIsTheRun'
      BY <3>1 DEF ManifestIsTheRun, Inv
    <3>6. QED
      BY <3>2, <3>3, <3>4, <3>5 DEF Inv
  <2>3. CASE Die
    <3>1. /\ roster' = roster /\ day' = day /\ stage' = "idle"
          /\ journal' = journal /\ chose' = chose /\ reserved' = reserved /\ manifest' = manifest
          /\ limit' = limit /\ cycle' = cycle /\ cycles' = cycles /\ launched' = launched
          /\ begun' = begun /\ paid' = paid /\ given' = given /\ todo' = todo /\ runId' = runId /\ tokens' = tokens
          /\ taken' = taken /\ written' = written /\ began' = began /\ uses' = uses
      BY <2>3 DEF Die, records, cli, run, calls
    <3>2. JournalInv' /\ SpendInv' /\ \A r : Done(r)' = Done(r)
      BY <3>1, SameJournal
    <3>3. baselines' \in SUBSET Corner
      <4>1. PICK stored \in SUBSET {c \in Corner : Next1(c)} : baselines' = baselines \cup stored
        BY <2>3 DEF Die
      <4>2. stored \subseteq Corner /\ baselines \subseteq Corner
        BY DEF Inv, CycleInv
      <4>3. QED
        BY <4>1, <4>2
    <3>4. CycleInv' /\ HandInv'
      BY <3>1, <3>3 DEF CycleInv, HandInv, Inv
    <3>5. StoryInv'
      BY <3>1 DEF StoryInv, Inv, Done, Sweeping
    <3>6. ManifestIsTheRun'
      BY <3>1 DEF ManifestIsTheRun, Inv
    <3>7. QED
      BY <3>2, <3>4, <3>5, <3>6 DEF Inv
  <2>4. CASE EndCycle
    BY <2>4, EndKeeps
  <2>5. ASSUME NEW c \in Corner, Evaluate(c) PROVE Inv'
    <3>1. CASE AskTierOne(c)
      <4>1. Ask("tier1", Tier1Cost) /\ stage = "sweep" /\ "tier1" \in Tiers /\ Tier1Cost \in Nat
        BY <3>1, Bounds DEF AskTierOne, Next1, Tiers
      <4>2. QED
        BY <4>1, AskKeeps
    <3>2. CASE AskTierTwo(c)
      <4>1. /\ Ask("tier2", Tier2Cost) /\ stage \in {"sweep", "triage"}
            /\ "tier2" \in Tiers /\ "tier2" # "tier1" /\ Tier2Cost \in Nat
        BY <3>2, Bounds DEF AskTierTwo, Escalated, Tiers
      <4>2. QED
        BY <4>1, AskKeeps
    <3>3. CASE \E e, wanted : Evaluated(c, e, wanted)
      <4>1. PICK e, wanted : Evaluated(c, e, wanted)
        BY <3>3
      <4>2. QED
        BY <4>1, JournalGrows, CycleGoesOn, StoryGoesOn, SpendGoesOn DEF Inv
    <3>4. QED
      BY <2>5, <3>1, <3>2, <3>3, EvaluateShape
  <2>6. /\ ManualId \in Seq(RunIds) /\ TickId \in Seq(RunIds)
        /\ Len(ManualId) \in Nat /\ Len(TickId) \in Nat
        /\ DOMAIN ManualId = 1..Len(ManualId) /\ DOMAIN TickId = 1..Len(TickId)
        /\ launched \in Nat
    BY WatchdogAssumption, LenProperties DEF WatchdogAssumption, Inv, CycleInv
  <2>7. ASSUME NEW n \in DOMAIN ManualId, RunCommand(n) PROVE Inv'
    <3>1. Launch(n, ManualId[1])
      BY <2>7 DEF RunCommand
    <3>2. n \in Nat /\ n <= Len(ManualId) /\ ManualId[1] \in RunIds
      BY <2>6
    <3>3. QED
      BY <3>1, <3>2, LaunchKeeps
  <2>8. CASE TickCommand
    <3>1. launched < Len(TickId) /\ Launch(1, TickId[launched + 1])
      BY <2>8 DEF TickCommand, Launch
    <3>2. TickId[launched + 1] \in RunIds
      BY <2>6, <3>1
    <3>3. QED
      BY <3>1, <3>2, LaunchKeeps
  <2>9. CASE NextCycle
    <3>1. /\ stage = "between" /\ cycle' = cycle + 1 /\ limit' = limit
          /\ cycles' = cycles /\ launched' = launched
      BY <2>9 DEF NextCycle, BeginCycle
    <3>2. PICK rid : rid = ManualId[cycle + 1]
      OBVIOUS
    <3>3. /\ cycle \in Nat /\ cycles \in Nat /\ cycle >= 1 /\ cycle < cycles /\ cycles <= Len(ManualId)
          /\ given \in SUBSET Corner
      BY <3>1 DEF Inv, CycleInv
    <3>4. rid \in RunIds
      BY <2>6, <3>2, <3>3
    <3>5. BeginCycle(rid, given)
      BY <2>9, <3>2, Zenon DEF NextCycle
    <3>6. JournalInv' /\ SpendInv'
      BY <3>3, <3>4, <3>5, BeginRecords
    <3>7. /\ StoryInv' /\ ManifestIsTheRun' /\ HandInv'
          /\ given' \in SUBSET Corner /\ todo' \in SUBSET given' /\ taken' = 0 /\ tokens' = 0
          /\ began' \in 0..Len(journal') /\ Len(journal') <= MaxEntries
      BY <3>3, <3>4, <3>5, BeginStory
    <3>8. /\ roster' = roster /\ baselines' = baselines /\ stage' = "sweep"
          /\ day' \in Nat /\ begun' \in Nat
      BY <3>5, DayBegins DEF BeginCycle
    <3>9. taken' \in 0..limit' /\ tokens' \in Nat /\ TokenLimit \in Nat
      BY <3>1, <3>7, Bounds DEF Inv, CycleInv
    <3>10. CycleInv'
      BY <3>1, <3>3, <3>7, <3>8, <3>9 DEF CycleInv, Inv, Sweeping
    <3>11. QED
      BY <3>6, <3>7, <3>10 DEF Inv
  <2>10. QED
    BY <2>1, <2>2, <2>3, <2>4, <2>5, <2>7, <2>8, <2>9 DEF Next
<1>2. QED
  BY <1>1, InitInv, PTL DEF Spec

Adjustment == [from : Int, to : Int]

\* A document whose bar its history explains.
Explains(c) ==
    /\ c.jump \in Floor..Ceiling
    /\ c.history \in Seq(Adjustment) /\ Len(c.history) <= HistoryLimit
    /\ c.history = <<>> => c.jump = Default
    /\ c.history # <<>> => c.history[Len(c.history)].to = c.jump
    /\ c.history # <<>> /\ Len(c.history) < HistoryLimit => c.history[1].from = Default
    /\ \A i \in 2..Len(c.history) : c.history[i].from = c.history[i - 1].to

-----------------------------------------------------------------------------
\* Newest drops the oldest adjustment at most, and only from a full history.
LEMMA NewestKeeps ==
  ASSUME NEW b \in Seq(Adjustment), b # <<>>, Len(b) <= HistoryLimit + 1,
         NEW n, n = Newest(b)
  PROVE  /\ n \in Seq(Adjustment) /\ Len(n) \in 1..HistoryLimit
         /\ \/ n = b
            \/ /\ Len(n) = HistoryLimit /\ Len(b) = HistoryLimit + 1
               /\ \A i \in 1..HistoryLimit : n[i] = b[i + 1]
<1>1. HistoryLimit \in Nat \ {0} /\ Len(b) \in Nat \ {0}
  BY CalibrationAssumption, LenProperties, EmptySeq DEF CalibrationAssumption
<1>2. CASE Len(b) <= HistoryLimit
  <2>1. n = b
    BY <1>1, <1>2 DEF Newest
  <2>2. QED
    BY <1>1, <1>2, <2>1
<1>3. CASE Len(b) > HistoryLimit
  <2>1. n = SubSeq(b, 2, Len(b)) /\ Len(b) = HistoryLimit + 1
    BY <1>1, <1>3 DEF Newest
  <2>2. /\ n \in Seq(Adjustment) /\ Len(n) = HistoryLimit
        /\ \A i \in 1..HistoryLimit : n[i] = b[i + 1]
    BY <1>1, <2>1, SubSeqProperties
  <2>3. QED
    BY <1>1, <2>1, <2>2
<1>4. QED
  BY <1>1, <1>2, <1>3

\* A review moves the bar up by a step at most, or not at all, inside its
\* bounds, and leaves a document that is explained.
LEMMA ReviewExplains ==
  ASSUME NEW journalRead, NEW c, Explains(c)
  PROVE  LET r == Review(journalRead, c) IN
         /\ Explains(r)
         /\ r # c => r.jump > c.jump /\ r.jump <= c.jump + Step
<1> DEFINE to == Clamped(c.jump + Step)
           a == [from |-> c.jump, to |-> to]
           b == Append(c.history, a)
           r == [jump |-> to, history |-> Newest(b)]
<1>1. /\ MinEvidence \in Nat \ {0} /\ Step \in Nat \ {0} /\ HistoryLimit \in Nat \ {0}
      /\ Floor \in Nat /\ Ceiling \in Nat /\ c.jump \in Int
      /\ c.jump >= Floor /\ c.jump <= Ceiling
  BY CalibrationAssumption DEF CalibrationAssumption, Explains
<1>2. CASE Review(journalRead, c) = c
  BY <1>2
<1>3. CASE Review(journalRead, c) # c
  <2>1. Review(journalRead, c) = Adjust(c, c.jump + Step) /\ to # c.jump
    BY <1>3 DEF Review, Adjust
  <2>2. Review(journalRead, c) = r
    BY <2>1, Zenon DEF Adjust
  <2>3. to \in Floor..Ceiling /\ to > c.jump /\ to <= c.jump + Step
    BY <1>1, <2>1 DEF Clamped
  <2>4. /\ c.history \in Seq(Adjustment) /\ Len(c.history) <= HistoryLimit
        /\ a \in Adjustment /\ Len(c.history) \in Nat
    BY <1>1, <2>3, LenProperties DEF Explains, Adjustment
  <2>5. /\ b \in Seq(Adjustment) /\ b # <<>>
        /\ Len(b) = Len(c.history) + 1 /\ b[Len(b)] = a
        /\ \A i \in 1..Len(c.history) : b[i] = c.history[i]
    BY <2>4, AppendProperties
  <2>6. \A j \in 2..Len(b) : b[j].from = b[j - 1].to
    <3> TAKE j \in 2..Len(b)
    <3>1. CASE j \in 2..Len(c.history)
      BY <2>4, <2>5, <3>1 DEF Explains
    <3>2. CASE j = Len(c.history) + 1
      <4>1. c.history # <<>> /\ j - 1 = Len(c.history) /\ j - 1 \in 1..Len(c.history)
        BY <2>4, <3>2
      <4>2. b[j].from = c.jump /\ b[j - 1] = c.history[Len(c.history)]
        BY <2>5, <3>2, <4>1
      <4>3. QED
        BY <4>1, <4>2 DEF Explains
    <3>3. QED
      BY <2>4, <2>5, <3>1, <3>2
  <2>7. Len(c.history) < HistoryLimit => b[1].from = Default
    <3>1. CASE c.history = <<>>
      BY <2>4, <2>5, <3>1 DEF Explains
    <3>2. CASE c.history # <<>>
      <4>1. 1 \in 1..Len(c.history) /\ b[1] = c.history[1]
        BY <2>4, <2>5, <3>2
      <4>2. QED
        BY <3>2, <4>1 DEF Explains
    <3>3. QED
      BY <3>1, <3>2
  <2>8. /\ r.history \in Seq(Adjustment) /\ Len(r.history) \in 1..HistoryLimit
        /\ \/ r.history = b
           \/ /\ Len(r.history) = HistoryLimit /\ Len(b) = HistoryLimit + 1
              /\ \A i \in 1..HistoryLimit : r.history[i] = b[i + 1]
    <3> DEFINE n == r.history
    <3>1. n = Newest(b) /\ Len(b) <= HistoryLimit + 1
      BY <1>1, <2>4, <2>5
    <3> HIDE DEF n, b
    <3>2. QED
      BY <2>5, <3>1, NewestKeeps DEF n
  <2>9. Explains(r)
    <3>1. r.jump = to /\ a.to = to
      OBVIOUS
    <3> HIDE DEF a, b, r, to
    <3>2. CASE r.history = b
      BY <1>1, <2>3, <2>4, <2>5, <2>6, <2>7, <2>8, <3>1, <3>2 DEF Explains
    <3>3. CASE /\ Len(r.history) = HistoryLimit /\ Len(b) = HistoryLimit + 1
               /\ \A i \in 1..HistoryLimit : r.history[i] = b[i + 1]
      <4>1. \A i \in 2..HistoryLimit : /\ i + 1 \in 2..Len(b) /\ i - 1 \in 1..HistoryLimit
                                       /\ i \in 1..HistoryLimit /\ (i + 1) - 1 = (i - 1) + 1
        BY <1>1, <3>3
      <4>2. \A i \in 2..HistoryLimit : r.history[i].from = r.history[i - 1].to
        BY <2>6, <3>3, <4>1
      <4>3. r.history[HistoryLimit] = a
        BY <1>1, <2>5, <3>3
      <4>4. r.history # <<>>
        BY <1>1, <3>3
      <4>5. Len(r.history) = HistoryLimit /\ HistoryLimit <= HistoryLimit /\ ~(HistoryLimit < HistoryLimit)
        BY <1>1, <3>3
      <4>6. r.history[Len(r.history)].to = r.jump
        BY <3>1, <4>3, <4>5
      <4>7. \A i \in 2..Len(r.history) : r.history[i].from = r.history[i - 1].to
        BY <4>2, <4>5
      <4>8. QED
        BY <2>3, <2>8, <3>1, <4>4, <4>5, <4>6, <4>7, Zenon DEF Explains
    <3>4. QED
      BY <2>8, <3>2, <3>3
  <2>10. QED
    BY <2>2, <2>3, <2>9
<1>4. QED
  BY <1>2, <1>3

-----------------------------------------------------------------------------
\* Every step leaves the document alone, but for the review that ends a cycle.
LEMMA OnlyReviews ==
  ASSUME [Next]_vars
  PROVE  \/ calibration' = calibration
         \/ /\ stage = "sweep" /\ todo = {}
            /\ calibration' = Review(journal, calibration)
<1>1. CASE UNCHANGED vars
  BY <1>1 DEF vars, records
<1>2. CASE WatchedCommand \/ Die
  BY <1>2 DEF WatchedCommand, Die, records
<1>3. CASE (\E n \in DOMAIN ManualId : RunCommand(n)) \/ TickCommand \/ NextCycle
  BY <1>3 DEF RunCommand, TickCommand, NextCycle, Launch, BeginCycle
<1>4. ASSUME NEW c \in Corner, Evaluate(c) PROVE calibration' = calibration
  BY <1>4 DEF Evaluate, FetchFails, FloorDeclines, BudgetExhausted, AskTierOne, TriageDeclines,
              TokensRefused, AskTierTwo, Ask, DeliberationFails, Screened, Decides, Settle, records
<1>5. CASE EndCycle
  BY <1>5 DEF EndCycle
<1>6. QED
  BY <1>1, <1>2, <1>3, <1>4, <1>5 DEF Next

\* The document is explained in every state.
LEMMA ExplainsHolds == Spec => []Explains(calibration)
<1>1. Init => Explains(calibration)
  <2>1. Default \in Floor..Ceiling /\ HistoryLimit \in Nat \ {0}
    BY CalibrationAssumption DEF CalibrationAssumption
  <2>2. <<>> \in Seq(Adjustment) /\ Len(<<>>) = 0
    BY EmptySeq
  <2>3. QED
    BY <2>1, <2>2 DEF Init, Fresh, Explains
<1>2. Explains(calibration) /\ [Next]_vars => Explains(calibration)'
  <2> SUFFICES ASSUME Explains(calibration), [Next]_vars PROVE Explains(calibration')
    BY DEF Explains
  <2>1. QED
    BY OnlyReviews, ReviewExplains
<1>3. QED
  BY <1>1, <1>2, PTL DEF Spec

\* The bar of tier one is explained by its history, however many reviews moved
\* it and however many of its adjustments the document has dropped.
THEOREM TheBarIsExplained == Spec => []BarIsExplained
<1>1. Explains(calibration) => BarIsExplained
  BY DEF Explains, BarIsExplained
<1>2. QED
  BY <1>1, ExplainsHolds, PTL

\* The bar never comes down, never leaves its bounds and never moves by more
\* than a step, and only at the end of a cycle.
THEOREM TheBarRises ==
  Spec => [][calibration' # calibration =>
               /\ stage = "sweep" /\ todo = {}
               /\ calibration'.jump \in Floor..Ceiling
               /\ calibration'.jump > calibration.jump
               /\ calibration'.jump <= calibration.jump + Step]_vars
<1>1. Explains(calibration) /\ [Next]_vars =>
        [calibration' # calibration =>
           /\ stage = "sweep" /\ todo = {}
           /\ calibration'.jump \in Floor..Ceiling
           /\ calibration'.jump > calibration.jump
           /\ calibration'.jump <= calibration.jump + Step]_vars
  BY OnlyReviews, ReviewExplains DEF Explains
<1>2. QED
  BY <1>1, ExplainsHolds, PTL DEF Spec

\* Type correctness, the budgets of a cycle included.
THEOREM TypeCorrect == Spec => []TypeOK
<1>1. Inv /\ Explains(calibration) => TypeOK
  <2> SUFFICES ASSUME Inv, Explains(calibration) PROVE TypeOK
    OBVIOUS
  <2>1. /\ journal \in Seq(Entries) /\ Len(chose) = Len(journal)
    BY DEF Inv, JournalInv
  <2>2. \A i \in DOMAIN journal : journal[i].slug \in Corner /\ journal[i].runId \in RunIds \cup {NoRun}
    <3>1. TAKE i \in DOMAIN journal
    <3>2. journal[i] \in Entries
      BY <2>1
    <3>3. QED
      BY <3>2 DEF Entries
  <2>3. calibration.jump \in Floor..Ceiling
    BY DEF Explains
  <2>4. QED
    BY <2>1, <2>2, <2>3 DEF Inv, CycleInv, HandInv, Sweeping, TypeOK
<1>2. QED
  BY <1>1, Invariance, ExplainsHolds, PTL

\* Every consultation that was paid for is on the page, but for the ones the
\* cycle waits for or died with, and tier one's on escalations whose
\* deliberation the budget refused.
THEOREM TheSpendAddsUp == Spec => []SpendAddsUp
<1>1. Inv => SpendAddsUp
  <2> SUFFICES ASSUME Inv PROVE SpendAddsUp
    OBVIOUS
  <2>1. PICK s : s = Spend(journal)
    OBVIOUS
  <2>2. ASSUME NEW t \in {"tier1", "tier2"} PROVE s.consulted[t] = Cardinality(PaidOn(t))
    <3>1. s.consulted = [u \in {"tier1", "tier2"} |->
                           Cardinality({i \in DOMAIN journal : u \in journal[i].tiers})]
      BY <2>1, Zenon DEF Spend, Count, Where
    <3>2. QED
      BY <3>1 DEF PaidOn
  <2>3. s.consulted["tier1"] = Cardinality(PaidOn("tier1")) /\ s.consulted["tier2"] = Cardinality(PaidOn("tier2"))
    BY <2>2
  <2>4. /\ s.consulted["tier2"] + Pending("tier2") = reserved["tier2"]
        /\ s.consulted["tier1"] + Cardinality(Forgotten) + Pending("tier1") = reserved["tier1"]
    BY <2>3 DEF Inv, SpendInv
  <2>5. QED
    BY <2>1, <2>4, Zenon DEF SpendAddsUp, Forgotten
<1>2. QED
  BY <1>1, Invariance, PTL

\* The manifest of a run that ended under an id of its own lists what its
\* entries say was done, however many cycles ran and wherever others died.
THEOREM TheManifestIsTheRun == Spec => []ManifestIsTheRun
<1>1. Inv => ManifestIsTheRun
  BY DEF Inv
<1>2. QED
  BY <1>1, Invariance, PTL

\* The streak of the page counts every day once, and its longest gap is the
\* longest interval of missing days.
THEOREM TheStreakIsRight == Spec => []StreakIsRight
<1>1. Inv => StreakIsRight
  <2> SUFFICES ASSUME Inv PROVE StreakIsRight
    OBVIOUS
  <2>1. journal \in Seq(Entries)
    BY DEF Inv, JournalInv
  <2>2. /\ Len(journal) \in Nat /\ DOMAIN journal = 1..Len(journal)
        /\ \A i \in 1..Len(journal) : journal[i].day \in Nat
    <3>1. Len(journal) \in Nat /\ DOMAIN journal = 1..Len(journal)
      BY <2>1, LenProperties
    <3>2. \A i \in 1..Len(journal) : journal[i] \in Entries
      BY <2>1
    <3>3. QED
      BY <3>1, <3>2 DEF Entries
  <2>3. PICK st : st = Streak(journal)
    OBVIOUS
  <2>4. /\ st.ran + Cardinality(st.gaps) = st.elapsed
        /\ st.gaps \subseteq Int /\ Measures(st.longestGap, st.gaps)
    BY <2>2, <2>3, StreakCounts
  <2>5. PICK gaps, longest, ran, elapsed :
          gaps = st.gaps /\ longest = st.longestGap /\ ran = st.ran /\ elapsed = st.elapsed
    OBVIOUS
  <2>6. PICK empty : empty = {gap \in gaps \X gaps : gap[1]..gap[2] \subseteq gaps}
    OBVIOUS
  <2>7. \A gap \in empty : gap[2] - gap[1] + 1 <= longest
    <3>1. TAKE gap \in empty
    <3>2. gap[1] \in gaps /\ gap[2] \in gaps /\ gap[1]..gap[2] \subseteq gaps
      BY <2>6
    <3>3. \A a, z \in gaps : a..z \subseteq gaps => z - a + 1 <= longest
      BY <2>4, <2>5 DEF Measures
    <3>4. QED
      BY <3>2, <3>3
  <2>8. longest > 0 => \E gap \in empty : gap[2] - gap[1] + 1 = longest
    <3>1. HAVE longest > 0
    <3>2. PICK a \in gaps, z \in gaps : a..z \subseteq gaps /\ z - a + 1 = longest
      BY <2>4, <2>5, <3>1 DEF Measures
    <3>3. <<a, z>> \in empty
      BY <2>6, <3>2
    <3>4. <<a, z>>[2] - <<a, z>>[1] + 1 = longest
      BY <3>2
    <3>5. QED
      BY <3>3, <3>4
  <2>9. ran + Cardinality(gaps) = elapsed
    BY <2>4, <2>5
  <2>10. QED
    BY <2>3, <2>5, <2>6, <2>7, <2>8, <2>9, Zenon DEF StreakIsRight
<1>2. QED
  BY <1>1, Invariance, PTL

\* What the page says of the newest cycle, whose id is its own, rests on how
\* many corners it has settled and how many are watched now.
LEMMA BannerSays ==
  ASSUME Inv, runId \in RunIds, uses[runId] = 1, began < Len(journal)
  PROVE  "did not finish" \in Banner <=> Cardinality(Reached) < Cardinality(roster)
<1>1. PICK n, b, r : n = Len(journal) /\ b = began /\ r = runId
  OBVIOUS
<1>2. journal \in Seq(Entries) /\ n \in Nat /\ DOMAIN journal = 1..n /\ b \in 0..(n - 1)
  BY <1>1, LenProperties DEF Inv, JournalInv, CycleInv
<1>3. /\ \A i \in 1..b : journal[i].runId # r
      /\ \A i \in (b + 1)..n : journal[i].runId = r
  BY <1>1 DEF Inv, StoryInv
<1>4. PICK m : m = Cardinality(roster)
  OBVIOUS
<1>5. m \in Nat \ {0}
  <2>1. roster \subseteq Corner /\ roster # {}
    BY Bounds DEF Inv, CycleInv
  <2>2. IsFiniteSet(roster)
    BY <2>1, Bounds, FS_Subset
  <2>3. QED
    BY <1>4, <2>1, <2>2, FS_CardinalityType, FS_EmptySet
<1>6. PICK z : z = journal
  OBVIOUS
<1>7. /\ Len(z) \in Nat /\ b \in 0..(Len(z) - 1)
      /\ \A i \in 1..b : z[i].runId # r
      /\ \A i \in (b + 1)..Len(z) : z[i].runId = r
  BY <1>1, <1>2, <1>3, <1>6
<1>8. ("did not finish" \in StateBanner(Coverage(z, m))) = (Cardinality(CornersOf(z, r)) < m)
  BY <1>5, <1>7, BannerOfNewest
<1>9. PICK note : note = "did not finish"
  OBVIOUS
<1>10. (note \in StateBanner(Coverage(journal, m))) = (Cardinality(CornersOf(journal, r)) < m)
  BY <1>6, <1>8, <1>9, Zenon
<1>11. Banner = StateBanner(Coverage(journal, m))
  BY <1>4, Zenon DEF Banner, Page
<1>12. CornersOf(journal, r) = Reached
  BY <1>1, <1>2, <1>3 DEF CornersOf, Reached
<1>13. note \in Banner <=> Cardinality(Reached) < Cardinality(roster)
  BY <1>4, <1>10, <1>11, <1>12
<1>14. QED
  BY <1>9, <1>13, Zenon

\* However cycles die and whenever the page is rendered, it says that the newest
\* cycle did not finish if that is so and only then, as long as the cycle has
\* left an entry and the watched set has the size it had.
THEOREM TheBannerIsTrue == Spec => []BannerIsTrue
<1>1. Inv => BannerIsTrue
  <2> SUFFICES ASSUME Inv, runId \in RunIds, ~SharesItsId
               PROVE  /\ ("did not finish" \in Banner /\ Reached = given) =>
                            Cardinality(roster) > Cardinality(given)
                      /\ (~("did not finish" \in Banner) /\ Reached # given) =>
                            Reached = {} \/ Cardinality(roster) < Cardinality(given)
    BY Zenon DEF BannerIsTrue
  <2>1. uses[runId] = 1
    <3>1. PICK u : u = uses[runId]
      OBVIOUS
    <3>2. u \in Nat /\ u # 0
      BY <3>1 DEF Inv, StoryInv
    <3>3. ~(u > 1)
      BY <3>1, Zenon DEF SharesItsId
    <3>4. u = 1
      BY <3>2, <3>3
    <3>5. QED
      BY <3>1, <3>4
  <2>2. PICK n : n = Len(journal)
    OBVIOUS
  <2>3. n \in Nat /\ began \in 0..n
    BY <2>2, LenProperties DEF Inv, JournalInv, CycleInv
  <2>4. given \subseteq Corner /\ roster \subseteq Corner /\ roster # {}
    BY Bounds DEF Inv, CycleInv
  <2>5. IsFiniteSet(given) /\ IsFiniteSet(roster)
    BY <2>4, Bounds, FS_Subset
  <2>6. Reached \subseteq given
    BY <2>2, <2>3 DEF Reached, Inv, StoryInv
  <2>7. PICK x, g, m : /\ x = Cardinality(Reached) /\ g = Cardinality(given)
                       /\ m = Cardinality(roster)
    OBVIOUS
  <2>8. /\ x \in Nat /\ g \in Nat /\ m \in Nat \ {0}
        /\ x <= g /\ (x = g => Reached = given) /\ (Reached = given => x = g)
    BY <2>4, <2>5, <2>6, <2>7, FS_Subset, FS_CardinalityType, FS_EmptySet
  <2>9. ASSUME began = n PROVE Reached = {} /\ (Reached = given => m > g)
    <3>1. began + 1..Len(journal) = {}
      BY <2>2, <2>3, <2>9
    <3>2. Reached = {}
      BY <3>1 DEF Reached
    <3>3. x = 0
      BY <2>7, <3>2, FS_EmptySet
    <3>4. QED
      BY <2>8, <3>2, <3>3
  <2>10. PICK note : note = "did not finish"
    OBVIOUS
  <2>11. ASSUME began # n PROVE note \in Banner <=> x < m
    <3>1. began < Len(journal)
      BY <2>2, <2>3, <2>11
    <3>2. "did not finish" \in Banner <=> Cardinality(Reached) < Cardinality(roster)
      BY <2>1, <3>1, BannerSays, Zenon
    <3>3. QED
      BY <2>7, <2>10, <3>2, Zenon
  <2>12. note \in Banner /\ Reached = given => m > g
    BY <2>8, <2>9, <2>11
  <2>13. ~(note \in Banner) /\ Reached # given => Reached = {} \/ m < g
    BY <2>8, <2>9, <2>11
  <2>14. QED
    BY <2>7, <2>10, <2>12, <2>13, Zenon
<1>2. QED
  BY <1>1, Invariance, PTL

\* What the ways an evaluation ends say of its entry's place in the figures.
LEMMA EndsTell ==
  ASSUME NEW e \in Entries, NEW w, Ended(e, w)
  PROVE  /\ Plausible(e)
         /\ (IsHeld(e) /\ e.tier2) <=> w \in {"decline", "screened"}
         /\ (IsHeld(e) /\ ~e.tier2 /\ e.basis \notin UnjudgedBases)
               <=> (e.basis = "triage" /\ ~e.significant)
         /\ (~e.error /\ e.significant /\ e.tier2) <=> w \in {"act", "decline", "screened"}
         /\ (~e.error /\ e.significant /\ e.tier2 /\ e.actions = {} /\ e.intents = {})
               <=> w \in {"decline", "screened"}
<1>1. /\ e.error \in BOOLEAN /\ e.tier2 \in BOOLEAN /\ e.significant \in BOOLEAN
      /\ e.basis \in UnjudgedBases \cup {"triage", "rule_fatal"}
  BY DEF Entries, Bases
<1>2. "triage" \notin UnjudgedBases
  BY DEF UnjudgedBases
<1>3. CASE Stopped(e, w)
  <2>1. /\ e.basis # "rule_fatal" /\ e.significant = FALSE /\ e.tier2 = FALSE /\ e.error = FALSE
        /\ e.actions = {} /\ e.intents = {} /\ w = "nothing"
    BY <1>3 DEF Stopped
  <2>2. IsHeld(e)
    BY <2>1 DEF IsHeld, WantedToAct
  <2>3. Plausible(e)
    BY <1>1, <2>1 DEF Plausible
  <2>4. QED
    BY <1>1, <1>2, <2>1, <2>2, <2>3
<1>4. CASE Refused(e, w)
  <2>1. /\ e.significant = TRUE /\ e.tier2 = FALSE /\ e.error = FALSE
        /\ e.actions = {} /\ e.intents = {"deliberate"} /\ w = "nothing"
    BY <1>4 DEF Refused
  <2>2. ~IsHeld(e)
    BY <2>1 DEF IsHeld, WantedToAct
  <2>3. Plausible(e)
    BY <1>1, <2>1 DEF Plausible
  <2>4. QED
    BY <2>1, <2>2, <2>3
<1>5. CASE Broke(e, w)
  <2>1. /\ e.significant = TRUE /\ e.tier2 = FALSE /\ e.error = TRUE
        /\ e.actions = {} /\ e.intents = {} /\ w = "broke"
    BY <1>5 DEF Broke
  <2>2. ~IsHeld(e)
    BY <2>1 DEF IsHeld
  <2>3. Plausible(e)
    BY <1>1, <2>1 DEF Plausible
  <2>4. QED
    BY <2>1, <2>2, <2>3
<1>6. CASE Decided(e, w)
  <2>1. /\ e.basis \notin UnjudgedBases /\ e.significant = TRUE /\ e.tier2 = TRUE /\ e.error = FALSE
        /\ w \in IF e.actions = {} /\ e.intents = {} THEN {"decline", "screened"} ELSE {"act"}
    BY <1>6 DEF Decided
  <2>2. IsHeld(e) <=> (e.actions = {} /\ e.intents = {})
    BY <2>1 DEF IsHeld, WantedToAct
  <2>3. Plausible(e)
    BY <1>1, <2>1 DEF Plausible
  <2>4. CASE e.actions = {} /\ e.intents = {}
    BY <2>1, <2>2, <2>3, <2>4
  <2>5. CASE ~(e.actions = {} /\ e.intents = {})
    BY <2>1, <2>2, <2>3, <2>5
  <2>6. QED
    BY <2>4, <2>5
<1>7. QED
  BY <1>3, <1>4, <1>5, <1>6 DEF Ended

\* How many of the entries in A the pages of the corners list between them.
OnPages(j, A) == Cardinality(UNION {{c} \X (1..Cardinality(Mine(j, A, c))) : c \in Corner})

\* The pages of the corners list every entry once.
LEMMA CountedOnPages ==
  ASSUME NEW j, NEW A, IsFiniteSet(A), \A i \in A : j[i].slug \in Corner
  PROVE  OnPages(j, A) = Cardinality(A)
BY CountedByCorner DEF OnPages

\* What the accounts are, of figures s, and of na and nr entries on the page of
\* each corner.
Account(D, s, na, nr) ==
    /\ s.acted = Cardinality({i \in D : journal[i].actions # {}})
    /\ s.triage = Cardinality({i \in D : journal[i].basis = "triage" /\ ~journal[i].significant})
    /\ s.deliberated = Cardinality({i \in D : chose[i] \in {"decline", "screened"}})
    /\ Cardinality({i \in D : Badge(journal[i]) = "Acted"}) = s.acted
    /\ Cardinality({i \in D : Badge(journal[i]) = "Errored"}) = s.errored
    /\ Cardinality({i \in D : Badge(journal[i]) = "Held"}) = s.held + s.blocked
    /\ Cardinality(UNION {{c} \X (1..na[c]) : c \in Corner}) = s.acted
    /\ Cardinality(UNION {{c} \X (1..nr[c]) : c \in Corner}) = s.total - s.acted

\* The figures that the page computes by subtraction are what a count of the
\* entries gives, a deliberation a gate stopped counted as a decline; the badges
\* and the pages of the corners say the same.
THEOREM TheAccountsAddUp == Spec => []AccountsAddUp
<1>1. Inv => AccountsAddUp
  <2> SUFFICES ASSUME Inv PROVE AccountsAddUp
    OBVIOUS
  <2>1. PICK D, s : D = DOMAIN journal /\ s = Summarise(journal)
    OBVIOUS
  <2>2. journal \in Seq(Entries) /\ Len(chose) = Len(journal)
    BY DEF Inv, JournalInv
  <2>3. Len(journal) \in Nat /\ D = 1..Len(journal)
    BY <2>1, <2>2, LenProperties
  <2>4. IsFiniteSet(D)
    BY <2>3, FS_Interval
  <2>5. \A i \in D : journal[i] \in Entries /\ Ended(journal[i], chose[i])
    BY <2>2, <2>3 DEF Inv, JournalInv
  <2>6. \A i \in D : Plausible(journal[i])
    BY <2>5, EndsTell
  <2>7. /\ s.total = Len(journal)
        /\ s.acted = Cardinality({i \in D : journal[i].actions # {}})
        /\ s.errored = Cardinality({i \in D : journal[i].error})
        /\ s.held + s.blocked = Cardinality({i \in D : ~journal[i].error /\ journal[i].actions = {}})
        /\ s.deliberated = Cardinality({i \in D : IsHeld(journal[i]) /\ journal[i].tier2})
        /\ s.triage = Cardinality({i \in D : /\ IsHeld(journal[i]) /\ ~journal[i].tier2
                                           /\ journal[i].basis \notin UnjudgedBases})
        /\ s.total - s.acted = Cardinality({i \in D : journal[i].actions = {}})
    <3>1. /\ Len(journal) \in Nat /\ DOMAIN journal = 1..Len(journal)
          /\ \A i \in DOMAIN journal : Plausible(journal[i])
      BY <2>1, <2>3, <2>6
    <3>2. PICK j : j = journal
      OBVIOUS
    <3>3. Len(j) \in Nat /\ DOMAIN j = 1..Len(j) /\ (\A i \in DOMAIN j : Plausible(j[i])) /\ s = Summarise(j)
      BY <2>1, <3>1, <3>2
    <3>4. /\ s.total = Len(j)
          /\ s.acted = Cardinality({i \in DOMAIN j : j[i].actions # {}})
          /\ s.errored = Cardinality({i \in DOMAIN j : j[i].error})
          /\ s.held + s.blocked = Cardinality({i \in DOMAIN j : ~j[i].error /\ j[i].actions = {}})
          /\ s.deliberated = Cardinality({i \in DOMAIN j : IsHeld(j[i]) /\ j[i].tier2})
          /\ s.triage = Cardinality({i \in DOMAIN j : /\ IsHeld(j[i]) /\ ~j[i].tier2
                                                     /\ j[i].basis \notin UnjudgedBases})
          /\ s.total - s.acted = Cardinality({i \in DOMAIN j : j[i].actions = {}})
      BY <3>3, FiguresAreCounts, Zenon
    <3>5. QED
      BY <2>1, <3>2, <3>4, Zenon
  <2>8. {i \in D : IsHeld(journal[i]) /\ journal[i].tier2} = {i \in D : chose[i] \in {"decline", "screened"}}
    BY <2>5, EndsTell
  <2>9. {i \in D : /\ IsHeld(journal[i]) /\ ~journal[i].tier2
                   /\ journal[i].basis \notin UnjudgedBases}
          = {i \in D : journal[i].basis = "triage" /\ ~journal[i].significant}
    BY <2>5, EndsTell
  <2>12. {i \in D : Badge(journal[i]) = "Acted"} = {i \in D : journal[i].actions # {}}
    <3>1. \A i \in D : Badge(journal[i]) = "Acted" <=> journal[i].actions # {}
      BY <2>6 DEF Badge, Plausible
    <3>2. QED
      BY <3>1
  <2>13. {i \in D : Badge(journal[i]) = "Errored"} = {i \in D : journal[i].error}
    <3>1. \A i \in D : Badge(journal[i]) = "Errored" <=> journal[i].error
      BY <2>6 DEF Badge, Plausible
    <3>2. QED
      BY <3>1
  <2>14. {i \in D : Badge(journal[i]) = "Held"} = {i \in D : ~journal[i].error /\ journal[i].actions = {}}
    <3>1. \A i \in D : Badge(journal[i]) = "Held" <=> ~journal[i].error /\ journal[i].actions = {}
      BY <2>6 DEF Badge, Plausible
    <3>2. QED
      BY <3>1
  <2>15. PICK Acted, Rest : /\ Acted = {i \in D : journal[i].actions # {}}
                            /\ Rest = {i \in D : journal[i].actions = {}}
    OBVIOUS
  <2>16. IsFiniteSet(Acted) /\ IsFiniteSet(Rest)
    BY <2>4, <2>15, FS_Subset
  <2>17. ASSUME NEW c \in Corner
         PROVE  /\ CornerPage(journal, c).acted = Cardinality(Mine(journal, Acted, c))
                /\ CornerPage(journal, c).held = Cardinality(Mine(journal, Rest, c))
    <3>1. PICK mine, a : /\ mine = {i \in D : journal[i].slug = c}
                         /\ a = {i \in mine : journal[i].actions # {}}
      OBVIOUS
    <3>2. /\ CornerPage(journal, c).acted = Cardinality(a)
          /\ CornerPage(journal, c).held = Cardinality(mine) - Cardinality(a)
      BY <2>1, <3>1, Zenon DEF CornerPage
    <3>3. PICK b : b = Mine(journal, Rest, c)
      OBVIOUS
    <3>4. a = Mine(journal, Acted, c) /\ mine = a \cup b /\ a \cap b = {}
      BY <2>15, <3>1, <3>3 DEF Mine
    <3>5. IsFiniteSet(a) /\ IsFiniteSet(b)
      BY <2>16, <3>3, <3>4, FS_Subset DEF Mine
    <3>6. /\ Cardinality(mine) = Cardinality(a) + Cardinality(b)
          /\ Cardinality(a) \in Nat /\ Cardinality(b) \in Nat
      BY <3>4, <3>5, TwoParts
    <3>7. Cardinality(mine) - Cardinality(a) = Cardinality(b)
      BY <3>6
    <3>8. QED
      BY <3>2, <3>3, <3>4, <3>7
  <2>18. \A i \in D : journal[i].slug \in Corner
    BY <2>5 DEF Entries
  <2>19. /\ Cardinality(UNION {{c} \X (1..Cardinality(Mine(journal, Acted, c))) : c \in Corner}) = Cardinality(Acted)
         /\ Cardinality(UNION {{c} \X (1..Cardinality(Mine(journal, Rest, c))) : c \in Corner}) = Cardinality(Rest)
    <3>1. PICK j : j = journal
      OBVIOUS
    <3>2. (\A i \in Acted : j[i].slug \in Corner) /\ (\A i \in Rest : j[i].slug \in Corner)
      BY <2>15, <2>18, <3>1
    <3>3. OnPages(j, Acted) = Cardinality(Acted) /\ OnPages(j, Rest) = Cardinality(Rest)
      BY <2>16, <3>2, CountedOnPages
    <3>4. QED
      BY <3>1, <3>3, Zenon DEF OnPages
  <2>20. PICK na, nr : /\ na = [c \in Corner |-> CornerPage(journal, c).acted]
                       /\ nr = [c \in Corner |-> CornerPage(journal, c).held]
    OBVIOUS
  <2>21. /\ {{c} \X (1..na[c]) : c \in Corner} = {{c} \X (1..Cardinality(Mine(journal, Acted, c))) : c \in Corner}
         /\ {{c} \X (1..nr[c]) : c \in Corner} = {{c} \X (1..Cardinality(Mine(journal, Rest, c))) : c \in Corner}
    <3>1. \A c \in Corner : /\ na[c] = Cardinality(Mine(journal, Acted, c))
                            /\ nr[c] = Cardinality(Mine(journal, Rest, c))
      BY <2>17, <2>20
    <3>2. QED
      BY <3>1
  <2>22. /\ Cardinality(UNION {{c} \X (1..na[c]) : c \in Corner}) = s.acted
         /\ Cardinality(UNION {{c} \X (1..nr[c]) : c \in Corner}) = s.total - s.acted
    BY <2>7, <2>15, <2>19, <2>21
  <2>23. /\ s.triage = Cardinality({i \in D : journal[i].basis = "triage" /\ ~journal[i].significant})
         /\ s.deliberated = Cardinality({i \in D : chose[i] \in {"decline", "screened"}})
         /\ Cardinality({i \in D : Badge(journal[i]) = "Acted"}) = s.acted
         /\ Cardinality({i \in D : Badge(journal[i]) = "Errored"}) = s.errored
         /\ Cardinality({i \in D : Badge(journal[i]) = "Held"}) = s.held + s.blocked
    BY <2>7, <2>8, <2>9, <2>12, <2>13, <2>14
  <2>24. Account(D, s, na, nr)
    BY <2>7, <2>22, <2>23 DEF Account
  <2>25. Account(DOMAIN journal, Summarise(journal),
                 [c \in Corner |-> CornerPage(journal, c).acted],
                 [c \in Corner |-> CornerPage(journal, c).held])
    BY <2>1, <2>20, <2>24, Zenon
  <2>26. QED
    BY <2>25, Zenon DEF Account, AccountsAddUp
<1>2. QED
  BY <1>1, Invariance, PTL

\* The bar is only raised by a review whose escalations reached a decider, most
\* of which tier two declined of its own or a gate stopped.
THEOREM TheRaiseIsEarned == Spec => RaiseIsEarned
<1>1. Inv /\ Explains(calibration) /\ [Next]_vars =>
        [calibration'.jump # calibration.jump =>
         LET reached == {i \in DOMAIN chose : chose[i] \in {"act", "decline", "screened"}}
             declined == {i \in reached : chose[i] # "act"}
         IN /\ stage = "sweep" /\ todo = {}
            /\ calibration'.jump > calibration.jump
            /\ calibration'.jump <= calibration.jump + Step
            /\ Cardinality(reached) >= MinEvidence
            /\ 2 * Cardinality(declined) > Cardinality(reached)]_vars
  <2> SUFFICES ASSUME Inv, Explains(calibration), [Next]_vars, calibration'.jump # calibration.jump,
                      NEW reached, reached = {i \in DOMAIN chose : chose[i] \in {"act", "decline", "screened"}},
                      NEW declined, declined = {i \in reached : chose[i] # "act"}
               PROVE  /\ stage = "sweep" /\ todo = {}
                      /\ calibration'.jump > calibration.jump
                      /\ calibration'.jump <= calibration.jump + Step
                      /\ Cardinality(reached) >= MinEvidence
                      /\ 2 * Cardinality(declined) > Cardinality(reached)
    BY Zenon
  <2>1. stage = "sweep" /\ todo = {} /\ calibration' = Review(journal, calibration)
    BY OnlyReviews
  <2>2. Review(journal, calibration) # calibration
    BY <2>1
  <2>3. calibration'.jump > calibration.jump /\ calibration'.jump <= calibration.jump + Step
    BY <2>1, <2>2, ReviewExplains
  <2>4. PICK x, y : x = Cardinality(Escalations(journal)) /\ y = Cardinality(Declined(journal))
    OBVIOUS
  <2>5. ~(x < MinEvidence \/ 2 * y <= x)
    BY <2>2, <2>4, Zenon DEF Review
  <2>6. /\ journal \in Seq(Entries) /\ DOMAIN chose = DOMAIN journal /\ DOMAIN journal = 1..Len(journal)
        /\ Len(journal) \in Nat
    BY LenProperties DEF Inv, JournalInv
  <2>7. \A i \in DOMAIN journal : journal[i] \in Entries /\ Ended(journal[i], chose[i])
    BY <2>6 DEF Inv, JournalInv
  <2>8. Escalations(journal) = reached
    BY <2>6, <2>7, EndsTell DEF Escalations
  <2>9. Declined(journal) = declined
    <3>1. \A i \in DOMAIN journal :
            (i \in Escalations(journal) /\ journal[i].actions = {} /\ journal[i].intents = {})
               <=> (chose[i] \in {"decline", "screened"})
      BY <2>7, EndsTell DEF Escalations
    <3>2. Escalations(journal) \subseteq DOMAIN journal
      BY DEF Escalations
    <3>3. QED
      BY <2>8, <3>1, <3>2 DEF Declined
  <2>10. IsFiniteSet(reached) /\ IsFiniteSet(declined)
    <3>1. IsFiniteSet(DOMAIN journal)
      BY <2>6, FS_Interval
    <3>2. IsFiniteSet(reached)
      BY <2>6, <3>1, FS_Subset
    <3>3. QED
      BY <3>2, FS_Subset
  <2>11. x \in Nat /\ y \in Nat /\ MinEvidence \in Nat
    BY <2>4, <2>8, <2>9, <2>10, FS_CardinalityType, CalibrationAssumption DEF CalibrationAssumption
  <2>12. x >= MinEvidence /\ 2 * y > x
    BY <2>5, <2>11
  <2>13. QED
    BY <2>1, <2>3, <2>4, <2>8, <2>9, <2>12
<1>2. QED
  BY <1>1, Invariance, ExplainsHolds, PTL DEF Spec, RaiseIsEarned
=============================================================================

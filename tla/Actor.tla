-------------------------------- MODULE Actor --------------------------------
(***************************************************************************)
(* actor.py, adk_decider.py and the push endpoint of server.py: what       *)
(* becomes of an escalation.  A handler takes a delivered envelope,        *)
(* reserves the tokens of tier two, deliberates, runs the actions the      *)
(* budget allows, journals one entry and acknowledges.                     *)
(*                                                                         *)
(* Deployed behind Pub/Sub, each delivery is a request with budgets of its *)
(* own, requests run concurrently, and what is not acknowledged in time is *)
(* delivered again.  Locally the handler is a function call of the sweep:  *)
(* one process, the budgets of the run, no second delivery.  The decider   *)
(* is RuleDecider, AdkDecider as select_brains makes it, or AdkDecider     *)
(* with the guardrails that move the budget and the journal into its       *)
(* callbacks.                                                              *)
(*                                                                         *)
(* The entry is what the ledger reads of it.  An exception that leaves     *)
(* handle() (an actuator verb, the store) ends the request or the run      *)
(* exactly as a crash does, and is modelled as one.                        *)
(***************************************************************************)
EXTENDS Naturals, Sequences, FiniteSets

CONSTANTS
    Handler,        \* concurrent handlers
    Envelope,       \* escalations the observer publishes
    Kinds,          \* what an envelope may be: "plain", "screened" or "poison"
    Action,         \* the verbs of the actuator
    Decisions,      \* the action lists tier two may decide on
    Wirings,        \* how the handlers may be deployed, and for which envelopes
    ActionLimit,    \* DAILY_ACTION_BUDGET
    TokenLimit,     \* DAILY_TOKEN_BUDGET; 0 is no ceiling
    Tier2Cost,      \* Cost.for_tiers("tier2").projected_total
    MaxSignatures,  \* bound: tools the model calls in one deliberation
    MaxDeliveries,  \* bound: deliveries of one envelope
    MaxCrashes,     \* bound: handlers that die in one behaviour
    Invalid,        \* a signed record that breaks the decision contract
    None            \* no envelope, no record

Wiring == [push : BOOLEAN, decider : {"rule", "adk", "guarded"},
           handlers : SUBSET Handler, envelopes : SUBSET Envelope]

ASSUME ActorAssumption ==
    /\ None \notin Envelope /\ Kinds \subseteq {"plain", "screened", "poison"}
    /\ Decisions \subseteq Seq(Action) /\ {Invalid, None} \cap Decisions = {} /\ Invalid # None
    /\ Wirings \subseteq Wiring
    /\ ActionLimit \in Nat /\ TokenLimit \in Nat /\ Tier2Cost \in Nat \ {0}
    /\ MaxSignatures \in Nat /\ MaxDeliveries \in Nat /\ MaxCrashes \in Nat

VARIABLES
    wiring,         \* how this deployment is wired; it never changes
    kind,           \* kind[e]: can e be decoded, is its text withheld from the model?
    published,      \* envelopes the observer has published
    topic,          \* envelopes delivered until acknowledged
    deliveries,     \* deliveries[e]: how often e was delivered
    pc, msg,        \* what handler h does next, and for which envelope
    session,        \* session[h]: signatures, the signed record, a gate's stop
    outcome,        \* outcome[h]: what the callbacks did: taken, intents, journaled
    decided,        \* decided[h]: the actions decide() returned
    todo,           \* todo[h]: the actions not tried yet
    taken,          \* taken[h]: those that ran
    intents,        \* intents[h]: how many the budget refused
    signed,         \* signed[h]: history, did decide() return what one signature said?
    acts, toks,     \* acts[h], toks[h]: spent of the budgets h holds
    before,         \* before[h]: history, acts[h] when h was handed the envelope
    journal,        \* journal[e]: the entries about e, in order
    ran,            \* ran[e]: history, verbs the actuator ran for e
    crashes

world == <<wiring, kind, published, crashes, before>>
decision == <<decided, todo, taken, intents, signed>>
vars == <<world, topic, deliveries, pc, msg, session, outcome, decision, acts, toks,
          journal, ran>>

Step == {"idle", "tokens", "rule", "gate", "model", "called", "return", "act", "ack"}

\* signed is history: had a tier decided when the entry was written?
Entry == [actions : Seq(Action), intents : Nat, error : BOOLEAN, tier2 : BOOLEAN,
          counted : {"acted", "blocked", "declined", "errored", "none", "callback"},
          signed : BOOLEAN]

NewSession == [signatures |-> 0, record |-> None, stopped |-> FALSE]
NewOutcome == [taken |-> <<>>, intents |-> 0, journaled |-> FALSE]

-----------------------------------------------------------------------------
Init ==
    /\ wiring \in Wirings
    /\ kind \in [wiring.envelopes -> IF wiring.push THEN Kinds ELSE Kinds \ {"poison"}]
    /\ published = {} /\ topic = {}
    /\ deliveries = [e \in Envelope |-> 0]
    /\ pc = [h \in Handler |-> "idle"]
    /\ msg = [h \in Handler |-> None]
    /\ session = [h \in Handler |-> NewSession]
    /\ outcome = [h \in Handler |-> NewOutcome]
    /\ decided = [h \in Handler |-> <<>>]
    /\ todo = [h \in Handler |-> <<>>]
    /\ taken = [h \in Handler |-> <<>>]
    /\ intents = [h \in Handler |-> 0]
    /\ signed = [h \in Handler |-> FALSE]
    /\ acts = [h \in Handler |-> 0]
    /\ toks = [h \in Handler |-> 0]
    /\ before = [h \in Handler |-> 0]
    /\ journal = [e \in Envelope |-> <<>>]
    /\ ran = [e \in Envelope |-> 0]
    /\ crashes = 0

Goto(h, s) == pc' = [pc EXCEPT ![h] = s]

FreshBudgets(h) == acts' = [acts EXCEPT ![h] = 0] /\ toks' = [toks EXCEPT ![h] = 0]

\* Forget what h knew of the envelope it handled.
Clear(h) ==
    /\ Goto(h, "idle")
    /\ msg' = [msg EXCEPT ![h] = None]
    /\ session' = [session EXCEPT ![h] = NewSession]
    /\ outcome' = [outcome EXCEPT ![h] = NewOutcome]
    /\ decided' = [decided EXCEPT ![h] = <<>>]
    /\ todo' = [todo EXCEPT ![h] = <<>>]
    /\ taken' = [taken EXCEPT ![h] = <<>>]
    /\ intents' = [intents EXCEPT ![h] = 0]
    /\ signed' = [signed EXCEPT ![h] = FALSE]
    /\ before' = [before EXCEPT ![h] = 0]

\* The observer publishes an escalation.
Publish(e) ==
    /\ e \in wiring.envelopes \ published
    /\ published' = published \cup {e} /\ topic' = topic \cup {e}
    /\ UNCHANGED <<wiring, kind, crashes, before, deliveries, pc, msg, session, outcome, decision,
                   acts, toks, journal, ran>>

\* May h be handed e now?  Behind Pub/Sub again while an earlier delivery is
\* unanswered, even if it is still being handled; locally once.
CanDeliver(h, e) ==
    /\ h \in wiring.handlers /\ pc[h] = "idle"
    /\ e \in topic /\ deliveries[e] < MaxDeliveries
    /\ wiring.push \/ deliveries[e] = 0

\* Mutant of Deliver: acknowledged on receipt.
DeliverAcked(h, e) ==
    /\ CanDeliver(h, e)
    /\ deliveries' = [deliveries EXCEPT ![e] = @ + 1]
    /\ Goto(h, "tokens")
    /\ msg' = [msg EXCEPT ![h] = e]
    /\ topic' = topic \ {e}
    /\ IF wiring.push THEN FreshBudgets(h) ELSE UNCHANGED <<acts, toks>>
    /\ before' = [before EXCEPT ![h] = acts'[h]]
    /\ UNCHANGED <<wiring, kind, published, crashes, session, outcome, decision, journal, ran>>

\* A push request, or the bus calling the subscriber.
Deliver(h, e) ==
    /\ CanDeliver(h, e)
    /\ deliveries' = [deliveries EXCEPT ![e] = @ + 1]
    /\ Goto(h, "tokens")
    /\ msg' = [msg EXCEPT ![h] = e]
    /\ IF wiring.push THEN FreshBudgets(h) ELSE UNCHANGED <<acts, toks>>
    /\ before' = [before EXCEPT ![h] = acts'[h]]
    /\ UNCHANGED <<wiring, kind, published, crashes, topic, session, outcome, decision, journal, ran>>

\* Locally the budgets are made anew for each run, between two envelopes.
NewRun(h) ==
    /\ ~wiring.push /\ pc[h] = "idle"
    /\ acts[h] > 0 \/ toks[h] > 0
    /\ FreshBudgets(h)
    /\ UNCHANGED <<world, topic, deliveries, pc, msg, session, outcome, decision, journal, ran>>

\* An entry about the envelope at hand.
Journal(h, entry) == journal' = [journal EXCEPT ![msg[h]] = Append(@, entry)]

NoDecision(n, isError, as) ==
    [actions |-> <<>>, intents |-> n, error |-> isError, tier2 |-> FALSE,
     counted |-> as, signed |-> FALSE]

\* Mutant of Undecodable: acknowledged without an entry.
UndecodableDropped(h) ==
    /\ pc[h] = "tokens" /\ kind[msg[h]] = "poison"
    /\ Goto(h, "ack")
    /\ UNCHANGED <<world, topic, deliveries, msg, session, outcome, decision, acts, toks,
                   journal, ran>>

\* A push payload nobody can read is journaled and acknowledged, never retried.
Undecodable(h) ==
    /\ pc[h] = "tokens" /\ kind[msg[h]] = "poison"
    /\ Journal(h, NoDecision(0, TRUE, "none"))
    /\ Goto(h, "ack")
    /\ UNCHANGED <<world, topic, deliveries, msg, session, outcome, decision, acts, toks, ran>>

CanThink(h) == TokenLimit = 0 \/ toks[h] + Tier2Cost <= TokenLimit

\* No tokens left: an intent, not a deliberation and not a decline.
TokensRefused(h) ==
    /\ pc[h] = "tokens" /\ kind[msg[h]] # "poison"
    /\ ~CanThink(h)
    /\ Journal(h, NoDecision(1, FALSE, "none"))
    /\ Goto(h, "ack")
    /\ UNCHANGED <<world, topic, deliveries, msg, session, outcome, decision, acts, toks, ran>>

\* The tokens are reserved, and an AdkDecider is handed the request (begin).
Deliberate(h) ==
    /\ pc[h] = "tokens" /\ kind[msg[h]] # "poison"
    /\ CanThink(h)
    /\ toks' = [toks EXCEPT ![h] = @ + Tier2Cost]
    /\ Goto(h, IF wiring.decider = "rule" THEN "rule" ELSE "gate")
    /\ UNCHANGED <<world, topic, deliveries, msg, session, outcome, decision, acts, journal, ran>>

\* What decide() returned, and what is left to run of it.
Decided(h, actions, left, refused, really) ==
    /\ decided' = [decided EXCEPT ![h] = actions]
    /\ todo' = [todo EXCEPT ![h] = left]
    /\ intents' = [intents EXCEPT ![h] = refused]
    /\ signed' = [signed EXCEPT ![h] = really]
    /\ Goto(h, "act")
    /\ UNCHANGED <<world, topic, deliveries, msg, session, outcome, taken, acts, toks,
                   journal, ran>>

\* RuleDecider decides, maybe to do nothing.
RuleDecides(h) == pc[h] = "rule" /\ \E d \in Decisions : Decided(h, d, d, 0, TRUE)

-----------------------------------------------------------------------------
\* The callbacks of AdkDecider.  ADK calls the model again with what the tools
\* returned, and the gates run before each call.
Guarded == wiring.decider = "guarded"

\* _journal_short_circuit: an intent, and an entry if there is a journal.
ShortCircuit(h) ==
    /\ session' = [session EXCEPT ![h].stopped = TRUE]
    /\ outcome' = [outcome EXCEPT ![h].intents = 1, ![h].journaled = @ \/ Guarded]
    /\ IF Guarded THEN Journal(h, NoDecision(1, FALSE, "callback")) ELSE UNCHANGED journal
    /\ Goto(h, "return")
    /\ UNCHANGED <<world, topic, deliveries, msg, decision, acts, toks, ran>>

\* _gate_budget: nothing left to spend.
BudgetSpent(h) == Guarded /\ acts[h] >= ActionLimit

GateBudget(h) == pc[h] = "gate" /\ BudgetSpent(h) /\ ShortCircuit(h)

\* _gate_injection: the text of the request does not pass the screen.
GateInjection(h) ==
    pc[h] = "gate" /\ ~BudgetSpent(h) /\ kind[msg[h]] = "screened" /\ ShortCircuit(h)

GatesPass(h) ==
    /\ pc[h] = "gate" /\ ~BudgetSpent(h) /\ kind[msg[h]] # "screened"
    /\ Goto(h, "model")
    /\ UNCHANGED <<world, topic, deliveries, msg, session, outcome, decision, acts, toks,
                   journal, ran>>

\* The model answers with prose, and the run ends.
ModelEnds(h) ==
    /\ pc[h] = "model"
    /\ Goto(h, "return")
    /\ UNCHANGED <<world, topic, deliveries, msg, session, outcome, decision, acts, toks,
                   journal, ran>>

\* The tools a response calls have run, and their results go to the model.
ModelCalledAgain(h) ==
    /\ pc[h] = "called"
    /\ Goto(h, "gate")
    /\ UNCHANGED <<world, topic, deliveries, msg, session, outcome, decision, acts, toks,
                   journal, ran>>

\* _sign: one tool of a response, which may call several.
Signing(h, r) ==
    /\ pc[h] \in {"model", "called"} /\ session[h].signatures < MaxSignatures
    /\ session' = [session EXCEPT ![h].signatures = @ + 1, ![h].record = r]
    /\ Goto(h, "called")

\* _spend: the part of d that the budget of h still allows; all of it without one.
Allowed(h, d) ==
    IF Guarded /\ acts[h] + Len(d) > ActionLimit THEN SubSeq(d, 1, ActionLimit - acts[h]) ELSE d

\* The model signs a tool call, and the callback after the tool spends the
\* budget and, with guardrails, writes the entry.  Nothing is decided yet: a
\* second call, or a gate, makes the run an error or a stop.
ModelSigns(h) ==
    \E d \in Decisions :
        /\ Signing(h, d)
        /\ outcome' = [outcome EXCEPT ![h].taken = Allowed(h, d),
                                      ![h].intents = Len(d) - Len(Allowed(h, d)),
                                      ![h].journaled = @ \/ Guarded]
        /\ IF Guarded
             THEN /\ acts' = [acts EXCEPT ![h] = @ + Len(Allowed(h, d))]
                  /\ Journal(h, [actions |-> Allowed(h, d), error |-> FALSE, tier2 |-> TRUE,
                                 intents |-> Len(d) - Len(Allowed(h, d)),
                                 counted |-> "callback", signed |-> FALSE])
             ELSE UNCHANGED <<acts, journal>>
        /\ UNCHANGED <<world, topic, deliveries, msg, decision, toks, ran>>

\* It signs what the contract rejects, and the callback leaves it alone.
ModelSignsInvalid(h) ==
    /\ Signing(h, Invalid)
    /\ UNCHANGED <<world, topic, deliveries, msg, outcome, decision, acts, toks, journal, ran>>

\* A gate stopped the run: decide() returns no actions, whatever was signed.
\* The actor takes what the callbacks took if they journaled, else nothing.
GateStopped(h) ==
    /\ pc[h] = "return" /\ session[h].stopped
    /\ Decided(h, <<>>, IF outcome[h].journaled THEN outcome[h].taken ELSE <<>>,
               IF outcome[h].journaled THEN outcome[h].intents ELSE 0, FALSE)

\* Mutant of OneSignature: the last one signed counts.
AnySignature(h) == session[h].signatures >= 1 /\ session[h].record # Invalid

OneSignature(h) == session[h].signatures = 1 /\ session[h].record # Invalid

\* DeliberationError: no tool call, several, or a broken contract.
DeliberationFails(h) ==
    /\ pc[h] = "return" /\ ~session[h].stopped /\ ~OneSignature(h)
    /\ Journal(h, NoDecision(0, TRUE, "errored"))
    /\ Goto(h, "ack")
    /\ UNCHANGED <<world, topic, deliveries, msg, session, outcome, decision, acts, toks, ran>>

\* Exactly one signature: decide() returns it.
DeliberationReturns(h) ==
    /\ pc[h] = "return" /\ ~session[h].stopped /\ OneSignature(h)
    /\ Decided(h, session[h].record,
               IF outcome[h].journaled THEN outcome[h].taken ELSE session[h].record,
               IF outcome[h].journaled THEN outcome[h].intents ELSE 0,
               session[h].signatures = 1)

-----------------------------------------------------------------------------
\* May the next action run?  What the callbacks took is paid for.
CanAct(h) == outcome[h].journaled \/ acts[h] < ActionLimit

\* Mutant of RunVerb: charged again after the callbacks charged it.
RunVerbCharged(h) ==
    /\ pc[h] = "act" /\ todo[h] # <<>> /\ CanAct(h)
    /\ acts' = [acts EXCEPT ![h] = @ + 1]
    /\ taken' = [taken EXCEPT ![h] = Append(@, Head(todo[h]))]
    /\ todo' = [todo EXCEPT ![h] = Tail(@)]
    /\ ran' = [ran EXCEPT ![msg[h]] = @ + 1]
    /\ UNCHANGED <<world, topic, deliveries, pc, msg, session, outcome, decided, intents,
                   signed, toks, journal>>

\* The next action: the budget takes it and the actuator runs it ...
RunVerb(h) ==
    /\ pc[h] = "act" /\ todo[h] # <<>> /\ CanAct(h)
    /\ acts' = IF outcome[h].journaled THEN acts ELSE [acts EXCEPT ![h] = @ + 1]
    /\ taken' = [taken EXCEPT ![h] = Append(@, Head(todo[h]))]
    /\ todo' = [todo EXCEPT ![h] = Tail(@)]
    /\ ran' = [ran EXCEPT ![msg[h]] = @ + 1]
    /\ UNCHANGED <<world, topic, deliveries, pc, msg, session, outcome, decided, intents,
                   signed, toks, journal>>

\* ... or the budget refuses it and an intent is kept.
RefuseVerb(h) ==
    /\ pc[h] = "act" /\ todo[h] # <<>> /\ ~CanAct(h)
    /\ intents' = [intents EXCEPT ![h] = @ + 1]
    /\ todo' = [todo EXCEPT ![h] = Tail(@)]
    /\ UNCHANGED <<world, topic, deliveries, pc, msg, session, outcome, decided, taken,
                   signed, acts, toks, journal, ran>>

\* Mutants of Tally: a refused action is a decline; a kind the ledger lacks.
TallyBySilence(h) == IF taken[h] # <<>> THEN "acted" ELSE "declined"

TallyIntents(h) ==
    IF taken[h] # <<>> THEN "acted" ELSE IF intents[h] > 0 THEN "refused" ELSE "declined"

\* How the actor's own tally takes it.
Tally(h) ==
    IF taken[h] # <<>> THEN "acted"
    ELSE IF intents[h] > 0 \/ decided[h] # <<>> THEN "blocked"
    ELSE "declined"

\* Mutant of JournalDecision: the entry lists what was decided, not what ran.
JournalIntended(h) ==
    /\ pc[h] = "act" /\ todo[h] = <<>> /\ ~outcome[h].journaled
    /\ Journal(h, [actions |-> decided[h], intents |-> intents[h], error |-> FALSE,
                   tier2 |-> TRUE, counted |-> Tally(h), signed |-> signed[h]])
    /\ Goto(h, "ack")
    /\ UNCHANGED <<world, topic, deliveries, msg, session, outcome, decision, acts, toks, ran>>

\* Every action has been tried: the one entry of this handling ...
JournalDecision(h) ==
    /\ pc[h] = "act" /\ todo[h] = <<>> /\ ~outcome[h].journaled
    /\ Journal(h, [actions |-> taken[h], intents |-> intents[h], error |-> FALSE,
                   tier2 |-> TRUE, counted |-> Tally(h), signed |-> signed[h]])
    /\ Goto(h, "ack")
    /\ UNCHANGED <<world, topic, deliveries, msg, session, outcome, decision, acts, toks, ran>>

\* ... unless the callbacks have written it.
AlreadyJournaled(h) ==
    /\ pc[h] = "act" /\ todo[h] = <<>> /\ outcome[h].journaled
    /\ Goto(h, "ack")
    /\ UNCHANGED <<world, topic, deliveries, msg, session, outcome, decision, acts, toks,
                   journal, ran>>

\* 204, in time or after the ack deadline; locally the call returns.
Ack(h) ==
    /\ pc[h] = "ack"
    /\ topic' = topic \ {msg[h]} \/ (wiring.push /\ topic' = topic)
    /\ Clear(h)
    /\ UNCHANGED <<wiring, kind, published, crashes, deliveries, acts, toks, journal, ran>>

\* The handler dies, with its budgets and what it had not journaled.
Crash(h) ==
    /\ pc[h] # "idle" /\ crashes < MaxCrashes
    /\ crashes' = crashes + 1
    /\ Clear(h)
    /\ FreshBudgets(h)
    /\ UNCHANGED <<wiring, kind, published, topic, deliveries, journal, ran>>

DeciderStep(h) ==
    \/ RuleDecides(h)
    \/ GateBudget(h) \/ GateInjection(h) \/ GatesPass(h)
    \/ ModelEnds(h) \/ ModelSigns(h) \/ ModelSignsInvalid(h) \/ ModelCalledAgain(h)
    \/ GateStopped(h) \/ DeliberationFails(h) \/ DeliberationReturns(h)

HandleStep(h) ==
    \/ Undecodable(h) \/ TokensRefused(h) \/ Deliberate(h) \/ DeciderStep(h)
    \/ RunVerb(h) \/ RefuseVerb(h) \/ JournalDecision(h) \/ AlreadyJournaled(h) \/ Ack(h)

Next ==
    \/ \E e \in Envelope : Publish(e)
    \/ \E h \in Handler :
         \/ \E e \in Envelope : Deliver(h, e)
         \/ NewRun(h) \/ HandleStep(h) \/ Crash(h)

Spec == Init /\ [][Next]_vars

\* Pub/Sub delivers what is not acknowledged, and a handler that does not die
\* goes on: every call it makes returns or raises.
Fairness ==
    /\ \A e \in Envelope : WF_vars(\E h \in Handler : Deliver(h, e))
    /\ \A h \in Handler : WF_vars(HandleStep(h))

FairSpec == Spec /\ Fairness

-----------------------------------------------------------------------------
\* Type invariant of the subscription, the handlers and the journal.
TypeOK ==
    /\ wiring \in Wirings /\ kind \in [wiring.envelopes -> Kinds]
    /\ published \in SUBSET Envelope /\ topic \in SUBSET Envelope
    /\ deliveries \in [Envelope -> 0..MaxDeliveries]
    /\ pc \in [Handler -> Step]
    /\ msg \in [Handler -> Envelope \cup {None}]
    /\ session \in [Handler -> [signatures : 0..MaxSignatures, stopped : BOOLEAN,
                                record : Decisions \cup {Invalid, None}]]
    /\ outcome \in [Handler -> [taken : Seq(Action), intents : Nat, journaled : BOOLEAN]]
    /\ decided \in [Handler -> Seq(Action)] /\ todo \in [Handler -> Seq(Action)]
    /\ taken \in [Handler -> Seq(Action)]
    /\ intents \in [Handler -> Nat]
    /\ signed \in [Handler -> BOOLEAN]
    /\ acts \in [Handler -> Nat] /\ toks \in [Handler -> Nat]
    /\ before \in [Handler -> Nat]
    /\ journal \in [Envelope -> Seq(Entry)]
    /\ ran \in [Envelope -> Nat]
    /\ crashes \in 0..MaxCrashes

\* An acknowledged envelope is on record: neither a crash, nor a poison payload,
\* nor a decider that journals by itself loses an escalation that Pub/Sub will
\* not deliver again.
NothingLostOnAck == \A e \in published \ topic : journal[e] # <<>>

\* The verbs in the entries about e, and those that ran for e and are still in
\* the hands of the handlers that have to journal them: one pair for each verb.
JournaledVerbs(e) ==
    UNION {{i} \X (1..Len(journal[e][i].actions)) : i \in DOMAIN journal[e]}
VerbsInHand(e) ==
    UNION {{h} \X (1..Len(taken[h])) : h \in {h \in Handler : msg[h] = e /\ pc[h] = "act"}}

Journaled(e) == Cardinality(JournaledVerbs(e))
InHand(e) == Cardinality(VerbsInHand(e))

\* The record of what was done is exact when the actor writes it: an entry never
\* claims a verb that did not run for that envelope, and a verb is off the record
\* only while its handler is at work, or when a handler died before it journaled.
RecordIsExact ==
    ~Guarded => \A e \in Envelope :
        /\ Journaled(e) + InHand(e) <= ran[e]
        /\ crashes = 0 => Journaled(e) + InHand(e) = ran[e]

\* Every verb is paid for once, by whoever spends first.  What the callbacks
\* took the actor runs without charging it again: with one signature the charge
\* of this handling is what was taken, and with more it is no less, the verbs of
\* a signature that was overturned being charged and never run.  What the
\* callbacks did not take is charged exactly as it runs.
PaidFor ==
    \A h \in Handler :
        /\ acts[h] <= ActionLimit
        /\ pc[h] # "idle" =>
             IF outcome[h].journaled
               THEN /\ acts[h] >= before[h] + Len(outcome[h].taken)
                    /\ session[h].signatures <= 1 => acts[h] = before[h] + Len(outcome[h].taken)
                    /\ pc[h] = "act" => Len(taken[h]) + Len(todo[h]) = Len(outcome[h].taken)
               ELSE acts[h] = before[h] + Len(taken[h])

\* What ledger.summarise makes of an entry.
Held(entry) == entry.actions = <<>> /\ entry.intents = 0 /\ ~entry.error

\* The actor and the ledger agree on restraint: the ledger counts an entry of
\* the actor as held exactly when the actor tallied it as declined.
LedgerAgrees ==
    \A e \in Envelope : \A i \in 1..Len(journal[e]) :
        journal[e][i].counted # "callback" =>
            (Held(journal[e][i]) <=> journal[e][i].counted = "declined")

\* Restraint is a decision, and exactly one: what the ledger counts as held
\* comes of a deliberation that signed once, however often the model was called,
\* whatever ran out or failed.  The two ways round it are named.  A request that
\* AdkDecider screens without guardrails is held though nobody decided.  With
\* guardrails the callback writes at the signature (adk_decider.py:412-414), so
\* no more is known than that a tool was signed: a second one makes the run
\* "neither a decline" (584, 592-600), and the entry of the first stays.  The
\* actor adds no entry of its own to it.
RestraintIsDecided ==
    \A e \in Envelope : \A i \in 1..Len(journal[e]) :
        Held(journal[e][i]) =>
            IF Guarded THEN journal[e][i].tier2 /\ journal[e][i].counted = "callback"
            ELSE journal[e][i].signed \/ (wiring.decider = "adk" /\ kind[e] = "screened")

\* Every escalation published is journaled in the end, late acknowledgements
\* notwithstanding, and behind Pub/Sub also when a handler dies; locally nothing
\* delivers it again.
EventuallyJournaled ==
    \A e \in Envelope :
        e \in published ~> journal[e] # <<>> \/ (~wiring.push /\ crashes > 0)

\* What guardrails.py says of a screened deliberation, as production is wired:
\* it is an intent, never restraint.
ScreenedIsNoRestraint ==
    \A e \in Envelope : \A i \in 1..Len(journal[e]) :
        Held(journal[e][i]) => journal[e][i].signed

\* What adk_decider.py says of the entry the callback writes: it records what
\* was actually carried out.
EntryIsCarriedOut ==
    \A e \in Envelope :
        (\A h \in Handler : msg[h] # e) => Journaled(e) <= ran[e]
=============================================================================

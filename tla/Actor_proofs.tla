----------------------------- MODULE Actor_proofs -----------------------------
(***************************************************************************)
(* What becomes of an escalation, for any number of handlers, envelopes,   *)
(* deliveries, crashes and signatures, any lists of actions, any budgets   *)
(* and any of the wirings.                                                 *)
(***************************************************************************)
EXTENDS Actor, SequenceTheorems, FiniteSetTheorems, TLAPS

\* A handler at work has an envelope; nothing has run before tier two decided,
\* and nothing is known of a request that was not deliberated.
WorkInv ==
    \A h \in Handler :
        /\ pc[h] # "idle" => msg[h] \in Envelope
        /\ pc[h] \notin {"act", "ack"} => taken[h] = <<>>
        /\ pc[h] \in {"idle", "tokens"} => session[h] = NewSession /\ outcome[h] = NewOutcome
        /\ pc[h] = "rule" => wiring.decider = "rule"
        /\ pc[h] \in {"gate", "model", "called", "return"} => wiring.decider # "rule"
        /\ session[h].signatures > 0 => session[h].record # None

\* The charge of a handling is what ran of it, or, where the callbacks spend,
\* what they took, which the actor runs and nobody charges again.
Charged(h) ==
    IF outcome[h].journaled
      THEN /\ acts[h] >= before[h] + Len(outcome[h].taken)
           /\ session[h].signatures <= 1 => acts[h] = before[h] + Len(outcome[h].taken)
           /\ pc[h] = "act" => Len(taken[h]) + Len(todo[h]) = Len(outcome[h].taken)
      ELSE acts[h] = before[h] + Len(taken[h])

\* Callbacks that have not spent have taken nothing.
WithinBudget(h) ==
    /\ acts[h] <= ActionLimit
    /\ session[h].signatures = 0 => outcome[h].taken = <<>>
    /\ Guarded /\ outcome[h].journaled = FALSE => outcome[h].taken = <<>>
    /\ pc[h] # "idle" => Charged(h)

BudgetInv == \A h \in Handler : WithinBudget(h)

\* The callbacks journal only with guardrails, and a handler about to
\* acknowledge, or whose callbacks have journaled, has an entry to show.
OnRecord(h) ==
    /\ outcome[h].journaled => Guarded
    /\ pc[h] = "ack" \/ outcome[h].journaled => journal[msg[h]] # <<>>

AckInv == NothingLostOnAck /\ \A h \in Handler : OnRecord(h)

\* What a handler has decided and not run was refused or is still to do.  With
\* guardrails the callbacks keep record of every decision and every stop; without
\* them only the screen stops a run, and what decide() returns otherwise is signed.
Accounted(h) ==
    /\ Guarded /\ session[h].stopped => outcome[h].journaled
    /\ Guarded /\ session[h].record \notin {Invalid, None} => outcome[h].journaled
    /\ Guarded /\ pc[h] = "act" => outcome[h].journaled
    /\ ~Guarded /\ session[h].stopped => wiring.decider = "adk" /\ kind[msg[h]] = "screened"
    /\ pc[h] = "act" /\ ~outcome[h].journaled =>
         /\ taken[h] = <<>> /\ intents[h] = 0 /\ todo[h] = <<>> => decided[h] = <<>>
         /\ signed[h] \/ (wiring.decider = "adk" /\ kind[msg[h]] = "screened")

DecisionInv == \A h \in Handler : Accounted(h)

\* The verbs are finitely many, so that they can be counted.
CountInv ==
    \A e \in Envelope : IsFiniteSet(JournaledVerbs(e)) /\ IsFiniteSet(VerbsInHand(e))

Inv == TypeOK /\ WorkInv /\ BudgetInv /\ AckInv /\ DecisionInv
          /\ LedgerAgrees /\ RestraintIsDecided

USE DEF Goto

-----------------------------------------------------------------------------
\* The bounds and the budgets are numbers.
LEMMA Bounds ==
    /\ ActionLimit \in Nat /\ Tier2Cost \in Nat
    /\ MaxDeliveries \in Nat /\ MaxCrashes \in Nat /\ MaxSignatures \in Nat
  BY ActorAssumption DEF ActorAssumption

\* The entry of what was not decided is an entry.
LEMMA NoDecisionTyped ==
  ASSUME NEW n \in Nat, NEW b \in BOOLEAN, NEW as \in {"none", "errored", "callback"}
  PROVE  NoDecision(n, b, as) \in Entry
<1>1. <<>> \in Seq(Action)
  OBVIOUS
<1>2. QED
  BY <1>1 DEF NoDecision, Entry

\* What the callbacks spend: a part of the list, and of what the budget allows.
LEMMA AllowedTyped ==
  ASSUME TypeOK, BudgetInv, NEW h \in Handler, NEW d \in Decisions
  PROVE  /\ d \in Seq(Action) /\ d # None /\ d # Invalid
         /\ Allowed(h, d) \in Seq(Action)
         /\ Len(d) - Len(Allowed(h, d)) \in Nat
         /\ Guarded => acts[h] + Len(Allowed(h, d)) <= ActionLimit
<1>1. d \in Seq(Action) /\ d # None /\ d # Invalid /\ ActionLimit \in Nat
  BY ActorAssumption DEF ActorAssumption
<1>2. Len(d) \in Nat /\ acts[h] \in Nat /\ acts[h] <= ActionLimit
  BY <1>1, LenProperties DEF TypeOK, BudgetInv, WithinBudget
<1>3. CASE Guarded /\ acts[h] + Len(d) > ActionLimit
  <2>1. Allowed(h, d) = SubSeq(d, 1, ActionLimit - acts[h])
    BY <1>3 DEF Allowed
  <2>2. ActionLimit - acts[h] \in 0..Len(d)
    BY <1>1, <1>2, <1>3
  <2>3. /\ SubSeq(d, 1, ActionLimit - acts[h]) \in Seq(Action)
        /\ Len(SubSeq(d, 1, ActionLimit - acts[h])) = ActionLimit - acts[h]
    BY <1>1, <2>2, SubSeqProperties
  <2>4. QED
    BY <1>1, <1>2, <2>1, <2>2, <2>3
<1>4. CASE ~(Guarded /\ acts[h] + Len(d) > ActionLimit)
  <2>1. Allowed(h, d) = d
    BY <1>4 DEF Allowed
  <2>2. QED
    BY <1>1, <1>2, <1>4, <2>1
<1>5. QED
  BY <1>3, <1>4

\* An entry about the envelope at hand is appended, and nothing else changes.
LEMMA JournalAppends ==
  ASSUME TypeOK, NEW h \in Handler, msg[h] \in Envelope, NEW entry \in Entry, Journal(h, entry)
  PROVE  /\ journal' \in [Envelope -> Seq(Entry)]
         /\ journal'[msg[h]] = Append(journal[msg[h]], entry)
         /\ \A e \in Envelope \ {msg[h]} : journal'[e] = journal[e]
         /\ \A e \in Envelope : journal'[e] = <<>> => journal[e] = <<>>
         /\ journal'[msg[h]] # <<>>
<1>1. journal \in [Envelope -> Seq(Entry)] /\ journal[msg[h]] \in Seq(Entry)
  BY DEF TypeOK
<1>2. Append(journal[msg[h]], entry) \in Seq(Entry) /\ Append(journal[msg[h]], entry) # <<>>
  BY <1>1, AppendProperties
<1>3. QED
  BY <1>1, <1>2 DEF Journal

-----------------------------------------------------------------------------
\* What a handler knows when it is idle is well typed.
LEMMA ClearTyped ==
  ASSUME TypeOK, NEW h \in Handler, Clear(h)
  PROVE  /\ pc' \in [Handler -> Step] /\ msg' \in [Handler -> Envelope \cup {None}]
         /\ session' \in [Handler -> [signatures : 0..MaxSignatures, stopped : BOOLEAN,
                                      record : Decisions \cup {Invalid, None}]]
         /\ outcome' \in [Handler -> [taken : Seq(Action), intents : Nat, journaled : BOOLEAN]]
         /\ decided' \in [Handler -> Seq(Action)] /\ todo' \in [Handler -> Seq(Action)]
         /\ taken' \in [Handler -> Seq(Action)]
         /\ intents' \in [Handler -> Nat] /\ signed' \in [Handler -> BOOLEAN]
         /\ before' \in [Handler -> Nat]
<1>1. pc' \in [Handler -> Step] /\ msg' \in [Handler -> Envelope \cup {None}]
  BY DEF Clear, TypeOK, Step
<1>2. NewSession \in [signatures : 0..MaxSignatures, stopped : BOOLEAN,
                      record : Decisions \cup {Invalid, None}]
  BY Bounds DEF NewSession
<1>3. NewOutcome \in [taken : Seq(Action), intents : Nat, journaled : BOOLEAN]
  BY DEF NewOutcome
<1>4. session' \in [Handler -> [signatures : 0..MaxSignatures, stopped : BOOLEAN,
                                record : Decisions \cup {Invalid, None}]]
  BY <1>2 DEF Clear, TypeOK
<1>5. outcome' \in [Handler -> [taken : Seq(Action), intents : Nat, journaled : BOOLEAN]]
  BY <1>3 DEF Clear, TypeOK
<1>6. /\ decided' \in [Handler -> Seq(Action)] /\ todo' \in [Handler -> Seq(Action)]
      /\ taken' \in [Handler -> Seq(Action)]
      /\ intents' \in [Handler -> Nat] /\ signed' \in [Handler -> BOOLEAN]
      /\ before' \in [Handler -> Nat]
  BY DEF Clear, TypeOK
<1>7. QED
  BY <1>1, <1>4, <1>5, <1>6

\* What decide() may return is well typed.
LEMMA DecidedTyped ==
  ASSUME TypeOK, NEW h \in Handler, NEW a \in Seq(Action), NEW left \in Seq(Action),
         NEW n \in Nat, NEW really \in BOOLEAN, Decided(h, a, left, n, really)
  PROVE  TypeOK'
<1>1. decided' \in [Handler -> Seq(Action)] /\ todo' \in [Handler -> Seq(Action)]
  BY DEF TypeOK, Decided
<1>2. intents' \in [Handler -> Nat] /\ signed' \in [Handler -> BOOLEAN]
  BY DEF TypeOK, Decided
<1>3. pc' \in [Handler -> Step]
  BY DEF TypeOK, Decided, Step
<1>4. QED
  BY <1>1, <1>2, <1>3 DEF TypeOK, Decided, world

\* A step that only moves a handler on.
LEMMA MoveTyped ==
  ASSUME TypeOK, NEW h \in Handler, NEW s \in Step, Goto(h, s),
         UNCHANGED <<world, topic, deliveries, msg, session, outcome, decision, acts, toks,
                     journal, ran>>
  PROVE  TypeOK'
<1>1. pc' \in [Handler -> Step]
  BY DEF TypeOK
<1>2. QED
  BY <1>1 DEF TypeOK, world, decision

\* A step that journals one entry and moves the handler on.
LEMMA EntryTyped ==
  ASSUME TypeOK, NEW h \in Handler, msg[h] \in Envelope, NEW entry \in Entry, Journal(h, entry),
         NEW s \in Step, Goto(h, s),
         UNCHANGED <<world, topic, deliveries, msg, session, outcome, decision, acts, toks, ran>>
  PROVE  TypeOK'
<1>1. pc' \in [Handler -> Step]
  BY DEF TypeOK
<1>2. journal' \in [Envelope -> Seq(Entry)]
  BY JournalAppends
<1>3. QED
  BY <1>1, <1>2 DEF TypeOK, world, decision

-----------------------------------------------------------------------------
\* The types survive a step of the world ...
LEMMA WorldTyped ==
  ASSUME TypeOK,
         \/ \E e \in Envelope : Publish(e)
         \/ \E h \in Handler : \E e \in Envelope : Deliver(h, e)
         \/ \E h \in Handler : NewRun(h) \/ Ack(h) \/ Crash(h)
         \/ UNCHANGED vars
  PROVE  TypeOK'
<1>1. ASSUME NEW e \in Envelope, Publish(e) PROVE TypeOK'
  BY <1>1 DEF Publish, TypeOK, decision
<1>2. ASSUME NEW h \in Handler, NEW e \in Envelope, Deliver(h, e) PROVE TypeOK'
  <2>1. deliveries' \in [Envelope -> 0..MaxDeliveries]
    <3>1. deliveries \in [Envelope -> 0..MaxDeliveries]
      BY DEF TypeOK
    <3>2. deliveries[e] < MaxDeliveries /\ deliveries' = [deliveries EXCEPT ![e] = @ + 1]
      BY <1>2 DEF Deliver, CanDeliver
    <3>3. deliveries[e] + 1 \in 0..MaxDeliveries
      BY <3>1, <3>2, Bounds
    <3>4. QED
      BY <3>1, <3>2, <3>3
  <2>2. pc' \in [Handler -> Step]
    BY <1>2 DEF TypeOK, Deliver, Step
  <2>3. msg' \in [Handler -> Envelope \cup {None}]
    BY <1>2 DEF TypeOK, Deliver
  <2>4. acts' \in [Handler -> Nat] /\ toks' \in [Handler -> Nat]
    <3>1. \/ acts' = acts /\ toks' = toks
          \/ acts' = [acts EXCEPT ![h] = 0] /\ toks' = [toks EXCEPT ![h] = 0]
      BY <1>2 DEF Deliver, FreshBudgets
    <3>2. acts \in [Handler -> Nat] /\ toks \in [Handler -> Nat]
      BY DEF TypeOK
    <3>3. QED
      BY <3>1, <3>2
  <2>5. before' \in [Handler -> Nat]
    <3>1. before' = [before EXCEPT ![h] = acts'[h]] /\ before \in [Handler -> Nat]
      BY <1>2 DEF TypeOK, Deliver
    <3>2. acts'[h] \in Nat
      BY <2>4
    <3>3. QED
      BY <3>1, <3>2
  <2>6. QED
    BY <1>2, <2>1, <2>2, <2>3, <2>4, <2>5 DEF TypeOK, Deliver, decision
<1>3. ASSUME NEW h \in Handler, NewRun(h) PROVE TypeOK'
  BY <1>3 DEF TypeOK, NewRun, FreshBudgets, world, decision
<1>4. ASSUME NEW h \in Handler, Ack(h) PROVE TypeOK'
  <2>1. topic' \in SUBSET Envelope
    BY <1>4 DEF TypeOK, Ack
  <2>2. Clear(h)
    BY <1>4 DEF Ack
  <2>3. QED
    BY <1>4, <2>1, <2>2, ClearTyped DEF TypeOK, Ack, world
<1>5. ASSUME NEW h \in Handler, Crash(h) PROVE TypeOK'
  <2>1. crashes' \in 0..MaxCrashes
    <3>1. crashes' = crashes + 1 /\ crashes < MaxCrashes
      BY <1>5 DEF Crash
    <3>2. crashes \in 0..MaxCrashes
      BY DEF TypeOK
    <3>3. QED
      BY <3>1, <3>2, Bounds
  <2>2. acts' \in [Handler -> Nat] /\ toks' \in [Handler -> Nat]
    BY <1>5 DEF TypeOK, Crash, FreshBudgets
  <2>3. Clear(h)
    BY <1>5 DEF Crash
  <2>4. QED
    BY <1>5, <2>1, <2>2, <2>3, ClearTyped DEF TypeOK, Crash
<1>6. CASE UNCHANGED vars
  BY <1>6 DEF vars, world, decision, TypeOK
<1>7. QED
  BY <1>1, <1>2, <1>3, <1>4, <1>5, <1>6

\* ... and of a handler ...
LEMMA HandlerTyped ==
  ASSUME TypeOK, WorkInv, NEW h \in Handler,
         \/ Undecodable(h) \/ TokensRefused(h) \/ Deliberate(h)
         \/ RunVerb(h) \/ RefuseVerb(h) \/ JournalDecision(h) \/ AlreadyJournaled(h)
  PROVE  TypeOK'
<1>1. pc[h] # "idle" => msg[h] \in Envelope
  BY DEF WorkInv
<1>2. CASE Undecodable(h)
  <2>1. NoDecision(0, TRUE, "none") \in Entry
    BY NoDecisionTyped
  <2>2. QED
    BY <1>1, <1>2, <2>1, EntryTyped DEF Undecodable, Step
<1>3. CASE TokensRefused(h)
  <2>1. NoDecision(1, FALSE, "none") \in Entry
    BY NoDecisionTyped
  <2>2. QED
    BY <1>1, <1>3, <2>1, EntryTyped DEF TokensRefused, Step
<1>4. CASE Deliberate(h)
  <2>1. pc' \in [Handler -> Step]
    BY <1>4 DEF Deliberate, TypeOK, Step
  <2>2. toks' \in [Handler -> Nat]
    BY <1>4, Bounds DEF Deliberate, TypeOK
  <2>3. QED
    BY <1>4, <2>1, <2>2 DEF Deliberate, TypeOK, world, decision
<1>5. CASE RunVerb(h)
  <2>1. Head(todo[h]) \in Action /\ Tail(todo[h]) \in Seq(Action)
    BY <1>5, HeadTailProperties DEF RunVerb, TypeOK
  <2>2. Append(taken[h], Head(todo[h])) \in Seq(Action)
    BY <2>1, AppendProperties DEF TypeOK
  <2>3. todo' \in [Handler -> Seq(Action)] /\ taken' \in [Handler -> Seq(Action)]
    BY <1>5, <2>1, <2>2 DEF RunVerb, TypeOK
  <2>4. acts' \in [Handler -> Nat]
    BY <1>5 DEF RunVerb, TypeOK
  <2>5. ran' \in [Envelope -> Nat]
    <3>1. ran' = [ran EXCEPT ![msg[h]] = @ + 1] /\ msg[h] \in Envelope
      BY <1>1, <1>5 DEF RunVerb
    <3>2. ran \in [Envelope -> Nat]
      BY DEF TypeOK
    <3>3. PICK e : e = msg[h]
      OBVIOUS
    <3>4. e \in Envelope /\ ran' = [ran EXCEPT ![e] = ran[e] + 1]
      BY <3>1, <3>3
    <3>5. QED
      BY <3>2, <3>4
  <2>6. QED
    BY <1>5, <2>3, <2>4, <2>5 DEF TypeOK, RunVerb, world
<1>6. CASE RefuseVerb(h)
  <2>1. Tail(todo[h]) \in Seq(Action)
    BY <1>6, HeadTailProperties DEF RefuseVerb, TypeOK
  <2>2. todo' \in [Handler -> Seq(Action)]
    BY <1>6, <2>1 DEF RefuseVerb, TypeOK
  <2>3. intents' \in [Handler -> Nat]
    BY <1>6 DEF RefuseVerb, TypeOK
  <2>4. QED
    BY <1>6, <2>2, <2>3 DEF TypeOK, RefuseVerb, world
<1>7. CASE JournalDecision(h)
  <2>1. [actions |-> taken[h], intents |-> intents[h], error |-> FALSE,
         tier2 |-> TRUE, counted |-> Tally(h), signed |-> signed[h]] \in Entry
    BY DEF TypeOK, Entry, Tally
  <2>2. QED
    BY <1>1, <1>7, <2>1, EntryTyped DEF JournalDecision, Step
<1>8. CASE AlreadyJournaled(h)
  BY <1>8, MoveTyped DEF AlreadyJournaled, Step
<1>9. QED
  BY <1>2, <1>3, <1>4, <1>5, <1>6, <1>7, <1>8

\* ... and of its decider.
LEMMA DeciderTyped ==
  ASSUME TypeOK, WorkInv, BudgetInv, NEW h \in Handler, DeciderStep(h)
  PROVE  TypeOK'
<1>1. pc[h] # "idle" => msg[h] \in Envelope
  BY DEF WorkInv
<1>2. CASE RuleDecides(h)
  <2>1. PICK d \in Decisions : Decided(h, d, d, 0, TRUE)
    BY <1>2 DEF RuleDecides
  <2>2. d \in Seq(Action)
    BY AllowedTyped
  <2>3. QED
    BY <2>1, <2>2, DecidedTyped
<1>3. CASE GateBudget(h) \/ GateInjection(h)
  <2>1. pc[h] = "gate" /\ ShortCircuit(h)
    BY <1>3 DEF GateBudget, GateInjection
  <2>2. NoDecision(1, FALSE, "callback") \in Entry
    BY NoDecisionTyped
  <2>3. journal' \in [Envelope -> Seq(Entry)]
    BY <1>1, <2>1, <2>2, JournalAppends DEF ShortCircuit, TypeOK
  <2>4. pc' \in [Handler -> Step]
    BY <2>1 DEF ShortCircuit, TypeOK, Step
  <2>5. session' \in [Handler -> [signatures : 0..MaxSignatures, stopped : BOOLEAN,
                                  record : Decisions \cup {Invalid, None}]]
    <3>1. session \in [Handler -> [signatures : 0..MaxSignatures, stopped : BOOLEAN,
                                   record : Decisions \cup {Invalid, None}]]
      BY DEF TypeOK
    <3>2. session' = [session EXCEPT ![h].stopped = TRUE]
      BY <2>1 DEF ShortCircuit
    <3>3. QED
      BY <3>1, <3>2
  <2>6. outcome' \in [Handler -> [taken : Seq(Action), intents : Nat, journaled : BOOLEAN]]
    <3>1. outcome \in [Handler -> [taken : Seq(Action), intents : Nat, journaled : BOOLEAN]]
      BY DEF TypeOK
    <3>2. (outcome[h].journaled \/ Guarded) \in BOOLEAN
      BY DEF Guarded
    <3>3. outcome' = [outcome EXCEPT ![h].intents = 1, ![h].journaled = @ \/ Guarded]
      BY <2>1 DEF ShortCircuit
    <3>4. QED
      BY <3>1, <3>2, <3>3
  <2>7. QED
    BY <2>1, <2>3, <2>4, <2>5, <2>6 DEF TypeOK, ShortCircuit, world, decision
<1>4. CASE GatesPass(h)
  BY <1>4, MoveTyped DEF GatesPass, Step
<1>5. CASE ModelEnds(h)
  BY <1>5, MoveTyped DEF ModelEnds, Step
<1>6. CASE ModelCalledAgain(h)
  BY <1>6, MoveTyped DEF ModelCalledAgain, Step
<1>7. ASSUME NEW r \in Decisions \cup {Invalid}, Signing(h, r)
      PROVE  /\ pc' \in [Handler -> Step]
             /\ session' \in [Handler -> [signatures : 0..MaxSignatures, stopped : BOOLEAN,
                                          record : Decisions \cup {Invalid, None}]]
  <2>1. pc' \in [Handler -> Step]
    <3>1. pc' = [pc EXCEPT ![h] = "called"] /\ pc \in [Handler -> Step]
      BY <1>7 DEF Signing, TypeOK
    <3>2. "called" \in Step
      BY DEF Step
    <3>3. QED
      BY <3>1, <3>2
  <2>2. session[h].signatures + 1 \in 0..MaxSignatures
    <3>1. session[h].signatures \in 0..MaxSignatures
      BY DEF TypeOK
    <3>2. session[h].signatures < MaxSignatures
      BY <1>7 DEF Signing
    <3>3. QED
      BY <3>1, <3>2, Bounds
  <2>3. session' \in [Handler -> [signatures : 0..MaxSignatures, stopped : BOOLEAN,
                                  record : Decisions \cup {Invalid, None}]]
    <3>1. session \in [Handler -> [signatures : 0..MaxSignatures, stopped : BOOLEAN,
                                   record : Decisions \cup {Invalid, None}]]
      BY DEF TypeOK
    <3>2. session' = [session EXCEPT ![h].signatures = @ + 1, ![h].record = r]
      BY <1>7 DEF Signing
    <3>3. r \in Decisions \cup {Invalid, None}
      OBVIOUS
    <3>4. QED
      BY <2>2, <3>1, <3>2, <3>3
  <2>4. QED
    BY <2>1, <2>3
<1>8. CASE ModelSigns(h)
  <2>1. PICK d \in Decisions :
          /\ Signing(h, d)
          /\ outcome' = [outcome EXCEPT ![h].taken = Allowed(h, d),
                                        ![h].intents = Len(d) - Len(Allowed(h, d)),
                                        ![h].journaled = @ \/ Guarded]
          /\ IF Guarded
               THEN /\ acts' = [acts EXCEPT ![h] = @ + Len(Allowed(h, d))]
                    /\ Journal(h, [actions |-> Allowed(h, d), error |-> FALSE, tier2 |-> TRUE,
                                   intents |-> Len(d) - Len(Allowed(h, d)),
                                   counted |-> "callback", signed |-> FALSE])
               ELSE UNCHANGED <<acts, journal>>
          /\ UNCHANGED <<world, topic, deliveries, msg, decision, toks, ran>>
    BY <1>8 DEF ModelSigns
  <2>2. Allowed(h, d) \in Seq(Action) /\ Len(d) - Len(Allowed(h, d)) \in Nat
    BY AllowedTyped
  <2>3. [actions |-> Allowed(h, d), error |-> FALSE, tier2 |-> TRUE,
         intents |-> Len(d) - Len(Allowed(h, d)), counted |-> "callback", signed |-> FALSE] \in Entry
    BY <2>2 DEF Entry
  <2>4. msg[h] \in Envelope
    BY <1>1, <2>1 DEF Signing
  <2>5. journal' \in [Envelope -> Seq(Entry)]
    BY <2>1, <2>3, <2>4, JournalAppends DEF TypeOK
  <2>6. acts' \in [Handler -> Nat]
    <3>1. acts \in [Handler -> Nat] /\ Len(Allowed(h, d)) \in Nat
      BY <2>2, LenProperties DEF TypeOK
    <3>2. acts' = acts \/ acts' = [acts EXCEPT ![h] = @ + Len(Allowed(h, d))]
      BY <2>1
    <3>3. QED
      BY <3>1, <3>2
  <2>7. outcome' \in [Handler -> [taken : Seq(Action), intents : Nat, journaled : BOOLEAN]]
    <3>1. outcome \in [Handler -> [taken : Seq(Action), intents : Nat, journaled : BOOLEAN]]
      BY DEF TypeOK
    <3>2. (outcome[h].journaled \/ Guarded) \in BOOLEAN
      BY DEF Guarded
    <3>3. QED
      BY <2>1, <2>2, <3>1, <3>2
  <2>8. QED
    BY <1>7, <2>1, <2>5, <2>6, <2>7 DEF TypeOK, world, decision
<1>9. CASE ModelSignsInvalid(h)
  BY <1>7, <1>9 DEF TypeOK, ModelSignsInvalid, world, decision
<1>10. CASE GateStopped(h)
  <2>1. /\ <<>> \in Seq(Action)
        /\ (IF outcome[h].journaled THEN outcome[h].taken ELSE <<>>) \in Seq(Action)
        /\ (IF outcome[h].journaled THEN outcome[h].intents ELSE 0) \in Nat
    BY DEF TypeOK
  <2>2. QED
    BY <1>10, <2>1, DecidedTyped DEF GateStopped
<1>11. CASE DeliberationFails(h)
  <2>1. NoDecision(0, TRUE, "errored") \in Entry
    BY NoDecisionTyped
  <2>2. QED
    BY <1>1, <1>11, <2>1, EntryTyped DEF DeliberationFails, Step
<1>12. CASE DeliberationReturns(h)
  <2>1. session[h].record \in Decisions
    BY <1>12 DEF DeliberationReturns, OneSignature, WorkInv, TypeOK
  <2>2. session[h].record \in Seq(Action)
    BY <2>1, AllowedTyped
  <2>3. /\ (IF outcome[h].journaled THEN outcome[h].taken ELSE session[h].record) \in Seq(Action)
        /\ (IF outcome[h].journaled THEN outcome[h].intents ELSE 0) \in Nat
    BY <2>2 DEF TypeOK
  <2>4. QED
    BY <1>12, <2>2, <2>3, DecidedTyped DEF DeliberationReturns
<1>13. QED
  BY <1>2, <1>3, <1>4, <1>5, <1>6, <1>8, <1>9, <1>10, <1>11, <1>12 DEF DeciderStep

-----------------------------------------------------------------------------
\* What every step needs to know of the functions it updates.
LEMMA Fields ==
  ASSUME TypeOK
  PROVE  /\ pc \in [Handler -> Step] /\ DOMAIN msg = Handler
         /\ DOMAIN taken = Handler /\ DOMAIN todo = Handler
         /\ DOMAIN session = Handler /\ DOMAIN outcome = Handler
         /\ \A h \in Handler :
              /\ session[h] \in [signatures : 0..MaxSignatures, stopped : BOOLEAN,
                                 record : Decisions \cup {Invalid, None}]
              /\ outcome[h] \in [taken : Seq(Action), intents : Nat, journaled : BOOLEAN]
  BY DEF TypeOK

\* What a handler knows follows its work ...
LEMMA WorldWork ==
  ASSUME TypeOK, WorkInv,
         \/ \E e \in Envelope : Publish(e)
         \/ \E h \in Handler : \E e \in Envelope : Deliver(h, e)
         \/ \E h \in Handler : NewRun(h) \/ Ack(h) \/ Crash(h)
         \/ UNCHANGED vars
  PROVE  WorkInv'
<1>1. CASE (\E e \in Envelope : Publish(e)) \/ (\E h \in Handler : NewRun(h)) \/ UNCHANGED vars
  <2>1. UNCHANGED <<wiring, pc, msg, session, outcome, taken>>
    BY <1>1 DEF Publish, NewRun, vars, world, decision
  <2>2. QED
    BY <2>1 DEF WorkInv
<1>2. ASSUME NEW h \in Handler, NEW e \in Envelope, Deliver(h, e) PROVE WorkInv'
  BY <1>2, Fields DEF WorkInv, Deliver, CanDeliver, world, decision
<1>3. ASSUME NEW h \in Handler, Ack(h) \/ Crash(h) PROVE WorkInv'
  <2>1. Clear(h) /\ wiring' = wiring
    BY <1>3 DEF Ack, Crash, world
  <2>2. NewSession.signatures = 0
    BY DEF NewSession
  <2>3. QED
    BY <2>1, <2>2, Fields DEF WorkInv, Clear
<1>4. QED
  BY <1>1, <1>2, <1>3

\* ... in a step that moves it on without a word ...
LEMMA MoveWork ==
  ASSUME TypeOK, WorkInv, NEW h \in Handler, pc[h] # "idle",
         NEW s \in Step \ {"idle", "tokens"}, pc' = [pc EXCEPT ![h] = s],
         UNCHANGED <<wiring, msg, session, outcome>>,
         taken' = taken \/ s = "act",
         s = "rule" => wiring.decider = "rule",
         s \in {"gate", "model", "called", "return"} => wiring.decider # "rule",
         \A x \in Handler \ {h} : taken'[x] = taken[x],
         s \notin {"act", "ack"} => taken[h] = <<>>
  PROVE  WorkInv'
  BY Fields DEF WorkInv

\* ... and in every other.
LEMMA HandleWork ==
  ASSUME TypeOK, WorkInv, NEW h \in Handler, HandleStep(h), ~Ack(h)
  PROVE  WorkInv'
<1>1. CASE Undecodable(h) \/ TokensRefused(h) \/ JournalDecision(h) \/ AlreadyJournaled(h)
             \/ DeliberationFails(h)
  BY <1>1, MoveWork DEF Undecodable, TokensRefused, JournalDecision, AlreadyJournaled,
       DeliberationFails, Step, world, decision
<1>2. CASE Deliberate(h)
  BY <1>2, MoveWork DEF Deliberate, Step, WorkInv, world, decision
<1>3. CASE RuleDecides(h) \/ GateStopped(h) \/ DeliberationReturns(h)
  BY <1>3, MoveWork DEF RuleDecides, GateStopped, DeliberationReturns, Decided, Step, world
<1>4. CASE GatesPass(h) \/ ModelEnds(h) \/ ModelCalledAgain(h)
  BY <1>4, MoveWork DEF GatesPass, ModelEnds, ModelCalledAgain, Step, WorkInv, world, decision
<1>5. CASE RunVerb(h) \/ RefuseVerb(h)
  <2>1. UNCHANGED <<wiring, pc, msg, session, outcome>> /\ pc[h] = "act"
    BY <1>5 DEF RunVerb, RefuseVerb, world
  <2>2. \A x \in Handler \ {h} : taken'[x] = taken[x]
    BY <1>5, Fields DEF RunVerb, RefuseVerb
  <2>3. QED
    BY <2>1, <2>2 DEF WorkInv
<1>6. CASE GateBudget(h) \/ GateInjection(h)
  <2>1. pc[h] = "gate" /\ pc' = [pc EXCEPT ![h] = "return"] /\ UNCHANGED <<wiring, msg, taken>>
    BY <1>6 DEF GateBudget, GateInjection, ShortCircuit, world, decision
  <2>2. \A x \in Handler \ {h} : session'[x] = session[x] /\ outcome'[x] = outcome[x]
    BY <1>6, Fields DEF GateBudget, GateInjection, ShortCircuit
  <2>3. session'[h].signatures = session[h].signatures /\ session'[h].record = session[h].record
    <3>1. session' = [session EXCEPT ![h].stopped = TRUE]
      BY <1>6 DEF GateBudget, GateInjection, ShortCircuit
    <3>2. QED
      BY <3>1, Fields
  <2>4. QED
    BY <2>1, <2>2, <2>3, Fields DEF WorkInv
<1>7. CASE ModelSigns(h) \/ ModelSignsInvalid(h)
  <2>1. PICK r \in Decisions \cup {Invalid} : Signing(h, r)
    BY <1>7 DEF ModelSigns, ModelSignsInvalid
  <2>2. r # None
    BY ActorAssumption DEF ActorAssumption
  <2>3. pc[h] \in {"model", "called"} /\ pc' = [pc EXCEPT ![h] = "called"]
    BY <2>1 DEF Signing
  <2>4. UNCHANGED <<wiring, msg, taken>>
    BY <1>7 DEF ModelSigns, ModelSignsInvalid, world, decision
  <2>5. \A x \in Handler \ {h} : session'[x] = session[x] /\ outcome'[x] = outcome[x]
    BY <1>7, <2>1, Fields DEF ModelSigns, ModelSignsInvalid, Signing
  <2>6. session'[h].record = r
    BY <2>1, Fields DEF Signing
  <2>7. QED
    BY <2>2, <2>3, <2>4, <2>5, <2>6, Fields DEF WorkInv
<1>8. QED
  BY <1>1, <1>2, <1>3, <1>4, <1>5, <1>6, <1>7 DEF HandleStep, DeciderStep

-----------------------------------------------------------------------------
\* What a budget and the lists it pays for are.
LEMMA BudgetOf ==
  ASSUME TypeOK, BudgetInv, NEW h \in Handler
  PROVE  /\ acts[h] \in Nat /\ before[h] \in Nat /\ ActionLimit \in Nat /\ acts[h] <= ActionLimit
         /\ Len(taken[h]) \in Nat /\ Len(todo[h]) \in Nat /\ Len(outcome[h].taken) \in Nat
         /\ session[h].signatures \in Nat /\ outcome[h].journaled \in BOOLEAN
         /\ Len(<<>>) = 0
<1>1. taken[h] \in Seq(Action) /\ todo[h] \in Seq(Action) /\ acts[h] \in Nat /\ before[h] \in Nat
  BY DEF TypeOK
<1>2. outcome[h].taken \in Seq(Action) /\ session[h].signatures \in Nat
      /\ outcome[h].journaled \in BOOLEAN
  BY Fields, Bounds
<1>3. WithinBudget(h)
  BY DEF BudgetInv
<1>4. QED
  BY <1>1, <1>2, <1>3, LenProperties, Bounds DEF WithinBudget

\* A step of one handler concerns no other budget.
LEMMA OtherBudgets ==
  ASSUME BudgetInv, NEW h \in Handler, UNCHANGED wiring, WithinBudget(h)',
         \A x \in Handler \ {h} : /\ pc'[x] = pc[x] /\ taken'[x] = taken[x] /\ acts'[x] = acts[x]
                                  /\ todo'[x] = todo[x] /\ outcome'[x] = outcome[x]
                                  /\ session'[x] = session[x] /\ before'[x] = before[x]
  PROVE  BudgetInv'
<1> SUFFICES ASSUME NEW x \in Handler PROVE WithinBudget(x)'
  BY DEF BudgetInv
<1>1. CASE x = h
  BY <1>1
<1>2. CASE x # h
  <2>1. /\ pc'[x] = pc[x] /\ taken'[x] = taken[x] /\ acts'[x] = acts[x]
        /\ todo'[x] = todo[x] /\ outcome'[x] = outcome[x] /\ wiring' = wiring
        /\ session'[x] = session[x] /\ before'[x] = before[x]
    BY <1>2
  <2>2. WithinBudget(x)
    BY DEF BudgetInv
  <2>3. QED
    BY <2>1, <2>2 DEF WithinBudget, Charged, Guarded
<1>3. QED
  BY <1>1, <1>2

\* A handler that is idle afterwards has nothing to account for.
LEMMA ClearBudget ==
  ASSUME TypeOK, BudgetInv, NEW h \in Handler, Clear(h), UNCHANGED wiring,
         acts' = acts \/ acts' = [acts EXCEPT ![h] = 0]
  PROVE  BudgetInv'
<1>1. acts \in [Handler -> Nat] /\ DOMAIN before = Handler
  BY DEF TypeOK
<1>2. /\ pc'[h] = "idle" /\ outcome'[h].taken = <<>>
      /\ \A x \in Handler \ {h} : /\ pc'[x] = pc[x] /\ taken'[x] = taken[x]
                                  /\ todo'[x] = todo[x] /\ outcome'[x] = outcome[x]
                                  /\ session'[x] = session[x] /\ before'[x] = before[x]
  BY <1>1, Fields DEF Clear, NewOutcome
<1>3. /\ acts'[h] = acts[h] \/ acts'[h] = 0
      /\ \A x \in Handler \ {h} : acts'[x] = acts[x]
  BY <1>1
<1>4. acts'[h] <= ActionLimit
  BY <1>3, BudgetOf
<1>5. WithinBudget(h)'
  BY <1>2, <1>4 DEF WithinBudget
<1>6. QED
  BY <1>2, <1>3, <1>5, OtherBudgets

\* Budgets hold when neither they nor what is paid for changes, also when the
\* handler takes over what the callbacks took, or a gate stops a run in which
\* nothing was taken.
LEMMA KeepBudget ==
  ASSUME TypeOK, BudgetInv, NEW h \in Handler, UNCHANGED <<wiring, acts, before, taken>>,
         \A x \in Handler \ {h} : /\ pc'[x] = pc[x] /\ todo'[x] = todo[x]
                                  /\ outcome'[x] = outcome[x] /\ session'[x] = session[x],
         pc[h] # "idle",
         session'[h].signatures \in Nat, session'[h].signatures >= session[h].signatures,
         outcome'[h].taken = outcome[h].taken,
         \/ outcome'[h].journaled = outcome[h].journaled
         \/ outcome'[h].journaled = TRUE /\ Guarded /\ taken[h] = <<>>,
         pc'[h] = "act" /\ outcome'[h].journaled => taken[h] = <<>> /\ todo'[h] = outcome[h].taken
  PROVE  BudgetInv'
<1>1. /\ Len(<<>>) = 0 /\ Len(outcome[h].taken) \in Nat
      /\ acts[h] \in Nat /\ before[h] \in Nat /\ session[h].signatures \in Nat
      /\ outcome[h].journaled \in BOOLEAN
  BY BudgetOf
<1>2. WithinBudget(h)
  BY DEF BudgetInv
<1>3. Guarded' = Guarded /\ acts' = acts /\ before' = before /\ taken' = taken
  BY DEF Guarded
<1>4. session'[h].signatures <= 1 => session[h].signatures <= 1
  BY <1>1
<1>5. session'[h].signatures = 0 => session[h].signatures = 0
  BY <1>1
<1>6. CASE outcome[h].journaled = TRUE
  <2>1. outcome'[h].journaled = TRUE
    BY <1>6
  <2>2. /\ acts[h] >= before[h] + Len(outcome[h].taken)
        /\ session[h].signatures <= 1 => acts[h] = before[h] + Len(outcome[h].taken)
    BY <1>2, <1>6 DEF WithinBudget, Charged
  <2>3. pc'[h] = "act" => Len(taken[h]) + Len(todo'[h]) = Len(outcome[h].taken)
    <3>1. pc'[h] = "act" => taken[h] = <<>> /\ todo'[h] = outcome[h].taken
      BY <2>1
    <3>2. pc'[h] = "act" => Len(taken[h]) = 0 /\ Len(todo'[h]) = Len(outcome[h].taken)
      BY <1>1, <3>1, Zenon
    <3>3. pc'[h] = "act" => Len(taken[h]) + Len(todo'[h]) = 0 + Len(outcome[h].taken)
      BY <3>2, Zenon
    <3>4. 0 + Len(outcome[h].taken) = Len(outcome[h].taken)
      BY <1>1
    <3>5. QED
      BY <3>3, <3>4, Zenon
  <2>4. Charged(h)'
    BY <1>3, <1>4, <2>1, <2>2, <2>3 DEF Charged
  <2>5. QED
    BY <1>2, <1>3, <1>5, <2>1, <2>4, OtherBudgets DEF WithinBudget
<1>7. CASE outcome[h].journaled = FALSE /\ outcome'[h].journaled = FALSE
  <2>1. acts[h] = before[h] + Len(taken[h])
    BY <1>2, <1>7 DEF WithinBudget, Charged
  <2>2. Charged(h)'
    BY <1>3, <1>7, <2>1 DEF Charged
  <2>3. QED
    BY <1>2, <1>3, <1>5, <1>7, <2>2, OtherBudgets DEF WithinBudget
<1>8. CASE outcome[h].journaled = FALSE /\ outcome'[h].journaled = TRUE
  <2>1. Guarded /\ taken[h] = <<>> /\ outcome[h].taken = <<>>
    BY <1>2, <1>8 DEF WithinBudget
  <2>2. acts[h] = before[h] + Len(outcome[h].taken)
    BY <1>2, <1>8, <2>1 DEF WithinBudget, Charged
  <2>3. pc'[h] = "act" => Len(taken[h]) + Len(todo'[h]) = Len(outcome[h].taken)
    <3>1. pc'[h] = "act" => taken[h] = <<>> /\ todo'[h] = outcome[h].taken
      BY <1>8
    <3>2. pc'[h] = "act" => Len(taken[h]) = 0 /\ Len(todo'[h]) = Len(outcome[h].taken)
      BY <1>1, <3>1, Zenon
    <3>3. pc'[h] = "act" => Len(taken[h]) + Len(todo'[h]) = 0 + Len(outcome[h].taken)
      BY <3>2, Zenon
    <3>4. 0 + Len(outcome[h].taken) = Len(outcome[h].taken)
      BY <1>1
    <3>5. QED
      BY <3>3, <3>4, Zenon
  <2>4. acts[h] >= before[h] + Len(outcome[h].taken)
    BY <1>1, <2>2
  <2>5. Charged(h)'
    BY <1>3, <1>8, <2>2, <2>3, <2>4 DEF Charged
  <2>6. QED
    BY <1>2, <1>3, <1>5, <1>8, <2>1, <2>5, OtherBudgets DEF WithinBudget
<1>9. QED
  BY <1>1, <1>6, <1>7, <1>8

\* A handler is handed an envelope, and its account begins.
LEMMA DeliverBudget ==
  ASSUME TypeOK, WorkInv, BudgetInv, NEW h \in Handler, NEW e \in Envelope, Deliver(h, e)
  PROVE  BudgetInv'
<1>1. /\ pc[h] = "idle" /\ pc' = [pc EXCEPT ![h] = "tokens"]
      /\ UNCHANGED <<wiring, session, outcome, taken, todo>>
      /\ acts' = acts \/ acts' = [acts EXCEPT ![h] = 0]
      /\ before' = [before EXCEPT ![h] = acts'[h]]
  BY DEF Deliver, CanDeliver, FreshBudgets, decision
<1>2. /\ taken[h] = <<>> /\ outcome[h].taken = <<>> /\ outcome[h].journaled = FALSE
      /\ Len(<<>>) = 0
  BY <1>1 DEF WorkInv, NewOutcome
<1>3. /\ acts'[h] = acts[h] \/ acts'[h] = 0
      /\ \A x \in Handler \ {h} : acts'[x] = acts[x]
  BY <1>1 DEF TypeOK
<1>4. before'[h] = acts'[h] /\ \A x \in Handler \ {h} : before'[x] = before[x]
  BY <1>1 DEF TypeOK
<1>5. pc'[h] = "tokens" /\ \A x \in Handler \ {h} : pc'[x] = pc[x]
  BY <1>1, Fields
<1>6. acts'[h] \in Nat /\ acts'[h] <= ActionLimit
  BY <1>3, BudgetOf
<1>7. Charged(h)'
  BY <1>1, <1>2, <1>4, <1>6 DEF Charged
<1>8. WithinBudget(h)'
  BY <1>1, <1>2, <1>6, <1>7 DEF WithinBudget
<1>9. QED
  BY <1>1, <1>3, <1>4, <1>5, <1>8, OtherBudgets

\* The callbacks charge what they take of a signature.
LEMMA SignBudget ==
  ASSUME TypeOK, WorkInv, BudgetInv, AckInv, NEW h \in Handler, ModelSigns(h)
  PROVE  BudgetInv'
<1>1. PICK d \in Decisions :
        /\ Signing(h, d)
        /\ outcome' = [outcome EXCEPT ![h].taken = Allowed(h, d),
                                      ![h].intents = Len(d) - Len(Allowed(h, d)),
                                      ![h].journaled = @ \/ Guarded]
        /\ Guarded => acts' = [acts EXCEPT ![h] = @ + Len(Allowed(h, d))]
        /\ ~Guarded => acts' = acts
        /\ UNCHANGED <<wiring, before, taken, todo>>
  BY DEF ModelSigns, world, decision
<1>2. PICK list, n : list = Allowed(h, d) /\ n = Len(list)
  OBVIOUS
<1>3. /\ n \in Nat /\ acts \in [Handler -> Nat] /\ Len(list) = n
      /\ Guarded => acts[h] + n <= ActionLimit
  BY <1>2, AllowedTyped, LenProperties DEF TypeOK
<1>4. /\ pc[h] \in {"model", "called"} /\ pc'[h] = "called" /\ taken[h] = <<>>
      /\ \A x \in Handler \ {h} : pc'[x] = pc[x] /\ session'[x] = session[x]
      /\ session'[h].signatures = session[h].signatures + 1
  BY <1>1, Fields DEF Signing, WorkInv
<1>5. /\ \A x \in Handler \ {h} : outcome'[x] = outcome[x]
      /\ outcome'[h].taken = list
      /\ outcome'[h].journaled = (outcome[h].journaled \/ Guarded)
  BY <1>1, <1>2, Fields
<1>6. /\ \A x \in Handler \ {h} : acts'[x] = acts[x]
      /\ Guarded => acts'[h] = acts[h] + n
      /\ ~Guarded => acts'[h] = acts[h]
  BY <1>1, <1>2, <1>3
<1>7. /\ acts[h] \in Nat /\ before[h] \in Nat /\ session[h].signatures \in Nat
      /\ Len(outcome[h].taken) \in Nat /\ Len(<<>>) = 0 /\ acts[h] <= ActionLimit
      /\ outcome[h].journaled \in BOOLEAN
  BY BudgetOf
<1>8. WithinBudget(h) /\ Charged(h)
  BY <1>4 DEF BudgetInv, WithinBudget
<1>9. Guarded' = Guarded /\ before'[h] = before[h] /\ taken'[h] = taken[h]
  BY <1>1 DEF Guarded
<1>10. session'[h].signatures # 0
  BY <1>4, <1>7
<1>11. CASE Guarded
  <2>1. /\ outcome'[h].journaled /\ acts'[h] = acts[h] + n /\ acts'[h] <= ActionLimit
        /\ Len(outcome'[h].taken) = n
    BY <1>3, <1>5, <1>6, <1>11
  <2>2. acts[h] >= before[h]
    BY <1>4, <1>7, <1>8 DEF Charged
  <2>3. session'[h].signatures <= 1 => acts[h] = before[h]
    <3>1. session'[h].signatures <= 1 => session[h].signatures = 0
      BY <1>4, <1>7
    <3>2. session[h].signatures = 0 => outcome[h].taken = <<>>
      BY <1>8 DEF WithinBudget
    <3>3. outcome[h].taken = <<>> /\ session[h].signatures = 0 => acts[h] = before[h]
      BY <1>4, <1>7, <1>8 DEF Charged
    <3>4. QED
      BY <3>1, <3>2, <3>3
  <2>4. /\ acts'[h] >= before'[h] + Len(outcome'[h].taken)
        /\ session'[h].signatures <= 1 => acts'[h] = before'[h] + Len(outcome'[h].taken)
    <3>1. ASSUME NEW a \in Nat, NEW b \in Nat, NEW m \in Nat, a >= b
          PROVE  a + m >= b + m
      BY <3>1
    <3>2. QED
      BY <1>3, <1>7, <1>9, <2>1, <2>2, <2>3, <3>1
  <2>5. Charged(h)'
    BY <1>4, <2>1, <2>4 DEF Charged
  <2>6. WithinBudget(h)'
    BY <1>10, <2>1, <2>5 DEF WithinBudget
  <2>7. QED
    BY <1>1, <1>4, <1>5, <1>6, <2>6, OtherBudgets
<1>12. CASE ~Guarded
  <2>1. outcome[h].journaled = FALSE
    BY <1>7, <1>12 DEF AckInv, OnRecord
  <2>2. ~outcome'[h].journaled /\ acts'[h] = acts[h]
    BY <1>5, <1>6, <1>12, <2>1
  <2>3. acts[h] = before[h] + Len(taken[h])
    BY <1>8, <2>1 DEF Charged
  <2>4. Charged(h)'
    BY <1>9, <2>2, <2>3 DEF Charged
  <2>5. WithinBudget(h)'
    BY <1>7, <1>9, <1>10, <1>12, <2>2, <2>4 DEF WithinBudget
  <2>6. QED
    BY <1>1, <1>4, <1>5, <1>6, <2>5, OtherBudgets
<1>13. QED
  BY <1>11, <1>12

\* A verb runs, and is charged unless the callbacks charged it.
LEMMA RunBudget ==
  ASSUME TypeOK, WorkInv, BudgetInv, NEW h \in Handler, RunVerb(h)
  PROVE  BudgetInv'
<1>1. /\ pc[h] = "act" /\ todo[h] # <<>> /\ CanAct(h)
      /\ UNCHANGED <<wiring, pc, session, outcome, before>>
      /\ taken' = [taken EXCEPT ![h] = Append(@, Head(todo[h]))]
      /\ todo' = [todo EXCEPT ![h] = Tail(@)]
      /\ outcome[h].journaled => acts' = acts
      /\ ~outcome[h].journaled => acts' = [acts EXCEPT ![h] = @ + 1]
  BY DEF RunVerb, world
<1>2. /\ Len(Tail(todo[h])) = Len(todo[h]) - 1 /\ Len(todo[h]) \in Nat \ {0}
      /\ Len(Append(taken[h], Head(todo[h]))) = Len(taken[h]) + 1 /\ Len(taken[h]) \in Nat
  <2>1. todo[h] \in Seq(Action) /\ taken[h] \in Seq(Action)
    BY DEF TypeOK
  <2>2. QED
    BY <1>1, <2>1, HeadTailProperties, AppendProperties, LenProperties, EmptySeq
<1>3. acts \in [Handler -> Nat] /\ ActionLimit \in Nat
  BY Bounds DEF TypeOK
<1>4. /\ Len(taken'[h]) = Len(taken[h]) + 1 /\ Len(todo'[h]) = Len(todo[h]) - 1
      /\ \A x \in Handler \ {h} : taken'[x] = taken[x] /\ todo'[x] = todo[x] /\ acts'[x] = acts[x]
  BY <1>1, <1>2, <1>3, Fields
<1>5. /\ acts[h] \in Nat /\ before[h] \in Nat /\ acts[h] <= ActionLimit
      /\ Len(outcome[h].taken) \in Nat
  BY BudgetOf
<1>6. WithinBudget(h) /\ Charged(h)
  BY <1>1 DEF BudgetInv, WithinBudget
<1>7. Guarded' = Guarded /\ outcome'[h] = outcome[h] /\ before'[h] = before[h]
      /\ session'[h] = session[h] /\ pc'[h] = "act"
  BY <1>1 DEF Guarded
<1>8. CASE outcome[h].journaled
  <2>1. acts'[h] = acts[h]
    BY <1>1, <1>8
  <2>2. Len(taken[h]) + Len(todo[h]) = Len(outcome[h].taken)
    BY <1>1, <1>6, <1>8 DEF Charged
  <2>3. Len(taken'[h]) + Len(todo'[h]) = Len(outcome[h].taken)
    <3>1. PICK t \in Nat, l \in Nat, m \in Nat :
             Len(taken[h]) = t /\ Len(todo[h]) = l /\ Len(outcome[h].taken) = m
      BY <1>2, <1>5
    <3>2. Len(taken'[h]) = t + 1 /\ Len(todo'[h]) = l - 1
      BY <1>4, <3>1, Zenon
    <3>3. t + l = m
      BY <2>2, <3>1, Zenon
    <3>4. (t + 1) + (l - 1) = m
      BY <3>3
    <3>5. QED
      BY <3>1, <3>2, <3>4, Zenon
  <2>4. Charged(h)'
    BY <1>6, <1>7, <1>8, <2>1, <2>3 DEF Charged
  <2>5. WithinBudget(h)'
    BY <1>6, <1>7, <2>1, <2>4 DEF WithinBudget
  <2>6. QED
    BY <1>1, <1>4, <2>5, OtherBudgets
<1>9. CASE ~outcome[h].journaled
  <2>1. acts[h] < ActionLimit /\ acts'[h] = acts[h] + 1
    BY <1>1, <1>3, <1>9 DEF CanAct
  <2>2. acts[h] = before[h] + Len(taken[h])
    BY <1>6, <1>9 DEF Charged
  <2>3. acts'[h] = before[h] + Len(taken'[h]) /\ acts'[h] <= ActionLimit
    BY <1>2, <1>3, <1>4, <1>5, <2>1, <2>2
  <2>4. Charged(h)'
    BY <1>7, <1>9, <2>3 DEF Charged
  <2>5. WithinBudget(h)'
    BY <1>6, <1>7, <2>3, <2>4 DEF WithinBudget
  <2>6. QED
    BY <1>1, <1>4, <2>5, OtherBudgets
<1>10. QED
  BY <1>8, <1>9

\* Every step keeps within the budgets, whoever spends.
LEMMA BudgetStep ==
  ASSUME TypeOK, WorkInv, AckInv, BudgetInv, [Next]_vars
  PROVE  BudgetInv'
<1>1. CASE (\E e \in Envelope : Publish(e)) \/ UNCHANGED vars
  <2>1. UNCHANGED <<wiring, pc, session, outcome, taken, todo, acts, before>>
    BY <1>1 DEF Publish, vars, world, decision
  <2>2. QED
    BY <2>1 DEF BudgetInv, WithinBudget, Charged, Guarded
<1>2. ASSUME NEW h \in Handler, NEW e \in Envelope, Deliver(h, e) PROVE BudgetInv'
  BY <1>2, DeliverBudget
<1>3. ASSUME NEW h \in Handler, NewRun(h) PROVE BudgetInv'
  <2>1. /\ pc[h] = "idle" /\ UNCHANGED <<wiring, pc, session, outcome, taken, todo, before>>
        /\ acts' = [acts EXCEPT ![h] = 0]
    BY <1>3 DEF NewRun, FreshBudgets, world, decision
  <2>2. /\ acts'[h] = 0
        /\ \A x \in Handler \ {h} : acts'[x] = acts[x]
    BY <2>1 DEF TypeOK
  <2>3. WithinBudget(h) /\ ActionLimit \in Nat
    BY Bounds DEF BudgetInv
  <2>4. WithinBudget(h)'
    BY <2>1, <2>2, <2>3 DEF WithinBudget, Guarded
  <2>5. QED
    BY <2>1, <2>2, <2>4, OtherBudgets
<1>4. ASSUME NEW h \in Handler, Ack(h) \/ Crash(h) PROVE BudgetInv'
  BY <1>4, ClearBudget DEF Ack, Crash, FreshBudgets
<1>5. ASSUME NEW h \in Handler,
             \/ Undecodable(h) \/ TokensRefused(h) \/ Deliberate(h) \/ JournalDecision(h)
             \/ AlreadyJournaled(h) \/ DeliberationFails(h) \/ GatesPass(h) \/ ModelEnds(h)
             \/ ModelCalledAgain(h) \/ GateBudget(h) \/ GateInjection(h) \/ ModelSignsInvalid(h)
      PROVE  BudgetInv'
  <2>1. PICK s \in Step \ {"act"} : pc' = [pc EXCEPT ![h] = s]
    BY <1>5 DEF Undecodable, TokensRefused, Deliberate, JournalDecision, AlreadyJournaled,
         DeliberationFails, GatesPass, ModelEnds, ModelCalledAgain, GateBudget, GateInjection,
         ShortCircuit, ModelSignsInvalid, Signing, Step
  <2>2. UNCHANGED <<wiring, acts, before, taken, todo>> /\ pc[h] # "idle"
    BY <1>5 DEF Undecodable, TokensRefused, Deliberate, JournalDecision, AlreadyJournaled,
         DeliberationFails, GatesPass, ModelEnds, ModelCalledAgain, GateBudget, GateInjection,
         ShortCircuit, ModelSignsInvalid, Signing, world, decision
  <2>3. \/ outcome' = outcome
        \/ /\ outcome' = [outcome EXCEPT ![h].intents = 1, ![h].journaled = @ \/ Guarded]
           /\ taken[h] = <<>>
    BY <1>5 DEF Undecodable, TokensRefused, Deliberate, JournalDecision, AlreadyJournaled,
         DeliberationFails, GatesPass, ModelEnds, ModelCalledAgain, GateBudget, GateInjection,
         ShortCircuit, ModelSignsInvalid, WorkInv
  <2>4. /\ \A x \in Handler \ {h} : outcome'[x] = outcome[x]
        /\ outcome'[h].taken = outcome[h].taken
        /\ \/ outcome'[h].journaled = outcome[h].journaled
           \/ outcome'[h].journaled = TRUE /\ Guarded /\ taken[h] = <<>>
    <3>1. CASE outcome' = outcome
      BY <3>1
    <3>2. CASE /\ outcome' = [outcome EXCEPT ![h].intents = 1, ![h].journaled = @ \/ Guarded]
               /\ taken[h] = <<>>
      <4>1. /\ \A x \in Handler \ {h} : outcome'[x] = outcome[x]
            /\ outcome'[h].taken = outcome[h].taken
            /\ outcome'[h].journaled = (outcome[h].journaled \/ Guarded)
        BY <3>2, Fields
      <4>2. outcome[h].journaled \in BOOLEAN
        BY Fields
      <4>3. QED
        BY <3>2, <4>1, <4>2
    <3>3. QED
      BY <2>3, <3>1, <3>2
  <2>5. \/ session' = session \/ session' = [session EXCEPT ![h].stopped = TRUE]
        \/ session' = [session EXCEPT ![h].signatures = @ + 1, ![h].record = Invalid]
    BY <1>5 DEF Undecodable, TokensRefused, Deliberate, JournalDecision, AlreadyJournaled,
         DeliberationFails, GatesPass, ModelEnds, ModelCalledAgain, GateBudget, GateInjection,
         ShortCircuit, ModelSignsInvalid, Signing
  <2>6. /\ \A x \in Handler \ {h} : session'[x] = session[x]
        /\ session'[h].signatures \in Nat /\ session'[h].signatures >= session[h].signatures
    <3>1. session[h].signatures \in Nat
      BY BudgetOf
    <3>2. /\ \A x \in Handler \ {h} : session'[x] = session[x]
          /\ \/ session'[h].signatures = session[h].signatures
             \/ session'[h].signatures = session[h].signatures + 1
      BY <2>5, Fields
    <3>3. QED
      BY <3>1, <3>2
  <2>7. pc'[h] # "act" /\ \A x \in Handler \ {h} : pc'[x] = pc[x]
    BY <2>1, Fields
  <2>8. QED
    BY <2>2, <2>4, <2>6, <2>7, KeepBudget
<1>6. ASSUME NEW h \in Handler, RuleDecides(h) \/ GateStopped(h) \/ DeliberationReturns(h)
      PROVE  BudgetInv'
  <2>1. UNCHANGED <<wiring, acts, before, taken, session, outcome>> /\ pc' = [pc EXCEPT ![h] = "act"]
        /\ pc[h] # "idle"
    BY <1>6 DEF RuleDecides, GateStopped, DeliberationReturns, Decided, world
  <2>2. \A x \in Handler \ {h} : todo'[x] = todo[x]
    BY <1>6, Fields DEF RuleDecides, GateStopped, DeliberationReturns, Decided
  <2>3. outcome[h].journaled => todo'[h] = outcome[h].taken
    <3>1. CASE RuleDecides(h)
      BY <3>1, Fields DEF RuleDecides, WorkInv, AckInv, OnRecord, Guarded
    <3>2. CASE GateStopped(h) \/ DeliberationReturns(h)
      BY <3>2, Fields DEF GateStopped, DeliberationReturns, Decided
    <3>3. QED
      BY <1>6, <3>1, <3>2
  <2>4. taken[h] = <<>>
    BY <1>6 DEF RuleDecides, GateStopped, DeliberationReturns, WorkInv
  <2>5. session'[h].signatures \in Nat /\ session'[h].signatures >= session[h].signatures
    BY <2>1, BudgetOf
  <2>6. QED
    BY <2>1, <2>2, <2>3, <2>4, <2>5, KeepBudget, Fields
<1>7. ASSUME NEW h \in Handler, ModelSigns(h) PROVE BudgetInv'
  BY <1>7, SignBudget
<1>8. ASSUME NEW h \in Handler, RunVerb(h) PROVE BudgetInv'
  BY <1>8, RunBudget
<1>9. ASSUME NEW h \in Handler, RefuseVerb(h) PROVE BudgetInv'
  <2>1. /\ ~outcome[h].journaled /\ UNCHANGED <<wiring, pc, session, outcome, acts, before, taken>>
        /\ todo' = [todo EXCEPT ![h] = Tail(@)] /\ pc[h] # "idle"
    BY <1>9 DEF RefuseVerb, CanAct, world
  <2>2. session'[h].signatures \in Nat /\ session'[h].signatures >= session[h].signatures
    BY <2>1, BudgetOf
  <2>3. QED
    BY <2>1, <2>2, KeepBudget, Fields
<1>10. QED
  BY <1>1, <1>2, <1>3, <1>4, <1>5, <1>6, <1>7, <1>8, <1>9 DEF Next, HandleStep, DeciderStep

-----------------------------------------------------------------------------
\* A handler that journals nothing new, and does not touch another envelope,
\* leaves the record of acknowledgements true ...
LEMMA KeepRecord ==
  ASSUME TypeOK, WorkInv, AckInv, NEW h \in Handler,
         UNCHANGED <<wiring, msg, published, topic>>,
         \A e \in Envelope : journal'[e] = <<>> => journal[e] = <<>>,
         msg[h] \in Envelope,
         \A x \in Handler \ {h} : pc'[x] = pc[x] /\ outcome'[x] = outcome[x],
         \/ outcome'[h].journaled = outcome[h].journaled
         \/ Guarded /\ journal'[msg[h]] # <<>>,
         pc'[h] # "ack" \/ outcome[h].journaled \/ journal'[msg[h]] # <<>>
  PROVE  AckInv'
<1>1. NothingLostOnAck'
  BY DEF AckInv, NothingLostOnAck, TypeOK
<1>2. OnRecord(h)'
  BY DEF AckInv, OnRecord, Guarded
<1>3. ASSUME NEW x \in Handler \ {h} PROVE OnRecord(x)'
  <2>1. OnRecord(x) /\ pc'[x] = pc[x] /\ outcome'[x] = outcome[x]
    BY DEF AckInv
  <2>2. CASE msg[x] \in Envelope
    BY <2>1, <2>2 DEF OnRecord, Guarded
  <2>3. CASE msg[x] \notin Envelope
    BY <2>1, <2>3 DEF OnRecord, WorkInv, NewOutcome
  <2>4. QED
    BY <2>2, <2>3
<1>4. QED
  BY <1>1, <1>2, <1>3 DEF AckInv

\* ... and so does every step.
LEMMA AckStep ==
  ASSUME TypeOK, WorkInv, BudgetInv, AckInv, [Next]_vars
  PROVE  AckInv'
<1>1. \A h \in Handler : pc[h] # "idle" => msg[h] \in Envelope
  BY DEF WorkInv
<1>2. CASE (\E e \in Envelope : Publish(e)) \/ (\E h \in Handler : NewRun(h)) \/ UNCHANGED vars
  <2>1. UNCHANGED <<wiring, pc, msg, outcome, journal>> /\ published' \ topic' \subseteq published \ topic
    BY <1>2 DEF Publish, NewRun, vars, world, decision
  <2>2. QED
    BY <2>1 DEF AckInv, NothingLostOnAck, OnRecord, Guarded
<1>3. ASSUME NEW h \in Handler, NEW e \in Envelope, Deliver(h, e) PROVE AckInv'
  <2>1. /\ pc[h] = "idle" /\ pc' = [pc EXCEPT ![h] = "tokens"] /\ msg' = [msg EXCEPT ![h] = e]
        /\ UNCHANGED <<wiring, outcome, journal, published, topic>>
    BY <1>3 DEF Deliver, CanDeliver, world
  <2>2. outcome[h].journaled = FALSE
    BY <2>1 DEF WorkInv, NewOutcome
  <2>3. \A x \in Handler : OnRecord(x)'
    BY <2>1, <2>2, Fields DEF AckInv, OnRecord, Guarded
  <2>4. QED
    BY <2>1, <2>3 DEF AckInv, NothingLostOnAck
<1>4. ASSUME NEW h \in Handler, Ack(h) \/ Crash(h) PROVE AckInv'
  <2>1. Clear(h) /\ UNCHANGED <<wiring, journal, published>>
    BY <1>4 DEF Ack, Crash, world
  <2>2. topic \ topic' \subseteq {msg[h]} /\ (topic' # topic => pc[h] = "ack")
    BY <1>4 DEF Ack, Crash
  <2>3. NothingLostOnAck'
    BY <2>1, <2>2 DEF AckInv, OnRecord, NothingLostOnAck
  <2>4. outcome'[h].journaled = FALSE /\ pc'[h] = "idle"
    BY <2>1, Fields DEF Clear, NewOutcome
  <2>5. OnRecord(h)'
    BY <2>4 DEF OnRecord
  <2>6. \A x \in Handler \ {h} : pc'[x] = pc[x] /\ msg'[x] = msg[x] /\ outcome'[x] = outcome[x]
    BY <2>1, Fields DEF Clear
  <2>7. \A x \in Handler \ {h} : OnRecord(x)'
    BY <2>1, <2>6 DEF AckInv, OnRecord, Guarded
  <2>8. QED
    BY <2>3, <2>5, <2>7 DEF AckInv
<1>5. ASSUME NEW h \in Handler,
             \/ Deliberate(h) \/ RuleDecides(h) \/ GatesPass(h) \/ ModelEnds(h)
             \/ ModelCalledAgain(h) \/ ModelSignsInvalid(h) \/ GateStopped(h)
             \/ DeliberationReturns(h) \/ RunVerb(h) \/ RefuseVerb(h) \/ AlreadyJournaled(h)
      PROVE  AckInv'
  <2>1. UNCHANGED <<wiring, msg, published, topic, journal, outcome>> /\ pc[h] # "idle"
    BY <1>5 DEF Deliberate, RuleDecides, GatesPass, ModelEnds, ModelCalledAgain,
         ModelSignsInvalid, Signing, GateStopped, DeliberationReturns, Decided, RunVerb,
         RefuseVerb, AlreadyJournaled, world
  <2>2. /\ \A x \in Handler \ {h} : pc'[x] = pc[x]
        /\ pc'[h] = "ack" => outcome[h].journaled
    BY <1>5, Fields DEF Deliberate, RuleDecides, GatesPass, ModelEnds, ModelCalledAgain,
         ModelSignsInvalid, Signing, GateStopped, DeliberationReturns, Decided, RunVerb,
         RefuseVerb, AlreadyJournaled
  <2>3. /\ \/ outcome'[h].journaled = outcome[h].journaled
           \/ Guarded /\ journal'[msg[h]] # <<>>
        /\ pc'[h] # "ack" \/ outcome[h].journaled \/ journal'[msg[h]] # <<>>
        /\ msg[h] \in Envelope
    BY <1>1, <2>1, <2>2
  <2>4. QED
    BY <2>1, <2>2, <2>3, KeepRecord, Zenon
<1>6. ASSUME NEW h \in Handler, NEW entry \in Entry, Journal(h, entry), pc[h] # "idle",
             UNCHANGED <<wiring, msg, published, topic, outcome>>,
             \A x \in Handler \ {h} : pc'[x] = pc[x]
      PROVE  AckInv'
  BY <1>1, <1>6, JournalAppends, KeepRecord
<1>7. ASSUME NEW h \in Handler, Undecodable(h) PROVE AckInv'
  <2>1. NoDecision(0, TRUE, "none") \in Entry
    BY NoDecisionTyped
  <2>2. QED
    BY <1>6, <1>7, <2>1, Fields DEF Undecodable, world
<1>8. ASSUME NEW h \in Handler, TokensRefused(h) PROVE AckInv'
  <2>1. NoDecision(1, FALSE, "none") \in Entry
    BY NoDecisionTyped
  <2>2. QED
    BY <1>6, <1>8, <2>1, Fields DEF TokensRefused, world
<1>9. ASSUME NEW h \in Handler, DeliberationFails(h) PROVE AckInv'
  <2>1. NoDecision(0, TRUE, "errored") \in Entry
    BY NoDecisionTyped
  <2>2. QED
    BY <1>6, <1>9, <2>1, Fields DEF DeliberationFails, world
<1>10. ASSUME NEW h \in Handler, JournalDecision(h) PROVE AckInv'
  <2>1. [actions |-> taken[h], intents |-> intents[h], error |-> FALSE,
         tier2 |-> TRUE, counted |-> Tally(h), signed |-> signed[h]] \in Entry
    BY DEF TypeOK, Entry, Tally
  <2>2. QED
    BY <1>6, <1>10, <2>1, Fields DEF JournalDecision, world
<1>11. ASSUME NEW h \in Handler, GateBudget(h) \/ GateInjection(h) PROVE AckInv'
  <2>1. /\ pc[h] = "gate" /\ UNCHANGED <<wiring, msg, published, topic>>
        /\ pc' = [pc EXCEPT ![h] = "return"]
        /\ outcome' = [outcome EXCEPT ![h].intents = 1, ![h].journaled = @ \/ Guarded]
        /\ Guarded => Journal(h, NoDecision(1, FALSE, "callback"))
        /\ ~Guarded => journal' = journal
    BY <1>11 DEF GateBudget, GateInjection, ShortCircuit, world
  <2>2. NoDecision(1, FALSE, "callback") \in Entry
    BY NoDecisionTyped
  <2>3. /\ \A x \in Handler \ {h} : pc'[x] = pc[x] /\ outcome'[x] = outcome[x]
        /\ outcome'[h].journaled = outcome[h].journaled \/ Guarded
        /\ pc'[h] = "return"
    BY <2>1, Fields
  <2>4. /\ \A e \in Envelope : journal'[e] = <<>> => journal[e] = <<>>
        /\ Guarded => journal'[msg[h]] # <<>>
    BY <1>1, <2>1, <2>2, JournalAppends
  <2>5. /\ \/ outcome'[h].journaled = outcome[h].journaled
           \/ Guarded /\ journal'[msg[h]] # <<>>
        /\ pc'[h] # "ack" \/ outcome[h].journaled \/ journal'[msg[h]] # <<>>
        /\ msg[h] \in Envelope
    BY <1>1, <2>1, <2>3, <2>4
  <2>6. QED
    BY <2>1, <2>3, <2>4, <2>5, KeepRecord, Zenon
<1>12. ASSUME NEW h \in Handler, ModelSigns(h) PROVE AckInv'
  <2>1. PICK d \in Decisions :
          /\ Signing(h, d)
          /\ outcome' = [outcome EXCEPT ![h].taken = Allowed(h, d),
                                        ![h].intents = Len(d) - Len(Allowed(h, d)),
                                        ![h].journaled = @ \/ Guarded]
          /\ Guarded => Journal(h, [actions |-> Allowed(h, d), error |-> FALSE, tier2 |-> TRUE,
                                    intents |-> Len(d) - Len(Allowed(h, d)),
                                    counted |-> "callback", signed |-> FALSE])
          /\ ~Guarded => journal' = journal
          /\ UNCHANGED <<wiring, msg, published, topic>>
    BY <1>12 DEF ModelSigns, world
  <2>2. [actions |-> Allowed(h, d), error |-> FALSE, tier2 |-> TRUE,
         intents |-> Len(d) - Len(Allowed(h, d)), counted |-> "callback", signed |-> FALSE] \in Entry
    BY AllowedTyped DEF Entry
  <2>3. pc[h] # "idle" /\ pc' = [pc EXCEPT ![h] = "called"]
    BY <2>1 DEF Signing
  <2>4. /\ \A x \in Handler \ {h} : pc'[x] = pc[x] /\ outcome'[x] = outcome[x]
        /\ outcome'[h].journaled = outcome[h].journaled \/ Guarded
        /\ pc'[h] = "called"
    BY <2>1, <2>3, Fields
  <2>5. /\ \A e \in Envelope : journal'[e] = <<>> => journal[e] = <<>>
        /\ Guarded => journal'[msg[h]] # <<>>
    BY <1>1, <2>1, <2>2, <2>3, JournalAppends
  <2>6. /\ \/ outcome'[h].journaled = outcome[h].journaled
           \/ Guarded /\ journal'[msg[h]] # <<>>
        /\ pc'[h] # "ack" \/ outcome[h].journaled \/ journal'[msg[h]] # <<>>
        /\ msg[h] \in Envelope
    BY <1>1, <2>1, <2>3, <2>4, <2>5
  <2>7. QED
    BY <2>1, <2>4, <2>5, <2>6, KeepRecord, Zenon
<1>13. QED
  BY <1>2, <1>3, <1>4, <1>5, <1>7, <1>8, <1>9, <1>10, <1>11, <1>12 DEF Next, HandleStep, DeciderStep

-----------------------------------------------------------------------------
\* A step of one handler concerns no other handler's decision.
LEMMA OtherDecisions ==
  ASSUME DecisionInv, NEW h \in Handler, UNCHANGED <<wiring, kind>>, Accounted(h)',
         \A x \in Handler \ {h} :
            /\ pc'[x] = pc[x] /\ session'[x] = session[x] /\ outcome'[x] = outcome[x]
            /\ decided'[x] = decided[x] /\ todo'[x] = todo[x] /\ taken'[x] = taken[x]
            /\ intents'[x] = intents[x] /\ signed'[x] = signed[x] /\ msg'[x] = msg[x]
  PROVE  DecisionInv'
<1> SUFFICES ASSUME NEW x \in Handler \ {h} PROVE Accounted(x)'
  BY DEF DecisionInv
<1>1. Accounted(x)
  BY DEF DecisionInv
<1>2. QED
  BY <1>1 DEF Accounted, Guarded

\* Only RuleDecider and AdkDecider work without guardrails.
LEMMA Deciders ==
  ASSUME TypeOK, wiring.decider # "rule", ~Guarded
  PROVE  wiring.decider = "adk"
<1>1. wiring \in Wiring
  BY ActorAssumption DEF ActorAssumption, TypeOK
<1>2. QED
  BY <1>1 DEF Wiring, Guarded

\* Whatever is refused is counted, and who decided is remembered.
LEMMA DecisionStep ==
  ASSUME TypeOK, WorkInv, BudgetInv, AckInv, DecisionInv, [Next]_vars
  PROVE  DecisionInv'
<1>1. /\ DOMAIN decided = Handler /\ DOMAIN intents = Handler /\ DOMAIN signed = Handler
      /\ \A h \in Handler : intents[h] \in Nat
  BY DEF TypeOK
<1>2. CASE (\E e \in Envelope : Publish(e)) \/ (\E h \in Handler : NewRun(h)) \/ UNCHANGED vars
  <2>1. UNCHANGED <<wiring, kind, pc, msg, session, outcome, decided, todo, taken, intents, signed>>
    BY <1>2 DEF Publish, NewRun, vars, world, decision
  <2>2. QED
    BY <2>1 DEF DecisionInv, Accounted, Guarded
<1>3. ASSUME NEW h \in Handler, NEW e \in Envelope, Deliver(h, e) PROVE DecisionInv'
  <2>1. /\ UNCHANGED <<wiring, kind, session, outcome, decided, todo, taken, intents, signed>>
        /\ pc[h] = "idle" /\ pc' = [pc EXCEPT ![h] = "tokens"] /\ msg' = [msg EXCEPT ![h] = e]
    BY <1>3 DEF Deliver, CanDeliver, decision
  <2>2. session[h].stopped = FALSE /\ session[h].record = None
    BY <2>1 DEF WorkInv, NewSession
  <2>3. Accounted(h)'
    BY <2>1, <2>2, Fields DEF Accounted
  <2>4. QED
    BY <2>1, <2>3, Fields, OtherDecisions
<1>4. ASSUME NEW h \in Handler,
             \/ Undecodable(h) \/ TokensRefused(h) \/ Deliberate(h) \/ GatesPass(h) \/ ModelEnds(h)
             \/ ModelCalledAgain(h) \/ DeliberationFails(h) \/ JournalDecision(h)
             \/ AlreadyJournaled(h)
      PROVE  DecisionInv'
  <2>1. UNCHANGED <<wiring, kind, msg, session, outcome, decided, todo, taken, intents, signed>>
    BY <1>4 DEF Undecodable, TokensRefused, Deliberate, GatesPass, ModelEnds,
         ModelCalledAgain, DeliberationFails, JournalDecision, AlreadyJournaled, world, decision
  <2>2. PICK s \in Step \ {"act"} : pc' = [pc EXCEPT ![h] = s]
    BY <1>4 DEF Undecodable, TokensRefused, Deliberate, GatesPass, ModelEnds,
         ModelCalledAgain, DeliberationFails, JournalDecision, AlreadyJournaled, Step
  <2>3. Accounted(h)
    BY DEF DecisionInv
  <2>4. Accounted(h)'
    BY <2>1, <2>2, <2>3, Fields DEF Accounted, Guarded
  <2>5. QED
    BY <2>1, <2>2, <2>4, Fields, OtherDecisions
<1>5. ASSUME NEW h \in Handler, Ack(h) \/ Crash(h) PROVE DecisionInv'
  <2>1. Clear(h) /\ UNCHANGED <<wiring, kind>>
    BY <1>5 DEF Ack, Crash
  <2>2. pc'[h] = "idle" /\ session'[h].stopped = FALSE /\ session'[h].record = None
    BY <2>1, Fields DEF Clear, NewSession
  <2>3. Accounted(h)'
    BY <2>2 DEF Accounted
  <2>4. QED
    BY <1>1, <2>1, <2>3, Fields, OtherDecisions DEF Clear
<1>6. ASSUME NEW h \in Handler, RuleDecides(h) \/ GateStopped(h) \/ DeliberationReturns(h)
      PROVE  DecisionInv'
  <2>1. /\ UNCHANGED <<wiring, kind, msg, session, outcome, taken>>
        /\ pc' = [pc EXCEPT ![h] = "act"]
        /\ \A x \in Handler \ {h} : decided'[x] = decided[x] /\ todo'[x] = todo[x]
                                    /\ intents'[x] = intents[x] /\ signed'[x] = signed[x]
    BY <1>1, <1>6, Fields DEF RuleDecides, GateStopped, DeliberationReturns, Decided, world
  <2>2. ~outcome[h].journaled => todo'[h] = decided'[h]
    BY <1>1, <1>6, Fields DEF RuleDecides, GateStopped, DeliberationReturns, Decided
  <2>3. Accounted(h)
    BY DEF DecisionInv
  <2>4. Guarded => outcome[h].journaled
    <3>1. CASE RuleDecides(h)
      BY <3>1 DEF RuleDecides, WorkInv, Guarded
    <3>2. CASE GateStopped(h)
      BY <2>3, <3>2 DEF GateStopped, Accounted
    <3>3. CASE DeliberationReturns(h)
      <4>1. session[h].signatures = 1 /\ session[h].record # Invalid
        BY <3>3 DEF DeliberationReturns, OneSignature
      <4>2. session[h].record # None
        BY <4>1 DEF WorkInv
      <4>3. QED
        BY <2>3, <4>1, <4>2 DEF Accounted
    <3>4. QED
      BY <1>6, <3>1, <3>2, <3>3
  <2>5. ~outcome[h].journaled =>
          signed'[h] \/ (wiring.decider = "adk" /\ kind[msg[h]] = "screened")
    <3>1. CASE RuleDecides(h)
      BY <1>1, <3>1 DEF RuleDecides, Decided
    <3>2. CASE DeliberationReturns(h)
      <4>1. signed' = [signed EXCEPT ![h] = (session[h].signatures = 1)]
            /\ session[h].signatures = 1
        BY <3>2 DEF DeliberationReturns, OneSignature, Decided
      <4>2. QED
        BY <1>1, <4>1
    <3>3. CASE GateStopped(h)
      BY <2>3, <2>4, <3>3 DEF GateStopped, Accounted
    <3>4. QED
      BY <1>6, <3>1, <3>2, <3>3
  <2>6. Accounted(h)'
    BY <2>1, <2>2, <2>3, <2>4, <2>5 DEF Accounted, Guarded
  <2>7. QED
    BY <2>1, <2>6, Fields, OtherDecisions
<1>7. ASSUME NEW h \in Handler, GateBudget(h) \/ GateInjection(h) PROVE DecisionInv'
  <2>1. /\ UNCHANGED <<wiring, kind, msg, decided, todo, taken, intents, signed>>
        /\ pc[h] = "gate" /\ pc' = [pc EXCEPT ![h] = "return"]
        /\ session' = [session EXCEPT ![h].stopped = TRUE]
        /\ outcome' = [outcome EXCEPT ![h].intents = 1, ![h].journaled = @ \/ Guarded]
    BY <1>7 DEF GateBudget, GateInjection, ShortCircuit, world, decision
  <2>2. /\ \A x \in Handler \ {h} : pc'[x] = pc[x] /\ session'[x] = session[x]
                                    /\ outcome'[x] = outcome[x]
        /\ Guarded => outcome'[h].journaled
        /\ pc'[h] = "return"
    BY <2>1, Fields
  <2>3. ~Guarded => wiring.decider = "adk" /\ kind[msg[h]] = "screened"
    <3>1. ~Guarded => kind[msg[h]] = "screened"
      BY <1>7 DEF GateBudget, GateInjection, BudgetSpent
    <3>2. wiring.decider # "rule"
      BY <2>1 DEF WorkInv
    <3>3. QED
      BY <3>1, <3>2, Deciders
  <2>4. Accounted(h)'
    BY <2>1, <2>2, <2>3 DEF Accounted, Guarded
  <2>5. QED
    BY <2>1, <2>2, <2>4, OtherDecisions
<1>8. ASSUME NEW h \in Handler, ModelSigns(h) \/ ModelSignsInvalid(h) PROVE DecisionInv'
  <2>1. PICK r \in Decisions \cup {Invalid} :
          Signing(h, r) /\ (r = Invalid \/ ModelSigns(h))
    BY <1>8 DEF ModelSigns, ModelSignsInvalid
  <2>2. /\ pc' = [pc EXCEPT ![h] = "called"]
        /\ session' = [session EXCEPT ![h].signatures = @ + 1, ![h].record = r]
        /\ UNCHANGED <<wiring, kind, msg, decided, todo, taken, intents, signed>>
    BY <1>8, <2>1 DEF Signing, ModelSigns, ModelSignsInvalid, world, decision
  <2>3. \/ outcome' = outcome /\ ~ModelSigns(h)
        \/ \E t, n : outcome' = [outcome EXCEPT ![h].taken = t, ![h].intents = n,
                                                ![h].journaled = @ \/ Guarded]
    BY <1>8 DEF ModelSigns, ModelSignsInvalid
  <2>4. /\ \A x \in Handler \ {h} : pc'[x] = pc[x] /\ session'[x] = session[x]
        /\ session'[h].stopped = session[h].stopped /\ pc'[h] = "called"
        /\ session'[h].record = r
    BY <2>2, Fields
  <2>5. /\ \A x \in Handler \ {h} : outcome'[x] = outcome[x]
        /\ outcome[h].journaled => outcome'[h].journaled
        /\ Guarded /\ ModelSigns(h) => outcome'[h].journaled
    <3>1. CASE outcome' = outcome /\ ~ModelSigns(h)
      BY <3>1
    <3>2. CASE \E t, n : outcome' = [outcome EXCEPT ![h].taken = t, ![h].intents = n,
                                                    ![h].journaled = @ \/ Guarded]
      BY <3>2, Fields
    <3>3. QED
      BY <2>3, <3>1, <3>2
  <2>6. Accounted(h)
    BY DEF DecisionInv
  <2>7. Guarded /\ r \notin {Invalid, None} => outcome'[h].journaled
    BY <2>1, <2>5
  <2>8. Accounted(h)'
    BY <2>2, <2>4, <2>5, <2>6, <2>7 DEF Accounted, Guarded
  <2>9. QED
    BY <2>2, <2>4, <2>5, <2>8, OtherDecisions
<1>9. ASSUME NEW h \in Handler, RunVerb(h) \/ RefuseVerb(h) PROVE DecisionInv'
  <2>1. /\ UNCHANGED <<wiring, kind, pc, msg, session, outcome, decided, signed>>
        /\ \A x \in Handler \ {h} : taken'[x] = taken[x] /\ todo'[x] = todo[x]
                                    /\ intents'[x] = intents[x]
    BY <1>1, <1>9, Fields DEF RunVerb, RefuseVerb, world
  <2>2. taken'[h] # <<>> \/ intents'[h] # 0
    <3>1. CASE RunVerb(h)
      <4>1. taken'[h] = Append(taken[h], Head(todo[h])) /\ taken[h] \in Seq(Action)
        BY <3>1 DEF RunVerb, TypeOK
      <4>2. Head(todo[h]) \in Action
        BY <3>1, HeadTailProperties DEF RunVerb, TypeOK
      <4>3. QED
        BY <4>1, <4>2, AppendProperties
    <3>2. CASE RefuseVerb(h)
      BY <1>1, <3>2 DEF RefuseVerb
    <3>3. QED
      BY <1>9, <3>1, <3>2
  <2>3. Accounted(h)
    BY DEF DecisionInv
  <2>4. Accounted(h)'
    BY <2>1, <2>2, <2>3 DEF Accounted, Guarded
  <2>5. QED
    BY <2>1, <2>4, OtherDecisions
<1>10. QED
  BY <1>2, <1>3, <1>4, <1>5, <1>6, <1>7, <1>8, <1>9 DEF Next, HandleStep, DeciderStep

-----------------------------------------------------------------------------
\* What is held was decided, unless it was screened; with guardrails it is the
\* callbacks'.
Restrained(entry, e) ==
    Held(entry) =>
        IF Guarded THEN entry.tier2 /\ entry.counted = "callback"
        ELSE entry.signed \/ (wiring.decider = "adk" /\ kind[e] = "screened")

\* What the ledger and the actor make of an entry agrees, and so it is restrained.
Honest(entry, e) ==
    /\ entry.counted # "callback" => (Held(entry) <=> entry.counted = "declined")
    /\ Restrained(entry, e)

\* A journal that only honest entries are appended to stays honest.
LEMMA HonestEntry ==
  ASSUME TypeOK, LedgerAgrees, RestraintIsDecided, UNCHANGED <<wiring, kind>>,
         NEW h \in Handler, msg[h] \in Envelope, NEW entry \in Entry, Journal(h, entry),
         Honest(entry, msg[h])
  PROVE  LedgerAgrees' /\ RestraintIsDecided'
<1> SUFFICES ASSUME NEW e \in Envelope, NEW i \in 1..Len(journal'[e])
             PROVE  Honest(journal'[e][i], e)
  BY DEF LedgerAgrees, RestraintIsDecided, Held, Honest, Restrained, Guarded
<1>1. CASE i \in 1..Len(journal[e]) /\ journal'[e][i] = journal[e][i]
  BY <1>1 DEF LedgerAgrees, RestraintIsDecided, Honest, Restrained
<1>2. CASE journal'[e][i] = entry /\ e = msg[h]
  BY <1>2
<1>3. CASE e # msg[h]
  <2>1. journal'[e] = journal[e]
    BY <1>3, JournalAppends
  <2>2. QED
    BY <1>1, <2>1
<1>4. CASE e = msg[h]
  <2>1. journal'[e] = Append(journal[e], entry) /\ journal[e] \in Seq(Entry)
    BY <1>4, JournalAppends DEF TypeOK
  <2>2. Len(journal'[e]) = Len(journal[e]) + 1 /\ Len(journal[e]) \in Nat
    BY <2>1, AppendProperties, LenProperties
  <2>3. i \in 1..Len(journal[e]) \/ i = Len(journal[e]) + 1
    BY <2>2
  <2>4. CASE i \in 1..Len(journal[e])
    BY <1>1, <2>1, <2>4, AppendProperties
  <2>5. CASE i = Len(journal[e]) + 1
    BY <1>2, <1>4, <2>1, <2>5, AppendProperties
  <2>6. QED
    BY <2>3, <2>4, <2>5
<1>5. QED
  BY <1>3, <1>4

\* A refusal, an error and an entry of the callbacks are honest.
LEMMA HonestRefusals ==
  \A e : /\ Honest(NoDecision(0, TRUE, "none"), e) /\ Honest(NoDecision(1, FALSE, "none"), e)
        /\ Honest(NoDecision(0, TRUE, "errored"), e)
        /\ Honest(NoDecision(1, FALSE, "callback"), e)
  BY DEF Honest, Restrained, NoDecision, Held

\* Every entry is honest.
LEMMA HonestStep ==
  ASSUME TypeOK, WorkInv, BudgetInv, DecisionInv, LedgerAgrees, RestraintIsDecided, [Next]_vars
  PROVE  LedgerAgrees' /\ RestraintIsDecided'
<1>1. \A h \in Handler : pc[h] # "idle" => msg[h] \in Envelope
  BY DEF WorkInv
<1>2. CASE UNCHANGED <<wiring, kind, journal>>
  BY <1>2 DEF LedgerAgrees, RestraintIsDecided, Held, Guarded
<1>3. CASE (\E e \in Envelope : Publish(e)) \/ UNCHANGED vars
  BY <1>2, <1>3 DEF Publish, vars, world
<1>4. ASSUME NEW h \in Handler,
             \/ \E e \in Envelope : Deliver(h, e)
             \/ NewRun(h) \/ Ack(h) \/ Crash(h) \/ Deliberate(h) \/ RuleDecides(h) \/ GatesPass(h)
             \/ ModelEnds(h) \/ ModelCalledAgain(h) \/ ModelSignsInvalid(h) \/ GateStopped(h)
             \/ DeliberationReturns(h) \/ RunVerb(h) \/ RefuseVerb(h) \/ AlreadyJournaled(h)
      PROVE  LedgerAgrees' /\ RestraintIsDecided'
  <2>1. UNCHANGED <<wiring, kind, journal>>
    BY <1>4 DEF Deliver, NewRun, Ack, Crash, Deliberate, RuleDecides, GatesPass, ModelEnds,
         ModelCalledAgain, ModelSignsInvalid, GateStopped, DeliberationReturns, Decided, RunVerb,
         RefuseVerb, AlreadyJournaled, world
  <2>2. QED
    BY <1>2, <2>1
<1>5. ASSUME NEW h \in Handler,
             Undecodable(h) \/ TokensRefused(h) \/ DeliberationFails(h)
             \/ GateBudget(h) \/ GateInjection(h)
      PROVE  LedgerAgrees' /\ RestraintIsDecided'
  <2>1. /\ NoDecision(0, TRUE, "none") \in Entry /\ NoDecision(1, FALSE, "none") \in Entry
        /\ NoDecision(0, TRUE, "errored") \in Entry /\ NoDecision(1, FALSE, "callback") \in Entry
    BY NoDecisionTyped
  <2>2. UNCHANGED <<wiring, kind>> /\ msg[h] \in Envelope
    BY <1>1, <1>5 DEF Undecodable, TokensRefused, DeliberationFails, GateBudget, GateInjection,
         ShortCircuit, world
  <2>3. \/ journal' = journal
        \/ Journal(h, NoDecision(0, TRUE, "none")) \/ Journal(h, NoDecision(1, FALSE, "none"))
        \/ Journal(h, NoDecision(0, TRUE, "errored")) \/ Journal(h, NoDecision(1, FALSE, "callback"))
    BY <1>5 DEF Undecodable, TokensRefused, DeliberationFails, GateBudget, GateInjection,
         ShortCircuit
  <2>4. QED
    BY <1>2, <2>1, <2>2, <2>3, HonestRefusals, HonestEntry
<1>6. ASSUME NEW h \in Handler, ModelSigns(h) PROVE LedgerAgrees' /\ RestraintIsDecided'
  <2>1. PICK d \in Decisions :
          /\ Signing(h, d) /\ UNCHANGED <<wiring, kind>>
          /\ Guarded => Journal(h, [actions |-> Allowed(h, d), error |-> FALSE, tier2 |-> TRUE,
                                    intents |-> Len(d) - Len(Allowed(h, d)),
                                    counted |-> "callback", signed |-> FALSE])
          /\ ~Guarded => journal' = journal
    BY <1>6 DEF ModelSigns, world
  <2>2. PICK entry : entry = [actions |-> Allowed(h, d), error |-> FALSE, tier2 |-> TRUE,
                              intents |-> Len(d) - Len(Allowed(h, d)),
                              counted |-> "callback", signed |-> FALSE]
    OBVIOUS
  <2>3. entry \in Entry
    BY <2>2, AllowedTyped DEF Entry
  <2>4. msg[h] \in Envelope
    BY <1>1, <2>1 DEF Signing
  <2>5. entry.tier2 = TRUE /\ entry.counted = "callback"
    BY <2>2
  <2>6. Guarded => Honest(entry, msg[h])
    BY <2>5 DEF Honest, Restrained
  <2>7. QED
    BY <1>2, <2>1, <2>2, <2>3, <2>4, <2>6, HonestEntry
<1>7. ASSUME NEW h \in Handler, JournalDecision(h) PROVE LedgerAgrees' /\ RestraintIsDecided'
  <2>1. PICK entry : entry = [actions |-> taken[h], intents |-> intents[h], error |-> FALSE,
                              tier2 |-> TRUE, counted |-> Tally(h), signed |-> signed[h]]
    OBVIOUS
  <2>2. /\ pc[h] = "act" /\ todo[h] = <<>> /\ ~outcome[h].journaled
        /\ UNCHANGED <<wiring, kind>>
        /\ Journal(h, entry)
    BY <1>7, <2>1 DEF JournalDecision, world
  <2>3. entry \in Entry
    BY <2>1 DEF TypeOK, Entry, Tally
  <2>4. Accounted(h) /\ intents[h] \in Nat
    BY DEF DecisionInv, TypeOK
  <2>5. Held(entry) <=> taken[h] = <<>> /\ intents[h] = 0
    BY <2>1 DEF Held
  <2>6. Tally(h) = "declined" <=> taken[h] = <<>> /\ intents[h] = 0
    BY <2>2, <2>4 DEF Accounted, Tally
  <2>7. entry.counted = Tally(h) /\ entry.signed = signed[h]
    BY <2>1
  <2>8. Honest(entry, msg[h])
    <3>1. ~Guarded /\ (signed[h] \/ (wiring.decider = "adk" /\ kind[msg[h]] = "screened"))
      BY <2>2, <2>4 DEF Accounted
    <3>2. Restrained(entry, msg[h])
      BY <2>7, <3>1 DEF Restrained
    <3>3. QED
      BY <2>5, <2>6, <2>7, <3>2 DEF Honest
  <2>9. QED
    BY <1>1, <2>2, <2>3, <2>8, HonestEntry
<1>8. QED
  BY <1>3, <1>4, <1>5, <1>6, <1>7 DEF Next, HandleStep, DeciderStep

-----------------------------------------------------------------------------
\* Counting: two sets that share nothing, and a row of pairs.
LEMMA TwoParts ==
  ASSUME NEW A, NEW B, IsFiniteSet(A), IsFiniteSet(B), A \cap B = {}
  PROVE  /\ IsFiniteSet(A \cup B) /\ Cardinality(A) \in Nat /\ Cardinality(B) \in Nat
         /\ Cardinality(A \cup B) = Cardinality(A) + Cardinality(B)
<1>1. /\ IsFiniteSet(A \cup B)
      /\ Cardinality(A \cup B) = Cardinality(A) + Cardinality(B) - Cardinality(A \cap B)
  BY FS_Union
<1>2. Cardinality(A) \in Nat /\ Cardinality(B) \in Nat /\ Cardinality(A \cap B) = 0
  BY FS_CardinalityType, FS_EmptySet
<1>3. QED
  BY <1>1, <1>2

LEMMA RowCount ==
  ASSUME NEW x, NEW n \in Nat
  PROVE  IsFiniteSet({x} \X (1..n)) /\ Cardinality({x} \X (1..n)) = n
<1>1. IsFiniteSet({x}) /\ Cardinality({x}) = 1
  BY FS_Singleton
<1>2. IsFiniteSet(1..n) /\ Cardinality(1..n) = n
  BY FS_Interval
<1>3. /\ IsFiniteSet({x} \X (1..n))
      /\ Cardinality({x} \X (1..n)) = Cardinality({x}) * Cardinality(1..n)
  BY <1>1, <1>2, FS_Product
<1>4. QED
  BY <1>1, <1>2, <1>3

\* An entry adds its verbs to those on record.
LEMMA EntryCounts ==
  ASSUME TypeOK, CountInv, NEW h \in Handler, msg[h] \in Envelope, NEW entry \in Entry,
         Journal(h, entry), NEW e \in Envelope
  PROVE  /\ IsFiniteSet(JournaledVerbs(e)')
         /\ Journaled(e)' = Journaled(e) + IF e = msg[h] THEN Len(entry.actions) ELSE 0
         /\ Journaled(e) \in Nat /\ Len(entry.actions) \in Nat
<1>1. /\ IsFiniteSet(JournaledVerbs(e)) /\ Journaled(e) \in Nat /\ Len(entry.actions) \in Nat
  <2>1. entry.actions \in Seq(Action)
    BY DEF Entry
  <2>2. QED
    BY <2>1, FS_CardinalityType, LenProperties DEF CountInv, Journaled
<1>2. CASE e # msg[h]
  <2>1. journal'[e] = journal[e]
    BY <1>2, JournalAppends
  <2>2. JournaledVerbs(e)' = JournaledVerbs(e)
    BY <2>1 DEF JournaledVerbs
  <2>3. QED
    BY <1>1, <1>2, <2>2 DEF Journaled
<1>3. CASE e = msg[h]
  <2>1. PICK n : n = Len(journal[e])
    OBVIOUS
  <2>2. PICK row : row = {n + 1} \X (1..Len(entry.actions))
    OBVIOUS
  <2>3. /\ journal[e] \in Seq(Entry) /\ journal'[e] = Append(journal[e], entry) /\ n \in Nat
        /\ DOMAIN journal[e] = 1..n
    BY <1>3, <2>1, JournalAppends, LenProperties DEF TypeOK
  <2>4. /\ DOMAIN journal'[e] = 1..(n + 1) /\ journal'[e][n + 1] = entry
        /\ \A i \in 1..n : journal'[e][i] = journal[e][i]
    BY <2>1, <2>3, AppendProperties, LenProperties
  <2>5. JournaledVerbs(e)' = JournaledVerbs(e) \cup row
    <3>1. ASSUME NEW v PROVE v \in JournaledVerbs(e)' <=> v \in JournaledVerbs(e) \cup row
      <4>1. v \in JournaledVerbs(e)' <=>
              \E i \in 1..(n + 1) : v \in {i} \X (1..Len(journal'[e][i].actions))
        BY <2>4 DEF JournaledVerbs
      <4>2. v \in JournaledVerbs(e) <=> \E i \in 1..n : v \in {i} \X (1..Len(journal[e][i].actions))
        BY <2>3 DEF JournaledVerbs
      <4>3. 1..(n + 1) = (1..n) \cup {n + 1}
        BY <2>3
      <4>4. QED
        BY <2>2, <2>4, <4>1, <4>2, <4>3
    <3>2. QED
      BY <3>1
  <2>6. JournaledVerbs(e) \cap row = {}
    <3>1. ASSUME NEW v \in JournaledVerbs(e) PROVE v \notin row
      <4>1. PICK i \in 1..n : v \in {i} \X (1..Len(journal[e][i].actions))
        BY <2>3 DEF JournaledVerbs
      <4>2. v[1] = i /\ i # n + 1
        BY <2>3, <4>1
      <4>3. QED
        BY <2>2, <4>2
    <3>2. QED
      BY <3>1
  <2>7. IsFiniteSet(row) /\ Cardinality(row) = Len(entry.actions)
    BY <1>1, <2>2, RowCount
  <2>8. /\ IsFiniteSet(JournaledVerbs(e) \cup row)
        /\ Cardinality(JournaledVerbs(e) \cup row) = Cardinality(JournaledVerbs(e)) + Cardinality(row)
    BY <1>1, <2>6, <2>7, TwoParts
  <2>9. QED
    BY <1>1, <1>3, <2>5, <2>7, <2>8 DEF Journaled
<1>4. QED
  BY <1>2, <1>3

\* The verbs a handler holds for an envelope.
VerbsOf(h, e) == IF msg[h] = e /\ pc[h] = "act" THEN {h} \X (1..Len(taken[h])) ELSE {}
HeldBy(h, e) == IF msg[h] = e /\ pc[h] = "act" THEN Len(taken[h]) ELSE 0

\* What is in the hands of the handlers changes by what one of them takes or
\* lays down.
LEMMA HandCounts ==
  ASSUME TypeOK, TypeOK', CountInv, NEW h \in Handler, NEW e \in Envelope,
         \A x \in Handler \ {h} : pc'[x] = pc[x] /\ msg'[x] = msg[x] /\ taken'[x] = taken[x]
  PROVE  /\ IsFiniteSet(VerbsInHand(e)')
         /\ InHand(e)' = InHand(e) - HeldBy(h, e) + HeldBy(h, e)'
         /\ InHand(e) \in Nat /\ HeldBy(h, e) \in Nat /\ HeldBy(h, e)' \in Nat
         /\ InHand(e)' \in Nat /\ HeldBy(h, e) <= InHand(e)
<1>1. PICK others : others = VerbsInHand(e) \ VerbsOf(h, e)
  OBVIOUS
<1>2. Len(taken[h]) \in Nat /\ Len(taken'[h]) \in Nat
  BY LenProperties DEF TypeOK
<1>3. /\ IsFiniteSet(VerbsOf(h, e)) /\ Cardinality(VerbsOf(h, e)) = HeldBy(h, e)
      /\ HeldBy(h, e) \in Nat
  BY <1>2, RowCount, FS_EmptySet DEF VerbsOf, HeldBy
<1>4. /\ IsFiniteSet(VerbsOf(h, e)') /\ Cardinality(VerbsOf(h, e)') = HeldBy(h, e)'
      /\ HeldBy(h, e)' \in Nat
  BY <1>2, RowCount, FS_EmptySet DEF VerbsOf, HeldBy
<1>5. IsFiniteSet(VerbsInHand(e)) /\ InHand(e) \in Nat
  BY FS_CardinalityType DEF CountInv, InHand
<1>6. VerbsOf(h, e) \subseteq VerbsInHand(e)
  BY DEF VerbsOf, VerbsInHand
<1>7. IsFiniteSet(others) /\ VerbsInHand(e) = others \cup VerbsOf(h, e) /\ others \cap VerbsOf(h, e) = {}
  BY <1>1, <1>5, <1>6, FS_Subset
<1>8. others = UNION {VerbsOf(x, e) : x \in Handler \ {h}}
  BY <1>1 DEF VerbsOf, VerbsInHand
<1>9. \A x \in Handler \ {h} : VerbsOf(x, e)' = VerbsOf(x, e)
  BY DEF VerbsOf
<1>10. VerbsInHand(e)' = others \cup VerbsOf(h, e)' /\ others \cap VerbsOf(h, e)' = {}
  BY <1>8, <1>9 DEF VerbsOf, VerbsInHand
<1>11. /\ InHand(e) = Cardinality(others) + HeldBy(h, e)
       /\ Cardinality(others) \in Nat
  BY <1>3, <1>7, TwoParts DEF InHand
<1>12. /\ IsFiniteSet(VerbsInHand(e)')
       /\ InHand(e)' = Cardinality(others) + HeldBy(h, e)'
  BY <1>4, <1>7, <1>10, TwoParts DEF InHand
<1>13. QED
  BY <1>3, <1>4, <1>5, <1>11, <1>12
\* A step that writes no entry and runs no verb keeps the account of an envelope,
\* whatever becomes of the handler, unless verbs are lost that were in its hands.
LEMMA QuietCount ==
  ASSUME TypeOK, TypeOK', CountInv, RecordIsExact, NEW h \in Handler,
         UNCHANGED <<wiring, journal, ran>>,
         \A x \in Handler \ {h} : pc'[x] = pc[x] /\ msg'[x] = msg[x] /\ taken'[x] = taken[x],
         \/ crashes' = crashes /\ \A e \in Envelope : HeldBy(h, e)' = HeldBy(h, e)
         \/ crashes' # 0 /\ \A e \in Envelope : HeldBy(h, e)' <= HeldBy(h, e)
  PROVE  CountInv' /\ RecordIsExact'
<1>1. ASSUME NEW e \in Envelope
      PROVE  /\ IsFiniteSet(JournaledVerbs(e)') /\ IsFiniteSet(VerbsInHand(e)')
             /\ Journaled(e)' = Journaled(e) /\ ran'[e] = ran[e]
             /\ Journaled(e) \in Nat /\ ran[e] \in Nat
             /\ InHand(e) \in Nat /\ InHand(e)' \in Nat
             /\ \/ crashes' = crashes /\ InHand(e)' = InHand(e)
                \/ crashes' # 0 /\ InHand(e)' <= InHand(e)
  <2>1. JournaledVerbs(e)' = JournaledVerbs(e)
    BY DEF JournaledVerbs
  <2>2. IsFiniteSet(JournaledVerbs(e)) /\ Journaled(e) \in Nat /\ Journaled(e)' = Journaled(e)
    BY <2>1, FS_CardinalityType DEF CountInv, Journaled
  <2>3. ran[e] \in Nat
    BY DEF TypeOK
  <2>4. /\ IsFiniteSet(VerbsInHand(e)')
        /\ InHand(e)' = InHand(e) - HeldBy(h, e) + HeldBy(h, e)'
        /\ InHand(e) \in Nat /\ HeldBy(h, e) \in Nat /\ HeldBy(h, e)' \in Nat
        /\ InHand(e)' \in Nat
    BY HandCounts
  <2>5. \/ crashes' = crashes /\ InHand(e)' = InHand(e)
        \/ crashes' # 0 /\ InHand(e)' <= InHand(e)
    BY <2>4
  <2>6. QED
    BY <2>1, <2>2, <2>3, <2>4, <2>5
<1>2. CountInv'
  BY <1>1 DEF CountInv
<1>3. RecordIsExact'
  <2>1. Guarded' = Guarded
    BY DEF Guarded
  <2>2. ASSUME ~Guarded, NEW e \in Envelope
        PROVE  /\ Journaled(e)' + InHand(e)' <= ran'[e]
               /\ crashes' = 0 => Journaled(e)' + InHand(e)' = ran'[e]
    <3>1. /\ Journaled(e) + InHand(e) <= ran[e]
          /\ crashes = 0 => Journaled(e) + InHand(e) = ran[e]
      BY <2>2 DEF RecordIsExact
    <3>2. QED
      BY <1>1, <3>1
  <2>3. QED
    BY <2>1, <2>2 DEF RecordIsExact
<1>4. QED
  BY <1>2, <1>3

\* A step that journals what the handler holds, or nothing, keeps it too.
LEMMA EntryKeepsCount ==
  ASSUME TypeOK, TypeOK', CountInv, RecordIsExact, NEW h \in Handler, msg[h] \in Envelope,
         UNCHANGED <<wiring, msg, taken, ran, crashes>>,
         NEW entry \in Entry, Journal(h, entry),
         \A x \in Handler \ {h} : pc'[x] = pc[x],
         pc'[h] # "act",
         ~Guarded => Len(entry.actions) = HeldBy(h, msg[h])
  PROVE  CountInv' /\ RecordIsExact'
<1>1. ASSUME NEW e \in Envelope
      PROVE  /\ IsFiniteSet(JournaledVerbs(e)') /\ IsFiniteSet(VerbsInHand(e)')
             /\ ~Guarded => Journaled(e)' + InHand(e)' = Journaled(e) + InHand(e)
  <2>1. /\ IsFiniteSet(JournaledVerbs(e)')
        /\ Journaled(e)' = Journaled(e) + IF e = msg[h] THEN Len(entry.actions) ELSE 0
        /\ Journaled(e) \in Nat /\ Len(entry.actions) \in Nat
    BY EntryCounts
  <2>2. /\ IsFiniteSet(VerbsInHand(e)')
        /\ InHand(e)' = InHand(e) - HeldBy(h, e) + HeldBy(h, e)'
        /\ InHand(e) \in Nat /\ HeldBy(h, e) \in Nat
    BY HandCounts
  <2>3. HeldBy(h, e)' = 0
    BY DEF HeldBy
  <2>4. e # msg[h] => HeldBy(h, e) = 0
    BY DEF HeldBy
  <2>5. ASSUME ~Guarded PROVE Journaled(e)' + InHand(e)' = Journaled(e) + InHand(e)
    <3>1. Len(entry.actions) = HeldBy(h, msg[h])
      BY <2>5
    <3>2. CASE e = msg[h]
      BY <2>1, <2>2, <2>3, <3>1, <3>2
    <3>3. CASE e # msg[h]
      BY <2>1, <2>2, <2>3, <2>4, <3>3
    <3>4. QED
      BY <3>2, <3>3
  <2>6. QED
    BY <2>1, <2>2, <2>5
<1>2. CountInv'
  BY <1>1 DEF CountInv
<1>3. RecordIsExact'
  BY <1>1 DEF RecordIsExact, Guarded
<1>4. QED
  BY <1>2, <1>3

\* With guardrails the callbacks keep the record, and there is only to count.
LEMMA GuardedCounts ==
  ASSUME TypeOK, TypeOK', CountInv, NEW h \in Handler, msg[h] \in Envelope, Guarded,
         UNCHANGED wiring,
         \/ journal' = journal
         \/ \E entry \in Entry : Journal(h, entry),
         \A x \in Handler \ {h} : pc'[x] = pc[x] /\ msg'[x] = msg[x] /\ taken'[x] = taken[x]
  PROVE  CountInv' /\ RecordIsExact'
<1>1. ASSUME NEW e \in Envelope
      PROVE  IsFiniteSet(JournaledVerbs(e)') /\ IsFiniteSet(VerbsInHand(e)')
  <2>1. IsFiniteSet(VerbsInHand(e)')
    BY HandCounts
  <2>2. CASE journal' = journal
    <3>1. JournaledVerbs(e)' = JournaledVerbs(e)
      BY <2>2 DEF JournaledVerbs
    <3>2. QED
      BY <2>1, <3>1 DEF CountInv
  <2>3. CASE \E entry \in Entry : Journal(h, entry)
    BY <2>1, <2>3, EntryCounts
  <2>4. QED
    BY <2>2, <2>3
<1>2. QED
  BY <1>1 DEF CountInv, RecordIsExact, Guarded

\* A verb that runs is in the hands of its handler.
LEMMA VerbKeepsCount ==
  ASSUME TypeOK, TypeOK', WorkInv, CountInv, RecordIsExact, NEW h \in Handler, RunVerb(h)
  PROVE  CountInv' /\ RecordIsExact'
<1>1. /\ pc[h] = "act" /\ todo[h] # <<>> /\ msg[h] \in Envelope
      /\ UNCHANGED <<wiring, pc, msg, journal, crashes>>
      /\ taken' = [taken EXCEPT ![h] = Append(@, Head(todo[h]))]
      /\ ran' = [ran EXCEPT ![msg[h]] = @ + 1]
  BY DEF RunVerb, WorkInv, world
<1>2. Len(taken'[h]) = Len(taken[h]) + 1 /\ Len(taken[h]) \in Nat
  <2>1. taken[h] \in Seq(Action) /\ todo[h] \in Seq(Action)
    BY DEF TypeOK
  <2>2. Head(todo[h]) \in Action /\ taken'[h] = Append(taken[h], Head(todo[h]))
    BY <1>1, <2>1, HeadTailProperties, Fields
  <2>3. QED
    BY <2>1, <2>2, AppendProperties, LenProperties
<1>3. \A x \in Handler \ {h} : pc'[x] = pc[x] /\ msg'[x] = msg[x] /\ taken'[x] = taken[x]
  BY <1>1, Fields
<1>4. ASSUME NEW e \in Envelope
      PROVE  /\ IsFiniteSet(JournaledVerbs(e)') /\ IsFiniteSet(VerbsInHand(e)')
             /\ Journaled(e)' = Journaled(e) /\ Journaled(e) \in Nat
             /\ InHand(e) \in Nat /\ ran[e] \in Nat
             /\ \/ InHand(e)' = InHand(e) + 1 /\ ran'[e] = ran[e] + 1
                \/ InHand(e)' = InHand(e) /\ ran'[e] = ran[e]
  <2>1. JournaledVerbs(e)' = JournaledVerbs(e)
    BY <1>1 DEF JournaledVerbs
  <2>2. IsFiniteSet(JournaledVerbs(e)) /\ Journaled(e) \in Nat /\ Journaled(e)' = Journaled(e)
    BY <2>1, FS_CardinalityType DEF CountInv, Journaled
  <2>3. /\ IsFiniteSet(VerbsInHand(e)')
        /\ InHand(e)' = InHand(e) - HeldBy(h, e) + HeldBy(h, e)'
        /\ InHand(e) \in Nat /\ HeldBy(h, e) \in Nat /\ HeldBy(h, e)' \in Nat
        /\ InHand(e)' \in Nat
    BY <1>3, HandCounts
  <2>4. ran \in [Envelope -> Nat] /\ ran[e] \in Nat
    BY DEF TypeOK
  <2>5. CASE e = msg[h]
    <3>1. HeldBy(h, e)' = Len(taken'[h]) /\ HeldBy(h, e) = Len(taken[h])
      BY <1>1, <2>5 DEF HeldBy
    <3>2. HeldBy(h, e)' = HeldBy(h, e) + 1 /\ ran'[e] = ran[e] + 1
      BY <1>1, <1>2, <2>4, <2>5, <3>1
    <3>3. InHand(e)' = InHand(e) + 1
      BY <2>3, <3>2
    <3>4. QED
      BY <2>1, <2>2, <2>3, <2>4, <3>2, <3>3
  <2>6. CASE e # msg[h]
    <3>1. HeldBy(h, e)' = 0 /\ HeldBy(h, e) = 0 /\ ran'[e] = ran[e]
      BY <1>1, <2>4, <2>6 DEF HeldBy
    <3>2. InHand(e)' = InHand(e)
      BY <2>3, <3>1
    <3>3. QED
      BY <2>1, <2>2, <2>3, <2>4, <3>1, <3>2
  <2>7. QED
    BY <2>5, <2>6
<1>5. CountInv'
  BY <1>4 DEF CountInv
<1>6. RecordIsExact'
  <2>1. Guarded' = Guarded
    BY <1>1 DEF Guarded
  <2>2. ASSUME ~Guarded, NEW e \in Envelope
        PROVE  /\ Journaled(e)' + InHand(e)' <= ran'[e]
               /\ crashes' = 0 => Journaled(e)' + InHand(e)' = ran'[e]
    <3>1. /\ Journaled(e) + InHand(e) <= ran[e]
          /\ crashes = 0 => Journaled(e) + InHand(e) = ran[e]
      BY <2>2 DEF RecordIsExact
    <3>2. /\ Journaled(e)' = Journaled(e) /\ Journaled(e) \in Nat
          /\ InHand(e) \in Nat /\ ran[e] \in Nat
          /\ \/ InHand(e)' = InHand(e) + 1 /\ ran'[e] = ran[e] + 1
             \/ InHand(e)' = InHand(e) /\ ran'[e] = ran[e]
      BY <1>4
    <3>3. Journaled(e)' + InHand(e)' <= ran'[e]
      BY <3>1, <3>2
    <3>4. ASSUME crashes' = 0 PROVE Journaled(e)' + InHand(e)' = ran'[e]
      <4>1. Journaled(e) + InHand(e) = ran[e]
        BY <1>1, <3>1, <3>4
      <4>2. QED
        BY <3>2, <4>1
    <3>5. QED
      BY <3>3, <3>4
  <2>3. QED
    BY <2>1, <2>2 DEF RecordIsExact
<1>7. QED
  BY <1>5, <1>6

\* No step but a crash takes a verb off the account.
LEMMA CountStep ==
  ASSUME Inv, TypeOK', CountInv, RecordIsExact, [Next]_vars
  PROVE  CountInv' /\ RecordIsExact'
<1> USE DEF Inv
<1>1. \A h \in Handler : pc[h] # "idle" => msg[h] \in Envelope
  BY DEF WorkInv
<1>2. CASE (\E e \in Envelope : Publish(e)) \/ (\E h \in Handler : NewRun(h)) \/ UNCHANGED vars
  <2>1. UNCHANGED <<wiring, pc, msg, taken, journal, ran, crashes>>
    BY <1>2 DEF Publish, NewRun, vars, world, decision
  <2>2. /\ \A e \in Envelope : JournaledVerbs(e)' = JournaledVerbs(e)
        /\ \A e \in Envelope : VerbsInHand(e)' = VerbsInHand(e)
    BY <2>1 DEF JournaledVerbs, VerbsInHand
  <2>3. QED
    BY <2>1, <2>2 DEF CountInv, RecordIsExact, Journaled, InHand, Guarded
<1>3. ASSUME NEW h \in Handler,
             \/ \E e \in Envelope : Deliver(h, e)
             \/ Deliberate(h) \/ RuleDecides(h) \/ GatesPass(h) \/ ModelEnds(h)
             \/ ModelCalledAgain(h) \/ ModelSignsInvalid(h) \/ GateStopped(h)
             \/ DeliberationReturns(h) \/ RefuseVerb(h)
             \/ (GateBudget(h) \/ GateInjection(h) \/ ModelSigns(h)) /\ ~Guarded
      PROVE  CountInv' /\ RecordIsExact'
  <2>1. UNCHANGED <<wiring, journal, ran, crashes, taken>>
    BY <1>3 DEF Deliver, Deliberate, RuleDecides, GatesPass, ModelEnds, ModelCalledAgain,
         ModelSignsInvalid, GateStopped, DeliberationReturns, Decided, RefuseVerb, GateBudget,
         GateInjection, ShortCircuit, ModelSigns, world, decision
  <2>2. \A x \in Handler \ {h} : pc'[x] = pc[x] /\ msg'[x] = msg[x]
    <3>1. CASE \E e \in Envelope : Deliver(h, e)
      BY <3>1, Fields DEF Deliver
    <3>2. CASE ~(\E e \in Envelope : Deliver(h, e))
      <4>1. msg' = msg
        BY <1>3, <3>2 DEF Deliberate, RuleDecides, GatesPass, ModelEnds, ModelCalledAgain,
             ModelSignsInvalid, GateStopped, DeliberationReturns, Decided, RefuseVerb,
             GateBudget, GateInjection, ShortCircuit, ModelSigns
      <4>2. \A x \in Handler \ {h} : pc'[x] = pc[x]
        <5>1. pc' = pc \/ \E step : pc' = [pc EXCEPT ![h] = step]
          BY <1>3, <3>2 DEF Deliberate, RuleDecides, GatesPass, ModelEnds, ModelCalledAgain,
               ModelSignsInvalid, Signing, GateStopped, DeliberationReturns, Decided, RefuseVerb,
               GateBudget, GateInjection, ShortCircuit, ModelSigns
        <5>2. QED
          BY <5>1, Fields
      <4>3. QED
        BY <4>1, <4>2
    <3>3. QED
      BY <3>1, <3>2
  <2>3. taken[h] = <<>> \/ (pc'[h] = pc[h] /\ msg'[h] = msg[h])
    BY <1>3 DEF Deliver, CanDeliver, Deliberate, RuleDecides, GatesPass, ModelEnds,
         ModelCalledAgain, ModelSignsInvalid, Signing, GateStopped, DeliberationReturns, RefuseVerb,
         GateBudget, GateInjection, ModelSigns, WorkInv
  <2>4. Len(<<>>) = 0
    OBVIOUS
  <2>5. \A e \in Envelope : HeldBy(h, e)' = HeldBy(h, e)
    BY <2>1, <2>3, <2>4 DEF HeldBy
  <2>6. QED
    BY <2>1, <2>2, <2>5, QuietCount
<1>4. ASSUME NEW h \in Handler, Ack(h) PROVE CountInv' /\ RecordIsExact'
  <2>1. Clear(h) /\ UNCHANGED <<wiring, journal, ran, crashes>> /\ pc[h] = "ack"
    BY <1>4 DEF Ack, world
  <2>2. /\ pc'[h] = "idle"
        /\ \A x \in Handler \ {h} : pc'[x] = pc[x] /\ msg'[x] = msg[x] /\ taken'[x] = taken[x]
    BY <2>1, Fields DEF Clear
  <2>3. \A e \in Envelope : HeldBy(h, e)' = HeldBy(h, e)
    BY <2>1, <2>2 DEF HeldBy
  <2>4. QED
    BY <2>1, <2>2, <2>3, QuietCount
<1>5. ASSUME NEW h \in Handler, Crash(h) PROVE CountInv' /\ RecordIsExact'
  <2>1. Clear(h) /\ UNCHANGED <<wiring, journal, ran>> /\ crashes' = crashes + 1
    BY <1>5 DEF Crash
  <2>2. /\ pc'[h] = "idle"
        /\ \A x \in Handler \ {h} : pc'[x] = pc[x] /\ msg'[x] = msg[x] /\ taken'[x] = taken[x]
    BY <2>1, Fields DEF Clear
  <2>3. crashes' # 0
    BY <2>1, Bounds DEF TypeOK
  <2>4. Len(taken[h]) \in Nat
    BY LenProperties DEF TypeOK
  <2>5. \A e \in Envelope : HeldBy(h, e)' <= HeldBy(h, e)
    BY <2>2, <2>4 DEF HeldBy
  <2>6. QED
    BY <2>1, <2>2, <2>3, <2>5, QuietCount
<1>6. ASSUME NEW h \in Handler, Undecodable(h) \/ TokensRefused(h) \/ DeliberationFails(h)
      PROVE  CountInv' /\ RecordIsExact'
  <2>1. PICK entry : entry \in {NoDecision(0, TRUE, "none"), NoDecision(1, FALSE, "none"),
                                NoDecision(0, TRUE, "errored")} /\ Journal(h, entry)
    BY <1>6 DEF Undecodable, TokensRefused, DeliberationFails
  <2>2. /\ UNCHANGED <<wiring, msg, taken, ran, crashes>> /\ pc' = [pc EXCEPT ![h] = "ack"]
        /\ pc[h] \in {"tokens", "return"}
    BY <1>6 DEF Undecodable, TokensRefused, DeliberationFails, world, decision
  <2>3. entry \in Entry /\ entry.actions = <<>>
    <3>1. /\ NoDecision(0, TRUE, "none") \in Entry /\ NoDecision(1, FALSE, "none") \in Entry
          /\ NoDecision(0, TRUE, "errored") \in Entry
      BY NoDecisionTyped
    <3>2. \A n, b, as : NoDecision(n, b, as).actions = <<>>
      BY DEF NoDecision
    <3>3. QED
      BY <2>1, <3>1, <3>2
  <2>4. Len(entry.actions) = HeldBy(h, msg[h])
    BY <2>2, <2>3 DEF HeldBy
  <2>5. /\ \A x \in Handler \ {h} : pc'[x] = pc[x]
        /\ pc'[h] # "act" /\ msg[h] \in Envelope
    BY <1>1, <2>2, Fields
  <2>6. QED
    BY <2>1, <2>2, <2>3, <2>4, <2>5, EntryKeepsCount
<1>7. ASSUME NEW h \in Handler, JournalDecision(h) PROVE CountInv' /\ RecordIsExact'
  <2>1. PICK entry : entry = [actions |-> taken[h], intents |-> intents[h], error |-> FALSE,
                              tier2 |-> TRUE, counted |-> Tally(h), signed |-> signed[h]]
    OBVIOUS
  <2>2. /\ UNCHANGED <<wiring, msg, taken, ran, crashes>> /\ pc' = [pc EXCEPT ![h] = "ack"]
        /\ pc[h] = "act" /\ Journal(h, entry)
    BY <1>7, <2>1 DEF JournalDecision, world, decision
  <2>3. entry \in Entry /\ entry.actions = taken[h]
    BY <2>1 DEF TypeOK, Entry, Tally
  <2>4. Len(entry.actions) = HeldBy(h, msg[h])
    BY <2>2, <2>3 DEF HeldBy
  <2>5. /\ \A x \in Handler \ {h} : pc'[x] = pc[x]
        /\ pc'[h] # "act" /\ msg[h] \in Envelope
    BY <1>1, <2>2, Fields
  <2>6. QED
    BY <2>2, <2>3, <2>4, <2>5, EntryKeepsCount
<1>8. ASSUME NEW h \in Handler,
             \/ AlreadyJournaled(h)
             \/ (GateBudget(h) \/ GateInjection(h) \/ ModelSigns(h)) /\ Guarded
      PROVE  CountInv' /\ RecordIsExact'
  <2>1. Guarded
    BY <1>8 DEF AlreadyJournaled, AckInv, OnRecord
  <2>2. UNCHANGED <<wiring, msg, taken>> /\ msg[h] \in Envelope
    BY <1>1, <1>8 DEF AlreadyJournaled, GateBudget, GateInjection, ShortCircuit, ModelSigns, Signing,
         world, decision
  <2>3. \A x \in Handler \ {h} : pc'[x] = pc[x]
    <3>1. PICK step : pc' = [pc EXCEPT ![h] = step]
      BY <1>8 DEF AlreadyJournaled, GateBudget, GateInjection, ShortCircuit, ModelSigns, Signing
    <3>2. QED
      BY <3>1, Fields
  <2>4. journal' = journal \/ \E entry \in Entry : Journal(h, entry)
    <3>1. CASE AlreadyJournaled(h)
      BY <3>1 DEF AlreadyJournaled
    <3>2. CASE GateBudget(h) \/ GateInjection(h)
      <4>1. NoDecision(1, FALSE, "callback") \in Entry
        BY NoDecisionTyped
      <4>2. QED
        BY <3>2, <4>1 DEF GateBudget, GateInjection, ShortCircuit
    <3>3. CASE ModelSigns(h)
      <4>1. PICK d \in Decisions :
              Guarded => Journal(h, [actions |-> Allowed(h, d), error |-> FALSE, tier2 |-> TRUE,
                                     intents |-> Len(d) - Len(Allowed(h, d)),
                                     counted |-> "callback", signed |-> FALSE])
        BY <3>3 DEF ModelSigns
      <4>2. [actions |-> Allowed(h, d), error |-> FALSE, tier2 |-> TRUE,
             intents |-> Len(d) - Len(Allowed(h, d)), counted |-> "callback", signed |-> FALSE]
              \in Entry
        BY AllowedTyped DEF Entry
      <4>3. QED
        BY <2>1, <4>1, <4>2
    <3>4. QED
      BY <1>8, <3>1, <3>2, <3>3
  <2>5. QED
    BY <2>1, <2>2, <2>3, <2>4, GuardedCounts
<1>9. ASSUME NEW h \in Handler, RunVerb(h) PROVE CountInv' /\ RecordIsExact'
  BY <1>9, VerbKeepsCount
<1>10. QED
  BY <1>2, <1>3, <1>4, <1>5, <1>6, <1>7, <1>8, <1>9 DEF Next, HandleStep, DeciderStep

-----------------------------------------------------------------------------
\* Before anything is published nothing is on record.
LEMMA InitInv == Init => Inv
<1> SUFFICES ASSUME Init PROVE Inv
  OBVIOUS
<1>1. TypeOK
  <2>1. /\ NewSession \in [signatures : 0..MaxSignatures, stopped : BOOLEAN,
                           record : Decisions \cup {Invalid, None}]
        /\ NewOutcome \in [taken : Seq(Action), intents : Nat, journaled : BOOLEAN]
    BY Bounds DEF NewSession, NewOutcome
  <2>2. kind \in [wiring.envelopes -> Kinds]
    BY DEF Init
  <2>3. deliveries \in [Envelope -> 0..MaxDeliveries] /\ crashes \in 0..MaxCrashes
    BY Bounds DEF Init
  <2>4. QED
    BY <2>1, <2>2, <2>3 DEF Init, TypeOK, Step
<1>2. WorkInv
  BY DEF Init, WorkInv, NewSession
<1>3. BudgetInv
  BY Bounds DEF Init, BudgetInv, WithinBudget, NewOutcome, NewSession
<1>4. AckInv
  BY DEF Init, AckInv, OnRecord, NothingLostOnAck, NewOutcome
<1>5. DecisionInv
  BY DEF Init, DecisionInv, Accounted, NewSession
<1>6. LedgerAgrees /\ RestraintIsDecided
  BY DEF Init, LedgerAgrees, RestraintIsDecided
<1>7. QED
  BY <1>1, <1>2, <1>3, <1>4, <1>5, <1>6 DEF Inv

\* Every step of an observer, a handler or its decider keeps the invariant.
LEMMA StepInv == Inv /\ [Next]_vars => Inv'
<1> SUFFICES ASSUME Inv, [Next]_vars PROVE Inv'
  OBVIOUS
<1> USE DEF Inv
<1>1. TypeOK'
  BY WorldTyped, HandlerTyped, DeciderTyped DEF Next, HandleStep
<1>2. WorkInv'
  BY WorldWork, HandleWork DEF Next
<1>3. BudgetInv' /\ AckInv' /\ DecisionInv' /\ LedgerAgrees' /\ RestraintIsDecided'
  BY BudgetStep, AckStep, DecisionStep, HonestStep
<1>4. QED
  BY <1>1, <1>2, <1>3

LEMMA Invariance == Spec => []Inv
  BY InitInv, StepInv, PTL DEF Spec

\* The subscription, the handlers, the sessions and the journal are what the
\* code takes them for.
THEOREM TypeCorrect == Spec => []TypeOK
<1>1. Inv => TypeOK
  BY DEF Inv
<1>2. QED
  BY <1>1, Invariance, PTL

\* Every verb is paid for once, whether the callbacks spend or the actor does,
\* and no handler exceeds its budget.
THEOREM EveryVerbIsPaidFor == Spec => []PaidFor
<1>1. Inv => PaidFor
  BY DEF Inv, BudgetInv, WithinBudget, Charged, PaidFor
<1>2. QED
  BY <1>1, Invariance, PTL

\* What Pub/Sub will not deliver again is on record.
THEOREM AckedIsJournaled == Spec => []NothingLostOnAck
<1>1. Inv => NothingLostOnAck
  BY DEF Inv, AckInv
<1>2. QED
  BY <1>1, Invariance, PTL

\* The ledger counts as held what the actor tallied as declined.
THEOREM TheLedgerAgrees == Spec => []LedgerAgrees
<1>1. Inv => LedgerAgrees
  BY DEF Inv
<1>2. QED
  BY <1>1, Invariance, PTL

\* Nothing is held that one signature did not decide to hold, but what an
\* AdkDecider without guardrails screened, and what a callback wrote before the
\* deliberation was over.
THEOREM HeldWasDecided == Spec => []RestraintIsDecided
<1>1. Inv => RestraintIsDecided
  BY DEF Inv
<1>2. QED
  BY <1>1, Invariance, PTL

\* An entry claims exactly the verbs that ran for its envelope, and a verb is off
\* the record only in the hands of its handler or when a handler died.
THEOREM TheRecordIsExact == Spec => []RecordIsExact
<1>1. Init => CountInv /\ RecordIsExact
  <2>1. ASSUME Init, NEW e \in Envelope
        PROVE  /\ IsFiniteSet(JournaledVerbs(e)) /\ IsFiniteSet(VerbsInHand(e))
               /\ Journaled(e) = 0 /\ InHand(e) = 0 /\ ran[e] = 0
    <3>1. JournaledVerbs(e) = {} /\ VerbsInHand(e) = {}
      BY <2>1 DEF Init, JournaledVerbs, VerbsInHand
    <3>2. QED
      BY <2>1, <3>1, FS_EmptySet DEF Init, Journaled, InHand
  <2>2. QED
    BY <2>1 DEF CountInv, RecordIsExact
<1>2. Inv /\ Inv' /\ CountInv /\ RecordIsExact /\ [Next]_vars => (CountInv /\ RecordIsExact)'
  BY CountStep DEF Inv
<1>3. QED
  BY <1>1, <1>2, Invariance, PTL DEF Spec
=============================================================================

---------------------------- MODULE Triage_proofs ----------------------------
(***************************************************************************)
(* What becomes of a comparison on its way through the tiers: for all      *)
(* counts, any thresholds, any number of attempts and whatever the models  *)
(* answer, sign or fail to.                                                *)
(***************************************************************************)
EXTENDS Triage, Looks_proofs

\* A verdict is tier one's, or the floor's, and the floor alone settles what it
\* can; none is given before, and none without triage.
VerdictInv ==
    /\ stage \in {"idle", "looked", "floor", "asked"} => verdict = NoVerdict
    /\ stage \in {"idle", "looked"} => route = "loop"
    /\ stage \in {"floor", "asked"} => route # "direct"
    /\ route = "direct" => verdict = NoVerdict
    /\ stage \in {"gate", "deliberate", "done"} /\ route # "direct" => verdict # NoVerdict
    /\ verdict # NoVerdict =>
         /\ verdict.by \in Judges
         /\ verdict.by = "floor" <=> RuleVerdict(delta) # "ask" /\ verdict.by # "refused"
         /\ verdict.by = "floor" => verdict.significant = (RuleVerdict(delta) = "escalate")
         /\ verdict.by = "refused" => verdict.significant = FALSE
         /\ verdict.by \in {"rules", "fallback"} => verdict.significant = RuleTriage

\* Gemma is asked about what the floor leaves open, and heard only then.
HeardInv ==
    /\ stage = "asked" => RuleVerdict(delta) = "ask"
    /\ verdict = NoVerdict => heard = FALSE
    /\ verdict # NoVerdict => (verdict.by = "gemma") = heard

\* A decision is the policy's of this comparison, or it commits to all that was
\* named; without one nothing is committed to.
Committed(record) ==
    IF record.tool = "policy" THEN record.actions = Policy
    ELSE (record.label \notin Undecided /\ record.tool # Decline)
           => record.actions = {ActionOf(name) : name \in {record.tool} \cup record.also}

\* Tier two runs after a verdict that escalates, or without one; a decline names
\* no other tool.
DecisionInv ==
    /\ decision # NoDecision => stage = "done"
    /\ stage = "deliberate" /\ route # "direct" => verdict.significant
    /\ stage = "done" /\ route # "direct" => (decision # NoDecision) = verdict.significant
    /\ decision # NoDecision => Committed(decision)
    /\ (decision # NoDecision /\ decision.tool = Decline) => decision.also = {}

Inv == LooksTyped /\ TypeOK /\ VerdictInv /\ HeardInv /\ DecisionInv

-----------------------------------------------------------------------------
\* As long as the comparison stands, so does all that is read from it.
LEMMA SameComparison ==
  ASSUME UNCHANGED <<vars, jump>>
  PROVE  /\ RuleVerdict(delta)' = RuleVerdict(delta) /\ Policy' = Policy
         /\ RuleTriage' = RuleTriage /\ (LooksTyped => LooksTyped')
<1>1. old' = old /\ new' = new /\ jump' = jump
  BY DEF vars
<1>2. delta' = delta
  BY <1>1 DEF delta
<1>3. QED
  BY <1>1, <1>2 DEF RuleVerdict, Policy, RuleTriage, LooksTyped

\* A verdict is made of what it says.
LEMMA VerdictFields ==
  ASSUME NEW b \in BOOLEAN, NEW basis \in Bases, NEW by \in Judges
  PROVE  /\ Verdict(b, basis, by) \in Verdicts /\ Verdict(b, basis, by) # NoVerdict
         /\ Verdict(b, basis, by).significant = b /\ Verdict(b, basis, by).by = by
<1>1. Verdict(b, basis, by) \in Verdicts
  BY DEF Verdict, Verdicts
<1>2. Verdict(b, basis, by).significant = b /\ Verdict(b, basis, by).by = by
  BY DEF Verdict
<1>3. QED
  BY <1>1, <1>2, TriageAssumption DEF TriageAssumption

\* The words of the floor and of the tiers.
LEMMA BasesAreWords ==
  /\ \A d : RuleVerdict(d) \in {"decline", "escalate", "ask"}
  /\ \A o, d : RuleBasis(o, d) \in Bases
  /\ Weighed \in Bases /\ RuleTriage \in BOOLEAN
<1>1. \A d : RuleVerdict(d) \in {"decline", "escalate", "ask"}
  BY DEF RuleVerdict
<1>2. ASSUME NEW o, NEW d PROVE RuleBasis(o, d) \in Bases
  <2>1. CASE d.why = "query"
    BY <2>1 DEF RuleBasis, Bases
  <2>2. CASE d.why # "query" /\ d.why = "quarantine"
    BY <2>2 DEF RuleBasis, Bases
  <2>3. CASE d.why # "query" /\ d.why # "quarantine"
    BY <2>3 DEF RuleBasis, Bases
  <2>4. QED
    BY <2>1, <2>2, <2>3
<1>3. Weighed \in Bases
  BY DEF Weighed, Bases
<1>4. RuleTriage \in BOOLEAN
  BY Zenon DEF RuleTriage
<1>5. QED
  BY <1>1, <1>2, <1>3, <1>4

\* A tier settles a comparison that had no verdict.
LEMMA SettleStep ==
  ASSUME Inv, stage \in {"floor", "asked"},
         NEW b \in BOOLEAN, NEW basis \in Bases, NEW by \in Judges,
         Settle(Verdict(b, basis, by)),
         by = "floor" <=> RuleVerdict(delta) # "ask" /\ by # "refused",
         by = "floor" => b = (RuleVerdict(delta) = "escalate"),
         by = "refused" => b = FALSE,
         by \in {"rules", "fallback"} => b = RuleTriage,
         attempt' = attempt, heard' \in BOOLEAN, heard' = (by = "gemma")
  PROVE  Inv'
<1>1. UNCHANGED <<vars, jump>> /\ route' = route /\ decision' = decision /\ stage' = "gate"
      /\ verdict' = Verdict(b, basis, by)
  BY DEF Settle
<1>2. /\ verdict' \in Verdicts /\ verdict' # NoVerdict
      /\ verdict'.significant = b /\ verdict'.by = by
  BY <1>1, VerdictFields
<1>3. /\ RuleVerdict(delta)' = RuleVerdict(delta) /\ Policy' = Policy
      /\ RuleTriage' = RuleTriage /\ LooksTyped'
  BY <1>1, SameComparison DEF Inv
<1>4. TypeOK'
  BY <1>1, <1>2 DEF Inv, TypeOK
<1>5. VerdictInv'
  BY <1>1, <1>2, <1>3 DEF Inv, VerdictInv
<1>6. HeardInv'
  BY <1>1, <1>2, <1>3 DEF HeardInv
<1>7. DecisionInv'
  BY <1>1 DEF Inv, DecisionInv
<1>8. QED
  BY <1>3, <1>4, <1>5, <1>6, <1>7 DEF Inv

-----------------------------------------------------------------------------
\* Nothing is settled when a behaviour begins.
LEMMA InitInv == JudgeInit => Inv
<1> SUFFICES ASSUME JudgeInit PROVE Inv
  OBVIOUS
<1>1. LooksTyped
  BY DEF JudgeInit, Init, LooksTyped
<1>2. TypeOK
  <2>1. 0 \in 0..Attempts
    BY TriageAssumption DEF TriageAssumption
  <2>2. QED
    BY <2>1 DEF JudgeInit, TypeOK
<1>3. VerdictInv /\ HeardInv /\ DecisionInv
  BY DEF JudgeInit, VerdictInv, HeardInv, DecisionInv
<1>4. QED
  BY <1>1, <1>2, <1>3 DEF Inv

\* A comparison comes and goes without a verdict.
LEMMA RoundStep ==
  ASSUME Inv, NextLook \/ Leave \/ \E r \in {"loop", "graph", "direct"} : Take(r)
  PROVE  Inv'
<1>1. CASE NextLook
  <2>1. /\ stage = "idle" /\ stage' = "looked" /\ jump' \in Jumps
        /\ UNCHANGED <<route, attempt, heard, verdict, decision>>
    BY <1>1 DEF NextLook
  <2>2. LooksTyped'
    BY <1>1 DEF NextLook, Look, Inv, LooksTyped
  <2>3. verdict = NoVerdict /\ heard = FALSE /\ decision = NoDecision /\ route = "loop"
    BY <2>1 DEF Inv, VerdictInv, HeardInv, DecisionInv
  <2>4. TypeOK'
    BY <2>1 DEF Inv, TypeOK
  <2>5. VerdictInv' /\ HeardInv' /\ DecisionInv'
    BY <2>1, <2>3 DEF VerdictInv, HeardInv, DecisionInv
  <2>6. QED
    BY <2>2, <2>4, <2>5 DEF Inv
<1>2. CASE Leave
  <2>1. /\ stage' = "idle" /\ route' = "loop" /\ attempt' = 0 /\ heard' = FALSE
        /\ verdict' = NoVerdict /\ decision' = NoDecision /\ UNCHANGED <<vars, jump>>
    BY <1>2 DEF Leave
  <2>2. LooksTyped'
    BY <2>1, SameComparison DEF Inv
  <2>3. TypeOK'
    <3>1. 0 \in 0..Attempts
      BY TriageAssumption DEF TriageAssumption
    <3>2. QED
      BY <2>1, <3>1 DEF Inv, TypeOK
  <2>4. VerdictInv' /\ HeardInv' /\ DecisionInv'
    BY <2>1 DEF VerdictInv, HeardInv, DecisionInv
  <2>5. QED
    BY <2>2, <2>3, <2>4 DEF Inv
<1>3. ASSUME NEW r \in {"loop", "graph", "direct"}, Take(r) PROVE Inv'
  <2>1. /\ stage = "looked" /\ route' = r /\ stage' = IF r = "direct" THEN "gate" ELSE "floor"
        /\ UNCHANGED <<vars, jump>> /\ UNCHANGED <<attempt, heard, verdict, decision>>
    BY <1>3 DEF Take, FirstStage
  <2>2. LooksTyped'
    BY <2>1, SameComparison DEF Inv
  <2>3. verdict = NoVerdict /\ heard = FALSE /\ decision = NoDecision
    BY <2>1 DEF Inv, VerdictInv, HeardInv, DecisionInv
  <2>4. TypeOK'
    BY <2>1 DEF Inv, TypeOK
  <2>5. VerdictInv' /\ HeardInv' /\ DecisionInv'
    BY <2>1, <2>3 DEF VerdictInv, HeardInv, DecisionInv
  <2>6. QED
    BY <2>2, <2>4, <2>5 DEF Inv
<1>4. QED
  BY <1>1, <1>2, <1>3

\* The floor, the thresholds and the graph's refusal settle it at once.
LEMMA FloorSettles ==
  ASSUME Inv, Floor \/ Malformed \/ AskRules
  PROVE  Inv'
<1>1. stage = "floor" /\ UNCHANGED <<attempt, heard>> /\ heard = FALSE
  BY DEF Floor, Malformed, AskRules, Inv, VerdictInv, HeardInv
<1>2. CASE Floor
  <2>1. PICK b, basis : /\ b = (RuleVerdict(delta) = "escalate")
                        /\ basis = IF route = "graph" THEN "unrecorded" ELSE RuleBasis(old, delta)
    OBVIOUS
  <2>2. RuleVerdict(delta) # "ask" /\ Settle(Verdict(b, basis, "floor"))
    BY <1>2, <2>1 DEF Floor
  <2>3. b \in BOOLEAN /\ basis \in Bases
    BY <2>1, BasesAreWords DEF Bases
  <2>4. QED
    BY <1>1, <2>1, <2>2, <2>3, SettleStep DEF Judges
<1>3. CASE Malformed
  <2>1. Settle(Verdict(FALSE, "unreliable", "refused"))
    BY <1>3 DEF Malformed
  <2>2. QED
    BY <1>1, <2>1, SettleStep DEF Judges, Bases
<1>4. CASE AskRules
  <2>1. RuleVerdict(delta) = "ask" /\ Settle(Verdict(RuleTriage, Weighed, "rules"))
    BY <1>4 DEF AskRules
  <2>2. QED
    BY <1>1, <2>1, SettleStep, BasesAreWords DEF Judges
<1>5. QED
  BY <1>2, <1>3, <1>4

\* Gemma settles what the floor left open, or the thresholds in its place.
LEMMA GemmaSettles ==
  ASSUME Inv, \/ AskGemma \/ Unparsed
              \/ \E retryable \in BOOLEAN : CallFails(retryable)
              \/ \E word \in {"escalate", "ignore", "defer"} : Answers(word)
  PROVE  Inv'
<1>1. CASE AskGemma
  <2>1. /\ stage = "floor" /\ RuleVerdict(delta) = "ask" /\ stage' = "asked" /\ attempt' = 1
        /\ UNCHANGED <<vars, jump>> /\ UNCHANGED <<route, heard, verdict, decision>>
    BY <1>1 DEF AskGemma
  <2>2. /\ RuleVerdict(delta)' = RuleVerdict(delta) /\ LooksTyped'
    BY <2>1, SameComparison DEF Inv
  <2>3. /\ verdict = NoVerdict /\ heard = FALSE /\ decision = NoDecision /\ route # "direct"
    BY <2>1 DEF Inv, VerdictInv, HeardInv, DecisionInv
  <2>4. TypeOK'
    <3>1. 1 \in 0..Attempts
      BY TriageAssumption DEF TriageAssumption
    <3>2. QED
      BY <2>1, <3>1 DEF Inv, TypeOK
  <2>5. VerdictInv' /\ HeardInv' /\ DecisionInv'
    BY <2>1, <2>2, <2>3 DEF VerdictInv, HeardInv, DecisionInv
  <2>6. QED
    BY <2>2, <2>4, <2>5 DEF Inv
<1>2. ASSUME stage = "asked", attempt < Attempts, AskAgain PROVE Inv'
  <2>1. /\ attempt' = attempt + 1 /\ UNCHANGED <<vars, jump>>
        /\ UNCHANGED <<route, stage, heard, verdict, decision>>
    BY <1>2 DEF AskAgain
  <2>2. /\ RuleVerdict(delta)' = RuleVerdict(delta) /\ LooksTyped'
    BY <2>1, SameComparison DEF Inv
  <2>3. /\ verdict = NoVerdict /\ heard = FALSE /\ decision = NoDecision /\ route # "direct"
        /\ RuleVerdict(delta) = "ask"
    BY <1>2 DEF Inv, VerdictInv, HeardInv, DecisionInv
  <2>4. TypeOK'
    <3>1. attempt + 1 \in 0..Attempts
      BY <1>2, TriageAssumption DEF TriageAssumption, Inv, TypeOK
    <3>2. QED
      BY <2>1, <3>1 DEF Inv, TypeOK
  <2>5. VerdictInv' /\ HeardInv' /\ DecisionInv'
    BY <1>2, <2>1, <2>2, <2>3 DEF VerdictInv, HeardInv, DecisionInv
  <2>6. QED
    BY <2>2, <2>4, <2>5 DEF Inv
<1>3. ASSUME stage = "asked", FallBack PROVE Inv'
  <2>1. Settle(Verdict(RuleTriage, Weighed, "fallback")) /\ attempt' = attempt /\ heard' = heard
    BY <1>3 DEF FallBack
  <2>2. RuleVerdict(delta) = "ask" /\ heard = FALSE
    BY <1>3 DEF Inv, VerdictInv, HeardInv
  <2>3. QED
    BY <1>3, <2>1, <2>2, SettleStep, BasesAreWords DEF Judges
<1>4. CASE Unparsed \/ \E retryable \in BOOLEAN : CallFails(retryable)
  <2>1. stage = "asked" /\ ((attempt < Attempts /\ AskAgain) \/ FallBack)
    BY <1>4 DEF Unparsed, CallFails
  <2>2. QED
    BY <1>2, <1>3, <2>1
<1>5. ASSUME NEW word \in {"escalate", "ignore", "defer"}, Answers(word) PROVE Inv'
  <2>1. PICK b, basis : /\ b = (word = "escalate")
                        /\ basis = IF word = "defer" THEN "triage_defer" ELSE "triage"
    OBVIOUS
  <2>2. /\ stage = "asked" /\ heard' = TRUE /\ attempt' = attempt
        /\ Settle(Verdict(b, basis, "gemma"))
    BY <1>5, <2>1 DEF Answers
  <2>3. b \in BOOLEAN /\ basis \in Bases /\ RuleVerdict(delta) = "ask"
    BY <2>1, <2>2 DEF Bases, Inv, HeardInv
  <2>4. QED
    BY <2>2, <2>3, SettleStep DEF Judges
<1>6. QED
  BY <1>1, <1>4, <1>5

-----------------------------------------------------------------------------
\* The policy names verbs of the contract.
LEMMA PolicyNamed == Policy \subseteq Named
  BY DEF Policy, Named, Verbs

\* What a signature names is a name.
LEMMA SignatureNamed ==
  ASSUME NEW s \in Signatures
  PROVE  /\ s.tool \in Named /\ s.also \subseteq Named /\ s.tool # "policy"
         /\ {ActionOf(name) : name \in {s.tool} \cup s.also} \subseteq Named
         /\ s.tool = Decline => s.also = {}
<1>1. s.tool \in Tools \/ (s.tool = Decline /\ s.also = {})
  BY TriageAssumption DEF TriageAssumption
<1>2. s.tool \in Named /\ s.tool # "policy"
  BY <1>1 DEF Named, Tools, Decline
<1>3. s.also \subseteq Named /\ \A name \in s.also : ActionOf(name) \in Named
  BY DEF Named
<1>4. ActionOf(s.tool) \in Named
  BY <1>1 DEF Named, Verbs, Tools, Decline, ActionOf
<1>5. s.tool = Decline => s.also = {}
  BY <1>1 DEF Tools, Decline
<1>6. QED
  BY <1>2, <1>3, <1>4, <1>5

\* The gate lets through what escalated, and what nobody triaged.
LEMMA GateStep == Inv /\ Gate => Inv'
<1> SUFFICES ASSUME Inv, Gate PROVE Inv'
  OBVIOUS
<1>1. /\ stage = "gate" /\ UNCHANGED <<vars, jump>> /\ UNCHANGED <<route, attempt, heard>>
      /\ verdict' = verdict /\ decision' = decision
      /\ stage' = IF verdict = NoVerdict \/ verdict.significant THEN "deliberate" ELSE "done"
  BY DEF Gate
<1>2. /\ RuleVerdict(delta)' = RuleVerdict(delta) /\ Policy' = Policy
      /\ RuleTriage' = RuleTriage /\ LooksTyped'
  BY <1>1, SameComparison DEF Inv
<1>3. decision = NoDecision /\ (route = "direct" <=> verdict = NoVerdict)
  BY <1>1 DEF Inv, VerdictInv, DecisionInv
<1>4. TypeOK'
  BY <1>1 DEF Inv, TypeOK
<1>5. VerdictInv' /\ HeardInv'
  BY <1>1, <1>2, <1>3 DEF Inv, VerdictInv, HeardInv
<1>6. DecisionInv'
  <2>1. CASE verdict = NoVerdict \/ verdict.significant
    BY <1>1, <1>3, <2>1 DEF DecisionInv
  <2>2. CASE verdict # NoVerdict /\ ~verdict.significant
    <3>1. verdict.significant = FALSE
      BY <2>2 DEF Inv, TypeOK, Verdicts
    <3>2. stage' = "done" /\ decision' = NoDecision /\ verdict'.significant = FALSE
      BY <1>1, <1>3, <2>2, <3>1
    <3>3. QED
      BY <3>2 DEF DecisionInv
  <2>3. QED
    BY <2>1, <2>2
<1>7. QED
  BY <1>2, <1>4, <1>5, <1>6 DEF Inv

\* Tier two decides, once, and what it decides is on record.
LEMMA DecideStep ==
  ASSUME Inv, stage = "deliberate",
         NEW label \in {"act", "decline"} \cup Undecided, NEW actions \in SUBSET Named,
         NEW tool \in Named, NEW also \in SUBSET Named,
         Decide(label, actions, tool, also),
         tool = "policy" => actions = Policy,
         tool = Decline => also = {},
         (tool # "policy" /\ label \notin Undecided /\ tool # Decline)
            => actions = {ActionOf(name) : name \in {tool} \cup also}
  PROVE  Inv'
<1>1. /\ UNCHANGED <<vars, jump>> /\ UNCHANGED <<route, attempt, heard, verdict>>
      /\ stage' = "done"
      /\ decision' = [label |-> label, actions |-> actions, tool |-> tool, also |-> also]
  BY DEF Decide
<1>2. /\ RuleVerdict(delta)' = RuleVerdict(delta) /\ Policy' = Policy
      /\ RuleTriage' = RuleTriage /\ LooksTyped'
  BY <1>1, SameComparison DEF Inv
<1>3. decision' \in DecisionRecords /\ decision' # NoDecision
  <2>1. decision' \in DecisionRecords
    BY <1>1 DEF DecisionRecords
  <2>2. QED
    BY <2>1, TriageAssumption DEF TriageAssumption
<1>4. TypeOK'
  BY <1>1, <1>3 DEF Inv, TypeOK
<1>5. VerdictInv' /\ HeardInv'
  BY <1>1, <1>2 DEF Inv, VerdictInv, HeardInv
<1>6. /\ decision'.label = label /\ decision'.actions = actions
      /\ decision'.tool = tool /\ decision'.also = also
  BY <1>1
<1>7. route # "direct" => verdict.significant = TRUE
  BY DEF Inv, TypeOK, VerdictInv, DecisionInv, Verdicts
<1>8. DecisionInv'
  <2>1. (route' # "direct") => (decision' # NoDecision) = verdict'.significant
    BY <1>1, <1>3, <1>7, Zenon
  <2>2. Committed(decision)'
    BY <1>2, <1>6 DEF Committed
  <2>3. decision'.tool = Decline => decision'.also = {}
    BY <1>6
  <2>4. QED
    BY <1>1, <2>1, <2>2, <2>3 DEF DecisionInv
<1>9. QED
  BY <1>2, <1>4, <1>5, <1>8 DEF Inv

\* RuleDecider's policy decides.
LEMMA RuleDecidesStep == Inv /\ RuleDecides => Inv'
<1> SUFFICES ASSUME Inv, RuleDecides PROVE Inv'
  OBVIOUS
<1>1. PICK label : label = IF Policy = {} THEN "decline" ELSE "act"
  OBVIOUS
<1>2. /\ stage = "deliberate" /\ label \in {"act", "decline"} \cup Undecided
      /\ Decide(label, Policy, "policy", {})
  BY <1>1 DEF RuleDecides
<1>3. "policy" \in Named /\ {} \in SUBSET Named /\ Policy \in SUBSET Named
  BY PolicyNamed DEF Named
<1>4. "policy" # Decline
  BY DEF Decline
<1>5. QED
  BY <1>2, <1>3, <1>4, DecideStep

\* A deliberation ends without a signature that counts.
LEMMA UnsignedStep == Inv /\ Unsigned => Inv'
<1> SUFFICES ASSUME Inv, Unsigned PROVE Inv'
  OBVIOUS
<1>1. PICK label \in Undecided : Decide(label, {}, "unsigned", {})
  BY DEF Unsigned
<1>2. stage = "deliberate" /\ "unsigned" \in Named /\ {} \in SUBSET Named
  BY DEF Unsigned, Named
<1>3. "unsigned" # Decline /\ "unsigned" # "policy"
  BY DEF Decline
<1>4. QED
  BY <1>1, <1>2, <1>3, DecideStep

\* A model signs a tool; what the contract refuses commits to nothing.
LEMMA ModelSignsStep ==
  ASSUME Inv, NEW s \in Signatures, ModelSigns(s.tool, s.also, s.justified)
  PROVE  Inv'
<1>1. /\ stage = "deliberate" /\ s.tool \in Named /\ s.also \in SUBSET Named
      /\ s.tool # "policy" /\ (s.tool = Decline => s.also = {})
      /\ {ActionOf(name) : name \in {s.tool} \cup s.also} \in SUBSET Named
  BY SignatureNamed DEF ModelSigns
<1>2. {} \in SUBSET Named /\ "error" \in Undecided
  BY DEF Undecided
<1>3. CASE Decide("error", {}, s.tool, s.also)
  BY <1>1, <1>2, <1>3, DecideStep
<1>4. CASE /\ Accepted(Signed(s.tool, s.also), s.justified)
           /\ Decide(Signed(s.tool, s.also).label, Signed(s.tool, s.also).actions, s.tool, s.also)
  <2>1. CASE s.tool = Decline
    <3>1. Decide("decline", {}, s.tool, s.also)
      BY <1>4, <2>1 DEF Signed
    <3>2. QED
      BY <1>1, <1>2, <2>1, <3>1, DecideStep
  <2>2. CASE s.tool # Decline
    <3>1. Decide("act", {ActionOf(name) : name \in {s.tool} \cup s.also}, s.tool, s.also)
      BY <1>4, <2>2 DEF Signed
    <3>2. QED
      BY <1>1, <2>2, <3>1, DecideStep
  <2>3. QED
    BY <2>1, <2>2
<1>5. QED
  BY <1>3, <1>4, Zenon DEF ModelSigns

\* Every step keeps the invariant.
LEMMA StepInv == Inv /\ [JudgeNext]_<<vars, judged>> => Inv'
<1> SUFFICES ASSUME Inv, [JudgeNext]_<<vars, judged>> PROVE Inv'
  OBVIOUS
<1>1. CASE UNCHANGED <<vars, judged>>
  <2>1. /\ UNCHANGED <<vars, jump>>
        /\ UNCHANGED <<route, stage, attempt, heard, verdict, decision>>
    BY <1>1 DEF judged
  <2>2. /\ RuleVerdict(delta)' = RuleVerdict(delta) /\ Policy' = Policy
        /\ RuleTriage' = RuleTriage /\ LooksTyped'
    BY <2>1, SameComparison DEF Inv
  <2>3. QED
    BY <2>1, <2>2 DEF Inv, TypeOK, VerdictInv, HeardInv, DecisionInv, Committed
<1>2. CASE NextLook \/ Leave \/ \E r \in {"loop", "graph", "direct"} : Take(r)
  BY <1>2, RoundStep
<1>3. CASE Floor \/ Malformed \/ AskRules
  BY <1>3, FloorSettles
<1>4. CASE \/ AskGemma \/ Unparsed
           \/ \E retryable \in BOOLEAN : CallFails(retryable)
           \/ \E word \in {"escalate", "ignore", "defer"} : Answers(word)
  BY <1>4, GemmaSettles
<1>5. CASE \E s \in Signatures : ModelSigns(s.tool, s.also, s.justified)
  BY <1>5, ModelSignsStep
<1>6. QED
  BY <1>1, <1>2, <1>3, <1>4, <1>5, GateStep, RuleDecidesStep, UnsignedStep, Zenon
  DEF JudgeNext, JudgeStep

\* The invariant holds throughout.
LEMMA Invariance == JudgeSpec => []Inv
  BY InitInv, StepInv, PTL DEF JudgeSpec

-----------------------------------------------------------------------------
\* For all counts and thresholds, the tiers keep to their types.
THEOREM TypeCorrect == JudgeSpec => []TypeOK
<1>1. Inv => TypeOK
  BY DEF Inv
<1>2. QED
  BY <1>1, Invariance, PTL

\* A verdict names Gemma exactly if Gemma was heard, for any number of attempts.
THEOREM CreditIsDue == JudgeSpec => []CreditWhereDue
<1>1. Inv => CreditWhereDue
  BY DEF Inv, HeardInv, CreditWhereDue
<1>2. QED
  BY <1>1, Invariance, PTL

\* Tier two runs exactly after a verdict that escalates, on both routes.
THEOREM TheGateHolds == JudgeSpec => []GateHolds
<1>1. Inv => GateHolds
  BY DEF Inv, VerdictInv, DecisionInv, GateHolds
<1>2. QED
  BY <1>1, Invariance, PTL

\* A comparable rise of deaths escalates at the floor, and the policy and
\* whoever names a flag flag it.
LEMMA DeathsStep == Inv => DeathsReachTierTwo
<1> SUFFICES ASSUME Inv, stage = "done", route # "direct", verdict.by # "refused",
                    Comparable, Rose("fatal")
             PROVE  /\ verdict.by = "floor"
                    /\ decision # NoDecision
                    /\ (/\ decision.label \notin Undecided
                        /\ decision.tool = "policy" \/ "flag" \in {decision.tool} \cup decision.also)
                          => "flag" \in decision.actions
  BY DEF DeathsReachTierTwo
<1>1. RuleVerdict(delta) = "escalate"
  BY FloorStep DEF Inv, FloorIsExact
<1>2. verdict # NoVerdict /\ verdict.by = "floor"
  BY <1>1 DEF Inv, VerdictInv
<1>3. verdict.significant = TRUE
  BY <1>1, <1>2 DEF Inv, VerdictInv
<1>4. decision # NoDecision
  BY <1>3 DEF Inv, DecisionInv
<1>5. delta.newFatal > 0
  BY RisesAreCounted DEF Inv
<1>6. "flag" \in Policy
  BY <1>5 DEF Policy
<1>7. Committed(decision) /\ (decision.tool = Decline => decision.also = {})
  BY <1>4 DEF Inv, DecisionInv
<1>8. CASE decision.tool = "policy"
  BY <1>2, <1>4, <1>6, <1>7, <1>8 DEF Committed
<1>9. CASE /\ decision.tool # "policy" /\ decision.label \notin Undecided
           /\ "flag" \in {decision.tool} \cup decision.also
  <2>1. decision.tool # Decline
    BY <1>7, <1>9 DEF Decline
  <2>2. ActionOf("flag") \in decision.actions
    BY <1>7, <1>9, <2>1 DEF Committed
  <2>3. ActionOf("flag") = "flag"
    BY DEF ActionOf
  <2>4. QED
    BY <1>2, <1>4, <2>2, <2>3
<1>10. QED
  BY <1>2, <1>4, <1>8, <1>9

\* For all counts, a new death on a comparable record reaches tier two by the
\* floor, and a human if the policy decided or the decision names a flag.
THEOREM DeathsAreHeard == JudgeSpec => []DeathsReachTierTwo
  BY DeathsStep, Invariance, PTL

\* The numbers a comparison yields.
LEMMA DeltaNumbers ==
  ASSUME LooksTyped
  PROVE  delta.newCollisions \in Nat /\ delta.reportsChange \in Int
<1>1. CASE ~Comparable
  BY <1>1, NotComparableRefused DEF NotCompared
<1>2. CASE Comparable
  <2>1. delta.newCollisions \in Nat
    BY <1>2, RisesAreCounted
  <2>2. delta.reportsChange = new.counts.reports - old.counts.reports
    BY <1>2, ComparableCounts, ComparedFields
  <2>3. old.counts.reports \in Nat /\ new.counts.reports \in Nat
    BY <1>2, ComparableCounts, LooksAssumption DEF SmallCounts, LooksAssumption
  <2>4. QED
    BY <2>1, <2>2, <2>3
<1>3. QED
  BY <1>1, <1>2

\* What the thresholds escalate is work for the policy.
LEMMA ThresholdsMeanWork ==
  ASSUME Inv, RuleTriage, jump >= ReauditAt
  PROVE  Policy # {}
<1>1. delta.newCollisions \in Nat /\ delta.reportsChange \in Int
  BY DeltaNumbers DEF Inv
<1>2. jump \in Nat /\ ReauditAt \in Nat /\ MinCollisions \in Nat \ {0}
  BY TriageAssumption DEF TriageAssumption, Inv, TypeOK
<1>3. CASE delta.newCollisions > 0
  <2>1. "rescore" \in Policy
    BY <1>3 DEF Policy
  <2>2. QED
    BY <2>1
<1>4. CASE delta.districtChanged
  <2>1. "regenerate_letter" \in Policy
    BY <1>4 DEF Policy
  <2>2. QED
    BY <2>1
<1>5. CASE delta.newCollisions = 0 /\ Abs(delta.reportsChange) >= jump
  <2>1. Abs(delta.reportsChange) >= ReauditAt
    <3>1. Abs(delta.reportsChange) \in Int
      BY <1>1 DEF Abs
    <3>2. QED
      BY <1>2, <1>5, <3>1
  <2>2. "reaudit_imagery" \in Policy
    BY <1>5, <2>1 DEF Policy
  <2>3. QED
    BY <2>2
<1>6. delta.newCollisions >= MinCollisions => delta.newCollisions > 0
  BY <1>1, <1>2
<1>7. delta.newCollisions > 0 \/ delta.newCollisions = 0
  BY <1>1
<1>8. QED
  BY <1>3, <1>4, <1>5, <1>6, <1>7 DEF RuleTriage

\* What the floor or the thresholds escalate, the policy acts on.
LEMMA TiersStep == Inv => TiersAgree
<1> SUFFICES ASSUME Inv, decision # NoDecision, verdict # NoVerdict, jump >= ReauditAt,
                    decision.tool = "policy", verdict.by \in {"floor", "rules", "fallback"}
             PROVE  Policy # {}
  BY DEF TiersAgree, Inv, DecisionInv, Committed
<1>1. verdict.significant = TRUE
  BY DEF Inv, TypeOK, VerdictInv, DecisionInv, Verdicts
<1>2. CASE verdict.by = "floor"
  <2>1. RuleVerdict(delta) = "escalate"
    BY <1>1, <1>2 DEF Inv, VerdictInv
  <2>2. delta.newFatal > 0 \/ delta.newSevere > 0
    BY <2>1 DEF RuleVerdict
  <2>3. "rescore" \in Policy
    BY <2>2 DEF Policy
  <2>4. QED
    BY <2>3
<1>3. CASE verdict.by \in {"rules", "fallback"}
  <2>1. RuleTriage
    BY <1>1, <1>3, Zenon DEF Inv, VerdictInv
  <2>2. QED
    BY <2>1, ThresholdsMeanWork
<1>4. QED
  BY <1>2, <1>3

\* For any bar no lower than the re-audit swing, what the rules escalate the
\* policy acts on.
THEOREM RulesNeverWasteTierTwo == JudgeSpec => []TiersAgree
  BY TiersStep, Invariance, PTL

\* The floor is exact and no lane cancels another while the tiers judge.
THEOREM TheFloorStands == JudgeSpec => [](FloorIsExact /\ NothingCancelled /\ RefusedMeansSilent)
<1>1. Inv => FloorIsExact /\ NothingCancelled /\ RefusedMeansSilent
  BY FloorStep, NothingCancelledStep, RefusedStep DEF Inv
<1>2. QED
  BY <1>1, Invariance, PTL
=============================================================================

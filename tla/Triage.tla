-------------------------------- MODULE Triage --------------------------------
(***************************************************************************)
(* brains.py, contract.py and adk_graph.py: from the comparison of two     *)
(* looks to a decision.  The floor settles what it can; the ambiguous      *)
(* middle goes to tier one, Gemma with retries and the thresholds to fall  *)
(* back on, or the thresholds alone; what tier one escalates goes to tier  *)
(* two, RuleDecider or a model that signs a tool.                          *)
(*                                                                         *)
(* Tier one is reached on two routes: the loop of observer and actor, and  *)
(* the graph that `adk web` draws, where a gate in front of tier two reads *)
(* the verdict off the session.  On a third, "direct", tier two is invoked *)
(* without any triage, as the eval harness does.  The looks are those of   *)
(* Looks; the budgets in between are in Sweep and Actor.                   *)
(***************************************************************************)
EXTENDS Looks, Sequences, FiniteSets

CONSTANTS
    Attempts,       \* attempts: calls of Gemma for one delta
    Jumps,          \* the values reports_311_jump may be raised through
    MinCollisions,  \* min_new_collisions
    ReauditAt,      \* the 311 swing at which RuleDecider re-audits
    Signatures,     \* bound: the tool a model may call, with the tools it names
                    \* besides and whether its verdict is justified
    NoVerdict,      \* the session holds no verdict of tier one
    NoDecision      \* tier two has not decided

VARIABLES
    jump,           \* the calibrated bar for a 311 swing
    route,          \* how the comparison reaches the tiers
    stage,          \* where the judgment is
    attempt,        \* calls of Gemma so far
    heard,          \* history: Gemma has given an answer that parses
    verdict,        \* what tier one, or the floor, said
    decision        \* what tier two said

judged == <<jump, route, stage, attempt, heard, verdict, decision>>

L == INSTANCE Ledger

Verbs == {"rescore", "regenerate_letter", "reaudit_imagery", "flag"}
Tools == {"rescore", "regenerate_letter", "re_audit", "flag"}
Decline == "decline"

\* TOOL_TO_ACTION: a tool the model calls is an action of the journal; a name
\* that is no tool's is left as it is.
ActionOf(name) == IF name = "re_audit" THEN "reaudit_imagery" ELSE name

Abs(n) == IF n < 0 THEN -n ELSE n

Verdict(significant, basis, by) == [significant |-> significant, basis |-> basis, by |-> by]

\* What a verdict may be based on, who gives it, and what tier two may name.
Bases == {"first_sighting", "methodology", "corrupt_baseline", "unreliable", "rule_fatal",
          "rule_severe", "no_change", "triage", "triage_defer", "unrecorded"}

Judges == {"floor", "refused", "rules", "fallback", "gemma"}

Named == Verbs \cup Tools \cup {Decline, "policy", "unsigned"}
           \cup UNION {s.also \cup {ActionOf(name) : name \in s.also} : s \in Signatures}

Verdicts == [significant : BOOLEAN, basis : Bases, by : Judges]

\* What becomes of a deliberation without a decision: an error, or the screen
\* stopped it before the model.
Undecided == {"error", "screened"}

DecisionRecords == [label : {"act", "decline"} \cup Undecided, actions : SUBSET Named,
                    tool : Named, also : SUBSET Named]

\* A model can only call a tool it is given, and decline takes no others along.
ASSUME TriageAssumption ==
    /\ Attempts \in Nat \ {0} /\ Jumps \subseteq Nat \ {0} /\ MinCollisions \in Nat \ {0}
    /\ ReauditAt \in Nat \ {0}
    /\ \A s \in Signatures : s.tool \in Tools \/ (s.tool = Decline /\ s.also = {})
    /\ NoVerdict \notin Verdicts /\ NoDecision \notin DecisionRecords

\* Without triage the comparison is at tier two already.
FirstStage(r) == IF r = "direct" THEN "gate" ELSE "floor"

JudgeInit ==
    /\ Init
    /\ jump \in Jumps
    /\ route = "loop" /\ stage = "looked"
    /\ attempt = 0 /\ heard = FALSE
    /\ verdict = NoVerdict /\ decision = NoDecision

\* The next look at the corner, perhaps with a bar that was raised.
NextLook ==
    /\ stage = "idle"
    /\ Look
    /\ jump' \in {j \in Jumps : j >= jump}
    /\ stage' = "looked"
    /\ UNCHANGED <<route, attempt, heard, verdict, decision>>

\* The comparison is handed to the tiers.
Take(r) ==
    /\ stage = "looked"
    /\ route' = r /\ stage' = FirstStage(r)
    /\ UNCHANGED <<vars, jump, attempt, heard, verdict, decision>>

\* One comparison is through; nothing of it stays behind for the next.
Leave ==
    /\ stage = "done"
    /\ stage' = "idle" /\ route' = "loop"
    /\ attempt' = 0 /\ heard' = FALSE
    /\ verdict' = NoVerdict /\ decision' = NoDecision
    /\ UNCHANGED <<vars, jump>>

-----------------------------------------------------------------------------
\* Tier one has spoken, or the floor: the gate is next.
Settle(v) ==
    /\ verdict' = v
    /\ stage' = "gate"
    /\ UNCHANGED <<vars, jump, route, decision>>

\* The floor settles it before any tier; the graph leaves the basis out.
Floor ==
    /\ stage = "floor"
    /\ RuleVerdict(delta) # "ask"
    /\ Settle(Verdict(RuleVerdict(delta) = "escalate",
                      IF route = "graph" THEN "unrecorded" ELSE RuleBasis(old, delta), "floor"))
    /\ UNCHANGED <<attempt, heard>>

\* Mutant of Malformed: the session is left blank.
MalformedBlank ==
    /\ stage = "floor" /\ route = "graph"
    /\ Settle(NoVerdict)
    /\ UNCHANGED <<attempt, heard>>

\* The graph is given something that is no envelope: a refusal is written.
Malformed ==
    /\ stage = "floor" /\ route = "graph"
    /\ Settle(Verdict(FALSE, "unreliable", "refused"))
    /\ UNCHANGED <<attempt, heard>>

\* RuleTriage: the thresholds.
RuleTriage ==
    \/ delta.newCollisions >= MinCollisions
    \/ delta.districtChanged
    \/ Abs(delta.reportsChange) >= jump

\* The basis of a verdict that carries none: the observer makes it "triage".
Weighed == IF route = "graph" THEN "unrecorded" ELSE "triage"

\* TRIAGE=rule, or no Vertex project: the thresholds stand in for Gemma.
AskRules ==
    /\ stage = "floor" /\ RuleVerdict(delta) = "ask"
    /\ Settle(Verdict(RuleTriage, Weighed, "rules"))
    /\ UNCHANGED <<attempt, heard>>

\* Gemma is called, up to Attempts times.
AskGemma ==
    /\ stage = "floor" /\ RuleVerdict(delta) = "ask"
    /\ stage' = "asked" /\ attempt' = 1
    /\ UNCHANGED <<vars, jump, route, heard, verdict, decision>>

AskAgain ==
    /\ attempt' = attempt + 1
    /\ UNCHANGED <<vars, jump, route, stage, heard, verdict, decision>>

\* Out of attempts: the thresholds decide, and the entry names them.
FallBack ==
    /\ Settle(Verdict(RuleTriage, Weighed, "fallback"))
    /\ UNCHANGED <<attempt, heard>>

\* The call raises; only backpressure is worth another attempt.
CallFails(retryable) ==
    /\ stage = "asked"
    /\ IF retryable /\ attempt < Attempts THEN AskAgain ELSE FallBack

\* Mutants of Unparsed: prose is read as an ignore; attempts are not counted.
UnparsedIgnored ==
    /\ stage = "asked"
    /\ Settle(Verdict(FALSE, "triage", "gemma"))
    /\ UNCHANGED <<attempt, heard>>

UnparsedOnceMore ==
    /\ stage = "asked"
    /\ IF attempt <= Attempts THEN AskAgain ELSE FallBack

\* A reply that is not the schema.
Unparsed ==
    /\ stage = "asked"
    /\ IF attempt < Attempts THEN AskAgain ELSE FallBack

\* Gemma answers; a defer keeps a basis of its own.
Answers(word) ==
    /\ stage = "asked"
    /\ heard' = TRUE
    /\ Settle(Verdict(word = "escalate", IF word = "defer" THEN "triage_defer" ELSE "triage",
                      "gemma"))
    /\ UNCHANGED attempt

-----------------------------------------------------------------------------
\* _gate_on_triage, and the loop's own test: tier two runs if tier one
\* escalated, or if there was no triage.
Gate ==
    /\ stage = "gate"
    /\ stage' = IF verdict = NoVerdict \/ verdict.significant THEN "deliberate" ELSE "done"
    /\ UNCHANGED <<vars, jump, route, attempt, heard, verdict, decision>>

\* What was decided, and the tools that were named for it.
Decide(label, actions, tool, also) ==
    /\ decision' = [label |-> label, actions |-> actions, tool |-> tool, also |-> also]
    /\ stage' = "done"
    /\ UNCHANGED <<vars, jump, route, attempt, heard, verdict>>

\* Mutant of Policy: imagery is looked at only above the swing.
PolicyAbove ==
    (IF delta.newFatal > 0 \/ delta.newSevere > 0 \/ delta.newCollisions > 0
       THEN {"rescore", "regenerate_letter"} ELSE {})
    \cup (IF delta.newFatal > 0 THEN {"flag"} ELSE {})
    \cup (IF delta.districtChanged THEN {"regenerate_letter"} ELSE {})
    \cup (IF Abs(delta.reportsChange) > ReauditAt /\ delta.newCollisions = 0
            THEN {"reaudit_imagery"} ELSE {})

\* RuleDecider.decide: the actions its policy asks for.
Policy ==
    (IF delta.newFatal > 0 \/ delta.newSevere > 0 \/ delta.newCollisions > 0
       THEN {"rescore", "regenerate_letter"} ELSE {})
    \cup (IF delta.newFatal > 0 THEN {"flag"} ELSE {})
    \cup (IF delta.districtChanged THEN {"regenerate_letter"} ELSE {})
    \cup (IF Abs(delta.reportsChange) >= ReauditAt /\ delta.newCollisions = 0
            THEN {"reaudit_imagery"} ELSE {})

RuleDecides ==
    /\ stage = "deliberate" /\ route = "loop"
    /\ Decide(IF Policy = {} THEN "decline" ELSE "act", Policy, "policy", {})

\* Mutant of Signed: only the tool that was called counts.
SignedAlone(tool, also) ==
    IF tool = Decline THEN [label |-> "decline", actions |-> {}]
    ELSE [label |-> "act", actions |-> {ActionOf(tool)}]

\* _sign: the record of one tool call and the tools it names besides.
Signed(tool, also) ==
    IF tool = Decline THEN [label |-> "decline", actions |-> {}]
    ELSE [label |-> "act", actions |-> {ActionOf(name) : name \in {tool} \cup also}]

\* parse_deliberation: known verbs only, an act acts, nothing else does, and
\* the verdict is justified in its own terms.
Accepted(record, justified) ==
    /\ record.label \in {"act", "decline", "defer"}
    /\ record.actions \subseteq Verbs
    /\ (record.label = "act") <=> (record.actions # {})
    /\ justified

\* A model signs one tool.  What the contract refuses is an error, no decision.
ModelSigns(tool, also, justified) ==
    /\ stage = "deliberate"
    /\ LET record == Signed(tool, also) IN
       IF Accepted(record, justified)
         THEN Decide(record.label, record.actions, tool, also)
         ELSE Decide("error", {}, tool, also)

\* No tool is called, or a second one, or the provider fails: an error.  Or the
\* screen stops the request before the model sees it.
Unsigned ==
    /\ stage = "deliberate"
    /\ \E label \in Undecided : Decide(label, {}, "unsigned", {})

JudgeStep ==
    \/ Floor \/ Malformed \/ AskRules \/ AskGemma
    \/ \E retryable \in BOOLEAN : CallFails(retryable)
    \/ Unparsed \/ \E word \in {"escalate", "ignore", "defer"} : Answers(word)
    \/ Gate \/ RuleDecides \/ Unsigned
    \/ \E signature \in Signatures : ModelSigns(signature.tool, signature.also, signature.justified)

JudgeNext ==
    \/ NextLook \/ Leave \/ \E r \in {"loop", "graph", "direct"} : Take(r)
    \/ JudgeStep

JudgeSpec == JudgeInit /\ [][JudgeNext]_<<vars, judged>>

-----------------------------------------------------------------------------
\* Type invariant of the judgment; the looks are typed by Looks.
TypeOK ==
    /\ jump \in Jumps
    /\ route \in {"loop", "graph", "direct"}
    /\ stage \in {"idle", "looked", "floor", "asked", "gate", "deliberate", "done"}
    /\ attempt \in 0..Attempts
    /\ heard \in BOOLEAN
    /\ verdict \in Verdicts \cup {NoVerdict}
    /\ decision \in DecisionRecords \cup {NoDecision}

\* A new death on a comparable record cannot be talked out of before tier two,
\* whatever reports 311 or a model has of it, and where a decision comes of it
\* a human is flagged if the policy decided or the model named a flag in any
\* place.  No more holds: a deliberation that ends without a decision flags
\* nobody, although docs/GEMINI_WIRING.md:172-176 asks for a flag by rule.
DeathsReachTierTwo ==
    (stage = "done" /\ route # "direct" /\ verdict.by # "refused"
       /\ Comparable /\ Rose("fatal")) =>
        /\ verdict.by = "floor"
        /\ decision # NoDecision
        /\ (/\ decision.label \notin Undecided
            /\ decision.tool = "policy" \/ "flag" \in {decision.tool} \cup decision.also)
              => "flag" \in decision.actions

\* The stand-ins of the two tiers agree: as long as the calibrated bar is no
\* lower than the swing the policy re-audits at, what the thresholds escalate
\* the policy acts on, so rules alone never waste tier two.
TiersAgree ==
    (/\ decision # NoDecision /\ verdict # NoVerdict /\ jump >= ReauditAt
     /\ decision.tool = "policy" /\ verdict.by \in {"floor", "rules", "fallback"})
        => decision.actions # {}

\* Credit where it is due: a verdict names Gemma exactly if one of the calls
\* gave an answer, whatever failed before it.
CreditWhereDue ==
    verdict # NoVerdict => (verdict.by = "gemma") = heard

\* Tier two runs in the graph exactly when the loop would have escalated, and
\* never on a message nobody could read.
GateHolds ==
    (stage = "done" /\ route # "direct") =>
        /\ verdict # NoVerdict
        /\ (decision # NoDecision) = verdict.significant

\* What schema.py and docs/GEMINI_WIRING.md say of a tier that timed out: it is
\* a defer, and never a decline somebody weighed.
UnansweredIsUnjudged ==
    (verdict # NoVerdict /\ verdict.by = "fallback" /\ ~verdict.significant)
        => verdict.basis \in L!UnjudgedBases
=============================================================================

------------------------------- MODULE MCActor -------------------------------
(* Instances of Actor for TLC. *)
EXTENDS Actor, TLC

CONSTANTS h1, h2, e1, e2, e3, rescore, flag

TwoHandlers == {h1, h2}
TwoEnvelopes == {e1, e2}
Envelopes == {e1, e2, e3}
Verbs == {rescore, flag}

\* To decline, and to do two things of which a budget of one refuses the second.
TwoDecisions == {<<>>, <<rescore, flag>>}
BothOnly == {<<rescore, flag>>}

Wired(behindPubSub, by, those, these) ==
    [push |-> behindPubSub, decider |-> by, handlers |-> those, envelopes |-> these]

\* Every wiring the code allows: deployed, two instances that may be handed one
\* escalation; local, one process whose budgets three escalations share.
AllWirings ==
    {Wired(TRUE, by, {h1, h2}, {e1}) : by \in {"rule", "adk", "guarded"}}
      \cup {Wired(FALSE, by, {h1}, Envelopes) : by \in {"rule", "adk", "guarded"}}

\* Deployed with one instance, as select_brains makes the decider ...
AsSelected == {Wired(TRUE, "adk", {h1}, TwoEnvelopes)}

\* ... and with the guardrails that adk_decider.py says production runs on.
AsClaimed == {Wired(TRUE, "guarded", {h1}, TwoEnvelopes)}
=============================================================================

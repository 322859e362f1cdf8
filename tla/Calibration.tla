----------------------------- MODULE Calibration -----------------------------
(***************************************************************************)
(* calibrate.py and schema.Calibration: what the journal says of tier      *)
(* one's bar for a 311 swing, and the one threshold a review may raise.    *)
(* Pure operators over a journal as in Ledger, whose entries carry tier    *)
(* one's "significant" too.                                                *)
(***************************************************************************)
EXTENDS Integers, Sequences, FiniteSets

CONSTANTS
    MinEvidence,    \* MIN_EVIDENCE
    Step,           \* STEP
    Floor,          \* the bounds of reports_311_jump ...
    Ceiling,
    Default,        \* ... and its value before any review
    HistoryLimit    \* adjustments the document keeps

ASSUME CalibrationAssumption ==
    /\ MinEvidence \in Nat \ {0} /\ Step \in Nat \ {0} /\ HistoryLimit \in Nat \ {0}
    /\ Floor \in Nat /\ Ceiling \in Nat /\ Default \in Floor..Ceiling

\* The document before any review.
Fresh == [jump |-> Default, history |-> <<>>]

\* An escalation tier two has decided: a failed one and one it never saw are
\* no evidence.
Escalations(journal) ==
    {i \in DOMAIN journal : ~journal[i].error /\ journal[i].significant /\ journal[i].tier2}

\* Mutant of Declined: a refused budget reads as a decline.
DeclinedOrRefused(journal) == {i \in Escalations(journal) : journal[i].actions = {}}

\* The ones it declined itself: what a budget refused it wanted.
Declined(journal) ==
    {i \in Escalations(journal) : journal[i].actions = {} /\ journal[i].intents = {}}

Clamped(value) == IF value > Ceiling THEN Ceiling ELSE IF value < Floor THEN Floor ELSE value

Newest(history) ==
    IF Len(history) > HistoryLimit THEN SubSeq(history, 2, Len(history)) ELSE history

\* Mutant of Adjust: the history keeps what was asked for.
AdjustRequested(calibration, value) ==
    IF Clamped(value) = calibration.jump THEN calibration
    ELSE [jump |-> Clamped(value),
          history |-> Newest(Append(calibration.history,
                                    [from |-> calibration.jump, to |-> value]))]

\* Calibration.adjust: inside the bounds, or refused.
Adjust(calibration, value) ==
    IF Clamped(value) = calibration.jump THEN calibration
    ELSE [jump |-> Clamped(value),
          history |-> Newest(Append(calibration.history,
                                    [from |-> calibration.jump, to |-> Clamped(value)]))]

\* review: too little evidence, tiers that agree often enough, or one step up.
Review(journal, calibration) ==
    LET escalations == Cardinality(Escalations(journal))
        declined == Cardinality(Declined(journal))
    IN IF escalations < MinEvidence \/ 2 * declined <= escalations
         THEN calibration
         ELSE Adjust(calibration, calibration.jump + Step)
=============================================================================

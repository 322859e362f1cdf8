-------------------------------- MODULE Diary --------------------------------
(***************************************************************************)
(* What publishing promises, without queues, attempts or answers: every    *)
(* decision a process journals is owed to the public diary until it is     *)
(* answered for.  It is answered for when the diary shows its id, or when  *)
(* it is given up and written down as dead.  Only a process that fails     *)
(* loses what it still owed, all of it at once.                            *)
(***************************************************************************)
CONSTANTS
    Process,        \* sweeps and push requests
    Decision,       \* the journal entries about decisions
    Owner,          \* Owner[d]: the process that journals d
    Id,             \* the ids the diary knows decisions by
    IdOf            \* IdOf[d]: the id of d; two decisions may share one

VARIABLES
    fate,           \* fate[d]: "none", "owed", "shown", "dead" or "lost"
    onDiary,        \* the ids the diary shows
    failed          \* the processes that failed

vars == <<fate, onDiary, failed>>

Init ==
    /\ fate = [d \in Decision |-> "none"]
    /\ onDiary = {}
    /\ failed = {}

\* A process at work journals a decision.
Owe(d) ==
    /\ fate[d] = "none" /\ Owner[d] \notin failed
    /\ fate' = [fate EXCEPT ![d] = "owed"]
    /\ UNCHANGED <<onDiary, failed>>

\* The diary takes what is owed, whether or not anyone hears of it.
Appear(d) ==
    /\ fate[d] = "owed"
    /\ onDiary' = onDiary \cup {IdOf[d]}
    /\ UNCHANGED <<fate, failed>>

\* A receipt: only for what the diary shows.
Confirm(d) ==
    /\ fate[d] = "owed" /\ IdOf[d] \in onDiary
    /\ fate' = [fate EXCEPT ![d] = "shown"]
    /\ UNCHANGED <<onDiary, failed>>

GiveUp(d) ==
    /\ fate[d] = "owed"
    /\ fate' = [fate EXCEPT ![d] = "dead"]
    /\ UNCHANGED <<onDiary, failed>>

\* A process fails, and with it the knowledge of what it owed.
Fail(p) ==
    /\ p \notin failed
    /\ failed' = failed \cup {p}
    /\ fate' = [d \in Decision |->
                  IF Owner[d] = p /\ fate[d] = "owed" THEN "lost" ELSE fate[d]]
    /\ UNCHANGED onDiary

Next ==
    \/ \E d \in Decision : Owe(d) \/ Appear(d) \/ Confirm(d) \/ GiveUp(d)
    \/ \E p \in Process : Fail(p)

Spec == Init /\ [][Next]_vars

\* What is owed does not stay owed.
Settles == \A d \in Decision : fate[d] = "owed" ~> fate[d] # "owed"
=============================================================================

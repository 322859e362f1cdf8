------------------------------ MODULE Publisher ------------------------------
(***************************************************************************)
(* publishing_store.py, publisher.py and the callers of flush() in         *)
(* runner.py and server.py: how a journaled decision reaches the public    *)
(* diary.  A process, the sweep of run_cycle or the push request of        *)
(* deliberate, journals its decisions through a PublishingStore, which     *)
(* queues them in memory.  Once its work is done it flushes: each decision *)
(* is posted up to MaxAttempts times, a receipt goes to the publish log,   *)
(* and what was given up is journaled as a dead letter, through the inner  *)
(* store, so that it is never queued itself.                               *)
(*                                                                         *)
(* The diary is the site behind ingest.py: it stores a decision under its  *)
(* id and answers a second one with the same id as a duplicate.  A post    *)
(* whose answer never arrives has status 0 and is retried, and the site    *)
(* may well have stored it.                                                *)
(***************************************************************************)
EXTENDS Naturals, Sequences, FiniteSets

CONSTANTS
    Process,        \* sweeps and push requests
    Decision,       \* the journal entries about decisions
    Owner,          \* Owner[d]: the process that journals d
    Id,             \* ids made of run, corner and second
    IdOf,           \* decision_id_for: equal for two decisions of one run,
                    \* corner and second
    MaxAttempts,    \* MAX_ATTEMPTS
    Dying,          \* bound: may a process be killed?
    None            \* nothing stored, no receipt

ASSUME PublisherAssumption ==
    /\ Owner \in [Decision -> Process] /\ IdOf \in [Decision -> Id]
    /\ MaxAttempts \in Nat \ {0} /\ Dying \in BOOLEAN
    /\ None \notin Decision \cup {"published", "duplicate", "permanently_failed"}

VARIABLES
    pc,             \* pc[p]: what p does next
    journal,        \* the decisions on record
    pending,        \* pending[p]: journaled and not yet answered for, in memory
    attempt,        \* attempt[p]: the attempt p is making for the first of them
    verdict,        \* verdict[p]: the status of the receipt p is about to write
    receipt,        \* receipt[d]: what the publish log says of d
    letters,        \* letters[d]: dead letters about d in the journal
    diary           \* diary[i]: the decision the site shows under id i

vars == <<pc, journal, pending, attempt, verdict, receipt, letters, diary>>

Status == {"published", "duplicate", "permanently_failed"}
Ok == {"published", "duplicate"}

Init ==
    /\ pc = [p \in Process |-> "work"]
    /\ journal = {}
    /\ pending = [p \in Process |-> <<>>]
    /\ attempt = [p \in Process |-> 0]
    /\ verdict = [p \in Process |-> None]
    /\ receipt = [d \in Decision |-> None]
    /\ letters = [d \in Decision |-> 0]
    /\ diary = [i \in Id |-> None]

Goto(p, s) == pc' = [pc EXCEPT ![p] = s]

\* The decision p is publishing.
Current(p) == Head(pending[p])

-----------------------------------------------------------------------------
\* append_journal: on record first, then in the queue.
Journal(p, d) ==
    /\ pc[p] = "work" /\ Owner[d] = p /\ d \notin journal
    /\ journal' = journal \cup {d}
    /\ pending' = [pending EXCEPT ![p] = Append(@, d)]
    /\ UNCHANGED <<pc, attempt, verdict, receipt, letters, diary>>

\* The sweep or the handler is through: flush() takes the queue.
Flush(p) ==
    /\ pc[p] = "work"
    /\ Goto(p, "flush")
    /\ UNCHANGED <<journal, pending, attempt, verdict, receipt, letters, diary>>

\* flush: the next of the queue ...
PublishNext(p) ==
    /\ pc[p] = "flush" /\ pending[p] # <<>>
    /\ attempt' = [attempt EXCEPT ![p] = 1]
    /\ Goto(p, "post")
    /\ UNCHANGED <<journal, pending, verdict, receipt, letters, diary>>

\* ... until it is empty, and the process ends.
Flushed(p) ==
    /\ pc[p] = "flush" /\ pending[p] = <<>>
    /\ Goto(p, "done")
    /\ UNCHANGED <<journal, pending, attempt, verdict, receipt, letters, diary>>

\* The site stores what it has no decision for.
Stored(d) == IF diary[IdOf[d]] = None THEN [diary EXCEPT ![IdOf[d]] = d] ELSE diary

Conclude(p, status) == verdict' = [verdict EXCEPT ![p] = status] /\ Goto(p, "log")

\* 200: stored now, or known already.
Accepted(p) ==
    /\ pc[p] = "post"
    /\ diary' = Stored(Current(p))
    /\ Conclude(p, IF diary[IdOf[Current(p)]] = None THEN "published" ELSE "duplicate")
    /\ UNCHANGED <<journal, pending, attempt, receipt, letters>>

\* A status that is not retryable: dead at once.
Rejected(p) ==
    /\ pc[p] = "post"
    /\ Conclude(p, "permanently_failed")
    /\ UNCHANGED <<journal, pending, attempt, receipt, letters, diary>>

\* Mutant of Unanswered: a timeout is taken for a success.
UnansweredTaken(p) ==
    /\ pc[p] = "post"
    /\ diary' \in {diary, Stored(Current(p))}
    /\ Conclude(p, "published")
    /\ UNCHANGED <<journal, pending, attempt, receipt, letters>>

\* Mutant of Unanswered: one attempt too many.
UnansweredOnceMore(p) ==
    /\ pc[p] = "post"
    /\ diary' \in {diary, Stored(Current(p))}
    /\ IF attempt[p] <= MaxAttempts
         THEN attempt' = [attempt EXCEPT ![p] = @ + 1] /\ UNCHANGED <<pc, verdict>>
         ELSE Conclude(p, "permanently_failed") /\ UNCHANGED attempt
    /\ UNCHANGED <<journal, pending, receipt, letters>>

\* A retryable status, or no answer: the site may have stored it or not.  Out of
\* attempts it is dead as well.
Unanswered(p) ==
    /\ pc[p] = "post"
    /\ diary' \in {diary, Stored(Current(p))}
    /\ IF attempt[p] < MaxAttempts
         THEN attempt' = [attempt EXCEPT ![p] = @ + 1] /\ UNCHANGED <<pc, verdict>>
         ELSE Conclude(p, "permanently_failed") /\ UNCHANGED attempt
    /\ UNCHANGED <<journal, pending, receipt, letters>>

\* Mutant of LogReceipt: a duplicate is nobody's fault and gets a dead letter.
LogReceiptDuplicateDead(p) ==
    /\ pc[p] = "log"
    /\ receipt' = [receipt EXCEPT ![Current(p)] = verdict[p]]
    /\ IF verdict[p] = "published"
         THEN pending' = [pending EXCEPT ![p] = Tail(@)] /\ Goto(p, "flush")
         ELSE Goto(p, "letter") /\ UNCHANGED pending
    /\ UNCHANGED <<journal, attempt, verdict, letters, diary>>

\* _finish: the receipt goes to the publish log ...
LogReceipt(p) ==
    /\ pc[p] = "log"
    /\ receipt' = [receipt EXCEPT ![Current(p)] = verdict[p]]
    /\ IF verdict[p] \in Ok
         THEN pending' = [pending EXCEPT ![p] = Tail(@)] /\ Goto(p, "flush")
         ELSE Goto(p, "letter") /\ UNCHANGED pending
    /\ UNCHANGED <<journal, attempt, verdict, letters, diary>>

\* Mutant of DeadLetter: the first dead one ends the flush.
DeadLetterStops(p) ==
    /\ pc[p] = "letter"
    /\ letters' = [letters EXCEPT ![Current(p)] = @ + 1]
    /\ pending' = [pending EXCEPT ![p] = Tail(@)]
    /\ Goto(p, "done")
    /\ UNCHANGED <<journal, attempt, verdict, receipt, diary>>

\* ... and a dead one into the journal too.
DeadLetter(p) ==
    /\ pc[p] = "letter"
    /\ letters' = [letters EXCEPT ![Current(p)] = @ + 1]
    /\ pending' = [pending EXCEPT ![p] = Tail(@)]
    /\ Goto(p, "flush")
    /\ UNCHANGED <<journal, attempt, verdict, receipt, diary>>

-----------------------------------------------------------------------------
\* What p had in memory goes with it.
Forget(p) ==
    /\ pending' = [pending EXCEPT ![p] = <<>>]
    /\ UNCHANGED <<journal, attempt, verdict, receipt, letters, diary>>

\* The sweep or the handler raises, or the store does, in work or in flush().
\* Nobody catches it before flush() is through.
Raise(p) == pc[p] \in {"work", "log", "letter"} /\ Goto(p, "raised") /\ Forget(p)

\* The process is killed.
Crash(p) ==
    /\ Dying /\ pc[p] \in {"work", "flush", "post", "log", "letter"}
    /\ Goto(p, "crashed")
    /\ Forget(p)

PublishStep(p) ==
    \/ Flush(p) \/ PublishNext(p) \/ Flushed(p)
    \/ Accepted(p) \/ Rejected(p) \/ Unanswered(p)
    \/ LogReceipt(p) \/ DeadLetter(p)

Next ==
    \E p \in Process :
        \/ \E d \in Decision : Journal(p, d)
        \/ PublishStep(p) \/ Raise(p) \/ Crash(p)

Spec == Init /\ [][Next]_vars

\* A process that is neither killed nor raises goes on: post_journal has a
\* timeout and turns every exception into an answer.
FairSpec == Spec /\ \A p \in Process : WF_vars(PublishStep(p))

-----------------------------------------------------------------------------
Failed == {"raised", "crashed"}

\* Type invariant of the queues, the receipts and the diary.
TypeOK ==
    /\ pc \in [Process -> {"work", "flush", "post", "log", "letter", "done"} \cup Failed]
    /\ journal \in SUBSET Decision
    /\ pending \in [Process -> Seq(Decision)]
    /\ attempt \in [Process -> 0..MaxAttempts]
    /\ verdict \in [Process -> Status \cup {None}]
    /\ receipt \in [Decision -> Status \cup {None}]
    /\ letters \in [Decision -> Nat]
    /\ diary \in [Id -> Decision \cup {None}]

\* What becomes of a decision, as far as the records tell.
Fate(d) ==
    IF d \notin journal THEN "none"
    ELSE IF receipt[d] \in Ok THEN "shown"
    ELSE IF receipt[d] = "permanently_failed" THEN "dead"
    ELSE IF pc[Owner[d]] \in Failed THEN "lost"
    ELSE "owed"

D == INSTANCE Diary WITH
        fate <- [d \in Decision |-> Fate(d)],
        onDiary <- {i \in Id : diary[i] # None},
        failed <- {p \in Process : pc[p] \in Failed}

\* Publishing implements Diary: a receipt only for what the diary shows, no
\* decision answered for twice, and none lost unless its process failed.
ImplementsDiary == D!Spec

\* Every decision of a process that does not fail is answered for in the end:
\* neither an outage nor a rejection holds up the ones behind it.
EverythingSettles == D!Settles

Shared(d) == \E e \in Decision \ {d} : IdOf[e] = IdOf[d]

\* The records can be reconciled.  A receipt that says published or duplicate
\* belongs to a decision the diary shows under its own name, retried or not,
\* unless another decision shares its id; and a decision has one dead letter in
\* the journal exactly if its receipt is dead, but for a process that failed
\* between the receipt and the letter, or is about to write it.
Reconcilable ==
    \A d \in Decision :
        /\ receipt[d] = "published" => diary[IdOf[d]] = d
        /\ receipt[d] \in Ok /\ ~Shared(d) => diary[IdOf[d]] = d
        /\ letters[d] = 1 => receipt[d] = "permanently_failed"
        /\ receipt[d] = "permanently_failed" /\ pc[Owner[d]] \notin Failed \cup {"letter"}
             => letters[d] = 1
        /\ letters[d] <= 1
=============================================================================

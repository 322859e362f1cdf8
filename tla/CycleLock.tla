------------------------------ MODULE CycleLock ------------------------------
(***************************************************************************)
(* The lock file that schedule.cycle_lock takes before `watchdog run` and  *)
(* `watchdog tick` start a cycle: one file, state/cycle.lock, made with    *)
(* O_CREAT|O_EXCL, broken when it looks stale, and removed on the way out. *)
(*                                                                         *)
(* A process of Proc is one pid.  It is launched, goes through the system  *)
(* calls of cycle_lock one at a time, runs its cycle and exits; launching  *)
(* it again is a later process that got the same pid.  A process that is   *)
(* killed runs no finally block and leaves its file behind.                *)
(***************************************************************************)
EXTENDS Naturals, FiniteSets

CONSTANTS
    Proc,           \* pids of the processes that may start a cycle
    None,           \* no pid: no file, or a file that names nobody
    Corrupt,        \* what read_lock answers for a file that is not JSON
    StaleAfter,     \* STALE_AFTER_SECONDS, in units of the clock
    LongCycles,     \* may a cycle outlast StaleAfter?
    MaxCrashes,     \* bound: processes killed in one behaviour
    NoteCap         \* bound: the count of notes in locks.log stops here

ASSUME ProcAssumption == IsFiniteSet(Proc) /\ None \notin Proc /\ Corrupt \notin Proc
ASSUME StaleAssumption == StaleAfter \in Nat /\ LongCycles \in BOOLEAN
ASSUME BoundAssumption ==
    MaxCrashes \in Nat /\ NoteCap \in Nat /\ Cardinality(Proc) <= NoteCap

VARIABLES
    pc,             \* pc[p]: the system call process p makes next
    saw,            \* saw[p]: the pid p read from the file, or Corrupt, or None
    tooOld,         \* tooOld[p]: did p's stat say older than StaleAfter?
    owner,          \* who created the file that is there, None if none is
    content,        \* "empty" until its creator writes the payload
    age,            \* seconds since the file's mtime, up to StaleAfter + 1
    notes,          \* lines "broke a stale lock" in locks.log, up to NoteCap
    crashes         \* processes killed so far

vars == <<pc, saw, tooOld, owner, content, age, notes, crashes>>

Step == {"off", "create", "exists", "read", "stat", "judge", "note",
         "unlink", "recreate", "write", "cycle"}

\* The processes that created a file and have not left the with statement.
Inside == {p \in Proc : pc[p] \in {"write", "cycle"}}

\* The processes that are running a cycle.
Running == {p \in Proc : pc[p] = "cycle"}

\* os.kill(pid, 0) finds the process.
PidAlive(p) == pc[p] # "off"

\* A file made by p, empty until p writes the payload.
FileMadeBy(p) == owner' = p /\ content' = "empty" /\ age' = 0

\* path.unlink(missing_ok=True): whoever made the file, it is gone.
Unlink == owner' = None /\ content' = "empty" /\ age' = 0

UnchangedFile == UNCHANGED <<owner, content, age>>

Goto(p, s) == pc' = [pc EXCEPT ![p] = s]

-----------------------------------------------------------------------------
Init ==
    /\ pc = [p \in Proc |-> "off"]
    /\ saw = [p \in Proc |-> None]
    /\ tooOld = [p \in Proc |-> FALSE]
    /\ owner = None /\ content = "empty" /\ age = 0
    /\ notes = 0
    /\ crashes = 0

\* launchd, cron or a person starts `watchdog tick` or `watchdog run`.
Launch(p) ==
    /\ pc[p] = "off"
    /\ Goto(p, "create")
    /\ UnchangedFile
    /\ UNCHANGED <<saw, tooOld, notes, crashes>>

\* Mutant of Create: open without O_EXCL.
CreateAnyway(p) ==
    /\ pc[p] = "create"
    /\ FileMadeBy(p) /\ Goto(p, "write")
    /\ UNCHANGED <<saw, tooOld, notes, crashes>>

\* The first open(O_CREAT|O_EXCL).
Create(p) ==
    /\ pc[p] = "create"
    /\ IF owner = None
         THEN FileMadeBy(p) /\ Goto(p, "write")
         ELSE UnchangedFile /\ Goto(p, "exists")
    /\ UNCHANGED <<saw, tooOld, notes, crashes>>

\* read_lock asks path.exists() first: no file is no pid.
Exists(p) ==
    /\ pc[p] = "exists"
    /\ Goto(p, IF owner = None THEN "stat" ELSE "read")
    /\ UnchangedFile
    /\ UNCHANGED <<saw, tooOld, notes, crashes>>

\* Mutant of ReadLock: a file that is not JSON is handed back as it is.
ReadLockRaw(p) ==
    /\ pc[p] = "read"
    /\ saw' = [saw EXCEPT ![p] = IF content = "payload" THEN owner ELSE content]
    /\ Goto(p, "stat")
    /\ UnchangedFile
    /\ UNCHANGED <<tooOld, notes, crashes>>

\* read_text: an empty file is corrupt, and so is one that has gone since.
ReadLock(p) ==
    /\ pc[p] = "read"
    /\ saw' = [saw EXCEPT ![p] = IF content = "payload" THEN owner ELSE Corrupt]
    /\ Goto(p, "stat")
    /\ UnchangedFile
    /\ UNCHANGED <<tooOld, notes, crashes>>

Forget(p) ==
    /\ saw' = [saw EXCEPT ![p] = None]
    /\ tooOld' = [tooOld EXCEPT ![p] = FALSE]

\* _lock_age_seconds of a file that is there.
Stat(p) ==
    /\ pc[p] = "stat" /\ owner # None
    /\ tooOld' = [tooOld EXCEPT ![p] = age > StaleAfter]
    /\ Goto(p, "judge")
    /\ UnchangedFile
    /\ UNCHANGED <<saw, notes, crashes>>

\* _lock_age_seconds of a file that has gone is infinite: stale, and the
\* int(age) of the note raises OverflowError before anything is touched.
StatGone(p) ==
    /\ pc[p] = "stat" /\ owner = None
    /\ Goto(p, "off")
    /\ Forget(p)
    /\ UnchangedFile
    /\ UNCHANGED <<notes, crashes>>

\* Mutant of Stale: the age of the file is not considered.
StaleByPid(p) == saw[p] = Corrupt \/ (saw[p] \in Proc /\ ~PidAlive(saw[p]))

\* Stale on what p saw, whatever has happened to the file since.
Stale(p) ==
    \/ saw[p] = Corrupt
    \/ tooOld[p]
    \/ saw[p] \in Proc /\ ~PidAlive(saw[p])

\* A stale lock is to be broken; any other is a refusal that ends the process.
Judge(p) ==
    /\ pc[p] = "judge"
    /\ Goto(p, IF Stale(p) THEN "note" ELSE "off")
    /\ Forget(p)
    /\ UnchangedFile
    /\ UNCHANGED <<notes, crashes>>

\* Mutant of Note: no line in locks.log.
NoteSilently(p) ==
    /\ pc[p] = "note"
    /\ Goto(p, "unlink")
    /\ UnchangedFile
    /\ UNCHANGED <<saw, tooOld, notes, crashes>>

\* _note: the line in locks.log comes before the unlink it explains.
Note(p) ==
    /\ pc[p] = "note"
    /\ notes' = IF notes < NoteCap THEN notes + 1 ELSE notes
    /\ Goto(p, "unlink")
    /\ UnchangedFile
    /\ UNCHANGED <<saw, tooOld, crashes>>

\* The note cannot be written, and the process dies of it.
NoteFails(p) ==
    /\ pc[p] = "note"
    /\ Goto(p, "off")
    /\ UnchangedFile
    /\ UNCHANGED <<saw, tooOld, notes, crashes>>

\* Whatever file is there by now is unlinked, another process's new one too.
Break(p) ==
    /\ pc[p] = "unlink"
    /\ Unlink
    /\ Goto(p, "recreate")
    /\ UNCHANGED <<saw, tooOld, notes, crashes>>

\* The second open(O_CREAT|O_EXCL): its FileExistsError ends the process.
Recreate(p) ==
    /\ pc[p] = "recreate"
    /\ IF owner = None
         THEN FileMadeBy(p) /\ Goto(p, "write")
         ELSE UnchangedFile /\ Goto(p, "off")
    /\ UNCHANGED <<saw, tooOld, notes, crashes>>

\* The write goes to the file p made: to nothing, once that is unlinked.
WritePayload(p) ==
    /\ pc[p] = "write"
    /\ IF owner = p THEN content' = "payload" /\ age' = 0 /\ owner' = owner
                    ELSE UnchangedFile
    /\ Goto(p, "cycle")
    /\ UNCHANGED <<saw, tooOld, notes, crashes>>

\* Mutant of WriteFails: the write stands before the try.
WriteFailsOutside(p) ==
    /\ pc[p] = "write"
    /\ UnchangedFile
    /\ Goto(p, "off")
    /\ UNCHANGED <<saw, tooOld, notes, crashes>>

\* The write raises, a full disk say, and the finally block still runs.
WriteFails(p) ==
    /\ pc[p] = "write"
    /\ Unlink
    /\ Goto(p, "off")
    /\ UNCHANGED <<saw, tooOld, notes, crashes>>

\* The cycle is over, well or with an exception: the finally block unlinks.
Release(p) ==
    /\ pc[p] = "cycle"
    /\ Unlink
    /\ Goto(p, "off")
    /\ UNCHANGED <<saw, tooOld, notes, crashes>>

\* SIGKILL, power: no finally block.
Crash(p) ==
    /\ pc[p] # "off"
    /\ crashes < MaxCrashes
    /\ crashes' = crashes + 1
    /\ Goto(p, "off")
    /\ Forget(p)
    /\ UnchangedFile
    /\ UNCHANGED notes

\* Time passes; the age matters only up to the first value that is too old.
Tick ==
    /\ owner # None
    /\ age <= StaleAfter
    /\ LongCycles \/ age < StaleAfter \/ owner \notin Inside
    /\ age' = age + 1
    /\ UNCHANGED <<pc, saw, tooOld, owner, content, notes, crashes>>

Next ==
    \/ \E p \in Proc :
         \/ Launch(p) \/ Create(p) \/ Exists(p) \/ ReadLock(p)
         \/ Stat(p) \/ StatGone(p) \/ Judge(p) \/ Note(p) \/ NoteFails(p)
         \/ Break(p) \/ Recreate(p) \/ WritePayload(p) \/ WriteFails(p)
         \/ Release(p) \/ Crash(p)
    \/ Tick

Spec == Init /\ [][Next]_vars

\* A process of a pid, launched again and again (StartInterval) and never
\* stopped but by a kill, goes on to its next call; the clock runs, and the
\* disk does not refuse every note or every payload for ever.
Fairness ==
    /\ WF_vars(Tick)
    /\ SF_vars(\E p \in Proc : Note(p))
    /\ SF_vars(\E p \in Proc : WritePayload(p))
    /\ \A p \in Proc :
         WF_vars(\/ Launch(p) \/ Create(p) \/ Exists(p) \/ ReadLock(p)
                 \/ Stat(p) \/ StatGone(p) \/ Judge(p) \/ Note(p) \/ NoteFails(p)
                 \/ Break(p) \/ Recreate(p) \/ WritePayload(p) \/ WriteFails(p)
                 \/ Release(p))

FairSpec == Spec /\ Fairness

-----------------------------------------------------------------------------
\* Type invariant of the lock file and of the processes that contend for it.
TypeOK ==
    /\ pc \in [Proc -> Step]
    /\ saw \in [Proc -> Proc \cup {None, Corrupt}]
    /\ tooOld \in [Proc -> BOOLEAN]
    /\ owner \in Proc \cup {None}
    /\ content \in {"empty", "payload"}
    /\ age \in 0..(StaleAfter + 1)
    /\ notes \in 0..NoteCap
    /\ crashes \in 0..MaxCrashes

\* Every overlap is on the record: the cycles running at once outnumber the
\* one the lock allows by no more than the locks locks.log says were broken,
\* although a finally block may unlink a file that another process made.
OverlapExplained == Cardinality(Running) <= 1 + notes

\* The processes inside whose file another process has unlinked.
Orphans == {p \in Inside : owner # p}

\* The processes that noted a break and have yet to unlink the file.
Breakers == {p \in Proc : pc[p] = "unlink"}

\* Each noted break orphans at most one process, whichever file it finds when
\* it comes to unlink one; a finally block that unlinks another process's file
\* passes its own orphanhood on to it.
OrphansNoted == Cardinality(Orphans \cup Breakers) <= notes

\* Without a kill, the file that is there belongs to a process still inside
\* the with statement: no exception path leaves a lock behind.
NoLockLeftBehind == (crashes = 0 /\ owner # None) => owner \in Inside

\* The schedule never wedges: whatever was killed, and however pids are
\* reused, some process runs a cycle again and again.
CyclesKeepRunning == []<>(Running # {})

\* What schedule.py and cli.py promise of the lock: two cycles never overlap.
NeverOverlap == Cardinality(Running) <= 1
=============================================================================

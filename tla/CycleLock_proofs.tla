--------------------------- MODULE CycleLock_proofs ---------------------------
(***************************************************************************)
(* What the cycle lock guarantees for any number of processes: the types,  *)
(* and the bound on overlapping cycles by the locks noted as broken.       *)
(***************************************************************************)
EXTENDS CycleLock, FiniteSetTheorems, TLAPS

\* Every variable of the lock keeps its type, in every reachable state.
THEOREM TypeCorrect == Spec => []TypeOK
<1> USE ProcAssumption, StaleAssumption, BoundAssumption
    DEF ProcAssumption, StaleAssumption, BoundAssumption
<1>1. Init => TypeOK
  BY DEF Init, TypeOK, Step
<1>2. TypeOK /\ [Next]_vars => TypeOK'
  <2> SUFFICES ASSUME TypeOK, [Next]_vars PROVE TypeOK'
    OBVIOUS
  <2> USE DEF TypeOK, Step, Goto, UnchangedFile, FileMadeBy, Unlink
  <2>1. ASSUME NEW p \in Proc, Launch(p) PROVE TypeOK'
    BY <2>1 DEF Launch
  <2>2. ASSUME NEW p \in Proc, Create(p) PROVE TypeOK'
    BY <2>2 DEF Create
  <2>3. ASSUME NEW p \in Proc, Exists(p) \/ ReadLock(p) PROVE TypeOK'
    BY <2>3 DEF Exists, ReadLock
  <2>4. ASSUME NEW p \in Proc, Stat(p) PROVE TypeOK'
    BY <2>4 DEF Stat
  <2>5. ASSUME NEW p \in Proc, StatGone(p) \/ Judge(p) PROVE TypeOK'
    BY <2>5 DEF StatGone, Judge, Forget
  <2>6. ASSUME NEW p \in Proc, Note(p) \/ NoteFails(p) PROVE TypeOK'
    BY <2>6 DEF Note, NoteFails
  <2>7. ASSUME NEW p \in Proc, Break(p) PROVE TypeOK'
    BY <2>7 DEF Break
  <2>8. ASSUME NEW p \in Proc, Recreate(p) PROVE TypeOK'
    BY <2>8 DEF Recreate
  <2>9. ASSUME NEW p \in Proc, WritePayload(p) PROVE TypeOK'
    BY <2>9 DEF WritePayload
  <2>10. ASSUME NEW p \in Proc, WriteFails(p) \/ Release(p) PROVE TypeOK'
    BY <2>10 DEF WriteFails, Release
  <2>11. ASSUME NEW p \in Proc, Crash(p) PROVE TypeOK'
    BY <2>11 DEF Crash, Forget
  <2>12. CASE Tick
    BY <2>12 DEF Tick
  <2>13. CASE UNCHANGED vars
    BY <2>13 DEF vars
  <2>14. QED
    BY <2>1, <2>2, <2>3, <2>4, <2>5, <2>6, <2>7, <2>8, <2>9, <2>10, <2>11, <2>12, <2>13
       DEF Next
<1>3. QED
  BY <1>1, <1>2, PTL DEF Spec

-----------------------------------------------------------------------------
\* The processes are finitely many, so every set of them has a size.
LEMMA ProcSets ==
  ASSUME NEW S \in SUBSET Proc
  PROVE  /\ IsFiniteSet(S) /\ Cardinality(S) \in Nat
         /\ Cardinality(S) <= NoteCap
  BY ProcAssumption, BoundAssumption, FS_Subset, FS_CardinalityType DEF ProcAssumption, BoundAssumption

\* A smaller set of processes is no larger than a larger one.
LEMMA SmallerSet ==
  ASSUME NEW S \in SUBSET Proc, NEW T \in SUBSET S
  PROVE  Cardinality(T) <= Cardinality(S)
  BY ProcSets, FS_Subset

\* One more process is at most one more orphan.
LEMMA OneMore ==
  ASSUME NEW S \in SUBSET Proc, NEW x, NEW T \in SUBSET Proc, T \subseteq S \cup {x}
  PROVE  Cardinality(T) <= Cardinality(S) + 1
<1>1. /\ IsFiniteSet(S) /\ Cardinality(S) \in Nat
      /\ Cardinality(T) \in Nat
  BY ProcSets
<1>2. /\ IsFiniteSet(S \cup {x})
      /\ Cardinality(S \cup {x}) = IF x \in S THEN Cardinality(S) ELSE Cardinality(S) + 1
  BY <1>1, FS_AddElement
<1>3. Cardinality(T) <= Cardinality(S \cup {x})
  BY <1>2, FS_Subset
<1>4. QED
  BY <1>1, <1>2, <1>3

\* Whoever is inside, if not an orphan, made the file that is there.
LEMMA InsideOrOwner == Inside \subseteq Orphans \cup {owner}
  BY DEF Orphans

\* The orphans, and the processes whose noted break is still to come.
Noted == Orphans \cup Breakers

\* All of them are processes, before a step and after it.
LEMMA NotedProcs ==
  /\ Orphans \in SUBSET Proc /\ Breakers \in SUBSET Proc
  /\ Noted \in SUBSET Proc /\ Noted' \in SUBSET Proc
  BY DEF Noted, Orphans, Breakers, Inside

\* Unlinking whatever file is there, p leaves the noted processes for good,
\* and the owner of the file takes its place unless that is p itself.
LEMMA UnlinkKeepsNoted ==
  ASSUME TypeOK, NEW p \in Noted, NEW s \in {"recreate", "off"}, Unlink, Goto(p, s)
  PROVE  Cardinality(Noted') <= Cardinality(Noted)
<1>1. p \in Proc /\ Noted \ {p} \in SUBSET Proc
  BY NotedProcs
<1>2. Noted' \subseteq (Noted \ {p}) \cup {owner}
  BY <1>1 DEF TypeOK, Step, Noted, Orphans, Breakers, Inside, Unlink, Goto
<1>3. Cardinality(Noted') <= Cardinality(Noted \ {p}) + 1
  BY <1>1, <1>2, NotedProcs, OneMore
<1>4. Cardinality(Noted \ {p}) = Cardinality(Noted) - 1
  BY NotedProcs, ProcSets, FS_RemoveElement
<1>5. /\ Cardinality(Noted) \in Nat /\ Cardinality(Noted \ {p}) \in Nat
      /\ Cardinality(Noted') \in Nat
  BY <1>1, NotedProcs, ProcSets
<1>6. QED
  BY <1>3, <1>4, <1>5

\* What the finally block of p does: an orphan hands its orphanhood on, and a
\* process that unlinks its own file makes no orphan.
LEMMA FinallyKeepsNoted ==
  ASSUME TypeOK, NEW p \in Proc, p \in Inside, Unlink, Goto(p, "off")
  PROVE  Cardinality(Noted') <= Cardinality(Noted)
<1>1. CASE owner = p
  <2>1. Noted' \subseteq Noted
    BY <1>1 DEF TypeOK, Step, Inside, Noted, Orphans, Breakers, Unlink, Goto
  <2>2. QED
    BY <2>1, NotedProcs, SmallerSet
<1>2. CASE owner # p
  <2>1. p \in Noted
    BY <1>2 DEF Noted, Orphans
  <2>2. QED
    BY <2>1, UnlinkKeepsNoted
<1>3. QED
  BY <1>1, <1>2

\* Every step keeps the orphans and the breakers within the notes.
LEMMA OrphansNotedStep ==
  ASSUME TypeOK, OrphansNoted, [Next]_vars
  PROVE  OrphansNoted'
<1>1. Cardinality(Noted) <= notes /\ notes \in Nat
  BY DEF OrphansNoted, Noted, TypeOK
<1>2. /\ Cardinality(Noted) \in Nat /\ Cardinality(Noted') \in Nat
      /\ Cardinality(Noted') <= NoteCap
  BY NotedProcs, ProcSets
<1>3. SUFFICES Cardinality(Noted') <= notes'
  BY DEF OrphansNoted, Noted
<1>4. ASSUME Noted' \subseteq Noted, notes' = notes PROVE Cardinality(Noted') <= notes'
  <2>1. Cardinality(Noted') <= Cardinality(Noted)
    BY <1>4, NotedProcs, SmallerSet
  <2>2. QED
    BY <1>1, <1>2, <1>4, <2>1
<1>5. ASSUME NEW p \in Proc, Create(p) \/ Recreate(p) PROVE Cardinality(Noted') <= notes'
  <2>1. Noted' \subseteq Noted /\ notes' = notes
    BY <1>5, ProcAssumption
       DEF Create, Recreate, TypeOK, Step, Noted, Orphans, Breakers, Inside, Goto,
           FileMadeBy, UnchangedFile, ProcAssumption
  <2>2. QED
    BY <1>4, <2>1
<1>6. ASSUME NEW p \in Proc, Note(p) PROVE Cardinality(Noted') <= notes'
  <2>1. Noted' \subseteq Noted \cup {p}
    BY <1>6 DEF Note, TypeOK, Step, Noted, Orphans, Breakers, Inside, Goto, UnchangedFile
  <2>2. Cardinality(Noted') <= Cardinality(Noted) + 1
    BY <2>1, NotedProcs, OneMore
  <2>3. notes' = IF notes < NoteCap THEN notes + 1 ELSE notes
    BY <1>6 DEF Note
  <2>4. NoteCap \in Nat /\ notes <= NoteCap
    BY BoundAssumption DEF BoundAssumption, TypeOK
  <2>5. QED
    BY <1>1, <1>2, <2>2, <2>3, <2>4
<1>7. ASSUME NEW p \in Proc, Break(p) PROVE Cardinality(Noted') <= notes'
  <2>1. p \in Noted /\ Unlink /\ Goto(p, "recreate") /\ notes' = notes
    BY <1>7 DEF Break, Noted, Breakers
  <2>2. Cardinality(Noted') <= Cardinality(Noted)
    BY <2>1, UnlinkKeepsNoted
  <2>3. QED
    BY <1>1, <1>2, <2>1, <2>2
<1>8. ASSUME NEW p \in Proc, WriteFails(p) \/ Release(p)
      PROVE  Cardinality(Noted') <= notes'
  <2>1. p \in Inside /\ Unlink /\ Goto(p, "off") /\ notes' = notes
    BY <1>8 DEF WriteFails, Release, Inside
  <2>2. Cardinality(Noted') <= Cardinality(Noted)
    BY <2>1, FinallyKeepsNoted
  <2>3. QED
    BY <1>1, <1>2, <2>1, <2>2
<1>9. ASSUME NEW p \in Proc,
             \/ Launch(p) \/ Exists(p) \/ ReadLock(p) \/ Stat(p) \/ StatGone(p)
             \/ Judge(p) \/ NoteFails(p) \/ WritePayload(p) \/ Crash(p)
      PROVE  Cardinality(Noted') <= notes'
  <2>1. \E s \in Step \ {"write", "unlink"} :
           /\ Goto(p, s) /\ notes' = notes /\ owner' = owner
           /\ s = "cycle" => p \in Inside
    BY <1>9 DEF Launch, Exists, ReadLock, Stat, StatGone, Judge, NoteFails, WritePayload,
                Crash, Step, Inside, UnchangedFile
  <2>2. Noted' \subseteq Noted /\ notes' = notes
    BY <2>1 DEF TypeOK, Step, Noted, Orphans, Breakers, Inside, Goto
  <2>3. QED
    BY <1>4, <2>2
<1>10. CASE Tick \/ UNCHANGED vars
  <2>1. Noted' \subseteq Noted /\ notes' = notes
    BY <1>10 DEF Tick, vars, Noted, Orphans, Breakers, Inside
  <2>2. QED
    BY <1>4, <2>1
<1>11. QED
  BY <1>5, <1>6, <1>7, <1>8, <1>9, <1>10 DEF Next

\* The orphans, with the breakers still to make one, never outnumber the notes.
THEOREM OrphansAreNoted == Spec => []OrphansNoted
<1>1. Init => OrphansNoted
  <2> SUFFICES ASSUME Init PROVE OrphansNoted
    OBVIOUS
  <2>1. Orphans \cup Breakers = {}
    BY DEF Init, Orphans, Breakers, Inside
  <2>2. QED
    BY <2>1, FS_EmptySet DEF OrphansNoted, Init
<1>2. TypeOK /\ OrphansNoted /\ [Next]_vars => OrphansNoted'
  BY OrphansNotedStep
<1>3. QED
  BY <1>1, <1>2, TypeCorrect, PTL DEF Spec

\* The cycles that overlap exceed the one the lock allows by no more than the
\* locks that locks.log says were broken, however many processes contend.
THEOREM OverlapIsExplained == Spec => []OverlapExplained
<1>1. TypeOK /\ OrphansNoted => OverlapExplained
  <2> SUFFICES ASSUME TypeOK, OrphansNoted PROVE OverlapExplained
    OBVIOUS
  <2>1. Running \in SUBSET Proc /\ Noted \in SUBSET Proc
    BY NotedProcs DEF Running
  <2>2. Running \subseteq Noted \cup {owner}
    BY InsideOrOwner DEF Running, Inside, Noted
  <2>3. Cardinality(Running) <= Cardinality(Noted) + 1
    BY <2>1, <2>2, OneMore
  <2>4. Cardinality(Noted) <= notes
    BY DEF OrphansNoted, Noted
  <2>5. QED
    BY <2>1, <2>3, <2>4, ProcSets, BoundAssumption DEF OverlapExplained, TypeOK, BoundAssumption
<1>2. QED
  BY <1>1, TypeCorrect, OrphansAreNoted, PTL

\* As long as nothing was killed, the file that is there belongs to a process
\* still inside the with statement.
THEOREM NothingLeftBehind == Spec => []NoLockLeftBehind
<1>1. Init => NoLockLeftBehind
  BY DEF Init, NoLockLeftBehind
<1>2. TypeOK /\ NoLockLeftBehind /\ [Next]_vars => NoLockLeftBehind'
  <2> SUFFICES ASSUME TypeOK, NoLockLeftBehind, [Next]_vars PROVE NoLockLeftBehind'
    OBVIOUS
  <2> USE DEF TypeOK, Step, NoLockLeftBehind, Inside, Goto, UnchangedFile, FileMadeBy, Unlink
  <2>1. ASSUME NEW p \in Proc, Create(p) \/ Recreate(p) PROVE NoLockLeftBehind'
    BY <2>1 DEF Create, Recreate
  <2>2. ASSUME NEW p \in Proc, Break(p) \/ WriteFails(p) \/ Release(p) PROVE NoLockLeftBehind'
    BY <2>2 DEF Break, WriteFails, Release
  <2>3. ASSUME NEW p \in Proc,
               \/ Launch(p) \/ Exists(p) \/ ReadLock(p) \/ Stat(p) \/ StatGone(p)
               \/ Judge(p) \/ Note(p) \/ NoteFails(p)
        PROVE  NoLockLeftBehind'
    BY <2>3 DEF Launch, Exists, ReadLock, Stat, StatGone, Judge, Note, NoteFails
  <2>4. ASSUME NEW p \in Proc, WritePayload(p) PROVE NoLockLeftBehind'
    BY <2>4 DEF WritePayload
  <2>5. ASSUME NEW p \in Proc, Crash(p) PROVE NoLockLeftBehind'
    <3>1. crashes' # 0
      BY <2>5, BoundAssumption DEF Crash, BoundAssumption
    <3>2. QED
      BY <3>1
  <2>6. CASE Tick \/ UNCHANGED vars
    BY <2>6 DEF Tick, vars
  <2>7. QED
    BY <2>1, <2>2, <2>3, <2>4, <2>5, <2>6 DEF Next
<1>3. QED
  BY <1>1, <1>2, TypeCorrect, PTL DEF Spec
=============================================================================

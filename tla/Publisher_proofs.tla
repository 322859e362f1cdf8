--------------------------- MODULE Publisher_proofs ---------------------------
(***************************************************************************)
(* What publishing guarantees for any number of processes and decisions,   *)
(* any sharing of ids, any number of attempts, and whatever the site, the  *)
(* store and the machine do.                                               *)
(***************************************************************************)
EXTENDS Publisher, SequenceTheorems, TLAPS

\* A queue holds decisions of its process that are on record, each once, and
\* none of them has a receipt but the one whose dead letter comes next.
QueueInv ==
    \A p \in Process :
        /\ \A i \in 1..Len(pending[p]) :
             /\ Owner[pending[p][i]] = p
             /\ pending[p][i] \in journal
             /\ i > 1 \/ pc[p] # "letter" => receipt[pending[p][i]] = None
        /\ \A i, j \in 1..Len(pending[p]) : pending[p][i] = pending[p][j] => i = j
        /\ pc[p] \in {"post", "log", "letter"} => pending[p] # <<>>

\* What a decision's receipt and letters say of each other.
LetterInv ==
    \A d \in Decision :
        /\ d \notin journal => receipt[d] = None
        /\ letters[d] \in {0, 1}
        /\ letters[d] = 1 => receipt[d] = "permanently_failed"
        /\ receipt[d] = "permanently_failed" =>
             \/ letters[d] = 1
             \/ pc[Owner[d]] \in Failed
             \/ pc[Owner[d]] = "letter" /\ d = Current(Owner[d])
        /\ pc[Owner[d]] = "letter" /\ d = Current(Owner[d]) =>
             receipt[d] = "permanently_failed" /\ letters[d] = 0

\* What the diary shows of a decision with this receipt.
ShownAs(d, status) ==
    /\ status = "published" => diary[IdOf[d]] = d
    /\ status \in Ok => diary[IdOf[d]] # None

\* The diary keeps a decision under its id, and receipts, written or about to
\* be, tell the truth about it.
DiaryInv ==
    /\ \A i \in Id : diary[i] # None => IdOf[diary[i]] = i
    /\ \A d \in Decision : ShownAs(d, receipt[d])
    /\ \A p \in Process : pc[p] = "log" => ShownAs(Current(p), verdict[p])

\* A receipt that is about to be written is one.
VerdictInv == \A p \in Process : pc[p] = "log" => verdict[p] \in Status

Inv == TypeOK /\ QueueInv /\ LetterInv /\ VerdictInv /\ DiaryInv

USE DEF Goto

-----------------------------------------------------------------------------
\* What is at the head of a queue, and what is left of it.
LEMMA Heads ==
  ASSUME TypeOK, NEW p \in Process, pending[p] # <<>>
  PROVE  /\ Len(pending[p]) \in Nat \ {0}
         /\ Current(p) \in Decision /\ Current(p) = pending[p][1]
         /\ Tail(pending[p]) \in Seq(Decision)
         /\ Len(Tail(pending[p])) = Len(pending[p]) - 1
         /\ \A i \in 1..Len(Tail(pending[p])) : Tail(pending[p])[i] = pending[p][i + 1]
<1>1. pending[p] \in Seq(Decision)
  BY DEF TypeOK
<1>2. QED
  BY <1>1, HeadTailProperties, EmptySeq DEF Current

\* The decision a process is publishing is its own.
LEMMA Mine ==
  ASSUME TypeOK, QueueInv, NEW p \in Process, pc[p] \in {"post", "log", "letter"}
  PROVE  /\ pending[p] # <<>>
         /\ Current(p) \in Decision /\ Owner[Current(p)] = p /\ Current(p) \in journal
         /\ pc[p] # "letter" => receipt[Current(p)] = None
<1>1. pending[p] # <<>>
  BY DEF QueueInv
<1>2. Len(pending[p]) \in Nat \ {0} /\ Current(p) \in Decision /\ Current(p) = pending[p][1]
  BY <1>1, Heads
<1>3. 1 \in 1..Len(pending[p])
  BY <1>2
<1>4. QED
  BY <1>1, <1>2, <1>3 DEF QueueInv

\* Two processes never publish the same decision.
LEMMA Apart ==
  ASSUME TypeOK, QueueInv,
         NEW p \in Process, pc[p] \in {"post", "log", "letter"},
         NEW q \in Process, pc[q] \in {"post", "log", "letter"}, q # p
  PROVE  Current(q) # Current(p)
  BY Mine

-----------------------------------------------------------------------------
LEMMA InitInv == Init => Inv
<1> SUFFICES ASSUME Init PROVE Inv
  OBVIOUS
<1>0. /\ Owner \in [Decision -> Process] /\ IdOf \in [Decision -> Id] /\ MaxAttempts \in Nat
      /\ None \notin Decision /\ None \notin Status
  BY PublisherAssumption DEF PublisherAssumption, Status
<1>1. TypeOK
  BY <1>0 DEF Init, TypeOK, Status
<1>2. QueueInv
  BY DEF Init, QueueInv
<1>3. LetterInv
  BY <1>0 DEF Init, LetterInv, Status
<1>4. VerdictInv
  BY DEF Init, VerdictInv
<1>5. DiaryInv
  BY <1>0 DEF Init, DiaryInv, ShownAs, Ok, Status
<1>6. QED
  BY <1>1, <1>2, <1>3, <1>4, <1>5 DEF Inv
-----------------------------------------------------------------------------
\* A post leaves the diary as it was, or with one decision more.
LEMMA DiaryGrows ==
  ASSUME TypeOK, DiaryInv, NEW d \in Decision, diary' \in {diary, Stored(d)}
  PROVE  /\ diary' \in [Id -> Decision \cup {None}]
         /\ \A i \in Id : diary[i] # None => diary'[i] = diary[i]
         /\ \A i \in Id : diary'[i] # None => IdOf[diary'[i]] = i
<1>0. IdOf \in [Decision -> Id] /\ None \notin Decision
  BY PublisherAssumption DEF PublisherAssumption
<1>1. CASE diary' = diary
  BY <1>1 DEF TypeOK, DiaryInv
<1>2. CASE diary' = Stored(d)
  BY <1>0, <1>2 DEF TypeOK, DiaryInv, Stored
<1>3. QED
  BY <1>1, <1>2

\* What was shown stays shown.
LEMMA ShownStays ==
  ASSUME NEW d \in Decision, NEW status, ShownAs(d, status),
         \A i \in Id : diary[i] # None => diary'[i] = diary[i]
  PROVE  /\ status = "published" => diary'[IdOf[d]] = d
         /\ status \in Ok => diary'[IdOf[d]] # None
  BY PublisherAssumption DEF PublisherAssumption, ShownAs, Ok

LEMMA JournalInv ==
  ASSUME Inv, NEW p \in Process, NEW d \in Decision, Journal(p, d) PROVE Inv'
<1>0. /\ pc[p] = "work" /\ Owner[d] = p /\ d \notin journal
      /\ TypeOK /\ QueueInv /\ LetterInv /\ VerdictInv /\ DiaryInv
      /\ pending[p] \in Seq(Decision)
      /\ UNCHANGED <<pc, attempt, verdict, receipt, letters, diary>>
  BY DEF Inv, Journal, TypeOK
<1>1. /\ journal' = journal \cup {d}
      /\ pending' = [pending EXCEPT ![p] = Append(@, d)]
      /\ pending'[p] = Append(pending[p], d)
      /\ \A q \in Process \ {p} : pending'[q] = pending[q]
  BY DEF Inv, Journal, TypeOK
<1>2. /\ Append(pending[p], d) \in Seq(Decision)
      /\ Len(pending'[p]) = Len(pending[p]) + 1 /\ Len(pending[p]) \in Nat
      /\ \A i \in 1..Len(pending[p]) : pending'[p][i] = pending[p][i]
      /\ pending'[p][Len(pending[p]) + 1] = d
  BY <1>0, <1>1, AppendProperties
<1>3. TypeOK'
  BY <1>0, <1>1, <1>2 DEF TypeOK
<1>4. QueueInv'
  <2>1. ASSUME NEW q \in Process, q # p
        PROVE  /\ \A i \in 1..Len(pending'[q]) :
                    /\ Owner[pending'[q][i]] = q
                    /\ pending'[q][i] \in journal'
                    /\ i > 1 \/ pc'[q] # "letter" => receipt'[pending'[q][i]] = None
               /\ \A i, j \in 1..Len(pending'[q]) : pending'[q][i] = pending'[q][j] => i = j
               /\ pc'[q] \in {"post", "log", "letter"} => pending'[q] # <<>>
    BY <1>0, <1>1, <2>1 DEF QueueInv
  <2>2. receipt[d] = None
    BY <1>0 DEF LetterInv
  <2>3. \A i \in 1..Len(pending'[p]) :
          /\ Owner[pending'[p][i]] = p
          /\ pending'[p][i] \in journal'
          /\ receipt'[pending'[p][i]] = None
    <3> TAKE i \in 1..Len(pending'[p])
    <3>1. CASE i \in 1..Len(pending[p])
      BY <1>0, <1>1, <1>2, <3>1 DEF QueueInv
    <3>2. CASE i = Len(pending[p]) + 1
      BY <1>0, <1>1, <1>2, <2>2, <3>2
    <3>3. QED
      BY <1>2, <3>1, <3>2
  <2>4. \A i \in 1..Len(pending[p]) : pending[p][i] # d
    BY <1>0 DEF QueueInv
  <2>5. ASSUME NEW i \in 1..Len(pending'[p]), NEW j \in 1..Len(pending'[p]),
               pending'[p][i] = pending'[p][j]
        PROVE  i = j
    <3>1. /\ i \in 1..Len(pending[p]) \/ i = Len(pending[p]) + 1
          /\ j \in 1..Len(pending[p]) \/ j = Len(pending[p]) + 1
      BY <1>2
    <3>2. CASE i \in 1..Len(pending[p]) /\ j \in 1..Len(pending[p])
      BY <1>0, <1>2, <2>5, <3>2 DEF QueueInv
    <3>3. QED
      BY <1>2, <2>4, <2>5, <3>1, <3>2
  <2>6. QED
    BY <1>0, <2>1, <2>3, <2>5 DEF QueueInv
<1>5. \A q \in Process : pc[q] \in {"log", "letter"} => Current(q)' = Current(q)
  BY <1>0, <1>1 DEF Current
<1>6. LetterInv'
  BY <1>0, <1>1, <1>5, PublisherAssumption DEF LetterInv, PublisherAssumption, Failed
<1>7. VerdictInv'
  BY <1>0 DEF VerdictInv
<1>8. DiaryInv'
  BY <1>0, <1>5 DEF DiaryInv, ShownAs
<1>9. QED
  BY <1>3, <1>4, <1>6, <1>7, <1>8 DEF Inv

\* Flush, PublishNext and Flushed only move on.
LEMMA MovingInv ==
  ASSUME Inv, NEW p \in Process, pc[p] \in {"work", "flush"},
         NEW to \in {"flush", "post", "done"}, to = "post" => pending[p] # <<>>,
         pc' = [pc EXCEPT ![p] = to], attempt' \in [Process -> 0..MaxAttempts],
         UNCHANGED <<journal, pending, verdict, receipt, letters, diary>>
  PROVE  Inv'
<1>0. TypeOK /\ QueueInv /\ LetterInv /\ VerdictInv /\ DiaryInv
  BY DEF Inv
<1>1. pc'[p] = to /\ \A q \in Process \ {p} : pc'[q] = pc[q]
  BY <1>0 DEF TypeOK
<1>2. TypeOK'
  BY <1>0 DEF TypeOK
<1>3. QueueInv'
  BY <1>0, <1>1 DEF QueueInv
<1>4. \A q \in Process : /\ Current(q)' = Current(q)
                         /\ pc'[q] \in {"log", "letter"} \cup Failed => pc'[q] = pc[q]
                         /\ pc[q] \in {"log", "letter"} \cup Failed => pc'[q] = pc[q]
  BY <1>1 DEF Current, Failed
<1>5. LetterInv'
  BY <1>0, <1>4, PublisherAssumption DEF LetterInv, PublisherAssumption, Failed
<1>6. VerdictInv'
  BY <1>0, <1>4 DEF VerdictInv
<1>7. DiaryInv'
  BY <1>0, <1>4 DEF DiaryInv, ShownAs
<1>8. QED
  BY <1>2, <1>3, <1>5, <1>6, <1>7 DEF Inv

\* A post is answered or not: another attempt, or a receipt that is true.
LEMMA PostInv ==
  ASSUME Inv, NEW p \in Process, pc[p] = "post",
         diary' \in {diary, Stored(Current(p))},
         \/ UNCHANGED <<pc, verdict>>
         \/ \E status \in Status :
              /\ Conclude(p, status)
              /\ status = "published" => diary'[IdOf[Current(p)]] = Current(p)
              /\ status \in Ok => diary'[IdOf[Current(p)]] # None,
         attempt' \in [Process -> 0..MaxAttempts],
         UNCHANGED <<journal, pending, receipt, letters>>
  PROVE  Inv'
<1>0. TypeOK /\ QueueInv /\ LetterInv /\ VerdictInv /\ DiaryInv
  BY DEF Inv
<1>1. /\ Current(p) \in Decision /\ pending[p] # <<>>
      /\ \A q \in Process : Current(q)' = Current(q)
      /\ \A q \in Process : pc[q] = "log" => Current(q) \in Decision
  BY <1>0, Mine DEF Current
<1>2. /\ pc'[p] \in {"post", "log"}
      /\ pc'[p] = "log" =>
           /\ verdict'[p] \in Status
           /\ verdict'[p] = "published" => diary'[IdOf[Current(p)]] = Current(p)
           /\ verdict'[p] \in Ok => diary'[IdOf[Current(p)]] # None
      /\ \A q \in Process \ {p} : pc'[q] = pc[q] /\ verdict'[q] = verdict[q]
      /\ pc' \in [Process -> {"work", "flush", "post", "log", "letter", "done"} \cup Failed]
      /\ verdict' \in [Process -> Status \cup {None}]
  <2>1. CASE UNCHANGED <<pc, verdict>>
    BY <1>0, <2>1 DEF TypeOK
  <2>2. CASE ~(UNCHANGED <<pc, verdict>>)
    <3>1. PICK status \in Status :
            /\ Conclude(p, status)
            /\ status = "published" => diary'[IdOf[Current(p)]] = Current(p)
            /\ status \in Ok => diary'[IdOf[Current(p)]] # None
      BY <2>2
    <3>2. QED
      BY <1>0, <3>1 DEF TypeOK, Conclude
  <2>3. QED
    BY <2>1, <2>2
<1>3. /\ diary' \in [Id -> Decision \cup {None}]
      /\ \A i \in Id : diary[i] # None => diary'[i] = diary[i]
      /\ \A i \in Id : diary'[i] # None => IdOf[diary'[i]] = i
  BY <1>0, <1>1, DiaryGrows
<1>4. TypeOK'
  BY <1>0, <1>2, <1>3 DEF TypeOK
<1>5. QueueInv'
  BY <1>0, <1>1, <1>2 DEF QueueInv
<1>6. \A q \in Process : /\ pc'[q] \in {"letter"} \cup Failed => pc'[q] = pc[q]
                         /\ pc[q] \in {"letter"} \cup Failed => pc'[q] = pc[q]
  BY <1>2 DEF Failed
<1>7. LetterInv'
  BY <1>0, <1>1, <1>6, PublisherAssumption DEF LetterInv, PublisherAssumption, Failed
<1>8. VerdictInv'
  BY <1>0, <1>2 DEF VerdictInv
<1>9. DiaryInv'
  <2>1. ASSUME NEW d \in Decision PROVE ShownAs(d, receipt[d])'
    BY <1>0, <1>3, ShownStays DEF DiaryInv, ShownAs
  <2>2. ASSUME NEW q \in Process, pc'[q] = "log" PROVE ShownAs(Current(q), verdict[q])'
    <3>1. CASE q = p
      BY <1>1, <1>2, <2>2, <3>1 DEF ShownAs
    <3>2. CASE q # p
      <4>1. /\ pc[q] = "log" /\ Current(q) \in Decision
            /\ Current(q)' = Current(q) /\ verdict'[q] = verdict[q]
        BY <1>1, <1>2, <2>2, <3>2
      <4>2. ShownAs(Current(q), verdict[q])
        BY <1>0, <4>1 DEF DiaryInv
      <4>3. QED
        BY <1>3, <4>1, <4>2, ShownStays DEF ShownAs
    <3>3. QED
      BY <3>1, <3>2
  <2>3. QED
    BY <1>3, <2>1, <2>2 DEF DiaryInv
<1>10. QED
  BY <1>4, <1>5, <1>7, <1>8, <1>9 DEF Inv

\* The receipt goes to the log: the queue moves on, or the dead letter is next.
LEMMA LogReceiptInv ==
  ASSUME Inv, NEW p \in Process, LogReceipt(p) PROVE Inv'
<1> DEFINE d == Current(p)
<1>0. /\ TypeOK /\ QueueInv /\ LetterInv /\ VerdictInv /\ DiaryInv
      /\ pc[p] = "log" /\ verdict[p] \in Status
      /\ UNCHANGED <<journal, attempt, verdict, letters, diary>>
  BY DEF Inv, LogReceipt, VerdictInv
<1>1. /\ d \in Decision /\ Owner[d] = p /\ d \in journal /\ receipt[d] = None
      /\ pending[p] # <<>>
  BY <1>0, Mine
<1>2. /\ receipt' = [receipt EXCEPT ![d] = verdict[p]]
      /\ receipt'[d] = verdict[p]
      /\ \A e \in Decision \ {d} : receipt'[e] = receipt[e]
  BY <1>0, <1>1 DEF LogReceipt, TypeOK
<1>3. \A q \in Process \ {p} : pc'[q] = pc[q] /\ pending'[q] = pending[q]
  BY <1>0 DEF LogReceipt, TypeOK
<1>4. /\ Len(pending[p]) \in Nat \ {0} /\ d = pending[p][1]
      /\ Tail(pending[p]) \in Seq(Decision)
      /\ Len(Tail(pending[p])) = Len(pending[p]) - 1
      /\ \A i \in 1..Len(Tail(pending[p])) : Tail(pending[p])[i] = pending[p][i + 1]
  BY <1>0, <1>1, Heads
<1>5. \/ /\ verdict[p] \in Ok /\ pc'[p] = "flush" /\ pending'[p] = Tail(pending[p])
      \/ /\ verdict[p] = "permanently_failed" /\ pc'[p] = "letter" /\ pending'[p] = pending[p]
  BY <1>0, <1>1 DEF LogReceipt, TypeOK, Status, Ok
<1>6. TypeOK'
  BY <1>0, <1>1, <1>4 DEF LogReceipt, TypeOK
<1>7. \A q \in Process \ {p} : \A i \in 1..Len(pending[q]) : pending[q][i] # d
  BY <1>0, <1>1 DEF QueueInv
<1>8. \A i \in 2..Len(pending[p]) : /\ pending[p][i] # d /\ receipt[pending[p][i]] = None
                                     /\ pending[p][i] \in Decision
  <2>1. \A i \in 2..Len(pending[p]) : i \in 1..Len(pending[p]) /\ 1 \in 1..Len(pending[p]) /\ i # 1
    BY <1>4
  <2>2. pending[p] \in Seq(Decision)
    BY <1>0 DEF TypeOK
  <2>3. QED
    BY <1>0, <1>4, <2>1, <2>2 DEF QueueInv
<1>9. QueueInv'
  <2>1. ASSUME NEW q \in Process, q # p
        PROVE  /\ \A i \in 1..Len(pending'[q]) :
                    /\ Owner[pending'[q][i]] = q
                    /\ pending'[q][i] \in journal'
                    /\ i > 1 \/ pc'[q] # "letter" => receipt'[pending'[q][i]] = None
               /\ \A i, j \in 1..Len(pending'[q]) : pending'[q][i] = pending'[q][j] => i = j
               /\ pc'[q] \in {"post", "log", "letter"} => pending'[q] # <<>>
    <3>1. pending[q] \in Seq(Decision)
      BY <1>0 DEF TypeOK
    <3>2. \A i \in 1..Len(pending[q]) : pending[q][i] \in Decision \ {d}
      BY <1>7, <2>1, <3>1
    <3>3. QED
      BY <1>0, <1>2, <1>3, <2>1, <3>2 DEF QueueInv
  <2>2. ASSUME verdict[p] \in Ok, pc'[p] = "flush", pending'[p] = Tail(pending[p])
        PROVE  /\ \A i \in 1..Len(pending'[p]) :
                    /\ Owner[pending'[p][i]] = p
                    /\ pending'[p][i] \in journal'
                    /\ receipt'[pending'[p][i]] = None
               /\ \A i, j \in 1..Len(pending'[p]) : pending'[p][i] = pending'[p][j] => i = j
    <3>1. \A i \in 1..Len(pending'[p]) :
             i \in Nat /\ i + 1 \in 2..Len(pending[p]) /\ i + 1 \in 1..Len(pending[p])
             /\ pending'[p][i] = pending[p][i + 1]
      BY <1>4, <2>2
    <3>2. \A i \in 1..Len(pending'[p]) :
             /\ Owner[pending'[p][i]] = p
             /\ pending'[p][i] \in journal'
             /\ receipt'[pending'[p][i]] = None
      BY <1>0, <1>2, <1>8, <3>1 DEF QueueInv
    <3>3. ASSUME NEW i \in 1..Len(pending'[p]), NEW j \in 1..Len(pending'[p]),
                 pending'[p][i] = pending'[p][j]
          PROVE  i = j
      <4>1. /\ i + 1 \in 1..Len(pending[p]) /\ j + 1 \in 1..Len(pending[p])
            /\ pending[p][i + 1] = pending[p][j + 1]
        BY <3>1, <3>3
      <4>2. i + 1 = j + 1
        BY <1>0, <4>1 DEF QueueInv
      <4>3. QED
        BY <3>1, <4>2
    <3>4. QED
      BY <3>2, <3>3
  <2>3. ASSUME verdict[p] = "permanently_failed", pc'[p] = "letter", pending'[p] = pending[p]
        PROVE  /\ \A i \in 1..Len(pending'[p]) :
                    /\ Owner[pending'[p][i]] = p
                    /\ pending'[p][i] \in journal'
                    /\ i > 1 => receipt'[pending'[p][i]] = None
               /\ \A i, j \in 1..Len(pending'[p]) : pending'[p][i] = pending'[p][j] => i = j
    BY <1>0, <1>2, <1>4, <1>8, <2>3 DEF QueueInv
  <2>4. QED
    <3>1. CASE verdict[p] \in Ok /\ pc'[p] = "flush" /\ pending'[p] = Tail(pending[p])
      BY <2>1, <2>2, <3>1 DEF QueueInv
    <3>2. CASE verdict[p] = "permanently_failed" /\ pc'[p] = "letter" /\ pending'[p] = pending[p]
      BY <1>1, <2>1, <2>3, <3>2 DEF QueueInv
    <3>3. QED
      BY <1>5, <3>1, <3>2
<1>10. \A q \in Process \ {p} : Current(q)' = Current(q)
  BY <1>3 DEF Current
<1>11. LetterInv'
  <2>1. letters[d] = 0
    BY <1>0, <1>1, PublisherAssumption DEF LetterInv, PublisherAssumption
  <2>2. ASSUME NEW e \in Decision, e # d
        PROVE  /\ e \notin journal' => receipt'[e] = None
               /\ letters'[e] \in {0, 1}
               /\ letters'[e] = 1 => receipt'[e] = "permanently_failed"
               /\ receipt'[e] = "permanently_failed" =>
                    \/ letters'[e] = 1
                    \/ pc'[Owner[e]] \in Failed
                    \/ pc'[Owner[e]] = "letter" /\ e = Current(Owner[e])'
               /\ pc'[Owner[e]] = "letter" /\ e = Current(Owner[e])' =>
                    receipt'[e] = "permanently_failed" /\ letters'[e] = 0
    <3>1. receipt'[e] = receipt[e] /\ Owner[e] \in Process
      BY <1>2, <2>2, PublisherAssumption DEF PublisherAssumption
    <3>2. CASE Owner[e] # p
      BY <1>0, <1>3, <1>10, <3>1, <3>2 DEF LetterInv
    <3>3. CASE Owner[e] = p
      <4>1. receipt[e] = "permanently_failed" => letters[e] = 1
        BY <1>0, <3>3 DEF LetterInv, Failed
      <4>2. ~(pc'[p] = "letter" /\ e = Current(p)')
        BY <1>5, <2>2 DEF Current
      <4>3. QED
        BY <1>0, <3>1, <3>3, <4>1, <4>2 DEF LetterInv
    <3>4. QED
      BY <3>2, <3>3
  <2>3. /\ d \in journal' /\ letters'[d] = 0
        /\ receipt'[d] = "permanently_failed" => pc'[p] = "letter" /\ d = Current(p)'
        /\ pc'[p] = "letter" => receipt'[d] = "permanently_failed"
    BY <1>0, <1>1, <1>2, <1>5, <2>1 DEF Ok, Current
  <2>4. QED
    BY <1>1, <2>2, <2>3 DEF LetterInv
<1>12. VerdictInv'
  BY <1>0, <1>3, <1>5 DEF VerdictInv
<1>13. DiaryInv'
  <2>1. ShownAs(d, verdict[p])
    BY <1>0 DEF DiaryInv
  <2>2. ASSUME NEW e \in Decision PROVE ShownAs(e, receipt[e])'
    BY <1>0, <1>2, <2>1 DEF DiaryInv, ShownAs
  <2>3. ASSUME NEW q \in Process, pc'[q] = "log" PROVE ShownAs(Current(q), verdict[q])'
    BY <1>0, <1>3, <1>5, <1>10, <2>3 DEF DiaryInv, ShownAs
  <2>4. QED
    BY <1>0, <2>2, <2>3 DEF DiaryInv
<1>14. QED
  BY <1>6, <1>9, <1>11, <1>12, <1>13 DEF Inv

\* The dead letter is in the journal, and the queue moves on.
LEMMA DeadLetterInv ==
  ASSUME Inv, NEW p \in Process, DeadLetter(p) PROVE Inv'
<1> DEFINE d == Current(p)
<1>0. /\ TypeOK /\ QueueInv /\ LetterInv /\ VerdictInv /\ DiaryInv
      /\ pc[p] = "letter"
      /\ UNCHANGED <<journal, attempt, verdict, receipt, diary>>
  BY DEF Inv, DeadLetter
<1>1. d \in Decision /\ Owner[d] = p /\ d \in journal /\ pending[p] # <<>>
  BY <1>0, Mine
<1>2. /\ letters[d] = 0 /\ receipt[d] = "permanently_failed"
      /\ letters' = [letters EXCEPT ![d] = @ + 1]
      /\ letters'[d] = 1
      /\ \A e \in Decision \ {d} : letters'[e] = letters[e]
  <2>1. letters[d] = 0 /\ receipt[d] = "permanently_failed"
    BY <1>0, <1>1 DEF LetterInv
  <2>2. QED
    BY <1>1, <1>0, <2>1 DEF DeadLetter, TypeOK
<1>3. /\ \A q \in Process \ {p} : pc'[q] = pc[q] /\ pending'[q] = pending[q]
      /\ pc'[p] = "flush" /\ pending'[p] = Tail(pending[p])
  BY <1>0 DEF DeadLetter, TypeOK
<1>4. /\ Len(pending[p]) \in Nat \ {0} /\ d = pending[p][1]
      /\ Tail(pending[p]) \in Seq(Decision)
      /\ Len(Tail(pending[p])) = Len(pending[p]) - 1
      /\ \A i \in 1..Len(Tail(pending[p])) : Tail(pending[p])[i] = pending[p][i + 1]
  BY <1>0, <1>1, Heads
<1>5. TypeOK'
  BY <1>0, <1>1, <1>4 DEF DeadLetter, TypeOK
<1>6. QueueInv'
  <2>1. ASSUME NEW q \in Process, q # p
        PROVE  /\ \A i \in 1..Len(pending'[q]) :
                    /\ Owner[pending'[q][i]] = q
                    /\ pending'[q][i] \in journal'
                    /\ i > 1 \/ pc'[q] # "letter" => receipt'[pending'[q][i]] = None
               /\ \A i, j \in 1..Len(pending'[q]) : pending'[q][i] = pending'[q][j] => i = j
               /\ pc'[q] \in {"post", "log", "letter"} => pending'[q] # <<>>
    BY <1>0, <1>3, <2>1 DEF QueueInv
  <2>2. \A i \in 1..Len(pending'[p]) :
           i \in Nat /\ i + 1 \in 1..Len(pending[p]) /\ i + 1 > 1
           /\ pending'[p][i] = pending[p][i + 1]
    BY <1>3, <1>4
  <2>3. \A i \in 1..Len(pending'[p]) :
           /\ Owner[pending'[p][i]] = p
           /\ pending'[p][i] \in journal'
           /\ receipt'[pending'[p][i]] = None
    BY <1>0, <2>2 DEF QueueInv
  <2>4. ASSUME NEW i \in 1..Len(pending'[p]), NEW j \in 1..Len(pending'[p]),
               pending'[p][i] = pending'[p][j]
        PROVE  i = j
    <3>1. i + 1 = j + 1
      BY <1>0, <2>2, <2>4 DEF QueueInv
    <3>2. QED
      BY <2>2, <3>1
  <2>5. QED
    BY <1>3, <2>1, <2>3, <2>4 DEF QueueInv
<1>7. \A q \in Process \ {p} : Current(q)' = Current(q)
  BY <1>3 DEF Current
<1>8. LetterInv'
  <2>1. ASSUME NEW e \in Decision, e # d
        PROVE  /\ e \notin journal' => receipt'[e] = None
               /\ letters'[e] \in {0, 1}
               /\ letters'[e] = 1 => receipt'[e] = "permanently_failed"
               /\ receipt'[e] = "permanently_failed" =>
                    \/ letters'[e] = 1
                    \/ pc'[Owner[e]] \in Failed
                    \/ pc'[Owner[e]] = "letter" /\ e = Current(Owner[e])'
               /\ pc'[Owner[e]] = "letter" /\ e = Current(Owner[e])' =>
                    receipt'[e] = "permanently_failed" /\ letters'[e] = 0
    <3>1. Owner[e] \in Process
      BY PublisherAssumption DEF PublisherAssumption
    <3>2. CASE Owner[e] # p
      BY <1>0, <1>2, <1>3, <1>7, <2>1, <3>1, <3>2 DEF LetterInv
    <3>3. CASE Owner[e] = p
      <4>1. receipt[e] = "permanently_failed" => letters[e] = 1
        BY <1>0, <2>1, <3>3 DEF LetterInv, Failed
      <4>2. QED
        BY <1>0, <1>2, <1>3, <2>1, <3>3, <4>1 DEF LetterInv
    <3>4. QED
      BY <3>2, <3>3
  <2>2. QED
    BY <1>0, <1>1, <1>2, <1>3, <2>1 DEF LetterInv
<1>9. VerdictInv'
  BY <1>0, <1>3 DEF VerdictInv
<1>10. DiaryInv'
  BY <1>0, <1>3, <1>7 DEF DiaryInv, ShownAs
<1>11. QED
  BY <1>5, <1>6, <1>8, <1>9, <1>10 DEF Inv

\* A process that fails, by an exception or a kill, forgets its queue.
LEMMA FailingInv ==
  ASSUME Inv, NEW p \in Process, NEW how \in Failed,
         pc' = [pc EXCEPT ![p] = how], Forget(p)
  PROVE  Inv'
<1>0. /\ TypeOK /\ QueueInv /\ LetterInv /\ VerdictInv /\ DiaryInv
      /\ UNCHANGED <<journal, attempt, verdict, receipt, letters, diary>>
  BY DEF Inv, Forget
<1>1. /\ pc'[p] = how /\ pending'[p] = <<>>
      /\ \A q \in Process \ {p} : pc'[q] = pc[q] /\ pending'[q] = pending[q]
  BY <1>0 DEF Forget, TypeOK
<1>2. TypeOK'
  BY <1>0 DEF TypeOK, Forget
<1>3. QueueInv'
  <2>1. Len(<<>>) = 0 /\ 1..0 = {} /\ how \notin {"post", "log", "letter"}
    BY DEF Failed
  <2>2. QED
    BY <1>0, <1>1, <2>1 DEF QueueInv
<1>4. \A q \in Process \ {p} : Current(q)' = Current(q)
  BY <1>1 DEF Current
<1>5. LetterInv'
  BY <1>0, <1>1, <1>4, PublisherAssumption DEF LetterInv, PublisherAssumption, Failed
<1>6. VerdictInv'
  BY <1>0, <1>1 DEF VerdictInv, Failed
<1>7. DiaryInv'
  BY <1>0, <1>1, <1>4 DEF DiaryInv, ShownAs, Failed
<1>8. QED
  BY <1>2, <1>3, <1>5, <1>6, <1>7 DEF Inv

-----------------------------------------------------------------------------
\* Each way a post may end leaves true receipts.
LEMMA AnswerInv ==
  ASSUME Inv, NEW p \in Process, Accepted(p) \/ Rejected(p) \/ Unanswered(p)
  PROVE  Inv'
<1>0. /\ TypeOK /\ QueueInv /\ pc[p] = "post" /\ UNCHANGED <<journal, pending, receipt, letters>>
      /\ MaxAttempts \in Nat \ {0} /\ IdOf \in [Decision -> Id]
      /\ attempt \in [Process -> 0..MaxAttempts] /\ diary \in [Id -> Decision \cup {None}]
      /\ None \notin Decision
  BY PublisherAssumption DEF Inv, Accepted, Rejected, Unanswered, TypeOK, PublisherAssumption
<1>1. Current(p) \in Decision /\ IdOf[Current(p)] \in Id
  BY <1>0, Mine
<1>2. CASE Accepted(p)
  <2>1. /\ diary' = Stored(Current(p)) /\ attempt' = attempt
        /\ Conclude(p, IF diary[IdOf[Current(p)]] = None THEN "published" ELSE "duplicate")
    BY <1>2 DEF Accepted
  <2>2. /\ diary'[IdOf[Current(p)]] # None
        /\ diary[IdOf[Current(p)]] = None => diary'[IdOf[Current(p)]] = Current(p)
    BY <1>0, <1>1, <2>1 DEF Stored
  <2>3. QED
    BY <1>0, <2>1, <2>2, PostInv DEF Status, Ok
<1>3. CASE Rejected(p)
  <2>1. /\ diary' = diary /\ attempt' = attempt
        /\ Conclude(p, "permanently_failed")
    BY <1>3 DEF Rejected
  <2>2. QED
    BY <1>0, <2>1, PostInv DEF Status, Ok
<1>4. CASE Unanswered(p)
  <2>1. /\ diary' \in {diary, Stored(Current(p))}
        /\ attempt' \in [Process -> 0..MaxAttempts]
        /\ UNCHANGED <<pc, verdict>> \/ Conclude(p, "permanently_failed")
    BY <1>0, <1>4 DEF Unanswered
  <2>2. QED
    BY <1>0, <2>1, PostInv DEF Status, Ok
<1>5. QED
  BY <1>2, <1>3, <1>4

LEMMA NextInv == Inv /\ [Next]_vars => Inv'
<1> SUFFICES ASSUME Inv, [Next]_vars PROVE Inv'
  OBVIOUS
<1>0. MaxAttempts \in Nat \ {0} /\ attempt \in [Process -> 0..MaxAttempts]
  BY PublisherAssumption DEF Inv, TypeOK, PublisherAssumption
<1>1. CASE UNCHANGED vars
  BY <1>1 DEF vars, Inv, TypeOK, QueueInv, LetterInv, VerdictInv, DiaryInv, ShownAs, Current
<1>2. ASSUME NEW p \in Process, NEW d \in Decision, Journal(p, d) PROVE Inv'
  BY <1>2, JournalInv
<1>3. ASSUME NEW p \in Process, PublishStep(p) PROVE Inv'
  <2>1. CASE Flush(p)
    BY <1>0, <2>1, MovingInv DEF Flush
  <2>2. CASE PublishNext(p)
    <3>1. 1 \in 0..MaxAttempts
      BY <1>0
    <3>2. /\ pc[p] = "flush" /\ pending[p] # <<>> /\ pc' = [pc EXCEPT ![p] = "post"]
          /\ attempt' \in [Process -> 0..MaxAttempts]
          /\ UNCHANGED <<journal, pending, verdict, receipt, letters, diary>>
      BY <1>0, <2>2, <3>1 DEF PublishNext
    <3>3. QED
      BY <3>2, MovingInv
  <2>3. CASE Flushed(p)
    BY <1>0, <2>3, MovingInv DEF Flushed
  <2>4. CASE Accepted(p) \/ Rejected(p) \/ Unanswered(p)
    BY <2>4, AnswerInv
  <2>5. CASE LogReceipt(p)
    BY <2>5, LogReceiptInv
  <2>6. CASE DeadLetter(p)
    BY <2>6, DeadLetterInv
  <2>7. QED
    BY <1>3, <2>1, <2>2, <2>3, <2>4, <2>5, <2>6 DEF PublishStep
<1>4. ASSUME NEW p \in Process, Raise(p) \/ Crash(p) PROVE Inv'
  BY <1>4, FailingInv DEF Raise, Crash, Failed
<1>5. QED
  BY <1>1, <1>2, <1>3, <1>4 DEF Next

\* The invariant of the queues, receipts, letters and the diary.
LEMMA InvHolds == Spec => []Inv
  BY InitInv, NextInv, PTL DEF Spec

\* The type invariant of the queues, the receipts and the diary.
THEOREM TypeCorrect == Spec => []TypeOK
<1>1. Inv => TypeOK
  BY DEF Inv
<1>2. QED
  BY <1>1, InvHolds, PTL

\* Journal, publish log and diary can be reconciled, whatever is lost, retried,
\* rejected, raised or killed: receipts tell the truth about the diary, and
\* dead letters and dead receipts match.
THEOREM RecordsReconcile == Spec => []Reconcilable
<1>1. Inv => Reconcilable
  <2> SUFFICES ASSUME Inv, NEW d \in Decision
               PROVE  /\ receipt[d] = "published" => diary[IdOf[d]] = d
                      /\ receipt[d] \in Ok /\ ~Shared(d) => diary[IdOf[d]] = d
                      /\ letters[d] = 1 => receipt[d] = "permanently_failed"
                      /\ receipt[d] = "permanently_failed" /\ pc[Owner[d]] \notin Failed \cup {"letter"}
                           => letters[d] = 1
                      /\ letters[d] <= 1
    BY DEF Reconcilable
  <2>1. IdOf[d] \in Id /\ diary \in [Id -> Decision \cup {None}] /\ None \notin Decision
    BY PublisherAssumption DEF PublisherAssumption, Inv, TypeOK
  <2>2. ShownAs(d, receipt[d])
    BY DEF Inv, DiaryInv
  <2>3. receipt[d] \in Ok /\ ~Shared(d) => diary[IdOf[d]] = d
    BY <2>1, <2>2 DEF Inv, DiaryInv, ShownAs, Shared
  <2>4. QED
    BY <2>2, <2>3 DEF Inv, LetterInv, ShownAs
<1>2. QED
  BY <1>1, InvHolds, PTL
-----------------------------------------------------------------------------
\* Before any step nothing is owed, shown or failed.
LEMMA DiaryInit == Init => D!Init
  BY PublisherAssumption DEF PublisherAssumption, Init, D!Init, Fate, Failed

\* What Diary sees of a step that changes neither journal, receipts nor diary,
\* and in which nobody fails.
LEMMA Stutters ==
  ASSUME Inv, UNCHANGED <<journal, receipt, diary>>,
         \A q \in Process : pc'[q] \in Failed <=> pc[q] \in Failed
  PROVE  UNCHANGED D!vars
<1>1. \A e \in Decision : Owner[e] \in Process
  BY PublisherAssumption DEF PublisherAssumption
<1>2. \A e \in Decision : Fate(e)' = Fate(e)
  BY <1>1 DEF Fate
<1>3. QED
  BY <1>2 DEF D!vars

LEMMA JournalOwes ==
  ASSUME Inv, NEW p \in Process, NEW d \in Decision, Journal(p, d)
  PROVE  D!Owe(d)
<1>1. /\ pc[p] = "work" /\ Owner[d] = p /\ d \notin journal /\ receipt[d] = None
      /\ journal' = journal \cup {d} /\ UNCHANGED <<pc, receipt, diary>>
  BY DEF Journal, Inv, LetterInv
<1>2. None \notin Ok /\ None # "permanently_failed"
  BY PublisherAssumption DEF PublisherAssumption, Ok
<1>3. Fate(d) = "none" /\ Fate(d)' = "owed"
  BY <1>1, <1>2 DEF Fate, Failed
<1>4. \A e \in Decision \ {d} : Fate(e)' = Fate(e)
  BY <1>1 DEF Fate
<1>5. QED
  BY <1>1, <1>3, <1>4 DEF D!Owe, Failed

\* A post lets the decision appear, or nothing that Diary sees happens.
LEMMA PostAppears ==
  ASSUME Inv, NEW p \in Process, pc[p] = "post",
         diary' \in {diary, Stored(Current(p))},
         pc' = pc \/ pc' = [pc EXCEPT ![p] = "log"],
         UNCHANGED <<journal, receipt>>
  PROVE  [D!Next]_D!vars
<1>1. PICK d \in Decision :
        d = Current(p) /\ Owner[d] = p /\ d \in journal /\ receipt[d] = None
  BY Mine DEF Inv
<1>2. \A q \in Process : pc'[q] \in Failed <=> pc[q] \in Failed
  BY DEF Inv, TypeOK, Failed
<1>3. CASE diary' = diary
  BY <1>2, <1>3, Stutters
<1>4. CASE diary' # diary
  <2>1. diary' = [diary EXCEPT ![IdOf[d]] = d]
    BY <1>1, <1>4 DEF Stored
  <2>2. IdOf[d] \in Id /\ d # None /\ diary \in [Id -> Decision \cup {None}]
    BY <1>1, PublisherAssumption DEF PublisherAssumption, Inv, TypeOK
  <2>3. {i \in Id : diary'[i] # None} = {i \in Id : diary[i] # None} \cup {IdOf[d]}
    BY <2>1, <2>2
  <2>4. Fate(d) = "owed"
    BY <1>1, PublisherAssumption DEF PublisherAssumption, Fate, Ok, Failed
  <2>5. \A e \in Decision : Fate(e)' = Fate(e)
    <3>1. \A e \in Decision : Owner[e] \in Process
      BY PublisherAssumption DEF PublisherAssumption
    <3>2. QED
      BY <1>2, <3>1 DEF Fate
  <2>6. {q \in Process : pc'[q] \in Failed} = {q \in Process : pc[q] \in Failed}
    BY <1>2
  <2>7. D!Appear(d)
    BY <1>1, <2>3, <2>4, <2>5, <2>6 DEF D!Appear
  <2>8. QED
    BY <1>1, <2>7 DEF D!Next
<1>5. QED
  BY <1>3, <1>4

\* A receipt confirms what the diary shows, or gives up.
LEMMA ReceiptAnswers ==
  ASSUME Inv, NEW p \in Process, LogReceipt(p)
  PROVE  D!Confirm(Current(p)) \/ D!GiveUp(Current(p))
<1>1. PICK d \in Decision :
        /\ d = Current(p) /\ Owner[d] = p /\ d \in journal /\ receipt[d] = None
        /\ pc[p] = "log" /\ verdict[p] \in Status /\ ShownAs(d, verdict[p])
  BY Mine DEF Inv, LogReceipt, VerdictInv, DiaryInv
<1>2. /\ receipt'[d] = verdict[p] /\ \A e \in Decision \ {d} : receipt'[e] = receipt[e]
      /\ UNCHANGED <<journal, diary>>
      /\ \A q \in Process : pc'[q] \in Failed <=> pc[q] \in Failed
  BY <1>1 DEF LogReceipt, Inv, TypeOK, Failed
<1>3. \A e \in Decision : Owner[e] \in Process
  BY PublisherAssumption DEF PublisherAssumption
<1>4. \A e \in Decision \ {d} : Fate(e)' = Fate(e)
  BY <1>2, <1>3 DEF Fate
<1>5. Fate(d) = "owed"
  BY <1>1, PublisherAssumption DEF PublisherAssumption, Fate, Ok, Failed
<1>6. {q \in Process : pc'[q] \in Failed} = {q \in Process : pc[q] \in Failed}
  BY <1>2
<1>7. CASE verdict[p] \in Ok
  <2>1. Fate(d)' = "shown" /\ IdOf[d] \in {i \in Id : diary[i] # None}
    BY <1>1, <1>2, <1>7, PublisherAssumption DEF PublisherAssumption, Fate, ShownAs
  <2>2. QED
    BY <1>1, <1>2, <1>4, <1>5, <1>6, <2>1 DEF D!Confirm
<1>8. CASE verdict[p] = "permanently_failed"
  <2>1. Fate(d)' = "dead"
    BY <1>1, <1>2, <1>8 DEF Fate, Ok
  <2>2. QED
    BY <1>1, <1>2, <1>4, <1>5, <1>6, <2>1 DEF D!GiveUp
<1>9. QED
  BY <1>1, <1>7, <1>8 DEF Status, Ok

\* Only what a failed process still owed is lost.
LEMMA FailureLoses ==
  ASSUME Inv, NEW p \in Process, Raise(p) \/ Crash(p)
  PROVE  D!Fail(p)
<1>1. /\ pc[p] \notin Failed /\ pc'[p] \in Failed
      /\ \A q \in Process \ {p} : pc'[q] = pc[q]
      /\ UNCHANGED <<journal, receipt, diary>>
  BY DEF Raise, Crash, Forget, Failed, Inv, TypeOK
<1>2. {q \in Process : pc'[q] \in Failed} = {q \in Process : pc[q] \in Failed} \cup {p}
  BY <1>1
<1>3. \A e \in Decision :
        Fate(e)' = IF Owner[e] = p /\ Fate(e) = "owed" THEN "lost" ELSE Fate(e)
  <2> TAKE e \in Decision
  <2>1. Owner[e] \in Process
    BY PublisherAssumption DEF PublisherAssumption
  <2>2. QED
    BY <1>1, <2>1 DEF Fate
<1>4. QED
  BY <1>1, <1>2, <1>3 DEF D!Fail

\* Publishing implements Diary: a receipt only for what the diary shows, no
\* decision answered for twice, and none lost unless its process failed.
THEOREM PublishingKeepsThePromise == Spec => ImplementsDiary
<1>1. Inv /\ [Next]_vars => [D!Next]_D!vars
  <2> SUFFICES ASSUME Inv, [Next]_vars PROVE [D!Next]_D!vars
    OBVIOUS
  <2>1. CASE UNCHANGED vars
    BY <2>1, Stutters DEF vars
  <2>2. ASSUME NEW p \in Process, NEW d \in Decision, Journal(p, d) PROVE [D!Next]_D!vars
    BY <2>2, JournalOwes DEF D!Next
  <2>3. ASSUME NEW p \in Process, PublishStep(p) PROVE [D!Next]_D!vars
    <3>1. CASE Flush(p) \/ PublishNext(p) \/ Flushed(p) \/ DeadLetter(p)
      <4>1. UNCHANGED <<journal, receipt, diary>>
        BY <3>1 DEF Flush, PublishNext, Flushed, DeadLetter
      <4>2. \A q \in Process : pc'[q] \in Failed <=> pc[q] \in Failed
        BY <3>1 DEF Flush, PublishNext, Flushed, DeadLetter, Inv, TypeOK, Failed
      <4>3. QED
        BY <4>1, <4>2, Stutters
    <3>2. CASE Accepted(p) \/ Rejected(p) \/ Unanswered(p)
      <4>1. /\ pc[p] = "post" /\ UNCHANGED <<journal, receipt>>
            /\ diary' \in {diary, Stored(Current(p))}
            /\ pc' = pc \/ pc' = [pc EXCEPT ![p] = "log"]
        BY <3>2 DEF Accepted, Rejected, Unanswered, Conclude
      <4>2. QED
        BY <4>1, PostAppears
    <3>3. CASE LogReceipt(p)
      <4>1. Current(p) \in Decision
        BY <3>3, Mine DEF LogReceipt, Inv
      <4>2. QED
        BY <3>3, <4>1, ReceiptAnswers DEF D!Next
    <3>4. QED
      BY <2>3, <3>1, <3>2, <3>3 DEF PublishStep
  <2>4. ASSUME NEW p \in Process, Raise(p) \/ Crash(p) PROVE [D!Next]_D!vars
    BY <2>4, FailureLoses DEF D!Next
  <2>5. QED
    BY <2>1, <2>2, <2>3, <2>4 DEF Next
<1>2. QED
  BY <1>1, DiaryInit, InvHolds, PTL DEF Spec, ImplementsDiary, D!Spec
=============================================================================

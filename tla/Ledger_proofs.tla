---------------------------- MODULE Ledger_proofs ----------------------------
(***************************************************************************)
(* What the page of ledger.py computes from a journal, for journals of any *)
(* length: the sums of its accounts, the newest of its cycles, and its     *)
(* streak of days.                                                         *)
(***************************************************************************)
EXTENDS Ledger, SequenceTheorems, FiniteSetTheorems, FunctionTheorems, WellFoundedInduction, TLAPS

\* A set of naturals that holds zero and every successor holds them all.
LEMMA Induction ==
  ASSUME NEW S, 0 \in S, \A n \in Nat : n \in S => n + 1 \in S
  PROVE  Nat \subseteq S
<1> DEFINE T == Nat \ S
           R == OpToRel(<, Nat)
<1>1. SUFFICES ASSUME T # {} PROVE FALSE
  OBVIOUS
<1>2. IsWellFoundedOn(R, Nat)
  BY NatLessThanWellFounded, Zenon
<1>3. \A a, b \in Nat : a < b => <<a, b>> \in R
  BY Zenon DEF OpToRel
<1> HIDE DEF R
<1>4. PICK x \in T : \A y \in T : <<y, x>> \notin R
  <2>1. T \subseteq Nat
    OBVIOUS
  <2> HIDE DEF T
  <2>2. QED
    BY <1>1, <1>2, <2>1, WFMin
<1>5. x \in Nat /\ x # 0 /\ x - 1 \in Nat /\ x - 1 < x /\ (x - 1) + 1 = x
  BY <1>4
<1>6. x - 1 \in S
  BY <1>3, <1>4, <1>5
<1>7. QED
  BY <1>4, <1>5, <1>6

\* Two sets with no member in common count separately.
LEMMA TwoParts ==
  ASSUME NEW A, NEW B, IsFiniteSet(A), IsFiniteSet(B), A \cap B = {}
  PROVE  /\ IsFiniteSet(A \cup B) /\ Cardinality(A) \in Nat /\ Cardinality(B) \in Nat
         /\ Cardinality(A \cup B) = Cardinality(A) + Cardinality(B)
<1>1. /\ IsFiniteSet(A \cup B)
      /\ Cardinality(A \cup B) = Cardinality(A) + Cardinality(B) - Cardinality(A \cap B)
  BY FS_Union
<1>2. Cardinality(A) \in Nat /\ Cardinality(B) \in Nat /\ Cardinality(A \cap B) = 0
  BY FS_CardinalityType, FS_EmptySet
<1>3. QED
  BY <1>1, <1>2

-----------------------------------------------------------------------------
\* FirstSeen takes the entries one by one.
LEMMA SeenOneByOne ==
  ASSUME NEW journal, Len(journal) \in Nat
  PROVE  \E seen : /\ seen = [i \in 0..Len(journal) |->
                        IF i = 0 THEN <<>> ELSE Joined(seen[i - 1], journal[i].runId)]
                   /\ FirstSeen(journal) = seen[Len(journal)]
<1> DEFINE Is(f, n) == f = [i \in 0..n |->
                         IF i = 0 THEN <<>> ELSE Joined(f[i - 1], journal[i].runId)]
           S == {n \in Nat : \E f : Is(f, n)}
<1>1. 0 \in S
  <2>1. PICK f : f = [i \in 0..0 |-> <<>>]
    OBVIOUS
  <2>2. Is(f, 0)
    BY <2>1
  <2>3. QED
    BY <2>2
<1>2. ASSUME NEW n \in Nat, n \in S PROVE n + 1 \in S
  <2>1. PICK f : Is(f, n)
    BY <1>2
  <2>2. PICK g : g = [i \in 0..(n + 1) |->
                        IF i = n + 1 THEN Joined(f[n], journal[n + 1].runId) ELSE f[i]]
    OBVIOUS
  <2>3. Is(g, n + 1)
    BY <2>1, <2>2
  <2>4. QED
    BY <2>3
<1>3. \E f : Is(f, Len(journal))
  <2>1. Nat \subseteq S
    <3> HIDE DEF S
    <3>1. QED
      BY <1>1, <1>2, Induction
  <2>2. QED
    BY <2>1
<1>4. PICK seen : seen = CHOOSE f : Is(f, Len(journal))
  OBVIOUS
<1>5. Is(seen, Len(journal))
  BY <1>3, <1>4, Zenon
<1>6. FirstSeen(journal) = seen[Len(journal)]
  BY <1>4, Zenon DEF FirstSeen
<1>7. QED
  BY <1>5, <1>6, Zenon

\* The newest id is the last that FirstSeen names, if no entry had it before.
LEMMA NewestIsLast ==
  ASSUME NEW journal, Len(journal) \in Nat, NEW r, NEW b \in 0..(Len(journal) - 1),
         \A i \in 1..b : journal[i].runId # r,
         \A i \in (b + 1)..Len(journal) : journal[i].runId = r
  PROVE  /\ Len(FirstSeen(journal)) \in Nat \ {0}
         /\ DOMAIN FirstSeen(journal) = 1..Len(FirstSeen(journal))
         /\ FirstSeen(journal)[Len(FirstSeen(journal))] = r
<1>1. PICK seen : /\ seen = [i \in 0..Len(journal) |->
                       IF i = 0 THEN <<>> ELSE Joined(seen[i - 1], journal[i].runId)]
                  /\ FirstSeen(journal) = seen[Len(journal)]
  BY SeenOneByOne
<1> DEFINE Ids == {journal[i].runId : i \in 1..Len(journal)}
           Right(s, i) == /\ s \in Seq(Ids)
                          /\ i <= b => \A k \in DOMAIN s : s[k] # r
                          /\ i > b => s # <<>> /\ s[Len(s)] = r
           S == {n \in Nat : n <= Len(journal) => Right(seen[n], n)}
<1>2. 0 \in S
  <2>1. seen[0] = <<>> /\ 0 <= b
    BY <1>1
  <2>2. Right(<<>>, 0)
    <3>1. <<>> \in Seq(Ids) /\ DOMAIN <<>> = {}
      <4> HIDE DEF Ids
      <4>1. QED
        BY EmptySeq
    <3>2. QED
      BY <2>1, <3>1
  <2>3. QED
    BY <2>1, <2>2
<1>3. ASSUME NEW n \in Nat, n \in S PROVE n + 1 \in S
  <2> SUFFICES ASSUME n + 1 <= Len(journal) PROVE Right(seen[n + 1], n + 1)
    OBVIOUS
  <2>1. PICK s, rid : s = seen[n] /\ rid = journal[n + 1].runId
    OBVIOUS
  <2>2. Right(s, n) /\ rid \in Ids /\ n + 1 \in 1..Len(journal)
    BY <1>3, <2>1
  <2>3. seen[n + 1] = Joined(s, rid)
    <3>1. n + 1 \in 0..Len(journal) /\ n + 1 # 0 /\ (n + 1) - 1 = n
      BY <2>2
    <3>2. seen[n + 1] = Joined(seen[(n + 1) - 1], journal[n + 1].runId)
      BY <1>1, <3>1, Zenon
    <3>3. QED
      BY <2>1, <3>1, <3>2, Zenon
  <2>4. /\ n + 1 <= b => rid # r
        /\ n + 1 > b => rid = r
    BY <2>1, <2>2
  <2> HIDE DEF Ids
  <2>5. s \in Seq(Ids) /\ Len(s) \in Nat /\ DOMAIN s = 1..Len(s)
    BY <2>2, LenProperties
  <2>6. CASE \E k \in DOMAIN s : s[k] = rid
    <3>1. seen[n + 1] = s
      BY <2>3, <2>6 DEF Joined
    <3>2. n + 1 <= b => \A k \in DOMAIN s : s[k] # r
      BY <2>2
    <3>3. n + 1 > b => s # <<>> /\ s[Len(s)] = r
      BY <2>2, <2>4, <2>6
    <3>4. QED
      BY <2>5, <3>1, <3>2, <3>3
  <2>7. CASE ~ \E k \in DOMAIN s : s[k] = rid
    <3>1. seen[n + 1] = Append(s, rid)
      BY <2>3, <2>7 DEF Joined
    <3>2. PICK t : t = Append(s, rid)
      OBVIOUS
    <3>3. /\ t \in Seq(Ids) /\ Len(t) = Len(s) + 1 /\ t[Len(t)] = rid
          /\ \A k \in 1..Len(s) : t[k] = s[k]
          /\ DOMAIN t = 1..(Len(s) + 1) /\ t # <<>>
      BY <2>2, <2>5, <3>2, AppendProperties, LenProperties
    <3>4. n + 1 <= b => \A k \in DOMAIN t : t[k] # r
      BY <2>2, <2>4, <2>5, <3>3
    <3>5. QED
      BY <2>4, <3>1, <3>2, <3>3, <3>4
  <2>8. QED
    BY <2>6, <2>7
<1>4. Right(seen[Len(journal)], Len(journal))
  <2>1. Nat \subseteq S
    <3> HIDE DEF S
    <3>1. QED
      BY <1>2, <1>3, Induction
  <2> HIDE DEF Right
  <2>2. QED
    BY <2>1
<1>5. PICK s : s = FirstSeen(journal)
  OBVIOUS
<1>6. s \in Seq(Ids) /\ s # <<>> /\ s[Len(s)] = r
  BY <1>1, <1>4, <1>5
<1>7. Len(s) \in Nat \ {0} /\ DOMAIN s = 1..Len(s)
  <2> HIDE DEF Ids
  <2>1. QED
    BY <1>6, LenProperties, EmptySeq
<1>8. QED
  BY <1>5, <1>6, <1>7

\* The corners of one run, as the page takes them together.
CornersOf(journal, r) == {journal[i].slug : i \in {k \in DOMAIN journal : journal[k].runId = r}}

\* The page says that the newest run did not finish exactly if it covers fewer
\* corners than the roster has.
LEMMA BannerOfNewest ==
  ASSUME NEW journal, Len(journal) \in Nat, NEW r, NEW b \in 0..(Len(journal) - 1),
         \A i \in 1..b : journal[i].runId # r,
         \A i \in (b + 1)..Len(journal) : journal[i].runId = r,
         NEW roster \in Nat \ {0}
  PROVE  ("did not finish" \in StateBanner(Coverage(journal, roster)))
            = (Cardinality(CornersOf(journal, r)) < roster)
<1>1. PICK ids, n : ids = FirstSeen(journal) /\ n = Len(FirstSeen(journal))
  OBVIOUS
<1>2. n \in Nat \ {0} /\ DOMAIN ids = 1..n /\ ids[n] = r
  BY <1>1, NewestIsLast
<1>3. PICK runs : runs = Cycles(journal)
  OBVIOUS
<1>4. runs = [k \in 1..n |-> OneCycle(journal, ids[k])]
  BY <1>1, <1>2, <1>3 DEF Cycles
<1>5. runs # <<>> /\ Len(runs) = n /\ runs[n] = OneCycle(journal, r)
  BY <1>2, <1>4
<1>6. PICK cov : cov = Coverage(journal, roster)
  OBVIOUS
<1>7. /\ cov.hasCycles = TRUE /\ cov.expected = roster
      /\ cov.covered = Cardinality(CornersOf(journal, r))
  <2>1. Expected(runs, roster) = roster
    BY DEF Expected
  <2>2. runs[Len(runs)].corners = Cardinality(CornersOf(journal, r))
    <3>1. OneCycle(journal, r).corners = Cardinality(CornersOf(journal, r))
      BY Zenon DEF OneCycle, CornersOf
    <3>2. QED
      BY <1>5, <3>1
  <2>3. QED
    BY <1>3, <1>5, <1>6, <2>1, <2>2, Zenon DEF Coverage
<1>8. QED
  BY <1>6, <1>7 DEF StateBanner

-----------------------------------------------------------------------------
\* LongestRun takes the days one by one.
LEMMA DayByDay ==
  ASSUME NEW ran, NEW first \in Int, NEW last \in Int, first <= last
  PROVE  \E upTo : /\ upTo = [day \in (first - 1)..last |->
                        IF day < first THEN [run |-> 0, longest |-> 0]
                        ELSE AfterDay(ran, day, upTo[day - 1])]
                   /\ LongestRun(ran, first, last) = upTo[last].longest
<1> DEFINE Is(f, z) == f = [day \in (first - 1)..z |->
                         IF day < first THEN [run |-> 0, longest |-> 0]
                         ELSE AfterDay(ran, day, f[day - 1])]
           S == {n \in Nat : \E f : Is(f, (first - 1) + n)}
<1>1. 0 \in S
  <2>1. PICK f : f = [day \in (first - 1)..((first - 1) + 0) |-> [run |-> 0, longest |-> 0]]
    OBVIOUS
  <2>2. Is(f, (first - 1) + 0)
    BY <2>1
  <2>3. QED
    BY <2>2
<1>2. ASSUME NEW n \in Nat, n \in S PROVE n + 1 \in S
  <2>1. PICK z : z = (first - 1) + n
    OBVIOUS
  <2>2. PICK f : Is(f, z)
    BY <1>2, <2>1
  <2>3. PICK g : g = [day \in (first - 1)..(z + 1) |->
                        IF day = z + 1 THEN AfterDay(ran, day, f[z]) ELSE f[day]]
    OBVIOUS
  <2>4. Is(g, z + 1)
    BY <2>1, <2>2, <2>3
  <2>5. z + 1 = (first - 1) + (n + 1)
    BY <2>1
  <2>6. QED
    BY <2>4, <2>5
<1>3. \E f : Is(f, last)
  <2>1. Nat \subseteq S
    <3> HIDE DEF S
    <3>1. QED
      BY <1>1, <1>2, Induction
  <2>2. last - (first - 1) \in Nat /\ (first - 1) + (last - (first - 1)) = last
    OBVIOUS
  <2>3. \E f : Is(f, (first - 1) + (last - (first - 1)))
    BY <2>1, <2>2
  <2> HIDE DEF Is
  <2>4. QED
    BY <2>2, <2>3
<1>4. PICK upTo : upTo = CHOOSE f : Is(f, last)
  OBVIOUS
<1>5. Is(upTo, last)
  BY <1>3, <1>4, Zenon
<1>6. LongestRun(ran, first, last) = upTo[last].longest
  BY <1>4, Zenon DEF LongestRun
<1>7. QED
  BY <1>5, <1>6, Zenon

\* The length of the longest interval of gaps, or zero.
Measures(longest, gaps) ==
    /\ longest \in Nat
    /\ \A a, z \in gaps : a..z \subseteq gaps => z - a + 1 <= longest
    /\ longest > 0 => \E a, z \in gaps : a..z \subseteq gaps /\ z - a + 1 = longest

\* The longest run is the length of the longest interval of gaps.
LEMMA LongestIsLongest ==
  ASSUME NEW ran, NEW first \in Int, NEW last \in Int, first <= last,
         NEW gaps, gaps = (first..last) \ ran,
         NEW longest, longest = LongestRun(ran, first, last)
  PROVE  Measures(longest, gaps)
<1>1. PICK upTo : /\ upTo = [day \in (first - 1)..last |->
                        IF day < first THEN [run |-> 0, longest |-> 0]
                        ELSE AfterDay(ran, day, upTo[day - 1])]
                  /\ LongestRun(ran, first, last) = upTo[last].longest
  BY DayByDay
<1> DEFINE Trailing(run, day) ==
              /\ run \in Nat /\ run <= day - first + 1
              /\ \A d \in (day - run + 1)..day : d \in gaps
              /\ day - run \notin gaps
           Best(most, day) ==
              /\ most \in Nat
              /\ \A a, z \in gaps : z <= day /\ a..z \subseteq gaps => z - a + 1 <= most
              /\ most > 0 => \E a, z \in gaps : a..z \subseteq gaps /\ z - a + 1 = most
           Right(u, day) == Trailing(u.run, day) /\ Best(u.longest, day)
           S == {n \in Nat : (first - 1) + n <= last => Right(upTo[(first - 1) + n], (first - 1) + n)}
<1>2. 0 \in S
  <2>1. upTo[(first - 1) + 0] = [run |-> 0, longest |-> 0]
    BY <1>1
  <2>2. Trailing(0, (first - 1) + 0) /\ Best(0, (first - 1) + 0)
    OBVIOUS
  <2> HIDE DEF Trailing, Best
  <2>3. QED
    BY <2>1, <2>2
<1>3. ASSUME NEW n \in Nat, n \in S PROVE n + 1 \in S
  <2>1. PICK day : day = (first - 1) + (n + 1)
    OBVIOUS
  <2>2. SUFFICES ASSUME day <= last PROVE Right(upTo[day], day)
    BY <2>1
  <2>3. day \in Int /\ day >= first /\ day - 1 = (first - 1) + n /\ day - 1 \in (first - 1)..last
    BY <2>1, <2>2
  <2>4. PICK u : u = upTo[day - 1]
    OBVIOUS
  <2>5. Trailing(u.run, day - 1) /\ Best(u.longest, day - 1)
    <3> HIDE DEF Trailing, Best
    <3>1. QED
      BY <1>3, <2>2, <2>3, <2>4
  <2>6. PICK now, most : /\ now = RunAfter(ran, day, u.run)
                         /\ most = IF now > u.longest THEN now ELSE u.longest
    OBVIOUS
  <2>7. upTo[day].run = now /\ upTo[day].longest = most
    <3>1. upTo[day] = AfterDay(ran, day, u)
      BY <1>1, <2>2, <2>3, <2>4
    <3>2. AfterDay(ran, day, u) = [run |-> now, longest |-> most]
      BY <2>6, Zenon DEF AfterDay
    <3>3. QED
      BY <3>1, <3>2
  <2>8. PICK run, before : run = u.run /\ before = u.longest
    OBVIOUS
  <2>9. /\ run \in Nat /\ run <= day - first /\ before \in Nat
        /\ \A d \in (day - run)..(day - 1) : d \in gaps
        /\ (day - 1) - run \notin gaps
    BY <2>3, <2>5, <2>8
  <2>10. /\ \A a, z \in gaps : z <= day - 1 /\ a..z \subseteq gaps => z - a + 1 <= before
         /\ before > 0 => \E a, z \in gaps : a..z \subseteq gaps /\ z - a + 1 = before
    BY <2>5, <2>8
  <2> HIDE DEF S, Right
  <2>11. CASE day \in ran
    <3>1. now = 0 /\ most = before /\ day \notin gaps
      BY <2>6, <2>8, <2>9, <2>11 DEF RunAfter
    <3>2. Trailing(now, day)
      BY <2>3, <3>1
    <3>3. Best(most, day)
      <4>1. \A z \in gaps : z <= day => z <= day - 1
        BY <2>3, <3>1
      <4>2. QED
        BY <2>9, <2>10, <3>1, <4>1
    <3>4. QED
      BY <2>7, <3>2, <3>3 DEF Right
  <2>12. CASE day \notin ran
    <3>1. now = run + 1 /\ day \in gaps
      BY <2>2, <2>3, <2>6, <2>8, <2>12 DEF RunAfter
    <3>2. Trailing(now, day)
      BY <2>3, <2>9, <3>1
    <3>3. Best(most, day)
      <4>1. most \in Nat /\ most >= now /\ most >= before /\ (most = now \/ most = before)
        BY <2>6, <2>8, <2>9, <3>1
      <4>2. ASSUME NEW a \in gaps, NEW z \in gaps, z <= day, a..z \subseteq gaps
            PROVE  z - a + 1 <= most
        <5>1. a \in Int /\ z \in Int
          OBVIOUS
        <5>2. CASE z <= day - 1
          BY <2>9, <2>10, <4>1, <4>2, <5>1, <5>2
        <5>3. CASE z = day
          <6>1. (day - 1) - run \notin a..z
            BY <2>9, <4>2
          <6>2. a > (day - 1) - run
            BY <2>3, <2>9, <5>1, <5>3, <6>1
          <6>3. QED
            BY <2>3, <2>9, <3>1, <4>1, <5>1, <5>3, <6>2
        <5>4. QED
          BY <2>3, <4>2, <5>1, <5>2, <5>3
      <4>3. \E a, z \in gaps : a..z \subseteq gaps /\ z - a + 1 = now
        <5>1. day - run \in gaps
          BY <2>3, <2>9, <3>1
        <5>2. (day - run)..day \subseteq gaps
          BY <2>3, <2>9, <3>1
        <5>3. day - (day - run) + 1 = now
          BY <2>3, <2>9, <3>1
        <5>4. QED
          BY <3>1, <5>1, <5>2, <5>3
      <4>4. most > 0 => \E a, z \in gaps : a..z \subseteq gaps /\ z - a + 1 = most
        BY <2>10, <4>1, <4>3
      <4>5. QED
        BY <4>1, <4>2, <4>4
    <3>4. QED
      BY <2>7, <3>2, <3>3 DEF Right
  <2>13. QED
    BY <2>11, <2>12
<1>4. Right(upTo[last], last)
  <2>1. Nat \subseteq S
    <3> HIDE DEF S
    <3>1. QED
      BY <1>2, <1>3, Induction
  <2>2. PICK n : n = last - (first - 1)
    OBVIOUS
  <2>3. n \in Nat /\ (first - 1) + n = last /\ (first - 1) + n <= last
    BY <2>2
  <2> HIDE DEF Right
  <2>4. QED
    BY <2>1, <2>3
<1>5. Best(longest, last)
  <2> HIDE DEF Trailing, Best
  <2>1. longest = upTo[last].longest /\ Best(upTo[last].longest, last)
    BY <1>1, <1>4
  <2>2. QED
    BY <2>1, Zenon
<1>6. \A z \in gaps : z <= last
  OBVIOUS
<1>7. QED
  BY <1>5, <1>6 DEF Measures

\* A journal that has entries has an earliest and a latest day.
LEMMA Extremes ==
  ASSUME NEW journal, Len(journal) \in Nat \ {0},
         \A i \in 1..Len(journal) : journal[i].day \in Nat
  PROVE  \E a, z \in 1..Len(journal) : \A i \in 1..Len(journal) :
            journal[a].day <= journal[i].day /\ journal[i].day <= journal[z].day
<1> DEFINE Within(n, a, z) == \A i \in 1..n : journal[a].day <= journal[i].day
                                              /\ journal[i].day <= journal[z].day
           S == {n \in Nat : n + 1 <= Len(journal) =>
                               \E a, z \in 1..Len(journal) : Within(n + 1, a, z)}
<1>1. 0 \in S
  <2>1. 1 \in 1..Len(journal) /\ Within(0 + 1, 1, 1)
    OBVIOUS
  <2> HIDE DEF Within
  <2>2. QED
    BY <2>1
<1>2. ASSUME NEW n \in Nat, n \in S PROVE n + 1 \in S
  <2> SUFFICES ASSUME (n + 1) + 1 <= Len(journal)
               PROVE  \E a, z \in 1..Len(journal) : Within((n + 1) + 1, a, z)
    OBVIOUS
  <2>1. PICK a, z \in 1..Len(journal) : Within(n + 1, a, z)
    BY <1>2
  <2>2. PICK m : m = (n + 1) + 1
    OBVIOUS
  <2>3. m \in 1..Len(journal) /\ \A i \in 1..m : i = m \/ i \in 1..(n + 1)
    BY <2>2
  <2>4. /\ journal[a].day \in Nat /\ journal[z].day \in Nat /\ journal[m].day \in Nat
        /\ \A i \in 1..(n + 1) : journal[i].day \in Nat
    BY <2>3
  <2>5. PICK low, high : /\ low = IF journal[m].day < journal[a].day THEN m ELSE a
                         /\ high = IF journal[m].day > journal[z].day THEN m ELSE z
    OBVIOUS
  <2>6. low \in 1..Len(journal) /\ high \in 1..Len(journal)
    BY <2>3, <2>5
  <2>7. /\ journal[low].day \in Nat /\ journal[low].day <= journal[a].day
        /\ journal[low].day <= journal[m].day
        /\ journal[high].day \in Nat /\ journal[high].day >= journal[z].day
        /\ journal[high].day >= journal[m].day
    BY <2>4, <2>5
  <2>8. Within(m, low, high)
    <3> SUFFICES ASSUME NEW i \in 1..m
                 PROVE  journal[low].day <= journal[i].day /\ journal[i].day <= journal[high].day
      OBVIOUS
    <3>1. CASE i = m
      BY <2>4, <2>7, <3>1
    <3>2. CASE i \in 1..(n + 1)
      <4>1. /\ journal[i].day \in Nat /\ journal[a].day <= journal[i].day
            /\ journal[i].day <= journal[z].day
        BY <2>1, <2>4, <3>2
      <4>2. QED
        <5>1. PICK x, y, t, v, w : /\ x = journal[low].day /\ y = journal[a].day
                                   /\ t = journal[i].day
                                   /\ v = journal[z].day /\ w = journal[high].day
          OBVIOUS
        <5>2. /\ x \in Nat /\ y \in Nat /\ t \in Nat /\ v \in Nat /\ w \in Nat
              /\ x <= y /\ y <= t /\ t <= v /\ v <= w
          BY <2>4, <2>7, <4>1, <5>1
        <5>3. x <= t /\ t <= w
          BY <5>2
        <5>4. QED
          BY <5>1, <5>3
    <3>3. QED
      BY <2>3, <3>1, <3>2
  <2>9. QED
    BY <2>2, <2>6, <2>8
<1>3. PICK n : n = Len(journal) - 1
  OBVIOUS
<1>4. n \in Nat /\ n + 1 = Len(journal)
  BY <1>3
<1>5. n \in S
  <2> HIDE DEF S
  <2>1. QED
    BY <1>1, <1>2, <1>4, Induction
<1>6. \E a, z \in 1..Len(journal) : Within(n + 1, a, z)
  <2> HIDE DEF Within
  <2>1. QED
    BY <1>4, <1>5
<1>7. PICK m : m = n + 1
  OBVIOUS
<1>8. m = Len(journal) /\ \E a, z \in 1..Len(journal) : Within(m, a, z)
  BY <1>4, <1>6, <1>7
<1>9. QED
  BY <1>8

\* Every day from the first to the last is counted once, and the longest gap is
\* the longest interval of missing days.
LEMMA StreakCounts ==
  ASSUME NEW journal, Len(journal) \in Nat, DOMAIN journal = 1..Len(journal),
         \A i \in 1..Len(journal) : journal[i].day \in Nat,
         NEW st, st = Streak(journal)
  PROVE  /\ IsFiniteSet(st.gaps) /\ st.ran + Cardinality(st.gaps) = st.elapsed
         /\ st.gaps \subseteq Int /\ Measures(st.longestGap, st.gaps)
<1>1. PICK days : days = {journal[i].day : i \in DOMAIN journal}
  OBVIOUS
<1>2. CASE days = {}
  <2>1. st = [elapsed |-> 0, ran |-> 0, gaps |-> {}, longestGap |-> 0]
    BY <1>1, <1>2 DEF Streak
  <2>2. QED
    BY <2>1, FS_EmptySet DEF Measures
<1>3. CASE days # {}
  <2>1. Len(journal) \in Nat \ {0} /\ days \subseteq Nat
    BY <1>1, <1>3
  <2>2. PICK a, z \in 1..Len(journal) : \A i \in 1..Len(journal) :
            journal[a].day <= journal[i].day /\ journal[i].day <= journal[z].day
    BY <2>1, Extremes
  <2>3. PICK first, last : /\ first = (CHOOSE d \in days : \A e \in days : d <= e)
                           /\ last = Largest(days)
    OBVIOUS
  <2>4. first \in days /\ \A e \in days : first <= e
    <3>1. \E d \in days : \A e \in days : d <= e
      BY <1>1, <2>2
    <3>2. first = CHOOSE d \in days : \A e \in days : d <= e
      BY <2>3
    <3>3. QED
      BY <3>1, <3>2, Zenon
  <2>5. last \in days /\ \A e \in days : e <= last
    <3>1. \E d \in days : \A e \in days : e <= d
      BY <1>1, <2>2
    <3>2. last = CHOOSE d \in days : \A e \in days : e <= d
      BY <2>3 DEF Largest
    <3>3. QED
      BY <3>1, <3>2, Zenon
  <2>6. first \in Nat /\ last \in Nat /\ first <= last /\ days \subseteq first..last
    BY <2>1, <2>4, <2>5
  <2>7. PICK gaps : gaps = (first..last) \ days
    OBVIOUS
  <2>8. /\ st.elapsed = last - first + 1 /\ st.ran = Cardinality(days)
        /\ st.gaps = gaps /\ st.longestGap = LongestRun(days, first, last)
    <3>1. st = [elapsed |-> last - first + 1, ran |-> Cardinality(days),
                gaps |-> (first..last) \ days, longestGap |-> LongestRun(days, first, last)]
      BY <1>1, <1>3, <2>3, Zenon DEF Streak
    <3>2. QED
      BY <2>7, <3>1
  <2>9. /\ IsFiniteSet(gaps) /\ Cardinality(days) + Cardinality(gaps) = last - first + 1
    <3>1. IsFiniteSet(first..last) /\ Cardinality(first..last) = last - first + 1
      <4>1. first \in Int /\ last \in Int /\ ~(first > last)
        BY <2>6
      <4>2. QED
        BY <4>1, FS_Interval
    <3>2. IsFiniteSet(days) /\ IsFiniteSet(gaps)
      BY <2>6, <2>7, <3>1, FS_Subset
    <3>3. days \cup gaps = first..last /\ days \cap gaps = {}
      BY <2>6, <2>7
    <3>4. QED
      BY <3>1, <3>2, <3>3, TwoParts
  <2>10. PICK longest : longest = LongestRun(days, first, last)
    OBVIOUS
  <2>11. Measures(longest, gaps)
    <3>1. first \in Int /\ last \in Int
      BY <2>6
    <3>2. QED
      BY <2>6, <2>7, <2>10, <3>1, LongestIsLongest
  <2>12. gaps \subseteq Int
    BY <2>6, <2>7
  <2>13. QED
    BY <2>8, <2>9, <2>10, <2>11, <2>12
<1>4. QED
  BY <1>2, <1>3

-----------------------------------------------------------------------------
\* The entries of a set that are about one corner.
Mine(journal, A, c) == {i \in A : journal[i].slug = c}

\* Counted corner by corner, a set of entries counts the same.
LEMMA CountedByCorner ==
  ASSUME NEW journal, NEW A, IsFiniteSet(A), NEW C, \A i \in A : journal[i].slug \in C
  PROVE  Cardinality(UNION {{c} \X (1..Cardinality(Mine(journal, A, c))) : c \in C}) = Cardinality(A)
<1> DEFINE n(c) == Cardinality(Mine(journal, A, c))
           U == UNION {{c} \X (1..n(c)) : c \in C}
           Of(c) == CHOOSE f : f \in Bijection(1..n(c), Mine(journal, A, c))
           G == [p \in U |-> Of(p[1])[p[2]]]
<1>1. ASSUME NEW c \in C PROVE Of(c) \in Bijection(1..n(c), Mine(journal, A, c))
  <2>1. IsFiniteSet(Mine(journal, A, c))
    BY FS_Subset DEF Mine
  <2>2. ExistsBijection(1..n(c), Mine(journal, A, c))
    BY <2>1, FS_CardinalityType
  <2>3. \E f : f \in Bijection(1..n(c), Mine(journal, A, c))
    BY <2>2 DEF ExistsBijection
  <2>4. QED
    BY <2>3, Zenon
<1>2. ASSUME NEW c \in C
      PROVE  /\ Of(c) \in [1..n(c) -> Mine(journal, A, c)]
             /\ \A k, m \in 1..n(c) : Of(c)[k] = Of(c)[m] => k = m
             /\ \A i \in Mine(journal, A, c) : \E k \in 1..n(c) : Of(c)[k] = i
  <2> HIDE DEF Of, n
  <2>1. QED
    BY <1>1 DEF Bijection, Injection, Surjection, IsInjective
<1> HIDE DEF Of, n
<1>3. \A p : p \in U <=> \E c \in C : \E k \in 1..n(c) : p = <<c, k>>
  <2> SUFFICES ASSUME NEW p PROVE p \in U <=> \E c \in C : \E k \in 1..n(c) : p = <<c, k>>
    OBVIOUS
  <2>1. p \in U <=> \E c \in C : p \in {c} \X (1..n(c))
    BY SMT
  <2>2. \A c : p \in {c} \X (1..n(c)) <=> \E k \in 1..n(c) : p = <<c, k>>
    OBVIOUS
  <2> HIDE DEF U
  <2>3. QED
    BY <2>1, <2>2
<1>4. \A c \in C : \A k \in 1..n(c) : /\ <<c, k>> \in U /\ G[<<c, k>>] = Of(c)[k]
                                  /\ Of(c)[k] \in A /\ journal[Of(c)[k]].slug = c
  <2> SUFFICES ASSUME NEW c \in C, NEW k \in 1..n(c)
               PROVE  /\ <<c, k>> \in U /\ G[<<c, k>>] = Of(c)[k]
                      /\ Of(c)[k] \in A /\ journal[Of(c)[k]].slug = c
    OBVIOUS
  <2>1. <<c, k>> \in U
    BY <1>3
  <2>2. G[<<c, k>>] = Of(c)[k]
    BY <2>1
  <2>3. Of(c)[k] \in Mine(journal, A, c)
    BY <1>2
  <2>4. QED
    BY <2>1, <2>2, <2>3 DEF Mine
<1> HIDE DEF U
<1>5. G \in [U -> A]
  <2>1. ASSUME NEW p \in U PROVE G[p] \in A
    <3>1. PICK c \in C : \E k \in 1..n(c) : p = <<c, k>>
      BY <1>3
    <3>2. PICK k \in 1..n(c) : p = <<c, k>>
      BY <3>1
    <3> HIDE DEF G
    <3>3. QED
      BY <1>4, <3>2
  <2>2. G = [p \in U |-> G[p]]
    OBVIOUS
  <2> HIDE DEF G
  <2>3. QED
    BY <2>1, <2>2
<1>6. \A p, q \in U : G[p] = G[q] => p = q
  <2> SUFFICES ASSUME NEW p \in U, NEW q \in U, G[p] = G[q] PROVE p = q
    OBVIOUS
  <2>1. PICK c \in C : \E k \in 1..n(c) : p = <<c, k>>
    BY <1>3
  <2>2. PICK k \in 1..n(c) : p = <<c, k>>
    BY <2>1
  <2>3. PICK d \in C : \E m \in 1..n(d) : q = <<d, m>>
    BY <1>3
  <2>4. PICK m \in 1..n(d) : q = <<d, m>>
    BY <2>3
  <2> HIDE DEF G
  <2>5. Of(c)[k] = Of(d)[m] /\ c = d
    BY <1>4, <2>2, <2>4
  <2>6. QED
    BY <1>2, <2>2, <2>4, <2>5
<1>7. \A i \in A : \E p \in U : G[p] = i
  <2> SUFFICES ASSUME NEW i \in A PROVE \E p \in U : G[p] = i
    OBVIOUS
  <2>1. PICK c \in C : c = journal[i].slug /\ i \in Mine(journal, A, c)
    BY DEF Mine
  <2>2. PICK k \in 1..n(c) : Of(c)[k] = i
    BY <1>2, <2>1
  <2> HIDE DEF G
  <2>3. QED
    BY <1>4, <2>2
<1>8. ExistsBijection(U, A)
  <2> HIDE DEF G
  <2>1. G \in Bijection(U, A)
    BY <1>5, <1>6, <1>7 DEF Bijection, Injection, Surjection, IsInjective
  <2>2. QED
    BY <2>1 DEF ExistsBijection
<1>9. Cardinality(U) = Cardinality(A)
  BY <1>8, Fun_ExistsBijSymmetric, FS_Bijection
<1>10. QED
  BY <1>9 DEF U, n

-----------------------------------------------------------------------------
\* What an entry never says at once: that it failed and that something was done
\* or wanted, or that tier two judged what no tier was asked about.
Plausible(e) ==
    /\ e.error \in BOOLEAN
    /\ e.error => e.actions = {} /\ e.intents = {}
    /\ e.tier2 /\ IsHeld(e) => e.basis \notin UnjudgedBases

\* The figures of the page that it computes by subtraction are counts.
LEMMA FiguresAreCounts ==
  ASSUME NEW journal, Len(journal) \in Nat, DOMAIN journal = 1..Len(journal),
         \A i \in DOMAIN journal : Plausible(journal[i]),
         NEW s, s = Summarise(journal)
  PROVE  /\ s.total = Len(journal)
         /\ s.acted = Cardinality({i \in DOMAIN journal : journal[i].actions # {}})
         /\ s.errored = Cardinality({i \in DOMAIN journal : journal[i].error})
         /\ s.held + s.blocked = Cardinality({i \in DOMAIN journal :
                                    ~journal[i].error /\ journal[i].actions = {}})
         /\ s.deliberated = Cardinality({i \in DOMAIN journal :
                               IsHeld(journal[i]) /\ journal[i].tier2})
         /\ s.triage = Cardinality({i \in DOMAIN journal :
                          /\ IsHeld(journal[i]) /\ ~journal[i].tier2
                          /\ journal[i].basis \notin UnjudgedBases})
         /\ s.total - s.acted = Cardinality({i \in DOMAIN journal : journal[i].actions = {}})
<1>1. PICK D : D = DOMAIN journal
  OBVIOUS
<1>2. PICK held, blocked, errored, acted :
        /\ held = {i \in D : IsHeld(journal[i])}
        /\ blocked = {i \in D : WantedToAct(journal[i])}
        /\ errored = {i \in D : journal[i].error}
        /\ acted = {i \in D : journal[i].actions # {}}
  OBVIOUS
<1>3. PICK unjudged, deliberated, triage :
        /\ unjudged = {i \in held : journal[i].basis \in UnjudgedBases}
        /\ deliberated = {i \in held : journal[i].tier2}
        /\ triage = {i \in D : /\ IsHeld(journal[i]) /\ ~journal[i].tier2
                               /\ journal[i].basis \notin UnjudgedBases}
  OBVIOUS
<1>4. /\ s.total = Len(journal) /\ s.held = Cardinality(held)
      /\ s.blocked = Cardinality(blocked) /\ s.errored = Cardinality(errored)
      /\ s.acted = Len(journal) - Cardinality(held) - Cardinality(blocked) - Cardinality(errored)
      /\ s.deliberated = Cardinality(deliberated)
      /\ s.triage = Cardinality(held) - Cardinality(unjudged) - Cardinality(deliberated)
  BY <1>1, <1>2, <1>3, Zenon DEF Summarise, Where, Count
<1>5. /\ IsFiniteSet(D) /\ Cardinality(D) = Len(journal)
  BY <1>1, FS_Interval
<1>6. /\ IsFiniteSet(held) /\ IsFiniteSet(blocked) /\ IsFiniteSet(errored) /\ IsFiniteSet(acted)
      /\ IsFiniteSet(unjudged) /\ IsFiniteSet(deliberated) /\ IsFiniteSet(triage)
  <2>1. /\ held \in SUBSET D /\ blocked \in SUBSET D /\ errored \in SUBSET D /\ acted \in SUBSET D
        /\ unjudged \in SUBSET D /\ deliberated \in SUBSET D /\ triage \in SUBSET D
    BY <1>2, <1>3
  <2>2. QED
    BY <1>5, <2>1, FS_Subset
<1>7. /\ held \cap blocked = {} /\ (held \cup blocked) \cap errored = {}
      /\ held \cup blocked = {i \in D : ~journal[i].error /\ journal[i].actions = {}}
      /\ (held \cup blocked) \cup errored = {i \in D : journal[i].actions = {}}
  BY <1>1, <1>2 DEF IsHeld, WantedToAct, Plausible
<1>8. /\ unjudged \cap deliberated = {} /\ (unjudged \cup deliberated) \cap triage = {}
      /\ (unjudged \cup deliberated) \cup triage = held
  BY <1>1, <1>2, <1>3 DEF Plausible
<1>9. /\ IsFiniteSet(held \cup blocked) /\ IsFiniteSet((held \cup blocked) \cup errored)
      /\ Cardinality(held \cup blocked) = Cardinality(held) + Cardinality(blocked)
      /\ Cardinality((held \cup blocked) \cup errored)
           = Cardinality(held) + Cardinality(blocked) + Cardinality(errored)
      /\ Cardinality(held) \in Nat /\ Cardinality(blocked) \in Nat /\ Cardinality(errored) \in Nat
  <2>1. PICK quiet : quiet = held \cup blocked
    OBVIOUS
  <2>2. held \cap blocked = {} /\ quiet \cap errored = {}
    BY <1>7, <2>1
  <2>3. /\ IsFiniteSet(quiet) /\ Cardinality(held) \in Nat /\ Cardinality(blocked) \in Nat
        /\ Cardinality(quiet) = Cardinality(held) + Cardinality(blocked)
    BY <1>6, <2>1, <2>2, TwoParts
  <2>4. /\ IsFiniteSet(quiet \cup errored) /\ Cardinality(errored) \in Nat
        /\ Cardinality(quiet \cup errored) = Cardinality(quiet) + Cardinality(errored)
    BY <1>6, <2>2, <2>3, TwoParts
  <2>5. QED
    BY <2>1, <2>3, <2>4
<1>10. /\ Cardinality(held) = Cardinality(unjudged) + Cardinality(deliberated) + Cardinality(triage)
       /\ Cardinality(unjudged) \in Nat /\ Cardinality(deliberated) \in Nat
       /\ Cardinality(triage) \in Nat
  <2>1. PICK settled : settled = unjudged \cup deliberated
    OBVIOUS
  <2>2. unjudged \cap deliberated = {} /\ settled \cap triage = {} /\ settled \cup triage = held
    BY <1>8, <2>1
  <2>3. /\ IsFiniteSet(settled) /\ Cardinality(unjudged) \in Nat /\ Cardinality(deliberated) \in Nat
        /\ Cardinality(settled) = Cardinality(unjudged) + Cardinality(deliberated)
    BY <1>6, <2>1, <2>2, TwoParts
  <2>4. /\ Cardinality(triage) \in Nat
        /\ Cardinality(settled \cup triage) = Cardinality(settled) + Cardinality(triage)
    BY <1>6, <2>2, <2>3, TwoParts
  <2>5. QED
    BY <2>2, <2>3, <2>4
<1>11. /\ Cardinality((held \cup blocked) \cup errored) + Cardinality(acted) = Len(journal)
       /\ Cardinality(acted) \in Nat
  <2>1. ((held \cup blocked) \cup errored) \cap acted = {}
    BY <1>2, <1>7
  <2>2. ((held \cup blocked) \cup errored) \cup acted = D
    BY <1>2, <1>7
  <2>3. QED
    BY <1>5, <1>6, <1>9, <2>1, <2>2, TwoParts
<1>12. /\ s.acted = Cardinality(acted) /\ s.triage = Cardinality(triage)
       /\ s.held + s.blocked = Cardinality(held \cup blocked)
       /\ s.total - s.acted = Cardinality((held \cup blocked) \cup errored)
  <2>1. PICK n, h, b, e, a, u, d, t :
          /\ n = Len(journal) /\ h = Cardinality(held) /\ b = Cardinality(blocked)
          /\ e = Cardinality(errored) /\ a = Cardinality(acted) /\ u = Cardinality(unjudged)
          /\ d = Cardinality(deliberated) /\ t = Cardinality(triage)
    OBVIOUS
  <2>2. /\ n \in Nat /\ h \in Nat /\ b \in Nat /\ e \in Nat /\ a \in Nat
        /\ u \in Nat /\ d \in Nat /\ t \in Nat
        /\ h + b + e + a = n /\ h = u + d + t
    BY <1>9, <1>10, <1>11, <2>1
  <2>3. n - h - b - e = a /\ h - u - d = t /\ n - a = h + b + e
    BY <2>2
  <2>4. /\ s.acted = a /\ s.triage = t /\ s.held = h /\ s.blocked = b /\ s.total = n
    BY <1>4, <2>1, <2>3
  <2>5. QED
    BY <1>9, <2>1, <2>3, <2>4
<1>13. QED
  BY <1>1, <1>2, <1>3, <1>4, <1>7, <1>12
=============================================================================

------------------------- MODULE TraceSearchProofs -------------------------
(***************************************************************************)
(* Proofs about TraceSearch, for any searches, workers, chunk sizes and    *)
(* faults.  What recursive functions compute is proved by the least        *)
(* counterexample.                                                         *)
(***************************************************************************)
EXTENDS TraceSearch, FiniteSetTheorems, WellFoundedInduction, TLAPS

-----------------------------------------------------------------------------
(* Least and greatest numbers *)

LEMMA Least ==
    ASSUME NEW T, T \subseteq Nat, T # {}
    PROVE  \E n \in T : \A m \in T : n <= m
<1>1. PICK n \in T : \A m \in T : ~(<<m, n>> \in OpToRel(<, Nat))
  BY NatLessThanWellFounded, WFMin
<1>2. \A m \in T : m < n => <<m, n>> \in OpToRel(<, Nat)
  BY DEF OpToRel
<1>3. \A m \in T : ~(m < n)
  BY <1>1, <1>2
<1> QED
  BY <1>3

LEMMA MinIsLeast ==
    ASSUME NEW T, T \subseteq Nat, T # {}
    PROVE  Min(T) \in T /\ \A m \in T : Min(T) <= m
BY Least DEF Min

LEMMA OfTwo ==
    ASSUME NEW a \in Int, NEW b \in Int
    PROVE  /\ Min({a, b}) = IF a <= b THEN a ELSE b
           /\ Max({a, b}) = IF a >= b THEN a ELSE b
<1>1. ASSUME NEW x \in {a, b}, \A y \in {a, b} : x <= y
      PROVE  Min({a, b}) = x
  <2>1. Min({a, b}) \in {a, b} /\ \A y \in {a, b} : Min({a, b}) <= y
    BY <1>1 DEF Min
  <2> QED
    BY <1>1, <2>1
<1>2. ASSUME NEW x \in {a, b}, \A y \in {a, b} : x >= y
      PROVE  Max({a, b}) = x
  <2>1. Max({a, b}) \in {a, b} /\ \A y \in {a, b} : Max({a, b}) >= y
    BY <1>2 DEF Max
  <2> QED
    BY <1>2, <2>1
<1> QED
  BY <1>1, <1>2

-----------------------------------------------------------------------------
(* The plan of a file *)

IsFile(file) ==
    /\ file \in Seq(Line)
    /\ \A i, j \in DOMAIN file : i < j => file[i].stop < file[j].stop

LEMMA Ends ==
    ASSUME NEW file, IsFile(file)
    PROVE  /\ Len(file) \in Nat /\ DOMAIN file = 1..Len(file)
           /\ \A i \in 0..Len(file) : EndOf(file, i) \in Nat
           /\ \A i, j \in 0..Len(file) : i < j => EndOf(file, i) < EndOf(file, j)
           /\ EndOf(file, 0) = 0 /\ SizeOf(file) = EndOf(file, Len(file)) /\ SizeOf(file) \in Nat
           /\ \A i \in DOMAIN file : StartOf(file, i) = EndOf(file, i - 1) /\ StartOf(file, i) \in Nat
           /\ \A i \in DOMAIN file : StartOf(file, i) < SizeOf(file)
<1>1. Len(file) \in Nat /\ DOMAIN file = 1..Len(file)
  BY DEF IsFile
<1>2. \A i \in 1..Len(file) : file[i].stop \in Nat /\ file[i].stop > 0
  <2>1. \A i \in 1..Len(file) : file[i] \in Line
    BY DEF IsFile
  <2>2. \A l \in Line : l.stop \in Nat /\ l.stop > 0
    BY DEF Line
  <2> QED
    BY <2>1, <2>2
<1>3. \A i \in 0..Len(file) : EndOf(file, i) \in Nat
  BY <1>2 DEF EndOf
<1>4. \A i, j \in 0..Len(file) : i < j => EndOf(file, i) < EndOf(file, j)
  <2> SUFFICES ASSUME NEW i \in 0..Len(file), NEW j \in 0..Len(file), i < j
               PROVE  EndOf(file, i) < EndOf(file, j)
    OBVIOUS
  <2>1. j \in 1..Len(file) /\ EndOf(file, j) = file[j].stop
    BY <1>1 DEF EndOf
  <2>2. CASE i = 0
    BY <1>2, <2>1, <2>2 DEF EndOf
  <2>3. CASE i # 0
    <3>1. i \in 1..Len(file) /\ EndOf(file, i) = file[i].stop
      BY <1>1, <2>3 DEF EndOf
    <3> QED
      BY <1>1, <2>1, <3>1 DEF IsFile
  <2> QED
    BY <2>2, <2>3
<1>5. EndOf(file, 0) = 0 /\ SizeOf(file) = EndOf(file, Len(file)) /\ SizeOf(file) \in Nat
  BY <1>1, <1>3 DEF EndOf, SizeOf
<1>6. ASSUME NEW i \in DOMAIN file
      PROVE  StartOf(file, i) = EndOf(file, i - 1) /\ StartOf(file, i) \in Nat /\ StartOf(file, i) < SizeOf(file)
  <2>1. i - 1 \in 0..Len(file) /\ Len(file) \in 0..Len(file) /\ i - 1 < Len(file)
    BY <1>1, <1>6
  <2> QED
    BY <1>3, <1>4, <1>5, <2>1 DEF StartOf
<1> QED
  BY <1>1, <1>3, <1>4, <1>5, <1>6

\* The search for a line break ends at the start of a line or at the file's end.
LEMMA NextIsAStart ==
    ASSUME NEW file, IsFile(file), NEW from
    PROVE  LET next == findNextNewline(file, from)
           IN  /\ next \in Nat
               /\ next < SizeOf(file) => \E l \in DOMAIN file : next = StartOf(file, l)
<1> DEFINE T == {EndOf(file, i) : i \in {l \in DOMAIN file : EndOf(file, l) > from}} \union {SizeOf(file)}
           next == findNextNewline(file, from)
<1>1. T \subseteq Nat /\ T # {}
  BY Ends
<1>2. next \in T /\ next = Min(T)
  BY <1>1, MinIsLeast DEF findNextNewline
<1>3. ASSUME next < SizeOf(file) PROVE \E l \in DOMAIN file : next = StartOf(file, l)
  <2>1. next # SizeOf(file) /\ next \in Nat
    BY <1>1, <1>2, <1>3, Ends
  <2>2. PICK i \in DOMAIN file : next = EndOf(file, i)
    BY <1>2, <2>1
  <2>3. i # Len(file) /\ i \in 1..Len(file) /\ Len(file) \in Nat
    BY <2>1, <2>2, Ends
  <2>4. i + 1 \in DOMAIN file /\ (i + 1) - 1 = i
    BY <2>3, Ends
  <2>5. StartOf(file, i + 1) = next
    BY <2>2, <2>4 DEF StartOf
  <2> QED
    BY <2>4, <2>5
<1> QED
  BY <1>1, <1>2, <1>3

\* The starts the documentation of chunkStarts promises.
AreStarts(file, q) ==
    /\ q \in Seq(Nat) /\ q # <<>> /\ q[1] = 0
    /\ \A i, j \in DOMAIN q : i < j => q[i] < q[j]
    /\ \A i \in DOMAIN q : q[i] = 0 \/ (q[i] < SizeOf(file) /\ \E l \in DOMAIN file : q[i] = StartOf(file, l))

SearchState == [searchedTo : Nat, starts : Seq(Nat)]

LEMMA OneStart ==
    ASSUME NEW file
    PROVE  AreStarts(file, <<0>>)
BY DEF AreStarts

LEMMA MovedKeeps ==
    ASSUME NEW file, IsFile(file), NEW raw, NEW s \in SearchState, AreStarts(file, s.starts)
    PROVE  Moved(file, s, raw) \in SearchState /\ AreStarts(file, Moved(file, s, raw).starts)
<1> DEFINE next == findNextNewline(file, raw)
           q == s.starts
<1>1. next \in Nat /\ (next < SizeOf(file) => \E l \in DOMAIN file : next = StartOf(file, l))
  BY NextIsAStart
<1>2. q \in Seq(Nat) /\ s.searchedTo \in Nat
  BY DEF SearchState
<1>3. CASE raw < s.searchedTo
  BY <1>3 DEF Moved
<1>4. CASE ~(raw < s.searchedTo) /\ ~(next > Last(q) /\ next < SizeOf(file))
  <2>1. Moved(file, s, raw) = [searchedTo |-> next, starts |-> q]
    BY <1>4 DEF Moved
  <2> QED
    BY <1>1, <1>2, <2>1 DEF SearchState
<1>5. CASE ~(raw < s.searchedTo) /\ next > Last(q) /\ next < SizeOf(file)
  <2> DEFINE r == Append(q, next)
  <2>1. Moved(file, s, raw) = [searchedTo |-> next, starts |-> r]
    BY <1>5 DEF Moved
  <2> HIDE DEF next
  <2>2. /\ r \in Seq(Nat) /\ Len(r) = Len(q) + 1 /\ Len(q) \in Nat /\ Len(q) >= 1
        /\ DOMAIN r = 1..Len(r) /\ DOMAIN q = 1..Len(q)
        /\ r[Len(r)] = next /\ \A i \in 1..Len(q) : r[i] = q[i] /\ q[i] \in Nat
    BY <1>1, <1>2 DEF AreStarts
  <2>7. \A i, j \in DOMAIN q : i < j => q[i] < q[j]
    BY DEF AreStarts
  <2>8. q[Len(q)] < next
    BY <1>1, <1>5, <2>2 DEF Last
  <2> HIDE DEF r, q
  <2>3. ASSUME NEW i \in 1..Len(q) PROVE q[i] < next
    <3> DEFINE n == Len(q)
    <3>4. n \in Nat /\ n >= 1 /\ DOMAIN q = 1..n /\ i \in 1..n
      BY <2>2
    <3> HIDE DEF n
    <3>5. n \in 1..n /\ (i = n \/ i < n)
      BY <3>4
    <3>1. Len(q) \in DOMAIN q /\ i \in DOMAIN q /\ (i = Len(q) \/ i < Len(q))
      BY <3>4, <3>5 DEF n
    <3>2. q[i] \in Nat /\ q[Len(q)] \in Nat
      BY <2>2
    <3>3. q[i] <= q[Len(q)]
      BY <2>7, <3>1, <3>2
    <3> QED
      BY <1>1, <2>8, <3>2, <3>3
  <2>4. ASSUME NEW i \in DOMAIN r, NEW j \in DOMAIN r, i < j PROVE r[i] < r[j]
    <3>1. CASE j = Len(r)
      BY <2>2, <2>3, <2>4, <3>1
    <3>2. CASE j # Len(r)
      <4>1. i \in DOMAIN q /\ j \in DOMAIN q /\ r[i] = q[i] /\ r[j] = q[j]
        BY <2>2, <2>4, <3>2
      <4> QED
        BY <2>4, <2>7, <4>1
    <3> QED
      BY <3>1, <3>2
  <2>5. \A i \in DOMAIN r : r[i] = 0 \/ (r[i] < SizeOf(file) /\ \E l \in DOMAIN file : r[i] = StartOf(file, l))
    BY <1>1, <1>5, <2>2, SMTT(30) DEF AreStarts, q
  <2>6. r # <<>> /\ r[1] = 0
    BY <2>2, SMTT(30) DEF AreStarts, q
  <2> QED
    BY <1>1, <2>1, <2>2, <2>4, <2>5, <2>6 DEF AreStarts, SearchState
<1> QED
  BY <1>3, <1>4, <1>5

FirstState == [searchedTo |-> 0, starts |-> <<0>>]

LEMMA AfterExists ==
    ASSUME NEW file, NEW size, NEW n \in Nat
    PROVE  \E f : f = [i \in 0..n |-> IF i = 0 THEN FirstState ELSE Moved(file, f[i - 1], i * size)]
<1> DEFINE Solves(f, k) == f = [i \in 0..k |-> IF i = 0 THEN FirstState ELSE Moved(file, f[i - 1], i * size)]
           T == {k \in Nat : ~ \E f : Solves(f, k)}
<1>1. SUFFICES ASSUME T # {} PROVE FALSE
  <2>1. n \notin T => \E f : Solves(f, n)
    OBVIOUS
  <2> QED
    BY <1>1, <2>1
<1>2. PICK k \in T : \A m \in T : k <= m
  BY <1>1, Least
<1>3. k # 0
  <2>1. Solves([i \in 0..0 |-> FirstState], 0)
    OBVIOUS
  <2> QED
    BY <1>2, <2>1
<1>4. PICK f : Solves(f, k - 1)
  <2>1. k - 1 \in Nat /\ k - 1 < k
    BY <1>2, <1>3
  <2> QED
    BY <1>2, <2>1, SMTT(30)
<1> DEFINE g == [i \in 0..k |-> IF i < k THEN f[i] ELSE Moved(file, f[k - 1], k * size)]
<1>5. Solves(g, k)
  <2>1. ASSUME NEW i \in 0..k
        PROVE  g[i] = IF i = 0 THEN FirstState ELSE Moved(file, g[i - 1], i * size)
    <3>1. k \in Nat
      BY <1>2
    <3>2. CASE i = 0
      BY <1>3, <1>4, <3>1, <3>2
    <3>3. CASE i # 0
      <4>1. i - 1 \in 0..k /\ i - 1 < k /\ g[i - 1] = f[i - 1]
        BY <3>1, <3>3
      <4>2. CASE i = k
        BY <3>1, <3>3, <4>1, <4>2
      <4>3. CASE i # k
        <5>1. i \in 0..k - 1 /\ g[i] = f[i]
          BY <3>1, <4>3
        <5>2. f[i] = Moved(file, f[i - 1], i * size)
          BY <1>4, <3>3, <5>1
        <5> QED
          BY <3>3, <4>1, <5>1, <5>2
      <4> QED
        BY <4>2, <4>3
    <3> QED
      BY <3>2, <3>3
  <2> HIDE DEF FirstState
  <2> QED
    BY <2>1
<1> QED
  BY <1>2, <1>5

\* Each start is the start of a line, and they ascend (chunkStarts).
LEMMA ChunksStartAtLines ==
    ASSUME NEW file, IsFile(file), NEW n \in Nat, n >= 1
    PROVE  AreStarts(file, chunkStarts(file, n))
<1> DEFINE size == SizeOf(file) \div n
           after[i \in 0..n - 1] == IF i = 0 THEN FirstState ELSE Moved(file, after[i - 1], i * size)
<1>1. chunkStarts(file, n) = after[n - 1].starts
  BY DEF chunkStarts, FirstState
<1>2. n - 1 \in Nat
  OBVIOUS
<1> HIDE DEF size
<1>3. after = [i \in 0..n - 1 |-> IF i = 0 THEN FirstState ELSE Moved(file, after[i - 1], i * size)]
  BY <1>2, AfterExists, SMTT(30)
<1> HIDE DEF after
<1> DEFINE Good(i) == after[i] \in SearchState /\ AreStarts(file, after[i].starts)
           T == {i \in 0..n - 1 : ~Good(i)}
<1>4. SUFFICES ASSUME T # {} PROVE FALSE
  <2>1. T = {} => Good(n - 1)
    BY <1>2
  <2> QED
    BY <1>1, <1>4, <2>1
<1>5. PICK i \in T : \A m \in T : i <= m
  <2>1. T \subseteq Nat
    BY <1>2
  <2> QED
    BY <1>4, <2>1, Least
<1>6. i # 0
  <2>1. after[0] = FirstState
    BY <1>2, <1>3
  <2>2. FirstState \in SearchState /\ FirstState.starts = <<0>>
    BY DEF FirstState, SearchState
  <2> QED
    BY <1>5, <2>1, <2>2, OneStart
<1>7. Good(i - 1)
  <2>1. i - 1 \in 0..n - 1 /\ i - 1 < i
    BY <1>2, <1>5, <1>6
  <2> QED
    BY <1>5, <2>1
<1>8. after[i] = Moved(file, after[i - 1], i * size)
  BY <1>3, <1>5, <1>6
<1>9. Good(i)
  BY <1>7, <1>8, MovedKeeps
<1> QED
  BY <1>5, <1>9

LEMMA OffsetsAreStarts ==
    ASSUME SearchAssumption, NEW file, IsFile(file)
    PROVE  AreStarts(file, GetFileOffsets(file))
<1> DEFINE bySize == SizeOf(file) \div MinChunk
           atMost == Min({MaxChunks, bySize})
           numChunks == Max({1, atMost})
<1>1. SizeOf(file) \in Nat /\ MinChunk \in Nat /\ MinChunk >= 1 /\ MaxChunks \in Nat
  BY Ends DEF SearchAssumption
<1>2. bySize \in Nat
  BY <1>1
<1> HIDE DEF bySize
<1>3. atMost \in Nat
  BY <1>1, <1>2, OfTwo
<1> HIDE DEF atMost
<1>4. numChunks \in Nat /\ numChunks >= 1
  BY <1>3, OfTwo
<1>5. GetFileOffsets(file) = IF numChunks = 1 THEN <<0>> ELSE chunkStarts(file, numChunks)
  BY DEF GetFileOffsets, bySize, atMost
<1> HIDE DEF numChunks
<1> QED
  BY <1>4, <1>5, OneStart, ChunksStartAtLines

\* The chunks' lines follow each other from the first line to the last.
Tiles(ts, lines) ==
    /\ Len(ts) \in Nat /\ Len(ts) >= 1 /\ DOMAIN ts = 1..Len(ts)
    /\ \A t \in DOMAIN ts : ts[t].first \in Nat /\ ts[t].last \in Nat /\ ts[t].first <= ts[t].last + 1
    /\ ts[1].first = 1 /\ ts[Len(ts)].last = lines
    /\ \A t \in DOMAIN ts : t # Len(ts) => ts[t + 1].first = ts[t].last + 1

LEMMA PlanTiles ==
    ASSUME SearchAssumption, NEW file, IsFile(file)
    PROVE  /\ Tiles(planFileTasks(file), Len(file))
           /\ \A t \in DOMAIN planFileTasks(file) :
                 planFileTasks(file)[t].offset \in {0} \union {StartOf(file, i) : i \in DOMAIN file}
<1> DEFINE starts == GetFileOffsets(file)
           n == Len(starts)
           before(offset) == Cardinality({i \in DOMAIN file : StartOf(file, i) < offset})
           end(t) == IF t = n THEN SizeOf(file) ELSE starts[t + 1]
           ts == planFileTasks(file)
<1>1. AreStarts(file, starts)
  BY OffsetsAreStarts
<1>2. ts = [t \in DOMAIN starts |->
             [offset |-> starts[t], first |-> before(starts[t]) + 1, last |-> before(end(t))]]
  BY DEF planFileTasks
<1>3. /\ starts \in Seq(Nat) /\ n \in Nat /\ n >= 1 /\ DOMAIN starts = 1..n /\ starts[1] = 0
      /\ \A t \in 1..n : starts[t] \in Nat
      /\ \A i, j \in 1..n : i < j => starts[i] < starts[j]
      /\ \A t \in 1..n : starts[t] <= SizeOf(file)
  <2>1. starts \in Seq(Nat) /\ n \in Nat /\ n >= 1 /\ DOMAIN starts = 1..n /\ starts[1] = 0
    BY <1>1 DEF AreStarts
  <2>2. \A t \in 1..n : starts[t] \in Nat
    BY <2>1
  <2>3. \A i, j \in 1..n : i < j => starts[i] < starts[j]
    BY <1>1, <2>1 DEF AreStarts
  <2>4. \A t \in 1..n : starts[t] = 0 \/ starts[t] < SizeOf(file)
    BY <1>1, <2>1 DEF AreStarts
  <2>5. \A t \in 1..n : starts[t] <= SizeOf(file)
    BY <2>2, <2>4, Ends
  <2> QED
    BY <2>1, <2>2, <2>3, <2>5
<1>4. \A t \in 1..n : starts[t] \in {0} \union {StartOf(file, i) : i \in DOMAIN file}
  BY <1>1, <1>3 DEF AreStarts
<1> HIDE DEF starts
\* How many lines start before an offset.
<1>5. IsFiniteSet(DOMAIN file) /\ Cardinality(DOMAIN file) = Len(file)
  <2>1. DOMAIN file = 1..Len(file) /\ Len(file) \in Nat
    BY Ends
  <2>2. IsFiniteSet(1..Len(file)) /\ Cardinality(1..Len(file)) = IF 1 > Len(file) THEN 0 ELSE Len(file) - 1 + 1
    BY <2>1, FS_Interval
  <2> QED
    BY <2>1, <2>2
<1>6. \A offset \in Nat : before(offset) \in Nat
  <2> SUFFICES ASSUME NEW offset \in Nat PROVE before(offset) \in Nat
    OBVIOUS
  <2>1. IsFiniteSet({i \in DOMAIN file : StartOf(file, i) < offset})
    BY <1>5, FS_Subset
  <2> QED
    BY <2>1, FS_CardinalityType
<1>7. \A a, b \in Nat : a <= b => before(a) <= before(b)
  <2> SUFFICES ASSUME NEW a \in Nat, NEW b \in Nat, a <= b PROVE before(a) <= before(b)
    OBVIOUS
  <2> DEFINE A == {i \in DOMAIN file : StartOf(file, i) < a}
             B == {i \in DOMAIN file : StartOf(file, i) < b}
  <2>1. A \subseteq B
    BY Ends
  <2>2. IsFiniteSet(B)
    BY <1>5, FS_Subset
  <2> QED
    BY <2>1, <2>2, FS_Subset
<1>8. before(0) = 0
  <2>1. {i \in DOMAIN file : StartOf(file, i) < 0} = {}
    BY Ends
  <2> QED
    BY <2>1, FS_EmptySet
<1>9. before(SizeOf(file)) = Len(file)
  <2>1. {i \in DOMAIN file : StartOf(file, i) < SizeOf(file)} = DOMAIN file
    BY Ends
  <2> QED
    BY <1>5, <2>1
<1> HIDE DEF before, n
<1>10. ASSUME NEW t \in 1..n
       PROVE  end(t) \in Nat /\ starts[t] <= end(t) /\ (t # n => end(t) = starts[t + 1])
  <2>1. CASE t = n
    BY <1>3, <2>1, Ends
  <2>2. CASE t # n
    <3>1. t + 1 \in 1..n /\ t < t + 1 /\ end(t) = starts[t + 1]
      BY <1>3, <2>2
    <3> QED
      BY <1>3, <3>1
  <2> QED
    BY <2>1, <2>2
<1>11. end(n) = SizeOf(file)
  OBVIOUS
<1> HIDE DEF end
<1> DEFINE task(t) == [offset |-> starts[t], first |-> before(starts[t]) + 1, last |-> before(end(t))]
<1>12. DOMAIN ts = 1..n /\ Len(ts) = n /\ \A t \in 1..n : ts[t] = task(t)
  <2>1. ts = [t \in 1..n |-> task(t)]
    BY <1>2, <1>3 DEF n, end
  <2> HIDE DEF ts, task
  <2> QED
    BY <1>3, <2>1
<1> HIDE DEF ts
<1>13. ASSUME NEW t \in 1..n
       PROVE  /\ ts[t].first = before(starts[t]) + 1 /\ ts[t].last = before(end(t)) /\ ts[t].offset = starts[t]
              /\ ts[t].first \in Nat /\ ts[t].last \in Nat /\ ts[t].first <= ts[t].last + 1
  <2>1. ts[t].first = before(starts[t]) + 1 /\ ts[t].last = before(end(t)) /\ ts[t].offset = starts[t]
    BY <1>12
  <2>2. before(starts[t]) \in Nat /\ before(end(t)) \in Nat /\ before(starts[t]) <= before(end(t))
    BY <1>3, <1>6, <1>7, <1>10
  <2> QED
    BY <2>1, <2>2
<1>14. ts[1].first = 1 /\ ts[n].last = Len(file)
  <2>1. 1 \in 1..n /\ n \in 1..n
    BY <1>3
  <2> QED
    BY <1>3, <1>8, <1>9, <1>11, <1>13, <2>1
<1>15. ASSUME NEW t \in 1..n, t # n PROVE ts[t + 1].first = ts[t].last + 1
  <2>1. t + 1 \in 1..n
    BY <1>3, <1>15
  <2> QED
    BY <1>10, <1>13, <1>15, <2>1
<1>16. Tiles(ts, Len(file))
  BY <1>3, <1>12, <1>13, <1>14, <1>15 DEF Tiles
<1> QED
  BY <1>4, <1>12, <1>13, <1>16 DEF ts

\* A later chunk's lines come after an earlier one's.
LEMMA ChunksAscend ==
    ASSUME NEW ts, NEW lines, Tiles(ts, lines), NEW t \in DOMAIN ts, NEW u \in DOMAIN ts, t < u
    PROVE  ts[t].last < ts[u].first
<1> DEFINE T == {v \in DOMAIN ts : t < v /\ ~(ts[t].last < ts[v].first)}
<1>1. SUFFICES ASSUME T # {} PROVE FALSE
  <2>1. u \notin T => ts[t].last < ts[u].first
    OBVIOUS
  <2> QED
    BY <1>1, <2>1
<1>2. /\ Len(ts) \in Nat /\ DOMAIN ts = 1..Len(ts)
      /\ \A v \in DOMAIN ts : ts[v].first \in Nat /\ ts[v].last \in Nat /\ ts[v].first <= ts[v].last + 1
      /\ \A v \in DOMAIN ts : v # Len(ts) => ts[v + 1].first = ts[v].last + 1
  BY DEF Tiles
<1>3. PICK v \in T : \A m \in T : v <= m
  <2>1. T \subseteq Nat
    BY <1>2
  <2> QED
    BY <1>1, <2>1, Least
<1>4. v - 1 \in DOMAIN ts /\ v - 1 # Len(ts) /\ (v - 1) + 1 = v /\ ts[v].first = ts[v - 1].last + 1
  <2>1. v - 1 \in DOMAIN ts /\ v - 1 # Len(ts) /\ (v - 1) + 1 = v
    BY <1>2, <1>3
  <2> QED
    BY <1>2, <2>1
<1>5. CASE t = v - 1
  BY <1>2, <1>3, <1>4, <1>5
<1>6. CASE t # v - 1
  <2>1. t < v - 1 /\ v - 1 < v
    BY <1>2, <1>3, <1>6
  <2>2. v - 1 \notin T
    BY <1>2, <1>3, <2>1
  <2>3. ts[t].last < ts[v - 1].first
    BY <1>4, <2>1, <2>2
  <2> QED
    BY <1>2, <1>3, <1>4, <2>3
<1> QED
  BY <1>5, <1>6

LEMMA EachLineHasOneChunk ==
    ASSUME NEW ts, NEW lines \in Nat, Tiles(ts, lines), NEW i \in 1..lines
    PROVE  \E t \in DOMAIN ts : {u \in DOMAIN ts : i \in ts[u].first..ts[u].last} = {t}
<1>1. /\ Len(ts) \in Nat /\ Len(ts) >= 1 /\ DOMAIN ts = 1..Len(ts)
      /\ \A v \in DOMAIN ts : ts[v].first \in Nat /\ ts[v].last \in Nat
      /\ \A v \in DOMAIN ts : v # Len(ts) => ts[v + 1].first = ts[v].last + 1
      /\ ts[1].first = 1 /\ ts[Len(ts)].last = lines
  BY DEF Tiles
<1> DEFINE T == {t \in DOMAIN ts : i <= ts[t].last}
<1>2. PICK t \in T : \A m \in T : t <= m
  <2>1. Len(ts) \in T /\ T \subseteq Nat
    BY <1>1
  <2> QED
    BY <2>1, Least
<1>3. ts[t].first <= i
  <2>1. CASE t = 1
    BY <1>1, <2>1
  <2>2. CASE t # 1
    <3>1. t - 1 \in DOMAIN ts /\ t - 1 # Len(ts) /\ t - 1 < t /\ (t - 1) + 1 = t
      BY <1>1, <1>2, <2>2
    <3>2. t - 1 \notin T
      BY <1>1, <1>2, <3>1
    <3>3. ts[t].first = ts[t - 1].last + 1
      BY <1>1, <3>1
    <3> QED
      BY <1>1, <3>1, <3>2, <3>3
  <2> QED
    BY <2>1, <2>2
<1>4. i \in ts[t].first..ts[t].last
  BY <1>1, <1>2, <1>3
<1>5. ASSUME NEW u \in DOMAIN ts, i \in ts[u].first..ts[u].last PROVE u = t
  <2>1. t \in Nat /\ u \in Nat
    BY <1>1
  <2>2. /\ ts[t].first \in Nat /\ ts[t].last \in Nat /\ ts[u].first \in Nat /\ ts[u].last \in Nat
        /\ ts[t].first <= i /\ i <= ts[t].last /\ ts[u].first <= i /\ i <= ts[u].last
    BY <1>1, <1>2, <1>3, <1>5
  <2>3. ~(t < u)
    <3>1. t < u => ts[t].last < ts[u].first
      BY <1>2, ChunksAscend
    <3> QED
      BY <2>2, <3>1
  <2>4. ~(u < t)
    <3>1. u < t => ts[u].last < ts[t].first
      BY <1>2, ChunksAscend
    <3> QED
      BY <2>2, <3>1
  <2> QED
    BY <2>1, <2>3, <2>4
<1> QED
  BY <1>2, <1>4, <1>5

-----------------------------------------------------------------------------
(* The inductive invariant *)

WorkerState ==
    [pc : {"queued", "open", "done"}, lo : Nat, fed : Nat, seen : Nat, copied : Nat,
     feeder : {"feeding", "ended", "failed"}, parser : {"waiting", "reading", "ended", "stopped"},
     rg : {"running", "exited", "killed"}]
Result == [matches : SUBSET Nat, contexts : SUBSET Nat, newlines : Nat, complete : BOOLEAN]
Outcome == [matches : SUBSET (Nat \X Nat), contexts : SUBSET (Nat \X Nat),
            skipped : BOOLEAN, cacheable : BOOLEAN]

Types ==
    /\ search \in Searches
    /\ phase \in {"file", "scan", "done", "error"}
    /\ bucket \in 0..Len(search.files)
    /\ left \in Nat /\ faults \in Nat
    /\ canceled \in BOOLEAN /\ failed \in BOOLEAN /\ abandoned \in BOOLEAN
    /\ outcomes \in Seq(Outcome)
    /\ Len(outcomes) = IF phase = "scan" THEN bucket - 1 ELSE bucket

\* The first line a chunk's ripgrep is given.
LeadStart(c) == Max({1, tasks[c].first - search.before})

\* Lines i around line m.
InWindow(m, i) == m - search.before <= i /\ i <= m + search.after

\* A goroutine stops early only where the scan is canceled, a read has failed
\* or ripgrep is dead.
FlowInv(c, w) ==
    /\ w.lo = LeadStart(c)
    /\ w.lo - 1 <= w.seen /\ w.seen <= w.fed /\ w.fed <= Len(File)
    /\ w.rg # "killed" => w.copied = Cardinality(Own(c) \intersect w.lo..w.fed)
    /\ w.rg = "exited" => w.feeder # "feeding"
    /\ w.rg = "running" => w.parser # "ended"
    /\ w.rg = "exited" /\ w.parser = "ended" => Unread(w) = {}
    /\ w.parser = "reading" => Unread(w) # {}
    /\ w.parser = "stopped" => canceled \/ w.feeder = "failed" \/ w.rg = "killed"
    /\ w.feeder = "ended" => canceled \/ w.rg = "killed" \/ w.fed >= InputEnd(c)

\* The last two come of a fault, or of a cancel.
FaultFree(w) == w.feeder # "failed" /\ (w.rg = "killed" => canceled)

OpenInv(c, w) == FlowInv(c, w) /\ (faults = 0 => FaultFree(w))

ResultOf(c, w, r, lost) ==
    /\ w.pc = "done" /\ w.lo = LeadStart(c)
    /\ r.matches \subseteq Matched(Own(c)) /\ r.matches \union r.contexts \subseteq w.lo..Len(File)
    /\ r.complete => r.newlines = Cardinality(Own(c))
    /\ r.complete /\ Cap = None /\ ~abandoned /\ ~lost => r.matches = Matched(Own(c))
    /\ faults = 0 => \A m \in r.matches, i \in DOMAIN File : InWindow(m, i) => i \in r.matches \union r.contexts

ResultInv(c, w, r) == ResultOf(c, w, r, failed)

ChunkInv(c) ==
    /\ worker[c].pc = "queued" => worker[c] = Idle
    /\ worker[c].pc = "open" => OpenInv(c, worker[c])
    /\ worker[c].pc # "done" => results[c] = Nothing
    /\ results[c] = Nothing \/ ResultInv(c, worker[c], results[c])

\* Without a cap and while its caller waits, a scan stops only by failing.
CancelInv ==
    /\ failed => canceled
    /\ canceled /\ ~abandoned /\ Cap = None => failed

ScanInv ==
    /\ bucket >= 1
    /\ tasks = planFileTasks(File)
    /\ worker \in [Chunks -> WorkerState] /\ results \in [Chunks -> Result]
    /\ left <= Len(File) /\ (faults = 0 => left = Len(File))
    /\ CancelInv
    /\ \A c \in Chunks : ChunkInv(c)

OutcomeInv(file, o) ==
    /\ \A l \in o.matches \union o.contexts : l[1] \in DOMAIN file /\ l[2] \in {l[1], None}
    /\ \A m \in o.matches : file[m[1]].pats \intersect search.patterns # {}
    /\ o.cacheable /\ ~abandoned =>
          {m[1] : m \in o.matches} = {i \in DOMAIN file : file[i].pats \intersect search.patterns # {}}
    /\ faults = 0 =>
          \A m \in o.matches, i \in DOMAIN file :
              InWindow(m[1], i) => \E l \in o.matches \union o.contexts : l[1] = i

AnswerInv ==
    /\ phase # "done" => answer.cached = {}
    /\ answer.cached \subseteq {k \in DOMAIN outcomes : outcomes[k].cacheable}
    /\ phase = "done" =>
          \E lost : answer.found = creditedMatches(lost) /\ answer.matches \subseteq answer.found

Inv ==
    /\ Types /\ AnswerInv
    /\ phase = "scan" => ScanInv
    /\ \A k \in DOMAIN outcomes : OutcomeInv(search.files[k], outcomes[k])

-----------------------------------------------------------------------------
(* What the invariant says of a scan *)

LEMMA Asked ==
    ASSUME SearchAssumption, search \in Searches
    PROVE  /\ search.before \in Nat /\ search.after \in Nat /\ search.cap \in Nat
           /\ search.files \in Seq(Seq(Line)) /\ \A k \in DOMAIN search.files : IsFile(search.files[k])
           /\ Len(search.files) \in Nat /\ DOMAIN search.files = 1..Len(search.files)
<1>1. search \in [files : Seq(Seq(Line)), patterns : SUBSET Patterns, cap : Nat, before : Nat, after : Nat]
  BY DEF SearchAssumption
<1>2. /\ search.before \in Nat /\ search.after \in Nat /\ search.cap \in Nat
      /\ search.files \in Seq(Seq(Line))
  BY <1>1
<1>3. Len(search.files) \in Nat /\ DOMAIN search.files = 1..Len(search.files)
  BY <1>2
<1>4. ASSUME NEW k \in DOMAIN search.files PROVE IsFile(search.files[k])
  <2>1. search.files[k] \in Seq(Line)
    BY <1>2
  <2>2. \A i, j \in DOMAIN search.files[k] : i < j => search.files[k][i].stop < search.files[k][j].stop
    BY DEF SearchAssumption
  <2> QED
    BY <2>1, <2>2 DEF IsFile
<1> QED
  BY <1>2, <1>3, <1>4

\* The chunks of the file being scanned, and where they start.
LEMMA Plan ==
    ASSUME SearchAssumption, Inv, phase = "scan"
    PROVE  /\ bucket \in DOMAIN search.files /\ IsFile(File) /\ Len(File) \in Nat /\ DOMAIN File = 1..Len(File)
           /\ search.before \in Nat /\ search.after \in Nat
           /\ Tiles(tasks, Len(File))
           /\ \A c \in Chunks :
                /\ tasks[c].first \in Nat /\ tasks[c].last \in Nat /\ tasks[c].first >= 1
                /\ tasks[c].first <= tasks[c].last + 1 /\ tasks[c].last <= Len(File)
                /\ Own(c) \subseteq DOMAIN File
                /\ LeadStart(c) \in Nat /\ LeadStart(c) >= 1 /\ LeadStart(c) <= tasks[c].first
                /\ LeadStart(c) = 1 \/ LeadStart(c) = tasks[c].first - search.before
                /\ tasks[c].first - search.before <= LeadStart(c)
                /\ LeadIn(c) = LeadStart(c)..tasks[c].first - 1
<1>1. search \in Searches /\ bucket \in 0..Len(search.files) /\ bucket >= 1 /\ tasks = planFileTasks(File)
  BY DEF Inv, Types, ScanInv
<1>2. bucket \in DOMAIN search.files /\ search.before \in Nat /\ search.after \in Nat
  BY <1>1, Asked
<1>3. IsFile(File)
  BY <1>1, <1>2, Asked DEF File
<1>4. Len(File) \in Nat /\ DOMAIN File = 1..Len(File)
  BY <1>3, Ends
<1>5. Tiles(tasks, Len(File))
  BY <1>1, <1>3, PlanTiles
<1>6. /\ Len(tasks) \in Nat /\ Len(tasks) >= 1 /\ DOMAIN tasks = 1..Len(tasks)
      /\ \A t \in DOMAIN tasks : tasks[t].first \in Nat /\ tasks[t].last \in Nat /\ tasks[t].first <= tasks[t].last + 1
      /\ tasks[1].first = 1 /\ tasks[Len(tasks)].last = Len(File)
      /\ \A t \in DOMAIN tasks : t # Len(tasks) => tasks[t + 1].first = tasks[t].last + 1
  BY <1>5 DEF Tiles
<1>7. ASSUME NEW c \in Chunks
      PROVE  /\ tasks[c].first \in Nat /\ tasks[c].last \in Nat /\ tasks[c].first >= 1
             /\ tasks[c].first <= tasks[c].last + 1 /\ tasks[c].last <= Len(File)
             /\ Own(c) \subseteq DOMAIN File
             /\ LeadStart(c) \in Nat /\ LeadStart(c) >= 1 /\ LeadStart(c) <= tasks[c].first
             /\ LeadStart(c) = 1 \/ LeadStart(c) = tasks[c].first - search.before
             /\ tasks[c].first - search.before <= LeadStart(c)
             /\ LeadIn(c) = LeadStart(c)..tasks[c].first - 1
  <2>1. c \in 1..Len(tasks) /\ tasks[c].first \in Nat /\ tasks[c].last \in Nat /\ tasks[c].first <= tasks[c].last + 1
    BY <1>6 DEF Chunks
  <2>2. tasks[c].first >= 1
    <3>1. CASE c = 1
      BY <1>6, <3>1
    <3>2. CASE c # 1
      <4>1. c - 1 \in DOMAIN tasks /\ c - 1 # Len(tasks) /\ (c - 1) + 1 = c
        BY <1>6, <2>1, <3>2
      <4>2. tasks[c].first = tasks[c - 1].last + 1 /\ tasks[c - 1].last \in Nat
        BY <1>6, <4>1
      <4> QED
        BY <4>2
    <3> QED
      BY <3>1, <3>2
  <2>3. tasks[c].last <= Len(File)
    <3>1. CASE c = Len(tasks)
      BY <1>6, <1>4, <3>1
    <3>2. CASE c # Len(tasks)
      <4> DEFINE n == Len(tasks)
      <4>4. n \in Nat /\ n >= 1 /\ DOMAIN tasks = 1..n /\ c \in 1..n /\ c # n
        BY <1>6, <2>1, <3>2
      <4> HIDE DEF n
      <4>5. n \in 1..n /\ c < n
        BY <4>4, SMTT(30)
      <4>1. Len(tasks) \in DOMAIN tasks /\ c \in DOMAIN tasks /\ c < Len(tasks)
        BY <4>4, <4>5 DEF n
      <4>2. tasks[c].last < tasks[Len(tasks)].first
        BY <1>5, <4>1, ChunksAscend
      <4>3. tasks[Len(tasks)].first \in Nat /\ tasks[Len(tasks)].first <= Len(File) + 1
        BY <1>6, <4>1
      <4> QED
        BY <1>4, <2>1, <4>2, <4>3, SMTT(30)
    <3> QED
      BY <3>1, <3>2
  <2>4. Own(c) \subseteq DOMAIN File
    BY <1>4, <2>1, <2>2, <2>3 DEF Own
  <2>5. LeadStart(c) = IF 1 >= tasks[c].first - search.before THEN 1 ELSE tasks[c].first - search.before
    <3> DEFINE n == tasks[c].first - search.before
    <3>1. n \in Int /\ LeadStart(c) = Max({1, n})
      BY <1>2, <2>1 DEF LeadStart
    <3> HIDE DEF n
    <3>2. LeadStart(c) = IF 1 >= n THEN 1 ELSE n
      BY <3>1, OfTwo
    <3> QED
      BY <3>2 DEF n
  <2>6. LeadIn(c) = LeadStart(c)..tasks[c].first - 1
    BY DEF LeadIn, LeadStart
  <2> QED
    BY <1>2, <2>1, <2>2, <2>3, <2>4, <2>5, <2>6
<1> QED
  BY <1>2, <1>3, <1>4, <1>5, <1>7

\* ripgrep's events are among its lines, and more lines take none away.
LEMMA EventsGrow ==
    ASSUME search.before \in Nat, search.after \in Nat, NEW lo \in Nat, NEW hi \in Int, NEW more \in Int, hi <= more
    PROVE  /\ Events(lo, hi) \subseteq lo..hi /\ Events(lo, hi) \subseteq Events(lo, more)
           /\ \A m \in Matched(lo..hi), i \in lo..hi : InWindow(m, i) => i \in Events(lo, hi)
           /\ \A m \in Matched(lo..hi) : m \in Events(lo, hi)
<1>1. lo..hi \subseteq lo..more
  OBVIOUS
<1>2. Matched(lo..hi) \subseteq Matched(lo..more) /\ Matched(lo..hi) \subseteq lo..hi
  BY <1>1 DEF Matched
<1>3. Events(lo, hi) \subseteq Events(lo, more)
  BY <1>1, <1>2 DEF Events
<1>4. \A m \in Matched(lo..hi), i \in lo..hi : InWindow(m, i) => i \in Events(lo, hi)
  BY DEF Events, InWindow
<1>5. \A m \in Matched(lo..hi) : m \in Events(lo, hi)
  <2>1. \A m \in lo..hi : InWindow(m, m)
    BY DEF InWindow
  <2> QED
    BY <1>2, <1>4, <2>1
<1> QED
  BY <1>3, <1>4, <1>5 DEF Events

\* A chunk whose worker rests keeps what is said of it.
LEMMA ChunkRests ==
    ASSUME SearchAssumption, Inv, phase = "scan", NEW c \in Chunks,
           UNCHANGED engine, worker'[c] = worker[c], results'[c] = results[c],
           canceled => canceled', failed => failed', abandoned => abandoned',
           faults' = 0 => faults = 0, left' \in Nat, left' <= left
    PROVE  ChunkInv(c)'
<1>1. UNCHANGED <<search, phase, bucket, tasks>>
  BY DEF engine
<1>2. ChunkInv(c) /\ left \in Nat /\ worker[c] \in WorkerState
  BY DEF Inv, Types, ScanInv
<1>3. /\ search.after \in Nat /\ tasks[c].last \in Nat
  BY Plan
<1>4. InputEnd(c)' <= InputEnd(c) /\ InputEnd(c)' \in Int /\ InputEnd(c) \in Int
  <2> DEFINE n == tasks[c].last + search.after
  <2>1. n \in Int
    BY <1>3
  <2>2. InputEnd(c) = Min({left, n}) /\ InputEnd(c)' = Min({left', n})
    BY <1>1 DEF InputEnd
  <2> HIDE DEF n
  <2> QED
    BY <1>2, <2>1, <2>2, OfTwo
<1>5. worker[c].fed \in Nat
  BY <1>2 DEF WorkerState
<1>6. ASSUME OpenInv(c, worker[c]) PROVE OpenInv(c, worker[c])'
  <2>1. File' = File /\ LeadStart(c)' = LeadStart(c) /\ Own(c)' = Own(c)
    BY <1>1 DEF File, LeadStart, Own
  <2>2. Unread(worker[c])' = Unread(worker[c])
    BY <1>1, <2>1 DEF Unread, Events, Matched
  <2>3. OpenInv(c, worker[c])
    BY <1>6
  <2>4. worker[c].fed >= InputEnd(c) => worker[c].fed >= InputEnd(c)'
    BY <1>4, <1>5
  <2> QED
    BY <2>1, <2>2, <2>3, <2>4 DEF OpenInv, FlowInv, FaultFree
<1>7. ASSUME ResultInv(c, worker[c], results[c]) PROVE ResultInv(c, worker[c], results[c])'
  BY <1>1, <1>7 DEF ResultInv, ResultOf, LeadStart, File, Own, Matched, Cap, InWindow
<1> QED
  BY <1>2, <1>6, <1>7 DEF ChunkInv

LEMMA OutcomesRest ==
    ASSUME Inv, UNCHANGED <<search, outcomes>>, abandoned => abandoned', faults' = 0 => faults = 0
    PROVE  \A k \in DOMAIN outcomes' : OutcomeInv(search.files[k], outcomes[k])'
<1>1. ASSUME NEW k \in DOMAIN outcomes PROVE OutcomeInv(search.files[k], outcomes[k])'
  <2>1. OutcomeInv(search.files[k], outcomes[k])
    BY DEF Inv
  <2> QED
    BY <2>1 DEF OutcomeInv, InWindow
<1> QED
  BY <1>1

\* A step of one chunk's worker.
LEMMA WorkerMoves ==
    ASSUME SearchAssumption, Inv, phase = "scan", NEW c \in Chunks, NEW w \in WorkerState, NEW r \in Result,
           UNCHANGED <<engine, left, abandoned>>,
           worker' = [worker EXCEPT ![c] = w], results' = [results EXCEPT ![c] = r],
           canceled' \in BOOLEAN, failed' \in BOOLEAN, canceled => canceled', failed => failed', CancelInv',
           faults' \in {faults, faults + 1},
           w.pc # "queued", w.pc = "open" => OpenInv(c, w)', w.pc # "done" => r = Nothing,
           r = Nothing \/ ResultInv(c, w, r)'
    PROVE  Inv'
<1>1. UNCHANGED <<search, phase, bucket, tasks, outcomes, answer>> /\ Types /\ ScanInv
  BY DEF engine, Inv
<1>2. faults' \in Nat /\ (faults' = 0 => faults = 0) /\ left \in Nat
  BY <1>1 DEF Types
<1>3. /\ worker' \in [Chunks -> WorkerState] /\ worker'[c] = w /\ \A d \in Chunks \ {c} : worker'[d] = worker[d]
      /\ results' \in [Chunks -> Result] /\ results'[c] = r /\ \A d \in Chunks \ {c} : results'[d] = results[d]
  BY <1>1 DEF ScanInv
<1>4. \A d \in Chunks \ {c} : ChunkInv(d)'
  BY <1>2, <1>3, ChunkRests
<1>5. ChunkInv(c)'
  BY <1>3 DEF ChunkInv
<1>6. Chunks' = Chunks /\ File' = File
  BY <1>1 DEF Chunks, File
<1>7. ScanInv'
  BY <1>1, <1>2, <1>3, <1>4, <1>5, <1>6 DEF ScanInv
<1>8. Types'
  BY <1>1, <1>2 DEF Types
<1>9. AnswerInv'
  BY <1>1 DEF Inv, AnswerInv
<1>10. \A k \in DOMAIN outcomes' : OutcomeInv(search.files[k], outcomes[k])'
  BY <1>1, <1>2, OutcomesRest
<1> QED
  BY <1>7, <1>8, <1>9, <1>10 DEF Inv

\* A step of a worker that goes on.
LEMMA OpenMoves ==
    ASSUME SearchAssumption, Inv, phase = "scan", NEW c \in Chunks, worker[c].pc # "done",
           NEW w \in WorkerState, w.pc = "open",
           worker' = [worker EXCEPT ![c] = w], UNCHANGED <<engine, left, results, failed, abandoned>>,
           canceled' \in BOOLEAN, canceled => canceled', canceled' /\ ~canceled => Cap # None,
           faults' \in {faults, faults + 1},
           FlowInv(c, w), faults' = 0 => FaultFree(w)
    PROVE  Inv'
<1>1. /\ results[c] = Nothing /\ results[c] \in Result
      /\ failed \in BOOLEAN /\ CancelInv
  BY DEF Inv, ScanInv, ChunkInv, Types
<1>2. results' = [results EXCEPT ![c] = Nothing]
  BY <1>1 DEF Inv, ScanInv
<1>3. UNCHANGED <<search, tasks, bucket>>
  BY DEF engine
<1>4. OpenInv(c, w)'
  <2>1. /\ File' = File /\ LeadStart(c)' = LeadStart(c) /\ Own(c)' = Own(c) /\ InputEnd(c)' = InputEnd(c)
    BY <1>3 DEF File, LeadStart, Own, InputEnd
  <2>2. \A lo, hi : Events(lo, hi)' = Events(lo, hi)
    BY <1>3, <2>1 DEF Events, Matched
  <2> QED
    BY <2>1, <2>2 DEF OpenInv, FlowInv, FaultFree, Unread
<1>5. CancelInv'
  BY <1>1, <1>3 DEF CancelInv, Cap
<1> QED
  BY <1>1, <1>2, <1>4, <1>5, WorkerMoves DEF Nothing

-----------------------------------------------------------------------------
(* The steps of a worker *)

\* What an open worker's step starts from.
LEMMA OpenWorker ==
    ASSUME SearchAssumption, Inv, NEW c \in Chunks, Running(c)
    PROVE  /\ phase = "scan" /\ worker[c] \in WorkerState /\ worker[c].pc = "open"
           /\ FlowInv(c, worker[c]) /\ (faults = 0 => FaultFree(worker[c]))
           /\ worker[c].lo \in Nat /\ worker[c].lo >= 1 /\ worker[c].fed \in Nat /\ worker[c].seen \in Nat
           /\ worker[c].copied \in Nat
           /\ results[c] = Nothing /\ faults \in Nat /\ canceled \in BOOLEAN
           /\ worker \in [Chunks -> WorkerState]
<1>1. /\ phase = "scan" /\ worker[c].pc = "open" /\ worker \in [Chunks -> WorkerState]
      /\ ChunkInv(c) /\ faults \in Nat /\ canceled \in BOOLEAN
  BY DEF Running, Inv, ScanInv, Types
<1>2. worker[c] \in WorkerState
  BY <1>1
<1>3. worker[c].lo \in Nat /\ worker[c].fed \in Nat /\ worker[c].seen \in Nat /\ worker[c].copied \in Nat
  BY <1>2 DEF WorkerState
<1>4. FlowInv(c, worker[c]) /\ (faults = 0 => FaultFree(worker[c])) /\ results[c] = Nothing
  BY <1>1 DEF ChunkInv, OpenInv
<1>5. worker[c].lo >= 1
  BY <1>1, <1>4, Plan DEF FlowInv
<1> QED
  BY <1>1, <1>2, <1>3, <1>4, <1>5

\* A step of a worker's goroutines that gives ripgrep nothing and reads nothing.
LEMMA Turns ==
    ASSUME SearchAssumption, Inv, NEW c \in Chunks, Running(c), NEW w \in WorkerState, w.pc = "open",
           worker' = [worker EXCEPT ![c] = w],
           UNCHANGED <<engine, left, results, canceled, failed, abandoned>>, faults' \in {faults, faults + 1},
           w.lo = worker[c].lo, w.fed = worker[c].fed, w.seen = worker[c].seen,
           w.copied = worker[c].copied \/ w.rg = "killed",
           w.rg = "exited" => w.feeder # "feeding",
           w.rg # "killed" => worker[c].rg # "killed",
           w.rg = "running" => w.parser # "ended",
           w.rg = "exited" /\ w.parser = "ended" => Unread(worker[c]) = {},
           w.parser = "reading" => Unread(worker[c]) # {},
           w.parser = "stopped" => canceled \/ w.feeder = "failed" \/ w.rg = "killed",
           w.feeder = "ended" => canceled \/ w.rg = "killed" \/ w.fed >= InputEnd(c),
           faults' = 0 => FaultFree(w)
    PROVE  Inv'
<1>1. FlowInv(c, worker[c])
  BY OpenWorker
<1>2. Unread(w) = Unread(worker[c])
  BY DEF Unread
<1>3. FlowInv(c, w)
  BY <1>1, <1>2 DEF FlowInv
<1> QED
  BY <1>3, OpenMoves, OpenWorker

LEMMA FeedEndsKeeps ==
    ASSUME SearchAssumption, Inv, NEW c \in Chunks, FeedEnds(c) PROVE Inv'
<1> DEFINE o == worker[c]
           w == [o EXCEPT !.feeder = "ended"]
<1>1. Running(c)
  BY DEF FeedEnds
<1>2. /\ o \in WorkerState /\ o.pc = "open" /\ FlowInv(c, o) /\ (faults = 0 => FaultFree(o)) /\ faults \in Nat
      /\ worker \in [Chunks -> WorkerState]
  BY <1>1, OpenWorker
<1>3. worker' = [worker EXCEPT ![c] = w]
  BY <1>2 DEF FeedEnds
<1>4. w \in WorkerState
  BY <1>2 DEF WorkerState
<1>5. /\ w.pc = o.pc /\ w.lo = o.lo /\ w.fed = o.fed /\ w.seen = o.seen /\ w.copied = o.copied /\ w.parser = o.parser /\ w.rg = o.rg
      /\ w.feeder = "ended"
  BY <1>2 DEF WorkerState
<1> HIDE DEF w
<1>6. /\ w.copied = o.copied \/ w.rg = "killed"
      /\ w.rg = "exited" => w.feeder # "feeding"
      /\ w.rg # "killed" => o.rg # "killed"
      /\ w.rg = "running" => w.parser # "ended"
      /\ w.rg = "exited" /\ w.parser = "ended" => Unread(o) = {}
      /\ w.parser = "reading" => Unread(o) # {}
      /\ w.parser = "stopped" => canceled \/ w.feeder = "failed" \/ w.rg = "killed"
      /\ w.feeder = "ended" => canceled \/ w.rg = "killed" \/ w.fed >= InputEnd(c)
  BY <1>2, <1>5 DEF FeedEnds, FlowInv
<1>7. faults' \in {faults, faults + 1} /\ (faults' = 0 => FaultFree(w))
  BY <1>2, <1>5, <1>6 DEF FeedEnds, FlowInv, FaultFree
<1> QED
  BY <1>1, <1>2, <1>3, <1>4, <1>5, <1>6, <1>7, Turns DEF FeedEnds

LEMMA FeedFailsKeeps ==
    ASSUME SearchAssumption, Inv, NEW c \in Chunks, FeedFails(c) PROVE Inv'
<1> DEFINE o == worker[c]
           w == [o EXCEPT !.feeder = IF Stopped(worker[c]) THEN "ended" ELSE "failed"]
<1>1. Running(c)
  BY DEF FeedFails
<1>2. /\ o \in WorkerState /\ o.pc = "open" /\ FlowInv(c, o) /\ (faults = 0 => FaultFree(o)) /\ faults \in Nat
      /\ worker \in [Chunks -> WorkerState]
  BY <1>1, OpenWorker
<1>3. worker' = [worker EXCEPT ![c] = w]
  BY <1>2 DEF FeedFails
<1>4. w \in WorkerState
  BY <1>2 DEF WorkerState
<1>5. /\ w.pc = o.pc /\ w.lo = o.lo /\ w.fed = o.fed /\ w.seen = o.seen /\ w.copied = o.copied /\ w.parser = o.parser /\ w.rg = o.rg
      /\ w.feeder = IF Stopped(worker[c]) THEN "ended" ELSE "failed"
  BY <1>2 DEF WorkerState
<1> HIDE DEF w
<1>6. /\ w.copied = o.copied \/ w.rg = "killed"
      /\ w.rg = "exited" => w.feeder # "feeding"
      /\ w.rg # "killed" => o.rg # "killed"
      /\ w.rg = "running" => w.parser # "ended"
      /\ w.rg = "exited" /\ w.parser = "ended" => Unread(o) = {}
      /\ w.parser = "reading" => Unread(o) # {}
      /\ w.parser = "stopped" => canceled \/ w.feeder = "failed" \/ w.rg = "killed"
      /\ w.feeder = "ended" => canceled \/ w.rg = "killed" \/ w.fed >= InputEnd(c)
  BY <1>2, <1>5 DEF FeedFails, Stopped, Broken, FlowInv
<1>7. faults' \in {faults, faults + 1} /\ (faults' = 0 => FaultFree(w))
  BY <1>2, <1>5, <1>6 DEF FeedFails, Stopped, Broken, FlowInv, FaultFree
<1> QED
  BY <1>1, <1>2, <1>3, <1>4, <1>5, <1>6, <1>7, Turns DEF FeedFails

LEMMA RipgrepExitsKeeps ==
    ASSUME SearchAssumption, Inv, NEW c \in Chunks, RipgrepExits(c) PROVE Inv'
<1> DEFINE o == worker[c]
           w == [o EXCEPT !.rg = "exited"]
<1>1. Running(c)
  BY DEF RipgrepExits
<1>2. /\ o \in WorkerState /\ o.pc = "open" /\ FlowInv(c, o) /\ (faults = 0 => FaultFree(o)) /\ faults \in Nat
      /\ worker \in [Chunks -> WorkerState]
  BY <1>1, OpenWorker
<1>3. worker' = [worker EXCEPT ![c] = w]
  BY <1>2 DEF RipgrepExits
<1>4. w \in WorkerState
  BY <1>2 DEF WorkerState
<1>5. /\ w.pc = o.pc /\ w.lo = o.lo /\ w.fed = o.fed /\ w.seen = o.seen /\ w.copied = o.copied /\ w.feeder = o.feeder /\ w.parser = o.parser
      /\ w.rg = "exited"
  BY <1>2 DEF WorkerState
<1> HIDE DEF w
<1>6. /\ w.copied = o.copied \/ w.rg = "killed"
      /\ w.rg = "exited" => w.feeder # "feeding"
      /\ w.rg # "killed" => o.rg # "killed"
      /\ w.rg = "running" => w.parser # "ended"
      /\ w.rg = "exited" /\ w.parser = "ended" => Unread(o) = {}
      /\ w.parser = "reading" => Unread(o) # {}
      /\ w.parser = "stopped" => canceled \/ w.feeder = "failed" \/ w.rg = "killed"
      /\ w.feeder = "ended" => canceled \/ w.rg = "killed" \/ w.fed >= InputEnd(c)
  BY <1>2, <1>5 DEF RipgrepExits, FlowInv
<1>7. faults' \in {faults, faults + 1} /\ (faults' = 0 => FaultFree(w))
  BY <1>2, <1>5, <1>6 DEF RipgrepExits, FlowInv, FaultFree
<1> QED
  BY <1>1, <1>2, <1>3, <1>4, <1>5, <1>6, <1>7, Turns DEF RipgrepExits

LEMMA RipgrepIsKilledKeeps ==
    ASSUME SearchAssumption, Inv, NEW c \in Chunks, RipgrepIsKilled(c) PROVE Inv'
<1> DEFINE o == worker[c]
           w == [o EXCEPT !.rg = "killed"]
<1>1. Running(c)
  BY DEF RipgrepIsKilled
<1>2. /\ o \in WorkerState /\ o.pc = "open" /\ FlowInv(c, o) /\ (faults = 0 => FaultFree(o)) /\ faults \in Nat
      /\ worker \in [Chunks -> WorkerState]
  BY <1>1, OpenWorker
<1>3. worker' = [worker EXCEPT ![c] = w]
  BY <1>2 DEF RipgrepIsKilled
<1>4. w \in WorkerState
  BY <1>2 DEF WorkerState
<1>5. /\ w.pc = o.pc /\ w.lo = o.lo /\ w.fed = o.fed /\ w.seen = o.seen /\ w.copied = o.copied /\ w.feeder = o.feeder /\ w.parser = o.parser
      /\ w.rg = "killed"
  BY <1>2 DEF WorkerState
<1> HIDE DEF w
<1>6. /\ w.copied = o.copied \/ w.rg = "killed"
      /\ w.rg = "exited" => w.feeder # "feeding"
      /\ w.rg # "killed" => o.rg # "killed"
      /\ w.rg = "running" => w.parser # "ended"
      /\ w.rg = "exited" /\ w.parser = "ended" => Unread(o) = {}
      /\ w.parser = "reading" => Unread(o) # {}
      /\ w.parser = "stopped" => canceled \/ w.feeder = "failed" \/ w.rg = "killed"
      /\ w.feeder = "ended" => canceled \/ w.rg = "killed" \/ w.fed >= InputEnd(c)
  BY <1>2, <1>5 DEF RipgrepIsKilled, Stopped, Broken, FlowInv
<1>7. faults' \in {faults, faults + 1} /\ (faults' = 0 => FaultFree(w))
  BY <1>2, <1>5, <1>6 DEF RipgrepIsKilled, Stopped, Broken, FlowInv, FaultFree
<1> QED
  BY <1>1, <1>2, <1>3, <1>4, <1>5, <1>6, <1>7, Turns DEF RipgrepIsKilled

LEMMA RipgrepDiesKeeps ==
    ASSUME SearchAssumption, Inv, NEW c \in Chunks, RipgrepDies(c) PROVE Inv'
<1> DEFINE o == worker[c]
           w == [o EXCEPT !.rg = "killed"]
<1>1. Running(c)
  BY DEF RipgrepDies
<1>2. /\ o \in WorkerState /\ o.pc = "open" /\ FlowInv(c, o) /\ (faults = 0 => FaultFree(o)) /\ faults \in Nat
      /\ worker \in [Chunks -> WorkerState]
  BY <1>1, OpenWorker
<1>3. worker' = [worker EXCEPT ![c] = w]
  BY <1>2 DEF RipgrepDies
<1>4. w \in WorkerState
  BY <1>2 DEF WorkerState
<1>5. /\ w.pc = o.pc /\ w.lo = o.lo /\ w.fed = o.fed /\ w.seen = o.seen /\ w.copied = o.copied /\ w.feeder = o.feeder /\ w.parser = o.parser
      /\ w.rg = "killed"
  BY <1>2 DEF WorkerState
<1> HIDE DEF w
<1>6. /\ w.copied = o.copied \/ w.rg = "killed"
      /\ w.rg = "exited" => w.feeder # "feeding"
      /\ w.rg # "killed" => o.rg # "killed"
      /\ w.rg = "running" => w.parser # "ended"
      /\ w.rg = "exited" /\ w.parser = "ended" => Unread(o) = {}
      /\ w.parser = "reading" => Unread(o) # {}
      /\ w.parser = "stopped" => canceled \/ w.feeder = "failed" \/ w.rg = "killed"
      /\ w.feeder = "ended" => canceled \/ w.rg = "killed" \/ w.fed >= InputEnd(c)
  BY <1>2, <1>5 DEF RipgrepDies, FlowInv
<1>7. faults' \in {faults, faults + 1} /\ (faults' = 0 => FaultFree(w))
  BY <1>2, <1>5, <1>6 DEF RipgrepDies, FlowInv, FaultFree
<1> QED
  BY <1>1, <1>2, <1>3, <1>4, <1>5, <1>6, <1>7, Turns DEF RipgrepDies

LEMMA ParserLooksKeeps ==
    ASSUME SearchAssumption, Inv, NEW c \in Chunks, ParserLooks(c) PROVE Inv'
<1> DEFINE o == worker[c]
           w == [o EXCEPT !.parser = IF Stopped(worker[c]) THEN "stopped" ELSE "reading"]
<1>1. Running(c)
  BY DEF ParserLooks
<1>2. /\ o \in WorkerState /\ o.pc = "open" /\ FlowInv(c, o) /\ (faults = 0 => FaultFree(o)) /\ faults \in Nat
      /\ worker \in [Chunks -> WorkerState]
  BY <1>1, OpenWorker
<1>3. worker' = [worker EXCEPT ![c] = w]
  BY <1>2 DEF ParserLooks
<1>4. w \in WorkerState
  BY <1>2 DEF WorkerState
<1>5. /\ w.pc = o.pc /\ w.lo = o.lo /\ w.fed = o.fed /\ w.seen = o.seen /\ w.copied = o.copied /\ w.feeder = o.feeder /\ w.rg = o.rg
      /\ w.parser = IF Stopped(worker[c]) THEN "stopped" ELSE "reading"
  BY <1>2 DEF WorkerState
<1> HIDE DEF w
<1>6. /\ w.copied = o.copied \/ w.rg = "killed"
      /\ w.rg = "exited" => w.feeder # "feeding"
      /\ w.rg # "killed" => o.rg # "killed"
      /\ w.rg = "running" => w.parser # "ended"
      /\ w.rg = "exited" /\ w.parser = "ended" => Unread(o) = {}
      /\ w.parser = "reading" => Unread(o) # {}
      /\ w.parser = "stopped" => canceled \/ w.feeder = "failed" \/ w.rg = "killed"
      /\ w.feeder = "ended" => canceled \/ w.rg = "killed" \/ w.fed >= InputEnd(c)
  BY <1>2, <1>5 DEF ParserLooks, Stopped, Broken, FlowInv
<1>7. faults' \in {faults, faults + 1} /\ (faults' = 0 => FaultFree(w))
  BY <1>2, <1>5, <1>6 DEF ParserLooks, Stopped, Broken, FlowInv, FaultFree
<1> QED
  BY <1>1, <1>2, <1>3, <1>4, <1>5, <1>6, <1>7, Turns DEF ParserLooks

LEMMA ParserEndsKeeps ==
    ASSUME SearchAssumption, Inv, NEW c \in Chunks, ParserEnds(c) PROVE Inv'
<1> DEFINE o == worker[c]
           w == [o EXCEPT !.parser = "ended"]
<1>1. Running(c)
  BY DEF ParserEnds
<1>2. /\ o \in WorkerState /\ o.pc = "open" /\ FlowInv(c, o) /\ (faults = 0 => FaultFree(o)) /\ faults \in Nat
      /\ worker \in [Chunks -> WorkerState]
  BY <1>1, OpenWorker
<1>3. worker' = [worker EXCEPT ![c] = w]
  BY <1>2 DEF ParserEnds
<1>4. w \in WorkerState
  BY <1>2 DEF WorkerState
<1>5. /\ w.pc = o.pc /\ w.lo = o.lo /\ w.fed = o.fed /\ w.seen = o.seen /\ w.copied = o.copied /\ w.feeder = o.feeder /\ w.rg = o.rg
      /\ w.parser = "ended"
  BY <1>2 DEF WorkerState
<1> HIDE DEF w
<1>6. /\ w.copied = o.copied \/ w.rg = "killed"
      /\ w.rg = "exited" => w.feeder # "feeding"
      /\ w.rg # "killed" => o.rg # "killed"
      /\ w.rg = "running" => w.parser # "ended"
      /\ w.rg = "exited" /\ w.parser = "ended" => Unread(o) = {}
      /\ w.parser = "reading" => Unread(o) # {}
      /\ w.parser = "stopped" => canceled \/ w.feeder = "failed" \/ w.rg = "killed"
      /\ w.feeder = "ended" => canceled \/ w.rg = "killed" \/ w.fed >= InputEnd(c)
  BY <1>2, <1>5 DEF ParserEnds, FlowInv
<1>7. faults' \in {faults, faults + 1} /\ (faults' = 0 => FaultFree(w))
  BY <1>2, <1>5, <1>6 DEF ParserEnds, FlowInv, FaultFree
<1> QED
  BY <1>1, <1>2, <1>3, <1>4, <1>5, <1>6, <1>7, Turns DEF ParserEnds

LEMMA ParserIsCutKeeps ==
    ASSUME SearchAssumption, Inv, NEW c \in Chunks, ParserIsCut(c) PROVE Inv'
<1> DEFINE o == worker[c]
           w == [o EXCEPT !.parser = "stopped"]
<1>1. Running(c)
  BY DEF ParserIsCut
<1>2. /\ o \in WorkerState /\ o.pc = "open" /\ FlowInv(c, o) /\ (faults = 0 => FaultFree(o)) /\ faults \in Nat
      /\ worker \in [Chunks -> WorkerState]
  BY <1>1, OpenWorker
<1>3. worker' = [worker EXCEPT ![c] = w]
  BY <1>2 DEF ParserIsCut
<1>4. w \in WorkerState
  BY <1>2 DEF WorkerState
<1>5. /\ w.pc = o.pc /\ w.lo = o.lo /\ w.fed = o.fed /\ w.seen = o.seen /\ w.copied = o.copied /\ w.feeder = o.feeder /\ w.rg = o.rg
      /\ w.parser = "stopped"
  BY <1>2 DEF WorkerState
<1> HIDE DEF w
<1>6. /\ w.copied = o.copied \/ w.rg = "killed"
      /\ w.rg = "exited" => w.feeder # "feeding"
      /\ w.rg # "killed" => o.rg # "killed"
      /\ w.rg = "running" => w.parser # "ended"
      /\ w.rg = "exited" /\ w.parser = "ended" => Unread(o) = {}
      /\ w.parser = "reading" => Unread(o) # {}
      /\ w.parser = "stopped" => canceled \/ w.feeder = "failed" \/ w.rg = "killed"
      /\ w.feeder = "ended" => canceled \/ w.rg = "killed" \/ w.fed >= InputEnd(c)
  BY <1>2, <1>5 DEF ParserIsCut, FlowInv
<1>7. faults' \in {faults, faults + 1} /\ (faults' = 0 => FaultFree(w))
  BY <1>2, <1>5, <1>6 DEF ParserIsCut, FlowInv, FaultFree
<1> QED
  BY <1>1, <1>2, <1>3, <1>4, <1>5, <1>6, <1>7, Turns DEF ParserIsCut

LEMMA FeedLineKeeps ==
    ASSUME SearchAssumption, Inv, NEW c \in Chunks, FeedLine(c) PROVE Inv'
<1> DEFINE o == worker[c]
           more == IF o.fed + 1 \in Own(c) THEN 1 ELSE 0
<1>1. Running(c)
  BY DEF FeedLine
<1>2. /\ o \in WorkerState /\ o.pc = "open" /\ FlowInv(c, o) /\ (faults = 0 => FaultFree(o)) /\ faults \in Nat
      /\ o.lo \in Nat /\ o.lo >= 1 /\ o.fed \in Nat /\ o.seen \in Nat /\ o.copied \in Nat
      /\ worker \in [Chunks -> WorkerState] /\ phase = "scan" /\ canceled \in BOOLEAN
  BY <1>1, OpenWorker
<1>3. more \in {0, 1} /\ o.copied + more \in Nat
  BY <1>2
<1> HIDE DEF more
<1>4. CASE o.rg = "running"
  <2> DEFINE w == [o EXCEPT !.fed = o.fed + 1, !.copied = o.copied + more]
  <2>1. worker' = [worker EXCEPT ![c] = w]
    BY <1>2, <1>4 DEF FeedLine, more
  <2>2. w \in WorkerState
    <3> DEFINE fed == o.fed + 1
               copied == o.copied + more
    <3>1. fed \in Nat /\ copied \in Nat
      BY <1>2, <1>3
    <3> HIDE DEF fed, copied
    <3>2. [o EXCEPT !.fed = fed, !.copied = copied] \in WorkerState
      BY <1>2, <3>1 DEF WorkerState
    <3> QED
      BY <3>2 DEF fed, copied
  <2>3. /\ w.pc = o.pc /\ w.lo = o.lo /\ w.fed = o.fed + 1 /\ w.seen = o.seen /\ w.copied = o.copied + more
        /\ w.feeder = o.feeder /\ w.parser = o.parser /\ w.rg = o.rg
    BY <1>2 DEF WorkerState
  <2> HIDE DEF w
  <2>4. w.fed <= Len(File)
    <3> DEFINE n == tasks[c].last + search.after
    <3>1. n \in Int /\ left \in Nat /\ left <= Len(File) /\ Len(File) \in Nat
      BY <1>2, Plan DEF Inv, Types, ScanInv
    <3>2. o.fed < InputEnd(c) /\ InputEnd(c) = Min({left, n})
      BY DEF FeedLine, InputEnd
    <3> HIDE DEF n
    <3> QED
      BY <1>2, <2>3, <3>1, <3>2, OfTwo
  <2>5. w.copied = Cardinality(Own(c) \intersect w.lo..w.fed)
    <3> DEFINE S == Own(c) \intersect o.lo..o.fed
               T == Own(c) \intersect o.lo..(o.fed + 1)
    <3>1. o.copied = Cardinality(S) /\ o.lo - 1 <= o.fed
      BY <1>2, <1>4 DEF FlowInv
    <3>2. IsFiniteSet(S)
      <4>1. IsFiniteSet(o.lo..o.fed)
        <5>1. \A a, b \in Int : IsFiniteSet(a..b)
          BY FS_Interval
        <5> QED
          BY <1>2, <5>1
      <4> QED
        BY <4>1, FS_Subset
    <3>3. o.lo..(o.fed + 1) = (o.lo..o.fed) \union {o.fed + 1} /\ o.fed + 1 \notin o.lo..o.fed
      BY <1>2, <3>1
    <3>4. T = IF o.fed + 1 \in Own(c) THEN S \union {o.fed + 1} ELSE S
      BY <3>3
    <3>5. o.fed + 1 \notin S /\ Cardinality(S \union {o.fed + 1}) = Cardinality(S) + 1
      <4>1. o.fed + 1 \notin S
        BY <3>3
      <4> HIDE DEF S
      <4> QED
        BY <4>1, <3>2, FS_AddElement
    <3>6. Cardinality(T) = o.copied + more
      <4> HIDE DEF S, T
      <4> QED
        BY <1>2, <3>1, <3>4, <3>5 DEF more
    <3> QED
      BY <2>3, <3>6
  <2>6. Unread(o) \subseteq Unread(w)
    <3>1. Events(o.lo, o.fed) \subseteq Events(o.lo, o.fed + 1)
      BY <1>2, Plan, EventsGrow
    <3> QED
      BY <2>3, <3>1 DEF Unread
  <2>7. FlowInv(c, w)
    BY <1>2, <1>4, <2>3, <2>4, <2>5, <2>6 DEF FlowInv, FeedLine
  <2>8. faults' = faults /\ (faults' = 0 => FaultFree(w))
    BY <1>2, <2>3 DEF FeedLine, FaultFree
  <2> QED
    BY <1>1, <1>2, <2>1, <2>2, <2>3, <2>7, <2>8, OpenMoves DEF FeedLine
<1>5. CASE o.rg # "running"
  <2> DEFINE w == [o EXCEPT !.feeder = "ended", !.copied = o.copied + more]
  <2>1. worker' = [worker EXCEPT ![c] = w]
    BY <1>2, <1>5 DEF FeedLine, more
  <2>2. w \in WorkerState
    BY <1>2, <1>3 DEF WorkerState
  <2>3. /\ w.pc = o.pc /\ w.lo = o.lo /\ w.fed = o.fed /\ w.seen = o.seen /\ w.feeder = "ended"
        /\ w.parser = o.parser /\ w.rg = o.rg
    BY <1>2 DEF WorkerState
  <2> HIDE DEF w
  <2>4. o.rg = "killed"
    BY <1>2, <1>5 DEF FlowInv, FeedLine, WorkerState
  <2>5. /\ w.parser = "reading" => Unread(o) # {}
        /\ w.parser = "stopped" => canceled \/ w.feeder = "failed" \/ w.rg = "killed"
    BY <1>2, <2>3, <2>4 DEF FlowInv
  <2>6. faults' = faults /\ (faults' = 0 => FaultFree(w))
    BY <1>2, <2>3, <2>4 DEF FeedLine, FaultFree
  <2> QED
    BY <1>1, <1>2, <2>1, <2>2, <2>3, <2>4, <2>5, <2>6, Turns DEF FeedLine
<1> QED
  BY <1>4, <1>5

LEMMA ParserReadsKeeps ==
    ASSUME SearchAssumption, Inv, NEW c \in Chunks, ParserReads(c) PROVE Inv'
<1> DEFINE o == worker[c]
           w == [o EXCEPT !.seen = Min(Unread(o)), !.parser = "waiting"]
<1>1. Running(c)
  BY DEF ParserReads
<1>2. /\ o \in WorkerState /\ o.pc = "open" /\ FlowInv(c, o) /\ (faults = 0 => FaultFree(o)) /\ faults \in Nat
      /\ o.lo \in Nat /\ o.lo >= 1 /\ o.fed \in Nat /\ o.seen \in Nat
      /\ worker \in [Chunks -> WorkerState] /\ phase = "scan" /\ canceled \in BOOLEAN
  BY <1>1, OpenWorker
<1>3. o.parser = "reading" /\ o.rg \in {"running", "exited", "killed"}
  BY <1>2 DEF ParserReads, WorkerState
<1>4. Unread(o) \subseteq o.lo..o.fed /\ Unread(o) # {} /\ \A i \in Unread(o) : i > o.seen
  <2>1. Events(o.lo, o.fed) \subseteq o.lo..o.fed
    BY <1>2, Plan, EventsGrow
  <2> QED
    BY <1>2, <1>3, <2>1 DEF Unread, FlowInv
<1>5. /\ Min(Unread(o)) \in Unread(o)
      /\ Min(Unread(o)) \in Nat /\ Min(Unread(o)) > o.seen /\ Min(Unread(o)) <= o.fed
  <2>1. Unread(o) \subseteq Nat
    BY <1>2, <1>4
  <2>2. Min(Unread(o)) \in Unread(o)
    BY <1>4, <2>1, MinIsLeast
  <2> QED
    BY <1>2, <1>4, <2>1, <2>2
<1>6. w \in WorkerState
  BY <1>2, <1>5 DEF WorkerState
<1>7. /\ w.pc = o.pc /\ w.lo = o.lo /\ w.fed = o.fed /\ w.seen = Min(Unread(o)) /\ w.copied = o.copied
      /\ w.feeder = o.feeder /\ w.parser = "waiting" /\ w.rg = o.rg
  BY <1>2 DEF WorkerState
<1>8. worker' = [worker EXCEPT ![c] = w]
  BY DEF ParserReads
<1> HIDE DEF w
<1>9. FlowInv(c, w)
  BY <1>2, <1>3, <1>5, <1>7 DEF FlowInv
<1>10. canceled' \in BOOLEAN /\ (canceled => canceled') /\ (canceled' /\ ~canceled => Cap # None)
  BY <1>2 DEF ParserReads, Spends
<1>11. faults' = faults /\ (faults' = 0 => FaultFree(w))
  BY <1>2, <1>7 DEF ParserReads, FaultFree
<1> QED
  BY <1>1, <1>2, <1>6, <1>7, <1>8, <1>9, <1>10, <1>11, OpenMoves DEF ParserReads

-----------------------------------------------------------------------------
(* A chunk starts, and ends *)

LEMMA LeadStartIsFirst ==
    ASSUME SearchAssumption, Inv, phase = "scan", NEW c \in Chunks
    PROVE  Min(LeadIn(c) \union {tasks[c].first}) = LeadStart(c)
<1> DEFINE T == LeadIn(c) \union {tasks[c].first}
<1>1. /\ tasks[c].first \in Nat /\ LeadStart(c) \in Nat /\ LeadStart(c) <= tasks[c].first
      /\ LeadIn(c) = LeadStart(c)..tasks[c].first - 1
  BY Plan
<1>2. T \subseteq Nat /\ LeadStart(c) \in T /\ \A i \in T : LeadStart(c) <= i
  BY <1>1
<1>3. Min(T) \in T /\ \A i \in T : Min(T) <= i
  BY <1>2, MinIsLeast
<1> QED
  BY <1>2, <1>3

LEMMA StartChunkKeeps ==
    ASSUME SearchAssumption, Inv, NEW c \in Chunks, StartChunk(c) PROVE Inv'
<1>1. /\ phase = "scan" /\ worker[c].pc = "queued" /\ worker \in [Chunks -> WorkerState]
      /\ results \in [Chunks -> Result] /\ ChunkInv(c) /\ CancelInv /\ canceled \in BOOLEAN /\ failed \in BOOLEAN
  BY DEF StartChunk, Inv, ScanInv, Types
<1>2. worker[c] = Idle /\ results[c] = Nothing /\ results[c] \in Result
  BY <1>1 DEF ChunkInv
<1>3. /\ UNCHANGED <<engine, left, abandoned, results, canceled, failed, faults>>
      /\ UNCHANGED <<search, tasks, bucket>>
      /\ results' = [results EXCEPT ![c] = Nothing]
  BY <1>1, <1>2 DEF StartChunk, engine
<1>4. CancelInv'
  BY <1>1, <1>3 DEF CancelInv, Cap
<1>5. Idle \in WorkerState /\ Nothing \in Result
  BY DEF Idle, WorkerState, Nothing, Result
<1>6. CASE canceled
  <2> DEFINE w == [Idle EXCEPT !.pc = "done"]
  <2>1. worker' = [worker EXCEPT ![c] = w]
    BY <1>1, <1>2, <1>6 DEF StartChunk
  <2>2. w \in WorkerState /\ w.pc = "done"
    BY <1>5 DEF WorkerState
  <2> HIDE DEF w
  <2> QED
    BY <1>1, <1>3, <1>4, <1>5, <2>1, <2>2, WorkerMoves
<1>7. CASE ~canceled
  <2> DEFINE lo == LeadStart(c)
             w == [Idle EXCEPT !.pc = "open", !.lo = lo, !.fed = lo - 1, !.seen = lo - 1]
  <2>1. /\ lo \in Nat /\ lo >= 1 /\ lo <= tasks[c].first /\ Len(File) \in Nat
        /\ tasks[c].first \in Nat /\ tasks[c].last \in Nat
        /\ tasks[c].first <= tasks[c].last + 1 /\ tasks[c].last <= Len(File)
    BY <1>1, Plan
  <2>2. lo = Min(LeadIn(c) \union {tasks[c].first})
    BY <1>1, LeadStartIsFirst
  <2>3. worker' = [worker EXCEPT ![c] = w]
    BY <1>1, <1>2, <1>7, <2>2 DEF StartChunk
  <2> HIDE DEF lo
  <2>4. w \in WorkerState
    <3> DEFINE from == lo - 1
    <3>1. from \in Nat
      BY <2>1
    <3> HIDE DEF from
    <3>2. [Idle EXCEPT !.pc = "open", !.lo = lo, !.fed = from, !.seen = from] \in WorkerState
      BY <1>5, <2>1, <3>1 DEF WorkerState
    <3> QED
      BY <3>2 DEF from
  <2>5. /\ w.pc = "open" /\ w.lo = lo /\ w.fed = lo - 1 /\ w.seen = lo - 1 /\ w.copied = 0
        /\ w.feeder = "feeding" /\ w.parser = "waiting" /\ w.rg = "running"
    BY DEF Idle
  <2> HIDE DEF w
  <2>6. w.copied = Cardinality(Own(c) \intersect w.lo..w.fed)
    <3>1. w.lo..w.fed = {}
      BY <2>1, <2>5
    <3> QED
      BY <2>5, <3>1, FS_EmptySet
  <2>7. FlowInv(c, w) /\ FaultFree(w)
    BY <2>1, <2>5, <2>6 DEF FlowInv, FaultFree, lo
  <2> QED
    BY <1>1, <1>3, <2>3, <2>4, <2>5, <2>7, OpenMoves DEF Types, Inv
<1> QED
  BY <1>6, <1>7

\* The last step of a worker.
LEMMA LastMove ==
    ASSUME SearchAssumption, Inv, NEW c \in Chunks, Running(c),
           NEW w \in WorkerState, w.pc = "done", NEW r \in Result,
           UNCHANGED <<engine, left, abandoned, faults>>,
           worker' = [worker EXCEPT ![c] = w], results' = [results EXCEPT ![c] = r],
           canceled' \in BOOLEAN, failed' \in BOOLEAN, canceled => canceled', failed => failed', CancelInv',
           r = Nothing \/ ResultOf(c, w, r, failed')
    PROVE  Inv'
<1>1. UNCHANGED <<search, tasks, bucket>>
  BY DEF engine
<1>2. ResultOf(c, w, r, failed') => ResultInv(c, w, r)'
  BY <1>1 DEF ResultInv, ResultOf, LeadStart, File, Own, Matched, Cap, InWindow
<1> QED
  BY <1>2, WorkerMoves DEF Running

LEMMA ResultIsRight ==
    ASSUME SearchAssumption, Inv, NEW c \in Chunks, Running(c),
           worker[c].rg # "running", worker[c].feeder # "feeding", worker[c].parser \in {"ended", "stopped"},
           NEW late, late = (IF canceled THEN {} ELSE OwnSeen(c, worker[c]) \ Counted(c, worker[c], worker[c].seen)),
           NEW w, w.pc = "done", w.lo = worker[c].lo, ~IsError(worker[c], canceled \/ Spends(Cardinality(late)))
    PROVE  LET kept == Counted(c, worker[c], worker[c].seen) \union late
           IN  chunkResult(c, worker[c], kept) \in Result /\ ResultOf(c, w, chunkResult(c, worker[c], kept), failed)
<1> DEFINE o == worker[c]
           counted == Counted(c, o, o.seen)
           kept == counted \union late
           read == {i \in Events(o.lo, o.fed) : i <= o.seen}
           r == chunkResult(c, o, kept)
<1>1. /\ o \in WorkerState /\ FlowInv(c, o) /\ (faults = 0 => FaultFree(o))
      /\ o.lo \in Nat /\ o.lo >= 1 /\ o.fed \in Nat /\ o.seen \in Nat /\ o.copied \in Nat /\ phase = "scan"
  BY OpenWorker
<1>2. /\ o.lo = LeadStart(c) /\ o.lo - 1 <= o.seen /\ o.seen <= o.fed /\ o.fed <= Len(File)
      /\ o.rg # "killed" => o.copied = Cardinality(Own(c) \intersect o.lo..o.fed)
      /\ o.rg = "exited" /\ o.parser = "ended" => Unread(o) = {}
      /\ o.parser = "stopped" => canceled \/ o.feeder = "failed" \/ o.rg = "killed"
      /\ o.feeder = "ended" => canceled \/ o.rg = "killed" \/ o.fed >= InputEnd(c)
  BY <1>1 DEF FlowInv
<1>3. o.rg \in {"exited", "killed"} /\ o.feeder \in {"ended", "failed"}
  BY <1>1 DEF WorkerState
<1>4. /\ search.before \in Nat /\ search.after \in Nat /\ Len(File) \in Nat /\ DOMAIN File = 1..Len(File)
      /\ tasks[c].first \in Nat /\ tasks[c].last \in Nat /\ tasks[c].last <= Len(File)
      /\ Own(c) \subseteq DOMAIN File /\ Own(c) = tasks[c].first..tasks[c].last
      /\ tasks[c].first - search.before <= LeadStart(c)
      /\ LeadStart(c) = 1 \/ LeadStart(c) = tasks[c].first - search.before
  BY <1>1, Plan DEF Own
<1>5. /\ OwnSeen(c, o) = Matched(Own(c) \intersect o.lo..o.seen)
      /\ counted \subseteq OwnSeen(c, o) /\ late \subseteq OwnSeen(c, o) /\ kept \subseteq OwnSeen(c, o)
      /\ ~canceled => kept = OwnSeen(c, o)
      /\ \A m \in counted : m + search.after <= o.seen
      /\ canceled => kept = counted
  BY DEF OwnSeen, Counted
<1>6. OwnSeen(c, o) \subseteq Own(c) /\ OwnSeen(c, o) \subseteq o.lo..o.seen /\ OwnSeen(c, o) \subseteq Matched(Own(c))
  BY <1>5 DEF Matched
<1>7. /\ r.matches = kept /\ r.contexts = read \ kept /\ r.newlines = o.copied
      /\ r.complete = (o.copied = Cardinality(Own(c)))
      /\ r = [matches |-> kept, contexts |-> read \ kept, newlines |-> o.copied,
              complete |-> o.copied = Cardinality(Own(c))]
  BY DEF chunkResult
<1>8. /\ Events(o.lo, o.fed) \subseteq o.lo..o.fed
      /\ \A m \in Matched(o.lo..o.fed), i \in o.lo..o.fed : InWindow(m, i) => i \in Events(o.lo, o.fed)
      /\ \A m \in Matched(o.lo..o.fed) : m \in Events(o.lo, o.fed)
  BY <1>1, <1>4, EventsGrow
<1>9. r.matches \union r.contexts = kept \union read
  BY <1>7
<1> HIDE DEF r, kept, counted
<1>10. kept \subseteq o.lo..Len(File) /\ read \subseteq o.lo..Len(File)
  <2>1. kept \subseteq o.lo..o.seen /\ read \subseteq o.lo..o.fed
    BY <1>5, <1>6, <1>8
  <2>2. o.lo..o.seen \subseteq o.lo..Len(File) /\ o.lo..o.fed \subseteq o.lo..Len(File)
    BY <1>1, <1>2, <1>4
  <2> QED
    BY <2>1, <2>2
<1>11. r \in Result
  <2>1. kept \subseteq Nat /\ read \ kept \subseteq Nat /\ (o.copied = Cardinality(Own(c))) \in BOOLEAN
    BY <1>1, <1>4, <1>10
  <2> HIDE DEF read
  <2> QED
    BY <1>1, <1>7, <2>1 DEF Result
\* Without a cancel or a fault the run was read to its end.
<1>13. ~canceled /\ faults = 0 => o.parser = "ended" /\ Unread(o) = {} /\ o.rg = "exited" /\ o.fed >= InputEnd(c)
  BY <1>1, <1>2, <1>3 DEF FaultFree
<1>14. ASSUME r.complete, Cap = None, ~abandoned, ~failed PROVE r.matches = Matched(Own(c))
  <2>1. ~canceled
    BY <1>1, <1>14 DEF Inv, ScanInv, CancelInv
  <2>2. o.parser = "ended" /\ Unread(o) = {} /\ o.rg = "exited"
    <3>1. ~IsError(o, FALSE)
      BY <1>14, <2>1 DEF Spends
    <3> QED
      BY <1>2, <1>3, <2>1, <3>1 DEF IsError
  <2>3. Own(c) \subseteq o.lo..o.fed
    <3> DEFINE S == Own(c) \intersect o.lo..o.fed
    <3>1. Cardinality(S) = Cardinality(Own(c)) /\ S \subseteq Own(c)
      BY <1>2, <1>7, <1>14, <2>2
    <3>2. IsFiniteSet(Own(c))
      <4>1. \A a, b \in Int : IsFiniteSet(a..b)
        BY FS_Interval
      <4> QED
        BY <1>4, <4>1
    <3> HIDE DEF S
    <3>3. S = Own(c)
      BY <3>1, <3>2, FS_Subset
    <3> QED
      BY <3>3 DEF S
  <2>4. Matched(Own(c)) \subseteq OwnSeen(c, o)
    <3> SUFFICES ASSUME NEW m \in Matched(Own(c)) PROVE m \in OwnSeen(c, o)
      OBVIOUS
    <3>1. m \in Own(c) /\ m \in o.lo..o.fed /\ m \in Matched(o.lo..o.fed)
      BY <2>3 DEF Matched
    <3>2. ~(m > o.seen)
      BY <1>8, <2>2, <3>1 DEF Unread
    <3>3. m \in o.lo..o.seen
      BY <1>1, <3>1, <3>2
    <3> QED
      BY <1>5, <3>1, <3>3 DEF Matched
  <2> QED
    BY <1>5, <1>6, <1>7, <2>1, <2>4
<1>15. ASSUME faults = 0, NEW m \in r.matches, NEW i \in DOMAIN File, InWindow(m, i)
       PROVE  i \in r.matches \union r.contexts
  <2>1. m \in kept /\ m \in Own(c) /\ m \in o.lo..o.seen /\ m \in Nat
    <3>1. m \in kept
      BY <1>7, <1>15
    <3>2. m \in OwnSeen(c, o)
      BY <1>5, <3>1
    <3>3. m \in Own(c) /\ m \in o.lo..o.seen
      BY <1>6, <3>2
    <3> QED
      BY <1>1, <3>1, <3>3
  <2>2. i \in Nat /\ i >= 1 /\ i <= Len(File) /\ m - search.before <= i /\ i <= m + search.after
    BY <1>4, <1>15 DEF InWindow
  <2>3. m \in Matched(o.lo..o.fed)
    <3>1. m \in o.lo..o.fed
      BY <1>1, <1>2, <2>1
    <3> QED
      BY <1>5, <2>1, <3>1 DEF Matched
  <2>4. o.lo <= i
    BY <1>2, <1>4, <2>1, <2>2
  <2>5. i <= o.fed /\ i \in o.lo..o.fed => i <= o.seen \/ Unread(o) # {}
    BY <1>1, <1>8, <1>15, <2>2, <2>3 DEF Unread
  <2>6. i <= o.seen
    <3>1. CASE m \in counted
      <4>1. m + search.after <= o.seen
        BY <1>5, <3>1
      <4> QED
        BY <1>1, <1>4, <2>1, <2>2, <4>1
    <3>2. CASE m \notin counted
      <4>1. ~canceled
        BY <1>5, <2>1, <3>2
      <4>2. Unread(o) = {} /\ o.fed >= InputEnd(c)
        BY <1>13, <1>15, <4>1
      <4>3. left = Len(File)
        BY <1>1, <1>15 DEF Inv, ScanInv
      <4>4. InputEnd(c) >= i
        <5> DEFINE n == tasks[c].last + search.after
        <5>1. n \in Int /\ n >= i
          BY <1>4, <2>1, <2>2
        <5>2. InputEnd(c) = Min({left, n})
          BY DEF InputEnd
        <5> HIDE DEF n
        <5> QED
          BY <1>4, <2>2, <4>3, <5>1, <5>2, OfTwo
      <4>5. InputEnd(c) \in Int
        <5> DEFINE n == tasks[c].last + search.after
        <5>1. n \in Int
          BY <1>4
        <5>2. InputEnd(c) = Min({left, n})
          BY DEF InputEnd
        <5> HIDE DEF n
        <5> QED
          BY <1>4, <4>3, <5>1, <5>2, OfTwo
      <4>6. i \in o.lo..o.fed
        BY <1>1, <2>2, <2>4, <4>2, <4>4, <4>5
      <4> QED
        BY <1>1, <2>2, <2>5, <4>2, <4>6
    <3> QED
      BY <3>1, <3>2
  <2>7. i \in o.lo..o.fed
    BY <1>1, <1>2, <2>2, <2>4, <2>6
  <2>8. i \in read
    BY <1>8, <1>15, <2>3, <2>6, <2>7
  <2> QED
    BY <1>9, <2>8
<1>16. ResultOf(c, w, r, failed)
  <2>1. w.pc = "done" /\ w.lo = LeadStart(c)
    BY <1>2
  <2>2. r.matches \subseteq Matched(Own(c)) /\ r.matches \union r.contexts \subseteq w.lo..Len(File)
    BY <1>5, <1>6, <1>7, <1>9, <1>10
  <2>3. r.complete => r.newlines = Cardinality(Own(c))
    BY <1>7
  <2> QED
    BY <1>14, <1>15, <2>1, <2>2, <2>3 DEF ResultOf
<1> QED
  BY <1>11, <1>16 DEF r, kept, counted

LEMMA EndChunkKeeps ==
    ASSUME SearchAssumption, Inv, NEW c \in Chunks, EndChunk(c) PROVE Inv'
<1> DEFINE o == worker[c]
           counted == Counted(c, o, o.seen)
           late == IF canceled THEN {} ELSE OwnSeen(c, o) \ counted
           stopped == canceled \/ Spends(Cardinality(late))
           error == IsError(o, stopped)
           w == [o EXCEPT !.pc = "done"]
           res == chunkResult(c, o, counted \union late)
<1>1. /\ Running(c) /\ o.rg # "running" /\ o.feeder # "feeding" /\ o.parser \in {"ended", "stopped"}
      /\ worker' = [worker EXCEPT ![c] = w]
      /\ results' = [results EXCEPT ![c] = IF error THEN @ ELSE res]
      /\ canceled' = (stopped \/ error) /\ failed' = (failed \/ error)
      /\ UNCHANGED <<engine, left, abandoned, faults>>
  BY DEF EndChunk
<1>2. /\ o \in WorkerState /\ results[c] = Nothing /\ results \in [Chunks -> Result] /\ Nothing \in Result
      /\ canceled \in BOOLEAN /\ failed \in BOOLEAN /\ CancelInv /\ phase = "scan"
  BY <1>1, OpenWorker DEF Inv, ScanInv, Types, Nothing, Result
<1>3. w \in WorkerState /\ w.pc = "done" /\ w.lo = o.lo
  BY <1>2 DEF WorkerState
<1>4. ~error => res \in Result /\ ResultOf(c, w, res, failed)
  <2> HIDE DEF w
  <2> QED
    BY <1>1, <1>3, ResultIsRight
<1>5. stopped \in BOOLEAN /\ error \in BOOLEAN /\ (stopped /\ Cap = None => canceled)
  BY <1>2 DEF IsError, Spends
<1> HIDE DEF error, stopped, res, w
<1>6. /\ canceled' \in BOOLEAN /\ failed' \in BOOLEAN /\ (canceled => canceled') /\ (failed => failed')
  BY <1>1, <1>2, <1>5 DEF stopped
<1>7. CancelInv'
  <2>1. Cap' = Cap /\ abandoned' = abandoned
    BY <1>1 DEF engine, Cap
  <2>2. failed' => canceled'
    BY <1>1, <1>2 DEF CancelInv, stopped
  <2>3. canceled' /\ ~abandoned' /\ Cap' = None => failed'
    BY <1>1, <1>2, <1>5, <2>1 DEF CancelInv
  <2> QED
    BY <2>2, <2>3 DEF CancelInv, None
<1>8. CASE error
  <2>1. results' = [results EXCEPT ![c] = Nothing]
    BY <1>1, <1>2, <1>8
  <2> QED
    BY <1>1, <1>2, <1>3, <1>6, <1>7, <2>1, LastMove
<1>9. CASE ~error
  <2>1. results' = [results EXCEPT ![c] = res] /\ failed' = failed
    BY <1>1, <1>2, <1>9
  <2>2. res \in Result /\ ResultOf(c, w, res, failed')
    BY <1>4, <1>9, <2>1
  <2> QED
    BY <1>1, <1>3, <1>6, <1>7, <2>1, <2>2, LastMove
<1> QED
  BY <1>8, <1>9

-----------------------------------------------------------------------------
(* The world outside, and the engine *)

\* A step that leaves every worker where it is.
LEMMA ScanRests ==
    ASSUME SearchAssumption, Inv, UNCHANGED <<engine, worker, results, failed>>,
           canceled' \in BOOLEAN, abandoned' \in BOOLEAN, canceled => canceled', abandoned => abandoned',
           faults' \in {faults, faults + 1}, left' \in Nat, left' <= left, faults' = 0 => left' = left,
           phase = "scan" => CancelInv'
    PROVE  Inv'
<1>1. UNCHANGED <<search, phase, bucket, tasks, outcomes, answer>> /\ Types /\ left \in Nat /\ faults \in Nat
  BY DEF engine, Inv, Types
<1>2. faults' \in Nat /\ (faults' = 0 => faults = 0)
  BY <1>1
<1>3. ASSUME phase = "scan" PROVE ScanInv'
  <2>1. ScanInv /\ Len(File) \in Nat
    BY <1>3, Plan DEF Inv
  <2>2. ASSUME NEW c \in Chunks PROVE ChunkInv(c)'
    BY <1>1, <1>2, <1>3, <2>2, ChunkRests
  <2>3. Chunks' = Chunks /\ File' = File
    BY <1>1 DEF Chunks, File
  <2>4. left' <= Len(File) /\ (faults' = 0 => left' = Len(File))
    BY <1>1, <1>2, <2>1 DEF ScanInv
  <2> QED
    BY <1>1, <1>3, <2>1, <2>2, <2>3, <2>4 DEF ScanInv
<1>4. Types'
  BY <1>1, <1>2 DEF Types
<1>5. AnswerInv'
  <2>1. AnswerInv
    BY DEF Inv
  <2>2. ASSUME NEW any PROVE creditedMatches(any)' = creditedMatches(any)
    BY <1>1 DEF creditedMatches, creditsFromHits
  <2> QED
    BY <1>1, <2>1, <2>2 DEF AnswerInv
<1>6. \A k \in DOMAIN outcomes' : OutcomeInv(search.files[k], outcomes[k])'
  BY <1>1, <1>2, OutcomesRest
<1> QED
  BY <1>1, <1>3, <1>4, <1>5, <1>6 DEF Inv

LEMMA AbandonKeeps ==
    ASSUME SearchAssumption, Inv, Abandon PROVE Inv'
<1>1. /\ UNCHANGED <<engine, left, worker, results, failed, faults>> /\ abandoned' = TRUE
      /\ canceled' = (canceled \/ phase = "scan")
      /\ canceled \in BOOLEAN /\ left \in Nat
  BY DEF Abandon, Inv, Types
<1>2. phase = "scan" => CancelInv'
  BY <1>1 DEF Inv, ScanInv, CancelInv
<1> QED
  BY <1>1, <1>2, ScanRests

LEMMA CutShortKeeps ==
    ASSUME SearchAssumption, Inv, CutShort PROVE Inv'
<1>1. /\ UNCHANGED <<engine, worker, results, canceled, failed, abandoned>> /\ left' = left - 1 /\ left > 0
      /\ faults' = faults + 1 /\ canceled \in BOOLEAN /\ abandoned \in BOOLEAN /\ left \in Nat /\ faults \in Nat
  BY DEF CutShort, Inv, Types
<1>2. phase = "scan" => CancelInv'
  BY <1>1 DEF Inv, ScanInv, CancelInv, Cap, engine
<1> QED
  BY <1>1, <1>2, ScanRests

LEMMA SearchIsAbandonedKeeps ==
    ASSUME SearchAssumption, Inv, SearchIsAbandoned PROVE Inv'
<1>1. /\ phase = "file" /\ phase' = "error"
      /\ UNCHANGED <<search, bucket, tasks, left, worker, results, spent, canceled, failed,
                     abandoned, faults, outcomes, answer>>
  BY DEF SearchIsAbandoned
<1>2. Types'
  BY <1>1 DEF Inv, Types
<1>3. AnswerInv'
  BY <1>1 DEF Inv, AnswerInv
<1>4. \A k \in DOMAIN outcomes' : OutcomeInv(search.files[k], outcomes[k])'
  BY <1>1, OutcomesRest
<1> QED
  BY <1>1, <1>2, <1>3, <1>4 DEF Inv

LEMMA SettleKeeps ==
    ASSUME SearchAssumption, Inv, Settle PROVE Inv'
<1>1. /\ phase = "file" /\ phase' = "done"
      /\ UNCHANGED <<search, bucket, tasks, left, worker, results, spent, canceled, failed,
                     abandoned, outcomes>>
  BY DEF Settle
<1>2. PICK failing \in Failing :
        LET lost == lostFiles(failing)
            found == creditedMatches(lost)
        IN  /\ faults' = faults + Cardinality(failing)
            /\ answer' = [matches |-> FirstOf(found), found |-> found,
                          skipped |-> lost \union {k \in DOMAIN outcomes : outcomes[k].skipped},
                          cached |-> {k \in DOMAIN outcomes \ lost : outcomes[k].cacheable}]
  BY DEF Settle
<1>3. Cardinality(failing) \in Nat
  BY FS_EmptySet DEF Failing, kSubset
<1> DEFINE lost == lostFiles(failing)
           found == creditedMatches(lost)
<1>4. faults' = faults + Cardinality(failing) /\ faults \in Nat
  BY <1>2 DEF Inv, Types
<1>5. faults' \in Nat /\ (faults' = 0 => faults = 0)
  BY <1>3, <1>4
<1>6. /\ answer'.matches = FirstOf(found) /\ answer'.found = found
      /\ answer'.cached = {k \in DOMAIN outcomes \ lost : outcomes[k].cacheable}
  BY <1>2
<1>7. found = creditedMatches(lost)
  OBVIOUS
<1> HIDE DEF lost, found
<1>8. ASSUME NEW any PROVE creditedMatches(any)' = creditedMatches(any)
  BY <1>1 DEF creditedMatches, creditsFromHits
<1>9. FirstOf(found) \subseteq found
  BY DEF FirstOf
<1>10. AnswerInv'
  <2>1. PICK any : any = lost
    OBVIOUS
  <2>2. answer'.found = creditedMatches(any)' /\ answer'.matches \subseteq answer'.found
    BY <1>6, <1>7, <1>8, <1>9, <2>1
  <2>3. answer'.cached \subseteq {k \in DOMAIN outcomes' : outcomes'[k].cacheable}
    BY <1>1, <1>6
  <2> QED
    BY <1>1, <2>2, <2>3 DEF AnswerInv
<1>11. Types'
  BY <1>1, <1>5 DEF Inv, Types
<1>12. \A k \in DOMAIN outcomes' : OutcomeInv(search.files[k], outcomes[k])'
  BY <1>1, <1>5, OutcomesRest
<1> QED
  BY <1>1, <1>10, <1>11, <1>12 DEF Inv

LEMMA ReadFileKeeps ==
    ASSUME SearchAssumption, Inv, ReadFile PROVE Inv'
<1>1. /\ phase = "file" /\ bucket < Len(search.files) /\ phase' = "scan" /\ bucket' = bucket + 1
      /\ tasks' = planFileTasks(search.files[bucket']) /\ left' = Len(search.files[bucket'])
      /\ worker' = [c \in DOMAIN tasks' |-> Idle] /\ results' = [c \in DOMAIN tasks' |-> Nothing]
      /\ canceled' = FALSE /\ failed' = FALSE
      /\ UNCHANGED <<search, abandoned, faults, outcomes, answer>>
  BY DEF ReadFile, MoreFiles
<1>2. Types /\ search \in Searches /\ bucket \in 0..Len(search.files) /\ Len(outcomes) = bucket
  BY <1>1 DEF Inv, Types
<1>3. /\ Len(search.files) \in Nat /\ bucket' \in 0..Len(search.files) /\ bucket' >= 1
      /\ bucket' \in DOMAIN search.files /\ bucket' - 1 = bucket
  BY <1>1, <1>2, Asked
<1>4. File' = search.files[bucket'] /\ IsFile(File') /\ left' = Len(File') /\ Len(File') \in Nat
  <2>1. File' = search.files[bucket']
    BY <1>1 DEF File
  <2>2. IsFile(search.files[bucket'])
    BY <1>2, <1>3, Asked
  <2>3. Len(search.files[bucket']) \in Nat
    BY <2>2 DEF IsFile
  <2> QED
    BY <1>1, <2>1, <2>2, <2>3
<1>5. Idle \in WorkerState /\ Idle.pc = "queued" /\ Nothing \in Result
  BY DEF Idle, WorkerState, Nothing, Result
<1>6. worker' \in [Chunks' -> WorkerState] /\ results' \in [Chunks' -> Result]
  BY <1>1, <1>5 DEF Chunks
<1>7. ASSUME NEW c \in Chunks' PROVE ChunkInv(c)'
  <2>1. worker'[c] = Idle /\ results'[c] = Nothing
    BY <1>1 DEF Chunks
  <2> QED
    BY <1>5, <2>1 DEF ChunkInv, Nothing
<1>8. CancelInv'
  BY <1>1 DEF CancelInv
<1>9. tasks' = planFileTasks(File)'
  BY <1>1, <1>4
<1>10. ScanInv'
  BY <1>3, <1>4, <1>6, <1>7, <1>8, <1>9 DEF ScanInv
<1>11. Types'
  BY <1>1, <1>2, <1>3, <1>4 DEF Types
<1>12. AnswerInv'
  BY <1>1 DEF Inv, AnswerInv
<1>13. \A k \in DOMAIN outcomes' : OutcomeInv(search.files[k], outcomes[k])'
  BY <1>1, OutcomesRest
<1> QED
  BY <1>10, <1>11, <1>12, <1>13 DEF Inv

LEMMA IntervalSize ==
    ASSUME NEW a \in Int, NEW b \in Int, a <= b + 1
    PROVE  IsFiniteSet(a..b) /\ Cardinality(a..b) = b - a + 1
<1>1. IsFiniteSet(a..b) /\ Cardinality(a..b) = IF a > b THEN 0 ELSE b - a + 1
  BY FS_Interval
<1> QED
  BY <1>1

\* A complete chunk's line breaks lead from its first line to the next chunk's.
LEMMA CompleteIsCounted ==
    ASSUME SearchAssumption, Inv, phase = "scan", NEW d \in Chunks, results[d].complete
    PROVE  tasks[d].first + results[d].newlines = tasks[d].last + 1
<1>1. results[d] # Nothing /\ ChunkInv(d)
  BY DEF Inv, ScanInv, Nothing
<1>2. results[d].newlines = Cardinality(tasks[d].first..tasks[d].last)
  BY <1>1 DEF ChunkInv, ResultInv, ResultOf, Own
<1>3. tasks[d].first \in Int /\ tasks[d].last \in Int /\ tasks[d].first <= tasks[d].last + 1
  BY Plan
<1>4. Cardinality(tasks[d].first..tasks[d].last) = tasks[d].last - tasks[d].first + 1
  BY <1>3, IntervalSize
<1> QED
  BY <1>2, <1>3, <1>4

\* Where the chunks before one are complete, the line breaks counted in them
\* lead to the first of its lines.
LEMMA LineBreaksAddUp ==
    ASSUME SearchAssumption, Inv, phase = "scan", NEW c \in Chunks,
           \A d \in 1..c - 1 : results[d].complete,
           NEW f, f = [d \in 1..c |-> IF d = 1 THEN 1 ELSE f[d - 1] + results[d - 1].newlines]
    PROVE  f[c] = tasks[c].first
<1>1. /\ Len(tasks) \in Nat /\ DOMAIN tasks = 1..Len(tasks) /\ Chunks = 1..Len(tasks)
      /\ \A t \in Chunks : tasks[t].first \in Nat /\ tasks[t].last \in Nat /\ tasks[t].first <= tasks[t].last + 1
      /\ tasks[1].first = 1
      /\ \A t \in Chunks : t # Len(tasks) => tasks[t + 1].first = tasks[t].last + 1
  BY Plan DEF Tiles, Chunks
<1>2. c \in Nat /\ c >= 1 /\ \A d \in 1..c : d \in Chunks
  BY <1>1
<1> DEFINE T == {d \in 1..c : f[d] # tasks[d].first}
<1>3. SUFFICES ASSUME T # {} PROVE FALSE
  BY <1>2
<1>4. PICK d \in T : \A e \in T : d <= e
  <2>1. T \subseteq Nat
    BY <1>2
  <2> QED
    BY <1>3, <2>1, Least
<1>5. d \in 1..c /\ f[d] # tasks[d].first
  BY <1>4
<1>6. d # 1
  BY <1>1, <1>5
<1>7. d - 1 \in 1..c /\ d - 1 \in 1..c - 1 /\ d - 1 < d /\ d \in Int /\ (d - 1) + 1 = d
  BY <1>2, <1>5, <1>6
<1>8. f[d - 1] = tasks[d - 1].first
  BY <1>4, <1>7
<1>9. f[d] = f[d - 1] + results[d - 1].newlines
  BY <1>5, <1>6
<1>10. d - 1 # Len(tasks) /\ d - 1 \in Chunks
  <2> DEFINE n == Len(tasks)
  <2>1. n \in Nat /\ Chunks = 1..n
    BY <1>1
  <2> HIDE DEF n
  <2>2. d - 1 # n /\ d - 1 \in Chunks
    BY <1>2, <1>5, <1>6, <2>1, SMTT(30)
  <2> QED
    BY <2>2 DEF n
<1>11. tasks[d].first = tasks[d - 1].last + 1
  BY <1>1, <1>7, <1>10
<1>12. tasks[d - 1].first + results[d - 1].newlines = tasks[d - 1].last + 1
  BY <1>7, <1>10, CompleteIsCounted
<1> QED
  BY <1>5, <1>8, <1>9, <1>11, <1>12

\* A line is numbered as it is in the file, or not at all (engine.go: numbered).
LEMMA NumberIsTrue ==
    ASSUME SearchAssumption, Inv, phase = "scan", NEW c \in Chunks, worker[c].lo = LeadStart(c), NEW i \in Nat
    PROVE  Number(c, i) \in {i, None}
<1>1. CASE ~(\A d \in 1..c - 1 : results[d].complete)
  BY <1>1 DEF Number
<1>2. CASE \A d \in 1..c - 1 : results[d].complete
  <2> DEFINE startLine[d \in 1..c] == IF d = 1 THEN 1 ELSE startLine[d - 1] + results[d - 1].newlines
  <2>1. Number(c, i) = startLine[c] + chunkLine(c, i) - 1
    BY <1>2 DEF Number
  <2>2. /\ Chunks = 1..Len(tasks) /\ Len(tasks) \in Nat /\ c \in Nat /\ c >= 1
        /\ tasks[1].first = 1
        /\ \A t \in Chunks : tasks[t].first \in Nat /\ tasks[t].last \in Nat /\ tasks[t].first <= tasks[t].last + 1
        /\ \A t \in Chunks : t # Len(tasks) => tasks[t + 1].first = tasks[t].last + 1
    BY Plan DEF Tiles, Chunks
  <2>3. \E f : f = [d \in 1..c |-> IF d = 1 THEN 1 ELSE f[d - 1] + results[d - 1].newlines]
    <3> DEFINE f == [d \in 1..c |-> tasks[d].first]
    <3>1. ASSUME NEW d \in 1..c
          PROVE  f[d] = IF d = 1 THEN 1 ELSE f[d - 1] + results[d - 1].newlines
      <4>1. CASE d = 1
        BY <2>2, <4>1
      <4>2. CASE d # 1
        <5>1. d - 1 \in 1..c - 1 /\ d - 1 \in 1..c /\ d - 1 \in Chunks /\ d - 1 # Len(tasks) /\ (d - 1) + 1 = d
          BY <2>2, <4>2
        <5>2. tasks[d - 1].first + results[d - 1].newlines = tasks[d - 1].last + 1
          BY <1>2, <5>1, CompleteIsCounted
        <5>3. tasks[d].first = tasks[d - 1].last + 1
          BY <2>2, <5>1
        <5>4. f[d] = tasks[d].first /\ f[d - 1] = tasks[d - 1].first
          BY <5>1
        <5> QED
          BY <4>2, <5>2, <5>3, <5>4
      <4> QED
        BY <4>1, <4>2
    <3>2. f = [d \in 1..c |-> IF d = 1 THEN 1 ELSE f[d - 1] + results[d - 1].newlines]
      BY <3>1
    <3> QED
      BY <3>2
  <2>4. startLine = [d \in 1..c |-> IF d = 1 THEN 1 ELSE startLine[d - 1] + results[d - 1].newlines]
    BY <2>3
  <2> HIDE DEF startLine
  <2>5. startLine[c] = tasks[c].first
    BY <1>2, <2>4, LineBreaksAddUp
  <2>6. chunkLine(c, i) = i - tasks[c].first + 1
    <3>1. LeadStart(c) \in Nat /\ LeadStart(c) <= tasks[c].first /\ LeadIn(c) = LeadStart(c)..tasks[c].first - 1
      BY Plan
    <3>2. Cardinality(LeadIn(c)) = tasks[c].first - LeadStart(c)
      <4> DEFINE lo == LeadStart(c)
                 hi == tasks[c].first - 1
      <4>1. lo \in Int /\ hi \in Int /\ lo <= hi + 1 /\ LeadIn(c) = lo..hi
        BY <2>2, <3>1
      <4> HIDE DEF lo, hi
      <4>2. Cardinality(LeadIn(c)) = hi - lo + 1
        BY <4>1, IntervalSize
      <4> QED
        BY <2>2, <3>1, <4>2 DEF lo, hi
    <3> QED
      BY <2>2, <3>1, <3>2 DEF chunkLine
  <2> QED
    BY <2>1, <2>2, <2>5, <2>6
<1> QED
  BY <1>1, <1>2

\* What FileIsRead makes of the chunks' results.
Numbered(lines) == UNION {{<<i, Number(c, i)>> : i \in lines[c]} : c \in Chunks}
Kept == [c \in Chunks |-> results[c].matches]
Around == [c \in Chunks |-> results[c].contexts]
ReadOutcome == [matches |-> Numbered(Kept), contexts |-> Numbered(Around), skipped |-> FALSE,
                cacheable |-> Cap = None /\ \A c \in Chunks : results[c].complete]

\* A line of a result is a line of the file, and has its number or none.
LEMMA ResultLines ==
    ASSUME SearchAssumption, Inv, phase = "scan", NEW c \in Chunks,
           NEW i \in results[c].matches \union results[c].contexts
    PROVE  /\ ResultInv(c, worker[c], results[c])
           /\ i \in Nat /\ i \in DOMAIN File /\ Number(c, i) \in {i, None}
<1>1. results[c] # Nothing /\ ChunkInv(c)
  BY DEF Nothing, Inv, ScanInv
<1>2. ResultInv(c, worker[c], results[c])
  BY <1>1 DEF ChunkInv
<1>3. worker[c].lo = LeadStart(c) /\ i \in LeadStart(c)..Len(File)
  BY <1>2 DEF ResultInv, ResultOf
<1>4. LeadStart(c) \in Nat /\ LeadStart(c) >= 1 /\ DOMAIN File = 1..Len(File) /\ Len(File) \in Nat
  BY Plan
<1>5. i \in Nat /\ i \in DOMAIN File
  BY <1>3, <1>4
<1>6. Number(c, i) \in {i, None}
  BY <1>3, <1>5, NumberIsTrue
<1> QED
  BY <1>2, <1>5, <1>6

LEMMA FileGives ==
    ASSUME SearchAssumption, Inv, phase = "scan", ~failed
    PROVE  ReadOutcome \in Outcome /\ OutcomeInv(File, ReadOutcome)
<1> DEFINE o == ReadOutcome
<1>1. /\ \A l : l \in Numbered(Kept) <=> \E c \in Chunks : \E i \in results[c].matches : l = <<i, Number(c, i)>>
      /\ \A l : l \in Numbered(Around) <=> \E c \in Chunks : \E i \in results[c].contexts : l = <<i, Number(c, i)>>
  BY DEF Numbered, Kept, Around
<1>2. /\ o.matches = Numbered(Kept) /\ o.contexts = Numbered(Around)
      /\ o.cacheable = (Cap = None /\ \A c \in Chunks : results[c].complete)
      /\ o = [matches |-> Numbered(Kept), contexts |-> Numbered(Around), skipped |-> FALSE,
              cacheable |-> Cap = None /\ \A c \in Chunks : results[c].complete]
  BY DEF ReadOutcome
<1>3. \A l \in Numbered(Kept) \union Numbered(Around) :
         \E c \in Chunks : \E i \in results[c].matches \union results[c].contexts : l = <<i, Number(c, i)>>
  BY <1>1
<1>4. ASSUME NEW l \in Numbered(Kept) \union Numbered(Around)
      PROVE  l \in Nat \X Nat /\ l[1] \in DOMAIN File /\ l[2] \in {l[1], None}
  <2>1. PICK c \in Chunks : \E i \in results[c].matches \union results[c].contexts : l = <<i, Number(c, i)>>
    BY <1>3
  <2>2. PICK i \in results[c].matches \union results[c].contexts : l = <<i, Number(c, i)>>
    BY <2>1
  <2>3. i \in Nat /\ i \in DOMAIN File /\ Number(c, i) \in {i, None}
    BY <2>2, ResultLines
  <2>4. l[1] = i /\ l[2] = Number(c, i) /\ Number(c, i) \in Nat
    BY <2>2, <2>3 DEF None
  <2> QED
    BY <2>2, <2>3, <2>4
<1>5. o \in Outcome
  <2>1. Numbered(Kept) \subseteq Nat \X Nat /\ Numbered(Around) \subseteq Nat \X Nat
    BY <1>4
  <2>2. (Cap = None /\ \A c \in Chunks : results[c].complete) \in BOOLEAN
    OBVIOUS
  <2> QED
    BY <1>2, <2>1, <2>2 DEF Outcome
<1> HIDE DEF o
<1>6. ASSUME NEW m \in o.matches PROVE File[m[1]].pats \intersect search.patterns # {}
  <2>1. PICK c \in Chunks : \E i \in results[c].matches : m = <<i, Number(c, i)>>
    BY <1>1, <1>2, <1>6
  <2>2. PICK i \in results[c].matches : m = <<i, Number(c, i)>>
    BY <2>1
  <2>3. i \in Matched(Own(c))
    BY <2>2, ResultLines DEF ResultInv, ResultOf
  <2> QED
    BY <2>2, <2>3 DEF Matched
<1>7. ASSUME o.cacheable, ~abandoned
      PROVE  {m[1] : m \in o.matches} = {i \in DOMAIN File : File[i].pats \intersect search.patterns # {}}
  <2>1. ASSUME NEW c \in Chunks PROVE results[c].matches = Matched(Own(c))
    <3>1. results[c].complete /\ Cap = None
      BY <1>2, <1>7
    <3>2. results[c] # Nothing /\ ChunkInv(c)
      BY <3>1 DEF Nothing, Inv, ScanInv
    <3> QED
      BY <1>7, <3>1, <3>2 DEF ChunkInv, ResultInv, ResultOf
  <2>2. ASSUME NEW m \in o.matches PROVE m[1] \in DOMAIN File
    BY <1>2, <1>4
  <2>3. ASSUME NEW i \in DOMAIN File, File[i].pats \intersect search.patterns # {}
        PROVE  \E m \in o.matches : m[1] = i
    <3>1. Len(File) \in Nat /\ i \in 1..Len(File) /\ Tiles(tasks, Len(File))
      BY Plan
    <3>2. PICK c \in DOMAIN tasks : {u \in DOMAIN tasks : i \in tasks[u].first..tasks[u].last} = {c}
      BY <3>1, EachLineHasOneChunk
    <3>3. c \in Chunks /\ i \in Own(c)
      BY <3>2 DEF Chunks, Own
    <3>4. i \in results[c].matches
      BY <2>1, <2>3, <3>3 DEF Matched
    <3>5. <<i, Number(c, i)>> \in o.matches
      BY <1>1, <1>2, <3>3, <3>4
    <3> QED
      BY <3>5
  <2> QED
    BY <1>6, <2>2, <2>3
<1>8. ASSUME faults = 0, NEW m \in o.matches, NEW i \in DOMAIN File, InWindow(m[1], i)
      PROVE  \E l \in o.matches \union o.contexts : l[1] = i
  <2>1. PICK c \in Chunks : \E j \in results[c].matches : m = <<j, Number(c, j)>>
    BY <1>1, <1>2, <1>8
  <2>2. PICK j \in results[c].matches : m = <<j, Number(c, j)>>
    BY <2>1
  <2>3. i \in results[c].matches \union results[c].contexts
    BY <1>8, <2>2, ResultLines DEF ResultInv, ResultOf
  <2>4. <<i, Number(c, i)>> \in o.matches \union o.contexts
    BY <1>1, <1>2, <2>3
  <2> QED
    BY <2>4
<1>9. OutcomeInv(File, o)
  BY <1>2, <1>4, <1>6, <1>7, <1>8 DEF OutcomeInv
<1> QED
  BY <1>5, <1>9 DEF o

LEMMA FileIsReadKeeps ==
    ASSUME SearchAssumption, Inv, FileIsRead PROVE Inv'
<1> DEFINE o == IF failed THEN SkippedFile ELSE ReadOutcome
<1>1. /\ phase = "scan" /\ phase' = "file"
      /\ outcomes' = Append(outcomes, o)
      /\ UNCHANGED <<search, bucket, tasks, left, worker, results, spent, canceled, failed,
                     abandoned, faults, answer>>
  BY DEF FileIsRead, ReadOutcome, Numbered, Kept, Around
<1>2. Types /\ outcomes \in Seq(Outcome) /\ Len(outcomes) = bucket - 1 /\ bucket \in Nat
  BY <1>1, Asked DEF Inv, Types
<1>3. o \in Outcome /\ OutcomeInv(File, o)
  <2>1. SkippedFile \in Outcome /\ OutcomeInv(File, SkippedFile)
    BY DEF SkippedFile, Outcome, OutcomeInv
  <2> QED
    BY <1>1, <2>1, FileGives
<1> HIDE DEF o
<1>4. /\ outcomes' \in Seq(Outcome) /\ Len(outcomes') = bucket /\ outcomes'[bucket] = o
      /\ DOMAIN outcomes' = 1..bucket /\ DOMAIN outcomes = 1..bucket - 1
      /\ \A k \in 1..bucket - 1 : outcomes'[k] = outcomes[k]
  BY <1>1, <1>2, <1>3
<1>5. Types'
  BY <1>1, <1>2, <1>4 DEF Types
<1>6. AnswerInv'
  <2>1. AnswerInv
    BY DEF Inv
  <2> QED
    BY <1>1, <2>1 DEF AnswerInv
<1>7. ASSUME NEW k \in DOMAIN outcomes' PROVE OutcomeInv(search.files[k], outcomes[k])'
  <2>1. ASSUME NEW x, OutcomeInv(search.files[k], x), outcomes'[k] = x PROVE OutcomeInv(search.files[k], outcomes[k])'
    <3>1. search'.files[k] = search.files[k] /\ search' = search
      BY <1>1
    <3> QED
      BY <1>1, <2>1, <3>1 DEF OutcomeInv, InWindow
  <2>2. CASE k = bucket
    <3>1. OutcomeInv(search.files[k], o) /\ outcomes'[k] = o
      BY <1>3, <1>4, <2>2 DEF File
    <3> QED
      BY <2>1, <3>1
  <2>3. CASE k # bucket
    <3>1. k \in DOMAIN outcomes /\ outcomes'[k] = outcomes[k]
      BY <1>2, <1>4, <2>3
    <3>2. OutcomeInv(search.files[k], outcomes[k])
      BY <3>1 DEF Inv
    <3> QED
      BY <2>1, <3>1, <3>2
  <2> QED
    BY <2>2, <2>3
<1> QED
  BY <1>1, <1>5, <1>6, <1>7 DEF Inv

-----------------------------------------------------------------------------
(* Every step, and what follows *)

LEMMA Starts ==
    ASSUME SearchAssumption, Init PROVE Inv
<1>1. /\ search \in Searches /\ phase = "file" /\ bucket = 0 /\ left = 0 /\ faults = 0 /\ canceled = FALSE
      /\ failed = FALSE /\ abandoned = FALSE /\ outcomes = <<>> /\ answer.cached = {}
  BY DEF Init
<1>2. Types
  <2>1. 0 \in 0..Len(search.files)
    BY <1>1, Asked
  <2>2. outcomes \in Seq(Outcome) /\ Len(outcomes) = 0 /\ bucket = 0 /\ phase # "scan"
    BY <1>1
  <2> QED
    BY <1>1, <2>1, <2>2 DEF Types
<1>3. AnswerInv
  BY <1>1 DEF AnswerInv
<1> QED
  BY <1>1, <1>2, <1>3 DEF Inv

LEMMA StepsKeep ==
    ASSUME SearchAssumption, Inv, [Next]_vars PROVE Inv'
<1>1. ASSUME NEW c \in Chunks, StartChunk(c) \/ Worker(c) PROVE Inv'
  <2>1. CASE StartChunk(c)
    BY <2>1, StartChunkKeeps
  <2>2. CASE Worker(c)
    BY <2>2, FeedLineKeeps, FeedEndsKeeps, RipgrepExitsKeeps, RipgrepIsKilledKeeps, ParserLooksKeeps,
       ParserReadsKeeps, ParserEndsKeeps, EndChunkKeeps DEF Worker
  <2> QED
    BY <1>1, <2>1, <2>2
<1>2. ASSUME NEW c \in Chunks, FeedFails(c) \/ RipgrepDies(c) \/ ParserIsCut(c) PROVE Inv'
  BY <1>2, FeedFailsKeeps, RipgrepDiesKeeps, ParserIsCutKeeps
<1>3. CASE Engine
  BY <1>3, ReadFileKeeps, FileIsReadKeeps, SearchIsAbandonedKeeps, SettleKeeps DEF Engine
<1>4. CASE Abandon \/ CutShort
  BY <1>4, AbandonKeeps, CutShortKeeps
<1>5. CASE UNCHANGED vars
  <2>1. UNCHANGED <<engine, worker, results, canceled, failed, abandoned, faults, left>>
    BY <1>5 DEF vars, engine
  <2>2. /\ canceled \in BOOLEAN /\ abandoned \in BOOLEAN /\ left \in Nat /\ (phase = "scan" => CancelInv)
    BY DEF Inv, Types, ScanInv
  <2>3. phase = "scan" => CancelInv'
    BY <2>1, <2>2 DEF CancelInv, Cap, engine
  <2> QED
    BY <2>1, <2>2, <2>3, ScanRests
<1> QED
  BY <1>1, <1>2, <1>3, <1>4, <1>5 DEF Next, Done

LEMMA TilesTheFile ==
    ASSUME SearchAssumption, Inv PROVE ChunksTileTheFile
<1> SUFFICES ASSUME phase = "scan"
             PROVE  /\ {tasks[c].offset : c \in Chunks} \subseteq {0} \union {StartOf(File, i) : i \in DOMAIN File}
                    /\ \A i \in DOMAIN File : Cardinality({c \in Chunks : i \in Own(c)}) = 1
  BY DEF ChunksTileTheFile
<1>1. IsFile(File) /\ Tiles(tasks, Len(File)) /\ tasks = planFileTasks(File) /\ DOMAIN File = 1..Len(File)
      /\ Len(File) \in Nat
  BY Plan DEF Inv, ScanInv
<1>2. \A c \in Chunks : tasks[c].offset \in {0} \union {StartOf(File, i) : i \in DOMAIN File}
  BY <1>1, PlanTiles DEF Chunks
<1>3. ASSUME NEW i \in DOMAIN File PROVE Cardinality({c \in Chunks : i \in Own(c)}) = 1
  <2>1. PICK t \in DOMAIN tasks : {u \in DOMAIN tasks : i \in tasks[u].first..tasks[u].last} = {t}
    BY <1>1, EachLineHasOneChunk
  <2>2. {c \in Chunks : i \in Own(c)} = {t}
    BY <2>1 DEF Chunks, Own
  <2> QED
    BY <2>2, FS_Singleton
<1> QED
  BY <1>2, <1>3

LEMMA KeepsWholeSearches ==
    ASSUME SearchAssumption, Inv PROVE KeptSearchesAreWhole
<1>1. ASSUME ~abandoned, NEW k \in answer.cached
      PROVE  {m[1] : m \in outcomes[k].matches} =
                 {i \in DOMAIN search.files[k] : search.files[k][i].pats \intersect search.patterns # {}}
  <2>1. k \in DOMAIN outcomes /\ outcomes[k].cacheable
    BY <1>1 DEF Inv, AnswerInv
  <2> QED
    BY <1>1, <2>1 DEF Inv, OutcomeInv
<1> QED
  BY <1>1 DEF KeptSearchesAreWhole, CachedIsWhole

LEMMA ShowsWholeWindows ==
    ASSUME SearchAssumption, Inv PROVE WindowsAreWhole
<1>1. NumbersAreTrue
  BY DEF NumbersAreTrue, Inv, OutcomeInv
<1>2. ASSUME phase = "done", faults = 0, NEW m \in answer.matches PROVE Window(m) = TrueWindow(m)
  <2>1. PICK lost : answer.found = creditedMatches(lost) /\ answer.matches \subseteq answer.found
    BY <1>2 DEF Inv, AnswerInv
  <2>2. \A f : f \in answer.found <=>
           \E k \in DOMAIN outcomes \ lost : \E l \in outcomes[k].matches : \E p \in creditsFromHits(k, l[1]) :
               f = [file |-> k, line |-> l[1], number |-> l[2], pattern |-> p]
    BY <2>1 DEF creditedMatches
  <2>3. PICK k \in DOMAIN outcomes \ lost :
           \E l \in outcomes[k].matches : \E p \in creditsFromHits(k, l[1]) :
               m = [file |-> k, line |-> l[1], number |-> l[2], pattern |-> p]
    BY <1>2, <2>1, <2>2
  <2>4. PICK l \in outcomes[k].matches : m.file = k /\ m.line = l[1]
    BY <2>3
  <2> DEFINE file == search.files[k]
  <2>5. /\ outcomes[k] \in Outcome /\ OutcomeInv(file, outcomes[k])
        /\ Len(outcomes) = bucket /\ bucket \in 0..Len(search.files) /\ outcomes \in Seq(Outcome)
    BY <1>2, <2>3 DEF Inv, Types
  <2>6. /\ search.before \in Nat /\ search.after \in Nat /\ IsFile(file)
        /\ Len(file) \in Nat /\ DOMAIN file = 1..Len(file)
    <3>1. search \in Searches
      BY DEF Inv, Types
    <3>2. k \in DOMAIN search.files
      BY <2>3, <2>5, <3>1, Asked
    <3> QED
      BY <3>1, <3>2, Asked, Ends
  <2>7. /\ \A x \in outcomes[k].matches \union outcomes[k].contexts : x[1] \in DOMAIN file
        /\ \A x \in outcomes[k].matches : file[x[1]].pats \intersect search.patterns # {}
        /\ \A i \in DOMAIN file : InWindow(l[1], i) =>
              \E x \in outcomes[k].matches \union outcomes[k].contexts : x[1] = i
    BY <1>2, <2>4, <2>5 DEF OutcomeInv
  <2>8. Reported(k) = {x[1] : x \in outcomes[k].matches \union outcomes[k].contexts}
    <3>1. ASSUME NEW f \in answer.found, f.file = k PROVE f.line \in {x[1] : x \in outcomes[k].matches}
      BY <2>2, <3>1
    <3>2. ASSUME NEW x \in outcomes[k].matches PROVE \E f \in answer.found : f.file = k /\ f.line = x[1]
      <4>1. PICK p : p \in creditsFromHits(k, x[1])
        BY <2>7 DEF creditsFromHits
      <4>2. [file |-> k, line |-> x[1], number |-> x[2], pattern |-> p] \in answer.found
        BY <2>2, <2>3, <4>1
      <4> QED
        BY <4>2
    <3>3. {f.line : f \in {g \in answer.found : g.file = k}} = {x[1] : x \in outcomes[k].matches}
      BY <3>1, <3>2
    <3> QED
      BY <3>3 DEF Reported
  <2>9. l[1] \in Nat /\ l[1] \in DOMAIN file
    BY <2>6, <2>7
  <2> DEFINE n == l[1]
             R == Reported(k)
  <2>10. Window(m) = {i \in n - search.before..n + search.after : \A j \in Min({i, n})..Max({i, n}) : j \in R}
    BY <2>4 DEF Window
  <2>11. TrueWindow(m) = (n - search.before..n + search.after) \intersect DOMAIN file
    BY <2>4 DEF TrueWindow
  <2>12. R \subseteq DOMAIN file /\ \A i \in DOMAIN file : InWindow(n, i) => i \in R
    BY <2>7, <2>8
  <2> HIDE DEF n, R, file
  <2>13. ASSUME NEW i \in n - search.before..n + search.after
         PROVE  (\A j \in Min({i, n})..Max({i, n}) : j \in R) <=> i \in DOMAIN file
    <3>1. i \in Int /\ n \in Int /\ n \in DOMAIN file
      BY <2>6, <2>9 DEF n
    <3>2. /\ Min({i, n}) = (IF i <= n THEN i ELSE n) /\ Max({i, n}) = (IF i >= n THEN i ELSE n)
      BY <3>1, OfTwo
    <3>3. ASSUME \A j \in Min({i, n})..Max({i, n}) : j \in R PROVE i \in DOMAIN file
      <4>1. i \in Min({i, n})..Max({i, n})
        BY <3>1, <3>2
      <4> QED
        BY <2>12, <3>3, <4>1
    <3>4. ASSUME i \in DOMAIN file, NEW j \in Min({i, n})..Max({i, n}) PROVE j \in R
      <4>1. j \in DOMAIN file
        BY <2>6, <3>1, <3>2, <3>4
      <4>2. InWindow(n, j)
        BY <2>6, <3>1, <3>2, <3>4 DEF InWindow
      <4> QED
        BY <2>12, <4>1, <4>2
    <3> QED
      BY <3>3, <3>4
  <2> QED
    BY <2>10, <2>11, <2>13
<1> QED
  BY <1>1, <1>2 DEF WindowsAreWhole

-----------------------------------------------------------------------------
(* Sizes *)

\* Two sets whose members pair off have one size.
LEMMA PairedOff ==
    ASSUME NEW S, NEW T, IsFiniteSet(S), NEW f \in [S -> T],
           \A a, b \in S : f[a] = f[b] => a = b, \A t \in T : \E s \in S : f[s] = t
    PROVE  IsFiniteSet(T) /\ Cardinality(T) = Cardinality(S)
<1>1. f \in Bijection(S, T)
  BY DEF Bijection, Injection, Surjection, IsInjective
<1>2. ExistsBijection(S, T)
  BY <1>1 DEF ExistsBijection
<1> QED
  BY <1>2, FS_Bijection

LEMMA Disjoint ==
    ASSUME NEW S, NEW T, IsFiniteSet(S), IsFiniteSet(T), S \intersect T = {}
    PROVE  IsFiniteSet(S \union T) /\ Cardinality(S \union T) = Cardinality(S) + Cardinality(T)
<1>1. /\ IsFiniteSet(S \union T)
      /\ Cardinality(S \union T) = Cardinality(S) + Cardinality(T) - Cardinality(S \intersect T)
  BY FS_Union
<1>2. Cardinality(S \intersect T) = 0
  BY FS_EmptySet
<1>3. Cardinality(S) \in Nat /\ Cardinality(T) \in Nat
  BY FS_CardinalityType
<1> QED
  BY <1>1, <1>2, <1>3


MatchOf == [file : Nat, line : Nat, number : Nat, pattern : Nat]

LEMMA PrecedesRanks ==
    /\ \A a \in MatchOf : ~Precedes(a, a)
    /\ \A a, b \in MatchOf :
          Precedes(a, b) \/ Precedes(b, a) \/ (a.file = b.file /\ a.line = b.line /\ a.pattern = b.pattern)
    /\ \A a, b, c \in MatchOf : Precedes(a, b) /\ Precedes(b, c) => Precedes(a, c)
<1>1. \A a \in MatchOf : a.file \in Nat /\ a.line \in Nat /\ a.pattern \in Nat
  BY DEF MatchOf
<1> HIDE DEF MatchOf
<1>2. \A a \in MatchOf : ~Precedes(a, a)
  BY <1>1 DEF Precedes
<1>3. \A a, b \in MatchOf :
          Precedes(a, b) \/ Precedes(b, a) \/ (a.file = b.file /\ a.line = b.line /\ a.pattern = b.pattern)
  BY <1>1 DEF Precedes
<1>4. \A a, b, c \in MatchOf : Precedes(a, b) /\ Precedes(b, c) => Precedes(a, c)
  BY <1>1 DEF Precedes
<1> QED
  BY <1>2, <1>3, <1>4

\* A match's place in the answer's order.
Place(S, m) == Cardinality({n \in S : Precedes(n, m)})

\* A set of matches no two of which are of one line and pattern fills the
\* places from 0 up, one each.
LEMMA OnePlaceEach ==
    ASSUME NEW S, S \subseteq MatchOf, IsFiniteSet(S),
           \A a, b \in S : a.file = b.file /\ a.line = b.line /\ a.pattern = b.pattern => a = b
    PROVE  /\ Cardinality(S) \in Nat
           /\ \A m \in S : Place(S, m) \in 0..Cardinality(S) - 1
           /\ \A a, b \in S : Place(S, a) = Place(S, b) => a = b
           /\ \A n \in 0..Cardinality(S) - 1 : \E m \in S : Place(S, m) = n
<1> DEFINE size == Cardinality(S)
           below(m) == {n \in S : Precedes(n, m)}
<1>1. size \in Nat
  BY FS_CardinalityType
<1>2. \A m \in S : below(m) \subseteq S /\ IsFiniteSet(below(m)) /\ Place(S, m) = Cardinality(below(m)) /\ Place(S, m) \in Nat
  <2> TAKE m \in S
  <2>1. below(m) \subseteq S /\ IsFiniteSet(below(m))
    BY FS_Subset
  <2> QED
    BY <2>1, FS_CardinalityType DEF Place
<1>3. /\ \A a \in S : ~Precedes(a, a)
      /\ \A a, b \in S : a # b => Precedes(a, b) \/ Precedes(b, a)
      /\ \A a, b, c \in S : Precedes(a, b) /\ Precedes(b, c) => Precedes(a, c)
  BY PrecedesRanks
<1>4. ASSUME NEW m \in S PROVE Place(S, m) \in 0..size - 1
  <2>1. m \notin below(m)
    BY <1>3
  <2> DEFINE B == below(m)
  <2>2. B \subseteq S /\ B # S /\ IsFiniteSet(B) /\ Place(S, m) = Cardinality(B) /\ Place(S, m) \in Nat
    BY <1>2, <2>1
  <2> HIDE DEF B
  <2>3. Cardinality(B) <= size /\ Cardinality(B) # size
    BY <2>2, FS_Subset
  <2> QED
    BY <1>1, <2>2, <2>3
<1>5. ASSUME NEW a \in S, NEW b \in S, Precedes(a, b) PROVE Place(S, a) < Place(S, b)
  <2> DEFINE A == below(a)
             B == below(b)
  <2>1. A \subseteq B /\ a \in B /\ a \notin A
    BY <1>3, <1>5
  <2>2. IsFiniteSet(B) /\ Place(S, a) = Cardinality(A) /\ Place(S, b) = Cardinality(B)
        /\ Place(S, a) \in Nat /\ Place(S, b) \in Nat
    BY <1>2
  <2> HIDE DEF A, B
  <2>3. Cardinality(A) <= Cardinality(B) /\ (Cardinality(B) = Cardinality(A) => B = A)
    BY <2>1, <2>2, FS_Subset
  <2> QED
    BY <2>1, <2>2, <2>3
<1>6. \A a, b \in S : Place(S, a) = Place(S, b) => a = b
  <2> SUFFICES ASSUME NEW a \in S, NEW b \in S, Place(S, a) = Place(S, b), a # b PROVE FALSE
    OBVIOUS
  <2>1. Place(S, a) < Place(S, b) \/ Place(S, b) < Place(S, a)
    BY <1>3, <1>5
  <2>2. Place(S, a) \in Nat /\ Place(S, b) \in Nat
    BY <1>2
  <2> QED
    BY <2>1, <2>2
<1> DEFINE places == 0..size - 1
           f == [m \in S |-> Place(S, m)]
<1>7. IsFiniteSet(places) /\ Cardinality(places) = size
  <2>1. 0 \in Int /\ size - 1 \in Int /\ 0 <= (size - 1) + 1 /\ (size - 1) - 0 + 1 = size
    BY <1>1
  <2> HIDE DEF size
  <2> QED
    BY <2>1, IntervalSize
<1>8. f \in Injection(S, places)
  BY <1>4, <1>6 DEF Injection, IsInjective
<1> HIDE DEF places
<1>9. f \in Surjection(S, places)
  BY <1>7, <1>8, FS_Injection
<1>10. \A n \in places : \E m \in S : f[m] = n
  BY <1>9 DEF Surjection
<1> QED
  BY <1>1, <1>4, <1>6, <1>10 DEF places

LEMMA FirstOnes ==
    ASSUME NEW S, S \subseteq MatchOf, IsFiniteSet(S), Cap \in Nat,
           \A a, b \in S : a.file = b.file /\ a.line = b.line /\ a.pattern = b.pattern => a = b
    PROVE  /\ FirstOf(S) \subseteq S
           /\ Cap = None => FirstOf(S) = S
           /\ Cap # None => Cardinality(FirstOf(S)) = IF Cap <= Cardinality(S) THEN Cap ELSE Cardinality(S)
<1> DEFINE size == Cardinality(S)
           n == IF Cap <= size THEN Cap ELSE size
           F == FirstOf(S)
<1>1. /\ size \in Nat
      /\ \A m \in S : Place(S, m) \in 0..size - 1
      /\ \A a, b \in S : Place(S, a) = Place(S, b) => a = b
      /\ \A i \in 0..size - 1 : \E m \in S : Place(S, m) = i
  BY OnePlaceEach
<1>2. F = {m \in S : Cap = None \/ Place(S, m) < Cap}
  BY DEF FirstOf, Place
<1>3. n \in Nat
  BY <1>1
<1>4. ASSUME Cap # None PROVE Cardinality(F) = n
  <2> DEFINE f == [m \in F |-> Place(S, m)]
             places == 0..n - 1
  <2>1. \A m \in F : m \in S /\ Place(S, m) \in 0..n - 1
    BY <1>1, <1>2, <1>3, <1>4
  <2>2. \A i \in 0..n - 1 : \E m \in F : Place(S, m) = i
    <3> TAKE i \in 0..n - 1
    <3>1. i \in 0..size - 1 /\ i < Cap
      BY <1>1, <1>3
    <3> QED
      BY <1>1, <1>2, <3>1
  <2>3. F \subseteq S /\ IsFiniteSet(F)
    BY <1>2, FS_Subset
  <2>4. f \in [F -> places]
    BY <2>1
  <2>5. IsFiniteSet(places) /\ Cardinality(places) = n
    <3>1. 0 \in Int /\ n - 1 \in Int /\ 0 <= (n - 1) + 1 /\ (n - 1) - 0 + 1 = n
      BY <1>3
    <3> HIDE DEF n
    <3> QED
      BY <3>1, IntervalSize
  <2> HIDE DEF F, n, size
  <2>6. Cardinality(places) = Cardinality(F)
    <3>1. \A a, b \in F : f[a] = f[b] => a = b
      BY <1>1, <2>1
    <3>2. \A i \in places : \E m \in F : f[m] = i
      BY <2>2
    <3> HIDE DEF f, places
    <3> QED
      BY <2>3, <2>4, <3>1, <3>2, PairedOff
  <2> QED
    BY <2>5, <2>6
<1> QED
  BY <1>2, <1>4

-----------------------------------------------------------------------------
(* What the scan of a search without faults has charged, and found *)

Calm == faults = 0 /\ ~abandoned

\* The matches of a chunk the budget was charged for.
Charged(c) == IF worker[c].pc = "open" THEN Counted(c, worker[c], worker[c].seen) ELSE results[c].matches
Charges == UNION {Charged(c) : c \in Chunks}

\* The budget is spent by the matches kept, and only its end stops a worker
\* before the end of its chunk.
ChargeInv ==
    /\ ~failed
    /\ spent = Cardinality(Charges)
    /\ canceled => Cap # None /\ spent >= remainingResults
    /\ ~canceled => \A c \in Chunks : worker[c].pc = "done" => results[c].matches = Matched(Own(c))

IsFull(file, o) ==
    \A i \in DOMAIN file : file[i].pats \intersect search.patterns # {} => \E l \in o.matches : l[1] = i

FoundInv ==
    /\ IsFiniteSet(Matches)
    /\ \A k \in DOMAIN outcomes : \A l, m \in outcomes[k].matches : l[1] = m[1] => l = m
    /\ CapIsReached \/ \A k \in DOMAIN outcomes : IsFull(search.files[k], outcomes[k])

DoneInv ==
    phase = "done" =>
        /\ answer.found = creditedMatches({}) /\ answer.matches = FirstOf(answer.found)
        /\ CapIsReached \/ bucket = Len(search.files)

CalmInv == Calm => FoundInv /\ DoneInv /\ (phase = "scan" => ChargeInv)

LEMMA ChargedAreOwn ==
    ASSUME SearchAssumption, Inv, phase = "scan"
    PROVE  /\ \A c \in Chunks : Charged(c) \subseteq Own(c)
           /\ IsFiniteSet(DOMAIN File) /\ \A c \in Chunks : Own(c) \subseteq DOMAIN File
           /\ \A c, d \in Chunks : c # d => Own(c) \intersect Own(d) = {}
<1>1. /\ Tiles(tasks, Len(File)) /\ Len(File) \in Nat /\ DOMAIN File = 1..Len(File)
      /\ \A c \in Chunks : Own(c) \subseteq DOMAIN File
  BY Plan
<1>2. IsFiniteSet(DOMAIN File)
  <2>1. 1 \in Int /\ Len(File) \in Int
    BY <1>1
  <2> QED
    BY <1>1, <2>1, FS_Interval
<1>3. ASSUME NEW c \in Chunks PROVE Charged(c) \subseteq Own(c)
  <2>1. CASE worker[c].pc = "open"
    BY <2>1 DEF Charged, Counted, OwnSeen, Matched
  <2>2. CASE worker[c].pc # "open"
    <3>1. results[c] = Nothing \/ results[c].matches \subseteq Matched(Own(c))
      BY DEF Inv, ScanInv, ChunkInv, ResultInv, ResultOf
    <3> QED
      BY <2>2, <3>1 DEF Charged, Nothing, Matched
  <2> QED
    BY <2>1, <2>2
<1>4. ASSUME NEW c \in Chunks, NEW d \in Chunks, c # d PROVE Own(c) \intersect Own(d) = {}
  <2> SUFFICES ASSUME NEW i \in Own(c) \intersect Own(d) PROVE FALSE
    OBVIOUS
  <2>1. i \in 1..Len(File)
    BY <1>1
  <2>2. PICK t \in DOMAIN tasks : {u \in DOMAIN tasks : i \in tasks[u].first..tasks[u].last} = {t}
    BY <1>1, <2>1, EachLineHasOneChunk
  <2> QED
    BY <1>4, <2>2 DEF Own, Chunks
<1> QED
  BY <1>1, <1>2, <1>3, <1>4

\* The charges of one chunk grow.
LEMMA ChargesGrow ==
    ASSUME SearchAssumption, Inv, phase = "scan", NEW c \in Chunks, UNCHANGED tasks,
           \A d \in Chunks \ {c} : Charged(d)' = Charged(d),
           NEW new, new \subseteq Own(c), new \intersect Charged(c) = {}, Charged(c)' = Charged(c) \union new
    PROVE  /\ Cardinality(Charges') = Cardinality(Charges) + Cardinality(new)
           /\ Cardinality(Charges) \in Nat /\ Cardinality(new) \in Nat
<1>1. Charges' = Charges \union new
  <2>1. Chunks' = Chunks
    BY DEF Chunks
  <2>2. \A i : i \in Charges' <=> \E d \in Chunks : i \in Charged(d)'
    BY <2>1 DEF Charges
  <2>3. \A i : i \in Charges <=> \E d \in Chunks : i \in Charged(d)
    BY DEF Charges
  <2> QED
    BY <2>2, <2>3
<1>2. Charges \intersect new = {}
  <2> SUFFICES ASSUME NEW i \in Charges \intersect new PROVE FALSE
    OBVIOUS
  <2>1. PICK d \in Chunks : i \in Charged(d)
    BY DEF Charges
  <2>2. d # c /\ i \in Own(d) /\ i \in Own(c)
    BY <2>1, ChargedAreOwn
  <2> QED
    BY <2>2, ChargedAreOwn
<1>3. IsFiniteSet(Charges) /\ IsFiniteSet(new)
  <2>1. Charges \subseteq DOMAIN File /\ new \subseteq DOMAIN File
    BY ChargedAreOwn DEF Charges
  <2> QED
    BY <2>1, ChargedAreOwn, FS_Subset
<1> QED
  BY <1>1, <1>2, <1>3, Disjoint, FS_CardinalityType

\* What is found stays where no file is read.
LEMMA FoundRests ==
    ASSUME FoundInv, UNCHANGED <<search, outcomes>> PROVE FoundInv' /\ Matches' = Matches /\ Found' = Found
<1>1. Matches' = Matches
  BY DEF Matches
<1>2. Found' = Found
  BY <1>1 DEF Found
<1>3. CapIsReached' = CapIsReached
  BY <1>2 DEF CapIsReached, Cap, None
<1>4. ASSUME NEW k PROVE IsFull(search.files[k], outcomes[k])' = IsFull(search.files[k], outcomes[k])
  BY DEF IsFull
<1> QED
  BY <1>1, <1>2, <1>3, <1>4 DEF FoundInv

\* A step of one chunk's worker that charges the matches in new.
LEMMA ChargeMoves ==
    ASSUME SearchAssumption, Inv, phase = "scan", Calm, CalmInv, NEW c \in Chunks, NEW w \in WorkerState,
           NEW r \in Result, NEW new, UNCHANGED engine,
           worker' = [worker EXCEPT ![c] = w], results' = [results EXCEPT ![c] = r],
           new \subseteq Own(c), new \intersect Charged(c) = {}, Charged(c)' = Charged(c) \union new,
           spent' = spent + Cardinality(new), ~failed', canceled' = (canceled \/ Spends(Cardinality(new))),
           w.pc = "done" /\ ~canceled' => r.matches = Matched(Own(c))
    PROVE  CalmInv'
<1>1. /\ FoundInv /\ ChargeInv /\ worker \in [Chunks -> WorkerState] /\ results \in [Chunks -> Result]
      /\ canceled \in BOOLEAN
  BY DEF CalmInv, Inv, ScanInv, Types
<1>2. UNCHANGED <<search, phase, bucket, tasks, outcomes, answer>>
  BY DEF engine
<1>3. FoundInv' /\ Found' = Found /\ Cap' = Cap
  BY <1>1, <1>2, FoundRests DEF Cap
<1>4. DoneInv'
  BY <1>2 DEF DoneInv
<1>5. /\ worker'[c] = w /\ \A d \in Chunks \ {c} : worker'[d] = worker[d]
      /\ results'[c] = r /\ \A d \in Chunks \ {c} : results'[d] = results[d]
  BY <1>1
<1>6. Chunks' = Chunks /\ File' = File /\ \A d : Own(d)' = Own(d)
  BY <1>2 DEF Chunks, File, Own
<1>7. search' = search
  BY <1>2
<1>8. ASSUME NEW d \in Chunks \ {c} PROVE Charged(d)' = Charged(d)
  <2>1. worker'[d] = worker[d] /\ results'[d] = results[d] /\ Own(d)' = Own(d)
    BY <1>5, <1>6
  <2>2. OwnSeen(d, worker[d])' = OwnSeen(d, worker[d])
    BY <1>6, <1>7, <2>1 DEF OwnSeen, Matched
  <2>3. Counted(d, worker[d], worker[d].seen)' = Counted(d, worker[d], worker[d].seen)
    BY <1>7, <2>1, <2>2 DEF Counted
  <2> QED
    BY <2>1, <2>3 DEF Charged
<1>9. /\ Cardinality(Charges') = Cardinality(Charges) + Cardinality(new)
      /\ Cardinality(Charges) \in Nat /\ Cardinality(new) \in Nat
  BY <1>2, <1>8, ChargesGrow
<1>10. Found \in Nat /\ Cap \in Nat
  <2>1. search \in Searches
    BY DEF Inv, Types
  <2> QED
    BY <1>1, <2>1, Asked, FS_CardinalityType DEF FoundInv, Found, Cap
<1>11. remainingResults' = remainingResults /\ remainingResults \in Int
  BY <1>3, <1>10 DEF remainingResults
<1>12. spent' = Cardinality(Charges')
  BY <1>1, <1>9 DEF ChargeInv
<1>13. canceled' => Cap' # None /\ spent' >= remainingResults'
  <2>1. CASE canceled
    <3>1. Cap # None /\ spent >= remainingResults /\ spent \in Nat
      BY <1>1, <1>9, <2>1 DEF ChargeInv
    <3> QED
      BY <1>3, <1>9, <1>11, <3>1
  <2>2. CASE Spends(Cardinality(new))
    BY <1>3, <1>11, <2>2 DEF Spends
  <2> QED
    BY <2>1, <2>2
<1>14. ASSUME ~canceled', NEW d \in Chunks, worker'[d].pc = "done" PROVE results'[d].matches = Matched(Own(d))'
  <2>1. Matched(Own(d))' = Matched(Own(d))
    BY <1>2, <1>6 DEF Matched
  <2>2. CASE d = c
    BY <1>5, <1>14, <2>1, <2>2
  <2>3. CASE d # c
    <3>1. ~canceled /\ worker[d].pc = "done" /\ results'[d] = results[d]
      BY <1>5, <1>14, <2>3
    <3> QED
      BY <1>1, <2>1, <3>1 DEF ChargeInv
  <2> QED
    BY <2>2, <2>3
<1>15. ChargeInv'
  BY <1>6, <1>12, <1>13, <1>14 DEF ChargeInv, None
<1> QED
  BY <1>3, <1>4, <1>15 DEF CalmInv

\* A step of one chunk's worker that charges nothing.
LEMMA NothingCharged ==
    ASSUME SearchAssumption, Inv, phase = "scan", Calm, CalmInv, NEW c \in Chunks, NEW w \in WorkerState,
           worker' = [worker EXCEPT ![c] = w], UNCHANGED <<engine, results, spent, canceled, failed>>,
           Charged(c)' = Charged(c), w.pc = "done" => canceled
    PROVE  CalmInv'
<1>1. PICK new : new = {}
  OBVIOUS
<1>2. ChargeInv /\ canceled \in BOOLEAN /\ results \in [Chunks -> Result] /\ results[c] \in Result
  BY DEF CalmInv, Inv, Types, ScanInv
<1>3. Cardinality(new) = 0 /\ spent \in Nat
  <2>1. Charges \subseteq DOMAIN File /\ IsFiniteSet(Charges)
    <3>1. Charges \subseteq DOMAIN File
      BY ChargedAreOwn DEF Charges
    <3> QED
      BY <3>1, ChargedAreOwn, FS_Subset
  <2> QED
    BY <1>1, <1>2, <2>1, FS_EmptySet, FS_CardinalityType DEF ChargeInv
<1>4. /\ new \subseteq Own(c) /\ new \intersect Charged(c) = {} /\ Charged(c)' = Charged(c) \union new
      /\ results' = [results EXCEPT ![c] = results[c]]
  BY <1>1, <1>2
<1>5. spent' = spent + Cardinality(new) /\ canceled' = (canceled \/ Spends(Cardinality(new))) /\ ~failed'
  BY <1>2, <1>3 DEF Spends, ChargeInv
<1>6. w.pc = "done" /\ ~canceled' => results[c].matches = Matched(Own(c))
  OBVIOUS
<1> QED
  BY <1>2, <1>4, <1>5, <1>6, ChargeMoves

\* A step of an open worker that sees no more than before.
LEMMA ChargesRest ==
    ASSUME SearchAssumption, Inv, NEW c \in Chunks, Running(c), Calm, CalmInv, NEW w \in WorkerState,
           worker' = [worker EXCEPT ![c] = w], UNCHANGED <<engine, results, spent, canceled, failed>>,
           w.pc = "open", w.lo = worker[c].lo, w.seen = worker[c].seen
    PROVE  CalmInv'
<1>1. /\ phase = "scan" /\ worker[c].pc = "open" /\ worker \in [Chunks -> WorkerState] /\ results \in [Chunks -> Result]
      /\ ChargeInv /\ canceled \in BOOLEAN /\ results[c] \in Result /\ results' = [results EXCEPT ![c] = results[c]]
  BY DEF Running, Inv, ScanInv, Types, CalmInv
<1>2. UNCHANGED <<search, tasks, bucket>>
  BY DEF engine
<1>3. Own(c)' = Own(c) /\ File' = File /\ worker'[c] = w
  BY <1>1, <1>2 DEF Own, File
<1>4. OwnSeen(c, worker[c])' = OwnSeen(c, worker[c])
  BY <1>2, <1>3 DEF OwnSeen, Matched
<1>5. Counted(c, worker[c], worker[c].seen)' = Counted(c, worker[c], worker[c].seen)
  BY <1>2, <1>3, <1>4 DEF Counted
<1>6. Charged(c)' = Charged(c)
  BY <1>1, <1>3, <1>5 DEF Charged
<1> QED
  BY <1>1, <1>6, NothingCharged

\* The worker's steps but the one that reads an event.
LEMMA GoroutinesCharge ==
    ASSUME SearchAssumption, Inv, NEW c \in Chunks, Calm, CalmInv,
           \/ FeedLine(c) \/ FeedEnds(c) \/ RipgrepExits(c) \/ RipgrepIsKilled(c)
           \/ ParserLooks(c) \/ ParserEnds(c) \/ ParserIsCut(c)
    PROVE  CalmInv'
<1> DEFINE o == worker[c]
           w == worker'[c]
<1>1. Running(c)
  BY DEF FeedLine, FeedEnds, RipgrepExits, RipgrepIsKilled, ParserLooks, ParserEnds, ParserIsCut
<1>2. o \in WorkerState /\ o.pc = "open" /\ worker \in [Chunks -> WorkerState] /\ o.fed \in Nat /\ o.copied \in Nat
  BY <1>1, OpenWorker
<1>3. UNCHANGED <<engine, results, spent, canceled, failed>>
  BY DEF FeedLine, FeedEnds, RipgrepExits, RipgrepIsKilled, ParserLooks, ParserEnds, ParserIsCut
<1>4. /\ w \in WorkerState /\ worker' = [worker EXCEPT ![c] = w]
      /\ w.pc = "open" /\ w.lo = o.lo /\ w.seen = o.seen
  <2>1. CASE FeedLine(c)
    <3> DEFINE more == IF o.fed + 1 \in Own(c) THEN 1 ELSE 0
               copied == o.copied + more
               fed == o.fed + 1
    <3>1. copied \in Nat /\ fed \in Nat
      BY <1>2
    <3>2. \/ worker' = [worker EXCEPT ![c] = [o EXCEPT !.fed = fed, !.copied = copied]]
          \/ worker' = [worker EXCEPT ![c] = [o EXCEPT !.feeder = "ended", !.copied = copied]]
      BY <1>2, <2>1 DEF FeedLine
    <3> HIDE DEF copied, fed
    <3>3. CASE worker' = [worker EXCEPT ![c] = [o EXCEPT !.fed = fed, !.copied = copied]]
      BY <1>2, <3>1, <3>3 DEF WorkerState
    <3>4. CASE worker' = [worker EXCEPT ![c] = [o EXCEPT !.feeder = "ended", !.copied = copied]]
      BY <1>2, <3>1, <3>4 DEF WorkerState
    <3> QED
      BY <3>2, <3>3, <3>4
  <2>2. CASE FeedEnds(c)
    BY <1>2, <2>2 DEF FeedEnds, WorkerState
  <2>3. CASE RipgrepExits(c)
    BY <1>2, <2>3 DEF RipgrepExits, WorkerState
  <2>4. CASE RipgrepIsKilled(c)
    BY <1>2, <2>4 DEF RipgrepIsKilled, WorkerState
  <2>5. CASE ParserLooks(c)
    BY <1>2, <2>5 DEF ParserLooks, WorkerState
  <2>6. CASE ParserEnds(c)
    BY <1>2, <2>6 DEF ParserEnds, WorkerState
  <2>7. CASE ParserIsCut(c)
    BY <1>2, <2>7 DEF ParserIsCut, WorkerState
  <2> QED
    BY <2>1, <2>2, <2>3, <2>4, <2>5, <2>6, <2>7
<1> HIDE DEF w
<1> QED
  BY <1>1, <1>3, <1>4, ChargesRest

LEMMA ParserCharges ==
    ASSUME SearchAssumption, Inv, NEW c \in Chunks, Calm, CalmInv, ParserReads(c)
    PROVE  CalmInv'
<1> DEFINE o == worker[c]
           w == [o EXCEPT !.seen = Min(Unread(o)), !.parser = "waiting"]
           now == Counted(c, w, w.seen) \ Counted(c, o, o.seen)
<1>1. Running(c) /\ o.parser = "reading"
  BY DEF ParserReads
<1>2. /\ o \in WorkerState /\ o.pc = "open" /\ phase = "scan" /\ worker \in [Chunks -> WorkerState]
      /\ o.lo \in Nat /\ o.seen \in Nat /\ o.fed \in Nat /\ FlowInv(c, o) /\ search.after \in Nat
      /\ results \in [Chunks -> Result] /\ results[c] \in Result /\ results[c] = Nothing
  BY <1>1, OpenWorker, Plan DEF Inv, ScanInv
<1>3. Min(Unread(o)) \in Nat /\ Min(Unread(o)) > o.seen
  <2>1. Events(o.lo, o.fed) \subseteq o.lo..o.fed
    BY <1>2, Plan, EventsGrow
  <2>2. Unread(o) \subseteq Nat /\ Unread(o) # {}
    BY <1>1, <1>2, <2>1 DEF Unread, FlowInv
  <2>3. Min(Unread(o)) \in Unread(o)
    BY <2>2, MinIsLeast
  <2> QED
    BY <2>2, <2>3 DEF Unread
<1>4. w \in WorkerState /\ w.pc = "open" /\ w.lo = o.lo /\ w.seen = Min(Unread(o))
  BY <1>2, <1>3 DEF WorkerState
<1>5. /\ worker' = [worker EXCEPT ![c] = w] /\ spent' = spent + Cardinality(now)
      /\ canceled' = (canceled \/ Spends(Cardinality(now)))
      /\ UNCHANGED <<engine, left, results, failed, abandoned, faults>>
  BY DEF ParserReads
<1> HIDE DEF w
<1>6. Counted(c, o, o.seen) \subseteq Counted(c, w, w.seen)
  <2>1. o.lo..o.seen \subseteq o.lo..w.seen
    BY <1>2, <1>3, <1>4
  <2>2. OwnSeen(c, o) \subseteq OwnSeen(c, w)
    BY <1>4, <2>1 DEF OwnSeen, Matched
  <2>3. OwnSeen(c, o) \subseteq Nat
    BY <1>2 DEF OwnSeen, Matched
  <2> QED
    BY <1>2, <1>3, <1>4, <2>2, <2>3 DEF Counted
<1>7. Counted(c, w, w.seen) \subseteq Own(c)
  BY DEF Counted, OwnSeen, Matched
<1>8. UNCHANGED <<search, tasks, bucket>> /\ worker'[c] = w
  BY <1>2, <1>5 DEF engine
<1>9. Charged(c) = Counted(c, o, o.seen) /\ Charged(c)' = Counted(c, w, w.seen)
  <2>1. Own(c)' = Own(c) /\ File' = File
    BY <1>8 DEF Own, File
  <2>2. OwnSeen(c, worker[c])' = OwnSeen(c, w)
    BY <1>8, <2>1 DEF OwnSeen, Matched
  <2>3. Counted(c, worker[c], worker[c].seen)' = Counted(c, w, w.seen)
    BY <1>8, <2>1, <2>2 DEF Counted
  <2> QED
    BY <1>2, <1>4, <1>8, <2>3 DEF Charged
<1>10. now \subseteq Own(c) /\ now \intersect Charged(c) = {} /\ Charged(c)' = Charged(c) \union now
  BY <1>6, <1>7, <1>9
<1>11. results' = [results EXCEPT ![c] = results[c]] /\ ~failed'
  BY <1>2, <1>5 DEF CalmInv, ChargeInv
<1> HIDE DEF now
<1> QED
  BY <1>2, <1>4, <1>5, <1>10, <1>11, ChargeMoves

LEMMA StartCharges ==
    ASSUME SearchAssumption, Inv, NEW c \in Chunks, Calm, CalmInv, StartChunk(c)
    PROVE  CalmInv'
<1>1. /\ phase = "scan" /\ worker[c].pc = "queued" /\ worker \in [Chunks -> WorkerState]
      /\ results \in [Chunks -> Result] /\ ChunkInv(c) /\ ChargeInv
      /\ UNCHANGED <<engine, results, spent, canceled, failed>>
  BY DEF StartChunk, Inv, ScanInv, CalmInv
<1>2. worker[c] = Idle /\ results[c] = Nothing /\ results[c] \in Result
  BY <1>1 DEF ChunkInv
<1>3. UNCHANGED <<search, tasks, bucket>>
  BY <1>1 DEF engine
<1> DEFINE w == worker'[c]
           lo == LeadStart(c)
           from == lo - 1
<1>4. lo \in Nat /\ lo >= 1 /\ from \in Nat /\ from < lo
  BY <1>1, Plan
<1>5. /\ worker' = [worker EXCEPT ![c] = w] /\ w \in WorkerState
      /\ w.pc = "done" => canceled
      /\ w.pc # "done" => w.pc = "open" /\ w.lo = lo /\ w.seen = from
  <2>1. Min(LeadIn(c) \union {tasks[c].first}) = lo
    BY <1>1, LeadStartIsFirst
  <2>2. \/ canceled /\ worker' = [worker EXCEPT ![c] = [Idle EXCEPT !.pc = "done"]]
        \/ worker' = [worker EXCEPT ![c] = [Idle EXCEPT !.pc = "open", !.lo = lo, !.fed = from, !.seen = from]]
    BY <1>1, <1>2, <2>1 DEF StartChunk
  <2>3. Idle \in WorkerState /\ Idle.pc = "queued"
    BY DEF Idle, WorkerState
  <2> HIDE DEF lo, from
  <2>4. CASE canceled /\ worker' = [worker EXCEPT ![c] = [Idle EXCEPT !.pc = "done"]]
    BY <1>1, <2>3, <2>4 DEF WorkerState
  <2>5. CASE worker' = [worker EXCEPT ![c] = [Idle EXCEPT !.pc = "open", !.lo = lo, !.fed = from, !.seen = from]]
    BY <1>1, <1>4, <2>3, <2>5 DEF WorkerState
  <2> QED
    BY <2>2, <2>4, <2>5
<1> HIDE DEF w, from, lo
<1>6. Charged(c) = {} /\ Charged(c)' = {}
  <2>1. Charged(c) = {}
    BY <1>1, <1>2 DEF Charged, Nothing
  <2>2. CASE w.pc = "done"
    <3>1. worker'[c].pc = "done" /\ results'[c].matches = {}
      BY <1>1, <1>2, <2>2 DEF w, Nothing
    <3> QED
      BY <2>1, <3>1 DEF Charged
  <2>3. CASE w.pc # "done"
    <3>1. w.lo..w.seen = {}
      BY <1>4, <1>5, <2>3
    <3>2. worker'[c] = w /\ worker'[c].pc = "open"
      BY <1>5, <2>3 DEF w
    <3>3. Counted(c, worker[c], worker[c].seen)' = {}
      BY <3>1, <3>2 DEF Counted, OwnSeen, Matched
    <3> QED
      BY <2>1, <3>2, <3>3 DEF Charged
  <2> QED
    BY <2>1, <2>2, <2>3
<1> QED
  BY <1>1, <1>5, <1>6, NothingCharged

\* Without a fault and a cancel a worker reads its chunk to the end.
LEMMA ReadToTheEnd ==
    ASSUME SearchAssumption, Inv, NEW c \in Chunks, Running(c), faults = 0, ~canceled,
           worker[c].rg # "running", worker[c].feeder # "feeding", worker[c].parser \in {"ended", "stopped"}
    PROVE  OwnSeen(c, worker[c]) = Matched(Own(c))
<1> DEFINE o == worker[c]
<1>1. /\ o \in WorkerState /\ FlowInv(c, o) /\ FaultFree(o) /\ phase = "scan"
      /\ o.lo \in Nat /\ o.fed \in Nat /\ o.seen \in Nat
  BY OpenWorker
<1>2. o.lo = LeadStart(c) /\ Unread(o) = {} /\ o.fed >= InputEnd(c)
  <2>1. o.rg \in {"exited", "killed"} /\ o.feeder \in {"ended", "failed"}
    BY <1>1 DEF WorkerState
  <2> QED
    BY <1>1, <2>1 DEF FlowInv, FaultFree
<1>3. /\ search.before \in Nat /\ search.after \in Nat /\ Len(File) \in Nat
      /\ tasks[c].first \in Nat /\ tasks[c].last \in Nat /\ tasks[c].last <= Len(File)
      /\ Own(c) = tasks[c].first..tasks[c].last /\ LeadStart(c) <= tasks[c].first /\ left = Len(File)
  BY <1>1, Plan DEF Own, Inv, ScanInv
<1>4. InputEnd(c) \in Int /\ InputEnd(c) >= tasks[c].last
  <2> DEFINE n == tasks[c].last + search.after
  <2>1. n \in Int /\ n >= tasks[c].last
    BY <1>3
  <2>2. InputEnd(c) = Min({left, n})
    BY DEF InputEnd
  <2> HIDE DEF n
  <2> QED
    BY <1>3, <2>1, <2>2, OfTwo
<1>5. \A m \in Own(c) : m \in Nat /\ m >= o.lo /\ m <= o.fed
  BY <1>1, <1>2, <1>3, <1>4
<1>6. ASSUME NEW m \in Matched(Own(c)) PROVE m \in OwnSeen(c, o)
  <2>1. m \in Own(c) /\ m \in o.lo..o.fed /\ m \in Matched(o.lo..o.fed) /\ m \in Nat
    BY <1>1, <1>5 DEF Matched
  <2>2. m \in Events(o.lo, o.fed)
    BY <1>1, <1>3, <2>1, EventsGrow
  <2>3. ~(m > o.seen)
    BY <1>2, <2>2 DEF Unread
  <2>4. m \in o.lo..o.seen
    BY <1>1, <2>1, <2>3
  <2> QED
    BY <1>6, <2>1, <2>4 DEF OwnSeen, Matched
<1>7. OwnSeen(c, o) \subseteq Matched(Own(c))
  BY DEF OwnSeen, Matched
<1> QED
  BY <1>6, <1>7

LEMMA EndCharges ==
    ASSUME SearchAssumption, Inv, NEW c \in Chunks, Calm, CalmInv, EndChunk(c)
    PROVE  CalmInv'
<1> DEFINE o == worker[c]
           counted == Counted(c, o, o.seen)
           late == IF canceled THEN {} ELSE OwnSeen(c, o) \ counted
           stopped == canceled \/ Spends(Cardinality(late))
           error == IsError(o, stopped)
           w == [o EXCEPT !.pc = "done"]
           kept == counted \union late
           r == chunkResult(c, o, kept)
<1>1. /\ Running(c) /\ o.rg # "running" /\ o.feeder # "feeding" /\ o.parser \in {"ended", "stopped"}
      /\ worker' = [worker EXCEPT ![c] = w]
      /\ results' = [results EXCEPT ![c] = IF error THEN @ ELSE r]
      /\ spent' = spent + Cardinality(late)
      /\ canceled' = (stopped \/ error) /\ failed' = (failed \/ error)
      /\ UNCHANGED <<engine, left, abandoned, faults>>
  BY DEF EndChunk
<1>2. /\ o \in WorkerState /\ o.pc = "open" /\ phase = "scan" /\ worker \in [Chunks -> WorkerState]
      /\ FaultFree(o) /\ faults = 0 /\ results \in [Chunks -> Result] /\ ChargeInv /\ canceled \in BOOLEAN
  BY <1>1, OpenWorker DEF Calm, CalmInv, Inv, ScanInv, Types
<1>3. w \in WorkerState /\ w.pc = "done" /\ w.lo = o.lo
  BY <1>2 DEF WorkerState
<1>4. ~error
  BY <1>2 DEF FaultFree, IsError
<1>5. r \in Result
  <2>1. ~IsError(o, stopped)
    BY <1>4
  <2> HIDE DEF w
  <2> QED
    BY <1>1, <1>3, <2>1, ResultIsRight
<1>6. r.matches = kept
  BY DEF chunkResult
<1>7. results' = [results EXCEPT ![c] = r] /\ canceled' = (canceled \/ Spends(Cardinality(late))) /\ ~failed'
  BY <1>1, <1>2, <1>4 DEF ChargeInv
<1>8. late \subseteq Own(c) /\ late \intersect counted = {}
  BY DEF OwnSeen, Matched
<1>9. ~canceled => kept = Matched(Own(c))
  <2>1. ~canceled => kept = OwnSeen(c, o)
    BY DEF Counted
  <2> QED
    BY <1>1, <1>2, <2>1, ReadToTheEnd
<1> HIDE DEF r, kept, w, error
<1>10. worker'[c].pc = "done" /\ results'[c] = r
  BY <1>1, <1>2, <1>3, <1>7
<1>11. Charged(c) = counted /\ Charged(c)' = counted \union late
  BY <1>2, <1>6, <1>10 DEF Charged, kept
<1>12. w.pc = "done" /\ ~canceled' => r.matches = Matched(Own(c))
  BY <1>6, <1>7, <1>9
<1>13. PICK new : new = late
  OBVIOUS
<1>14. /\ new \subseteq Own(c) /\ new \intersect Charged(c) = {} /\ Charged(c)' = Charged(c) \union new
       /\ spent' = spent + Cardinality(new) /\ canceled' = (canceled \/ Spends(Cardinality(new)))
  BY <1>1, <1>7, <1>8, <1>11, <1>13
<1>15. UNCHANGED engine
  BY <1>1
<1> HIDE DEF late, counted, stopped
<1> QED
  BY <1>1, <1>2, <1>3, <1>5, <1>7, <1>12, <1>14, <1>15, ChargeMoves

-----------------------------------------------------------------------------
(* The engine's steps *)

LEMMA ReadFileCharges ==
    ASSUME SearchAssumption, Inv, Calm, CalmInv, ReadFile
    PROVE  CalmInv'
<1>1. /\ phase' = "scan" /\ worker' = [c \in DOMAIN tasks' |-> Idle] /\ results' = [c \in DOMAIN tasks' |-> Nothing]
      /\ spent' = 0 /\ canceled' = FALSE /\ failed' = FALSE /\ UNCHANGED <<search, outcomes>>
  BY DEF ReadFile
<1>2. FoundInv'
  BY <1>1, FoundRests DEF CalmInv
<1>3. \A c \in Chunks' : worker'[c].pc = "queued" /\ results'[c].matches = {}
  BY <1>1 DEF Chunks, Idle, Nothing
<1>4. Charges' = {}
  <2>1. \A c \in Chunks' : Charged(c)' = {}
    BY <1>3 DEF Charged
  <2> QED
    BY <2>1 DEF Charges
<1>5. ChargeInv'
  BY <1>1, <1>3, <1>4, FS_EmptySet DEF ChargeInv
<1> QED
  BY <1>1, <1>2, <1>5 DEF CalmInv, DoneInv

\* A file's matches are those its chunks were charged for.
LEMMA FileIsCharged ==
    ASSUME SearchAssumption, Inv, phase = "scan", \A c \in Chunks : worker[c].pc = "done"
    PROVE  LET new == {<<bucket, m>> : m \in Numbered(Kept)}
           IN  /\ IsFiniteSet(new) /\ Cardinality(new) = Cardinality(Charges)
               /\ \A l, m \in Numbered(Kept) : l[1] = m[1] => l = m
<1> DEFINE new == {<<bucket, m>> : m \in Numbered(Kept)}
           chunkOf(i) == CHOOSE c \in Chunks : i \in results[c].matches
           line(i) == <<i, Number(chunkOf(i), i)>>
           f == [i \in Charges |-> <<bucket, line(i)>>]
<1>1. \A c \in Chunks : Charged(c) = results[c].matches /\ results[c].matches \subseteq Own(c)
  BY ChargedAreOwn DEF Charged
<1>2. \A i : i \in Charges <=> \E c \in Chunks : i \in results[c].matches
  BY <1>1 DEF Charges
<1>3. ASSUME NEW c \in Chunks, NEW i \in results[c].matches PROVE chunkOf(i) = c
  <2>1. chunkOf(i) \in Chunks /\ i \in results[chunkOf(i)].matches
    BY <1>3
  <2> HIDE DEF chunkOf
  <2>2. i \in Own(c) /\ i \in Own(chunkOf(i))
    BY <1>1, <1>3, <2>1
  <2> QED
    BY <2>1, <2>2, ChargedAreOwn
<1>4. \A m : m \in Numbered(Kept) <=> \E c \in Chunks : \E i \in results[c].matches : m = <<i, Number(c, i)>>
  BY DEF Numbered, Kept
<1> HIDE DEF chunkOf
<1>5. \A m : m \in Numbered(Kept) <=> \E i \in Charges : m = <<i, Number(chunkOf(i), i)>>
  BY <1>2, <1>3, <1>4
<1>6. /\ \A m : m \in Numbered(Kept) <=> \E i \in Charges : m = line(i)
      /\ \A i, j \in Charges : line(i) = line(j) => i = j
      /\ \A i \in Charges : line(i)[1] = i
  BY <1>5
<1> HIDE DEF line
<1>7. /\ f \in [Charges -> new] /\ \A t \in new : \E i \in Charges : f[i] = t
      /\ \A i, j \in Charges : f[i] = f[j] => i = j
  <2>1. \A i \in Charges : f[i] = <<bucket, line(i)>> /\ f[i] \in new
    BY <1>6
  <2>2. \A t \in new : \E i \in Charges : t = <<bucket, line(i)>>
    BY <1>6
  <2>3. \A i, j \in Charges : <<bucket, line(i)>> = <<bucket, line(j)>> => i = j
    BY <1>6
  <2> QED
    BY <2>1, <2>2, <2>3
<1>8. IsFiniteSet(Charges)
  <2>1. Charges \subseteq DOMAIN File
    BY ChargedAreOwn DEF Charges
  <2> QED
    BY <2>1, ChargedAreOwn, FS_Subset
<1>9. \A l, m \in Numbered(Kept) : l[1] = m[1] => l = m
  BY <1>6
<1> HIDE DEF f, new
<1>10. IsFiniteSet(new) /\ Cardinality(new) = Cardinality(Charges)
  BY <1>7, <1>8, PairedOff
<1> QED
  BY <1>9, <1>10 DEF new

LEMMA FileIsReadCharges ==
    ASSUME SearchAssumption, Inv, Calm, CalmInv, FileIsRead
    PROVE  CalmInv'
<1> DEFINE new == {<<bucket, m>> : m \in Numbered(Kept)}
           o == ReadOutcome
<1>1. /\ phase = "scan" /\ phase' = "file" /\ \A c \in Chunks : worker[c].pc = "done"
      /\ ~failed /\ outcomes' = Append(outcomes, o) /\ UNCHANGED <<search, bucket>>
      /\ FoundInv /\ ChargeInv
  BY DEF FileIsRead, ReadOutcome, Numbered, Kept, Around, CalmInv, ChargeInv
<1>2. /\ IsFiniteSet(new) /\ Cardinality(new) = Cardinality(Charges)
      /\ \A l, m \in Numbered(Kept) : l[1] = m[1] => l = m
  BY <1>1, FileIsCharged
<1>3. o.matches = Numbered(Kept) /\ o \in Outcome
  BY <1>1, FileGives DEF ReadOutcome
<1>4. /\ outcomes \in Seq(Outcome) /\ Len(outcomes) = bucket - 1 /\ bucket \in Nat
      /\ search \in Searches /\ search.cap \in Nat
  BY <1>1, Asked DEF Inv, Types
<1> HIDE DEF o, new
<1>5. /\ DOMAIN outcomes' = 1..bucket /\ DOMAIN outcomes = 1..bucket - 1 /\ outcomes'[bucket] = o
      /\ \A k \in 1..bucket - 1 : outcomes'[k] = outcomes[k]
  BY <1>1, <1>3, <1>4
<1>6. bucket \in 1..bucket /\ bucket \notin 1..bucket - 1 /\ \A k \in 1..bucket : k = bucket \/ k \in 1..bucket - 1
  <2>1. bucket >= 1
    BY <1>1 DEF Inv, ScanInv
  <2> QED
    BY <1>4, <2>1
<1>7. Matches' = Matches \union new
  <2>1. \A x : x \in Matches' <=> \E k \in DOMAIN outcomes' : \E m \in outcomes'[k].matches : x = <<k, m>>
    BY DEF Matches
  <2>2. \A x : x \in Matches <=> \E k \in DOMAIN outcomes : \E m \in outcomes[k].matches : x = <<k, m>>
    BY DEF Matches
  <2>3. \A x : x \in new <=> \E m \in o.matches : x = <<bucket, m>>
    BY <1>3 DEF new
  <2>4. ASSUME NEW x, x \in Matches' PROVE x \in Matches \union new
    <3>1. PICK k \in DOMAIN outcomes' : \E m \in outcomes'[k].matches : x = <<k, m>>
      BY <2>1, <2>4
    <3>2. CASE k = bucket
      BY <1>5, <2>3, <3>1, <3>2
    <3>3. CASE k # bucket
      <4>1. k \in DOMAIN outcomes /\ outcomes'[k] = outcomes[k]
        BY <1>5, <1>6, <3>3
      <4> QED
        BY <2>2, <3>1, <4>1
    <3> QED
      BY <3>2, <3>3
  <2>5. ASSUME NEW x, x \in Matches PROVE x \in Matches'
    <3>1. PICK k \in DOMAIN outcomes : \E m \in outcomes[k].matches : x = <<k, m>>
      BY <2>2, <2>5
    <3>2. k \in DOMAIN outcomes' /\ outcomes'[k] = outcomes[k]
      BY <1>4, <1>5
    <3> QED
      BY <2>1, <3>1, <3>2
  <2>6. ASSUME NEW x, x \in new PROVE x \in Matches'
    BY <1>5, <1>6, <2>1, <2>3, <2>6
  <2> QED
    BY <2>4, <2>5, <2>6
<1>8. Matches \intersect new = {}
  <2> SUFFICES ASSUME NEW x \in Matches \intersect new PROVE FALSE
    OBVIOUS
  <2>1. \E k \in DOMAIN outcomes : \E m : x = <<k, m>>
    BY DEF Matches
  <2>2. \E m : x = <<bucket, m>>
    BY DEF new
  <2> QED
    BY <1>5, <1>6, <2>1, <2>2
<1>9. /\ IsFiniteSet(Matches') /\ Found' = Found + spent /\ Found \in Nat /\ spent \in Nat
  <2>1. IsFiniteSet(Matches) /\ spent = Cardinality(new)
    BY <1>1, <1>2 DEF FoundInv, ChargeInv
  <2>2. IsFiniteSet(Matches \union new) /\ Cardinality(Matches \union new) = Cardinality(Matches) + Cardinality(new)
    BY <1>2, <1>8, <2>1, Disjoint
  <2>3. Cardinality(Matches) \in Nat /\ Cardinality(new) \in Nat
    BY <1>2, <2>1, FS_CardinalityType
  <2> QED
    BY <1>7, <2>1, <2>2, <2>3 DEF Found
<1>10. Cap' = Cap /\ Cap \in Nat
  BY <1>1, <1>4 DEF Cap
<1>11. \A k \in DOMAIN outcomes' : \A l, m \in outcomes'[k].matches : l[1] = m[1] => l = m
  <2> TAKE k \in DOMAIN outcomes'
  <2>1. CASE k = bucket
    BY <1>2, <1>3, <1>5, <2>1
  <2>2. CASE k # bucket
    BY <1>1, <1>5, <1>6, <2>2 DEF FoundInv
  <2> QED
    BY <2>1, <2>2
<1>12. CASE canceled
  <2>1. Cap # None /\ spent >= Cap - Found
    BY <1>1, <1>12 DEF ChargeInv, remainingResults
  <2>2. CapIsReached'
    BY <1>9, <1>10, <2>1 DEF CapIsReached, None
  <2> QED
    BY <1>1, <1>9, <1>11, <2>2 DEF CalmInv, FoundInv, DoneInv
<1>13. CASE CapIsReached
  <2>1. CapIsReached'
    BY <1>9, <1>10, <1>13 DEF CapIsReached, None
  <2> QED
    BY <1>1, <1>9, <1>11, <2>1 DEF CalmInv, FoundInv, DoneInv
<1>14. CASE ~canceled /\ ~CapIsReached
  <2>1. IsFull(File, o)
    <3> SUFFICES ASSUME NEW i \in DOMAIN File, File[i].pats \intersect search.patterns # {}
                 PROVE  \E l \in o.matches : l[1] = i
      BY DEF IsFull
    <3>1. Len(File) \in Nat /\ i \in 1..Len(File) /\ Tiles(tasks, Len(File))
      BY <1>1, Plan
    <3>2. PICK c \in DOMAIN tasks : {u \in DOMAIN tasks : i \in tasks[u].first..tasks[u].last} = {c}
      BY <3>1, EachLineHasOneChunk
    <3>3. c \in Chunks /\ i \in Own(c)
      BY <3>2 DEF Chunks, Own
    <3>4. i \in results[c].matches
      BY <1>1, <1>14, <3>3 DEF ChargeInv, Matched
    <3>5. <<i, Number(c, i)>> \in o.matches
      BY <1>3, <3>3, <3>4 DEF Numbered, Kept
    <3> QED
      BY <3>5
  <2>2. ASSUME NEW k \in DOMAIN outcomes' PROVE IsFull(search.files[k], outcomes[k])'
    <3>1. CASE k = bucket
      <4>1. outcomes'[k] = o /\ search' = search /\ search.files[k] = File
        BY <1>1, <1>5, <3>1 DEF File
      <4> QED
        BY <2>1, <4>1 DEF IsFull
    <3>2. CASE k # bucket
      <4>1. k \in DOMAIN outcomes /\ outcomes'[k] = outcomes[k] /\ search' = search
        BY <1>1, <1>5, <1>6, <3>2
      <4>2. IsFull(search.files[k], outcomes[k])
        BY <1>1, <1>14, <4>1 DEF FoundInv
      <4> QED
        BY <4>1, <4>2 DEF IsFull
    <3> QED
      BY <3>1, <3>2
  <2> QED
    BY <1>1, <1>9, <1>11, <2>2 DEF CalmInv, FoundInv, DoneInv
<1> QED
  BY <1>12, <1>13, <1>14

LEMMA SettleCharges ==
    ASSUME SearchAssumption, Inv, CalmInv, Settle
    PROVE  CalmInv'
<1> SUFFICES ASSUME Calm' PROVE FoundInv' /\ DoneInv' /\ phase' = "done"
  BY DEF CalmInv
<1>1. /\ phase' = "done" /\ ~MoreFiles /\ UNCHANGED <<search, outcomes, bucket, abandoned>>
  BY DEF Settle
<1>2. PICK failing \in Failing :
        LET lost == lostFiles(failing)
            found == creditedMatches(lost)
        IN  /\ faults' = faults + Cardinality(failing)
            /\ answer' = [matches |-> FirstOf(found), found |-> found,
                          skipped |-> lost \union {k \in DOMAIN outcomes : outcomes[k].skipped},
                          cached |-> {k \in DOMAIN outcomes \ lost : outcomes[k].cacheable}]
  BY DEF Settle
<1>3. failing = {} \/ (Cardinality(failing) \in Nat /\ Cardinality(failing) # 0)
  <2>1. CASE failing = {}
    BY <2>1
  <2>2. CASE failing # {}
    <3>1. PICK n \in {i \in 1..Faults - faults : Cardinality(search.patterns) > 1} :
             failing \in kSubset(n, planCreditBatches)
      BY <2>2 DEF Failing
    <3>2. Cardinality(failing) = n /\ n \in 1..Faults - faults
      BY <3>1 DEF kSubset
    <3>3. Faults - faults \in Int
      BY DEF SearchAssumption, Inv, Types
    <3> QED
      BY <3>2, <3>3
  <2> QED
    BY <2>1, <2>2
<1>4. Cardinality(failing) \in Nat /\ faults \in Nat /\ faults' = faults + Cardinality(failing) /\ faults' = 0
  <2>1. faults' = faults + Cardinality(failing)
    BY <1>2
  <2>2. faults \in Nat /\ faults' = 0
    BY DEF Inv, Types, Calm
  <2> QED
    BY <1>3, <2>1, <2>2, FS_EmptySet
<1>5. failing = {} /\ Calm
  BY <1>1, <1>3, <1>4 DEF Calm
<1>6. lostFiles(failing) = {}
  BY <1>5 DEF lostFiles
<1>7. answer'.found = creditedMatches({}) /\ answer'.matches = FirstOf(answer'.found)
  BY <1>2, <1>6
<1>8. FoundInv' /\ Found' = Found
  BY <1>1, <1>5, FoundRests DEF CalmInv
<1>9. CapIsReached \/ bucket = Len(search.files)
  <2>1. Len(search.files) \in Nat /\ bucket \in 0..Len(search.files)
    BY Asked DEF Inv, Types
  <2> QED
    BY <1>1, <2>1 DEF MoreFiles
<1>10. (CapIsReached \/ bucket = Len(search.files))'
  BY <1>1, <1>8, <1>9 DEF CapIsReached, Cap, None
<1>11. creditedMatches({})' = creditedMatches({}) /\ FirstOf(answer.found)' = FirstOf(answer'.found)
  BY <1>1 DEF creditedMatches, creditsFromHits, FirstOf, Cap, Precedes
<1> QED
  BY <1>1, <1>7, <1>8, <1>10, <1>11 DEF DoneInv

LEMMA StartsCalm ==
    ASSUME SearchAssumption, Init PROVE CalmInv
<1>1. outcomes = <<>> /\ phase = "file"
  BY DEF Init
<1>2. Matches = {}
  BY <1>1 DEF Matches
<1> QED
  BY <1>1, <1>2, FS_EmptySet DEF CalmInv, FoundInv, DoneInv

\* A step that changes nothing of the scan but lets it rest.
LEMMA CalmRests ==
    ASSUME SearchAssumption, Inv, CalmInv, UNCHANGED vars PROVE CalmInv'
<1>1. /\ UNCHANGED <<search, phase, bucket, tasks, worker, results, spent, canceled, failed, abandoned, faults, outcomes, answer>>
  BY DEF vars
<1>2. Calm' = Calm
  BY <1>1 DEF Calm
<1>3. FoundInv => FoundInv' /\ Found' = Found
  BY <1>1, FoundRests
<1>4. Charges' = Charges
  BY <1>1 DEF Charges, Charged, Counted, OwnSeen, Own, Chunks, Matched, File
<1>5. ChargeInv' = ChargeInv
  BY <1>1, <1>4 DEF ChargeInv, remainingResults, Found, Matches, Cap, None, Chunks, Matched, Own, File
<1>6. DoneInv' = DoneInv
  <2>1. creditedMatches({})' = creditedMatches({}) /\ FirstOf(answer.found)' = FirstOf(answer.found)
    BY <1>1 DEF creditedMatches, creditsFromHits, FirstOf, Cap, Precedes
  <2>2. CapIsReached' = CapIsReached
    BY <1>1 DEF CapIsReached, Found, Matches, Cap, None
  <2> QED
    BY <1>1, <2>1, <2>2 DEF DoneInv
<1> QED
  BY <1>1, <1>2, <1>3, <1>5, <1>6 DEF CalmInv

LEMMA StepsKeepCalm ==
    ASSUME SearchAssumption, Inv, CalmInv, [Next]_vars PROVE CalmInv'
<1> SUFFICES ASSUME Calm' PROVE CalmInv'
  BY DEF CalmInv
<1>1. faults \in Nat /\ faults' = 0 /\ ~abandoned'
  BY DEF Inv, Types, Calm
<1>2. ASSUME NEW c \in Chunks, StartChunk(c) \/ Worker(c) PROVE CalmInv'
  <2>1. UNCHANGED <<faults, abandoned>>
    BY <1>2 DEF StartChunk, Worker, FeedLine, FeedEnds, RipgrepExits, RipgrepIsKilled, ParserLooks, ParserReads,
                ParserEnds, EndChunk
  <2>2. Calm
    BY <1>1, <2>1 DEF Calm
  <2> QED
    BY <1>2, <2>2, StartCharges, GoroutinesCharge, ParserCharges, EndCharges DEF Worker
<1>3. ASSUME NEW c \in Chunks, FeedFails(c) \/ RipgrepDies(c) PROVE FALSE
  BY <1>1, <1>3 DEF FeedFails, RipgrepDies
<1>4. ASSUME NEW c \in Chunks, ParserIsCut(c) PROVE CalmInv'
  <2>1. Calm
    BY <1>1, <1>4 DEF ParserIsCut, Calm
  <2> QED
    BY <1>4, <2>1, GoroutinesCharge
<1>5. CASE Engine
  <2>1. CASE ReadFile
    <3>1. Calm
      BY <1>1, <2>1 DEF ReadFile, Calm
    <3> QED
      BY <2>1, <3>1, ReadFileCharges
  <2>2. CASE FileIsRead
    <3>1. Calm
      BY <1>1, <2>2 DEF FileIsRead, Calm
    <3> QED
      BY <2>2, <3>1, FileIsReadCharges
  <2>3. CASE SearchIsAbandoned
    BY <1>1, <2>3 DEF SearchIsAbandoned
  <2>4. CASE Settle
    BY <2>4, SettleCharges
  <2> QED
    BY <1>5, <2>1, <2>2, <2>3, <2>4 DEF Engine
<1>6. CASE Abandon \/ CutShort
  BY <1>1, <1>6 DEF Abandon, CutShort
<1>7. CASE UNCHANGED vars
  BY <1>7, CalmRests
<1> QED
  BY <1>2, <1>3, <1>4, <1>5, <1>6, <1>7 DEF Next, Done

-----------------------------------------------------------------------------
(* What a search answers *)

\* All the matches of a search's files.
AllOf(k) == {<<k, i, p>> : i \in DOMAIN search.files[k], p \in search.patterns}
All == UNION {AllOf(k) : k \in DOMAIN search.files}
Trues == {t \in All : t[3] \in search.files[t[1]][t[2]].pats}

LEMMA AllAreFinite ==
    ASSUME SearchAssumption, search \in Searches PROVE IsFiniteSet(All)
<1> DEFINE D == DOMAIN search.files
           rows == {AllOf(k) : k \in D}
           row == [k \in D |-> AllOf(k)]
<1>1. D = 1..Len(search.files) /\ Len(search.files) \in Nat
  BY Asked
<1>2. \A n \in Nat : IsFiniteSet(1..n)
  BY FS_Interval
<1>3. IsFiniteSet(D)
  BY <1>1, <1>2
<1>4. ASSUME NEW k \in D PROVE IsFiniteSet(AllOf(k))
  <2> DEFINE A == DOMAIN search.files[k]
             B == search.patterns
             T == AllOf(k)
             f == [x \in A \X B |-> <<k, x[1], x[2]>>]
  <2>1. A = 1..Len(search.files[k]) /\ Len(search.files[k]) \in Nat
    BY Asked, Ends
  <2>2. IsFiniteSet(A) /\ IsFiniteSet(B)
    BY <1>2, <2>1 DEF SearchAssumption
  <2>3. T = {<<k, i, p>> : i \in A, p \in B}
    BY DEF AllOf
  <2> HIDE DEF A, B, T
  <2>4. f \in [A \X B -> T]
    BY <2>3
  <2>5. \A t \in T : \E x \in A \X B : f[x] = t
    <3> TAKE t \in T
    <3>1. PICK i \in A, p \in B : t = <<k, i, p>>
      BY <2>3
    <3>2. <<i, p>> \in A \X B /\ f[<<i, p>>] = t
      BY <3>1
    <3> QED
      BY <3>2
  <2>6. f \in Surjection(A \X B, T)
    BY <2>4, <2>5 DEF Surjection
  <2>7. IsFiniteSet(A \X B)
    BY <2>2, FS_Product
  <2> QED
    BY <2>6, <2>7, FS_Surjection DEF T
<1>5. row \in Surjection(D, rows)
  BY DEF Surjection
<1> HIDE DEF row, D
<1>6. IsFiniteSet(rows)
  <2> HIDE DEF rows
  <2> QED
    BY <1>3, <1>5, FS_Surjection
<1>7. \A T \in rows : IsFiniteSet(T)
  BY <1>4
<1>8. All = UNION rows
  BY DEF All, D
<1> HIDE DEF rows
<1> QED
  BY <1>6, <1>7, <1>8, FS_UNION

Triple(m) == <<m.file, m.line, m.pattern>>

\* The matches found, as a search that lost no file credits them.
LEMMA FoundAreTrue ==
    ASSUME SearchAssumption, Inv, phase # "scan", FoundInv
    PROVE  LET S == creditedMatches({})
           IN  /\ S \subseteq MatchOf /\ IsFiniteSet(S) /\ Found \in Nat
               /\ \A a, b \in S : Triple(a) = Triple(b) => a = b
               /\ \A m \in S : Triple(m) \in Trues
               /\ IsFiniteSet(Trues) /\ Found <= Cardinality(S) /\ Cardinality(S) <= Cardinality(Trues)
<1> DEFINE S == creditedMatches({})
<1>1. /\ search \in Searches /\ outcomes \in Seq(Outcome) /\ Len(outcomes) = bucket /\ bucket \in 0..Len(search.files)
      /\ \A k \in DOMAIN outcomes : OutcomeInv(search.files[k], outcomes[k])
  BY DEF Inv, Types
<1>2. DOMAIN outcomes \subseteq DOMAIN search.files /\ DOMAIN outcomes \subseteq Nat
  BY <1>1, Asked
<1>3. search.patterns \subseteq Nat
  BY <1>1 DEF SearchAssumption, Patterns
<1>4. \A m : m \in S <=> \E k \in DOMAIN outcomes : \E l \in outcomes[k].matches : \E p \in creditsFromHits(k, l[1]) :
         m = [file |-> k, line |-> l[1], number |-> l[2], pattern |-> p]
  BY DEF creditedMatches
<1>5. ASSUME NEW k \in DOMAIN outcomes, NEW l \in outcomes[k].matches
      PROVE  /\ l \in Nat \X Nat /\ l = <<l[1], l[2]>> /\ l[1] \in DOMAIN search.files[k]
             /\ creditsFromHits(k, l[1]) # {} /\ creditsFromHits(k, l[1]) \subseteq search.patterns
             /\ creditsFromHits(k, l[1]) \subseteq search.files[k][l[1]].pats
  <2>1. outcomes[k].matches \subseteq Nat \X Nat
    <3>1. outcomes[k] \in Outcome
      BY <1>1
    <3>2. \A o \in Outcome : o.matches \subseteq Nat \X Nat
      BY DEF Outcome
    <3> QED
      BY <3>1, <3>2
  <2>2. l \in Nat \X Nat /\ l = <<l[1], l[2]>>
    BY <2>1
  <2>3. l[1] \in DOMAIN search.files[k] /\ search.files[k][l[1]].pats \intersect search.patterns # {}
    BY <1>1 DEF OutcomeInv
  <2> QED
    BY <2>2, <2>3 DEF creditsFromHits
<1> HIDE DEF S
<1>6. S \subseteq MatchOf
  <2> SUFFICES ASSUME NEW m \in S PROVE m \in MatchOf
    OBVIOUS
  <2>1. PICK k \in DOMAIN outcomes : \E l \in outcomes[k].matches : \E p \in creditsFromHits(k, l[1]) :
           m = [file |-> k, line |-> l[1], number |-> l[2], pattern |-> p]
    BY <1>4
  <2>2. PICK l \in outcomes[k].matches : \E p \in creditsFromHits(k, l[1]) :
           m = [file |-> k, line |-> l[1], number |-> l[2], pattern |-> p]
    BY <2>1
  <2>3. PICK p \in creditsFromHits(k, l[1]) : m = [file |-> k, line |-> l[1], number |-> l[2], pattern |-> p]
    BY <2>2
  <2>4. k \in Nat /\ l[1] \in Nat /\ l[2] \in Nat /\ p \in Nat
    BY <1>2, <1>3, <1>5
  <2> QED
    BY <2>3, <2>4 DEF MatchOf
<1>7. ASSUME NEW a \in S, NEW b \in S, Triple(a) = Triple(b) PROVE a = b
  <2>1. PICK k \in DOMAIN outcomes : \E l \in outcomes[k].matches : \E p \in creditsFromHits(k, l[1]) :
           a = [file |-> k, line |-> l[1], number |-> l[2], pattern |-> p]
    BY <1>4
  <2>2. PICK l \in outcomes[k].matches : \E p \in creditsFromHits(k, l[1]) :
           a = [file |-> k, line |-> l[1], number |-> l[2], pattern |-> p]
    BY <2>1
  <2>3. PICK p \in creditsFromHits(k, l[1]) : a = [file |-> k, line |-> l[1], number |-> l[2], pattern |-> p]
    BY <2>2
  <2>4. PICK j \in DOMAIN outcomes : \E n \in outcomes[j].matches : \E q \in creditsFromHits(j, n[1]) :
           b = [file |-> j, line |-> n[1], number |-> n[2], pattern |-> q]
    BY <1>4
  <2>5. PICK n \in outcomes[j].matches : \E q \in creditsFromHits(j, n[1]) :
           b = [file |-> j, line |-> n[1], number |-> n[2], pattern |-> q]
    BY <2>4
  <2>6. PICK q \in creditsFromHits(j, n[1]) : b = [file |-> j, line |-> n[1], number |-> n[2], pattern |-> q]
    BY <2>5
  <2>7. k = j /\ l[1] = n[1] /\ p = q
    BY <1>7, <2>3, <2>6 DEF Triple
  <2>8. l = n
    BY <2>2, <2>5, <2>7 DEF FoundInv
  <2> QED
    BY <2>3, <2>6, <2>7, <2>8
<1>8. ASSUME NEW m \in S PROVE Triple(m) \in Trues
  <2>1. PICK k \in DOMAIN outcomes : \E l \in outcomes[k].matches : \E p \in creditsFromHits(k, l[1]) :
           m = [file |-> k, line |-> l[1], number |-> l[2], pattern |-> p]
    BY <1>4
  <2>2. PICK l \in outcomes[k].matches : \E p \in creditsFromHits(k, l[1]) :
           m = [file |-> k, line |-> l[1], number |-> l[2], pattern |-> p]
    BY <2>1
  <2>3. PICK p \in creditsFromHits(k, l[1]) : m = [file |-> k, line |-> l[1], number |-> l[2], pattern |-> p]
    BY <2>2
  <2>4. /\ k \in DOMAIN search.files /\ l[1] \in DOMAIN search.files[k] /\ p \in search.patterns
        /\ p \in search.files[k][l[1]].pats
    BY <1>2, <1>5
  <2>5. Triple(m) = <<k, l[1], p>>
    BY <2>3 DEF Triple
  <2>6. <<k, l[1], p>> \in All
    BY <2>4 DEF All, AllOf
  <2> QED
    BY <2>4, <2>5, <2>6 DEF Trues
<1>9. IsFiniteSet(Trues)
  BY <1>1, AllAreFinite, FS_Subset DEF Trues
<1>10. IsFiniteSet(S) /\ Cardinality(S) <= Cardinality(Trues)
  <2> DEFINE f == [m \in S |-> Triple(m)]
  <2>1. f \in Injection(S, Trues)
    BY <1>7, <1>8 DEF Injection, IsInjective
  <2> QED
    BY <1>9, <2>1, FS_Injection
<1>11. Found \in Nat /\ Found <= Cardinality(S)
  <2> DEFINE match(x) == [file |-> x[1], line |-> x[2][1], number |-> x[2][2],
                          pattern |-> CHOOSE p \in creditsFromHits(x[1], x[2][1]) : TRUE]
             f == [x \in Matches |-> match(x)]
  <2>1. ASSUME NEW x \in Matches
        PROVE  match(x) \in S /\ x = <<match(x).file, <<match(x).line, match(x).number>>>>
    <3>1. PICK k \in DOMAIN outcomes : \E l \in outcomes[k].matches : x = <<k, l>>
      BY DEF Matches
    <3>2. PICK l \in outcomes[k].matches : x = <<k, l>>
      BY <3>1
    <3>3. x[1] = k /\ x[2] = l /\ l = <<l[1], l[2]>> /\ creditsFromHits(k, l[1]) # {}
      BY <1>5, <3>2
    <3>4. PICK p \in creditsFromHits(k, l[1]) : p = CHOOSE q \in creditsFromHits(x[1], x[2][1]) : TRUE
      BY <3>3
    <3>5. match(x) = [file |-> k, line |-> l[1], number |-> l[2], pattern |-> p]
      BY <3>3, <3>4
    <3> HIDE DEF match
    <3>6. match(x) \in S
      BY <1>4, <3>5
    <3> QED
      BY <3>2, <3>3, <3>5, <3>6
  <2> HIDE DEF match
  <2>2. f \in [Matches -> S]
    BY <2>1
  <2>3. \A x, y \in Matches : f[x] = f[y] => x = y
    BY <2>1
  <2>4. f \in Injection(Matches, S)
    BY <2>2, <2>3 DEF Injection, IsInjective
  <2>5. IsFiniteSet(Matches) /\ Cardinality(Matches) <= Cardinality(S)
    BY <1>10, <2>4, FS_Injection
  <2> QED
    BY <2>5, FS_CardinalityType DEF Found
<1> QED
  BY <1>6, <1>7, <1>8, <1>9, <1>10, <1>11 DEF S

LEMMA AnswersAll ==
    ASSUME SearchAssumption, Inv, CalmInv PROVE AnswerIsFull
<1>1. ASSUME phase = "done", faults = 0, ~abandoned
      PROVE  LET got == {Triple(m) : m \in answer.matches}
             IN  /\ got \subseteq Trues /\ Cardinality(got) = Cardinality(answer.matches)
                 /\ Cardinality(got) = IF Cap = None THEN Cardinality(Trues) ELSE Min({Cap, Cardinality(Trues)})
  <2> DEFINE S == creditedMatches({})
             F == answer.matches
             got == {Triple(m) : m \in F}
             size == Cardinality(Trues)
  <2>1. /\ FoundInv /\ F = FirstOf(S) /\ (CapIsReached \/ bucket = Len(search.files))
    BY <1>1 DEF CalmInv, Calm, DoneInv
  <2>2. /\ S \subseteq MatchOf /\ IsFiniteSet(S) /\ Found \in Nat
        /\ \A a, b \in S : Triple(a) = Triple(b) => a = b
        /\ \A m \in S : Triple(m) \in Trues
        /\ IsFiniteSet(Trues) /\ Found <= Cardinality(S) /\ Cardinality(S) <= size
    BY <1>1, <2>1, FoundAreTrue
  <2>3. /\ search \in Searches /\ Cap \in Nat /\ Len(outcomes) = bucket
        /\ outcomes \in Seq(Outcome) /\ bucket \in 0..Len(search.files)
    BY <1>1, Asked DEF Inv, Types, Cap
  <2>4. Cardinality(S) \in Nat /\ size \in Nat
    BY <2>2, FS_CardinalityType
  <2> HIDE DEF S, F, size
  <2>5. /\ F \subseteq S /\ (Cap = None => F = S)
        /\ Cap # None => Cardinality(F) = IF Cap <= Cardinality(S) THEN Cap ELSE Cardinality(S)
    <3>1. \A a, b \in S : a.file = b.file /\ a.line = b.line /\ a.pattern = b.pattern => a = b
      BY <2>2 DEF Triple
    <3> QED
      BY <2>1, <2>2, <2>3, <3>1, FirstOnes
  <2>6. got \subseteq Trues
    BY <2>2, <2>5
  <2>7. Cardinality(got) = Cardinality(F)
    <3> DEFINE f == [m \in F |-> Triple(m)]
    <3>1. f \in [F -> got] /\ (\A a, b \in F : f[a] = f[b] => a = b) /\ \A t \in got : \E m \in F : f[m] = t
      BY <2>2, <2>5
    <3>2. IsFiniteSet(F)
      BY <2>2, <2>5, FS_Subset
    <3> HIDE DEF f, got
    <3> QED
      BY <3>1, <3>2, PairedOff
  <2>8. CapIsReached \/ Cardinality(S) = size
    <3> SUFFICES ASSUME ~CapIsReached PROVE Cardinality(S) = size
      OBVIOUS
    <3>1. /\ \A k \in DOMAIN outcomes : IsFull(search.files[k], outcomes[k])
          /\ DOMAIN outcomes = DOMAIN search.files
      BY <2>1, <2>3, Asked DEF FoundInv
    <3> DEFINE f == [m \in S |-> Triple(m)]
    <3>2. ASSUME NEW t \in Trues PROVE \E m \in S : Triple(m) = t
      <4>1. PICK k \in DOMAIN search.files : t \in AllOf(k)
        BY DEF Trues, All
      <4>2. PICK i \in DOMAIN search.files[k], p \in search.patterns : t = <<k, i, p>>
        BY <4>1 DEF AllOf
      <4>3. p \in search.files[k][i].pats
        BY <4>2 DEF Trues
      <4>4. PICK l \in outcomes[k].matches : l[1] = i
        BY <3>1, <4>2, <4>3 DEF IsFull
      <4>5. p \in creditsFromHits(k, l[1])
        BY <4>2, <4>3, <4>4 DEF creditsFromHits
      <4> DEFINE m == [file |-> k, line |-> l[1], number |-> l[2], pattern |-> p]
      <4>6. m \in S
        BY <3>1, <4>4, <4>5 DEF S, creditedMatches
      <4>7. Triple(m) = t
        BY <4>2, <4>4 DEF Triple
      <4> QED
        BY <4>6, <4>7
    <3>3. f \in [S -> Trues] /\ (\A a, b \in S : f[a] = f[b] => a = b) /\ \A t \in Trues : \E m \in S : f[m] = t
      BY <2>2, <3>2
    <3> HIDE DEF f
    <3> QED
      BY <2>2, <3>3, PairedOff DEF size
  <2>9. CASE Cap = None
    <3>1. Cardinality(S) = size
      BY <2>8, <2>9 DEF CapIsReached
    <3> QED
      BY <2>5, <2>6, <2>7, <2>9, <3>1 DEF F, size
  <2>10. CASE Cap # None
    <3>1. Min({Cap, size}) = IF Cap <= size THEN Cap ELSE size
      BY <2>3, <2>4, OfTwo
    <3>2. Cardinality(F) = IF Cap <= size THEN Cap ELSE size
      BY <2>2, <2>3, <2>4, <2>5, <2>8, <2>10 DEF CapIsReached
    <3> QED
      BY <2>6, <2>7, <2>10, <3>1, <3>2 DEF F, size
  <2> QED
    BY <2>9, <2>10
<1> DEFINE every == UNION {{<<k, i, p>> : i \in DOMAIN search.files[k], p \in search.patterns} :
                               k \in DOMAIN search.files}
           trues == {t \in every : t[3] \in search.files[t[1]][t[2]].pats}
           given == {<<m.file, m.line, m.pattern>> : m \in answer.matches}
<1>2. Trues = trues
  BY DEF Trues, All, AllOf
<1>3. {Triple(m) : m \in answer.matches} = given
  BY DEF Triple
<1>4. ChunksTileTheFile
  BY TilesTheFile
<1>5. AnswerIsFull <=>
        /\ ChunksTileTheFile
        /\ phase = "done" /\ faults = 0 /\ ~abandoned =>
              /\ given \subseteq trues /\ Cardinality(given) = Cardinality(answer.matches)
              /\ Cardinality(given) = IF Cap = None THEN Cardinality(trues) ELSE Min({Cap, Cardinality(trues)})
  BY DEF AnswerIsFull
<1> HIDE DEF every, trues, given
<1> QED
  BY <1>1, <1>2, <1>3, <1>4, <1>5

-----------------------------------------------------------------------------
(* The theorems *)

\* The chunks of a file are adjacent and start at line starts, so every line is
\* read by exactly one worker, whatever the sizes and the limits (chunker.go:
\* chunkStarts, planFileTasks).
THEOREM Tiling ==
    ASSUME SearchAssumption PROVE Spec => []ChunksTileTheFile
<1>1. Init => Inv
  BY Starts
<1>2. Inv /\ [Next]_vars => Inv'
  BY StepsKeep
<1>3. Inv => ChunksTileTheFile
  BY TilesTheFile
<1> QED
  BY <1>1, <1>2, <1>3, PTL DEF Spec

\* A match answered by a search that met no fault has its whole window of
\* context, also where the match budget stopped the workers in the middle of
\* their chunks, and no line is ever given a number that is not its own
\* (budget.go: trailingWindowGate; engine.go: numbered).
THEOREM Windows ==
    ASSUME SearchAssumption PROVE Spec => []WindowsAreWhole
<1>1. Init => Inv
  BY Starts
<1>2. Inv /\ [Next]_vars => Inv'
  BY StepsKeep
<1>3. Inv => WindowsAreWhole
  BY ShowsWholeWindows
<1> QED
  BY <1>1, <1>2, <1>3, PTL DEF Spec

\* A search its caller waits for stores only scans that hold every match of
\* their file, whatever read errors, dying ripgreps and files cut short it met
\* (engine.go, RunResolved: only a scan that read every chunk is stored).
THEOREM KeptSearches ==
    ASSUME SearchAssumption PROVE Spec => []KeptSearchesAreWhole
<1>1. Init => Inv
  BY Starts
<1>2. Inv /\ [Next]_vars => Inv'
  BY StepsKeep
<1>3. Inv => KeptSearchesAreWhole
  BY KeepsWholeSearches
<1> QED
  BY <1>1, <1>2, <1>3, PTL DEF Spec

\* A search that met no fault and was not abandoned answers every match there
\* is, or as many as its cap asks for, although the charge that spends the cap
\* stops every worker where it is (engine.go: RunResolved; budget.go;
\* worker.go: ProcessChunk).
THEOREM Fullness ==
    ASSUME SearchAssumption PROVE Spec => []AnswerIsFull
<1>1. Init => Inv /\ CalmInv
  BY Starts, StartsCalm
<1>2. Inv /\ CalmInv /\ [Next]_vars => (Inv /\ CalmInv)'
  BY StepsKeep, StepsKeepCalm
<1>3. Inv /\ CalmInv => AnswerIsFull
  BY AnswersAll
<1> QED
  BY <1>1, <1>2, <1>3, PTL DEF Spec

=============================================================================

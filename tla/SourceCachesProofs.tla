------------------------- MODULE SourceCachesProofs -------------------------
(***************************************************************************)
(* Proofs about SourceCaches, for any processes, jobs, texts and changes   *)
(* of the files.                                                           *)
(*                                                                         *)
(* The steps decide which state of a file an entry, an index, a head or a  *)
(* cached answer is of; what the functions of LineLookups make of a text   *)
(* is proved first, by induction along its lines.                          *)
(***************************************************************************)
EXTENDS SourceCaches, WellFoundedInduction, FiniteSetTheorems, TLAPS

-----------------------------------------------------------------------------
(* Least and greatest numbers, and induction along a sequence              *)

LEMMA Least ==
    ASSUME NEW T, T \subseteq Nat, T # {}
    PROVE  \E n \in T : \A m \in T : n <= m
<1>1. PICK n \in T : \A m \in T : ~(<<m, n>> \in OpToRel(<, Nat))
  BY NatLessThanWellFounded, WFMin
<1>2. \A m \in T : m < n => <<m, n>> \in OpToRel(<, Nat)
  BY DEF OpToRel
<1>3. \A m \in T : ~(m < n)
  BY <1>1, <1>2
<1> QED
  BY <1>3

LEMMA MinIsLeast ==
    ASSUME NEW T, T \subseteq Nat, T # {}
    PROVE  Min(T) \in T /\ \A m \in T : Min(T) <= m
BY Least DEF Min

LEMMA MaxIsGreatest ==
    ASSUME NEW n \in Nat, NEW T, T \subseteq 0 .. n, T # {}
    PROVE  Max(T) \in T /\ \A m \in T : Max(T) >= m
<1> DEFINE Below == {n - m : m \in T}
<1>1. Below \subseteq Nat /\ Below # {}
  <2>1. \A m \in T : n - m \in Nat
    OBVIOUS
  <2> QED
    BY <2>1
<1>2. PICK k \in Below : \A m \in Below : k <= m
  BY <1>1, Least
<1>3. PICK v \in T : k = n - v
  OBVIOUS
<1>4. \A m \in T : v >= m
  <2>1. ASSUME NEW m \in T PROVE v >= m
    <3>1. n - v <= n - m
      BY <1>2, <1>3
    <3> QED
      BY <3>1
  <2> QED
    BY <2>1
<1> QED
  BY <1>3, <1>4 DEF Max

LEMMA OfTwo ==
    ASSUME NEW a \in Int, NEW b \in Int
    PROVE  /\ Min({a, b}) = IF a <= b THEN a ELSE b
           /\ Max({a, b}) = IF a >= b THEN a ELSE b
<1>1. ASSUME NEW x \in {a, b}, \A y \in {a, b} : x <= y
      PROVE  Min({a, b}) = x
  <2>1. Min({a, b}) \in {a, b} /\ \A y \in {a, b} : Min({a, b}) <= y
    BY <1>1 DEF Min
  <2> QED
    BY <1>1, <2>1
<1>2. ASSUME NEW x \in {a, b}, \A y \in {a, b} : x >= y
      PROVE  Max({a, b}) = x
  <2>1. Max({a, b}) \in {a, b} /\ \A y \in {a, b} : Max({a, b}) >= y
    BY <1>2 DEF Max
  <2> QED
    BY <1>2, <2>1
<1> QED
  BY <1>1, <1>2

\* A set of places that holds the first and, with each place, the next.
LEMMA Climb ==
    ASSUME NEW n \in Nat, NEW T, 0 \in T, \A i \in 1 .. n : i - 1 \in T => i \in T
    PROVE  \A i \in 0 .. n : i \in T
<1> DEFINE Missing == {i \in 0 .. n : i \notin T}
<1>1. SUFFICES ASSUME Missing # {} PROVE FALSE
  OBVIOUS
<1>2. PICK i \in Missing : \A j \in Missing : i <= j
  <2>1. Missing \subseteq Nat
    OBVIOUS
  <2> HIDE DEF Missing
  <2> QED
    BY <1>1, <2>1, Least
<1>3. i \in 1 .. n /\ i - 1 \in 0 .. n /\ i - 1 \notin Missing
  BY <1>2
<1> QED
  BY <1>2, <1>3

\* What is defined along a sequence, each value from the one before.
Steps(n, S) == [1 .. n -> [S -> S]]
Follows(f, n, S, base, step) ==
    f \in [0 .. n -> S] /\ f[0] = base /\ \A i \in 1 .. n : f[i] = step[i][f[i - 1]]

LEMMA Recursion ==
    ASSUME NEW n \in Nat, NEW S, NEW base \in S, NEW step \in Steps(n, S)
    PROVE  \E f : Follows(f, n, S, base, step)
<1> DEFINE T == {m \in 0 .. n : \E f : Follows(f, m, S, base, step)}
<1>1. 0 \in T
  <2>1. Follows([i \in 0 .. 0 |-> base], 0, S, base, step)
    BY DEF Follows
  <2> QED
    BY <2>1
<1>2. ASSUME NEW m \in 1 .. n, m - 1 \in T PROVE m \in T
  <2>1. PICK f : Follows(f, m - 1, S, base, step)
    BY <1>2
  <2> DEFINE g == [i \in 0 .. m |-> IF i = m THEN step[m][f[m - 1]] ELSE f[i]]
  <2>2. m - 1 \in 0 .. m - 1 /\ \A i \in 0 .. m : i # m => i \in 0 .. m - 1
    OBVIOUS
  <2>3. f[m - 1] \in S /\ step[m][f[m - 1]] \in S
    BY <2>1, <2>2 DEF Follows, Steps
  <2>4. g \in [0 .. m -> S] /\ g[0] = base
    BY <2>1, <2>2, <2>3 DEF Follows
  <2>5. ASSUME NEW i \in 1 .. m PROVE g[i] = step[i][g[i - 1]]
    <3>1. i - 1 \in 0 .. m /\ i - 1 # m /\ g[i - 1] = f[i - 1]
      OBVIOUS
    <3>2. CASE i = m
      BY <3>1, <3>2
    <3>3. CASE i # m
      BY <2>1, <3>1, <3>3 DEF Follows
    <3> QED
      BY <3>2, <3>3
  <2>6. Follows(g, m, S, base, step)
    <3> HIDE DEF g
    <3> QED
      BY <2>4, <2>5 DEF Follows
  <2>7. m \in 0 .. n
    OBVIOUS
  <2> HIDE DEF g
  <2> QED
    BY <2>6, <2>7
<1>3. n \in T
  <2> HIDE DEF T
  <2> QED
    BY <1>1, <1>2, Climb
<1> QED
  BY <1>3

-----------------------------------------------------------------------------
(* Where lines end                                                         *)

LEMMA OfLines ==
    ASSUME NEW text \in Seq(Line)
    PROVE  /\ Len(text) \in Nat /\ DOMAIN text = 1 .. Len(text)
           /\ \A i \in 1 .. Len(text) :
                  text[i] \in Line /\ text[i].len \in Nat \ {0} /\ text[i].pats \in SUBSET Patterns
<1>1. \A line \in Line : line.len \in Nat \ {0} /\ line.pats \in SUBSET Patterns
  BY DEF Line
<1> QED
  BY <1>1

LEMMA EndsOfLines ==
    ASSUME NEW text \in Seq(Line)
    PROVE  /\ LineEnds(text) \in [0 .. Len(text) -> Nat] /\ EndOf(text, 0) = 0
           /\ \A i \in 1 .. Len(text) : EndOf(text, i) = StartOf(text, i) + text[i].len
           /\ SizeOf(text) \in Nat
<1> DEFINE n == Len(text)
           step == [i \in 1 .. n |-> [end \in Nat |-> end + text[i].len]]
<1>1. n \in Nat /\ \A i \in 1 .. n : text[i].len \in Nat
  BY OfLines
<1>2. step \in Steps(n, Nat)
  BY <1>1 DEF Steps
<1>3. PICK f : Follows(f, n, Nat, 0, step)
  <2>1. 0 \in Nat /\ n \in Nat
    BY <1>1
  <2> HIDE DEF step, n
  <2> QED
    BY <1>2, <2>1, Recursion
<1>4. \A i \in 1 .. n : f[i] = f[i - 1] + text[i].len
  <2>1. ASSUME NEW i \in 1 .. n PROVE f[i] = f[i - 1] + text[i].len
    <3>1. i - 1 \in 0 .. n
      OBVIOUS
    <3> QED
      BY <1>3, <3>1 DEF Follows
  <2> QED
    BY <2>1
<1>5. f = [i \in 0 .. n |-> IF i = 0 THEN 0 ELSE f[i - 1] + text[i].len]
  BY <1>3, <1>4 DEF Follows
<1>6. LineEnds(text) = [i \in 0 .. n |-> IF i = 0 THEN 0 ELSE LineEnds(text)[i - 1] + text[i].len]
  BY <1>5 DEF LineEnds
<1> DEFINE g == LineEnds(text)
           T == {i \in 0 .. n : g[i] = f[i]}
<1> HIDE DEF step
<1>7. \A i \in 0 .. n : g[i] = f[i]
  <2>1. 0 \in T
    BY <1>3, <1>6 DEF Follows
  <2>2. ASSUME NEW i \in 1 .. n, i - 1 \in T PROVE i \in T
    BY <1>4, <1>6, <2>2
  <2>3. \A i \in 0 .. n : i \in T
    <3> HIDE DEF T
    <3> QED
      BY <1>1, <2>1, <2>2, Climb
  <2> QED
    BY <2>3
<1>8. g = f
  <2>1. g = [i \in 0 .. n |-> IF i = 0 THEN 0 ELSE g[i - 1] + text[i].len]
    BY <1>6
  <2>2. \A i \in 0 .. n : i # 0 => g[i - 1] = f[i - 1]
    BY <1>1, <1>7
  <2> HIDE DEF g, n
  <2> QED
    BY <1>5, <2>1, <2>2
<1>9. \A i \in 1 .. n : i - 1 \in 0 .. n /\ i \in 0 .. n
  BY <1>1
<1> QED
  BY <1>1, <1>3, <1>4, <1>8, <1>9 DEF EndOf, StartOf, SizeOf, Follows

\* Ends grow with the lines.
LEMMA EndsGrow ==
    ASSUME NEW text \in Seq(Line)
    PROVE  \A i, j \in 0 .. Len(text) : i < j => EndOf(text, i) < EndOf(text, j)
<1> DEFINE n == Len(text)
           T == {j \in 0 .. n : \A i \in 0 .. n : i < j => EndOf(text, i) < EndOf(text, j)}
<1>1. n \in Nat /\ \A i \in 1 .. n : text[i].len \in Nat \ {0}
  BY OfLines
<1>2. /\ \A i \in 0 .. n : EndOf(text, i) \in Nat
      /\ \A i \in 1 .. n : EndOf(text, i) = EndOf(text, i - 1) + text[i].len
  BY EndsOfLines DEF EndOf, StartOf
<1>3. 0 \in T
  BY <1>1
<1>4. ASSUME NEW j \in 1 .. n, j - 1 \in T PROVE j \in T
  <2>1. ASSUME NEW i \in 0 .. n, i < j PROVE EndOf(text, i) < EndOf(text, j)
    <3>1. EndOf(text, j - 1) < EndOf(text, j) /\ EndOf(text, j - 1) \in Nat /\ EndOf(text, j) \in Nat
      <4>1. j - 1 \in 0 .. n /\ j \in 0 .. n
        BY <1>1
      <4> QED
        BY <1>1, <1>2, <4>1
    <3>2. i = j - 1 \/ EndOf(text, i) < EndOf(text, j - 1)
      BY <1>4, <2>1
    <3> QED
      BY <1>2, <3>1, <3>2
  <2> QED
    BY <1>1, <2>1
<1>5. \A j \in 0 .. n : j \in T
  <2> HIDE DEF T
  <2> QED
    BY <1>1, <1>3, <1>4, Climb
<1> QED
  BY <1>5

\* The lines of a text are where they are in a text that goes on from it.
Agree(known, text) == Len(known) <= Len(text) /\ \A i \in 1 .. Len(known) : text[i] = known[i]

LEMMA EndsAgree ==
    ASSUME NEW known \in Seq(Line), NEW text \in Seq(Line), Agree(known, text)
    PROVE  \A i \in 0 .. Len(known) : EndOf(text, i) = EndOf(known, i)
<1> DEFINE n == Len(known)
           T == {i \in 0 .. n : EndOf(text, i) = EndOf(known, i)}
<1>1. n \in Nat /\ \A i \in 1 .. n : i \in 1 .. Len(text) /\ text[i] = known[i]
  BY DEF Agree
<1>2. 0 \in T
  BY EndsOfLines
<1>3. ASSUME NEW i \in 1 .. n, i - 1 \in T PROVE i \in T
  <2>1. EndOf(text, i) = EndOf(text, i - 1) + text[i].len /\ EndOf(known, i) = EndOf(known, i - 1) + known[i].len
    BY <1>1, EndsOfLines DEF StartOf
  <2> QED
    BY <1>1, <1>3, <2>1
<1>4. \A i \in 0 .. n : i \in T
  <2> HIDE DEF T
  <2> QED
    BY <1>1, <1>2, <1>3, Climb
<1> QED
  BY <1>4
\* The lines read from where a line starts are that line and those after it.
LEMMA LinesFromStart ==
    ASSUME NEW text \in Seq(Line), NEW s \in 1 .. Len(text) + 1
    PROVE  LinesFrom(text, EndOf(text, s - 1)) =
               [k \in 1 .. Len(text) - s + 1 |->
                   [start |-> StartOf(text, s + k - 1), end |-> EndOf(text, s + k - 1),
                    pats |-> text[s + k - 1].pats]]
<1> DEFINE n == Len(text)
           from == EndOf(text, s - 1)
           F == {i \in DOMAIN text : EndOf(text, i) > from} \union {n + 1}
<1>1. n \in Nat /\ DOMAIN text = 1 .. n /\ s - 1 \in 0 .. n
  BY OfLines
<1>2. \A i \in 0 .. n : EndOf(text, i) \in Nat
  BY EndsOfLines DEF EndOf
<1>3. s \in F
  <2>1. CASE s = n + 1
    BY <2>1
  <2>2. CASE s # n + 1
    <3>1. s \in 1 .. n /\ s \in 0 .. n /\ s - 1 < s
      BY <1>1, <2>2
    <3>2. EndOf(text, s - 1) < EndOf(text, s)
      BY <1>1, <3>1, EndsGrow
    <3> QED
      BY <1>1, <1>2, <3>1, <3>2
  <2> QED
    BY <2>1, <2>2
<1>4. \A i \in F : ~(i < s)
  <2> SUFFICES ASSUME NEW i \in F, i < s PROVE FALSE
    OBVIOUS
  <2>1. i \in 1 .. n /\ EndOf(text, i) > from
    BY <1>1
  <2>2. i = s - 1 \/ i < s - 1
    BY <1>1, <2>1
  <2>3. i < s - 1 => EndOf(text, i) < from
    BY <1>1, <2>1, EndsGrow
  <2> QED
    BY <1>1, <1>2, <2>1, <2>2, <2>3
<1>5. Min(F) = s
  <2>1. F \subseteq Nat /\ F # {}
    BY <1>1
  <2>2. Min(F) \in F /\ \A i \in F : Min(F) <= i
    <3> HIDE DEF F
    <3> QED
      BY <2>1, MinIsLeast
  <2>3. s \in Nat /\ \A i \in F : i \in Nat
    BY <2>1
  <2> HIDE DEF F
  <2>4. Min(F) <= s /\ ~(Min(F) < s) /\ Min(F) \in Nat
    BY <1>3, <1>4, <2>2, <2>3
  <2> QED
    BY <2>3, <2>4
<1>6. ASSUME NEW k \in 1 .. n - s + 1 PROVE Max({from, StartOf(text, s + k - 1)}) = StartOf(text, s + k - 1)
  <2>1. s + k - 1 - 1 \in 0 .. n /\ (k = 1 \/ s - 1 < s + k - 1 - 1)
    BY <1>1
  <2>2. from <= StartOf(text, s + k - 1)
    <3>1. CASE k = 1
      BY <1>1, <1>2, <3>1 DEF StartOf
    <3>2. CASE k # 1
      BY <1>1, <1>2, <2>1, <3>2, EndsGrow DEF StartOf
    <3> QED
      BY <3>1, <3>2
  <2>3. from \in Int /\ StartOf(text, s + k - 1) \in Int
    BY <1>1, <1>2, <2>1 DEF StartOf
  <2> HIDE DEF from
  <2> QED
    BY <2>2, <2>3, OfTwo
<1>7. LinesFrom(text, from) =
          [k \in 1 .. n - s + 1 |->
              [start |-> Max({from, StartOf(text, s + k - 1)}), end |-> EndOf(text, s + k - 1),
               pats |-> text[s + k - 1].pats]]
  BY <1>5 DEF LinesFrom
<1> HIDE DEF from, n
<1> QED
  BY <1>6, <1>7 DEF from, n

\* Read to its size a text is read whole.
LEMMA PrefixIsWhole ==
    ASSUME NEW text \in Seq(Line)
    PROVE  Prefix(text, SizeOf(text)) = text
<1> DEFINE n == Len(text)
           K == {k \in DOMAIN text : StartOf(text, k) < SizeOf(text)}
<1>1. n \in Nat /\ DOMAIN text = 1 .. n /\ \A i \in 1 .. n : text[i] \in Line /\ text[i].len \in Nat \ {0}
  BY OfLines
<1>2. \A i \in 0 .. n : EndOf(text, i) \in Nat
  BY EndsOfLines DEF EndOf
<1>3. ASSUME NEW i \in 1 .. n
      PROVE  StartOf(text, i) < SizeOf(text) /\ text[i].len <= SizeOf(text) - StartOf(text, i)
             /\ SizeOf(text) - StartOf(text, i) \in Int
  <2>1. EndOf(text, i) = StartOf(text, i) + text[i].len
    BY EndsOfLines
  <2>2. i \in 0 .. n /\ n \in 0 .. n /\ i - 1 \in 0 .. n /\ (i = n \/ i < n)
    <3> HIDE DEF n
    <3> QED
      BY <1>1
  <2>3. EndOf(text, i) <= EndOf(text, n)
    BY <1>2, <2>2, EndsGrow
  <2>4. /\ EndOf(text, i - 1) \in Nat /\ EndOf(text, n) \in Nat /\ EndOf(text, i) \in Nat
        /\ text[i].len \in Nat \ {0}
    BY <1>1, <1>2, <2>2
  <2> QED
    BY <2>1, <2>3, <2>4 DEF StartOf, SizeOf
<1>4. K = 1 .. n
  BY <1>1, <1>3
<1>5. ASSUME NEW i \in 1 .. n
      PROVE  [text[i] EXCEPT !.len = Min({@, SizeOf(text) - StartOf(text, i)})] = text[i]
  <2>1. text[i].len \in Int
    BY <1>1
  <2>2. Min({text[i].len, SizeOf(text) - StartOf(text, i)}) = text[i].len
    BY <1>3, <2>1, OfTwo
  <2>3. \A line \in Line : [line EXCEPT !.len = line.len] = line
    BY DEF Line
  <2> QED
    BY <1>1, <2>2, <2>3
<1>6. Prefix(text, SizeOf(text)) = [i \in K |-> [text[i] EXCEPT !.len = Min({@, SizeOf(text) - StartOf(text, i)})]]
  BY DEF Prefix
<1>7. Prefix(text, SizeOf(text)) = [i \in 1 .. n |-> text[i]]
  <2> HIDE DEF K
  <2> QED
    BY <1>4, <1>5, <1>6
<1> QED
  BY <1>1, <1>7
\* The first line of a text, and the lines after it as they are read on.
FirstLine(text) == IF text = <<>> THEN <<>> ELSE <<Head(text)>>
LinesAfter(text, head) ==
    LET rest == LinesFrom(text, SizeOf(head))
    IN  head \o [k \in DOMAIN rest |-> [len |-> rest[k].end - rest[k].start, pats |-> rest[k].pats]]

LEMMA FirstLineAgrees ==
    ASSUME NEW text \in Seq(Line)
    PROVE  /\ FirstLine(text) \in Seq(Line) /\ Agree(FirstLine(text), text)
           /\ Len(FirstLine(text)) \in 0 .. Len(text)
<1>1. CASE text = <<>>
  BY <1>1 DEF FirstLine, Agree
<1>2. CASE text # <<>>
  <2>1. Len(text) \in Nat /\ Len(text) >= 1 /\ Head(text) = text[1] /\ text[1] \in Line
    BY <1>2
  <2>2. FirstLine(text) = <<text[1]>>
    BY <1>2, <2>1 DEF FirstLine
  <2> QED
    BY <2>1, <2>2 DEF Agree
<1> QED
  BY <1>1, <1>2

LEMMA ReadInTwo ==
    ASSUME NEW text \in Seq(Line)
    PROVE  LinesAfter(Prefix(text, SizeOf(text)), FirstLine(text)) = text
<1> DEFINE head == FirstLine(text)
           h == Len(head)
           n == Len(text)
           rest == LinesFrom(text, SizeOf(head))
           read == [k \in DOMAIN rest |-> [len |-> rest[k].end - rest[k].start, pats |-> rest[k].pats]]
<1>1. head \in Seq(Line) /\ Agree(head, text) /\ h \in 0 .. n /\ n \in Nat
  BY FirstLineAgrees, OfLines
<1>2. SizeOf(head) = EndOf(text, h)
  <2>1. h \in 0 .. Len(head)
    BY <1>1
  <2> QED
    BY <1>1, <2>1, EndsAgree DEF SizeOf
<1>3. rest = [k \in 1 .. n - h |-> [start |-> StartOf(text, h + k), end |-> EndOf(text, h + k), pats |-> text[h + k].pats]]
  <2> DEFINE s == h + 1
  <2>1. /\ s \in 1 .. Len(text) + 1 /\ s - 1 = h /\ Len(text) - s + 1 = n - h
        /\ \A k \in 1 .. n - h : s + k - 1 = h + k
    BY <1>1
  <2> HIDE DEF s, h
  <2>2. LinesFrom(text, EndOf(text, s - 1)) =
            [k \in 1 .. Len(text) - s + 1 |->
                [start |-> StartOf(text, s + k - 1), end |-> EndOf(text, s + k - 1),
                 pats |-> text[s + k - 1].pats]]
    BY <2>1, LinesFromStart
  <2>3. rest = LinesFrom(text, EndOf(text, s - 1))
    BY <1>2, <2>1
  <2> HIDE DEF rest
  <2> QED
    BY <2>1, <2>2, <2>3
<1>4. ASSUME NEW k \in 1 .. n - h PROVE read[k] = text[h + k]
  <2>1. h + k \in 1 .. n
    BY <1>1
  <2>2. /\ EndOf(text, h + k) = StartOf(text, h + k) + text[h + k].len
        /\ text[h + k] \in Line /\ text[h + k].len \in Nat /\ StartOf(text, h + k) \in Nat
    <3>1. h + k - 1 \in 0 .. n
      BY <1>1, <2>1
    <3> HIDE DEF h, n
    <3> QED
      BY <2>1, <3>1, EndsOfLines, OfLines DEF StartOf, EndOf, n
  <2>3. read[k] = [len |-> EndOf(text, h + k) - StartOf(text, h + k), pats |-> text[h + k].pats]
    <3> HIDE DEF h, n, rest
    <3> QED
      BY <1>3 DEF n
  <2>4. EndOf(text, h + k) - StartOf(text, h + k) = text[h + k].len
    BY <2>2
  <2>5. \A line \in Line : line = [len |-> line.len, pats |-> line.pats]
    BY DEF Line
  <2> HIDE DEF h, n, read
  <2> QED
    BY <2>2, <2>3, <2>4, <2>5
<1>5. DOMAIN read = 1 .. n - h
  <2> HIDE DEF h, n, rest
  <2> QED
    BY <1>3
<1>6. read \in Seq(Line) /\ Len(read) = n - h
  <2>1. n - h \in Nat /\ \A k \in 1 .. n - h : read[k] \in Line
    <3>1. \A k \in 1 .. n - h : h + k \in 1 .. n
      BY <1>1
    <3> HIDE DEF read, h
    <3> QED
      BY <1>1, <1>4, <3>1, OfLines
  <2>2. read = [k \in 1 .. n - h |-> read[k]]
    BY <1>5
  <2> HIDE DEF read, h, n
  <2> QED
    BY <1>5, <2>1, <2>2
<1>7. head \o read = text
  <2>1. \A i \in 1 .. h : head[i] = text[i]
    BY <1>1 DEF Agree
  <2>2. head \o read \in Seq(Line) /\ Len(head \o read) = n
    <3> HIDE DEF head, read, n
    <3> QED
      BY <1>1, <1>6
  <2>3. ASSUME NEW i \in 1 .. n PROVE (head \o read)[i] = text[i]
    <3>1. CASE i <= h
      <4>1. (head \o read)[i] = head[i]
        <5> HIDE DEF head, read, n
        <5> QED
          BY <1>1, <1>6, <3>1
      <4> QED
        BY <1>1, <2>1, <3>1, <4>1
    <3>2. CASE i > h
      <4>1. (head \o read)[i] = read[i - h] /\ i - h \in 1 .. n - h /\ h + (i - h) = i
        <5> HIDE DEF head, read, n
        <5> QED
          BY <1>1, <1>6, <3>2
      <4> HIDE DEF head, read, n
      <4> QED
        BY <1>4, <4>1
    <3>3. i <= h \/ i > h
      <4> HIDE DEF h, n
      <4> QED
        BY <1>1
    <3> HIDE DEF h, n, head, read
    <3> QED
      BY <3>1, <3>2, <3>3
  <2> HIDE DEF head, read
  <2>4. head \o read = [i \in 1 .. n |-> (head \o read)[i]] /\ text = [i \in 1 .. n |-> text[i]]
    <3>1. \A seq \in Seq(Line) : seq = [i \in 1 .. Len(seq) |-> seq[i]]
      OBVIOUS
    <3> DEFINE both == head \o read
    <3>2. both \in Seq(Line) /\ Len(both) = n
      BY <2>2
    <3> HIDE DEF both
    <3>3. both = [i \in 1 .. n |-> both[i]] /\ text = [i \in 1 .. n |-> text[i]]
      BY <3>1, <3>2
    <3> QED
      BY <3>3 DEF both
  <2> QED
    BY <2>3, <2>4
<1>8. LinesAfter(text, head) = head \o read
  BY DEF LinesAfter
<1> QED
  BY <1>7, <1>8, PrefixIsWhole
-----------------------------------------------------------------------------
(* Checkpoints                                                             *)

\* A place where a line starts, with its number.
TrueStart(c, text) == c.line \in 1 .. Len(text) /\ c.offset = StartOf(text, c.line)
TrueStarts(checkpoints, text) == \A i \in DOMAIN checkpoints : TrueStart(checkpoints[i], text)

Checkpoint == [line : Nat, offset : Nat]
TrueIndex(checkpoints, text) == checkpoints \in Seq(Checkpoint) /\ TrueStarts(checkpoints, text)

WalkState == [checkpoints : Seq(Checkpoint), line : Nat, offset : Nat, due : BOOLEAN, next : Nat]

LEMMA OneLineOn ==
    ASSUME NEW step \in Nat, NEW s \in WalkState, NEW line \in Line
    PROVE  /\ WalkLine(step, s, line) \in WalkState
           /\ WalkLine(step, s, line).line = s.line + 1
           /\ WalkLine(step, s, line).offset = s.offset + line.len
           /\ WalkLine(step, s, line).checkpoints =
                  IF s.due THEN Append(s.checkpoints, [line |-> s.line + 1, offset |-> s.offset]) ELSE s.checkpoints
<1> DEFINE w == WalkLine(step, s, line)
           far == s.offset + line.len
           grown == IF s.due THEN Append(s.checkpoints, [line |-> s.line + 1, offset |-> s.offset]) ELSE s.checkpoints
<1>1. /\ s.checkpoints \in Seq(Checkpoint) /\ s.line \in Nat /\ s.offset \in Nat
      /\ s.next \in Nat /\ line.len \in Nat
  BY DEF WalkState, Line
<1>2. grown \in Seq(Checkpoint)
  <2>1. [line |-> s.line + 1, offset |-> s.offset] \in Checkpoint
    BY <1>1 DEF Checkpoint
  <2> QED
    BY <1>1, <2>1
<1>3. far \in Nat /\ far + step \in Nat /\ (far >= s.next) \in BOOLEAN /\ s.line + 1 \in Nat
  BY <1>1
<1>4. w = [checkpoints |-> grown, line |-> s.line + 1, offset |-> far, due |-> far >= s.next,
           next |-> IF far >= s.next THEN far + step ELSE s.next]
  BY DEF WalkLine
<1>5. (IF far >= s.next THEN far + step ELSE s.next) \in Nat
  BY <1>1, <1>3
<1>6. w \in WalkState
  <2> HIDE DEF w, far, grown
  <2> QED
    BY <1>2, <1>3, <1>4, <1>5 DEF WalkState
<1>7. w.line = s.line + 1 /\ w.offset = far /\ w.checkpoints = grown
  <2> HIDE DEF w, far, grown
  <2> QED
    BY <1>4
<1> QED
  BY <1>6, <1>7

\* An index names true starts of lines.
LEMMA WalkIsTrue ==
    ASSUME NEW text \in Seq(Line), NEW step \in Nat
    PROVE  TrueIndex(walkLines(text, step), text)
<1> DEFINE n == Len(text)
           base == WalkStart(step)
           go == [i \in 1 .. n |-> [s \in WalkState |-> WalkLine(step, s, text[i])]]
           w == Walk(text, step)
<1>1. n \in Nat /\ \A i \in 1 .. n : text[i] \in Line
  BY OfLines
<1>2. base \in WalkState
  BY DEF WalkStart, WalkState
<1>3. go \in Steps(n, WalkState)
  <2>1. \A i \in 1 .. n : \A s \in WalkState : WalkLine(step, s, text[i]) \in WalkState
    BY <1>1, OneLineOn
  <2> HIDE DEF n
  <2> QED
    BY <2>1 DEF Steps
<1>4. PICK f : Follows(f, n, WalkState, base, go)
  <2> HIDE DEF go, n, base
  <2> QED
    BY <1>1, <1>2, <1>3, Recursion
<1>5. ASSUME NEW i \in 1 .. n PROVE f[i] = WalkLine(step, f[i - 1], text[i])
  <2>1. i - 1 \in 0 .. n
    BY <1>1
  <2>2. f[i - 1] \in WalkState /\ f[i] = go[i][f[i - 1]]
    BY <1>4, <2>1 DEF Follows
  <2> QED
    BY <2>2
<1>6. f = [i \in 0 .. n |-> IF i = 0 THEN base ELSE WalkLine(step, f[i - 1], text[i])]
  <2>1. f \in [0 .. n -> WalkState] /\ f[0] = base
    BY <1>4 DEF Follows
  <2> HIDE DEF n, base, go
  <2> QED
    BY <1>1, <1>5, <2>1
<1>7. w = [i \in 0 .. n |-> IF i = 0 THEN base ELSE WalkLine(step, w[i - 1], text[i])]
  BY <1>6 DEF Walk
<1> HIDE DEF w
<1> DEFINE T == {i \in 0 .. n : /\ w[i] \in WalkState /\ w[i].line = i /\ w[i].offset = EndOf(text, i)
                               /\ TrueStarts(w[i].checkpoints, text)}
<1>8. 0 \in T
  <2>1. w[0] = base
    BY <1>1, <1>7
  <2>2. base.line = 0 /\ base.offset = 0 /\ base.checkpoints = <<>>
    BY DEF WalkStart
  <2>3. EndOf(text, 0) = 0
    BY EndsOfLines
  <2>4. TrueStarts(<<>>, text)
    BY DEF TrueStarts
  <2> HIDE DEF base
  <2> QED
    BY <1>1, <1>2, <2>1, <2>2, <2>3, <2>4
<1>9. ASSUME NEW i \in 1 .. n, i - 1 \in T PROVE i \in T
  <2> DEFINE s == w[i - 1]
             c == [line |-> s.line + 1, offset |-> s.offset]
  <2>1. s \in WalkState /\ s.line = i - 1 /\ s.offset = EndOf(text, i - 1) /\ TrueStarts(s.checkpoints, text)
    BY <1>9
  <2>2. w[i] = WalkLine(step, s, text[i])
    BY <1>1, <1>7
  <2> HIDE DEF s
  <2>3. /\ w[i] \in WalkState /\ w[i].line = i /\ w[i].offset = s.offset + text[i].len
        /\ w[i].checkpoints = IF s.due THEN Append(s.checkpoints, c) ELSE s.checkpoints
    BY <1>1, <2>1, <2>2, OneLineOn
  <2>4. w[i].offset = EndOf(text, i)
    BY <2>1, <2>3, EndsOfLines DEF StartOf
  <2>5. TrueStart(c, text)
    BY <2>1 DEF TrueStart, StartOf
  <2>6. TrueStarts(Append(s.checkpoints, c), text)
    <3>1. s.checkpoints \in Seq(Checkpoint)
      BY <2>1 DEF WalkState
    <3>2. ASSUME NEW k \in DOMAIN Append(s.checkpoints, c) PROVE TrueStart(Append(s.checkpoints, c)[k], text)
      <4>1. \/ k \in DOMAIN s.checkpoints /\ Append(s.checkpoints, c)[k] = s.checkpoints[k]
            \/ Append(s.checkpoints, c)[k] = c
        <5> HIDE DEF c
        <5> QED
          BY <3>1
      <4> HIDE DEF c
      <4> QED
        BY <2>1, <2>5, <4>1 DEF TrueStarts
    <3> QED
      BY <3>2 DEF TrueStarts
  <2>7. TrueStarts(w[i].checkpoints, text)
    <3> HIDE DEF c
    <3> QED
      BY <2>1, <2>3, <2>6
  <2> QED
    BY <1>1, <2>3, <2>4, <2>7
<1>10. n \in T
  <2>1. \A i \in 0 .. n : i \in T
    <3> HIDE DEF T, n
    <3> QED
      BY <1>1, <1>8, <1>9, Climb
  <2> QED
    BY <1>1, <2>1
<1> QED
  BY <1>10 DEF walkLines, w, TrueIndex, WalkState

\* A text that goes on from another starts its lines where that one does.
LEMMA StartsStayTrue ==
    ASSUME NEW known \in Seq(Line), NEW text \in Seq(Line), Agree(known, text)
    PROVE  /\ \A c : TrueStart(c, known) => TrueStart(c, text)
           /\ \A checkpoints : TrueIndex(checkpoints, known) => TrueIndex(checkpoints, text)
<1>1. Len(known) \in Nat /\ Len(text) \in Nat /\ Len(known) <= Len(text)
  BY OfLines DEF Agree
<1>2. ASSUME NEW c, TrueStart(c, known) PROVE TrueStart(c, text)
  <2>1. c.line - 1 \in 0 .. Len(known) /\ c.line \in 1 .. Len(text)
    BY <1>1, <1>2 DEF TrueStart
  <2> QED
    BY <1>2, <2>1, EndsAgree DEF TrueStart, StartOf
<1> QED
  BY <1>2 DEF TrueIndex, TrueStarts
LEMMA LastAtIsOne ==
    ASSUME NEW checkpoints \in Seq(Checkpoint), NEW places, places \subseteq DOMAIN checkpoints
    PROVE  LastAt(checkpoints, places) = NoCheckpoint \/ \E i \in places : LastAt(checkpoints, places) = checkpoints[i]
<1>1. CASE places = {}
  BY <1>1 DEF LastAt
<1>2. CASE places # {}
  <2>1. Len(checkpoints) \in Nat /\ places \subseteq 0 .. Len(checkpoints)
    OBVIOUS
  <2>2. Max(places) \in places
    BY <1>2, <2>1, MaxIsGreatest
  <2> QED
    BY <1>2, <2>2 DEF LastAt
<1> QED
  BY <1>1, <1>2

\* What a lookup finds starts a line, not after what was asked for.
LEMMA NearestIsTrue ==
    ASSUME NEW text, NEW checkpoints, TrueIndex(checkpoints, text), NEW target
    PROVE  LET c == FindNearestCheckpointForOffset(checkpoints, target)
           IN  c = NoCheckpoint \/ (TrueStart(c, text) /\ c.offset <= target)
<1> DEFINE places == {i \in DOMAIN checkpoints : checkpoints[i].offset <= target}
           c == LastAt(checkpoints, places)
<1>1. checkpoints \in Seq(Checkpoint) /\ \A i \in DOMAIN checkpoints : TrueStart(checkpoints[i], text)
  BY DEF TrueIndex, TrueStarts
<1>2. c = NoCheckpoint \/ \E i \in places : c = checkpoints[i]
  <2>1. places \subseteq DOMAIN checkpoints
    OBVIOUS
  <2> HIDE DEF places
  <2> QED
    BY <1>1, <2>1, LastAtIsOne
<1>3. ASSUME NEW i \in places, c = checkpoints[i] PROVE TrueStart(c, text) /\ c.offset <= target
  BY <1>1, <1>3
<1>4. FindNearestCheckpointForOffset(checkpoints, target) = c
  BY DEF FindNearestCheckpointForOffset
<1> QED
  BY <1>2, <1>3, <1>4

LEMMA NearestLine ==
    ASSUME NEW text, NEW checkpoints, TrueIndex(checkpoints, text), NEW target
    PROVE  LET c == FindNearestCheckpoint(checkpoints, target)
           IN  c = NoCheckpoint \/ (TrueStart(c, text) /\ c.line <= target)
<1> DEFINE places == {i \in DOMAIN checkpoints : checkpoints[i].line <= target}
           c == LastAt(checkpoints, places)
<1>1. checkpoints \in Seq(Checkpoint) /\ \A i \in DOMAIN checkpoints : TrueStart(checkpoints[i], text)
  BY DEF TrueIndex, TrueStarts
<1>2. c = NoCheckpoint \/ \E i \in places : c = checkpoints[i]
  <2>1. places \subseteq DOMAIN checkpoints
    OBVIOUS
  <2> HIDE DEF places
  <2> QED
    BY <1>1, <2>1, LastAtIsOne
<1>3. ASSUME NEW i \in places, c = checkpoints[i] PROVE TrueStart(c, text) /\ c.line <= target
  BY <1>1, <1>3
<1>4. FindNearestCheckpoint(checkpoints, target) = c
  BY DEF FindNearestCheckpoint
<1> QED
  BY <1>2, <1>3, <1>4

\* A pass that starts at such a checkpoint has the lines of context before it.
LEMMA RoomForContext ==
    ASSUME NEW text \in Seq(Line), NEW checkpoints, TrueIndex(checkpoints, text), NEW context \in Nat,
           NEW number \in 1 .. Len(text), NEW target, target <= StartOf(text, number), target \in Int
    PROVE  LET c == CheckpointForContext(checkpoints, target, context)
           IN  c = NoCheckpoint \/ (TrueStart(c, text) /\ c.line + context <= number)
<1> DEFINE h == FindNearestCheckpointForOffset(checkpoints, target)
           c == FindNearestCheckpoint(checkpoints, h.line - context)
<1>1. CheckpointForContext(checkpoints, target, context) = IF h.line = 0 THEN NoCheckpoint ELSE c
  BY DEF CheckpointForContext
<1>2. h = NoCheckpoint \/ (TrueStart(h, text) /\ h.offset <= target)
  BY NearestIsTrue
<1>3. c = NoCheckpoint \/ (TrueStart(c, text) /\ c.line <= h.line - context)
  <2> HIDE DEF h
  <2> QED
    BY NearestLine
<1>4. NoCheckpoint.line = 0
  BY DEF NoCheckpoint
<1> HIDE DEF h, c
<1>5. ASSUME h.line # 0, c # NoCheckpoint PROVE c.line + context <= number
  <2>1. TrueStart(h, text) /\ h.offset <= target /\ TrueStart(c, text) /\ c.line <= h.line - context
    BY <1>2, <1>3, <1>4, <1>5
  <2>2. h.line \in 1 .. Len(text) /\ c.line \in 1 .. Len(text) /\ h.offset = EndOf(text, h.line - 1)
    BY <2>1 DEF TrueStart, StartOf
  <2>3. h.line - 1 \in 0 .. Len(text) /\ number - 1 \in 0 .. Len(text) /\ Len(text) \in Nat
    BY <2>2, OfLines
  <2>4. EndOf(text, h.line - 1) <= EndOf(text, number - 1) /\ EndOf(text, h.line - 1) \in Nat /\ EndOf(text, number - 1) \in Nat
    <3>1. EndOf(text, h.line - 1) \in Nat /\ EndOf(text, number - 1) \in Nat
      BY <2>3, EndsOfLines DEF EndOf
    <3> QED
      BY <2>1, <2>2, <3>1 DEF StartOf
  <2>5. ~(number - 1 < h.line - 1)
    <3>1. number - 1 < h.line - 1 => EndOf(text, number - 1) < EndOf(text, h.line - 1)
      BY <2>3, EndsGrow
    <3> QED
      BY <2>4, <3>1
  <2> QED
    BY <2>1, <2>2, <2>5
<1> QED
  BY <1>1, <1>2, <1>3, <1>5

\* A read that starts where a line starts, or at the top.
GoodStart(start, text) == start.line \in 1 .. Len(text) + 1 /\ start.offset = EndOf(text, start.line - 1)

LEMMA StartAtIsGood ==
    ASSUME NEW text \in Seq(Line), NEW from, from = NoCheckpoint \/ TrueStart(from, text)
    PROVE  /\ GoodStart(StartAt(from), text)
           /\ from = NoCheckpoint => StartAt(from).line = 1
           /\ from # NoCheckpoint => StartAt(from).line = from.line
<1>1. CASE from = NoCheckpoint
  <2>1. StartAt(from) = [line |-> 1, offset |-> 0]
    BY <1>1 DEF StartAt, NoCheckpoint
  <2>2. 1 \in 1 .. Len(text) + 1 /\ EndOf(text, 0) = 0
    BY EndsOfLines, OfLines
  <2> QED
    BY <1>1, <2>1, <2>2 DEF GoodStart
<1>2. CASE from # NoCheckpoint
  <2>1. from.line \in 1 .. Len(text) /\ from.offset = EndOf(text, from.line - 1) /\ Len(text) \in Nat
    BY <1>2, OfLines DEF TrueStart, StartOf
  <2>2. StartAt(from) = from
    BY <2>1 DEF StartAt
  <2> QED
    BY <1>2, <2>1, <2>2 DEF GoodStart
<1> QED
  BY <1>1, <1>2

\* Only the line that starts there holds the start of a line.
LEMMA HoldsItsStart ==
    ASSUME NEW text \in Seq(Line), NEW i \in 1 .. Len(text), NEW j \in 1 .. Len(text)
    PROVE  /\ StartOf(text, i) < EndOf(text, j) <=> i <= j
           /\ StartOf(text, j) <= StartOf(text, i) <=> j <= i
           /\ StartOf(text, i) = StartOf(text, j) <=> i = j
           /\ StartOf(text, i) \in Nat /\ EndOf(text, j) \in Nat /\ StartOf(text, j) \in Nat
<1>1. i - 1 \in 0 .. Len(text) /\ j - 1 \in 0 .. Len(text) /\ j \in 0 .. Len(text) /\ Len(text) \in Nat
  BY OfLines
<1>2. EndOf(text, i - 1) \in Nat /\ EndOf(text, j) \in Nat /\ EndOf(text, j - 1) \in Nat
  BY <1>1, EndsOfLines DEF EndOf
<1>3. /\ i - 1 < j => EndOf(text, i - 1) < EndOf(text, j)
      /\ j < i - 1 => EndOf(text, j) < EndOf(text, i - 1)
      /\ j - 1 < i - 1 => EndOf(text, j - 1) < EndOf(text, i - 1)
      /\ i - 1 < j - 1 => EndOf(text, i - 1) < EndOf(text, j - 1)
  BY <1>1, EndsGrow
<1>4. j = i - 1 => EndOf(text, j) = EndOf(text, i - 1)
  OBVIOUS
<1> QED
  BY <1>2, <1>3, <1>4 DEF StartOf

\* Lines counted from a good start have their true numbers.
LEMMA CountIsTrue ==
    ASSUME NEW known \in Seq(Line), NEW text \in Seq(Line), Agree(known, text),
           NEW start, GoodStart(start, text),
           NEW wanted, \A w \in wanted : \E i \in 1 .. Len(known) : w = StartOf(known, i)
    PROVE  \A n \in countLinesToOffsets(text, start, wanted) : n.offset = StartOf(known, n.line)
<1> DEFINE s == start.line
           lines == LinesFrom(text, start.offset)
<1>1. s \in 1 .. Len(text) + 1 /\ start.offset = EndOf(text, s - 1) /\ Len(text) \in Nat /\ Len(known) \in Nat
  BY OfLines DEF GoodStart
<1>2. lines = [k \in 1 .. Len(text) - s + 1 |->
                  [start |-> StartOf(text, s + k - 1), end |-> EndOf(text, s + k - 1),
                   pats |-> text[s + k - 1].pats]]
  <2> HIDE DEF s
  <2> QED
    BY <1>1, LinesFromStart
<1>3. SUFFICES ASSUME NEW k \in DOMAIN lines, NEW o \in wanted, lines[k].start <= o, o < lines[k].end
               PROVE  o = StartOf(known, s + k - 1)
  BY DEF countLinesToOffsets
<1>4. PICK i \in 1 .. Len(known) : o = StartOf(known, i)
  OBVIOUS
<1>5. s + k - 1 \in 1 .. Len(text) /\ lines[k].start = StartOf(text, s + k - 1) /\ lines[k].end = EndOf(text, s + k - 1)
  <2> HIDE DEF s, lines
  <2> QED
    BY <1>1, <1>2, <1>3
<1>6. i \in 1 .. Len(text) /\ StartOf(text, i) = StartOf(known, i)
  <2>1. i - 1 \in 0 .. Len(known) /\ i \in 1 .. Len(text)
    BY <1>1 DEF Agree
  <2> QED
    BY <2>1, EndsAgree DEF StartOf
<1> DEFINE j == s + k - 1
<1>7. StartOf(text, i) < EndOf(text, j) /\ StartOf(text, j) <= StartOf(text, i)
  <2> HIDE DEF lines, s
  <2> QED
    BY <1>3, <1>4, <1>5, <1>6
<1>8. j \in 1 .. Len(text)
  BY <1>5
<1> HIDE DEF j
<1>9. i <= j /\ j <= i
  BY <1>6, <1>7, <1>8, HoldsItsStart
<1>10. i = j
  BY <1>1, <1>6, <1>8, <1>9
<1> QED
  BY <1>4, <1>10 DEF j
-----------------------------------------------------------------------------
(* Two lists of the same patterns                                          *)

CountIn(list, pattern, k) == Cardinality({v \in 1 .. k : list[v] = pattern})

LEMMA CountsUp ==
    ASSUME NEW list, NEW pattern, NEW k \in Nat
    PROVE  /\ CountIn(list, pattern, k) \in Nat
           /\ k = 0 => CountIn(list, pattern, k) = 0
           /\ k # 0 /\ list[k] = pattern => CountIn(list, pattern, k) = CountIn(list, pattern, k - 1) + 1
           /\ k # 0 /\ list[k] # pattern => CountIn(list, pattern, k) = CountIn(list, pattern, k - 1)
<1> DEFINE At(n) == {v \in 1 .. n : list[v] = pattern}
<1>1. ASSUME NEW n \in Nat PROVE IsFiniteSet(At(n)) /\ Cardinality(At(n)) \in Nat
  <2>1. IsFiniteSet(1 .. n)
    BY FS_Interval
  <2>2. IsFiniteSet(At(n))
    <3>1. At(n) \in SUBSET (1 .. n)
      OBVIOUS
    <3> HIDE DEF At
    <3> QED
      BY <2>1, <3>1, FS_Subset
  <2> HIDE DEF At
  <2> QED
    BY <2>2, FS_CardinalityType
<1>2. ASSUME k = 0 PROVE Cardinality(At(k)) = 0
  <2>1. At(k) = {}
    BY <1>2
  <2> HIDE DEF At
  <2> QED
    BY <2>1, FS_EmptySet
<1>3. ASSUME k # 0, list[k] = pattern PROVE Cardinality(At(k)) = Cardinality(At(k - 1)) + 1
  <2>1. At(k) = At(k - 1) \union {k} /\ k \notin At(k - 1) /\ k - 1 \in Nat
    BY <1>3
  <2> HIDE DEF At
  <2> QED
    BY <1>1, <2>1, FS_AddElement
<1>4. ASSUME k # 0, list[k] # pattern PROVE Cardinality(At(k)) = Cardinality(At(k - 1))
  <2>1. At(k) = At(k - 1)
    BY <1>4
  <2> HIDE DEF At
  <2> QED
    BY <2>1
<1>5. CountIn(list, pattern, k) = Cardinality(At(k)) /\ CountIn(list, pattern, k - 1) = Cardinality(At(k - 1))
  BY DEF CountIn
<1> HIDE DEF At
<1> QED
  BY <1>1, <1>2, <1>3, <1>4, <1>5

\* As many copies as were counted, there is a place of each.
LEMMA PlaceOfCopy ==
    ASSUME NEW list, NEW pattern, NEW n \in Nat, NEW c \in 1 .. CountIn(list, pattern, n)
    PROVE  \E r \in 1 .. n : list[r] = pattern /\ CountIn(list, pattern, r) = c
<1> DEFINE T == {k \in 0 .. n : \A d \in 1 .. CountIn(list, pattern, k) :
                                    \E r \in 1 .. k : list[r] = pattern /\ CountIn(list, pattern, r) = d}
<1>1. 0 \in T
  BY CountsUp
<1>2. ASSUME NEW k \in 1 .. n, k - 1 \in T PROVE k \in T
  <2>1. ASSUME NEW d \in 1 .. CountIn(list, pattern, k)
        PROVE  \E r \in 1 .. k : list[r] = pattern /\ CountIn(list, pattern, r) = d
    <3>1. /\ CountIn(list, pattern, k - 1) \in Nat
          /\ list[k] = pattern => CountIn(list, pattern, k) = CountIn(list, pattern, k - 1) + 1
          /\ list[k] # pattern => CountIn(list, pattern, k) = CountIn(list, pattern, k - 1)
      <4>1. k - 1 \in Nat /\ k \in Nat /\ k # 0
        OBVIOUS
      <4> QED
        BY <4>1, CountsUp
    <3>2. CASE d <= CountIn(list, pattern, k - 1)
      <4>1. d \in 1 .. CountIn(list, pattern, k - 1)
        BY <3>1, <3>2
      <4>2. PICK r \in 1 .. k - 1 : list[r] = pattern /\ CountIn(list, pattern, r) = d
        BY <1>2, <4>1
      <4> QED
        BY <4>2
    <3>3. CASE d > CountIn(list, pattern, k - 1)
      <4>1. list[k] = pattern /\ d = CountIn(list, pattern, k)
        BY <3>1, <3>3
      <4> QED
        BY <4>1
    <3> QED
      BY <3>1, <3>2, <3>3
  <2> QED
    BY <2>1
<1>3. n \in T
  <2>1. \A k \in 0 .. n : k \in T
    <3> HIDE DEF T
    <3> QED
      BY <1>1, <1>2, Climb
  <2> QED
    BY <2>1
<1> QED
  BY <1>3

LEMMA CountsGrow ==
    ASSUME NEW list, NEW pattern, NEW n \in Nat, NEW r \in 0 .. n, NEW q \in 0 .. n, r <= q
    PROVE  CountIn(list, pattern, r) <= CountIn(list, pattern, q)
<1> DEFINE T == {k \in 0 .. n : r <= k => CountIn(list, pattern, r) <= CountIn(list, pattern, k)}
<1>1. 0 \in T
  <2>1. CountIn(list, pattern, 0) = 0
    BY CountsUp
  <2>2. r <= 0 => r = 0
    OBVIOUS
  <2> QED
    BY <2>1, <2>2
<1>2. ASSUME NEW k \in 1 .. n, k - 1 \in T PROVE k \in T
  <2>1. /\ CountIn(list, pattern, r) \in Nat /\ CountIn(list, pattern, k - 1) \in Nat
        /\ CountIn(list, pattern, k) >= CountIn(list, pattern, k - 1) /\ CountIn(list, pattern, k) \in Nat
    <3>1. k - 1 \in Nat /\ k \in Nat /\ k # 0 /\ r \in Nat
      OBVIOUS
    <3>2. \/ CountIn(list, pattern, k) = CountIn(list, pattern, k - 1) + 1
          \/ CountIn(list, pattern, k) = CountIn(list, pattern, k - 1)
      BY <3>1, CountsUp
    <3>3. CountIn(list, pattern, r) \in Nat /\ CountIn(list, pattern, k - 1) \in Nat
          /\ CountIn(list, pattern, k) \in Nat
      BY <3>1, CountsUp
    <3> QED
      BY <3>2, <3>3
  <2>2. CASE r = k
    BY <2>1, <2>2
  <2>3. CASE r # k
    BY <1>2, <2>1, <2>3
  <2> QED
    BY <2>2, <2>3
<1>3. \A k \in 0 .. n : k \in T
  <2> HIDE DEF T
  <2> QED
    BY <1>1, <1>2, Climb
<1> QED
  BY <1>3

\* Lists that hold equal copies of each pattern: a place in one has its place
\* in the other.
SamePatterns(list, other) == \A pattern \in Patterns : Copies(list, pattern) = Copies(other, pattern)
Twins(list, w, other, r) ==
    other[r] = list[w] /\ CountIn(other, list[w], r) = CountIn(list, list[w], w)

LEMMA PlacesPair ==
    ASSUME NEW list \in Seq(Patterns), NEW other \in Seq(Patterns), SamePatterns(list, other), NEW w \in DOMAIN list
    PROVE  \E r \in DOMAIN other : Twins(list, w, other, r)
<1> DEFINE pattern == list[w]
           c == CountIn(list, pattern, w)
<1>1. /\ Len(list) \in Nat /\ w \in 1 .. Len(list) /\ pattern \in Patterns
      /\ Len(other) \in Nat /\ DOMAIN other = 1 .. Len(other) /\ DOMAIN list = 1 .. Len(list)
  OBVIOUS
<1>2. w \in 0 .. Len(list) /\ w - 1 \in 0 .. Len(list) /\ Len(list) \in 0 .. Len(list) /\ w <= Len(list)
  BY <1>1
<1>3. c \in Nat /\ c >= 1 /\ CountIn(list, pattern, Len(list)) \in Nat
  <2>1. w \in Nat /\ w - 1 \in Nat /\ w # 0 /\ Len(list) \in Nat
    BY <1>1
  <2>2. CountIn(list, pattern, w) = CountIn(list, pattern, w - 1) + 1
    BY <2>1, CountsUp
  <2>3. CountIn(list, pattern, w - 1) \in Nat /\ CountIn(list, pattern, Len(list)) \in Nat
    BY <2>1, CountsUp
  <2> QED
    BY <2>2, <2>3
<1>4. c <= CountIn(list, pattern, Len(list))
  BY <1>1, <1>2, CountsGrow
<1>5. CountIn(list, pattern, Len(list)) = CountIn(other, pattern, Len(other))
  BY <1>1 DEF SamePatterns, Copies, CountIn
<1> HIDE DEF c
<1>6. c \in 1 .. CountIn(other, pattern, Len(other))
  BY <1>3, <1>4, <1>5
<1>7. PICK r \in 1 .. Len(other) : other[r] = pattern /\ CountIn(other, pattern, r) = c
  BY <1>1, <1>6, PlaceOfCopy
<1> QED
  BY <1>1, <1>7 DEF Twins, c

LEMMA TwinsAreOne ==
    ASSUME NEW list, NEW w, NEW other \in Seq(Patterns), NEW r \in DOMAIN other, NEW q \in DOMAIN other,
           Twins(list, w, other, r), Twins(list, w, other, q)
    PROVE  r = q
<1>1. Len(other) \in Nat /\ r \in 1 .. Len(other) /\ q \in 1 .. Len(other)
  OBVIOUS
<1>2. ASSUME NEW x \in 1 .. Len(other), NEW y \in 1 .. Len(other), x < y, Twins(list, w, other, x), Twins(list, w, other, y)
      PROVE  FALSE
  <2>1. x \in 0 .. Len(other) /\ y - 1 \in 0 .. Len(other) /\ x <= y - 1 /\ y \in 0 .. Len(other)
    BY <1>1, <1>2
  <2>2. CountIn(other, list[w], x) <= CountIn(other, list[w], y - 1)
    BY <1>1, <2>1, CountsGrow
  <2>3. CountIn(other, list[w], y) = CountIn(other, list[w], y - 1) + 1
        /\ CountIn(other, list[w], y - 1) \in Nat
    <3>1. y \in Nat /\ y - 1 \in Nat /\ y # 0 /\ other[y] = list[w]
      BY <1>2 DEF Twins
    <3> QED
      BY <3>1, CountsUp
  <2> QED
    BY <1>2, <2>2, <2>3 DEF Twins
<1> QED
  BY <1>1, <1>2

LEMMA SlotsPair ==
    ASSUME NEW patterns \in Seq(Patterns), NEW list \in Seq(Patterns), SamePatterns(patterns, list)
    PROVE  /\ \A w \in DOMAIN patterns : /\ SlotIn(patterns, list, w) \in DOMAIN list
                                         /\ list[SlotIn(patterns, list, w)] = patterns[w]
           /\ \A r \in DOMAIN list : \E w \in DOMAIN patterns :
                  SlotIn(patterns, list, w) = r /\ patterns[w] = list[r]
<1>1. \A w : SlotIn(patterns, list, w) = CHOOSE r \in DOMAIN list : Twins(patterns, w, list, r)
  BY DEF SlotIn, Twins, CountIn
<1>2. ASSUME NEW w \in DOMAIN patterns
      PROVE  SlotIn(patterns, list, w) \in DOMAIN list /\ Twins(patterns, w, list, SlotIn(patterns, list, w))
  BY <1>1, PlacesPair
<1>3. ASSUME NEW r \in DOMAIN list
      PROVE  \E w \in DOMAIN patterns : SlotIn(patterns, list, w) = r /\ patterns[w] = list[r]
  <2>1. SamePatterns(list, patterns)
    BY DEF SamePatterns
  <2>2. PICK w \in DOMAIN patterns : Twins(list, r, patterns, w)
    BY <2>1, PlacesPair
  <2>3. Twins(patterns, w, list, r) /\ patterns[w] = list[r]
    BY <2>2 DEF Twins
  <2> QED
    BY <1>2, <2>3, TwinsAreOne
<1> QED
  BY <1>2, <1>3 DEF Twins

-----------------------------------------------------------------------------
(* The records of a text                                                   *)

RecordOf(m) == [offset |-> m.offset, pattern |-> m.pattern]
RecordsOf(text, list) == {RecordOf(m) : m \in ScanOf(text, list)}

\* What a scan finds, line by line.
LEMMA InScan ==
    ASSUME NEW text \in Seq(Line), NEW list
    PROVE  /\ \A m \in ScanOf(text, list) :
                  /\ m = [offset |-> m.offset, pattern |-> m.pattern, number |-> m.number]
                  /\ m.number \in 1 .. Len(text) /\ m.offset = StartOf(text, m.number) /\ m.offset \in Nat
                  /\ m.pattern \in DOMAIN list /\ list[m.pattern] \in text[m.number].pats
           /\ \A i \in 1 .. Len(text) : \A p \in DOMAIN list : list[p] \in text[i].pats =>
                  [offset |-> StartOf(text, i), pattern |-> p, number |-> i] \in ScanOf(text, list)
<1>1. DOMAIN text = 1 .. Len(text)
  BY OfLines
<1>2. ASSUME NEW m \in ScanOf(text, list)
      PROVE  \E i \in 1 .. Len(text) : \E p \in DOMAIN list :
                 list[p] \in text[i].pats /\ m = [offset |-> StartOf(text, i), pattern |-> p, number |-> i]
  BY <1>1 DEF ScanOf
<1>3. ASSUME NEW i \in 1 .. Len(text), NEW p \in DOMAIN list, list[p] \in text[i].pats
      PROVE  [offset |-> StartOf(text, i), pattern |-> p, number |-> i] \in ScanOf(text, list)
  BY <1>1, <1>3 DEF ScanOf
<1>4. \A i \in 1 .. Len(text) : StartOf(text, i) \in Nat
  BY HoldsItsStart
<1> QED
  BY <1>2, <1>3, <1>4

\* The records of an entry, put in the reader's order, are what a scan for
\* the reader's list records.
LEMMA ReaderOrder ==
    ASSUME NEW text \in Seq(Line), NEW patterns \in Seq(Patterns), NEW list \in Seq(Patterns),
           SamePatterns(patterns, list)
    PROVE  toReaderPatternOrder(patterns, RecordsOf(text, patterns), list) = RecordsOf(text, list)
<1> DEFINE Slot(w) == SlotIn(patterns, list, w)
           Moved(m) == [m EXCEPT !.pattern = Slot(m.pattern)]
<1>1. toReaderPatternOrder(patterns, RecordsOf(text, patterns), list) = {Moved(r) : r \in RecordsOf(text, patterns)}
  BY DEF toReaderPatternOrder
<1>2. ASSUME NEW m \in ScanOf(text, patterns) PROVE Moved(RecordOf(m)) \in RecordsOf(text, list)
  <2> DEFINE i == m.number
             p == Slot(m.pattern)
             found == [offset |-> StartOf(text, i), pattern |-> p, number |-> i]
  <2>1. /\ i \in 1 .. Len(text) /\ m.offset = StartOf(text, i)
        /\ m.pattern \in DOMAIN patterns /\ patterns[m.pattern] \in text[i].pats
    BY InScan
  <2>2. p \in DOMAIN list /\ list[p] = patterns[m.pattern]
    BY <2>1, SlotsPair
  <2> HIDE DEF i, Slot
  <2>3. found \in ScanOf(text, list)
    BY <2>1, <2>2, InScan
  <2>4. Moved(RecordOf(m)) = RecordOf(found)
    BY <2>1 DEF RecordOf
  <2> QED
    BY <2>3, <2>4 DEF RecordsOf
<1>3. ASSUME NEW m \in ScanOf(text, list) PROVE \E n \in ScanOf(text, patterns) : RecordOf(m) = Moved(RecordOf(n))
  <2> DEFINE i == m.number
             p == m.pattern
  <2>1. /\ i \in 1 .. Len(text) /\ m.offset = StartOf(text, i)
        /\ p \in DOMAIN list /\ list[p] \in text[i].pats
    BY InScan
  <2>2. PICK w \in DOMAIN patterns : Slot(w) = p /\ patterns[w] = list[p]
    BY <2>1, SlotsPair
  <2> DEFINE found == [offset |-> StartOf(text, i), pattern |-> w, number |-> i]
  <2> HIDE DEF i, p, Slot
  <2>3. found \in ScanOf(text, patterns)
    BY <2>1, <2>2, InScan
  <2>4. Moved(RecordOf(found)) = RecordOf(m)
    BY <2>1, <2>2 DEF RecordOf, p
  <2> QED
    BY <2>3, <2>4
<1> HIDE DEF Moved
<1> QED
  BY <1>1, <1>2, <1>3 DEF RecordsOf
-----------------------------------------------------------------------------
(* The pass over a file                                                    *)

Record == [offset : Nat, pattern : Nat]
Match == [offset : Nat, pattern : Nat, number : Nat]
PassState(records) ==
    [owed : SUBSET records, matches : SUBSET Match, after : Nat, emitted : SUBSET Nat, ring : SUBSET Nat,
     last : Nat, number : Nat, over : BOOLEAN]

Stops(s) == s.over \/ (s.owed = {} /\ s.after = 0) \/ (s.last > 0 /\ s.number > s.last)
Here(s, line) == {m \in s.owed : m.offset < line.end}
Numbered(s, line) == {[offset |-> m.offset, pattern |-> m.pattern, number |-> s.number] : m \in Here(s, line)}
Capped(job, s, line) ==
    s.last = 0 /\ job.cap > 0 /\ Here(s, line) # {} /\ Cardinality(s.matches \union Numbered(s, line)) >= job.cap
AfterIs(job, s, line) ==
    IF Here(s, line) # {} THEN IF s.after - 1 >= job.after THEN s.after - 1 ELSE job.after
    ELSE IF s.after > 0 THEN s.after - 1 ELSE 0

LEMMA OfSearchJob ==
    ASSUME NEW job \in SearchJob
    PROVE  /\ job.kind = "search" /\ job.list \in Seq(Patterns)
           /\ job.cap \in Nat /\ job.before \in Nat /\ job.after \in Nat
BY DEF SearchJob

LEMMA OfPassState ==
    ASSUME NEW records, NEW s \in PassState(records)
    PROVE  /\ s.owed \subseteq records /\ s.matches \subseteq Match /\ s.after \in Nat
           /\ s.emitted \subseteq Nat /\ s.ring \subseteq Nat /\ s.last \in Nat /\ s.number \in Nat
           /\ s.over \in BOOLEAN
BY DEF PassState

LEMMA Halted ==
    ASSUME NEW records, NEW s \in PassState(records)
    PROVE  LET t == [s EXCEPT !.over = TRUE]
           IN  /\ t \in PassState(records)
               /\ t.owed = s.owed /\ t.matches = s.matches /\ t.after = s.after
               /\ t.emitted = s.emitted /\ t.ring = s.ring /\ t.last = s.last
               /\ t.number = s.number /\ t.over
BY DEF PassState

LEMMA IsPassState ==
    ASSUME NEW records, NEW owed \in SUBSET records, NEW matches \in SUBSET Match, NEW after \in Nat,
           NEW emitted \in SUBSET Nat, NEW ring \in SUBSET Nat, NEW last \in Nat, NEW number \in Nat
    PROVE  [owed |-> owed, matches |-> matches, after |-> after, emitted |-> emitted, ring |-> ring,
            last |-> last, number |-> number, over |-> FALSE] \in PassState(records)
BY DEF PassState

\* A line of the pass, part by part.
LEMMA OneLineRead ==
    ASSUME NEW records, records \subseteq Record, NEW job \in SearchJob, NEW s \in PassState(records), NEW line
    PROVE  LET t == PassLine(job, s, line)
           IN  /\ t \in PassState(records)
               /\ Stops(s) => /\ t.owed = s.owed /\ t.matches = s.matches /\ t.after = s.after
                              /\ t.emitted = s.emitted /\ t.ring = s.ring /\ t.last = s.last
                              /\ t.number = s.number /\ t.over
               /\ ~Stops(s) =>
                    /\ t.owed = s.owed \ Here(s, line)
                    /\ t.matches = s.matches \union Numbered(s, line)
                    /\ t.after = AfterIs(job, s, line)
                    /\ t.emitted = s.emitted \union (IF s.after > 0 THEN {s.number} ELSE {})
                                   \union (IF Here(s, line) = {} THEN {} ELSE s.ring \union {s.number})
                    /\ t.ring = {n \in s.ring \union {s.number} : n > s.number - job.before}
                    /\ t.last = IF Capped(job, s, line) THEN s.number + job.after ELSE s.last
                    /\ t.number = s.number + 1
                    /\ ~t.over
<1> DEFINE here == Here(s, line)
           matches == s.matches \union Numbered(s, line)
           after == AfterIs(job, s, line)
           emitted == s.emitted \union (IF s.after > 0 THEN {s.number} ELSE {})
                      \union (IF here = {} THEN {} ELSE s.ring \union {s.number})
           ring == {n \in s.ring \union {s.number} : n > s.number - job.before}
           last == IF Capped(job, s, line) THEN s.number + job.after ELSE s.last
           t == PassLine(job, s, line)
<1>1. job.cap \in Nat /\ job.before \in Nat /\ job.after \in Nat
  BY OfSearchJob
<1>2. /\ s.owed \subseteq records /\ s.matches \subseteq Match /\ s.after \in Nat /\ s.last \in Nat
      /\ s.emitted \subseteq Nat /\ s.ring \subseteq Nat /\ s.number \in Nat /\ s.over \in BOOLEAN
  BY OfPassState
<1>3. ASSUME Stops(s)
      PROVE  /\ t \in PassState(records)
             /\ t.owed = s.owed /\ t.matches = s.matches /\ t.after = s.after
             /\ t.emitted = s.emitted /\ t.ring = s.ring /\ t.last = s.last
             /\ t.number = s.number /\ t.over
  <2>1. t = [s EXCEPT !.over = TRUE]
    BY <1>3 DEF PassLine, Stops
  <2> QED
    BY <2>1, Halted
<1>4. ASSUME ~Stops(s)
      PROVE  t = [owed |-> s.owed \ here, matches |-> matches, after |-> after, emitted |-> emitted,
                  ring |-> ring, last |-> last, number |-> s.number + 1, over |-> FALSE]
  <2> DEFINE rest == IF here # {} THEN Max({s.after - 1, job.after}) ELSE IF s.after > 0 THEN s.after - 1 ELSE 0
  <2>1. rest = after
    <3>1. s.after - 1 \in Int /\ job.after \in Int
      BY <1>1, <1>2
    <3>2. Max({s.after - 1, job.after}) = IF s.after - 1 >= job.after THEN s.after - 1 ELSE job.after
      BY <3>1, OfTwo
    <3> QED
      BY <3>2 DEF AfterIs
  <2>2. t = [owed |-> s.owed \ here, matches |-> matches, after |-> rest, emitted |-> emitted,
             ring |-> ring, last |-> last, number |-> s.number + 1, over |-> FALSE]
    BY <1>4 DEF PassLine, Stops, Here, Numbered, Capped
  <2> HIDE DEF rest, after
  <2> QED
    BY <2>1, <2>2
<1>5. here \subseteq records
  BY <1>2 DEF Here
<1>6. matches \subseteq Match
  <2>1. ASSUME NEW m \in here PROVE [offset |-> m.offset, pattern |-> m.pattern, number |-> s.number] \in Match
    <3>1. m \in Record
      BY <1>5
    <3> QED
      BY <1>2, <3>1 DEF Record, Match
  <2> QED
    BY <1>2, <2>1 DEF Numbered
<1>7. after \in Nat
  BY <1>1, <1>2 DEF AfterIs
<1>8. emitted \subseteq Nat /\ ring \subseteq Nat /\ s.number + 1 \in Nat
  BY <1>2
<1>9. last \in Nat
  BY <1>1, <1>2
<1> HIDE DEF here, matches, after, emitted, ring, last, t
<1>10. t \in PassState(records)
  <2>1. CASE Stops(s)
    BY <1>3, <2>1
  <2>2. CASE ~Stops(s)
    <3>1. /\ s.owed \ here \in SUBSET records /\ matches \in SUBSET Match
          /\ emitted \in SUBSET Nat /\ ring \in SUBSET Nat
      BY <1>2, <1>6, <1>8
    <3>2. [owed |-> s.owed \ here, matches |-> matches, after |-> after, emitted |-> emitted,
           ring |-> ring, last |-> last, number |-> s.number + 1, over |-> FALSE] \in PassState(records)
      BY <1>7, <1>8, <1>9, <3>1, IsPassState
    <3> QED
      BY <1>4, <2>2, <3>2
  <2> QED
    BY <2>1, <2>2
<1>11. Stops(s) => /\ t.owed = s.owed /\ t.matches = s.matches /\ t.after = s.after
                   /\ t.emitted = s.emitted /\ t.ring = s.ring /\ t.last = s.last
                   /\ t.number = s.number /\ t.over
  BY <1>3
<1>12. ~Stops(s) => /\ t.owed = s.owed \ here /\ t.matches = matches /\ t.after = after
                    /\ t.emitted = emitted /\ t.ring = ring /\ t.last = last
                    /\ t.number = s.number + 1 /\ ~t.over
  BY <1>4
<1> QED
  BY <1>10, <1>11, <1>12 DEF here, matches, after, emitted, ring, last, t
\* What a pass may be given: a text that goes on from the one the records
\* are of, and a start that leaves room for their context.
PassFits(known, text, job, start) ==
    /\ known \in Seq(Line) /\ text \in Seq(Line) /\ Agree(known, text)
    /\ job \in SearchJob /\ GoodStart(start, text)
    /\ start.line = 1 \/ \A m \in ScanOf(known, job.list) : start.line + job.before <= m.number

Before(found, n) == {m \in found : m.number < n}
Around(found, job, n, i) == \E m \in Before(found, n) : m.number - job.before <= i /\ i <= m.number + job.after

\* The state of a pass that starts at line from and reads line s.number next.
PassTrue(s, found, job, from) ==
    /\ from <= s.number
    /\ s.owed = {RecordOf(m) : m \in found \ Before(found, s.number)}
    /\ s.matches = Before(found, s.number)
    /\ s.emitted = {i \in from .. s.number - 1 : Around(found, job, s.number, i)}
    /\ s.ring = {i \in from .. s.number - 1 : i > s.number - 1 - job.before}
    /\ \A m \in Before(found, s.number) : m.number + job.after <= s.number - 1 + s.after
    /\ s.after > 0 => \E m \in Before(found, s.number) : m.number + job.after = s.number - 1 + s.after
    /\ s.last > 0 => \E h \in Nat : /\ h < s.number /\ s.last = h + job.after /\ job.cap > 0
                                    /\ Cardinality(Before(found, h + 1)) >= job.cap
    /\ s.over => (s.owed = {} /\ s.after = 0) \/ (s.last > 0 /\ s.number > s.last)

LEMMA FoundInKnown ==
    ASSUME NEW known, NEW text, NEW job, NEW start, PassFits(known, text, job, start)
    PROVE  \A m \in ScanOf(known, job.list) :
               /\ m = [offset |-> m.offset, pattern |-> m.pattern, number |-> m.number]
               /\ m.number \in 1 .. Len(known) /\ m.number \in 1 .. Len(text) /\ m.number \in Nat
               /\ m.offset = StartOf(known, m.number) /\ m.offset = StartOf(text, m.number)
               /\ m.offset \in Nat /\ m.pattern \in Nat
<1>1. known \in Seq(Line) /\ text \in Seq(Line) /\ Agree(known, text) /\ job.list \in Seq(Patterns)
      /\ Len(known) \in Nat /\ Len(text) \in Nat /\ Len(known) <= Len(text)
  BY OfSearchJob, OfLines DEF PassFits, Agree
<1>2. SUFFICES ASSUME NEW m \in ScanOf(known, job.list)
               PROVE  /\ m = [offset |-> m.offset, pattern |-> m.pattern, number |-> m.number]
                      /\ m.number \in 1 .. Len(known) /\ m.number \in 1 .. Len(text) /\ m.number \in Nat
                      /\ m.offset = StartOf(known, m.number) /\ m.offset = StartOf(text, m.number)
                      /\ m.offset \in Nat /\ m.pattern \in Nat
  OBVIOUS
<1>3. /\ m = [offset |-> m.offset, pattern |-> m.pattern, number |-> m.number]
      /\ m.number \in 1 .. Len(known) /\ m.offset = StartOf(known, m.number) /\ m.offset \in Nat
      /\ m.pattern \in DOMAIN job.list
  BY <1>1, InScan
<1>4. m.number - 1 \in 0 .. Len(known) /\ m.number \in 1 .. Len(text) /\ m.number \in Nat
  BY <1>1, <1>3
<1>5. m.pattern \in Nat
  BY <1>1, <1>3
<1>6. StartOf(text, m.number) = StartOf(known, m.number)
  BY <1>1, <1>4, EndsAgree DEF StartOf
<1> QED
  BY <1>3, <1>4, <1>5, <1>6

\* One line keeps the state true.
LEMMA LineKeepsPass ==
    ASSUME NEW known, NEW text, NEW job, NEW start, PassFits(known, text, job, start),
           NEW s \in PassState(RecordsOf(known, job.list)),
           PassTrue(s, ScanOf(known, job.list), job, start.line),
           s.over \/ s.number \in 1 .. Len(text), NEW line, line.end = EndOf(text, s.number)
    PROVE  LET t == PassLine(job, s, line)
           IN  /\ t \in PassState(RecordsOf(known, job.list))
               /\ PassTrue(t, ScanOf(known, job.list), job, start.line)
               /\ t.over \/ t.number = s.number + 1
               /\ t.number <= s.number + 1
<1> DEFINE found == ScanOf(known, job.list)
           records == RecordsOf(known, job.list)
           from == start.line
           N == s.number
           t == PassLine(job, s, line)
           here == Here(s, line)
           At == {m \in found : m.number = N}
<1>1. \A m \in found :
          /\ m = [offset |-> m.offset, pattern |-> m.pattern, number |-> m.number]
          /\ m.number \in 1 .. Len(known) /\ m.number \in 1 .. Len(text) /\ m.number \in Nat
          /\ m.offset = StartOf(known, m.number) /\ m.offset = StartOf(text, m.number)
          /\ m.offset \in Nat /\ m.pattern \in Nat
  BY FoundInKnown
<1>2. /\ known \in Seq(Line) /\ text \in Seq(Line) /\ job \in SearchJob /\ Len(text) \in Nat
      /\ job.cap \in Nat /\ job.before \in Nat /\ job.after \in Nat /\ from \in Nat
  BY OfSearchJob, OfLines DEF PassFits, GoodStart
<1>3. records \subseteq Record
  BY <1>1 DEF RecordsOf, RecordOf, Record
<1>4. /\ s.after \in Nat /\ s.last \in Nat /\ N \in Nat /\ s.over \in BOOLEAN
  BY OfPassState
<1>5. /\ t \in PassState(records)
      /\ Stops(s) => /\ t.owed = s.owed /\ t.matches = s.matches /\ t.after = s.after
                     /\ t.emitted = s.emitted /\ t.ring = s.ring /\ t.last = s.last
                     /\ t.number = N /\ t.over
      /\ ~Stops(s) =>
           /\ t.owed = s.owed \ here
           /\ t.matches = s.matches \union Numbered(s, line)
           /\ t.after = AfterIs(job, s, line)
           /\ t.emitted = s.emitted \union (IF s.after > 0 THEN {N} ELSE {})
                          \union (IF here = {} THEN {} ELSE s.ring \union {N})
           /\ t.ring = {n \in s.ring \union {N} : n > N - job.before}
           /\ t.last = IF Capped(job, s, line) THEN N + job.after ELSE s.last
           /\ t.number = N + 1
           /\ ~t.over
  <2>1. s \in PassState(records)
    OBVIOUS
  <2> HIDE DEF records
  <2> QED
    BY <1>2, <1>3, <2>1, OneLineRead
<1> HIDE DEF found, records, from, t
<1>6. PassTrue(s, found, job, from)
  BY DEF found, from
<1>7. ASSUME Stops(s) PROVE PassTrue(t, found, job, from) /\ t.over /\ t.number <= N + 1
  <2>1. (s.owed = {} /\ s.after = 0) \/ (s.last > 0 /\ N > s.last)
    BY <1>6, <1>7 DEF Stops, PassTrue
  <2> QED
    <3>1. PassTrue(t, found, job, from) /\ t.over
      BY <1>5, <1>6, <1>7, <2>1 DEF PassTrue
    <3>2. t.number = N /\ N <= N + 1
      BY <1>4, <1>5, <1>7
    <3> QED
      BY <3>1, <3>2
<1>8. ASSUME ~Stops(s) PROVE PassTrue(t, found, job, from) /\ t.number = N + 1
  <2>1. N \in 1 .. Len(text) /\ ~s.over
    BY <1>8 DEF Stops
  <2>2. Before(found, N + 1) = Before(found, N) \union At
    BY <1>1, <1>4 DEF Before
  <2>3. ASSUME NEW m \in found \ Before(found, N) PROVE m.offset < line.end <=> m.number = N
    <3>1. m.number >= N /\ m.number \in 1 .. Len(text) /\ m.offset = StartOf(text, m.number) /\ m.number \in Nat
      BY <1>1, <1>4, <2>3 DEF Before
    <3>2. m.offset < line.end <=> m.number <= N
      BY <1>2, <2>1, <3>1, HoldsItsStart
    <3> QED
      BY <1>4, <3>1, <3>2
  <2>4. At \subseteq found \ Before(found, N)
    BY <1>4 DEF Before
  <2>5. here = {RecordOf(m) : m \in At}
    <3>1. s.owed = {RecordOf(m) : m \in found \ Before(found, N)}
      BY <1>6 DEF PassTrue
    <3>2. \A m : RecordOf(m).offset = m.offset
      BY DEF RecordOf
    <3> HIDE DEF N
    <3> QED
      BY <2>3, <2>4, <3>1, <3>2 DEF Here
  <2>6. s.owed \ here = {RecordOf(m) : m \in found \ Before(found, N + 1)}
    <3>1. s.owed = {RecordOf(m) : m \in found \ Before(found, N)}
      BY <1>6 DEF PassTrue
    <3>2. \A m \in found \ Before(found, N) : RecordOf(m) \in here <=> m.number = N
      <4>1. \A m : RecordOf(m).offset = m.offset
        BY DEF RecordOf
      <4> QED
        BY <2>3, <3>1, <4>1 DEF Here
    <3>3. found \ Before(found, N + 1) = {m \in found \ Before(found, N) : m.number # N}
      BY <2>2, <2>4 DEF Before
    <3> HIDE DEF here, N, At
    <3> QED
      BY <3>1, <3>2, <3>3
  <2>7. Numbered(s, line) = At
    <3>1. \A m \in At : m = [offset |-> RecordOf(m).offset, pattern |-> RecordOf(m).pattern, number |-> N]
      BY <1>1 DEF RecordOf
    <3>2. Numbered(s, line) = {[offset |-> r.offset, pattern |-> r.pattern, number |-> N] : r \in here}
      BY DEF Numbered
    <3> HIDE DEF here, At, N
    <3> QED
      BY <2>5, <3>1, <3>2
  <2>8. (here = {}) <=> (At = {})
    BY <2>5
  <2> HIDE DEF here, At
  <2>9. t.matches = Before(found, N + 1)
    BY <1>5, <1>6, <1>8, <2>2, <2>7 DEF PassTrue
  <2>10. t.owed = {RecordOf(m) : m \in found \ Before(found, t.number)}
    BY <1>5, <1>8, <2>6
  <2>11. t.number = N + 1 /\ from <= N + 1 /\ ~t.over /\ from <= N
    BY <1>2, <1>4, <1>5, <1>6, <1>8 DEF PassTrue
  <2>12. t.ring = {i \in from .. N : i > N - job.before}
    <3>1. s.ring = {i \in from .. N - 1 : i > N - 1 - job.before}
      BY <1>6 DEF PassTrue
    <3>2. t.ring = {n \in s.ring \union {N} : n > N - job.before}
      BY <1>5, <1>8
    <3> HIDE DEF N
    <3> QED
      BY <1>2, <1>4, <2>11, <3>1, <3>2
  <2>13. t.after \in Nat /\ t.after = AfterIs(job, s, line)
    BY <1>5, <1>8, OfPassState
  <2>14. \A m \in Before(found, N + 1) : m.number + job.after <= N + t.after
    <3>1. ASSUME NEW m \in Before(found, N) PROVE m.number + job.after <= N + t.after
      <4>1. m.number + job.after <= N - 1 + s.after /\ m.number \in Nat
        BY <1>1, <1>6, <3>1 DEF PassTrue, Before
      <4>2. t.after >= s.after - 1
        BY <1>2, <1>4, <2>13 DEF AfterIs
      <4> HIDE DEF N
      <4> QED
        BY <1>2, <1>4, <2>13, <4>1, <4>2
    <3>2. ASSUME NEW m \in At PROVE m.number + job.after <= N + t.after
      <4>1. m.number = N /\ here # {}
        BY <2>8, <3>2 DEF At
      <4>2. t.after >= job.after
        BY <1>2, <1>4, <2>13, <4>1 DEF AfterIs, here
      <4> HIDE DEF N
      <4> QED
        BY <1>2, <1>4, <2>13, <4>1, <4>2
    <3> QED
      BY <2>2, <3>1, <3>2
  <2>15. ASSUME t.after > 0 PROVE \E m \in Before(found, N + 1) : m.number + job.after = N + t.after
    <3>1. CASE here # {} /\ ~(s.after - 1 >= job.after)
      <4>1. PICK m \in At : TRUE
        BY <2>8, <3>1
      <4>2. m.number = N /\ t.after = job.after
        BY <2>13, <3>1, <4>1 DEF AfterIs, At, here
      <4> QED
        BY <2>2, <4>1, <4>2
    <3>2. CASE ~(here # {} /\ ~(s.after - 1 >= job.after))
      <4>1. s.after > 0 /\ t.after = s.after - 1
        BY <1>2, <1>4, <2>13, <2>15, <3>2 DEF AfterIs, here
      <4>2. PICK m \in Before(found, N) : m.number + job.after = N - 1 + s.after
        BY <1>6, <4>1 DEF PassTrue
      <4>3. m.number + job.after = N + t.after
        <5> HIDE DEF N
        <5> QED
          BY <1>4, <4>1, <4>2 DEF N
      <4> QED
        BY <2>2, <4>2, <4>3
    <3> QED
      BY <3>1, <3>2
  <2>16. t.emitted = {i \in from .. N : Around(found, job, N + 1, i)}
    <3> DEFINE trailing == IF s.after > 0 THEN {N} ELSE {}
               leading == IF here = {} THEN {} ELSE s.ring \union {N}
               E == {i \in from .. N : Around(found, job, N + 1, i)}
    <3>1. t.emitted = s.emitted \union trailing \union leading
      BY <1>5, <1>8 DEF here
    <3>2. s.emitted = {i \in from .. N - 1 : Around(found, job, N, i)}
      BY <1>6 DEF PassTrue
    <3>3. s.ring = {i \in from .. N - 1 : i > N - 1 - job.before}
      BY <1>6 DEF PassTrue
    <3>4. s.emitted \subseteq E
      BY <1>2, <1>4, <2>2, <3>2 DEF Around
    <3>5. trailing \subseteq E
      <4>1. ASSUME s.after > 0 PROVE N \in E
        <5>1. PICK m \in Before(found, N) : m.number + job.after = N - 1 + s.after
          BY <1>6, <4>1 DEF PassTrue
        <5>2. m.number \in Nat /\ m.number < N
          BY <1>1 DEF Before
        <5>3. m.number - job.before <= N /\ N <= m.number + job.after
          <6> HIDE DEF N
          <6> QED
            BY <1>2, <1>4, <4>1, <5>1, <5>2 DEF N
        <5> QED
          BY <1>2, <1>4, <2>2, <2>11, <5>3 DEF Around
      <4> QED
        BY <4>1
    <3>6. leading \subseteq E
      <4>1. ASSUME here # {}, NEW i \in s.ring \union {N} PROVE i \in E
        <5>1. PICK m \in At : m.number = N
          BY <2>8, <4>1 DEF At
        <5>2. i \in from .. N /\ N - job.before <= i /\ i <= N + job.after
          <6> HIDE DEF N
          <6> QED
            BY <1>2, <1>4, <2>11, <3>3, <4>1 DEF N
        <5> QED
          BY <2>2, <5>1, <5>2 DEF Around
      <4> QED
        BY <4>1
    <3>7. ASSUME NEW i \in E PROVE i \in s.emitted \union trailing \union leading
      <4>1. PICK m \in Before(found, N + 1) : m.number - job.before <= i /\ i <= m.number + job.after
        BY <3>7 DEF Around
      <4>2. i \in from .. N
        BY <3>7
      <4>3. CASE m \in Before(found, N) /\ i # N
        <5>1. i \in from .. N - 1
          <6> HIDE DEF N
          <6> QED
            BY <1>2, <1>4, <4>2, <4>3 DEF N
        <5> QED
          BY <3>2, <4>1, <4>3, <5>1 DEF Around
      <4>4. CASE m \in Before(found, N) /\ i = N
        <5>1. m.number + job.after <= N - 1 + s.after /\ m.number \in Nat
          BY <1>1, <1>6, <4>4 DEF PassTrue, Before
        <5>2. s.after > 0
          <6> HIDE DEF N
          <6> QED
            BY <1>2, <1>4, <4>1, <4>4, <5>1 DEF N
        <5> QED
          BY <4>4, <5>2
      <4>5. CASE m \in At
        <5>1. m.number = N /\ here # {}
          BY <2>8, <4>5 DEF At
        <5>2. i = N \/ i \in s.ring
          <6> HIDE DEF N
          <6> QED
            BY <1>2, <1>4, <3>3, <4>1, <4>2, <5>1 DEF N
        <5> QED
          BY <5>1, <5>2
      <4> QED
        BY <2>2, <4>1, <4>3, <4>4, <4>5
    <3> QED
      BY <3>1, <3>4, <3>5, <3>6, <3>7
  <2>17. ASSUME t.last > 0
         PROVE  \E h \in Nat : /\ h < N + 1 /\ t.last = h + job.after /\ job.cap > 0
                               /\ Cardinality(Before(found, h + 1)) >= job.cap
    <3>1. CASE Capped(job, s, line)
      <4>1. job.cap > 0 /\ Cardinality(s.matches \union Numbered(s, line)) >= job.cap /\ t.last = N + job.after
        BY <1>5, <1>8, <3>1 DEF Capped
      <4>2. Cardinality(Before(found, N + 1)) >= job.cap
        BY <1>5, <1>8, <2>9, <4>1
      <4> QED
        BY <1>4, <4>1, <4>2
    <3>2. CASE ~Capped(job, s, line)
      <4>1. t.last = s.last
        BY <1>5, <1>8, <3>2
      <4>2. PICK h \in Nat : /\ h < N /\ s.last = h + job.after /\ job.cap > 0
                             /\ Cardinality(Before(found, h + 1)) >= job.cap
        BY <1>6, <2>17, <4>1 DEF PassTrue
      <4>3. h < N + 1
        BY <1>4, <4>2
      <4> QED
        BY <4>1, <4>2, <4>3
    <3> QED
      BY <3>1, <3>2
  <2>18. t.number = N + 1 /\ t.number - 1 = N
    BY <1>4, <2>11
  <2>19. /\ t.matches = Before(found, t.number)
         /\ t.emitted = {i \in from .. t.number - 1 : Around(found, job, t.number, i)}
         /\ t.ring = {i \in from .. t.number - 1 : i > t.number - 1 - job.before}
         /\ \A m \in Before(found, t.number) : m.number + job.after <= t.number - 1 + t.after
    <3> HIDE DEF N
    <3> QED
      BY <2>9, <2>12, <2>14, <2>16, <2>18
  <2>20. /\ t.after > 0 => \E m \in Before(found, t.number) : m.number + job.after = t.number - 1 + t.after
         /\ t.last > 0 => \E h \in Nat : /\ h < t.number /\ t.last = h + job.after /\ job.cap > 0
                                         /\ Cardinality(Before(found, h + 1)) >= job.cap
    <3> HIDE DEF N
    <3> QED
      BY <2>15, <2>17, <2>18
  <2>21. from <= t.number /\ ~t.over
    BY <2>11
  <2> HIDE DEF N
  <2> QED
    BY <2>10, <2>18, <2>19, <2>20, <2>21 DEF PassTrue
<1>9. N + 1 <= N + 1
  BY <1>4
<1> QED
  BY <1>5, <1>7, <1>8, <1>9 DEF found, records, from, t
LEMMA PassEnds ==
    ASSUME NEW known, NEW text, NEW job, NEW start, PassFits(known, text, job, start)
    PROVE  LET s == reconstructLines(text, start, RecordsOf(known, job.list), job)
           IN  /\ s \in PassState(RecordsOf(known, job.list))
               /\ PassTrue(s, ScanOf(known, job.list), job, start.line)
               /\ s.over \/ s.number = Len(text) + 1
               /\ s.number <= Len(text) + 1
<1> DEFINE found == ScanOf(known, job.list)
           records == RecordsOf(known, job.list)
           from == start.line
           lines == LinesFrom(text, start.offset)
           L == Len(text) - from + 1
           base == PassStart(start, records)
           go == [k \in 1 .. L |-> [s \in PassState(records) |-> PassLine(job, s, lines[k])]]
           g == Pass(lines, start, records, job)
<1>1. \A m \in found : /\ m.number \in 1 .. Len(known) /\ m.offset \in Nat /\ m.pattern \in Nat
  BY FoundInKnown
<1>2. /\ text \in Seq(Line) /\ job \in SearchJob /\ Len(text) \in Nat /\ job.before \in Nat /\ job.after \in Nat
      /\ from \in 1 .. Len(text) + 1 /\ start.offset = EndOf(text, from - 1) /\ L \in Nat
      /\ from = 1 \/ \A m \in found : from + job.before <= m.number
  <2>1. /\ text \in Seq(Line) /\ job \in SearchJob /\ from \in 1 .. Len(text) + 1
        /\ start.offset = EndOf(text, from - 1) /\ (from = 1 \/ \A m \in found : from + job.before <= m.number)
    BY DEF PassFits, GoodStart
  <2>2. Len(text) \in Nat /\ job.before \in Nat /\ job.after \in Nat
    BY <2>1, OfLines, OfSearchJob
  <2> QED
    BY <2>1, <2>2
<1>3. records \subseteq Record
  BY <1>1 DEF RecordsOf, RecordOf, Record
<1>4. lines = [k \in 1 .. L |-> [start |-> StartOf(text, from + k - 1), end |-> EndOf(text, from + k - 1),
                                 pats |-> text[from + k - 1].pats]]
  <2> HIDE DEF from
  <2> QED
    BY <1>2, LinesFromStart DEF L
<1>5. Len(lines) = L
  <2> DEFINE S == {lines[k] : k \in 1 .. L}
  <2> HIDE DEF lines, L
  <2>1. lines = [k \in 1 .. L |-> lines[k]]
    BY <1>4
  <2>2. lines \in [1 .. L -> S]
    BY <2>1
  <2> HIDE DEF S
  <2> QED
    BY <1>2, <2>2
<1>6. base \in PassState(records)
  <2>1. /\ records \in SUBSET records /\ {} \in SUBSET Match /\ 0 \in Nat /\ {} \in SUBSET Nat /\ from \in Nat
    BY <1>2
  <2>2. base = [owed |-> records, matches |-> {}, after |-> 0, emitted |-> {}, ring |-> {}, last |-> 0,
                number |-> from, over |-> FALSE]
    BY DEF PassStart
  <2> HIDE DEF records, base, from
  <2> QED
    BY <2>1, <2>2, IsPassState
<1> HIDE DEF lines, L
<1>7. go \in Steps(L, PassState(records))
  <2>1. ASSUME NEW k \in 1 .. L, NEW s \in PassState(records) PROVE PassLine(job, s, lines[k]) \in PassState(records)
    <3> HIDE DEF records
    <3> QED
      BY <1>2, <1>3, OneLineRead
  <2> HIDE DEF records
  <2> QED
    BY <2>1 DEF Steps
<1>8. PICK f : Follows(f, L, PassState(records), base, go)
  <2> HIDE DEF go, base, records
  <2> QED
    BY <1>2, <1>6, <1>7, Recursion
<1>9. ASSUME NEW k \in 1 .. L PROVE f[k] = PassLine(job, f[k - 1], lines[k])
  <2>1. k - 1 \in 0 .. L
    BY <1>2
  <2>2. f[k - 1] \in PassState(records) /\ f[k] = go[k][f[k - 1]]
    BY <1>8, <2>1 DEF Follows
  <2> QED
    BY <2>2
<1>10. f = [k \in 0 .. L |-> IF k = 0 THEN base ELSE PassLine(job, f[k - 1], lines[k])]
  <2>1. f \in [0 .. L -> PassState(records)] /\ f[0] = base
    BY <1>8 DEF Follows
  <2> HIDE DEF base, go, records
  <2> QED
    BY <1>2, <1>9, <2>1
<1>11. g = [k \in 0 .. L |-> IF k = 0 THEN base ELSE PassLine(job, g[k - 1], lines[k])]
  <2> HIDE DEF base, records
  <2> QED
    BY <1>5, <1>10 DEF Pass, base
<1> HIDE DEF g
<1> DEFINE Good(k) == /\ g[k] \in PassState(records) /\ PassTrue(g[k], found, job, from)
                      /\ (g[k].over \/ g[k].number = from + k) /\ g[k].number <= from + k
           T == {k \in 0 .. L : Good(k)}
<1>12. 0 \in T
  <2>1. g[0] = base
    BY <1>2, <1>11
  <2>2. Before(found, from) = {}
    BY <1>1, <1>2 DEF Before
  <2>3. /\ base.owed = records /\ base.matches = {} /\ base.after = 0 /\ base.emitted = {} /\ base.ring = {}
        /\ base.last = 0 /\ base.number = from /\ base.over = FALSE
    BY DEF PassStart
  <2>4. records = {RecordOf(m) : m \in found \ Before(found, from)}
    BY <2>2 DEF RecordsOf
  <2>5. from .. from - 1 = {} /\ from \in Nat
    BY <1>2
  <2> HIDE DEF base, records, found, from
  <2>6. PassTrue(base, found, job, from)
    BY <2>2, <2>3, <2>4, <2>5 DEF PassTrue
  <2> QED
    BY <1>2, <1>6, <2>1, <2>3, <2>5, <2>6
<1>13. ASSUME NEW k \in 1 .. L, k - 1 \in T PROVE k \in T
  <2> DEFINE s == g[k - 1]
  <2>1. s \in PassState(records) /\ PassTrue(s, found, job, from) /\ (s.over \/ s.number = from + (k - 1))
        /\ s.number <= from + (k - 1) /\ s.number \in Nat
    <3>1. s \in PassState(records) /\ PassTrue(s, found, job, from) /\ (s.over \/ s.number = from + (k - 1))
          /\ s.number <= from + (k - 1)
      BY <1>13
    <3> HIDE DEF s, records
    <3> QED
      BY <3>1, OfPassState
  <2>2. g[k] = PassLine(job, s, lines[k])
    BY <1>2, <1>11
  <2> HIDE DEF s
  <2>3. CASE s.over
    <3>1. Stops(s)
      BY <2>3 DEF Stops
    <3>2. g[k] \in PassState(records) /\ g[k].over
      <4> HIDE DEF records
      <4> QED
        BY <1>2, <1>3, <2>1, <2>2, <3>1, OneLineRead
    <3>3. PassTrue(g[k], found, job, from)
      <4>1. /\ g[k].owed = s.owed /\ g[k].matches = s.matches /\ g[k].after = s.after
            /\ g[k].emitted = s.emitted /\ g[k].ring = s.ring /\ g[k].last = s.last
            /\ g[k].number = s.number
        <5> HIDE DEF records
        <5> QED
          BY <1>2, <1>3, <2>1, <2>2, <3>1, OneLineRead
      <4> HIDE DEF found, from
      <4> QED
        BY <2>1, <2>3, <4>1 DEF PassTrue
    <3>4. g[k].number = s.number
      <4> HIDE DEF records
      <4> QED
        BY <1>2, <1>3, <2>1, <2>2, <3>1, OneLineRead
    <3>5. g[k].number <= from + k
      BY <1>2, <2>1, <3>4
    <3>6. k \in 0 .. L
      BY <1>2
    <3> HIDE DEF found, records, from
    <3> QED
      BY <3>2, <3>3, <3>5, <3>6
  <2>4. CASE ~s.over
    <3>1. s.number = from + k - 1 /\ s.number \in 1 .. Len(text) /\ k \in 0 .. L
      BY <1>2, <2>1, <2>4 DEF L
    <3>2. lines[k].end = EndOf(text, s.number)
      <4> HIDE DEF from
      <4> QED
        BY <1>4, <3>1
    <3>3. g[k] \in PassState(records) /\ PassTrue(g[k], found, job, from) /\ (g[k].over \/ g[k].number = s.number + 1)
          /\ g[k].number <= s.number + 1
      BY <2>1, <2>2, <3>1, <3>2, LineKeepsPass
    <3>4. s.number + 1 = from + k
      BY <1>2, <3>1
    <3> HIDE DEF records, found, from
    <3> QED
      BY <3>1, <3>3, <3>4
  <2> QED
    BY <2>1, <2>3, <2>4
<1>14. L \in T
  <2>1. \A k \in 0 .. L : k \in T
    <3> HIDE DEF T
    <3> QED
      BY <1>2, <1>12, <1>13, Climb
  <2>2. L \in 0 .. L
    BY <1>2
  <2> HIDE DEF T
  <2> QED
    BY <2>1, <2>2
<1>15. reconstructLines(text, start, records, job) = g[L]
  BY <1>5 DEF reconstructLines, g, lines
<1>16. from + L = Len(text) + 1
  BY <1>2 DEF L
<1> HIDE DEF records, found, from
<1> QED
  BY <1>14, <1>15, <1>16 DEF records, found, from

-----------------------------------------------------------------------------
(* The answer a pass makes                                                 *)

LEMMA ScanIsFinite ==
    ASSUME NEW text \in Seq(Line), NEW list \in Seq(Patterns)
    PROVE  IsFiniteSet(ScanOf(text, list))
<1> DEFINE all == (1 .. Len(text)) \X (1 .. Len(list))
           D == {c \in all : list[c[2]] \in text[c[1]].pats}
           T == ScanOf(text, list)
           f == [c \in D |-> [offset |-> StartOf(text, c[1]), pattern |-> c[2], number |-> c[1]]]
<1>1. Len(text) \in Nat /\ Len(list) \in Nat /\ DOMAIN list = 1 .. Len(list)
  BY OfLines
<1>2. IsFiniteSet(all)
  <2>1. IsFiniteSet(1 .. Len(text)) /\ IsFiniteSet(1 .. Len(list))
    BY <1>1, FS_Interval
  <2> QED
    BY <2>1, FS_Product
<1>3. IsFiniteSet(D)
  <2>1. D \in SUBSET all
    OBVIOUS
  <2> HIDE DEF D, all
  <2> QED
    BY <1>2, <2>1, FS_Subset
<1>4. ASSUME NEW c \in D PROVE f[c] \in T
  <2>1. c[1] \in 1 .. Len(text) /\ c[2] \in DOMAIN list /\ list[c[2]] \in text[c[1]].pats
    BY <1>1
  <2> QED
    BY <2>1, InScan
<1>5. ASSUME NEW m \in T PROVE \E c \in D : f[c] = m
  <2>1. /\ m = [offset |-> m.offset, pattern |-> m.pattern, number |-> m.number]
        /\ m.number \in 1 .. Len(text) /\ m.offset = StartOf(text, m.number)
        /\ m.pattern \in DOMAIN list /\ list[m.pattern] \in text[m.number].pats
    BY InScan
  <2>2. <<m.number, m.pattern>> \in D
    BY <1>1, <2>1
  <2>3. f[<<m.number, m.pattern>>] = [offset |-> StartOf(text, m.number), pattern |-> m.pattern, number |-> m.number]
    BY <2>2
  <2> HIDE DEF D, f
  <2> QED
    BY <2>1, <2>2, <2>3
<1>6. f \in Surjection(D, T)
  <2>1. f \in [D -> T]
    <3> HIDE DEF D, T
    <3> QED
      BY <1>4
  <2> HIDE DEF D, T, f
  <2> QED
    BY <1>5, <2>1 DEF Surjection
<1> HIDE DEF D, T, f
<1> QED
  BY <1>3, <1>6, FS_Surjection DEF T

\* The matches of the lines before N decide the first of all, when they are
\* all of them or enough.
Enough(found, job, h) == job.cap > 0 /\ Cardinality(Before(found, h + 1)) >= job.cap

LEMMA FirstOfBefore ==
    ASSUME NEW known \in Seq(Line), NEW job \in SearchJob, NEW h \in Nat, NEW N \in Nat, h < N,
           Enough(ScanOf(known, job.list), job, h)
    PROVE  /\ FirstOf(Before(ScanOf(known, job.list), N), job.cap) = FirstOf(ScanOf(known, job.list), job.cap)
           /\ \A m \in FirstOf(ScanOf(known, job.list), job.cap) : m.number <= h
<1> DEFINE found == ScanOf(known, job.list)
           Pre(S, m) == {n \in S : Precedes(n, m)}
<1>1. job.list \in Seq(Patterns) /\ job.cap \in Nat
  BY OfSearchJob
<1>2. /\ \A m \in found : m.number \in 1 .. Len(known) /\ m.number \in Nat /\ m.offset = StartOf(known, m.number)
      /\ IsFiniteSet(found)
  BY <1>1, InScan, ScanIsFinite, OfLines
<1>3. \A S \in SUBSET found : IsFiniteSet(S) /\ Cardinality(S) \in Nat
  <2> HIDE DEF found
  <2> QED
    BY <1>2, FS_Subset, FS_CardinalityType
<1>4. ASSUME NEW n \in found, NEW m \in found
      PROVE  /\ Precedes(n, m) => n.number <= m.number
             /\ n.number < m.number => Precedes(n, m)
  <2>1. /\ n.number \in 1 .. Len(known) /\ n.offset = StartOf(known, n.number)
        /\ m.number \in 1 .. Len(known) /\ m.offset = StartOf(known, m.number)
        /\ n.number \in Nat /\ m.number \in Nat
    BY <1>2
  <2>2. /\ StartOf(known, n.number) <= StartOf(known, m.number) <=> n.number <= m.number
        /\ StartOf(known, m.number) <= StartOf(known, n.number) <=> m.number <= n.number
        /\ StartOf(known, m.number) \in Nat /\ StartOf(known, n.number) \in Nat
    BY <2>1, HoldsItsStart
  <2> QED
    BY <2>1, <2>2 DEF Precedes
<1> HIDE DEF found
<1>5. \A S : FirstOf(S, job.cap) = {m \in S : Cardinality(Pre(S, m)) < job.cap}
  <2>1. job.cap # 0
    BY <1>1 DEF Enough
  <2> QED
    BY <2>1 DEF FirstOf
<1>6. ASSUME NEW m \in found, Cardinality(Pre(found, m)) < job.cap PROVE m.number <= h
  <2>1. SUFFICES ASSUME m.number > h PROVE FALSE
    BY <1>2
  <2>2. Before(found, h + 1) \subseteq Pre(found, m)
    BY <1>2, <1>4, <2>1 DEF Before
  <2>3. Before(found, h + 1) \in SUBSET Pre(found, m) /\ Pre(found, m) \in SUBSET found
        /\ Before(found, h + 1) \in SUBSET found
    BY <2>2
  <2> HIDE DEF Pre
  <2>4. Cardinality(Before(found, h + 1)) <= Cardinality(Pre(found, m))
    BY <1>3, <2>3, FS_Subset
  <2>5. Cardinality(Before(found, h + 1)) \in Nat /\ Cardinality(Pre(found, m)) \in Nat
    BY <1>3, <2>3
  <2> QED
    BY <1>1, <1>6, <2>4, <2>5 DEF Enough, found
<1>7. \A m \in Before(found, N) : Pre(Before(found, N), m) = Pre(found, m)
  BY <1>2, <1>4 DEF Before
<1>8. \A m \in found : m.number <= h => m \in Before(found, N)
  BY <1>2 DEF Before
<1>9. Before(found, N) \subseteq found
  BY DEF Before
<1> HIDE DEF Pre
<1>10. FirstOf(Before(found, N), job.cap) = FirstOf(found, job.cap)
  BY <1>5, <1>6, <1>7, <1>8, <1>9
<1>11. \A m \in FirstOf(found, job.cap) : m.number <= h
  BY <1>5, <1>6
<1> QED
  BY <1>10, <1>11 DEF found
\* The answer of a finished pass: the matches a scan gives, each with the
\* window a scan shows.
LEMMA AnswerIsScan ==
    ASSUME NEW known, NEW text, NEW job, NEW start, PassFits(known, text, job, start)
    PROVE  LET s == reconstructLines(text, start, RecordsOf(known, job.list), job)
               answer == AnswerOf(s.matches, s.emitted, job)
           IN  /\ {g.match : g \in answer} = FirstOf(ScanOf(known, job.list), job.cap)
               /\ \A g \in answer :
                      /\ g.window \intersect DOMAIN known = WindowOf(g.match.number, DOMAIN known, job)
                      /\ g.window \subseteq DOMAIN text
<1> DEFINE found == ScanOf(known, job.list)
           s == reconstructLines(text, start, RecordsOf(known, job.list), job)
           first == FirstOf(found, job.cap)
           from == start.line
           N == s.number
<1>1. s \in PassState(RecordsOf(known, job.list)) /\ PassTrue(s, found, job, from) /\ (s.over \/ N = Len(text) + 1)
      /\ N <= Len(text) + 1
  BY PassEnds
<1>2. \A m \in found : /\ m.number \in 1 .. Len(known) /\ m.number \in 1 .. Len(text) /\ m.number \in Nat
  BY FoundInKnown
<1>3. /\ known \in Seq(Line) /\ text \in Seq(Line) /\ job \in SearchJob
      /\ Len(known) \in Nat /\ Len(text) \in Nat /\ Len(known) <= Len(text)
      /\ DOMAIN known = 1 .. Len(known) /\ DOMAIN text = 1 .. Len(text)
      /\ job.before \in Nat /\ job.after \in Nat /\ job.cap \in Nat /\ from \in Nat
      /\ from = 1 \/ \A m \in found : from + job.before <= m.number
  <2>1. /\ known \in Seq(Line) /\ text \in Seq(Line) /\ job \in SearchJob /\ Len(known) <= Len(text)
        /\ from \in 1 .. Len(text) + 1 /\ (from = 1 \/ \A m \in found : from + job.before <= m.number)
    BY DEF PassFits, Agree, GoodStart
  <2>2. from \in Nat
    BY <2>1, OfLines
  <2> QED
    BY <2>1, <2>2, OfLines, OfSearchJob
<1>4. s.after \in Nat /\ s.last \in Nat /\ N \in Nat
  <2> HIDE DEF s
  <2> QED
    BY <1>1, OfPassState DEF N
<1> HIDE DEF s, found, from
<1> DEFINE matches == s.matches
           emitted == s.emitted
<1>5. /\ matches = Before(found, N)
      /\ emitted = {i \in from .. N - 1 : Around(found, job, N, i)}
      /\ \A m \in matches : m.number + job.after <= N - 1 + s.after
      /\ s.over => (s.owed = {} /\ s.after = 0) \/ (s.last > 0 /\ N > s.last)
      /\ s.owed = {RecordOf(m) : m \in found \ Before(found, N)}
      /\ s.last > 0 => \E h \in Nat : h < N /\ s.last = h + job.after /\ Enough(found, job, h)
  BY <1>1 DEF PassTrue, Enough
\* Every first match was met, and the lines after it that its window needs.
<1>6. /\ FirstOf(matches, job.cap) = first
      /\ \A m \in first : /\ m \in matches
                          /\ m.number + job.after <= N - 1 \/ N = Len(text) + 1
  <2>0. \A S, cap : FirstOf(S, cap) \subseteq S
    BY DEF FirstOf
  <2>1. CASE matches = found
    <3>1. CASE N = Len(text) + 1
      BY <2>0, <2>1, <3>1
    <3>2. CASE N # Len(text) + 1 /\ s.after = 0
      BY <1>4, <1>5, <2>0, <2>1, <3>2
    <3>3. CASE N # Len(text) + 1 /\ s.after # 0
      <4>1. s.last > 0 /\ N > s.last
        BY <1>1, <1>5, <3>3
      <4>2. PICK h \in Nat : h < N /\ s.last = h + job.after /\ Enough(found, job, h)
        BY <1>5, <4>1
      <4>3. \A m \in first : m.number <= h
        BY <1>3, <1>4, <4>2, FirstOfBefore DEF found
      <4>4. \A m \in first : m \in found /\ m.number + job.after <= N - 1
        <5>1. \A m \in first : m \in found
          BY <2>0
        <5> HIDE DEF first, N
        <5> QED
          BY <1>2, <1>3, <1>4, <4>1, <4>2, <4>3, <5>1 DEF found
      <4> QED
        BY <2>1, <4>4
    <3> QED
      BY <3>1, <3>2, <3>3
  <2>2. CASE matches # found
    <3>1. \E m \in found : ~(m.number < N)
      BY <1>5, <2>2 DEF Before
    <3>2. s.over
      BY <1>1, <1>2, <1>3, <1>4, <3>1 DEF found
    <3>3. s.owed # {}
      BY <1>5, <3>1 DEF Before
    <3>4. s.last > 0 /\ N > s.last
      BY <1>5, <3>2, <3>3
    <3>5. PICK h \in Nat : h < N /\ s.last = h + job.after /\ Enough(found, job, h)
      BY <1>5, <3>4
    <3>6. FirstOf(Before(found, N), job.cap) = first /\ \A m \in first : m.number <= h
      BY <1>3, <1>4, <3>5, FirstOfBefore DEF found
    <3>7. \A m \in first : m \in matches
      BY <1>5, <2>0, <3>6
    <3>8. \A m \in first : m.number + job.after <= N - 1
      <4>1. \A m \in first : m \in found
        BY <2>0
      <4> HIDE DEF first, N
      <4> QED
        BY <1>2, <1>3, <1>4, <3>4, <3>5, <3>6, <4>1 DEF found
    <3> QED
      BY <1>5, <3>6, <3>7, <3>8
  <2> QED
    BY <2>1, <2>2
<1> HIDE DEF first, N, matches, emitted
<1>7. emitted \subseteq DOMAIN text
  <2>1. from \in 1 .. Len(text) + 1
    BY DEF PassFits, GoodStart, from
  <2>2. emitted \subseteq from .. N - 1 /\ N <= Len(text) + 1
    BY <1>1, <1>5
  <2> HIDE DEF N
  <2> QED
    BY <1>3, <1>4, <2>1, <2>2
<1>8. ASSUME NEW m \in first, NEW i \in m.number - job.before .. m.number + job.after
      PROVE  /\ i \in Min({i, m.number}) .. Max({i, m.number})
             /\ i \in DOMAIN known => \A j \in Min({i, m.number}) .. Max({i, m.number}) :
                                         j \in DOMAIN known /\ j \in emitted
  <2> DEFINE n == m.number
  <2>1. m \in found /\ m \in matches
    BY <1>5, <1>6 DEF Before
  <2>2. n \in 1 .. Len(known) /\ n \in Nat /\ i \in Int
    BY <1>2, <1>3, <2>1 DEF found
  <2>3. n < N /\ m \in Before(found, N)
    BY <1>5, <2>1 DEF Before
  <2> HIDE DEF n
  <2>4. Min({i, n}) = (IF i <= n THEN i ELSE n) /\ Max({i, n}) = (IF i >= n THEN i ELSE n)
    BY <2>2, OfTwo
  <2>5. i \in Min({i, n}) .. Max({i, n})
    BY <1>3, <2>2, <2>4
  <2>6. ASSUME i \in DOMAIN known, NEW j \in Min({i, n}) .. Max({i, n}) PROVE j \in DOMAIN known /\ j \in emitted
    <3>0. j \in Int /\ n - job.before <= j /\ j <= n + job.after /\ j \in DOMAIN known
      BY <1>3, <2>2, <2>4, <2>6 DEF n
    <3>1. j >= 1 /\ j <= Len(known)
      BY <1>3, <3>0
    <3>2. from <= j
      <4>1. from = 1 \/ from + job.before <= n
        BY <1>3, <2>1 DEF n
      <4> QED
        BY <1>3, <2>2, <3>0, <3>1, <4>1
    <3>3. j <= N - 1
      <4>1. n + job.after <= N - 1 \/ N = Len(text) + 1
        BY <1>6 DEF n
      <4> HIDE DEF N
      <4> QED
        BY <1>3, <1>4, <2>2, <3>0, <3>1, <4>1 DEF N
    <3>4. Around(found, job, N, j)
      BY <2>3, <3>0 DEF Around, n
    <3>5. j \in from .. N - 1
      <4> HIDE DEF N
      <4> QED
        BY <1>3, <1>4, <3>0, <3>2, <3>3 DEF N
    <3> QED
      BY <1>5, <3>0, <3>4, <3>5
  <2> QED
    BY <2>5, <2>6 DEF n
<1>9. ASSUME NEW m \in first
      PROVE  /\ WindowOf(m.number, emitted, job) \subseteq DOMAIN text
             /\ WindowOf(m.number, emitted, job) \intersect DOMAIN known = WindowOf(m.number, DOMAIN known, job)
  <2>1. ASSUME NEW reported, NEW i \in WindowOf(m.number, reported, job) PROVE i \in reported
    <3>1. i \in m.number - job.before .. m.number + job.after
          /\ \A j \in Min({i, m.number}) .. Max({i, m.number}) : j \in reported
      BY DEF WindowOf
    <3>2. i \in Min({i, m.number}) .. Max({i, m.number})
      BY <1>8, <3>1
    <3> QED
      BY <3>1, <3>2
  <2> QED
    BY <1>7, <1>8, <2>1 DEF WindowOf
<1>10. AnswerOf(matches, emitted, job) = {[match |-> m, window |-> WindowOf(m.number, emitted, job)] : m \in first}
  BY <1>6 DEF AnswerOf
<1> DEFINE Pair(m) == [match |-> m, window |-> WindowOf(m.number, emitted, job)]
<1>11. AnswerOf(matches, emitted, job) = {Pair(m) : m \in first} /\
       \A m : Pair(m).match = m /\ Pair(m).window = WindowOf(m.number, emitted, job)
  BY <1>10
<1> HIDE DEF Pair
<1>12. /\ {g.match : g \in AnswerOf(matches, emitted, job)} = first
       /\ \A g \in AnswerOf(matches, emitted, job) :
              /\ g.window \intersect DOMAIN known = WindowOf(g.match.number, DOMAIN known, job)
              /\ g.window \subseteq DOMAIN text
  <2> DEFINE answer == AnswerOf(matches, emitted, job)
  <2> HIDE DEF answer
  <2>1. answer = {Pair(m) : m \in first}
    BY <1>11 DEF answer
  <2>2. {g.match : g \in answer} = first
    BY <1>11, <2>1
  <2>3. ASSUME NEW g \in answer
        PROVE  /\ g.window \intersect DOMAIN known = WindowOf(g.match.number, DOMAIN known, job)
               /\ g.window \subseteq DOMAIN text
    <3>1. PICK m \in first : g = Pair(m)
      BY <2>1
    <3>2. g.match = m /\ g.window = WindowOf(m.number, emitted, job)
      BY <1>11, <3>1
    <3> QED
      BY <1>9, <3>2
  <2> QED
    BY <2>2, <2>3 DEF answer
<1> QED
  BY <1>12 DEF s, found, first, matches, emitted
-----------------------------------------------------------------------------
(* The file's life                                                         *)

\* What is assumed of a write: the kernel moves the ctime even when it keeps
\* the size and the mtime (identity.go: MatchesInfo).  A write that makes the
\* file longer need not move it.
WriteMovesTheCtime ==
    \A i \in DOMAIN files : files'[i] # files[i] =>
        files'[i].ctime # files[i].ctime \/ SizeOf(files'[i].text) > SizeOf(files[i].text)
WritesMoveTheCtime == [][WriteMovesTheCtime]_files

\* The files are a parameter of what follows: it is used of two moments.
Inodes == {1, 2}
Files == [Inodes -> [text : Seq(Line), mtime : Nat, ctime : Nat]]
TextIn(F, id) == F[id.inode].text

\* An identity was taken of a state the file is in or was in, and it is
\* still in that one when neither its ctime nor its size is another.
Recorded(F, id) ==
    /\ id.inode \in Inodes /\ id.ctime \in Nat /\ id.size \in Nat
    /\ \/ id.ctime < F[id.inode].ctime
       \/ id.ctime = F[id.inode].ctime /\ id.size <= SizeOf(TextIn(F, id))
Still(F, id) == F[id.inode].ctime = id.ctime /\ SizeOf(TextIn(F, id)) = id.size

Moved(F, G) ==
    \A i \in Inodes : \/ G[i] = F[i]
                      \/ F[i].ctime < G[i].ctime
                      \/ G[i].ctime = F[i].ctime /\ SizeOf(F[i].text) < SizeOf(G[i].text)

FilesInv ==
    /\ files \in Files /\ path \in Inodes /\ now \in Nat
    /\ \A i \in Inodes : files[i].ctime <= now

LEMMA TextOfFile ==
    ASSUME NEW F \in Files, NEW i \in Inodes
    PROVE  /\ F[i].text \in Seq(Line) /\ F[i].ctime \in Nat /\ F[i].mtime \in Nat
           /\ SizeOf(F[i].text) \in Nat
<1>1. F[i].text \in Seq(Line) /\ F[i].ctime \in Nat /\ F[i].mtime \in Nat
  BY DEF Files
<1> QED
  BY <1>1, EndsOfLines

LEMMA StillBack ==
    ASSUME NEW F \in Files, NEW G \in Files, Moved(F, G), NEW id, Recorded(F, id)
    PROVE  /\ Recorded(G, id)
           /\ Still(G, id) => Still(F, id) /\ TextIn(G, id) = TextIn(F, id)
<1> DEFINE i == id.inode
           f == SizeOf(F[i].text)
           g == SizeOf(G[i].text)
<1>1. i \in Inodes /\ id.ctime \in Nat /\ id.size \in Nat
  BY DEF Recorded
<1>2. F[i].ctime \in Nat /\ G[i].ctime \in Nat /\ f \in Nat /\ g \in Nat
  BY <1>1, TextOfFile
<1>3. id.ctime < F[i].ctime \/ (id.ctime = F[i].ctime /\ id.size <= f)
  BY DEF Recorded, TextIn
<1>4. \/ G[i] = F[i]
      \/ F[i].ctime < G[i].ctime
      \/ G[i].ctime = F[i].ctime /\ f < g
  BY <1>1 DEF Moved
<1>5. G[i] = F[i] => f = g
  OBVIOUS
<1> HIDE DEF f, g
<1>6. id.ctime < G[i].ctime \/ (id.ctime = G[i].ctime /\ id.size <= g)
  BY <1>1, <1>2, <1>3, <1>4, <1>5
<1>7. G[i].ctime = id.ctime /\ g = id.size => G[i] = F[i]
  BY <1>1, <1>2, <1>3, <1>4, <1>5
<1> QED
  BY <1>1, <1>6, <1>7 DEF Recorded, Still, TextIn, f, g

LEMMA Appending ==
    ASSUME NEW text \in Seq(Line), NEW line \in Line
    PROVE  Append(text, line) \in Seq(Line) /\ Agree(text, Append(text, line))
<1>1. Append(text, line) \in Seq(Line) /\ Len(Append(text, line)) = Len(text) + 1 /\ Len(text) \in Nat
      /\ \A i \in 1 .. Len(text) : Append(text, line)[i] = text[i]
  OBVIOUS
<1> QED
  BY <1>1 DEF Agree

LEMMA AgreeStays ==
    ASSUME NEW known \in Seq(Line), NEW text \in Seq(Line), NEW later \in Seq(Line),
           Agree(known, text), Agree(text, later)
    PROVE  Agree(known, later) /\ DOMAIN text \subseteq DOMAIN later
BY DEF Agree

LEMMA AgreeItself ==
    ASSUME NEW text \in Seq(Line)
    PROVE  Agree(text, text)
BY DEF Agree

\* A change of a file is one of the path's file, at this tick or the next.
LEMMA FileChanges ==
    ASSUME CachesAssumption, FilesInv, [Next]_vars, [WriteMovesTheCtime]_files
    PROVE  FilesInv' /\ Moved(files, files')
<1>1. ASSUME NEW file \in [text : Seq(Line), mtime : Nat, ctime : Clock], Becomes(path, file),
             path' = path, now' = file.ctime
      PROVE  FilesInv' /\ Moved(files, files')
  <2>1. files' = [files EXCEPT ![path] = file] /\ now \in Nat /\ path \in Inodes /\ files \in Files
    BY <1>1 DEF Becomes, FilesInv
  <2>2. file.ctime \in Nat /\ now <= file.ctime /\ file \in [text : Seq(Line), mtime : Nat, ctime : Nat]
    BY <2>1 DEF Clock
  <2>3. /\ files' \in Files /\ files'[path] = file
        /\ \A i \in Inodes : i # path => files'[i] = files[i]
        /\ DOMAIN files = Inodes
    BY <2>1, <2>2 DEF Files
  <2>4. ASSUME NEW i \in Inodes
        PROVE  /\ files'[i].ctime <= now'
               /\ files'[i] = files[i] \/ files[i].ctime < files'[i].ctime
                    \/ (files'[i].ctime = files[i].ctime /\ SizeOf(files[i].text) < SizeOf(files'[i].text))
    <3>1. files[i].ctime \in Nat /\ files[i].ctime <= now
      BY <2>1, TextOfFile DEF FilesInv
    <3>2. CASE i # path
      BY <1>1, <2>1, <2>2, <2>3, <3>1, <3>2
    <3>3. CASE i = path
      <4>1. files'[i].ctime = now' /\ files[i].ctime <= files'[i].ctime /\ files'[i].ctime \in Nat
        BY <1>1, <2>1, <2>2, <2>3, <3>1, <3>3
      <4>2. files'[i] # files[i] => files'[i].ctime # files[i].ctime \/ SizeOf(files'[i].text) > SizeOf(files[i].text)
        BY <2>3 DEF WriteMovesTheCtime
      <4>3. SizeOf(files[i].text) \in Nat /\ SizeOf(files'[i].text) \in Nat
        BY <2>1, <2>3, TextOfFile
      <4> QED
        BY <3>1, <4>1, <4>2, <4>3
    <3> QED
      BY <3>2, <3>3
  <2>5. now' \in Nat /\ path' \in Inodes
    BY <1>1, <2>1, <2>2
  <2> QED
    BY <2>3, <2>4, <2>5 DEF FilesInv, Moved
<1>2. CASE Append_
  <2>1. PICK t \in Clock, line \in Appended :
            /\ Becomes(path, [text |-> Append(files[path].text, line), mtime |-> t, ctime |-> t])
            /\ now' = t /\ path' = path
    BY <1>2 DEF Append_
  <2>2. line \in Line /\ files[path].text \in Seq(Line)
    BY CachesAssumption, TextOfFile DEF CachesAssumption, FilesInv
  <2>3. t \in Nat
    BY DEF Clock, FilesInv
  <2> DEFINE file == [text |-> Append(files[path].text, line), mtime |-> t, ctime |-> t]
  <2>4. file \in [text : Seq(Line), mtime : Nat, ctime : Clock] /\ file.ctime = t
    BY <2>2, <2>3, Appending
  <2> QED
    BY <1>1, <2>1, <2>4
<1>3. CASE Rewrite
  <2>1. PICK t \in Clock, text \in Texts : \E mtime \in {t, files[path].mtime} :
            /\ Becomes(path, [text |-> text, mtime |-> mtime, ctime |-> t])
            /\ now' = t /\ path' = path
    BY <1>3 DEF Rewrite
  <2>5. PICK mtime \in {t, files[path].mtime} :
            /\ Becomes(path, [text |-> text, mtime |-> mtime, ctime |-> t])
            /\ now' = t /\ path' = path
    BY <2>1
  <2>2. text \in Seq(Line) /\ files[path].mtime \in Nat
    BY CachesAssumption, TextOfFile DEF CachesAssumption, FilesInv
  <2>3. t \in Nat
    BY DEF Clock, FilesInv
  <2> DEFINE file == [text |-> text, mtime |-> mtime, ctime |-> t]
  <2>4. file \in [text : Seq(Line), mtime : Nat, ctime : Clock] /\ file.ctime = t
    BY <2>2, <2>3
  <2> QED
    BY <1>1, <2>4, <2>5
<1>4. CASE files' = files /\ now' = now /\ path' \in Inodes
  BY <1>4 DEF FilesInv, Moved
<1>5. CASE Retarget
  BY <1>4, <1>5 DEF Retarget, FilesInv, Files
<1>6. CASE UNCHANGED disk
  BY <1>4, <1>6 DEF disk, FilesInv
<1>7. ASSUME NEW p \in Procs,
             Begin(p) \/ Search(p) \/ Build(p) \/ LoadForPinned(p) \/ CountLines(p) \/ Leave(p)
      PROVE  UNCHANGED disk
  BY <1>7 DEF Begin, Search, Build, LoadForPinned, CountLines, Leave, Lookup, CheckStat, CheckPrint, OpenHit,
              ReadHit, Identify, ScanHead, ScanTail, SaveStat, SavePrint, SaveCache, BuildOpen, BuildIdentify,
              BuildHead, BuildTail, BuildSave, IndexLoad, IndexStat, IndexPrint
<1>8. CASE Damage
  BY <1>4, <1>8 DEF Damage, FilesInv
<1>9. CASE UNCHANGED vars
  BY <1>6, <1>9 DEF vars, disk
<1> QED
  BY <1>2, <1>3, <1>5, <1>6, <1>7, <1>8, <1>9 DEF Next
-----------------------------------------------------------------------------
(* Where a process is, and what it knows                                   *)

Fields == {"pc", "job", "pin", "known", "id", "head", "data", "from", "cand", "got", "hit", "steady"}
IsWork(r) == DOMAIN r = Fields

\* A process that looks in the cache, that answers from it, and that scans.
IndexSteps == {"index", "indexStat", "indexPrint"}
Hitting == {"checkPrint", "open", "read"} \union IndexSteps
Scanning == {"scanHead", "scanTail", "saveStat", "savePrint", "rename"}
Building == {"buildHead", "buildTail", "buildSave"}
StepsOf(kind) ==
    CASE kind = "search" -> {"lookup", "checkStat", "identify", "done"} \union Hitting \union Scanning
      [] kind = "build" -> {"buildOpen", "buildIdentify", "done"} \union Building
      [] kind = "number" -> {"count", "done"} \union IndexSteps

OfJob(F, r) ==
    /\ IsWork(r) /\ r.job \in Jobs /\ r.pc \in StepsOf(r.job.kind)
    /\ Recorded(F, r.pin)
    /\ r.known \in Seq(Line) /\ (r.steady => Agree(r.known, TextIn(F, r.pin)))
    /\ r.pc # "done" => ~r.hit /\ r.got = {}
    /\ r.pc \notin {"read", "count", "done"} => r.from = NoCheckpoint

\* An entry or an index is true of the file as it was when its identity was
\* taken, which it may no longer be.
EntryTrue(F, id, records, list) == Recorded(F, id) /\ (Still(F, id) => records = RecordsOf(TextIn(F, id), list))
IndexTrue(F, id, checkpoints) == Recorded(F, id) /\ (Still(F, id) => TrueIndex(checkpoints, TextIn(F, id)))

\* A hit holds the records of the text that was checked; a checkpoint of it
\* starts a line of the file the search checked, with room for context.
Cached(F, r) ==
    /\ r.pc = "checkStat" => EntryTrue(F, r.id, r.data, r.job.list)
    /\ r.pc \in Hitting /\ r.job.kind = "search" /\ r.steady => r.data = RecordsOf(r.known, r.job.list)
    /\ r.pc \in IndexSteps /\ r.job.kind = "search" => r.data # {}
    /\ r.pc = "indexStat" => IndexTrue(F, r.cand.id, r.cand.checkpoints)
    /\ r.pc = "indexPrint" /\ r.steady /\ r.cand.id.inode = r.pin.inode =>
           TrueIndex(r.cand.checkpoints, TextIn(F, r.pin))
    /\ r.pc \in {"read", "count"} /\ r.steady /\ r.from # NoCheckpoint =>
           /\ TrueStart(r.from, TextIn(F, r.pin))
           /\ r.pc = "read" => \A m \in ScanOf(r.known, r.job.list) : r.from.line + r.job.before <= m.number

\* What a scan or a build read is the file's text, unless it has changed
\* since it was checked.
Scanned(F, r) ==
    /\ r.pc \in Scanning \union Building =>
           r.id.inode = r.pin.inode /\ r.id.ctime = r.pin.ctime /\ r.id.size = r.pin.size
    /\ r.pc \in {"scanTail", "buildTail"} /\ Still(F, r.pin) => r.head = FirstLine(TextIn(F, r.pin))
    /\ r.pc \in {"saveStat", "savePrint", "rename"} /\ Still(F, r.pin) =>
           r.data = ScanOf(TextIn(F, r.pin), r.job.list)
    /\ r.pc = "buildSave" /\ Still(F, r.pin) => r.head = TextIn(F, r.pin)

\* The properties, of one process.
HitIsScan(F, r) ==
    /\ {g.match : g \in r.got} = FirstOf(ScanOf(r.known, r.job.list), r.job.cap)
    /\ \A g \in r.got :
        /\ g.window \intersect DOMAIN r.known = WindowOf(g.match.number, DOMAIN r.known, r.job)
        /\ g.window \subseteq DOMAIN F[r.pin.inode].text
NumbersAreTrue(r) == \A n \in r.got : n.offset = StartOf(r.known, n.line)

Answered(F, r) ==
    r.pc = "done" /\ r.steady =>
        /\ r.job.kind = "search" /\ r.hit => HitIsScan(F, r)
        /\ r.job.kind = "number" => NumbersAreTrue(r)

Active(F, r) == OfJob(F, r) /\ Cached(F, r) /\ Scanned(F, r) /\ Answered(F, r)

EntryInv ==
    entry.state = "stored" =>
        /\ \E job \in Jobs : job.kind = "search" /\ entry.patterns = job.list
        /\ EntryTrue(files, entry.id, entry.records, entry.patterns)
IndexInv == index.state = "stored" => IndexTrue(files, index.id, index.checkpoints)
ProcInv == DOMAIN proc = Procs /\ \A p \in Procs : proc[p] # Idle => Active(files, proc[p])

Inv == FilesInv /\ EntryInv /\ IndexInv /\ ProcInv

LEMMA JobsAre ==
    ASSUME CachesAssumption, NEW job \in Jobs
    PROVE  /\ job.kind = "search" => job \in SearchJob
           /\ job.kind = "build" => job \in BuildJob
           /\ job.kind = "number" => job \in NumberJob
           /\ job.kind \in {"search", "build", "number"}
<1>1. job \in SearchJob => job.kind = "search"
  BY DEF SearchJob
<1>2. job \in BuildJob => job.kind = "build"
  BY DEF BuildJob
<1>3. job \in NumberJob => job.kind = "number"
  BY DEF NumberJob
<1> QED
  BY <1>1, <1>2, <1>3 DEF CachesAssumption

\* What a job's steps are, kind by kind.
LEMMA StepsAre ==
    /\ StepsOf("search") = {"lookup", "checkStat", "identify", "done", "checkPrint", "open", "read", "index",
                            "indexStat", "indexPrint", "scanHead", "scanTail", "saveStat", "savePrint", "rename"}
    /\ StepsOf("build") = {"buildOpen", "buildIdentify", "done", "buildHead", "buildTail", "buildSave"}
    /\ StepsOf("number") = {"count", "done", "index", "indexStat", "indexPrint"}
BY DEF StepsOf, Hitting, Scanning, Building, IndexSteps

\* A change of the files keeps what is known of them; a process whose file
\* was rewritten is steady no longer.
LEMMA KeepActive ==
    ASSUME NEW F \in Files, NEW G \in Files, Moved(F, G), NEW r, Active(F, r),
           NEW t, t = r \/ t = [r EXCEPT !.steady = FALSE],
           t.steady => Agree(TextIn(F, r.pin), TextIn(G, r.pin))
    PROVE  Active(G, t)
<1>1. IsWork(r)
  BY DEF Active, OfJob
<1>2. /\ IsWork(t) /\ t.pc = r.pc /\ t.job = r.job /\ t.pin = r.pin /\ t.known = r.known /\ t.id = r.id
      /\ t.head = r.head /\ t.data = r.data /\ t.from = r.from /\ t.cand = r.cand /\ t.got = r.got /\ t.hit = r.hit
      /\ t.steady => r.steady
  BY <1>1 DEF IsWork, Fields
<1>3. /\ Recorded(F, r.pin) /\ Recorded(G, r.pin)
      /\ Still(G, r.pin) => Still(F, r.pin) /\ TextIn(G, r.pin) = TextIn(F, r.pin)
  BY StillBack DEF Active, OfJob
<1>4. /\ TextIn(F, r.pin) \in Seq(Line) /\ TextIn(G, r.pin) \in Seq(Line)
      /\ TextIn(F, r.pin) = F[r.pin.inode].text /\ TextIn(G, r.pin) = G[r.pin.inode].text
  BY <1>3, TextOfFile DEF Recorded, TextIn
<1>5. r.known \in Seq(Line)
  BY DEF Active, OfJob
<1>6. t.steady => /\ Agree(r.known, TextIn(G, r.pin)) /\ DOMAIN TextIn(F, r.pin) \subseteq DOMAIN TextIn(G, r.pin)
                  /\ \A c : TrueStart(c, TextIn(F, r.pin)) => TrueStart(c, TextIn(G, r.pin))
                  /\ \A checkpoints : TrueIndex(checkpoints, TextIn(F, r.pin)) =>
                                          TrueIndex(checkpoints, TextIn(G, r.pin))
  BY <1>2, <1>4, <1>5, AgreeStays, StartsStayTrue DEF Active, OfJob
<1>7. OfJob(G, t)
  BY <1>2, <1>3, <1>6 DEF Active, OfJob
<1>8. Cached(G, t)
  <2>1. t.pc = "checkStat" => EntryTrue(G, t.id, t.data, t.job.list)
    BY <1>2, StillBack DEF Active, Cached, EntryTrue
  <2>2. t.pc = "indexStat" => IndexTrue(G, t.cand.id, t.cand.checkpoints)
    BY <1>2, StillBack DEF Active, Cached, IndexTrue
  <2> QED
    BY <1>2, <1>6, <2>1, <2>2 DEF Active, Cached
<1>9. Scanned(G, t)
  BY <1>2, <1>3 DEF Active, Scanned
<1>10. Answered(G, t)
  BY <1>2, <1>4, <1>6 DEF Active, Answered, HitIsScan, NumbersAreTrue
<1> QED
  BY <1>7, <1>8, <1>9, <1>10 DEF Active
-----------------------------------------------------------------------------
(* The steps                                                               *)

\* A process goes where what it knows is still true.
GoesRight(p) == \E r : Goes(p, r) /\ (r = Idle \/ Active(files, r))

LEMMA ItsWork ==
    ASSUME CachesAssumption, Inv, NEW p \in Procs, proc[p].pc # "idle"
    PROVE  /\ Active(files, proc[p]) /\ IsWork(proc[p]) /\ files \in Files /\ path \in Inodes
           /\ proc[p].job.kind \in {"search", "build", "number"} /\ proc[p].pc \in StepsOf(proc[p].job.kind)
           /\ proc[p].job.kind = "search" => proc[p].job \in SearchJob
           /\ proc[p].known \in Seq(Line) /\ TextIn(files, proc[p].pin) \in Seq(Line)
           /\ proc[p].pin.inode \in Inodes
<1>1. proc[p] # Idle
  BY DEF Idle
<1>2. Active(files, proc[p]) /\ files \in Files /\ path \in Inodes
  BY <1>1 DEF Inv, ProcInv, FilesInv
<1>3. IsWork(proc[p]) /\ proc[p].job \in Jobs /\ proc[p].pin.inode \in Inodes /\ proc[p].known \in Seq(Line)
      /\ proc[p].pc \in StepsOf(proc[p].job.kind)
  BY <1>2 DEF Active, OfJob, Recorded
<1> QED
  BY <1>2, <1>3, JobsAre, TextOfFile DEF TextIn

LEMMA ItsPlace ==
    ASSUME NEW r, IsWork(r), NEW pc
    PROVE  LET t == [r EXCEPT !.pc = pc]
           IN  /\ IsWork(t) /\ t.pc = pc /\ t.job = r.job /\ t.pin = r.pin /\ t.known = r.known /\ t.id = r.id
               /\ t.head = r.head /\ t.data = r.data /\ t.from = r.from /\ t.cand = r.cand /\ t.got = r.got
               /\ t.hit = r.hit /\ t.steady = r.steady
BY DEF IsWork, Fields

\* A process may end at any step, and a search may go on to a scan.
LEMMA EndsRight ==
    ASSUME CachesAssumption, Inv, NEW p \in Procs, proc[p].pc # "idle", proc[p].pc # "done", Ends(p)
    PROVE  GoesRight(p)
<1> DEFINE r == proc[p]
           t == [r EXCEPT !.pc = "done"]
<1>1. /\ Active(files, r) /\ IsWork(r) /\ r.job.kind \in {"search", "build", "number"}
      /\ ~r.hit /\ r.got = {}
  BY ItsWork DEF Active, OfJob
<1>2. /\ IsWork(t) /\ t.pc = "done" /\ t.job = r.job /\ t.pin = r.pin /\ t.known = r.known /\ t.got = r.got
      /\ t.hit = r.hit /\ t.steady = r.steady
  BY <1>1, ItsPlace
<1> HIDE DEF t, r
<1>3. OfJob(files, t)
  BY <1>1, <1>2, StepsAre DEF Active, OfJob
<1>4. Cached(files, t) /\ Scanned(files, t)
  BY <1>2 DEF Cached, Scanned, Hitting, IndexSteps, Scanning, Building
<1>5. Answered(files, t)
  BY <1>1, <1>2 DEF Answered, NumbersAreTrue
<1> QED
  BY <1>3, <1>4, <1>5 DEF Active, Ends, Goto, GoesRight, t, r

LEMMA LooksFurther ==
    ASSUME CachesAssumption, Inv, NEW p \in Procs, proc[p].pc \in {"lookup", "checkStat", "checkPrint"},
           Goto(p, "identify")
    PROVE  GoesRight(p)
<1> DEFINE r == proc[p]
           t == [r EXCEPT !.pc = "identify"]
<1>1. /\ Active(files, r) /\ IsWork(r) /\ r.job.kind = "search" /\ ~r.hit /\ r.got = {} /\ r.from = NoCheckpoint
  BY ItsWork, StepsAre DEF Active, OfJob
<1>2. /\ IsWork(t) /\ t.pc = "identify" /\ t.job = r.job /\ t.pin = r.pin /\ t.known = r.known /\ t.got = r.got
      /\ t.hit = r.hit /\ t.steady = r.steady /\ t.from = r.from
  BY <1>1, ItsPlace
<1> HIDE DEF t, r
<1>3. OfJob(files, t)
  BY <1>1, <1>2, StepsAre DEF Active, OfJob
<1>4. Cached(files, t) /\ Scanned(files, t) /\ Answered(files, t)
  BY <1>2 DEF Cached, Scanned, Answered, Hitting, IndexSteps, Scanning, Building
<1> QED
  BY <1>3, <1>4 DEF Active, Goto, GoesRight, t, r

\* The identity of the path's file, as it is.
LEMMA StatIsTrue ==
    ASSUME Inv
    PROVE  /\ Recorded(files, Stat(path)) /\ Stat(path).inode = path
           /\ files[path].text \in Seq(Line)
           /\ \A id : MatchesInfo(id, Stat(path)) => Still(files, id) /\ id.inode = path
                                                  /\ TextIn(files, id) = files[path].text
<1>1. files \in Files /\ path \in Inodes
  BY DEF Inv, FilesInv
<1>2. files[path].text \in Seq(Line) /\ files[path].ctime \in Nat /\ SizeOf(files[path].text) \in Nat
  BY <1>1, TextOfFile
<1>3. /\ Stat(path).inode = path /\ Stat(path).ctime = files[path].ctime
      /\ Stat(path).size = SizeOf(files[path].text)
  BY DEF Stat
<1> QED
  BY <1>1, <1>2, <1>3 DEF Recorded, Still, TextIn, MatchesInfo

LEMMA BeginRight ==
    ASSUME CachesAssumption, Inv, NEW p \in Procs, Begin(p)
    PROVE  GoesRight(p)
<1>1. PICK job \in Jobs :
        Goes(p, [pc |-> FirstStep(job.kind), job |-> job, pin |-> Stat(path), known |-> files[path].text,
                 id |-> NoId, head |-> <<>>, data |-> {}, from |-> NoCheckpoint, cand |-> NoIndex,
                 got |-> {}, hit |-> FALSE, steady |-> TRUE])
  BY DEF Begin
<1> DEFINE t == [pc |-> FirstStep(job.kind), job |-> job, pin |-> Stat(path), known |-> files[path].text,
                 id |-> NoId, head |-> <<>>, data |-> {}, from |-> NoCheckpoint, cand |-> NoIndex,
                 got |-> {}, hit |-> FALSE, steady |-> TRUE]
<1>2. job.kind \in {"search", "build", "number"}
  BY JobsAre
<1>3. /\ IsWork(t) /\ t.pc = FirstStep(job.kind) /\ t.job = job /\ t.pin = Stat(path) /\ t.known = files[path].text
      /\ t.from = NoCheckpoint /\ t.got = {} /\ ~t.hit
  BY DEF IsWork, Fields
<1> HIDE DEF t
<1>4. /\ job.kind = "search" => t.pc = "lookup"
      /\ job.kind = "build" => t.pc = "buildOpen"
      /\ job.kind = "number" => t.pc = "index"
  BY <1>3 DEF FirstStep
<1>5. Recorded(files, t.pin) /\ t.known \in Seq(Line) /\ Agree(t.known, TextIn(files, t.pin))
  BY <1>3, StatIsTrue, AgreeItself DEF TextIn
<1>6. OfJob(files, t)
  BY <1>2, <1>3, <1>4, <1>5, StepsAre DEF OfJob
<1>7. Cached(files, t) /\ Scanned(files, t) /\ Answered(files, t)
  BY <1>2, <1>3, <1>4 DEF Cached, Scanned, Answered, Hitting, IndexSteps, Scanning, Building
<1> QED
  BY <1>1, <1>6, <1>7 DEF GoesRight, Active, t

LEMMA LookupRight ==
    ASSUME CachesAssumption, Inv, NEW p \in Procs, Lookup(p)
    PROVE  GoesRight(p)
<1> DEFINE r == proc[p]
           data == toReaderPatternOrder(entry.patterns, entry.records, r.job.list)
           t == [r EXCEPT !.pc = "checkStat", !.id = entry.id, !.data = data]
<1>1. /\ r.pc = "lookup" /\ Active(files, r) /\ IsWork(r) /\ r.job.kind = "search" /\ r.job \in Jobs
      /\ ~r.hit /\ r.got = {} /\ r.from = NoCheckpoint
  BY ItsWork, StepsAre DEF Lookup, Active, OfJob
<1>2. CASE entry.state = "stored" /\ Goes(p, t)
  <2>1. /\ IsWork(t) /\ t.pc = "checkStat" /\ t.job = r.job /\ t.pin = r.pin /\ t.known = r.known /\ t.got = r.got
        /\ t.hit = r.hit /\ t.steady = r.steady /\ t.from = r.from /\ t.id = entry.id /\ t.data = data
    BY <1>1 DEF IsWork, Fields
  <2>2. EntryTrue(files, entry.id, entry.records, entry.patterns)
    BY <1>2 DEF Inv, EntryInv
  <2>3. PICK job \in Jobs : job.kind = "search" /\ entry.patterns = job.list
    BY <1>2 DEF Inv, EntryInv
  <2>4. entry.patterns \in Seq(Patterns) /\ r.job.list \in Seq(Patterns)
    BY <1>1, <2>3, JobsAre, OfSearchJob
  <2>5. SamePatterns(entry.patterns, r.job.list)
    BY <1>1, <2>3 DEF CachesAssumption, SamePatterns
  <2>6. ASSUME Still(files, entry.id) PROVE data = RecordsOf(TextIn(files, entry.id), r.job.list)
    <3>1. TextIn(files, entry.id) \in Seq(Line)
      BY <2>2, TextOfFile DEF EntryTrue, Recorded, TextIn, Inv, FilesInv
    <3>2. entry.records = RecordsOf(TextIn(files, entry.id), entry.patterns)
      BY <2>2, <2>6 DEF EntryTrue
    <3> QED
      BY <2>4, <2>5, <3>1, <3>2, ReaderOrder
  <2> HIDE DEF t, r, data
  <2>7. OfJob(files, t)
    BY <1>1, <2>1, StepsAre DEF Active, OfJob
  <2>8. Cached(files, t)
    BY <2>1, <2>2, <2>6 DEF Cached, EntryTrue, Hitting, IndexSteps
  <2>9. Scanned(files, t) /\ Answered(files, t)
    BY <2>1 DEF Scanned, Answered, Scanning, Building
  <2> QED
    BY <1>2, <2>7, <2>8, <2>9 DEF Active, GoesRight
<1>3. CASE Goto(p, "identify")
  BY <1>1, <1>3, LooksFurther
<1> QED
  BY <1>2, <1>3 DEF Lookup
LEMMA CheckStatRight ==
    ASSUME CachesAssumption, Inv, NEW p \in Procs, CheckStat(p)
    PROVE  GoesRight(p)
<1> DEFINE r == proc[p]
           t == [r EXCEPT !.pc = "checkPrint", !.steady = LeadsToPin(p), !.known = files[path].text]
<1>1. /\ r.pc = "checkStat" /\ Active(files, r) /\ IsWork(r) /\ r.job.kind = "search"
      /\ ~r.hit /\ r.got = {} /\ r.from = NoCheckpoint
  BY ItsWork, StepsAre DEF CheckStat, Active, OfJob
<1>2. CASE MatchesInfo(r.id, Stat(path)) /\ Goes(p, t)
  <2>1. /\ IsWork(t) /\ t.pc = "checkPrint" /\ t.job = r.job /\ t.pin = r.pin /\ t.known = files[path].text
        /\ t.got = r.got /\ t.hit = r.hit /\ t.from = r.from /\ t.data = r.data
        /\ t.steady = (path = r.pin.inode)
    BY <1>1 DEF IsWork, Fields, LeadsToPin
  <2>2. Still(files, r.id) /\ TextIn(files, r.id) = files[path].text /\ files[path].text \in Seq(Line)
    BY <1>2, StatIsTrue
  <2>3. r.data = RecordsOf(files[path].text, r.job.list)
    BY <1>1, <2>2 DEF Active, Cached, EntryTrue
  <2> HIDE DEF t, r
  <2>4. t.known \in Seq(Line) /\ (t.steady => Agree(t.known, TextIn(files, t.pin)))
    BY <2>1, <2>2, AgreeItself DEF TextIn
  <2>5. OfJob(files, t)
    BY <1>1, <2>1, <2>4, StepsAre DEF Active, OfJob
  <2>6. Cached(files, t)
    BY <2>1, <2>3 DEF Cached, IndexSteps
  <2>7. Scanned(files, t) /\ Answered(files, t)
    BY <2>1 DEF Scanned, Answered, Scanning, Building
  <2> QED
    BY <1>2, <2>5, <2>6, <2>7 DEF Active, GoesRight
<1>3. CASE Goto(p, "identify")
  BY <1>1, <1>3, LooksFurther
<1> QED
  BY <1>2, <1>3 DEF CheckStat

LEMMA CheckPrintRight ==
    ASSUME CachesAssumption, Inv, NEW p \in Procs, CheckPrint(p)
    PROVE  GoesRight(p)
<1> DEFINE r == proc[p]
           t == [r EXCEPT !.pc = "open"]
<1>1. /\ r.pc = "checkPrint" /\ Active(files, r) /\ IsWork(r) /\ r.job.kind = "search"
      /\ ~r.hit /\ r.got = {} /\ r.from = NoCheckpoint
  BY ItsWork, StepsAre DEF CheckPrint, Active, OfJob
<1>2. CASE Goto(p, "open")
  <2>1. /\ IsWork(t) /\ t.pc = "open" /\ t.job = r.job /\ t.pin = r.pin /\ t.known = r.known /\ t.got = r.got
        /\ t.hit = r.hit /\ t.from = r.from /\ t.data = r.data /\ t.steady = r.steady
    BY <1>1, ItsPlace
  <2> HIDE DEF t, r
  <2>2. OfJob(files, t)
    BY <1>1, <2>1, StepsAre DEF Active, OfJob
  <2>3. Cached(files, t)
    BY <1>1, <2>1 DEF Active, Cached, IndexSteps, Hitting
  <2>4. Scanned(files, t) /\ Answered(files, t)
    BY <2>1 DEF Scanned, Answered, Scanning, Building
  <2> QED
    BY <1>2, <2>2, <2>3, <2>4 DEF Active, GoesRight, Goto, r, t
<1>3. CASE Goto(p, "identify")
  BY <1>1, <1>3, LooksFurther
<1> QED
  BY <1>2, <1>3 DEF CheckPrint

\* A hit is read from the start of the file, or from where an index says.
LEMMA ReadsFromStart ==
    ASSUME CachesAssumption, Inv, NEW p \in Procs, proc[p].pc \in {"open", "index", "indexStat", "indexPrint"},
           proc[p].job.kind = "search", Goto(p, "read")
    PROVE  GoesRight(p)
<1> DEFINE r == proc[p]
           t == [r EXCEPT !.pc = "read"]
<1>1. /\ Active(files, r) /\ IsWork(r) /\ ~r.hit /\ r.got = {} /\ r.from = NoCheckpoint
  BY ItsWork DEF Active, OfJob
<1>2. /\ IsWork(t) /\ t.pc = "read" /\ t.job = r.job /\ t.pin = r.pin /\ t.known = r.known /\ t.got = r.got
      /\ t.hit = r.hit /\ t.from = r.from /\ t.data = r.data /\ t.steady = r.steady
  BY <1>1, ItsPlace
<1> HIDE DEF t, r
<1>3. OfJob(files, t)
  BY <1>1, <1>2, StepsAre DEF Active, OfJob, r
<1>4. Cached(files, t)
  BY <1>1, <1>2 DEF Active, Cached, IndexSteps, Hitting, r
<1>5. Scanned(files, t) /\ Answered(files, t)
  BY <1>2 DEF Scanned, Answered, Scanning, Building
<1> QED
  BY <1>3, <1>4, <1>5 DEF Active, GoesRight, Goto, r, t

LEMMA OpenHitRight ==
    ASSUME CachesAssumption, Inv, NEW p \in Procs, OpenHit(p)
    PROVE  GoesRight(p)
<1> DEFINE r == proc[p]
           t == [r EXCEPT !.pc = "index"]
<1>1. /\ r.pc = "open" /\ Active(files, r) /\ IsWork(r) /\ r.job.kind = "search"
      /\ ~r.hit /\ r.got = {} /\ r.from = NoCheckpoint
  BY ItsWork, StepsAre DEF OpenHit, Active, OfJob
<1>2. CASE r.data # {} /\ Goto(p, "index")
  <2>1. /\ IsWork(t) /\ t.pc = "index" /\ t.job = r.job /\ t.pin = r.pin /\ t.known = r.known /\ t.got = r.got
        /\ t.hit = r.hit /\ t.from = r.from /\ t.data = r.data /\ t.steady = r.steady
    BY <1>1, ItsPlace
  <2> HIDE DEF t, r
  <2>2. OfJob(files, t)
    BY <1>1, <2>1, StepsAre DEF Active, OfJob
  <2>3. Cached(files, t)
    BY <1>1, <1>2, <2>1 DEF Active, Cached, IndexSteps, Hitting
  <2>4. Scanned(files, t) /\ Answered(files, t)
    BY <2>1 DEF Scanned, Answered, Scanning, Building
  <2> QED
    BY <1>2, <2>2, <2>3, <2>4 DEF Active, GoesRight, Goto, r, t
<1>3. CASE Goto(p, "read")
  BY <1>1, <1>3, ReadsFromStart
<1>4. CASE Ends(p)
  BY <1>1, <1>4, EndsRight
<1> QED
  BY <1>2, <1>3, <1>4 DEF OpenHit

LEMMA IndexLoadRight ==
    ASSUME CachesAssumption, Inv, NEW p \in Procs, IndexLoad(p)
    PROVE  GoesRight(p)
<1> DEFINE r == proc[p]
           t == [r EXCEPT !.pc = "indexStat", !.cand = index]
<1>1. /\ r.pc = "index" /\ Active(files, r) /\ IsWork(r) /\ r.job.kind \in {"search", "number"}
      /\ ~r.hit /\ r.got = {} /\ r.from = NoCheckpoint
  BY ItsWork, StepsAre DEF IndexLoad, Active, OfJob
<1>2. CASE index.state = "stored" /\ Goes(p, t)
  <2>1. /\ IsWork(t) /\ t.pc = "indexStat" /\ t.job = r.job /\ t.pin = r.pin /\ t.known = r.known /\ t.got = r.got
        /\ t.hit = r.hit /\ t.from = r.from /\ t.data = r.data /\ t.steady = r.steady /\ t.cand = index
    BY <1>1 DEF IsWork, Fields
  <2>2. IndexTrue(files, index.id, index.checkpoints)
    BY <1>2 DEF Inv, IndexInv
  <2> HIDE DEF t, r
  <2>3. OfJob(files, t)
    BY <1>1, <2>1, StepsAre DEF Active, OfJob
  <2>4. Cached(files, t)
    BY <1>1, <2>1, <2>2 DEF Active, Cached, IndexSteps, Hitting
  <2>5. Scanned(files, t) /\ Answered(files, t)
    BY <2>1 DEF Scanned, Answered, Scanning, Building
  <2> QED
    BY <1>2, <2>3, <2>4, <2>5 DEF Active, GoesRight
<1>3. CASE r.job.kind = "search" /\ Goto(p, "read")
  BY <1>1, <1>3, ReadsFromStart
<1>4. CASE Ends(p)
  BY <1>1, <1>4, EndsRight
<1> QED
  BY <1>2, <1>3, <1>4 DEF IndexLoad

LEMMA StaleRight ==
    ASSUME CachesAssumption, Inv, NEW p \in Procs, proc[p].pc \in {"indexStat", "indexPrint"}, IndexIsStale(p)
    PROVE  GoesRight(p)
<1>1. CASE proc[p].job.kind = "search" /\ Goto(p, "read")
  BY <1>1, ReadsFromStart
<1>2. CASE Ends(p)
  BY <1>2, EndsRight
<1> QED
  BY <1>1, <1>2 DEF IndexIsStale

LEMMA IndexStatRight ==
    ASSUME CachesAssumption, Inv, NEW p \in Procs, IndexStat(p)
    PROVE  GoesRight(p)
<1> DEFINE r == proc[p]
           t == [r EXCEPT !.pc = "indexPrint"]
<1>1. /\ r.pc = "indexStat" /\ Active(files, r) /\ IsWork(r) /\ r.job.kind \in {"search", "number"}
      /\ ~r.hit /\ r.got = {} /\ r.from = NoCheckpoint
  BY ItsWork, StepsAre DEF IndexStat, Active, OfJob
<1>2. CASE MatchesInfo(r.cand.id, Stat(path)) /\ Goto(p, "indexPrint")
  <2>1. /\ IsWork(t) /\ t.pc = "indexPrint" /\ t.job = r.job /\ t.pin = r.pin /\ t.known = r.known
        /\ t.got = r.got /\ t.hit = r.hit /\ t.from = r.from /\ t.data = r.data /\ t.steady = r.steady
        /\ t.cand = r.cand
    BY <1>1, ItsPlace
  <2>2. Still(files, r.cand.id)
    BY <1>2, StatIsTrue
  <2>3. TrueIndex(r.cand.checkpoints, TextIn(files, r.cand.id))
    BY <1>1, <2>2 DEF Active, Cached, IndexTrue
  <2>4. r.cand.id.inode = r.pin.inode => TextIn(files, r.cand.id) = TextIn(files, r.pin)
    BY DEF TextIn
  <2> HIDE DEF t, r
  <2>5. OfJob(files, t)
    BY <1>1, <2>1, StepsAre DEF Active, OfJob
  <2>6. Cached(files, t)
    BY <1>1, <2>1, <2>3, <2>4 DEF Active, Cached, IndexSteps, Hitting
  <2>7. Scanned(files, t) /\ Answered(files, t)
    BY <2>1 DEF Scanned, Answered, Scanning, Building
  <2> QED
    BY <1>2, <2>5, <2>6, <2>7 DEF Active, GoesRight, Goto, r, t
<1>3. CASE IndexIsStale(p)
  BY <1>1, <1>3, StaleRight
<1> QED
  BY <1>2, <1>3 DEF IndexStat
\* A checkpoint of the file the search checked leaves room for the context
\* of every record, as it does for the first one's.
LEMMA RoomForFirst ==
    ASSUME NEW known \in Seq(Line), NEW text \in Seq(Line), Agree(known, text), NEW list \in Seq(Patterns),
           NEW checkpoints, TrueIndex(checkpoints, text), NEW context \in Nat, RecordsOf(known, list) # {},
           NEW first, first = Min({m.offset : m \in RecordsOf(known, list)})
    PROVE  LET c == CheckpointForContext(checkpoints, first, context)
           IN  c # NoCheckpoint => /\ TrueStart(c, text)
                                   /\ \A m \in ScanOf(known, list) : c.line + context <= m.number
<1> DEFINE c == CheckpointForContext(checkpoints, first, context)
           offsets == {m.offset : m \in RecordsOf(known, list)}
<1>1. \A m \in ScanOf(known, list) : m.number \in 1 .. Len(known) /\ m.offset = StartOf(known, m.number) /\ m.offset \in Nat
  BY InScan
<1>2. \A m \in RecordsOf(known, list) : \E n \in ScanOf(known, list) : m.offset = n.offset
  BY DEF RecordsOf, RecordOf
<1>3. ASSUME NEW n \in ScanOf(known, list) PROVE n.offset \in offsets
  <2>1. RecordOf(n) \in RecordsOf(known, list) /\ RecordOf(n).offset = n.offset
    BY DEF RecordsOf, RecordOf
  <2> QED
    BY <2>1
<1>4. offsets \subseteq Nat /\ offsets # {}
  BY <1>1, <1>2
<1>5. first \in Nat /\ \A m \in ScanOf(known, list) : first <= m.offset
  BY <1>3, <1>4, MinIsLeast
<1>6. ASSUME NEW m \in ScanOf(known, list)
      PROVE  c = NoCheckpoint \/ (TrueStart(c, text) /\ c.line + context <= m.number)
  <2>1. m.number \in 1 .. Len(text) /\ m.number - 1 \in 0 .. Len(known)
    BY <1>1, OfLines DEF Agree
  <2>2. StartOf(text, m.number) = m.offset
    BY <1>1, <2>1, EndsAgree DEF StartOf
  <2> DEFINE number == m.number
  <2>3. number \in 1 .. Len(text) /\ first <= StartOf(text, number) /\ first \in Int
    BY <1>5, <2>1, <2>2
  <2> HIDE DEF number
  <2>4. c = NoCheckpoint \/ (TrueStart(c, text) /\ c.line + context <= number)
    BY <2>3, RoomForContext
  <2> QED
    BY <2>4 DEF number
<1>7. ScanOf(known, list) # {}
  BY DEF RecordsOf
<1> QED
  BY <1>6, <1>7

LEMMA IndexPrintRight ==
    ASSUME CachesAssumption, Inv, NEW p \in Procs, IndexPrint(p)
    PROVE  GoesRight(p)
<1> DEFINE r == proc[p]
           first == Min(Wanted(r))
           checkpoint == IF r.job.kind = "search"
                         THEN CheckpointForContext(r.cand.checkpoints, first, r.job.before)
                         ELSE FindNearestCheckpointForOffset(r.cand.checkpoints, first)
           t == [r EXCEPT !.pc = AfterIndex(p), !.from = checkpoint]
<1>1. /\ r.pc = "indexPrint" /\ Active(files, r) /\ IsWork(r) /\ r.job.kind \in {"search", "number"}
      /\ ~r.hit /\ r.got = {} /\ r.from = NoCheckpoint
      /\ r.job.kind = "search" => r.job \in SearchJob
      /\ r.known \in Seq(Line) /\ TextIn(files, r.pin) \in Seq(Line)
  BY ItsWork, StepsAre DEF IndexPrint, Active, OfJob
<1>2. CASE DescribesPinned(r.cand.id, r.pin) /\ Goes(p, t)
  <2>1. /\ IsWork(t) /\ t.pc = AfterIndex(p) /\ t.job = r.job /\ t.pin = r.pin /\ t.known = r.known
        /\ t.got = r.got /\ t.hit = r.hit /\ t.from = checkpoint /\ t.data = r.data /\ t.steady = r.steady
    BY <1>1 DEF IsWork, Fields
  <2>2. /\ r.job.kind = "search" => t.pc = "read"
        /\ r.job.kind = "number" => t.pc = "count"
    BY <2>1 DEF AfterIndex
  <2>3. r.steady => TrueIndex(r.cand.checkpoints, TextIn(files, r.pin)) /\ Agree(r.known, TextIn(files, r.pin))
    BY <1>1, <1>2 DEF Active, OfJob, Cached, DescribesPinned
  <2>4. ASSUME r.steady, r.job.kind = "search", checkpoint # NoCheckpoint
        PROVE  /\ TrueStart(checkpoint, TextIn(files, r.pin))
               /\ \A m \in ScanOf(r.known, r.job.list) : checkpoint.line + r.job.before <= m.number
    <3>1. r.data = RecordsOf(r.known, r.job.list) /\ r.data # {}
      BY <1>1, <2>4 DEF Active, Cached, Hitting, IndexSteps
    <3>2. first = Min({m.offset : m \in RecordsOf(r.known, r.job.list)})
      BY <2>4, <3>1 DEF Wanted
    <3>3. checkpoint = CheckpointForContext(r.cand.checkpoints, first, r.job.before)
      BY <2>4
    <3>4. r.job.list \in Seq(Patterns) /\ r.job.before \in Nat
      BY <1>1, <2>4, OfSearchJob
    <3> HIDE DEF first, checkpoint, r
    <3> QED
      BY <1>1, <2>3, <2>4, <3>1, <3>2, <3>3, <3>4, RoomForFirst
  <2>5. ASSUME r.steady, r.job.kind = "number", checkpoint # NoCheckpoint
        PROVE  TrueStart(checkpoint, TextIn(files, r.pin))
    <3>1. checkpoint = FindNearestCheckpointForOffset(r.cand.checkpoints, first)
      BY <2>5
    <3> HIDE DEF first, checkpoint, r
    <3> QED
      BY <2>3, <2>5, <3>1, NearestIsTrue
  <2> HIDE DEF t, r, checkpoint
  <2>6. OfJob(files, t)
    BY <1>1, <2>1, <2>2, StepsAre DEF Active, OfJob
  <2>7. Cached(files, t)
    <3>1. t.pc \in {"read", "count"} /\ t.steady /\ t.from # NoCheckpoint =>
              /\ TrueStart(t.from, TextIn(files, t.pin))
              /\ t.pc = "read" => \A m \in ScanOf(t.known, t.job.list) : t.from.line + t.job.before <= m.number
      BY <1>1, <2>1, <2>2, <2>4, <2>5
    <3>2. t.pc \in Hitting /\ t.job.kind = "search" /\ t.steady => t.data = RecordsOf(t.known, t.job.list)
      BY <1>1, <2>1 DEF Active, Cached, Hitting, IndexSteps
    <3> QED
      BY <1>1, <2>1, <2>2, <3>1, <3>2 DEF Cached, IndexSteps
  <2>8. Scanned(files, t) /\ Answered(files, t)
    BY <1>1, <2>1, <2>2 DEF Scanned, Answered, Scanning, Building
  <2> QED
    BY <1>2, <2>6, <2>7, <2>8 DEF Active, GoesRight
<1>3. CASE IndexIsStale(p)
  BY <1>1, <1>3, StaleRight
<1> QED
  BY <1>2, <1>3 DEF IndexPrint

LEMMA ReadHitRight ==
    ASSUME CachesAssumption, Inv, NEW p \in Procs, ReadHit(p)
    PROVE  GoesRight(p)
<1> DEFINE r == proc[p]
           text == files[r.pin.inode].text
           start == StartAt(r.from)
           pass == reconstructLines(text, start, r.data, r.job)
           got == IF r.data = {} THEN {} ELSE AnswerOf(pass.matches, pass.emitted, r.job)
           t == [r EXCEPT !.pc = "done", !.hit = TRUE, !.got = got]
<1>1. /\ r.pc = "read" /\ Active(files, r) /\ IsWork(r) /\ r.job.kind = "search" /\ r.job \in SearchJob
      /\ r.known \in Seq(Line) /\ TextIn(files, r.pin) \in Seq(Line)
  BY ItsWork, StepsAre DEF ReadHit
<1>2. Goes(p, t)
  BY DEF ReadHit
<1>3. /\ IsWork(t) /\ t.pc = "done" /\ t.job = r.job /\ t.pin = r.pin /\ t.known = r.known
      /\ t.got = got /\ t.steady = r.steady
  BY <1>1 DEF IsWork, Fields
<1>4. ASSUME r.steady
      PROVE  HitIsScan(files, t)
  <2>1. r.data = RecordsOf(r.known, r.job.list) /\ Agree(r.known, text)
    BY <1>1, <1>4 DEF Active, OfJob, Cached, Hitting, TextIn
  <2>2. CASE r.data = {}
    <3>1. ScanOf(r.known, r.job.list) = {}
      BY <2>1, <2>2 DEF RecordsOf
    <3>2. got = {}
      BY <2>2
    <3> QED
      BY <1>3, <3>1, <3>2 DEF HitIsScan, FirstOf
  <2>3. CASE r.data # {}
    <3>1. /\ r.from # NoCheckpoint => /\ TrueStart(r.from, text)
                                      /\ \A m \in ScanOf(r.known, r.job.list) : r.from.line + r.job.before <= m.number
      BY <1>1, <1>4 DEF Active, Cached, TextIn
    <3>2. text \in Seq(Line)
      BY <1>1 DEF TextIn
    <3>3. GoodStart(start, text) /\ (r.from = NoCheckpoint => start.line = 1)
          /\ (r.from # NoCheckpoint => start.line = r.from.line)
      BY <3>1, <3>2, StartAtIsGood
    <3>4. PassFits(r.known, text, r.job, start)
      BY <1>1, <2>1, <3>1, <3>2, <3>3 DEF PassFits
    <3>5. pass = reconstructLines(text, start, RecordsOf(r.known, r.job.list), r.job)
      BY <2>1
    <3>6. got = AnswerOf(pass.matches, pass.emitted, r.job)
      BY <2>3
    <3> HIDE DEF pass, got, start, r, text
    <3>7. /\ {g.match : g \in got} = FirstOf(ScanOf(r.known, r.job.list), r.job.cap)
          /\ \A g \in got :
                 /\ g.window \intersect DOMAIN r.known = WindowOf(g.match.number, DOMAIN r.known, r.job)
                 /\ g.window \subseteq DOMAIN text
      BY <3>4, <3>5, <3>6, AnswerIsScan
    <3> QED
      BY <1>3, <3>7 DEF HitIsScan, text
  <2> QED
    BY <2>2, <2>3
<1> HIDE DEF t, r, got
<1>5. OfJob(files, t)
  BY <1>1, <1>3, StepsAre DEF Active, OfJob
<1>6. Cached(files, t) /\ Scanned(files, t)
  BY <1>3 DEF Cached, Scanned, Hitting, IndexSteps, Scanning, Building
<1>7. Answered(files, t)
  BY <1>1, <1>3, <1>4 DEF Answered
<1> QED
  BY <1>2, <1>5, <1>6, <1>7 DEF Active, GoesRight

LEMMA CountLinesRight ==
    ASSUME CachesAssumption, Inv, NEW p \in Procs, CountLines(p)
    PROVE  GoesRight(p)
<1> DEFINE r == proc[p]
           text == files[r.pin.inode].text
           start == StartAt(r.from)
           got == countLinesToOffsets(text, start, Unnumbered(r))
           t == [r EXCEPT !.pc = "done", !.got = got]
<1>1. /\ r.pc = "count" /\ Active(files, r) /\ IsWork(r) /\ r.job.kind = "number" /\ r.job \in NumberJob
      /\ r.known \in Seq(Line) /\ TextIn(files, r.pin) \in Seq(Line) /\ ~r.hit
  BY ItsWork, StepsAre, JobsAre DEF CountLines, Active, OfJob
<1>2. CASE Goes(p, t)
  <2>1. /\ IsWork(t) /\ t.pc = "done" /\ t.job = r.job /\ t.pin = r.pin /\ t.known = r.known
        /\ t.got = got /\ t.steady = r.steady
    BY <1>1 DEF IsWork, Fields
  <2>2. ASSUME r.steady
        PROVE  NumbersAreTrue(t)
    <3>1. Agree(r.known, text) /\ (r.from = NoCheckpoint \/ TrueStart(r.from, text)) /\ text \in Seq(Line)
      BY <1>1, <2>2 DEF Active, OfJob, Cached, TextIn
    <3>2. GoodStart(start, text)
      BY <3>1, StartAtIsGood
    <3>3. r.job.skip \in Nat
      BY <1>1 DEF NumberJob
    <3>4. \A w \in Unnumbered(r) : \E i \in 1 .. Len(r.known) : w = StartOf(r.known, i)
      BY <3>3 DEF Unnumbered
    <3> HIDE DEF start, r, text
    <3>5. \A n \in countLinesToOffsets(text, start, Unnumbered(r)) : n.offset = StartOf(r.known, n.line)
      BY <1>1, <3>1, <3>2, <3>4, CountIsTrue
    <3> QED
      BY <2>1, <3>5 DEF NumbersAreTrue, got
  <2> HIDE DEF t, r, got
  <2>3. OfJob(files, t)
    BY <1>1, <2>1, StepsAre DEF Active, OfJob
  <2>4. Cached(files, t) /\ Scanned(files, t)
    BY <2>1 DEF Cached, Scanned, Hitting, IndexSteps, Scanning, Building
  <2>5. Answered(files, t)
    BY <1>1, <2>1, <2>2 DEF Answered
  <2> QED
    BY <1>2, <2>3, <2>4, <2>5 DEF Active, GoesRight
<1>3. CASE Ends(p)
  BY <1>1, <1>3, EndsRight
<1> QED
  BY <1>2, <1>3 DEF CountLines
LEMMA IdentifyRight ==
    ASSUME CachesAssumption, Inv, NEW p \in Procs, Identify(p)
    PROVE  GoesRight(p)
<1> DEFINE r == proc[p]
           id == identityOf(r.pin, SourceFingerprint(files[path].text))
           t == [r EXCEPT !.pc = "scanHead", !.id = id]
<1>1. /\ r.pc = "identify" /\ Active(files, r) /\ IsWork(r) /\ r.job.kind = "search"
      /\ ~r.hit /\ r.got = {} /\ r.from = NoCheckpoint
  BY ItsWork, StepsAre DEF Identify, Active, OfJob
<1>2. Goes(p, t)
  BY DEF Identify
<1>3. /\ IsWork(t) /\ t.pc = "scanHead" /\ t.job = r.job /\ t.pin = r.pin /\ t.known = r.known /\ t.got = r.got
      /\ t.hit = r.hit /\ t.from = r.from /\ t.steady = r.steady /\ t.id = id
  BY <1>1 DEF IsWork, Fields
<1>4. id.inode = r.pin.inode /\ id.ctime = r.pin.ctime /\ id.size = r.pin.size
  BY DEF identityOf
<1> HIDE DEF t, r, id
<1>5. OfJob(files, t)
  BY <1>1, <1>3, StepsAre DEF Active, OfJob
<1>6. Cached(files, t) /\ Scanned(files, t) /\ Answered(files, t)
  BY <1>3, <1>4 DEF Cached, Scanned, Answered, Hitting, IndexSteps
<1> QED
  BY <1>2, <1>5, <1>6 DEF Active, GoesRight

\* The first line, and the text, as they are read of a file that is still
\* as it was checked.
LEMMA HeadIsFirst ==
    ASSUME CachesAssumption, Inv, NEW p \in Procs, proc[p].pc # "idle", Still(files, proc[p].pin)
    PROVE  /\ ReadHead(p, proc[p].pin.size) = FirstLine(TextIn(files, proc[p].pin))
           /\ proc[p].head = FirstLine(TextIn(files, proc[p].pin)) =>
                  ReadOn(p, proc[p].pin.size) = TextIn(files, proc[p].pin)
<1> DEFINE text == files[proc[p].pin.inode].text
<1>1. text \in Seq(Line) /\ text = TextIn(files, proc[p].pin)
  BY ItsWork DEF TextIn
<1>2. proc[p].pin.size = SizeOf(text)
  BY DEF Still, TextIn
<1>3. Prefix(text, proc[p].pin.size) = text
  BY <1>1, <1>2, PrefixIsWhole
<1>4. ReadHead(p, proc[p].pin.size) = FirstLine(text)
  BY <1>3 DEF ReadHead, FirstLine
<1>5. ReadOn(p, proc[p].pin.size) = LinesAfter(Prefix(text, SizeOf(text)), proc[p].head)
  BY <1>2 DEF ReadOn, LinesAfter
<1> HIDE DEF text
<1>6. proc[p].head = FirstLine(text) => ReadOn(p, proc[p].pin.size) = text
  BY <1>1, <1>5, ReadInTwo
<1> QED
  BY <1>1, <1>4, <1>6

LEMMA ScanHeadRight ==
    ASSUME CachesAssumption, Inv, NEW p \in Procs, ScanHead(p)
    PROVE  GoesRight(p)
<1> DEFINE r == proc[p]
           head == ReadHead(p, r.pin.size)
           t == [r EXCEPT !.pc = "scanTail", !.head = head]
<1>1. /\ r.pc = "scanHead" /\ Active(files, r) /\ IsWork(r) /\ r.job.kind = "search"
      /\ ~r.hit /\ r.got = {} /\ r.from = NoCheckpoint
  BY ItsWork, StepsAre DEF ScanHead, Active, OfJob
<1>2. CASE Goes(p, t)
  <2>1. /\ IsWork(t) /\ t.pc = "scanTail" /\ t.job = r.job /\ t.pin = r.pin /\ t.known = r.known /\ t.got = r.got
        /\ t.hit = r.hit /\ t.from = r.from /\ t.steady = r.steady /\ t.id = r.id /\ t.head = head
    BY <1>1 DEF IsWork, Fields
  <2>2. Still(files, r.pin) => head = FirstLine(TextIn(files, r.pin))
    BY <1>1, HeadIsFirst
  <2> HIDE DEF t, r, head
  <2>3. OfJob(files, t)
    BY <1>1, <2>1, StepsAre DEF Active, OfJob
  <2>4. Cached(files, t) /\ Answered(files, t)
    BY <2>1 DEF Cached, Answered, Hitting, IndexSteps
  <2>5. Scanned(files, t)
    BY <1>1, <2>1, <2>2 DEF Active, Scanned, Scanning, Building
  <2> QED
    BY <1>2, <2>3, <2>4, <2>5 DEF Active, GoesRight
<1>3. CASE Ends(p)
  BY <1>1, <1>3, EndsRight
<1> QED
  BY <1>2, <1>3 DEF ScanHead

LEMMA ScanTailRight ==
    ASSUME CachesAssumption, Inv, NEW p \in Procs, ScanTail(p)
    PROVE  GoesRight(p)
<1> DEFINE r == proc[p]
           pc == IF r.job.cap = 0 THEN "saveStat" ELSE "done"
           data == ScanOf(ReadOn(p, r.pin.size), r.job.list)
           t == [r EXCEPT !.pc = pc, !.data = data]
<1>1. /\ r.pc = "scanTail" /\ Active(files, r) /\ IsWork(r) /\ r.job.kind = "search"
      /\ ~r.hit /\ r.got = {} /\ r.from = NoCheckpoint
  BY ItsWork, StepsAre DEF ScanTail, Active, OfJob
<1>2. CASE Goes(p, t)
  <2>1. /\ IsWork(t) /\ t.pc = pc /\ t.job = r.job /\ t.pin = r.pin /\ t.known = r.known /\ t.got = r.got
        /\ t.hit = r.hit /\ t.from = r.from /\ t.steady = r.steady /\ t.id = r.id /\ t.data = data
    BY <1>1 DEF IsWork, Fields
  <2>2. pc \in {"saveStat", "done"}
    OBVIOUS
  <2>3. Still(files, r.pin) => data = ScanOf(TextIn(files, r.pin), r.job.list)
    BY <1>1, HeadIsFirst DEF Active, Scanned
  <2> HIDE DEF t, r, pc, data
  <2>4. OfJob(files, t)
    BY <1>1, <2>1, <2>2, StepsAre DEF Active, OfJob
  <2>5. Cached(files, t) /\ Answered(files, t)
    BY <1>1, <2>1, <2>2 DEF Cached, Answered, Hitting, IndexSteps
  <2>6. Scanned(files, t)
    BY <1>1, <2>1, <2>2, <2>3 DEF Active, Scanned, Scanning, Building
  <2> QED
    BY <1>2, <2>4, <2>5, <2>6 DEF Active, GoesRight
<1>3. CASE Ends(p)
  BY <1>1, <1>3, EndsRight
<1> QED
  BY <1>2, <1>3 DEF ScanTail

\* A save's checks read the path only.
LEMMA SaveChecksRight ==
    ASSUME CachesAssumption, Inv, NEW p \in Procs, SaveStat(p) \/ SavePrint(p)
    PROVE  GoesRight(p)
<1> DEFINE r == proc[p]
<1>1. /\ r.pc \in {"saveStat", "savePrint"} /\ Active(files, r) /\ IsWork(r) /\ r.job.kind = "search"
      /\ ~r.hit /\ r.got = {} /\ r.from = NoCheckpoint
  BY ItsWork, StepsAre DEF SaveStat, SavePrint, Active, OfJob
<1>2. ASSUME NEW pc \in {"savePrint", "rename"}, Goto(p, pc)
      PROVE  GoesRight(p)
  <2> DEFINE t == [r EXCEPT !.pc = pc]
  <2>1. /\ IsWork(t) /\ t.pc = pc /\ t.job = r.job /\ t.pin = r.pin /\ t.known = r.known /\ t.got = r.got
        /\ t.hit = r.hit /\ t.from = r.from /\ t.steady = r.steady /\ t.id = r.id /\ t.data = r.data
    BY <1>1, ItsPlace
  <2> HIDE DEF t, r
  <2>2. OfJob(files, t)
    BY <1>1, <2>1, StepsAre DEF Active, OfJob
  <2>3. Cached(files, t) /\ Answered(files, t)
    BY <2>1 DEF Cached, Answered, Hitting, IndexSteps
  <2>4. Scanned(files, t)
    BY <1>1, <2>1 DEF Active, Scanned, Scanning, Building
  <2> QED
    BY <1>2, <2>2, <2>3, <2>4 DEF Active, GoesRight, Goto, r, t
<1>3. CASE Ends(p)
  BY <1>1, <1>3, EndsRight
<1> QED
  BY <1>2, <1>3 DEF SaveStat, SavePrint

\* What is renamed over the entry is true of the file it was scanned from.
LEMMA SaveCacheRight ==
    ASSUME CachesAssumption, Inv, NEW p \in Procs, SaveCache(p)
    PROVE  GoesRight(p) /\ (files' = files => EntryInv')
<1> DEFINE r == proc[p]
           records == {[offset |-> m.offset, pattern |-> m.pattern] : m \in r.data}
<1>1. r.pc = "rename" /\ Active(files, r) /\ r.job.kind = "search" /\ r.job \in Jobs
  BY ItsWork, StepsAre DEF SaveCache, Active, OfJob
<1>2. entry' = [state |-> "stored", id |-> r.id, patterns |-> r.job.list, records |-> records]
  BY DEF SaveCache
<1>3. entry'.id = r.id /\ entry'.patterns = r.job.list /\ entry'.records = records
  BY <1>2
<1>4. Recorded(files, r.pin) /\ r.id.inode = r.pin.inode /\ r.id.ctime = r.pin.ctime /\ r.id.size = r.pin.size
  BY <1>1 DEF Active, OfJob, Scanned, Scanning
<1>5. Recorded(files, r.id) /\ (Still(files, r.id) => Still(files, r.pin)) /\ TextIn(files, r.id) = TextIn(files, r.pin)
  BY <1>4 DEF Recorded, Still, TextIn
<1>6. Still(files, r.id) => records = RecordsOf(TextIn(files, r.id), r.job.list)
  BY <1>1, <1>5 DEF Active, Scanned, RecordsOf, RecordOf
<1> HIDE DEF r, records
<1>7. files' = files => EntryInv'
  BY <1>1, <1>3, <1>5, <1>6 DEF EntryInv, EntryTrue
<1> QED
  BY <1>1, <1>7, EndsRight DEF SaveCache, r

LEMMA BuildRight ==
    ASSUME CachesAssumption, Inv, NEW p \in Procs, BuildOpen(p) \/ BuildIdentify(p) \/ BuildHead(p) \/ BuildTail(p)
    PROVE  GoesRight(p)
<1> DEFINE r == proc[p]
<1>1. /\ r.pc \in {"buildOpen", "buildIdentify", "buildHead", "buildTail"}
      /\ Active(files, r) /\ IsWork(r) /\ r.job.kind = "build"
      /\ ~r.hit /\ r.got = {} /\ r.from = NoCheckpoint
  BY ItsWork, StepsAre DEF BuildOpen, BuildIdentify, BuildHead, BuildTail, Active, OfJob
<1>2. ASSUME NEW t, Goes(p, t), IsWork(t), t.pc \in {"buildIdentify", "buildHead", "buildTail", "buildSave"},
             t.job = r.job, t.pin = r.pin, t.known = r.known, t.got = r.got,
             t.hit = r.hit, t.from = r.from, t.steady = r.steady, Scanned(files, t)
      PROVE  GoesRight(p)
  <2>1. OfJob(files, t)
    BY <1>1, <1>2, StepsAre DEF Active, OfJob
  <2>2. Cached(files, t) /\ Answered(files, t)
    BY <1>1, <1>2 DEF Cached, Answered, Hitting, IndexSteps
  <2> QED
    BY <1>2, <2>1, <2>2 DEF Active, GoesRight
<1>3. CASE BuildOpen(p)
  <2> DEFINE t == [r EXCEPT !.pc = "buildIdentify"]
  <2>1. CASE Goto(p, "buildIdentify")
    <3>1. /\ IsWork(t) /\ t.pc = "buildIdentify" /\ t.job = r.job /\ t.pin = r.pin /\ t.known = r.known
          /\ t.got = r.got /\ t.hit = r.hit /\ t.from = r.from /\ t.steady = r.steady
      BY <1>1, ItsPlace
    <3>2. Scanned(files, t)
      BY <3>1 DEF Scanned, Scanning, Building
    <3>3. Goes(p, t)
      BY <2>1 DEF Goto
    <3> HIDE DEF t, r
    <3> QED
      BY <1>2, <3>1, <3>2, <3>3
  <2>2. CASE Ends(p)
    BY <1>1, <2>2, EndsRight
  <2> QED
    BY <1>3, <2>1, <2>2 DEF BuildOpen
<1>4. CASE BuildIdentify(p)
  <2> DEFINE id == identityOf(r.pin, SourceFingerprint(files[r.pin.inode].text))
             t == [r EXCEPT !.pc = "buildHead", !.id = id]
  <2>1. /\ IsWork(t) /\ t.pc = "buildHead" /\ t.job = r.job /\ t.pin = r.pin /\ t.known = r.known
        /\ t.got = r.got /\ t.hit = r.hit /\ t.from = r.from /\ t.steady = r.steady /\ t.id = id
    BY <1>1 DEF IsWork, Fields
  <2>2. id.inode = r.pin.inode /\ id.ctime = r.pin.ctime /\ id.size = r.pin.size
    BY DEF identityOf
  <2>3. Goes(p, t)
    BY <1>4 DEF BuildIdentify
  <2> HIDE DEF t, r, id
  <2>4. Scanned(files, t)
    BY <2>1, <2>2 DEF Scanned, Scanning, Building
  <2> QED
    BY <1>2, <2>1, <2>3, <2>4
<1>5. CASE BuildHead(p)
  <2> DEFINE head == ReadHead(p, r.pin.size)
             t == [r EXCEPT !.pc = "buildTail", !.head = head]
  <2>1. /\ IsWork(t) /\ t.pc = "buildTail" /\ t.job = r.job /\ t.pin = r.pin /\ t.known = r.known
        /\ t.got = r.got /\ t.hit = r.hit /\ t.from = r.from /\ t.steady = r.steady /\ t.head = head /\ t.id = r.id
    BY <1>1 DEF IsWork, Fields
  <2>2. Still(files, r.pin) => head = FirstLine(TextIn(files, r.pin))
    BY <1>1, HeadIsFirst
  <2>3. Goes(p, t) /\ r.pc = "buildHead"
    BY <1>5 DEF BuildHead
  <2> HIDE DEF t, r, head
  <2>4. Scanned(files, t)
    BY <1>1, <2>1, <2>2, <2>3 DEF Active, Scanned, Scanning, Building
  <2> QED
    BY <1>2, <2>1, <2>3, <2>4
<1>6. CASE BuildTail(p)
  <2> DEFINE head == ReadOn(p, r.pin.size)
             t == [r EXCEPT !.pc = "buildSave", !.head = head]
  <2>1. /\ IsWork(t) /\ t.pc = "buildSave" /\ t.job = r.job /\ t.pin = r.pin /\ t.known = r.known
        /\ t.got = r.got /\ t.hit = r.hit /\ t.from = r.from /\ t.steady = r.steady /\ t.head = head /\ t.id = r.id
    BY <1>1 DEF IsWork, Fields
  <2>2. Goes(p, t) /\ r.pc = "buildTail"
    BY <1>6 DEF BuildTail
  <2>3. Still(files, r.pin) => head = TextIn(files, r.pin)
    BY <1>1, <2>2, HeadIsFirst DEF Active, Scanned
  <2> HIDE DEF t, r, head
  <2>4. Scanned(files, t)
    BY <1>1, <2>1, <2>2, <2>3 DEF Active, Scanned, Scanning, Building
  <2> QED
    BY <1>2, <2>1, <2>2, <2>4
<1> QED
  BY <1>3, <1>4, <1>5, <1>6

LEMMA BuildSaveRight ==
    ASSUME CachesAssumption, Inv, NEW p \in Procs, BuildSave(p)
    PROVE  GoesRight(p) /\ (files' = files => IndexInv')
<1> DEFINE r == proc[p]
           checkpoints == walkLines(r.head, Step)
<1>1. r.pc = "buildSave" /\ Active(files, r) /\ TextIn(files, r.pin) \in Seq(Line)
  BY ItsWork DEF BuildSave
<1>2. index' = [state |-> "stored", id |-> r.id, checkpoints |-> checkpoints]
  BY DEF BuildSave
<1>3. index'.id = r.id /\ index'.checkpoints = checkpoints
  BY <1>2
<1>4. Recorded(files, r.pin) /\ r.id.inode = r.pin.inode /\ r.id.ctime = r.pin.ctime /\ r.id.size = r.pin.size
  BY <1>1 DEF Active, OfJob, Scanned, Building
<1>5. Recorded(files, r.id) /\ (Still(files, r.id) => Still(files, r.pin)) /\ TextIn(files, r.id) = TextIn(files, r.pin)
  BY <1>4 DEF Recorded, Still, TextIn
<1>6. ASSUME Still(files, r.id) PROVE TrueIndex(checkpoints, TextIn(files, r.id))
  <2>1. r.head = TextIn(files, r.pin)
    BY <1>1, <1>5, <1>6 DEF Active, Scanned
  <2>2. Step \in Nat
    BY DEF CachesAssumption
  <2> QED
    BY <1>1, <1>5, <2>1, <2>2, WalkIsTrue
<1> HIDE DEF r, checkpoints
<1>7. files' = files => IndexInv'
  BY <1>3, <1>5, <1>6 DEF IndexInv, IndexTrue
<1> QED
  BY <1>1, <1>7, EndsRight DEF BuildSave, r
-----------------------------------------------------------------------------
(* The invariant                                                           *)

LEMMA InitInv ==
    ASSUME CachesAssumption, Init
    PROVE  Inv
<1>1. files \in [Inodes -> [text : Texts, mtime : {1}, ctime : {1}]]
  BY DEF Init, Inodes
<1>2. \A i \in Inodes : files[i].text \in Texts /\ files[i].mtime = 1 /\ files[i].ctime = 1
  BY <1>1
<1>3. \A i \in Inodes : files[i] \in [text : Seq(Line), mtime : Nat, ctime : Nat]
  <2>1. Texts \subseteq Seq(Line)
    BY DEF CachesAssumption
  <2>2. \A i \in Inodes : files[i] \in [text : Texts, mtime : {1}, ctime : {1}]
    BY <1>1
  <2> QED
    BY <2>1, <2>2
<1>4. files \in Files
  BY <1>1, <1>3 DEF Files
<1>5. FilesInv
  BY <1>2, <1>4 DEF FilesInv, Init, Inodes
<1>6. ASSUME NEW i \in Inodes, NEW id, id = identityOf(Stat(i), SourceFingerprint(files[i].text))
      PROVE  Recorded(files, id) /\ TextIn(files, id) = files[i].text
  <2>1. id.inode = i /\ id.ctime = files[i].ctime /\ id.size = SizeOf(files[i].text)
    BY <1>6 DEF identityOf, Stat
  <2>2. files[i].ctime \in Nat /\ SizeOf(files[i].text) \in Nat
    BY <1>4, TextOfFile
  <2> QED
    BY <2>1, <2>2 DEF Recorded, TextIn
<1>7. EntryInv
  <2>1. PICK i \in Inodes, job \in {j \in Jobs : j.kind = "search"} :
            entry \in {NoEntry, [state |-> "stored", patterns |-> job.list,
                                 id |-> identityOf(Stat(i), SourceFingerprint(files[i].text)),
                                 records |-> {[offset |-> m.offset, pattern |-> m.pattern] :
                                                 m \in ScanOf(files[i].text, job.list)}]}
    BY DEF Init, Inodes
  <2> DEFINE id == identityOf(Stat(i), SourceFingerprint(files[i].text))
             records == {[offset |-> m.offset, pattern |-> m.pattern] : m \in ScanOf(files[i].text, job.list)}
  <2>2. CASE entry = NoEntry
    BY <2>2 DEF NoEntry, EntryInv
  <2>3. CASE entry = [state |-> "stored", patterns |-> job.list, id |-> id, records |-> records]
    <3>1. entry.patterns = job.list /\ entry.id = id /\ entry.records = records
      BY <2>3
    <3>2. Recorded(files, id) /\ TextIn(files, id) = files[i].text
      BY <1>6
    <3>3. records = RecordsOf(files[i].text, job.list)
      BY DEF RecordsOf, RecordOf
    <3> HIDE DEF id, records
    <3> QED
      BY <2>1, <3>1, <3>2, <3>3 DEF EntryInv, EntryTrue
  <2> QED
    BY <2>1, <2>2, <2>3
<1>8. IndexInv
  <2>1. PICK i \in Inodes :
            index \in {NoIndex, [state |-> "stored", checkpoints |-> walkLines(files[i].text, Step),
                                 id |-> identityOf(Stat(i), SourceFingerprint(files[i].text))]}
    BY DEF Init, Inodes
  <2> DEFINE id == identityOf(Stat(i), SourceFingerprint(files[i].text))
             checkpoints == walkLines(files[i].text, Step)
  <2>2. CASE index = NoIndex
    BY <2>2 DEF NoIndex, IndexInv
  <2>3. CASE index = [state |-> "stored", checkpoints |-> checkpoints, id |-> id]
    <3>1. index.id = id /\ index.checkpoints = checkpoints
      BY <2>3
    <3>2. Recorded(files, id) /\ TextIn(files, id) = files[i].text
      BY <1>6
    <3>3. TrueIndex(checkpoints, files[i].text)
      BY <1>4, TextOfFile, WalkIsTrue DEF CachesAssumption
    <3> HIDE DEF id, checkpoints
    <3> QED
      BY <3>1, <3>2, <3>3 DEF IndexInv, IndexTrue
  <2> QED
    BY <2>1, <2>2, <2>3
<1>9. proc = [p \in Procs |-> Idle]
  BY DEF Init
<1>10. ProcInv
  BY <1>9 DEF ProcInv
<1> QED
  BY <1>5, <1>7, <1>8, <1>10 DEF Inv

\* A process's own step changes nothing that the others know of.
LEMMA OwnStep ==
    ASSUME ProcInv, NEW p \in Procs, GoesRight(p), files' = files
    PROVE  ProcInv'
<1>1. PICK r : proc' = [proc EXCEPT ![p] = r] /\ (r = Idle \/ Active(files, r))
  BY DEF GoesRight, Goes
<1>2. DOMAIN proc' = Procs /\ \A q \in Procs : proc'[q] = IF q = p THEN r ELSE proc[q]
  BY <1>1 DEF ProcInv
<1> QED
  BY <1>1, <1>2 DEF ProcInv

LEMMA TrueOfMoved ==
    ASSUME NEW F \in Files, NEW G \in Files, Moved(F, G)
    PROVE  /\ \A id, records, list : EntryTrue(F, id, records, list) => EntryTrue(G, id, records, list)
           /\ \A id, checkpoints : IndexTrue(F, id, checkpoints) => IndexTrue(G, id, checkpoints)
BY StillBack DEF EntryTrue, IndexTrue

LEMMA InvStep ==
    ASSUME CachesAssumption, Inv, [Next]_vars, [WriteMovesTheCtime]_files
    PROVE  Inv'
<1>1. FilesInv' /\ Moved(files, files') /\ files \in Files /\ files' \in Files
  BY FileChanges DEF Inv, FilesInv
<1>2. UNCHANGED entry => EntryInv'
  BY <1>1, TrueOfMoved DEF Inv, EntryInv
<1>3. UNCHANGED index => IndexInv'
  BY <1>1, TrueOfMoved DEF Inv, IndexInv
<1>4. ASSUME NEW p \in Procs, UNCHANGED <<disk, entry, index>>, GoesRight(p)
      PROVE  Inv'
  BY <1>1, <1>2, <1>3, <1>4, OwnStep DEF Inv, disk
<1>5. ASSUME NEW p \in Procs, Begin(p)
      PROVE  Inv'
  BY <1>4, <1>5, BeginRight DEF Begin
<1>6. ASSUME NEW p \in Procs, Search(p)
      PROVE  Inv'
  <2>1. CASE SaveCache(p)
    BY <1>1, <1>3, <2>1, SaveCacheRight, OwnStep DEF SaveCache, Inv, disk
  <2>2. CASE ~SaveCache(p)
    <3>1. GoesRight(p)
      BY <1>6, <2>2, LookupRight, CheckStatRight, CheckPrintRight, OpenHitRight, ReadHitRight, IdentifyRight,
         ScanHeadRight, ScanTailRight, SaveChecksRight DEF Search
    <3>2. UNCHANGED <<disk, entry, index>>
      BY <1>6, <2>2 DEF Search, Lookup, CheckStat, CheckPrint, OpenHit, ReadHit, Identify, ScanHead, ScanTail,
                        SaveStat, SavePrint
    <3> QED
      BY <1>4, <3>1, <3>2
  <2> QED
    BY <2>1, <2>2
<1>7. ASSUME NEW p \in Procs, Build(p)
      PROVE  Inv'
  <2>1. CASE BuildSave(p)
    BY <1>1, <1>2, <2>1, BuildSaveRight, OwnStep DEF BuildSave, Inv, disk
  <2>2. CASE ~BuildSave(p)
    <3>1. GoesRight(p)
      BY <1>7, <2>2, BuildRight DEF Build
    <3>2. UNCHANGED <<disk, entry, index>>
      BY <1>7, <2>2 DEF Build, BuildOpen, BuildIdentify, BuildHead, BuildTail
    <3> QED
      BY <1>4, <3>1, <3>2
  <2> QED
    BY <2>1, <2>2
<1>8. ASSUME NEW p \in Procs, LoadForPinned(p) \/ CountLines(p)
      PROVE  Inv'
  <2>1. GoesRight(p)
    BY <1>8, IndexLoadRight, IndexStatRight, IndexPrintRight, CountLinesRight DEF LoadForPinned
  <2>2. UNCHANGED <<disk, entry, index>>
    BY <1>8 DEF LoadForPinned, IndexLoad, IndexStat, IndexPrint, CountLines
  <2> QED
    BY <1>4, <2>1, <2>2
<1>9. ASSUME NEW p \in Procs, Leave(p)
      PROVE  Inv'
  <2>1. GoesRight(p)
    BY <1>9 DEF Leave, GoesRight
  <2> QED
    BY <1>4, <1>9, <2>1 DEF Leave
<1>10. ASSUME files' = files, proc' = proc
       PROVE  ProcInv'
  BY <1>10 DEF Inv, ProcInv
<1>11. CASE Damage
  <2>1. EntryInv' /\ IndexInv'
    BY <1>11 DEF Damage, NoEntry, NoIndex, EntryInv, IndexInv
  <2> QED
    BY <1>1, <1>10, <1>11, <2>1 DEF Damage, Inv
<1>12. CASE Retarget \/ UNCHANGED vars
  BY <1>1, <1>2, <1>3, <1>10, <1>12 DEF Retarget, vars, Inv
<1>13. CASE Append_
  <2>1. PICK t \in Clock, line \in Appended :
            files' = [files EXCEPT ![path] = [text |-> Append(files[path].text, line), mtime |-> t, ctime |-> t]]
    BY <1>13 DEF Append_, Becomes
  <2>2. line \in Line /\ path \in Inodes
    BY DEF CachesAssumption, Inv, FilesInv
  <2>3. ASSUME NEW i \in Inodes PROVE Agree(files[i].text, files'[i].text)
    <3>1. files[i].text \in Seq(Line)
      BY <1>1, TextOfFile
    <3>2. files'[i].text = files[i].text \/ files'[i].text = Append(files[i].text, line)
      BY <1>1, <2>1, <2>2 DEF Files
    <3> QED
      BY <2>2, <3>1, <3>2, Appending, AgreeItself
  <2>4. ASSUME NEW p \in Procs, proc[p] # Idle PROVE Active(files', proc[p])
    <3>1. Active(files, proc[p]) /\ proc[p].pin.inode \in Inodes
      BY <2>4 DEF Inv, ProcInv, Active, OfJob, Recorded
    <3> QED
      BY <1>1, <2>3, <3>1, KeepActive DEF TextIn
  <2>5. ProcInv'
    BY <1>13, <2>4 DEF Append_, Inv, ProcInv
  <2> QED
    BY <1>1, <1>2, <1>3, <1>13, <2>5 DEF Append_, Inv
<1>14. CASE Rewrite
  <2>1. PICK file : files' = [files EXCEPT ![path] = file]
    BY <1>14 DEF Rewrite, Becomes
  <2>2. proc' = [p \in Procs |-> IF proc[p].pc # "idle" /\ proc[p].pin.inode = path
                                 THEN [proc[p] EXCEPT !.steady = FALSE] ELSE proc[p]]
    BY <1>14 DEF Rewrite
  <2>3. ASSUME NEW p \in Procs, proc'[p] # Idle PROVE Active(files', proc'[p])
    <3>1. proc[p] # Idle
      BY <2>2, <2>3 DEF Idle
    <3>2. Active(files, proc[p]) /\ proc[p].pin.inode \in Inodes /\ IsWork(proc[p])
      BY <3>1 DEF Inv, ProcInv, Active, OfJob, Recorded
    <3>3. proc[p].pc # "idle"
      BY <3>2, JobsAre, StepsAre DEF Active, OfJob
    <3>4. CASE proc[p].pin.inode = path
      <4>1. proc'[p] = [proc[p] EXCEPT !.steady = FALSE]
        BY <2>2, <3>3, <3>4
      <4>2. ~[proc[p] EXCEPT !.steady = FALSE].steady
        BY <3>2 DEF IsWork, Fields
      <4> QED
        BY <1>1, <3>2, <4>1, <4>2, KeepActive
    <3>5. CASE proc[p].pin.inode # path
      <4>1. proc'[p] = proc[p]
        BY <2>2, <3>5
      <4>2. TextIn(files', proc[p].pin) = TextIn(files, proc[p].pin)
        BY <1>1, <2>1, <3>2, <3>5 DEF TextIn, Files
      <4>3. TextIn(files, proc[p].pin) \in Seq(Line)
        BY <1>1, <3>2, TextOfFile DEF TextIn
      <4> QED
        BY <1>1, <3>2, <4>1, <4>2, <4>3, AgreeItself, KeepActive
    <3> QED
      BY <3>4, <3>5
  <2>4. ProcInv'
    BY <2>2, <2>3 DEF ProcInv
  <2> QED
    BY <1>1, <1>2, <1>3, <1>14, <2>4 DEF Rewrite, Inv
<1> QED
  BY <1>5, <1>6, <1>7, <1>8, <1>9, <1>11, <1>12, <1>13, <1>14 DEF Next

LEMMA InvImplies ==
    ASSUME Inv
    PROVE  HitsAreScans /\ IndexedNumbersAreTrue
<1>1. ASSUME NEW p \in Procs, proc[p].pc = "done"
      PROVE  Answered(files, proc[p])
  BY <1>1 DEF Inv, ProcInv, Active, Idle
<1>2. HitsAreScans
  BY <1>1 DEF HitsAreScans, Finished, Answered, HitIsScan
<1>3. IndexedNumbersAreTrue
  BY <1>1 DEF IndexedNumbersAreTrue, Finished, Answered, NumbersAreTrue
<1> QED
  BY <1>2, <1>3

\* If every write that does not lengthen a file moves its ctime, what the
\* entry, the index and each process hold is true of the file it was taken
\* of, whoever ran between any two of their steps.
THEOREM CachesInvariance == Spec /\ WritesMoveTheCtime => []Inv
<1>1. Init => Inv
  BY CachesAssumption, InitInv
<1>2. Inv /\ [Next]_vars /\ [WriteMovesTheCtime]_files => Inv'
  BY CachesAssumption, InvStep
<1> QED
  BY <1>1, <1>2, PTL DEF Spec, WritesMoveTheCtime

\* Then an answer made from the trace cache is the one a scan gives
\* (engine.go: loadValidCache; reconstruct.go).
THEOREM AnswersAreScans == Spec /\ WritesMoveTheCtime => []HitsAreScans
BY CachesInvariance, InvImplies, PTL

\* And lines numbered with an index have their true numbers (lineresolve.go,
\* pinned_load.go).
THEOREM NumbersStayTrue == Spec /\ WritesMoveTheCtime => []IndexedNumbersAreTrue
BY CachesInvariance, InvImplies, PTL
=============================================================================

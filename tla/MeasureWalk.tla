---------------------------- MODULE MeasureWalk ----------------------------
(***************************************************************************)
(* The measures of a signature scan that look at more than one line        *)
(* (internal/sigscan: longline.go, timegaps.go, density.go): what the walk *)
(* of one chunk hands the merge, and what the merge makes of it.           *)
(*                                                                         *)
(* A line has a length, and a stamped line a time in ms.  Each measure has *)
(* an edge (of a chunk) and a gathering (in the merge).  Sizes of buckets, *)
(* and how many of them a series may have, are parameters.                 *)
(***************************************************************************)
EXTENDS SignatureWalk

CONSTANTS Ladder,       \* densityLadder: bucket sizes, each a multiple of the one before
          Target,       \* densityTargetBuckets
          MaxSlots,     \* maxSeriesBuckets
          GapLimit      \* the engine's gapLimit

MeasureAssumption ==
    /\ Ladder # << >> /\ \A i \in 1 .. Len(Ladder) - 1 : Ladder[i + 1] % Ladder[i] = 0
    /\ Target > 0 /\ MaxSlots > 2 /\ GapLimit > 0

Item(idx, l, tm, ex) == [start |-> idx, end |-> idx, off |-> l.start, tm |-> tm, ex |-> ex]
Moved(f, by) == [f EXCEPT !.start = @ + by, !.end = @ + by]

\* The stamped lines of a walk, as line numbers from 1, and the last one up to i.
StampedLines(lines) == SelectSeq([i \in DOMAIN lines |-> i], LAMBDA i : lines[i].stamped)
LastStamped(lines, i) ==
    LET before == {j \in 1 .. i : lines[j].stamped}
    IN  IF before = {} THEN NoStamp ELSE lines[Max(before)].start
TimeOf(lines, i) == TimeAt(LastStamped(lines, i), FALSE, lines[i].start)

SortedNumbers(s) == SortSeq(s, LAMBDA a, b : a < b)
LowerMedian(s) == SortedNumbers(s)[((Len(s) - 1) \div 2) + 1]

-----------------------------------------------------------------------------
(* long-line: a line of p.minBytes or more, at least p.factor times the    *)
(* lower median of its p.window neighbours on each side.                   *)

\* longAgainst, by counting.
LongAgainst(p, length, others) ==
    /\ length >= p.minBytes /\ others # << >>
    /\ Len(SelectSeq(others, LAMBDA v : v <= length \div p.factor)) >= ((Len(others) - 1) \div 2) + 1

\* The lengths around position i of a sequence of lengths.
Around(lengths, i, window) ==
    SubSeq(lengths, Max({1, i - window}), i - 1) \o SubSeq(lengths, i + 1, Min({i + window, Len(lengths)}))

\* A chunk decides the lines that have all their neighbours in it, when the last
\* of them comes, and leaves the others to the merge.
WalkLong(p, lines, fullFrom) ==
    LET n == Len(lines)
        lengths == [i \in 1 .. n |-> lines[i].length]
        long == SelectSeq([i \in 1 .. n |-> i], LAMBDA i : lengths[i] >= p.minBytes)
        inside == SelectSeq(long, LAMBDA i : i > p.window /\ i + p.window <= n)
        edge == SelectSeq(long, LAMBDA i : i <= p.window \/ i + p.window > n)
        Candidate(i) == Item(i - 1, lines[i], TimeOf(lines, i), i - 1 < fullFrom)
        Decide(sink, i) ==
            Keep(sink, IF LongAgainst(p, lengths[i], Around(lengths, i, p.window))
                       THEN << Candidate(i) >> ELSE << >>, p.cap, i - 1 + p.window >= fullFrom)
    IN  [sink |-> FoldLeft(Decide, [found |-> << >>, count |-> 0], inside),
         edge |-> [head |-> SubSeq(lengths, 1, Min({2 * p.window, n})),
                   tail |-> SubSeq(lengths, n - Min({2 * p.window, n}) + 1, n),
                   cands |-> [k \in DOMAIN edge |-> [at |-> edge[k] - 1, length |-> lengths[edge[k]],
                                                     item |-> Candidate(edge[k])]]]]

\* longLineMerge: the lengths of the lines from `from` on, and the candidates that
\* wait for the neighbours after them.
NewLong == [lengths |-> << >>, from |-> 0, queue |-> << >>]

\* decide: in order, until one still waits (none does at the end of the text).
Decided(p, g, final) ==
    LET end == g.from + Len(g.lengths)
        waits == {k \in DOMAIN g.queue : ~final /\ g.queue[k].at + p.window >= end}
        n == IF waits = {} THEN Len(g.queue) ELSE Min(waits) - 1
        Long(c) == LongAgainst(p, c.length, Around(g.lengths, c.at - g.from + 1, p.window))
        long == SelectSeq(SubSeq(g.queue, 1, n), Long)
    IN  [g |-> [g EXCEPT !.queue = SubSeq(@, n + 1, Len(@))], out |-> [k \in DOMAIN long |-> long[k].item]]

\* trim drops the lengths no candidate can need any more.
Trimmed(p, g) ==
    LET end == g.from + Len(g.lengths)
        keep == Min({end - p.window} \union {g.queue[k].at - p.window : k \in DOMAIN g.queue})
    IN  IF keep <= g.from THEN g
        ELSE [g EXCEPT !.lengths = SubSeq(@, keep - g.from + 1, Len(@)), !.from = keep]

\* add: the candidates near the chunk's start are decided before the chunk's own
\* findings, those near its end wait.
LongEnqueued(p, g, edge, base, near) ==
    LET some == SelectSeq(edge.cands, LAMBDA c : near <=> c.at < p.window)
    IN  [g EXCEPT !.queue = @ \o [k \in DOMAIN some |-> [some[k] EXCEPT !.at = @ + base, !.item = Moved(@, base)]]]
LongStart(p, g, edge, base) ==
    Decided(p, LongEnqueued(p, [g EXCEPT !.lengths = @ \o edge.head], edge, base, TRUE), FALSE)
LongEnd(p, g, edge, base, n) ==
    LET overlap == Len(edge.head) - (n - Len(edge.tail))
        known == IF overlap >= 0
                 THEN [g EXCEPT !.lengths = @ \o SubSeq(edge.tail, overlap + 1, Len(edge.tail))]
                 ELSE [g EXCEPT !.lengths = edge.tail, !.from = base + n - Len(edge.tail)]
    IN  Trimmed(p, LongEnqueued(p, known, edge, base, FALSE))

-----------------------------------------------------------------------------
(* time-backwards: a stamped line more than p.tolerance before the stamped *)
(* line before it.                                                         *)

WalkBack(p, lines, fullFrom) ==
    LET at == StampedLines(lines)
        Own(i) == Item(i - 1, lines[i], lines[i].start, i - 1 < fullFrom)
        Pair(sink, k) ==
            Keep(sink, IF k > 1 /\ lines[at[k - 1]].ms - lines[at[k]].ms > p.tolerance
                       THEN << Own(at[k]) >> ELSE << >>, p.cap, at[k] - 1 >= fullFrom)
    IN  [sink |-> FoldLeftDomain(Pair, [found |-> << >>, count |-> 0], at),
         edge |-> IF at = << >> THEN << >> ELSE << [item |-> Own(at[1]), ms |-> lines[at[1]].ms] >>]

\* A chunk's first stamped line against the last one before the chunk.
BackAtEdge(p, edge, stamp, ms, base) ==
    IF edge # << >> /\ stamp # NoStamp /\ ms - edge[1].ms > p.tolerance
    THEN << Moved(edge[1].item, base) >> ELSE << >>

-----------------------------------------------------------------------------
(* time-gap: a silence of at least p.minGap and p.factor times the median  *)
(* interval between two stamped lines.                                     *)

\* intervalBucket and intervalValue: three significant digits.
Digits(v) == CHOOSE d \in 4 .. 10 : v < 10 ^ d /\ (d = 4 \/ v >= 10 ^ (d - 1))
IntervalBucket(v) ==
    IF v < 1000 THEN v ELSE 1000 + (Digits(v) - 4) * 900 + (v \div 10 ^ (Digits(v) - 3)) - 100
IntervalValue(b) ==
    IF b < 1000 THEN b ELSE (((b - 1000) % 900) + 100) * 10 ^ (((b - 1000) \div 900) + 1)

Counted(delta) == IntervalBucket(Max({delta, 0}))

\* gapKeeper: at most 2 * GapLimit candidates, and the longest one dropped so far.
NewKeeper == [items |-> << >>, cutoff |-> -1]
Raised(k, cutoff) ==
    IF cutoff <= k.cutoff THEN k
    ELSE [items |-> SelectSeq(k.items, LAMBDA c : c.delta > cutoff), cutoff |-> cutoff]
Compacted(k) ==
    IF Len(k.items) <= GapLimit THEN k
    ELSE Raised(k, SortedNumbers([i \in DOMAIN k.items |-> k.items[i].delta])[Len(k.items) - GapLimit])
KeptToo(k, c) ==
    LET more == [k EXCEPT !.items = Append(@, c)]
    IN  IF c.delta <= k.cutoff THEN k
        ELSE IF Len(more.items) >= 2 * GapLimit THEN Compacted(more) ELSE more

\* The line before line i, as the start of a finding that ends on i.
Before(lines, i, fullFrom) == Item(i - 2, lines[i - 1], TimeOf(lines, i - 1), i - 1 < fullFrom)
Gap(delta, from, idx) == [delta |-> delta, item |-> [from EXCEPT !.end = idx]]

WalkGap(p, lines, fullFrom) ==
    LET at == StampedLines(lines)
        Delta(k) == lines[at[k]].ms - lines[at[k - 1]].ms
        Pair(k, j) == IF j = 1 \/ Delta(j) < p.minGap THEN k
                      ELSE KeptToo(k, Gap(Delta(j), Before(lines, at[j], fullFrom), at[j] - 1))
    IN  [sink |-> [found |-> << >>, count |-> 0],
         edge |-> [first |-> IF at = << >> THEN << >>
                             ELSE << [at |-> at[1] - 1, ms |-> lines[at[1]].ms,
                                      before |-> IF at[1] = 1 THEN << >>
                                                 ELSE << Before(lines, at[1], fullFrom) >>] >>,
                   intervals |-> [k \in 1 .. Len(at) - 1 |-> Counted(Delta(k + 1))],
                   kept |-> FoldLeftDomain(Pair, NewKeeper, at)]]

NewGap == [intervals |-> << >>, kept |-> NewKeeper]

\* gapMerge.add: the merge takes the chunk's cutoff first, then the pair at the
\* edge, then the chunk's candidates.
GapAdded(p, g, edge, stamp, ms, lastLine, base) ==
    LET raised == Raised(g.kept, edge.kept.cutoff)
        f == edge.first[1]
        delta == f.ms - ms
        from == IF f.before = << >> THEN lastLine ELSE Moved(f.before[1], base)
        paired == edge.first # << >> /\ stamp # NoStamp
        first == IF paired /\ delta >= p.minGap
                 THEN KeptToo(raised, Gap(delta, from, base + f.at)) ELSE raised
        Taken(k, c) == KeptToo(k, [c EXCEPT !.item = Moved(@, base)])
    IN  [intervals |-> g.intervals \o (IF paired THEN << Counted(delta) >> ELSE << >>) \o edge.intervals,
         kept |-> FoldLeft(Taken, first, edge.kept.items)]

GapFindings(p, g) ==
    LET median == IF g.intervals = << >> THEN 0 ELSE IntervalValue(LowerMedian(g.intervals))
        long == SelectSeq(Compacted(g.kept).items, LAMBDA c : c.delta >= p.factor * median)
    IN  [i \in DOMAIN long |-> long[i].item]

-----------------------------------------------------------------------------
(* density: bursts of lines over time.  A histogram holds slots of `level` *)
(* ms: slot k the lines of the times [k * level, (k + 1) * level).         *)

SlotsFor(span, b) == (span \div b) + 2

\* The bucket of a span: the signature's own, or the smallest size of the ladder
\* that gives at most Target buckets, doubled until the series is short enough.
BucketOf(p, span) ==
    LET fits == {i \in DOMAIN Ladder : Ladder[i] * Target >= span}
        b == IF p.bucket > 0 THEN p.bucket ELSE Ladder[IF fits = {} THEN Len(Ladder) ELSE Min(fits)]
        doublings == CHOOSE d \in 0 .. 20 : /\ SlotsFor(span, b * 2 ^ d) <= MaxSlots
                                            /\ \A e \in 0 .. d - 1 : SlotsFor(span, b * 2 ^ e) > MaxSlots
    IN  b * 2 ^ doublings

NewHist == [level |-> 0, slots |-> << >>, min |-> 0, max |-> 0]

\* Two parts of the same slot: the earlier first line, the later last line.
SlotMerged(a, b) ==
    [count |-> a.count + b.count, first |-> IF b.first.start < a.first.start THEN b.first ELSE a.first,
     last |-> Max({a.last, b.last})]
PutSlot(slots, k, s) ==
    IF k \in DOMAIN slots THEN [slots EXCEPT ![k] = SlotMerged(@, s)] ELSE (k :> s) @@ slots

Coarsened(h, level) ==
    LET ratio == level \div h.level
        Regrouped(slots, k) == PutSlot(slots, k \div ratio, h.slots[k])
    IN  [h EXCEPT !.level = level, !.slots = FoldLeft(Regrouped, << >>, SetToSortSeq(DOMAIN h.slots, <))]

Widened(p, h, lo, hi) ==
    LET wide == [h EXCEPT !.min = Min({@, lo}), !.max = Max({@, hi})]
        need == BucketOf(p, wide.max - wide.min)
    IN  IF h.level = 0 THEN [h EXCEPT !.min = lo, !.max = hi, !.level = BucketOf(p, hi - lo)]
        ELSE IF need > h.level THEN Coarsened(wide, need) ELSE wide

CountedAt(p, h, ms, s) ==
    LET wide == Widened(p, h, ms, ms)
    IN  [wide EXCEPT !.slots = PutSlot(@, ms \div wide.level, s)]

\* Lines before the chunk's first stamped line are left to the merge.
WalkDensity(p, lines, fullFrom) ==
    LET at == StampedLines(lines)
        lead == IF at = << >> THEN Len(lines) ELSE at[1] - 1
        Effective(i) == lines[Max({j \in 1 .. i : lines[j].stamped})].ms
        Count(h, i) == IF i <= lead THEN h
                       ELSE CountedAt(p, h, Effective(i),
                                      [count |-> 1, last |-> i - 1,
                                       first |-> Item(i - 1, lines[i], LastStamped(lines, i), i - 1 < fullFrom)])
    IN  [sink |-> [found |-> << >>, count |-> 0],
         edge |-> [leading |-> lead, hist |-> FoldLeftDomain(Count, NewHist, lines)]]

\* densityMerge.add: the leading lines go to the slot of the last stamped line
\* before the chunk, then absorb adds the chunk's slots.
Led(h, k, edge, base) ==
    [h EXCEPT !.slots[k].count = @ + edge.leading, !.slots[k].last = Max({@, base + edge.leading - 1})]
LedAt(h, edge, ms, base) == Led(h, ms \div h.level, edge, base)
LedBy(p, h, edge, stamp, ms, base) ==
    IF edge.leading = 0 \/ stamp = NoStamp THEN h ELSE LedAt(Widened(p, h, ms, ms), edge, ms, base)
AtLeast(h, level) == IF level > h.level THEN Coarsened(h, level) ELSE h
SlotsAdded(h, o, base) ==
    LET Absorbed(slots, k) == PutSlot(slots, k \div (h.level \div o.level),
                                      [o.slots[k] EXCEPT !.first = Moved(@, base), !.last = @ + base])
    IN  [h EXCEPT !.slots = FoldLeft(Absorbed, @, SetToSortSeq(DOMAIN o.slots, <))]
Absorbing(p, h, o, base) ==
    IF o.level = 0 THEN h ELSE SlotsAdded(AtLeast(Widened(p, h, o.min, o.max), o.level), o, base)
DensityAdded(p, h, edge, stamp, ms, base) == Absorbing(p, LedBy(p, h, edge, stamp, ms, base), edge.hist, base)

\* A bucket is a burst: p.factor times the median, a modified z-score over p.z,
\* at least p.minCount lines; the median and the MAD of the buckets that hold one.
BurstAbove(p, count, med, mad) ==
    /\ count >= p.minCount /\ count >= p.factor * med
    /\ IF mad = 0 THEN count > med ELSE 6745 * (count - med) > 10000 * p.z * mad
Mad(held, med) == LowerMedian([i \in DOMAIN held |-> Max({held[i] - med, med - held[i]})])
BurstsAround(p, h, held, med) ==
    {k \in DOMAIN h.slots : BurstAbove(p, h.slots[k].count, med, Mad(held, med))}
BurstsOf(p, h, held) == BurstsAround(p, h, held, LowerMedian(held))

\* finish: consecutive bursts are one finding; the series counts every bucket.
FindingAt(h, stretch) ==
    LET first == CHOOSE f \in {h.slots[j].first : j \in stretch} :
                    \A j \in stretch : f.start <= h.slots[j].first.start
    IN  [first EXCEPT !.end = Max({h.slots[j].last : j \in stretch})]
BurstFindings(h, bursts) ==
    LET starts == SetToSortSeq({k \in bursts : k - 1 \notin bursts}, <)
        Stretch(k) == {j \in bursts : k <= j /\ k .. j \subseteq bursts}
    IN  SortSeq([i \in DOMAIN starts |-> FindingAt(h, Stretch(starts[i]))],
                LAMBDA f, g : f.start < g.start \/ (f.start = g.start /\ f.end < g.end))
SeriesOf(h, b, lo, hi) ==
    << b, lo * b, [i \in 1 .. hi - lo + 1 |->
                      IF lo + i - 1 \in DOMAIN h.slots THEN h.slots[lo + i - 1].count ELSE 0] >>
DensityOf(p, h, b, keys) ==
    [out |-> BurstFindings(h, BurstsOf(p, h, [i \in DOMAIN keys |-> h.slots[keys[i]].count])),
     series |-> SeriesOf(h, b, keys[1], Last(keys))]
DensityAt(p, h, b) == DensityOf(p, h, b, SetToSortSeq(DOMAIN h.slots, <))
DensityIn(p, h, b) == DensityAt(p, AtLeast(h, b), b)
DensityResult(p, h) ==
    IF h.level = 0 THEN [out |-> << >>, series |-> << >>] ELSE DensityIn(p, h, BucketOf(p, h.max - h.min))

-----------------------------------------------------------------------------
\* One chunk's walk for a measure.
WalkMeasure(p, lines, fullFrom) ==
    CASE p.kind = "long" -> WalkLong(p, lines, fullFrom)
      [] p.kind = "back" -> WalkBack(p, lines, fullFrom)
      [] p.kind = "gap" -> WalkGap(p, lines, fullFrom)
      [] p.kind = "density" -> WalkDensity(p, lines, fullFrom)

\* The walk of one chunk for any signature: the chunk's own findings, what it
\* hands the merge, its last line and its last stamped line.
Measured(lines, final, at, walked) ==
    [lines |-> lines, final |-> final, stamp |-> LastStamped(lines, Len(lines)),
     found |-> walked.sink.found, count |-> walked.sink.count, open |-> FALSE,
     st |-> NoState, edges |-> NoEdges, stamped |-> Len(at), edge |-> walked.edge]
WalkOf(p, lines, final, fullFrom, at) ==
    IF p.kind \in {"long", "back", "gap", "density"}
    THEN Measured(lines, final, at, WalkMeasure(p, lines, fullFrom))
    ELSE [edge |-> << >>] @@ Walk(p, lines, final, fullFrom)
WithLast(walked, lines, at, n, fullFrom) ==
    [ms |-> IF at = << >> THEN 0 ELSE lines[Last(at)].ms,
     lastLine |-> IF n = 0 THEN NoPiece ELSE Item(n - 1, lines[n], TimeOf(lines, n), n < fullFrom)] @@ walked
WalkStamped(p, lines, final, fullFrom, at) ==
    WithLast(WalkOf(p, lines, final, fullFrom, at), lines, at, Len(lines), fullFrom)
WalkChunk(p, lines, final, fullFrom) == WalkStamped(p, lines, final, fullFrom, StampedLines(lines))

=============================================================================

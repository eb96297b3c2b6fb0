----------------------------- MODULE ChunkMerge -----------------------------
(***************************************************************************)
(* The merge of a signature scan (internal/sigscan: merge.go, chunks.go).  *)
(*                                                                         *)
(* A text is cut into chunks of bytes, or into batches of whole lines;     *)
(* each is walked on its own (SignatureWalk) and the merge takes the       *)
(* results in text order and builds the answer a walk of the whole text    *)
(* gives: runs are joined at the edges, a chunk the text enters inside an  *)
(* open block is walked again, measures over several lines are gathered,   *)
(* times are settled, and the body recorders' blocks and runs become the   *)
(* masked lines.                                                           *)
(***************************************************************************)
EXTENDS MeasureWalk

CONSTANTS Scans,        \* the signatures and texts: [program, text, broken]
          MaxCuts       \* bound: how many cuts a text has at most

VARIABLES text,         \* the lines of the text: [kind, len, stamped, ms]
          broken,       \* the last line has its line break
          program,      \* the signature
          plan,         \* the chunks: [lines, final]
          merger,       \* << >>, then << the merge's state for the signature >>
          answer        \* << >>, then << the result >>

vars == <<text, broken, program, plan, merger, answer>>

-----------------------------------------------------------------------------
(* Chunks of a text. *)

Offset(t, i) == FoldLeft(LAMBDA sum, l : sum + l.len, 0, SubSeq(t, 1, i - 1))
Size(t) == Offset(t, Len(t) + 1)

\* The lines as a walk sees them.
LinesOf(t) ==
    [i \in DOMAIN t |-> [kind |-> t[i].kind, start |-> Offset(t, i), length |-> t[i].len - 1,
                         stamped |-> t[i].stamped, ms |-> t[i].ms]]

\* Where the line breaks are.
Breaks(t, b) == {Offset(t, i + 1) - 1 : i \in IF b THEN DOMAIN t ELSE 1 .. Len(t) - 1}

\* Where the first line of a chunk starts: after the first line break at or
\* after its nominal start.
Aligned(t, b, from) ==
    IF from = 0 THEN 0
    ELSE LET after == {x \in Breaks(t, b) : x >= from}
         IN  IF after = {} THEN Size(t) ELSE Min(after) + 1

\* walkChunk: the lines that start in [aligned(from), to]; it has reached the end
\* of the text when no line starts after `to`.
ChunkOf(t, b, from, to) ==
    [lines |-> SelectSeq(LinesOf(t), LAMBDA l : Aligned(t, b, from) <= l.start /\ l.start <= to),
     final |-> \A i \in DOMAIN t : Offset(t, i) <= to]

PlanOf(t, b, cuts) ==
    LET bounds == << 0 >> \o SetToSortSeq(cuts, <) \o << Size(t) >>
    IN  [k \in 1 .. Len(bounds) - 1 |-> ChunkOf(t, b, bounds[k], bounds[k + 1])]

\* The decoder's batches: whole lines, the last one final, empty when the text
\* ends where a batch is cut.
BatchesOf(t, ends) ==
    LET bounds == << 0 >> \o SetToSortSeq(ends, <) \o << Len(t) >>
    IN  [k \in 1 .. Len(bounds) - 1 |->
            [lines |-> SubSeq(LinesOf(t), bounds[k] + 1, bounds[k + 1]), final |-> k = Len(bounds) - 1]]

-----------------------------------------------------------------------------
(* The merge's state: what is stored and counted, the block or the run     *)
(* open across the edge before the next chunk, the number of lines so far, *)
(* the last stamped line, the last line and how many were stamped.         *)

NoCarry == [open |-> FALSE, st |-> NoState]
NewMerger == [stored |-> << >>, count |-> 0, carry |-> NoCarry, run |-> NoPiece, hasRun |-> FALSE,
              base |-> 0, stamp |-> NoStamp, ms |-> 0, lastLine |-> NoPiece, lastKind |-> Blank,
              stamped |-> 0, full |-> FALSE, long |-> NewLong, gap |-> NewGap, hist |-> NewHist]

Storing(p, m) == Len(m.stored) < p.cap

\* noteFull: the workers are told when nothing more can be stored.
Noted(p, m) == [m EXCEPT !.full = @ \/ ~Storing(p, m)]

\* take: a chunk's findings, numbered against the text, and its count.
TakeFound(p, m, found, count) ==
    Noted(p, [m EXCEPT !.count = @ + count,
                       !.stored = FirstOf(p.cap, @ \o [i \in DOMAIN found |-> Moved(found[i], m.base + 1)])])

\* mergeSink.add: what a replay, or the end of the text, reports.
Store(p, m, out, lineBase, counts) ==
    Noted(p, [m EXCEPT !.count = @ + (IF counts THEN Len(out) ELSE 0),
                       !.stored = FirstOf(p.cap, @ \o [i \in DOMAIN out |-> Moved(out[i], lineBase)])])

\* settleTimes: the times the chunk left open are decided from the last stamped
\* line before it.
SettledPiece(x, stamp) == [x EXCEPT !.tm = Settled(x.tm, x.off, stamp)]
SettledItem(x, stamp) == [x EXCEPT !.item = SettledPiece(@, stamp)]
SettledEdge(p, edge, stamp) ==
    CASE p.kind = "long" -> [edge EXCEPT !.cands = [i \in DOMAIN @ |-> SettledItem(@[i], stamp)]]
      [] p.kind = "gap" ->
            [edge EXCEPT !.first = [i \in DOMAIN @ |->
                                        [@[i] EXCEPT !.before = [k \in DOMAIN @ |-> SettledPiece(@[k], stamp)]]],
                         !.kept.items = [i \in DOMAIN @ |-> SettledItem(@[i], stamp)]]
      [] OTHER -> edge
SettleTimes(p, res, stamp) ==
    [res EXCEPT !.found = [i \in DOMAIN res.found |-> SettledPiece(res.found[i], stamp)],
                !.edge = SettledEdge(p, @, stamp),
                !.lastLine = SettledPiece(@, stamp),
                !.edges.leading = SettledPiece(@, stamp),
                !.edges.trailing = SettledPiece(@, stamp),
                !.st = SettledPiece(@, stamp)]

Carried(open, st, lines) ==
    IF open THEN [open |-> TRUE, st |-> [st EXCEPT !.start = @ - lines, !.last = @ - lines]] ELSE NoCarry

-----------------------------------------------------------------------------
(* Runs. *)

EmitRun(p, m, piece) == IF PieceLines(piece) < p.min THEN m ELSE Store(p, m, << piece >>, 1, TRUE)
CloseRun(p, m) == IF m.hasRun THEN EmitRun(p, [m EXCEPT !.hasRun = FALSE], m.run) ELSE m

Touching(p, m, res) ==
    /\ m.hasRun /\ res.edges.hasLeading
    /\ p.mode = "same" => m.lastKind = res.lines[1].kind

MergeRuns(p, m, res) ==
    LET e == res.edges
        joined == [m EXCEPT !.run.end = m.base + e.leading.end]
        leading == Moved(e.leading, m.base)
        closed == CloseRun(p, m)
        taken(x) == LET y == TakeFound(p, x, res.found, res.count)
                    IN  IF e.hasTrailing
                        THEN [y EXCEPT !.run = Moved(e.trailing, m.base), !.hasRun = TRUE] ELSE y
    IN  IF Touching(p, m, res)
        THEN IF e.whole THEN joined ELSE taken(CloseRun(p, joined))
        ELSE IF ~e.hasLeading THEN taken(closed)
             ELSE IF e.whole THEN [closed EXCEPT !.run = leading, !.hasRun = TRUE]
                  ELSE taken(EmitRun(p, closed, leading))

-----------------------------------------------------------------------------
(* Blocks that enter a chunk open: the true walk and a copy of the chunk's *)
(* own walk go over its lines together.                                    *)

\* converge: from this line on the chunk's own findings are the answer's; the ones
\* its walk made before are dropped.  When the chunk stored too few of them, the
\* true walk goes on storing the rest, which the chunk has counted.  The faulty
\* form never goes on.
FaultyConverge(p, r, res) ==
    [r EXCEPT !.m = TakeFound(p, [r.m EXCEPT !.count = @ + res.count - r.dropped,
                                             !.carry = Carried(res.open, res.st, Len(res.lines))],
                              SubSeq(res.found, r.dropped + 1, Len(res.found)), 0),
              !.phase = "done"]
Converge(p, r, res) ==
    LET rest == SubSeq(res.found, r.dropped + 1, Len(res.found))
        m == [r.m EXCEPT !.count = @ + res.count - r.dropped,
                         !.carry = Carried(res.open, res.st, Len(res.lines))]
        need == p.cap - Len(m.stored)
    IN  IF need <= 0 \/ res.count <= Len(res.found) \/ Len(rest) >= need
        THEN [r EXCEPT !.m = TakeFound(p, m, rest, 0), !.phase = "done"]
        ELSE [r EXCEPT !.m = m, !.phase = "extend"]

\* One line: t and o are what it makes of the true walk and of the copy.
Truly(p, r, t, stamp) ==
    [r EXCEPT !.stamp = stamp, !.truth = t.w, !.m = Store(p, @, t.out, r.m.base + 1, r.phase = "both")]
InStep(p, res, r, t, o) ==
    IF SameState(t.w, o.w) THEN Converge(p, r, res) ELSE r
Replayed(p, res, r, t, o, stamp) ==
    IF r.phase = "extend" THEN Truly(p, r, t, stamp)
    ELSE InStep(p, res, [Truly(p, r, t, stamp) EXCEPT !.own = o.w, !.dropped = @ + Len(o.out)], t, o)
Enough(p, r) == IF r.phase = "extend" /\ ~Storing(p, r.m) THEN [r EXCEPT !.phase = "done"] ELSE r

ReplayLine(p, res, r, i) ==
    LET l == res.lines[i]
        stamp == Observe(r.stamp, l)
        tm == TimeAt(stamp, TRUE, l.start)
    IN  IF r.phase = "done" THEN r
        ELSE Enough(p, Replayed(p, res, r, StepBlock(p, r.truth, l, i - 1, tm, Storing(p, r.m)),
                                StepBlock(p, r.own, l, i - 1, tm, FALSE), stamp))

ReplayEnds(p, res, r) ==
    CASE r.phase = "done" -> r.m
      [] r.phase # "done" /\ res.final ->
            IF r.truth.open
            THEN Store(p, r.m, Reported(p, r.truth.st), r.m.base + 1, r.phase = "both") ELSE r.m
      [] r.phase = "extend" /\ ~res.final -> r.m
      [] r.phase = "both" /\ ~res.final ->
            [r.m EXCEPT !.carry = Carried(r.truth.open, r.truth.st, Len(res.lines))]

ReplayBlocks(p, m, res) ==
    LET start == [truth |-> [open |-> TRUE, st |-> m.carry.st, joined |-> -1], own |-> Idle,
                  m |-> [m EXCEPT !.carry = NoCarry], dropped |-> 0, stamp |-> m.stamp, phase |-> "both"]
    IN  ReplayEnds(p, res, FoldLeftDomain(LAMBDA s, i : ReplayLine(p, res, s, i), start, res.lines))

-----------------------------------------------------------------------------
(* Measures: a finding at an edge of the chunk comes before the chunk's    *)
(* own, and one that waits for the lines after the chunk comes later.      *)

MergeLong(p, m, res) ==
    LET started == LongStart(p, m.long, res.edge, m.base)
        stored == Store(p, [m EXCEPT !.long = started.g], started.out, 1, TRUE)
    IN  [TakeFound(p, stored, res.found, res.count)
            EXCEPT !.long = LongEnd(p, @, res.edge, m.base, Len(res.lines))]
MergeBackwards(p, m, res) ==
    TakeFound(p, Store(p, m, BackAtEdge(p, res.edge, m.stamp, m.ms, m.base), 1, TRUE), res.found, res.count)
MergeMeasure(p, m, res) ==
    CASE p.kind = "long" -> MergeLong(p, m, res)
      [] p.kind = "back" -> MergeBackwards(p, m, res)
      [] p.kind = "gap" -> [m EXCEPT !.gap = GapAdded(p, @, res.edge, m.stamp, m.ms, m.lastLine, m.base)]
      [] p.kind = "density" -> [m EXCEPT !.hist = DensityAdded(p, @, res.edge, m.stamp, m.ms, m.base)]

-----------------------------------------------------------------------------
\* add: the next chunk, in text order.  An empty chunk changes nothing.
Merged(p, m, res) ==
    CASE p.kind = "run" -> MergeRuns(p, m, res)
      [] p.kind = "regex" -> TakeFound(p, m, res.found, res.count)
      [] p.kind = "block" /\ m.carry.open -> ReplayBlocks(p, m, res)
      [] p.kind = "block" /\ ~m.carry.open ->
            [TakeFound(p, m, res.found, res.count)
                EXCEPT !.carry = Carried(res.open, res.st, Len(res.lines))]
      [] OTHER -> MergeMeasure(p, m, res)
AddSettled(p, m, res) ==
    IF res.lines = << >> THEN m
    ELSE [Merged(p, m, res) EXCEPT
            !.base = @ + Len(res.lines), !.lastKind = Last(res.lines).kind,
            !.stamped = @ + res.stamped, !.lastLine = Moved(res.lastLine, m.base),
            !.ms = IF res.stamp = NoStamp THEN @ ELSE res.ms,
            !.stamp = IF res.stamp = NoStamp THEN @ ELSE res.stamp]
Add(p, m, walked) == AddSettled(p, m, SettleTimes(p, walked, m.stamp))

\* The runs of an `unprefixed` measure are dropped in a file with too few stamped
\* lines.
DroppedBelowShare(p, m) ==
    IF p.kind = "run" /\ p.mode = "unprefixed" /\ (m.base = 0 \/ m.stamped * 100 < p.share * m.base)
    THEN [m EXCEPT !.stored = << >>, !.count = 0] ELSE m

\* What is still open at the end of the text closes there.
Finished(p, m) ==
    DroppedBelowShare(p,
        CASE p.kind = "run" -> CloseRun(p, m)
          [] p.kind = "block" /\ m.carry.open ->
                Store(p, [m EXCEPT !.carry = NoCarry], Reported(p, m.carry.st), m.base + 1, TRUE)
          [] p.kind = "long" -> Store(p, m, Decided(p, m.long, TRUE).out, 1, TRUE)
          [] p.kind = "gap" -> Store(p, m, GapFindings(p, m.gap), 1, TRUE)
          [] p.kind = "density" -> Store(p, m, DensityResult(p, m.hist).out, 1, TRUE)
          [] OTHER -> m)

\* joinRanges: ranges that overlap or touch become one.
JoinRanges(ranges) ==
    LET Joined(out, r) ==
            IF out # << >> /\ r[1] <= Last(out)[2] + 1
            THEN Front(out) \o << << Last(out)[1], Max({Last(out)[2], r[2]}) >> >>
            ELSE Append(out, r)
    IN  FoldLeft(Joined, << >>, SortSeq(ranges, LAMBDA a, b : a[1] < b[1]))

\* bodyRanges: the lines after the first line of each body; a recorder that found
\* more bodies than it keeps masks the rest of the text.  The faulty form masks
\* the bodies it kept.
FaultyBodyRanges(m) ==
    LET bodies == SelectSeq(m.stored, LAMBDA f : f.end > f.start)
    IN  JoinRanges([i \in DOMAIN bodies |-> << bodies[i].start + 1, bodies[i].end >>])
BodyRanges(m) ==
    LET bodies == SelectSeq(m.stored, LAMBDA f : f.end > f.start)
        ranges == [i \in DOMAIN bodies |-> << bodies[i].start + 1, bodies[i].end >>]
        from == Last(m.stored).start + 1
    IN  JoinRanges(IF m.stored # << >> /\ m.count > Len(m.stored)
                   THEN Append(ranges, << from, Max({m.base, from}) >>) ELSE ranges)

Result(p, done, density) ==
    [findings |-> done.stored, count |-> done.count, lines |-> done.base,
     ranges |-> IF p.body THEN BodyRanges(done) ELSE << >>,
     series |-> IF p.kind = "density" THEN density.series ELSE << >>]
ResultOf(p, m) == Result(p, Finished(p, m), IF p.kind = "density" THEN DensityResult(p, m.hist) ELSE << >>)

-----------------------------------------------------------------------------
Init ==
    /\ \E scan \in Scans :
        text = scan.text /\ program = scan.program /\ broken = scan.broken
    /\ plan = << >>
    /\ merger = << >>
    /\ answer = << >>

\* At most MaxCuts members of a set of cuts.
SomeOf(cuts) == {Range(f) \ {0} : f \in [1 .. MaxCuts -> cuts \union {0}]}

\* A plain or seekable file is cut anywhere, a stream between two lines.
Plan ==
    /\ merger = << >>
    /\ \/ \E cuts \in SomeOf(1 .. Size(text) - 1) : plan' = PlanOf(text, broken, cuts)
       \/ \E ends \in SomeOf(DOMAIN text) : plan' = BatchesOf(text, ends)
    /\ merger' = << NewMerger >>
    /\ UNCHANGED <<text, broken, program, answer>>

Never == 100            \* a walk that does not see the flag

\* The next chunk's result is merged.  Its worker may have seen the flag from any
\* line on, if the merge had set it by then.
MergeChunk ==
    /\ plan # << >>
    /\ \E fullFrom \in {Never} \union (IF merger[1].full THEN 0 .. Len(Head(plan).lines) ELSE {}) :
        merger' = << Add(program, merger[1], WalkChunk(program, Head(plan).lines, Head(plan).final, fullFrom)) >>
    /\ plan' = Tail(plan)
    /\ UNCHANGED <<text, broken, program, answer>>

Finish ==
    /\ plan = << >> /\ merger # << >> /\ answer = << >>
    /\ answer' = << ResultOf(program, merger[1]) >>
    /\ UNCHANGED <<text, broken, program, plan, merger>>

\* The scan is over.
Over == answer # << >> /\ UNCHANGED vars

Next == Plan \/ MergeChunk \/ Finish \/ Over

Spec == Init /\ [][Next]_vars

-----------------------------------------------------------------------------
(* Properties. *)

\* The answer of a scan that walks the text in one piece.
InOnePiece(p) == ResultOf(p, Add(p, NewMerger, WalkChunk(p, LinesOf(text), TRUE, Never)))

\* The longest stretches of lines that qualify for a run, `min` lines or more.
Stretches(p) ==
    LET n == Len(text)
        Joins(i) == IF p.mode = "same" THEN text[i].kind = text[i - 1].kind ELSE TRUE
        Good(i) == Qualifies(p, text[i])
        Stretch(a, b) == /\ \A i \in a .. b : Good(i)
                         /\ \A i \in a + 1 .. b : Joins(i)
                         /\ a = 1 \/ ~Good(a - 1) \/ ~Joins(a)
                         /\ b = n \/ ~Good(b + 1) \/ ~Joins(b + 1)
    IN  {x \in (1 .. n) \X (1 .. n) : x[1] <= x[2] /\ x[2] - x[1] + 1 >= p.min /\ Stretch(x[1], x[2])}

\* What the measures promise, told from the whole text.
LineNumbers == DOMAIN text
StampedBefore(i) == {j \in 1 .. i - 1 : text[j].stamped}
\* The stamped lines, each with the one before it.
Pairs == {x \in LineNumbers \X LineNumbers :
            text[x[2]].stamped /\ StampedBefore(x[2]) # {} /\ x[1] = Max(StampedBefore(x[2]))}
Interval(x) == text[x[2]].ms - text[x[1]].ms

\* Lines of minBytes or more, factor times the lower median of their neighbours.
LongLines(p) ==
    LET others(i) == Around([k \in LineNumbers |-> text[k].len - 1], i, p.window)
    IN  {i \in LineNumbers : /\ text[i].len - 1 >= p.minBytes /\ others(i) # << >>
                             /\ text[i].len - 1 >= p.factor * LowerMedian(others(i))}
\* The intervals of minGap or more, but for those no longer than the
\* (GapLimit + 1)-th longest, that are factor times the median interval or more.
LongGaps(p) ==
    LET gaps == {x \in Pairs : Interval(x) >= p.minGap}
        sorted == SortedNumbers([k \in 1 .. Cardinality(gaps) |->
                                    Interval(SetToSeq(gaps)[k])])
        least == IF Len(sorted) <= GapLimit THEN 0 ELSE sorted[Len(sorted) - GapLimit] + 1
        pairs == SetToSeq(Pairs)
        median == IF Pairs = {} THEN 0
                  ELSE LowerMedian([k \in DOMAIN pairs |-> Max({Interval(pairs[k]), 0})])
    IN  {x \in gaps : Interval(x) >= least /\ Interval(x) >= p.factor * median}
\* How many lines fall on a time bucket; a line without a time has the last one's.
LinesAt(b, k) ==
    Cardinality({i \in LineNumbers : LET to == StampedBefore(i + 1)
                                     IN  to # {} /\ text[Max(to)].ms \div b = k})

MeasureIsTrue(p, result) ==
    CASE p.kind = "long" -> /\ result.count = Cardinality(LongLines(p))
                            /\ {f.start : f \in Range(result.findings)} \subseteq LongLines(p)
      [] p.kind = "back" -> result.count = Cardinality({x \in Pairs : -Interval(x) > p.tolerance})
      [] p.kind = "gap" -> {f.end : f \in Range(result.findings)} = {x[2] : x \in LongGaps(p)}
      [] p.kind = "density" /\ result.series # << >> ->
            LET b == result.series[1]
                first == result.series[2] \div b
            IN  result.series[3] = [i \in DOMAIN result.series[3] |-> LinesAt(b, first + i - 1)]
      [] OTHER -> TRUE

\* "The answer is the same for every number of workers, every chunk size and every
\* storage of the same text" (scan.go:94): however the text is cut, and whenever a
\* worker learns that no more findings are stored, the findings, their lines,
\* times and excerpts, the count and the masked lines are those of one walk of the
\* whole text; the runs are the longest stretches of lines that qualify, and a
\* measure reports what its definition says of the whole text.
AnswerIsChunkFree ==
    answer # << >> =>
        /\ answer[1] = InOnePiece(program)
        /\ \A i \in DOMAIN answer[1].findings : answer[1].findings[i].ex # program.body
        /\ program.kind = "run" /\ program.mode # "unprefixed" =>
            /\ answer[1].count = Cardinality(Stretches(program))
            /\ {<< f.start, f.end >> : f \in Range(answer[1].findings)} \subseteq Stretches(program)
        /\ MeasureIsTrue(program, answer[1])

\* No line of a redacting block or run after its first line is left unmasked, even
\* when there are more bodies than the recorder keeps (merge.go: bodyRanges), and
\* the masked ranges are in order and apart.
BodiesAreMasked ==
    answer # << >> /\ program.body =>
        LET ranges == answer[1].ranges
            all == InOnePiece([program EXCEPT !.cap = 2 * Len(text)]).findings
        IN  /\ \A f \in Range(all) : \A line \in f.start + 1 .. f.end :
                    \E r \in Range(ranges) : r[1] <= line /\ line <= r[2]
            /\ \A i \in 1 .. Len(ranges) - 1 : ranges[i][2] + 1 < ranges[i + 1][1]

=============================================================================

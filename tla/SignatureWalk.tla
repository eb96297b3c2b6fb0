--------------------------- MODULE SignatureWalk ---------------------------
(***************************************************************************)
(* How one signature is followed over consecutive lines of a text          *)
(* (internal/sigscan: walk.go, block.go, jsonblock.go, run.go, times.go).  *)
(*                                                                         *)
(* A line is a record [kind, start, stamped]: the kind stands for what the *)
(* patterns match on it and for its bytes, start is its offset, stamped    *)
(* says it has a timestamp of its own.  The time of a stamped line is told *)
(* by the offset of that line.  Line indexes count from 0 at the first     *)
(* line of the walk, as in the code.                                       *)
(***************************************************************************)
EXTENDS Integers, Sequences, SequencesExt

CONSTANTS Lookback      \* Options.LookbackBytes

\* A time is the offset of the stamped line it comes from, or one of these.
NoTime == -1
Pending == -2           \* the merge decides
NoStamp == -1           \* no stamped line so far

\* A stamped line gives its time to what starts at most Lookback bytes after it.
Within(stamp, start) ==
    IF stamp = NoStamp \/ start - stamp > Lookback THEN NoTime ELSE stamp

\* The last stamped line at or before a line.
Observe(stamp, l) == IF l.stamped THEN l.start ELSE stamp

\* The time of what starts at `start`.  A walk that does not know the lines
\* before its own leaves the time open.
TimeAt(stamp, settled, start) ==
    IF stamp = NoStamp /\ ~settled THEN Pending ELSE Within(stamp, start)

Settled(tm, start, stamp) == IF tm = Pending THEN Within(stamp, start) ELSE tm

-----------------------------------------------------------------------------
(* Blocks.  A program has a form:                                          *)
(*   "states"  rules[s] are the rules of state s, each [on, next, end]     *)
(*   "lines"   the start line and the next `lines` lines                   *)
(*   "json"    bracket count; delta[k] is what a line of kind k adds       *)
(* with anchor and not (kinds), minLines, maxLines and body (it is the     *)
(* body recorder of a redacting signature).                                *)

Blank == "blank"
NoState == [state |-> 0, remaining |-> 0, start |-> 0, off |-> 0, lines |-> 0, last |-> 0,
            ex |-> FALSE, tm |-> NoTime, depth |-> 0]
Idle == [open |-> FALSE, st |-> NoState, joined |-> -100]

\* The first rule of a state that matches the line: none, or one.
RuleFor(p, state, kind) ==
    LET hits == SelectSeq(p.rules[state], LAMBDA r : kind \in r.on)
    IN  IF hits = << >> THEN << >> ELSE << hits[1] >>

Join(w, l, idx) ==
    [w EXCEPT !.joined = idx, !.st.lines = @ + 1,
              !.st.last = IF l.kind = Blank THEN @ ELSE idx]

\* What a closing block reports: nothing when it is too short without its
\* trailing blank lines.  A body recorder's block keeps them.
Reported(p, st) ==
    IF st.last - st.start + 1 < p.minLines THEN << >>
    ELSE << [start |-> st.start, off |-> st.off, tm |-> st.tm, ex |-> st.ex,
             end |-> IF p.body THEN st.start + st.lines - 1 ELSE st.last] >>

\* Results of a step: the walker after it, what it reported, in order.
Closed(p, w) == [w |-> [w EXCEPT !.open = FALSE], out |-> Reported(p, w.st)]
Kept(w) == [w |-> w, out |-> << >>]
ClosedIf(cond, p, w) == IF cond THEN Closed(p, w) ELSE Kept(w)

\* The bracket count of a JSON block: a count below zero, or a balance on any
\* line but the closer at the opener's indent, abandons it.
FeedJSON(p, w, l, idx) ==
    LET depth == w.st.depth + p.delta[l.kind]
        taken == Join([w EXCEPT !.st.depth = depth], l, idx)
    IN  IF depth < 0 \/ (depth = 0 /\ l.kind \notin p.closers)
        THEN Kept([w EXCEPT !.open = FALSE, !.joined = idx])
        ELSE ClosedIf(depth = 0 \/ taken.st.lines >= p.maxLines, p, taken)

FeedLines(p, w, l, idx) ==
    LET taken == Join([w EXCEPT !.st.remaining = @ - 1], l, idx)
    IN  ClosedIf(taken.st.remaining = 0 \/ taken.st.lines >= p.maxLines, p, taken)

FeedStates(p, w, l, idx) ==
    LET rule == RuleFor(p, w.st.state, l.kind)
        taken == Join([w EXCEPT !.st.state = rule[1].next], l, idx)
    IN  IF rule = << >> THEN Closed(p, w)
        ELSE ClosedIf(rule[1].end \/ taken.st.lines >= p.maxLines, p, taken)

\* feed: an open block takes the line, or closes before it.
Feed(p, w, l, idx) ==
    CASE p.form = "json" -> FeedJSON(p, w, l, idx)
      [] p.form = "lines" -> FeedLines(p, w, l, idx)
      [] p.form = "states" -> FeedStates(p, w, l, idx)

\* tryOpen: a line no block took may start one.
TryOpen(p, w, l, idx, tm, mayStore) ==
    LET rule == IF p.form = "states" THEN RuleFor(p, 0, l.kind) ELSE << >>
        opened == [open |-> TRUE, joined |-> idx,
                   st |-> [NoState EXCEPT !.start = idx, !.off = l.start, !.last = idx, !.tm = tm,
                           !.lines = 1, !.depth = 1, !.ex = mayStore /\ ~p.body,
                           !.remaining = p.lines, !.state = IF rule = << >> THEN 0 ELSE rule[1].next]]
    IN  IF l.kind \notin p.anchor \/ l.kind \in p.not \/ (p.form = "states" /\ rule = << >>)
        THEN Kept(w)
        ELSE ClosedIf(p.form # "json" /\ (p.maxLines <= 1 \/ (p.form = "states" /\ rule[1].end)),
                      p, opened)

\* One line of a block walk (stepBlock; walk.line does the same): what the open block
\* does with it, then whether it opens one.
Followed(fed, tried) == [w |-> tried.w, out |-> fed.out \o tried.out]
OpenedAfter(p, fed, l, idx, tm, mayStore) ==
    IF fed.w.open \/ fed.w.joined = idx THEN fed
    ELSE Followed(fed, TryOpen(p, fed.w, l, idx, tm, mayStore))
StepBlock(p, w, l, idx, tm, mayStore) ==
    OpenedAfter(p, IF w.open THEN Feed(p, w, l, idx) ELSE Kept(w), l, idx, tm, mayStore)

\* Two walkers after the same line that will agree from there on: both idle,
\* or in the block that started on the same line.
SameState(a, b) == a.open = b.open /\ (a.open => a.st.start = b.st.start)

-----------------------------------------------------------------------------
(* Runs.  mode "match" (kinds in p.match), "same" (equal to the line       *)
(* before), "unprefixed" (no timestamp of its own); p.min is the fewest    *)
(* lines of a finding.                                                     *)

NoPiece == [start |-> -1, end |-> -1, off |-> 0, tm |-> NoTime, ex |-> FALSE]
PieceLines(piece) == piece.end - piece.start + 1

NoRun == [open |-> FALSE, cur |-> NoPiece, leading |-> NoPiece, hasLeading |-> FALSE]

\* end: a run that began on the first line is left to the merge, any other is
\* judged.
EndRun(p, r) ==
    IF ~r.open THEN Kept(r)
    ELSE IF r.cur.start = 0
         THEN Kept([r EXCEPT !.open = FALSE, !.leading = r.cur, !.hasLeading = TRUE])
         ELSE [w |-> [r EXCEPT !.open = FALSE],
               out |-> IF PieceLines(r.cur) >= p.min THEN << r.cur >> ELSE << >>]

BeginRun(p, r, l, idx, tm, mayStore) ==
    [r EXCEPT !.open = TRUE,
              !.cur = [start |-> idx, end |-> idx, off |-> l.start, tm |-> tm,
                       ex |-> p.mode # "same" /\ mayStore /\ ~p.body]]

Qualifies(p, l) ==
    CASE p.mode = "match" -> l.kind \in p.match
      [] p.mode = "unprefixed" -> ~l.stamped
      [] p.mode = "same" -> TRUE

\* Every line of a `same` run equals its first, so its excerpt is built from the
\* second: a run of one line never is a finding.
StepRun(p, r, l, idx, same, tm, mayStore) ==
    LET ended == EndRun(p, r)
        begun == [w |-> BeginRun(p, ended.w, l, idx, tm, mayStore), out |-> ended.out]
        extended == [r EXCEPT !.cur.end = idx,
                              !.cur.ex = @ \/ (p.mode = "same" /\ mayStore /\ ~p.body)]
    IN  IF ~Qualifies(p, l) THEN ended
        ELSE IF ~r.open \/ (p.mode = "same" /\ ~same) THEN begun ELSE Kept(extended)

-----------------------------------------------------------------------------
(* The walk of one chunk for one signature.                                *)

FirstOf(n, seq) == SubSeq(seq, 1, Min({n, Len(seq)}))

\* chunkSink.add: the first `cap` findings are kept, unless the merge has said it
\* needs no more of them; all are counted.
Keep(sink, out, cap, full) ==
    [found |-> IF full THEN sink.found ELSE FirstOf(cap, sink.found \o out),
     count |-> sink.count + Len(out)]

\* The edge runs: what of a run the merge may have to join with its neighbours.
NoEdges == [leading |-> NoPiece, hasLeading |-> FALSE, whole |-> FALSE, trailing |-> NoPiece,
            hasTrailing |-> FALSE]
Edges(p, r, mayStore) ==
    LET cur == [r.cur EXCEPT !.ex = @ \/ (p.mode = "same" /\ mayStore /\ ~p.body)]
        whole == r.open /\ cur.start = 0
    IN  [leading |-> IF whole THEN cur ELSE r.leading, hasLeading |-> whole \/ r.hasLeading,
         whole |-> whole, trailing |-> cur, hasTrailing |-> r.open /\ ~whole]

\* One line, for any kind of signature.
WalkStep(p, w, l, idx, same, tm, mayStore) ==
    CASE p.kind = "block" -> StepBlock(p, w, l, idx, tm, mayStore)
      [] p.kind = "run" -> StepRun(p, w, l, idx, same, tm, mayStore)
      [] p.kind = "regex" ->
            [w |-> w, out |-> IF l.kind \in p.match
                              THEN << [start |-> idx, end |-> idx, off |-> l.start, tm |-> tm,
                                       ex |-> mayStore] >> ELSE << >>]
Stepped(p, s, step, stamp, full) ==
    [w |-> step.w, stamp |-> stamp, sink |-> Keep(s.sink, step.out, p.cap, full)]
WalkLine(p, lines, fullFrom, s, i) ==
    LET l == lines[i]
        stamp == Observe(s.stamp, l)
        same == i > 1 /\ lines[i - 1].kind = l.kind
    IN  Stepped(p, s, WalkStep(p, s.w, l, i - 1, same, TimeAt(stamp, FALSE, l.start), i - 1 < fullFrom),
                stamp, i - 1 >= fullFrom)

\* What a walk hands the merge: last is the walker after the last line, sink what
\* was found, with the block the end of the text closes.
Closing(p, last, final) ==
    IF p.kind = "block" /\ final /\ last.w.open THEN Reported(p, last.w.st) ELSE << >>
Walked(p, lines, final, full, last, sink) ==
    [lines |-> lines, final |-> final, stamp |-> last.stamp,
     found |-> sink.found, count |-> sink.count,
     open |-> p.kind = "block" /\ last.w.open /\ ~final,
     st |-> IF p.kind = "block" THEN last.w.st ELSE NoState,
     edges |-> IF p.kind = "run" THEN Edges(p, last.w, ~full) ELSE NoEdges,
     stamped |-> Len(SelectSeq(lines, LAMBDA l : l.stamped))]
WalkEnds(p, lines, final, full, last) ==
    Walked(p, lines, final, full, last, Keep(last.sink, Closing(p, last, final), p.cap, full))

\* A walk over `lines` that sees the merge's flag from line fullFrom on; final
\* says it reaches the end of the text, where an open block closes.
Walk(p, lines, final, fullFrom) ==
    LET first == [w |-> IF p.kind = "run" THEN NoRun ELSE Idle, stamp |-> NoStamp,
                  sink |-> [found |-> << >>, count |-> 0]]
    IN  WalkEnds(p, lines, final, Len(lines) >= fullFrom,
                 FoldLeftDomain(LAMBDA s, i : WalkLine(p, lines, fullFrom, s, i), first, lines))

=============================================================================

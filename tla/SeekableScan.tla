---------------------------- MODULE SeekableScan ----------------------------
(***************************************************************************)
(* The parallel search of a seekable zstd file (internal/trace:            *)
(* seekable.go).  Frames may be cut anywhere, inside a line too, and a     *)
(* batch of frames owns lines rather than bytes: from just after the first *)
(* line break at or after its first byte to the first line break at or     *)
(* after its end.  A batch is one ripgrep run, or several when a frame is  *)
(* damaged; the cap on results cancels the batches still running.          *)
(*                                                                         *)
(* A byte of the text is "x", "m" (a line holding one matches) or "n", a   *)
(* line break.  Offsets count from 0, frames and batches from 1.           *)
(***************************************************************************)
EXTENDS Integers, Sequences, FiniteSets, SequencesExt

CONSTANTS
    Files,          \* the files searched: [text, cuts, damaged]
    Asks,           \* what is asked: [before, after, cap (0: none), leaves (the caller may cancel)]
    FramesPerBatch, \* framesPerBatch
    Workers         \* workerLimit

VARIABLES
    file,       \* the file; cuts: where its frames begin; damaged: frame -> what a
                \* stream decoder gives of it before it fails
    ask,        \* what is asked
    batch,      \* per batch: where it is and what it has collected
    sent,       \* batches whose count is on its way to the tally
    total,      \* matches tallied
    canceled,   \* gctx has ended
    failed,     \* a batch could not be read
    abandoned,  \* the caller's context has ended
    answer      \* << >>, then << what the search returns >>

vars == <<file, ask, batch, sent, total, canceled, failed, abandoned, answer>>

None == 0
Far == 1000         \* math.MaxInt64

-----------------------------------------------------------------------------
(* The frames. *)

NumFrames == Len(file.cuts)
Frames == 1 .. NumFrames
Start(k) == file.cuts[k]
End(k) == IF k = NumFrames THEN Len(file.text) ELSE file.cuts[k + 1]
Damaged == DOMAIN file.damaged
Text(k) == SubSeq(file.text, Start(k) + 1, End(k))

BreaksIn(bytes) == {i \in DOMAIN bytes : bytes[i] = "n"}
NumBreaks(bytes) == Cardinality(BreaksIn(bytes))
Through(bytes, n) == SubSeq(bytes, 1, n)
\* Up to and including the n-th line break, all of it when there are fewer.
ThroughBreak(bytes, n) ==
    LET ends == {i \in BreaksIn(bytes) : NumBreaks(Through(bytes, i)) = n}
    IN  IF ends = {} THEN bytes ELSE Through(bytes, Min(ends))

-----------------------------------------------------------------------------
(* batchFeeder: ripgrep's input, where each run of it came from, and which *)
(* part of it the batch owns.                                              *)

NewFeeder == [input |-> << >>, segments |-> << >>, ownedFrom |-> Far, ownedTo |-> Far,
              endAt |-> 0, cutAt |-> Far]

startOwned(f) == [f EXCEPT !.ownedFrom = Len(f.input)]
endOwnedAfterLineBreaks(f, n) == [f EXCEPT !.endAt = NumBreaks(f.input) + n]

\* After the last line break written: what follows is the start of a line.  The
\* faulty form cuts after the last byte.
FaultyCut(f) == [f EXCEPT !.cutAt = Len(f.input)]
cut(f) == [f EXCEPT !.cutAt = Max(BreaksIn(f.input) \union {0})]

\* The bytes written next are those of frame k from its byte `from` on.
beginRun(f, k, from) ==
    [f EXCEPT !.segments = Append(@,
        [frame |-> k, streamStart |-> Len(f.input), fileStart |-> Start(k) + from,
         lineShift |-> NumBreaks(Through(Text(k), from)) - NumBreaks(f.input)])]

EndedAt(f, ends) == IF f.endAt = 0 \/ ends = {} THEN f ELSE [f EXCEPT !.ownedTo = Min(ends), !.endAt = 0]
Grown(f) == EndedAt(f, {i \in BreaksIn(f.input) : NumBreaks(Through(f.input, i)) = f.endAt})
write(f, bytes) == Grown([f EXCEPT !.input = @ \o bytes])

\* A piece of frame k: its bytes after `from`, up to `to`.
Piece(k, from, to) == [frame |-> k, from |-> from, to |-> to]
writePiece(f, pc) ==
    write(beginRun(f, pc.frame, pc.from), SubSeq(Text(pc.frame), pc.from + 1, pc.to))

-----------------------------------------------------------------------------
(* feedBatchLines. *)

BreaksBefore(first) == BreaksIn(Through(file.text, Start(first)))
\* The frames decoded to find the last `lines` line breaks before frame first.
LeadFrames(first, lines) ==
    {k \in 1 .. first - 1 : Cardinality({i \in BreaksBefore(first) : i > End(k)}) < lines}
linesBeforeFrame(first, lines) ==
    LET from == Max({i \in BreaksBefore(first) :
                        Cardinality({j \in BreaksBefore(first) : j >= i}) >= lines} \union {0})
        pieceOf(k) == Piece(k, Max({from - Start(k), 0}), Len(Text(k)))
        frames == SetToSortSeq(LeadFrames(first, lines), <)
    IN  [i \in DOMAIN frames |-> pieceOf(frames[i])]

\* frameRun: the frames of one ripgrep run, and whether the one before is damaged.
WithLeadIn(run) ==
    /\ Head(run.frames) > 1 /\ ask.before > 0 /\ ~run.followsDamage
    /\ LeadFrames(Head(run.frames), ask.before) \intersect Damaged = {}

NewFeed(run) ==
    LET skipping == Head(run.frames) > 1
    IN  [f |-> IF skipping THEN NewFeeder ELSE startOwned(NewFeeder), skipping |-> skipping,
         leading |-> WithLeadIn(run),
         leadIn |-> IF WithLeadIn(run) THEN linesBeforeFrame(Head(run.frames), ask.before) ELSE << >>,
         damage |-> None, breaks |-> 0]

Damage(s, k) == [s EXCEPT !.damage = k, !.f = cut(@)]

\* One frame of the run.  The lead-in is held back until the first owned line is
\* found, and so are the bytes before that line.
FeedPast(s, k, n, from) ==
    LET leadIn == IF s.leading THEN Append(s.leadIn, Piece(k, 0, from)) ELSE s.leadIn
        led == IF s.skipping THEN startOwned(FoldLeft(writePiece, s.f, leadIn)) ELSE s.f
    IN  [s EXCEPT !.f = IF from = n THEN led ELSE writePiece(led, Piece(k, from, n)), !.skipping = FALSE]
FeedText(s, k, n, breaks) ==
    IF s.skipping /\ breaks = {}
    THEN [s EXCEPT !.leadIn = IF s.leading THEN Append(@, Piece(k, 0, n)) ELSE @]
    ELSE FeedPast(s, k, n, IF s.skipping THEN Min(breaks) ELSE 0)
feedFrame(s, k) ==
    IF s.damage # None THEN s
    ELSE IF k \in Damaged THEN Damage(s, k) ELSE FeedText(s, k, Len(Text(k)), BreaksIn(Text(k)))

\* feedThroughLineBreaks: a frame after the run's, read as a stream up to the line
\* break that is still wanted; a damaged one may hold it before its damage.
Tailed(s, k) == IF k \in Damaged /\ s.breaks > 0 THEN Damage(s, k) ELSE s
FeedTaken(s, k, taken) ==
    Tailed([s EXCEPT !.f = write(beginRun(@, k, 0), taken), !.breaks = @ - NumBreaks(taken)], k)
feedTail(s, k) ==
    IF s.breaks = 0 \/ s.damage # None THEN s
    ELSE FeedTaken(s, k, ThroughBreak(IF k \in Damaged THEN file.damaged[k] ELSE Text(k), s.breaks))

Upto(frames, stop) == SelectSeq(frames, LAMBDA k : k < stop)

\* The input of a run that reads no frame from `stop` on.
FeedRest(s, last, stop) ==
    IF s.damage # None \/ s.skipping \/ last = NumFrames \/ stop <= last THEN s
    ELSE FoldLeft(feedTail, [s EXCEPT !.f = endOwnedAfterLineBreaks(@, 1), !.breaks = 1 + ask.after],
                  [i \in 1 .. Min({stop - 1, NumFrames}) - last |-> last + i])
feedBatchLines(run, stop) ==
    FeedRest(FoldLeft(feedFrame, NewFeed(run), Upto(run.frames, stop)), Last(run.frames), stop)

-----------------------------------------------------------------------------
(* ripgrep, and its events placed in the file. *)

\* The lines of a text: where each starts, its length with its line break, its
\* number, and whether it matches.  What a text ends with is a line too.
LinesOf(bytes) ==
    LET starts == {0} \union BreaksIn(bytes)
        end(at) == Min({i \in BreaksIn(bytes) : i > at} \union {Len(bytes)})
    IN  {[at |-> at, len |-> end(at) - at, no |-> NumBreaks(Through(bytes, at)) + 1,
          hit |-> \E i \in at + 1 .. end(at) : bytes[i] = "m"] : at \in starts \ {Len(bytes)}}

\* The lines ripgrep reports with -B and -A, in order.
Events(bytes) ==
    LET lines == LinesOf(bytes)
    IN  SetToSortSeq({l \in lines : \E m \in lines : m.hit /\ m.no - ask.before <= l.no
                                                           /\ l.no <= m.no + ask.after},
                     LAMBDA a, b : a.no < b.no)

segmentHolding(f, at) == Last(SelectSeq(f.segments, LAMBDA seg : seg.streamStart <= at))
Owns(f, at) == f.ownedFrom <= at /\ at < f.ownedTo
Whole(f, at) == at < f.cutAt

PlacedIn(seg, line) ==
    [at |-> seg.fileStart + line.at - seg.streamStart, len |-> line.len,
     no |-> line.no + seg.lineShift, frame |-> seg.frame]
Placed(f, line) == PlacedIn(segmentHolding(f, line.at), line)

\* remapBatchEvents: a match on a line the batch does not own is a line of a window.
remapBatchEvents(events, f) ==
    LET whole == SelectSeq(events, LAMBDA l : Whole(f, l.at))
        own == SelectSeq(whole, LAMBDA l : l.hit /\ Owns(f, l.at))
    IN  [matches |-> [i \in DOMAIN own |-> Placed(f, own[i])],
         contexts |-> {Placed(f, l) : l \in Range(whole) \ Range(own)}]

\* matchesAsContext: the last n matches become lines of the windows around them.
matchesAsContext(r, n) ==
    LET kept == Len(r.matches) - n
    IN  [matches |-> SubSeq(r.matches, 1, kept),
         contexts |-> r.contexts \union Range(SubSeq(r.matches, kept + 1, Len(r.matches)))]

\* The matches of a stopped run that ripgrep did not write the whole window of: they
\* have fewer than `after` events after them.
unfinishedWindows(r) ==
    Cardinality({i \in DOMAIN r.matches :
        (Len(r.matches) - i) + Cardinality({c \in r.contexts : c.at > r.matches[i].at}) < ask.after})
WithoutUnfinished(r) == matchesAsContext(r, unfinishedWindows(r))
matchesFromPartialBatch(events, f) == WithoutUnfinished(remapBatchEvents(events, f))

-----------------------------------------------------------------------------
(* processSeekable. *)

BatchFrames(b) ==
    [i \in 1 .. Min({FramesPerBatch, NumFrames - (b - 1) * FramesPerBatch}) |-> (b - 1) * FramesPerBatch + i]

Init ==
    /\ file \in Files /\ ask \in Asks
    /\ batch = [b \in 1 .. ((NumFrames + FramesPerBatch - 1) \div FramesPerBatch) |->
                    [pc |-> "queued", run |-> [frames |-> BatchFrames(b), followsDamage |-> FALSE],
                     matches |-> << >>, contexts |-> {}, counted |-> {}, damage |-> {}, stopped |-> FALSE]]
    /\ sent = {} /\ total = 0
    /\ canceled = FALSE /\ failed = FALSE /\ abandoned = FALSE
    /\ answer = << >>

Batches == DOMAIN batch

\* g.Go: in order, at most Workers at a time.
StartBatch(b) ==
    /\ batch[b].pc = "queued"
    /\ \A c \in 1 .. b - 1 : batch[c].pc # "queued"
    /\ Cardinality({c \in Batches : batch[c].pc \in {"looping", "running"}}) < Workers
    /\ batch' = [batch EXCEPT ![b].pc = "looping"]
    /\ UNCHANGED <<file, ask, sent, total, canceled, failed, abandoned, answer>>

\* A queued batch, or the rest of one, that sees the cancel is skipped.
NextRun(b) ==
    /\ batch[b].pc = "looping"
    /\ batch' = [batch EXCEPT ![b].pc = IF canceled THEN "ended" ELSE "running",
                              ![b].stopped = canceled]
    /\ sent' = IF canceled THEN sent \union {b} ELSE sent
    /\ UNCHANGED <<file, ask, total, canceled, failed, abandoned, answer>>

\* What a run gave is added; after a damaged frame the batch goes on behind it.
Collected(b, r, counted, damage) ==
    LET rest == SelectSeq(batch[b].run.frames, LAMBDA k : k > damage)
        goesOn == damage # None /\ rest # << >>
    IN  [batch[b] EXCEPT !.matches = @ \o r.matches, !.contexts = @ \union r.contexts,
                         !.counted = @ \union counted,
                         !.damage = IF damage = None THEN @ ELSE @ \union {damage},
                         !.run = IF goesOn THEN [frames |-> rest, followsDamage |-> TRUE] ELSE @,
                         !.pc = IF goesOn THEN "looping" ELSE "ended"]

\* countedFrames: the frames of the run that were decoded.
CountedFrames(run, stop, damage) ==
    {k \in Range(run.frames) : k < stop /\ (damage = None \/ k < damage)}

\* The batch after a run, and whether its count goes to the tally.
BatchIs(b, after) ==
    /\ batch' = [batch EXCEPT ![b] = after]
    /\ sent' = IF after.pc = "ended" THEN sent \union {b} ELSE sent

\* The run reads its input to the end.
EndsWith(b, s) ==
    BatchIs(b, Collected(b, remapBatchEvents(Events(s.f.input), s.f),
                         CountedFrames(batch[b].run, Far, s.damage), s.damage))
RunEnds(b) ==
    /\ batch[b].pc = "running"
    /\ EndsWith(b, feedBatchLines(batch[b].run, Far))
    /\ UNCHANGED <<file, ask, total, canceled, failed, abandoned, answer>>

\* The cancel stops the run: ripgrep is killed with its events half written, or the
\* writer sees the cancel before frame `stop` and ripgrep reads its input's end
\* there.  A frame found damaged before that is still reported.
StopsWith(b, s, stop, events) ==
    \E n \in 0 .. Len(events), noticed \in {None, s.damage} :
        BatchIs(b, [Collected(b, matchesFromPartialBatch(SubSeq(events, 1, n), s.f),
                              CountedFrames(batch[b].run, stop, s.damage), noticed)
                        EXCEPT !.stopped = TRUE])
StopsAt(b, s, stop) == StopsWith(b, s, stop, Events(s.f.input))
RunIsStopped(b) ==
    /\ batch[b].pc = "running" /\ canceled
    /\ \E stop \in (Head(batch[b].run.frames) .. NumFrames) \union {Far} :
        StopsAt(b, feedBatchLines(batch[b].run, stop), stop)
    /\ UNCHANGED <<file, ask, total, canceled, failed, abandoned, answer>>

\* The file cannot be read: the whole search fails, and the others are stopped.
RunFails(b) ==
    /\ batch[b].pc = "running" /\ ~canceled
    /\ batch' = [batch EXCEPT ![b].pc = "ended", ![b].stopped = TRUE]
    /\ failed' = TRUE /\ canceled' = TRUE
    /\ UNCHANGED <<file, ask, sent, total, abandoned, answer>>

\* The tally of finished batches cancels the scan once the cap is reached.
Tally(b) ==
    /\ b \in sent /\ ~canceled
    /\ sent' = sent \ {b}
    /\ total' = total + Len(batch[b].matches)
    /\ canceled' = (ask.cap # None /\ total' >= ask.cap)
    /\ UNCHANGED <<file, ask, batch, failed, abandoned, answer>>

Abandon ==
    /\ ask.leaves /\ ~abandoned /\ answer = << >>
    /\ abandoned' = TRUE /\ canceled' = TRUE
    /\ UNCHANGED <<file, ask, batch, sent, total, failed, answer>>

\* numberFramesAgainstTheFile: the first line of a frame, None where a frame before
\* it was not counted.
FirstLine(k, counted) ==
    IF 1 .. k \subseteq counted
    THEN 1 + FoldLeft(LAMBDA n, j : n + NumBreaks(Text(j)), 0, [j \in 1 .. k - 1 |-> j]) ELSE None

frameOf(at) == CHOOSE k \in Frames : Start(k) <= at /\ at < End(k)
Numbered(l, counted) ==
    LET first == FirstLine(frameOf(l.at), counted)
    IN  [at |-> l.at, len |-> l.len, number |-> IF first = None THEN None ELSE first + l.no - 1]

Sorted(found) == SortSeq(found, LAMBDA a, b : a.at < b.at)
Capped(all) ==
    matchesAsContext(all, IF ask.cap = None THEN 0 ELSE Max({Len(all.matches) - ask.cap, 0}))
Gathered(counted, found, beside) ==
    [matches |-> Sorted([i \in DOMAIN found |-> Numbered(found[i], counted)]),
     contexts |-> {Numbered(l, counted) : l \in beside}]
AnswerOf(r) ==
    [failed |-> failed, matches |-> IF failed THEN << >> ELSE r.matches,
     contexts |-> IF failed THEN {} ELSE r.contexts, damaged |-> UNION {batch[b].damage : b \in Batches}]

Merge ==
    /\ answer = << >> /\ \A b \in Batches : batch[b].pc = "ended"
    /\ answer' = << AnswerOf(Capped(Gathered(UNION {batch[b].counted : b \in Batches},
                                            FlattenSeq([b \in Batches |-> batch[b].matches]),
                                            UNION {batch[b].contexts : b \in Batches}))) >>
    /\ UNCHANGED <<file, ask, batch, sent, total, canceled, failed, abandoned>>

Over == answer # << >> /\ UNCHANGED vars

Next ==
    \/ \E b \in Batches : StartBatch(b) \/ NextRun(b) \/ RunEnds(b) \/ RunIsStopped(b) \/ RunFails(b) \/ Tally(b)
    \/ Merge \/ Abandon \/ Over

Spec == Init /\ [][Next]_vars

-----------------------------------------------------------------------------
(* Properties. *)

FileLines == LinesOf(file.text)
Touches(l, k) == l.at < End(k) /\ Start(k) < l.at + l.len
\* A line that lies wholly in frames that decompress, and cannot have begun in a
\* damaged frame.
Searchable(l) == \A k \in Damaged : ~Touches(l, k) /\ l.at # End(k)
Lines(found) == {[at |-> l.at, len |-> l.len] : l \in found}
Answered == answer # << >> /\ ~answer[1].failed
Stopped == \E b \in Batches : batch[b].stopped

\* "Every line of the text is scanned whole, by exactly one batch, wherever the
\* frame boundaries fall" (seekable.go:669), and "every line that lies wholly in
\* frames that decompress is searched" (seekable.go:242): a scan that is not
\* stopped reports exactly the matching lines it can search, each once, in order
\* and whole, and names every damaged frame; a line is numbered as it is in the
\* file or not at all, and always when every frame before it was read.
EveryLineOnce ==
    Answered =>
        LET reported == answer[1].matches
            numbered == Range(reported) \union answer[1].contexts
        IN  /\ \A i \in 1 .. Len(reported) - 1 : reported[i].at < reported[i + 1].at
            /\ \A m \in numbered : m.number # None => \E l \in FileLines : l.at = m.at /\ l.no = m.number
            /\ ~Stopped =>
                /\ answer[1].damaged = Damaged
                /\ Damaged = {} => \A m \in numbered : m.number # None
                /\ ask.cap = None =>
                    Lines(Range(reported)) = Lines({l \in FileLines : l.hit /\ Searchable(l)})

\* Whatever the cap cut and the cancel stopped, a match that is answered has every
\* line of its window beside it, when no frame is damaged.
WindowsAreWhole ==
    Answered /\ Damaged = {} =>
        \A m \in Range(answer[1].matches), l \in FileLines :
            LET no == CHOOSE n \in 0 .. Len(file.text) : \E own \in FileLines : own.at = m.at /\ own.no = n
            IN  no - ask.before <= l.no /\ l.no <= no + ask.after
                    => \E w \in Range(answer[1].matches) \union answer[1].contexts : w.at = l.at

\* "Every line of the text is scanned whole" (seekable.go:669): what is reported as
\* a match is a line of the file, not the start of one.
MatchesAreWholeLines ==
    Answered => \A m \in Range(answer[1].matches) :
        \E l \in FileLines : l.at = m.at /\ l.len = m.len

=============================================================================

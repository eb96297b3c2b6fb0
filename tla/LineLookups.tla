---------------------------- MODULE LineLookups ----------------------------
(***************************************************************************)
(* The arithmetic of lines and offsets (internal/index: builder.go,        *)
(* lookup.go; internal/trace: reconstruct.go, lineresolve.go, cache.go):   *)
(* where an index puts its checkpoints, which checkpoint a read starts     *)
(* from, how offsets become line numbers, and how a cached search is       *)
(* turned back into an answer by one pass over the file.                   *)
(*                                                                         *)
(* A text is a sequence of lines, each with its length in bytes (its break *)
(* included) and the set of patterns that match it.                        *)
(***************************************************************************)
EXTENDS Integers, Sequences, FiniteSets, SequencesExt

\* Where each line ends, by number; the text starts where line 0 ends.
LineEnds(text) ==
    LET end[i \in 0 .. Len(text)] == IF i = 0 THEN 0 ELSE end[i - 1] + text[i].len
    IN  end
EndOf(text, i) == LineEnds(text)[i]
StartOf(text, i) == EndOf(text, i - 1)
SizeOf(text) == EndOf(text, Len(text))

\* The first size bytes of a text, as io.LimitReader hands them out: the
\* last line may be cut.
Prefix(text, size) ==
    [i \in {k \in DOMAIN text : StartOf(text, k) < size} |->
        [text[i] EXCEPT !.len = Min({@, size - StartOf(text, i)})]]

\* The lines read from byte from on; a read that starts inside a line reads
\* the rest of it as a line.
LinesFrom(text, from) ==
    LET first == Min({i \in DOMAIN text : EndOf(text, i) > from} \union {Len(text) + 1})
    IN  [k \in 1 .. Len(text) - first + 1 |->
            [start |-> Max({from, StartOf(text, first + k - 1)}), end |-> EndOf(text, first + k - 1),
             pats |-> text[first + k - 1].pats]]

(***************************************************************************)
(* Building an index (builder.go: walkLines).                              *)
(***************************************************************************)
NoCheckpoint == [line |-> 0, offset |-> 0]

\* One line: the checkpoint that is due names it, and a line that crosses the
\* step makes one due for the line after it, if there is one.
WalkLine(step, s, line) ==
    [checkpoints |-> IF s.due THEN Append(s.checkpoints, [line |-> s.line + 1, offset |-> s.offset])
                     ELSE s.checkpoints,
     line |-> s.line + 1, offset |-> s.offset + line.len,
     due |-> s.offset + line.len >= s.next,
     next |-> IF s.offset + line.len >= s.next THEN s.offset + line.len + step ELSE s.next]

\* The walk after each line.
WalkStart(step) == [checkpoints |-> <<>>, line |-> 0, offset |-> 0, due |-> TRUE, next |-> step]
Walk(text, step) ==
    LET state[i \in 0 .. Len(text)] ==
            IF i = 0 THEN WalkStart(step) ELSE WalkLine(step, state[i - 1], text[i])
    IN  state

walkLines(text, step) == Walk(text, step)[Len(text)].checkpoints

(***************************************************************************)
(* Looking a checkpoint up (lookup.go).                                    *)
(***************************************************************************)
\* The last of the checkpoints at some places.
LastAt(checkpoints, places) == IF places = {} THEN NoCheckpoint ELSE checkpoints[Max(places)]

FindNearestCheckpoint(checkpoints, target) ==
    LastAt(checkpoints, {i \in DOMAIN checkpoints : checkpoints[i].line <= target})

FindNearestCheckpointForOffset(checkpoints, target) ==
    LastAt(checkpoints, {i \in DOMAIN checkpoints : checkpoints[i].offset <= target})

\* Where a pass starts that must show context lines before offset's line.
CheckpointForContext(checkpoints, offset, context) ==
    LET holding == FindNearestCheckpointForOffset(checkpoints, offset)
    IN  IF holding.line = 0 THEN NoCheckpoint
        ELSE FindNearestCheckpoint(checkpoints, holding.line - context)

\* A read from a checkpoint; without one it starts at line 1.
StartAt(checkpoint) == IF checkpoint.line = 0 THEN [line |-> 1, offset |-> 0] ELSE checkpoint

(***************************************************************************)
(* Numbering offsets (lineresolve.go).                                     *)
(***************************************************************************)
\* Each wanted offset with the number of the line that holds it, counted
\* from the start of a read; an offset outside what is read has none.
countLinesToOffsets(text, start, wanted) ==
    LET lines == LinesFrom(text, start.offset)
    IN  UNION {{[offset |-> o, line |-> start.line + k - 1] :
                   o \in {w \in wanted : lines[k].start <= w /\ w < lines[k].end}} : k \in DOMAIN lines}

(***************************************************************************)
(* A cached search (cache.go).                                             *)
(***************************************************************************)
\* The k-th copy of a pattern in the writer's list is the k-th copy in the
\* reader's.
SlotIn(patterns, list, w) ==
    LET copy == Cardinality({v \in 1..w : patterns[v] = patterns[w]})
    IN  CHOOSE r \in DOMAIN list :
            /\ list[r] = patterns[w]
            /\ Cardinality({v \in 1..r : list[v] = patterns[w]}) = copy

\* The records of an entry with their patterns named by their place in the
\* reader's list; both lists hold the same patterns (their hash is the same).
toReaderPatternOrder(patterns, records, list) ==
    {[m EXCEPT !.pattern = SlotIn(patterns, list, m.pattern)] : m \in records}

(***************************************************************************)
(* Turning records back into an answer (reconstruct.go).                   *)
(***************************************************************************)
\* One line of the pass: trailing context owed to earlier matches, then the
\* records that fall in the line, each with the lines remembered before it.
\* The pass ends when nothing is owed, and after the last line the cap needs.
PassLine(job, s, line) ==
    LET here == {m \in s.owed : m.offset < line.end}
        matches == s.matches \union {[offset |-> m.offset, pattern |-> m.pattern, number |-> s.number] : m \in here}
        trailing == IF s.after > 0 THEN {s.number} ELSE {}
        leading == IF here = {} THEN {} ELSE s.ring \union {s.number}
        after == IF here # {} THEN Max({s.after - 1, job.after})
                 ELSE IF s.after > 0 THEN s.after - 1 ELSE 0
        capped == s.last = 0 /\ job.cap > 0 /\ here # {} /\ Cardinality(matches) >= job.cap
    IN  IF s.over \/ (s.owed = {} /\ s.after = 0) \/ (s.last > 0 /\ s.number > s.last)
        THEN [s EXCEPT !.over = TRUE]
        ELSE [owed |-> s.owed \ here, matches |-> matches, after |-> after,
              emitted |-> s.emitted \union trailing \union leading,
              ring |-> {n \in s.ring \union {s.number} : n > s.number - job.before},
              last |-> IF capped THEN s.number + job.after ELSE s.last,
              number |-> s.number + 1, over |-> FALSE]

\* The pass after each of the lines it is given.
PassStart(start, records) ==
    [owed |-> records, matches |-> {}, after |-> 0, emitted |-> {}, ring |-> {}, last |-> 0,
     number |-> start.line, over |-> FALSE]
Pass(lines, start, records, job) ==
    LET state[k \in 0 .. Len(lines)] ==
            IF k = 0 THEN PassStart(start, records) ELSE PassLine(job, state[k - 1], lines[k])
    IN  state

reconstructLines(text, start, records, job) ==
    LET lines == LinesFrom(text, start.offset)
    IN  Pass(lines, start, records, job)[Len(lines)]

(***************************************************************************)
(* What a search answers: the first matches by offset and pattern up to    *)
(* the cap, and for each the lines around it that something reported.      *)
(***************************************************************************)
Precedes(m, n) == m.offset < n.offset \/ (m.offset = n.offset /\ m.pattern < n.pattern)
FirstOf(matches, cap) ==
    {m \in matches : cap = 0 \/ Cardinality({n \in matches : Precedes(n, m)}) < cap}

WindowOf(number, reported, job) ==
    {i \in number - job.before..number + job.after :
        \A j \in Min({i, number})..Max({i, number}) : j \in reported}

AnswerOf(matches, reported, job) ==
    {[match |-> m, window |-> WindowOf(m.number, reported, job)] : m \in FirstOf(matches, job.cap)}

\* What a scan of the text finds for a list of patterns.
ScanOf(text, list) ==
    UNION {{[offset |-> StartOf(text, i), pattern |-> p, number |-> i] :
               p \in {q \in DOMAIN list : list[q] \in text[i].pats}} : i \in DOMAIN text}
=============================================================================

--------------------------- MODULE MCTraceSearch ---------------------------
EXTENDS TraceSearch

\* A line of n bytes, and the file such lines make.
Hit(n) == [len |-> n, pats |-> {1}]
Miss(n) == [len |-> n, pats |-> {}]
Both(n) == [len |-> n, pats |-> {1, 2}]
FileOf(lines) ==
    [i \in DOMAIN lines |-> [stop |-> FoldLeft(LAMBDA n, line : n + line.len, 0, SubSeq(lines, 1, i)),
                             pats |-> lines[i].pats]]

\* Two chunks with a match at each side of the cut; three chunks of one line;
\* two files, searched for two patterns; and files of every shape around the
\* cuts, with nothing to find.
Log == <<Miss(2), Hit(2), Hit(2), Miss(2)>>
Long == <<Hit(2), Hit(1), Miss(1), Miss(2)>>
Short == <<Both(2), Miss(1), Both(1)>>

Ask(files, patterns, cap, before, after) ==
    [files |-> [k \in DOMAIN files |-> FileOf(files[k])], patterns |-> patterns, cap |-> cap, before |-> before, after |-> after]

Three == <<Hit(3), Hit(3), Miss(3)>>
Shapes == UNION {[1..n -> {Miss(1), Miss(3), Miss(4)}] : n \in 0..3}

SomeSearches ==
    {Ask(<<Log>>, {1}, cap, b, a) : cap \in 0..2, b \in 0..1, a \in 0..1}
    \union {Ask(<<Long>>, {1}, cap, 1, 1) : cap \in {0, 1}}
    \union {Ask(<<Short, Log>>, {1, 2}, cap, 0, 1) : cap \in {0, 2, 4}}
    \union {Ask(<<Three>>, {1}, 1, 0, 1)}
    \union {Ask(<<file>>, {1}, 0, 0, 0) : file \in Shapes}
=============================================================================

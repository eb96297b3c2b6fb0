---------------------------- MODULE MCTextParts ----------------------------
(***************************************************************************)
(* What a text gives however it is cut or kept, on small instances in one  *)
(* run: the merge of a signature scan's chunks, the search of seekable     *)
(* zstd, the caches of searches and line indexes; and the viewer bundle,   *)
(* kept in a cache as well.  They share no state: part says which of them  *)
(* runs, the others stay as they start.                                    *)
(***************************************************************************)
EXTENDS SourceCaches

CONSTANT Part       \* the parts checked

VARIABLES
    part,
    text, broken, program, plan, merger, answer,    \* of the merge
    sFile, sAsk, sBatch, sSent, sTotal, sCanceled, sFailed, sAbandoned, sAnswer,   \* of the seekable scan
    published, vDisk, torn, meta, due, staging, starts, mode, pc, todo, build, had, withheld,
    served, failed, cut    \* of the viewer

seekableVars == <<sFile, sAsk, sBatch, sSent, sTotal, sCanceled, sFailed, sAbandoned, sAnswer>>
mergeVars == <<text, broken, program, plan, merger, answer>>
viewerVars == <<published, vDisk, torn, meta, due, staging, starts, mode, pc, todo, build, had, withheld,
    served, failed, cut>>

-----------------------------------------------------------------------------
(* Signatures and texts. *)

\* Each signature with the texts that make its cases happen.
Bytes == [s |-> 2, c |-> 2, e |-> 2, x |-> 3, blank |-> 1]
Lines(kinds, stamped) == {[kind |-> k, len |-> Bytes[k], stamped |-> t, ms |-> 0] : k \in kinds, t \in stamped}
TextsOf(n, kinds, stamped) == [1 .. n -> Lines(kinds, stamped)]

Block(form, cap) ==
    [kind |-> "block", form |-> form, anchor |-> {"s"}, not |-> {}, lines |-> 0, minLines |-> 2,
     maxLines |-> 4, cap |-> cap, body |-> FALSE, rules |-> << >>, delta |-> << >>, closers |-> {}]
Rule(on, next, end) == [on |-> on, next |-> next, end |-> end]
States(cap) ==
    [Block("states", cap) EXCEPT
        !.rules = [q \in 0 .. 1 |-> IF q = 0 THEN << Rule({"s"}, 1, FALSE) >>
                                   ELSE << Rule({"e"}, 0, TRUE), Rule({"s", "c", "blank"}, 1, FALSE) >>]]
Fixed(cap) == [Block("lines", cap) EXCEPT !.lines = 1, !.minLines = 1]
Json(cap) ==
    [Block("json", cap) EXCEPT !.minLines = 1, !.maxLines = 5, !.closers = {"e"},
        !.delta = [k \in {"s", "e", "x"} |-> IF k = "s" THEN 1 ELSE -1]]
BodyOf(p) == [p EXCEPT !.body = TRUE, !.minLines = 1]
RunOf(how, cap) == [kind |-> "run", mode |-> how, match |-> {"s", "c"}, min |-> 2, cap |-> cap,
                     body |-> FALSE, share |-> 50]
Regex(cap) == [kind |-> "regex", match |-> {"s"}, cap |-> cap, body |-> FALSE]

\* The measures, with what their lines differ in.
Long(cap) == [kind |-> "long", minBytes |-> 2, factor |-> 2, window |-> 1, cap |-> cap, body |-> FALSE]
Back(cap) == [kind |-> "back", tolerance |-> 1, cap |-> cap, body |-> FALSE]
GapOf(factor) == [kind |-> "gap", minGap |-> 2, factor |-> factor, cap |-> 3, body |-> FALSE]
Density(cap, bucket) ==
    [kind |-> "density", bucket |-> bucket, factor |-> 2, z |-> 1, minCount |-> 2, cap |-> cap, body |-> FALSE]
Unstamped == [kind |-> "x", len |-> 2, stamped |-> FALSE, ms |-> 0]
Stamped(times) == {Unstamped} \union {[Unstamped EXCEPT !.stamped = TRUE, !.ms = t] : t \in times}
\* Three lines, stamped or not, and five stamped ones.
TimesOf(times) == [1 .. 3 -> Stamped(times)] \union [1 .. 5 -> Stamped(times) \ {Unstamped}]
Long5 == [Unstamped EXCEPT !.len = 5]
Lengths == {[Unstamped EXCEPT !.len = n] : n \in {2, 3, 5}}

Sizes == << 1, 2, 4 >>

Scan(programs, texts, breaks) == [program : programs, text : texts, broken : breaks]

SomeScans ==
    UNION {Scan({BodyOf(States(1))}, TextsOf(5, {"s", "e", "blank"}, {FALSE}), {TRUE}),
           Scan({States(2)}, TextsOf(4, {"s", "c", "e", "blank"}, {FALSE}), {TRUE}),
           Scan({States(2)}, TextsOf(3, {"s", "c", "e"}, BOOLEAN), BOOLEAN),
           Scan({Fixed(1), Fixed(3)}, TextsOf(5, {"s", "blank"}, {FALSE}), BOOLEAN),
           Scan({Json(1)}, TextsOf(5, {"s", "e", "x"}, {FALSE}), {TRUE}),
           Scan({RunOf("match", 1), RunOf("same", 2), [RunOf("match", 1) EXCEPT !.body = TRUE]},
                TextsOf(5, {"s", "x"}, {FALSE}), BOOLEAN),
           Scan({RunOf("unprefixed", 1), RunOf("match", 2)}, TextsOf(4, {"s", "x"}, BOOLEAN), {TRUE}),
           Scan({Regex(2)}, TextsOf(3, {"s", "x"}, BOOLEAN), {TRUE}),
           Scan({Long(1), Long(3)}, [1 .. 4 -> Lengths] \union [1 .. 6 -> {Unstamped, Long5}], {TRUE}),
           Scan({Back(1), Back(3)}, [1 .. 4 -> Stamped({0, 1, 3})], {TRUE}),
           Scan({GapOf(1), GapOf(2)}, TimesOf({0, 2, 6}), {TRUE}),
           Scan({Density(2, 0), Density(1, 2)}, TimesOf({0, 3, 9}), {TRUE})}

Merge == INSTANCE ChunkMerge WITH
    Scans <- SomeScans, MaxCuts <- 2, Lookback <- 3, Ladder <- Sizes, Target <- 2, MaxSlots <- 4,
    GapLimit <- 1

-----------------------------------------------------------------------------
(* Files of frames, and what is asked of them. *)

\* Lines that match, lines that do not and empty lines, in frames cut anywhere.
Ab == << "m", "n", "x", "n", "m", "n" >>
LongAb == << "x", "x", "m", "x", "n", "m" >>
DenseAb == << "m", "n", "n", "m", "x", "n", "m" >>

Cuts(n, frames) == {c \in [1 .. frames -> 0 .. n - 1] :
                        c[1] = 0 /\ \A i \in 1 .. frames - 1 : c[i] < c[i + 1]}
FilesOf(letters, frames, damage) ==
    {[text |-> letters, cuts |-> c, damaged |-> d] : c \in Cuts(Len(letters), frames), d \in damage}

Intact == << >>
LostFrame(k) == [j \in {k} |-> << >>]
SomeFiles ==
    FilesOf(Ab, 3, {Intact, LostFrame(1), LostFrame(2), LostFrame(3)})
    \union FilesOf(Ab, 5, {Intact, LostFrame(3)})
    \union FilesOf(LongAb, 4, {Intact, LostFrame(2), LostFrame(3)})
    \union FilesOf(DenseAb, 5, {Intact, LostFrame(2), LostFrame(4)})

Asking(before, after, cap) == [before |-> before, after |-> after, cap |-> cap, leaves |-> FALSE]
ScanAsks == {Asking(0, 0, 0), Asking(1, 1, 0), Asking(2, 0, 1), Asking(0, 1, 1), Asking(2, 2, 2),
             [Asking(0, 1, 0) EXCEPT !.leaves = TRUE]}

Seekable == INSTANCE SeekableScan WITH
    Files <- SomeFiles, Asks <- ScanAsks, FramesPerBatch <- 2, Workers <- 2,
    file <- sFile, ask <- sAsk, batch <- sBatch, sent <- sSent, total <- sTotal,
    canceled <- sCanceled, failed <- sFailed, abandoned <- sAbandoned, answer <- sAnswer

-----------------------------------------------------------------------------
(* The texts of two files, and the jobs of a process that uses the caches. *)

L(n, pats) == [len |-> n, pats |-> pats]

\* Two texts of one size that differ in the first line, and one that differs
\* from the first in the middle only.
OtherText == <<L(3, {}), L(1, {"b"}), L(1, {}), L(1, {"a"})>>
SomeTexts ==
    {<<L(1, {}), L(1, {}), L(1, {}), L(2, {"a", "b"}), L(1, {"a"})>>,
     OtherText,
     <<L(1, {}), L(2, {}), L(2, {"b"}), L(1, {"a"})>>}

SomeLines == {L(1, {"a"})}

SearchFor(list, cap, before, after) ==
    [kind |-> "search", list |-> list, cap |-> cap, before |-> before, after |-> after]
BuildIndex == [kind |-> "build"]
Number(skip) == [kind |-> "number", skip |-> skip]

SomeJobs ==
    {SearchFor(<<"a", "b">>, 0, 0, 1), SearchFor(<<"b", "a">>, 1, 1, 1), BuildIndex, Number(2)}

-----------------------------------------------------------------------------
\* One version outside the range and two inside; bundles with all of it,
\* without version.json, and with the page but no assets.
SomeContents ==
    {{"assets", "index", "stamp"}, {"assets", "index"}, {"index", "stamp"}}
Viewer == INSTANCE ViewerBundle WITH
    Versions <- {1, 2, 3}, InRange <- {2, 3}, Contents <- SomeContents, MaxStarts <- 2, disk <- vDisk

ASSUME PartsAssumption == CachesAssumption /\ Merge!MeasureAssumption /\ Viewer!VersionsAssumption

-----------------------------------------------------------------------------
\* What the variables of a part hold that does not run.
Unused == {}

partsVars == <<part, vars, mergeVars, seekableVars, viewerVars>>

PartsInit ==
    /\ part \in Part
    /\ IF part = "merge" THEN Merge!Init
       ELSE text = Unused /\ broken = Unused /\ program = Unused /\ plan = Unused /\ merger = Unused /\ answer = Unused
    /\ IF part = "seekable" THEN Seekable!Init
       ELSE /\ sFile = Unused /\ sAsk = Unused /\ sBatch = Unused /\ sSent = Unused /\ sTotal = Unused
            /\ sCanceled = Unused /\ sFailed = Unused /\ sAbandoned = Unused /\ sAnswer = Unused
    /\ IF part = "caches" THEN Init /\ files[1].text = OtherText \* a bound of this instance
       ELSE /\ files = Unused /\ path = Unused /\ now = Unused /\ shown = Unused /\ entry = Unused
            /\ index = Unused /\ jobs = Unused /\ changes = Unused /\ proc = [p \in Procs |-> Idle]
    /\ IF part = "viewer" THEN Viewer!Init
       ELSE /\ published = Unused /\ vDisk = Unused /\ torn = Unused /\ meta = Unused /\ due = Unused
            /\ staging = Unused /\ starts = Unused /\ mode = Unused /\ pc = Unused /\ todo = Unused
            /\ build = Unused /\ had = Unused /\ withheld = Unused /\ served = Unused
            /\ failed = Unused /\ cut = Unused

MergeMoves == part = "merge" /\ Merge!Next /\ UNCHANGED <<part, vars, seekableVars, viewerVars>>
SeekableMoves == part = "seekable" /\ Seekable!Next /\ UNCHANGED <<part, vars, mergeVars, viewerVars>>
CachesMove == part = "caches" /\ Next /\ UNCHANGED <<part, mergeVars, seekableVars, viewerVars>>
ViewerMoves == part = "viewer" /\ Viewer!Next /\ UNCHANGED <<part, vars, mergeVars, seekableVars>>
\* These may come to rest: all jobs are done, no more starts.
Rests == part \in {"caches", "viewer"} /\ UNCHANGED partsVars

PartsNext == MergeMoves \/ SeekableMoves \/ CachesMove \/ ViewerMoves \/ Rests
PartsSpec == PartsInit /\ [][PartsNext]_partsVars

-----------------------------------------------------------------------------
(* Properties, each stated by the module of its part; HitsAreScans and     *)
(* IndexedNumbersAreTrue are SourceCaches' own.                            *)

\* However a text is cut, its scan answers the same, and every body is masked
\* (sigscan/scan.go:94, merge.go).
MergeIsChunkFree == part = "merge" => Merge!AnswerIsChunkFree
MergeMasksBodies == part = "merge" => Merge!BodiesAreMasked

\* A search of seekable zstd reports each line once, whole, with its window
\* (trace/seekable.go:669, :242).
SeekableIsWhole == part = "seekable" => Seekable!EveryLineOnce /\ Seekable!WindowsAreWhole
\* What it reports as a match is a line of the file (trace/seekable.go:669).
MatchesAreWholeLines == part = "seekable" => Seekable!MatchesAreWholeLines

\* The viewer served is one build, in the range where its version is known,
\* whatever fails; a bundle that does not unpack costs nothing, and a start in
\* which nothing fails leaves a viewer if what it installs holds one
\* (frontend/update.go, manager.go).
ViewerIsOneBuild == part = "viewer" => Viewer!ViewerIsOneBuild

=============================================================================

---------------------------- MODULE TraceSearch ----------------------------
(***************************************************************************)
(* One search (internal/trace: engine.go, worker.go, chunker.go,           *)
(* chunkinput.go, budget.go, rgjson.go) over plain files, one after the    *)
(* other.  A file is cut at line starts into chunks; each chunk is scanned *)
(* by a worker made of three: a feeder writing the chunk's lines and a few *)
(* of its neighbours' to ripgrep, ripgrep itself, and a parser reading     *)
(* ripgrep's events.  The workers share a match budget: the charge that    *)
(* spends it cancels all of them, the one that made it included.           *)
(*                                                                         *)
(* A file is a sequence of lines, each with the offset where it stops, one *)
(* past its line break, and the set of patterns that match it; a line is   *)
(* named by its place, which is its true number.  The feeder's buffer      *)
(* holds one line, and ripgrep's output pipe PipeCap events.               *)
(***************************************************************************)
EXTENDS Integers, Sequences, FiniteSets, SequencesExt

CONSTANTS
    Searches,   \* the searches asked: [files, patterns, cap (0: none), before, after]
    Workers,    \* RX_WORKERS: ripgrep processes at once
    MinChunk,   \* the smallest chunk worth a process, in bytes
    MaxChunks,  \* RX_MAX_SUBPROCESSES
    PipeCap,    \* events ripgrep writes ahead of the parser
    Faults,     \* bound: read errors, ripgreps dying and files cut short
    CreditBytes,\* creditBatchBytes: matched text one crediting run reads
    Outside     \* TRUE: the caller may cancel the search

Patterns == UNION {s.patterns : s \in Searches}
Line == [stop : Nat \ {0}, pats : SUBSET Patterns]

SearchAssumption ==
    /\ Searches \subseteq [files : Seq(Seq(Line)), patterns : SUBSET Patterns,
                            cap : Nat, before : Nat, after : Nat]
    /\ \A s \in Searches : \A k \in DOMAIN s.files : \A i, j \in DOMAIN s.files[k] :
          i < j => s.files[k][i].stop < s.files[k][j].stop
    /\ Patterns \subseteq Nat /\ \A s \in Searches : IsFiniteSet(s.patterns)
    /\ {Workers, MinChunk, MaxChunks} \subseteq Nat \ {0}
    /\ {PipeCap, Faults, CreditBytes} \subseteq Nat

ASSUME SearchAssumption

VARIABLES
    search,     \* the search being run
    phase,      \* "file", "scan", "done" or "error" (RunResolved returned an error)
    bucket,     \* the file being read, by its place in search.files
    tasks,      \* the file's chunks, as planned
    left,       \* lines the file still has (it may be cut short while read)
    worker,     \* per chunk: where its worker is
    results,    \* per chunk: its ChunkResult
    spent,      \* MatchBudget.spent
    canceled,   \* gctx has ended: the scan of this file is to stop
    failed,     \* a worker returned an error: the file is skipped
    abandoned,  \* the caller's context has ended
    faults,     \* faults so far
    outcomes,   \* per file read: what it gave
    answer      \* what the search answers and stores

vars == <<search, phase, bucket, tasks, left, worker, results, spent, canceled, failed,
          abandoned, faults, outcomes, answer>>
engine == <<search, phase, bucket, tasks, outcomes, answer>>

File == search.files[bucket]
Cap == search.cap
None == 0

(***************************************************************************)
(* The plan: where a file is cut (chunker.go).                             *)
(***************************************************************************)
EndOf(file, i) == IF i = 0 THEN 0 ELSE file[i].stop
StartOf(file, i) == EndOf(file, i - 1)
SizeOf(file) == EndOf(file, Len(file))

\* The start of the line after the first line break at or after from, and
\* the size of the file when it has none there.
findNextNewline(file, from) ==
    Min({EndOf(file, i) : i \in {l \in DOMAIN file : EndOf(file, l) > from}} \union {SizeOf(file)})

\* A tentative boundary is moved to the next line start; one that an earlier
\* search has passed is skipped, and the file's end starts no chunk.
Moved(file, s, raw) ==
    LET next == findNextNewline(file, raw)
    IN  IF raw < s.searchedTo THEN s
        ELSE [searchedTo |-> next,
              starts |-> IF next > Last(s.starts) /\ next < SizeOf(file)
                         THEN Append(s.starts, next) ELSE s.starts]

chunkStarts(file, numChunks) ==
    LET chunkSize == SizeOf(file) \div numChunks
        after[i \in 0..numChunks - 1] ==
            IF i = 0 THEN [searchedTo |-> 0, starts |-> <<0>>]
            ELSE Moved(file, after[i - 1], i * chunkSize)
    IN  after[numChunks - 1].starts

GetFileOffsets(file) ==
    LET numChunks == Max({1, Min({MaxChunks, SizeOf(file) \div MinChunk})})
    IN  IF numChunks = 1 THEN <<0>> ELSE chunkStarts(file, numChunks)

\* The chunks, adjacent and up to the size the file had when it was planned.
\* first and last are the lines a chunk owns: those that start inside it.
planFileTasks(file) ==
    LET starts == GetFileOffsets(file)
        end(t) == IF t = Len(starts) THEN SizeOf(file) ELSE starts[t + 1]
        before(offset) == Cardinality({i \in DOMAIN file : StartOf(file, i) < offset})
    IN  [t \in DOMAIN starts |->
            [offset |-> starts[t], first |-> before(starts[t]) + 1, last |-> before(end(t))]]

(***************************************************************************)
(* What ripgrep is given and what it writes.                               *)
(***************************************************************************)
Chunks == DOMAIN tasks
Own(c) == tasks[c].first..tasks[c].last                                \* owns

\* readLinesBefore, and the end of feedChunk's tail.
LeadIn(c) == Max({1, tasks[c].first - search.before})..tasks[c].first - 1
InputEnd(c) == Min({left, tasks[c].last + search.after})

Matched(lines) == {i \in lines : File[i].pats \intersect search.patterns # {}}

\* ripgrep, given lo..hi, reports every matching line and the lines -B and
\* -A ask for around it, in order.
Events(lo, hi) ==
    {i \in lo..hi : \E m \in Matched(lo..hi) : m - search.before <= i /\ i <= m + search.after}

Unread(w) == {i \in Events(w.lo, w.fed) : i > w.seen}
OwnSeen(c, w) == Matched(Own(c) \intersect w.lo..w.seen)

(***************************************************************************)
(* The budget, and the gate before it (budget.go).                         *)
(***************************************************************************)
\* The matches of the files read so far.
Matches == UNION {{<<k, m>> : m \in outcomes[k].matches} : k \in DOMAIN outcomes}
Found == Cardinality(Matches)
remainingResults == Cap - Found

\* A match is charged as it is found.
FaultyCounted(c, w, line) == {m \in OwnSeen(c, w) : m <= line}

\* The matches counted once ripgrep's events reached line: those whose
\* trailing window ends there or before.
Counted(c, w, line) == {m \in OwnSeen(c, w) : m + search.after <= line}

\* The allowance is spent one match early.
FaultySpends(n) == Cap # None /\ n > 0 /\ spent + n + 1 >= remainingResults

\* n matches charged: the charge that spends the budget cancels the scan.
Spends(n) == Cap # None /\ n > 0 /\ spent + n >= remainingResults

(***************************************************************************)
(* ProcessAllChunks: at most Workers at a time, in order; a canceled scan  *)
(* starts no more.                                                         *)
(***************************************************************************)
Idle == [pc |-> "queued", lo |-> 0, fed |-> 0, seen |-> 0, copied |-> 0,
         feeder |-> "feeding", parser |-> "waiting", rg |-> "running"]

Nothing == [matches |-> {}, contexts |-> {}, newlines |-> 0, complete |-> FALSE]
SkippedFile == [matches |-> {}, contexts |-> {}, skipped |-> TRUE, cacheable |-> FALSE]

StartChunk(c) ==
    /\ phase = "scan" /\ worker[c].pc = "queued"
    /\ \A d \in Chunks : d < c => worker[d].pc # "queued"
    /\ Cardinality({d \in Chunks : worker[d].pc = "open"}) < Workers
    /\ worker' = [worker EXCEPT ![c] =
           IF canceled THEN [@ EXCEPT !.pc = "done"]
           ELSE LET lo == Min(LeadIn(c) \union {tasks[c].first})
                IN  [@ EXCEPT !.pc = "open", !.lo = lo, !.fed = lo - 1, !.seen = lo - 1]]
    /\ UNCHANGED <<engine, left, results, spent, canceled, failed, abandoned, faults>>

(***************************************************************************)
(* ProcessChunk's goroutines.  The first to fail ends the other one's      *)
(* context and kills ripgrep (stopOnFailure).                              *)
(***************************************************************************)
Running(c) == phase = "scan" /\ worker[c].pc = "open"
Broken(w) == w.feeder = "failed" \/ w.parser = "stopped"
Stopped(w) == canceled \/ Broken(w)

\* A line is written when ripgrep reads it, which it does while its own
\* output is not stuck.
FeedLine(c) ==
    LET w == worker[c]
    IN  /\ Running(c) /\ w.feeder = "feeding" /\ w.fed < InputEnd(c)
        /\ IF w.rg = "running"
           THEN /\ Cardinality(Unread(w)) <= PipeCap
                /\ worker' = [worker EXCEPT ![c].fed = @ + 1,
                                            ![c].copied = @ + IF w.fed + 1 \in Own(c) THEN 1 ELSE 0]
           ELSE \* the line is counted before the write that finds ripgrep gone
                worker' = [worker EXCEPT ![c].feeder = "ended",
                                         ![c].copied = @ + IF w.fed + 1 \in Own(c) THEN 1 ELSE 0]
        /\ UNCHANGED <<engine, left, results, spent, canceled, failed, abandoned, faults>>

FeedEnds(c) ==
    /\ Running(c) /\ worker[c].feeder = "feeding" /\ worker[c].fed >= InputEnd(c)
    /\ worker' = [worker EXCEPT ![c].feeder = "ended"]
    /\ UNCHANGED <<engine, left, results, spent, canceled, failed, abandoned, faults>>

\* A read fails; a scan already stopped takes no notice.
FeedFails(c) ==
    /\ Running(c) /\ worker[c].feeder = "feeding" /\ faults < Faults
    /\ faults' = faults + 1
    /\ worker' = [worker EXCEPT ![c].feeder = IF Stopped(worker[c]) THEN "ended" ELSE "failed"]
    /\ UNCHANGED <<engine, left, results, spent, canceled, failed, abandoned>>

RipgrepExits(c) ==
    LET w == worker[c]
    IN  /\ Running(c) /\ w.rg = "running" /\ w.feeder # "feeding"
        /\ Cardinality(Unread(w)) <= PipeCap
        /\ worker' = [worker EXCEPT ![c].rg = "exited"]
        /\ UNCHANGED <<engine, left, results, spent, canceled, failed, abandoned, faults>>

\* A goroutine that fails leaves ripgrep running.
FaultyRipgrepIsKilled(c) ==
    /\ Running(c) /\ worker[c].rg = "running" /\ canceled
    /\ worker' = [worker EXCEPT ![c].rg = "killed"]
    /\ UNCHANGED <<engine, left, results, spent, canceled, failed, abandoned, faults>>

RipgrepIsKilled(c) ==
    /\ Running(c) /\ worker[c].rg = "running" /\ Stopped(worker[c])
    /\ worker' = [worker EXCEPT ![c].rg = "killed"]
    /\ UNCHANGED <<engine, left, results, spent, canceled, failed, abandoned, faults>>

RipgrepDies(c) ==
    /\ Running(c) /\ worker[c].rg = "running" /\ faults < Faults
    /\ faults' = faults + 1
    /\ worker' = [worker EXCEPT ![c].rg = "killed"]
    /\ UNCHANGED <<engine, left, results, spent, canceled, failed, abandoned>>

\* StreamEvents: with an event to read it looks at the context, then reads.
ParserLooks(c) ==
    LET w == worker[c]
    IN  /\ Running(c) /\ w.parser = "waiting" /\ Unread(w) # {}
        /\ worker' = [worker EXCEPT ![c].parser = IF Stopped(w) THEN "stopped" ELSE "reading"]
        /\ UNCHANGED <<engine, left, results, spent, canceled, failed, abandoned, faults>>

\* One event: a match of the chunk's own is kept, any other line is context,
\* and every match whose window the event completes is charged.
ParserReads(c) ==
    LET w == worker[c]
        seen == [w EXCEPT !.seen = Min(Unread(w)), !.parser = "waiting"]
        now == Counted(c, seen, seen.seen) \ Counted(c, w, w.seen)
    IN  /\ Running(c) /\ w.parser = "reading"
        /\ worker' = [worker EXCEPT ![c] = seen]
        /\ spent' = spent + Cardinality(now)
        /\ canceled' = (canceled \/ Spends(Cardinality(now)))
        /\ UNCHANGED <<engine, left, results, failed, abandoned, faults>>

\* The end of ripgrep's output; a killed ripgrep's last events may be lost.
ParserEnds(c) ==
    LET w == worker[c]
    IN  /\ Running(c) /\ w.parser = "waiting"
        /\ w.rg = "killed" \/ (w.rg = "exited" /\ Unread(w) = {})
        /\ worker' = [worker EXCEPT ![c].parser = "ended"]
        /\ UNCHANGED <<engine, left, results, spent, canceled, failed, abandoned, faults>>

\* ripgrep was killed in the middle of an event.
ParserIsCut(c) ==
    /\ Running(c) /\ worker[c].parser = "reading" /\ worker[c].rg = "killed"
    /\ worker' = [worker EXCEPT ![c].parser = "stopped"]
    /\ UNCHANGED <<engine, left, results, spent, canceled, failed, abandoned, faults>>

(***************************************************************************)
(* The end of ProcessChunk.  A canceled run gives back the matches it did  *)
(* not count as lines of the windows around them; any other run charges    *)
(* what is left, and only then is the run's outcome classified.            *)
(***************************************************************************)
\* A chunk that ended is taken for a chunk that was read.
FaultyChunkResult(c, w, kept) ==
    [matches |-> kept, contexts |-> {i \in Events(w.lo, w.fed) : i <= w.seen} \ kept,
     newlines |-> w.copied, complete |-> TRUE]

chunkResult(c, w, kept) ==
    [matches |-> kept, contexts |-> {i \in Events(w.lo, w.fed) : i <= w.seen} \ kept,
     newlines |-> w.copied, complete |-> w.copied = Cardinality(Own(c))]

\* A killed ripgrep is the cancel's doing once the scan is canceled, and an
\* error otherwise; after a regular exit only a failed goroutine is one.
IsError(w, stopped) == IF w.rg = "killed" THEN ~stopped ELSE w.feeder = "failed"

EndChunk(c) ==
    LET w == worker[c]
        counted == Counted(c, w, w.seen)
        late == IF canceled THEN {} ELSE OwnSeen(c, w) \ counted
        stopped == canceled \/ Spends(Cardinality(late))
        error == IsError(w, stopped)
    IN  /\ Running(c) /\ w.rg # "running"
        /\ w.feeder # "feeding" /\ w.parser \in {"ended", "stopped"}
        /\ worker' = [worker EXCEPT ![c].pc = "done"]
        /\ results' = [results EXCEPT ![c] = IF error THEN @ ELSE chunkResult(c, w, counted \union late)]
        /\ spent' = spent + Cardinality(late)
        /\ canceled' = (stopped \/ error)
        /\ failed' = (failed \/ error)
        /\ UNCHANGED <<engine, left, abandoned, faults>>

(***************************************************************************)
(* RunResolved: the files in turn, and what each gave.                     *)
(***************************************************************************)
Init ==
    /\ search \in Searches
    /\ phase = "file" /\ bucket = 0 /\ tasks = <<>> /\ left = 0
    /\ worker = <<>> /\ results = <<>>
    /\ spent = 0 /\ canceled = FALSE /\ failed = FALSE
    /\ abandoned = FALSE /\ faults = 0
    /\ outcomes = <<>>
    /\ answer = [matches |-> {}, found |-> {}, skipped |-> {}, cached |-> {}]

CapIsReached == Cap # None /\ Found >= Cap
MoreFiles == ~CapIsReached /\ bucket < Len(search.files)

ReadFile ==
    /\ phase = "file" /\ MoreFiles /\ ~abandoned
    /\ phase' = "scan" /\ bucket' = bucket + 1
    /\ tasks' = planFileTasks(search.files[bucket'])
    /\ left' = Len(search.files[bucket'])
    /\ worker' = [c \in DOMAIN tasks' |-> Idle]
    /\ results' = [c \in DOMAIN tasks' |-> Nothing]
    /\ spent' = 0 /\ canceled' = FALSE /\ failed' = FALSE
    /\ UNCHANGED <<search, abandoned, faults, outcomes, answer>>

\* ripgrep's number in its own input, the lead-in's lines discounted.
chunkLine(c, i) == i - worker[c].lo + 1 - Cardinality(LeadIn(c))

\* A line's number in the file, None where a chunk before it was cut short:
\* the line breaks counted in the chunks before come first.
Number(c, i) ==
    LET startLine[d \in 1..c] == IF d = 1 THEN 1 ELSE startLine[d - 1] + results[d - 1].newlines
    IN  IF \A d \in 1..c - 1 : results[d].complete THEN startLine[c] + chunkLine(c, i) - 1 ELSE None

FileIsRead ==
    LET numbered(lines) == UNION {{<<i, Number(c, i)>> : i \in lines[c]} : c \in Chunks}
        read == [matches |-> numbered([c \in Chunks |-> results[c].matches]),
                 contexts |-> numbered([c \in Chunks |-> results[c].contexts]),
                 skipped |-> FALSE,
                 cacheable |-> Cap = None /\ \A c \in Chunks : results[c].complete]
    IN  /\ phase = "scan" /\ \A c \in Chunks : worker[c].pc = "done"
        /\ phase' = "file"
        /\ outcomes' = Append(outcomes, IF failed THEN SkippedFile ELSE read)
        /\ UNCHANGED <<search, bucket, tasks, left, worker, results, spent, canceled, failed,
                       abandoned, faults, answer>>

SearchIsAbandoned ==
    /\ phase = "file" /\ abandoned
    /\ MoreFiles \/ Cardinality(search.patterns) > 1
    /\ phase' = "error"
    /\ UNCHANGED <<search, bucket, tasks, left, worker, results, spent, canceled, failed,
                   abandoned, faults, outcomes, answer>>

(***************************************************************************)
(* settleFiles: which patterns match each line (credit.go).  With several  *)
(* patterns each runs alone over batches of the matched lines, and a run   *)
(* that fails loses every file with a line in its batch.                   *)
(***************************************************************************)
planCreditBatches ==
    LET lines(k) == {m[1] : m \in outcomes[k].matches}
        Text(k, i) == EndOf(search.files[k], i) - StartOf(search.files[k], i)
        inOrder == FlattenSeq([k \in DOMAIN outcomes |->
                       [n \in 1..Cardinality(lines(k)) |->
                           <<k, CHOOSE i \in lines(k) : Cardinality({j \in lines(k) : j <= i}) = n>>]])
        Put(s, ref) ==
            LET bytes == s.bytes + Text(ref[1], ref[2])
            IN  IF bytes >= CreditBytes
                THEN [batches |-> s.batches \union {s.current \union {ref}}, current |-> {}, bytes |-> 0]
                ELSE [s EXCEPT !.current = @ \union {ref}, !.bytes = bytes]
        planned == FoldLeft(Put, [batches |-> {}, current |-> {}, bytes |-> 0], inOrder)
    IN  planned.batches \union ({planned.current} \ {{}})

\* The answer's order: file, offset, pattern.
Precedes(a, b) ==
    \/ a.file < b.file
    \/ a.file = b.file /\ a.line < b.line
    \/ a.file = b.file /\ a.line = b.line /\ a.pattern < b.pattern

FirstOf(matches) == {m \in matches : Cap = None \/ Cardinality({n \in matches : Precedes(n, m)}) < Cap}

\* The files with a line in a batch whose run failed.
lostFiles(failing) == {ref[1] : ref \in UNION failing}

creditsFromHits(k, line) == search.patterns \intersect search.files[k][line].pats

creditedMatches(lost) ==
    LET of(k) == UNION {{[file |-> k, line |-> m[1], number |-> m[2], pattern |-> p] :
                            p \in creditsFromHits(k, m[1])} : m \in outcomes[k].matches}
    IN  UNION {of(k) : k \in DOMAIN outcomes \ lost}

\* The runs that fail: none, or some where there are several patterns.
Failing ==
    {{}} \union UNION {kSubset(n, planCreditBatches) :
                        n \in {i \in 1..Faults - faults : Cardinality(search.patterns) > 1}}

Settle ==
    /\ phase = "file" /\ ~MoreFiles
    /\ Cardinality(search.patterns) > 1 => ~abandoned
    /\ \E failing \in Failing :
        LET lost == lostFiles(failing)
            found == creditedMatches(lost)
        IN  /\ faults' = faults + Cardinality(failing)
            /\ answer' = [matches |-> FirstOf(found), found |-> found,
                          skipped |-> lost \union {k \in DOMAIN outcomes : outcomes[k].skipped},
                          cached |-> {k \in DOMAIN outcomes \ lost : outcomes[k].cacheable}]
    /\ phase' = "done"
    /\ UNCHANGED <<search, bucket, tasks, left, worker, results, spent, canceled, failed,
                   abandoned, outcomes>>

\* buildContextDict: from a match outwards, the lines some scan reported and
\* that touch; the window ends at the first line none reported.
Reported(k) == {m.line : m \in {f \in answer.found : f.file = k}} \union {l[1] : l \in outcomes[k].contexts}
Window(m) ==
    {i \in m.line - search.before..m.line + search.after :
        \A j \in Min({i, m.line})..Max({i, m.line}) : j \in Reported(m.file)}

(***************************************************************************)
(* The world outside.                                                      *)
(***************************************************************************)
\* The caller's context ends, and with it the scan's.
Abandon ==
    /\ Outside /\ ~abandoned /\ phase \in {"file", "scan"}
    /\ abandoned' = TRUE
    /\ canceled' = (canceled \/ phase = "scan")
    /\ UNCHANGED <<engine, left, worker, results, spent, failed, faults>>

\* The file loses its last line while it is read (copytruncate).
CutShort ==
    /\ phase = "scan" /\ left > 0 /\ faults < Faults
    /\ left' = left - 1 /\ faults' = faults + 1
    /\ UNCHANGED <<engine, worker, results, spent, canceled, failed, abandoned>>

Done == phase \in {"done", "error"} /\ UNCHANGED vars

Worker(c) ==
    \/ FeedLine(c) \/ FeedEnds(c) \/ RipgrepExits(c) \/ RipgrepIsKilled(c)
    \/ ParserLooks(c) \/ ParserReads(c) \/ ParserEnds(c) \/ EndChunk(c)

Engine == ReadFile \/ FileIsRead \/ SearchIsAbandoned \/ Settle

Next ==
    \/ Engine
    \/ \E c \in Chunks : StartChunk(c) \/ Worker(c)
    \/ \E c \in Chunks : FeedFails(c) \/ RipgrepDies(c) \/ ParserIsCut(c)
    \/ Abandon
    \/ CutShort
    \/ Done

\* Every goroutine runs, ripgrep reads and writes what it can, and a kill
\* arrives.
Fairness == WF_vars(Engine) /\ \A c \in 1..MaxChunks : WF_vars(c \in Chunks /\ (StartChunk(c) \/ Worker(c)))

Spec == Init /\ [][Next]_vars /\ Fairness

(***************************************************************************)
(* Properties.                                                             *)
(***************************************************************************)
\* The chunks of a file are adjacent and each starts where a line does, so
\* every line is in exactly one of them (chunker.go: chunkStarts).
ChunksTileTheFile ==
    phase = "scan" =>
        /\ {tasks[c].offset : c \in Chunks} \subseteq {0} \union {StartOf(File, i) : i \in DOMAIN File}
        /\ \A i \in DOMAIN File : Cardinality({c \in Chunks : i \in Own(c)}) = 1

\* A finished search that met no fault and was not abandoned answers all the
\* matches there are, or as many as its cap asks for, although the charge
\* that spends the cap stops every worker where it is; and the chunks tile the
\* file.
AnswerIsFull ==
    /\ ChunksTileTheFile
    /\ phase = "done" /\ faults = 0 /\ ~abandoned =>
        LET all == UNION {{<<k, i, p>> : i \in DOMAIN search.files[k], p \in search.patterns} :
                              k \in DOMAIN search.files}
            true == {t \in all : t[3] \in search.files[t[1]][t[2]].pats}
            got == {<<m.file, m.line, m.pattern>> : m \in answer.matches}
        IN  /\ got \subseteq true /\ Cardinality(got) = Cardinality(answer.matches)
            /\ Cardinality(got) = IF Cap = None THEN Cardinality(true)
                                  ELSE Min({Cap, Cardinality(true)})

\* A line is numbered truly or not at all, although a canceled chunk counted
\* only some of its line breaks (engine.go: numbered).
NumbersAreTrue ==
    \A k \in DOMAIN outcomes : \A l \in outcomes[k].matches \union outcomes[k].contexts :
        l[2] \in {l[1], None}

TrueWindow(m) == (m.line - search.before..m.line + search.after) \intersect DOMAIN search.files[m.file]

\* Every match answered has its whole window, also when the cap stopped the
\* scan in the middle of a chunk (budget.go: trailingWindowGate), and its lines
\* are numbered as they are in the file or not at all.
WindowsAreWhole ==
    /\ NumbersAreTrue
    /\ phase = "done" /\ faults = 0 => \A m \in answer.matches : Window(m) = TrueWindow(m)

\* What goes into the trace cache holds every match of the file (engine.go,
\* RunResolved: only a scan that read every chunk is stored).
CachedIsWhole ==
    \A k \in answer.cached :
        {m[1] : m \in outcomes[k].matches} =
            {i \in DOMAIN search.files[k] : search.files[k][i].pats \intersect search.patterns # {}}

\* The same for a search its caller does not abandon.
KeptSearchesAreWhole == ~abandoned => CachedIsWhole

\* Every search ends: ripgrep is never waited for while nobody reads it.
SearchEnds == <>(phase \in {"done", "error"})
=============================================================================

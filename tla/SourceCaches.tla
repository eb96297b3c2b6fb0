---------------------------- MODULE SourceCaches ----------------------------
(***************************************************************************)
(* The trace cache and the line index beside a file that changes           *)
(* (internal/trace: cache.go, engine.go; internal/index: store.go,         *)
(* identity.go, fingerprint.go, pinned_load.go, builder.go;                *)
(* internal/paths: pinned.go).  A search answers from the cache when the   *)
(* entry's recorded identity is still the file's, and scans and stores an  *)
(* entry otherwise; an index build stores the checkpoints it walked; a     *)
(* canceled search numbers its matches with the index.  Every check is a   *)
(* stat and a read of its own, and the file may be appended to, rewritten  *)
(* or replaced between any two.  An entry is written to a file of its own  *)
(* and renamed, so a crash before that leaves the old one.                 *)
(*                                                                         *)
(* A file is named by its inode and device.  Its fingerprint is its size   *)
(* with its first and last line for the 64 KiB windows.                    *)
(***************************************************************************)
EXTENDS LineLookups

CONSTANTS
    Patterns,   \* what a line may match
    Procs,      \* processes and requests, each doing one job at a time
    Jobs,       \* searches [list, cap, before, after], builds, and searches whose
                \* first skip lines alone are numbered
    MaxJobs,    \* bound: jobs done
    Texts,      \* what a file may hold
    Appended,   \* lines a growing log gets
    Step,       \* index_step_bytes
    MaxChanges  \* bound: changes of the file

Line == [len : Nat \ {0}, pats : SUBSET Patterns]
SearchJob == [kind : {"search"}, list : Seq(Patterns), cap : Nat, before : Nat, after : Nat]
BuildJob == [kind : {"build"}]
NumberJob == [kind : {"number"}, skip : Nat]
Copies(list, pattern) == Cardinality({i \in DOMAIN list : list[i] = pattern})

\* One entry is for one set of patterns: its name is their hash (cache.go: CachePath).
ASSUME CachesAssumption ==
    /\ Texts \subseteq Seq(Line) /\ Appended \subseteq Line
    /\ Step \in Nat
    /\ \A job \in Jobs : job \in SearchJob \/ job \in BuildJob \/ job \in NumberJob
    /\ \A job, other \in Jobs : job.kind = "search" /\ other.kind = "search" =>
            \A pattern \in Patterns : Copies(job.list, pattern) = Copies(other.list, pattern)

VARIABLES
    files,      \* by inode: its text, mtime and ctime
    path,       \* the inode the path leads to
    now,        \* the file system's clock
    shown,      \* what the identity of every state of a file showed
    entry,      \* the trace cache's entry for the path, or NoEntry
    index,      \* the index stored for the path, or NoIndex
    proc,       \* by process: where it is in its job
    jobs, changes

vars == <<files, path, now, shown, entry, index, proc, jobs, changes>>
disk == <<files, path, now, shown, changes>>

NoEntry == [state |-> "none"]
NoIndex == [state |-> "none"]
NoId == [size |-> 0, mtime |-> 0, inode |-> 0, ctime |-> 0, print |-> <<>>]

(***************************************************************************)
(* Identities (identity.go, fingerprint.go).                               *)
(***************************************************************************)
Stat(i) == [size |-> SizeOf(files[i].text), mtime |-> files[i].mtime, inode |-> i, ctime |-> files[i].ctime]

SourceFingerprint(text) == <<SizeOf(text)>> \o (IF text = <<>> THEN <<>> ELSE <<Head(text), Last(text)>>)

identityOf(stat, print) ==
    [size |-> stat.size, mtime |-> stat.mtime, inode |-> stat.inode, ctime |-> stat.ctime, print |-> print]

MatchesInfo(id, stat) ==
    /\ id.size = stat.size /\ id.mtime = stat.mtime
    /\ id.inode = stat.inode /\ id.ctime = stat.ctime

matchesFingerprint(id, text) == id.print = SourceFingerprint(text)

\* Any index that is valid for the path will do.
FaultyDescribesPinned(id, pin) == TRUE

\* The index was built from the file the search checked, by its inode.
DescribesPinned(id, pin) == id.inode = pin.inode

\* Path.Open and Stat of a pin: the path still leads to the checked file.
LeadsToPin(p) == path = proc[p].pin.inode

(***************************************************************************)
(* Processes.                                                              *)
(***************************************************************************)
Idle == [pc |-> "idle"]

Goes(p, r) == proc' = [proc EXCEPT ![p] = r]
Goto(p, pc) == Goes(p, [proc[p] EXCEPT !.pc = pc])
Ends(p) == Goto(p, "done")

FirstStep(kind) ==
    CASE kind = "search" -> "lookup" [] kind = "build" -> "buildOpen" [] kind = "number" -> "index"

\* Pin: the file checked, and its stat; known is the text then (to compare
\* an answer with), and steady becomes FALSE once it no longer is the text
\* that was checked.
Begin(p) ==
    /\ proc[p].pc = "idle" /\ jobs < MaxJobs
    /\ \E job \in Jobs :
        Goes(p, [pc |-> FirstStep(job.kind), job |-> job, pin |-> Stat(path), known |-> files[path].text,
                 id |-> NoId, head |-> <<>>, data |-> {}, from |-> NoCheckpoint, cand |-> NoIndex,
                 got |-> {}, hit |-> FALSE, steady |-> TRUE])
    /\ jobs' = jobs + 1
    /\ UNCHANGED <<disk, entry, index>>

\* loadValidCache up to the identity: an entry for this list of patterns,
\* put in its order.
Lookup(p) ==
    LET r == proc[p]
    IN  /\ r.pc = "lookup"
        /\ IF entry.state = "stored"
           THEN Goes(p, [r EXCEPT !.pc = "checkStat", !.id = entry.id,
                             !.data = toReaderPatternOrder(entry.patterns, entry.records, r.job.list)])
           ELSE Goto(p, "identify")
        /\ UNCHANGED <<disk, entry, index, jobs>>

\* MatchesFile is a stat of the path and then, if that fits, a read of it.
CheckStat(p) ==
    /\ proc[p].pc = "checkStat"
    /\ IF MatchesInfo(proc[p].id, Stat(path))
       THEN Goes(p, [proc[p] EXCEPT !.pc = "checkPrint", !.steady = LeadsToPin(p), !.known = files[path].text])
       ELSE Goto(p, "identify")
    /\ UNCHANGED <<disk, entry, index, jobs>>

CheckPrint(p) ==
    /\ proc[p].pc = "checkPrint"
    /\ Goto(p, IF matchesFingerprint(proc[p].id, files[path].text) THEN "open" ELSE "identify")
    /\ UNCHANGED <<disk, entry, index, jobs>>

\* A hit: openReconstructSource opens the pin, then looks for an index.
OpenHit(p) ==
    /\ proc[p].pc = "open"
    /\ IF LeadsToPin(p) THEN Goto(p, IF proc[p].data = {} THEN "read" ELSE "index") ELSE Ends(p)
    /\ UNCHANGED <<disk, entry, index, jobs>>

(***************************************************************************)
(* LoadForPinned, for a hit and for the numbering of a canceled search.    *)
(***************************************************************************)
Unnumbered(r) == {StartOf(r.known, i) : i \in r.job.skip + 1..Len(r.known)}
Wanted(r) == IF r.job.kind = "search" THEN {m.offset : m \in r.data} ELSE Unnumbered(r)
AfterIndex(p) == IF proc[p].job.kind = "search" THEN "read" ELSE "count"

IndexLoad(p) ==
    /\ proc[p].pc = "index"
    /\ IF index.state = "stored" /\ Wanted(proc[p]) # {}
       THEN Goes(p, [proc[p] EXCEPT !.pc = "indexStat", !.cand = index])
       ELSE IF proc[p].job.kind = "search" THEN Goto(p, "read") ELSE Ends(p)
    /\ UNCHANGED <<disk, entry, index, jobs>>

IndexIsStale(p) ==
    IF proc[p].job.kind = "search" THEN Goto(p, "read") ELSE Ends(p)

IndexStat(p) ==
    /\ proc[p].pc = "indexStat"
    /\ IF MatchesInfo(proc[p].cand.id, Stat(path)) THEN Goto(p, "indexPrint") ELSE IndexIsStale(p)
    /\ UNCHANGED <<disk, entry, index, jobs>>

\* The start of the read: the checkpoint that leaves room for the first
\* record's context, or the one at or before the first offset to number.
IndexPrint(p) ==
    LET r == proc[p]
        first == Min(Wanted(r))
        checkpoint == IF r.job.kind = "search"
                      THEN CheckpointForContext(r.cand.checkpoints, first, r.job.before)
                      ELSE FindNearestCheckpointForOffset(r.cand.checkpoints, first)
    IN  /\ r.pc = "indexPrint"
        /\ IF /\ matchesFingerprint(r.cand.id, files[path].text) /\ DescribesPinned(r.cand.id, r.pin)
              /\ r.job.kind = "number" => r.cand.checkpoints # <<>>
           THEN Goes(p, [r EXCEPT !.pc = AfterIndex(p), !.from = checkpoint])
           ELSE IndexIsStale(p)
        /\ UNCHANGED <<disk, entry, index, jobs>>

\* The pass over the pinned file, and the answer cut and given its windows.
ReadHit(p) ==
    LET r == proc[p]
        pass == reconstructLines(files[r.pin.inode].text, StartAt(r.from), r.data, r.job)
    IN  /\ r.pc = "read"
        /\ Goes(p, [r EXCEPT !.pc = "done", !.hit = TRUE,
                        !.got = IF r.data = {} THEN {} ELSE AnswerOf(pass.matches, pass.emitted, r.job)])
        /\ UNCHANGED <<disk, entry, index, jobs>>

\* resolveLinesFromIndex opens the pin once it has its checkpoint.
CountLines(p) ==
    LET r == proc[p]
    IN  /\ r.pc = "count"
        /\ IF LeadsToPin(p)
           THEN Goes(p, [r EXCEPT !.pc = "done",
                    !.got = countLinesToOffsets(files[r.pin.inode].text, StartAt(r.from), Unnumbered(r))])
           ELSE Ends(p)
        /\ UNCHANGED <<disk, entry, index, jobs>>

(***************************************************************************)
(* A scan, and what it stores.                                             *)
(***************************************************************************)
\* The identity is taken once the scan is done.
FaultyIdentify(p) ==
    /\ proc[p].pc = "identify"
    /\ Goes(p, [proc[p] EXCEPT !.pc = "scanHead",
                    !.id = identityOf(Stat(path), SourceFingerprint(files[path].text))])
    /\ UNCHANGED <<disk, entry, index, jobs>>

\* scanToCache: the checked file's stat, and what the path holds now.
Identify(p) ==
    /\ proc[p].pc = "identify"
    /\ Goes(p, [proc[p] EXCEPT !.pc = "scanHead",
                    !.id = identityOf(proc[p].pin, SourceFingerprint(files[path].text))])
    /\ UNCHANGED <<disk, entry, index, jobs>>

\* The bytes up to a size, read at two moments with the first line's end
\* between them.
ReadHead(p, size) ==
    LET read == Prefix(files[proc[p].pin.inode].text, size) IN  IF read = <<>> THEN <<>> ELSE <<Head(read)>>
ReadOn(p, size) ==
    LET rest == LinesFrom(Prefix(files[proc[p].pin.inode].text, size), SizeOf(proc[p].head))
    IN  proc[p].head \o [k \in DOMAIN rest |-> [len |-> rest[k].end - rest[k].start, pats |-> rest[k].pats]]

\* Each chunk opens the pin; a file that is gone is skipped.
ScanHead(p) ==
    /\ proc[p].pc = "scanHead"
    /\ IF LeadsToPin(p)
       THEN Goes(p, [proc[p] EXCEPT !.pc = "scanTail", !.head = ReadHead(p, proc[p].pin.size)])
       ELSE Ends(p)
    /\ UNCHANGED <<disk, entry, index, jobs>>

ScanTail(p) ==
    LET r == proc[p]
    IN  /\ r.pc = "scanTail"
        /\ IF LeadsToPin(p)
           THEN Goes(p, [r EXCEPT !.pc = IF r.job.cap = 0 THEN "saveStat" ELSE "done",
                             !.data = ScanOf(ReadOn(p, r.pin.size), r.job.list)])
           ELSE Ends(p)
        /\ UNCHANGED <<disk, entry, index, jobs>>

\* SaveScannedFile: not when the file is no longer the one that was scanned.
SaveStat(p) ==
    /\ proc[p].pc = "saveStat"
    /\ IF MatchesInfo(proc[p].id, Stat(path)) THEN Goto(p, "savePrint") ELSE Ends(p)
    /\ UNCHANGED <<disk, entry, index, jobs>>

SavePrint(p) ==
    /\ proc[p].pc = "savePrint"
    /\ IF matchesFingerprint(proc[p].id, files[path].text) THEN Goto(p, "rename") ELSE Ends(p)
    /\ UNCHANGED <<disk, entry, index, jobs>>

\* BuildCache and writeFileAtomically: the rename.
SaveCache(p) ==
    /\ proc[p].pc = "rename"
    /\ entry' = [state |-> "stored", id |-> proc[p].id, patterns |-> proc[p].job.list,
                 records |-> {[offset |-> m.offset, pattern |-> m.pattern] : m \in proc[p].data}]
    /\ Ends(p)
    /\ UNCHANGED <<disk, index, jobs>>

(***************************************************************************)
(* An index build: pin, open, identity, walk, store.                       *)
(***************************************************************************)
BuildOpen(p) ==
    /\ proc[p].pc = "buildOpen"
    /\ IF LeadsToPin(p) THEN Goto(p, "buildIdentify") ELSE Ends(p)
    /\ UNCHANGED <<disk, entry, index, jobs>>

BuildIdentify(p) ==
    /\ proc[p].pc = "buildIdentify"
    /\ Goes(p, [proc[p] EXCEPT !.pc = "buildHead",
                    !.id = identityOf(proc[p].pin, SourceFingerprint(files[proc[p].pin.inode].text))])
    /\ UNCHANGED <<disk, entry, index, jobs>>

BuildHead(p) ==
    /\ proc[p].pc = "buildHead"
    /\ Goes(p, [proc[p] EXCEPT !.pc = "buildTail", !.head = ReadHead(p, proc[p].pin.size)])
    /\ UNCHANGED <<disk, entry, index, jobs>>

BuildTail(p) ==
    /\ proc[p].pc = "buildTail"
    /\ Goes(p, [proc[p] EXCEPT !.pc = "buildSave", !.head = ReadOn(p, proc[p].pin.size)])
    /\ UNCHANGED <<disk, entry, index, jobs>>

BuildSave(p) ==
    /\ proc[p].pc = "buildSave"
    /\ index' = [state |-> "stored", id |-> proc[p].id, checkpoints |-> walkLines(proc[p].head, Step)]
    /\ Ends(p)
    /\ UNCHANGED <<disk, entry, jobs>>

\* A process ends, or dies before its rename; the next job starts afresh.
Leave(p) ==
    /\ proc[p].pc # "idle"
    /\ Goes(p, Idle)
    /\ UNCHANGED <<disk, entry, index, jobs>>

\* A power loss leaves an entry or an index that does not parse.
Damage ==
    /\ entry.state = "stored" \/ index.state = "stored"
    /\ entry' = NoEntry /\ index' = NoIndex
    /\ changes < MaxChanges /\ changes' = changes + 1
    /\ UNCHANGED <<files, path, now, shown, proc, jobs>>

(***************************************************************************)
(* The file's life.                                                        *)
(***************************************************************************)
\* What identities show of a state of file i.
Shown(i, text, mtime, ctime) == <<i, SourceFingerprint(text), mtime, ctime>>

\* ASSUMED: no two states of a file show the same size, times and first and
\* last 64 KiB (fingerprint.go names the case it leaves to the ctime).
ToldApart(i, file) == Shown(i, file.text, file.mtime, file.ctime) \notin shown

Becomes(i, file) ==
    /\ changes < MaxChanges /\ changes' = changes + 1
    /\ ToldApart(i, file)
    /\ shown' = shown \union {Shown(i, file.text, file.mtime, file.ctime)}
    /\ files' = [files EXCEPT ![i] = file]

\* The clock may not have ticked since the last change.
Clock == {now, now + 1}

Append_ ==
    \E t \in Clock, line \in Appended :
        /\ Becomes(path, [text |-> Append(files[path].text, line), mtime |-> t, ctime |-> t])
        /\ now' = t
        /\ UNCHANGED <<path, entry, index, proc, jobs>>

\* Other bytes in the same file; its mtime may be put back.
Rewrite ==
    \E t \in Clock, text \in Texts \ {files[path].text} :
        \E mtime \in {t, files[path].mtime} :
            /\ Becomes(path, [text |-> text, mtime |-> mtime, ctime |-> t])
            /\ now' = t
            /\ proc' = [p \in Procs |-> IF proc[p].pc # "idle" /\ proc[p].pin.inode = path
                                        THEN [proc[p] EXCEPT !.steady = FALSE] ELSE proc[p]]
            /\ UNCHANGED <<path, entry, index, jobs>>

\* Another file takes the path's place, or the first one comes back.
Retarget ==
    /\ changes < MaxChanges /\ changes' = changes + 1
    /\ path' \in DOMAIN files \ {path}
    /\ UNCHANGED <<files, now, shown, entry, index, proc, jobs>>

Init ==
    /\ files \in [{1, 2} -> [text : Texts, mtime : {1}, ctime : {1}]]
    /\ SourceFingerprint(files[1].text) # SourceFingerprint(files[2].text)
    /\ path = 1 /\ now = 1
    /\ shown = {Shown(i, files[i].text, 1, 1) : i \in {1, 2}}
    /\ \E i \in {1, 2} :
        index \in {NoIndex, [state |-> "stored", checkpoints |-> walkLines(files[i].text, Step),
                             id |-> identityOf(Stat(i), SourceFingerprint(files[i].text))]}
    /\ \E i \in {1, 2}, job \in {j \in Jobs : j.kind = "search"} :
        entry \in {NoEntry, [state |-> "stored", patterns |-> job.list,
                             id |-> identityOf(Stat(i), SourceFingerprint(files[i].text)),
                             records |-> {[offset |-> m.offset, pattern |-> m.pattern] :
                                             m \in ScanOf(files[i].text, job.list)}]}
    /\ proc = [p \in Procs |-> Idle] /\ jobs = 0 /\ changes = 0

Search(p) ==
    \/ Lookup(p) \/ CheckStat(p) \/ CheckPrint(p) \/ OpenHit(p) \/ ReadHit(p) \/ Identify(p)
    \/ ScanHead(p) \/ ScanTail(p) \/ SaveStat(p) \/ SavePrint(p) \/ SaveCache(p)

Build(p) == BuildOpen(p) \/ BuildIdentify(p) \/ BuildHead(p) \/ BuildTail(p) \/ BuildSave(p)

LoadForPinned(p) == IndexLoad(p) \/ IndexStat(p) \/ IndexPrint(p)

Next ==
    \/ \E p \in Procs : Begin(p) \/ Search(p) \/ Build(p) \/ LoadForPinned(p) \/ CountLines(p) \/ Leave(p)
    \/ Append_ \/ Rewrite \/ Retarget \/ Damage

Spec == Init /\ [][Next]_vars

(***************************************************************************)
(* Properties.                                                             *)
(***************************************************************************)
Finished(p, kind) == proc[p].pc = "done" /\ proc[p].job.kind = kind

\* An answer made from the cache is the one a scan of the file, as it was
\* when the entry was checked, gives: the same matches with the same numbers
\* and the same windows, whoever wrote the entry and the index, and when.  A
\* file rewritten under the pass, or a path that led elsewhere at the check,
\* is left out: there the code compares nothing (reconstruct.go).
HitsAreScans ==
    \A p \in Procs : Finished(p, "search") /\ proc[p].hit /\ proc[p].steady =>
        LET r == proc[p]
            InIt(number) == WindowOf(number, DOMAIN r.known, r.job)
        IN  /\ {g.match : g \in r.got} = FirstOf(ScanOf(r.known, r.job.list), r.job.cap)
            /\ \A g \in r.got :
                /\ g.window \intersect DOMAIN r.known = InIt(g.match.number)
                /\ g.window \subseteq DOMAIN files[r.pin.inode].text

\* Lines numbered with an index have their true numbers, although the index
\* was looked up by a path that may lead to another file (pinned_load.go:
\* DescribesPinned).
IndexedNumbersAreTrue ==
    \A p \in Procs : Finished(p, "number") /\ proc[p].steady =>
        \A n \in proc[p].got : n.offset = StartOf(proc[p].known, n.line)
=============================================================================

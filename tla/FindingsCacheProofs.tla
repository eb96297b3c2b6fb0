------------------------ MODULE FindingsCacheProofs ------------------------
(***************************************************************************)
(* Proofs about FindingsCache, for any processes, readers, signatures,     *)
(* settings and texts.                                                     *)
(*                                                                         *)
(* Types, the order of a commit's writes and the keys under which files    *)
(* are used hold of every run.  Which text a file was found in is a matter *)
(* of age: under NoLateCommit no file that meta.json names is older than   *)
(* the text meta.json describes, nor gets older under one who reads it     *)
(* (AgeInv), and that carries the last three theorems on it.  Counts play  *)
(* no part in them.                                                        *)
(*                                                                         *)
(* The last part is about ViewerBundle, for any releases and starts.       *)
(***************************************************************************)
EXTENDS FindingsCache, Sequences, FiniteSetTheorems, WellFoundedInduction, TLAPS

-----------------------------------------------------------------------------
(* Types *)

LEMMA FileTypes ==
    /\ Absent \in CacheFile /\ NoFiles \in Files /\ NoNames \in Names /\ NoMeta \in Meta
    /\ NoScan \in Scan /\ NoRead \in Read /\ NothingKept \in Held
    /\ NothingHeld \in [entries : Files, ranges : CacheFile]
    /\ MaxVersion \in Nat \ {0} /\ 0 \notin Versions /\ \A v \in Versions : v \in 0 .. MaxVersion
<1>1. /\ MaxVersion \in Nat \ {0} /\ 0 \in 0 .. MaxVersion /\ 0 \notin Versions
      /\ \A v \in Versions : v \in 0 .. MaxVersion
  BY CacheAssumption DEF Versions
<1>2. Absent \in CacheFile /\ NoNames \in Names
  BY <1>1 DEF Absent, CacheFile, NoNames, Names
<1>3. NoFiles \in Files /\ NoMeta \in Meta
  BY <1>1, <1>2 DEF NoFiles, Files, NoMeta, Meta
<1>4. NoScan \in Scan
  BY <1>1, <1>2, <1>3 DEF NoScan, Scan, ScanSteps
<1>5. NothingHeld \in [entries : Files, ranges : CacheFile]
  BY <1>2, <1>3 DEF NothingHeld
<1>6. NoRead \in Read
  BY <1>2, <1>3, <1>5 DEF NoRead, Read
<1>7. NothingKept \in Held
  BY <1>1, <1>2, <1>3 DEF NothingKept, Held
<1> QED
  BY <1>1, <1>2, <1>3, <1>4, <1>5, <1>6, <1>7

LEMMA AskedTypes == \A ask \in Asked : ask[1] \in Scopes /\ ask[2] \in SUBSET Sigs
BY CacheAssumption

LEMMA InitTypes == Init => TypeOK
<1>1. 1 \in Versions
  BY FileTypes DEF Versions
<1> QED
  BY <1>1, FileTypes DEF Init, TypeOK

LEMMA ScanTypes ==
    ASSUME TypeOK, NEW p \in Scanners, ScanNext(p)
    PROVE  TypeOK'
<1> DEFINE c == scan[p]
<1>1. /\ c \in Scan /\ version \in Versions /\ version \in 0 .. MaxVersion
      /\ entry \in Files /\ ranges \in CacheFile /\ meta \in Meta /\ lock \in Scanners \union {NoScanner}
  BY FileTypes, SMTT(30) DEF TypeOK
<1>2. UNCHANGED <<version, reading, held>>
  BY DEF ScanNext, Begin, LoadMeta, LoadRanges, LoadEntry, LookedUp, ScanText, Recheck, Abandon, TakeLock, WriteEntry,
     WriteRanges, Merge, WriteMeta, RemoveUnnamed, CommitFails, Return, Crash, Unmoved
<1>3. SUFFICES /\ scan' \in [Scanners -> Scan] /\ entry' \in Files /\ ranges' \in CacheFile /\ meta' \in Meta
               /\ lock' \in Scanners \union {NoScanner}
  BY <1>2 DEF TypeOK
<1>4. ASSUME NEW d \in Scan, scan' = [scan EXCEPT ![p] = d]
      PROVE  scan' \in [Scanners -> Scan]
  BY <1>4 DEF TypeOK
<1>5. ASSUME NEW ask \in Asked, NEW force \in BOOLEAN, Begin(p, ask[1], ask[2], force)
      PROVE  scan' \in [Scanners -> Scan] /\ UNCHANGED <<entry, ranges, meta, lock>>
  <2>1. [NoScan EXCEPT !.at = "meta", !.scope = ask[1], !.sel = ask[2], !.force = force, !.start = version] \in Scan
    BY <1>1, AskedTypes, FileTypes DEF Scan, ScanSteps
  <2> QED
    BY <1>4, <1>5, <2>1 DEF Begin, Unmoved
<1>6. CASE LoadMeta(p) \/ LoadRanges(p) \/ LookedUp(p) \/ ScanText(p) \/ Recheck(p)
  <2>1. scan' \in [Scanners -> Scan]
    BY <1>1, <1>6, FileTypes
       DEF LoadMeta, LoadRanges, LookedUp, ScanText, Recheck, TypeOK, Scan, ScanSteps
  <2> QED
    BY <1>6, <2>1, <1>1 DEF LoadMeta, LoadRanges, LookedUp, ScanText, Recheck, Unmoved
<1>7. CASE LoadEntry(p)
  <2>1. PICK s \in c.todo :
          scan' = [scan EXCEPT ![p].todo = @ \ {s}, ![p].got = Took(@, s, entry[s], c.seen, c.scope)]
    BY <1>7 DEF LoadEntry
  <2>2. s \in Sigs /\ entry[s] \in CacheFile /\ c.got \in Files
    BY <1>1, <2>1 DEF Scan, Files
  <2>3. Took(c.got, s, entry[s], c.seen, c.scope) \in Files
    BY <2>2 DEF Took, Files
  <2>4. scan' \in [Scanners -> Scan]
    BY <1>1, <2>1, <2>3 DEF TypeOK, Scan
  <2> QED
    BY <1>1, <1>7, <2>4 DEF LoadEntry, Unmoved
<1>8. CASE Abandon(p) \/ Return(p)
  BY <1>1, <1>4, <1>8, FileTypes DEF Abandon, Return, Unmoved
<1>9. CASE TakeLock(p)
  <2>1. Missing(p) \in SUBSET Sigs
    BY <1>1 DEF Missing, Scan
  <2>2. scan' \in [Scanners -> Scan]
    BY <1>1, <1>9, <2>1 DEF TakeLock, TypeOK, Scan, ScanSteps
  <2> QED
    BY <1>1, <1>9, <2>2 DEF TakeLock
<1>10. CASE WriteEntry(p)
  <2>1. PICK s \in c.todo : /\ entry' = [entry EXCEPT ![s] = EntryOf(p)]
                            /\ scan' = [scan EXCEPT ![p].todo = @ \ {s}]
    BY <1>10 DEF WriteEntry
  <2>2. EntryOf(p) \in CacheFile
    BY <1>1 DEF EntryOf, CacheFile, Scan
  <2>3. entry' \in Files
    BY <1>1, <2>1, <2>2 DEF Files
  <2>4. scan' \in [Scanners -> Scan]
    BY <1>1, <2>1 DEF TypeOK, Scan
  <2> QED
    BY <1>1, <1>10, <2>3, <2>4 DEF WriteEntry
<1>11. CASE WriteRanges(p)
  <2>1. ranges' \in CacheFile
    BY <1>1, <1>11 DEF WriteRanges, CacheFile, Scan
  <2>2. scan' \in [Scanners -> Scan]
    BY <1>1, <1>11 DEF WriteRanges, TypeOK, Scan, ScanSteps
  <2> QED
    BY <1>1, <1>11, <2>1, <2>2 DEF WriteRanges
<1>12. CASE Merge(p)
  <2> DEFINE next == [version |-> c.start,
                      names |-> [s \in Sigs |-> IF s \in Missing(p) THEN c.scope ELSE Kept(p)[s]],
                      ranges |-> c.scope]
  <2>1. Kept(p) \in Names
    BY <1>1, FileTypes DEF Kept, Meta
  <2>2. next \in Meta
    <3>1. \A s \in Sigs : Kept(p)[s] \in Scopes \union {NoScope}
      BY <2>1 DEF Names
    <3> QED
      BY <1>1, <3>1 DEF Meta, Names, Scan
  <2>3. scan' = [scan EXCEPT ![p].at = "writeMeta", ![p].next = next]
    BY <1>12 DEF Merge
  <2> HIDE DEF next
  <2>4. scan' \in [Scanners -> Scan]
    BY <1>1, <2>2, <2>3 DEF TypeOK, Scan, ScanSteps
  <2> QED
    BY <1>1, <1>12, <2>4 DEF Merge, Unmoved
<1>13. CASE WriteMeta(p)
  <2>1. meta' \in Meta
    BY <1>1, <1>13 DEF WriteMeta, Scan
  <2>2. scan' \in [Scanners -> Scan]
    BY <1>1, <1>13 DEF WriteMeta, TypeOK, Scan, ScanSteps
  <2> QED
    BY <1>1, <1>13, <2>1, <2>2 DEF WriteMeta
<1>14. CASE RemoveUnnamed(p)
  <2>1. entry' \in Files
    BY <1>1, <1>14, FileTypes DEF RemoveUnnamed, Files
  <2>2. scan' \in [Scanners -> Scan]
    BY <1>1, <1>14 DEF RemoveUnnamed, TypeOK, Scan, ScanSteps
  <2> QED
    BY <1>1, <1>14, <2>1, <2>2 DEF RemoveUnnamed
<1>15. CASE CommitFails(p)
  <2>1. scan' \in [Scanners -> Scan]
    BY <1>1, <1>15 DEF CommitFails, TypeOK, Scan, ScanSteps
  <2> QED
    BY <1>1, <1>15, <2>1 DEF CommitFails
<1>16. CASE Crash(p)
  BY <1>1, <1>4, <1>16, FileTypes DEF Crash
<1> QED
  BY <1>5, <1>6, <1>7, <1>8, <1>9, <1>10, <1>11, <1>12, <1>13, <1>14, <1>15, <1>16 DEF ScanNext, TypeOK

LEMMA ReadTypes ==
    ASSUME TypeOK, NEW r \in Readers, ReadNext(r)
    PROVE  TypeOK'
<1> DEFINE c == reading[r]
<1>1. /\ c \in Read /\ version \in Versions /\ version \in 0 .. MaxVersion
      /\ entry \in Files /\ ranges \in CacheFile /\ meta \in Meta /\ held \in Held
  BY FileTypes DEF TypeOK
<1>2. UNCHANGED <<version, entry, ranges, meta, lock, scan>>
  BY DEF ReadNext, ReadMeta, ReadRanges, ReadEntry, Confirm, ReadReturn, Quiet
<1>3. SUFFICES reading' \in [Readers -> Read] /\ held' \in Held
  BY <1>2 DEF TypeOK
<1>4. ASSUME NEW d \in Read, reading' = [reading EXCEPT ![r] = d]
      PROVE  reading' \in [Readers -> Read]
  BY <1>4 DEF TypeOK
<1>5. ASSUME NEW scope \in Scopes, ReadMeta(r, scope)
      PROVE  reading' \in [Readers -> Read] /\ held' \in Held
  <2> DEFINE kept == IF meta.version = held.version
                     THEN [entries |-> held.entries, ranges |-> held.ranges] ELSE NothingHeld
             d == [NoRead EXCEPT !.at = "ranges", !.scope = scope, !.seen = meta, !.reuse = kept]
  <2>1. kept \in [entries : Files, ranges : CacheFile]
    BY <1>1, FileTypes DEF Held
  <2>2. reading' = [reading EXCEPT ![r] = d] /\ held' = held
    BY <1>5 DEF ReadMeta
  <2> HIDE DEF kept
  <2>3. d \in Read
    BY <1>1, <2>1, FileTypes DEF Read
  <2> HIDE DEF d
  <2> QED
    BY <1>1, <1>4, <2>2, <2>3
<1>6. CASE ReadRanges(r)
  <2> DEFINE f == IF Agrees(c.reuse.ranges, c.seen, c.scope) THEN c.reuse.ranges ELSE ranges
  <2>1. f \in CacheFile
    BY <1>1 DEF Read
  <2>2. Current(c.seen, c.scope) \in SUBSET Sigs
    BY DEF Current
  <2>3. /\ held' = held
        /\ \/ reading' = [reading EXCEPT ![r].at = "entries", ![r].ranges = f, ![r].todo = Current(c.seen, c.scope)]
           \/ reading' = [reading EXCEPT ![r] = NoRead]
    BY <1>6 DEF ReadRanges
  <2> HIDE DEF f
  <2>4. reading' \in [Readers -> Read]
    BY <1>1, <1>4, <2>1, <2>2, <2>3, FileTypes DEF TypeOK, Read
  <2> QED
    BY <1>1, <2>3, <2>4
<1>7. CASE ReadEntry(r)
  <2>1. PICK s \in c.todo :
          /\ held' = held
          /\ \E f \in {c.reuse.entries[s], entry[s]} :
                reading' = [reading EXCEPT ![r].todo = @ \ {s},
                                           ![r].at = IF c.todo = {s} THEN "confirm" ELSE @,
                                           ![r].got = Took(@, s, f, c.seen, c.scope)]
    BY <1>7 DEF ReadEntry
  <2>2. s \in Sigs /\ entry[s] \in CacheFile /\ c.reuse.entries[s] \in CacheFile /\ c.got \in Files
    BY <1>1, <2>1 DEF Read, Files
  <2>3. PICK f \in CacheFile :
          reading' = [reading EXCEPT ![r].todo = @ \ {s},
                                     ![r].at = IF c.todo = {s} THEN "confirm" ELSE @,
                                     ![r].got = Took(@, s, f, c.seen, c.scope)]
    BY <2>1, <2>2
  <2>4. Took(c.got, s, f, c.seen, c.scope) \in Files
    BY <2>2 DEF Took, Files
  <2>5. reading' \in [Readers -> Read]
    BY <1>1, <2>3, <2>4 DEF TypeOK, Read
  <2> QED
    BY <1>1, <2>1, <2>5
<1>8. CASE Confirm(r)
  <2>1. reading' \in [Readers -> Read]
    BY <1>1, <1>4, <1>8, FileTypes DEF Confirm, TypeOK, Read
  <2>2. Stored(r) \in Held
    <3> DEFINE old == IF held.version = version THEN held ELSE NothingKept
               new == [version |-> version,
                       entries |-> [s \in Sigs |-> IF Fresh(r, s) THEN c.got[s] ELSE old.entries[s]],
                       ranges |-> IF FreshRanges(r) THEN c.ranges ELSE old.ranges]
    <3>1. old \in Held
      BY <1>1, FileTypes
    <3>2. new \in Held
      <4> HIDE DEF old
      <4>1. \A s \in Sigs : old.entries[s] \in CacheFile /\ c.got[s] \in CacheFile
        BY <1>1, <3>1 DEF Held, Files, Read
      <4>2. [s \in Sigs |-> IF Fresh(r, s) THEN c.got[s] ELSE old.entries[s]] \in Files
        BY <4>1 DEF Files
      <4> QED
        BY <1>1, <3>1, <4>2 DEF Held, Read
    <3>3. Stored(r) \in {held, new}
      BY DEF Stored
    <3> QED
      BY <1>1, <3>2, <3>3
  <2> QED
    BY <1>1, <1>8, <2>1, <2>2 DEF Confirm
<1>9. CASE ReadReturn(r)
  BY <1>1, <1>4, <1>9, FileTypes DEF ReadReturn
<1> QED
  BY <1>5, <1>6, <1>7, <1>8, <1>9 DEF ReadNext

LEMMA NextTypes == ASSUME TypeOK, [Next]_vars PROVE TypeOK'
<1>1. CASE Change
  BY <1>1, CacheAssumption DEF Change, TypeOK, Versions
<1>2. CASE \E p \in Scanners : ScanNext(p)
  BY <1>2, ScanTypes
<1>3. CASE \E r \in Readers : ReadNext(r)
  BY <1>3, ReadTypes
<1>4. CASE Evict
  BY <1>4, FileTypes DEF Evict, Quiet, TypeOK
<1>5. CASE UNCHANGED vars
  BY <1>5 DEF vars, TypeOK
<1> QED
  BY <1>1, <1>2, <1>3, <1>4, <1>5 DEF Next

-----------------------------------------------------------------------------
(* Commits *)

CommitSteps == {"write", "merge", "writeMeta", "remove"}
Committing(p) == scan[p].at \in CommitSteps

Begun(p) ==
    /\ scan[p].at # "idle" => scan[p].scope \in Scopes /\ scan[p].start \in Versions
    /\ scan[p].at \in {"recheck", "lock"} \union CommitSteps => scan[p].text \in Versions

\* The files written so far are there, and meta.json comes after them.
Ordered(p) ==
    /\ Committing(p) => lock = p
    /\ scan[p].at = "write" => \A s \in Missing(p) : s \notin scan[p].todo => entry[s] # Absent
    /\ scan[p].at \in {"merge", "writeMeta"} => \A s \in Missing(p) : entry[s] # Absent
    /\ scan[p].at = "writeMeta" =>
        /\ scan[p].next.version = scan[p].start
        /\ \A s \in Sigs : scan[p].next.names[s] # NoScope => entry[s] # Absent
        /\ \A s \in Sigs : meta.version = scan[p].start /\ meta.names[s] # NoScope => scan[p].next.names[s] # NoScope
    /\ scan[p].at = "remove" => meta = scan[p].next

NamesHaveVersion == \A s \in Sigs : meta.names[s] # NoScope => meta.version \in Versions

CommitInv ==
    /\ NamedFilesStay /\ NamesHaveVersion
    /\ \A p \in Scanners : Begun(p) /\ Ordered(p)

LEMMA InitCommit == Init => CommitInv
BY DEF Init, CommitInv, NamedFilesStay, NamesHaveVersion, Begun, Ordered, Committing, CommitSteps, NoScan, NoMeta, NoNames

(* A process that steps leaves the others as they are.                     *)
LEMMA OthersKept ==
    ASSUME NEW q \in Scanners, Begun(q), Ordered(q), scan'[q] = scan[q],
           Committing(q) => UNCHANGED <<entry, meta, lock>>
    PROVE  Begun(q)' /\ Ordered(q)'
<1>1. Begun(q)'
  BY DEF Begun
<1>2. /\ Missing(q)' = Missing(q)
      /\ Committing(q)' <=> Committing(q)
  BY DEF Missing, Committing
<1>3. Ordered(q)'
  <2>1. CASE Committing(q)
    BY <1>2, <2>1 DEF Ordered
  <2>2. CASE ~Committing(q)
    <3>1. scan'[q].at \notin {"write", "merge", "writeMeta", "remove"}
      BY <2>2 DEF Committing, CommitSteps
    <3> QED
      BY <1>2, <2>2, <3>1 DEF Ordered
  <2> QED
    BY <2>1, <2>2
<1> QED
  BY <1>1, <1>3

\* Nobody else commits while p holds the lock, or takes it.
LEMMA OneCommits ==
    ASSUME CommitInv, NEW p \in Scanners, lock \in {p, NoScanner}
    PROVE  \A q \in Scanners \ {p} : ~Committing(q)
BY CacheAssumption DEF CommitInv, Ordered

(* A step that writes no file, and is not part of a commit.                *)
LEMMA LookCommit ==
    ASSUME TypeOK, CommitInv, NEW p \in Scanners, UNCHANGED <<entry, meta, lock>>,
           \A q \in Scanners \ {p} : scan'[q] = scan[q],
           Begun(p)', ~Committing(p)'
    PROVE  CommitInv'
<1>1. \A q \in Scanners \ {p} : Begun(q)' /\ Ordered(q)'
  BY OthersKept DEF CommitInv
<1>2. Ordered(p)'
  BY DEF Ordered, Committing, CommitSteps
<1> QED
  BY <1>1, <1>2 DEF CommitInv, NamedFilesStay, NamesHaveVersion

LEMMA ScanCommit ==
    ASSUME TypeOK, TypeOK', CommitInv, NEW p \in Scanners, ScanNext(p)
    PROVE  CommitInv'
<1> DEFINE c == scan[p]
<1>1. /\ c \in Scan /\ version \in Versions /\ scan \in [Scanners -> Scan]
      /\ Begun(p) /\ Ordered(p) /\ entry \in Files /\ meta \in Meta
  BY DEF TypeOK, CommitInv
<1>2. \A q \in Scanners \ {p} : scan'[q] = scan[q]
  BY <1>1 DEF ScanNext, Begin, LoadMeta, LoadRanges, LoadEntry, LookedUp, ScanText, Recheck, Abandon, TakeLock, WriteEntry,
     WriteRanges, Merge, WriteMeta, RemoveUnnamed, CommitFails, Return, Crash
<1>3. ASSUME NEW ask \in Asked, NEW force \in BOOLEAN, Begin(p, ask[1], ask[2], force)
      PROVE  CommitInv'
  <2>1. /\ scan'[p].at = "meta" /\ scan'[p].scope = ask[1] /\ scan'[p].start = version
        /\ UNCHANGED <<entry, meta, lock>>
    BY <1>1, <1>3 DEF Begin, Unmoved, NoScan
  <2>2. Begun(p)' /\ ~Committing(p)'
    BY <1>1, <2>1, AskedTypes DEF Begun, Committing, CommitSteps
  <2> QED
    BY <1>2, <2>1, <2>2, LookCommit
<1>4. CASE LoadMeta(p) \/ LoadRanges(p) \/ LoadEntry(p) \/ LookedUp(p) \/ ScanText(p) \/ Recheck(p)
  <2>1. /\ UNCHANGED <<entry, meta, lock>> /\ c.at \notin CommitSteps /\ c.at # "idle"
        /\ scan'[p].scope = c.scope /\ scan'[p].start = c.start
        /\ scan'[p].at \in {"ranges", "scan", "entries", "answered", "recheck", "lock"}
        /\ scan'[p].at \in {"recheck", "lock"} =>
              (c.at = "recheck" /\ scan'[p].text = c.text) \/ scan'[p].text = version
    <3>1. CASE LoadEntry(p)
      BY <1>1, <3>1 DEF LoadEntry, Unmoved, Scan, CommitSteps
    <3>2. CASE LoadMeta(p)
      BY <1>1, <3>2 DEF LoadMeta, Unmoved, Scan, CommitSteps
    <3>3. CASE LoadRanges(p) \/ LookedUp(p) \/ ScanText(p)
      BY <1>1, <3>3 DEF LoadRanges, LookedUp, ScanText, Unmoved, Scan, CommitSteps
    <3>4. CASE Recheck(p)
      BY <1>1, <3>4 DEF Recheck, Unmoved, Scan, CommitSteps
    <3> QED
      BY <1>4, <3>1, <3>2, <3>3, <3>4
  <2>2. Begun(p)' /\ ~Committing(p)'
    BY <1>1, <2>1 DEF Begun, Committing, CommitSteps
  <2> QED
    BY <1>2, <2>1, <2>2, LookCommit
<1>5. CASE Abandon(p) \/ Return(p)
  <2>1. scan'[p].at = "idle" /\ UNCHANGED <<entry, meta, lock>>
    BY <1>1, <1>5 DEF Abandon, Return, Unmoved, NoScan
  <2>2. Begun(p)' /\ ~Committing(p)'
    BY <2>1 DEF Begun, Committing, CommitSteps
  <2> QED
    BY <1>2, <2>1, <2>2, LookCommit
<1>6. CASE TakeLock(p)
  <2>1. /\ lock = NoScanner /\ lock' = p /\ UNCHANGED <<entry, meta>>
        /\ c.at = "lock" /\ scan'[p].at = "write" /\ scan'[p].todo = Missing(p)
        /\ scan'[p].scope = c.scope /\ scan'[p].start = c.start /\ scan'[p].text = c.text
        /\ scan'[p].force = c.force /\ scan'[p].sel = c.sel /\ scan'[p].got = c.got
    BY <1>1, <1>6 DEF TakeLock, Scan
  <2>2. Begun(p)' /\ Ordered(p)'
    BY <1>1, <2>1 DEF Begun, Ordered, Committing, CommitSteps, Missing
  <2>3. \A q \in Scanners \ {p} : Begun(q)' /\ Ordered(q)'
    BY <1>2, <2>1, OneCommits, OthersKept DEF CommitInv
  <2> QED
    BY <2>1, <2>2, <2>3 DEF CommitInv, NamedFilesStay, NamesHaveVersion
<1>7. ASSUME Committing(p)
      PROVE  /\ lock = p /\ c.scope \in Scopes /\ c.start \in Versions /\ c.text \in Versions
             /\ \A q \in Scanners \ {p} : Begun(q)' /\ Ordered(q)'
  <2>1. lock = p /\ c.scope \in Scopes /\ c.start \in Versions /\ c.text \in Versions
    BY <1>1, <1>7 DEF Ordered, Begun, Committing, CommitSteps
  <2> QED
    BY <1>2, <2>1, OneCommits, OthersKept DEF CommitInv
<1>8. CASE WriteEntry(p)
  <2>1. PICK s \in c.todo : /\ entry' = [entry EXCEPT ![s] = EntryOf(p)]
                            /\ scan' = [scan EXCEPT ![p].todo = @ \ {s}]
    BY <1>8 DEF WriteEntry
  <2>2. /\ c.at = "write" /\ UNCHANGED <<meta, lock>> /\ s \in Sigs
        /\ scan'[p].at = c.at /\ scan'[p].todo = c.todo \ {s}
        /\ scan'[p].scope = c.scope /\ scan'[p].start = c.start /\ scan'[p].text = c.text
        /\ scan'[p].force = c.force /\ scan'[p].sel = c.sel /\ scan'[p].got = c.got
    BY <1>1, <1>8, <2>1 DEF WriteEntry, Scan
  <2>3. Committing(p)
    BY <2>2 DEF Committing, CommitSteps
  <2>4. EntryOf(p) # Absent
    <3>1. EntryOf(p).version = c.text /\ Absent.version = 0
      BY DEF EntryOf, Absent
    <3> QED
      BY <1>7, <2>3, <3>1, FileTypes
  <2>5. \A t \in Sigs : entry'[t] = Absent => t # s /\ entry[t] = Absent
    BY <1>1, <2>1, <2>4 DEF Files
  <2>6. Missing(p)' = Missing(p) /\ Missing(p) \subseteq Sigs
    BY <1>1, <2>2 DEF Missing, Scan
  <2>7. Begun(p)' /\ Ordered(p)'
    BY <1>1, <1>7, <2>2, <2>3, <2>5, <2>6 DEF Begun, Ordered, Committing, CommitSteps
  <2> QED
    BY <1>7, <2>2, <2>3, <2>5, <2>7 DEF CommitInv, NamedFilesStay, NamesHaveVersion
<1>9. CASE WriteRanges(p)
  <2>1. /\ c.at = "write" /\ c.todo = {} /\ UNCHANGED <<entry, meta, lock>> /\ scan'[p].at = "merge"
        /\ scan'[p].scope = c.scope /\ scan'[p].start = c.start /\ scan'[p].text = c.text
        /\ scan'[p].force = c.force /\ scan'[p].sel = c.sel /\ scan'[p].got = c.got
    BY <1>1, <1>9 DEF WriteRanges, Scan
  <2>2. Committing(p) /\ Missing(p)' = Missing(p)
    BY <2>1 DEF Committing, CommitSteps, Missing
  <2>3. Begun(p)' /\ Ordered(p)'
    BY <1>1, <1>7, <2>1, <2>2 DEF Begun, Ordered, Committing, CommitSteps
  <2> QED
    BY <1>7, <2>1, <2>2, <2>3 DEF CommitInv, NamedFilesStay, NamesHaveVersion
<1>10. CASE Merge(p)
  <2> DEFINE next == [version |-> c.start,
                      names |-> [s \in Sigs |-> IF s \in Missing(p) THEN c.scope ELSE Kept(p)[s]],
                      ranges |-> c.scope]
  <2>1. /\ c.at = "merge" /\ UNCHANGED <<entry, meta, lock>> /\ scan'[p].at = "writeMeta" /\ scan'[p].next = next
        /\ scan'[p].scope = c.scope /\ scan'[p].start = c.start /\ scan'[p].text = c.text
        /\ scan'[p].force = c.force /\ scan'[p].sel = c.sel /\ scan'[p].got = c.got
    BY <1>1, <1>10 DEF Merge, Unmoved, Scan
  <2>2. Committing(p) /\ Missing(p)' = Missing(p)
    BY <2>1 DEF Committing, CommitSteps, Missing
  <2>3. /\ next.version = c.start
        /\ \A s \in Sigs : next.names[s] = IF s \in Missing(p) THEN c.scope ELSE Kept(p)[s]
    OBVIOUS
  <2>4. \A s \in Sigs : Kept(p)[s] # NoScope => meta.names[s] # NoScope
    BY DEF Kept, NoNames
  <2>5. \A s \in Sigs : meta.version = c.start => Kept(p)[s] = meta.names[s]
    BY DEF Kept
  <2> HIDE DEF next
  <2>6. \A s \in Sigs : next.names[s] # NoScope => entry[s] # Absent
    BY <1>1, <2>1, <2>3, <2>4 DEF Ordered, CommitInv, NamedFilesStay
  <2>7. \A s \in Sigs : meta.version = c.start /\ meta.names[s] # NoScope => next.names[s] # NoScope
    BY <1>7, <2>2, <2>3, <2>5, CacheAssumption
  <2>8. Begun(p)' /\ Ordered(p)'
    BY <1>1, <1>7, <2>1, <2>2, <2>3, <2>6, <2>7 DEF Begun, Ordered, Committing, CommitSteps
  <2> QED
    BY <1>7, <2>1, <2>2, <2>8 DEF CommitInv, NamedFilesStay, NamesHaveVersion
<1>11. CASE WriteMeta(p)
  <2>1. /\ c.at = "writeMeta" /\ UNCHANGED <<entry, lock>> /\ meta' = c.next /\ scan'[p].at = "remove"
        /\ scan'[p].scope = c.scope /\ scan'[p].start = c.start /\ scan'[p].text = c.text
        /\ scan'[p].next = c.next
    BY <1>1, <1>11 DEF WriteMeta, Scan
  <2>2. Committing(p)
    BY <2>1 DEF Committing, CommitSteps
  <2>3. Begun(p)' /\ Ordered(p)'
    BY <1>1, <1>7, <2>1, <2>2 DEF Begun, Ordered, Committing, CommitSteps
  <2>4. NamedFilesStay' /\ NamesHaveVersion'
    BY <1>1, <1>7, <2>1, <2>2 DEF Ordered, NamedFilesStay, NamesHaveVersion
  <2> QED
    BY <1>7, <2>2, <2>3, <2>4 DEF CommitInv
<1>12. CASE RemoveUnnamed(p)
  <2>1. /\ c.at = "remove" /\ UNCHANGED meta /\ scan'[p].at = "answered" /\ meta = c.next
        /\ scan'[p].scope = c.scope /\ scan'[p].start = c.start
        /\ \A s \in Sigs : c.next.names[s] # NoScope => entry'[s] = entry[s]
    BY <1>1, <1>12 DEF RemoveUnnamed, Scan, Named, Ordered
  <2>2. Committing(p)
    BY <2>1 DEF Committing, CommitSteps
  <2>3. Begun(p)' /\ Ordered(p)'
    BY <1>7, <2>1, <2>2 DEF Begun, Ordered, Committing, CommitSteps
  <2> QED
    BY <1>7, <2>1, <2>2, <2>3 DEF CommitInv, NamedFilesStay, NamesHaveVersion
<1>13. CASE CommitFails(p) \/ Crash(p)
  <2>1. /\ UNCHANGED <<entry, meta>> /\ lock' = IF lock = p THEN NoScanner ELSE lock
        /\ \/ scan'[p].at = "answered" /\ scan'[p].scope = c.scope /\ scan'[p].start = c.start /\ c.at # "idle"
           \/ scan'[p].at = "idle"
    BY <1>1, <1>13 DEF CommitFails, Crash, Scan, NoScan
  <2>2. Begun(p)' /\ Ordered(p)'
    BY <1>1, <2>1 DEF Begun, Ordered, Committing, CommitSteps
  <2>3. \A q \in Scanners \ {p} : Committing(q) => lock' = lock
    BY <2>1 DEF CommitInv, Ordered
  <2>4. \A q \in Scanners \ {p} : Begun(q)' /\ Ordered(q)'
    BY <1>2, <2>1, <2>3, OthersKept DEF CommitInv
  <2> QED
    BY <2>1, <2>2, <2>4 DEF CommitInv, NamedFilesStay, NamesHaveVersion
<1> QED
  BY <1>3, <1>4, <1>5, <1>6, <1>8, <1>9, <1>10, <1>11, <1>12, <1>13 DEF ScanNext

LEMMA NextCommit ==
    ASSUME TypeOK, TypeOK', CommitInv, [Next]_vars
    PROVE  CommitInv'
<1>1. CASE \E p \in Scanners : ScanNext(p)
  BY <1>1, ScanCommit
<1>2. CASE Change \/ (\E r \in Readers : ReadNext(r)) \/ Evict \/ UNCHANGED vars
  <2>1. UNCHANGED <<entry, meta, lock, scan>>
    BY <1>2 DEF Change, ReadNext, ReadMeta, ReadRanges, ReadEntry, Confirm, ReadReturn, Evict, Quiet, vars
  <2>2. \A q \in Scanners : Begun(q)' /\ Ordered(q)'
    BY <2>1, OthersKept DEF CommitInv
  <2> QED
    BY <2>1, <2>2, SMTT(30) DEF CommitInv, NamedFilesStay, NamesHaveVersion
<1> QED
  BY <1>1, <1>2 DEF Next

-----------------------------------------------------------------------------
(* What is used agrees with the meta.json it was used under *)

ScanAgrees(p) ==
    /\ scan[p].at \in {"ranges", "entries"} => scan[p].seen.version = scan[p].start
    /\ scan[p].at = "entries" => Agrees(scan[p].ranges, scan[p].seen, scan[p].scope)
    /\ \A s \in Sigs : scan[p].got[s] # Absent =>
        /\ scan[p].at \notin {"idle", "meta", "ranges"}
        /\ scan[p].seen.version = scan[p].start
        /\ Agrees(scan[p].ranges, scan[p].seen, scan[p].scope)
        /\ Agrees(scan[p].got[s], scan[p].seen, scan[p].scope)

ReadAgrees(r) ==
    /\ reading[r].at \in {"entries", "confirm", "answered"} =>
          Agrees(reading[r].ranges, reading[r].seen, reading[r].scope)
    /\ \A s \in Sigs : reading[r].got[s] # Absent => Agrees(reading[r].got[s], reading[r].seen, reading[r].scope)

UseInv ==
    /\ \A p \in Scanners : ScanAgrees(p)
    /\ \A r \in Readers : ReadAgrees(r)

LEMMA InitUse == Init => UseInv
BY DEF Init, UseInv, ScanAgrees, ReadAgrees, NoScan, NoRead, NoFiles

LEMMA TookAgrees ==
    ASSUME NEW got \in Files, NEW s \in Sigs, NEW f, NEW m, NEW scope, NEW t \in Sigs,
           Took(got, s, f, m, scope)[t] # Absent
    PROVE  got[t] # Absent \/ Agrees(Took(got, s, f, m, scope)[t], m, scope)
BY DEF Took, Files

LEMMA ScanUse ==
    ASSUME TypeOK, CommitInv, UseInv, NEW p \in Scanners, ScanNext(p)
    PROVE  UseInv'
<1> DEFINE c == scan[p]
<1>1. c \in Scan /\ scan \in [Scanners -> Scan] /\ ScanAgrees(p) /\ entry \in Files
  BY DEF TypeOK, UseInv
<1>2. /\ \A q \in Scanners \ {p} : scan'[q] = scan[q]
      /\ UNCHANGED <<reading, held>>
  BY <1>1 DEF ScanNext, Begin, LoadMeta, LoadRanges, LoadEntry, LookedUp, ScanText, Recheck, Abandon, TakeLock, WriteEntry,
     WriteRanges, Merge, WriteMeta, RemoveUnnamed, CommitFails, Return, Crash, Unmoved
<1>3. \A q \in Scanners \ {p} : ScanAgrees(q)'
  BY <1>2 DEF UseInv, ScanAgrees
<1>4. \A r \in Readers : ReadAgrees(r)'
  BY <1>2 DEF UseInv, ReadAgrees
<1>6. SUFFICES ScanAgrees(p)'
  BY <1>3, <1>4 DEF UseInv
<1>7. CASE scan'[p].got = NoFiles /\ scan'[p].at \in {"idle", "meta"}
  BY <1>7 DEF ScanAgrees, NoFiles
<1>8. CASE /\ scan'[p].at \notin {"idle", "meta", "ranges", "entries"} /\ scan'[p].seen = c.seen
           /\ scan'[p].start = c.start /\ scan'[p].ranges = c.ranges /\ scan'[p].scope = c.scope /\ scan'[p].got = c.got
  BY <1>1, <1>8 DEF ScanAgrees
<1>9. ASSUME NEW ask \in Asked, NEW force \in BOOLEAN, Begin(p, ask[1], ask[2], force)
      PROVE  ScanAgrees(p)'
  BY <1>1, <1>7, <1>9 DEF Begin, NoScan
<1>10. CASE Abandon(p) \/ Return(p) \/ Crash(p)
  BY <1>1, <1>7, <1>10 DEF Abandon, Return, Crash, NoScan
<1>11. CASE LookedUp(p) \/ ScanText(p) \/ Recheck(p) \/ TakeLock(p) \/ WriteRanges(p) \/ WriteMeta(p) \/ RemoveUnnamed(p)
            \/ CommitFails(p)
  BY <1>1, <1>8, <1>11
     DEF LookedUp, ScanText, Recheck, TakeLock, WriteRanges, WriteMeta, RemoveUnnamed, CommitFails, Scan
<1>12. CASE WriteEntry(p)
  <2>1. PICK s \in c.todo : scan' = [scan EXCEPT ![p].todo = @ \ {s}]
    BY <1>12 DEF WriteEntry
  <2> QED
    BY <1>1, <1>8, <1>12, <2>1 DEF WriteEntry, Scan
<1>13. CASE Merge(p)
  <2>1. /\ c.at = "merge"
        /\ \E next : scan' = [scan EXCEPT ![p].at = "writeMeta", ![p].next = next]
    BY <1>13 DEF Merge
  <2> QED
    BY <1>1, <1>8, <2>1 DEF Scan
<1>14. CASE LoadMeta(p)
  <2>1. CASE Usable(p, meta)
    <3>1. /\ scan'[p].at = "ranges" /\ scan'[p].seen = meta /\ scan'[p].start = c.start /\ scan'[p].got = c.got
          /\ c.at = "meta" /\ meta.version = c.start
      BY <1>1, <1>14, <2>1 DEF LoadMeta, Scan, Usable
    <3> QED
      BY <1>1, <3>1 DEF ScanAgrees
  <2>2. CASE ~Usable(p, meta)
    BY <1>1, <1>8, <1>14, <2>2 DEF LoadMeta, Scan
  <2> QED
    BY <2>1, <2>2
<1>15. CASE LoadRanges(p)
  <2>1. CASE Agrees(ranges, c.seen, c.scope)
    <3>1. /\ scan'[p].at = "entries" /\ scan'[p].seen = c.seen /\ scan'[p].start = c.start /\ scan'[p].got = c.got
          /\ scan'[p].ranges = ranges /\ scan'[p].scope = c.scope /\ c.at = "ranges"
      BY <1>1, <1>15, <2>1 DEF LoadRanges, Scan
    <3>2. Agrees(ranges, c.seen, c.scope)
      BY <2>1
    <3> QED
      BY <1>1, <3>1, <3>2 DEF ScanAgrees, Agrees
  <2>2. CASE ~Agrees(ranges, c.seen, c.scope)
    BY <1>1, <1>8, <1>15, <2>2 DEF LoadRanges, Scan
  <2> QED
    BY <2>1, <2>2
<1>16. CASE LoadEntry(p)
  <2>1. PICK s \in c.todo :
          scan' = [scan EXCEPT ![p].todo = @ \ {s}, ![p].got = Took(@, s, entry[s], c.seen, c.scope)]
    BY <1>16 DEF LoadEntry
  <2>2. /\ c.at = "entries" /\ scan'[p].at = c.at /\ scan'[p].seen = c.seen /\ scan'[p].start = c.start
        /\ scan'[p].ranges = c.ranges /\ scan'[p].scope = c.scope
        /\ scan'[p].got = Took(c.got, s, entry[s], c.seen, c.scope) /\ s \in Sigs /\ c.got \in Files
    BY <1>1, <1>16, <2>1 DEF LoadEntry, Scan
  <2>3. \A t \in Sigs : scan'[p].got[t] # Absent => Agrees(scan'[p].got[t], c.seen, c.scope)
    <3> TAKE t \in Sigs
    <3> HAVE scan'[p].got[t] # Absent
    <3>1. CASE Agrees(scan'[p].got[t], c.seen, c.scope)
      BY <3>1
    <3>2. CASE c.got[t] # Absent /\ scan'[p].got[t] = c.got[t]
      BY <1>1, <3>2 DEF ScanAgrees
    <3>3. scan'[p].got[t] = c.got[t] \/ Agrees(scan'[p].got[t], c.seen, c.scope)
      BY <2>2 DEF Took, Files
    <3> QED
      BY <3>1, <3>2, <3>3
  <2>4. Agrees(c.ranges, c.seen, c.scope) /\ c.seen.version = c.start
    BY <1>1, <2>2 DEF ScanAgrees
  <2> QED
    BY <2>2, <2>3, <2>4 DEF ScanAgrees, Agrees
<1> QED
  BY <1>9, <1>10, <1>11, <1>12, <1>13, <1>14, <1>15, <1>16 DEF ScanNext

LEMMA ReadUse ==
    ASSUME TypeOK, CommitInv, UseInv, NEW r \in Readers, ReadNext(r)
    PROVE  UseInv'
<1> DEFINE c == reading[r]
<1>1. c \in Read /\ reading \in [Readers -> Read] /\ ReadAgrees(r) /\ entry \in Files /\ meta \in Meta
  BY DEF TypeOK, UseInv
<1>2. /\ \A q \in Readers \ {r} : reading'[q] = reading[q]
      /\ UNCHANGED <<version, scan>>
  BY <1>1 DEF ReadNext, ReadMeta, ReadRanges, ReadEntry, Confirm, ReadReturn, Quiet
<1>3. /\ \A q \in Readers \ {r} : ReadAgrees(q)'
      /\ \A p \in Scanners : ScanAgrees(p)'
  BY <1>2 DEF UseInv, ReadAgrees, ScanAgrees
<1>4. SUFFICES ReadAgrees(r)'
  BY <1>3 DEF UseInv
<1>6. ASSUME reading'[r] = NoRead
      PROVE  ReadAgrees(r)'
  BY <1>6 DEF ReadAgrees, NoRead, NoFiles
<1>7. ASSUME NEW scope \in Scopes, ReadMeta(r, scope)
      PROVE  ReadAgrees(r)'
  <2>1. reading'[r].at = "ranges" /\ reading'[r].got = NoFiles
    BY <1>1, <1>7 DEF ReadMeta, NoRead
  <2> QED
    BY <2>1 DEF ReadAgrees, NoFiles
<1>8. CASE ReadRanges(r)
  <2> DEFINE f == IF Agrees(c.reuse.ranges, c.seen, c.scope) THEN c.reuse.ranges ELSE ranges
  <2>1. /\ c.at = "ranges"
        /\ \/ /\ Agrees(f, c.seen, c.scope)
              /\ reading' = [reading EXCEPT ![r].at = "entries", ![r].ranges = f, ![r].todo = Current(c.seen, c.scope)]
           \/ reading' = [reading EXCEPT ![r] = NoRead]
    BY <1>8 DEF ReadRanges
  <2> HIDE DEF f
  <2>2. CASE reading' = [reading EXCEPT ![r] = NoRead]
    BY <1>1, <1>6, <2>1, <2>2
  <2>3. CASE /\ Agrees(f, c.seen, c.scope)
             /\ reading' = [reading EXCEPT ![r].at = "entries", ![r].ranges = f, ![r].todo = Current(c.seen, c.scope)]
    <3>1. /\ reading'[r].at = "entries" /\ reading'[r].ranges = f /\ reading'[r].seen = c.seen
          /\ reading'[r].scope = c.scope /\ reading'[r].got = c.got
      BY <1>1, <2>3, SMTT(30) DEF Read
    <3> QED
      BY <1>1, <2>1, <2>3, <3>1 DEF ReadAgrees, Agrees
  <2> QED
    BY <2>1, <2>2, <2>3
<1>9. CASE ReadEntry(r)
  <2>1. PICK s \in c.todo :
          /\ c.at = "entries"
          /\ \E f : reading' = [reading EXCEPT ![r].todo = @ \ {s},
                                               ![r].at = IF c.todo = {s} THEN "confirm" ELSE @,
                                               ![r].got = Took(@, s, f, c.seen, c.scope)]
    BY <1>9 DEF ReadEntry
  <2>2. PICK f : reading' = [reading EXCEPT ![r].todo = @ \ {s},
                                            ![r].at = IF c.todo = {s} THEN "confirm" ELSE @,
                                            ![r].got = Took(@, s, f, c.seen, c.scope)]
    BY <2>1
  <2>3. /\ reading'[r].at \in {"entries", "confirm"} /\ reading'[r].ranges = c.ranges /\ reading'[r].seen = c.seen
        /\ reading'[r].scope = c.scope /\ reading'[r].got = Took(c.got, s, f, c.seen, c.scope)
        /\ s \in Sigs /\ c.got \in Files
    BY <1>1, <2>1, <2>2 DEF Read
  <2>4. \A t \in Sigs : reading'[r].got[t] # Absent => Agrees(reading'[r].got[t], c.seen, c.scope)
    <3> TAKE t \in Sigs
    <3> HAVE reading'[r].got[t] # Absent
    <3>1. CASE Agrees(reading'[r].got[t], c.seen, c.scope)
      BY <3>1
    <3>2. CASE c.got[t] # Absent /\ reading'[r].got[t] = c.got[t]
      BY <1>1, <3>2 DEF ReadAgrees
    <3>3. reading'[r].got[t] = c.got[t] \/ Agrees(reading'[r].got[t], c.seen, c.scope)
      BY <2>3 DEF Took, Files
    <3> QED
      BY <3>1, <3>2, <3>3
  <2> QED
    BY <1>1, <2>1, <2>3, <2>4 DEF ReadAgrees, Agrees
<1>10. CASE Confirm(r)
  <2>1. CASE ~Confirmed(r)
    BY <1>1, <1>6, <1>10, <2>1 DEF Confirm
  <2>2. CASE Confirmed(r)
    <3>1. /\ c.at = "confirm" /\ reading'[r].at = "answered" /\ reading'[r].ranges = c.ranges /\ reading'[r].seen = c.seen
          /\ reading'[r].scope = c.scope /\ reading'[r].got = c.got
      BY <1>1, <1>10, <2>2 DEF Confirm, Read
    <3> QED
      BY <1>1, <3>1 DEF ReadAgrees, Agrees
  <2> QED
    BY <2>1, <2>2
<1>11. CASE ReadReturn(r)
  BY <1>1, <1>6, <1>11 DEF ReadReturn
<1> QED
  BY <1>7, <1>8, <1>9, <1>10, <1>11 DEF ReadNext

LEMMA NextUse ==
    ASSUME TypeOK, CommitInv, UseInv, [Next]_vars
    PROVE  UseInv'
<1>1. CASE \E p \in Scanners : ScanNext(p)
  BY <1>1, ScanUse
<1>2. CASE \E r \in Readers : ReadNext(r)
  BY <1>2, ReadUse
<1>3. CASE Change \/ Evict \/ UNCHANGED vars
  <2>1. UNCHANGED <<scan, reading>>
    BY <1>3 DEF Change, Evict, Quiet, vars
  <2>2. \A p \in Scanners : ScanAgrees(p)'
    BY <2>1 DEF UseInv, ScanAgrees
  <2>3. \A r \in Readers : ReadAgrees(r)'
    BY <2>1 DEF UseInv, ReadAgrees
  <2> QED
    BY <2>2, <2>3 DEF UseInv
<1> QED
  BY <1>1, <1>2, <1>3 DEF Next

-----------------------------------------------------------------------------
(* What is used is not older than the meta.json it is used under.  This    *)
(* and all that follows from it rests on NoLateCommit.                     *)

\* When the texts of a call were taken.
Dated(p) ==
    /\ scan[p].at # "idle" => scan[p].start <= version
    /\ scan[p].text <= version
    /\ scan[p].at \in {"meta", "ranges", "entries", "scan"} => scan[p].text = 0
    /\ scan[p].at = "recheck" => scan[p].start <= scan[p].text
    /\ scan[p].at \in {"lock"} \union CommitSteps => scan[p].text = scan[p].start

\* What a commit has written so far is of its own text.
Writing(p) ==
    /\ scan[p].at = "write" => \A s \in Missing(p) : s \notin scan[p].todo => scan[p].start <= entry[s].version
    /\ scan[p].at \in {"merge", "writeMeta"} =>
        scan[p].start <= ranges.version /\ \A s \in Missing(p) : scan[p].start <= entry[s].version
    /\ scan[p].at = "writeMeta" =>
        \A s \in Sigs : scan[p].next.names[s] # NoScope => scan[p].start <= entry[s].version

\* An entry that the meta.json m names may be gone since, or newer.
NotOlder(m) ==
    /\ m.version <= meta.version
    /\ \A s \in Sigs : m.names[s] # NoScope => entry[s] = Absent \/ m.version <= entry[s].version

Between(f, low, high) == low <= f.version /\ f.version <= high

Looking(p) ==
    /\ scan[p].at \in {"ranges", "entries"} => NotOlder(scan[p].seen) /\ scan[p].seen.version = scan[p].start
    /\ scan[p].at = "entries" =>
        /\ Between(scan[p].ranges, scan[p].start, version)
        /\ \A s \in scan[p].todo : scan[p].seen.names[s] # NoScope
    /\ \A s \in Sigs : scan[p].got[s] # Absent =>
        /\ scan[p].at \notin {"idle", "meta", "ranges"}
        /\ \A f \in {scan[p].got[s], scan[p].ranges} :
              Between(f, scan[p].start, IF scan[p].text # 0 THEN scan[p].text ELSE version)

ScanAges(p) == Dated(p) /\ Writing(p) /\ Looking(p)

\* What a Read has taken is not older than its meta.json; what it kept or
\* answers is of that very text.
ReadAges(r) ==
    /\ reading[r].at \in {"ranges", "entries", "confirm"} => NotOlder(reading[r].seen)
    /\ reading[r].at # "idle" => reading[r].scope # NoScope
    /\ \A s \in reading[r].todo : reading[r].seen.names[s] # NoScope
    /\ reading[r].at \in {"entries", "confirm"} => Between(reading[r].ranges, reading[r].seen.version, version)
    /\ \A s \in Sigs : reading[r].got[s] # Absent => Between(reading[r].got[s], reading[r].seen.version, version)
    /\ \A s \in Sigs : reading[r].reuse.entries[s] # Absent =>
          reading[r].reuse.entries[s].version = reading[r].seen.version
    /\ reading[r].reuse.ranges # Absent => reading[r].reuse.ranges.version = reading[r].seen.version
    /\ reading[r].at = "answered" =>
          /\ reading[r].ranges.version = reading[r].seen.version
          /\ \A s \in Sigs : reading[r].got[s] # Absent => reading[r].got[s].version = reading[r].seen.version

FilesAges ==
    /\ \A s \in Sigs : entry[s].version <= version
    /\ Between(ranges, meta.version, version)
    /\ NotOlder(meta)

AgeInv ==
    /\ FilesAges /\ HeldIsTrue
    /\ \A p \in Scanners : ScanAges(p)
    /\ \A r \in Readers : ReadAges(r)

LEMMA Numbers ==
    ASSUME TypeOK
    PROVE  /\ version \in Nat /\ version # 0 /\ ranges.version \in Nat /\ meta.version \in Nat
           /\ \A s \in Sigs : entry[s] \in CacheFile /\ entry[s].version \in Nat
           /\ \A p \in Scanners :
                 /\ scan[p] \in Scan /\ scan[p].start \in Nat /\ scan[p].text \in Nat
                 /\ scan[p].seen.version \in Nat /\ scan[p].ranges.version \in Nat
                 /\ \A s \in Sigs : scan[p].got[s] \in CacheFile /\ scan[p].got[s].version \in Nat
           /\ \A r \in Readers :
                 /\ reading[r] \in Read /\ reading[r].seen.version \in Nat /\ reading[r].ranges.version \in Nat
                 /\ \A s \in Sigs : reading[r].got[s] \in CacheFile /\ reading[r].got[s].version \in Nat
<1>1. \A v \in 0 .. MaxVersion : v \in Nat
  BY FileTypes
<1>2. \A f \in CacheFile : f.version \in Nat
  BY <1>1 DEF CacheFile
<1>3. \A m \in Meta : m.version \in Nat
  BY <1>1 DEF Meta
<1>4. version \in Nat /\ version # 0
  BY CacheAssumption DEF TypeOK, Versions
<1>5. ranges.version \in Nat /\ meta.version \in Nat /\ \A s \in Sigs : entry[s] \in CacheFile
  BY <1>2, <1>3 DEF TypeOK, Files
<1>6. ASSUME NEW p \in Scanners
      PROVE  /\ scan[p] \in Scan /\ scan[p].start \in 0 .. MaxVersion /\ scan[p].text \in 0 .. MaxVersion
             /\ scan[p].seen \in Meta /\ scan[p].ranges \in CacheFile
             /\ \A s \in Sigs : scan[p].got[s] \in CacheFile
  BY DEF TypeOK, Scan, Files
<1>7. ASSUME NEW r \in Readers
      PROVE  /\ reading[r] \in Read /\ reading[r].seen \in Meta /\ reading[r].ranges \in CacheFile
             /\ \A s \in Sigs : reading[r].got[s] \in CacheFile
  BY DEF TypeOK, Read, Files
<1> QED
  BY <1>1, <1>2, <1>3, <1>4, <1>5, <1>6, <1>7

LEMMA InitAge == Init => AgeInv
<1> SUFFICES ASSUME Init PROVE AgeInv
  OBVIOUS
<1>1. FilesAges
  BY DEF Init, FilesAges, Between, NotOlder, NoFiles, Absent, NoMeta, NoNames
<1>2. HeldIsTrue
  BY DEF Init, HeldIsTrue, NothingKept, NoFiles
<1>3. ASSUME NEW p \in Scanners PROVE ScanAges(p)
  BY DEF Init, ScanAges, Dated, Writing, Looking, CommitSteps, NoScan, NoFiles
<1>4. ASSUME NEW r \in Readers PROVE ReadAges(r)
  BY DEF Init, ReadAges, NoRead, NoFiles, NothingHeld
<1> QED
  BY <1>1, <1>2, <1>3, <1>4 DEF AgeInv

\* How the files may change under one who reads them.
FilesMove ==
    /\ version <= version' /\ meta.version <= meta'.version
    /\ \A s \in Sigs : entry'[s] = entry[s] \/ entry'[s] = Absent \/ meta.version <= entry'[s].version

LEMMA NotOlderStays ==
    ASSUME TypeOK, TypeOK', FilesMove, NEW m \in Meta, NotOlder(m)
    PROVE  /\ m.version <= meta'.version
           /\ \A s \in Sigs : m.names[s] # NoScope => entry'[s] = Absent \/ m.version <= entry'[s].version
<1>1. m.version \in Nat /\ meta.version \in Nat /\ meta'.version \in Nat
  <2>1. \A v \in 0 .. MaxVersion : v \in Nat
    BY FileTypes
  <2>2. \A n \in Meta : n.version \in Nat
    BY <2>1 DEF Meta
  <2> QED
    BY <2>2 DEF TypeOK
<1>2. \A s \in Sigs : entry[s].version \in Nat
  BY Numbers
<1>3. \A s \in Sigs : entry'[s].version \in Nat
  <2>1. \A v \in 0 .. MaxVersion : v \in Nat
    BY FileTypes
  <2> QED
    BY <2>1 DEF TypeOK, Files, CacheFile
<1> QED
  BY <1>1, <1>2, <1>3 DEF FilesMove, NotOlder

LEMMA OthersAge ==
    ASSUME TypeOK, TypeOK', FilesMove, NEW q \in Scanners, ScanAges(q), scan'[q] = scan[q],
           Committing(q) => UNCHANGED <<entry, ranges>>
    PROVE  ScanAges(q)'
<1>1. /\ scan[q] \in Scan /\ scan[q].seen \in Meta
      /\ scan[q].start \in Nat /\ scan[q].text \in Nat /\ version \in Nat /\ version' \in Nat
      /\ scan[q].ranges.version \in Nat /\ \A s \in Sigs : scan[q].got[s].version \in Nat
  <2>1. version' \in Nat
    BY CacheAssumption DEF TypeOK, Versions
  <2>2. scan[q].seen \in Meta
    BY DEF TypeOK, Scan
  <2> QED
    BY <2>1, <2>2, Numbers
<1>2. Dated(q)'
  BY <1>1 DEF ScanAges, Dated, FilesMove
<1>3. Writing(q)'
  <2>1. Missing(q)' = Missing(q)
    BY DEF Missing
  <2>2. CASE Committing(q)
    BY <2>1, <2>2 DEF ScanAges, Writing
  <2>3. CASE ~Committing(q)
    BY <2>3 DEF Writing, Committing, CommitSteps
  <2> QED
    BY <2>2, <2>3
<1>4. Looking(q)'
  <2>1. scan[q].at \in {"ranges", "entries"} =>
          /\ scan[q].seen.version <= meta'.version
          /\ \A s \in Sigs : scan[q].seen.names[s] # NoScope =>
                entry'[s] = Absent \/ scan[q].seen.version <= entry'[s].version
    BY <1>1, NotOlderStays DEF ScanAges, Looking
  <2>2. \A f \in {scan[q].ranges} \union {scan[q].got[s] : s \in Sigs} :
           Between(f, scan[q].start, version) => Between(f, scan[q].start, version')
    BY <1>1 DEF Between, FilesMove
  <2>3. ASSUME NEW s \in Sigs, scan[q].got[s] # Absent, NEW f \in {scan[q].got[s], scan[q].ranges}
        PROVE  Between(f, scan[q].start, IF scan[q].text # 0 THEN scan[q].text ELSE version')
    BY <2>2, <2>3 DEF ScanAges, Looking
  <2> QED
    BY <2>1, <2>2, <2>3 DEF ScanAges, Looking, NotOlder
<1> QED
  BY <1>2, <1>3, <1>4 DEF ScanAges

LEMMA ReadersAge ==
    ASSUME TypeOK, TypeOK', FilesMove, NEW r \in Readers, ReadAges(r), reading'[r] = reading[r]
    PROVE  ReadAges(r)'
<1>1. /\ reading[r] \in Read /\ reading[r].seen \in Meta /\ reading[r].seen.version \in Nat
      /\ version \in Nat /\ version' \in Nat /\ reading[r].ranges.version \in Nat
      /\ \A s \in Sigs : reading[r].got[s].version \in Nat
  <2>1. version' \in Nat
    BY CacheAssumption DEF TypeOK, Versions
  <2>2. reading[r].seen \in Meta
    BY DEF TypeOK, Read
  <2> QED
    BY <2>1, <2>2, Numbers
<1>2. reading[r].at \in {"ranges", "entries", "confirm"} =>
        /\ reading[r].seen.version <= meta'.version
        /\ \A s \in Sigs : reading[r].seen.names[s] # NoScope =>
              entry'[s] = Absent \/ reading[r].seen.version <= entry'[s].version
  BY <1>1, NotOlderStays DEF ReadAges
<1>3. \A f \in {reading[r].ranges} \union {reading[r].got[s] : s \in Sigs} :
         Between(f, reading[r].seen.version, version) => Between(f, reading[r].seen.version, version')
  BY <1>1 DEF Between, FilesMove
<1> QED
  BY <1>2, <1>3 DEF ReadAges, NotOlder

\* A step of p that writes no file.
LEMMA LookAge ==
    ASSUME TypeOK, TypeOK', AgeInv, NEW p \in Scanners, UNCHANGED <<version, entry, ranges, meta, reading, held>>,
           \A q \in Scanners \ {p} : scan'[q] = scan[q],
           ScanAges(p)'
    PROVE  AgeInv'
<1>1. FilesMove
  BY Numbers DEF FilesMove
<1>2. \A q \in Scanners \ {p} : ScanAges(q)'
  BY <1>1, OthersAge DEF AgeInv
<1>3. \A r \in Readers : ReadAges(r)'
  BY <1>1, ReadersAge DEF AgeInv
<1>4. FilesAges' /\ HeldIsTrue'
  BY DEF AgeInv, FilesAges, Between, NotOlder, HeldIsTrue
<1> QED
  BY <1>2, <1>3, <1>4 DEF AgeInv

\* A step of p, which holds the lock, that writes a file.
LEMMA WriteAge ==
    ASSUME TypeOK, TypeOK', CommitInv, AgeInv, NEW p \in Scanners, lock = p, UNCHANGED <<version, reading, held>>,
           \A q \in Scanners \ {p} : scan'[q] = scan[q],
           FilesMove, FilesAges', ScanAges(p)'
    PROVE  AgeInv'
<1>1. \A q \in Scanners \ {p} : ~Committing(q)
  BY OneCommits
<1>2. \A q \in Scanners \ {p} : ScanAges(q)'
  BY <1>1, OthersAge DEF AgeInv
<1>3. \A r \in Readers : ReadAges(r)'
  BY ReadersAge DEF AgeInv
<1>4. HeldIsTrue'
  BY DEF AgeInv, HeldIsTrue
<1> QED
  BY <1>2, <1>3, <1>4 DEF AgeInv

\* A step of p after its look-up, which changes none of what that took.
LEMMA LookingEnds ==
    ASSUME AgeInv, NEW p \in Scanners, UNCHANGED version, scan[p].at \notin {"idle", "meta", "ranges"},
           scan'[p].at \notin {"idle", "meta", "ranges", "entries"},
           scan'[p].got = scan[p].got, scan'[p].ranges = scan[p].ranges, scan'[p].start = scan[p].start,
           scan'[p].text = scan[p].text
    PROVE  Looking(p)'
BY DEF AgeInv, ScanAges, Looking, Between

LEMMA ScanAge ==
    ASSUME TypeOK, TypeOK', CommitInv, AgeInv, NoLateCommit, NEW p \in Scanners, ScanNext(p)
    PROVE  AgeInv'
<1> DEFINE c == scan[p]
<1>1. /\ c \in Scan /\ scan \in [Scanners -> Scan] /\ scan'[p] \in Scan
      /\ c.start \in Nat /\ c.text \in Nat /\ version \in Nat /\ version # 0
      /\ ranges.version \in Nat /\ meta.version \in Nat /\ c.ranges.version \in Nat /\ c.seen.version \in Nat
      /\ \A s \in Sigs : c.got[s].version \in Nat /\ entry[s].version \in Nat
  BY Numbers DEF TypeOK
<1>2. Dated(p) /\ Writing(p) /\ Looking(p) /\ FilesAges /\ Begun(p) /\ Ordered(p)
  BY DEF AgeInv, ScanAges, CommitInv
<1>3. /\ \A q \in Scanners \ {p} : scan'[q] = scan[q]
      /\ UNCHANGED <<version, reading, held>>
  BY <1>1 DEF ScanNext, Begin, LoadMeta, LoadRanges, LoadEntry, LookedUp, ScanText, Recheck, Abandon, TakeLock, WriteEntry,
     WriteRanges, Merge, WriteMeta, RemoveUnnamed, CommitFails, Return, Crash, Unmoved
<1>4. ASSUME ScanAges(p)', UNCHANGED <<entry, ranges, meta>> PROVE AgeInv'
  BY <1>3, <1>4, LookAge
<1>5. ASSUME NEW ask \in Asked, NEW force \in BOOLEAN, Begin(p, ask[1], ask[2], force)
      PROVE  AgeInv'
  <2>1. /\ scan'[p].at = "meta" /\ scan'[p].start = version /\ scan'[p].text = 0 /\ scan'[p].got = NoFiles
        /\ UNCHANGED <<entry, ranges, meta>>
    BY <1>1, <1>5 DEF Begin, Unmoved, NoScan
  <2>2. ScanAges(p)'
    BY <1>1, <1>3, <2>1 DEF ScanAges, Dated, Writing, Looking, CommitSteps, NoFiles
  <2> QED
    BY <1>4, <2>1, <2>2
<1>6. CASE Abandon(p) \/ Return(p)
  <2>1. /\ scan'[p].at = "idle" /\ scan'[p].text = 0 /\ scan'[p].got = NoFiles
        /\ UNCHANGED <<entry, ranges, meta>>
    BY <1>1, <1>6 DEF Abandon, Return, Unmoved, NoScan
  <2>2. ScanAges(p)'
    BY <1>1, <1>3, <2>1 DEF ScanAges, Dated, Writing, Looking, CommitSteps, NoFiles
  <2> QED
    BY <1>4, <2>1, <2>2
<1>7. CASE LoadMeta(p)
  <2>1. /\ c.at = "meta" /\ UNCHANGED <<entry, ranges, meta>>
        /\ scan'[p].start = c.start /\ scan'[p].text = c.text /\ scan'[p].got = c.got
        /\ \/ scan'[p].at = "ranges" /\ scan'[p].seen = meta /\ meta.version = c.start
           \/ scan'[p].at = "scan"
    BY <1>1, <1>7 DEF LoadMeta, Unmoved, Scan, Usable
  <2>2. Dated(p)' /\ Writing(p)'
    BY <1>1, <1>2, <1>3, <2>1 DEF Dated, Writing, CommitSteps
  <2>3. \A s \in Sigs : c.got[s] = Absent
    BY <1>2, <2>1 DEF Looking
  <2>4. Looking(p)'
    BY <1>1, <1>2, <2>1, <2>3 DEF Looking, FilesAges, NotOlder
  <2> QED
    BY <1>4, <2>1, <2>2, <2>4 DEF ScanAges
<1>8. CASE LoadRanges(p)
  <2>1. /\ c.at = "ranges" /\ UNCHANGED <<entry, ranges, meta>>
        /\ scan'[p].start = c.start /\ scan'[p].text = c.text /\ scan'[p].got = c.got /\ scan'[p].seen = c.seen
        /\ \/ /\ scan'[p].at = "entries" /\ scan'[p].ranges = ranges
              /\ scan'[p].todo = c.sel \intersect Current(c.seen, c.scope)
           \/ scan'[p].at = "scan"
    BY <1>1, <1>8 DEF LoadRanges, Unmoved, Scan
  <2>2. Dated(p)' /\ Writing(p)'
    BY <1>1, <1>2, <1>3, <2>1 DEF Dated, Writing, CommitSteps
  <2>3. \A s \in Sigs : c.got[s] = Absent
    BY <1>2, <2>1 DEF Looking
  <2>4. NotOlder(c.seen) /\ c.seen.version = c.start
    BY <1>2, <2>1 DEF Looking
  <2>5. Between(ranges, c.start, version)
    BY <1>1, <1>2, <2>4 DEF NotOlder, FilesAges, Between
  <2>6. c.scope # NoScope /\ \A s \in Current(c.seen, c.scope) : c.seen.names[s] = c.scope
    BY <1>2, <2>1, CacheAssumption DEF Begun, Current
  <2>7. Looking(p)'
    BY <1>3, <2>1, <2>3, <2>4, <2>5, <2>6 DEF Looking, NotOlder, Between
  <2> QED
    BY <1>4, <2>1, <2>2, <2>7 DEF ScanAges
<1>9. CASE LoadEntry(p)
  <2>1. PICK s \in c.todo :
          scan' = [scan EXCEPT ![p].todo = @ \ {s}, ![p].got = Took(@, s, entry[s], c.seen, c.scope)]
    BY <1>9 DEF LoadEntry
  <2>2. /\ c.at = "entries" /\ UNCHANGED <<entry, ranges, meta>> /\ s \in Sigs
        /\ scan'[p].at = c.at /\ scan'[p].start = c.start /\ scan'[p].text = c.text /\ scan'[p].seen = c.seen
        /\ scan'[p].ranges = c.ranges /\ scan'[p].todo = c.todo \ {s}
        /\ scan'[p].got = Took(c.got, s, entry[s], c.seen, c.scope) /\ c.got \in Files
    BY <1>1, <1>9, <2>1 DEF LoadEntry, Unmoved, Scan
  <2>3. Dated(p)' /\ Writing(p)'
    BY <1>1, <1>2, <1>3, <2>2 DEF Dated, Writing, CommitSteps
  <2>4. NotOlder(c.seen) /\ c.seen.version = c.start /\ c.seen.names[s] # NoScope /\ c.text = 0
    BY <1>2, <2>2 DEF Looking, Dated
  <2>5. Between(c.ranges, c.start, version)
    BY <1>2, <2>2 DEF Looking
  <2>6. entry[s] = Absent \/ Between(entry[s], c.start, version)
    BY <1>2, <2>2, <2>4 DEF NotOlder, FilesAges, Between
  <2>7. \A t \in Sigs : scan'[p].got[t] \in {c.got[t], entry[s]} /\ (scan'[p].got[t] # c.got[t] => t = s)
    BY <2>2 DEF Took, Files
  <2>8. \A t \in Sigs : scan'[p].got[t] # Absent => Between(scan'[p].got[t], c.start, version)
    BY <1>2, <2>2, <2>4, <2>6, <2>7 DEF Looking
  <2>9. Looking(p)'
    BY <1>2, <1>3, <2>2, <2>4, <2>5, <2>8 DEF Looking, NotOlder, Between
  <2> QED
    BY <1>4, <2>2, <2>3, <2>9 DEF ScanAges
<1>10. CASE LookedUp(p)
  <2>1. /\ c.at = "entries" /\ UNCHANGED <<entry, ranges, meta>> /\ scan'[p].at \in {"answered", "scan"}
        /\ scan'[p].start = c.start /\ scan'[p].text = c.text /\ scan'[p].got = c.got /\ scan'[p].ranges = c.ranges
    BY <1>1, <1>10 DEF LookedUp, Unmoved, Scan
  <2>2. Dated(p)' /\ Writing(p)'
    BY <1>1, <1>2, <1>3, <2>1 DEF Dated, Writing, CommitSteps
  <2> QED
    BY <1>3, <1>4, <2>1, <2>2, LookingEnds DEF ScanAges
<1>11. CASE ScanText(p)
  <2>1. /\ c.at = "scan" /\ UNCHANGED <<entry, ranges, meta>> /\ scan'[p].at = "recheck" /\ scan'[p].text = version
        /\ scan'[p].start = c.start /\ scan'[p].got = c.got /\ scan'[p].ranges = c.ranges
    BY <1>1, <1>11 DEF ScanText, Unmoved, Scan
  <2>2. Dated(p)' /\ Writing(p)'
    BY <1>1, <1>2, <1>3, <2>1 DEF Dated, Writing, CommitSteps
  <2>3. c.text = 0
    BY <1>2, <2>1 DEF Dated
  <2>4. Looking(p)'
    BY <1>1, <1>2, <1>3, <2>1, <2>3 DEF Looking, Between
  <2> QED
    BY <1>4, <2>1, <2>2, <2>4 DEF ScanAges
<1>12. CASE Recheck(p)
  <2>1. /\ c.at = "recheck" /\ UNCHANGED <<entry, ranges, meta>>
        /\ (scan'[p].at = "lock" /\ version = c.start) \/ scan'[p].at = "answered"
        /\ scan'[p].start = c.start /\ scan'[p].text = c.text /\ scan'[p].got = c.got /\ scan'[p].ranges = c.ranges
    BY <1>1, <1>12 DEF Recheck, Unmoved, Scan
  <2>2. Dated(p)' /\ Writing(p)'
    BY <1>1, <1>2, <1>3, <2>1 DEF Dated, Writing, CommitSteps
  <2> QED
    BY <1>3, <1>4, <2>1, <2>2, LookingEnds DEF ScanAges
<1>13. CASE TakeLock(p)
  <2>1. /\ c.at = "lock" /\ UNCHANGED <<entry, ranges, meta>> /\ scan'[p].at = "write" /\ scan'[p].todo = Missing(p)
        /\ scan'[p].start = c.start /\ scan'[p].text = c.text /\ scan'[p].got = c.got /\ scan'[p].ranges = c.ranges
        /\ scan'[p].force = c.force /\ scan'[p].sel = c.sel
    BY <1>1, <1>13 DEF TakeLock, Scan
  <2>2. Missing(p)' = Missing(p)
    BY <2>1 DEF Missing
  <2>3. Dated(p)' /\ Writing(p)'
    BY <1>1, <1>2, <1>3, <2>1, <2>2 DEF Dated, Writing, CommitSteps
  <2> QED
    BY <1>3, <1>4, <2>1, <2>3, LookingEnds DEF ScanAges
<1>14. ASSUME Committing(p)
       PROVE  /\ lock = p /\ c.text = c.start /\ c.start # 0 /\ meta.version <= c.start /\ c.start <= version
              /\ c.at \notin {"idle", "meta", "ranges"}
  BY <1>1, <1>2, <1>14, CacheAssumption DEF Ordered, Begun, Committing, CommitSteps, NoLateCommit, Dated, Versions
<1>15. ASSUME lock = p, FilesMove, FilesAges', ScanAges(p)' PROVE AgeInv'
  BY <1>3, <1>15, WriteAge
<1>16. CASE WriteEntry(p)
  <2>1. PICK s \in c.todo : /\ entry' = [entry EXCEPT ![s] = EntryOf(p)]
                            /\ scan' = [scan EXCEPT ![p].todo = @ \ {s}]
    BY <1>16 DEF WriteEntry
  <2>2. /\ c.at = "write" /\ UNCHANGED <<meta, ranges>> /\ s \in Sigs
        /\ scan'[p].at = c.at /\ scan'[p].todo = c.todo \ {s}
        /\ scan'[p].start = c.start /\ scan'[p].text = c.text /\ scan'[p].got = c.got /\ scan'[p].ranges = c.ranges
        /\ scan'[p].force = c.force /\ scan'[p].sel = c.sel
    BY <1>1, <1>16, <2>1 DEF WriteEntry, Scan
  <2>3. Committing(p) /\ Missing(p)' = Missing(p) /\ Missing(p) \subseteq Sigs
    BY <1>1, <2>2 DEF Committing, CommitSteps, Missing, Scan
  <2>4. EntryOf(p).version = c.start
    BY <1>14, <2>3 DEF EntryOf
  <2>5. \A t \in Sigs : entry'[t] = entry[t] \/ t = s
    BY <2>1 DEF TypeOK, Files
  <2>6. entry'[s].version = c.start
    BY <2>1, <2>2, <2>4 DEF TypeOK, Files
  <2>7. FilesMove
    BY <1>1, <1>3, <1>14, <2>2, <2>3, <2>5, <2>6 DEF FilesMove
  <2>8. FilesAges'
    BY <1>1, <1>2, <1>3, <1>14, <2>2, <2>3, <2>5, <2>6 DEF FilesAges, NotOlder, Between
  <2>9. Dated(p)' /\ Writing(p)'
    BY <1>1, <1>2, <1>3, <2>2, <2>3, <2>5, <2>6 DEF Dated, Writing, CommitSteps
  <2>10. Looking(p)'
    BY <1>3, <2>2, LookingEnds
  <2> QED
    BY <1>14, <1>15, <2>3, <2>7, <2>8, <2>9, <2>10 DEF ScanAges
<1>17. CASE WriteRanges(p)
  <2>1. /\ c.at = "write" /\ c.todo = {} /\ UNCHANGED <<entry, meta>> /\ scan'[p].at = "merge"
        /\ ranges'.version = c.text
        /\ scan'[p].start = c.start /\ scan'[p].text = c.text /\ scan'[p].got = c.got /\ scan'[p].ranges = c.ranges
        /\ scan'[p].force = c.force /\ scan'[p].sel = c.sel
    BY <1>1, <1>17 DEF WriteRanges, Scan
  <2>2. Committing(p) /\ Missing(p)' = Missing(p)
    BY <2>1 DEF Committing, CommitSteps, Missing
  <2>3. FilesMove
    BY <1>1, <1>3, <2>1 DEF FilesMove
  <2>4. FilesAges'
    BY <1>1, <1>2, <1>3, <1>14, <2>1, <2>2 DEF FilesAges, NotOlder, Between
  <2>5. Dated(p)' /\ Writing(p)'
    BY <1>1, <1>2, <1>3, <1>14, <2>1, <2>2 DEF Dated, Writing, CommitSteps
  <2>6. Looking(p)'
    BY <1>3, <2>1, LookingEnds
  <2> QED
    BY <1>14, <1>15, <2>2, <2>3, <2>4, <2>5, <2>6 DEF ScanAges
<1>18. CASE Merge(p)
  <2> DEFINE next == [version |-> c.start,
                      names |-> [s \in Sigs |-> IF s \in Missing(p) THEN c.scope ELSE Kept(p)[s]],
                      ranges |-> c.scope]
  <2>1. /\ c.at = "merge" /\ UNCHANGED <<entry, ranges, meta>> /\ scan'[p].at = "writeMeta" /\ scan'[p].next = next
        /\ scan'[p].start = c.start /\ scan'[p].text = c.text /\ scan'[p].got = c.got /\ scan'[p].ranges = c.ranges
        /\ scan'[p].force = c.force /\ scan'[p].sel = c.sel
    BY <1>1, <1>18 DEF Merge, Unmoved, Scan
  <2>2. Committing(p) /\ Missing(p)' = Missing(p)
    BY <2>1 DEF Committing, CommitSteps, Missing
  <2>3. \A s \in Sigs : next.names[s] = IF s \in Missing(p) THEN c.scope ELSE Kept(p)[s]
    OBVIOUS
  <2>4. \A s \in Sigs : Kept(p)[s] # NoScope => meta.version = c.start /\ meta.names[s] # NoScope
    BY DEF Kept, NoNames
  <2> HIDE DEF next
  <2>5. \A s \in Sigs : meta.names[s] # NoScope => entry[s] # Absent /\ meta.version <= entry[s].version
    BY <1>2 DEF CommitInv, NamedFilesStay, FilesAges, NotOlder
  <2>6. \A s \in Sigs : next.names[s] # NoScope => c.start <= entry[s].version
    BY <1>2, <2>1, <2>3, <2>4, <2>5 DEF Writing
  <2>7. Dated(p)' /\ Writing(p)'
    BY <1>1, <1>2, <1>3, <2>1, <2>2, <2>6 DEF Dated, Writing, CommitSteps
  <2>8. Looking(p)'
    BY <1>3, <2>1, LookingEnds
  <2> QED
    BY <1>4, <2>1, <2>7, <2>8 DEF ScanAges
<1>19. CASE WriteMeta(p)
  <2>1. /\ c.at = "writeMeta" /\ UNCHANGED <<entry, ranges>> /\ meta' = c.next /\ scan'[p].at = "remove"
        /\ scan'[p].start = c.start /\ scan'[p].text = c.text /\ scan'[p].got = c.got /\ scan'[p].ranges = c.ranges
    BY <1>1, <1>19 DEF WriteMeta, Scan
  <2>2. Committing(p)
    BY <2>1 DEF Committing, CommitSteps
  <2>3. /\ c.next.version = c.start /\ c.start <= ranges.version
        /\ \A s \in Sigs : c.next.names[s] # NoScope => c.start <= entry[s].version
    BY <1>2, <2>1 DEF Ordered, Writing
  <2>4. FilesMove
    BY <1>1, <1>3, <1>14, <2>1, <2>2, <2>3 DEF FilesMove
  <2>5. FilesAges'
    BY <1>1, <1>2, <1>3, <1>14, <2>1, <2>2, <2>3 DEF FilesAges, NotOlder, Between
  <2>6. Dated(p)' /\ Writing(p)'
    BY <1>1, <1>2, <1>3, <2>1 DEF Dated, Writing, CommitSteps
  <2>7. Looking(p)'
    BY <1>3, <2>1, LookingEnds
  <2> QED
    BY <1>14, <1>15, <2>2, <2>4, <2>5, <2>6, <2>7 DEF ScanAges
<1>20. CASE RemoveUnnamed(p)
  <2>1. /\ c.at = "remove" /\ UNCHANGED <<ranges, meta>> /\ meta = c.next /\ scan'[p].at = "answered"
        /\ scan'[p].start = c.start /\ scan'[p].text = c.text /\ scan'[p].got = c.got /\ scan'[p].ranges = c.ranges
        /\ \A s \in Sigs : entry'[s] = entry[s] \/ entry'[s] = Absent
        /\ \A s \in Sigs : c.next.names[s] # NoScope => entry'[s] = entry[s]
    BY <1>1, <1>2, <1>20 DEF RemoveUnnamed, Scan, Named, Ordered
  <2>2. Committing(p)
    BY <2>1 DEF Committing, CommitSteps
  <2>3. FilesMove
    BY <1>1, <1>3, <2>1 DEF FilesMove
  <2>4. Absent.version = 0
    BY DEF Absent
  <2>5. FilesAges'
    BY <1>1, <1>2, <1>3, <2>1, <2>4 DEF FilesAges, NotOlder, Between
  <2>6. Dated(p)' /\ Writing(p)'
    BY <1>1, <1>2, <1>3, <2>1 DEF Dated, Writing, CommitSteps
  <2>7. Looking(p)'
    BY <1>3, <2>1, LookingEnds
  <2> QED
    BY <1>14, <1>15, <2>2, <2>3, <2>5, <2>6, <2>7 DEF ScanAges
<1>21. CASE CommitFails(p)
  <2>1. /\ c.at \in {"lock", "write", "writeMeta"} /\ UNCHANGED <<entry, ranges, meta>> /\ scan'[p].at = "answered"
        /\ scan'[p].start = c.start /\ scan'[p].text = c.text /\ scan'[p].got = c.got /\ scan'[p].ranges = c.ranges
    BY <1>1, <1>21 DEF CommitFails, Scan
  <2>2. Dated(p)' /\ Writing(p)'
    BY <1>1, <1>2, <1>3, <2>1 DEF Dated, Writing, CommitSteps
  <2>3. Looking(p)'
    BY <1>3, <2>1, LookingEnds
  <2> QED
    BY <1>4, <2>1, <2>2, <2>3 DEF ScanAges
<1>22. CASE Crash(p)
  <2>1. /\ scan'[p].at = "idle" /\ scan'[p].text = 0 /\ scan'[p].got = NoFiles
        /\ UNCHANGED <<entry, ranges, meta>>
    BY <1>1, <1>22 DEF Crash, NoScan
  <2>2. ScanAges(p)'
    BY <1>1, <1>3, <2>1 DEF ScanAges, Dated, Writing, Looking, CommitSteps, NoFiles
  <2> QED
    BY <1>4, <2>1, <2>2
<1> QED
  BY <1>5, <1>6, <1>7, <1>8, <1>9, <1>10, <1>11, <1>12, <1>13, <1>16, <1>17, <1>18, <1>19, <1>20, <1>21, <1>22 DEF ScanNext

LEMMA ReadAge ==
    ASSUME TypeOK, TypeOK', CommitInv, AgeInv, NEW r \in Readers, ReadNext(r)
    PROVE  AgeInv'
<1> DEFINE c == reading[r]
<1>1. /\ c \in Read /\ reading \in [Readers -> Read]
      /\ version \in Nat /\ version # 0 /\ ranges.version \in Nat /\ meta.version \in Nat
      /\ c.seen.version \in Nat /\ c.ranges.version \in Nat
      /\ \A s \in Sigs : c.got[s].version \in Nat /\ entry[s].version \in Nat
  BY Numbers DEF TypeOK
<1>2. ReadAges(r) /\ FilesAges /\ HeldIsTrue
  BY DEF AgeInv
<1>3. /\ \A q \in Readers \ {r} : reading'[q] = reading[q]
      /\ UNCHANGED <<version, entry, ranges, meta, scan>>
  BY <1>1 DEF ReadNext, ReadMeta, ReadRanges, ReadEntry, Confirm, ReadReturn, Quiet
<1>4. FilesMove
  BY <1>1, <1>3 DEF FilesMove
<1>5. \A p \in Scanners : ScanAges(p)'
  BY <1>3, <1>4, OthersAge DEF AgeInv
<1>6. \A q \in Readers \ {r} : ReadAges(q)'
  BY <1>3, <1>4, ReadersAge DEF AgeInv
<1>7. FilesAges'
  BY <1>2, <1>3 DEF FilesAges, Between, NotOlder
<1>8. SUFFICES ReadAges(r)' /\ HeldIsTrue'
  BY <1>5, <1>6, <1>7 DEF AgeInv
<1>9. ASSUME held' = held PROVE HeldIsTrue'
  BY <1>2, <1>9 DEF HeldIsTrue
<1>10. ASSUME reading'[r] = NoRead PROVE ReadAges(r)'
  BY <1>10 DEF ReadAges, NoRead, NoFiles, NothingHeld
<1>11. ASSUME NEW scope \in Scopes, ReadMeta(r, scope)
       PROVE  ReadAges(r)' /\ HeldIsTrue'
  <2>1. /\ held' = held /\ reading'[r].at = "ranges" /\ reading'[r].seen = meta /\ reading'[r].got = NoFiles
        /\ reading'[r].todo = {} /\ reading'[r].scope = scope /\ scope # NoScope
        /\ reading'[r].reuse = IF meta.version = held.version
                                 THEN [entries |-> held.entries, ranges |-> held.ranges] ELSE NothingHeld
    BY <1>1, <1>11, CacheAssumption DEF ReadMeta, NoRead
  <2>2. /\ \A s \in Sigs : reading'[r].reuse.entries[s] # Absent => reading'[r].reuse.entries[s].version = meta.version
        /\ reading'[r].reuse.ranges # Absent => reading'[r].reuse.ranges.version = meta.version
    BY <1>2, <2>1 DEF HeldIsTrue, NothingHeld, NoFiles
  <2> QED
    BY <1>2, <1>3, <1>9, <2>1, <2>2 DEF ReadAges, FilesAges, NotOlder, NoFiles
<1>12. CASE ReadRanges(r)
  <2> DEFINE f == IF Agrees(c.reuse.ranges, c.seen, c.scope) THEN c.reuse.ranges ELSE ranges
  <2>1. /\ held' = held /\ c.at = "ranges"
        /\ \/ reading' = [reading EXCEPT ![r].at = "entries", ![r].ranges = f, ![r].todo = Current(c.seen, c.scope)]
           \/ reading' = [reading EXCEPT ![r] = NoRead]
        /\ Agrees(f, c.seen, c.scope) \/ reading' = [reading EXCEPT ![r] = NoRead]
    BY <1>12 DEF ReadRanges
  <2>2. NotOlder(c.seen) /\ Between(ranges, c.seen.version, version) /\ c.seen.version <= version
    BY <1>1, <1>2, <2>1 DEF ReadAges, NotOlder, FilesAges, Between
  <2>3. Agrees(c.reuse.ranges, c.seen, c.scope) => c.reuse.ranges.version = c.seen.version
    BY <1>2 DEF ReadAges, Agrees, Absent
  <2>4. Between(f, c.seen.version, version)
    BY <1>1, <2>2, <2>3 DEF Between
  <2> HIDE DEF f
  <2>5. CASE reading' = [reading EXCEPT ![r] = NoRead]
    BY <1>1, <1>9, <1>10, <2>1, <2>5
  <2>6. CASE reading' = [reading EXCEPT ![r].at = "entries", ![r].ranges = f, ![r].todo = Current(c.seen, c.scope)]
    <3>1. /\ reading'[r].at = "entries" /\ reading'[r].ranges = f /\ reading'[r].seen = c.seen
          /\ reading'[r].todo = Current(c.seen, c.scope) /\ reading'[r].got = c.got /\ reading'[r].reuse = c.reuse
          /\ reading'[r].scope = c.scope
      BY <1>1, <2>6, SMTT(30) DEF Read
    <3>2. \A s \in Current(c.seen, c.scope) : c.seen.names[s] = c.scope
      BY DEF Current
    <3>3. c.scope # NoScope
      BY <1>2, <2>1 DEF ReadAges
    <3> QED
      BY <1>2, <1>3, <1>9, <2>1, <2>2, <2>4, <3>1, <3>2, <3>3 DEF ReadAges, NotOlder, Between
  <2> QED
    BY <2>1, <2>5, <2>6
<1>13. CASE ReadEntry(r)
  <2>1. PICK s \in c.todo :
          /\ held' = held /\ c.at = "entries"
          /\ reading' = [reading EXCEPT ![r].todo = @ \ {s},
                                        ![r].at = IF c.todo = {s} THEN "confirm" ELSE @,
                                        ![r].got = Took(@, s, IF Agrees(c.reuse.entries[s], c.seen, c.scope)
                                                                THEN c.reuse.entries[s] ELSE entry[s],
                                                        c.seen, c.scope)]
    BY <1>13 DEF ReadEntry
  <2> DEFINE f == IF Agrees(c.reuse.entries[s], c.seen, c.scope) THEN c.reuse.entries[s] ELSE entry[s]
  <2>2. reading' = [reading EXCEPT ![r].todo = @ \ {s},
                                   ![r].at = IF c.todo = {s} THEN "confirm" ELSE @,
                                   ![r].got = Took(@, s, f, c.seen, c.scope)]
    BY <2>1
  <2>3. NotOlder(c.seen) /\ c.seen.version <= version /\ c.seen.names[s] # NoScope /\ s \in Sigs
    <3>1. s \in Sigs
      BY <1>1 DEF Read
    <3>2. NotOlder(c.seen) /\ c.seen.names[s] # NoScope
      BY <1>2, <2>1 DEF ReadAges
    <3> QED
      BY <1>1, <1>2, <3>1, <3>2 DEF NotOlder, FilesAges, Between
  <2>4. Agrees(c.reuse.entries[s], c.seen, c.scope) => c.reuse.entries[s].version = c.seen.version
    BY <1>2, <2>3 DEF ReadAges, Agrees, Absent
  <2>5. f = Absent \/ Between(f, c.seen.version, version)
    BY <1>1, <1>2, <2>3, <2>4 DEF Between, NotOlder, FilesAges
  <2> HIDE DEF f
  <2> DEFINE next == IF c.todo = {s} THEN "confirm" ELSE c.at
             taken == Took(c.got, s, f, c.seen, c.scope)
  <2>6. /\ reading'[r].at \in {"entries", "confirm"} /\ reading'[r].ranges = c.ranges /\ reading'[r].seen = c.seen
        /\ reading'[r].todo = c.todo \ {s} /\ reading'[r].reuse = c.reuse /\ reading'[r].scope = c.scope
        /\ reading'[r].got = Took(c.got, s, f, c.seen, c.scope) /\ c.got \in Files
    <3>1. reading' = [reading EXCEPT ![r].todo = c.todo \ {s}, ![r].at = next, ![r].got = taken]
      BY <2>2
    <3>2. next \in {"entries", "confirm"}
      BY <2>1
    <3> HIDE DEF next, taken
    <3>3. /\ reading'[r].at = next /\ reading'[r].ranges = c.ranges /\ reading'[r].seen = c.seen
          /\ reading'[r].todo = c.todo \ {s} /\ reading'[r].reuse = c.reuse /\ reading'[r].scope = c.scope
          /\ reading'[r].got = taken /\ c.got \in Files
      BY <1>1, <3>1 DEF Read
    <3> QED
      BY <3>2, <3>3 DEF taken
  <2>7. \A t \in Sigs : reading'[r].got[t] \in {c.got[t], f}
    BY <2>6 DEF Took, Files
  <2>8. \A t \in Sigs : reading'[r].got[t] # Absent => Between(reading'[r].got[t], c.seen.version, version)
    BY <1>2, <2>5, <2>7 DEF ReadAges
  <2> QED
    BY <1>2, <1>3, <1>9, <2>1, <2>3, <2>6, <2>8 DEF ReadAges, NotOlder, Between
<1>14. CASE Confirm(r)
  <2>1. CASE ~Confirmed(r)
    BY <1>1, <1>9, <1>10, <1>14, <2>1 DEF Confirm
  <2>2. CASE Confirmed(r)
    <3>1. /\ c.at = "confirm" /\ c.seen.version = version /\ held' = Stored(r)
          /\ reading'[r].at = "answered" /\ reading'[r].ranges = c.ranges /\ reading'[r].seen = c.seen
          /\ reading'[r].got = c.got /\ reading'[r].todo = c.todo /\ reading'[r].reuse = NothingHeld
          /\ reading'[r].scope = c.scope
      BY <1>1, <1>14, <2>2 DEF Confirm, Confirmed, Read
    <3>2. /\ c.ranges.version = version
          /\ \A s \in Sigs : c.got[s] # Absent => c.got[s].version = version
      BY <1>1, <1>2, <3>1 DEF ReadAges, Between
    <3>3. ReadAges(r)'
      BY <1>1, <1>2, <1>3, <3>1, <3>2 DEF ReadAges, Between, NothingHeld, NoFiles
    <3> DEFINE old == IF held.version = version THEN held ELSE NothingKept
               new == [version |-> version,
                       entries |-> [s \in Sigs |-> IF Fresh(r, s) THEN c.got[s] ELSE old.entries[s]],
                       ranges |-> IF FreshRanges(r) THEN c.ranges ELSE old.ranges]
    <3>4. /\ \A s \in Sigs : old.entries[s] # Absent => old.entries[s].version = version
          /\ old.ranges # Absent => old.ranges.version = version
      BY <1>2 DEF HeldIsTrue, NothingKept, NoFiles
    <3>5. /\ new.version = version /\ \A s \in Sigs : new.entries[s] \in {c.got[s], old.entries[s]}
          /\ new.ranges \in {c.ranges, old.ranges}
      OBVIOUS
    <3>6. held' = held \/ held' = new
      BY <3>1 DEF Stored
    <3> HIDE DEF old, new
    <3>7. HeldIsTrue'
      <4>1. CASE held' = held
        BY <1>9, <4>1
      <4>2. CASE held' = new
        BY <3>2, <3>4, <3>5, <4>2 DEF HeldIsTrue
      <4> QED
        BY <3>6, <4>1, <4>2
    <3> QED
      BY <3>3, <3>7
  <2> QED
    BY <2>1, <2>2
<1>15. CASE ReadReturn(r)
  BY <1>1, <1>9, <1>10, <1>15 DEF ReadReturn
<1> QED
  BY <1>11, <1>12, <1>13, <1>14, <1>15 DEF ReadNext

LEMMA NextAge ==
    ASSUME TypeOK, TypeOK', CommitInv, AgeInv, NoLateCommit, [Next]_vars
    PROVE  AgeInv'
<1>1. CASE \E p \in Scanners : ScanNext(p)
  BY <1>1, ScanAge
<1>2. CASE \E r \in Readers : ReadNext(r)
  BY <1>2, ReadAge
<1>3. CASE Change \/ Evict \/ UNCHANGED vars
  <2>1. /\ version <= version' /\ UNCHANGED <<entry, ranges, meta, scan, reading>>
        /\ held' = held \/ held' = NothingKept
    BY <1>3, Numbers DEF Change, Evict, Quiet, vars
  <2>2. FilesMove
    BY <2>1, Numbers DEF FilesMove
  <2>3. version' \in Nat
    BY CacheAssumption DEF TypeOK, Versions
  <2>4. FilesAges'
    BY <2>1, <2>3, Numbers DEF AgeInv, FilesAges, Between, NotOlder
  <2>5. HeldIsTrue'
    BY <2>1 DEF AgeInv, HeldIsTrue, NothingKept, NoFiles
  <2>6. /\ \A p \in Scanners : ScanAges(p)'
        /\ \A r \in Readers : ReadAges(r)'
    BY <2>1, <2>2, OthersAge, ReadersAge DEF AgeInv
  <2> QED
    BY <2>4, <2>5, <2>6 DEF AgeInv
<1> QED
  BY <1>1, <1>2, <1>3 DEF Next

-----------------------------------------------------------------------------
(* Theorems *)

Sound == TypeOK /\ CommitInv /\ UseInv

LEMMA InitSound == Init => Sound
BY InitTypes, InitCommit, InitUse DEF Sound

LEMMA NextSound == ASSUME Sound, [Next]_vars PROVE Sound'
BY NextTypes, NextCommit, NextUse DEF Sound

LEMMA Settled == ASSUME Sound PROVE SettingsNeverMix
<1>1. \A r \in Readers : reading[r].at = "answered" =>
          /\ reading[r].ranges.scope = reading[r].scope
          /\ \A s \in Sigs : reading[r].got[s].scope \in {reading[r].scope, NoScope}
  BY DEF Sound, UseInv, ReadAgrees, Agrees, Absent
<1>2. \A p \in Scanners : \A s \in Sigs : scan[p].got[s] # Absent =>
          scan[p].got[s].scope = scan[p].scope /\ scan[p].ranges.scope = scan[p].scope
  BY DEF Sound, UseInv, ScanAgrees, Agrees
<1> QED
  BY <1>1, <1>2 DEF SettingsNeverMix

\* Ages stay right as long as no commit comes late.
LEMMA AgesStay == Spec /\ []NoLateCommit => [](Sound /\ AgeInv)
<1>1. Init => Sound /\ AgeInv
  BY InitSound, InitAge
<1>2. Sound /\ AgeInv /\ NoLateCommit /\ [Next]_vars => (Sound /\ AgeInv)'
  BY NextSound, NextAge DEF Sound
<1> QED
  BY <1>1, <1>2, PTL DEF Spec

(* Whatever stops a commit, the entries meta.json names are there (commit: *)
(* the entries first, meta.json after them, nothing named is removed), and *)
(* no answer joins files of two settings (currentInMeta, rangesOf); the    *)
(* count of findings need tell nothing for this.                           *)
THEOREM Commits == Spec => [](TypeOK /\ NamedFilesStay /\ SettingsNeverMix)
<1>1. Sound => TypeOK /\ NamedFilesStay /\ SettingsNeverMix
  BY Settled DEF Sound, CommitInv
<1> QED
  BY <1>1, InitSound, NextSound, PTL DEF Spec

(* Two processes that commit lose no name of each other's (commit, step 3: *)
(* meta.json is read anew under the directory's lock).                     *)
THEOREM Keeping == Spec => CommitKeepsNames
<1>1. ASSUME Sound, [Next]_vars, meta' # meta, meta'.version = meta.version, NEW s \in Sigs, meta.names[s] # NoScope
      PROVE  meta'.names[s] # NoScope
  <2>1. PICK p \in Scanners : WriteMeta(p)
    BY <1>1 DEF Next, vars, Change, ReadNext, ReadMeta, ReadRanges, ReadEntry, Confirm, ReadReturn, Evict, Quiet,
       ScanNext, Begin, LoadMeta, LoadRanges, LoadEntry, LookedUp, ScanText, Recheck, Abandon, TakeLock, WriteEntry,
       WriteRanges, Merge, RemoveUnnamed, CommitFails, Return, Crash, Unmoved
  <2>2. scan[p].at = "writeMeta" /\ meta' = scan[p].next
    BY <2>1 DEF WriteMeta
  <2>3. Ordered(p)
    BY <1>1 DEF Sound, CommitInv
  <2> QED
    BY <1>1, <2>2, <2>3, SMTT(30) DEF Ordered
<1>2. Sound /\ [Next]_vars => [meta'.version = meta.version =>
          \A s \in Sigs : meta.names[s] # NoScope => meta'.names[s] # NoScope]_meta
  BY <1>1
<1> QED
  BY <1>2, InitSound, NextSound, PTL DEF Spec, CommitKeepsNames

(* As long as no process begins to commit an older text than meta.json     *)
(* describes (NoLateCommit), every file that meta.json would have a reader *)
(* use was found in the very text meta.json describes, whatever crash or   *)
(* failed write stopped a commit, and however equal the counts are         *)
(* (commit: entries, ranges, then meta.json, under the directory's lock).  *)
THEOREM Truth == Spec /\ []NoLateCommit => []CacheIsTrue
<1>1. Sound /\ AgeInv => CacheIsTrue
  <2> SUFFICES ASSUME Sound, AgeInv PROVE CacheIsTrue
    OBVIOUS
  <2>1. /\ version \in Nat /\ meta.version \in Nat /\ ranges.version \in Nat
        /\ \A s \in Sigs : entry[s].version \in Nat
    BY Numbers DEF Sound
  <2>2. ASSUME NEW scope \in Scopes, meta.version = version, NEW s \in Current(meta, scope)
        PROVE  entry[s].version = version
    <3>1. s \in Sigs /\ meta.names[s] # NoScope
      BY <2>2, CacheAssumption DEF Current
    <3>2. entry[s] # Absent /\ meta.version <= entry[s].version /\ entry[s].version <= version
      BY <3>1 DEF Sound, CommitInv, NamedFilesStay, AgeInv, FilesAges, NotOlder
    <3> QED
      BY <2>1, <2>2, <3>1, <3>2
  <2>3. meta.version = version => ranges.version = version
    BY <2>1 DEF AgeInv, FilesAges, Between
  <2> QED
    BY <2>2, <2>3 DEF CacheIsTrue, Sound, CommitInv
<1> QED
  BY <1>1, AgesStay, PTL

(* As long as no commit comes late, an answer of Read, and what the read   *)
(* cache keeps, is of the one text that the identity confirmed, and of the *)
(* one setting asked for (read: entries first, identity last;              *)
(* readCache.store), though counts may be equal and files be replaced      *)
(* between any two of the reads.                                           *)
THEOREM Reading == Spec /\ []NoLateCommit => []ReadIsOfOneText
<1>1. Sound /\ AgeInv => ReadIsOfOneText
  BY Settled DEF AgeInv, ReadAges, ReadIsOfOneText
<1> QED
  BY <1>1, AgesStay, PTL

(* As long as no commit comes late, what an answer of scan takes from the  *)
(* cache is never older than the identity its start took and never newer   *)
(* than the text its own scan read, though another process may replace     *)
(* entries and ranges between any two of its reads (loadView,              *)
(* viewOfReusing).                                                         *)
THEOREM CachedPart == Spec /\ []NoLateCommit => []CachedPartIsOfTheCall
<1>1. Sound /\ AgeInv => CachedPartIsOfTheCall
  <2> SUFFICES ASSUME Sound, AgeInv, NEW p \in Scanners, NEW s \in Sigs, FromCache(p, s),
                      NEW f \in {scan[p].got[s], scan[p].ranges}
               PROVE  /\ f.version >= scan[p].start
                      /\ scan[p].text # 0 => f.version <= scan[p].text
    BY DEF CachedPartIsOfTheCall
  <2>1. scan[p].got[s] # Absent
    BY DEF FromCache, Missing
  <2>2. Between(f, scan[p].start, IF scan[p].text # 0 THEN scan[p].text ELSE version)
    BY <2>1 DEF AgeInv, ScanAges, Looking
  <2>3. scan[p].start \in Nat /\ f.version \in Nat
    BY Numbers DEF Sound
  <2> QED
    BY <2>2, <2>3 DEF Between
<1> QED
  BY <1>1, AgesStay, PTL

-----------------------------------------------------------------------------
(* The other cache on disk that a crash leaves half replaced: the viewer's *)
(* (ViewerBundle).                                                         *)

CONSTANTS Releases, InRange, Contents, MaxStarts
VARIABLES published, disk, torn, recorded, due, staging, starts, mode, pc, todo, build, had, withheld,
          served, failed, cut

Viewer == INSTANCE ViewerBundle WITH Versions <- Releases, meta <- recorded

Bundles == Viewer!Builds \union {Viewer!None}
Recorded == Releases \union {Viewer!Unrecorded, Viewer!Latest}
Disks == [assets : Bundles, index : Bundles, stamp : Bundles]
\* Where an install fails before it has touched the cache.
Early == {"list", "range", "download", "unpack"}

ViewerTypes ==
    /\ published \in SUBSET Releases
    /\ disk \in Disks /\ staging \in Disks
    /\ torn \in BOOLEAN /\ due \in BOOLEAN /\ withheld \in BOOLEAN /\ cut \in BOOLEAN
    /\ recorded \in Recorded \union {Viewer!NoMeta}
    /\ mode \in Viewer!Modes \union {Viewer!NoMode}
    /\ pc \in {"down", "choose", "download", "unpack", "clear", "move", "record", "failing", "serving"}
    /\ build \in Bundles
    /\ had.onDisk \in BOOLEAN /\ had.usable \in BOOLEAN /\ had.version \in Recorded /\ had.disk \in Disks

Installing == pc \in {"download", "unpack", "clear", "move", "record"}

\* What a start is at: a failure has a place, and only a start that failed
\* withholds what is on disk.
Underway ==
    /\ pc # "down" => mode \in Viewer!Modes
    /\ Installing => build \in Viewer!Builds /\ (~Viewer!Override => build.version \in InRange)
    /\ failed # "" => pc \in {"failing", "serving"}
    /\ pc = "failing" => failed # ""
    /\ withheld => pc = "serving" /\ failed # ""

\* The three passes over the entries, each with what it has done so far.
Assets(b) == [assets |-> Viewer!Held(b, "assets"), index |-> Viewer!None, stamp |-> Viewer!None]
Page(b) == [assets |-> Viewer!Held(b, "assets"), index |-> Viewer!Held(b, "index"), stamp |-> Viewer!None]
PageOf(b) == [assets |-> Viewer!None, index |-> Viewer!Held(b, "index"), stamp |-> Viewer!Held(b, "stamp")]
StampOf(b) == [assets |-> Viewer!None, index |-> Viewer!None, stamp |-> Viewer!Held(b, "stamp")]

Unpacking == pc = "unpack" =>
    \/ todo = <<"assets", "index", "stamp">> /\ staging = Viewer!Empty
    \/ todo = <<"index", "stamp">> /\ staging = Assets(build)
    \/ todo = <<"stamp">> /\ staging = Page(build)
    \/ todo = <<>> /\ staging = Viewer!Whole(build)
Clearing == pc = "clear" =>
    /\ staging = Viewer!Whole(build)
    /\ \/ todo = <<"assets", "assets", "index", "stamp">>
       \/ todo = <<"assets", "index", "stamp">> /\ disk.assets = Viewer!None
       \/ todo = <<"index", "stamp">> /\ disk.assets = Viewer!None /\ ~torn
       \/ todo = <<"stamp">> /\ disk.assets = Viewer!None /\ disk.index = Viewer!None /\ ~torn
       \/ todo = <<>> /\ disk = Viewer!Empty /\ ~torn
Moving == pc = "move" =>
    /\ ~torn
    /\ \/ todo = <<"assets", "index", "stamp">> /\ disk = Viewer!Empty /\ staging = Viewer!Whole(build)
       \/ todo = <<"index", "stamp">> /\ disk = Assets(build) /\ staging = PageOf(build)
       \/ todo = <<"stamp">> /\ disk = Page(build) /\ staging = StampOf(build)
       \/ todo = <<>> /\ disk = Viewer!Whole(build)
Recording == pc = "record" => disk = Viewer!Whole(build) /\ ~torn

\* What is on disk under an index.html is that build's.
Coherent ==
    /\ disk.index # Viewer!None =>
          disk.assets \in {Viewer!None, disk.index} /\ disk.stamp \in {Viewer!None, disk.index}
    /\ torn => disk.assets = Viewer!None

\* Until an old bundle is cleared, the cache is what the start found.
Untouched ==
    /\ pc \in {"download", "unpack"} \/ (pc = "failing" /\ failed \in Early) =>
          disk = had.disk /\ had.usable = Viewer!Usable /\ had.version = Viewer!cachedVersion
    /\ pc = "serving" /\ failed \in Early /\ had.usable =>
          disk = had.disk /\ Viewer!bundleOnDisk /\ ~withheld /\ served.version = had.version
Healthy ==
    pc = "serving" /\ failed = "" /\ mode.kind # "unmanaged"
    /\ (build # Viewer!None => Viewer!HoldsAViewer(build)) => Viewer!bundleOnDisk

\* A viewer outside the range is known as one by its metadata, unless an
\* override was cut short; one that has no number is not held against it.
Ranged == disk.index.version \in InRange \/ ~Viewer!Numbered(disk.index)
Known ==
    ~cut /\ disk.index # Viewer!None =>
        /\ ~(Viewer!Override /\ pc \in {"move", "record"}) => Ranged \/ recorded = disk.index.version
        /\ (Installing \/ pc = "failing") /\ ~Viewer!Override
           /\ (had.usable \/ (~had.onDisk /\ Viewer!bundleOnDisk)) => Ranged
        /\ pc = "serving" /\ mode.kind \in {"daily", "update"} /\ ~withheld /\ Viewer!bundleOnDisk => Ranged

ViewerInv ==
    /\ ViewerTypes /\ Underway /\ Unpacking /\ Clearing /\ Moving /\ Recording
    /\ Coherent /\ Untouched /\ Healthy /\ Known

-----------------------------------------------------------------------------
(* Builds, entries and versions. *)

LEMMA BuildsAreNotNone ==
    ASSUME Viewer!VersionsAssumption, NEW b \in Viewer!Builds
    PROVE  b # Viewer!None /\ b.version \in Releases /\ b.version \in Nat /\ b.version # 0
<1>1. b.version \in Releases
  BY DEF Viewer!Builds
<1>2. b.version \in Nat /\ b.version # 0
  BY <1>1 DEF Viewer!VersionsAssumption
<1>3. Viewer!None.version = 0
  BY DEF Viewer!None
<1> QED
  BY <1>1, <1>2, <1>3

LEMMA WholeIsOne ==
    ASSUME NEW b \in Viewer!Builds
    PROVE  /\ Viewer!Whole(b) = [assets |-> Viewer!Held(b, "assets"), index |-> Viewer!Held(b, "index"),
                                 stamp |-> Viewer!Held(b, "stamp")]
           /\ {Viewer!Held(b, "assets"), Viewer!Held(b, "index"), Viewer!Held(b, "stamp")} \subseteq {Viewer!None, b}
           /\ Viewer!Whole(b) \in Disks /\ Viewer!Empty \in Disks /\ Assets(b) \in Disks /\ Page(b) \in Disks
           /\ PageOf(b) \in Disks /\ StampOf(b) \in Disks
<1>1. DOMAIN Viewer!Empty = {"assets", "index", "stamp"}
  BY DEF Viewer!Empty
<1>2. Viewer!Whole(b) = [assets |-> Viewer!Held(b, "assets"), index |-> Viewer!Held(b, "index"),
                         stamp |-> Viewer!Held(b, "stamp")]
  BY <1>1 DEF Viewer!Whole
<1>3. {Viewer!Held(b, "assets"), Viewer!Held(b, "index"), Viewer!Held(b, "stamp")} \subseteq {Viewer!None, b}
  BY DEF Viewer!Held
<1>4. \A x, y, z \in Bundles : [assets |-> x, index |-> y, stamp |-> z] \in Disks
  BY DEF Disks
<1>5. {Viewer!None, b} \subseteq Bundles
  BY DEF Bundles
<1>6. /\ Viewer!Held(b, "assets") \in Bundles /\ Viewer!Held(b, "index") \in Bundles
      /\ Viewer!Held(b, "stamp") \in Bundles /\ Viewer!None \in Bundles
  BY <1>3, <1>5
<1>7. Viewer!Whole(b) \in Disks
  BY <1>2, <1>4, <1>6
<1>8. Viewer!Empty \in Disks /\ Assets(b) \in Disks
  BY <1>4, <1>6 DEF Viewer!Empty, Assets
<1>9. Page(b) \in Disks /\ PageOf(b) \in Disks /\ StampOf(b) \in Disks
  BY <1>4, <1>6 DEF Page, PageOf, StampOf
<1> QED
  BY <1>2, <1>3, <1>7, <1>8, <1>9

LEMMA WholeOnDisk ==
    ASSUME NEW b \in Viewer!Builds
    PROVE  /\ Viewer!Whole(b).assets \in {Viewer!None, b} /\ Viewer!Whole(b).index \in {Viewer!None, b}
           /\ Viewer!Whole(b).stamp \in {Viewer!None, b}
BY WholeIsOne

\* The order of the entries.
LEMMA EntriesInOrder ==
    /\ LET all == <<"assets", "assets", "index", "stamp">>
       IN  all # <<>> /\ Len(all) = 4 /\ Head(all) = "assets" /\ Tail(all) = <<"assets", "index", "stamp">>
    /\ LET all == <<"assets", "index", "stamp">>
       IN  all # <<>> /\ Len(all) = 3 /\ Head(all) = "assets" /\ Tail(all) = <<"index", "stamp">>
    /\ LET all == <<"index", "stamp">>
       IN  all # <<>> /\ Len(all) = 2 /\ Head(all) = "index" /\ Tail(all) = <<"stamp">>
    /\ LET all == <<"stamp">>
       IN  all # <<>> /\ Len(all) = 1 /\ Head(all) = "stamp" /\ Tail(all) = <<>>
OBVIOUS

\* Finitely many numbers have a greatest: one with the fewest above it.
LEMMA Greatest ==
    ASSUME NEW S, S \subseteq Nat, S # {}, IsFiniteSet(S)
    PROVE  \E v \in S : \A w \in S : v >= w
<1> DEFINE Above(v) == {w \in S : w > v}
           Ranks == {Cardinality(Above(v)) : v \in S}
<1>1. \A v \in S : IsFiniteSet(Above(v)) /\ Cardinality(Above(v)) \in Nat
  BY FS_Subset, FS_CardinalityType
<1>2. Ranks \subseteq Nat /\ Ranks # {}
  BY <1>1
<1>3. PICK n \in Ranks : \A k \in Ranks : ~(<<k, n>> \in OpToRel(<, Nat))
  BY <1>2, NatLessThanWellFounded, WFMin
<1>4. PICK v \in S : n = Cardinality(Above(v))
  OBVIOUS
<1>5. ASSUME NEW w \in S, w > v PROVE FALSE
  <2>1. Above(w) \subseteq Above(v) /\ w \in Above(v) /\ w \notin Above(w)
    <3>1. \A x \in S : x \in Nat
      OBVIOUS
    <3>2. \A x \in S : x > w => x > v
      BY <1>5, <3>1
    <3>3. ~(w > w)
      BY <3>1
    <3> QED
      BY <1>5, <3>2, <3>3
  <2>2. Cardinality(Above(w)) < Cardinality(Above(v))
    BY <2>1, <1>1, FS_Subset
  <2>3. <<Cardinality(Above(w)), n>> \in OpToRel(<, Nat)
    BY <2>2, <1>1, <1>4 DEF OpToRel
  <2> QED
    BY <2>3, <1>3
<1> QED
  BY <1>5

LEMMA NewestIsARelease ==
    ASSUME Viewer!VersionsAssumption, ViewerTypes, published \intersect InRange # {}
    PROVE  Viewer!newestInRange \in InRange /\ Viewer!newestInRange \in Releases
<1> DEFINE S == published \intersect InRange
<1>1. S \subseteq Nat /\ S # {} /\ IsFiniteSet(S) /\ S \subseteq Releases
  <2>1. \A T : Viewer!IsFiniteSet(T) <=> IsFiniteSet(T)
    BY DEF Viewer!IsFiniteSet, IsFiniteSet
  <2>2. S \subseteq Releases /\ IsFiniteSet(Releases) /\ Releases \subseteq Nat
    BY <2>1 DEF Viewer!VersionsAssumption, ViewerTypes
  <2> QED
    BY <2>2, FS_Subset
<1>2. \E v \in S : \A w \in S : v >= w
  BY <1>1, Greatest
<1>3. Viewer!newestInRange \in S
  BY <1>2 DEF Viewer!newestInRange
<1> QED
  BY <1>1, <1>3

\* What metadata tells, and what a start takes note of.
LEMMA SnapshotIsTyped ==
    ASSUME ViewerTypes
    PROVE  /\ Viewer!cachedVersion \in Recorded
           /\ Viewer!Usable \in BOOLEAN /\ Viewer!bundleOnDisk \in BOOLEAN
           /\ Viewer!Snapshot => /\ had'.usable = Viewer!Usable /\ had'.version = Viewer!cachedVersion
                                 /\ had'.disk = disk /\ had'.onDisk = Viewer!bundleOnDisk
<1>1. Viewer!cachedVersion \in Recorded
  BY DEF ViewerTypes, Recorded, Viewer!cachedVersion
<1>2. Viewer!Usable \in BOOLEAN /\ Viewer!bundleOnDisk \in BOOLEAN
  BY DEF Viewer!Usable, Viewer!bundleOnDisk
<1> QED
  BY <1>1, <1>2 DEF Viewer!Snapshot

\* What is on disk is a build or nothing.
LEMMA OnDisk ==
    ASSUME Viewer!VersionsAssumption, ViewerTypes
    PROVE  /\ {disk.assets, disk.index, disk.stamp, staging.assets, staging.index, staging.stamp} \subseteq Bundles
           /\ disk = [assets |-> disk.assets, index |-> disk.index, stamp |-> disk.stamp]
           /\ staging = [assets |-> staging.assets, index |-> staging.index, stamp |-> staging.stamp]
           /\ disk.index # Viewer!None => disk.index \in Viewer!Builds /\ disk.index.version \in Releases
                                          /\ disk.index.version \in Nat /\ disk.index.version # 0
BY BuildsAreNotNone DEF ViewerTypes, Disks, Bundles

\* A bundle the start may use without an override is in the range.
LEMMA UsableIsInRange ==
    ASSUME Viewer!VersionsAssumption, ViewerTypes, Known, Viewer!Usable, ~cut, pc \notin {"move", "record"}
    PROVE  Ranged
<1>1. disk.index # Viewer!None
  BY DEF Viewer!Usable, Viewer!bundleOnDisk
<1>2. CASE recorded = disk.index.version
  <2>1. /\ Viewer!cachedVersion = disk.index.version
        /\ Viewer!cachedVersion \notin {Viewer!Unrecorded, Viewer!Latest}
    BY <1>1, <1>2, OnDisk DEF Viewer!cachedVersion, Viewer!NoMeta, Viewer!Unrecorded, Viewer!Latest
  <2> QED
    BY <2>1 DEF Viewer!Usable, Viewer!viewerVersionCompatible, Ranged
<1> QED
  BY <1>1, <1>2 DEF Known

\* One entry of a directory, read and replaced.
LEMMA EntryIsReplaced ==
    ASSUME NEW x, NEW y, NEW z, NEW new
    PROVE  LET dir == [assets |-> x, index |-> y, stamp |-> z]
           IN  /\ dir["assets"] = x /\ dir["index"] = y /\ dir["stamp"] = z
               /\ [dir EXCEPT !["assets"] = new] = [assets |-> new, index |-> y, stamp |-> z]
               /\ [dir EXCEPT !["index"] = new] = [assets |-> x, index |-> new, stamp |-> z]
               /\ [dir EXCEPT !["stamp"] = new] = [assets |-> x, index |-> y, stamp |-> new]
<1> DEFINE dir == [assets |-> x, index |-> y, stamp |-> z]
<1>1. dir["assets"] = x /\ dir["index"] = y /\ dir["stamp"] = z
  OBVIOUS
<1>2. [dir EXCEPT !["assets"] = new] = [assets |-> new, index |-> y, stamp |-> z]
  OBVIOUS
<1>3. [dir EXCEPT !["index"] = new] = [assets |-> x, index |-> new, stamp |-> z]
  OBVIOUS
<1>4. [dir EXCEPT !["stamp"] = new] = [assets |-> x, index |-> y, stamp |-> new]
  OBVIOUS
<1> QED
  BY <1>1, <1>2, <1>3, <1>4

LEMMA StartKeepsTypes ==
    ASSUME ViewerInv, NEW m \in Viewer!Modes, Viewer!Start(m)
    PROVE  ViewerTypes'
BY DEF ViewerInv, ViewerTypes, Viewer!Start, Viewer!cacheVars

LEMMA ServeAsItIsKeepsTypes ==
    ASSUME ViewerInv, Viewer!ServeAsItIs
    PROVE  ViewerTypes'
<1>1. /\ UNCHANGED <<published, disk, torn, recorded, due, staging, mode, build, withheld, cut>>
      /\ pc' = "serving" /\ Viewer!Snapshot
  BY DEF Viewer!ServeAsItIs, Viewer!cacheVars, Viewer!Serves
<1>2. ViewerTypes
  BY DEF ViewerInv
<1>3. had'.onDisk \in BOOLEAN /\ had'.usable \in BOOLEAN /\ had'.version \in Recorded /\ had'.disk \in Disks
  BY <1>1, <1>2, SnapshotIsTyped DEF ViewerTypes
<1> QED
  BY <1>1, <1>2, <1>3 DEF ViewerTypes

\* The serve of a usable cache.
LEMMA ServeAsItIsKeepsKnown ==
    ASSUME Viewer!VersionsAssumption, ViewerInv, Viewer!ServeAsItIs
    PROVE  Known'
<1>1. /\ UNCHANGED <<disk, recorded, mode, withheld, cut>> /\ pc = "choose" /\ pc' = "serving"
      /\ mode.kind \in {"daily", "update"} => Viewer!Usable
  BY DEF Viewer!ServeAsItIs, Viewer!cacheVars, Viewer!Serves
<1>2. Viewer!Usable /\ ~cut => Ranged
  BY <1>1, UsableIsInRange DEF ViewerInv
<1> QED
  BY <1>1, <1>2 DEF ViewerInv, Known, Ranged, Installing, Viewer!Override

LEMMA DownloadOverrideGoes ==
    ASSUME ViewerInv, Viewer!DownloadOverride
    PROVE  /\ UNCHANGED <<published, disk, torn, recorded, due, staging, mode, withheld, failed, cut>>
           /\ pc = "choose" /\ pc' = "download" /\ Viewer!Snapshot /\ build' \in Viewer!Builds /\ Viewer!Override
           /\ mode \in Viewer!Modes
BY DEF Viewer!DownloadOverride, Viewer!cacheVars, ViewerInv, Underway

LEMMA DownloadOverrideKeepsTypes ==
    ASSUME ViewerInv, Viewer!DownloadOverride
    PROVE  ViewerTypes' /\ Underway'
<1>1. had'.onDisk \in BOOLEAN /\ had'.usable \in BOOLEAN /\ had'.version \in Recorded /\ had'.disk \in Disks
  BY DownloadOverrideGoes, SnapshotIsTyped DEF ViewerInv, ViewerTypes
<1>2. ViewerTypes'
  BY <1>1, DownloadOverrideGoes DEF ViewerInv, ViewerTypes, Bundles
<1>3. Underway'
  <2>1. pc = "choose" /\ withheld' = withheld
    BY DownloadOverrideGoes
  <2>2. ~withheld /\ failed = ""
    BY <2>1 DEF ViewerInv, Underway
  <2> QED
    BY <2>1, <2>2, DownloadOverrideGoes DEF Underway, Installing, Viewer!Override
<1> QED
  BY <1>2, <1>3

LEMMA ReadReleasesGoes ==
    ASSUME Viewer!VersionsAssumption, ViewerInv, Viewer!ReadReleases
    PROVE  /\ UNCHANGED <<published, disk, torn, staging, mode, withheld, cut>>
           /\ pc = "choose" /\ Viewer!Snapshot /\ mode.kind \in {"daily", "update"} /\ mode \in Viewer!Modes
           /\ \/ pc' = "failing" /\ failed' \in {"list", "range"} /\ UNCHANGED <<build, recorded, due>>
              \/ /\ pc' = "serving" /\ Viewer!Usable /\ UNCHANGED <<build, failed>>
                 /\ recorded' \in {recorded, Viewer!cachedVersion, Viewer!NoMeta} /\ due' \in BOOLEAN
              \/ /\ pc' = "download" /\ build' \in Viewer!Builds /\ build'.version \in InRange
                 /\ UNCHANGED <<failed, recorded, due>>
<1>1. /\ UNCHANGED <<published, disk, torn, staging, mode, withheld, cut>>
      /\ pc = "choose" /\ Viewer!Snapshot /\ mode.kind \in {"daily", "update"} /\ mode \in Viewer!Modes
  BY DEF Viewer!ReadReleases, ViewerInv, Underway
<1>2. due \in BOOLEAN
  BY DEF ViewerInv, ViewerTypes
<1>3. ASSUME published \intersect InRange # {},
             build' \in [version : {Viewer!newestInRange}, tag : {"release"}, holds : Contents]
      PROVE  build' \in Viewer!Builds /\ build'.version \in InRange
  <2>1. Viewer!newestInRange \in InRange /\ Viewer!newestInRange \in Releases
    BY <1>3, NewestIsARelease DEF ViewerInv
  <2> QED
    BY <1>3, <2>1 DEF Viewer!Builds
<1> QED
  BY <1>1, <1>2, <1>3 DEF Viewer!ReadReleases, Viewer!Writes, Viewer!WriteFails, Viewer!Serves

LEMMA ReadReleasesKeepsTypes ==
    ASSUME Viewer!VersionsAssumption, ViewerInv, Viewer!ReadReleases
    PROVE  ViewerTypes' /\ Underway'
<1>1. had'.onDisk \in BOOLEAN /\ had'.usable \in BOOLEAN /\ had'.version \in Recorded /\ had'.disk \in Disks
  BY ReadReleasesGoes, SnapshotIsTyped DEF ViewerInv, ViewerTypes
<1>2. recorded' \in Recorded \union {Viewer!NoMeta}
  BY ReadReleasesGoes, SnapshotIsTyped DEF ViewerInv, ViewerTypes
<1>3. ViewerTypes'
  BY <1>1, <1>2, ReadReleasesGoes DEF ViewerInv, ViewerTypes, Bundles
<1>4. Underway'
  <2>1. pc = "choose" /\ withheld' = withheld
    BY ReadReleasesGoes
  <2>2. ~withheld /\ failed = ""
    BY <2>1 DEF ViewerInv, Underway
  <2> QED
    BY <2>1, <2>2, ReadReleasesGoes DEF Underway, Installing, Viewer!Override
<1> QED
  BY <1>3, <1>4

LEMMA ReadReleasesKeepsKnown ==
    ASSUME Viewer!VersionsAssumption, ViewerInv, Viewer!ReadReleases
    PROVE  Known'
<1>1. Viewer!Usable /\ ~cut => Ranged
  BY ReadReleasesGoes, UsableIsInRange DEF ViewerInv
<1>2. had'.usable = Viewer!Usable /\ had'.onDisk = Viewer!bundleOnDisk
  BY ReadReleasesGoes, SnapshotIsTyped DEF ViewerInv
<1> QED
  BY <1>1, <1>2, ReadReleasesGoes DEF Viewer!bundleOnDisk, ViewerInv, Known, Ranged, Installing, Viewer!Override

LEMMA FetchKeepsTypes ==
    ASSUME ViewerInv, Viewer!Fetch
    PROVE  ViewerTypes'
<1>1. staging' \in {staging, Viewer!Empty} /\ Viewer!Empty \in Disks
  BY DEF Viewer!Fetch, Viewer!Fails, Viewer!GoesOn, Viewer!Empty, Disks, Bundles
<1> QED
  BY <1>1 DEF ViewerInv, ViewerTypes, Viewer!Fetch, Viewer!Fails, Viewer!GoesOn

LEMMA PublishKeepsTypes ==
    ASSUME ViewerInv, Viewer!Publish
    PROVE  ViewerTypes'
BY DEF ViewerInv, ViewerTypes, Viewer!Publish, Viewer!cacheVars

LEMMA DayPassesKeepsTypes ==
    ASSUME ViewerInv, Viewer!DayPasses
    PROVE  ViewerTypes'
BY DEF ViewerInv, ViewerTypes, Viewer!DayPasses

LEMMA FailKeepsTypes ==
    ASSUME ViewerInv, Viewer!Fail
    PROVE  ViewerTypes'
<1>1. /\ UNCHANGED <<published, disk, torn, staging, mode, build, had, cut>> /\ pc' = "serving"
      /\ recorded' \in {recorded, had.version, Viewer!NoMeta} /\ due' \in {due, FALSE}
      /\ withheld' \in {withheld, had.onDisk}
  BY DEF Viewer!Fail, Viewer!Serves, Viewer!Writes, Viewer!WriteFails
<1> QED
  BY <1>1 DEF ViewerInv, ViewerTypes

\* An install that failed early has cost the cache nothing.
LEMMA FailKeepsUntouched ==
    ASSUME ViewerInv, Viewer!Fail
    PROVE  Untouched'
<1> SUFFICES ASSUME failed' \in Early, had'.usable
             PROVE  disk' = had'.disk /\ Viewer!bundleOnDisk' /\ ~withheld' /\ served'.version = had'.version
  BY DEF Untouched, Viewer!Fail, Viewer!Serves
<1>1. /\ UNCHANGED <<disk, torn, had, failed>> /\ pc = "failing" /\ ~withheld
  BY DEF Viewer!Fail, ViewerInv, Underway
<1>2. disk = had.disk /\ Viewer!Usable /\ had.version = Viewer!cachedVersion
  BY <1>1 DEF ViewerInv, Untouched
<1>3. Viewer!bundleOnDisk /\ Viewer!bundleOnDisk'
  BY <1>1, <1>2 DEF Viewer!Usable, Viewer!bundleOnDisk
<1>4. ~withheld' /\ served'.version = had.version
  BY <1>1, <1>2, <1>3 DEF Viewer!Fail, Viewer!Serves, Viewer!FromCache, Viewer!Cached, Viewer!IsAvailable
<1> QED
  BY <1>1, <1>2, <1>3, <1>4

\* Where an unpacking goes.
LEMMA UnpackGoes ==
    ASSUME Viewer!VersionsAssumption, ViewerInv, Viewer!Unpack
    PROVE  /\ UNCHANGED <<published, disk, torn, recorded, due, mode, build, had, withheld, cut>>
           /\ build \in Viewer!Builds
           /\ \/ pc' = "failing" /\ staging' = Viewer!Empty
              \/ /\ pc' = "unpack"
                 /\ \/ todo' = <<"index", "stamp">> /\ staging' = Assets(build)
                    \/ todo' = <<"stamp">> /\ staging' = Page(build)
                    \/ todo' = <<>> /\ staging' = Viewer!Whole(build)
              \/ /\ pc' = "clear" /\ staging' = Viewer!Whole(build)
                 /\ todo' = <<"assets", "assets", "index", "stamp">>
<1> DEFINE Goes == /\ todo # <<>> /\ staging' = [staging EXCEPT ![Head(todo)] = Viewer!Held(build, Head(todo))]
                   /\ todo' = Tail(todo) /\ pc' = "unpack"
           Ends == /\ todo = <<>> /\ staging' = staging /\ pc' = "clear"
                   /\ todo' = <<"assets", "assets", "index", "stamp">>
<1>1. /\ UNCHANGED <<published, disk, torn, recorded, due, mode, build, had, withheld, cut>>
      /\ build \in Viewer!Builds /\ pc = "unpack"
      /\ (pc' = "failing" /\ staging' = Viewer!Empty) \/ Goes \/ Ends
  BY DEF Viewer!Unpack, Viewer!Fails, Viewer!GoesOn, ViewerInv, Underway, Installing
<1>2. CASE todo = <<"assets", "index", "stamp">> /\ staging = Viewer!Empty
  <2>1. ~Ends /\ (Goes => /\ todo' = <<"index", "stamp">>
                         /\ staging' = [Viewer!Empty EXCEPT !["assets"] = Viewer!Held(build, "assets")])
    BY <1>1, <1>2, EntriesInOrder
  <2>2. [Viewer!Empty EXCEPT !["assets"] = Viewer!Held(build, "assets")] = Assets(build)
    BY EntryIsReplaced DEF Viewer!Empty, Assets
  <2> QED
    BY <1>1, <2>1, <2>2
<1>3. CASE todo = <<"index", "stamp">> /\ staging = Assets(build)
  <2>1. ~Ends /\ (Goes => /\ todo' = <<"stamp">>
                         /\ staging' = [Assets(build) EXCEPT !["index"] = Viewer!Held(build, "index")])
    BY <1>1, <1>3, EntriesInOrder
  <2>2. [Assets(build) EXCEPT !["index"] = Viewer!Held(build, "index")] = Page(build)
    BY EntryIsReplaced DEF Page, Assets
  <2> QED
    BY <1>1, <2>1, <2>2
<1>4. CASE todo = <<"stamp">> /\ staging = Page(build)
  <2>1. ~Ends /\ (Goes => /\ todo' = <<>>
                         /\ staging' = [Page(build) EXCEPT !["stamp"] = Viewer!Held(build, "stamp")])
    BY <1>1, <1>4, EntriesInOrder
  <2>2. [Page(build) EXCEPT !["stamp"] = Viewer!Held(build, "stamp")] = Viewer!Whole(build)
    BY <1>1, EntryIsReplaced, WholeIsOne DEF Page
  <2> QED
    BY <1>1, <2>1, <2>2
<1>5. CASE todo = <<>> /\ staging = Viewer!Whole(build)
  BY <1>1, <1>5
<1> QED
  BY <1>1, <1>2, <1>3, <1>4, <1>5 DEF ViewerInv, Unpacking

LEMMA UnpackKeepsStaging ==
    ASSUME Viewer!VersionsAssumption, ViewerInv, Viewer!Unpack
    PROVE  ViewerTypes' /\ Unpacking' /\ Clearing'
<1>1. staging' \in Disks
  BY UnpackGoes, WholeIsOne DEF ViewerInv, ViewerTypes
<1>2. ViewerTypes'
  BY <1>1, UnpackGoes DEF ViewerInv, ViewerTypes
<1> QED
  BY <1>2, UnpackGoes DEF Unpacking, Clearing

\* Where the clearing of the old bundle goes.
LEMMA ClearGoes ==
    ASSUME Viewer!VersionsAssumption, ViewerInv, Viewer!Clear
    PROVE  /\ UNCHANGED <<published, recorded, due, mode, build, had, withheld, cut>>
           /\ build \in Viewer!Builds /\ pc = "clear"
           /\ \/ pc' = "failing" /\ failed' = "clear" /\ staging' = Viewer!Empty /\ UNCHANGED <<disk, torn>>
              \/ /\ pc' = "clear" /\ UNCHANGED <<staging, failed>>
                 /\ \/ /\ todo' = <<"assets", "index", "stamp">> /\ torn' \in BOOLEAN
                       /\ torn' => torn \/ disk.assets # Viewer!None
                       /\ disk' = [assets |-> Viewer!None, index |-> disk.index, stamp |-> disk.stamp]
                    \/ /\ todo' = <<"index", "stamp">> /\ torn' = FALSE
                       /\ disk' = [assets |-> Viewer!None, index |-> disk.index, stamp |-> disk.stamp]
                    \/ /\ todo' = <<"stamp">> /\ torn' = FALSE
                       /\ disk' = [assets |-> Viewer!None, index |-> Viewer!None, stamp |-> disk.stamp]
                    \/ todo' = <<>> /\ torn' = FALSE /\ disk' = Viewer!Empty
              \/ /\ pc' = "move" /\ todo' = <<"assets", "index", "stamp">> /\ disk = Viewer!Empty /\ ~torn
                 /\ UNCHANGED <<disk, torn, staging, failed>>
<1> DEFINE Goes == /\ todo # <<>> /\ torn' = (Len(todo) = 4 /\ (torn \/ disk.assets # Viewer!None))
                   /\ disk' = [disk EXCEPT ![Head(todo)] = Viewer!None]
                   /\ todo' = Tail(todo) /\ pc' = "clear" /\ UNCHANGED <<staging, failed>>
           Ends == /\ todo = <<>> /\ todo' = <<"assets", "index", "stamp">> /\ pc' = "move"
                   /\ UNCHANGED <<disk, torn, staging, failed>>
<1>1. /\ UNCHANGED <<published, recorded, due, mode, build, had, withheld, cut>>
      /\ build \in Viewer!Builds /\ pc = "clear"
      /\ \/ pc' = "failing" /\ failed' = "clear" /\ staging' = Viewer!Empty /\ UNCHANGED <<disk, torn>>
         \/ Goes \/ Ends
  BY DEF Viewer!Clear, Viewer!Fails, Viewer!GoesOn, Viewer!Entries, ViewerInv, Underway, Installing
<1>2. /\ [disk EXCEPT !["assets"] = Viewer!None] =
            [assets |-> Viewer!None, index |-> disk.index, stamp |-> disk.stamp]
      /\ [disk EXCEPT !["index"] = Viewer!None] =
            [assets |-> disk.assets, index |-> Viewer!None, stamp |-> disk.stamp]
      /\ [disk EXCEPT !["stamp"] = Viewer!None] =
            [assets |-> disk.assets, index |-> disk.index, stamp |-> Viewer!None]
  <2>1. disk = [assets |-> disk.assets, index |-> disk.index, stamp |-> disk.stamp]
    BY OnDisk DEF ViewerInv
  <2>2. PICK x, y, z : disk = [assets |-> x, index |-> y, stamp |-> z]
    BY <2>1
  <2>3. disk.assets = x /\ disk.index = y /\ disk.stamp = z
    BY <2>2
  <2>4. [disk EXCEPT !["assets"] = Viewer!None] = [assets |-> Viewer!None, index |-> y, stamp |-> z]
    BY <2>2, EntryIsReplaced
  <2>5. [disk EXCEPT !["index"] = Viewer!None] = [assets |-> x, index |-> Viewer!None, stamp |-> z]
    BY <2>2, EntryIsReplaced
  <2>6. [disk EXCEPT !["stamp"] = Viewer!None] = [assets |-> x, index |-> y, stamp |-> Viewer!None]
    BY <2>2, EntryIsReplaced
  <2> QED
    BY <2>3, <2>4, <2>5, <2>6
<1>3. CASE todo = <<"assets", "assets", "index", "stamp">>
  BY <1>1, <1>2, <1>3, EntriesInOrder
<1>4. CASE todo = <<"assets", "index", "stamp">> /\ disk.assets = Viewer!None
  <2>1. Goes => torn' = FALSE
    <3>1. Len(todo) = 3
      BY <1>4, EntriesInOrder
    <3>2. ~(Len(todo) = 4)
      BY <3>1
    <3> QED
      BY <3>2
  <2>2. ~Ends /\ (Goes => todo' = <<"index", "stamp">> /\ disk' = [disk EXCEPT !["assets"] = Viewer!None])
    BY <1>4, EntriesInOrder
  <2> QED
    BY <1>1, <1>2, <2>1, <2>2
<1>5. CASE todo = <<"index", "stamp">> /\ disk.assets = Viewer!None /\ ~torn
  BY <1>1, <1>2, <1>5, EntriesInOrder
<1>6. CASE todo = <<"stamp">> /\ disk.assets = Viewer!None /\ disk.index = Viewer!None /\ ~torn
  BY <1>1, <1>2, <1>6, EntriesInOrder DEF Viewer!Empty
<1>7. CASE todo = <<>> /\ disk = Viewer!Empty /\ ~torn
  BY <1>1, <1>7
<1> QED
  BY <1>1, <1>3, <1>4, <1>5, <1>6, <1>7 DEF ViewerInv, Clearing

LEMMA ClearKeepsDisk ==
    ASSUME Viewer!VersionsAssumption, ViewerInv, Viewer!Clear
    PROVE  ViewerTypes' /\ Clearing' /\ Moving' /\ Coherent' /\ Known'
<1>1. /\ disk.assets \in Bundles /\ disk.index \in Bundles /\ disk.stamp \in Bundles /\ torn \in BOOLEAN
      /\ Viewer!None \in Bundles /\ disk \in Disks /\ staging \in Disks /\ Viewer!Empty \in Disks
  BY OnDisk, ClearGoes, WholeIsOne DEF ViewerInv, ViewerTypes, Bundles
<1>2. /\ disk' \in Disks
      /\ disk'.index \in {disk.index, Viewer!None}
      /\ disk' # disk => disk'.assets = Viewer!None
      /\ disk'.index # Viewer!None => disk'.stamp = disk.stamp
  <2>1. CASE disk' = disk
    BY <1>1, <2>1
  <2>2. CASE disk' = Viewer!Empty
    BY <1>1, <2>2 DEF Viewer!Empty
  <2>3. CASE disk' = [assets |-> Viewer!None, index |-> disk.index, stamp |-> disk.stamp]
    BY <1>1, <2>3 DEF Disks
  <2>4. CASE disk' = [assets |-> Viewer!None, index |-> Viewer!None, stamp |-> disk.stamp]
    BY <1>1, <2>4 DEF Disks
  <2> QED
    BY <2>1, <2>2, <2>3, <2>4, ClearGoes
<1>3. ViewerTypes'
  <2>1. torn' \in BOOLEAN /\ staging' \in Disks
    BY <1>1, ClearGoes
  <2> QED
    BY <1>2, <2>1, ClearGoes DEF ViewerInv, ViewerTypes
<1>4. Coherent'
  <2>1. torn' => disk'.assets = Viewer!None
    <3>1. CASE torn' = torn /\ disk' = disk
      BY <3>1 DEF ViewerInv, Coherent
    <3>2. CASE torn' = FALSE
      BY <3>2
    <3>3. CASE disk' = [assets |-> Viewer!None, index |-> disk.index, stamp |-> disk.stamp]
      BY <3>3
    <3> QED
      BY <3>1, <3>2, <3>3, ClearGoes
  <2> QED
    BY <1>2, <2>1 DEF ViewerInv, Coherent
<1>5. Clearing'
  <2> SUFFICES ASSUME pc' = "clear" PROVE Clearing'
    BY DEF Clearing
  <2>0. staging' = Viewer!Whole(build')
    BY ClearGoes DEF ViewerInv, Clearing
  <2>1. CASE /\ todo' = <<"assets", "index", "stamp">>
              /\ disk' = [assets |-> Viewer!None, index |-> disk.index, stamp |-> disk.stamp]
    BY <2>0, <2>1 DEF Clearing
  <2>2. CASE /\ todo' = <<"index", "stamp">> /\ torn' = FALSE
              /\ disk' = [assets |-> Viewer!None, index |-> disk.index, stamp |-> disk.stamp]
    BY <2>0, <2>2 DEF Clearing
  <2>3. CASE /\ todo' = <<"stamp">> /\ torn' = FALSE
              /\ disk' = [assets |-> Viewer!None, index |-> Viewer!None, stamp |-> disk.stamp]
    BY <2>0, <2>3 DEF Clearing
  <2>4. CASE todo' = <<>> /\ torn' = FALSE /\ disk' = Viewer!Empty
    BY <2>0, <2>4 DEF Clearing
  <2> QED
    BY <2>1, <2>2, <2>3, <2>4, ClearGoes
<1>6. Moving'
  BY ClearGoes DEF ViewerInv, Clearing, Moving
<1>7. Viewer!bundleOnDisk' => Viewer!bundleOnDisk
  <2>1. disk' = disk \/ disk'.assets = Viewer!None
    BY <1>2
  <2>2. torn' => torn \/ disk.assets # Viewer!None
    BY ClearGoes
  <2> QED
    BY <1>2, <2>1, <2>2 DEF Viewer!bundleOnDisk
<1>8. Known'
  <2> SUFFICES ASSUME ~cut', disk'.index # Viewer!None PROVE Known'
    BY DEF Known
  <2>1. /\ disk'.index = disk.index /\ UNCHANGED <<recorded, mode, had, cut>> /\ pc = "clear"
        /\ pc' \in {"clear", "move", "failing"}
    BY <1>2, ClearGoes
  <2>2. /\ Ranged \/ recorded = disk.index.version
        /\ ~Viewer!Override /\ (had.usable \/ (~had.onDisk /\ Viewer!bundleOnDisk)) => Ranged
    BY <2>1 DEF ViewerInv, Known, Installing
  <2>3. Viewer!bundleOnDisk' => Viewer!bundleOnDisk
    BY <1>7
  <2> QED
    BY <2>1, <2>2, <2>3 DEF Known, Ranged, Viewer!Override
<1> QED
  BY <1>3, <1>4, <1>5, <1>6, <1>8

\* Where the move of the new bundle into its place goes.
LEMMA MoveGoes ==
    ASSUME Viewer!VersionsAssumption, ViewerInv, Viewer!Move
    PROVE  /\ UNCHANGED <<published, torn, recorded, due, mode, build, had, withheld>>
           /\ build \in Viewer!Builds /\ pc = "move" /\ ~torn
           /\ cut' = (cut \/ (Viewer!Override /\ pc' = "failing"))
           /\ \/ /\ pc' = "failing" /\ failed' = "move" /\ UNCHANGED <<disk, staging>>
                 /\ disk \in {Viewer!Empty, Assets(build), Page(build), Viewer!Whole(build)}
              \/ /\ pc' = "move" /\ UNCHANGED failed
                 /\ \/ /\ todo' = <<"index", "stamp">> /\ disk' = Assets(build)
                       /\ staging' = PageOf(build)
                    \/ /\ todo' = <<"stamp">> /\ disk' = Page(build)
                       /\ staging' = StampOf(build)
                    \/ todo' = <<>> /\ disk' = Viewer!Whole(build) /\ staging' = Viewer!Empty
              \/ pc' = "record" /\ disk' = Viewer!Whole(build) /\ staging' = Viewer!Empty /\ UNCHANGED failed
<1> DEFINE Goes == /\ todo # <<>> /\ disk' = [disk EXCEPT ![Head(todo)] = staging[Head(todo)]]
                   /\ staging' = [staging EXCEPT ![Head(todo)] = Viewer!None]
                   /\ todo' = Tail(todo) /\ pc' = "move" /\ UNCHANGED failed
           Ends == /\ todo = <<>> /\ pc' = "record" /\ staging' = Viewer!Empty /\ UNCHANGED <<disk, failed>>
           Built(e) == Viewer!Held(build, e)
<1>1. /\ UNCHANGED <<published, torn, recorded, due, mode, build, had, withheld>>
      /\ build \in Viewer!Builds /\ pc = "move" /\ ~torn
      /\ cut' = (cut \/ (Viewer!Override /\ pc' = "failing"))
      /\ \/ pc' = "failing" /\ failed' = "move" /\ UNCHANGED <<disk, staging>>
         \/ Goes \/ Ends
  BY DEF Viewer!Move, Viewer!Fails, Viewer!GoesOn, ViewerInv, Underway, Installing, Moving
<1>2. Viewer!Whole(build) = [assets |-> Built("assets"), index |-> Built("index"), stamp |-> Built("stamp")]
  BY <1>1, WholeIsOne
<1>3. CASE todo = <<"assets", "index", "stamp">> /\ disk = Viewer!Empty /\ staging = Viewer!Whole(build)
  <2>1. ~Ends
    BY <1>1, <1>3, EntriesInOrder
  <2>2. CASE Goes
    <3>1. /\ todo' = <<"index", "stamp">> /\ disk' = [Viewer!Empty EXCEPT !["assets"] = staging["assets"]]
          /\ staging' = [staging EXCEPT !["assets"] = Viewer!None]
      BY <1>1, <1>3, <2>2, EntriesInOrder
    <3>2. staging = [assets |-> Built("assets"), index |-> Built("index"), stamp |-> Built("stamp")]
      BY <1>2, <1>3
    <3>3. staging["assets"] = Built("assets") /\ staging' = PageOf(build)
      BY <3>1, <3>2, EntryIsReplaced DEF PageOf
    <3>4. disk' = Assets(build)
      BY <3>1, <3>3, EntryIsReplaced DEF Viewer!Empty, Assets
    <3> QED
      BY <1>1, <2>2, <3>1, <3>3, <3>4
  <2> QED
    BY <1>1, <1>3, <2>1, <2>2
<1>4. CASE todo = <<"index", "stamp">> /\ disk = Assets(build) /\ staging = PageOf(build)
  <2>1. ~Ends
    BY <1>1, <1>4, EntriesInOrder
  <2>2. CASE Goes
    <3>1. /\ todo' = <<"stamp">> /\ disk' = [Assets(build) EXCEPT !["index"] = staging["index"]]
          /\ staging' = [staging EXCEPT !["index"] = Viewer!None]
      BY <1>1, <1>4, <2>2, EntriesInOrder
    <3>2. staging["index"] = Built("index") /\ staging' = StampOf(build)
      BY <1>4, <3>1, EntryIsReplaced DEF PageOf, StampOf
    <3>3. disk' = Page(build)
      BY <3>1, <3>2, EntryIsReplaced DEF Page, Assets
    <3> QED
      BY <1>1, <2>2, <3>1, <3>2, <3>3
  <2> QED
    BY <1>1, <1>4, <2>1, <2>2
<1>5. CASE todo = <<"stamp">> /\ disk = Page(build) /\ staging = StampOf(build)
  <2>1. ~Ends
    BY <1>1, <1>5, EntriesInOrder
  <2>2. CASE Goes
    <3>1. /\ todo' = <<>> /\ disk' = [Page(build) EXCEPT !["stamp"] = staging["stamp"]]
          /\ staging' = [staging EXCEPT !["stamp"] = Viewer!None]
      BY <1>1, <1>5, <2>2, EntriesInOrder
    <3>2. staging["stamp"] = Built("stamp") /\ staging' = Viewer!Empty
      BY <1>5, <3>1, EntryIsReplaced DEF Viewer!Empty, StampOf
    <3>3. disk' = [Page(build) EXCEPT !["stamp"] = Built("stamp")]
      BY <3>1, <3>2
    <3>4. disk' = [assets |-> Built("assets"), index |-> Built("index"), stamp |-> Built("stamp")]
      BY <3>3, EntryIsReplaced DEF Page
    <3>5. disk' = Viewer!Whole(build)
      BY <1>2, <3>4
    <3> QED
      BY <1>1, <2>2, <3>1, <3>2, <3>5
  <2> QED
    BY <1>1, <1>5, <2>1, <2>2
<1>6. CASE todo = <<>> /\ disk = Viewer!Whole(build)
  BY <1>1, <1>6
<1> QED
  BY <1>1, <1>3, <1>4, <1>5, <1>6 DEF ViewerInv, Moving

LEMMA MoveKeepsDisk ==
    ASSUME Viewer!VersionsAssumption, ViewerInv, Viewer!Move
    PROVE  ViewerTypes' /\ Moving' /\ Recording' /\ Coherent' /\ Known'
<1>1. build \in Viewer!Builds /\ build # Viewer!None /\ build \in Bundles /\ Viewer!None \in Bundles
  BY MoveGoes, BuildsAreNotNone DEF Bundles
<1>2. disk' \in {Viewer!Empty, Assets(build), Page(build), Viewer!Whole(build)}
  BY MoveGoes
<1>3. /\ disk' \in Disks /\ disk'.index \in {Viewer!None, build}
      /\ disk'.assets \in {Viewer!None, build} /\ disk'.stamp \in {Viewer!None, build}
  <2>1. /\ Viewer!Held(build, "assets") \in {Viewer!None, build} /\ Viewer!Held(build, "index") \in {Viewer!None, build}
        /\ Viewer!Held(build, "stamp") \in {Viewer!None, build}
    BY <1>1, WholeIsOne
  <2>2. CASE disk' = Viewer!Empty
    BY <1>1, <2>2, WholeIsOne DEF Viewer!Empty
  <2>3. CASE disk' = Assets(build)
    BY <1>1, <2>1, <2>3, WholeIsOne DEF Assets
  <2>4. CASE disk' = Page(build)
    BY <1>1, <2>1, <2>4, WholeIsOne DEF Page
  <2>5. CASE disk' = Viewer!Whole(build)
    BY <1>1, <2>1, <2>5, WholeIsOne
  <2> QED
    BY <1>2, <2>2, <2>3, <2>4, <2>5
<1>4. staging' \in Disks
  BY <1>1, MoveGoes, WholeIsOne DEF ViewerInv, ViewerTypes
<1>5. ViewerTypes'
  <2>1. cut' \in BOOLEAN
    BY MoveGoes
  <2> QED
    BY <1>3, <1>4, <2>1, MoveGoes DEF ViewerInv, ViewerTypes
<1>6. Moving' /\ Recording'
  BY MoveGoes DEF Moving, Recording
<1>7. Coherent'
  BY <1>3, MoveGoes DEF Coherent
<1>8. Known'
  <2> SUFFICES ASSUME ~cut', disk'.index # Viewer!None PROVE Known'
    BY DEF Known
  <2>1. disk'.index = build /\ pc = "move" /\ pc' \in {"move", "record", "failing"} /\ mode' = mode
    BY <1>3, MoveGoes
  <2>2. Viewer!Override => pc' # "failing"
    BY MoveGoes
  <2>3. ~Viewer!Override => build.version \in InRange
    BY <2>1 DEF ViewerInv, Underway, Installing
  <2> QED
    BY <2>1, <2>2, <2>3 DEF Known, Ranged, Viewer!Override
<1> QED
  BY <1>5, <1>6, <1>7, <1>8

LEMMA RecordKeepsServed ==
    ASSUME Viewer!VersionsAssumption, ViewerInv, Viewer!Record
    PROVE  ViewerTypes' /\ Healthy' /\ Known'
<1>1. /\ UNCHANGED <<published, disk, torn, staging, mode, build, had, withheld>>
      /\ pc = "record" /\ build \in Viewer!Builds /\ build # Viewer!None /\ disk = Viewer!Whole(build)
      /\ ~Viewer!Override => build.version \in InRange
  BY BuildsAreNotNone DEF Viewer!Record, ViewerInv, Underway, Installing, Recording
<1>2. /\ Viewer!RecordedVersion \in Recorded
      /\ Viewer!RecordedVersion = build.version \/ ~Viewer!Numbered(build)
  <2>1. /\ build.version \in Releases /\ build.tag \in {"release", "custom", "latest"}
        /\ disk.stamp = Viewer!Held(build, "stamp")
    BY <1>1, BuildsAreNotNone, WholeIsOne DEF Viewer!Builds
  <2>2. CASE "stamp" \in build.holds
    <3>1. disk.stamp = build
      BY <2>1, <2>2 DEF Viewer!Held
    <3>2. Viewer!RecordedVersion = build.version
      BY <1>1, <3>1 DEF Viewer!RecordedVersion
    <3> QED
      BY <2>1, <3>2 DEF Recorded
  <2>3. CASE "stamp" \notin build.holds
    <3>1. disk.stamp = Viewer!None
      BY <2>1, <2>3 DEF Viewer!Held
    <3>2. CASE build.tag = "custom"
      BY <2>3, <3>1, <3>2 DEF Viewer!RecordedVersion, Viewer!Numbered, Recorded
    <3>3. CASE build.tag = "latest"
      BY <2>3, <3>1, <3>3 DEF Viewer!RecordedVersion, Viewer!Numbered, Recorded
    <3>4. CASE build.tag = "release"
      BY <2>1, <3>1, <3>4 DEF Viewer!RecordedVersion, Recorded
    <3> QED
      BY <2>1, <3>2, <3>3, <3>4
  <2> QED
    BY <2>2, <2>3
<1>3. \/ pc' = "serving" /\ recorded' = Viewer!RecordedVersion /\ due' = FALSE /\ cut' = FALSE
      \/ /\ pc' = "failing" /\ recorded' \in {recorded, Viewer!NoMeta} /\ UNCHANGED due
         /\ cut' = (cut \/ Viewer!Override)
  BY DEF Viewer!Record, Viewer!Writes, Viewer!WriteFails, Viewer!Serves
<1>4. disk.index = Viewer!Held(build, "index") /\ disk.assets = Viewer!Held(build, "assets")
  BY <1>1, WholeIsOne
<1>5. ViewerTypes'
  <2>1. cut' \in BOOLEAN /\ due' \in BOOLEAN
    BY <1>3 DEF ViewerInv, ViewerTypes
  <2> QED
    BY <1>1, <1>2, <1>3, <2>1 DEF ViewerInv, ViewerTypes
<1>6. Healthy'
  BY <1>1, <1>4 DEF Healthy, Viewer!bundleOnDisk, Viewer!HoldsAViewer, Viewer!Held
<1>7. Known'
  <2> SUFFICES ASSUME disk.index # Viewer!None PROVE Known'
    BY <1>1 DEF Known
  <2>0. disk.index = build
    BY <1>4 DEF Viewer!Held
  <2>1. CASE pc' = "serving"
    BY <1>1, <1>2, <1>3, <2>0, <2>1 DEF Known, Ranged, Installing, Viewer!Override
  <2>2. CASE pc' = "failing"
    <3>1. cut' \/ ~Viewer!Override
      BY <1>3, <2>2
    <3> QED
      BY <1>1, <2>0, <2>2, <3>1 DEF Known, Ranged, Viewer!Override
  <2> QED
    BY <1>3, <2>1, <2>2
<1> QED
  BY <1>5, <1>6, <1>7

LEMMA CrashKeepsKnown ==
    ASSUME Viewer!VersionsAssumption, ViewerInv, Viewer!Crash
    PROVE  Known'
<1> SUFFICES ASSUME ~cut', disk'.index # Viewer!None PROVE Known'
  BY DEF Known
<1>1. /\ disk' = disk /\ pc' = "down" /\ ~cut /\ ~(Viewer!Override /\ pc \in {"move", "record"})
      /\ ~Viewer!Override' /\ mode'.kind = "none"
      /\ recorded' = recorded \/ Viewer!WritesMeta
  BY DEF Viewer!Crash, Viewer!Fresh, Viewer!NoMode, Viewer!Override
<1>2. Ranged \/ recorded = disk.index.version
  BY <1>1 DEF ViewerInv, Known
<1>3. CASE Viewer!WritesMeta
  <2>1. CASE pc = "record"
    <3>1. build \in Viewer!Builds /\ disk = Viewer!Whole(build) /\ build.version \in InRange
      BY <1>1, <2>1 DEF ViewerInv, Recording, Underway, Installing
    <3>2. disk.index = build
      BY <1>1, <3>1, WholeIsOne DEF Viewer!Held
    <3> QED
      BY <1>1, <3>1, <3>2 DEF Known, Ranged, Installing
  <2>2. CASE pc = "choose" /\ Viewer!Usable
    <3>1. Ranged
      BY <1>1, <2>2, UsableIsInRange DEF ViewerInv
    <3> QED
      BY <1>1, <3>1 DEF Known, Ranged, Installing
  <2>3. CASE pc = "failing" /\ ~Viewer!Override /\ had.usable
    <3>1. Ranged
      BY <1>1, <2>3 DEF ViewerInv, Known
    <3> QED
      BY <1>1, <3>1 DEF Known, Ranged, Installing
  <2> QED
    BY <1>3, <2>1, <2>2, <2>3 DEF Viewer!WritesMeta
<1> QED
  BY <1>1, <1>2, <1>3 DEF Known, Ranged, Installing

\* Each action keeps the invariant.
LEMMA StartKeeps ==
    ASSUME Viewer!VersionsAssumption, ViewerInv, NEW m \in Viewer!Modes, Viewer!Start(m)
    PROVE  ViewerInv'
<1> USE DEF ViewerInv, Viewer!Start, Viewer!cacheVars
<1>1. ViewerTypes'
  BY StartKeepsTypes
<1>2. Underway'
  BY DEF Underway, Installing
<1>3. Unpacking'
  BY DEF Unpacking
<1>4. Clearing'
  BY DEF Clearing
<1>5. Moving'
  BY DEF Moving
<1>6. Recording'
  BY DEF Recording
<1>7. Coherent'
  BY DEF Coherent
<1>8. Untouched'
  BY DEF Untouched
<1>9. Healthy'
  BY DEF Healthy
<1>10. Known'
  BY DEF Known, Ranged, Installing
<1> QED
  BY <1>1, <1>2, <1>3, <1>4, <1>5, <1>6, <1>7, <1>8, <1>9, <1>10

LEMMA ServeAsItIsKeeps ==
    ASSUME Viewer!VersionsAssumption, ViewerInv, Viewer!ServeAsItIs
    PROVE  ViewerInv'
<1> USE DEF ViewerInv, Viewer!ServeAsItIs, Viewer!cacheVars, Viewer!Serves, Viewer!Snapshot
<1>1. ViewerTypes'
  BY ServeAsItIsKeepsTypes
<1>2. Known'
  BY ServeAsItIsKeepsKnown
<1>3. Underway'
  BY DEF Underway, Installing
<1>4. Unpacking'
  BY DEF Unpacking
<1>5. Clearing'
  BY DEF Clearing
<1>6. Moving'
  BY DEF Moving
<1>7. Recording'
  BY DEF Recording
<1>8. Coherent'
  BY DEF Coherent
<1>9. Untouched'
  BY DEF Untouched, Underway, Early
<1>10. Healthy'
  BY DEF Healthy, Viewer!Usable, Viewer!bundleOnDisk
<1> QED
  BY <1>1, <1>2, <1>3, <1>4, <1>5, <1>6, <1>7, <1>8, <1>9, <1>10

LEMMA DownloadOverrideKeeps ==
    ASSUME Viewer!VersionsAssumption, ViewerInv, Viewer!DownloadOverride
    PROVE  ViewerInv'
<1> USE DEF ViewerInv, Viewer!DownloadOverride, Viewer!cacheVars, Viewer!Snapshot
<1>1. ViewerTypes' /\ Underway'
  BY DownloadOverrideKeepsTypes
<1>2. Unpacking'
  BY DEF Unpacking
<1>3. Clearing'
  BY DEF Clearing
<1>4. Moving'
  BY DEF Moving
<1>5. Recording'
  BY DEF Recording
<1>6. Coherent'
  BY DEF Coherent
<1>7. Untouched'
  BY DEF Untouched, Viewer!Usable, Viewer!bundleOnDisk, Viewer!cachedVersion
<1>8. Healthy'
  BY DEF Healthy
<1>9. Known'
  BY DEF Known, Ranged, Viewer!Override
<1> QED
  BY <1>1, <1>2, <1>3, <1>4, <1>5, <1>6, <1>7, <1>8, <1>9

LEMMA ReadReleasesKeeps ==
    ASSUME Viewer!VersionsAssumption, ViewerInv, Viewer!ReadReleases
    PROVE  ViewerInv'
<1> USE DEF ViewerInv, Viewer!ReadReleases, Viewer!Snapshot, Viewer!Serves, Viewer!Writes, Viewer!WriteFails
<1>1. ViewerTypes' /\ Underway'
  BY ReadReleasesKeepsTypes
<1>2. Known'
  BY ReadReleasesKeepsKnown
<1>3. Unpacking'
  BY DEF Unpacking
<1>4. Clearing'
  BY DEF Clearing
<1>5. Moving'
  BY DEF Moving
<1>6. Recording'
  BY DEF Recording
<1>7. Coherent'
  BY DEF Coherent
<1>8. Untouched'
  BY DEF Untouched, Underway, Viewer!Usable, Viewer!bundleOnDisk, Viewer!cachedVersion, Early
<1>9. Healthy'
  BY DEF Healthy, Viewer!Usable, Viewer!bundleOnDisk
<1> QED
  BY <1>1, <1>2, <1>3, <1>4, <1>5, <1>6, <1>7, <1>8, <1>9

LEMMA FetchKeeps ==
    ASSUME Viewer!VersionsAssumption, ViewerInv, Viewer!Fetch
    PROVE  ViewerInv'
<1> USE DEF ViewerInv, Viewer!Fetch, Viewer!Fails, Viewer!GoesOn
<1>1. ViewerTypes'
  BY FetchKeepsTypes
<1>2. Underway'
  BY DEF Underway, Installing, Viewer!Override
<1>3. Unpacking'
  BY DEF Unpacking, Viewer!Entries
<1>4. Clearing'
  BY DEF Clearing
<1>5. Moving'
  BY DEF Moving
<1>6. Recording'
  BY DEF Recording
<1>7. Coherent'
  BY DEF Coherent
<1>8. Untouched'
  BY DEF Untouched, Viewer!Usable, Viewer!bundleOnDisk, Viewer!cachedVersion
<1>9. Healthy'
  BY DEF Healthy
<1>10. Known'
  BY DEF Viewer!bundleOnDisk, Known, Ranged, Installing, Viewer!Override
<1> QED
  BY <1>1, <1>2, <1>3, <1>4, <1>5, <1>6, <1>7, <1>8, <1>9, <1>10

LEMMA UnpackKeeps ==
    ASSUME Viewer!VersionsAssumption, ViewerInv, Viewer!Unpack
    PROVE  ViewerInv'
<1> USE DEF ViewerInv, Viewer!Unpack, Viewer!Fails, Viewer!GoesOn
<1>1. ViewerTypes' /\ Unpacking' /\ Clearing'
  BY UnpackKeepsStaging
<1>2. Underway'
  BY DEF Underway, Installing, Viewer!Override
<1>3. Moving'
  BY DEF Moving
<1>4. Recording'
  BY DEF Recording
<1>5. Coherent'
  BY DEF Coherent
<1>6. Untouched'
  BY DEF Untouched, Viewer!Usable, Viewer!bundleOnDisk, Viewer!cachedVersion
<1>7. Healthy'
  BY DEF Healthy
<1>8. Known'
  BY DEF Viewer!bundleOnDisk, Known, Ranged, Installing, Viewer!Override
<1> QED
  BY <1>1, <1>2, <1>3, <1>4, <1>5, <1>6, <1>7, <1>8

LEMMA ClearKeeps ==
    ASSUME Viewer!VersionsAssumption, ViewerInv, Viewer!Clear
    PROVE  ViewerInv'
<1> USE DEF ViewerInv, Viewer!Clear, Viewer!Fails, Viewer!GoesOn
<1>1. ViewerTypes' /\ Clearing' /\ Moving' /\ Coherent' /\ Known'
  BY ClearKeepsDisk
<1>2. Underway'
  BY DEF Underway, Installing, Viewer!Override
<1>3. Unpacking'
  BY DEF Unpacking
<1>4. Recording'
  BY DEF Recording
<1>5. Untouched'
  BY DEF Untouched, Early
<1>6. Healthy'
  BY DEF Healthy
<1> QED
  BY <1>1, <1>2, <1>3, <1>4, <1>5, <1>6

LEMMA MoveKeeps ==
    ASSUME Viewer!VersionsAssumption, ViewerInv, Viewer!Move
    PROVE  ViewerInv'
<1> USE DEF ViewerInv, Viewer!Move, Viewer!Fails, Viewer!GoesOn
<1>1. ViewerTypes' /\ Moving' /\ Recording' /\ Coherent' /\ Known'
  BY MoveKeepsDisk
<1>2. Underway'
  BY DEF Underway, Installing, Viewer!Override
<1>3. Unpacking'
  BY DEF Unpacking
<1>4. Clearing'
  BY DEF Clearing
<1>5. Untouched'
  BY DEF Untouched, Early
<1>6. Healthy'
  BY DEF Healthy
<1> QED
  BY <1>1, <1>2, <1>3, <1>4, <1>5, <1>6

LEMMA RecordKeeps ==
    ASSUME Viewer!VersionsAssumption, ViewerInv, Viewer!Record
    PROVE  ViewerInv'
<1> USE DEF ViewerInv, Viewer!Record, Viewer!Serves, Viewer!Writes, Viewer!WriteFails
<1>1. ViewerTypes' /\ Healthy' /\ Known'
  BY RecordKeepsServed
<1>2. Underway'
  BY DEF Underway, Installing
<1>3. Unpacking'
  BY DEF Unpacking
<1>4. Clearing'
  BY DEF Clearing
<1>5. Moving'
  BY DEF Moving
<1>6. Recording'
  BY DEF Recording
<1>7. Coherent'
  BY DEF Coherent
<1>8. Untouched'
  BY DEF Untouched, Underway, Early
<1> QED
  BY <1>1, <1>2, <1>3, <1>4, <1>5, <1>6, <1>7, <1>8

LEMMA FailKeeps ==
    ASSUME Viewer!VersionsAssumption, ViewerInv, Viewer!Fail
    PROVE  ViewerInv'
<1> USE DEF ViewerInv, Viewer!Fail, Viewer!Serves, Viewer!Writes, Viewer!WriteFails
<1>1. ViewerTypes'
  BY FailKeepsTypes
<1>2. Untouched'
  BY FailKeepsUntouched
<1>3. Underway'
  BY DEF Underway, Installing
<1>4. Unpacking'
  BY DEF Unpacking
<1>5. Clearing'
  BY DEF Clearing
<1>6. Moving'
  BY DEF Moving
<1>7. Recording'
  BY DEF Recording
<1>8. Coherent'
  BY DEF Coherent
<1>9. Healthy'
  BY DEF Healthy, Underway
<1>10. Known'
  BY DEF Viewer!bundleOnDisk, Known, Ranged, Viewer!Override
<1> QED
  BY <1>1, <1>2, <1>3, <1>4, <1>5, <1>6, <1>7, <1>8, <1>9, <1>10

LEMMA StopKeeps ==
    ASSUME Viewer!VersionsAssumption, ViewerInv, Viewer!Stop
    PROVE  ViewerInv'
<1> USE DEF ViewerInv, Viewer!Stop, Viewer!cacheVars, Viewer!Fresh
<1>1. ViewerTypes'
  BY DEF ViewerTypes, Recorded, Viewer!Nothing, Viewer!Empty, Disks, Bundles
<1>2. Underway'
  BY DEF Underway, Installing
<1>3. Unpacking'
  BY DEF Unpacking
<1>4. Clearing'
  BY DEF Clearing
<1>5. Moving'
  BY DEF Moving
<1>6. Recording'
  BY DEF Recording
<1>7. Coherent'
  BY DEF Coherent
<1>8. Untouched'
  BY DEF Untouched
<1>9. Healthy'
  BY DEF Healthy
<1>10. Known'
  BY DEF Known, Ranged, Installing
<1> QED
  BY <1>1, <1>2, <1>3, <1>4, <1>5, <1>6, <1>7, <1>8, <1>9, <1>10

LEMMA CrashKeeps ==
    ASSUME Viewer!VersionsAssumption, ViewerInv, Viewer!Crash
    PROVE  ViewerInv'
<1> USE DEF ViewerInv, Viewer!Crash, Viewer!Fresh
<1>1. Known'
  BY CrashKeepsKnown
<1>2. ViewerTypes'
  BY DEF ViewerTypes, Recorded, Viewer!Nothing, Viewer!Empty, Disks, Bundles
<1>3. Underway'
  BY DEF Underway, Installing
<1>4. Unpacking'
  BY DEF Unpacking
<1>5. Clearing'
  BY DEF Clearing
<1>6. Moving'
  BY DEF Moving
<1>7. Recording'
  BY DEF Recording
<1>8. Coherent'
  BY DEF Coherent
<1>9. Untouched'
  BY DEF Untouched
<1>10. Healthy'
  BY DEF Healthy
<1> QED
  BY <1>1, <1>2, <1>3, <1>4, <1>5, <1>6, <1>7, <1>8, <1>9, <1>10

LEMMA PublishKeeps ==
    ASSUME Viewer!VersionsAssumption, ViewerInv, Viewer!Publish
    PROVE  ViewerInv'
<1> USE DEF ViewerInv, Viewer!Publish, Viewer!cacheVars
<1>1. ViewerTypes'
  BY PublishKeepsTypes
<1>2. Underway'
  BY DEF Underway, Installing
<1>3. Unpacking'
  BY DEF Unpacking
<1>4. Clearing'
  BY DEF Clearing
<1>5. Moving'
  BY DEF Moving
<1>6. Recording'
  BY DEF Recording
<1>7. Coherent'
  BY DEF Coherent
<1>8. Untouched'
  BY DEF Untouched
<1>9. Healthy'
  BY DEF Healthy
<1>10. Known'
  BY DEF Known, Ranged, Installing
<1> QED
  BY <1>1, <1>2, <1>3, <1>4, <1>5, <1>6, <1>7, <1>8, <1>9, <1>10

LEMMA DayPassesKeeps ==
    ASSUME Viewer!VersionsAssumption, ViewerInv, Viewer!DayPasses
    PROVE  ViewerInv'
<1> USE DEF ViewerInv, Viewer!DayPasses
<1>1. ViewerTypes'
  BY DayPassesKeepsTypes
<1>2. Underway'
  BY DEF Underway, Installing
<1>3. Unpacking'
  BY DEF Unpacking
<1>4. Clearing'
  BY DEF Clearing
<1>5. Moving'
  BY DEF Moving
<1>6. Recording'
  BY DEF Recording
<1>7. Coherent'
  BY DEF Coherent
<1>8. Untouched'
  BY DEF Untouched
<1>9. Healthy'
  BY DEF Healthy
<1>10. Known'
  BY DEF Known, Ranged, Installing
<1> QED
  BY <1>1, <1>2, <1>3, <1>4, <1>5, <1>6, <1>7, <1>8, <1>9, <1>10

LEMMA ViewerStarts ==
    ASSUME Viewer!VersionsAssumption, Viewer!Init
    PROVE  ViewerInv
<1> USE DEF Viewer!Init
<1>1. disk \in Disks /\ staging \in Disks /\ recorded \in Recorded \union {Viewer!NoMeta}
  <2>1. Viewer!Empty \in Disks
    BY DEF Viewer!Empty, Disks, Bundles
  <2>2. ASSUME NEW b \in Viewer!Builds PROVE Viewer!Whole(b) \in Disks /\ b.version \in Recorded
    BY WholeIsOne, BuildsAreNotNone DEF Recorded
  <2> QED
    BY <2>1, <2>2
<1>2. disk = Viewer!Empty \/ \E b \in Viewer!Builds : disk = Viewer!Whole(b) /\ recorded = b.version
  OBVIOUS
<1>3. ViewerTypes
  <2>1. had.onDisk \in BOOLEAN /\ had.usable \in BOOLEAN /\ had.version \in Recorded /\ had.disk \in Disks
    BY DEF Recorded, Viewer!Nothing, Viewer!Empty, Viewer!Unrecorded, Disks, Bundles
  <2> QED
    BY <1>1, <2>1 DEF ViewerTypes, Bundles
<1>4. Coherent
  <2>1. CASE disk = Viewer!Empty
    BY <2>1 DEF Coherent, Viewer!Empty
  <2>2. CASE \E b \in Viewer!Builds : disk = Viewer!Whole(b) /\ recorded = b.version
    BY <2>2, WholeIsOne, WholeOnDisk DEF Coherent
  <2> QED
    BY <1>2, <2>1, <2>2
<1>5. Known
  <2>1. CASE disk = Viewer!Empty
    BY <2>1 DEF Known, Viewer!Empty
  <2>2. CASE \E b \in Viewer!Builds : disk = Viewer!Whole(b) /\ recorded = b.version
    BY <2>2, WholeOnDisk DEF Known, Installing
  <2> QED
    BY <1>2, <2>1, <2>2
<1> QED
  BY <1>3, <1>4, <1>5 DEF ViewerInv, Underway, Installing, Unpacking, Clearing, Moving, Recording, Untouched, Healthy

LEMMA ViewerSteps ==
    ASSUME Viewer!VersionsAssumption, ViewerInv, [Viewer!Next]_Viewer!vars
    PROVE  ViewerInv'
<1>1. CASE UNCHANGED Viewer!vars
  <2> USE <1>1 DEF Viewer!vars, Viewer!cacheVars, ViewerInv
  <2>1. ViewerTypes'
    BY DEF ViewerTypes
  <2>2. Underway' /\ Healthy'
    BY DEF Underway, Installing, Healthy, Viewer!Override, Viewer!bundleOnDisk
  <2>3. Unpacking' /\ Clearing' /\ Moving' /\ Recording'
    BY DEF Unpacking, Clearing, Moving, Recording
  <2>4. Coherent' /\ Known'
    BY DEF Viewer!bundleOnDisk, Coherent, Known, Ranged, Installing, Viewer!Override
  <2>5. Untouched'
    BY DEF Untouched, Viewer!Usable, Viewer!bundleOnDisk, Viewer!cachedVersion
  <2> QED
    BY <2>1, <2>2, <2>3, <2>4, <2>5
<1>2. CASE Viewer!Next
  BY <1>2, StartKeeps, ServeAsItIsKeeps, DownloadOverrideKeeps, ReadReleasesKeeps, FetchKeeps, UnpackKeeps,
     ClearKeeps, MoveKeeps, RecordKeeps, FailKeeps, StopKeeps, CrashKeeps, PublishKeeps, DayPassesKeeps
     DEF Viewer!Next
<1> QED
  BY <1>1, <1>2

LEMMA ViewerInvariant ==
    ASSUME Viewer!VersionsAssumption PROVE Viewer!Spec => []ViewerInv
<1>1. Viewer!Init => ViewerInv
  BY ViewerStarts
<1>2. ViewerInv /\ [Viewer!Next]_Viewer!vars => ViewerInv'
  BY ViewerSteps
<1> QED
  BY <1>1, <1>2, PTL DEF Viewer!Spec

\* Wherever installs failed or were killed, what is served is one build: an
\* index.html never names the assets of another, nor is a version.json another
\* build's (clearExistingContent, moveDirContents).
THEOREM OneBuildIsServed ==
    ASSUME Viewer!VersionsAssumption PROVE Viewer!Spec => []Viewer!BundlesAreNotMixed
<1>1. ViewerInv => Viewer!BundlesAreNotMixed
  BY DEF ViewerInv, Coherent, Viewer!BundlesAreNotMixed, Viewer!Serving, Viewer!IsAvailable, Viewer!bundleOnDisk
<1> QED
  BY <1>1, ViewerInvariant, PTL

\* A bundle that cannot be had, verified or unpacked costs nothing: the cache the
\* start found is served, with the version it found (Download,
\* servedAfterFailedCheck).  And a start in which nothing fails leaves a viewer,
\* whatever the starts before it left, unless the bundle it installs holds none
\* (ensureFromReleases, ensurePinned).
THEOREM StartsLeaveAViewer ==
    ASSUME Viewer!VersionsAssumption
    PROVE  Viewer!Spec => [](Viewer!BadBundleCostsNothing /\ Viewer!HealthyStartServes)
<1>1. ViewerInv => Viewer!BadBundleCostsNothing
  BY DEF ViewerInv, Untouched, Early, Viewer!BadBundleCostsNothing, Viewer!IsAvailable
<1>2. ViewerInv => Viewer!HealthyStartServes
  BY DEF ViewerInv, Healthy, Underway, Viewer!HealthyStartServes, Viewer!Serving, Viewer!IsAvailable
<1> QED
  BY <1>1, <1>2, ViewerInvariant, PTL

\* Without an override no viewer outside the range is served, whatever starts,
\* pins and crashes came before, as long as what an override installed was
\* recorded, with a number (viewerVersionCompatible, WriteMetadata).
THEOREM RangeIsServed ==
    ASSUME Viewer!VersionsAssumption PROVE Viewer!Spec => []Viewer!RangeIsKept
<1>1. ViewerInv => Viewer!RangeIsKept
  BY DEF ViewerInv, Known, Ranged, Viewer!RangeIsKept, Viewer!Serving, Viewer!IsAvailable, Viewer!bundleOnDisk
<1> QED
  BY <1>1, ViewerInvariant, PTL

\* All that the viewer's cache promises, together.
THEOREM ViewerIsRight ==
    ASSUME Viewer!VersionsAssumption PROVE Viewer!Spec => []Viewer!ViewerIsOneBuild
<1>1. Viewer!Spec => []Viewer!BundlesAreNotMixed
  BY OneBuildIsServed
<1>2. Viewer!Spec => [](Viewer!BadBundleCostsNothing /\ Viewer!HealthyStartServes)
  BY StartsLeaveAViewer
<1>3. Viewer!Spec => []Viewer!RangeIsKept
  BY RangeIsServed
<1>4. /\ Viewer!BundlesAreNotMixed /\ Viewer!RangeIsKept
      /\ Viewer!BadBundleCostsNothing /\ Viewer!HealthyStartServes
      => Viewer!ViewerIsOneBuild
  BY DEF Viewer!ViewerIsOneBuild
<1> QED
  BY <1>1, <1>2, <1>3, <1>4, PTL

=============================================================================

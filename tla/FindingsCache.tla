--------------------------- MODULE FindingsCache ---------------------------
(***************************************************************************)
(* The findings cache of one file on disk (internal/findings: scan.go,     *)
(* store.go, readcache.go): scans that look up, scan and commit, reads     *)
(* that answer from the cache alone, and the file that changes meanwhile.  *)
(*                                                                         *)
(* Every file of the cache directory is replaced by a rename, so reading   *)
(* or writing one is a step; everything between two files is not.  The     *)
(* text of the file is abstracted to its version: an identity (size,       *)
(* times, inode, fingerprint) is equal to another exactly when the version *)
(* is.  A Scanner is the caller that holds a process's lock of the file    *)
(* (fileLocks: one at a time, see ScanQueue), so two Scanners are two      *)
(* processes; a Reader is a call of Read in the process with a read cache. *)
(* The file system supports flock (lockDirectory); findings of every text  *)
(* lie within the lines of every other, so the check against the scanned   *)
(* end (endsPast) tells no two texts apart.  Summary only reads meta.json. *)
(***************************************************************************)
EXTENDS Integers, FiniteSets

CONSTANTS
    Scanners,     \* the processes that scan the file, one call each at a time
    Readers,      \* calls of Read
    Sigs,         \* the signatures of the catalogue
    Scopes,       \* keyScope: the settings and redactors a key hashes
    Asked,        \* the <<settings, signatures>> that calls of scan ask for
    NoScope,      \* no key
    NoScanner,    \* nobody holds the directory lock
    MaxVersion,   \* bound of the model: how often the file changes
    Size,         \* [Versions -> Nat] the size of each version of the file
    Counts        \* [Versions -> Nat] how many findings and ranges a scan of it stores

Versions == 1..MaxVersion

ASSUME CacheAssumption ==
    /\ NoScope \notin Scopes
    /\ Asked \subseteq Scopes \X (SUBSET Sigs \ {{}})
    /\ NoScanner \notin Scanners
    /\ MaxVersion \in Nat \ {0}
    /\ Size \in [Versions -> Nat]
    /\ Counts \in [Versions -> Nat]

VARIABLES
    version,      \* the text the path leads to now
    entry,        \* [Sigs -> CacheFile] each <id>.json
    ranges,       \* CacheFile: meta.ranges.json
    meta,         \* Meta: meta.json
    lock,         \* who holds the directory's flock
    scan,         \* [Scanners -> Scan] each process's call of scan
    reading,      \* [Readers -> Read] each call of Read
    held          \* Held: what the process's read cache keeps for the file

vars == <<version, entry, ranges, meta, lock, scan, reading, held>>

-----------------------------------------------------------------------------
(* Types *)

(* An entry or ranges file: the text it was found in and its key. *)
CacheFile == [version : 0..MaxVersion, scope : Scopes \union {NoScope}]
Absent == [version |-> 0, scope |-> NoScope]

Names == [Sigs -> Scopes \union {NoScope}]
NoNames == [s \in Sigs |-> NoScope]

(* meta.json: the identity, the key of each signature, the ranges' key. *)
Meta == [version : 0..MaxVersion, names : Names, ranges : Scopes \union {NoScope}]
NoMeta == [version |-> 0, names |-> NoNames, ranges |-> NoScope]

Files == [Sigs -> CacheFile]
NoFiles == [s \in Sigs |-> Absent]

ScanSteps == {"idle", "meta", "ranges", "entries", "scan", "recheck", "lock", "write",
              "writeRanges", "merge", "writeMeta", "remove", "answered"}

(* A call of scan: scope and sel are its request, start its identity, seen *)
(* the meta.json it read, got the entries it took from the cache, text the *)
(* version its own scan read (0: none), todo the files left to read or     *)
(* write, next the meta.json it is about to write.                         *)
Scan == [at : ScanSteps, scope : Scopes \union {NoScope}, sel : SUBSET Sigs,
         force : BOOLEAN, start : 0..MaxVersion, seen : Meta, got : Files, ranges : CacheFile,
         text : 0..MaxVersion, todo : SUBSET Sigs, next : Meta]
NoScan == [at |-> "idle", scope |-> NoScope, sel |-> {}, force |-> FALSE, start |-> 0,
           seen |-> NoMeta, got |-> NoFiles, ranges |-> Absent, text |-> 0, todo |-> {},
           next |-> NoMeta]

Read == [at : {"idle", "ranges", "entries", "confirm", "answered"}, scope : Scopes \union {NoScope},
         seen : Meta, got : Files, ranges : CacheFile, todo : SUBSET Sigs,
         reuse : [entries : Files, ranges : CacheFile]]
NothingHeld == [entries |-> NoFiles, ranges |-> Absent]
NoRead == [at |-> "idle", scope |-> NoScope, seen |-> NoMeta, got |-> NoFiles,
           ranges |-> Absent, todo |-> {}, reuse |-> NothingHeld]

(* decodedFile: the state of the file it was decoded in, and what.  The    *)
(* value 0 stands for no record.                                           *)
Held == [version : 0..MaxVersion, entries : Files, ranges : CacheFile]
NothingKept == [version |-> 0, entries |-> NoFiles, ranges |-> Absent]

Init ==
    /\ version = 1
    /\ entry = NoFiles
    /\ ranges = Absent
    /\ meta = NoMeta
    /\ lock = NoScanner
    /\ scan = [p \in Scanners |-> NoScan]
    /\ reading = [r \in Readers |-> NoRead]
    /\ held = NothingKept

-----------------------------------------------------------------------------
(* What a reader of the cache accepts (viewOfReusing, currentInMeta).  An  *)
(* operator named Faulty... is the one after it with one plausible bug.    *)

(* currentInMeta: the signatures meta.json names with this scope's key. *)
Current(m, scope) == IF m.ranges = scope THEN {s \in Sigs : m.names[s] = scope} ELSE {}

(* An entry or ranges file is used when its key is the one meta.json names *)
(* and it stores as many items as meta.json says; its text is not known.   *)
Agrees(f, m, scope) ==
    f.version # 0 /\ f.scope = scope /\ Counts[f.version] = Counts[m.version]

(* What a read of one entry file adds to the entries got so far. *)
Took(got, s, f, m, scope) == IF Agrees(f, m, scope) THEN [got EXCEPT ![s] = f] ELSE got

-----------------------------------------------------------------------------
(* The file *)

(* Another program appends to the file, truncates it or writes it anew:    *)
(* its identity is one it never had (mtime, ctime).                        *)
Change ==
    /\ version < MaxVersion
    /\ version' = version + 1
    /\ UNCHANGED <<entry, ranges, meta, lock, scan, reading, held>>

-----------------------------------------------------------------------------
(* scan: looking up *)

Unmoved == UNCHANGED <<version, entry, ranges, meta, lock, reading, held>>

Begin(p, scope, sel, force) ==
    /\ scan[p].at = "idle"
    /\ scan' = [scan EXCEPT ![p] = [NoScan EXCEPT !.at = "meta", !.scope = scope, !.sel = sel,
                                                  !.force = force, !.start = version]]
    /\ Unmoved

(* loadView: a meta.json of another state of the file is no cache. *)
FaultyUsable(p, m) == Current(m, scan[p].scope) # {}
Usable(p, m) == m.version = scan[p].start /\ Current(m, scan[p].scope) # {}

LoadMeta(p) ==
    /\ scan[p].at = "meta"
    /\ scan' = IF Usable(p, meta)
                 THEN [scan EXCEPT ![p].at = "ranges", ![p].seen = meta]
                 ELSE [scan EXCEPT ![p].at = "scan"]
    /\ Unmoved

(* readRanges: without the ranges meta.json names, nothing is current. *)
LoadRanges(p) ==
    /\ scan[p].at = "ranges"
    /\ scan' = IF Agrees(ranges, scan[p].seen, scan[p].scope)
                 THEN [scan EXCEPT ![p].at = "entries", ![p].ranges = ranges,
                                   ![p].todo = scan[p].sel \intersect Current(scan[p].seen, scan[p].scope)]
                 ELSE [scan EXCEPT ![p].at = "scan"]
    /\ Unmoved

LoadEntry(p) ==
    \E s \in scan[p].todo :
        /\ scan[p].at = "entries"
        /\ scan' = [scan EXCEPT ![p].todo = @ \ {s},
                                ![p].got = Took(@, s, entry[s], scan[p].seen, scan[p].scope)]
        /\ Unmoved

Missing(p) ==
    IF scan[p].force THEN scan[p].sel ELSE {s \in scan[p].sel : scan[p].got[s] = Absent}

(* With nothing missing the answer is the view; otherwise a scan follows. *)
LookedUp(p) ==
    /\ scan[p].at = "entries"
    /\ scan[p].todo = {}
    /\ scan' = [scan EXCEPT ![p].at = IF Missing(p) = {} THEN "answered" ELSE "scan"]
    /\ Unmoved

-----------------------------------------------------------------------------
(* scan: scanning and committing *)

ScanText(p) ==
    /\ scan[p].at = "scan"
    /\ scan' = [scan EXCEPT ![p].at = "recheck", ![p].text = version]
    /\ Unmoved

(* A scan that fails, a cancel before the point of no return, a shorter    *)
(* file (unchangedSince): an error, and nothing is written.                *)
Abandon(p) ==
    /\ scan[p].at \in {"scan", "recheck"}
    /\ scan' = [scan EXCEPT ![p] = NoScan]
    /\ Unmoved

(* unchangedSince: the same file is committed, a grown one only answered. *)
Recheck(p) ==
    /\ scan[p].at = "recheck"
    /\ \/ /\ version = scan[p].start
          /\ scan' = [scan EXCEPT ![p].at = "lock"]
       \/ /\ version # scan[p].start
          /\ Size[version] >= Size[scan[p].start]
          /\ scan' = [scan EXCEPT ![p].at = "answered"]
    /\ Unmoved

(* lockDirectory, once the lock is free. *)
TakeLock(p) ==
    /\ scan[p].at = "lock"
    /\ lock = NoScanner
    /\ lock' = p
    /\ scan' = [scan EXCEPT ![p].at = "write", ![p].todo = Missing(p)]
    /\ UNCHANGED <<version, entry, ranges, meta, reading, held>>

(* entryOf: the findings of the text scanned, and their key. *)
EntryOf(p) == [version |-> scan[p].text, scope |-> scan[p].scope]

WriteEntry(p) ==
    \E s \in scan[p].todo :
        /\ scan[p].at = "write"
        /\ entry' = [entry EXCEPT ![s] = EntryOf(p)]
        /\ scan' = [scan EXCEPT ![p].todo = @ \ {s}]
        /\ UNCHANGED <<version, ranges, meta, lock, reading, held>>

WriteRanges(p) ==
    /\ scan[p].at = "write"
    /\ scan[p].todo = {}
    /\ ranges' = [version |-> scan[p].text, scope |-> scan[p].scope]
    /\ scan' = [scan EXCEPT ![p].at = "merge"]
    /\ UNCHANGED <<version, entry, meta, lock, reading, held>>

(* The names the new meta.json keeps of the one on disk, read anew. *)
FaultyForgotten(p) == NoNames
FaultyKept(p) == meta.names
Kept(p) == IF meta.version = scan[p].start THEN meta.names ELSE NoNames

Merge(p) ==
    /\ scan[p].at = "merge"
    /\ scan' = [scan EXCEPT
          ![p].at = "writeMeta",
          ![p].next = [version |-> scan[p].start,
                       names |-> [s \in Sigs |-> IF s \in Missing(p) THEN scan[p].scope ELSE Kept(p)[s]],
                       ranges |-> scan[p].scope]]
    /\ Unmoved

(* The commit point. *)
WriteMeta(p) ==
    /\ scan[p].at = "writeMeta"
    /\ meta' = scan[p].next
    /\ scan' = [scan EXCEPT ![p].at = "remove"]
    /\ UNCHANGED <<version, entry, ranges, lock, reading, held>>

(* removeUnnamed, and the lock is let go. *)
Named(p) == {s \in Sigs : scan[p].next.names[s] # NoScope}

RemoveUnnamed(p) ==
    /\ scan[p].at = "remove"
    /\ entry' = [s \in Sigs |-> IF s \in Named(p) THEN entry[s] ELSE Absent]
    /\ lock' = NoScanner
    /\ scan' = [scan EXCEPT ![p].at = "answered"]
    /\ UNCHANGED <<version, ranges, meta, reading, held>>

(* A commit that cannot be written (no lock in time, a cancel while        *)
(* waiting for it, a full disk) stops where it is; the answer is given.    *)
CommitFails(p) ==
    /\ scan[p].at \in {"lock", "write", "writeMeta"}
    /\ lock' = IF lock = p THEN NoScanner ELSE lock
    /\ scan' = [scan EXCEPT ![p].at = "answered"]
    /\ UNCHANGED <<version, entry, ranges, meta, reading, held>>

Return(p) ==
    /\ scan[p].at = "answered"
    /\ scan' = [scan EXCEPT ![p] = NoScan]
    /\ Unmoved

(* The process dies: its flock is released with it, its files stay. *)
Crash(p) ==
    /\ scan[p].at \notin {"idle", "answered"}
    /\ lock' = IF lock = p THEN NoScanner ELSE lock
    /\ scan' = [scan EXCEPT ![p] = NoScan]
    /\ UNCHANGED <<version, entry, ranges, meta, reading, held>>

-----------------------------------------------------------------------------
(* read *)

Quiet == UNCHANGED <<version, entry, ranges, meta, lock, scan>>

(* readMeta, and lookup of the read cache for the state meta.json records. *)
ReadMeta(r, scope) ==
    /\ reading[r].at = "idle"
    /\ Current(meta, scope) # {}
    /\ reading' = [reading EXCEPT ![r] =
          [NoRead EXCEPT !.at = "ranges", !.scope = scope, !.seen = meta,
                         !.reuse = IF meta.version = held.version
                                     THEN [entries |-> held.entries, ranges |-> held.ranges]
                                     ELSE NothingHeld]]
    /\ UNCHANGED held /\ Quiet

(* rangesOf: the ranges held are used when they agree, else the file. *)
ReadRanges(r) ==
    LET call == reading[r]
        f == IF Agrees(call.reuse.ranges, call.seen, call.scope) THEN call.reuse.ranges ELSE ranges
    IN  /\ call.at = "ranges"
        /\ reading' = IF Agrees(f, call.seen, call.scope)
                        THEN [reading EXCEPT ![r].at = "entries", ![r].ranges = f,
                                             ![r].todo = Current(call.seen, call.scope)]
                        ELSE [reading EXCEPT ![r] = NoRead]
        /\ UNCHANGED held /\ Quiet

ReadEntry(r) ==
    LET call == reading[r]
    IN  \E s \in call.todo :
            LET f == IF Agrees(call.reuse.entries[s], call.seen, call.scope)
                       THEN call.reuse.entries[s] ELSE entry[s]
            IN  /\ call.at = "entries"
                /\ reading' = [reading EXCEPT
                      ![r].todo = @ \ {s},
                      ![r].at = IF call.todo = {s} THEN "confirm" ELSE @,
                      ![r].got = Took(@, s, f, call.seen, call.scope)]
                /\ UNCHANGED held /\ Quiet

(* The identity is taken after the entries were read. *)
Confirmed(r) == reading[r].seen.version = version

(* What the call decoded from the files, not taken from the read cache. *)
Fresh(r, s) ==
    /\ reading[r].got[s] # Absent
    /\ ~Agrees(reading[r].reuse.entries[s], reading[r].seen, reading[r].scope)
FreshRanges(r) == ~Agrees(reading[r].reuse.ranges, reading[r].seen, reading[r].scope)

(* readCache.store: a record of another state is replaced. *)
FaultyStored(r) ==
    [version |-> version,
     entries |-> [s \in Sigs |-> IF Fresh(r, s) THEN reading[r].got[s] ELSE held.entries[s]],
     ranges |-> IF FreshRanges(r) THEN reading[r].ranges ELSE held.ranges]
Stored(r) ==
    LET old == IF held.version = version THEN held ELSE NothingKept
    IN  IF ~FreshRanges(r) /\ \A s \in Sigs : ~Fresh(r, s)
          THEN held
          ELSE [version |-> version,
                entries |-> [s \in Sigs |-> IF Fresh(r, s) THEN reading[r].got[s] ELSE old.entries[s]],
                ranges |-> IF FreshRanges(r) THEN reading[r].ranges ELSE old.ranges]

Confirm(r) ==
    /\ reading[r].at = "confirm"
    /\ \/ /\ Confirmed(r)
          /\ reading' = [reading EXCEPT ![r].at = "answered", ![r].reuse = NothingHeld]
          /\ held' = Stored(r)
       \/ /\ ~Confirmed(r)
          /\ reading' = [reading EXCEPT ![r] = NoRead]
          /\ UNCHANGED held
    /\ Quiet

ReadReturn(r) ==
    /\ reading[r].at = "answered"
    /\ reading' = [reading EXCEPT ![r] = NoRead]
    /\ UNCHANGED held /\ Quiet

(* evictLocked makes room for another file, or the server restarts. *)
Evict ==
    /\ held.version # 0
    /\ held' = NothingKept
    /\ UNCHANGED reading /\ Quiet

-----------------------------------------------------------------------------

ScanNext(p) ==
    \/ \E ask \in Asked, force \in BOOLEAN : Begin(p, ask[1], ask[2], force)
    \/ LoadMeta(p) \/ LoadRanges(p) \/ LoadEntry(p) \/ LookedUp(p)
    \/ ScanText(p) \/ Recheck(p) \/ Abandon(p)
    \/ TakeLock(p) \/ WriteEntry(p) \/ WriteRanges(p) \/ Merge(p) \/ WriteMeta(p)
    \/ RemoveUnnamed(p) \/ CommitFails(p) \/ Return(p) \/ Crash(p)

ReadNext(r) ==
    \/ \E scope \in Scopes : ReadMeta(r, scope)
    \/ ReadRanges(r) \/ ReadEntry(r) \/ Confirm(r) \/ ReadReturn(r)

Next ==
    \/ Change
    \/ \E p \in Scanners : ScanNext(p)
    \/ \E r \in Readers : ReadNext(r)
    \/ Evict

Spec == Init /\ [][Next]_vars

-----------------------------------------------------------------------------
(* Properties *)

TypeOK ==
    /\ version \in Versions
    /\ entry \in Files
    /\ ranges \in CacheFile
    /\ meta \in Meta
    /\ lock \in Scanners \union {NoScanner}
    /\ scan \in [Scanners -> Scan]
    /\ reading \in [Readers -> Read]
    /\ held \in Held

(* A condition on the runs, not on the code: no process begins to commit   *)
(* findings of an older text than the one meta.json already describes.     *)
(* The code does not rule this out (the file may change, be scanned and    *)
(* committed by another process, between unchangedSince and the lock), and *)
(* the run findings_cache_late shows what such a late commit can leave.    *)
NoLateCommit == lock # NoScanner => meta.version <= scan[lock].start

(* Every entry file that meta.json names is there, though a commit may     *)
(* stop after any of its writes (entries before meta.json).                *)
NamedFilesStay ==
    \A s \in Sigs : meta.names[s] # NoScope => entry[s] # Absent

(* The cache never lies about the file as it is: when meta.json describes  *)
(* the file's present state, every file it would have a reader use was     *)
(* found in that very text, whatever crash or failed write left the        *)
(* directory half written (commit's order of writes).                      *)
CacheIsTrue ==
    /\ TypeOK /\ NamedFilesStay
    /\ \A scope \in Scopes :
          meta.version = version =>
              /\ \A s \in Current(meta, scope) :
                    Agrees(entry[s], meta, scope) => entry[s].version = version
              /\ Current(meta, scope) # {} /\ Agrees(ranges, meta, scope) => ranges.version = version

(* Two calls with different settings (masking on and off) share the        *)
(* directory and the read cache, and neither is answered with findings or  *)
(* masked ranges of the other's: ranges and entries are used only together *)
(* and under the one key (currentInMeta, rangesOf).                        *)
SettingsNeverMix ==
    /\ \A r \in Readers : reading[r].at = "answered" =>
          /\ reading[r].ranges.scope = reading[r].scope
          /\ \A s \in Sigs : reading[r].got[s].scope \in {reading[r].scope, NoScope}
    /\ \A p \in Scanners : \A s \in Sigs : scan[p].got[s] # Absent =>
          scan[p].got[s].scope = scan[p].scope /\ scan[p].ranges.scope = scan[p].scope

(* The read cache is never stale: what it keeps for a state of the file is *)
(* what a scan of that state found.                                        *)
HeldIsTrue ==
    /\ \A s \in Sigs : held.entries[s] # Absent => held.entries[s].version = held.version
    /\ held.ranges # Absent => held.ranges.version = held.version

(* An answer of Read is of one text, the one its identity check confirmed: *)
(* entries and masked ranges are never of two states of the file (read's   *)
(* order: entries first, identity last); nor of two settings, nor stale.   *)
ReadIsOfOneText ==
    /\ HeldIsTrue /\ SettingsNeverMix
    /\ \A r \in Readers : reading[r].at = "answered" =>
          /\ reading[r].ranges.version = reading[r].seen.version
          /\ \A s \in Sigs : reading[r].got[s] # Absent =>
                reading[r].got[s].version = reading[r].seen.version

\* p answers, and takes the findings of s from the cache.
FromCache(p, s) == scan[p].at = "answered" /\ s \in scan[p].sel \ Missing(p)

(* An answer of scan may join findings of two texts: another process can   *)
(* replace an entry between the reading of meta.json and of the entry      *)
(* (loadView, viewOfReusing), and the count need not tell them apart.  But *)
(* what is taken from the cache is never older than the call's start, and  *)
(* never newer than the text its own scan read: a file that kept still     *)
(* while the call looked and scanned gives an answer of its one text.      *)
CachedPartIsOfTheCall ==
    \A p \in Scanners : \A s \in Sigs : FromCache(p, s) =>
        \A f \in {scan[p].got[s], scan[p].ranges} :
            /\ f.version >= scan[p].start
            /\ scan[p].text # 0 => f.version <= scan[p].text

(* Two processes that scan the same state of the file with different       *)
(* signatures lose nothing of each other's: a commit keeps every name      *)
(* meta.json already has for that state (commit, step 3, under the lock).  *)
CommitKeepsNames ==
    [][meta'.version = meta.version =>
          \A s \in Sigs : meta.names[s] # NoScope => meta'.names[s] # NoScope]_meta

=============================================================================

-------------------------- MODULE ChainDescription --------------------------
(***************************************************************************)
(* One log chain described while it is rotated, written and indexed         *)
(* (internal/logchain: describe.go, facts.go, checks.go, cache.go,          *)
(* fingerprint.go).                                                         *)
(*                                                                          *)
(* dir maps a name of the chain to the file it leads to (0: none): name 0   *)
(* is the active file, 1..Frozen the rotated ones.  A file is its whole     *)
(* identity (inode, device, ctime); written says how many lines of          *)
(* Stamps[file] are in it, each the timestamp of a line (0: none).          *)
(* store maps a name to its line index file: what it recorded of the file   *)
(* [file, size] and ver, the stat of the index file itself.  A journal      *)
(* chain is ordered by Headers[file], every other by the timestamps.        *)
(***************************************************************************)
EXTENDS Integers, FiniteSets, Sequences, SequencesExt, FiniteSetsExt, TLC

CONSTANTS Frozen,       \* the rotated names are 1..Frozen
          FileIds,      \* the files that ever exist, 1..n
          Stamps,       \* file -> the timestamps of its lines
          Headers,      \* file -> [counter, head, tail, time]: a journal's header
          Created,      \* the files that rotations create, in order
          Described,    \* the chains at the start: [dir, written, journal, store]
          Tolerance,    \* RX_CHAIN_OVERLAP_SECONDS
          Attempts,     \* maxDescribeAttempts
          CacheEntries, \* maxCachedDescriptions
          Procs, Describes, Rebuilds, Removals, Denials \* bounds of the instance

VARIABLES dir, written, journal, denied, store, \* the disk
          cache,                                \* the entries [key, facts], most recent first
          ds,                                   \* process -> its describe
          spent                                 \* what the bounds count
describeVars == <<dir, written, journal, denied, store, cache, ds, spent>>

Names == 0..Frozen
Indexes == [file : FileIds \union {0}, size : Nat, ver : Nat]
Absent == [file |-> 0, size |-> 0, ver |-> 0]

\* A chain's names lead to different files, and what rotations create is new and empty.
ChainOnDisk(c) ==
  /\ c.dir \in [Names -> FileIds \union {0}]
  /\ \A m, n \in Names : m # n /\ c.dir[m] # 0 => c.dir[m] # c.dir[n]
  /\ c.written \in [FileIds -> Nat]
  /\ c.journal \in BOOLEAN
  /\ c.store \in [Names -> Indexes]
  /\ \A n \in Names : LET idx == c.store[n] IN
       idx = Absent \/ (idx.ver = 1 /\ (idx.file # 0 => idx.size <= c.written[idx.file]))
  /\ \A i \in DOMAIN Created : c.written[Created[i]] = 0 /\ \A n \in Names : c.dir[n] # Created[i]

DescribeAssumption ==
  /\ Frozen \in Nat \ {0}
  /\ FileIds \subseteq Nat \ {0}
  /\ Created \in Seq(FileIds)
  /\ \A i, j \in DOMAIN Created : i # j => Created[i] # Created[j]
  /\ \A c \in Described : ChainOnDisk(c)
  /\ CacheEntries \in Nat \ {0}

None == [none |-> TRUE]
NoTime == 0

-----------------------------------------------------------------------------
(* What a read of one part gives. *)

StampedLines(f, n) == {i \in 1..n : Stamps[f][i] # NoTime}
FirstMs(f, n) == IF StampedLines(f, n) = {} THEN NoTime ELSE Stamps[f][Min(StampedLines(f, n))]
MaxMs(f, n) == IF StampedLines(f, n) = {} THEN NoTime ELSE Max({Stamps[f][i] : i \in StampedLines(f, n)})

NoFacts == [indexed |-> FALSE, unreadable |-> FALSE, lines |-> -1, timesKnown |-> FALSE,
            noTimestamps |-> FALSE, first |-> NoTime, max |-> NoTime, stamp |-> Absent, header |-> 0]
Unreadable == [NoFacts EXCEPT !.unreadable = TRUE]
Empty == [NoFacts EXCEPT !.lines = 0, !.timesKnown = TRUE]

factsOfIndex(idx) ==
  [NoFacts EXCEPT !.indexed = TRUE, !.lines = idx.size, !.timesKnown = TRUE,
                  !.noTimestamps = idx.size > 0 /\ FirstMs(idx.file, idx.size) = NoTime,
                  !.first = FirstMs(idx.file, idx.size), !.max = MaxMs(idx.file, idx.size)]

\* The current index of a part, through its pin: the set holds at most one.
storedIndex(part) ==
  {idx \in {store[part.name]} : /\ idx.file = part.file /\ dir[part.name] = part.file
                                /\ idx.size = written[part.file]}

\* A part is described by header too in a journal chain; an empty file has none.
withJournalHeader(part, f) ==
  IF ~journal \/ f.unreadable \/ part.size = 0 THEN f
  ELSE IF part.file \in denied THEN Unreadable ELSE [f EXCEPT !.header = part.file]

stampHolds(stamp, part) ==
  /\ store[part.name].ver = stamp.ver
  /\ stamp.file # 0 => stamp.file = part.file /\ stamp.size = part.size
withSource(ver, indexes) ==
  IF indexes = {} THEN [Absent EXCEPT !.ver = ver]
  ELSE LET idx == CHOOSE x \in indexes : TRUE IN [file |-> idx.file, size |-> idx.size, ver |-> ver]

\* The part's name leads to another file or to none: it cannot be read through its pin.
Changed(part) == dir[part.name] # part.file

\* A frozen part, its index file stamped (ver) before: the outcomes {} (a changed
\* part) or one set of facts.
frozenFacts(part, ver) ==
  LET idx == storedIndex(part)
      stamp == withSource(ver, idx)
  IN IF part.readError THEN {Unreadable}
     ELSE IF part.size = 0 THEN {[Empty EXCEPT !.indexed = idx # {}, !.stamp = stamp]}
     ELSE IF idx # {} THEN {withJournalHeader(part, [factsOfIndex(CHOOSE x \in idx : TRUE) EXCEPT !.stamp = stamp])}
     ELSE IF Changed(part) THEN {}
     ELSE IF part.file \in denied THEN {Unreadable}
     ELSE {withJournalHeader(part, NoFacts)}

activeFacts(part) ==
  LET idx == storedIndex(part)
      n == written[part.file]
      f == [NoFacts EXCEPT !.first = FirstMs(part.file, n), !.timesKnown = TRUE,
                           !.noTimestamps = n > 0 /\ FirstMs(part.file, n) = NoTime]
  IN IF part.readError THEN {Unreadable}
     ELSE IF part.size = 0 THEN {[Empty EXCEPT !.indexed = idx # {}]}
     ELSE IF idx # {} THEN {withJournalHeader(part, factsOfIndex(CHOOSE x \in idx : TRUE))}
     ELSE IF Changed(part) THEN {}
     ELSE IF part.file \in denied THEN {Unreadable}
     ELSE {withJournalHeader(part, f)}

-----------------------------------------------------------------------------
(* The order, the checks and the state of a chain, from the facts of its parts *)
(* in the provisional order.                                                   *)

isEmpty(part, f) == part.size = 0 \/ f.lines = 0
waitsFor(part, f) == ~isEmpty(part, f) /\ (~f.timesKnown \/ (part.name # 0 /\ f.lines = -1))
everyPartKnown(c, facts) == \A i \in DOMAIN c : ~waitsFor(c[i], facts[i])

\* The places in `placed` filled with the same parts sorted; every other part keeps its own.
Reordered(n, placed, Before(_, _)) ==
  LET slots == SelectSeq([i \in 1..n |-> i], LAMBDA i : i \in placed)
      sorted == SortSeq(slots, Before)
  IN [i \in 1..n |-> IF i \notin placed THEN i ELSE sorted[CHOOSE k \in DOMAIN slots : slots[k] = i]]

Timed(c, facts) == {i \in DOMAIN c : ~isEmpty(c[i], facts[i]) /\ facts[i].first # NoTime}
timeOrder(c, facts) ==
  Reordered(Len(c), Timed(c, facts),
            LAMBDA i, j : facts[i].first < facts[j].first \/ (facts[i].first = facts[j].first /\ i < j))

WithEntries(c, facts) == {i \in DOMAIN c : facts[i].header # 0}
FaultyJournalOrder(c, facts) ==
  LET time(i) == Headers[facts[i].header].time
  IN Reordered(Len(c), WithEntries(c, facts), LAMBDA i, j : time(i) < time(j) \/ (time(i) = time(j) /\ i < j))
journalOrder(c, facts) ==
  LET h(i) == Headers[facts[i].header]
      placed == WithEntries(c, facts)
      group(i) == {j \in placed : h(j).counter = h(i).counter}
      lead(i) == CHOOSE j \in group(i) : \A k \in group(i) :
                   h(j).head < h(k).head \/ (h(j).head = h(k).head /\ j <= k)
      rank(i) == <<h(lead(i)).time, lead(i), h(i).head, i>>
      Before(i, j) == LET d == {k \in 1..4 : rank(i)[k] # rank(j)[k]}
                      IN d # {} /\ rank(i)[Min(d)] < rank(j)[Min(d)]
  IN Reordered(Len(c), placed, Before)

partReasons(f) == (IF f.unreadable THEN {"unreadable"} ELSE {})
                  \union (IF f.noTimestamps THEN {"no_timestamps"} ELSE {})
ActiveNotLast(c, placed) ==
  IF \E k \in DOMAIN placed : c[placed[k]].name = 0 /\ k < Len(placed) THEN {"active_not_last"} ELSE {}
Neighbors(placed, Bad(_, _), reason) ==
  IF \E k \in 1..(Len(placed) - 1) : Bad(placed[k], placed[k + 1]) THEN {reason} ELSE {}

orderReasons(c, facts, order) ==
  LET placed == SelectSeq(order, LAMBDA i : i \in Timed(c, facts))
      Overlap(i, j) == facts[i].max # NoTime /\ facts[i].max > facts[j].first + Tolerance
  IN Neighbors(placed, Overlap, "overlap") \union ActiveNotLast(c, placed)
journalOrderReasons(c, facts, order) ==
  LET placed == SelectSeq(order, LAMBDA i : i \in WithEntries(c, facts))
      Shared(i, j) == LET a == Headers[facts[i].header]   b == Headers[facts[j].header]
                      IN a.counter = b.counter /\ a.tail >= b.head
  IN Neighbors(placed, Shared, "entries_overlap") \union ActiveNotLast(c, placed)

fillReady(c, facts, order) ==
  LET lines(k) == IF facts[order[k]].lines = -1 THEN 0 ELSE facts[order[k]].lines
  IN [k \in DOMAIN order |-> 1 + FoldFunction(+, 0, [j \in 1..(k - 1) |-> lines(j)])]

assemble(c, facts) ==
  LET own == UNION {partReasons(facts[i]) : i \in DOMAIN c}
      known == everyPartKnown(c, facts)
      order == IF journal THEN journalOrder(c, facts)
               ELSE IF known \/ own # {} THEN timeOrder(c, facts) ELSE [i \in DOMAIN c |-> i]
      reasons == own \union (IF journal THEN journalOrderReasons(c, facts, order)
                             ELSE IF known THEN orderReasons(c, facts, order) ELSE {})
      state == IF reasons # {} THEN "invalid" ELSE IF ~known THEN "pending" ELSE "ready"
  IN [state |-> state, order |-> order, reasons |-> reasons, cand |-> c, facts |-> facts,
      starts |-> IF state = "ready" THEN fillReady(c, facts, order) ELSE <<>>]

LineCount(d, k) == IF d.facts[d.order[k]].lines = -1 THEN 0 ELSE d.facts[d.order[k]].lines
\* The part that holds a global line and its number in it; <<>> for none.
Locate(d, global) ==
  LET last == Len(d.starts)
      from == {k \in DOMAIN d.starts : d.starts[k] <= global /\ LineCount(d, k) > 0}
      k == Max(from)
  IN IF d.starts = <<>> \/ global < 1 THEN <<>>
     ELSE IF d.cand[d.order[last]].name = 0 /\ global >= d.starts[last]
          THEN <<last, global - d.starts[last] + 1>>
     ELSE IF from = {} THEN <<>>
     ELSE IF global - d.starts[k] + 1 > LineCount(d, k) THEN <<>>
     ELSE <<k, global - d.starts[k] + 1>>

-----------------------------------------------------------------------------
(* Describing a handle. *)

\* A listing: the parts in the provisional order, oldest first, the active last.
NameAt(k) == IF k = Frozen + 1 THEN 0 ELSE IF journal THEN k ELSE Frozen + 1 - k
Taken == {k \in 1..(Frozen + 1) : dir[NameAt(k)] # 0}
PartNamed(n) == [name |-> n, file |-> dir[n], size |-> written[dir[n]],
                 readError |-> dir[n] \in denied /\ written[dir[n]] > 0]
Listing == [i \in 1..Cardinality(Taken) |->
              PartNamed(NameAt(CHOOSE k \in Taken : Cardinality({j \in Taken : j <= k}) = i))]

\* Everything the frozen parts' facts depend on but the index files.
cacheKey(c) == [i \in DOMAIN c |-> [name |-> c[i].name, file |-> c[i].file,
                                    size |-> IF c[i].name = 0 THEN 0 ELSE c[i].size]]
\* The place of a key's entry: it has at most one.
Kept(key) == {k \in DOMAIN cache : cache[k].key = key}
EntryOf(key) == cache[CHOOSE k \in Kept(key) : TRUE]
FaultyEveryFrozenPartListed(c) == TRUE
everyFrozenPartListed(c) == \A i \in DOMAIN c : c[i].name = 0 \/ ~c[i].readError
stampsHold(c, facts) ==
  \A i \in DOMAIN c : c[i].name # 0 => stampHolds(facts[i].stamp, c[i])
cacheable(part, f) == part.size = 0 \/ f.indexed
CacheWithout(key) == IF Kept(key) = {} THEN cache ELSE RemoveAt(cache, CHOOSE k \in Kept(key) : TRUE)
\* A new entry is put in front; those used least recently go past the limit.
CacheWith(key, facts) ==
  LET all == <<[key |-> key, facts |-> facts]>> \o CacheWithout(key)
  IN SubSeq(all, 1, Min({Len(all), CacheEntries}))

Idle == [pc |-> "idle", attempt |-> 0, cand |-> <<>>, facts |-> <<>>, cached |-> FALSE,
         ver |-> 0, changed |-> FALSE, answer |-> None]
At(p, pc) == ds[p].pc = pc
Disk == <<dir, written, journal, denied, store>>

Ask(p) == /\ At(p, "idle") /\ spent.describes < Describes
          /\ spent' = [spent EXCEPT !.describes = @ + 1]
          /\ ds' = [ds EXCEPT ![p] = [Idle EXCEPT !.pc = "resolve"]]
          /\ UNCHANGED <<Disk, cache>>

Resolve(p) == /\ At(p, "resolve")
              /\ ds' = [ds EXCEPT ![p] =
                   IF Len(Listing) < 2 THEN [Idle EXCEPT !.changed = @ \/ ds[p].changed]
                   ELSE [ds[p] EXCEPT !.pc = "get", !.cand = Listing, !.facts = <<>>, !.attempt = @ + 1]]
              /\ UNCHANGED <<Disk, cache, spent>>

\* readFacts: the memory cache, under its lock, then the stamps of what it gave.
Get(p) == LET c == ds[p].cand
              key == cacheKey(c)
          IN /\ At(p, "get")
             /\ IF ~everyFrozenPartListed(c) \/ Kept(key) = {}
                THEN cache' = cache /\ ds' = [ds EXCEPT ![p].pc = "stamp", ![p].cached = FALSE]
                ELSE /\ cache' = <<EntryOf(key)>> \o CacheWithout(key)
                     /\ ds' = [ds EXCEPT ![p].pc = "check", ![p].cached = TRUE, ![p].facts = EntryOf(key).facts]
             /\ UNCHANGED <<Disk, spent>>

CheckStamps(p) == LET c == ds[p].cand IN
  /\ At(p, "check")
  /\ IF stampsHold(c, ds[p].facts)
     THEN /\ ds' = [ds EXCEPT ![p].pc = "active", ![p].facts = SubSeq(@, 1, Cardinality({i \in DOMAIN c : c[i].name # 0}))] /\ cache' = cache
     ELSE /\ ds' = [ds EXCEPT ![p].pc = "stamp", ![p].cached = FALSE, ![p].facts = <<>>]
          /\ cache' = CacheWithout(cacheKey(c))
  /\ UNCHANGED <<Disk, spent>>

PartToRead(p) == ds[p].cand[Len(ds[p].facts) + 1]
FrozenLeft(p) == Len(ds[p].facts) < Len(ds[p].cand) /\ PartToRead(p).name # 0
StampIndexFile(p) ==
  /\ At(p, "stamp")
  /\ ds' = [ds EXCEPT ![p].pc = IF FrozenLeft(p) THEN "frozen" ELSE "active",
                      ![p].ver = IF FrozenLeft(p) THEN store[PartToRead(p).name].ver ELSE @]
  /\ UNCHANGED <<Disk, cache, spent>>

\* What DescribeHandle makes of a read that found the part changed.
PartChanged(p) == [ds[p] EXCEPT !.pc = IF ds[p].attempt < Attempts THEN "resolve" ELSE "idle",
                                !.changed = TRUE]
ReadFrozen(p) ==
  LET read == frozenFacts(PartToRead(p), ds[p].ver) IN
  /\ At(p, "frozen")
  /\ IF read = {} THEN ds' = [ds EXCEPT ![p] = PartChanged(p)]
     ELSE ds' = [ds EXCEPT ![p].pc = "stamp", ![p].facts = Append(@, CHOOSE f \in read : TRUE)]
  /\ UNCHANGED <<Disk, cache, spent>>
\* The active part, when the chain has one, then the cache and the description.
Answered(p, facts) ==
  LET c == ds[p].cand
      keep == \A i \in DOMAIN c : c[i].name # 0 => cacheable(c[i], facts[i])
  IN /\ ds' = [ds EXCEPT ![p] = [@ EXCEPT !.pc = "idle", !.facts = <<>>, !.answer = assemble(c, facts)]]
     /\ cache' = IF ~ds[p].cached /\ keep THEN CacheWith(cacheKey(c), facts) ELSE cache
ReadActive(p) ==
  LET left == Len(ds[p].facts) < Len(ds[p].cand)
      read == activeFacts(PartToRead(p))
  IN /\ At(p, "active")
     /\ IF ~left THEN Answered(p, ds[p].facts)
        ELSE IF read = {} THEN ds' = [ds EXCEPT ![p] = PartChanged(p)] /\ cache' = cache
        ELSE Answered(p, Append(ds[p].facts, CHOOSE f \in read : TRUE))
     /\ UNCHANGED <<Disk, spent>>

-----------------------------------------------------------------------------
(* The disk, outside the program: the log rotates and grows, indexes are built *)
(* and removed, opens fail for a while.  A file a rotation creates is new: its *)
(* identity is that of no file before it.                                      *)

Rotate == /\ spent.rotations < Len(Created) /\ dir[0] # 0
          /\ LET f == Created[spent.rotations + 1]
                 n == Min({k \in 1..Frozen : dir[k] = 0} \union {Frozen})
             IN dir' = IF journal THEN [dir EXCEPT ![n] = dir[0], ![0] = f]
                       ELSE [k \in Names |-> IF k = 0 THEN f ELSE dir[k - 1]]
          /\ spent' = [spent EXCEPT !.rotations = @ + 1]
          /\ UNCHANGED <<written, journal, denied, store, cache, ds>>
\* The writer appends to the file it has open: the active one, or the one just rotated.
Write == /\ \E n \in {0, 1} : /\ dir[n] # 0 /\ written[dir[n]] < Len(Stamps[dir[n]])
                              /\ written' = [written EXCEPT ![dir[n]] = @ + 1]
         /\ UNCHANGED <<dir, journal, denied, store, cache, ds, spent>>
Build(n) == /\ spent.builds < Rebuilds /\ dir[n] # 0 /\ dir[n] \notin denied
            /\ store' = [store EXCEPT ![n] = [file |-> dir[n], size |-> written[dir[n]],
                                               ver |-> spent.builds + 2]]
            /\ spent' = [spent EXCEPT !.builds = @ + 1]
            /\ UNCHANGED <<dir, written, journal, denied, cache, ds>>
RemoveIndex(n) == /\ spent.removals < Removals /\ store[n].ver # 0
             /\ store' = [store EXCEPT ![n] = Absent]
             /\ spent' = [spent EXCEPT !.removals = @ + 1]
             /\ UNCHANGED <<dir, written, journal, denied, cache, ds>>
Deny(f) == /\ denied = {} /\ spent.denials < Denials
           /\ denied' = {f} /\ spent' = [spent EXCEPT !.denials = @ + 1]
           /\ UNCHANGED <<dir, written, journal, store, cache, ds>>
Allow == denied # {} /\ denied' = {} /\ UNCHANGED <<dir, written, journal, store, cache, ds, spent>>

DescribeInit ==
        /\ \E c \in Described : dir = c.dir /\ written = c.written /\ journal = c.journal /\ store = c.store
        /\ denied = {} /\ cache = <<>>
        /\ ds = [p \in Procs |-> Idle]
        /\ spent = [describes |-> 0, rotations |-> 0, builds |-> 0, removals |-> 0, denials |-> 0]
DescribeNext ==
        \/ \E p \in Procs : \/ Ask(p) \/ Resolve(p) \/ Get(p) \/ CheckStamps(p)
                            \/ StampIndexFile(p) \/ ReadFrozen(p) \/ ReadActive(p)
        \/ Rotate \/ Write \/ Allow
        \/ \E n \in Names : Build(n) \/ RemoveIndex(n)
        \/ \E f \in FileIds : Deny(f)
DescribeSpec == DescribeInit /\ [][DescribeNext]_describeVars

-----------------------------------------------------------------------------
\* A hit of the description cache gives the facts a read of the same listing gives
\* now (cache.go:36): an entry of the chain as it is, whose stamps hold, holds for each
\* frozen part what its index says.  One case is left out: an index stored between the
\* stamp (absent) and the read and removed later leaves the stamp as it was, so only
\* that its facts are those of the text is asked of it.
HitsAreWhatAReadGives ==
  LET c == Listing
      Facts(f) == <<f.lines, f.first, f.max, f.noTimestamps>>
      ReadAs(i, f) ==
        IF f.stamp.ver = 0 /\ f.stamp.file # 0
        THEN Facts(f) = Facts(factsOfIndex([file |-> c[i].file, size |-> c[i].size]))
        ELSE frozenFacts(c[i], store[c[i].name].ver) = {f}
  IN \A k \in Kept(cacheKey(c)) :
       everyFrozenPartListed(c) /\ stampsHold(c, cache[k].facts) =>
         \A i \in DOMAIN c : c[i].name # 0 => ReadAs(i, cache[k].facts[i])

Answers == {d \in {ds[p].answer : p \in Procs} : d # None}
\* The lines of the chain read as one, in its order: [part, line].
LinesOf(d) == FlattenSeq([k \in DOMAIN d.order |-> [l \in 1..LineCount(d, k) |-> <<k, l>>]])

\* Each part was read whole, as it was when the listing found it or later.
ReadWhole(d) ==
  \A i \in DOMAIN d.cand : /\ ~d.cand[i].readError
                          /\ d.facts[i].lines <= written[d.cand[i].file]
                          /\ d.cand[i].name # 0 => d.facts[i].lines >= d.cand[i].size
ReadyPartsAreReadWhole == \A d \in {x \in Answers : x.state = "ready"} : ReadWhole(d)

\* Between the lines of two parts of a ready chain, however many empty ones stand between
\* them: no time of the earlier is past the first of the later by more than the tolerance.
TimesRunOn(d) ==
  LET file(k) == d.cand[d.order[k]].file
      timed == {k \in DOMAIN d.order : d.facts[d.order[k]].first # NoTime}
      filled == {k \in DOMAIN d.order : LineCount(d, k) > 0}
  IN /\ filled \subseteq timed
     /\ \A k \in filled, m \in timed : k < m =>
          \A l \in 1..LineCount(d, k) :
            Stamps[file(k)][l] <= FirstMs(file(m), written[file(m)]) + Tolerance

\* Between the entries of two parts of a ready journal chain: those of one counter stand
\* together, in its order and none in both, and the counters in the order of the times at
\* which their first parts begin.
EntriesRunOn(d) ==
  LET h(k) == Headers[d.cand[d.order[k]].file]
      placed == {k \in DOMAIN d.order : d.cand[d.order[k]].size > 0}
      first(k) == Min({m \in placed : h(m).counter = h(k).counter})
  IN \A k, m \in placed : k < m =>
       /\ h(k).counter = h(m).counter => h(k).tail < h(m).head
       /\ first(k) <= first(m)
       /\ h(first(k)).time <= h(first(m)).time

\* A ready chain is one text (checks.go:71-96, :150, :172): each of its parts was read
\* whole from the file the listing found, its parts are in the order of time up to the
\* tolerance (of the counters of its entries, in a journal chain) whichever lie between
\* them, the active one last, and a global number names each line of each frozen part once.
ReadyChainsAreOneText ==
  \A d \in {x \in Answers : x.state = "ready"} :
    LET lines == LinesOf(d)
        part(k) == d.cand[d.order[k]]
        frozen == {i \in DOMAIN lines : part(lines[i][1]).name # 0}
    IN /\ ReadWhole(d)
       /\ \A i \in frozen : Locate(d, i) = lines[i]
       /\ Locate(d, 0) = <<>>
       /\ IF journal THEN EntriesRunOn(d) ELSE TimesRunOn(d)
       /\ part(Len(d.order)).name = 0 \/ \A k \in DOMAIN d.order : part(k).name # 0
=============================================================================

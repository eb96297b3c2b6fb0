----------------------------- MODULE ChainSearch -----------------------------
(***************************************************************************)
(* The paths of one search of log chains turned into the files it reads    *)
(* (internal/logchain/search.go): directories, chain handles and files, in *)
(* any order and under any spelling.                                        *)
(*                                                                          *)
(* A world is the disk while the search runs.  world.dirs maps a spelling   *)
(* of a directory to [canon, id]: its spelling with every link resolved and *)
(* the device and inode of its stat ("": the file system numbers nothing);  *)
(* two canonical spellings of one id are one directory (a bind mount).      *)
(* world.files maps a canonical directory to its listing; an entry is one   *)
(* of ChainNames with to, the place with every link resolved, and ino, what *)
(* the stat records of the file (hard links share it).  world.walks maps a  *)
(* directory to the directories its walk lists.                             *)
(*                                                                          *)
(* A request's path is [dir, name]: a spelled directory and a name in it,   *)
(* or <<>> for the directory itself.                                        *)
(***************************************************************************)
EXTENDS ChainNames

CONSTANTS Worlds, \* the disks searched
          Asked   \* the requests: a set of [world, paths]

VARIABLES world, todo, r, done
vars == <<world, todo, r, done>>

NoEntry == <<>>
Nothing == 0
Put(f, k, v) == (k :> v) @@ f
Get(f, k, none) == IF k \in DOMAIN f THEN f[k] ELSE none

Listing(sp) == world.files[world.dirs[sp].canon]
\* An entry of a directory pinned under a spelling of that directory.
Pinned(sp, e) == [path |-> <<sp, e.name>>, key |-> e.to, ino |-> e.ino, kind |-> textCheck(e)]
DirectoryIdentity(sp) == world.dirs[sp].id
entryIdentity(sp, e) ==
  IF DirectoryIdentity(sp) = "" \/ e.ino = 0 THEN NoEntry ELSE <<DirectoryIdentity(sp), e.name, e.ino>>

-----------------------------------------------------------------------------
(* The resolver, and the files it adds. *)

newSearchResolver ==
  [files |-> <<>>, skipped |-> <<>>,  \* the plan: the slots, and the paths named as left out
   chains |-> <<>>,                   \* [name, slots, partKeys]
   partOf |-> <<>>,                   \* slot -> the chain it is a part of
   chainKeys |-> <<>>,                \* chain key -> its chain, Nothing for none
   planned |-> <<>>,                  \* file key -> its slot, Nothing when skipped
   ownAt |-> <<>>, ownPaths |-> <<>>, \* entry -> keys, key -> [path, entry]s of files of their own
   others |-> <<>>,                   \* the other encodings: [key, entry, at]
   withdrawn |-> {}, unnamed |-> {}, named |-> {},
   refused |-> NoEntry]               \* the path the whole search is refused for

skip(s, path, reason) == [s EXCEPT !.skipped = Append(@, [path |-> path, reason |-> reason])]

planFile(s, src) ==
  IF src.kind # "text" THEN [skip(s, src.path, <<src.kind>>) EXCEPT !.planned = Put(@, src.key, Nothing)]
  ELSE [s EXCEPT !.files = Append(@, src), !.planned = Put(@, src.key, Len(s.files) + 1)]
addFile(s, src) == IF src.key \in DOMAIN s.planned THEN s ELSE planFile(s, src)

addOwnFile(s, src, entry) ==
  LET isNew == src.key \notin DOMAIN s.planned /\ entry # NoEntry
      listed == IF ~isNew THEN s
                ELSE [s EXCEPT !.ownAt = Put(@, entry, Append(Get(@, entry, <<>>), src.key))]
      from == [path |-> src.path, entry |-> entry]
  IN addFile([listed EXCEPT !.ownPaths = Put(@, src.key, Append(Get(@, src.key, <<>>), from))], src)

-----------------------------------------------------------------------------
(* A chain. *)

\* The key is the handle alone.
FaultyChainKey(sp, c) == <<sp, c.name>>
chainKey(sp, c) == IF DirectoryIdentity(sp) # "" THEN <<DirectoryIdentity(sp), c.name>> ELSE <<sp, c.name>>

\* The encoding is written down as skipped where it is met.
FaultySkipOtherEncodings(s, sp, part) ==
  FoldLeft(LAMBDA t, e :
             LET named == skip(t, <<sp, e.name>>, <<"duplicate_part", part.file.name>>)
             IN [named EXCEPT !.others = Append(@, [key |-> e.to, entry |-> entryIdentity(sp, e),
                                                    at |-> Len(named.skipped)]),
                              !.planned = IF e.to \in DOMAIN @ THEN @ ELSE Put(@, e.to, Nothing)],
           s, part.duplicates)
skipOtherEncodings(s, sp, part) ==
  FoldLeft(LAMBDA t, e :
             LET named == skip(t, <<sp, e.name>>, <<"duplicate_part", part.file.name>>)
             IN [named EXCEPT !.others = Append(@, [key |-> e.to, entry |-> entryIdentity(sp, e),
                                                    at |-> Len(named.skipped)])],
           s, part.duplicates)

\* A chain in a directory without identity, every part of which is placed already.
chainReachedAgain(s, sp, c) ==
  /\ DirectoryIdentity(sp) = "" /\ c.parts # <<>>
  /\ \A p \in Range(c.parts) : /\ p.file.to \in DOMAIN s.planned
                               /\ s.planned[p.file.to] # Nothing => s.planned[p.file.to] \in DOMAIN s.partOf
holderAgain(s, c) ==
  LET held == SelectSeq(c.parts, LAMBDA p : s.planned[p.file.to] # Nothing)
  IN IF held = <<>> THEN Nothing ELSE s.partOf[s.planned[held[1].file.to]]

\* A part that is one entry, holding one file, with a part of the chain that
\* holds the key, is that part.
planAsPartOf(s, holder, sp, e) ==
  LET entry == entryIdentity(sp, e)
      partKey == s.chains[holder].partKeys[entry]
  IN IF holder = Nothing \/ entry = NoEntry \/ entry \notin DOMAIN s.chains[holder].partKeys
     THEN addOwnFile(s, Pinned(sp, e), entry)
     ELSE IF e.to \in DOMAIN s.planned THEN s
          ELSE [s EXCEPT !.planned = Put(@, e.to, @[partKey])]

addPartsAsFiles(s, holder, sp, c) ==
  IF c.tooMany THEN s
  ELSE FoldLeft(LAMBDA t, p : skipOtherEncodings(planAsPartOf(t, holder, sp, p.file), sp, p), s, c.parts)

addPart(s, sp, part) ==
  LET chain == Len(s.chains)
      added == addFile(s, Pinned(sp, part.file))
      slot == added.planned[part.file.to]
      entry == entryIdentity(sp, part.file)
      claimed == IF slot = Nothing \/ slot \in DOMAIN added.partOf THEN added
                 ELSE [added EXCEPT !.partOf = Put(@, slot, chain),
                                    !.chains[chain].slots = Append(@, slot)]
      known == IF entry = NoEntry THEN claimed
               ELSE [claimed EXCEPT !.chains[chain].partKeys = Put(@, entry, part.file.to)]
  IN skipOtherEncodings(known, sp, part)

addChain(s, sp, c) ==
  LET key == chainKey(sp, c) IN
  IF key \in DOMAIN s.chainKeys THEN addPartsAsFiles(s, s.chainKeys[key], sp, c)
  ELSE IF chainReachedAgain(s, sp, c) THEN [s EXCEPT !.chainKeys = Put(@, key, holderAgain(s, c))]
  ELSE LET found == [s EXCEPT !.chainKeys = Put(@, key, Len(s.chains) + 1),
                              !.chains = Append(@, [name |-> c.name, slots |-> <<>>, partKeys |-> <<>>])]
       IN IF c.tooMany THEN found
          ELSE FoldLeft(LAMBDA t, p : addPart(t, sp, p), found, c.parts)

-----------------------------------------------------------------------------
(* A path of the request. *)

AddAsOwn(s, sp, e) == addOwnFile(s, Pinned(sp, e), entryIdentity(sp, e))

\* A file of a walk, with the chains it belongs to: a chain takes the place of the
\* first of them.
ChainFiles(c) == UNION {{p.file} \union Range(p.duplicates) : p \in Range(c.parts)}
Visit(s, d, e, owners) ==
  LET owner == CHOOSE c \in owners : TRUE
      met == IF e.place = Min({o.place : o \in ChainFiles(owner)}) THEN addChain(s, d, owner) ELSE s
  IN IF owners = {} THEN AddAsOwn(s, d, e)
     ELSE IF owner.tooMany THEN AddAsOwn(met, d, e) ELSE met
VisitListing(s, d, listing, chains) ==
  FoldLeft(LAMBDA t, e : Visit(t, d, e, {c \in chains : e \in ChainFiles(c)}), s, listing)
addDirectory(s, sp) ==
  FoldLeft(LAMBDA t, d : VisitListing(t, d, Listing(d), Group(Listing(d))), s, world.walks[sp])

AddEachFile(s, sp, name) ==
  FoldLeft(LAMBDA t, e : AddAsOwn(t, sp, e), s, SelectSeq(chainEntries(Listing(sp), name), isCandidateFile))
addHandle(s, sp, c) ==
  IF c.tooMany THEN AddEachFile(addChain(s, sp, c), sp, c.name) ELSE addChain(s, sp, c)

\* A name that is no chain's and no file's, or a file's that cannot be opened.
CannotBeSearched(named) == named = <<>> \/ named[1].kind = "unreadable"
addNamedFile(s, sp, name, named) ==
  IF CannotBeSearched(named) THEN [s EXCEPT !.refused = <<sp, name>>] ELSE AddAsOwn(s, sp, named[1])
AddNamed(s, sp, name, chains) ==
  IF chains # {} THEN addHandle(s, sp, CHOOSE c \in chains : TRUE)
  ELSE addNamedFile(s, sp, name, SelectSeq(Listing(sp), LAMBDA e : e.name = name))
addPath(s, p) ==
  IF p.name = <<>> THEN addDirectory(s, p.dir)
  ELSE AddNamed(s, p.dir, p.name, chainNamed(Listing(p.dir), p.name))

-----------------------------------------------------------------------------
(* Once every path is resolved: what becomes of the other encodings. *)

GroupId(o) == IF o.entry # NoEntry THEN o.entry ELSE o.key
\* The encodings of one group, in the order met, and the keys that are that file.
GroupOf(s, id) == SelectSeq(s.others, LAMBDA o : GroupId(o) = id)
GroupKeys(s, id) == {o.key : o \in Range(GroupOf(s, id))} \union Range(Get(s.ownAt, id, <<>>))

\* The paths of the withdrawn keys that are no encoding themselves, each once.
nameWithdrawnPaths(s, keys, reason) ==
  LET entries == {o.entry : o \in Range(s.others)} \ {NoEntry}
      encodingPaths == {s.skipped[o.at].path : o \in Range(s.others)}
      Name(t, own) == IF own.entry \in entries \/ own.path \in encodingPaths \union t.named THEN t
                      ELSE [skip(t, own.path, reason) EXCEPT !.named = @ \union {own.path}]
  IN FoldLeft(Name, s, FlattenSeq([i \in 1..Cardinality(keys) |-> Get(s.ownPaths, SetToSeq(keys)[i], <<>>)]))

settleEncodingGroup(s, id) ==
  LET met == GroupOf(s, id)
      seen == GroupKeys(s, id) \intersect DOMAIN s.planned
      skippedAlready == {k \in seen : s.planned[k] = Nothing}
      searched == {k \in seen : s.planned[k] \in DOMAIN s.partOf}
      back == seen \ (skippedAlready \union searched)
      gone == {o.at : o \in Range(IF searched \union skippedAlready = {} THEN Tail(met) ELSE met)}
  IN nameWithdrawnPaths([s EXCEPT !.withdrawn = @ \union {s.planned[k] : k \in back},
                                  !.unnamed = @ \union gone],
                        back, s.skipped[met[1].at].reason)

settleOtherEncodings(s) ==
  LET firsts == SelectSeq(s.others, LAMBDA o : \A q \in Range(s.others) : GroupId(q) = GroupId(o) => q.at >= o.at)
  IN FoldLeft(LAMBDA t, o : settleEncodingGroup(t, GroupId(o)), s, firsts)

\* The answer: the files searched, the paths named as left out, the chains' parts.
finish(s0) ==
  LET s == settleOtherEncodings(s0)
  IN [searched |-> {s.files[i] : i \in DOMAIN s.files \ s.withdrawn},
      slots |-> Cardinality(DOMAIN s.files \ s.withdrawn),
      skipped |-> SelectSeq([i \in DOMAIN s.skipped |-> [at |-> i] @@ s.skipped[i]],
                            LAMBDA k : k.at \notin s.unnamed),
      parts |-> [i \in DOMAIN s.chains |-> {s.files[k] : k \in Range(s.chains[i].slots) \ s.withdrawn}],
      lost |-> {k \in DOMAIN s.partOf : k \in s.withdrawn}]

-----------------------------------------------------------------------------
(* One search: a path per step, to the end or to the first path refused. *)

Init == /\ \E a \in Asked : world = a.world /\ todo = a.paths
        /\ r = newSearchResolver
        /\ done = <<>>

Resolve == /\ todo # <<>> /\ r.refused = NoEntry
           /\ r' = addPath(r, Head(todo))
           /\ done' = Append(done, Head(todo))
           /\ todo' = Tail(todo)
           /\ UNCHANGED world
Next == Resolve
Spec == Init /\ [][Next]_vars

-----------------------------------------------------------------------------
(* What the search promises. *)

\* The file a pin reads, whatever spelled its path: its directory's identity.
RealKey(key) == LET d == world.dirs[key[1]].id IN <<IF d = "" THEN key[1] ELSE d, key[2]>>
RealFiles(pins) == {RealKey(f.key) : f \in pins}
At(path) == SelectSeq(Listing(path[1]), LAMBDA o : o.name = path[2])[1]
RealPath(path) == RealKey(At(path).to)
\* Two paths the search takes for one: they lead to one path, or are one entry.
SamePath(p, q) == \/ At(p).to = At(q).to
                  \/ entryIdentity(p[1], At(p)) = entryIdentity(q[1], At(q)) /\ entryIdentity(p[1], At(p)) # NoEntry

Answered == todo = <<>> /\ r.refused = NoEntry

\* What a whole request makes of the paths, and what its answer tells.
resolve(paths) ==
  FoldLeft(LAMBDA s, p : IF s.refused # NoEntry THEN s ELSE addPath(s, p), newSearchResolver, paths)
Outcome(s) ==
  IF s.refused # NoEntry THEN <<>>
  ELSE LET a == finish(s) IN <<RealFiles(a.searched), {RealPath(k.path) : k \in Range(a.skipped)}>>
Slots(s) ==
  LET a == finish(s) IN [k \in RealFiles(a.searched) |-> Cardinality({f \in a.searched : RealKey(f.key) = k})]

\* A file is named on its own through one mount of a directory, and the directory,
\* its chain or a file of it through another.  Files of their own are known by path,
\* so there the search reads twice what it met on its own before its chain.
AcrossMounts(paths) ==
  \E p, q \in Range(paths) :
    /\ p.name # <<>> /\ chainNamed(Listing(p.dir), p.name) = {}
    /\ DirectoryIdentity(p.dir) # "" /\ DirectoryIdentity(p.dir) = DirectoryIdentity(q.dir)
    /\ world.dirs[p.dir].canon # world.dirs[q.dir].canon

\* Whatever order the same paths come in, the search is refused or the same files
\* are searched and the same files are named as left out; and each as often, unless
\* a file is named across mounts (search.go:134, which makes no exception).
AnyOrderGivesTheSameAnswer ==
  todo = <<>> \/ r.refused # NoEntry =>
    LET paths == done \o todo IN
    \A i \in 1..(Len(paths) - 1) :
      LET swapped == resolve([paths EXCEPT ![i] = paths[i + 1], ![i + 1] = paths[i]])
      IN /\ Outcome(swapped) = Outcome(r)
         /\ ~AcrossMounts(paths) /\ r.refused = NoEntry => Slots(swapped) = Slots(r)

\* The places a path of the request reaches.
Reached(p) == IF p.name = <<>> THEN UNION {{<<d, e>> : e \in Range(Listing(d))} : d \in Range(world.walks[p.dir])}
              ELSE {<<p.dir, e>> : e \in {o \in Range(Listing(p.dir)) : o.name = p.name}}
                   \union UNION {UNION {{<<p.dir, q.file>>} \union {<<p.dir, o>> : o \in Range(q.duplicates)} :
                                        q \in Range(c.parts)} : c \in chainNamed(Listing(p.dir), p.name)}
\* The generations of reached chains a real file holds, each as its part's real file.
SameLines(key) ==
  UNION {UNION {{RealKey(q.file.to) : q \in {x \in Range(c.parts) : \E o \in Range(x.duplicates) : RealKey(o.to) = key}} :
                c \in Group(Listing(d))} : d \in DOMAIN world.dirs}

\* No line is lost: each text file a path reaches is searched, or is another
\* encoding of a part that is; and each file left out is named, and is not
\* searched under another spelling (search.go:103).
NoLineIsLost ==
  Answered =>
    LET a == finish(r)
        searched == RealFiles(a.searched)
        named == {RealPath(k.path) : k \in Range(a.skipped)}
    IN /\ a.lost = {}
       /\ \A p \in Range(done) : \A f \in Reached(p) :
            LET key == RealKey(f[2].to) IN
            /\ textCheck(f[2]) = "text" => key \in searched \/ SameLines(key) \intersect searched # {}
            /\ key \in searched \/ key \in named
       /\ ~\E f \in a.searched, k \in Range(a.skipped) : SamePath(f.path, k.path)

\* A file is searched in one slot and a part in one chain, under whatever
\* spellings they are reached, and each path left out is named once.  Only what is
\* met on its own through one mount of its directory is searched again through
\* another (search.go:103, which makes no exception).
NothingComesTwice ==
  Answered =>
    LET a == finish(r)
        parts == UNION Range(a.parts)
        Same(f, g) == f # g /\ RealKey(f.key) = RealKey(g.key)
    IN /\ Cardinality({f.key : f \in a.searched}) = a.slots
       /\ \A f, g \in a.searched : Same(f, g) =>
            /\ f.key[1] # g.key[1] /\ {f.key, g.key} \intersect DOMAIN r.ownPaths # {}
            /\ {f, g} \intersect parts = {} \/ AcrossMounts(done)
       /\ \A f, g \in parts : ~Same(f, g)
       /\ \A i, j \in DOMAIN a.parts : i # j => a.parts[i] \intersect a.parts[j] = {}
       /\ \A j, k \in Range(a.skipped) : j.path = k.path => j = k

=============================================================================

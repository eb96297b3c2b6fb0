--------------------------- MODULE MCChainParts ---------------------------
(***************************************************************************)
(* The log chains of internal/logchain, their index tasks and the index    *)
(* builds of rx serve on small instances, in one run: how a listing is     *)
(* grouped, what a search of several paths reads, how a chain is described *)
(* while its files rotate, the tasks that index chains, and the builds     *)
(* they take part in.  They share no state: part says which of them runs,  *)
(* the others stay as they start.                                          *)
(***************************************************************************)
EXTENDS IndexBuilds, ChainDescription

CONSTANTS
    Part,                               \* the parts checked
    t1, t2, t3, c1, c2, f1, f2,     \* tasks, chains and files of the index tasks
    l1, o1, f3,                         \* of the builds: a lookup, another task, a file
    NoFiles

VARIABLES
    part,
    present,                            \* of the listing
    world, todo, resolver, done,        \* of the search
    tOutcome, tHolds, gone, records, unfinished, run, looking, now

searchVars == <<world, todo, resolver, done>>
tasksVars == <<tOutcome, tHolds, gone, records, unfinished, run, looking, now>>

-----------------------------------------------------------------------------
(* The entries a directory can hold. *)

Word(w) == [sep |-> "", kind |-> "word", val |-> w]
Log == [sep |-> ".", kind |-> "ext", val |-> "log"]
Jnl == [sep |-> ".", kind |-> "ext", val |-> "journal"]
Num(sep, n) == [sep |-> sep, kind |-> "number", val |-> n]
Date(sep, n) == [sep |-> sep, kind |-> "date", val |-> n]
Gz == [sep |-> ".", kind |-> "comp", val |-> "gz"]
Id(t) == [sep |-> "@", kind |-> "archive", val |-> t]

F(name, place, size, kind, format, mtime) ==
  [name |-> name, place |-> place, size |-> size, kind |-> kind, format |-> format, mtime |-> mtime]
App == <<Word("app"), Log>>
\* app.log, its numbered, dated and numbered-before-the-extension parts.
AppEntries == <<F(App, 1, 1, "text", 0, 9), F(App, 1, 1, "binary", 0, 9),
         F(App \o <<Num(".", 1)>>, 2, 1, "text", 0, 7), F(App \o <<Num(".", 1)>>, 2, 1, "unreadable", 0, 7),
         F(App \o <<Num(".", 1), Gz>>, 3, 1, "text", 3, 7),
         F(App \o <<Num(".", 3)>>, 4, 1, "text", 0, 3), F(App \o <<Num(".", 2), Gz>>, 5, 0, "binary", 3, 5),
         F(App \o <<Date("-", 40), Num("-", 2)>>, 6, 1, "text", 0, 4),
         F(<<Word("app"), Date("-", 41), Num(".", 3), Log>>, 7, 1, "text", 0, 6),
         F(<<Word("app"), Num("-", 2), Log>>, 8, 1, "text", 0, 2)>>
\* Journals: a user's journal has the shape of a numbered part of user.journal.
JournalEntries == <<F(<<Word("user"), Num("-", 5), Jnl>>, 10, 1, "text", 6, 8), F(<<Word("user"), Jnl>>, 11, 1, "text", 6, 9),
             F(<<Word("user"), Num("-", 5), Id(20)>>, 12, 1, "binary", 6, 3)>>
SomeEntries == AppEntries \o JournalEntries

Grouping == INSTANCE ChainListing WITH
    Universe <- SomeEntries, MaxParts <- 4, MaxMissingNames <- 1, FirstYear <- 1970, LastYear <- 2100

-----------------------------------------------------------------------------
(* The disks searched, and the paths asked for. *)

Xs == <<Word("x"), Log>>
Rot(name, n) == Append(name, Num(".", n))
Zipped(name) == Append(name, Gz)

SearchFile(name, place, ino, kind, format, to) ==
  [name |-> name, place |-> place, size |-> 1, mtime |-> 9 - place, kind |-> kind, format |-> format,
   to |-> to, ino |-> ino]
Text(d, name, place, ino) == SearchFile(name, place, ino, "text", IF Last(name) = Gz THEN 3 ELSE 0, <<d, name>>)
Broken(d, name, place, ino) == SearchFile(name, place, ino, "unreadable", 0, <<d, name>>)

\* Two mounts and a link of one directory, and a second directory with links and a hard link into it.
AppDir(d) == <<Text(d, App, 1, 1), Text(d, Rot(App, 1), 2, 2), Text(d, Zipped(Rot(App, 1)), 3, 3)>>
Other(ino) == <<Text("c", Xs, 1, 5 * ino), SearchFile(Rot(Xs, 1), 2, 3 * ino, "text", 3, <<"a", Zipped(Rot(App, 1))>>),
           Text("c", <<Word("y")>>, 3, 3 * ino), SearchFile(<<Word("z")>>, 4, 3 * ino, "text", 3, <<"a", Zipped(Rot(App, 1))>>)>>
Dirs(id1, id2) == [a |-> [canon |-> "a", id |-> id1], b |-> [canon |-> "b", id |-> id1],
                   l |-> [canon |-> "a", id |-> id1], c |-> [canon |-> "c", id |-> id2]]
Walks == [a |-> <<"a">>, b |-> <<"b">>, l |-> <<"l">>, c |-> <<"c">>]
Mounted == [dirs |-> Dirs("D1", "D2"), walks |-> Walks,
            files |-> [a |-> AppDir("a"), b |-> AppDir("b"), c |-> Other(1)]]
\* The same without any inode.
Unnumbered == [dirs |-> Dirs("", ""), walks |-> Walks,
               files |-> [d \in {"a", "b", "c"} |->
                            [i \in DOMAIN Mounted.files[d] |-> [Mounted.files[d][i] EXCEPT !.ino = 0]]]]
\* A chain that is too large, and files that cannot be read.
Large(d) == <<Text(d, App, 1, 1), Text(d, Rot(App, 1), 2, 2), Text(d, Zipped(Rot(App, 1)), 3, 3),
              Text(d, Rot(App, 2), 4, 4), Text(d, Rot(App, 3), 5, 5)>>
Torn == <<Text("c", Xs, 1, 6), Broken("c", Rot(Xs, 1), 2, 7), Broken("c", Zipped(Rot(Xs, 1)), 3, 8),
          Broken("c", Rot(Xs, 2), 4, 9), Text("c", Zipped(Rot(Xs, 2)), 5, 10)>>
Crowded == [dirs |-> Dirs("D1", "D2"), walks |-> Walks,
            files |-> [a |-> Large("a"), b |-> Large("b"), c |-> Torn]]

Dir(d) == [dir |-> d, name |-> <<>>]
In(d, name) == [dir |-> d, name |-> name]
PathsOf(w) ==
  IF w = Crowded
  THEN {Dir("a"), Dir("c"), In("a", App), In("b", App), In("l", Rot(App, 1)), In("a", Zipped(Rot(App, 1))),
        In("c", Xs), In("c", Rot(Xs, 1)), In("c", Zipped(Rot(Xs, 1))), In("c", Rot(Xs, 2)),
        In("c", Rot(Xs, 3))}    \* the last is on no disk
  ELSE {Dir("a"), Dir("l"), Dir("c"), In("a", App), In("a", Zipped(Rot(App, 1))), In("l", Rot(App, 1)),
        In("c", Xs), In("c", Rot(Xs, 1)), In("c", <<Word("y")>>), In("c", <<Word("z")>>)}
MountedPaths == {Dir("a"), Dir("b"), Dir("l"), In("a", App), In("b", App), In("a", Zipped(Rot(App, 1))),
                 In("b", Zipped(Rot(App, 1))), In("l", Rot(App, 1)), In("b", Rot(App, 1))}
Orders(w, ps) == {[world |-> w, paths |-> q] : q \in {s \in UNION {[1..n -> ps] : n \in 1..3} :
                     \A i, j \in DOMAIN s : i # j => s[i] # s[j]}}
SomeWorlds == {Mounted, Unnumbered, Crowded}
SomeAsked == UNION {Orders(w, PathsOf(w)) : w \in SomeWorlds} \union Orders(Mounted, MountedPaths)

Search == INSTANCE ChainSearch WITH
    Worlds <- SomeWorlds, Asked <- SomeAsked,
    MaxParts <- 3, MaxMissingNames <- 2, FirstYear <- 1970, LastYear <- 2100, r <- resolver

-----------------------------------------------------------------------------
(* Small chains to describe: a log of two rotated parts and an active file, *)
(* with an overlap beyond the tolerance, an empty part, a part without      *)
(* timestamps, and archives of journals of several counters.                *)

\* File 1 is written when the describe begins, 4 is what a rotation creates, 8 is empty as yet.
SomeFiles == 1 .. 8
SomeStamps == <<<<30, 40>>, <<20, 30>>, <<10, 25>>, <<50>>, <<0>>, <<12, 38>>, <<10>>, <<28>>>>
SomeHeaders == <<[counter |-> 1, head |-> 5, tail |-> 6, time |-> 30],
               [counter |-> 1, head |-> 3, tail |-> 4, time |-> 20],
               [counter |-> 2, head |-> 1, tail |-> 2, time |-> 10],
               [counter |-> 1, head |-> 7, tail |-> 7, time |-> 50],
               [counter |-> 1, head |-> 9, tail |-> 9, time |-> 60],
               [counter |-> 1, head |-> 4, tail |-> 4, time |-> 22],
               [counter |-> 3, head |-> 1, tail |-> 2, time |-> 25],
               [counter |-> 0, head |-> 0, tail |-> 0, time |-> 0]>>
Placed(a, b, c) == [n \in 0 .. 2 |-> CASE n = 0 -> a [] n = 1 -> b [] n = 2 -> c]
WrittenWhole == [f \in SomeFiles |-> IF f = 1 THEN 1 ELSE IF f \in {4, 8} THEN 0 ELSE Len(SomeStamps[f])]
Unindexed == [file |-> 0, size |-> 0, ver |-> 0]
Indexed(d, names) == [n \in 0 .. 2 |-> IF n \in names THEN [file |-> d[n], size |-> WrittenWhole[d[n]], ver |-> 1] ELSE Unindexed]
Chain(d, isJournal, names) == [dir |-> d, written |-> WrittenWhole, journal |-> isJournal, store |-> Indexed(d, names)]
SomeChains ==
  {Chain(Placed(1, 7, 2), FALSE, {1, 2}),         \* the older name has the newer lines
   Chain(Placed(1, 5, 3), FALSE, {2}),            \* a part without timestamps
   Chain(Placed(1, 8, 3), FALSE, {2}),            \* an empty part, still written
   Chain(Placed(1, 8, 6), FALSE, {2}),            \* an overlap around an empty part
   Chain(Placed(1, 2, 6), TRUE, {1, 2}),          \* archives that share entries
   Chain(Placed(1, 7, 3), TRUE, {1, 2}),          \* the older name has the newer counter
   Chain(Placed(1, 2, 7), TRUE, {1, 2})}          \* a counter that begins amid another

NewFiles == <<4>>

\* A bound of this instance: what happens to a chain while it is described, in all.
FewDisturbances ==
  spent.rotations + spent.builds + spent.removals + spent.denials <= IF journal THEN 2 ELSE 3
\* Another: the files that opens fail for are those a name of the chain leads to; no
\* describe opens another.
NamedAreDenied == denied' \subseteq denied \union {dir[n] : n \in 0 .. 2}

-----------------------------------------------------------------------------
(* Three tasks that index two chains of one state of their files or another. *)

Tasks == INSTANCE ChainIndexTasks WITH
    TaskIds <- {t1, t2, t3}, Keys <- {c1, c2}, Files <- {f1, f2},
    MaxUnfinished <- 1, MaxEnded <- 1, TTL <- 1, MaxNow <- 2,
    outcome <- tOutcome, holds <- tHolds

\* Tasks, chains and states of files are interchangeable: tasks are used in turn, and the
\* first is of c1 in the state f1.
Canonical ==
    /\ \A pair \in {<<t1, t2>>, <<t2, t3>>} :
          tOutcome[pair[1]] = "unused" => tOutcome[pair[2]] = "unused"
    /\ tHolds[t1] \in {{}, {c1}}
    /\ \A c \in {c1, c2} : records[c] # Tasks!NoRecord /\ records[c].task = t1 => records[c].files = f1

-----------------------------------------------------------------------------
(* A lookup, two chains of two parts and another task build indexes of     *)
(* three files; the second parts are one file.                             *)

AllTasks == {l1, o1} \union ({c1, c2} \X {1, 2})
TwoParts == {1, 2}
SharedTail == [p \in {c1, c2} \X TwoParts |-> IF p[2] = 2 THEN f3 ELSE IF p[1] = c1 THEN f1 ELSE f2]

\* A bound of this instance: the other task starts only while no file has changed, and
\* no file changes once it has.
OneOfBoth == outcome[o1] = "unused" \/ \A f \in {f1, f2, f3} : version[f] = 1

ASSUME PartsAssumption == BuildsAssumption /\ Tasks!ChainsAssumption /\ DescribeAssumption

-----------------------------------------------------------------------------
\* What the variables of a part hold that does not run.
Unused == {}
OneChain == dir = Placed(1, 7, 2) /\ ~journal /\ store = Indexed(dir, {1, 2})

partsVars == <<part, present, searchVars, describeVars, tasksVars, vars>>

PartsInit ==
    /\ part \in Part
    /\ Grouping!Init /\ Tasks!Init /\ Init /\ DescribeInit
    /\ part # "describe" => OneChain
    /\ IF part = "search" THEN Search!Init
       ELSE world = Unused /\ todo = Unused /\ resolver = Unused /\ done = Unused

ListingMoves == part = "listing" /\ Grouping!Next /\ UNCHANGED <<part, searchVars, describeVars, tasksVars, vars>>
SearchMoves == part = "search" /\ Search!Next /\ UNCHANGED <<part, present, describeVars, tasksVars, vars>>
DescribeMoves == part = "describe" /\ DescribeNext /\ FewDisturbances' /\ NamedAreDenied /\ UNCHANGED <<part, present, searchVars, tasksVars, vars>>
TasksMove == part = "tasks" /\ Tasks!Next /\ Canonical' /\ UNCHANGED <<part, present, searchVars, describeVars, vars>>
BuildsMove == part = "builds" /\ Next /\ OneOfBoth' /\ UNCHANGED <<part, present, searchVars, describeVars, tasksVars>>

PartsNext == ListingMoves \/ SearchMoves \/ DescribeMoves \/ TasksMove \/ BuildsMove
PartsSpec == PartsInit /\ [][PartsNext]_partsVars

-----------------------------------------------------------------------------
(* Properties, each stated by the module of its part; RegistryInv is      *)
(* IndexBuilds' own, HitsAreWhatAReadGives and ReadyChainsAreOneText are  *)
(* ChainDescription's.                                                    *)

\* A listing is read as chains (logchain/group.go): each file once, a handle's chain is
\* the one listed, and the parts come oldest first.
ListingIsReadAsChains ==
    part = "listing" =>
        Grouping!EachGenerationIsReadOnce /\ Grouping!HandlesNameListedChains /\ Grouping!PartsComeOldestFirst

\* The paths of a search may come in any order (logchain/search.go:107, :134): what is
\* refused, searched and left out is the same, and each file is searched as often, but
\* where a directory is asked for under one mount and a file of it under another.
AnyOrderGivesTheSameAnswer == part = "search" => Search!AnyOrderGivesTheSameAnswer
\* Each line is searched once (search.go:87, :103): none is lost, and none comes twice but
\* where a file is also named on its own under another mount of its directory.
EachLineComesOnce == part = "search" => Search!NoLineIsLost /\ Search!NothingComesTwice
\* The places and the records of the index tasks are true of the tasks, the records stay
\* bounded, and a failure on record is not tried again (webapi/chain_index.go).
RecordsAreTrue == Tasks!RecordsAreTrue

=============================================================================

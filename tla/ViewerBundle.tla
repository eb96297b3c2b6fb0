--------------------------- MODULE ViewerBundle ---------------------------
(***************************************************************************)
(* The viewer bundle of rx serve (internal/frontend: manager.go,           *)
(* update.go, compat.go): which viewer a start chooses, how a release is   *)
(* downloaded, verified, unpacked beside the cached one and put in its     *)
(* place entry by entry, and what a later start makes of what an earlier   *)
(* one left when it failed or was killed.  One server at a time uses the   *)
(* cache; RX_FRONTEND_PATH, which only reads, is left out.                 *)
(***************************************************************************)
EXTENDS Integers, Sequences, FiniteSets

CONSTANTS
    Versions,   \* versions of releases, positive numbers
    InRange,    \* those this rx supports (compat.go)
    Contents,   \* what the bundles that verify hold
    MaxStarts   \* bound: starts of the server

VersionsAssumption ==
    /\ Versions \subseteq Nat \ {0} /\ InRange \subseteq Versions /\ IsFiniteSet(Versions)
    /\ Contents \subseteq SUBSET {"assets", "index", "stamp"}

(* A build: its version, the tag it is downloaded by - a release's number, *)
(* "custom" of RX_FRONTEND_URL, or "latest" - and which of assets/,        *)
(* index.html and version.json it holds: nothing checks that it holds any. *)
Builds == [version : Versions, tag : {"release", "custom", "latest"}, holds : Contents]
None == [version |-> 0, tag |-> "none", holds |-> {}]
Empty == [assets |-> None, index |-> None, stamp |-> None]

\* The order of os.ReadDir: assets/, index.html, version.json.
Entries == <<"assets", "index", "stamp">>
Held(b, entry) == IF entry \in b.holds THEN b ELSE None

\* A version nobody recorded, or no number ("custom"); no metadata; the text
\* "latest", which is no number either.
Unrecorded == 0
NoMeta == -1
Latest == -2

VARIABLES
    published,  \* versions released with a bundle
    disk,       \* what the cache's entries come from
    torn,       \* assets/ is half removed
    meta,       \* .metadata.json: the version it records, or NoMeta
    due,        \* the recorded check is a day old, or there is none
    staging,    \* .staging
    starts, mode, pc, todo, build, had, withheld, served,
    failed,     \* where this start's install failed
    cut         \* an override's install ended before it was recorded

cacheVars == <<disk, torn, meta, due, staging>>
vars == <<published, cacheVars, starts, mode, pc, todo, build, had, withheld, served, failed, cut>>

-----------------------------------------------------------------------------
(* What is on disk and what it is taken for.                               *)

bundleOnDisk == disk.index # None /\ (disk.assets # None \/ torn)
IsAvailable == ~withheld /\ bundleOnDisk
cachedVersion == IF meta = NoMeta THEN Unrecorded ELSE meta
viewerVersionCompatible(v) == v \in {Unrecorded, Latest} \union InRange
Usable == bundleOnDisk /\ viewerVersionCompatible(cachedVersion)
newestInRange == CHOOSE v \in published \intersect InRange : \A w \in published \intersect InRange : v >= w
isNewerThanCached(v, cached) == cached \in {Unrecorded, Latest} \/ v > cached
isCheckDue == mode.kind = "update" \/ meta = NoMeta \/ due

\* The version an installed bundle is recorded with.
RecordedVersion ==
    CASE disk.stamp # None -> disk.stamp.version
      [] disk.stamp = None /\ build.tag = "custom" -> Unrecorded
      [] disk.stamp = None /\ build.tag = "latest" -> Latest
      [] OTHER -> build.version

-----------------------------------------------------------------------------
NoOne == [version |-> Unrecorded, reason |-> "none"]
FromCache(v) == [version |-> v, reason |-> "cache"]
Cached == IF IsAvailable THEN FromCache(cachedVersion) ELSE NoOne

Modes ==
    {[kind |-> k, version |-> Unrecorded] : k \in {"daily", "update", "unmanaged"}}
    \union [kind : {"pin", "url"}, version : Versions]
    \union {[kind |-> "pin", version |-> Latest]}

NoMode == [kind |-> "none", version |-> Unrecorded]
Nothing == [onDisk |-> FALSE, usable |-> FALSE, version |-> Unrecorded, disk |-> Empty]
Whole(b) == [entry \in DOMAIN Empty |-> Held(b, entry)]

Fresh ==
    /\ mode' = NoMode /\ todo' = <<>> /\ build' = None /\ had' = Nothing
    /\ withheld' = FALSE /\ served' = NoOne /\ failed' = ""

\* A cache that is empty, or that an earlier rx filled.
Init ==
    /\ published \in SUBSET Versions
    /\ \/ disk = Empty /\ meta = NoMeta
       \/ \E b \in Builds : b.tag = "release" /\ "stamp" \in b.holds /\ disk = Whole(b) /\ meta = b.version
    /\ torn = FALSE /\ due = TRUE /\ staging = Empty
    /\ starts = 0 /\ mode = NoMode
    /\ pc = "down" /\ todo = <<>> /\ build = None /\ had = Nothing
    /\ withheld = FALSE /\ served = NoOne /\ failed = "" /\ cut = FALSE

Start(m) ==
    /\ pc = "down" /\ starts < MaxStarts
    /\ starts' = starts + 1
    /\ mode' = m /\ pc' = "choose"
    /\ UNCHANGED <<published, cacheVars, todo, build, had, withheld, served, failed, cut>>

Serves(s) == pc' = "serving" /\ served' = s

\* readCachedBundle, once per start.
Snapshot == had' = [onDisk |-> bundleOnDisk, usable |-> Usable, version |-> cachedVersion, disk |-> disk]

\* --skip-frontend, a pin the cache holds, a cache whose check is not due.
ServeAsItIs ==
    /\ pc = "choose"
    /\ \/ mode.kind = "unmanaged" /\ Serves(Cached)
       \/ /\ mode.kind = "pin" /\ bundleOnDisk /\ cachedVersion = mode.version
          /\ Serves([version |-> cachedVersion, reason |-> "override"])
       \/ mode.kind = "daily" /\ Usable /\ ~isCheckDue /\ Serves(FromCache(cachedVersion))
    /\ Snapshot
    /\ UNCHANGED <<published, cacheVars, starts, mode, todo, build, withheld, failed, cut>>

Override == mode.kind \in {"pin", "url"}

DownloadOverride ==
    /\ pc = "choose" /\ Override
    /\ ~(mode.kind = "pin" /\ bundleOnDisk /\ cachedVersion = mode.version)
    /\ build' \in Builds
    /\ mode.version \in {build'.version, Latest}
    /\ build'.tag = (IF mode.kind = "url" THEN "custom" ELSE IF mode.version = Latest THEN "latest" ELSE "release")
    /\ Snapshot
    /\ pc' = "download"
    /\ UNCHANGED <<published, cacheVars, starts, mode, todo, withheld, served, failed, cut>>

\* WriteMetadata, whose write may fail and leave the file as it was or empty.
Writes(version) == due' = FALSE /\ meta' = version
WriteFails == meta' \in {meta, NoMeta} /\ UNCHANGED due

\* ensureFromReleases: the list of releases is read.
ReadReleases ==
    /\ pc = "choose" /\ mode.kind \in {"daily", "update"} /\ ~(Usable /\ ~isCheckDue)
    /\ Snapshot
    /\ \/ /\ pc' = "failing" /\ failed' = "list"
          /\ UNCHANGED <<build, served, due, meta>>
       \/ /\ published \intersect InRange = {}
          /\ pc' = "failing" /\ failed' = "range"
          /\ UNCHANGED <<build, served, due, meta>>
       \/ /\ published \intersect InRange # {}
          /\ IF Usable /\ ~isNewerThanCached(newestInRange, cachedVersion)
             THEN /\ Writes(cachedVersion) \/ WriteFails
                  /\ Serves(FromCache(cachedVersion))
                  /\ UNCHANGED build
             ELSE /\ build' \in [version : {newestInRange}, tag : {"release"}, holds : Contents]
                  /\ pc' = "download"
                  /\ UNCHANGED <<served, due, meta>>
          /\ UNCHANGED failed
    /\ UNCHANGED <<published, disk, torn, staging, starts, mode, todo, withheld, cut>>

-----------------------------------------------------------------------------
(* Download, one step of the disk at a time; a step can fail.  An entry    *)
(* the bundle does not hold is passed over.                                *)

GoesOn(to, entries) == pc' = to /\ todo' = entries
Fails(where) == pc' = "failing" /\ failed' = where /\ UNCHANGED todo

\* The bundle is fetched and verified, and an old .staging removed.
Fetch ==
    /\ pc = "download"
    /\ \/ Fails("download") /\ UNCHANGED staging
       \/ GoesOn("unpack", Entries) /\ staging' = Empty /\ UNCHANGED failed
    /\ UNCHANGED <<published, disk, torn, meta, due, starts, mode, build, had, withheld, served, cut>>

Unpack ==
    /\ pc = "unpack"
    /\ \/ Fails("unpack") /\ staging' = Empty
       \/ /\ todo # <<>> /\ staging' = [staging EXCEPT ![Head(todo)] = Held(build, Head(todo))]
          /\ GoesOn("unpack", Tail(todo)) /\ UNCHANGED failed
       \/ /\ todo = <<>> /\ GoesOn("clear", <<"assets", "assets", "index", "stamp">>)
          /\ UNCHANGED <<staging, failed>>
    /\ UNCHANGED <<published, disk, torn, meta, due, starts, mode, build, had, withheld, served, cut>>

\* The old index.html stays until the new one takes its place.
FaultyClear ==
    /\ pc = "clear"
    /\ \/ Fails("clear") /\ staging' = Empty /\ UNCHANGED <<disk, torn>>
       \/ /\ todo # <<>>
          /\ torn' = (Len(todo) = 4 /\ disk.assets # None)
          /\ disk' = IF Head(todo) = "index" THEN disk ELSE [disk EXCEPT ![Head(todo)] = None]
          /\ GoesOn("clear", Tail(todo)) /\ UNCHANGED <<staging, failed>>
       \/ todo = <<>> /\ GoesOn("move", Entries) /\ UNCHANGED <<disk, torn, staging, failed>>
    /\ UNCHANGED <<published, meta, due, starts, mode, build, had, withheld, served, cut>>

\* clearExistingContent; assets/ is half gone before it is gone.
Clear ==
    /\ pc = "clear"
    /\ \/ Fails("clear") /\ staging' = Empty /\ UNCHANGED <<disk, torn>>
       \/ /\ todo # <<>>
          /\ torn' = (Len(todo) = 4 /\ (torn \/ disk.assets # None))
          /\ disk' = [disk EXCEPT ![Head(todo)] = None]
          /\ GoesOn("clear", Tail(todo)) /\ UNCHANGED <<staging, failed>>
       \/ todo = <<>> /\ GoesOn("move", Entries) /\ UNCHANGED <<disk, torn, staging, failed>>
    /\ UNCHANGED <<published, meta, due, starts, mode, build, had, withheld, served, cut>>

\* moveDirContents: .staging is left where a rename fails.
Move ==
    /\ pc = "move"
    /\ \/ Fails("move") /\ UNCHANGED <<disk, staging>>
       \/ /\ todo # <<>>
          /\ disk' = [disk EXCEPT ![Head(todo)] = staging[Head(todo)]]
          /\ staging' = [staging EXCEPT ![Head(todo)] = None]
          /\ GoesOn("move", Tail(todo)) /\ UNCHANGED failed
       \/ todo = <<>> /\ GoesOn("record", <<>>) /\ staging' = Empty /\ UNCHANGED <<disk, failed>>
    /\ cut' = (cut \/ (Override /\ pc' = "failing"))
    /\ UNCHANGED <<published, torn, meta, due, starts, mode, build, had, withheld, served>>

\* WriteMetadata, and what a start that installed serves.
Record ==
    /\ pc = "record"
    /\ \/ /\ Writes(RecordedVersion) /\ cut' = FALSE
          /\ Serves([version |-> RecordedVersion, reason |-> IF Override THEN "override" ELSE "installed"])
          /\ UNCHANGED failed
       \/ /\ pc' = "failing" /\ failed' = "record" /\ cut' = (cut \/ Override)
          /\ WriteFails /\ UNCHANGED served
    /\ UNCHANGED <<published, disk, torn, staging, starts, mode, todo, build, had, withheld>>

\* ensureFromURL, ensurePinned, servedAfterFailedCheck.
Fail ==
    /\ pc = "failing"
    /\ IF Override
       THEN Serves(Cached) /\ UNCHANGED <<due, meta, withheld>>
       ELSE IF had.usable
       THEN /\ Serves(FromCache(had.version))
            /\ Writes(had.version) \/ WriteFails
            /\ UNCHANGED withheld
       ELSE /\ withheld' = had.onDisk
            /\ Serves(NoOne) /\ UNCHANGED <<due, meta>>
    /\ UNCHANGED <<published, disk, torn, staging, starts, mode, todo, build, had, failed, cut>>

-----------------------------------------------------------------------------
(* The server is stopped, or killed at any step; a metadata file that was  *)
(* being written may be lost.  Releases appear; a day passes.              *)

Stop ==
    /\ pc = "serving" /\ pc' = "down"
    /\ Fresh
    /\ UNCHANGED <<published, cacheVars, starts, cut>>

WritesMeta ==
    \/ pc = "record"
    \/ pc = "choose" /\ mode.kind \in {"daily", "update"} /\ Usable /\ isCheckDue
    \/ pc = "failing" /\ ~Override /\ had.usable

Crash ==
    /\ pc \in {"choose", "download", "unpack", "clear", "move", "record", "failing"}
    /\ pc' = "down"
    /\ cut' = (cut \/ (Override /\ pc \in {"move", "record"}))
    /\ meta' = meta \/ (WritesMeta /\ meta' = NoMeta)
    /\ Fresh
    /\ UNCHANGED <<published, disk, torn, due, staging, starts>>

Publish ==
    /\ pc = "down"
    /\ \E v \in Versions \ published : published' = published \union {v}
    /\ UNCHANGED <<cacheVars, starts, mode, pc, todo, build, had, withheld, served, failed, cut>>

DayPasses ==
    /\ pc = "down" /\ ~due /\ due' = TRUE
    /\ UNCHANGED <<published, disk, torn, meta, staging, starts, mode, pc, todo, build, had, withheld, served, failed, cut>>

Next ==
    \/ \E m \in Modes : Start(m)
    \/ ServeAsItIs \/ DownloadOverride \/ ReadReleases
    \/ Fetch \/ Unpack \/ Clear \/ Move \/ Record \/ Fail
    \/ Stop \/ Crash \/ Publish \/ DayPasses

Spec == Init /\ [][Next]_vars

-----------------------------------------------------------------------------
(* Properties                                                              *)

Serving == pc = "serving" /\ IsAvailable

\* Wherever installs failed or were killed, what is served is one build: an
\* index.html never names the assets of another (clearExistingContent,
\* moveDirContents), nor is a version.json another build's.
BundlesAreNotMixed ==
    Serving => /\ torn \/ disk.assets = disk.index
               /\ disk.stamp = None \/ disk.stamp = disk.index

\* A list that cannot be read, or a bundle that cannot be had, verified or
\* unpacked, never costs a working cache, which is served as before (Download,
\* servedAfterFailedCheck).  A bundle that does unpack, without its page, does
\* cost it: nothing looks (manager.go:434).
BadBundleCostsNothing ==
    pc = "serving" /\ had.usable /\ failed \in {"list", "range", "download", "unpack"} =>
        disk = had.disk /\ IsAvailable /\ served.version = had.version

\* A build that is recorded with its version: what RX_FRONTEND_URL or the pin
\* "latest" brings is recorded by its version.json, and without one by a text
\* that counts as in the range (compat.go:43).
Numbered(b) == b.tag = "release" \/ "stamp" \in b.holds

\* Without an override no viewer outside the range is served, whatever
\* starts, pins and crashes came before, as long as what an override
\* installed was recorded, with a number.
RangeIsKept ==
    Serving /\ mode.kind \in {"daily", "update"} /\ ~cut /\ Numbered(disk.index) => disk.index.version \in InRange

\* A start in which nothing fails leaves a viewer, whatever the starts before
\* it left, unless the bundle it installed holds none: a crash between the
\* old bundle and the new one is made good, and so is a bundle without its
\* page that an earlier start installed.
HoldsAViewer(b) == {"assets", "index"} \subseteq b.holds
HealthyStartServes ==
    pc = "serving" /\ failed = "" /\ mode.kind # "unmanaged" /\ (build # None => HoldsAViewer(build)) => Serving

\* The viewer served is one build, in the range where its version is known,
\* whatever fails; a bundle that does not unpack costs nothing, and a start in
\* which nothing fails leaves a viewer if what it installs holds one (update.go,
\* manager.go).
ViewerIsOneBuild == BundlesAreNotMixed /\ BadBundleCostsNothing /\ RangeIsKept /\ HealthyStartServes
=============================================================================

# rx: a TLA+ verification of a log tool and its server

rx (`cmd/rx`) searches, indexes, samples and scans very large log files. As a
command it is one run of a pipeline; as a server (`rx serve`) it is a set of
registries shared by request handlers and background workers. The hard state is
in those registries, in the pipelines of goroutines that cut a file into pieces
and must answer as if they had not, and in the caches kept on a disk that other
processes, and the files themselves, change. This directory models them, checks
the models with TLC and proves the central ones with TLAPS.

`PROJECT.json` gives, for every definition, the source lines it stands for.

## The system

| Component | State it keeps | Operations | What makes it correct |
|---|---|---|---|
| Task manager, `internal/tasks` | task table, path locks, contexts and `done` channels, sweeper goroutine | `Create*`, `MarkRunning`, `Complete`, `Fail`, `Settle`, `Cancel`, `Stopped`, `sweep`, `Start`, `Stop` | a live task holds all its keys, no two hold one; one end per task, told once; finished tasks are bounded and forgotten |
| Findings cache, `internal/findings` | per file: `meta.json`, one entry file per signature, `meta.ranges.json`, a directory lock; in memory a read cache | `Scan`, `Read`, `Summary`, commit | an answer is of one text of the file and one set of settings; a crash anywhere leaves a true cache |
| Scan queue, `internal/findings/queue.go` | slots, waiters, one lock per file | `acquire`, `release`, `setLimit`, `lock`, `unlock` | one scan per file, no slot lost or doubled, first come first served |
| Findings tasks, tasks over directories, `handlers_findings.go`, `folder_tasks.go`, `internal/cachefill` | places of unfinished scans, each worker's progress | post, list, fill file by file, cancel, settle | a cancelled scan wrote nothing, a directory has one worker, every place comes back |
| Index builds, `internal/webapi/samples_index.go` | builds by path, slots, queue, line of waiting chains | `await`, `start`, `join`, `joinChainPart`, `awaitChainRoom`, `run`, `finish` | every waiter is answered, no slot idles, no wake-up is lost |
| Chain index tasks, `internal/webapi/chain_index.go` | records of last tasks, count of unfinished ones | `start`, `forDescription`, `last`, `recordEnd`, the run | places come back, records tell the truth and stay bounded |
| Webhooks, `internal/hooks` | event channel, worker pool, `closed` flag | `enqueue`, `fire`, `Close`, `Wait` | an accepted event is sent once, `Wait` returns after the last |
| Search, `internal/trace` | match budget, results of chunks, search cache | one ripgrep run per chunk or batch of frames, merge, cap, credit, store, rebuild | the kept matches are those of one pass over the file, with whole windows and true line numbers; a cut search is never cached |
| Signature scan, `internal/sigscan` | window, chunk results, runs and measures open at the edges | dispatch, walk, in-order merge | the result depends neither on the schedule nor on where the file is cut |
| Line index, `internal/index` | index files | build, store, validate, look up | an index describes the text it is stored for |
| Log chains, `internal/logchain` | cache of facts | group, search, describe | a generation is read once, in the order it was written; a described chain is one text |
| Viewer bundle, `internal/frontend` | bundle directory, its record | download, verify, replace | what is served is one release, of a version this server can use |
| the rest | none, or set once | parsing, decoding, formatting, path checks | functions of their input |

How they interact:

- Handlers of `internal/webapi` call the task manager directly, holding no lock.
  A worker runs detached from its request (`run_detached.go`): a panic becomes
  `Fail`.
- A lookup (`GET /v1/samples`) and the run of a chain's index task share the
  registry of index builds, which takes the task manager's lock under its own
  (`b.mu`, then `Manager.mu`). Chain tasks take `c.mu`, then `Manager.mu`, and
  never `b.mu` under it.
- A findings task waits in the scan queue for its file and for a slot, then runs
  the signature scan against the cache; its point of no return is
  `Manager.Settle`.
- A search asks the search cache first, numbers its lines with the line index
  when its own counts are incomplete, and stores what it found whole.
- A chain is described from the line indexes of its parts, and searched by
  handing its parts to the search engine.
- The cache directory is shared with other processes: `flock` orders writers of
  findings, a rename replaces every file, and readers take no lock.
- The search engine fires webhooks through the dispatcher, which the server
  closes when it stops.

What is hard: cancels and panics racing ends, two registries that must agree
with a task table they do not lock together, wake-ups handed on, slots granted
in the instant of a cancel, a cap that stops workers while they still owe the
context of a match, pieces that begin and end inside what they look for, readers
of several files without a lock, crashes between the writes of one commit, files
that are rotated or replaced between two looks at them. `PROJECT.json` lists
each hazard at its line.

## Modules

| Module | Models | Composition |
|---|---|---|
| `TaskTable` | what the task manager promises: keys taken all at once, one end per task | implemented by `TaskManager`; used as the manager in `IndexBuilds`, `ChainIndexTasks`, `FindingsTasks` |
| `TaskManager` | `internal/tasks/manager.go` in full, one action per method | refines `TaskTable` (`Promise`) |
| `Sweeper`, `SweptManager` | `Start`, `Stop`, `sweeperLoop`, and the table with them | `SweptManager` extends `TaskManager` and instantiates `Sweeper` |
| `FindingsCache` | one file's cache: `Scan`, `Read`, the commit, the read cache | |
| `ScanQueue` | slots and file locks | |
| `FindingsTasks` | tasks of `POST /v1/findings` and of directories | extends `TaskTable`, instantiates `ScanQueue` |
| `IndexBuilds` | builds, lookups, runs of chains | extends `TaskTable` |
| `ChainIndexTasks` | places, records and ends of chain tasks | extends `TaskTable` |
| `HookDispatcher` | the webhook queue and its workers | |
| `TraceSearch` | one search: chunks, workers, budget, cap, credit, store | |
| `SeekableScan` | the search of a seekable zstd file in batches of frames | |
| `SourceCaches` | search cache and line index beside a file that changes | instantiates `LineLookups` |
| `LineLookups` | checkpoints, lookups, rebuilding a cached search: functions | |
| `SequentialScan` | what a signature scan promises: one goroutine | implemented by `ScanPipeline` |
| `ScanPipeline` | its goroutines, for chunks and for a stream | refines `SequentialScan` |
| `SignatureWalk`, `MeasureWalk` | the walk of one chunk, and the measures of several lines: functions | |
| `ChunkMerge` | the merge of the chunks' results | extends both |
| `ViewerBundle` | choice, download and replacement of the viewer | |
| `ChainNames` | which names of a listing are parts of which chain: functions | |
| `ChainListing` | a directory whose entries come and go | extends `ChainNames` |
| `ChainSearch` | the paths of a search turned into files | extends `ChainNames` |
| `ChainDescription` | a chain described while it is rotated and indexed | |
| `TaskManagerProofs`, `ScanQueueProofs`, `ScanPipelineProofs`, `FindingsCacheProofs`, `IndexBuildsProofs`, `SourceCachesProofs`, `TraceSearchProofs` | theorems about the module each extends (the first: `SweptManager`, and an instance of `HookDispatcher`; `IndexBuildsProofs`: `IndexBuilds`, `ChainDescription` and an instance of `ChainIndexTasks`; `FindingsCacheProofs`: an instance of `ViewerBundle` too) | |
| `FindingsTasksProofs` | theorems about `FindingsTasks` | instantiates `ScanQueueProofs` |

An `MC...` module names the model values of its runs. `MCWorkParts`,
`MCServerParts`, `MCTextParts` and `MCChainParts` hold several components that
share no state: a variable `part`, chosen in the initial state, says which of
them runs, and the variables of the others keep one value. A run of such a
module is the union of the runs of its parts. `MCTextParts` extends
`SourceCaches`, `MCChainParts` extends `IndexBuilds` and `ChainDescription`, and
`MCServerParts` extends `ScanQueue`: the properties they check of those modules are
the definitions the proofs are about. The other components are instances.

### How actions correspond to the code

*TaskManager.* Every public method locks `Manager.mu` from its first line to its
last, so a method is one action. Any caller may call any method on any task at
any time; that covers late reports, double cancels and a panic after
`Complete`. A `Task` keeps its fields after it has left the table, as the Go
struct does. `createLocked` removes stale locks of the keys it happens to look
at before it finds a running holder: which ones depends on the order of its
input, so the model takes any. The clock is an integer, the TTL a number of
ticks. Progress, byte and file reports are left out: they only feed what a
status shows.

*Sweeper, SweptManager.* `Start` and `Stop` hold no lock, so a step is what runs
between two operations on the flag, the `sync.Once` or a channel. `sweep` holds
`Manager.mu`, so it is one step with the end of the loop's turn.

*FindingsCache.* A file on disk is the version of the text it was found in and
the key it was written under. A step is one file read, one rename, one lock or
one identity check; a crash or a failed write may come between any two steps of
a commit. A text is a version number: the identity of a file changes whenever
its text does. `Counts` is how many findings a scan of a version stores. The
counts in `meta.json` are compared when an entry is read, and the runs give all
versions equal counts so that this check never hides a mix-up. A file may grow
or shrink (`Size`): a scan that ends on a grown file answers without writing.

*ScanQueue.* The limiter and the lock table have a mutex each, so a step is one
critical section, one channel operation or one branch of a `select`. A slot
granted to a waiter whose context is already cancelled is a state of its own. Go
picks at random when both branches of a `select` are ready, and so does the
model.

*FindingsTasks.* A post takes its place, creates its task and starts its worker
in the steps the handler does them. The worker's steps are the decisions of
`cachefill` for one file, the waits of `ScanQueue`, the scan, the settle and the
release of the place; `DELETE` comes at any of them, and so does a panic.

*IndexBuilds.* Every method of the registry holds `b.mu` and takes the manager's
lock under it: one step. A build's goroutine has two more steps, the end of its
task and `finish`, and may panic before or after the former. A lookup unlocks
between joining a build and keeping the head's reach on it; the file may change
and the build may end in between. A run of a chain is the loop of
`chainIndexRun.run`: it keeps at most `MaxRunning` parts in flight, waits in
line when there is no room and fails with a failed part. A task is named for the
one call that may create it, which keeps ids out of the state.

*ChainIndexTasks.* `forDescription` is two steps, because the manager's lock is
released between looking at the last task and starting another, while `c.mu` is
held across both. `recordEnd` and the manager's `Complete` or `Fail` are two
steps. A panic gives the place back first and is then failed by `runDetached`.
The table may drop an ended task at any time (the cap or the sweeper).

*HookDispatcher.* `enqueue` loads the flag and then sends; `Close` stores the
flag, closes the queue, waits for the workers and closes `stopped`. Each is a
step. A send on a closed channel and a second close of a channel end the
program.

*TraceSearch.* A worker is three: the feeder that writes a chunk's lines and a
few of its neighbours' to ripgrep, ripgrep, and the parser of its events. A pipe
between two of them is a buffer with a capacity. The charge that spends the
budget, a fault (a file that cannot be read, a ripgrep that fails) and a cancel
from outside come between any two steps. A line is the offset where it stops and
the patterns that match it; ripgrep is its contract, a match or context event per line in
order and a summary at the end.

*SeekableScan.* A text is bytes, because frames are cut inside lines; a frame
may fail to decode. The lead-in, the batch, its tail and the runs between
damaged frames are the code's arithmetic; the decoder and ripgrep are contracts.

*LineLookups, SourceCaches.* A stat, a read of a head, a scan of a text, a
rename are steps, and the file may be appended to, rewritten or replaced between
any two. A power loss is an entry that does not parse (`Damage`).

*SequentialScan, ScanPipeline.* A channel operation, a `select` and a merge are
steps. What a walk finds is not in these modules: it is in the next ones.

*SignatureWalk, MeasureWalk, ChunkMerge.* A line is its kind (what the patterns
of the signature match on it), its offset and whether it carries a time. The
walk of a chunk, the edges it hands on and the merge are the code's; the runs
compare them with one walk of the whole text, for every cut.

*ViewerBundle.* A file of the bundle is the build it came from. Nothing looks at what
a verified bundle holds (`Contents`), so an entry may be missing. A pin is a number or
`latest`, and a version recorded as a text counts as in the range, as
`viewerVersionCompatible` has it. Clearing,
moving and recording are one step per entry of the directory; each may fail,
and the process may be killed before each. Starts follow one another.

*ChainNames, ChainListing, ChainSearch.* A name is a sequence of tokens, each of
the shape of one of the building blocks of the name templates; what the
templates make of a shape is the code's table. A world of `ChainSearch` fixes
directories, links, mounts, hard links and unreadable files; a search is one action
per path of its request, and ends at the first path it refuses.

*ChainDescription.* Each stat, each load of an index and each look at the cache
is a step of a describe. Between any two, a rotation may rename every part, a
line be written, an index be stored or removed, a file become unreadable. A
journal's header is its counter, the numbers of its first and last entry and the
time of the first. A
rotation takes the next file of `Created`, so the files of an instance bound the
rotations; that a new file has an identity no earlier one had is what the
inode, the device and the ctime are for.

## Runs

| Run | Instance | Shows |
|---|---|---|
| `task_manager` | 3 tasks, 2 paths, cap 2, 2 ticks (symmetry) | table, locks, ends and `done` agree in every order of calls; the first end wins; the cap drops the oldest of the right class; `TaskTable` is implemented |
| `findings_cache` | 2 scanning processes, 1 reader, 2 signatures, 2 settings, a file that grows once | no read mixes texts or settings; what a scan takes from the cache belongs to its call; the cache never lies whatever crash or failed write happened; a commit keeps what another process published |
| `findings_cache_late` | 2 scanning processes, the same file | violated, see below |
| `findings_tasks` | 2 posts, every pair out of a scan, a forced rescan, a scan of the directory and an index of it; one place or two, cache off or on | a cancelled scan of a file wrote nothing; a directory has one worker and a cached file is not scanned again; every task ends |
| `work_parts` | builds: 1 lookup, 2 chains of 2 parts that share one, 1 slot, 1 place in the queue. Scan: 2 workers, a window of 1 each, 1 or 5 pieces, the third may be damaged | whatever panics, lookups are answered and runs of chains end; the pipeline of a scan merges in order, holds what it has not merged and ends as one goroutine would |
| `server_parts` | queue: 3 callers, 2 files, limits 1 and 2. Hooks: 4 events, 2 workers, a channel of 2, 2 closes. Tasks: 1 task, 2 `Start`s, 2 `Stop`s, 3 ticks | exact slots, in order; no accepted event lost or sent twice; nothing swept after a `Stop`; nobody waits for ever |
| `hooks_race` | 1 event, 1 close | violated, see below |
| `trace_search` | 2 workers, at most 3 chunks, caps 0 to 4, context 0 or 1, 1 or 2 patterns and files, 1 fault, a cancel from outside | an answer is full up to its cap, every kept match has its window and its number, what is cached is a whole search, the workers come home |
| `trace_cancel` | the same without the fault | violated, see below |
| `text_parts` | merge: texts of up to 6 lines in every cut into at most 3 chunks. Seekable: 3 to 5 frames, at most 1 damaged, 2 frames a batch, 2 workers. Caches: a file of 3 texts (it starts with one of them), 2 jobs of 4 kinds, 2 changes of the file. Viewer: 3 versions, 2 in range, bundles whole, without `version.json` or without `assets/`, 2 starts | the answer does not depend on the cut; every whole line once; hits and numbers are those of a scan of one state of the file; what is served of the viewer is one build |
| `seekable_cut_line` | the seekable part | violated, see below |
| `chain_parts` | listing: 13 possible entries. Search: up to 3 paths in 3 worlds. Describe: 7 chains of 3 names, 3 of them of journals, 2 describes, at most 3 disturbances (2 for a journal). Tasks: 3 tasks, 2 chains. Builds: 1 lookup, 2 chains, 1 task of others, a file that changes once | a chain is one text whose parts are in order, each line of it is searched once in any order of the request (mounts excepted, see below), the records and the registry tell the truth |

*Why the bounds are enough.* Each is one more than the smallest at which the
case arises. Three tasks let a third meet a key one has left and another has
taken, and give the cap of two something to drop. Two versions of a file are an
old and a new text; two signatures are one cached and one missing. Three callers
of one file, or two of one and one of another, are a holder, a waiter and a
newcomer. One slot and one place in the queue make every wait of the registry
happen with two chains: they also make the chains' half the smallest it can be,
one place. A channel of two under four events fills up and drains. Three chunks
have a first, an inner and a last one, and with a context of one line the window
of a match reaches into either neighbour. Five pieces are more than the windows
and buffers of two workers hold. A frame smaller than a line, a batch that ends
in a line and a damaged frame between two good ones all occur in five frames.
Two jobs and two changes of a file let a change come before, between and after
the stat and the read of either. Two starts let the second meet what the first
left.

*Bounds of an instance* that are not a size are named in its module.
`NoLateCommit` (`FindingsCache`): no process begins to commit an older text than
`meta.json` describes; `findings_cache_late` is what happens without it. The two
processes are free to overlap otherwise: an entry may be replaced between the
other's `LoadMeta` and `LoadEntry`, with equal counts. `SecondIsSmall`
(`MCFindingsCache`): the second process asks for one signature, is not forced, and
scans while the reader rests and the read cache is empty. `ReadsUnderOne`: the reader asks under one of the two settings, scans
under both, so that a reader meets what a scan under other settings left. `FewDisturbances` and `NamedAreDenied` (`MCChainParts`): at most three disturbances
of a describe in all, two for a journal, and opens fail only for files that a name
of the chain leads to, since no describe opens another. `Canonical` and `OneOfBoth` (`MCChainParts`): tasks that differ
only in name begin in one order, and of the change of the file and the task of
others only one happens in a behaviour. Actors that are alike are represented by one in liveness
properties (`OneEvent`, `OneCloser`, `OneStopper`, `OneCaller`, chain `c1`).

`CHECK_DEADLOCK FALSE` stands where the system may really stop: ids, events,
versions and ticks are finite, and a program that has panicked takes no step.
The runs of several parts check for deadlock and let a part rest only where that
is so (`Rests`). Symmetry is used in `task_manager`, which checks safety only.

*Types.* A module's `TypeOK` is checked with the bookkeeping it belongs to:
`QueueInv`, `RegistryInv`, `RecordsAreTrue`, `AcceptedIsInOnePlace`,
`CacheIsTrue` and `CancelledWroteNothing` have it as a conjunct.

## Fairness

Weak fairness says that a goroutine that can go on does, which the Go scheduler
gives; it is asserted for worker steps and for returns, never for calls of
users, cancels, crashes, faults or changes of a file. Strong fairness stands
where a `select` with several ready branches chooses (the sweeper's cancel
against its ticker, a token against a cancel). A scan, a build and a task of
others end: they read a finite file. In `HookDispatcher` a request ends because
its client has a timeout of three seconds. In `TraceSearch` ripgrep exits once
its input has ended or it was killed, and `SearchEnds` is checked for the
feeders, parsers and merges that wait for one another around it.

## Proofs

Eight modules prove, for every value of the constants, what the runs check on
one instance. A theorem of a safety property has three facts under it: the
initial states satisfy an inductive invariant, every step keeps it, and it
implies the property. The step is split by action; what several actions share
is a lemma. The invariant is needed because no property is inductive by itself:
below is what each one adds.

`TaskManagerProofs`, under `ManagerAssumption` (`NoTask` is not a task, the cap
is positive, TTL and the clock's bound are naturals):

- `Typing` (`TypeOK`); `Locks` (`UnfinishedHoldsItsKeys`, and a lock names an
  unfinished task that holds the key); `Ends` (`WatchTellsTheEnd`: no second
  close of `done` can panic the server); `FirstEnd` (`FirstEndWins`).
  `LocksInv` is the locks' two halves together with what tasks outside the
  table look like: a create must know that a key whose lock is free has no live
  holder, a release that the lock it removes was its own.
- `Cancels` (`CancelIsClean`), from the types and `Locks`.
- `Cap` (`CapDropsOldestOfItsClass`): a create counts the tasks of its class, so
  the proof adds that the table is finite, and that dropping as many as are over
  leaves room for the new one.
- `Refinement` (`ImplementsTaskTable`): a create is `Start`, what ends a task is
  `End`, everything else stutters. `IndexBuilds`, `ChainIndexTasks` and
  `FindingsTasks` use `TaskTable` in the manager's place because of it.
- `SweptTable`: `SweptManager`'s steps are steps of `TaskManager`, so all of the
  above holds with the sweeper goroutine. `Launches`: any Starts and Stops launch
  one sweeper between them. `Stops`: after a Stop that found it started nothing is
  swept, the safety part of `SweeperKeepsItsPromises`. `LifeInv` says which step of
  the goroutine goes with which flag and with how far each call has got.

The module also holds the theorems about `HookDispatcher`, under that module's
`DispatcherAssumption` (at least one worker, as `New` starts; a channel of at
least one place): `NothingAcceptedIsLost` (`WaitMeansSent`) and, under it,
`HooksInvariance`. The invariant says which events the channel holds, each once,
that an event in flight is in one worker's hands, and that workers end only after
the channel is empty and closed.

`ScanQueueProofs`, under `QueueAssumption` (finitely many callers: a process has
finitely many requests; limits from 1 to 64, as the settings allow):
`QueueIsRight` (`QueueInv`), `Order` (`FirstComeFirstServed`). `LocksInv` says
that the callers of one file share one lock struct, that its references count
them and that its token has one owner; `SlotsInv` that the waiters are the
callers that wait, that scans and granted slots add up to `running`, and that none
is free beside a waiter. The counts are cardinalities of sets of callers, hence
the finiteness.

`FindingsCacheProofs`, under `CacheAssumption`:

- `Keeping` (`CommitKeepsNames`), `Commits` (the files `meta.json` names are
  there, settings never mix). `CommitInv`: what a commit has merged, and how far
  a crash may have left the directory; only the holder of the lock is in
  a commit.
- `Truth` (`CacheIsTrue`), `Reading` (`ReadIsOfOneText`), `CachedPart`
  (`CachedPartIsOfTheCall`), as long as no commit comes late: their hypothesis is
  `[]NoLateCommit`, the same condition the run has. Nothing is assumed of the
  counts, which the code compares when it reads an entry and which need not tell
  two texts apart. Without the hypothesis they are false: `findings_cache_late`.
  `UseInv` says under which key each file is used. `AgeInv` is about age, since the
  text a file was found in is all that could be wrong with it: nothing `meta.json`
  names, and nothing a scan or a read has taken, is older than the `meta.json` it
  was found by, and a file that is replaced meanwhile is replaced by a newer
  one.

The module also holds the theorems about the other cache that a crash may leave
half replaced, `ViewerBundle`, under that module's `VersionsAssumption` (versions
are positive and finitely many); `ViewerIsRight` (`ViewerIsOneBuild`) is all of them:

- `OneBuildIsServed` (`BundlesAreNotMixed`), `StartsLeaveAViewer`
  (`BadBundleCostsNothing`, `HealthyStartServes`) and `RangeIsServed`
  (`RangeIsKept`), whatever the bundles hold. `ViewerInv` says what each pass over the entries (unpack, clear,
  move) has done so far; that an `index.html` on disk never stands beside another
  build's entries, since it goes after the old assets and comes after the new
  ones (`Coherent`); that the cache is what the start found until it is cleared
  (`Untouched`); and that what is out of the range is known as such by its
  metadata unless an override was cut short or was recorded without a number (`Known`).

`ScanPipelineProofs`, under `PipelineAssumption` (workers and windows are
positive):

- `Refinement` (`ImplementsSequentialScan`): a merge is a `ReadNext`, the answer
  is `End`, everything else but a cancel stutters. `Placed`: each piece between the merger and the producer is
  in exactly one place; `Told`: what was found of the damage and of a cancel is
  what reports, outcomes and the merge say.
- `Holding` (`HeldUntilMerged`): `Held` counts window tokens and
  buffers with the pieces in flight.

`FindingsTasksProofs`, under `TasksAssumption` (a job over one file is a findings
scan of it, a path is a file or a directory and not both): `CancelWritesNothing`
(`CancelledWroteNothing`) and `WorkIsDoneOnce` (`NoWorkIsDoneTwice`). The module instantiates
`ScanQueueProofs`: that a scan of a file is alone is `QueueIsRight`'s invariant,
cited and not proved again. `PostInv` ties a post to its place, its task and its
worker; `OneHolder` is the table's promise.

`IndexBuildsProofs`, under `BuildsAssumption` (ids name one caller's task each, a
chain has finitely many parts): `RegistryIsRight` (`RegistryInv`). The invariant counts slots and the
chains' half (`SlotsCounted`, `PartsCounted`), says where each build and entry
is (`Queued`, `Entries`), that a chain in line with room before it has been
woken (`LineWaits`), and what runs and lookups hold.
The module also holds the theorems about `ChainIndexTasks`, under that module's
`ChainsAssumption`. `Registry` (`RecordsAreTrue`) is all of them: `Places`
(`PlacesAreCounted`), `RecordsTellTheEnd` (`EndIsRecordedFirst`,
`RecordTellsTheEnd`), `RecordsStayBounded` (`CreateBoundsRecords`) and
`FailuresAreNotRetried` (`FailureOnRecordIsNotRetried`). `ChainsInv` says how far a
task's goroutine, its outcome and its record have each got, also after a panic;
that the places are the tasks that run or panic; and that a describe which holds
`c.mu` has seen that no failure of its files is on record.

Its last part is about `ChainDescription`, under `DescribeAssumption` (the names of
a chain lead to different files, an index records no more lines than its file
has, and what rotations create is new and empty): `HitsAreReadAgain`
(`HitsAreWhatAReadGives`) and `ReadyPartsAreWhole`, the part of
`ReadyChainsAreOneText` that is about steps. A hit is compared with a read of the
present disk, but an entry was made of reads of several earlier ones, so the
invariant has to say what stays true whatever happens to the disk in between.
`DescribeInv` does: a file that has left a name never comes back to it
(`LeftName`); the stat of an index file never repeats, so an index file whose
stat is the one stamped is the one that was there (`StampTells`), and one that
was no index of the part then is none now and will not become one (`NoIndexOf`):
its file is another, it is shorter than the text, or the name was left. `MovesOn`
collects what a step of the disk may do; each part of the invariant is carried
over it once, and each action of the disk is shown to be such a step.

`SourceCachesProofs`, under `CachesAssumption` (jobs of one entry ask for the same
patterns) and, about the environment, `WritesMoveTheCtime`: a write that does not
make the file longer changes its ctime, which is what `identity.go:197` relies on
("a write moves the ctime even when it keeps the size and the mtime").
`AnswersAreScans` (`HitsAreScans`) and `NumbersStayTrue`
(`IndexedNumbersAreTrue`):

- The walks over lines (`walkLines`, `reconstructLines`, the checkpoints of an
  index and the counting from one) are recursive functions over a text. What
  they compute is proved by induction along the lines, through the
  library's well-founded order on numbers.
- `Inv` says of the entry, the index and each process which state of the file
  what it holds is of. The identity of an earlier state is still the file's only if
  neither ctime nor size has changed since, and then the text is the
  same; this is kept under every step, also for a process between its
  stat and its fingerprint, which are two moments.
- Without the hypothesis the two are false from three changes of the file on (the
  run allows two); see below.

`TraceSearchProofs`, under `SearchAssumption` (a file's lines stop at ascending
offsets; sizes and limits are positive; a search has finitely many patterns, which
have numbers as in the answer):

- `Tiling`: every line is in exactly one chunk and a chunk starts where a line
  does. `chunkStarts` is a recursive function; that it exists is shown by the
  least number up to which there is none, that each of its values is good by the
  least one that is not.
- `Windows` (`WindowsAreWhole`) and `KeptSearches` (`KeptSearchesAreWhole`).
  `FlowInv` relates what the feeder counted to what ripgrep has and the parser
  has seen, and says why a goroutine stopped; `ResultInv` is what a chunk's
  result holds of its lines and of their windows; `CancelInv` that without a
  cap and with the caller waiting only a failure stops a scan; `OutcomeInv` and
  `AnswerInv` carry this to the answer. That a complete prefix of chunks numbers
  lines truly is again proved by a least counterexample.
- `Fullness` (`AnswerIsFull`): a second invariant, `CalmInv`, of a search that met
  no fault and was not abandoned. What is charged to the budget is the size of
  the set of matches kept, so only a spent budget stops a chunk before its end;
  and what the files searched so far hold is all they have or fills the cap. The
  answer's cut at the cap ranks the matches, and a set of numbers has as many
  ranks as members.

Only model-checked, and why:

- Liveness (`EveryTaskEnds`, `EveryWaitEnds`, `AcceptedIsSent`, `SearchEnds`,
  `WaitersAreAnswered`, what `SweeperKeepsItsPromises` says of returns and of
  forgetting): the prover has no rules for fairness and `ENABLED`.
- `MergeIsChunkFree`, `MergeMasksBodies`, `ListingIsReadAsChains`,
  `AnyOrderGivesTheSameAnswer`, `EachLineComesOnce`: recursive functions and folds
  over data; what they compute for every input is induction over data. It can
  be done by hand for a function along numbers (`Tiling`, `AnswersAreScans`);
  these fold over sets and sequences with operators as arguments.
- `SeekableIsWhole`: it compares batches of frames with a walk of the whole text.
- The rest of `ReadyChainsAreOneText` (the order by time or by counters, overlaps,
  numbering): sorts and filters of sequences, whose operator arguments the prover cannot expand.

## Where the code and its comments disagree

Each of these has a run whose counterexample shows it.

- `findings_cache_late` (`findings/scan.go:658`). A process whose last identity
  check came before the file changed may take the lock after another has
  committed the newer text. If it stops before its `meta.json`, the newer
  `meta.json` names entries of the older text.
- `hooks_race` (`hooks/dispatcher.go:395`). The flag is loaded before the send;
  `Close` can do all it does in between, and the send panics.
- `trace_cancel` (`trace/engine.go:515`). A chunk counts as read once all its
  bytes were handed to ripgrep. A caller that gives up after that, before the
  last events are parsed, is not told apart from the cap, and the matches so far
  are stored as the whole file's. With several patterns the credit step looks at
  the context and the search is not stored (`KeptSearchesAreWhole`).
- `seekable_cut_line` (`trace/seekable.go:1099`). The cap can end ripgrep's input
  between two frames, inside a line; its start may be answered as a match.

Seen while modelling, without a run of its own:

- `findings/scan.go:216`: what a scan takes from the cache is read after
  `meta.json` was compared with the identity (435), and the identity is not compared
  again. Another process may replace an entry before it is read (491-498), and equal
  counts do not tell. So an answer can join findings of two texts where the
  comment (220-223) says they describe the same text, and what it takes from the cache
  need not be of the text the call started on. What holds, as long as no commit
  comes late, is `CachedPartIsOfTheCall`: each cached finding is of a text no
  older than the start of the call and no newer than the one its own scan read.
  `read` takes the identity last and is not affected (`ReadIsOfOneText`).
- `hooks/dispatcher.go:178` and `tasks/manager.go:412`: two calls of `Close`, or
  two of `Stop` at once, close a channel twice, though both comments call it safe. Both
  are modelled as the crash they are; the properties about closing except it.
- `samples_index.go:143-147`: between a wake-up and the woken chain's submit,
  tasks may wait in line while no build is queued or running. What holds, and
  suffices, is `LineIsWoken`.
- `chain_index.go:59`: a place is given back before the task ends, so for a moment
  more than `maxUnfinished` tasks may be unfinished. `chain_index.go:411`: a
  describe that looked at a task just before it failed by a panic starts another
  for the same files. What holds of both is in `RecordsAreTrue`.
- `folder_tasks.go:255` and `handlers_findings.go:340`: a client that sees its
  task cancelled may find its place not yet free.
- `handlers_findings.go`: a post whose create found a holder may be answered
  "joined" with a task that has been cancelled meanwhile.
- `trace/worker.go:717-721`: case (c) of the comment never happens.
  `trace/engine.go:637`: a cancel from outside is swallowed in the seekable scan
  too.
- `trace/seekable.go:242`: a line that runs into a damaged frame at the start of
  a batch is reported when the decoder yields its break before it fails. The
  model's damaged frames yield nothing.
- `frontend/update.go:120` and its callers: what `Served` says is not accurate after an
  install that failed half way. A crash in `RemoveAll` can leave a half-removed
  directory (`torn`), and one before the record leaves the files of a forced
  release with the record of another (`cut`); `ViewerIsOneBuild` excepts both.
- `frontend/manager.go:434`: "a bundle that turns out to be unusable never costs the
  working cache" holds of one that is not had, not verified or not unpacked
  (`BadBundleCostsNothing`). A verified bundle without `index.html` or `assets/` is
  unpacked, replaces the working one and is recorded as installed, though it is not
  available. `HealthyStartServes` asks a viewer only of a start whose bundle holds
  one; the next check that is due downloads again.
- `frontend/manager.go:374`, `compat.go:43`: a bundle of `RX_FRONTEND_URL`, or of the
  pin `latest`, that holds no `version.json` is recorded as `custom` or `latest`. A
  text that is no version is accepted on purpose, so a viewer of any version
  is served later as one of the range. `RangeIsKept` excepts it (`Numbered`).
- `logchain/search.go:717`: the comment counts archives of a user's journal that
  `chainEntries` leaves out.
- `logchain/search.go:103-109, :134-136`: "each file is searched once" and "every order
  of the same paths gives the same answer" fail for two mounts `a`, `b` of one
  directory. A part of a chain is known by its directory entry (`planAsPartOf`), a
  file named on its own by its path alone (`addFile`). In `[a, b, b/app.log.1]` the
  visit of `b` enters that path as the part of the chain of `a`: two files are
  searched. In `[a, b/app.log.1, b]` the path is new when it is named, and the file is
  searched beside the part: three. The same file comes twice too when it is named under
  one mount before the directory is reached through the other. `AcrossMounts` names these
  requests, and the run has them (`MountedPaths`). `AnyOrderGivesTheSameAnswer` asks even
  there that the same files be searched, left out or refused, and elsewhere that
  each be searched as often; `EachLineComesOnce` allows a file a second
  time only under another mount and if it was met on its own, and beside a part of a
  chain only in these requests.
- `trace/engine.go:1465`, `index/identity.go:80-86`: an identity is a stat and a
  fingerprint taken at two moments. If the path leads to another file at the
  second, and the first is rewritten within one tick of the ctime to the same
  size and mtime, a mixed identity fits a file whose text was never scanned, and a
  stale entry or index is accepted. It takes three changes; with
  `WritesMoveTheCtime` it cannot happen, as `SourceCachesProofs` shows.
- `logchain/facts.go`, `cache.go`: an index stored between the stamp of its
  absence and the read, and removed before the next describe, leaves the stamp
  as it was: facts of an index that is gone.

## Mutants

An operator named `Faulty...` is the operator after it with one plausible bug: a
dropped guard, an off-by-one, a missing reset, a swapped order. No specification uses
it. Put in the other's place it must break the property `PROJECT.json` names,
which shows that the property can fail.

## Not modelled

- The parsers and decoders (`compression`, `journal`, `timestamps`, the format
  of `seekable`), signature matchers and redaction: sequential, and what they do
  is data of one line or one file.
- `samples`: reads lines at places it is given. What it asks of an index is in
  `LineLookups`.
- `webapi` beyond the registries above, `clicommand`, `output`, `config`,
  `prometheus`: decoding, calls of the components above, layout.
- The encoder of `seekable` gives each goroutine its own slot between two
  barriers: there is no interleaving to check.
- Within the modelled parts: the spans of submatches and the hash of patterns in
  a cached search; a partial last line in `LineLookups`; two servers on one
  viewer cache; a failure of a stat other than "not there" and the limit of
  parts in `ChainDescription`; ripgrep's own buffering.

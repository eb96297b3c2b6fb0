---------------------------- MODULE IndexBuilds ----------------------------
(***************************************************************************)
(* The line-index builds of `rx serve` (internal/webapi/samples_index.go)  *)
(* and the runs of log chains' index tasks that go through them            *)
(* (chainIndexRun in chain_index.go).  A lookup starts or joins the build  *)
(* of its file; a chain keeps a few of its parts in flight and waits in    *)
(* line when there is no room.  Every method of the registry holds b.mu,   *)
(* and takes the task manager's lock under it, so it is one step; the      *)
(* manager itself is what TaskTable promises.                              *)
(*                                                                         *)
(* A task is named for the one call that may create it, so that ids need   *)
(* not be handed out: a lookup's build is its lookup, a chain part's build *)
(* is its part, and other tasks (POST /v1/index, a compression) are others.*)
(***************************************************************************)
EXTENDS TaskTable, Integers, Sequences, FiniteSets

CONSTANTS
    Lookups,     \* requests of GET /v1/samples
    Chains,      \* index tasks of log chains
    Parts,       \* the places of a part in its chain: 1..n
    Others,      \* tasks started outside the registry
    NoTask,      \* no task
    Compressing, \* those of Others that build no index
    PathOf,      \* [Chains \X Parts -> Keys] the file of each part
    MaxRunning,  \* how many builds run at once, and a chain's window
    MaxQueued,   \* how many wait for a slot
    Touched,     \* bound of the model: the files that change and that Others take
    MaxVersion   \* bound of the model: how often a file changes

PartTasks == Chains \X Parts
Builds == Lookups \union PartTasks
Versions == 1..MaxVersion

BuildsAssumption ==
    /\ TaskIds = Builds \union Others
    /\ NoTask \notin TaskIds
    /\ Lookups \intersect PartTasks = {} /\ Others \intersect Builds = {}
    /\ Compressing \subseteq Others
    /\ IsFiniteSet(Parts) /\ Parts = 1..Cardinality(Parts) /\ Parts # {}
    /\ PathOf \in [PartTasks -> Keys]
    /\ MaxRunning \in Nat \ {0}
    /\ MaxQueued \in Nat
    /\ Touched \subseteq Keys
    /\ MaxVersion \in Nat \ {0}

VARIABLES
    version,     \* [Keys -> Versions] the text each path leads to
    running,     \* [Keys -> RunningBuild or NoBuild] b.running
    active,      \* b.active
    queue,       \* b.queue
    chainParts,  \* b.chainParts
    line,        \* b.chainWaiters: the chains in line, oldest first
    woken,       \* the chains whose channel is closed, not yet submitting again
    phase,       \* [Builds -> Phases] each build's goroutine
    lookup,      \* [Lookups -> Lookup]
    chain        \* [Chains -> ChainRun]

registry == <<running, active, queue, chainParts, line, woken, phase>>
vars == <<tableVars, version, registry, lookup, chain>>

-----------------------------------------------------------------------------
(* Types *)

(* queued: its goroutine is not started; ended: its task has ended, finish *)
(* has not run; unwinding: finish has run while a panic unwinds.           *)
Phases == {"none", "queued", "building", "ended", "unwinding", "finished"}

(* reach is the version of the text the head was measured in, 0 for none. *)
RunningBuild == [task : Builds, identity : Versions, reach : 0..MaxVersion]
NoBuild == [task |-> NoTask, identity |-> 0, reach |-> 0]

(* identity is the state of the file the lookup saw. *)
Lookup == [at : {"idle", "joined", "waiting", "answered"}, path : Keys \union {NoTask},
           identity : 0..MaxVersion, task : TaskIds \union {NoTask},
           answer : {"none", "lines", "pending", "gone"}]
NoLookup == [at |-> "idle", path |-> NoTask, identity |-> 0, task |-> NoTask, answer |-> "none"]

(* partWait: the task a part waits for, whether it gives the file's index, *)
(* and whether it could be watched.                                        *)
PartWait == [part : Parts, task : TaskIds, gives : BOOLEAN, watched : BOOLEAN]

(* identity is the state of the parts when the chain was described, next   *)
(* the part to submit, flight the parts waited for, built those built.     *)
ChainRun == [at : {"idle", "submitting", "noRoom", "inLine", "blocked", "completed", "failed"},
             identity : [Parts -> 0..MaxVersion], next : Nat, flight : SUBSET PartWait,
             built : SUBSET Parts]
NoRun == [at |-> "idle", identity |-> [i \in Parts |-> 0], next |-> 1, flight |-> {}, built |-> {}]

Init ==
    /\ TableInit
    /\ version = [p \in Keys |-> 1]
    /\ running = [p \in Keys |-> NoBuild]
    /\ active = 0
    /\ queue = <<>>
    /\ chainParts = 0
    /\ line = <<>>
    /\ woken = {}
    /\ phase = [t \in Builds |-> "none"]
    /\ lookup = [l \in Lookups |-> NoLookup]
    /\ chain = [c \in Chains |-> NoRun]

-----------------------------------------------------------------------------
(* Helpers.  An operator named Faulty... is the one after it with one      *)
(* plausible bug.                                                          *)

MaxChainParts == IF MaxQueued \div 2 > 1 THEN MaxQueued \div 2 ELSE 1

QueueFull(act, q) == act >= MaxRunning /\ Len(q) >= MaxQueued
ChainRoom(act, q, parts) == ~QueueFull(act, q) /\ parts < MaxChainParts

(* wakeChainWaiterLocked, given the registry's state when it runs. *)
FaultyWake(act, q, parts, waiting) ==
    line' = waiting /\ UNCHANGED woken
Wake(act, q, parts, waiting) ==
    IF waiting # <<>> /\ ChainRoom(act, q, parts)
      THEN line' = Tail(waiting) /\ woken' = woken \union {Head(waiting)}
      ELSE line' = waiting /\ UNCHANGED woken

(* The live task that holds a path, NoTask when none does. *)
Holder(p) == IF HoldersOf(p) = {} THEN NoTask ELSE CHOOSE t \in HoldersOf(p) : TRUE

(* indexOperation: the task's build gives a line index. *)
IsIndex(t) == t # NoTask /\ t \notin Compressing

(* addLocked, with startLocked. *)
Added(t) == IF active < MaxRunning
              THEN /\ active' = active + 1
                   /\ phase' = [phase EXCEPT ![t] = "building"]
                   /\ UNCHANGED queue
              ELSE /\ queue' = Append(queue, t)
                   /\ phase' = [phase EXCEPT ![t] = "queued"]
                   /\ UNCHANGED active

NewBuild(t, p, identity) ==
    /\ Start(t, {p})
    /\ running' = [running EXCEPT ![p] = [task |-> t, identity |-> identity, reach |-> 0]]
    /\ Added(t)

-----------------------------------------------------------------------------
(* Lookups *)

Waits(l, p, t) ==
    lookup' = [lookup EXCEPT ![l] = [NoLookup EXCEPT !.at = "joined", !.path = p,
                                                     !.identity = version[p], !.task = t]]
Reads(l) == lookup' = [lookup EXCEPT ![l] = [NoLookup EXCEPT !.at = "answered", !.answer = "lines"]]

(* join: the build of ours that runs for the path, when it is of the same  *)
(* text; else the task that holds the path; else a new one, when there is  *)
(* room.  A lookup that no task will serve reads the file.                 *)
Serves(p) == running[p].identity = version[p]

Join(l, p) ==
    /\ lookup[l].at = "idle"
    /\ \/ /\ running[p] # NoBuild
          /\ IF Serves(p) THEN Waits(l, p, running[p].task) ELSE Reads(l)
          /\ UNCHANGED <<tableVars, registry>>
       \/ /\ running[p] = NoBuild
          /\ QueueFull(active, queue) \/ Holder(p) # NoTask
          /\ IF IsIndex(Holder(p)) THEN Waits(l, p, Holder(p)) ELSE Reads(l)
          /\ UNCHANGED <<tableVars, registry>>
       \/ /\ running[p] = NoBuild
          /\ ~QueueFull(active, queue)
          /\ Holder(p) = NoTask
          /\ NewBuild(l, p, version[p])
          /\ Waits(l, p, l)
          /\ UNCHANGED <<chainParts, line, woken>>
    /\ UNCHANGED <<version, chain>>

(* keepReach: how far the head of the text the lookup saw reaches is kept  *)
(* on the build it waits for, when that still runs for the same text.      *)
SameBuild(l) ==
    LET build == running[lookup[l].path]
    IN  build.task = lookup[l].task /\ build.identity = lookup[l].identity

KeepReach(l) ==
    /\ lookup[l].at = "joined"
    /\ lookup' = [lookup EXCEPT ![l].at = "waiting"]
    /\ running' = IF SameBuild(l) THEN [running EXCEPT ![lookup[l].path].reach = lookup[l].identity]
                                  ELSE running
    /\ UNCHANGED <<tableVars, version, active, queue, chainParts, line, woken, phase, chain>>

(* start, and await when there is no reach to keep. *)
KeepNothing(l) ==
    /\ lookup[l].at = "joined"
    /\ \/ lookup' = [lookup EXCEPT ![l].at = "waiting"]
       \/ lookup' = [lookup EXCEPT ![l].at = "answered", ![l].answer = "lines"]
    /\ UNCHANGED <<tableVars, version, registry, chain>>

(* await's select: the task has ended, or has left the table since. *)
SeeEnd(l) ==
    /\ lookup[l].at = "waiting"
    /\ outcome[lookup[l].task] # "live"
    /\ lookup' = [lookup EXCEPT ![l].at = "answered", ![l].answer = "lines"]
    /\ UNCHANGED <<tableVars, version, registry, chain>>

(* The deadline of a respond-async client (a 202, unless the build ended   *)
(* in the same instant), or the client has gone.                           *)
GiveUp(l) ==
    /\ lookup[l].at = "waiting"
    /\ \/ /\ outcome[lookup[l].task] = "live"
          /\ lookup' = [lookup EXCEPT ![l].at = "answered", ![l].answer = "pending"]
       \/ lookup' = [lookup EXCEPT ![l].at = "answered", ![l].answer = "gone"]
    /\ UNCHANGED <<tableVars, version, registry, chain>>

-----------------------------------------------------------------------------
(* Build goroutines *)

(* Complete or Fail of the build, inside run. *)
BuildEnds(t, e) ==
    /\ phase[t] = "building"
    /\ e \in {"completed", "failed"}
    /\ End(t, e)
    /\ phase' = [phase EXCEPT ![t] = "ended"]
    /\ UNCHANGED <<version, running, active, queue, chainParts, line, woken, lookup, chain>>

(* How many queued builds start when a slot is free, and the registry once *)
(* finish has run for t: its entry dropped, its slot and place given back. *)
PlaceBack(t) == IF t \in PartTasks THEN 1 ELSE 0
Started(act) ==
    IF act >= MaxRunning THEN 0 ELSE IF Len(queue) < MaxRunning - act THEN Len(queue) ELSE MaxRunning - act

Finish(t, last) ==
    LET p == CHOOSE k \in Keys : holds[t] = {k}
        n == Started(active - 1)
    IN  /\ running' = IF running[p].task = t THEN [running EXCEPT ![p] = NoBuild] ELSE running
        /\ chainParts' = chainParts - PlaceBack(t)
        /\ active' = active - 1 + n
        /\ queue' = SubSeq(queue, n + 1, Len(queue))
        /\ phase' = [u \in Builds |-> IF u = t THEN last
                                      ELSE IF \E i \in 1..n : queue[i] = u THEN "building"
                                      ELSE phase[u]]
        /\ Wake(active', queue', chainParts', line)

Finished(t) ==
    /\ phase[t] = "ended"
    /\ Finish(t, "finished")
    /\ UNCHANGED <<tableVars, version, lookup, chain>>

(* A panic in the build: finish runs while it unwinds, then runDetached    *)
(* recovers it and fails the task.                                         *)
Panic(t) ==
    /\ phase[t] = "building"
    /\ Finish(t, "unwinding")
    /\ UNCHANGED <<tableVars, version, lookup, chain>>

FaultyRecovered(t) ==
    /\ phase[t] = "unwinding"
    /\ phase' = [phase EXCEPT ![t] = "finished"]
    /\ UNCHANGED <<tableVars, version, running, active, queue, chainParts, line, woken, lookup, chain>>
Recovered(t) ==
    /\ phase[t] = "unwinding"
    /\ End(t, "failed")
    /\ phase' = [phase EXCEPT ![t] = "finished"]
    /\ UNCHANGED <<version, running, active, queue, chainParts, line, woken, lookup, chain>>

-----------------------------------------------------------------------------
(* Runs of log chains (chainIndexRun.run) *)

StartRun(c) ==
    /\ chain[c].at = "idle"
    /\ chain' = [chain EXCEPT ![c] = [NoRun EXCEPT !.at = "submitting",
                                                  !.identity = [i \in Parts |-> version[PathOf[<<c, i>>]]]]]
    /\ UNCHANGED <<tableVars, version, registry, lookup>>

(* The loop goes on submitting while the window has room and parts are     *)
(* left, then blocks until one of its parts ends.                          *)
InWindow(run) == run.next \in Parts /\ Cardinality(run.flight) < MaxRunning
GoesOn(run) == [run EXCEPT !.at = IF InWindow(run) THEN "submitting" ELSE "blocked"]

Submitted(c, t, gives, watched) ==
    LET run == chain[c]
        wait == [part |-> run.next, task |-> t, gives |-> gives, watched |-> watched]
    IN  chain' = [chain EXCEPT ![c] =
                    GoesOn([run EXCEPT !.next = @ + 1, !.flight = @ \union {wait}])]

(* A task that has ended may have left the table: it cannot be watched.    *)
Joined(c, t, gives) ==
    \E watched \in BOOLEAN :
        /\ watched \/ outcome[t] # "live"
        /\ Submitted(c, t, gives, watched)

Refused(c) ==
    chain' = [chain EXCEPT ![c].at = IF chain[c].flight = {} THEN "noRoom" ELSE "blocked"]

Submitting(c) ==
    \/ chain[c].at = "submitting"
    \/ chain[c].at = "inLine" /\ c \in woken

(* joinChainPart: join, under the chains' own limit; it ends by waking the *)
(* next chain in line when it leaves room, so that room this part did not  *)
(* need is not lost.                                                       *)
PassOn(waiting) ==
    IF waiting # <<>> /\ ChainRoom(active', queue', chainParts') THEN line' = Tail(waiting) ELSE line' = waiting

Submit(c) ==
    LET part == <<c, chain[c].next>>
        p == PathOf[part]
        identity == chain[c].identity[chain[c].next]
    IN  /\ Submitting(c)
        /\ \/ /\ running[p] # NoBuild
              /\ Joined(c, running[p].task, running[p].identity = identity)
              /\ UNCHANGED <<tableVars, running, active, queue, chainParts, phase>>
           \/ /\ running[p] = NoBuild
              /\ Holder(p) # NoTask
              /\ Joined(c, Holder(p), IsIndex(Holder(p)))
              /\ UNCHANGED <<tableVars, running, active, queue, chainParts, phase>>
           \/ /\ running[p] = NoBuild
              /\ Holder(p) = NoTask
              /\ ~ChainRoom(active, queue, chainParts)
              /\ Refused(c)
              /\ UNCHANGED <<tableVars, running, active, queue, chainParts, phase>>
           \/ /\ running[p] = NoBuild
              /\ Holder(p) = NoTask
              /\ ChainRoom(active, queue, chainParts)
              /\ NewBuild(part, p, identity)
              /\ chainParts' = chainParts + 1
              /\ Submitted(c, part, TRUE, TRUE)
        /\ PassOn(line)
        /\ woken' = (woken \ {c}) \union {line[i] : i \in 1 .. Len(line) - Len(line')}
        /\ UNCHANGED <<version, lookup>>

(* awaitChainRoom: the look for room and the place in line are one step.   *)
AwaitRoom(c) ==
    /\ chain[c].at = "noRoom"
    /\ IF ChainRoom(active, queue, chainParts)
         THEN chain' = [chain EXCEPT ![c].at = "submitting"] /\ UNCHANGED line
         ELSE chain' = [chain EXCEPT ![c].at = "inLine"] /\ line' = Append(line, c)
    /\ UNCHANGED <<tableVars, version, running, active, queue, chainParts, woken, phase, lookup>>

(* A part's build has ended: the run goes on, or fails with it (outcome).  *)
Built(w) == w.watched /\ w.gives /\ outcome[w.task] = "completed"
FailsRun(w) == w.watched /\ w.gives /\ outcome[w.task] = "failed"

PartEnds(c) ==
    \E w \in chain[c].flight :
        /\ chain[c].at = "blocked"
        /\ ~w.watched \/ outcome[w.task] # "live"
        /\ LET run == [chain[c] EXCEPT !.flight = @ \ {w},
                                       !.built = IF Built(w) THEN @ \union {w.part} ELSE @]
           IN  chain' = [chain EXCEPT ![c] =
                 IF FailsRun(w) THEN [run EXCEPT !.at = "failed"]
                 ELSE IF run.next \notin Parts /\ run.flight = {} THEN [run EXCEPT !.at = "completed"]
                 ELSE GoesOn(run)]
        /\ UNCHANGED <<tableVars, version, registry, lookup>>

-----------------------------------------------------------------------------
(* What goes on outside the registry *)

OtherTask(t) ==
    \/ /\ \E p \in Touched : Start(t, {p})
       /\ UNCHANGED <<version, registry, lookup, chain>>
    \/ /\ \E e \in {"completed", "failed"} : End(t, e)
       /\ UNCHANGED <<version, registry, lookup, chain>>

Change(p) ==
    /\ version[p] < MaxVersion
    /\ version' = [version EXCEPT ![p] = @ + 1]
    /\ UNCHANGED <<tableVars, registry, lookup, chain>>

Next ==
    \/ \E l \in Lookups :
          \/ \E p \in Keys : Join(l, p)
          \/ KeepReach(l) \/ KeepNothing(l) \/ SeeEnd(l) \/ GiveUp(l)
    \/ \E t \in Builds :
          \/ \E e \in Ends : BuildEnds(t, e)
          \/ Finished(t) \/ Panic(t) \/ Recovered(t)
    \/ \E c \in Chains : StartRun(c) \/ Submit(c) \/ AwaitRoom(c) \/ PartEnds(c)
    \/ \E t \in Others : OtherTask(t)
    \/ \E p \in Touched : Change(p)

Spec == Init /\ [][Next]_vars

(* Goroutines that can go on do; builds and the tasks of others end.       *)
FairSpec ==
    /\ Spec
    /\ \A t \in Builds :
          /\ WF_vars((\E e \in Ends : BuildEnds(t, e)) \/ Panic(t))
          /\ WF_vars(Finished(t) \/ Recovered(t))
    /\ \A l \in Lookups : WF_vars(KeepReach(l) \/ KeepNothing(l)) /\ WF_vars(SeeEnd(l))
    /\ \A c \in Chains : WF_vars(Submit(c) \/ AwaitRoom(c) \/ PartEnds(c))
    /\ \A t \in Others : WF_vars(\E e \in Ends : End(t, e) /\ UNCHANGED <<version, registry, lookup, chain>>)

-----------------------------------------------------------------------------
(* Properties *)

InRegistry(t) == phase[t] \in {"queued", "building", "ended"}

TypeOK ==
    /\ outcome \in [TaskIds -> Outcomes]
    /\ holds \in [TaskIds -> SUBSET Keys]
    /\ version \in [Keys -> Versions]
    /\ running \in [Keys -> RunningBuild \union {NoBuild}]
    /\ active \in 0..MaxRunning
    /\ queue \in Seq(Builds) /\ Len(queue) <= MaxQueued
    /\ chainParts \in Nat
    /\ line \in Seq(Chains)
    /\ woken \in SUBSET Chains
    /\ phase \in [Builds -> Phases]
    /\ lookup \in [Lookups -> Lookup]
    /\ chain \in [Chains -> ChainRun]

(* The registry and the task table agree: a live task of a build is in the *)
(* queue or has a goroutine that will end it (a panic included), so its    *)
(* path is not locked for ever, and an entry of running is the build that  *)
(* is queued or runs for that path (addLocked, run, finish).               *)
LiveBuildsAreServed ==
    /\ \A t \in Builds :
          /\ outcome[t] = "live" <=> phase[t] \in {"queued", "building", "unwinding"}
          /\ phase[t] = "queued" <=> \E i \in 1..Len(queue) : queue[i] = t
    /\ \A p \in Keys :
          /\ running[p] # NoBuild => InRegistry(running[p].task) /\ p \in holds[running[p].task]
          /\ running[p] = NoBuild => \A t \in Builds : InRegistry(t) => p \notin holds[t]

(* A slot is counted exactly while a build's goroutine has not finished,   *)
(* and no build waits in the queue while a slot is free (finish, addLocked *)
(* in every order of ends and panics).                                     *)
SlotsAreUsed ==
    /\ active = Cardinality({t \in Builds : phase[t] \in {"building", "ended"}})
    /\ queue # <<>> => active = MaxRunning

(* A run never has more parts in flight than the builds that run at once.  *)
WindowHolds ==
    \A c \in Chains : chain[c].at # "failed" => Cardinality(chain[c].flight) <= MaxRunning

(* However many chains are pending, their part builds take at most half    *)
(* the queue's places, counted truly, so lookups find the other half.      *)
ChainsTakeTheirHalf ==
    /\ chainParts = Cardinality({t \in PartTasks : InRegistry(t)})
    /\ 2 * chainParts <= MaxQueued \/ chainParts <= 1

(* No wake-up is lost: while chains wait in line, a build whose end will   *)
(* wake one is queued or running, or a chain already woken has yet to try  *)
(* and will take the room or pass it on; none waits beside free room       *)
(* otherwise (joinChainPart, awaitChainRoom, finish).                      *)
LineIsWoken ==
    line # <<>> =>
        /\ woken # {} \/ \E t \in Builds : InRegistry(t)
        /\ ChainRoom(active, queue, chainParts) => woken # {}

(* A lookup that waits for a build of the registry waits for one of the    *)
(* text it saw, and a reach kept on a build was measured in the build's    *)
(* text, also when the file changed and the build ended in between (join,  *)
(* keepReach).                                                             *)
SameTextOnly ==
    /\ \A l \in Lookups, p \in Keys :
          lookup[l].at = "joined" /\ running[p].task = lookup[l].task =>
              running[p].identity = lookup[l].identity
    /\ \A p \in Keys : running[p].reach \in {0, running[p].identity}

(* The bookkeeping of the registry is right: types, slots, windows, the    *)
(* table's tasks, the chains' share and the line, and the text of what     *)
(* lookups wait for.                                                       *)
RegistryInv ==
    /\ TypeOK /\ SlotsAreUsed /\ WindowHolds /\ LiveBuildsAreServed
    /\ ChainsTakeTheirHalf /\ LineIsWoken /\ SameTextOnly

(* A lookup that waits is answered, with the build's end at the latest,    *)
(* whatever panics: one closed channel wakes every waiter.                 *)
LookupIsAnswered == \A l \in Lookups : lookup[l].at = "waiting" ~> lookup[l].at = "answered"

(* The run of a chain ends, also when every place is taken and it has to   *)
(* wait in line: no wake-up is lost.                                       *)
RunEnds(c) == chain[c].at = "submitting" ~> chain[c].at \in {"completed", "failed"}

=============================================================================

------------------------- MODULE IndexBuildsProofs -------------------------
(***************************************************************************)
(* Proofs about IndexBuilds, for any lookups, chains, files, slots and     *)
(* places in the queue; about ChainIndexTasks, the registry of the chains' *)
(* tasks, for any chains, tasks and limits; and, in the last part, about   *)
(* ChainDescription, which describes those chains, for any files,          *)
(* rotations, writes, index builds and removals.                           *)
(***************************************************************************)
EXTENDS IndexBuilds, ChainDescription, FiniteSetTheorems, SequenceTheorems, WellFoundedInduction, TLAPS

-----------------------------------------------------------------------------
(* The inductive invariant *)

\* The builds that have a slot, and the chains' part builds.
Slots == {t \in Builds : phase[t] \in {"building", "ended"}}
PartBuilds == {t \in PartTasks : InRegistry(t)}

Types ==
    /\ outcome \in [TaskIds -> Outcomes]
    /\ holds \in [TaskIds -> SUBSET Keys]
    /\ version \in [Keys -> Versions]
    /\ running \in [Keys -> RunningBuild \union {NoBuild}]
    /\ queue \in Seq(Builds)
    /\ line \in Seq(Chains)
    /\ woken \in SUBSET Chains
    /\ phase \in [Builds -> Phases]
    /\ lookup \in [Lookups -> Lookup]
    /\ chain \in [Chains -> ChainRun]

SlotsCounted ==
    /\ IsFiniteSet(Slots) /\ active = Cardinality(Slots) /\ active <= MaxRunning
    /\ queue # <<>> => active = MaxRunning
    /\ Len(queue) <= MaxQueued

PartsCounted ==
    /\ IsFiniteSet(PartBuilds) /\ chainParts = Cardinality(PartBuilds)
    /\ 2 * chainParts <= MaxQueued \/ chainParts <= 1

\* The queue holds each queued build once.
Queued ==
    /\ \A t \in Builds : phase[t] = "queued" <=> \E i \in 1..Len(queue) : queue[i] = t
    /\ \A i, j \in 1..Len(queue) : queue[i] = queue[j] => i = j

\* A build of the registry, its task and its path's entry.
BuildInv(t) ==
    /\ outcome[t] = "live" <=> phase[t] \in {"queued", "building", "unwinding"}
    /\ outcome[t] = "unused" => phase[t] = "none"
    /\ InRegistry(t) => \E k \in Keys : holds[t] = {k} /\ running[k].task = t

EntryInv(p) ==
    /\ running[p] # NoBuild => InRegistry(running[p].task) /\ p \in holds[running[p].task]
    /\ running[p].reach \in {0, running[p].identity}

Entries == (\A t \in Builds : BuildInv(t)) /\ (\A p \in Keys : EntryInv(p))

\* Room is not left to a line nobody of which is about to try.
LineWaits == line # <<>> /\ ChainRoom(active, queue, chainParts) => woken # {}

RunInv(run) ==
    /\ IsFiniteSet(run.flight) /\ Cardinality(run.flight) <= MaxRunning
    /\ run.at = "submitting" => Cardinality(run.flight) < MaxRunning
    /\ run.at \in {"noRoom", "inLine"} => run.flight = {}
    /\ run.at \in {"submitting", "noRoom", "inLine"} => run.next \in Parts
    /\ run.at # "idle" => run.identity \in [Parts -> Versions]

\* A lookup that waits waits for a task that was started, and while its reach
\* may yet be kept, the build of that task is of the text it saw.
LookupInv(l) ==
    /\ lookup[l].at \in {"joined", "waiting"} =>
          lookup[l].path \in Keys /\ lookup[l].task \in TaskIds /\ outcome[lookup[l].task] # "unused"
    /\ lookup[l].at = "joined" =>
          lookup[l].identity \in Versions
          /\ \A p \in Keys : running[p].task = lookup[l].task => running[p].identity = lookup[l].identity

Inv ==
    /\ Types /\ SlotsCounted /\ PartsCounted /\ Queued /\ Entries /\ LineWaits
    /\ \A c \in Chains : RunInv(chain[c])
    /\ \A l \in Lookups : LookupInv(l)

LEMMA Basics ==
    ASSUME BuildsAssumption
    PROVE  /\ Builds \subseteq TaskIds /\ NoTask \notin TaskIds /\ NoTask \notin Builds
           /\ MaxRunning \in Nat /\ MaxRunning >= 1 /\ MaxQueued \in Nat
           /\ MaxChainParts \in Nat /\ MaxChainParts >= 1
           /\ 1 \in Parts /\ Parts \subseteq Nat
           /\ 1 \in Versions /\ MaxVersion \in Nat /\ 0 \notin Versions
           /\ NoBuild.task = NoTask /\ \A b \in RunningBuild : b.task \in Builds /\ b # NoBuild
<1>1. /\ Builds \subseteq TaskIds /\ NoTask \notin TaskIds /\ NoTask \notin Builds
      /\ MaxRunning \in Nat /\ MaxRunning >= 1 /\ MaxQueued \in Nat /\ MaxVersion \in Nat /\ MaxVersion >= 1
  BY DEF BuildsAssumption
<1>2. MaxChainParts \in Nat /\ MaxChainParts >= 1
  BY <1>1 DEF MaxChainParts
<1>3. Cardinality(Parts) \in Nat /\ Parts = 1..Cardinality(Parts) /\ Parts # {}
  BY FS_CardinalityType DEF BuildsAssumption
<1>4. 1 \in Parts /\ Parts \subseteq Nat
  BY <1>3
<1> QED
  BY <1>1, <1>2, <1>4 DEF Versions, NoBuild, RunningBuild

\* Without room for a chain's part, some build is in the registry.
LEMMA NoRoomMeansBuilds ==
    ASSUME BuildsAssumption, SlotsCounted, PartsCounted, ~ChainRoom(active, queue, chainParts)
    PROVE  \E t \in Builds : InRegistry(t)
<1>1. CASE active >= MaxRunning
  <2>1. Slots # {}
    BY <1>1, FS_EmptySet, Basics DEF SlotsCounted
  <2> QED
    BY <2>1 DEF Slots, InRegistry
<1>2. CASE chainParts >= MaxChainParts
  <2>1. PartBuilds # {}
    BY <1>2, FS_EmptySet, Basics DEF PartsCounted
  <2> QED
    BY <2>1 DEF PartBuilds, Builds
<1>3. active \in Nat /\ chainParts \in Nat
  BY FS_CardinalityType DEF SlotsCounted, PartsCounted
<1> QED
  BY <1>1, <1>2, <1>3, Basics DEF ChainRoom, QueueFull

\* Two entries never name one task.
LEMMA EntryIsOwn ==
    ASSUME BuildsAssumption, Types, Entries, NEW p \in Keys, NEW q \in Keys, running[p] # NoBuild,
           running[q].task = running[p].task
    PROVE  p = q
<1>1. /\ running[p] \in RunningBuild /\ running[p].task \in Builds
      /\ running[q] # NoBuild
  BY Basics DEF Types
<1>2. PICK k \in Keys : holds[running[p].task] = {k}
  BY <1>1 DEF Entries, EntryInv, BuildInv
<1> QED
  BY <1>1, <1>2 DEF Entries, EntryInv

-----------------------------------------------------------------------------
(* A new build *)

LEMMA AddKeeps ==
    ASSUME BuildsAssumption, Types, SlotsCounted, PartsCounted, Queued, Entries,
           NEW t \in Builds, NEW p \in Keys, NEW identity \in Versions,
           NewBuild(t, p, identity), running[p] = NoBuild, ~QueueFull(active, queue),
           IF t \in PartTasks THEN chainParts' = chainParts + 1 /\ chainParts < MaxChainParts
                              ELSE chainParts' = chainParts
    PROVE  /\ outcome' \in [TaskIds -> Outcomes] /\ holds' \in [TaskIds -> SUBSET Keys]
           /\ running' \in [Keys -> RunningBuild \union {NoBuild}]
           /\ queue' \in Seq(Builds) /\ phase' \in [Builds -> Phases]
           /\ SlotsCounted' /\ PartsCounted' /\ Queued' /\ Entries'
           /\ outcome[t] = "unused" /\ \A u \in TaskIds : outcome[u] # "unused" => outcome'[u] = outcome[u]
           /\ running'[p].task = t /\ running'[p].identity = identity
           /\ \A q \in Keys \ {p} : running'[q] = running[q]
           /\ ChainRoom(active', queue', chainParts') => ChainRoom(active, queue, chainParts)
<1> DEFINE entry == [task |-> t, identity |-> identity, reach |-> 0]
<1>1. t \in TaskIds /\ active \in Nat /\ active <= MaxRunning /\ chainParts \in Nat /\ Len(queue) \in Nat
  BY Basics, FS_CardinalityType DEF SlotsCounted, PartsCounted, Types
<1>2. /\ outcome[t] = "unused" /\ outcome' = [outcome EXCEPT ![t] = "live"] /\ holds' = [holds EXCEPT ![t] = {p}]
      /\ running' = [running EXCEPT ![p] = entry]
  BY DEF NewBuild, Start
<1>3. entry \in RunningBuild
  BY Basics DEF RunningBuild
<1>4. /\ outcome' \in [TaskIds -> Outcomes] /\ holds' \in [TaskIds -> SUBSET Keys]
      /\ outcome'[t] = "live" /\ holds'[t] = {p}
      /\ \A u \in TaskIds \ {t} : outcome'[u] = outcome[u] /\ holds'[u] = holds[u]
  BY <1>1, <1>2 DEF Types, Outcomes
<1>5. /\ running' \in [Keys -> RunningBuild \union {NoBuild}] /\ running'[p] = entry
      /\ \A q \in Keys \ {p} : running'[q] = running[q]
  BY <1>2, <1>3 DEF Types
<1>6. phase[t] = "none"
  BY <1>2 DEF Entries, BuildInv
<1>7. \A i \in 1..Len(queue) : queue[i] # t
  BY <1>6 DEF Queued
<1>8. ASSUME active < MaxRunning
      PROVE  queue' \in Seq(Builds) /\ SlotsCounted' /\ Queued'
  <2>1. active' = active + 1 /\ phase' = [phase EXCEPT ![t] = "building"] /\ queue' = queue
    BY <1>8 DEF NewBuild, Added
  <2>2. queue = <<>>
    BY <1>1, <1>8, Basics DEF SlotsCounted
  <2>3. /\ phase' \in [Builds -> Phases] /\ phase'[t] = "building"
        /\ \A u \in Builds \ {t} : phase'[u] = phase[u]
    BY <2>1 DEF Types, Phases
  <2>4. Slots' = Slots \union {t} /\ t \notin Slots
    BY <1>6, <2>3 DEF Slots
  <2>5. SlotsCounted'
    <3>1. IsFiniteSet(Slots') /\ Cardinality(Slots') = active + 1
      BY <2>4, FS_AddElement DEF SlotsCounted
    <3> QED
      BY <1>1, <1>8, <2>1, <2>2, <3>1, Basics DEF SlotsCounted
  <2>6. Queued'
    BY <1>6, <2>1, <2>3 DEF Queued
  <2> QED
    BY <2>1, <2>5, <2>6 DEF Types
<1>9. ASSUME ~(active < MaxRunning)
      PROVE  queue' \in Seq(Builds) /\ SlotsCounted' /\ Queued'
  <2>1. active' = active /\ phase' = [phase EXCEPT ![t] = "queued"] /\ queue' = Append(queue, t)
    BY <1>9 DEF NewBuild, Added
  <2>2. /\ phase' \in [Builds -> Phases] /\ phase'[t] = "queued"
        /\ \A u \in Builds \ {t} : phase'[u] = phase[u]
    BY <2>1 DEF Types, Phases
  <2>3. Slots' = Slots
    BY <1>6, <2>2 DEF Slots
  <2>4. /\ queue' \in Seq(Builds) /\ Len(queue') = Len(queue) + 1 /\ queue'[Len(queue) + 1] = t
        /\ \A i \in 1..Len(queue) : queue'[i] = queue[i]
    BY <2>1 DEF Types
  <2>5. active = MaxRunning /\ Len(queue) < MaxQueued
    BY <1>1, <1>9, Basics DEF QueueFull
  <2>6. SlotsCounted'
    BY <1>1, <2>1, <2>3, <2>4, <2>5, Basics DEF SlotsCounted
  <2>7. Queued'
    BY <1>1, <1>7, <2>2, <2>4, SMTT(30) DEF Queued
  <2> QED
    BY <2>4, <2>6, <2>7
<1>10. /\ phase' \in [Builds -> Phases] /\ phase'[t] \in {"building", "queued"}
       /\ \A u \in Builds \ {t} : phase'[u] = phase[u]
  <2>1. phase' = [phase EXCEPT ![t] = "building"] \/ phase' = [phase EXCEPT ![t] = "queued"]
    BY DEF NewBuild, Added
  <2> QED
    BY <2>1 DEF Types, Phases
<1>11. PartsCounted'
  <2>1. CASE t \in PartTasks
    <3>1. PartBuilds' = PartBuilds \union {t} /\ t \notin PartBuilds
      BY <1>6, <1>10, <2>1 DEF PartBuilds, InRegistry, Builds
    <3>2. IsFiniteSet(PartBuilds') /\ Cardinality(PartBuilds') = chainParts + 1
      BY <3>1, FS_AddElement DEF PartsCounted
    <3>3. 2 * (chainParts + 1) <= MaxQueued \/ chainParts + 1 <= 1
      BY <1>1, <2>1, Basics DEF MaxChainParts
    <3> QED
      BY <2>1, <3>2, <3>3 DEF PartsCounted
  <2>2. CASE t \notin PartTasks
    <3>1. PartBuilds' = PartBuilds
      BY <1>10, <2>2 DEF PartBuilds, InRegistry, Builds
    <3> QED
      BY <2>2, <3>1 DEF PartsCounted
  <2> QED
    BY <2>1, <2>2
<1>12. Entries'
  <2>1. ASSUME NEW u \in Builds PROVE BuildInv(u)'
    <3>1. CASE u = t
      BY <1>4, <1>5, <1>10, <3>1 DEF BuildInv, InRegistry
    <3>2. CASE u # t
      <4>1. u \in TaskIds /\ outcome'[u] = outcome[u] /\ holds'[u] = holds[u] /\ phase'[u] = phase[u] /\ BuildInv(u)
        BY <1>4, <1>10, <3>2, Basics DEF Entries
      <4>2. \A k \in Keys : running[k].task = u => running'[k] = running[k]
        BY <1>5, Basics
      <4> QED
        BY <4>1, <4>2 DEF BuildInv, InRegistry
    <3> QED
      BY <3>1, <3>2
  <2>2. ASSUME NEW q \in Keys PROVE EntryInv(q)'
    <3>1. CASE q = p
      BY <1>4, <1>5, <1>10, <3>1 DEF EntryInv, InRegistry
    <3>2. CASE q # p
      <4>1. running'[q] = running[q] /\ EntryInv(q)
        BY <1>5, <3>2 DEF Entries
      <4>2. running[q] # NoBuild => running[q].task \in Builds
        BY Basics DEF Types
      <4>3. running[q] # NoBuild => running[q].task # t
        BY <1>6, <4>1 DEF EntryInv, InRegistry
      <4> QED
        BY <1>4, <1>10, <4>1, <4>2, <4>3, Basics DEF EntryInv, InRegistry
    <3> QED
      BY <3>1, <3>2
  <2> QED
    BY <2>1, <2>2 DEF Entries
<1>13. ChainRoom(active', queue', chainParts') => ChainRoom(active, queue, chainParts)
  <2>1. chainParts' \in Nat /\ chainParts <= chainParts'
    BY <1>1
  <2>2. CASE active < MaxRunning
    BY <1>1, <2>1, <2>2, Basics DEF ChainRoom, QueueFull
  <2>3. CASE ~(active < MaxRunning)
    <3>1. active' = active /\ Len(queue) < MaxQueued
      BY <1>1, <2>3, Basics DEF NewBuild, Added, QueueFull
    <3> QED
      BY <1>1, <2>1, <3>1, Basics DEF ChainRoom, QueueFull
  <2> QED
    BY <2>2, <2>3
<1> QED
  BY <1>2, <1>4, <1>5, <1>8, <1>9, <1>10, <1>11, <1>12, <1>13

-----------------------------------------------------------------------------
(* The end of a build *)

LEMMA FinishKeeps ==
    ASSUME BuildsAssumption, Types, SlotsCounted, PartsCounted, Queued, Entries,
           NEW t \in Builds, NEW last \in {"finished", "unwinding"},
           phase[t] = IF last = "unwinding" THEN "building" ELSE "ended",
           Finish(t, last), UNCHANGED tableVars
    PROVE  /\ running' \in [Keys -> RunningBuild \union {NoBuild}]
           /\ queue' \in Seq(Builds) /\ phase' \in [Builds -> Phases]
           /\ line' \in Seq(Chains) /\ woken' \in SUBSET Chains
           /\ SlotsCounted' /\ PartsCounted' /\ Queued' /\ Entries' /\ LineWaits'
           /\ \A q \in Keys : running'[q] = running[q] \/ running'[q] = NoBuild
<1> DEFINE n == Started(active - 1)
<1>1. active \in Nat /\ active <= MaxRunning /\ chainParts \in Nat /\ Len(queue) \in Nat
  BY FS_CardinalityType DEF SlotsCounted, PartsCounted, Types
<1>2. t \in Slots /\ InRegistry(t)
  BY DEF Slots, InRegistry
<1>3. active >= 1
  BY <1>1, <1>2, FS_EmptySet DEF SlotsCounted
<1>4. n = IF queue = <<>> THEN 0 ELSE 1
  <2>1. CASE queue = <<>>
    BY <1>1, <1>3, <2>1, Basics DEF Started
  <2>2. CASE queue # <<>>
    <3>1. active = MaxRunning /\ Len(queue) >= 1
      BY <2>2 DEF SlotsCounted, Types
    <3> QED
      BY <1>1, <2>2, <3>1, Basics DEF Started
  <2> QED
    BY <2>1, <2>2
<1>5. PICK k \in Keys : holds[t] = {k} /\ running[k].task = t
  BY <1>2 DEF Entries, BuildInv
<1>6. (CHOOSE q \in Keys : holds[t] = {q}) = k
  BY <1>5
<1>7. /\ running' = [running EXCEPT ![k] = NoBuild]
      /\ chainParts' = chainParts - PlaceBack(t)
      /\ active' = active - 1 + n
      /\ queue' = SubSeq(queue, n + 1, Len(queue))
      /\ phase' = [u \in Builds |-> IF u = t THEN last
                                    ELSE IF \E i \in 1..n : queue[i] = u THEN "building"
                                    ELSE phase[u]]
      /\ Wake(active', queue', chainParts', line)
  BY <1>5, <1>6 DEF Finish
<1> HIDE DEF n
<1>8. /\ running' \in [Keys -> RunningBuild \union {NoBuild}] /\ running'[k] = NoBuild
      /\ \A q \in Keys \ {k} : running'[q] = running[q]
  BY <1>7 DEF Types
<1>9. /\ phase' \in [Builds -> Phases] /\ phase'[t] = last
      /\ \A u \in Builds \ {t} : phase'[u] = IF \E i \in 1..n : queue[i] = u THEN "building" ELSE phase[u]
  BY <1>7 DEF Types, Phases
<1>10. \A i \in 1..Len(queue) : queue[i] \in Builds /\ phase[queue[i]] = "queued" /\ queue[i] # t
  BY DEF Types, Queued
\* The slot given back, and taken again by the head of the queue.
<1>11. SlotsCounted' /\ Queued' /\ queue' \in Seq(Builds)
  <2>1. IsFiniteSet(Slots \ {t}) /\ Cardinality(Slots \ {t}) = active - 1
    BY <1>2, FS_RemoveElement DEF SlotsCounted
  <2>2. CASE queue = <<>>
    <3>1. queue' = <<>> /\ active' = active - 1
      BY <1>1, <1>4, <1>7, <2>2
    <3>2. Slots' = Slots \ {t}
      BY <1>4, <1>9, <2>2 DEF Slots
    <3>3. SlotsCounted'
      BY <1>1, <1>3, <2>1, <3>1, <3>2, Basics DEF SlotsCounted
    <3>4. \A u \in Builds : phase'[u] # "queued"
      BY <1>4, <1>9, <2>2 DEF Queued
    <3> QED
      BY <3>1, <3>3, <3>4 DEF Queued
  <2>3. CASE queue # <<>>
    <3> DEFINE h == queue[1]
    <3>1. /\ queue' \in Seq(Builds) /\ Len(queue') = Len(queue) - 1 /\ Len(queue) >= 1
          /\ \A i \in 1..Len(queue) - 1 : queue'[i] = queue[i + 1]
      <4>1. queue' = SubSeq(queue, 2, Len(queue)) /\ queue \in Seq(Builds) /\ Len(queue) >= 1
        BY <1>4, <1>7, <2>3 DEF Types
      <4>2. ASSUME NEW q \in Seq(Builds), Len(q) >= 1
            PROVE  /\ SubSeq(q, 2, Len(q)) \in Seq(Builds) /\ Len(SubSeq(q, 2, Len(q))) = Len(q) - 1
                   /\ \A i \in 1..Len(q) - 1 : SubSeq(q, 2, Len(q))[i] = q[i + 1]
        <5>1. Len(q) \in Int /\ \A i \in 2..Len(q) : q[i] \in Builds
          BY <4>2
        <5>2. /\ SubSeq(q, 2, Len(q)) \in Seq(Builds)
              /\ Len(SubSeq(q, 2, Len(q))) = IF 2 <= Len(q) THEN Len(q) - 2 + 1 ELSE 0
              /\ \A i \in 1..Len(q) - 2 + 1 : SubSeq(q, 2, Len(q))[i] = q[2 + i - 1]
          BY <5>1, SubSeqProperties
        <5>3. ASSUME NEW i \in 1..Len(q) - 1 PROVE SubSeq(q, 2, Len(q))[i] = q[i + 1]
          <6>1. i \in 1..Len(q) - 2 + 1 /\ 2 + i - 1 = i + 1
            BY <5>1
          <6>2. SubSeq(q, 2, Len(q))[i] = q[2 + i - 1]
            BY <5>2, <6>1
          <6> QED
            BY <6>1, <6>2
        <5>4. Len(SubSeq(q, 2, Len(q))) = Len(q) - 1
          <6> DEFINE a == Len(q)
                     m == Len(SubSeq(q, 2, Len(q)))
          <6>1. a \in Int /\ a >= 1 /\ m = IF 2 <= a THEN a - 2 + 1 ELSE 0
            BY <4>2, <5>1, <5>2
          <6> HIDE DEF a, m
          <6>2. m = a - 1
            BY <6>1
          <6> QED
            BY <6>2 DEF a, m
        <5> QED
          BY <5>2, <5>3, <5>4
      <4> QED
        BY <4>1, <4>2
    <3>2. h \in Builds /\ phase[h] = "queued" /\ h # t
      BY <1>10, <3>1
    <3>3. active' = active /\ active = MaxRunning
      BY <1>1, <1>4, <1>7, <2>3, Basics DEF SlotsCounted
    <3>4. phase'[h] = "building" /\ \A u \in Builds \ {t, h} : phase'[u] = phase[u]
      BY <1>4, <1>9, <2>3, <3>2
    <3> HIDE DEF h
    <3>5. Slots' = (Slots \ {t}) \union {h} /\ h \notin Slots
      BY <1>9, <3>2, <3>4 DEF Slots
    <3>6. IsFiniteSet(Slots') /\ Cardinality(Slots') = active
      <4>1. h \notin Slots \ {t}
        BY <3>5
      <4>2. IsFiniteSet((Slots \ {t}) \union {h}) /\ Cardinality((Slots \ {t}) \union {h}) = (active - 1) + 1
        BY <2>1, <4>1, FS_AddElement
      <4> QED
        BY <1>1, <3>5, <4>2
    <3>7. Len(queue) <= MaxQueued
      BY DEF SlotsCounted
    <3>8. SlotsCounted'
      BY <1>1, <3>1, <3>3, <3>6, <3>7, Basics DEF SlotsCounted
    <3>9. Queued'
      <4>1. \A i, j \in 1..Len(queue) : queue[i] = queue[j] => i = j
        BY DEF Queued
      <4>2. ASSUME NEW i \in 1..Len(queue'), NEW j \in 1..Len(queue'), queue'[i] = queue'[j]
            PROVE  i = j
        <5>1. Len(queue) \in Int
          BY <1>1
        <5>2. /\ i \in 1..Len(queue) - 1 /\ i + 1 \in 1..Len(queue)
              /\ j \in 1..Len(queue) - 1 /\ j + 1 \in 1..Len(queue)
          BY <3>1, <4>2, <5>1
        <5>3. i + 1 = j + 1
          BY <3>1, <4>1, <4>2, <5>2
        <5> QED
          BY <5>2, <5>3
      <4>3. ASSUME NEW u \in Builds, phase'[u] = "queued" PROVE \E i \in 1..Len(queue') : queue'[i] = u
        <5>1. u # t /\ u # h /\ phase[u] = "queued"
          BY <1>9, <3>2, <3>4, <4>3
        <5>2. PICK i \in 1..Len(queue) : queue[i] = u
          BY <5>1 DEF Queued
        <5>3. i # 1
          BY <5>1, <5>2 DEF h
        <5>4. i - 1 \in 1..Len(queue') /\ i - 1 \in 1..Len(queue) - 1 /\ (i - 1) + 1 = i
          BY <1>1, <3>1, <5>2, <5>3
        <5>5. queue'[i - 1] = u
          BY <3>1, <5>2, <5>4
        <5> QED
          BY <5>4, <5>5
      <4>4. ASSUME NEW u \in Builds, NEW i \in 1..Len(queue'), queue'[i] = u PROVE phase'[u] = "queued"
        <5>1. i + 1 \in 1..Len(queue) /\ queue[i + 1] = u /\ 1 \in 1..Len(queue)
          BY <1>1, <3>1, <4>4
        <5>2. u # h /\ u # t /\ phase[u] = "queued"
          BY <1>10, <4>1, <5>1 DEF h
        <5> QED
          BY <3>4, <5>2
      <4> QED
        BY <4>2, <4>3, <4>4 DEF Queued
    <3> QED
      BY <3>1, <3>8, <3>9
  <2> QED
    BY <2>2, <2>3
<1>12. \A u \in Builds \ {t} :
         \/ phase'[u] = phase[u]
         \/ phase[u] = "queued" /\ phase'[u] = "building"
  BY <1>1, <1>4, <1>9, <1>10
<1>13. PartsCounted'
  <2>1. CASE t \in PartTasks
    <3>1. PartBuilds' = PartBuilds \ {t} /\ t \in PartBuilds
      BY <1>2, <1>9, <1>12, <2>1 DEF PartBuilds, InRegistry, Builds
    <3>2. IsFiniteSet(PartBuilds') /\ Cardinality(PartBuilds') = chainParts - 1
      BY <3>1, FS_RemoveElement DEF PartsCounted
    <3>3. chainParts' = chainParts - 1 /\ chainParts >= 1
      <4>1. chainParts # 0
        BY <3>1, FS_EmptySet DEF PartsCounted
      <4> QED
        BY <1>1, <1>7, <2>1, <4>1 DEF PlaceBack
    <3>4. 2 * chainParts <= MaxQueued \/ chainParts <= 1
      BY DEF PartsCounted
    <3>5. 2 * (chainParts - 1) <= MaxQueued \/ chainParts - 1 <= 1
      BY <1>1, <3>4, Basics
    <3> QED
      BY <3>2, <3>3, <3>5 DEF PartsCounted
  <2>2. CASE t \notin PartTasks
    <3>1. \A u \in PartTasks : InRegistry(u)' <=> InRegistry(u)
      BY <1>12, <2>2 DEF InRegistry, Builds
    <3>2. PartBuilds' = PartBuilds
      BY <3>1 DEF PartBuilds
    <3>3. chainParts' = chainParts
      BY <1>1, <1>7, <2>2 DEF PlaceBack
    <3> QED
      BY <3>2, <3>3 DEF PartsCounted
  <2> QED
    BY <2>1, <2>2
<1>14. Entries'
  <2>1. UNCHANGED <<outcome, holds>>
    BY DEF tableVars
  <2>2. ASSUME NEW u \in Builds PROVE BuildInv(u)'
    <3>1. CASE u = t
      BY <1>9, <2>1, <3>1 DEF Entries, BuildInv, InRegistry
    <3>2. CASE u # t
      <4>1. BuildInv(u) /\ (phase'[u] = phase[u] \/ (phase[u] = "queued" /\ phase'[u] = "building"))
        BY <1>12, <3>2 DEF Entries
      <4>2. \A q \in Keys : running[q].task = u => running'[q] = running[q]
        BY <1>5, <1>8, <3>2
      <4> QED
        BY <2>1, <4>1, <4>2 DEF BuildInv, InRegistry
    <3> QED
      BY <3>1, <3>2
  <2>3. ASSUME NEW q \in Keys PROVE EntryInv(q)'
    <3>1. CASE q = k
      BY <1>8, <3>1 DEF EntryInv, NoBuild
    <3>2. CASE q # k
      <4>1. running'[q] = running[q] /\ EntryInv(q)
        BY <1>8, <3>2 DEF Entries
      <4>2. running[q] # NoBuild => running[q].task \in Builds
        BY Basics DEF Types
      <4>3. running[q] # NoBuild => running[q].task # t
        BY <1>5, <3>2, <4>1 DEF EntryInv
      <4> QED
        BY <1>12, <2>1, <4>1, <4>2, <4>3 DEF EntryInv, InRegistry
    <3> QED
      BY <3>1, <3>2
  <2> QED
    BY <2>2, <2>3 DEF Entries
<1>15. line' \in Seq(Chains) /\ woken' \in SUBSET Chains /\ LineWaits'
  <2>1. CASE line # <<>> /\ ChainRoom(active', queue', chainParts')
    <3>1. line' = Tail(line) /\ woken' = woken \union {Head(line)}
      BY <1>7, <2>1 DEF Wake
    <3>2. Tail(line) \in Seq(Chains) /\ Head(line) \in Chains
      BY <2>1 DEF Types
    <3> QED
      BY <3>1, <3>2 DEF LineWaits, Types
  <2>2. CASE ~(line # <<>> /\ ChainRoom(active', queue', chainParts'))
    <3>1. line' = line /\ woken' = woken
      BY <1>7, <2>2 DEF Wake
    <3> QED
      BY <2>2, <3>1 DEF LineWaits, Types
  <2> QED
    BY <2>1, <2>2
<1> QED
  BY <1>8, <1>9, <1>11, <1>13, <1>14, <1>15

-----------------------------------------------------------------------------
(* Lookups *)

\* A lookup is not misled by what happens to the entries meanwhile.
LEMMA LookupRests ==
    ASSUME BuildsAssumption, Inv, NEW l \in Lookups, lookup'[l] = lookup[l],
           \A u \in TaskIds : outcome[u] # "unused" => outcome'[u] # "unused",
           \A q \in Keys :
              \/ running'[q].task = running[q].task /\ running'[q].identity = running[q].identity
              \/ running'[q] = NoBuild
              \/ running'[q].task \in TaskIds /\ outcome[running'[q].task] = "unused"
    PROVE  LookupInv(l)'
<1>1. LookupInv(l) /\ lookup[l] \in Lookup
  BY DEF Inv, Types
<1>2. ASSUME lookup[l].at = "joined", NEW q \in Keys, running'[q].task = lookup[l].task
      PROVE  running'[q].identity = lookup[l].identity
  BY <1>1, <1>2, Basics DEF LookupInv
<1> QED
  BY <1>1, <1>2 DEF LookupInv

LEMMA RegistryRests ==
    ASSUME BuildsAssumption, Inv, UNCHANGED <<tableVars, registry>>
    PROVE  /\ SlotsCounted' /\ PartsCounted' /\ Queued' /\ Entries' /\ LineWaits'
           /\ outcome' \in [TaskIds -> Outcomes] /\ holds' \in [TaskIds -> SUBSET Keys]
           /\ running' \in [Keys -> RunningBuild \union {NoBuild}]
           /\ queue' \in Seq(Builds) /\ line' \in Seq(Chains) /\ woken' \in SUBSET Chains
           /\ phase' \in [Builds -> Phases]
<1>1. Slots' = Slots /\ PartBuilds' = PartBuilds
  BY DEF Slots, PartBuilds, InRegistry, registry
<1>2. SlotsCounted' /\ PartsCounted' /\ Queued' /\ LineWaits'
  BY <1>1 DEF Inv, SlotsCounted, PartsCounted, Queued, LineWaits, registry
<1>3. Entries'
  BY DEF Inv, Entries, BuildInv, EntryInv, InRegistry, registry, tableVars
<1> QED
  BY <1>2, <1>3 DEF Inv, Types, registry, tableVars

\* A step of one lookup alone.
LEMMA LookupMoves ==
    ASSUME BuildsAssumption, Inv, NEW l \in Lookups, UNCHANGED <<tableVars, version, registry, chain>>,
           NEW r \in Lookup, lookup' = [lookup EXCEPT ![l] = r],
           r.at \in {"joined", "waiting"} =>
              r.path \in Keys /\ r.task \in TaskIds /\ outcome[r.task] # "unused",
           r.at = "joined" =>
              r.identity \in Versions /\ \A p \in Keys : running[p].task = r.task => running[p].identity = r.identity
    PROVE  Inv'
<1>1. /\ lookup' \in [Lookups -> Lookup] /\ lookup'[l] = r /\ \A m \in Lookups \ {l} : lookup'[m] = lookup[m]
  BY DEF Inv, Types
<1>2. LookupInv(l)'
  BY <1>1 DEF LookupInv, tableVars, registry
<1>3. \A m \in Lookups \ {l} : LookupInv(m)'
  BY <1>1, LookupRests DEF tableVars, registry
<1>4. \A c \in Chains : RunInv(chain[c])'
  BY DEF Inv, RunInv
<1> QED
  BY <1>1, <1>2, <1>3, <1>4, RegistryRests DEF Inv, Types

LEMMA WaitEnds ==
    ASSUME BuildsAssumption, Inv, NEW l \in Lookups, KeepNothing(l) \/ SeeEnd(l) \/ GiveUp(l)
    PROVE  Inv'
<1>1. lookup[l] \in Lookup /\ lookup[l].at \in {"joined", "waiting"} /\ LookupInv(l)
  BY DEF Inv, Types, KeepNothing, SeeEnd, GiveUp
<1>2. UNCHANGED <<tableVars, version, registry, chain>>
  BY DEF KeepNothing, SeeEnd, GiveUp
<1>3. ASSUME NEW a \in {"lines", "pending", "gone"},
             lookup' = [lookup EXCEPT ![l].at = "answered", ![l].answer = a]
      PROVE  Inv'
  <2> DEFINE r == [lookup[l] EXCEPT !.at = "answered", !.answer = a]
  <2>1. r \in Lookup /\ r.at = "answered"
    BY <1>1 DEF Lookup
  <2>2. lookup' = [lookup EXCEPT ![l] = r]
    BY <1>3 DEF Inv, Types
  <2> HIDE DEF r
  <2> QED
    BY <1>2, <2>1, <2>2, LookupMoves
<1>4. ASSUME lookup' = [lookup EXCEPT ![l].at = "waiting"]
      PROVE  Inv'
  <2> DEFINE r == [lookup[l] EXCEPT !.at = "waiting"]
  <2>1. r \in Lookup /\ r.at = "waiting" /\ r.path = lookup[l].path /\ r.task = lookup[l].task
    BY <1>1 DEF Lookup
  <2>2. lookup' = [lookup EXCEPT ![l] = r]
    BY <1>4 DEF Inv, Types
  <2> HIDE DEF r
  <2> QED
    BY <1>1, <1>2, <2>1, <2>2, LookupMoves DEF LookupInv
<1> QED
  BY <1>3, <1>4 DEF KeepNothing, SeeEnd, GiveUp

\* The reach is kept on the build only while that is of the text it was
\* measured in.
LEMMA ReachKeeps ==
    ASSUME BuildsAssumption, Inv, NEW l \in Lookups, KeepReach(l)
    PROVE  Inv'
<1> DEFINE p == lookup[l].path
           r == [lookup[l] EXCEPT !.at = "waiting"]
<1>1. /\ lookup[l] \in Lookup /\ lookup[l].at = "joined" /\ LookupInv(l) /\ p \in Keys
      /\ lookup[l].task \in TaskIds /\ lookup[l].identity \in Versions
  BY DEF Inv, Types, KeepReach, LookupInv
<1>2. r \in Lookup /\ r.at = "waiting" /\ r.path = p /\ r.task = lookup[l].task
  BY <1>1 DEF Lookup
<1>3. lookup' = [lookup EXCEPT ![l] = r]
  BY DEF Inv, Types, KeepReach
<1>4. CASE ~SameBuild(l)
  <2>1. UNCHANGED <<tableVars, version, registry, chain>>
    BY <1>4 DEF KeepReach, registry
  <2> HIDE DEF r
  <2> QED
    BY <1>1, <1>2, <1>3, <2>1, LookupMoves DEF LookupInv
<1>5. CASE SameBuild(l)
  <2> DEFINE e == [running[p] EXCEPT !.reach = lookup[l].identity]
  <2>1. /\ running[p].task = lookup[l].task /\ running[p].identity = lookup[l].identity
        /\ running' = [running EXCEPT ![p].reach = lookup[l].identity]
        /\ UNCHANGED <<tableVars, version, active, queue, chainParts, line, woken, phase, chain>>
    BY <1>5 DEF SameBuild, KeepReach
  <2>2. running[p] \in RunningBuild
    BY <1>1, <2>1, Basics DEF Inv, Types
  <2>3. /\ e \in RunningBuild /\ e.task = running[p].task /\ e.identity = running[p].identity
        /\ e.reach = e.identity
    BY <1>1, <2>1, <2>2 DEF RunningBuild, Versions
  <2>4. running' = [running EXCEPT ![p] = e]
    BY <2>1 DEF Inv, Types
  <2> HIDE DEF e, r
  <2>5. /\ running' \in [Keys -> RunningBuild \union {NoBuild}] /\ running'[p] = e
        /\ \A q \in Keys \ {p} : running'[q] = running[q]
    BY <1>1, <2>3, <2>4 DEF Inv, Types
  <2>6. \A q \in Keys : running'[q].task = running[q].task /\ running'[q].identity = running[q].identity
    BY <2>3, <2>5
  <2>7. Entries'
    <3>1. ASSUME NEW t \in Builds PROVE BuildInv(t)'
      BY <2>1, <2>6 DEF Inv, Entries, BuildInv, InRegistry, tableVars
    <3>2. ASSUME NEW q \in Keys PROVE EntryInv(q)'
      <4>1. CASE q = p
        <5>1. running[p] # NoBuild
          BY <2>2, Basics
        <5> QED
          BY <2>1, <2>3, <2>5, <4>1, <5>1 DEF Inv, Entries, EntryInv, InRegistry, tableVars
      <4>2. CASE q # p
        BY <2>1, <2>5, <4>2 DEF Inv, Entries, EntryInv, InRegistry, tableVars
      <4> QED
        BY <4>1, <4>2
    <3> QED
      BY <3>1, <3>2 DEF Entries
  <2>8. SlotsCounted' /\ PartsCounted' /\ Queued' /\ LineWaits'
    <3>1. Slots' = Slots /\ PartBuilds' = PartBuilds
      BY <2>1 DEF Slots, PartBuilds, InRegistry
    <3> QED
      BY <2>1, <3>1 DEF Inv, SlotsCounted, PartsCounted, Queued, LineWaits
  <2>9. lookup' \in [Lookups -> Lookup] /\ lookup'[l] = r /\ \A m \in Lookups \ {l} : lookup'[m] = lookup[m]
    BY <1>2, <1>3 DEF Inv, Types
  <2>10. LookupInv(l)'
    BY <1>1, <1>2, <2>1, <2>9 DEF LookupInv, tableVars
  <2>11. \A m \in Lookups \ {l} : LookupInv(m)'
    BY <2>1, <2>6, <2>9, LookupRests DEF tableVars
  <2>12. \A c \in Chains : RunInv(chain[c])'
    BY <2>1 DEF Inv, RunInv
  <2> QED
    BY <2>1, <2>5, <2>7, <2>8, <2>9, <2>10, <2>11, <2>12 DEF Inv, Types, tableVars
<1> QED
  BY <1>4, <1>5

LEMMA HolderHolds ==
    ASSUME BuildsAssumption, NEW p \in Keys, Holder(p) # NoTask
    PROVE  Holder(p) \in TaskIds /\ outcome[Holder(p)] = "live" /\ p \in holds[Holder(p)]
<1>1. HoldersOf(p) # {} /\ Holder(p) \in HoldersOf(p)
  BY DEF Holder
<1> QED
  BY <1>1 DEF HoldersOf

\* The task that holds a path without an entry has no entry for another path.
LEMMA HolderHasEntry ==
    ASSUME BuildsAssumption, Inv, NEW p \in Keys, NEW q \in Keys,
           Holder(p) # NoTask, running[p] = NoBuild
    PROVE  running[q].task # Holder(p)
<1>1. Holder(p) \in TaskIds /\ p \in holds[Holder(p)]
  BY HolderHolds
<1> SUFFICES ASSUME running[q].task = Holder(p) PROVE FALSE
  OBVIOUS
<1>2. running[q] # NoBuild /\ running[q] \in RunningBuild
  BY <1>1, Basics DEF Inv, Types
<1>3. Holder(p) \in Builds /\ InRegistry(Holder(p)) /\ q \in holds[Holder(p)]
  BY <1>2, Basics DEF Inv, Entries, EntryInv
<1>4. PICK k \in Keys : holds[Holder(p)] = {k} /\ running[k].task = Holder(p)
  BY <1>3 DEF Inv, Entries, BuildInv
<1> QED
  BY <1>1, <1>4, Basics

\* What a lookup shows while it waits for task t.
Waiting(p, t) == [NoLookup EXCEPT !.at = "joined", !.path = p, !.identity = version[p], !.task = t]

LEMMA WaitingTypes ==
    ASSUME BuildsAssumption, Types, NEW p \in Keys, NEW t \in TaskIds
    PROVE  /\ Waiting(p, t) \in Lookup /\ Waiting(p, t).at = "joined" /\ Waiting(p, t).path = p
           /\ Waiting(p, t).task = t /\ Waiting(p, t).identity = version[p] /\ version[p] \in Versions
<1>1. version[p] \in Versions /\ version[p] \in 0..MaxVersion
  BY Basics DEF Types, Versions
<1> QED
  BY <1>1 DEF Waiting, NoLookup, Lookup

LEMMA ReadsKeeps ==
    ASSUME BuildsAssumption, Inv, NEW l \in Lookups, Reads(l), UNCHANGED <<tableVars, version, registry, chain>>
    PROVE  Inv'
<1> DEFINE r == [NoLookup EXCEPT !.at = "answered", !.answer = "lines"]
<1>1. r \in Lookup /\ r.at = "answered"
  <2>1. 0 \in 0..MaxVersion
    BY Basics
  <2> QED
    BY <2>1 DEF NoLookup, Lookup
<1>2. lookup' = [lookup EXCEPT ![l] = r]
  BY DEF Reads
<1> HIDE DEF r
<1> QED
  BY <1>1, <1>2, LookupMoves

LEMMA JoinKeeps ==
    ASSUME BuildsAssumption, Inv, NEW l \in Lookups, NEW p \in Keys, Join(l, p)
    PROVE  Inv'
<1>1. Types /\ Entries
  BY DEF Inv
<1>2. ASSUME NEW t \in TaskIds, Waits(l, p, t), UNCHANGED <<tableVars, version, registry, chain>>,
             outcome[t] # "unused", \A q \in Keys : running[q].task = t => running[q].identity = version[p]
      PROVE  Inv'
  <2>1. lookup' = [lookup EXCEPT ![l] = Waiting(p, t)]
    BY <1>2 DEF Waits, Waiting
  <2> DEFINE r == Waiting(p, t)
  <2>2. /\ r \in Lookup /\ r.at = "joined" /\ r.path = p /\ r.task = t
        /\ r.identity = version[p] /\ version[p] \in Versions
    BY <1>1, <1>2, WaitingTypes
  <2>3. lookup' = [lookup EXCEPT ![l] = r]
    BY <2>1
  <2> HIDE DEF r
  <2> QED
    BY <1>2, <2>2, <2>3, LookupMoves
<1>3. UNCHANGED <<version, chain>>
  BY DEF Join
<1>4. CASE running[p] # NoBuild /\ (IF Serves(p) THEN Waits(l, p, running[p].task) ELSE Reads(l))
           /\ UNCHANGED <<tableVars, registry>>
  <2>1. running[p] \in RunningBuild /\ running[p].task \in Builds /\ running[p].task \in TaskIds
    BY <1>1, <1>4, Basics DEF Types
  <2>2. InRegistry(running[p].task)
    BY <1>1, <1>4 DEF Entries, EntryInv
  <2>3. outcome[running[p].task] # "unused"
    BY <1>1, <2>1, <2>2 DEF Entries, BuildInv, InRegistry
  <2>4. ASSUME Serves(p), NEW q \in Keys, running[q].task = running[p].task
        PROVE  running[q].identity = version[p]
    <3>1. p = q
      BY <1>1, <1>4, <2>4, EntryIsOwn
    <3> QED
      BY <2>4, <3>1 DEF Serves
  <2> QED
    BY <1>2, <1>3, <1>4, <2>1, <2>3, <2>4, ReadsKeeps
<1>5. CASE running[p] = NoBuild /\ (IF IsIndex(Holder(p)) THEN Waits(l, p, Holder(p)) ELSE Reads(l))
           /\ UNCHANGED <<tableVars, registry>>
  <2>1. CASE IsIndex(Holder(p))
    <3>1. Holder(p) # NoTask
      BY <2>1 DEF IsIndex
    <3>2. Holder(p) \in TaskIds /\ outcome[Holder(p)] # "unused"
      BY <3>1, HolderHolds
    <3>3. \A q \in Keys : running[q].task # Holder(p)
      BY <1>5, <3>1, HolderHasEntry
    <3> QED
      BY <1>2, <1>3, <1>5, <2>1, <3>2, <3>3
  <2>2. CASE ~IsIndex(Holder(p))
    BY <1>3, <1>5, <2>2, ReadsKeeps
  <2> QED
    BY <2>1, <2>2
<1>6. CASE /\ running[p] = NoBuild /\ ~QueueFull(active, queue) /\ NewBuild(l, p, version[p])
           /\ Waits(l, p, l) /\ UNCHANGED <<chainParts, line, woken>>
  <2>1. l \in Builds /\ l \in TaskIds /\ l \notin PartTasks
    BY DEF Builds, BuildsAssumption
  <2>2. version[p] \in Versions
    BY <1>1 DEF Types
  <2>3. /\ outcome' \in [TaskIds -> Outcomes] /\ holds' \in [TaskIds -> SUBSET Keys]
        /\ running' \in [Keys -> RunningBuild \union {NoBuild}]
        /\ queue' \in Seq(Builds) /\ phase' \in [Builds -> Phases]
        /\ SlotsCounted' /\ PartsCounted' /\ Queued' /\ Entries'
        /\ outcome[l] = "unused" /\ \A u \in TaskIds : outcome[u] # "unused" => outcome'[u] = outcome[u]
        /\ running'[p].task = l /\ running'[p].identity = version[p]
        /\ \A q \in Keys \ {p} : running'[q] = running[q]
        /\ ChainRoom(active', queue', chainParts') => ChainRoom(active, queue, chainParts)
    BY <1>6, <2>1, <2>2, AddKeeps DEF Inv
  <2>4. LineWaits'
    BY <1>6, <2>3 DEF Inv, LineWaits
  <2>5. lookup' = [lookup EXCEPT ![l] = Waiting(p, l)]
    BY <1>6 DEF Waits, Waiting
  <2>6. /\ Waiting(p, l) \in Lookup /\ Waiting(p, l).at = "joined" /\ Waiting(p, l).path = p
        /\ Waiting(p, l).task = l /\ Waiting(p, l).identity = version[p]
    BY <1>1, <2>1, WaitingTypes
  <2>7. /\ lookup' \in [Lookups -> Lookup] /\ lookup'[l] = Waiting(p, l)
        /\ \A m \in Lookups \ {l} : lookup'[m] = lookup[m]
    BY <1>1, <2>5, <2>6 DEF Types
  <2>8. outcome'[l] # "unused"
    BY <1>6, <2>1 DEF NewBuild, Start, Inv, Types
  <2>9. \A q \in Keys \ {p} : running[q].task # l
    <3>1. ASSUME NEW q \in Keys, running[q].task = l PROVE FALSE
      <4>1. running[q] # NoBuild
        BY <2>1, <3>1, Basics
      <4>2. InRegistry(l)
        BY <1>1, <3>1, <4>1 DEF Entries, EntryInv
      <4> QED
        BY <1>1, <2>1, <2>3, <4>2 DEF Entries, BuildInv, InRegistry
    <3> QED
      BY <3>1
  <2>10. LookupInv(l)'
    BY <2>1, <2>2, <2>3, <2>6, <2>7, <2>8, <2>9 DEF LookupInv
  <2>11. \A m \in Lookups \ {l} : LookupInv(m)'
    <3>1. \A u \in TaskIds : outcome[u] # "unused" => outcome'[u] # "unused"
      BY <2>3
    <3> QED
      BY <2>1, <2>3, <2>7, <3>1, LookupRests
  <2>12. \A c \in Chains : RunInv(chain[c])'
    BY <1>3 DEF Inv, RunInv
  <2> QED
    BY <1>3, <1>6, <2>3, <2>4, <2>7, <2>10, <2>11, <2>12 DEF Inv, Types
<1> QED
  BY <1>4, <1>5, <1>6 DEF Join

-----------------------------------------------------------------------------
(* Builds *)

\* What the end of a build does to the lookups and the runs: nothing.
LEMMA EndTypes ==
    ASSUME BuildsAssumption, Types, NEW t \in TaskIds, NEW e \in Ends, End(t, e)
    PROVE  /\ outcome' \in [TaskIds -> Outcomes] /\ outcome'[t] = e /\ e \notin {"live", "unused"}
           /\ outcome[t] = "live" /\ holds' = holds
           /\ \A u \in TaskIds \ {t} : outcome'[u] = outcome[u]
           /\ \A u \in TaskIds : outcome[u] # "unused" => outcome'[u] # "unused"
BY DEF Types, End, Outcomes, Ends

LEMMA BuildEndsKeeps ==
    ASSUME BuildsAssumption, Inv, NEW t \in Builds, NEW e \in Ends, NEW next \in {"ended", "finished"},
           phase[t] = (IF next = "ended" THEN "building" ELSE "unwinding"), End(t, e),
           phase' = [phase EXCEPT ![t] = next],
           UNCHANGED <<version, running, active, queue, chainParts, line, woken, lookup, chain>>
    PROVE  Inv'
<1>1. t \in TaskIds /\ Types
  BY Basics DEF Inv
<1>2. /\ outcome' \in [TaskIds -> Outcomes] /\ outcome'[t] = e /\ e \notin {"live", "unused"}
      /\ holds' = holds
      /\ \A u \in TaskIds \ {t} : outcome'[u] = outcome[u]
      /\ \A u \in TaskIds : outcome[u] # "unused" => outcome'[u] # "unused"
  BY <1>1, EndTypes
<1>3. phase' \in [Builds -> Phases] /\ phase'[t] = next /\ \A u \in Builds \ {t} : phase'[u] = phase[u]
  BY <1>1 DEF Types, Phases
<1>4. \A u \in Builds : InRegistry(u)' <=> InRegistry(u)
  BY <1>3 DEF InRegistry
<1>5. Slots' = Slots
  BY <1>3 DEF Slots
<1>6. PartBuilds' = PartBuilds
  BY <1>4 DEF PartBuilds, Builds
<1>7. SlotsCounted' /\ PartsCounted' /\ LineWaits'
  BY <1>5, <1>6 DEF Inv, SlotsCounted, PartsCounted, LineWaits
<1>8. Queued'
  BY <1>3 DEF Inv, Queued
<1>9. Entries'
  <2>1. ASSUME NEW u \in Builds PROVE BuildInv(u)'
    BY <1>2, <1>3, <1>4, Basics DEF Inv, Entries, BuildInv
  <2>2. ASSUME NEW q \in Keys PROVE EntryInv(q)'
    <3>1. running[q] # NoBuild => running[q].task \in Builds
      BY <1>1, Basics DEF Types
    <3> QED
      BY <1>2, <1>4, <3>1 DEF Inv, Entries, EntryInv
  <2> QED
    BY <2>1, <2>2 DEF Entries
<1>10. \A l \in Lookups : LookupInv(l)'
  BY <1>2, LookupRests
<1>11. \A c \in Chains : RunInv(chain[c])'
  BY DEF Inv, RunInv
<1> QED
  BY <1>1, <1>2, <1>3, <1>7, <1>8, <1>9, <1>10, <1>11 DEF Inv, Types

LEMMA FinishedKeeps ==
    ASSUME BuildsAssumption, Inv, NEW t \in Builds, Finished(t) \/ Panic(t)
    PROVE  Inv'
<1>1. PICK last \in {"finished", "unwinding"} :
         phase[t] = (IF last = "unwinding" THEN "building" ELSE "ended") /\ Finish(t, last)
  BY DEF Finished, Panic
<1>2. UNCHANGED <<tableVars, version, lookup, chain>>
  BY DEF Finished, Panic
<1>3. /\ running' \in [Keys -> RunningBuild \union {NoBuild}]
      /\ queue' \in Seq(Builds) /\ phase' \in [Builds -> Phases]
      /\ line' \in Seq(Chains) /\ woken' \in SUBSET Chains
      /\ SlotsCounted' /\ PartsCounted' /\ Queued' /\ Entries' /\ LineWaits'
      /\ \A q \in Keys : running'[q] = running[q] \/ running'[q] = NoBuild
  BY <1>1, <1>2, FinishKeeps DEF Inv
<1>4. \A l \in Lookups : LookupInv(l)'
  BY <1>2, <1>3, LookupRests DEF tableVars
<1>5. \A c \in Chains : RunInv(chain[c])'
  BY <1>2 DEF Inv, RunInv
<1> QED
  BY <1>2, <1>3, <1>4, <1>5 DEF Inv, Types, tableVars

-----------------------------------------------------------------------------
(* Runs of chains *)

LEMMA RunMoves ==
    ASSUME BuildsAssumption, Inv, NEW c \in Chains, NEW r \in ChainRun, RunInv(r),
           chain' = [chain EXCEPT ![c] = r]
    PROVE  chain' \in [Chains -> ChainRun] /\ \A d \in Chains : RunInv(chain[d])'
<1>1. /\ chain' \in [Chains -> ChainRun] /\ chain'[c] = r
      /\ \A d \in Chains \ {c} : chain'[d] = chain[d]
  BY DEF Inv, Types
<1>2. \A d \in Chains : RunInv(chain'[d])
  BY <1>1 DEF Inv
<1> QED
  BY <1>1, <1>2 DEF RunInv

LEMMA GoesOnFits ==
    ASSUME BuildsAssumption, NEW run \in ChainRun, IsFiniteSet(run.flight),
           Cardinality(run.flight) <= MaxRunning, run.identity \in [Parts -> Versions]
    PROVE  GoesOn(run) \in ChainRun /\ RunInv(GoesOn(run))
<1> DEFINE r == GoesOn(run)
<1>1. /\ r \in ChainRun /\ r.flight = run.flight /\ r.next = run.next /\ r.identity = run.identity
      /\ r.at = IF InWindow(run) THEN "submitting" ELSE "blocked"
  BY DEF GoesOn, ChainRun
<1> HIDE DEF r
<1>2. RunInv(r)
  BY <1>1 DEF RunInv, InWindow
<1> QED
  BY <1>1, <1>2 DEF r

LEMMA SubmittedKeeps ==
    ASSUME BuildsAssumption, Inv, NEW c \in Chains, Submitting(c),
           NEW t \in TaskIds, NEW gives \in BOOLEAN, NEW watched \in BOOLEAN,
           Submitted(c, t, gives, watched)
    PROVE  chain' \in [Chains -> ChainRun] /\ \A d \in Chains : RunInv(chain[d])'
<1> DEFINE run == chain[c]
           wait == [part |-> run.next, task |-> t, gives |-> gives, watched |-> watched]
           r == [run EXCEPT !.next = @ + 1, !.flight = @ \union {wait}]
<1>1. run \in ChainRun /\ run.at \in {"submitting", "inLine"} /\ RunInv(run)
  BY DEF Inv, Types, Submitting
<1>2. /\ IsFiniteSet(run.flight) /\ run.next \in Parts /\ run.identity \in [Parts -> Versions]
      /\ run.flight \subseteq PartWait
  BY <1>1 DEF RunInv, ChainRun
<1>3. Cardinality(run.flight) < MaxRunning /\ Cardinality(run.flight) \in Nat
  BY <1>1, <1>2, FS_EmptySet, FS_CardinalityType, Basics DEF RunInv
<1>4. wait \in PartWait
  BY <1>2 DEF PartWait
<1>5. chain' = [chain EXCEPT ![c] = GoesOn(r)]
  BY DEF Submitted
<1> HIDE DEF wait
<1>6. r \in ChainRun /\ r.flight = run.flight \union {wait} /\ r.identity = run.identity
  <2>1. run.flight \union {wait} \in SUBSET PartWait /\ run.next + 1 \in Nat
    BY <1>2, <1>4, Basics
  <2> QED
    BY <1>1, <2>1 DEF ChainRun
<1> HIDE DEF r, run
<1>7. IsFiniteSet(r.flight) /\ Cardinality(r.flight) <= MaxRunning
  <2> DEFINE flight == run.flight
  <2>1. IsFiniteSet(flight \union {wait})
        /\ Cardinality(flight \union {wait}) = IF wait \in flight THEN Cardinality(flight) ELSE Cardinality(flight) + 1
    BY <1>2, FS_AddElement
  <2> QED
    BY <1>3, <1>6, <2>1, Basics
<1>8. GoesOn(r) \in ChainRun /\ RunInv(GoesOn(r))
  BY <1>2, <1>6, <1>7, GoesOnFits
<1> QED
  BY <1>5, <1>8, RunMoves

LEMMA StartRunKeeps ==
    ASSUME BuildsAssumption, Inv, NEW c \in Chains, StartRun(c)
    PROVE  Inv'
<1> DEFINE seen == [i \in Parts |-> version[PathOf[<<c, i>>]]]
           r == [NoRun EXCEPT !.at = "submitting", !.identity = seen]
<1>1. seen \in [Parts -> Versions]
  <2>1. ASSUME NEW i \in Parts PROVE version[PathOf[<<c, i>>]] \in Versions
    <3>1. PathOf[<<c, i>>] \in Keys
      BY DEF BuildsAssumption, PartTasks
    <3> QED
      BY <3>1 DEF Inv, Types
  <2> QED
    BY <2>1
<1>2. seen \in [Parts -> 0..MaxVersion]
  BY <1>1, Basics DEF Versions
<1>3. chain' = [chain EXCEPT ![c] = r] /\ UNCHANGED <<tableVars, version, registry, lookup>>
  BY DEF StartRun
<1> HIDE DEF seen
<1>4. r.at = "submitting" /\ r.identity = seen /\ r.next = 1 /\ r.flight = {}
  BY DEF NoRun
<1>5. r \in ChainRun
  BY <1>2 DEF NoRun, ChainRun
<1> HIDE DEF r
<1>6. RunInv(r)
  BY <1>1, <1>4, FS_EmptySet, Basics DEF RunInv
<1>7. chain' \in [Chains -> ChainRun] /\ \A d \in Chains : RunInv(chain[d])'
  BY <1>3, <1>5, <1>6, RunMoves
<1>8. \A l \in Lookups : LookupInv(l)'
  BY <1>3, LookupRests DEF tableVars, registry
<1> QED
  BY <1>3, <1>7, <1>8, RegistryRests DEF Inv, Types

LEMMA PartEndsKeeps ==
    ASSUME BuildsAssumption, Inv, NEW c \in Chains, PartEnds(c)
    PROVE  Inv'
<1>1. UNCHANGED <<tableVars, version, registry, lookup>>
  BY DEF PartEnds
<1>2. PICK w \in chain[c].flight :
        LET run == [chain[c] EXCEPT !.flight = @ \ {w},
                                    !.built = IF Built(w) THEN @ \union {w.part} ELSE @]
        IN  /\ chain[c].at = "blocked"
            /\ chain' = [chain EXCEPT ![c] =
                 IF FailsRun(w) THEN [run EXCEPT !.at = "failed"]
                 ELSE IF run.next \notin Parts /\ run.flight = {} THEN [run EXCEPT !.at = "completed"]
                 ELSE GoesOn(run)]
  BY DEF PartEnds
<1> DEFINE old == chain[c]
           run == [chain[c] EXCEPT !.flight = @ \ {w},
                                   !.built = IF Built(w) THEN @ \union {w.part} ELSE @]
<1>3. old \in ChainRun /\ RunInv(old) /\ old.at = "blocked"
  BY <1>2 DEF Inv, Types
<1>4. w.part \in Parts
  BY <1>2, <1>3 DEF ChainRun, PartWait
<1>5. run \in ChainRun /\ run.flight = old.flight \ {w} /\ run.identity = old.identity
  BY <1>3, <1>4 DEF ChainRun
<1>6. /\ IsFiniteSet(old.flight) /\ Cardinality(old.flight) <= MaxRunning /\ old.identity \in [Parts -> Versions]
      /\ Cardinality(old.flight) \in Nat
  BY <1>3, FS_CardinalityType DEF RunInv
<1>7. \/ chain' = [chain EXCEPT ![c] = [run EXCEPT !.at = "failed"]]
      \/ chain' = [chain EXCEPT ![c] = [run EXCEPT !.at = "completed"]]
      \/ chain' = [chain EXCEPT ![c] = GoesOn(run)]
  BY <1>2
<1> HIDE DEF run, old
<1>8. IsFiniteSet(run.flight) /\ Cardinality(run.flight) <= MaxRunning
  <2>1. IsFiniteSet(run.flight) /\ Cardinality(run.flight) <= Cardinality(old.flight)
    BY <1>5, <1>6, FS_Subset
  <2> QED
    BY <1>6, <2>1, FS_CardinalityType, Basics
<1>9. \A e \in {"failed", "completed"} : [run EXCEPT !.at = e] \in ChainRun /\ RunInv([run EXCEPT !.at = e])
  <2> SUFFICES ASSUME NEW e \in {"failed", "completed"}
               PROVE  [run EXCEPT !.at = e] \in ChainRun /\ RunInv([run EXCEPT !.at = e])
    OBVIOUS
  <2> DEFINE r == [run EXCEPT !.at = e]
  <2>1. r \in ChainRun /\ r.at = e /\ r.flight = run.flight /\ r.identity = run.identity
    BY <1>5 DEF ChainRun
  <2> HIDE DEF r
  <2>2. RunInv(r)
    BY <1>5, <1>6, <1>8, <2>1 DEF RunInv
  <2> QED
    BY <2>1, <2>2 DEF r
<1>10. GoesOn(run) \in ChainRun /\ RunInv(GoesOn(run))
  BY <1>5, <1>6, <1>8, GoesOnFits
<1>11. chain' \in [Chains -> ChainRun] /\ \A d \in Chains : RunInv(chain[d])'
  <2>1. CASE chain' = [chain EXCEPT ![c] = [run EXCEPT !.at = "failed"]]
    BY <1>9, <2>1, RunMoves
  <2>2. CASE chain' = [chain EXCEPT ![c] = [run EXCEPT !.at = "completed"]]
    BY <1>9, <2>2, RunMoves
  <2>3. CASE chain' = [chain EXCEPT ![c] = GoesOn(run)]
    BY <1>10, <2>3, RunMoves
  <2> QED
    BY <1>7, <2>1, <2>2, <2>3
<1>12. \A l \in Lookups : LookupInv(l)'
  BY <1>1, LookupRests DEF tableVars, registry
<1> QED
  BY <1>1, <1>11, <1>12, RegistryRests DEF Inv, Types

\* The look for room and the place in line are one step, so a chain takes its
\* place only while there is no room, and then a build's end will see it.
LEMMA AwaitRoomKeeps ==
    ASSUME BuildsAssumption, Inv, NEW c \in Chains, AwaitRoom(c)
    PROVE  Inv'
<1>1. /\ UNCHANGED <<tableVars, version, running, active, queue, chainParts, woken, phase, lookup>>
      /\ chain[c].at = "noRoom"
  BY DEF AwaitRoom
<1>2. chain[c] \in ChainRun /\ RunInv(chain[c])
  BY DEF Inv, Types
<1>3. PICK at \in {"submitting", "inLine"} : chain' = [chain EXCEPT ![c].at = at]
  BY DEF AwaitRoom
<1> DEFINE r == [chain[c] EXCEPT !.at = at]
<1>4. /\ r \in ChainRun /\ r.at = at /\ r.flight = chain[c].flight /\ r.next = chain[c].next
      /\ r.identity = chain[c].identity
  BY <1>2 DEF ChainRun
<1>5. chain' = [chain EXCEPT ![c] = r]
  BY <1>3 DEF Inv, Types
<1> HIDE DEF r
<1>6. RunInv(r)
  BY <1>1, <1>2, <1>4, FS_EmptySet, Basics DEF RunInv
<1>7. chain' \in [Chains -> ChainRun] /\ \A d \in Chains : RunInv(chain[d])'
  BY <1>4, <1>5, <1>6, RunMoves
<1>8. line' \in Seq(Chains) /\ LineWaits'
  <2>1. CASE ChainRoom(active, queue, chainParts)
    BY <1>1, <2>1 DEF AwaitRoom, Inv, Types, LineWaits
  <2>2. CASE ~ChainRoom(active, queue, chainParts)
    <3>1. line' = Append(line, c)
      BY <2>2 DEF AwaitRoom
    <3> QED
      BY <1>1, <2>2, <3>1 DEF Inv, Types, LineWaits
  <2> QED
    BY <2>1, <2>2
<1>9. Slots' = Slots /\ PartBuilds' = PartBuilds
  BY <1>1 DEF Slots, PartBuilds, InRegistry
<1>10. SlotsCounted' /\ PartsCounted' /\ Queued'
  BY <1>1, <1>9 DEF Inv, SlotsCounted, PartsCounted, Queued
<1>11. Entries'
  BY <1>1 DEF Inv, Entries, BuildInv, EntryInv, InRegistry, tableVars
<1>12. \A l \in Lookups : LookupInv(l)'
  BY <1>1, LookupRests DEF tableVars
<1> QED
  BY <1>1, <1>7, <1>8, <1>10, <1>11, <1>12 DEF Inv, Types, tableVars

\* Room that a part did not need is passed on along the line.
LEMMA PassOnKeeps ==
    ASSUME BuildsAssumption, Types, NEW c \in Chains, PassOn(line),
           woken' = (woken \ {c}) \union {line[i] : i \in 1 .. Len(line) - Len(line')}
    PROVE  line' \in Seq(Chains) /\ woken' \in SUBSET Chains /\ LineWaits'
<1>1. line \in Seq(Chains) /\ woken \subseteq Chains /\ Len(line) \in Nat
  BY DEF Types
<1>2. CASE line # <<>> /\ ChainRoom(active', queue', chainParts')
  <2>1. line' = Tail(line)
    BY <1>2 DEF PassOn
  <2>2. line' \in Seq(Chains) /\ Len(line') = Len(line) - 1 /\ line[1] \in Chains /\ Len(line) >= 1
    BY <1>1, <1>2, <2>1
  <2>3. Len(line) - Len(line') = 1
    BY <1>1, <2>2
  <2>4. woken' = (woken \ {c}) \union {line[1]}
    BY <2>3
  <2> QED
    BY <1>1, <2>2, <2>4 DEF LineWaits
<1>3. CASE ~(line # <<>> /\ ChainRoom(active', queue', chainParts'))
  <2>1. line' = line
    BY <1>3 DEF PassOn
  <2>2. Len(line) - Len(line') = 0
    BY <1>1, <2>1
  <2>3. woken' = woken \ {c}
    BY <2>2
  <2> QED
    BY <1>1, <1>3, <2>1, <2>3 DEF LineWaits
<1> QED
  BY <1>2, <1>3

LEMMA RefusedKeeps ==
    ASSUME BuildsAssumption, Inv, NEW c \in Chains, Submitting(c), Refused(c)
    PROVE  chain' \in [Chains -> ChainRun] /\ \A d \in Chains : RunInv(chain[d])'
<1> DEFINE at == IF chain[c].flight = {} THEN "noRoom" ELSE "blocked"
           r == [chain[c] EXCEPT !.at = at]
<1>1. chain[c] \in ChainRun /\ RunInv(chain[c]) /\ chain[c].at \in {"submitting", "inLine"}
  BY DEF Inv, Types, Submitting
<1>2. /\ r \in ChainRun /\ r.at = at /\ r.flight = chain[c].flight /\ r.next = chain[c].next
      /\ r.identity = chain[c].identity
  BY <1>1 DEF ChainRun
<1>3. chain' = [chain EXCEPT ![c] = r]
  BY DEF Refused, Inv, Types
<1> HIDE DEF r
<1>4. RunInv(r)
  BY <1>1, <1>2 DEF RunInv
<1> QED
  BY <1>2, <1>3, <1>4, RunMoves

LEMMA SubmitKeeps ==
    ASSUME BuildsAssumption, Inv, NEW c \in Chains, Submit(c)
    PROVE  Inv'
<1> DEFINE next == chain[c].next
           part == <<c, next>>
           p == PathOf[part]
           identity == chain[c].identity[next]
<1>1. /\ Submitting(c) /\ PassOn(line) /\ UNCHANGED <<version, lookup>>
      /\ woken' = (woken \ {c}) \union {line[i] : i \in 1 .. Len(line) - Len(line')}
  BY DEF Submit
<1>2. next \in Parts /\ identity \in Versions
  BY <1>1 DEF Inv, RunInv, Submitting
<1>3. part \in PartTasks /\ part \in Builds /\ part \in TaskIds /\ p \in Keys
  BY <1>2, Basics DEF PartTasks, Builds, BuildsAssumption
<1>4. line' \in Seq(Chains) /\ woken' \in SUBSET Chains /\ LineWaits'
  BY <1>1, PassOnKeeps DEF Inv
<1>5. /\ running[p] # NoBuild => running[p].task \in TaskIds
      /\ Holder(p) # NoTask => Holder(p) \in TaskIds
      /\ IsIndex(Holder(p)) \in BOOLEAN /\ (running[p].identity = identity) \in BOOLEAN
  BY <1>3, HolderHolds, Basics DEF Inv, Types, IsIndex
\* The part joins a task that runs, or finds no room.
<1>6. ASSUME chain' \in [Chains -> ChainRun], \A d \in Chains : RunInv(chain[d])',
             UNCHANGED <<tableVars, running, active, queue, chainParts, phase>>
      PROVE  Inv'
  <2>1. Slots' = Slots /\ PartBuilds' = PartBuilds
    BY <1>6 DEF Slots, PartBuilds, InRegistry
  <2>2. SlotsCounted' /\ PartsCounted' /\ Queued'
    BY <1>6, <2>1 DEF Inv, SlotsCounted, PartsCounted, Queued
  <2>3. Entries'
    BY <1>6 DEF Inv, Entries, BuildInv, EntryInv, InRegistry, tableVars
  <2>4. \A l \in Lookups : LookupInv(l)'
    BY <1>1, <1>6, LookupRests DEF tableVars
  <2> QED
    BY <1>1, <1>4, <1>6, <2>2, <2>3, <2>4 DEF Inv, Types, tableVars
<1>7. ASSUME NEW t \in TaskIds, NEW gives \in BOOLEAN, Joined(c, t, gives)
      PROVE  chain' \in [Chains -> ChainRun] /\ \A d \in Chains : RunInv(chain[d])'
  <2>1. PICK watched \in BOOLEAN : Submitted(c, t, gives, watched)
    BY <1>7 DEF Joined
  <2> QED
    BY <1>1, <2>1, SubmittedKeeps
\* It starts a build of its own.
<1>8. CASE /\ running[p] = NoBuild /\ ChainRoom(active, queue, chainParts)
           /\ NewBuild(part, p, identity) /\ chainParts' = chainParts + 1
           /\ Submitted(c, part, TRUE, TRUE)
  <2> HIDE DEF part, p, identity
  <2>1. ~QueueFull(active, queue) /\ chainParts < MaxChainParts
    BY <1>8 DEF ChainRoom
  <2>2. /\ outcome' \in [TaskIds -> Outcomes] /\ holds' \in [TaskIds -> SUBSET Keys]
        /\ running' \in [Keys -> RunningBuild \union {NoBuild}]
        /\ queue' \in Seq(Builds) /\ phase' \in [Builds -> Phases]
        /\ SlotsCounted' /\ PartsCounted' /\ Queued' /\ Entries'
        /\ outcome[part] = "unused" /\ \A u \in TaskIds : outcome[u] # "unused" => outcome'[u] = outcome[u]
        /\ running'[p].task = part
        /\ \A q \in Keys \ {p} : running'[q] = running[q]
    BY <1>2, <1>3, <1>8, <2>1, AddKeeps DEF Inv
  <2>3. chain' \in [Chains -> ChainRun] /\ \A d \in Chains : RunInv(chain[d])'
    BY <1>1, <1>3, <1>8, SubmittedKeeps
  <2>4. \A l \in Lookups : LookupInv(l)'
    <3>1. \A u \in TaskIds : outcome[u] # "unused" => outcome'[u] # "unused"
      BY <2>2
    <3> QED
      BY <1>1, <1>3, <2>2, <3>1, LookupRests
  <2> QED
    BY <1>1, <1>4, <2>2, <2>3, <2>4 DEF Inv, Types
<1>9. CASE /\ UNCHANGED <<tableVars, running, active, queue, chainParts, phase>>
           /\ \/ running[p] # NoBuild /\ Joined(c, running[p].task, running[p].identity = identity)
              \/ Holder(p) # NoTask /\ Joined(c, Holder(p), IsIndex(Holder(p)))
              \/ Refused(c)
  BY <1>1, <1>5, <1>6, <1>7, <1>9, RefusedKeeps
<1> QED
  BY <1>8, <1>9 DEF Submit

-----------------------------------------------------------------------------
(* Outside the registry *)

LEMMA OtherTaskKeeps ==
    ASSUME BuildsAssumption, Inv, NEW t \in Others, OtherTask(t)
    PROVE  Inv'
<1>1. t \in TaskIds /\ t \notin Builds /\ UNCHANGED <<version, registry, lookup, chain>>
  BY DEF BuildsAssumption, OtherTask
<1>2. /\ outcome' \in [TaskIds -> Outcomes] /\ holds' \in [TaskIds -> SUBSET Keys]
      /\ \A u \in TaskIds \ {t} : outcome'[u] = outcome[u] /\ holds'[u] = holds[u]
      /\ outcome'[t] # "unused"
  <2>1. CASE \E p \in Touched : Start(t, {p})
    <3>1. PICK p \in Keys : Start(t, {p})
      BY <2>1 DEF BuildsAssumption
    <3> QED
      BY <1>1, <3>1 DEF Start, Inv, Types, Outcomes
  <2>2. CASE \E e \in {"completed", "failed"} : End(t, e)
    BY <1>1, <2>2 DEF End, Inv, Types, Outcomes, Ends
  <2> QED
    BY <2>1, <2>2 DEF OtherTask
<1>3. \A u \in Builds : outcome'[u] = outcome[u] /\ holds'[u] = holds[u]
  BY <1>1, <1>2, Basics
<1>4. Slots' = Slots /\ PartBuilds' = PartBuilds
  BY <1>1 DEF Slots, PartBuilds, InRegistry, registry
<1>5. SlotsCounted' /\ PartsCounted' /\ Queued' /\ LineWaits'
  BY <1>1, <1>4 DEF Inv, SlotsCounted, PartsCounted, Queued, LineWaits, registry
<1>6. Entries'
  <2>1. ASSUME NEW u \in Builds PROVE BuildInv(u)'
    BY <1>1, <1>3 DEF Inv, Entries, BuildInv, InRegistry, registry
  <2>2. ASSUME NEW q \in Keys PROVE EntryInv(q)'
    <3>1. running[q] # NoBuild => running[q].task \in Builds
      BY Basics DEF Inv, Types
    <3> QED
      BY <1>1, <1>3, <3>1 DEF Inv, Entries, EntryInv, InRegistry, registry
  <2> QED
    BY <2>1, <2>2 DEF Entries
<1>7. \A l \in Lookups : LookupInv(l)'
  <2>1. \A u \in TaskIds : outcome[u] # "unused" => outcome'[u] # "unused"
    BY <1>2
  <2> QED
    BY <1>1, <2>1, LookupRests DEF registry
<1>8. \A c \in Chains : RunInv(chain[c])'
  BY <1>1 DEF Inv, RunInv
<1> QED
  BY <1>1, <1>2, <1>5, <1>6, <1>7, <1>8 DEF Inv, Types, registry

LEMMA ChangeKeeps ==
    ASSUME BuildsAssumption, Inv, NEW p \in Touched, Change(p)
    PROVE  Inv'
<1>1. /\ UNCHANGED <<tableVars, registry, lookup, chain>>
      /\ version[p] < MaxVersion /\ version' = [version EXCEPT ![p] = @ + 1] /\ p \in Keys
  BY DEF Change, BuildsAssumption
<1>2. version' \in [Keys -> Versions]
  <2>1. version[p] \in 1..MaxVersion
    BY <1>1 DEF Inv, Types, Versions
  <2>2. version[p] + 1 \in 1..MaxVersion
    BY <1>1, <2>1, Basics
  <2> QED
    BY <1>1, <2>2 DEF Inv, Types, Versions
<1>3. \A l \in Lookups : LookupInv(l)'
  BY <1>1, LookupRests DEF tableVars, registry
<1>4. \A c \in Chains : RunInv(chain[c])'
  BY <1>1 DEF Inv, RunInv
<1> QED
  BY <1>1, <1>2, <1>3, <1>4, RegistryRests DEF Inv, Types

-----------------------------------------------------------------------------
(* The theorem *)

LEMMA InitInv ==
    ASSUME BuildsAssumption, Init
    PROVE  Inv
<1>1. Types
  <2>1. NoLookup \in Lookup
    <3>1. 0 \in 0..MaxVersion
      BY Basics
    <3> QED
      BY <3>1 DEF NoLookup, Lookup
  <2>2. NoRun \in ChainRun
    <3>1. [i \in Parts |-> 0] \in [Parts -> 0..MaxVersion]
      BY Basics
    <3> QED
      BY <3>1, Basics DEF NoRun, ChainRun
  <2> QED
    BY <2>1, <2>2, Basics DEF Init, TableInit, Types, Outcomes, Phases
<1>2. SlotsCounted /\ PartsCounted
  <2>1. Slots = {} /\ PartBuilds = {}
    BY DEF Init, Slots, PartBuilds, InRegistry, Builds
  <2> QED
    BY <2>1, FS_EmptySet, Basics DEF Init, SlotsCounted, PartsCounted
<1>3. Queued /\ LineWaits
  BY DEF Init, Queued, LineWaits
<1>4. Entries
  BY Basics DEF Init, TableInit, Entries, BuildInv, EntryInv, InRegistry, NoBuild
<1>5. \A c \in Chains : RunInv(chain[c])
  <2>1. NoRun.at = "idle" /\ NoRun.flight = {}
    BY DEF NoRun
  <2>2. RunInv(NoRun)
    BY <2>1, FS_EmptySet, Basics DEF RunInv
  <2> QED
    BY <2>2 DEF Init
<1>6. \A l \in Lookups : LookupInv(l)
  BY DEF Init, LookupInv, NoLookup
<1> QED
  BY <1>1, <1>2, <1>3, <1>4, <1>5, <1>6 DEF Inv

LEMMA StutterKeeps ==
    ASSUME BuildsAssumption, Inv, UNCHANGED vars
    PROVE  Inv'
<1>1. UNCHANGED <<tableVars, version, registry, lookup, chain>>
  BY DEF vars
<1>2. \A l \in Lookups : LookupInv(l)'
  BY <1>1, LookupRests DEF tableVars, registry
<1>3. \A c \in Chains : RunInv(chain[c])'
  BY <1>1 DEF Inv, RunInv
<1> QED
  BY <1>1, <1>2, <1>3, RegistryRests DEF Inv, Types

LEMMA StepInv ==
    ASSUME BuildsAssumption, Inv, [Next]_vars
    PROVE  Inv'
<1>1. ASSUME NEW l \in Lookups, NEW p \in Keys, Join(l, p) PROVE Inv'
  BY <1>1, JoinKeeps
<1>2. ASSUME NEW l \in Lookups, KeepReach(l) PROVE Inv'
  BY <1>2, ReachKeeps
<1>3. ASSUME NEW l \in Lookups, KeepNothing(l) \/ SeeEnd(l) \/ GiveUp(l) PROVE Inv'
  BY <1>3, WaitEnds
<1>4. ASSUME NEW t \in Builds, NEW e \in Ends, BuildEnds(t, e) PROVE Inv'
  BY <1>4, BuildEndsKeeps DEF BuildEnds
<1>5. ASSUME NEW t \in Builds, Finished(t) \/ Panic(t) PROVE Inv'
  BY <1>5, FinishedKeeps
<1>6. ASSUME NEW t \in Builds, Recovered(t) PROVE Inv'
  BY <1>6, BuildEndsKeeps DEF Recovered, Ends
<1>7. ASSUME NEW c \in Chains, StartRun(c) PROVE Inv'
  BY <1>7, StartRunKeeps
<1>8. ASSUME NEW c \in Chains, Submit(c) PROVE Inv'
  BY <1>8, SubmitKeeps
<1>9. ASSUME NEW c \in Chains, AwaitRoom(c) PROVE Inv'
  BY <1>9, AwaitRoomKeeps
<1>10. ASSUME NEW c \in Chains, PartEnds(c) PROVE Inv'
  BY <1>10, PartEndsKeeps
<1>11. ASSUME NEW t \in Others, OtherTask(t) PROVE Inv'
  BY <1>11, OtherTaskKeeps
<1>12. ASSUME NEW p \in Touched, Change(p) PROVE Inv'
  BY <1>12, ChangeKeeps
<1>13. CASE UNCHANGED vars
  BY <1>13, StutterKeeps
<1> QED
  BY <1>1, <1>2, <1>3, <1>4, <1>5, <1>6, <1>7, <1>8, <1>9, <1>10, <1>11, <1>12, <1>13 DEF Next

LEMMA InvGivesRegistryInv ==
    ASSUME BuildsAssumption, Inv
    PROVE  RegistryInv
<1>1. Types /\ SlotsCounted /\ PartsCounted /\ Queued /\ Entries /\ LineWaits
  BY DEF Inv
<1>2. active \in Nat /\ chainParts \in Nat
  BY <1>1, FS_CardinalityType DEF SlotsCounted, PartsCounted
<1>3. TypeOK
  BY <1>1, <1>2, Basics DEF TypeOK, Types, SlotsCounted
<1>4. SlotsAreUsed /\ ChainsTakeTheirHalf
  BY <1>1 DEF SlotsAreUsed, ChainsTakeTheirHalf, SlotsCounted, PartsCounted, Slots, PartBuilds
<1>5. WindowHolds
  BY DEF Inv, RunInv, WindowHolds
<1>6. LiveBuildsAreServed
  <2>1. ASSUME NEW p \in Keys, running[p] = NoBuild, NEW t \in Builds, InRegistry(t)
        PROVE  p \notin holds[t]
    <3>1. PICK k \in Keys : holds[t] = {k} /\ running[k].task = t
      BY <1>1, <2>1 DEF Entries, BuildInv
    <3> QED
      BY <2>1, <3>1, Basics
  <2> QED
    BY <1>1, <2>1 DEF LiveBuildsAreServed, Entries, BuildInv, EntryInv, Queued
<1>7. LineIsWoken
  BY <1>1, NoRoomMeansBuilds DEF LineIsWoken, LineWaits
<1>8. SameTextOnly
  BY <1>1 DEF SameTextOnly, Inv, LookupInv, Entries, EntryInv
<1> QED
  BY <1>3, <1>4, <1>5, <1>6, <1>7, <1>8 DEF RegistryInv

(* The bookkeeping of the line-index builds is right in every order of     *)
(* lookups, chains' runs, ends and panics: slots and the chains' half are  *)
(* counted truly and stay in their limits, a live build is queued or runs, *)
(* an entry of running is such a build's, and a chain in line is woken     *)
(* (join, addLocked, finish, joinChainPart, awaitChainRoom).  What a       *)
(* lookup waits for is a build of the text it saw.                         *)
THEOREM RegistryIsRight ==
    ASSUME BuildsAssumption
    PROVE  Spec => []RegistryInv
<1>1. Init => Inv
  BY InitInv
<1>2. Inv /\ [Next]_vars => Inv'
  BY StepInv
<1>3. Inv => RegistryInv
  BY InvGivesRegistryInv
<1> QED
  BY <1>1, <1>2, <1>3, PTL DEF Spec

-----------------------------------------------------------------------------
(* The other half of chain_index.go: the registry of the chains' index     *)
(* tasks, which start what IndexBuilds runs.  The table is the same one.   *)

CONSTANTS Files, NoFiles, MaxUnfinished, MaxEnded, TTL, MaxNow
VARIABLES gone, records, unfinished, taskRun, looking, now

Tasks == INSTANCE ChainIndexTasks WITH run <- taskRun

\* The tasks that take a place.
Placed == {t \in TaskIds : taskRun[t] \in {"running", "panicking"}}
\* The chains that have a record, and those whose record has an end.
Recorded(recs) == {c \in Keys : recs[c] # Tasks!NoRecord}
Ended(recs) == {c \in Keys : Tasks!HasEnd(recs[c])}

TaskTypes ==
    /\ outcome \in [TaskIds -> Tasks!Outcomes]
    /\ holds \in [TaskIds -> SUBSET Keys]
    /\ gone \in SUBSET TaskIds
    /\ records \in [Keys -> Tasks!Record \union {Tasks!NoRecord}]
    /\ taskRun \in [TaskIds -> Tasks!Runs]
    /\ looking \in Tasks!Lookers
    /\ now \in 0..MaxNow

PlacesCounted ==
    /\ IsFiniteSet(Placed) /\ unfinished = Cardinality(Placed) /\ unfinished <= MaxUnfinished
    /\ IsFiniteSet(Recorded(records))

\* How far a task's goroutine has got is what the table shows of the task, and it
\* holds one chain.
TaskTrue(t, table, held, at) ==
    /\ at[t] = "none" <=> table[t] = "unused"
    /\ at[t] \in {"running", "completing", "failing", "panicking", "recovering"} <=> table[t] = "live"
    /\ at[t] = "recovered" => table[t] = "failed"
    /\ at[t] # "none" => \E c \in Keys : held[t] = {c}

\* A record r of chain c is of a task of that chain: without an end, of one that has
\* recorded none; with one, it is that task's.
RecordTrue(r, c, table, held, at) ==
    LET t == r.task
    IN  /\ r # Tasks!NoRecord => held[t] = {c} /\ at[t] # "none"
        /\ r.end = "open" => at[t] \in {"running", "panicking", "recovering", "recovered"}
        /\ Tasks!HasEnd(r) =>
              /\ table[t] = "live" => at[t] = (IF r.end = "failed" THEN "failing" ELSE "completing")
              /\ table[t] # "live" => table[t] = r.end

\* While a describe keeps c.mu, its chain has no failure on record.
LookInv == looking # Tasks!Nobody => records[looking.chain].end # "failed"

ChainsInv ==
    /\ TaskTypes /\ PlacesCounted /\ LookInv
    /\ \A t \in TaskIds : TaskTrue(t, outcome, holds, taskRun)
    /\ \A c \in Keys : RecordTrue(records[c], c, outcome, holds, taskRun)

LEMMA TasksCount == \A S : Tasks!Cardinality(S) = Cardinality(S)
BY DEF Tasks!Cardinality, Cardinality

RecordOrNone == Tasks!Record \union {Tasks!NoRecord}

LEMMA RecordTypes ==
    ASSUME Tasks!ChainsAssumption, NEW r \in RecordOrNone
    PROVE  /\ r # Tasks!NoRecord <=> r.task \in TaskIds
           /\ r # Tasks!NoRecord <=> r \in Tasks!Record
           /\ r # Tasks!NoRecord <=> r.end = "open" \/ Tasks!HasEnd(r)
BY DEF Tasks!ChainsAssumption, Tasks!Record, Tasks!NoRecord, Tasks!HasEnd, RecordOrNone

LEMMA NoRecordIsTrue ==
    ASSUME NEW c, NEW table, NEW held, NEW at
    PROVE  Tasks!NoRecord.end = "none" /\ RecordTrue(Tasks!NoRecord, c, table, held, at)
BY DEF Tasks!NoRecord, RecordTrue, Tasks!HasEnd

\* A record that is settled stays true (settleLocked).
LEMMA SettledIsTrue ==
    ASSUME Tasks!ChainsAssumption, now \in Nat, NEW c \in Keys, NEW held, NEW at,
           NEW table \in [TaskIds -> Tasks!Outcomes],
           \A t \in TaskIds : TaskTrue(t, table, held, at),
           NEW r \in RecordOrNone, RecordTrue(r, c, table, held, at)
    PROVE  LET s == Tasks!Settled(r, table)
           IN  /\ s \in RecordOrNone /\ RecordTrue(s, c, table, held, at)
               /\ s.end = "open" => table[s.task] = "live"
               /\ s # Tasks!NoRecord => r # Tasks!NoRecord
<1> DEFINE s == Tasks!Settled(r, table)
<1>1. CASE s = Tasks!NoRecord
  BY <1>1, NoRecordIsTrue DEF RecordOrNone
<1>2. CASE s # Tasks!NoRecord /\ s = r
  <2>1. r \in Tasks!Record
    BY <1>2, RecordTypes
  <2>2. s.end = "open" => table[s.task] = "live"
    <3> SUFFICES ASSUME r.end = "open", table[r.task] # "live" PROVE FALSE
      BY <1>2
    <3>1. r = [r EXCEPT !.end = table[r.task], !.at = now]
      BY <1>2 DEF Tasks!Settled, Tasks!Open
    <3>2. r.end = table[r.task] /\ table[r.task] \in Tasks!Outcomes
      BY <2>1, <3>1 DEF Tasks!Record
    <3> QED
      BY <3>2 DEF Tasks!Outcomes, Tasks!Ends
  <2> QED
    BY <1>2, <2>2
<1>3. CASE s # Tasks!NoRecord /\ s # r
  <2>1. r.end = "open" /\ table[r.task] # "live" /\ s = [r EXCEPT !.end = table[r.task], !.at = now]
    BY <1>3 DEF Tasks!Settled, Tasks!Open
  <2>2. r \in Tasks!Record /\ r # Tasks!NoRecord
    BY <2>1, RecordTypes, NoRecordIsTrue
  <2>3. r.task \in TaskIds /\ at[r.task] = "recovered" /\ table[r.task] = "failed"
    BY <2>1, <2>2 DEF Tasks!Record, RecordTrue, TaskTrue
  <2>4. s.end = "failed" /\ s.task = r.task /\ s \in Tasks!Record
    BY <2>1, <2>2, <2>3 DEF Tasks!Record
  <2> QED
    BY <2>1, <2>2, <2>3, <2>4 DEF RecordTrue, Tasks!HasEnd, RecordOrNone
<1> QED
  BY <1>1, <1>2, <1>3

\* So do the records a prune leaves, and it leaves no more ends than it may
\* (pruneLocked).
LEMMA PrunedAreTrue ==
    ASSUME Tasks!ChainsAssumption, now \in Nat, NEW held, NEW at,
           NEW table \in [TaskIds -> Tasks!Outcomes],
           \A t \in TaskIds : TaskTrue(t, table, held, at),
           NEW recs \in [Keys -> RecordOrNone],
           \A c \in Keys : RecordTrue(recs[c], c, table, held, at),
           IsFiniteSet(Recorded(recs)),
           NEW left \in Tasks!Pruned(recs, table)
    PROVE  /\ left \in [Keys -> RecordOrNone]
           /\ \A c \in Keys : /\ RecordTrue(left[c], c, table, held, at)
                              /\ left[c].end = "open" => table[left[c].task] = "live"
           /\ IsFiniteSet(Recorded(left)) /\ Cardinality(Ended(left)) <= MaxEnded
<1> DEFINE fresh == Tasks!Fresh(recs, table)
           ended == {c \in Keys : Tasks!HasEnd(fresh[c])}
<1>1. \A c \in Keys : fresh[c] \in {Tasks!Settled(recs[c], table), Tasks!NoRecord}
  BY DEF Tasks!Fresh, Tasks!ChainKeys
<1>2. PICK kept \in SUBSET ended :
          /\ left = [c \in Keys |-> IF c \in ended \ kept THEN Tasks!NoRecord ELSE fresh[c]]
          /\ Cardinality(kept) = Tasks!KeptEnds(ended)
  <2>1. left \in {[c \in Keys |-> IF c \in ended \ kept THEN Tasks!NoRecord ELSE fresh[c]] :
                     kept \in {k \in SUBSET ended :
                                 /\ Cardinality(k) = Tasks!KeptEnds(ended)
                                 /\ \A x \in k, y \in ended \ k : fresh[x].at >= fresh[y].at}}
    BY TasksCount DEF Tasks!Pruned, Tasks!ChainKeys
  <2> QED
    BY <2>1
<1>3. ASSUME NEW c \in Keys
      PROVE  /\ left[c] \in RecordOrNone /\ RecordTrue(left[c], c, table, held, at)
             /\ left[c].end = "open" => table[left[c].task] = "live"
             /\ left[c] # Tasks!NoRecord => recs[c] # Tasks!NoRecord
  <2>1. left[c] \in {Tasks!Settled(recs[c], table), Tasks!NoRecord}
    BY <1>1, <1>2
  <2>2. CASE left[c] = Tasks!NoRecord
    BY <2>2, NoRecordIsTrue DEF RecordOrNone
  <2>3. CASE left[c] = Tasks!Settled(recs[c], table)
    <3>1. recs[c] \in RecordOrNone /\ RecordTrue(recs[c], c, table, held, at)
      OBVIOUS
    <3> QED
      BY <2>3, <3>1, SettledIsTrue
  <2> QED
    BY <2>1, <2>2, <2>3
<1>4. left \in [Keys -> RecordOrNone]
  BY <1>2, <1>3
<1>5. IsFiniteSet(Recorded(left))
  <2>1. Recorded(left) \subseteq Recorded(recs)
    BY <1>3 DEF Recorded
  <2> QED
    BY <2>1, FS_Subset
<1>6. Ended(left) = kept
  BY <1>2, NoRecordIsTrue DEF Tasks!HasEnd, Ended
<1>7. IsFiniteSet(ended)
  <2>1. ended \subseteq Recorded(recs)
    BY <1>1, SettledIsTrue, NoRecordIsTrue DEF Tasks!HasEnd, Recorded
  <2> QED
    BY <2>1, FS_Subset
<1>8. Cardinality(kept) <= MaxEnded
  <2>1. Cardinality(ended) \in Nat /\ MaxEnded \in Nat
    BY <1>7, FS_CardinalityType DEF Tasks!ChainsAssumption
  <2>2. Tasks!KeptEnds(ended) = IF Cardinality(ended) < MaxEnded THEN Cardinality(ended) ELSE MaxEnded
    BY TasksCount DEF Tasks!KeptEnds
  <2> QED
    BY <1>2, <2>1, <2>2
<1> QED
  BY <1>3, <1>4, <1>5, <1>6, <1>8

-----------------------------------------------------------------------------

LEMMA ChainsStart ==
    ASSUME Tasks!ChainsAssumption, Tasks!Init
    PROVE  ChainsInv
<1>1. TaskTypes
  BY DEF Tasks!Init, Tasks!TableInit, TaskTypes, Tasks!Outcomes, Tasks!ChainKeys, Tasks!Runs,
     Tasks!Lookers, Tasks!ChainsAssumption
<1>2. Placed = {} /\ Recorded(records) = {}
  BY DEF Tasks!Init, Placed, Recorded, Tasks!ChainKeys
<1>3. PlacesCounted
  BY <1>2, FS_EmptySet DEF PlacesCounted, Tasks!Init, Tasks!ChainsAssumption
<1>4. \A t \in TaskIds : TaskTrue(t, outcome, holds, taskRun)
  BY DEF Tasks!Init, Tasks!TableInit, TaskTrue
<1>5. \A c \in Keys : RecordTrue(records[c], c, outcome, holds, taskRun)
  BY NoRecordIsTrue DEF Tasks!Init, Tasks!ChainKeys
<1> QED
  BY <1>1, <1>3, <1>4, <1>5 DEF ChainsInv, LookInv, Tasks!Init

\* The task of a record is of that record's chain; a task with no goroutine yet is in no record.
LEMMA RecordedTask ==
    ASSUME Tasks!ChainsAssumption, ChainsInv, NEW c \in Keys, records[c] # Tasks!NoRecord
    PROVE  /\ records[c] \in Tasks!Record /\ records[c].task \in TaskIds
           /\ holds[records[c].task] = {c} /\ taskRun[records[c].task] # "none"
BY RecordTypes DEF ChainsInv, TaskTypes, RecordTrue, RecordOrNone

\* A record whose task a step leaves alone stays true.
LEMMA UntouchedRecord ==
    ASSUME Tasks!ChainsAssumption, ChainsInv, NEW c \in Keys, NEW table, NEW held, NEW at,
           records[c] # Tasks!NoRecord =>
               LET t == records[c].task
               IN  table[t] = outcome[t] /\ held[t] = holds[t] /\ at[t] = taskRun[t]
    PROVE  RecordTrue(records[c], c, table, held, at)
<1>1. CASE records[c] = Tasks!NoRecord
  BY <1>1, NoRecordIsTrue
<1>2. CASE records[c] # Tasks!NoRecord
  BY <1>2 DEF ChainsInv, RecordTrue
<1> QED
  BY <1>1, <1>2

\* startLocked, where it starts a task.
StartsTask(c, files, t) ==
    /\ Tasks!HasPlace
    /\ Tasks!Start(t, {c})
    /\ unfinished' = unfinished + 1
    /\ records' \in Tasks!Pruned([records EXCEPT ![c] =
                       [task |-> t, files |-> files, end |-> "open", at |-> 0]], outcome')
    /\ taskRun' = [taskRun EXCEPT ![t] = "running"]
    /\ UNCHANGED <<gone, now>>

LEMMA StartKeeps ==
    ASSUME Tasks!ChainsAssumption, ChainsInv, NEW c \in Keys, NEW files \in Files,
           NEW t \in TaskIds, StartsTask(c, files, t), looking' = Tasks!Nobody
    PROVE  /\ ChainsInv'
           /\ Cardinality(Ended(records')) <= MaxEnded
           /\ \A d \in Keys : records'[d].end = "open" => outcome'[records'[d].task] = "live"
<1> DEFINE new == [task |-> t, files |-> files, end |-> "open", at |-> 0]
           recs == [records EXCEPT ![c] = new]
<1>1. /\ outcome[t] = "unused" /\ taskRun[t] = "none"
      /\ outcome' = [outcome EXCEPT ![t] = "live"] /\ holds' = [holds EXCEPT ![t] = {c}]
      /\ taskRun' = [taskRun EXCEPT ![t] = "running"]
  BY DEF StartsTask, Tasks!Start, ChainsInv, TaskTrue
<1>2. /\ outcome \in [TaskIds -> Tasks!Outcomes] /\ holds \in [TaskIds -> SUBSET Keys]
      /\ taskRun \in [TaskIds -> Tasks!Runs] /\ records \in [Keys -> RecordOrNone]
  BY DEF ChainsInv, TaskTypes, RecordOrNone
<1>3. /\ outcome' \in [TaskIds -> Tasks!Outcomes] /\ holds' \in [TaskIds -> SUBSET Keys]
      /\ taskRun' \in [TaskIds -> Tasks!Runs]
  BY <1>1, <1>2 DEF Tasks!Outcomes, Tasks!Runs
<1>4. \A u \in TaskIds : TaskTrue(u, outcome', holds', taskRun')
  BY <1>1, <1>2 DEF ChainsInv, TaskTrue
<1>5. new \in Tasks!Record /\ recs \in [Keys -> RecordOrNone]
  BY <1>2 DEF Tasks!Record, RecordOrNone
<1>6. ASSUME NEW d \in Keys
      PROVE  RecordTrue(recs[d], d, outcome', holds', taskRun')
  <2>1. CASE d = c
    BY <1>1, <1>2, <2>1 DEF RecordTrue, Tasks!HasEnd
  <2>2. CASE d # c
    <3>1. records[d] # Tasks!NoRecord => records[d].task # t /\ records[d].task \in TaskIds
      BY <1>1, RecordedTask
    <3> QED
      BY <1>1, <1>2, <2>2, <3>1, UntouchedRecord
  <2> QED
    BY <2>1, <2>2
<1>7. IsFiniteSet(Recorded(recs))
  <2>1. Recorded(recs) \subseteq Recorded(records) \union {c}
    BY <1>2 DEF Recorded
  <2> QED
    BY <2>1, FS_AddElement, FS_Subset DEF ChainsInv, PlacesCounted
<1>8. now \in Nat /\ records' \in Tasks!Pruned(recs, outcome')
  BY DEF ChainsInv, TaskTypes, StartsTask, Tasks!ChainsAssumption
<1>9. /\ records' \in [Keys -> RecordOrNone]
      /\ \A d \in Keys : /\ RecordTrue(records'[d], d, outcome', holds', taskRun')
                         /\ records'[d].end = "open" => outcome'[records'[d].task] = "live"
      /\ IsFiniteSet(Recorded(records')) /\ Cardinality(Ended(records')) <= MaxEnded
  <2> HIDE DEF recs
  <2> QED
    BY <1>3, <1>4, <1>5, <1>6, <1>7, <1>8, PrunedAreTrue
<1>10. PlacesCounted'
  <2>1. Placed' = Placed \union {t} /\ t \notin Placed
    BY <1>1, <1>2 DEF Placed
  <2>2. IsFiniteSet(Placed') /\ Cardinality(Placed') = Cardinality(Placed) + 1
    BY <2>1, FS_AddElement DEF ChainsInv, PlacesCounted
  <2>3. unfinished' = unfinished + 1 /\ unfinished < MaxUnfinished
    BY DEF StartsTask, Tasks!HasPlace
  <2>4. Cardinality(Placed) \in Nat
    BY FS_CardinalityType DEF ChainsInv, PlacesCounted
  <2> QED
    BY <1>9, <2>2, <2>3, <2>4 DEF ChainsInv, PlacesCounted, Tasks!ChainsAssumption
<1>11. TaskTypes'
  BY <1>3, <1>9 DEF ChainsInv, TaskTypes, StartsTask, Tasks!Lookers, RecordOrNone
<1> QED
  BY <1>4, <1>9, <1>10, <1>11 DEF ChainsInv, LookInv

LEMMA StartOrNot ==
    ASSUME NEW c, NEW files, Tasks!StartLocked(c, files), UNCHANGED <<gone, now>>
    PROVE  \/ UNCHANGED <<outcome, holds, records, unfinished, taskRun>>
           \/ \E t \in TaskIds : StartsTask(c, files, t)
BY DEF Tasks!StartLocked, StartsTask, Tasks!tableVars

LEMMA LookKeeps ==
    ASSUME Tasks!ChainsAssumption, ChainsInv, NEW c \in Keys, NEW files \in Files,
           NEW waits \in BOOLEAN, Tasks!Look(c, files, waits)
    PROVE  ChainsInv'
<1> DEFINE last == Tasks!Last(c, files)
<1>1. /\ records' = [records EXCEPT ![c] = last]
      /\ looking' = IF waits /\ last.end # "failed" THEN [chain |-> c, files |-> files] ELSE Tasks!Nobody
      /\ UNCHANGED <<outcome, holds, gone, unfinished, taskRun, now>>
  BY DEF Tasks!Look, Tasks!MayStart, Tasks!tableVars
<1>2. /\ last \in RecordOrNone /\ RecordTrue(last, c, outcome, holds, taskRun)
      /\ last # Tasks!NoRecord => records[c] # Tasks!NoRecord
  <2>1. last \in {Tasks!Settled(records[c], outcome), Tasks!NoRecord}
    BY DEF Tasks!Last
  <2>2. CASE last = Tasks!NoRecord
    BY <2>2, NoRecordIsTrue DEF RecordOrNone
  <2>3. CASE last = Tasks!Settled(records[c], outcome)
    <3>1. /\ now \in Nat /\ records[c] \in RecordOrNone /\ outcome \in [TaskIds -> Tasks!Outcomes]
          /\ RecordTrue(records[c], c, outcome, holds, taskRun)
      BY DEF ChainsInv, TaskTypes, Tasks!ChainsAssumption, RecordOrNone
    <3> QED
      BY <2>3, <3>1, SettledIsTrue DEF ChainsInv
  <2> QED
    BY <2>1, <2>2, <2>3
<1>3. looking' \in Tasks!Lookers
  BY <1>1 DEF Tasks!Lookers, Tasks!ChainKeys
<1> HIDE DEF last
<1>4. records \in [Keys -> RecordOrNone]
  BY DEF ChainsInv, TaskTypes, RecordOrNone
<1>5. TaskTypes'
  BY <1>1, <1>2, <1>3, <1>4 DEF ChainsInv, TaskTypes, RecordOrNone
<1>6. LookInv'
  BY <1>1, <1>4 DEF LookInv, Tasks!Nobody
<1>7. PlacesCounted'
  <2>1. Recorded(records') \subseteq Recorded(records)
    BY <1>1, <1>2, <1>4 DEF Recorded
  <2>2. Placed' = Placed
    BY <1>1 DEF Placed
  <2> QED
    BY <1>1, <2>1, <2>2, FS_Subset DEF ChainsInv, PlacesCounted
<1>8. \A d \in Keys : RecordTrue(records'[d], d, outcome, holds, taskRun)
  BY <1>1, <1>2, <1>4 DEF ChainsInv
<1> QED
  BY <1>1, <1>5, <1>6, <1>7, <1>8 DEF ChainsInv

LEMMA ChainOfHolder ==
    ASSUME ChainsInv, NEW t \in TaskIds, taskRun[t] # "none"
    PROVE  Tasks!ChainOf(t) \in Keys /\ holds[t] = {Tasks!ChainOf(t)}
<1>1. \E c \in Keys : holds[t] = {c}
  BY DEF ChainsInv, TaskTrue
<1> QED
  BY <1>1 DEF Tasks!ChainOf, Tasks!ChainKeys

LEMMA RecordEndKeeps ==
    ASSUME Tasks!ChainsAssumption, ChainsInv, NEW t \in TaskIds, NEW e \in {"completed", "failed"},
           Tasks!RecordEnd(t, e)
    PROVE  ChainsInv'
<1> DEFINE c == Tasks!ChainOf(t)
           recs == [records EXCEPT ![c].end = e, ![c].at = now]
           to == IF e = "completed" THEN "completing" ELSE "failing"
<1>1. /\ taskRun[t] = "running" /\ taskRun' = [taskRun EXCEPT ![t] = to]
      /\ unfinished' = unfinished - 1 /\ looking' = looking /\ looking = Tasks!Nobody
      /\ UNCHANGED <<outcome, holds, gone, now>>
  BY DEF Tasks!RecordEnd, Tasks!tableVars
<1>2. /\ outcome \in [TaskIds -> Tasks!Outcomes] /\ holds \in [TaskIds -> SUBSET Keys]
      /\ taskRun \in [TaskIds -> Tasks!Runs] /\ records \in [Keys -> RecordOrNone]
      /\ now \in Nat /\ \A u \in TaskIds : TaskTrue(u, outcome, holds, taskRun)
  BY DEF ChainsInv, TaskTypes, RecordOrNone, Tasks!ChainsAssumption
<1>3. c \in Keys /\ holds[t] = {c} /\ outcome[t] = "live"
  BY <1>1, <1>2, ChainOfHolder DEF TaskTrue
<1>4. taskRun' \in [TaskIds -> Tasks!Runs] /\ \A u \in TaskIds : TaskTrue(u, outcome, holds, taskRun')
  BY <1>1, <1>2, <1>3 DEF TaskTrue, Tasks!Runs
<1> HIDE DEF c
<1>5. ASSUME NEW d \in Keys, d # c \/ records[d].task # t
      PROVE  RecordTrue(records[d], d, outcome, holds, taskRun')
  <2>1. records[d] # Tasks!NoRecord => records[d].task # t
    BY <1>3, <1>5, RecordedTask
  <2> QED
    BY <1>1, <1>2, <2>1, UntouchedRecord, RecordedTask
<1>6. /\ records' \in [Keys -> RecordOrNone] /\ IsFiniteSet(Recorded(records'))
      /\ \A d \in Keys : RecordTrue(records'[d], d, outcome, holds, taskRun')
  <2>1. CASE ~Tasks!IsLast(t)
    <3>1. records' = records
      BY <2>1 DEF Tasks!RecordEnd
    <3>2. records[c].task # t
      BY <2>1 DEF Tasks!IsLast, c
    <3> QED
      BY <1>2, <1>5, <3>1, <3>2 DEF ChainsInv, PlacesCounted
  <2>2. CASE Tasks!IsLast(t)
    <3>1. records' \in Tasks!Pruned(recs, outcome)
      BY <2>2 DEF Tasks!RecordEnd, c
    <3>2. records[c].task = t /\ records[c] \in Tasks!Record
      BY <1>2, <1>3, <2>2, RecordTypes DEF Tasks!IsLast, c
    <3>3. recs[c] = [records[c] EXCEPT !.end = e, !.at = now] /\ \A d \in Keys \ {c} : recs[d] = records[d]
      BY <1>2, <1>3
    <3>4. recs[c] \in Tasks!Record /\ recs[c].task = t /\ recs[c].end = e
      <4>1. ASSUME NEW r \in Tasks!Record, NEW n, n = [r EXCEPT !.end = e, !.at = now]
            PROVE  n \in Tasks!Record /\ n.task = r.task /\ n.end = e
        BY <1>2, <4>1 DEF Tasks!Record
      <4> HIDE DEF recs
      <4> QED
        BY <3>2, <3>3, <4>1
    <3>5. recs \in [Keys -> RecordOrNone]
      <4>1. \A d \in Keys : recs[d] \in RecordOrNone
        BY <1>2, <3>3, <3>4 DEF RecordOrNone
      <4>2. recs = [d \in Keys |-> recs[d]]
        BY <1>2
      <4> HIDE DEF recs
      <4> QED
        BY <4>1, <4>2
    <3>6. RecordTrue(recs[c], c, outcome, holds, taskRun')
      BY <1>1, <1>2, <1>3, <3>4 DEF RecordTrue, Tasks!HasEnd
    <3>7. \A d \in Keys : RecordTrue(recs[d], d, outcome, holds, taskRun')
      BY <1>5, <3>3, <3>6
    <3>8. IsFiniteSet(Recorded(recs))
      <4>1. records[c] # Tasks!NoRecord
        BY <3>2, RecordTypes DEF RecordOrNone
      <4>2. Recorded(recs) \subseteq Recorded(records)
        BY <3>3, <4>1 DEF Recorded
      <4> QED
        BY <4>2, FS_Subset DEF ChainsInv, PlacesCounted
    <3> HIDE DEF recs
    <3> QED
      BY <1>2, <1>4, <3>1, <3>5, <3>7, <3>8, PrunedAreTrue
  <2> QED
    BY <2>1, <2>2
<1>7. PlacesCounted'
  <2>1. Placed' = Placed \ {t} /\ t \in Placed
    BY <1>1, <1>2 DEF Placed
  <2>2. IsFiniteSet(Placed') /\ Cardinality(Placed') = Cardinality(Placed) - 1
    BY <2>1, FS_RemoveElement DEF ChainsInv, PlacesCounted
  <2>3. Cardinality(Placed) \in Nat
    BY FS_CardinalityType DEF ChainsInv, PlacesCounted
  <2> QED
    BY <1>1, <1>6, <2>2, <2>3 DEF ChainsInv, PlacesCounted, Tasks!ChainsAssumption
<1>8. TaskTypes'
  BY <1>1, <1>4, <1>6 DEF ChainsInv, TaskTypes, RecordOrNone
<1> QED
  BY <1>1, <1>4, <1>6, <1>7, <1>8 DEF ChainsInv, LookInv

\* What a task's goroutine does without the records: it ends the task, it panics, gives
\* its place back and recovers.
LEMMA TaskStepKeeps ==
    ASSUME Tasks!ChainsAssumption, ChainsInv, NEW t \in TaskIds,
           Tasks!EndTask(t) \/ Tasks!Panic(t) \/ Tasks!GiveBackPlace(t) \/ Tasks!Recover(t)
    PROVE  ChainsInv'
<1>1. UNCHANGED <<holds, gone, records, looking, now>>
  BY DEF Tasks!EndTask, Tasks!Panic, Tasks!GiveBackPlace, Tasks!Recover, Tasks!End, Tasks!tableVars
<1>2. /\ outcome \in [TaskIds -> Tasks!Outcomes] /\ taskRun \in [TaskIds -> Tasks!Runs]
      /\ \A u \in TaskIds : TaskTrue(u, outcome, holds, taskRun)
  BY DEF ChainsInv, TaskTypes
<1>3. PICK to \in {"ended", "panicking", "recovering", "recovered"},
           end \in {"live", "completed", "failed"} :
          /\ taskRun' = [taskRun EXCEPT ![t] = to] /\ outcome' = [outcome EXCEPT ![t] = end]
          /\ \/ to = "ended" /\ end = "completed" /\ taskRun[t] = "completing"
             \/ to = "ended" /\ end = "failed" /\ taskRun[t] = "failing"
             \/ to = "panicking" /\ end = "live" /\ taskRun[t] = "running"
             \/ to = "recovering" /\ end = "live" /\ taskRun[t] = "panicking"
             \/ to = "recovered" /\ end = "failed" /\ taskRun[t] = "recovering"
          /\ unfinished' = IF to = "recovering" THEN unfinished - 1 ELSE unfinished
  <2>1. taskRun[t] \in {"running", "panicking"} => outcome = [outcome EXCEPT ![t] = "live"]
    BY <1>2 DEF TaskTrue
  <2>2. CASE Tasks!EndTask(t)
    BY <2>2 DEF Tasks!EndTask, Tasks!End
  <2>3. CASE Tasks!Panic(t)
    BY <2>1, <2>3 DEF Tasks!Panic, Tasks!tableVars
  <2>4. CASE Tasks!GiveBackPlace(t)
    BY <2>1, <2>4 DEF Tasks!GiveBackPlace, Tasks!Places, Tasks!tableVars
  <2>5. CASE Tasks!Recover(t)
    BY <2>5 DEF Tasks!Recover, Tasks!End
  <2> QED
    BY <2>2, <2>3, <2>4, <2>5
<1>4. outcome' \in [TaskIds -> Tasks!Outcomes] /\ taskRun' \in [TaskIds -> Tasks!Runs]
  BY <1>2, <1>3 DEF Tasks!Outcomes, Tasks!Ends, Tasks!Runs
<1>5. \A u \in TaskIds : TaskTrue(u, outcome', holds, taskRun')
  BY <1>2, <1>3 DEF TaskTrue
<1>6. ASSUME NEW c \in Keys
      PROVE  RecordTrue(records[c], c, outcome', holds, taskRun')
  <2>1. CASE records[c] # Tasks!NoRecord /\ records[c].task = t
    <3>1. RecordTrue(records[c], c, outcome, holds, taskRun) /\ records[c] \in Tasks!Record
      BY <2>1, RecordedTask DEF ChainsInv
    <3>2. taskRun'[t] # "none" /\ taskRun'[t] \in Tasks!Runs /\ outcome[t] = "live"
      BY <1>2, <1>3, <1>4 DEF TaskTrue
    <3> QED
      BY <1>2, <1>3, <2>1, <3>1, <3>2 DEF RecordTrue, Tasks!HasEnd, Tasks!Record
  <2>2. CASE ~(records[c] # Tasks!NoRecord /\ records[c].task = t)
    BY <1>2, <1>3, <2>2, UntouchedRecord, RecordedTask
  <2> QED
    BY <2>1, <2>2
<1>7. PlacesCounted'
  <2>1. Cardinality(Placed) \in Nat
    BY FS_CardinalityType DEF ChainsInv, PlacesCounted
  <2>2. CASE taskRun[t] # "panicking"
    <3>1. Placed' = Placed
      BY <1>2, <1>3, <2>2 DEF Placed
    <3> QED
      BY <1>1, <1>3, <2>2, <3>1 DEF ChainsInv, PlacesCounted
  <2>3. CASE taskRun[t] = "panicking"
    <3>1. Placed' = Placed \ {t} /\ t \in Placed
      BY <1>2, <1>3, <2>3 DEF Placed
    <3>2. IsFiniteSet(Placed') /\ Cardinality(Placed') = Cardinality(Placed) - 1
      BY <3>1, FS_RemoveElement DEF ChainsInv, PlacesCounted
    <3> QED
      BY <1>1, <1>3, <2>1, <2>3, <3>2 DEF ChainsInv, PlacesCounted, Tasks!ChainsAssumption
  <2> QED
    BY <2>2, <2>3
<1>8. TaskTypes'
  BY <1>1, <1>4 DEF ChainsInv, TaskTypes
<1> QED
  BY <1>1, <1>5, <1>6, <1>7, <1>8 DEF ChainsInv, LookInv

LEMMA ChainsStep ==
    ASSUME Tasks!ChainsAssumption, ChainsInv, [Tasks!Next]_Tasks!vars
    PROVE  ChainsInv'
<1>1. ASSUME NEW c \in Keys, NEW files \in Files, Tasks!StartLocked(c, files),
             UNCHANGED <<gone, now>>, looking' = Tasks!Nobody
      PROVE  ChainsInv'
  <2>1. CASE UNCHANGED <<outcome, holds, records, unfinished, taskRun>>
    BY <1>1, <2>1 DEF ChainsInv, TaskTypes, PlacesCounted, Placed, LookInv, Tasks!Lookers
  <2> QED
    BY <1>1, <2>1, StartOrNot, StartKeeps
<1>2. ASSUME NEW c \in Keys, NEW files \in Files, Tasks!Post(c, files)
      PROVE  ChainsInv'
  BY <1>1, <1>2 DEF Tasks!Post
<1>3. CASE Tasks!Begin
  BY <1>1, <1>3 DEF Tasks!Begin, ChainsInv, TaskTypes, Tasks!Lookers, Tasks!ChainKeys
<1>4. ASSUME NEW t \in TaskIds, Tasks!Drop(t)
      PROVE  ChainsInv'
  BY <1>4 DEF Tasks!Drop, Tasks!tableVars, ChainsInv, TaskTypes, PlacesCounted, Placed, LookInv
<1>5. CASE Tasks!Tick
  BY <1>5 DEF Tasks!Tick, Tasks!tableVars, ChainsInv, TaskTypes, PlacesCounted, Placed, LookInv,
     Tasks!ChainsAssumption
<1>6. CASE UNCHANGED Tasks!vars
  BY <1>6 DEF Tasks!vars, Tasks!tableVars, ChainsInv, TaskTypes, PlacesCounted, Placed, LookInv
<1> QED
  BY <1>2, <1>3, <1>4, <1>5, <1>6, LookKeeps, RecordEndKeeps, TaskStepKeeps
     DEF Tasks!Next, Tasks!ChainKeys

-----------------------------------------------------------------------------

LEMMA ChainsInvariant ==
    ASSUME Tasks!ChainsAssumption
    PROVE  Tasks!Spec => []ChainsInv
<1>1. Tasks!Init => ChainsInv
  BY ChainsStart
<1>2. ChainsInv /\ [Tasks!Next]_Tasks!vars => ChainsInv'
  BY ChainsStep
<1> QED
  BY <1>1, <1>2, PTL DEF Tasks!Spec

(* The places of the index tasks are counted truly: no end and no panic    *)
(* loses one or frees it twice (startLocked, recordEnd,                    *)
(* giveBackPlaceUnlessEnded).                                              *)
THEOREM Places ==
    ASSUME Tasks!ChainsAssumption
    PROVE  Tasks!Spec => []Tasks!PlacesAreCounted
<1>1. ChainsInv => Tasks!PlacesAreCounted
  <2> SUFFICES ASSUME ChainsInv PROVE Tasks!PlacesAreCounted
    OBVIOUS
  <2>1. unfinished \in 0..MaxUnfinished
    BY FS_CardinalityType DEF ChainsInv, PlacesCounted, Tasks!ChainsAssumption
  <2>2. unfinished = Tasks!Cardinality({t \in TaskIds : taskRun[t] \in {"running", "panicking"}})
    BY TasksCount DEF ChainsInv, PlacesCounted, Placed
  <2> QED
    BY <2>1, <2>2 DEF ChainsInv, TaskTypes, Tasks!PlacesAreCounted, Tasks!TypeOK, Tasks!ChainKeys
<1> QED
  BY <1>1, ChainsInvariant, PTL

(* What a record tells of a task is so: it is open only while the task has *)
(* not recorded its end, unless the task panicked, and an end it tells is  *)
(* the task's own, whatever the table has dropped and whatever newer task  *)
(* the chain has (recordEnd, settleLocked, lastLocked).                    *)
THEOREM RecordsTellTheEnd ==
    ASSUME Tasks!ChainsAssumption
    PROVE  Tasks!Spec => [](Tasks!EndIsRecordedFirst /\ Tasks!RecordTellsTheEnd)
<1>1. ChainsInv => Tasks!EndIsRecordedFirst /\ Tasks!RecordTellsTheEnd
  <2> SUFFICES ASSUME ChainsInv, NEW c \in Keys, records[c] # Tasks!NoRecord
               PROVE  LET t == records[c].task
                      IN  /\ holds[t] = {c}
                          /\ records[c].end = "open" =>
                                /\ taskRun[t] \in {"running", "panicking", "recovering", "recovered"}
                                /\ taskRun[t] # "recovered" => outcome[t] = "live"
                          /\ Tasks!HasEnd(records[c]) =>
                                /\ outcome[t] = "live" =>
                                      taskRun[t] = (IF records[c].end = "failed" THEN "failing" ELSE "completing")
                                /\ outcome[t] # "live" => outcome[t] = records[c].end
    BY NoRecordIsTrue DEF Tasks!EndIsRecordedFirst, Tasks!RecordTellsTheEnd, Tasks!ChainKeys,
       Tasks!Open, Tasks!HasEnd
  <2> QED
    BY RecordedTask DEF ChainsInv, RecordTrue, TaskTrue
<1> QED
  BY <1>1, ChainsInvariant, PTL

(* A create leaves at most MaxEnded records with an end, and no record     *)
(* without one of a task that has ended: panics do not pile them up        *)
(* (pruneLocked, settleLocked).                                            *)
THEOREM RecordsStayBounded ==
    ASSUME Tasks!ChainsAssumption
    PROVE  Tasks!Spec => Tasks!CreateBoundsRecords
<1> DEFINE Bounds ==
        unfinished' > unfinished =>
          /\ Tasks!Cardinality({c \in Keys : Tasks!HasEnd(records'[c])}) <= MaxEnded
          /\ \A c \in Keys : Tasks!Open(records'[c]) => outcome'[records'[c].task] = "live"
<1>1. ChainsInv /\ [Tasks!Next]_Tasks!vars => [Bounds]_Tasks!vars
  <2> SUFFICES ASSUME ChainsInv, Tasks!Next, unfinished' > unfinished
               PROVE  /\ Cardinality(Ended(records')) <= MaxEnded
                      /\ \A c \in Keys : records'[c].end = "open" => outcome'[records'[c].task] = "live"
    BY TasksCount DEF Ended, Tasks!Open
  <2>1. PICK c \in Keys, files \in Files :
            Tasks!StartLocked(c, files) /\ UNCHANGED <<gone, now>> /\ looking' = Tasks!Nobody
    <3>1. unfinished \in Nat
      BY FS_CardinalityType DEF ChainsInv, PlacesCounted
    <3>2. ASSUME NEW t \in TaskIds, NEW e \in {"completed", "failed"}
          PROVE  ~(Tasks!RecordEnd(t, e) \/ Tasks!EndTask(t) \/ Tasks!Panic(t) \/ Tasks!GiveBackPlace(t)
                   \/ Tasks!Recover(t) \/ Tasks!Drop(t))
      BY <3>1 DEF Tasks!RecordEnd, Tasks!EndTask, Tasks!Panic, Tasks!GiveBackPlace, Tasks!Places,
         Tasks!Recover, Tasks!Drop
    <3>3. ~\E c \in Keys, files \in Files, waits \in BOOLEAN : Tasks!Look(c, files, waits)
      BY <3>1 DEF Tasks!Look
    <3>4. ~Tasks!Tick
      BY <3>1 DEF Tasks!Tick
    <3>5. CASE Tasks!Begin
      BY <3>5 DEF Tasks!Begin, ChainsInv, TaskTypes, Tasks!Lookers, Tasks!ChainKeys
    <3>6. CASE \E c \in Keys, files \in Files : Tasks!Post(c, files)
      BY <3>6 DEF Tasks!Post
    <3> QED
      BY <3>2, <3>3, <3>4, <3>5, <3>6 DEF Tasks!Next, Tasks!ChainKeys
  <2>2. unfinished' # unfinished
    BY FS_CardinalityType DEF ChainsInv, PlacesCounted
  <2> QED
    BY <2>1, <2>2, StartOrNot, StartKeeps
<1>2. Tasks!CreateBoundsRecords <=> [][Bounds]_Tasks!vars
  BY DEF Tasks!CreateBoundsRecords, Tasks!ChainKeys
<1> QED
  BY <1>1, <1>2, ChainsInvariant, PTL DEF Tasks!Spec

(* A describe does not start a task for files whose failure is on record,  *)
(* though what it looked at and what it starts are two steps               *)
(* (forDescription).                                                       *)
THEOREM FailuresAreNotRetried ==
    ASSUME Tasks!ChainsAssumption
    PROVE  Tasks!Spec => Tasks!FailureOnRecordIsNotRetried
<1> DEFINE NotRetried ==
        looking # Tasks!Nobody /\ unfinished' > unfinished =>
          LET r == records[looking.chain]
          IN  ~(r.end = "failed" /\ r.files = looking.files)
<1>1. ChainsInv => [NotRetried]_Tasks!vars
  BY DEF ChainsInv, LookInv
<1>2. Tasks!FailureOnRecordIsNotRetried <=> [][NotRetried]_Tasks!vars
  BY DEF Tasks!FailureOnRecordIsNotRetried
<1> QED
  BY <1>1, <1>2, ChainsInvariant, PTL DEF Tasks!Spec

\* All that chain_index.go promises of its registry, together.
THEOREM Registry ==
    ASSUME Tasks!ChainsAssumption
    PROVE  Tasks!Spec => Tasks!RecordsAreTrue
<1>1. (Tasks!Spec => []Tasks!PlacesAreCounted)
      /\ (Tasks!Spec => [](Tasks!EndIsRecordedFirst /\ Tasks!RecordTellsTheEnd))
  BY Places, RecordsTellTheEnd
<1>2. (Tasks!Spec => Tasks!CreateBoundsRecords) /\ (Tasks!Spec => Tasks!FailureOnRecordIsNotRetried)
  BY RecordsStayBounded, FailuresAreNotRetried
<1> QED
  BY <1>1, <1>2, PTL DEF Tasks!RecordsAreTrue

-----------------------------------------------------------------------------
(***************************************************************************)
(* ChainDescription, for any chains, files, rotations and removals: what   *)
(* the cache of descriptions gives is what a read gives, and the parts of  *)
(* a ready chain were read whole.                                          *)
(***************************************************************************)

(* Sequences whose elements have no common set, and places in an order. *)

IsList(s) == s \in Seq(Range(s))

LEMMA ListOf ==
    ASSUME NEW S, NEW s \in Seq(S)
    PROVE  IsList(s) /\ \A i \in 1 .. Len(s) : s[i] \in S
BY DEF IsList, Range

LEMMA ListTypes ==
    ASSUME NEW s, IsList(s)
    PROVE  Len(s) \in Nat /\ DOMAIN s = 1 .. Len(s)
BY DEF IsList

LEMMA EmptyList == IsList(<<>>) /\ Len(<<>>) = 0
BY DEF IsList

LEMMA ListAppend ==
    ASSUME NEW s, NEW x, IsList(s)
    PROVE  /\ IsList(Append(s, x)) /\ Len(Append(s, x)) = Len(s) + 1
           /\ \A i \in 1 .. Len(s) : Append(s, x)[i] = s[i]
           /\ Append(s, x)[Len(s) + 1] = x
<1> DEFINE S == Range(s) \union {x}
<1>1. s \in Seq(S)
  BY DEF IsList, Range
<1>2. Append(s, x) \in Seq(S)
  BY <1>1
<1>3. IsList(Append(s, x))
  BY <1>2, ListOf
<1> HIDE DEF S
<1> QED
  BY <1>1, <1>3

LEMMA ListFront ==
    ASSUME NEW s, NEW n, IsList(s), n \in 0 .. Len(s)
    PROVE  /\ IsList(SubSeq(s, 1, n)) /\ Len(SubSeq(s, 1, n)) = n
           /\ \A i \in 1 .. n : SubSeq(s, 1, n)[i] = s[i]
<1>1. s \in Seq(Range(s))
  BY DEF IsList
<1>2. SubSeq(s, 1, n) \in Seq(Range(s)) /\ Len(SubSeq(s, 1, n)) = n
      /\ \A i \in 1 .. n : SubSeq(s, 1, n)[i] = s[i]
  BY <1>1, SubSeqProperties
<1>3. IsList(SubSeq(s, 1, n))
  BY <1>2, ListOf
<1> QED
  BY <1>2, <1>3

\* A sequence whose elements are all of another or one more.
Of(t, s, x) == IsList(t) /\ \A i \in DOMAIN t : t[i] = x \/ \E k \in DOMAIN s : t[i] = s[k]

LEMMA ListPut ==
    ASSUME NEW s, NEW x, IsList(s)
    PROVE  Of(<<x>> \o s, s, x)
<1> DEFINE S == Range(s) \union {x}
<1>1. s \in Seq(S) /\ <<x>> \in Seq(S)
  BY DEF IsList, Range
<1>2. <<x>> \o s \in Seq(S)
  BY <1>1
<1> DEFINE t == <<x>> \o s
<1>3. IsList(t) /\ \A i \in 1 .. Len(t) : t[i] \in S
  <2> HIDE DEF S
  <2> QED
    BY <1>2, ListOf
<1> HIDE DEF t
<1>4. \A i \in DOMAIN t : t[i] \in S
  BY <1>3, ListTypes
<1>5. Of(t, s, x)
  BY <1>3, <1>4 DEF Of, Range
<1> QED
  BY <1>5 DEF t

LEMMA ListRemove ==
    ASSUME NEW s, NEW x, NEW k, IsList(s), k \in DOMAIN s
    PROVE  Of(RemoveAt(s, k), s, x)
<1>1. s \in Seq(Range(s)) /\ k \in 1 .. Len(s) /\ Len(s) \in Nat
  BY DEF IsList
<1>2. SubSeq(s, 1, k - 1) \in Seq(Range(s)) /\ SubSeq(s, k + 1, Len(s)) \in Seq(Range(s))
  BY <1>1, SubSeqProperties
<1>3. RemoveAt(s, k) \in Seq(Range(s))
  BY <1>2 DEF RemoveAt
<1>4. \A i \in 1 .. Len(RemoveAt(s, k)) : RemoveAt(s, k)[i] \in Range(s)
  BY <1>3, ListOf
<1> QED
  BY <1>3, <1>4, ListOf DEF Of, Range

LEMMA ListCut ==
    ASSUME NEW s, NEW x, NEW n, IsList(s), n \in 0 .. Len(s)
    PROVE  Of(SubSeq(s, 1, n), s, x)
BY ListFront, ListTypes DEF Of

LEMMA OfOf ==
    ASSUME NEW s, NEW t, NEW u, NEW x, Of(t, s, x), Of(u, t, x)
    PROVE  Of(u, s, x)
BY DEF Of

LEMMA LeastNumber ==
    ASSUME NEW T, T \subseteq Nat, T # {}
    PROVE  \E n \in T : \A m \in T : n <= m
<1>1. PICK n \in T : \A m \in T : ~(<<m, n>> \in OpToRel(<, Nat))
  BY NatLessThanWellFounded, WFMin
<1>2. \A m \in T : m < n => <<m, n>> \in OpToRel(<, Nat)
  BY DEF OpToRel
<1>3. \A m \in T : ~(m < n)
  BY <1>1, <1>2
<1> QED
  BY <1>3

\* A set of numbers has as many ranks as members.
LEMMA Ranked ==
    ASSUME NEW N \in Nat, NEW S, S \subseteq 1 .. N, NEW i \in 1 .. Cardinality(S)
    PROVE  \E k \in S : Cardinality({j \in S : j <= k}) = i
<1> DEFINE Upto(k) == {j \in S : j <= k}
           Count(k) == Cardinality(Upto(k))
           T == {k \in 0 .. N : Count(k) >= i}
<1>1. IsFiniteSet(S) /\ Cardinality(S) \in Nat
  <2>1. IsFiniteSet(1 .. N)
    BY FS_Interval
  <2> QED
    BY <2>1, FS_Subset, FS_CardinalityType
<1>2. ASSUME NEW k \in 0 .. N PROVE IsFiniteSet(Upto(k)) /\ Count(k) \in Nat
  <2>1. Upto(k) \subseteq S
    OBVIOUS
  <2> QED
    BY <1>1, <2>1, FS_Subset, FS_CardinalityType
<1>3. Upto(N) = S /\ Upto(0) = {}
  <2>1. \A j \in S : j \in Nat /\ j <= N /\ ~(j <= 0)
    OBVIOUS
  <2> QED
    BY <2>1
<1>4. Count(N) = Cardinality(S) /\ Count(0) = 0
  BY <1>3, FS_EmptySet
<1>5. N \in T /\ 0 \notin T /\ T \subseteq Nat
  <2> HIDE DEF Count
  <2> QED
    BY <1>1, <1>4
<1>6. PICK k \in T : \A m \in T : k <= m
  <2> HIDE DEF T
  <2> QED
    BY <1>5, LeastNumber
<1>7. k \in 1 .. N /\ Count(k) >= i /\ k - 1 \in 0 .. N /\ ~(Count(k - 1) >= i)
  <2>1. k \in 0 .. N /\ Count(k) >= i /\ k # 0
    <3> HIDE DEF Count
    <3> QED
      BY <1>5
  <2>2. k - 1 \in 0 .. N
    BY <2>1
  <2>3. k - 1 \notin T
    <3> HIDE DEF T
    <3> QED
      BY <1>5, <1>6, <2>1
  <2> HIDE DEF Count
  <2> QED
    BY <2>1, <2>2, <2>3
<1>8. Upto(k) = IF k \in S THEN Upto(k - 1) \union {k} ELSE Upto(k - 1)
  <2>1. k \in 1 .. N
    BY <1>7
  <2>2. \A j \in S : j <= k <=> (j <= k - 1 \/ j = k)
    BY <2>1
  <2> QED
    BY <2>2, Zenon
<1>9. k \notin Upto(k - 1)
  <2>1. ~(k <= k - 1)
    <3>1. k \in Nat
      BY <1>5, <1>6
    <3> HIDE DEF T
    <3> QED
      BY <3>1
  <2> QED
    BY <2>1
<1>10. Count(k - 1) \in Nat /\ IsFiniteSet(Upto(k - 1)) /\ Count(k) \in Nat
  BY <1>2, <1>7
<1>11. Count(k) = IF k \in S THEN Count(k - 1) + 1 ELSE Count(k - 1)
  <2> HIDE DEF Upto
  <2> QED
    BY <1>8, <1>9, <1>10, FS_AddElement
<1>12. k \in S /\ Count(k) = i
  <2> HIDE DEF Count
  <2> QED
    BY <1>7, <1>10, <1>11
<1> QED
  BY <1>12

(* The inductive invariant: what is so of the disk, of the entries of the  *)
(* cache and of a describe, and stays so whatever happens to the disk.     *)

TheDisk ==
    [dir |-> dir, written |-> written, journal |-> journal, store |-> store,
     rotated |-> spent.rotations, built |-> spent.builds]

\* The files no rotation has created yet, and the stats index files have had.
Uncreated(o) == {Created[i] : i \in (o.rotated + 1) .. Len(Created)}
Stats(o) == 0 .. (o.built + 1)

DiskRight(o) ==
    /\ o.rotated \in Nat /\ o.built \in Nat
    /\ o.dir \in [Names -> FileIds \union {0}]
    /\ \A m, n \in Names : m # n /\ o.dir[m] # 0 => o.dir[m] # o.dir[n]
    /\ \A n \in Names : o.dir[n] \notin Uncreated(o)
    /\ o.written \in [FileIds -> Nat]
    /\ o.journal \in BOOLEAN
    /\ o.store \in [Names -> Indexes]
    /\ \A n \in Names : /\ o.store[n].ver \in Stats(o)
                        /\ o.store[n].ver = 0 => o.store[n] = Absent
                        /\ o.store[n].file # 0 => o.store[n].size <= o.written[o.store[n].file]

\* A file that has left a name does not come back to it: it only gets older names.
LeftName(o, n, f) == \A m \in IF o.journal THEN {0, n} ELSE 0 .. n : o.dir[m] # f

\* A part as a listing found it, then or later.
FoundPart(o, part) ==
    /\ part.name \in Names /\ part.file \in FileIds \ Uncreated(o)
    /\ part.size \in Nat /\ part.size <= o.written[part.file]
    /\ o.dir[part.name] = part.file \/ LeftName(o, part.name, part.file)

\* The index file of a part is no index of it, and will not become one.
NoIndexOf(o, part) ==
    \/ o.store[part.name].file # part.file
    \/ o.store[part.name].size < o.written[part.file]
    \/ LeftName(o, part.name, part.file)

\* What a stamp tells of the index file, as long as that file stays.
StampTells(o, part, stamp) ==
    /\ stamp \in Indexes /\ stamp.ver \in Stats(o) /\ stamp.file \in {0, part.file}
    /\ stamp.file # 0 => part.size <= stamp.size /\ stamp.size <= o.written[part.file]
    /\ stamp.file = 0 => stamp.size = 0
    /\ stamp.ver # 0 /\ o.store[part.name].ver = stamp.ver =>
          IF stamp.file = 0 THEN NoIndexOf(o, part) ELSE o.store[part.name] = stamp

EmptyFacts(stamp) == [Empty EXCEPT !.indexed = (stamp.file # 0), !.stamp = stamp]
IndexFacts(o, part, stamp) ==
    [factsOfIndex(stamp) EXCEPT !.stamp = stamp, !.header = IF o.journal THEN part.file ELSE 0]

\* Facts that may be kept, and any a read of a frozen part may give.
MayBeKept(o, part, f) ==
    /\ FoundPart(o, part) /\ StampTells(o, part, f.stamp)
    /\ IF part.size = 0 THEN f = EmptyFacts(f.stamp)
       ELSE f.stamp.file # 0 /\ f = IndexFacts(o, part, f.stamp)
Headed(part) == [NoFacts EXCEPT !.header = part.file]
WereRead(o, part, f) ==
    IF part.readError THEN part.size # 0 /\ f = Unreadable
    ELSE \/ MayBeKept(o, part, f)
         \/ part.size # 0 /\ (f = Unreadable \/ f = NoFacts \/ f = Headed(part))

WasListed(o, c) ==
    /\ IsList(c)
    /\ \A i \in 1 .. Len(c) : /\ FoundPart(o, c[i])
                              /\ c[i].readError \in BOOLEAN /\ (c[i].readError => c[i].size # 0)
                              /\ c[i].name = 0 => i = Len(c)

AllMayBeKept(o, c, facts) == \A i \in 1 .. Len(c) : c[i].name # 0 => MayBeKept(o, c[i], facts[i])
AllWereRead(o, c, facts) ==
    /\ Len(facts) <= Len(c)
    /\ \A i \in 1 .. Len(facts) : c[i].name # 0 /\ WereRead(o, c[i], facts[i])

EntryRight(o, e) ==
    /\ IsList(e.key) /\ IsList(e.facts) /\ Len(e.facts) = Len(e.key)
    /\ AllMayBeKept(o, e.key, e.facts)

WholeThen(o, a) ==
    \A i \in DOMAIN a.cand :
        /\ ~a.cand[i].readError /\ a.cand[i].file \in FileIds
        /\ a.facts[i].lines \in Int /\ a.facts[i].lines <= o.written[a.cand[i].file]
        /\ a.cand[i].name # 0 => a.facts[i].lines >= a.cand[i].size

MoreFrozen(d) == Len(d.facts) < Len(d.cand) /\ d.cand[Len(d.facts) + 1].name # 0

\* What a describe knows at each of its steps.
Reading == {"stamp", "frozen", "active"}
DescribeFields == {"pc", "attempt", "cand", "facts", "cached", "ver", "changed", "answer"}
DescribeRight(o, d) ==
    /\ DOMAIN d = DescribeFields
    /\ d.pc \in {"idle", "resolve", "get", "check"} \union Reading
    /\ d.pc \in {"get", "check"} \union Reading => WasListed(o, d.cand) /\ IsList(d.facts)
    /\ d.pc = "get" => d.facts = <<>>
    /\ d.pc = "check" => /\ d.cached /\ everyFrozenPartListed(d.cand)
                         /\ Len(d.facts) = Len(d.cand) /\ AllMayBeKept(o, d.cand, d.facts)
    /\ d.pc \in Reading => AllWereRead(o, d.cand, d.facts)
    /\ d.pc \in {"stamp", "frozen"} => ~d.cached
    /\ d.pc = "frozen" => MoreFrozen(d) /\ d.ver \in Stats(o)
    /\ d.pc = "active" => ~MoreFrozen(d)
    /\ d.answer # None /\ d.answer.state = "ready" => WholeThen(o, d.answer)

CacheRight(o, entries) == IsList(entries) /\ \A k \in 1 .. Len(entries) : EntryRight(o, entries[k])

Counts == [describes : Nat, rotations : Nat, builds : Nat, removals : Nat, denials : Nat]

DescribeInv ==
    /\ spent \in Counts /\ DiskRight(TheDisk)
    /\ CacheRight(TheDisk, cache)
    /\ DOMAIN ds = Procs /\ \A p \in Procs : DescribeRight(TheDisk, ds[p])

-----------------------------------------------------------------------------
(* What may happen to the disk, and what it leaves true. *)

MovesOn(o, q) ==
    /\ o.journal = q.journal
    /\ o.written \in [FileIds -> Nat] /\ q.written \in [FileIds -> Nat]
    /\ \A f \in FileIds : o.written[f] <= q.written[f]
    /\ Uncreated(q) \subseteq Uncreated(o)
    /\ o.built \in Nat /\ q.built \in Nat /\ o.built <= q.built
    /\ o.store \in [Names -> Indexes]
    /\ \A n \in Names : q.store[n] = o.store[n] \/ q.store[n].ver \notin 1 .. (o.built + 1)
    /\ \A n \in Names, f \in FileIds \ Uncreated(o) :
          /\ LeftName(o, n, f) => LeftName(q, n, f)
          /\ o.dir[n] = f => q.dir[n] = f \/ LeftName(q, n, f)

LEMMA FoundStays ==
    ASSUME NEW o, NEW q, NEW x, MovesOn(o, q), FoundPart(o, x)
    PROVE  FoundPart(q, x)
<1>1. x.file \in FileIds /\ o.written[x.file] \in Nat /\ q.written[x.file] \in Nat
      /\ o.written[x.file] <= q.written[x.file]
  BY DEF MovesOn, FoundPart
<1>2. q.dir[x.name] = x.file \/ LeftName(q, x.name, x.file)
  BY DEF MovesOn, FoundPart
<1> QED
  BY <1>1, <1>2 DEF MovesOn, FoundPart

LEMMA StampStays ==
    ASSUME NEW o, NEW q, NEW x, NEW s, MovesOn(o, q), FoundPart(o, x), StampTells(o, x, s)
    PROVE  StampTells(q, x, s)
<1>1. x.file \in FileIds \ Uncreated(o) /\ x.name \in Names
      /\ o.written[x.file] \in Nat /\ q.written[x.file] \in Nat /\ o.written[x.file] <= q.written[x.file]
  BY DEF MovesOn, FoundPart
<1>2. s \in Indexes /\ s.file \in {0, x.file} /\ (s.file = 0 => s.size = 0)
      /\ (s.file # 0 => x.size <= s.size /\ s.size <= o.written[x.file])
  BY DEF StampTells
<1>3. s.size \in Nat /\ s.ver \in Nat
  BY <1>2 DEF Indexes
<1>4. s.ver \in Stats(q)
  BY <1>3 DEF StampTells, MovesOn, Stats
<1>5. s.file # 0 => x.size <= s.size /\ s.size <= q.written[x.file]
  BY <1>1, <1>2, <1>3
<1>6. ASSUME s.ver # 0, q.store[x.name].ver = s.ver
      PROVE  IF s.file = 0 THEN NoIndexOf(q, x) ELSE q.store[x.name] = s
  <2>1. s.ver \in 1 .. (o.built + 1)
    BY <1>3, <1>6 DEF StampTells, MovesOn, Stats
  <2>2. q.store[x.name] = o.store[x.name]
    BY <1>1, <1>6, <2>1 DEF MovesOn
  <2>3. IF s.file = 0 THEN NoIndexOf(o, x) ELSE o.store[x.name] = s
    BY <1>6, <2>2 DEF StampTells
  <2>4. o.store[x.name].size \in Nat
    BY <1>1 DEF MovesOn, Indexes
  <2>5. LeftName(o, x.name, x.file) => LeftName(q, x.name, x.file)
    BY <1>1 DEF MovesOn
  <2>6. NoIndexOf(o, x) => NoIndexOf(q, x)
    BY <1>1, <2>2, <2>4, <2>5 DEF NoIndexOf
  <2> QED
    BY <2>2, <2>3, <2>6
<1> QED
  BY <1>2, <1>4, <1>5, <1>6 DEF StampTells

LEMMA KeptStays ==
    ASSUME NEW o, NEW q, NEW x, NEW f, MovesOn(o, q), MayBeKept(o, x, f)
    PROVE  MayBeKept(q, x, f)
<1>1. FoundPart(q, x) /\ StampTells(q, x, f.stamp)
  BY FoundStays, StampStays DEF MayBeKept
<1>2. IndexFacts(o, x, f.stamp) = IndexFacts(q, x, f.stamp)
  BY DEF IndexFacts, MovesOn
<1> QED
  BY <1>1, <1>2 DEF MayBeKept

LEMMA EntryStays ==
    ASSUME NEW o, NEW q, NEW e, MovesOn(o, q), EntryRight(o, e)
    PROVE  EntryRight(q, e)
BY KeptStays DEF EntryRight, AllMayBeKept

LEMMA WholeStays ==
    ASSUME NEW o, NEW q, NEW a, MovesOn(o, q), WholeThen(o, a)
    PROVE  WholeThen(q, a)
<1> SUFFICES ASSUME NEW i \in DOMAIN a.cand
             PROVE  a.facts[i].lines <= q.written[a.cand[i].file]
  BY DEF WholeThen
<1>1. a.cand[i].file \in FileIds /\ a.facts[i].lines \in Int
      /\ a.facts[i].lines <= o.written[a.cand[i].file]
  BY DEF WholeThen
<1>2. /\ o.written[a.cand[i].file] \in Nat /\ q.written[a.cand[i].file] \in Nat
      /\ o.written[a.cand[i].file] <= q.written[a.cand[i].file]
  BY <1>1 DEF MovesOn
<1> QED
  BY <1>1, <1>2

LEMMA DescribeStays ==
    ASSUME NEW o, NEW q, NEW d, MovesOn(o, q), DescribeRight(o, d)
    PROVE  DescribeRight(q, d)
<1>1. WasListed(o, d.cand) => WasListed(q, d.cand)
  BY FoundStays DEF WasListed
<1>2. AllMayBeKept(o, d.cand, d.facts) => AllMayBeKept(q, d.cand, d.facts)
  BY KeptStays DEF AllMayBeKept
<1>3. AllWereRead(o, d.cand, d.facts) => AllWereRead(q, d.cand, d.facts)
  BY KeptStays DEF AllWereRead, WereRead
<1>4. d.ver \in Stats(o) => d.ver \in Stats(q)
  BY DEF Stats, MovesOn
<1>5. WholeThen(o, d.answer) => WholeThen(q, d.answer)
  BY WholeStays
<1> QED
  BY <1>1, <1>2, <1>3, <1>4, <1>5 DEF DescribeRight

LEMMA DiskMoves ==
    ASSUME DescribeInv, spent' \in Counts, DiskRight(TheDisk'), MovesOn(TheDisk, TheDisk'), UNCHANGED <<cache, ds>>
    PROVE  DescribeInv'
<1>1. CacheRight(TheDisk', cache')
  BY EntryStays DEF DescribeInv, CacheRight
<1>2. \A p \in Procs : DescribeRight(TheDisk', ds'[p])
  BY DescribeStays DEF DescribeInv
<1> QED
  BY <1>1, <1>2 DEF DescribeInv

LEMMA DiskTypes ==
    ASSUME DescribeAssumption, DiskRight(TheDisk)
    PROVE  /\ spent.rotations \in Nat /\ spent.builds \in Nat
           /\ dir \in [Names -> FileIds \union {0}]
           /\ \A m, n \in Names : m # n /\ dir[m] # 0 => dir[m] # dir[n]
           /\ \A n \in Names : dir[n] \notin Uncreated(TheDisk)
           /\ written \in [FileIds -> Nat] /\ journal \in BOOLEAN /\ store \in [Names -> Indexes]
           /\ \A n \in Names : /\ store[n].ver \in Stats(TheDisk)
                               /\ store[n].ver = 0 => store[n] = Absent
                               /\ store[n].file # 0 => store[n].size <= written[store[n].file]
BY DEF DiskRight, TheDisk

LEMMA MovesOnTo ==
    ASSUME DescribeAssumption, DiskRight(TheDisk), journal' = journal, written' \in [FileIds -> Nat],
           \A f \in FileIds : written[f] <= written'[f],
           Uncreated(TheDisk') \subseteq Uncreated(TheDisk),
           spent'.builds \in Nat, spent.builds <= spent'.builds,
           \A n \in Names : store'[n] = store[n] \/ store'[n].ver \notin 1 .. (spent.builds + 1),
           \A n \in Names, f \in FileIds \ Uncreated(TheDisk) :
              /\ LeftName(TheDisk, n, f) => LeftName(TheDisk', n, f)
              /\ dir[n] = f => dir'[n] = f \/ LeftName(TheDisk', n, f)
    PROVE  MovesOn(TheDisk, TheDisk')
<1> DEFINE o == TheDisk
           q == TheDisk'
<1>1. /\ o.journal = journal /\ q.journal = journal' /\ o.written = written /\ q.written = written'
      /\ o.built = spent.builds /\ q.built = spent'.builds /\ o.store = store /\ q.store = store'
      /\ o.dir = dir /\ q.dir = dir'
  BY DEF TheDisk
<1>2. written \in [FileIds -> Nat] /\ spent.builds \in Nat /\ store \in [Names -> Indexes]
  BY DiskTypes
<1> HIDE DEF o, q
<1>3. MovesOn(o, q)
  BY <1>1, <1>2 DEF MovesOn, o, q
<1> QED
  BY <1>3 DEF o, q

LEMMA WriteMoves ==
    ASSUME DescribeAssumption, DescribeInv, Write
    PROVE  DescribeInv'
<1>1. PICK n \in {0, 1} : /\ dir[n] # 0 /\ written[dir[n]] < Len(Stamps[dir[n]])
                          /\ written' = [written EXCEPT ![dir[n]] = @ + 1]
  BY DEF Write
<1>2. n \in Names /\ dir[n] \in FileIds
  BY <1>1, DiskTypes DEF DescribeInv, Names, DescribeAssumption
<1>3. written' \in [FileIds -> Nat] /\ \A f \in FileIds : written[f] <= written'[f]
  BY <1>1, <1>2, DiskTypes DEF DescribeInv
<1>4. UNCHANGED <<dir, journal, denied, store, cache, ds, spent>>
  BY DEF Write
<1>5. TheDisk' = [TheDisk EXCEPT !.written = written']
  BY <1>4 DEF TheDisk
<1>6. Uncreated(TheDisk') = Uncreated(TheDisk) /\ Stats(TheDisk') = Stats(TheDisk)
      /\ \A k, f : LeftName(TheDisk', k, f) = LeftName(TheDisk, k, f)
  BY <1>5 DEF Uncreated, Stats, LeftName, TheDisk
<1>7. MovesOn(TheDisk, TheDisk')
  BY <1>3, <1>4, <1>6, MovesOnTo, DiskTypes DEF DescribeInv
<1>8. \A k \in Names : store[k].file # 0 => store[k].size <= written'[store[k].file]
  <2> SUFFICES ASSUME NEW k \in Names, store[k].file # 0 PROVE store[k].size <= written'[store[k].file]
    OBVIOUS
  <2>1. store[k].file \in FileIds /\ store[k].size \in Nat /\ store[k].size <= written[store[k].file]
    BY DiskTypes DEF DescribeInv, Indexes
  <2> QED
    BY <1>3, <2>1, DiskTypes DEF DescribeInv
<1>9. DiskRight(TheDisk')
  BY <1>3, <1>4, <1>6, <1>8, DiskTypes DEF DescribeInv, DiskRight, TheDisk
<1> QED
  BY <1>4, <1>7, <1>9, DiskMoves DEF DescribeInv

LEMMA OpensFailMoves ==
    ASSUME DescribeAssumption, DescribeInv, Allow \/ \E f \in FileIds : Deny(f)
    PROVE  DescribeInv'
<1>1. UNCHANGED <<dir, written, journal, store, cache, ds>>
      /\ (spent' = spent \/ spent' = [spent EXCEPT !.denials = @ + 1])
  BY DEF Allow, Deny
<1>2. spent' \in Counts /\ spent'.builds = spent.builds /\ spent'.rotations = spent.rotations
  BY <1>1 DEF DescribeInv, Counts
<1>3. TheDisk' = TheDisk
  BY <1>1, <1>2 DEF TheDisk
<1> QED
  BY <1>1, <1>2, <1>3 DEF DescribeInv

\* An index file is put in a name's place, with a stat it never had, or removed.
LEMMA IndexMoves ==
    ASSUME DescribeAssumption, DescribeInv, NEW n \in Names, Build(n) \/ RemoveIndex(n)
    PROVE  DescribeInv'
<1> DEFINE idx == store'[n]
<1>1. UNCHANGED <<dir, written, journal, cache, ds>> /\ store' = [store EXCEPT ![n] = idx]
      /\ spent' \in Counts /\ spent'.rotations = spent.rotations
      /\ spent'.builds \in Nat /\ spent.builds <= spent'.builds
      /\ idx \in Indexes /\ idx.ver \in 0 .. (spent'.builds + 1)
      /\ idx.ver \notin 1 .. (spent.builds + 1) /\ (idx.ver = 0 => idx = Absent)
      /\ (idx.file # 0 => idx.file \in FileIds /\ idx.size <= written[idx.file])
  <2>1. spent \in Counts /\ store \in [Names -> Indexes] /\ written \in [FileIds -> Nat]
        /\ dir \in [Names -> FileIds \union {0}]
    BY DiskTypes DEF DescribeInv
  <2>2. CASE Build(n)
    <3>1. spent' = [spent EXCEPT !.builds = @ + 1] /\ dir[n] \in FileIds
          /\ idx = [file |-> dir[n], size |-> written[dir[n]], ver |-> spent.builds + 2]
      BY <2>1, <2>2 DEF Build
    <3>2. spent' \in Counts /\ spent'.rotations = spent.rotations /\ spent'.builds = spent.builds + 1
          /\ spent.builds \in Nat
      BY <2>1, <3>1 DEF Counts
    <3>3. idx \in Indexes /\ idx.ver = spent.builds + 2 /\ idx.file = dir[n] /\ idx.size = written[dir[n]]
      BY <2>1, <3>1, <3>2 DEF Indexes
    <3> HIDE DEF idx
    <3>4. UNCHANGED <<dir, written, journal, cache, ds>> /\ store' = [store EXCEPT ![n] = idx]
      BY <2>1, <2>2 DEF Build, idx
    <3> QED
      BY <2>1, <3>1, <3>2, <3>3, <3>4
  <2>3. CASE RemoveIndex(n)
    <3>1. spent' = [spent EXCEPT !.removals = @ + 1] /\ idx = Absent
      BY <2>1, <2>3 DEF RemoveIndex
    <3>2. spent' \in Counts /\ spent'.rotations = spent.rotations /\ spent'.builds = spent.builds
          /\ spent.builds \in Nat
      BY <2>1, <3>1 DEF Counts
    <3>3. idx \in Indexes /\ idx.ver = 0 /\ idx.file = 0
      BY <3>1 DEF Indexes, Absent
    <3> HIDE DEF idx
    <3>4. UNCHANGED <<dir, written, journal, cache, ds>> /\ store' = [store EXCEPT ![n] = idx]
      BY <2>1, <2>3 DEF RemoveIndex, idx
    <3> QED
      BY <3>1, <3>2, <3>3, <3>4
  <2> QED
    BY <2>2, <2>3
<1> HIDE DEF idx
<1>2. \A k \in Names : store'[k] = IF k = n THEN idx ELSE store[k]
  BY <1>1, DiskTypes DEF DescribeInv
<1>3. Uncreated(TheDisk') = Uncreated(TheDisk) /\ \A k, f : LeftName(TheDisk', k, f) = LeftName(TheDisk, k, f)
  BY <1>1 DEF Uncreated, LeftName, TheDisk
<1>4. MovesOn(TheDisk, TheDisk')
  BY <1>1, <1>2, <1>3, MovesOnTo, DiskTypes DEF DescribeInv
<1>5. \A k \in Names : /\ store'[k].ver \in Stats(TheDisk')
                       /\ store'[k].ver = 0 => store'[k] = Absent
                       /\ store'[k].file # 0 => store'[k].size <= written[store'[k].file]
  <2> SUFFICES ASSUME NEW k \in Names
               PROVE  /\ store'[k].ver \in Stats(TheDisk')
                      /\ store'[k].ver = 0 => store'[k] = Absent
                      /\ store'[k].file # 0 => store'[k].size <= written[store'[k].file]
    OBVIOUS
  <2>1. CASE k = n
    BY <1>1, <1>2, <2>1 DEF Stats, TheDisk
  <2>2. CASE k # n
    <3>1. store'[k] = store[k] /\ store[k].ver \in 0 .. (spent.builds + 1)
      BY <1>2, <2>2, DiskTypes DEF DescribeInv, Stats, TheDisk
    <3>2. store[k].ver \in Stats(TheDisk')
      BY <1>1, <3>1, DiskTypes DEF DescribeInv, Stats, TheDisk
    <3> QED
      BY <3>1, <3>2, DiskTypes DEF DescribeInv
  <2> QED
    BY <2>1, <2>2
<1>6. DiskRight(TheDisk')
  <2>1. store' \in [Names -> Indexes]
    BY <1>1, DiskTypes DEF DescribeInv
  <2> QED
    BY <1>1, <1>3, <1>5, <2>1, DiskTypes DEF DescribeInv, DiskRight, TheDisk
<1> QED
  BY <1>1, <1>4, <1>6, DiskMoves

LEMMA CreatedTypes ==
    ASSUME DescribeAssumption, DescribeInv, Rotate
    PROVE  LET f == Created[spent.rotations + 1] IN
           /\ f \in FileIds /\ f # 0 /\ f \in Uncreated(TheDisk) /\ f \notin Uncreated(TheDisk')
           /\ Uncreated(TheDisk') \subseteq Uncreated(TheDisk)
           /\ spent' \in Counts /\ spent'.rotations = spent.rotations + 1 /\ spent'.builds = spent.builds
<1> DEFINE i == spent.rotations + 1
<1>1. spent' = [spent EXCEPT !.rotations = @ + 1] /\ spent \in Counts /\ spent.rotations < Len(Created)
  BY DEF Rotate, DescribeInv
<1>2. spent' \in Counts /\ spent'.rotations = spent.rotations + 1 /\ spent'.builds = spent.builds
      /\ spent.rotations \in Nat
  BY <1>1 DEF Counts
<1>3. Len(Created) \in Nat /\ DOMAIN Created = 1 .. Len(Created) /\ i \in 1 .. Len(Created)
      /\ \A k \in 1 .. Len(Created) : Created[k] \in FileIds
  BY <1>1, <1>2 DEF DescribeAssumption
<1>4. Created[i] \in FileIds /\ Created[i] # 0
  BY <1>3 DEF DescribeAssumption
<1>5. Uncreated(TheDisk) = {Created[k] : k \in i .. Len(Created)}
      /\ Uncreated(TheDisk') = {Created[k] : k \in (i + 1) .. Len(Created)}
  BY <1>2 DEF Uncreated, TheDisk
<1>6. \A k \in (i + 1) .. Len(Created) : Created[k] # Created[i] /\ k \in i .. Len(Created)
  <2>1. \A k \in (i + 1) .. Len(Created) : k \in 1 .. Len(Created) /\ k # i /\ k \in i .. Len(Created)
    BY <1>2, <1>3
  <2> QED
    BY <1>3, <2>1 DEF DescribeAssumption
<1>7. i \in i .. Len(Created)
  BY <1>2, <1>3
<1> HIDE DEF i
<1> QED
  BY <1>2, <1>4, <1>5, <1>6, <1>7 DEF i

\* A rotation gives each file the next older name, or the active one a name of its own.
LEMMA RotateNames ==
    ASSUME DescribeAssumption, DescribeInv, Rotate
    PROVE  LET f == Created[spent.rotations + 1] IN
           \/ /\ ~journal /\ dir' = [k \in Names |-> IF k = 0 THEN f ELSE dir[k - 1]]
           \/ /\ journal /\ \E n \in 1 .. Frozen : dir' = [dir EXCEPT ![n] = dir[0], ![0] = f]
<1> DEFINE gaps == {k \in 1 .. Frozen : dir[k] = 0} \union {Frozen}
<1>1. gaps \subseteq 1 .. Frozen /\ Frozen \in gaps
  BY DEF DescribeAssumption
<1>2. Min(gaps) \in gaps
  <2>1. gaps \subseteq Nat /\ gaps # {}
    BY <1>1
  <2> HIDE DEF gaps
  <2> QED
    BY <2>1, LeastNumber DEF Min
<1>3. journal \in BOOLEAN
  BY DiskTypes DEF DescribeInv
<1> HIDE DEF gaps
<1>4. Min(gaps) \in 1 .. Frozen
  BY <1>1, <1>2
<1> QED
  BY <1>3, <1>4 DEF Rotate, gaps

LEMMA RotateMoves ==
    ASSUME DescribeAssumption, DescribeInv, Rotate
    PROVE  DescribeInv'
<1> DEFINE f == Created[spent.rotations + 1]
<1>1. /\ f \in FileIds /\ f # 0 /\ f \in Uncreated(TheDisk) /\ f \notin Uncreated(TheDisk')
      /\ Uncreated(TheDisk') \subseteq Uncreated(TheDisk)
      /\ spent' \in Counts /\ spent'.rotations = spent.rotations + 1 /\ spent'.builds = spent.builds
  BY CreatedTypes
<1>2. \/ /\ ~journal /\ dir' = [k \in Names |-> IF k = 0 THEN f ELSE dir[k - 1]]
      \/ /\ journal /\ \E n \in 1 .. Frozen : dir' = [dir EXCEPT ![n] = dir[0], ![0] = f]
  BY RotateNames
<1> HIDE DEF f
<1>3. UNCHANGED <<written, journal, denied, store, cache, ds>>
  BY DEF Rotate
<1>4. Frozen \in Nat \ {0} /\ Names = 0 .. Frozen /\ dir \in [Names -> FileIds \union {0}]
      /\ spent.builds \in Nat /\ spent.rotations \in Nat
      /\ (\A m, n \in Names : m # n /\ dir[m] # 0 => dir[m] # dir[n])
      /\ \A n \in Names : dir[n] # f
  BY <1>1, DiskTypes DEF DescribeInv, DescribeAssumption, Names
<1>5. /\ dir' \in [Names -> FileIds \union {0}]
      /\ \A n \in Names : dir'[n] = f \/ \E m \in Names : dir'[n] = dir[m]
      /\ \A m, n \in Names : m # n /\ dir'[m] # 0 => dir'[m] # dir'[n]
  <2>1. CASE ~journal
    <3>1. \A k \in Names : dir'[k] = IF k = 0 THEN f ELSE dir[k - 1]
      BY <1>2, <2>1
    <3>2. \A k \in Names : k # 0 => k - 1 \in Names
      BY <1>4
    <3>3. dir' \in [Names -> FileIds \union {0}]
      BY <1>1, <1>2, <1>4, <2>1, <3>2
    <3>4. ASSUME NEW m \in Names, NEW n \in Names, m # n, dir'[m] # 0 PROVE dir'[m] # dir'[n]
      <4>1. m # 0 /\ n # 0 => dir[m - 1] # dir[n - 1] \/ dir[m - 1] = 0
        <5>1. m \in Int /\ n \in Int
          BY <1>4
        <5> QED
          BY <1>4, <3>2, <3>4, <5>1
      <4> QED
        BY <1>1, <1>4, <3>1, <3>2, <3>4, <4>1
    <3> QED
      BY <3>1, <3>2, <3>3, <3>4
  <2>2. CASE journal
    <3>1. PICK n \in 1 .. Frozen : dir' = [dir EXCEPT ![n] = dir[0], ![0] = f]
      BY <1>2, <2>2
    <3>2. 0 \in Names /\ n \in Names /\ n # 0
      BY <1>4
    <3>3. \A k \in Names : dir'[k] = IF k = 0 THEN f ELSE IF k = n THEN dir[0] ELSE dir[k]
      BY <1>4, <3>1, <3>2
    <3>4. dir' \in [Names -> FileIds \union {0}]
      BY <1>1, <1>4, <3>1, <3>2
    <3> QED
      BY <1>1, <1>4, <3>2, <3>3, <3>4
  <2> QED
    BY <2>1, <2>2
<1>6. ASSUME NEW n \in Names, NEW g \in FileIds \ Uncreated(TheDisk)
      PROVE  /\ LeftName(TheDisk, n, g) => LeftName(TheDisk', n, g)
             /\ dir[n] = g => dir'[n] = g \/ LeftName(TheDisk', n, g)
  <2>1. g # f /\ g # 0
    BY <1>1 DEF DescribeAssumption
  <2>2. CASE ~journal
    <3>1. \A k \in Names : dir'[k] = IF k = 0 THEN f ELSE dir[k - 1]
      BY <1>2, <2>2
    <3>2. \A k \in 0 .. n : k \in Names /\ (k # 0 => k - 1 \in 0 .. n /\ k - 1 \in Names /\ k - 1 # n)
      BY <1>4
    <3>3. LeftName(TheDisk', n, g) <=> \A m \in 0 .. n : dir'[m] # g
      BY <1>3, <2>2 DEF LeftName, TheDisk
    <3>4. LeftName(TheDisk, n, g) <=> \A m \in 0 .. n : dir[m] # g
      BY <2>2 DEF LeftName, TheDisk
    <3> QED
      BY <1>4, <2>1, <3>1, <3>2, <3>3, <3>4
  <2>3. CASE journal
    <3>1. PICK k \in 1 .. Frozen : dir' = [dir EXCEPT ![k] = dir[0], ![0] = f]
      BY <1>2, <2>3
    <3>2. 0 \in Names /\ k \in Names /\ k # 0
      BY <1>4
    <3>3. \A m \in Names : dir'[m] = IF m = 0 THEN f ELSE IF m = k THEN dir[0] ELSE dir[m]
      BY <1>4, <3>1, <3>2
    <3>4. LeftName(TheDisk', n, g) <=> dir'[0] # g /\ dir'[n] # g
      BY <1>3, <2>3 DEF LeftName, TheDisk
    <3>5. LeftName(TheDisk, n, g) <=> dir[0] # g /\ dir[n] # g
      BY <2>3 DEF LeftName, TheDisk
    <3> QED
      BY <1>4, <2>1, <3>2, <3>3, <3>4, <3>5
  <2> QED
    BY <2>2, <2>3
<1>7. MovesOn(TheDisk, TheDisk')
  <2>1. written' \in [FileIds -> Nat] /\ \A g \in FileIds : written[g] <= written'[g]
    BY <1>3, DiskTypes DEF DescribeInv
  <2>2. spent'.builds \in Nat /\ spent.builds <= spent'.builds
    BY <1>1, <1>4
  <2> QED
    BY <1>1, <1>3, <1>6, <2>1, <2>2, MovesOnTo DEF DescribeInv
<1>8. DiskRight(TheDisk')
  <2>1. \A n \in Names : dir'[n] \notin Uncreated(TheDisk')
    BY <1>1, <1>5, DiskTypes DEF DescribeInv
  <2>2. Stats(TheDisk') = Stats(TheDisk)
    BY <1>1 DEF Stats, TheDisk
  <2>3. spent'.rotations \in Nat /\ spent'.builds \in Nat
    BY <1>1, <1>4
  <2> QED
    BY <1>3, <1>5, <2>1, <2>2, <2>3, DiskTypes DEF DescribeInv, DiskRight, TheDisk
<1> QED
  BY <1>1, <1>3, <1>7, <1>8, DiskMoves

-----------------------------------------------------------------------------
(* What a listing, a read and a hit of the cache give. *)

ListedParts ==
    /\ IsList(Listing)
    /\ \A i \in 1 .. Len(Listing) :
          LET x == Listing[i] IN
          /\ x = PartNamed(x.name) /\ x.name \in Names /\ dir[x.name] # 0
          /\ x.name = 0 => i = Len(Listing)

LEMMA ListingParts ==
    ASSUME DescribeAssumption
    PROVE  ListedParts
<1> DEFINE n == Cardinality(Taken)
           PlaceAt(i) == CHOOSE k \in Taken : Cardinality({j \in Taken : j <= k}) = i
<1>1. Frozen \in Nat /\ Taken \subseteq 1 .. (Frozen + 1) /\ Frozen + 1 \in Nat
  BY DEF DescribeAssumption, Taken
<1>2. n \in Nat
  <2>1. IsFiniteSet(1 .. (Frozen + 1))
    BY <1>1, FS_Interval
  <2>2. IsFiniteSet(Taken)
    BY <1>1, <2>1, FS_Subset
  <2> QED
    BY <2>2, FS_CardinalityType
<1>3. ASSUME NEW i \in 1 .. n PROVE PlaceAt(i) \in Taken /\ Cardinality({j \in Taken : j <= PlaceAt(i)}) = i
  <2> DEFINE N == Frozen + 1
  <2>1. N \in Nat /\ Taken \subseteq 1 .. N
    BY <1>1
  <2> HIDE DEF N
  <2>2. \E k \in Taken : Cardinality({j \in Taken : j <= k}) = i
    BY <2>1, Ranked
  <2> QED
    BY <2>2
<1>4. ASSUME NEW i \in 1 .. n, NameAt(PlaceAt(i)) = 0 PROVE i = n
  <2>1. PlaceAt(i) \in 1 .. (Frozen + 1)
    BY <1>1, <1>3
  <2>2. PlaceAt(i) = Frozen + 1
    <3> DEFINE k == PlaceAt(i)
    <3> HIDE DEF k
    <3>1. k \in 1 .. (Frozen + 1) /\ NameAt(k) = 0
      BY <1>4, <2>1 DEF k
    <3>2. k = Frozen + 1
      BY <1>1, <3>1 DEF NameAt
    <3> QED
      BY <3>2 DEF k
  <2>3. {j \in Taken : j <= PlaceAt(i)} = Taken
    <3>1. \A j \in Taken : j <= Frozen + 1
      BY <1>1
    <3> QED
      BY <2>2, <3>1
  <2> QED
    BY <1>3, <2>3
<1> DEFINE part(i) == PartNamed(NameAt(PlaceAt(i)))
<1>5. ASSUME NEW i \in 1 .. n
      PROVE  /\ part(i).name = NameAt(PlaceAt(i)) /\ part(i) = PartNamed(part(i).name)
             /\ part(i).name \in Names /\ dir[part(i).name] # 0
  <2>1. part(i).name = NameAt(PlaceAt(i))
    BY DEF PartNamed
  <2>2. PlaceAt(i) \in Taken
    BY <1>3
  <2>3. \A k \in Taken : NameAt(k) \in Names /\ dir[NameAt(k)] # 0
    BY <1>1 DEF Taken, NameAt, Names
  <2> HIDE DEF part, PlaceAt
  <2>4. part(i) = PartNamed(part(i).name)
    BY <2>1 DEF part
  <2> QED
    BY <2>1, <2>2, <2>3, <2>4
<1>6. Listing = [i \in 1 .. n |-> part(i)]
  BY DEF Listing
<1> HIDE DEF n, part, PlaceAt
<1>7. Listing \in Seq({part(i) : i \in 1 .. n}) /\ Len(Listing) = n /\ \A i \in 1 .. n : Listing[i] = part(i)
  BY <1>2, <1>6
<1>8. IsList(Listing)
  BY <1>7, ListOf
<1> QED
  BY <1>4, <1>5, <1>7, <1>8 DEF ListedParts

LEMMA PartFields ==
    ASSUME NEW n
    PROVE  /\ PartNamed(n).name = n /\ PartNamed(n).file = dir[n] /\ PartNamed(n).size = written[dir[n]]
           /\ PartNamed(n).readError = (dir[n] \in denied /\ written[dir[n]] > 0)
BY DEF PartNamed

LEMMA ListingWasListed ==
    ASSUME DescribeAssumption, DiskRight(TheDisk)
    PROVE  WasListed(TheDisk, Listing)
<1>1. ListedParts
  BY ListingParts
<1>2. ASSUME NEW n \in Names, dir[n] # 0
      PROVE  LET x == PartNamed(n) IN
             FoundPart(TheDisk, x) /\ x.readError \in BOOLEAN /\ (x.readError => x.size # 0)
  <2>1. dir[n] \in FileIds \ Uncreated(TheDisk) /\ written[dir[n]] \in Nat
    BY <1>2, DiskTypes
  <2>2. TheDisk.dir = dir /\ TheDisk.written = written
    BY DEF TheDisk
  <2> DEFINE x == PartNamed(n)
  <2>3. x.name = n /\ x.file = dir[n] /\ x.size = written[dir[n]]
        /\ x.readError = (dir[n] \in denied /\ written[dir[n]] > 0)
    BY PartFields
  <2> HIDE DEF x
  <2>4. FoundPart(TheDisk, x)
    BY <2>1, <2>2, <2>3 DEF FoundPart
  <2>5. x.readError \in BOOLEAN
    BY <2>3, Zenon
  <2>6. ~(written[dir[n]] > 0) \/ x.size # 0
    BY <2>1, <2>3
  <2>7. x.readError => x.size # 0
    BY <2>3, <2>6, Zenon
  <2> QED
    BY <2>4, <2>5, <2>7 DEF x
<1>3. \A i \in 1 .. Len(Listing) : FoundPart(TheDisk, Listing[i])
          /\ Listing[i].readError \in BOOLEAN /\ (Listing[i].readError => Listing[i].size # 0)
  BY <1>1, <1>2 DEF ListedParts
<1> QED
  BY <1>1, <1>3 DEF ListedParts, WasListed

\* The fields of facts.
LEMMA FactsFields ==
    /\ NoFacts.stamp = Absent /\ Unreadable.unreadable /\ ~NoFacts.unreadable
    /\ NoFacts.lines = -1 /\ ~NoFacts.timesKnown /\ ~NoFacts.indexed /\ ~Unreadable.indexed
    /\ \A x : Headed(x).lines = -1 /\ ~Headed(x).timesKnown /\ ~Headed(x).indexed /\ ~Headed(x).unreadable
    /\ \A s : /\ EmptyFacts(s).stamp = s /\ EmptyFacts(s).lines = 0 /\ EmptyFacts(s).first = NoTime
              /\ EmptyFacts(s).max = NoTime /\ ~EmptyFacts(s).noTimestamps /\ ~EmptyFacts(s).unreadable
    /\ \A o, x, s : LET f == IndexFacts(o, x, s)
                        g == factsOfIndex(s)
                    IN  /\ f.stamp = s /\ f.lines = s.size /\ ~f.unreadable /\ f.timesKnown
                        /\ f.lines = g.lines /\ f.first = g.first /\ f.max = g.max
                        /\ f.noTimestamps = g.noTimestamps
BY DEF NoFacts, Unreadable, Headed, EmptyFacts, Empty, IndexFacts, factsOfIndex, Absent

LEMMA FactsOfSame ==
    ASSUME NEW a, NEW b, a.file = b.file, a.size = b.size
    PROVE  factsOfIndex(a) = factsOfIndex(b)
BY DEF factsOfIndex

\* The stored index of a part, and the stamp of what a read finds.
LEMMA StoredOrNot ==
    ASSUME DescribeAssumption, DiskRight(TheDisk), NEW x, x.name \in Names, x.file \in FileIds, NEW ver \in Nat
    PROVE  LET s == withSource(ver, storedIndex(x))
               idx == store[x.name]
           IN  \/ /\ storedIndex(x) = {} /\ s = [file |-> 0, size |-> 0, ver |-> ver]
                  /\ idx.file # x.file \/ dir[x.name] # x.file \/ idx.size < written[x.file]
               \/ /\ storedIndex(x) = {idx} /\ s = [file |-> x.file, size |-> written[x.file], ver |-> ver]
                  /\ idx.file = x.file /\ idx.size = written[x.file] /\ dir[x.name] = x.file
                  /\ (CHOOSE y \in storedIndex(x) : TRUE) = idx
<1> DEFINE idx == store[x.name]
<1>1. idx.file = x.file => idx.size <= written[x.file]
  BY DiskTypes DEF DescribeAssumption
<1>2. idx.size \in Nat /\ written[x.file] \in Nat
  BY DiskTypes DEF Indexes
<1>3. CASE idx.file = x.file /\ dir[x.name] = x.file /\ idx.size = written[x.file]
  <2>1. storedIndex(x) = {idx}
    BY <1>3 DEF storedIndex
  <2>2. (CHOOSE y \in storedIndex(x) : TRUE) = idx
    BY <2>1
  <2>3. withSource(ver, storedIndex(x)) = [file |-> idx.file, size |-> idx.size, ver |-> ver]
    BY <2>1, <2>2 DEF withSource
  <2> QED
    BY <1>3, <2>1, <2>2, <2>3
<1>4. CASE ~(idx.file = x.file /\ dir[x.name] = x.file /\ idx.size = written[x.file])
  <2>1. storedIndex(x) = {}
    BY <1>4 DEF storedIndex
  <2>2. withSource(ver, storedIndex(x)) = [file |-> 0, size |-> 0, ver |-> ver]
    BY <2>1 DEF withSource, Absent
  <2>3. idx.file # x.file \/ dir[x.name] # x.file \/ idx.size < written[x.file]
    BY <1>1, <1>2, <1>4
  <2> QED
    BY <2>1, <2>2, <2>3
<1> QED
  BY <1>3, <1>4

LEMMA SourceTells ==
    ASSUME DescribeAssumption, DiskRight(TheDisk), NEW x, FoundPart(TheDisk, x), NEW ver \in Stats(TheDisk)
    PROVE  StampTells(TheDisk, x, withSource(ver, storedIndex(x)))
<1> DEFINE s == withSource(ver, storedIndex(x))
           idx == store[x.name]
<1>1. /\ TheDisk.dir = dir /\ TheDisk.written = written /\ TheDisk.store = store
      /\ x.name \in Names /\ x.file \in FileIds /\ x.file # 0
      /\ x.size \in Nat /\ x.size <= written[x.file] /\ written[x.file] \in Nat
  BY DiskTypes DEF TheDisk, FoundPart, DescribeAssumption
<1>2. ver \in Nat
  BY DiskTypes DEF Stats, TheDisk
<1>3. idx = [file |-> idx.file, size |-> idx.size, ver |-> idx.ver]
  BY <1>1, DiskTypes DEF Indexes
<1>4. CASE storedIndex(x) = {}
  <2>1. s = [file |-> 0, size |-> 0, ver |-> ver]
        /\ (idx.file # x.file \/ dir[x.name] # x.file \/ idx.size < written[x.file])
    BY <1>1, <1>2, <1>4, StoredOrNot
  <2>2. NoIndexOf(TheDisk, x)
    BY <1>1, <2>1 DEF NoIndexOf, FoundPart
  <2>3. s \in Indexes
    BY <1>2, <2>1 DEF Indexes
  <2> HIDE DEF s
  <2> QED
    BY <2>1, <2>2, <2>3 DEF StampTells, s
<1>5. CASE storedIndex(x) # {}
  <2>1. s = [file |-> x.file, size |-> written[x.file], ver |-> ver]
        /\ idx.file = x.file /\ idx.size = written[x.file]
    BY <1>1, <1>2, <1>5, StoredOrNot
  <2>2. idx.ver = ver => idx = s
    BY <1>3, <2>1
  <2>3. s \in Indexes
    BY <1>1, <1>2, <2>1 DEF Indexes
  <2> QED
    BY <1>1, <2>1, <2>2, <2>3 DEF StampTells
<1> QED
  BY <1>4, <1>5

FactsFieldNames == {"indexed", "unreadable", "lines", "timesKnown", "noTimestamps", "first", "max",
                    "stamp", "header"}

LEMMA HeaderAdded ==
    ASSUME NEW x, NEW s, journal \in BOOLEAN, x.size # 0
    PROVE  LET f == withJournalHeader(x, [factsOfIndex(s) EXCEPT !.stamp = s])
           IN  f = IndexFacts(TheDisk, x, s) \/ (x.file \in denied /\ f = Unreadable)
<1> DEFINE g == [factsOfIndex(s) EXCEPT !.stamp = s]
<1>1. ~g.unreadable /\ g.header = 0
  <2>1. NoFacts.unreadable = FALSE /\ NoFacts.header = 0
    BY DEF NoFacts
  <2>2. DOMAIN NoFacts = FactsFieldNames
    BY DEF NoFacts, FactsFieldNames
  <2> HIDE DEF NoFacts
  <2> QED
    BY <2>1, <2>2 DEF factsOfIndex, FactsFieldNames
<1>2. TheDisk.journal = journal
  BY DEF TheDisk
<1>3. IndexFacts(TheDisk, x, s) = [g EXCEPT !.header = IF journal THEN x.file ELSE 0]
  BY <1>2 DEF IndexFacts, factsOfIndex, NoFacts
<1>4. [g EXCEPT !.header = 0] = g
  <2>1. g = [i \in DOMAIN g |-> g[i]]
    BY DEF factsOfIndex, NoFacts
  <2> HIDE DEF g
  <2>2. [g EXCEPT !.header = 0] = [i \in DOMAIN g |-> IF i = "header" THEN 0 ELSE g[i]]
    BY <2>1
  <2>3. \A i \in DOMAIN g : (IF i = "header" THEN 0 ELSE g[i]) = g[i]
    BY <1>1
  <2> QED
    BY <2>1, <2>2, <2>3, Zenon
<1> HIDE DEF g
<1> QED
  BY <1>1, <1>3, <1>4 DEF withJournalHeader, g

\* A read of a frozen part.
LEMMA FrozenRead ==
    ASSUME DescribeAssumption, DiskRight(TheDisk), NEW x, FoundPart(TheDisk, x),
           x.readError \in BOOLEAN, x.readError => x.size # 0,
           NEW ver \in Stats(TheDisk), NEW f \in frozenFacts(x, ver)
    PROVE  WereRead(TheDisk, x, f)
<1> DEFINE s == withSource(ver, storedIndex(x))
<1>1. x.name \in Names /\ x.file \in FileIds /\ x.file # 0 /\ ver \in Nat /\ journal \in BOOLEAN
  BY DiskTypes DEF FoundPart, DescribeAssumption, Stats, TheDisk
<1>2. StampTells(TheDisk, x, s)
  BY SourceTells
<1>3. /\ storedIndex(x) = {} <=> s.file = 0
      /\ storedIndex(x) # {} =>
            factsOfIndex(CHOOSE y \in storedIndex(x) : TRUE) = factsOfIndex(s)
  BY <1>1, StoredOrNot, FactsOfSame
<1>4. CASE x.readError
  BY <1>4 DEF frozenFacts, WereRead
<1>5. CASE ~x.readError /\ x.size = 0
  <2>1. f = [Empty EXCEPT !.indexed = (storedIndex(x) # {}), !.stamp = s]
    BY <1>5 DEF frozenFacts
  <2>2. f = EmptyFacts(s)
    BY <1>3, <2>1 DEF EmptyFacts
  <2> HIDE DEF s
  <2>3. f.stamp = s
    BY <2>2, FactsFields
  <2> QED
    BY <1>2, <1>5, <2>2, <2>3 DEF WereRead, MayBeKept
<1>6. CASE ~x.readError /\ x.size # 0 /\ storedIndex(x) # {}
  <2>1. f = withJournalHeader(x, [factsOfIndex(s) EXCEPT !.stamp = s])
    BY <1>3, <1>6 DEF frozenFacts
  <2> HIDE DEF s
  <2>2. f = IndexFacts(TheDisk, x, s) \/ f = Unreadable
    BY <1>1, <1>6, <2>1, HeaderAdded
  <2>3. f = IndexFacts(TheDisk, x, s) => f.stamp = s
    BY FactsFields
  <2> QED
    BY <1>2, <1>3, <1>6, <2>2, <2>3 DEF WereRead, MayBeKept
<1>7. CASE ~x.readError /\ x.size # 0 /\ storedIndex(x) = {}
  <2>1. f = Unreadable \/ f = withJournalHeader(x, NoFacts)
    BY <1>7 DEF frozenFacts
  <2>2. f = Unreadable \/ f = NoFacts \/ f = Headed(x)
    BY <2>1 DEF withJournalHeader, Headed
  <2> QED
    BY <1>7, <2>2 DEF WereRead
<1> QED
  BY <1>4, <1>5, <1>6, <1>7

\* A read of the active part.
LEMMA ActiveRead ==
    ASSUME DescribeAssumption, DiskRight(TheDisk), NEW x, FoundPart(TheDisk, x), x.readError \in BOOLEAN,
           NEW f \in activeFacts(x)
    PROVE  f.unreadable \/ (~x.readError /\ f.lines \in Int /\ f.lines <= written[x.file])
<1>1. x.name \in Names /\ x.file \in FileIds /\ written[x.file] \in Nat /\ 0 \in Nat
  BY DiskTypes DEF FoundPart
<1>2. \A g : LET h == withJournalHeader(x, g) IN h = g \/ h = Unreadable \/ h = [g EXCEPT !.header = x.file]
  BY DEF withJournalHeader
<1> DEFINE live == [NoFacts EXCEPT !.first = FirstMs(x.file, written[x.file]), !.timesKnown = TRUE,
                           !.noTimestamps = written[x.file] > 0 /\ FirstMs(x.file, written[x.file]) = NoTime]
           stored == factsOfIndex(CHOOSE y \in storedIndex(x) : TRUE)
<1>3. live.lines = -1 /\ [live EXCEPT !.header = x.file].lines = -1
  BY DEF NoFacts
<1>4. storedIndex(x) # {} => stored.lines = written[x.file] /\ [stored EXCEPT !.header = x.file].lines = written[x.file]
  <2>1. storedIndex(x) # {} => (CHOOSE y \in storedIndex(x) : TRUE).size = written[x.file]
    BY <1>1, StoredOrNot
  <2> QED
    BY <2>1 DEF factsOfIndex, NoFacts
<1>5. CASE x.readError
  BY <1>5, FactsFields DEF activeFacts
<1>6. CASE ~x.readError /\ x.size = 0
  <2>1. f = [Empty EXCEPT !.indexed = (storedIndex(x) # {})]
    BY <1>6 DEF activeFacts
  <2>2. f.lines = 0
    BY <2>1 DEF Empty, NoFacts
  <2> QED
    BY <1>1, <1>6, <2>2
<1>7. CASE ~x.readError /\ x.size # 0
  <2>1. \/ storedIndex(x) # {} /\ f = withJournalHeader(x, stored)
        \/ f = Unreadable
        \/ f = withJournalHeader(x, live)
    BY <1>7 DEF activeFacts
  <2> HIDE DEF live, stored
  <2>2. f = Unreadable \/ f.lines = -1 \/ f.lines = written[x.file]
    BY <1>2, <1>3, <1>4, <2>1
  <2> QED
    BY <1>1, <1>7, <2>2, FactsFields
<1> QED
  BY <1>5, <1>6, <1>7

\* What was read of a frozen part that a ready chain may have.
LEMMA FrozenWhole ==
    ASSUME NEW o, o.written \in [FileIds -> Nat], NEW x, NEW f, WereRead(o, x, f), x.readError \in BOOLEAN,
           x.name # 0, ~f.unreadable, ~waitsFor(x, f)
    PROVE  /\ ~x.readError /\ x.file \in FileIds /\ f.lines \in Int
           /\ f.lines <= o.written[x.file] /\ f.lines >= x.size
<1>1. ~x.readError /\ f # Unreadable
  BY FactsFields DEF WereRead
<1>2. ~(x.size # 0 /\ (f = NoFacts \/ f = Headed(x)))
  <2>1. ASSUME x.size # 0, f.lines = -1, ~f.timesKnown PROVE FALSE
    BY <2>1 DEF waitsFor, isEmpty
  <2> QED
    BY <2>1, FactsFields
<1>3. MayBeKept(o, x, f)
  BY <1>1, <1>2 DEF WereRead
<1>4. x.file \in FileIds /\ x.size \in Nat /\ o.written[x.file] \in Nat
  BY <1>3 DEF MayBeKept, FoundPart
<1>5. CASE x.size = 0
  <2>1. f.lines = 0
    BY <1>3, <1>5, FactsFields DEF MayBeKept
  <2> QED
    BY <1>1, <1>4, <1>5, <2>1
<1>6. CASE x.size # 0
  <2>1. f.stamp.file # 0 /\ f.lines = f.stamp.size
    BY <1>3, <1>6, FactsFields DEF MayBeKept
  <2>2. f.stamp.size \in Nat /\ x.size <= f.stamp.size /\ f.stamp.size <= o.written[x.file]
    BY <1>3, <2>1 DEF MayBeKept, StampTells, Indexes
  <2> QED
    BY <1>1, <1>4, <2>1, <2>2
<1> QED
  BY <1>5, <1>6

\* A stamp that holds is the stamp a read would take now, but for an index that was
\* stored after its name was stamped and has gone.
LEMMA HitSource ==
    ASSUME DescribeAssumption, DiskRight(TheDisk), NEW x, FoundPart(TheDisk, x),
           dir[x.name] = x.file, x.size = written[x.file],
           NEW s, StampTells(TheDisk, x, s), stampHolds(s, x), ~(s.ver = 0 /\ s.file # 0)
    PROVE  /\ withSource(store[x.name].ver, storedIndex(x)) = s
           /\ storedIndex(x) = {} <=> s.file = 0
<1> DEFINE idx == store[x.name]
           w == withSource(idx.ver, storedIndex(x))
<1>1. /\ TheDisk.dir = dir /\ TheDisk.written = written /\ TheDisk.store = store
      /\ x.name \in Names /\ x.file \in FileIds /\ x.file # 0 /\ written[x.file] \in Nat
      /\ idx \in Indexes /\ (idx.ver = 0 => idx = Absent)
  BY DiskTypes DEF TheDisk, FoundPart, DescribeAssumption
<1>2. s = [file |-> s.file, size |-> s.size, ver |-> s.ver] /\ s.ver = idx.ver /\ s.file \in {0, x.file}
      /\ (s.file # 0 => s.size = x.size) /\ (s.file = 0 => s.size = 0)
  BY DEF StampTells, stampHolds, Indexes
<1>3. CASE s.file = 0
  <2>1. ~LeftName(TheDisk, x.name, x.file)
    <3>1. x.name \in {0, x.name} /\ x.name \in 0 .. x.name
      BY <1>1 DEF Names
    <3> QED
      BY <1>1, <3>1 DEF LeftName
  <2>2. idx.file # x.file \/ idx.size < written[x.file]
    <3>1. CASE s.ver # 0
      BY <1>1, <1>2, <1>3, <2>1, <3>1 DEF StampTells, NoIndexOf
    <3>2. CASE s.ver = 0
      <4>1. idx.file = 0
        BY <1>1, <1>2, <3>2 DEF Absent
      <4> QED
        BY <1>1, <4>1
    <3> QED
      BY <3>1, <3>2
  <2>3. idx.size \in Nat /\ idx.ver \in Nat
    BY <1>1 DEF Indexes
  <2>4. ~(idx.file = x.file /\ idx.size = written[x.file])
    BY <1>1, <2>2, <2>3
  <2>5. storedIndex(x) = {} /\ w = [file |-> 0, size |-> 0, ver |-> idx.ver]
    BY <1>1, <2>3, <2>4, StoredOrNot
  <2> QED
    BY <1>2, <1>3, <2>5
<1>4. CASE s.file # 0
  <2>1. idx = s /\ idx.file = x.file /\ idx.size = written[x.file] /\ idx.ver \in Nat
    BY <1>1, <1>2, <1>4 DEF StampTells, Indexes
  <2>2. ~(idx.file # x.file \/ dir[x.name] # x.file \/ idx.size < written[x.file])
    BY <1>1, <2>1
  <2>3. storedIndex(x) # {} /\ w = [file |-> x.file, size |-> written[x.file], ver |-> idx.ver]
    BY <1>1, <2>1, <2>2, StoredOrNot
  <2> QED
    BY <1>2, <1>4, <2>1, <2>3
<1> QED
  BY <1>3, <1>4

ReadAgain(part, f) ==
    IF f.stamp.ver = 0 /\ f.stamp.file # 0
    THEN LET g == factsOfIndex([file |-> part.file, size |-> part.size])
         IN  <<f.lines, f.first, f.max, f.noTimestamps>> = <<g.lines, g.first, g.max, g.noTimestamps>>
    ELSE frozenFacts(part, store[part.name].ver) = {f}

LEMMA FactsOfNothing ==
    ASSUME NEW s, s.size = 0
    PROVE  LET g == factsOfIndex(s)
           IN  g.lines = 0 /\ g.first = NoTime /\ g.max = NoTime /\ g.noTimestamps = FALSE
<1>1. StampedLines(s.file, s.size) = {}
  BY DEF StampedLines
<1>2. FirstMs(s.file, s.size) = NoTime /\ MaxMs(s.file, s.size) = NoTime
  BY <1>1 DEF FirstMs, MaxMs
<1>3. (s.size > 0 /\ FirstMs(s.file, s.size) = NoTime) = FALSE
  <2>1. ~(s.size > 0)
    OBVIOUS
  <2> QED
    BY <2>1, Zenon
<1>4. DOMAIN NoFacts = FactsFieldNames
  BY DEF NoFacts, FactsFieldNames
<1> HIDE DEF NoFacts
<1> QED
  BY <1>2, <1>3, <1>4 DEF factsOfIndex, FactsFieldNames

LEMMA HitIsRead ==
    ASSUME DescribeAssumption, DiskRight(TheDisk), NEW part, FoundPart(TheDisk, part),
           dir[part.name] = part.file, part.size = written[part.file],
           ~part.readError, part.file \in denied => part.size = 0,
           NEW f, MayBeKept(TheDisk, part, f), stampHolds(f.stamp, part)
    PROVE  ReadAgain(part, f)
<1> DEFINE s == f.stamp
           asNow == [file |-> part.file, size |-> part.size]
<1>0. journal \in BOOLEAN
  BY DiskTypes
<1>1. CASE s.ver = 0 /\ s.file # 0
  <2>1. s.file = part.file /\ s.size = part.size
    BY <1>1 DEF stampHolds, MayBeKept, StampTells
  <2>2. factsOfIndex(asNow) = factsOfIndex(s)
    BY <2>1, FactsOfSame
  <2>3. CASE part.size = 0
    <3>1. f = EmptyFacts(s)
      BY <2>3 DEF MayBeKept
    <3>2. f.lines = 0 /\ f.first = NoTime /\ f.max = NoTime /\ f.noTimestamps = FALSE
      <4>1. DOMAIN NoFacts = FactsFieldNames
        BY DEF NoFacts, FactsFieldNames
      <4>2. EmptyFacts(s).lines = 0 /\ EmptyFacts(s).first = NoTime /\ EmptyFacts(s).max = NoTime
            /\ EmptyFacts(s).noTimestamps = FALSE
        BY DEF EmptyFacts, Empty, NoFacts
      <4> HIDE DEF s
      <4> QED
        BY <3>1, <4>2
    <3>3. asNow.size = 0
      BY <2>3
    <3> HIDE DEF asNow
    <3> QED
      BY <1>1, <3>2, <3>3, FactsOfNothing DEF ReadAgain, asNow
  <2>4. CASE part.size # 0
    <3>1. f = IndexFacts(TheDisk, part, s)
      BY <2>4 DEF MayBeKept
    <3> DEFINE g == factsOfIndex(s)
    <3>2. f.lines = g.lines /\ f.first = g.first /\ f.max = g.max /\ f.noTimestamps = g.noTimestamps
      <4> HIDE DEF s, g
      <4> QED
        BY <3>1, FactsFields DEF g
    <3> HIDE DEF g
    <3> QED
      BY <1>1, <2>2, <3>2 DEF ReadAgain, g
  <2> QED
    BY <2>3, <2>4
<1>2. CASE ~(s.ver = 0 /\ s.file # 0)
  <2> DEFINE ver == store[part.name].ver
             w == withSource(ver, storedIndex(part))
  <2>1. w = s /\ (storedIndex(part) = {} <=> s.file = 0)
    BY <1>2, HitSource DEF MayBeKept
  <2>2. part.name \in Names /\ part.file \in FileIds /\ ver \in Nat
    BY DiskTypes DEF FoundPart, Indexes
  <2>3. frozenFacts(part, ver) = {f}
    <3>1. CASE part.size = 0
      <4>1. frozenFacts(part, ver) = {[Empty EXCEPT !.indexed = (storedIndex(part) # {}), !.stamp = w]}
        BY <3>1 DEF frozenFacts
      <4>2. (storedIndex(part) # {}) = (s.file # 0)
        BY <2>1
      <4> HIDE DEF w
      <4>3. frozenFacts(part, ver) = {EmptyFacts(s)}
        BY <2>1, <4>1, <4>2 DEF EmptyFacts
      <4>4. f = EmptyFacts(s)
        BY <3>1 DEF MayBeKept
      <4> QED
        BY <4>3, <4>4
    <3>2. CASE part.size # 0
      <4>1. f = IndexFacts(TheDisk, part, s) /\ s.file # 0
        BY <3>2 DEF MayBeKept
      <4>2. factsOfIndex(CHOOSE y \in storedIndex(part) : TRUE) = factsOfIndex(s)
        <5>1. w.file = part.file /\ w.size = written[part.file]
              /\ (CHOOSE y \in storedIndex(part) : TRUE).file = part.file
              /\ (CHOOSE y \in storedIndex(part) : TRUE).size = written[part.file]
          BY <2>1, <2>2, <4>1, StoredOrNot
        <5>2. s.file = part.file /\ s.size = written[part.file]
          BY <2>1, <5>1
        <5> QED
          BY <5>1, <5>2, FactsOfSame
      <4>3. frozenFacts(part, ver) = {withJournalHeader(part, [factsOfIndex(s) EXCEPT !.stamp = w])}
        BY <2>1, <3>2, <4>1, <4>2 DEF frozenFacts
      <4> HIDE DEF w, s
      <4>4. withJournalHeader(part, [factsOfIndex(s) EXCEPT !.stamp = s]) = IndexFacts(TheDisk, part, s)
        BY <1>0, <3>2, HeaderAdded
      <4> QED
        BY <2>1, <4>1, <4>3, <4>4
    <3> QED
      BY <3>1, <3>2
  <2> QED
    BY <1>2, <2>3 DEF ReadAgain
<1> QED
  BY <1>1, <1>2

\* A part and what the key of a description keeps of it are the same to the cache.
Alike(x, y) == x.name = y.name /\ x.file = y.file /\ x.size = y.size

LEMMA KeyOfList ==
    ASSUME NEW c, IsList(c)
    PROVE  /\ IsList(cacheKey(c)) /\ Len(cacheKey(c)) = Len(c)
           /\ \A i \in 1 .. Len(c) : /\ cacheKey(c)[i].name = c[i].name
                                     /\ c[i].name # 0 => Alike(cacheKey(c)[i], c[i])
<1> DEFINE k(i) == [name |-> c[i].name, file |-> c[i].file, size |-> IF c[i].name = 0 THEN 0 ELSE c[i].size]
           n == Len(c)
<1>1. n \in Nat /\ DOMAIN c = 1 .. n
  BY ListTypes
<1>2. cacheKey(c) = [i \in 1 .. n |-> k(i)]
  BY <1>1 DEF cacheKey
<1>3. \A i : k(i).name = c[i].name /\ (c[i].name # 0 => Alike(k(i), c[i]))
  BY DEF Alike
<1> HIDE DEF n, k
<1>4. cacheKey(c) \in Seq({k(i) : i \in 1 .. n}) /\ Len(cacheKey(c)) = n /\ \A i \in 1 .. n : cacheKey(c)[i] = k(i)
  BY <1>1, <1>2
<1>5. IsList(cacheKey(c))
  BY <1>4, ListOf
<1> QED
  BY <1>3, <1>4, <1>5 DEF n

LEMMA AlikeKept ==
    ASSUME NEW o, NEW x, NEW y, NEW f, Alike(x, y), MayBeKept(o, x, f)
    PROVE  MayBeKept(o, y, f)
<1>1. FoundPart(o, y)
  BY DEF MayBeKept, FoundPart, Alike
<1>2. StampTells(o, y, f.stamp)
  BY DEF MayBeKept, StampTells, NoIndexOf, Alike
<1>3. IndexFacts(o, x, f.stamp) = IndexFacts(o, y, f.stamp)
  BY DEF IndexFacts, Alike
<1> QED
  BY <1>1, <1>2, <1>3 DEF MayBeKept, Alike

LEMMA EntryOfKey ==
    ASSUME NEW o, NEW c, IsList(c), NEW e, EntryRight(o, e), e.key = cacheKey(c)
    PROVE  IsList(e.facts) /\ Len(e.facts) = Len(c) /\ AllMayBeKept(o, c, e.facts)
<1>1. IsList(e.facts) /\ Len(e.facts) = Len(c)
  BY KeyOfList DEF EntryRight
<1>2. \A i \in 1 .. Len(c) : c[i].name # 0 => MayBeKept(o, c[i], e.facts[i])
  BY KeyOfList, AlikeKept DEF EntryRight, AllMayBeKept
<1> QED
  BY <1>1, <1>2 DEF AllMayBeKept

LEMMA InvGivesHits ==
    ASSUME DescribeAssumption, DescribeInv
    PROVE  HitsAreWhatAReadGives
<1> DEFINE c == Listing
<1>1. DiskRight(TheDisk) /\ CacheRight(TheDisk, cache) /\ DOMAIN cache = 1 .. Len(cache)
  BY ListTypes DEF DescribeInv, CacheRight
<1>2. ListedParts /\ WasListed(TheDisk, c) /\ IsList(c) /\ DOMAIN c = 1 .. Len(c)
  BY <1>1, ListingParts, ListingWasListed, ListTypes DEF WasListed
<1>3. \A i \in 1 .. Len(c) : /\ c[i] = PartNamed(c[i].name) /\ c[i].name \in Names /\ FoundPart(TheDisk, c[i])
  BY <1>2 DEF ListedParts, WasListed
<1> HIDE DEF c
<1>4. ASSUME NEW k \in Kept(cacheKey(c)), everyFrozenPartListed(c), stampsHold(c, cache[k].facts),
             NEW i \in DOMAIN c, c[i].name # 0
      PROVE  ReadAgain(c[i], cache[k].facts[i])
  <2>1. k \in 1 .. Len(cache) /\ cache[k].key = cacheKey(c) /\ EntryRight(TheDisk, cache[k])
    BY <1>1, <1>4 DEF Kept, CacheRight
  <2>2. AllMayBeKept(TheDisk, c, cache[k].facts)
    BY <1>2, <2>1, EntryOfKey
  <2>3. i \in 1 .. Len(c) /\ MayBeKept(TheDisk, c[i], cache[k].facts[i])
    BY <1>2, <1>4, <2>2 DEF AllMayBeKept
  <2>4. stampHolds(cache[k].facts[i].stamp, c[i]) /\ ~c[i].readError
    BY <1>4 DEF stampsHold, everyFrozenPartListed
  <2> DEFINE x == c[i]
             f == cache[k].facts[i]
  <2>5. x.file = dir[x.name] /\ x.size = written[dir[x.name]]
        /\ x.readError = (dir[x.name] \in denied /\ written[dir[x.name]] > 0)
    BY <1>3, <2>3, PartFields
  <2>6. x.file \in FileIds /\ x.size \in Nat /\ FoundPart(TheDisk, x)
    BY <1>3, <2>3 DEF FoundPart
  <2> HIDE DEF x, f
  <2>7. MayBeKept(TheDisk, x, f) /\ stampHolds(f.stamp, x) /\ ~x.readError
    BY <2>3, <2>4 DEF x, f
  <2>8. x.file \in denied => x.size = 0
    <3>1. x.file \in denied => ~(x.size > 0)
      BY <2>5, <2>7, Zenon
    <3> QED
      BY <2>6, <3>1
  <2>9. ReadAgain(x, f)
    BY <1>1, <2>5, <2>6, <2>7, <2>8, HitIsRead
  <2> QED
    BY <2>9 DEF x, f
<1> QED
  BY <1>4 DEF HitsAreWhatAReadGives, ReadAgain, c

-----------------------------------------------------------------------------
(* A step of a describe. *)

LEMMA OfRight ==
    ASSUME NEW o, NEW s, NEW t, NEW x, CacheRight(o, s), EntryRight(o, x), Of(t, s, x)
    PROVE  CacheRight(o, t)
BY ListTypes DEF CacheRight, Of

LEMMA WithoutRight ==
    ASSUME NEW o, CacheRight(o, cache), NEW key
    PROVE  CacheRight(o, CacheWithout(key))
<1>1. CASE Kept(key) = {}
  BY <1>1 DEF CacheWithout
<1>2. CASE Kept(key) # {}
  <2> DEFINE k == CHOOSE j \in Kept(key) : TRUE
  <2>1. k \in DOMAIN cache
    BY <1>2 DEF Kept
  <2>2. EntryRight(o, cache[k])
    BY <2>1, ListTypes DEF CacheRight
  <2>3. CacheWithout(key) = RemoveAt(cache, k)
    BY <1>2 DEF CacheWithout
  <2> HIDE DEF k
  <2>4. Of(RemoveAt(cache, k), cache, cache[k])
    BY <2>1, ListRemove DEF CacheRight
  <2> QED
    BY <2>2, <2>3, <2>4, OfRight
<1> QED
  BY <1>1, <1>2

LEMMA WithRight ==
    ASSUME DescribeAssumption, NEW o, CacheRight(o, cache), NEW key, NEW facts,
           EntryRight(o, [key |-> key, facts |-> facts])
    PROVE  CacheRight(o, CacheWith(key, facts))
<1> DEFINE e == [key |-> key, facts |-> facts]
           all == <<e>> \o CacheWithout(key)
           n == Min({Len(all), CacheEntries})
<1>1. CacheRight(o, CacheWithout(key))
  BY WithoutRight
<1> HIDE DEF e
<1>2. Of(all, CacheWithout(key), e)
  BY <1>1, ListPut DEF CacheRight
<1>3. CacheRight(o, all)
  BY <1>1, <1>2, OfRight DEF e
<1>4. CacheWith(key, facts) = SubSeq(all, 1, n)
  BY DEF CacheWith, e
<1> HIDE DEF all
<1>5. IsList(all) /\ Len(all) \in Nat /\ CacheEntries \in Nat
  BY <1>3, ListTypes DEF CacheRight, DescribeAssumption
<1>6. n \in {Len(all), CacheEntries} /\ n <= Len(all)
  <2> DEFINE T == {Len(all), CacheEntries}
  <2>1. T \subseteq Nat /\ T # {}
    BY <1>5
  <2> HIDE DEF T
  <2>2. Min(T) \in T /\ \A m \in T : Min(T) <= m
    BY <2>1, LeastNumber DEF Min
  <2> QED
    BY <2>2 DEF T
<1> HIDE DEF n
<1>7. Of(SubSeq(all, 1, n), all, e)
  <2>1. n \in 0 .. Len(all)
    BY <1>5, <1>6
  <2> QED
    BY <1>5, <2>1, ListCut
<1> QED
  BY <1>3, <1>4, <1>7, OfRight DEF e

LEMMA StepKeeps ==
    ASSUME DescribeInv, NEW p \in Procs, NEW d, ds' = [ds EXCEPT ![p] = d],
           DescribeRight(TheDisk, d), CacheRight(TheDisk, cache'), UNCHANGED Disk,
           spent' \in Counts, spent'.rotations = spent.rotations, spent'.builds = spent.builds
    PROVE  DescribeInv'
<1>1. TheDisk' = TheDisk
  BY DEF Disk, TheDisk
<1>2. DOMAIN ds' = Procs /\ \A q \in Procs : ds'[q] = IF q = p THEN d ELSE ds[q]
  BY DEF DescribeInv
<1>3. \A q \in Procs : DescribeRight(TheDisk, ds'[q])
  BY <1>2 DEF DescribeInv
<1> QED
  BY <1>1, <1>2, <1>3 DEF DescribeInv

\* What is so of a describe, by the step it is at.
LEMMA DescribeParts ==
    ASSUME DescribeInv, NEW p \in Procs
    PROVE  /\ DiskRight(TheDisk) /\ CacheRight(TheDisk, cache) /\ spent \in Counts
           /\ DescribeRight(TheDisk, ds[p]) /\ DOMAIN ds[p] = DescribeFields
           /\ ds[p].answer # None /\ ds[p].answer.state = "ready" => WholeThen(TheDisk, ds[p].answer)
BY DEF DescribeInv, DescribeRight

LEMMA AskKeeps ==
    ASSUME DescribeInv, NEW p \in Procs, Ask(p)
    PROVE  DescribeInv'
<1> DEFINE d == [Idle EXCEPT !.pc = "resolve"]
<1>1. DOMAIN Idle = DescribeFields /\ Idle.answer = None
  BY DEF Idle, DescribeFields
<1>2. DOMAIN d = DescribeFields /\ d.pc = "resolve" /\ d.answer = None
  <2> HIDE DEF Idle
  <2> QED
    BY <1>1 DEF DescribeFields
<1>3. ds' = [ds EXCEPT ![p] = d] /\ UNCHANGED <<Disk, cache>>
      /\ spent' = [spent EXCEPT !.describes = @ + 1]
  BY DEF Ask
<1>4. spent' \in Counts /\ spent'.rotations = spent.rotations /\ spent'.builds = spent.builds
  BY <1>3, DescribeParts DEF Counts
<1> HIDE DEF d
<1>5. DescribeRight(TheDisk, d)
  BY <1>2 DEF DescribeRight, Reading
<1> QED
  BY <1>3, <1>4, <1>5, DescribeParts, StepKeeps

LEMMA ResolveKeeps ==
    ASSUME DescribeAssumption, DescribeInv, NEW p \in Procs, Resolve(p)
    PROVE  DescribeInv'
<1> DEFINE none == [Idle EXCEPT !.changed = @ \/ ds[p].changed]
           found == [ds[p] EXCEPT !.pc = "get", !.cand = Listing, !.facts = <<>>, !.attempt = @ + 1]
           d == IF Len(Listing) < 2 THEN none ELSE found
<1>1. DOMAIN Idle = DescribeFields /\ Idle.answer = None /\ Idle.pc = "idle"
  BY DEF Idle, DescribeFields
<1>2. DOMAIN none = DescribeFields /\ none.pc = "idle" /\ none.answer = None
  <2> HIDE DEF Idle
  <2> QED
    BY <1>1 DEF DescribeFields
<1>3. DOMAIN found = DescribeFields /\ found.pc = "get" /\ found.cand = Listing /\ found.facts = <<>>
      /\ found.answer = ds[p].answer
  BY DescribeParts DEF DescribeFields
<1>4. ds' = [ds EXCEPT ![p] = d] /\ UNCHANGED <<Disk, cache, spent>>
  <2>1. CASE Len(Listing) < 2
    BY <2>1 DEF Resolve, DescribeInv
  <2>2. CASE ~(Len(Listing) < 2)
    BY <2>2 DEF Resolve, DescribeInv
  <2> QED
    BY <2>1, <2>2
<1>5. WasListed(TheDisk, Listing)
  BY DescribeParts, ListingWasListed
<1> HIDE DEF none, found
<1>6. DescribeRight(TheDisk, none)
  BY <1>2 DEF DescribeRight, Reading
<1>7. DescribeRight(TheDisk, found)
  BY <1>3, <1>5, DescribeParts, EmptyList DEF DescribeRight, Reading
<1>8. DescribeRight(TheDisk, d)
  BY <1>6, <1>7
<1> HIDE DEF d
<1> QED
  BY <1>4, <1>8, DescribeParts, StepKeeps

LEMMA GetKeeps ==
    ASSUME DescribeAssumption, DescribeInv, NEW p \in Procs, Get(p)
    PROVE  DescribeInv'
<1> DEFINE c == ds[p].cand
           key == cacheKey(c)
           miss == [ds[p] EXCEPT !.pc = "stamp", !.cached = FALSE]
           hit == [ds[p] EXCEPT !.pc = "check", !.cached = TRUE, !.facts = EntryOf(key).facts]
<1>1. ds[p].pc = "get" /\ UNCHANGED <<Disk, spent>>
  BY DEF Get, At
<1>2. WasListed(TheDisk, c) /\ IsList(c) /\ ds[p].facts = <<>> /\ CacheRight(TheDisk, cache)
  BY <1>1, DescribeParts DEF DescribeRight, WasListed
<1>3. CASE ~everyFrozenPartListed(c) \/ Kept(key) = {}
  <2>1. cache' = cache /\ ds' = [ds EXCEPT ![p] = miss]
    BY <1>3 DEF Get, DescribeInv
  <2>2. DOMAIN miss = DescribeFields /\ miss.pc = "stamp" /\ ~miss.cached /\ miss.cand = c
        /\ miss.facts = <<>> /\ miss.answer = ds[p].answer
    BY <1>2, DescribeParts DEF DescribeFields
  <2> HIDE DEF miss, c
  <2>3. AllWereRead(TheDisk, c, <<>>)
    BY <1>2, ListTypes, EmptyList DEF AllWereRead
  <2>4. DescribeRight(TheDisk, miss)
    BY <1>2, <2>2, <2>3, DescribeParts, EmptyList DEF DescribeRight, Reading
  <2> QED
    BY <1>1, <1>2, <2>1, <2>4, DescribeParts, StepKeeps
<1>4. CASE everyFrozenPartListed(c) /\ Kept(key) # {}
  <2> DEFINE k == CHOOSE j \in Kept(key) : TRUE
             e == cache[k]
  <2>1. k \in DOMAIN cache /\ e.key = key /\ EntryOf(key) = e
    BY <1>4 DEF Kept, EntryOf
  <2>2. EntryRight(TheDisk, e)
    BY <1>2, <2>1, ListTypes DEF CacheRight
  <2>3. cache' = <<e>> \o CacheWithout(key) /\ ds' = [ds EXCEPT ![p] = hit]
    BY <1>4, <2>1 DEF Get, DescribeInv
  <2>4. DOMAIN hit = DescribeFields /\ hit.pc = "check" /\ hit.cached /\ hit.cand = c
        /\ hit.facts = e.facts /\ hit.answer = ds[p].answer
    BY <2>1, DescribeParts DEF DescribeFields
  <2> HIDE DEF hit, c, e, k
  <2>5. IsList(e.facts) /\ Len(e.facts) = Len(c) /\ AllMayBeKept(TheDisk, c, e.facts)
    BY <1>2, <2>1, <2>2, EntryOfKey
  <2>6. DescribeRight(TheDisk, hit)
    BY <1>2, <1>4, <2>4, <2>5, DescribeParts DEF DescribeRight, Reading
  <2>7. CacheRight(TheDisk, CacheWithout(key))
    BY <1>2, WithoutRight
  <2>8. CacheRight(TheDisk, cache')
    BY <2>2, <2>3, <2>7, ListPut, OfRight DEF CacheRight
  <2> QED
    BY <1>1, <2>3, <2>6, <2>8, DescribeParts, StepKeeps
<1> QED
  BY <1>3, <1>4

\* The frozen parts of a listing come first.
LEMMA FrozenFirst ==
    ASSUME NEW o, NEW c, WasListed(o, c)
    PROVE  LET n == Cardinality({i \in DOMAIN c : c[i].name # 0})
           IN  /\ n \in 0 .. Len(c) /\ \A i \in 1 .. n : c[i].name # 0
               /\ ~(n < Len(c) /\ c[n + 1].name # 0)
<1> DEFINE L == Len(c)
           F == {i \in DOMAIN c : c[i].name # 0}
           n == Cardinality(F)
<1>1. L \in Nat /\ DOMAIN c = 1 .. L /\ \A i \in 1 .. L : c[i].name = 0 => i = L
  BY ListTypes DEF WasListed
<1>2. F = {i \in 1 .. L : c[i].name # 0}
  BY <1>1
<1> HIDE DEF L, F
<1>3. ASSUME NEW m \in Nat, F = 1 .. m PROVE n = m
  BY <1>3, FS_Interval
<1>4. CASE \A i \in 1 .. L : c[i].name # 0
  <2>1. F = 1 .. L
    BY <1>2, <1>4
  <2>2. n = L
    BY <1>1, <1>3, <2>1
  <2> HIDE DEF n
  <2>3. n \in 0 .. L /\ (\A i \in 1 .. n : c[i].name # 0) /\ ~(n < L)
    BY <1>1, <1>4, <2>2
  <2> QED
    BY <2>3 DEF n, F, L
<1>5. CASE \E i \in 1 .. L : c[i].name = 0
  <2>1. c[L].name = 0 /\ L \in 1 .. L
    BY <1>1, <1>5
  <2> DEFINE m == L - 1
  <2>2. m \in Nat /\ m + 1 = L /\ \A i \in 1 .. L : i \in 1 .. m <=> i # L
    BY <1>1, <2>1
  <2>3. F = 1 .. m
    <3>1. \A i \in 1 .. m : i \in 1 .. L
      BY <1>1
    <3> HIDE DEF m
    <3> QED
      BY <1>1, <1>2, <2>1, <2>2, <3>1
  <2> HIDE DEF m
  <2>4. n = m
    BY <1>3, <2>2, <2>3
  <2> HIDE DEF n
  <2>5. n \in 0 .. L /\ (\A i \in 1 .. n : c[i].name # 0) /\ ~(n < L /\ c[n + 1].name # 0)
    BY <1>1, <2>1, <2>2, <2>4
  <2> QED
    BY <2>5 DEF n, F, L
<1> QED
  BY <1>4, <1>5

LEMMA CheckStampsKeeps ==
    ASSUME DescribeAssumption, DescribeInv, NEW p \in Procs, CheckStamps(p)
    PROVE  DescribeInv'
<1> DEFINE c == ds[p].cand
           n == Cardinality({i \in DOMAIN c : c[i].name # 0})
           holds_ == [ds[p] EXCEPT !.pc = "active", !.facts = SubSeq(@, 1, n)]
           not == [ds[p] EXCEPT !.pc = "stamp", !.cached = FALSE, !.facts = <<>>]
<1>1. ds[p].pc = "check" /\ UNCHANGED <<Disk, spent>>
  BY DEF CheckStamps, At
<1>2. /\ WasListed(TheDisk, c) /\ IsList(c) /\ IsList(ds[p].facts) /\ CacheRight(TheDisk, cache)
      /\ ds[p].cached /\ everyFrozenPartListed(c) /\ Len(ds[p].facts) = Len(c)
      /\ AllMayBeKept(TheDisk, c, ds[p].facts)
  BY <1>1, DescribeParts DEF DescribeRight, WasListed
<1>3. CASE stampsHold(c, ds[p].facts)
  <2>1. cache' = cache /\ ds' = [ds EXCEPT ![p] = holds_]
    BY <1>3 DEF CheckStamps, DescribeInv
  <2> DEFINE F == SubSeq(ds[p].facts, 1, n)
  <2>2. DOMAIN holds_ = DescribeFields /\ holds_.pc = "active" /\ holds_.cand = c
        /\ holds_.facts = F /\ holds_.answer = ds[p].answer
    BY DescribeParts DEF DescribeFields
  <2>3. n \in 0 .. Len(c) /\ (\A i \in 1 .. n : c[i].name # 0) /\ ~(n < Len(c) /\ c[n + 1].name # 0)
    BY <1>2, FrozenFirst
  <2> HIDE DEF n
  <2>4. IsList(F) /\ Len(F) = n /\ \A i \in 1 .. n : F[i] = ds[p].facts[i]
    BY <1>2, <2>3, ListFront
  <2> HIDE DEF holds_, F
  <2>5. Len(c) \in Nat /\ DOMAIN c = 1 .. Len(c)
    BY <1>2, ListTypes
  <2>6. AllWereRead(TheDisk, c, F)
    <3>1. \A i \in 1 .. n : i \in 1 .. Len(c)
      BY <2>3, <2>5
    <3>2. \A i \in 1 .. n : MayBeKept(TheDisk, c[i], F[i]) /\ ~c[i].readError
      BY <1>2, <2>3, <2>4, <2>5, <3>1 DEF AllMayBeKept, everyFrozenPartListed
    <3>3. Len(F) <= Len(c)
      BY <2>3, <2>4, <2>5
    <3> QED
      BY <2>3, <2>4, <3>2, <3>3 DEF AllWereRead, WereRead
  <2>7. ~MoreFrozen(holds_)
    BY <2>2, <2>3, <2>4 DEF MoreFrozen
  <2>8. DescribeRight(TheDisk, holds_)
    BY <1>2, <2>2, <2>4, <2>6, <2>7, DescribeParts DEF DescribeRight, Reading
  <2> QED
    BY <1>1, <1>2, <2>1, <2>8, DescribeParts, StepKeeps
<1>4. CASE ~stampsHold(c, ds[p].facts)
  <2>1. cache' = CacheWithout(cacheKey(c)) /\ ds' = [ds EXCEPT ![p] = not]
    BY <1>4 DEF CheckStamps, DescribeInv
  <2>2. DOMAIN not = DescribeFields /\ not.pc = "stamp" /\ ~not.cached /\ not.cand = c
        /\ not.facts = <<>> /\ not.answer = ds[p].answer
    BY DescribeParts DEF DescribeFields
  <2> HIDE DEF not, c
  <2>3. AllWereRead(TheDisk, c, <<>>)
    BY <1>2, ListTypes, EmptyList DEF AllWereRead
  <2>4. DescribeRight(TheDisk, not)
    BY <1>2, <2>2, <2>3, DescribeParts, EmptyList DEF DescribeRight, Reading
  <2>5. CacheRight(TheDisk, cache')
    BY <1>2, <2>1, WithoutRight
  <2> QED
    BY <1>1, <2>1, <2>4, <2>5, DescribeParts, StepKeeps
<1> QED
  BY <1>3, <1>4

LEMMA StampIndexFileKeeps ==
    ASSUME DescribeAssumption, DescribeInv, NEW p \in Procs, StampIndexFile(p)
    PROVE  DescribeInv'
<1> DEFINE c == ds[p].cand
           F == ds[p].facts
           next == [ds[p] EXCEPT !.pc = "frozen", !.ver = store[PartToRead(p).name].ver]
           last == [ds[p] EXCEPT !.pc = "active", !.ver = ds[p].ver]
<1>1. ds[p].pc = "stamp" /\ UNCHANGED <<Disk, cache, spent>>
  BY DEF StampIndexFile, At
<1>2. WasListed(TheDisk, c) /\ IsList(c) /\ IsList(F) /\ ~ds[p].cached /\ AllWereRead(TheDisk, c, F)
  BY <1>1, DescribeParts DEF DescribeRight, WasListed, Reading
<1>3. FrozenLeft(p) <=> MoreFrozen(ds[p])
  BY DEF FrozenLeft, MoreFrozen, PartToRead
<1>4. CASE FrozenLeft(p)
  <2>1. ds' = [ds EXCEPT ![p] = next]
    BY <1>4 DEF StampIndexFile, DescribeInv
  <2>2. DOMAIN next = DescribeFields /\ next.pc = "frozen" /\ ~next.cached /\ next.cand = c
        /\ next.facts = F /\ next.answer = ds[p].answer /\ next.ver = store[PartToRead(p).name].ver
    BY <1>2, DescribeParts DEF DescribeFields
  <2>3. PartToRead(p).name \in Names
    <3>1. Len(F) + 1 \in 1 .. Len(c)
      BY <1>2, <1>4, ListTypes DEF FrozenLeft
    <3> QED
      BY <1>2, <3>1 DEF PartToRead, WasListed, FoundPart
  <2>4. next.ver \in Stats(TheDisk)
    <3> HIDE DEF next
    <3> QED
      BY <2>2, <2>3, DescribeParts DEF DiskRight, TheDisk
  <2> HIDE DEF next
  <2>5. MoreFrozen(next)
    BY <1>3, <1>4, <2>2 DEF MoreFrozen
  <2>6. DescribeRight(TheDisk, next)
    BY <1>2, <2>2, <2>4, <2>5, DescribeParts DEF DescribeRight, Reading
  <2> QED
    BY <1>1, <2>1, <2>6, DescribeParts, StepKeeps
<1>5. CASE ~FrozenLeft(p)
  <2>1. ds' = [ds EXCEPT ![p] = last]
    BY <1>5 DEF StampIndexFile, DescribeInv
  <2>2. DOMAIN last = DescribeFields /\ last.pc = "active" /\ last.cand = c
        /\ last.facts = F /\ last.answer = ds[p].answer
    BY DescribeParts DEF DescribeFields
  <2> HIDE DEF last
  <2>3. ~MoreFrozen(last)
    BY <1>3, <1>5, <2>2 DEF MoreFrozen
  <2>4. DescribeRight(TheDisk, last)
    BY <1>2, <2>2, <2>3, DescribeParts DEF DescribeRight, Reading
  <2> QED
    BY <1>1, <2>1, <2>4, DescribeParts, StepKeeps
<1> QED
  BY <1>4, <1>5

LEMMA ChangedRight ==
    ASSUME DescribeInv, NEW p \in Procs
    PROVE  DescribeRight(TheDisk, PartChanged(p))
<1> DEFINE d == PartChanged(p)
<1>1. DOMAIN d = DescribeFields /\ d.pc \in {"idle", "resolve"} /\ d.answer = ds[p].answer
  BY DescribeParts DEF PartChanged, DescribeFields
<1> HIDE DEF d
<1>2. DescribeRight(TheDisk, d)
  BY <1>1, DescribeParts DEF DescribeRight, Reading
<1> QED
  BY <1>2 DEF d

LEMMA ReadFrozenKeeps ==
    ASSUME DescribeAssumption, DescribeInv, NEW p \in Procs, ReadFrozen(p)
    PROVE  DescribeInv'
<1> DEFINE c == ds[p].cand
           F == ds[p].facts
           x == PartToRead(p)
           read == frozenFacts(x, ds[p].ver)
<1>1. ds[p].pc = "frozen" /\ UNCHANGED <<Disk, cache, spent>>
  BY DEF ReadFrozen, At
<1>2. WasListed(TheDisk, c) /\ IsList(c) /\ IsList(F) /\ ~ds[p].cached /\ AllWereRead(TheDisk, c, F)
      /\ MoreFrozen(ds[p]) /\ ds[p].ver \in Stats(TheDisk)
  BY <1>1, DescribeParts DEF DescribeRight, WasListed, Reading
<1>3. CASE read = {}
  <2>1. ds' = [ds EXCEPT ![p] = PartChanged(p)]
    BY <1>3 DEF ReadFrozen
  <2> QED
    BY <1>1, <2>1, ChangedRight, DescribeParts, StepKeeps
<1>4. CASE read # {}
  <2> DEFINE f == CHOOSE g \in read : TRUE
             d == [ds[p] EXCEPT !.pc = "stamp", !.facts = Append(F, f)]
  <2>1. ds' = [ds EXCEPT ![p] = d]
    BY <1>4 DEF ReadFrozen, DescribeInv
  <2>2. Len(F) \in Nat /\ Len(c) \in Nat /\ Len(F) < Len(c) /\ x = c[Len(F) + 1] /\ x.name # 0
    BY <1>2, ListTypes DEF MoreFrozen, PartToRead
  <2>3. f \in read
    BY <1>4
  <2>4. FoundPart(TheDisk, x) /\ x.readError \in BOOLEAN /\ (x.readError => x.size # 0)
    BY <1>2, <2>2 DEF WasListed
  <2> DEFINE G == Append(F, f)
  <2>5. DOMAIN d = DescribeFields /\ d.pc = "stamp" /\ d.cached = ds[p].cached /\ d.cand = c
        /\ d.facts = G /\ d.answer = ds[p].answer
    BY DescribeParts DEF DescribeFields
  <2> HIDE DEF d, f, x
  <2>6. WereRead(TheDisk, x, f)
    BY <1>2, <2>3, <2>4, DescribeParts, FrozenRead
  <2>7. IsList(G) /\ Len(G) = Len(F) + 1 /\ (\A i \in 1 .. Len(F) : G[i] = F[i]) /\ G[Len(F) + 1] = f
    BY <1>2, ListAppend
  <2> HIDE DEF G
  <2>8. AllWereRead(TheDisk, c, G)
    <3> HIDE DEF F, c
    <3>1. \A i \in 1 .. Len(G) : i \in 1 .. Len(F) \/ i = Len(F) + 1
      BY <2>2, <2>7
    <3>2. \A i \in 1 .. Len(F) : c[i].name # 0 /\ WereRead(TheDisk, c[i], G[i])
      BY <1>2, <2>7 DEF AllWereRead
    <3>3. Len(G) <= Len(c)
      BY <2>2, <2>7
    <3> QED
      BY <2>2, <2>6, <2>7, <3>1, <3>2, <3>3 DEF AllWereRead
  <2>9. DescribeRight(TheDisk, d)
    BY <1>2, <2>5, <2>7, <2>8, DescribeParts DEF DescribeRight, Reading
  <2> QED
    BY <1>1, <2>1, <2>9, DescribeParts, StepKeeps
<1> QED
  BY <1>3, <1>4

\* A read of a part of a listing.
PartRead(o, part, f) ==
    IF part.name # 0 THEN WereRead(o, part, f)
    ELSE f.unreadable \/ (~part.readError /\ f.lines \in Int /\ f.lines <= o.written[part.file])

LEMMA AnswerRight ==
    ASSUME NEW o, o.written \in [FileIds -> Nat], NEW c, WasListed(o, c), NEW facts,
           \A i \in 1 .. Len(c) : PartRead(o, c[i], facts[i]), assemble(c, facts).state = "ready"
    PROVE  WholeThen(o, assemble(c, facts))
<1> DEFINE a == assemble(c, facts)
           own == UNION {partReasons(facts[i]) : i \in DOMAIN c}
<1>1. own = {} /\ everyPartKnown(c, facts) /\ a.cand = c /\ a.facts = facts
  BY DEF assemble
<1>2. \A i \in DOMAIN c : ~facts[i].unreadable
  <2>1. \A f : f.unreadable => "unreadable" \in partReasons(f)
    BY DEF partReasons
  <2>2. \A i \in DOMAIN c : "unreadable" \notin partReasons(facts[i])
    BY <1>1, Zenon
  <2> QED
    BY <2>1, <2>2
<1>3. \A i \in DOMAIN c : ~waitsFor(c[i], facts[i])
  BY <1>1 DEF everyPartKnown
<1>4. DOMAIN c = 1 .. Len(c)
  BY ListTypes DEF WasListed
<1>5. ASSUME NEW i \in DOMAIN c
      PROVE  /\ ~c[i].readError /\ c[i].file \in FileIds
             /\ facts[i].lines \in Int /\ facts[i].lines <= o.written[c[i].file]
             /\ c[i].name # 0 => facts[i].lines >= c[i].size
  <2>1. PartRead(o, c[i], facts[i]) /\ c[i].readError \in BOOLEAN /\ c[i].file \in FileIds
    BY <1>4 DEF WasListed, FoundPart
  <2>2. CASE c[i].name # 0
    BY <1>2, <1>3, <2>1, <2>2, FrozenWhole DEF PartRead
  <2>3. CASE c[i].name = 0
    BY <1>2, <2>1, <2>3 DEF PartRead
  <2> QED
    BY <2>2, <2>3
<1> HIDE DEF a
<1> QED
  BY <1>1, <1>5 DEF WholeThen, a

LEMMA CacheableKept ==
    ASSUME NEW o, NEW x, NEW f, WereRead(o, x, f), cacheable(x, f), x.readError \in BOOLEAN
    PROVE  MayBeKept(o, x, f)
<1>1. ~NoFacts.indexed /\ ~Unreadable.indexed /\ ~Headed(x).indexed
  BY FactsFields
<1> QED
  BY <1>1 DEF WereRead, cacheable

LEMMA AnsweredKeeps ==
    ASSUME DescribeAssumption, DescribeInv, NEW p \in Procs, NEW facts, IsList(facts),
           WasListed(TheDisk, ds[p].cand), Len(facts) = Len(ds[p].cand),
           \A i \in 1 .. Len(facts) : PartRead(TheDisk, ds[p].cand[i], facts[i]),
           Answered(p, facts), UNCHANGED <<Disk, spent>>
    PROVE  DescribeInv'
<1> DEFINE c == ds[p].cand
           keep == \A i \in DOMAIN c : c[i].name # 0 => cacheable(c[i], facts[i])
           a == assemble(c, facts)
           d == [ds[p] EXCEPT !.pc = "idle", !.facts = <<>>, !.answer = a]
<1>1. ds' = [ds EXCEPT ![p] = d]
      /\ cache' = IF ~ds[p].cached /\ keep THEN CacheWith(cacheKey(c), facts) ELSE cache
  BY DEF Answered, DescribeInv
<1>2. TheDisk.written \in [FileIds -> Nat] /\ CacheRight(TheDisk, cache)
  BY DescribeParts DEF DiskRight
<1>3. a.state = "ready" => WholeThen(TheDisk, a)
  BY <1>2, AnswerRight
<1> HIDE DEF a
<1>4. DOMAIN d = DescribeFields /\ d.pc = "idle" /\ d.answer = a
  BY DescribeParts DEF DescribeFields
<1> HIDE DEF d
<1>5. DescribeRight(TheDisk, d)
  BY <1>3, <1>4 DEF DescribeRight, Reading
<1>6. ASSUME keep PROVE CacheRight(TheDisk, CacheWith(cacheKey(c), facts))
  <2>1. IsList(c) /\ DOMAIN c = 1 .. Len(c)
    BY ListTypes DEF WasListed
  <2>2. ASSUME NEW i \in 1 .. Len(c), c[i].name # 0 PROVE MayBeKept(TheDisk, c[i], facts[i])
    <3>1. WereRead(TheDisk, c[i], facts[i]) /\ c[i].readError \in BOOLEAN /\ cacheable(c[i], facts[i])
      BY <1>6, <2>1, <2>2 DEF PartRead, WasListed
    <3> QED
      BY <3>1, CacheableKept
  <2> DEFINE e == [key |-> cacheKey(c), facts |-> facts]
  <2>3. IsList(cacheKey(c)) /\ Len(cacheKey(c)) = Len(c)
    BY <2>1, KeyOfList
  <2>4. AllMayBeKept(TheDisk, cacheKey(c), facts)
    <3> SUFFICES ASSUME NEW i \in 1 .. Len(c), cacheKey(c)[i].name # 0
                 PROVE  MayBeKept(TheDisk, cacheKey(c)[i], facts[i])
      BY <2>3 DEF AllMayBeKept
    <3>1. c[i].name # 0 /\ Alike(c[i], cacheKey(c)[i])
      BY <2>1, KeyOfList DEF Alike
    <3> QED
      BY <2>2, <3>1, AlikeKept
  <2>5. EntryRight(TheDisk, e)
    BY <2>3, <2>4 DEF EntryRight
  <2> QED
    BY <1>2, <2>5, WithRight
<1>7. CacheRight(TheDisk, cache')
  BY <1>1, <1>2, <1>6
<1> QED
  BY <1>1, <1>5, <1>7, DescribeParts, StepKeeps

LEMMA ReadActiveKeeps ==
    ASSUME DescribeAssumption, DescribeInv, NEW p \in Procs, ReadActive(p)
    PROVE  DescribeInv'
<1> DEFINE c == ds[p].cand
           F == ds[p].facts
           x == PartToRead(p)
           read == activeFacts(x)
           left == Len(F) < Len(c)
<1>1. ds[p].pc = "active" /\ UNCHANGED <<Disk, spent>>
  BY DEF ReadActive, At
<1>2. WasListed(TheDisk, c) /\ IsList(c) /\ IsList(F) /\ AllWereRead(TheDisk, c, F) /\ ~MoreFrozen(ds[p])
  BY <1>1, DescribeParts DEF DescribeRight, WasListed, Reading
<1>3. Len(F) \in Nat /\ Len(c) \in Nat /\ Len(F) <= Len(c)
      /\ \A i \in 1 .. Len(F) : PartRead(TheDisk, c[i], F[i])
  BY <1>2, ListTypes DEF AllWereRead, PartRead
<1>4. CASE ~left
  <2>1. Answered(p, F) /\ Len(F) = Len(c)
    BY <1>3, <1>4 DEF ReadActive
  <2> QED
    BY <1>1, <1>2, <1>3, <2>1, AnsweredKeeps
<1>5. CASE left /\ read = {}
  <2>1. ds' = [ds EXCEPT ![p] = PartChanged(p)] /\ cache' = cache
    BY <1>5 DEF ReadActive
  <2> QED
    BY <1>1, <2>1, ChangedRight, DescribeParts, StepKeeps
<1>6. CASE left /\ read # {}
  <2> DEFINE f == CHOOSE g \in read : TRUE
             G == Append(F, f)
  <2>1. Answered(p, G)
    BY <1>6 DEF ReadActive
  <2>2. x = c[Len(F) + 1] /\ x.name = 0 /\ Len(F) + 1 \in 1 .. Len(c)
    BY <1>2, <1>3, <1>6 DEF MoreFrozen, PartToRead
  <2>3. Len(F) + 1 = Len(c) /\ FoundPart(TheDisk, x) /\ x.readError \in BOOLEAN
    BY <1>2, <2>2 DEF WasListed
  <2>4. f \in read
    BY <1>6
  <2> HIDE DEF f, x
  <2>5. f.unreadable \/ (~x.readError /\ f.lines \in Int /\ f.lines <= written[x.file])
    BY <2>3, <2>4, DescribeParts, ActiveRead
  <2>6. PartRead(TheDisk, x, f)
    BY <2>2, <2>5 DEF PartRead, TheDisk
  <2>7. IsList(G) /\ Len(G) = Len(F) + 1 /\ (\A i \in 1 .. Len(F) : G[i] = F[i]) /\ G[Len(F) + 1] = f
    BY <1>2, ListAppend
  <2> HIDE DEF G
  <2>8. \A i \in 1 .. Len(G) : PartRead(TheDisk, c[i], G[i])
    <3> HIDE DEF F, c
    <3>1. \A i \in 1 .. Len(G) : i \in 1 .. Len(F) \/ i = Len(F) + 1
      BY <1>3, <2>7
    <3> QED
      BY <1>3, <2>2, <2>6, <2>7, <3>1
  <2> QED
    BY <1>1, <1>2, <2>1, <2>3, <2>7, <2>8, AnsweredKeeps
<1> QED
  BY <1>4, <1>5, <1>6

-----------------------------------------------------------------------------
LEMMA DescribeInitInv ==
    ASSUME DescribeAssumption, DescribeInit
    PROVE  DescribeInv
<1>1. PICK c \in Described : dir = c.dir /\ written = c.written /\ journal = c.journal /\ store = c.store
  BY DEF DescribeInit
<1>2. ChainOnDisk(c)
  BY DEF DescribeAssumption
<1>3. cache = <<>> /\ ds = [p \in Procs |-> Idle]
      /\ spent = [describes |-> 0, rotations |-> 0, builds |-> 0, removals |-> 0, denials |-> 0]
  BY DEF DescribeInit
<1>4. spent \in Counts /\ spent.rotations = 0 /\ spent.builds = 0
  BY <1>3 DEF Counts
<1>5. DOMAIN Created = 1 .. Len(Created)
  BY DEF DescribeAssumption
<1>6. Uncreated(TheDisk) = {Created[i] : i \in 1 .. Len(Created)} /\ Stats(TheDisk) = 0 .. 1
  BY <1>4 DEF Uncreated, Stats, TheDisk
<1>7. \A n \in Names : dir[n] \notin Uncreated(TheDisk)
  BY <1>1, <1>2, <1>5, <1>6 DEF ChainOnDisk
<1>8. \A n \in Names : /\ store[n].ver \in Stats(TheDisk)
                       /\ store[n].ver = 0 => store[n] = Absent
                       /\ store[n].file # 0 => store[n].size <= written[store[n].file]
  <2>1. Absent.ver = 0 /\ Absent.file = 0
    BY DEF Absent
  <2>2. \A n \in Names : store[n] = Absent
            \/ (store[n].ver = 1 /\ (store[n].file # 0 => store[n].size <= written[store[n].file]))
    BY <1>1, <1>2 DEF ChainOnDisk
  <2> QED
    BY <1>6, <2>1, <2>2
<1>9. /\ dir \in [Names -> FileIds \union {0}]
      /\ \A m, n \in Names : m # n /\ dir[m] # 0 => dir[m] # dir[n]
      /\ written \in [FileIds -> Nat] /\ journal \in BOOLEAN /\ store \in [Names -> Indexes]
  BY <1>1, <1>2 DEF ChainOnDisk
<1>10. DiskRight(TheDisk)
  BY <1>4, <1>7, <1>8, <1>9 DEF DiskRight, TheDisk
<1>11. CacheRight(TheDisk, cache)
  BY <1>3, EmptyList DEF CacheRight
<1>12. \A p \in Procs : DescribeRight(TheDisk, ds[p])
  <2>1. DOMAIN Idle = DescribeFields /\ Idle.answer = None /\ Idle.pc = "idle"
    BY DEF Idle, DescribeFields
  <2>2. DescribeRight(TheDisk, Idle)
    BY <2>1 DEF DescribeRight, Reading
  <2> QED
    BY <1>3, <2>2
<1> QED
  BY <1>3, <1>4, <1>10, <1>11, <1>12 DEF DescribeInv

LEMMA DescribeNextInv ==
    ASSUME DescribeAssumption, DescribeInv, [DescribeNext]_describeVars
    PROVE  DescribeInv'
<1>1. CASE UNCHANGED describeVars
  <2>1. UNCHANGED <<dir, written, journal, store, cache, ds, spent>>
    BY <1>1 DEF describeVars
  <2>2. TheDisk' = TheDisk
    BY <2>1 DEF TheDisk
  <2> QED
    BY <2>1, <2>2 DEF DescribeInv
<1>2. CASE \E p \in Procs : Ask(p)
  BY <1>2, AskKeeps
<1>3. CASE \E p \in Procs : Resolve(p)
  BY <1>3, ResolveKeeps
<1>4. CASE \E p \in Procs : Get(p)
  BY <1>4, GetKeeps
<1>5. CASE \E p \in Procs : CheckStamps(p)
  BY <1>5, CheckStampsKeeps
<1>6. CASE \E p \in Procs : StampIndexFile(p)
  BY <1>6, StampIndexFileKeeps
<1>7. CASE \E p \in Procs : ReadFrozen(p)
  BY <1>7, ReadFrozenKeeps
<1>8. CASE \E p \in Procs : ReadActive(p)
  BY <1>8, ReadActiveKeeps
<1>9. CASE Rotate
  BY <1>9, RotateMoves
<1>10. CASE Write
  BY <1>10, WriteMoves
<1>11. CASE Allow \/ \E f \in FileIds : Deny(f)
  BY <1>11, OpensFailMoves
<1>12. CASE \E n \in Names : Build(n) \/ RemoveIndex(n)
  BY <1>12, IndexMoves
<1> QED
  BY <1>1, <1>2, <1>3, <1>4, <1>5, <1>6, <1>7, <1>8, <1>9, <1>10, <1>11, <1>12 DEF DescribeNext

\* The invariant is one of every run of the describes, whatever the chain.
THEOREM DescribeInvariance == ASSUME DescribeAssumption PROVE DescribeSpec => []DescribeInv
<1>1. DescribeInit => DescribeInv
  BY DescribeInitInv
<1>2. DescribeInv /\ [DescribeNext]_describeVars => DescribeInv'
  BY DescribeNextInv
<1> QED
  BY <1>1, <1>2, PTL DEF DescribeSpec

\* A hit of the description cache, once its stamps hold, gives for every frozen part the
\* facts a read of the same listing would give at that moment (cache.go:36), for any
\* chain, any rotations, writes, index builds and removals, and any describes at once.
THEOREM HitsAreReadAgain == ASSUME DescribeAssumption PROVE DescribeSpec => []HitsAreWhatAReadGives
<1>1. DescribeInv => HitsAreWhatAReadGives
  BY InvGivesHits
<1> QED
  BY <1>1, DescribeInvariance, PTL

\* Each part of a chain described as ready was read whole: from the file its listing
\* found, no more lines than that file has and, of a frozen part, no fewer than the
\* listing saw.
THEOREM ReadyPartsAreWhole == ASSUME DescribeAssumption PROVE DescribeSpec => []ReadyPartsAreReadWhole
<1>1. DescribeInv => ReadyPartsAreReadWhole
  <2> SUFFICES ASSUME DescribeInv, NEW p \in Procs, ds[p].answer # None, ds[p].answer.state = "ready"
               PROVE  ReadWhole(ds[p].answer)
    BY DEF ReadyPartsAreReadWhole, Answers
  <2>1. WholeThen(TheDisk, ds[p].answer) /\ TheDisk.written = written
    BY DescribeParts DEF TheDisk
  <2> QED
    BY <2>1 DEF WholeThen, ReadWhole
<1> QED
  BY <1>1, DescribeInvariance, PTL

=============================================================================

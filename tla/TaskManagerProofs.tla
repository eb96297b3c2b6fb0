------------------------- MODULE TaskManagerProofs -------------------------
(***************************************************************************)
(* Proofs about TaskManager, and about SweptManager, for every set of      *)
(* tasks, paths, keys, Starts and Stops, every cap and every TTL; and      *)
(* about the other part whose goroutines outlive a call, HookDispatcher.   *)
(***************************************************************************)
EXTENDS SweptManager, Sequences, FiniteSetTheorems, TLAPS

-----------------------------------------------------------------------------
(* Typing *)

(* Whatever the Create methods ask for has keys and flags of the types     *)
(* createLocked stores.                                                    *)
LEMMA NewTaskType ==
    ASSUME NEW spec \in NewTasks
    PROVE  /\ spec.held \in SUBSET Keys
           /\ spec.subtask \in BOOLEAN
           /\ spec.cancellable \in BOOLEAN
           /\ spec.stoppable \in BOOLEAN
<1>1. CASE spec \in CreateHoldings
  <2>1. HeldPaths \subseteq SUBSET Keys
    BY DEF HeldPaths, Keys
  <2> QED
    BY <1>1, <2>1 DEF CreateHoldings, NewTask
<1>2. CASE spec \in CreateSubtasks
  <2> DEFINE singles == {{p} : p \in Paths}
  <2>1. singles \subseteq SUBSET Keys
    BY DEF Keys
  <2>2. spec \in NewTask(singles, TRUE, FALSE, FALSE)
    BY <1>2 DEF CreateSubtasks
  <2> HIDE DEF singles
  <2> QED
    BY <2>1, <2>2 DEF NewTask
<1>3. CASE spec \in CreateKeyeds
  BY <1>3 DEF CreateKeyeds, NewTask, Keys
<1>4. CASE spec \in CreateCancellables
  BY <1>4 DEF CreateCancellables, NewTask, Keys
<1>5. CASE spec \in CreateStoppables
  BY <1>5 DEF CreateStoppables, NewTask, Keys
<1> QED
  BY <1>1, <1>2, <1>3, <1>4, <1>5 DEF NewTasks

(* A task may leave the table with a create only when it has ended.        *)
LEMMA DroppedIsFinished ==
    ASSUME NEW subtask, NEW dropped \in DroppedOldest(subtask)
    PROVE  dropped \subseteq {t \in known : IsTerminal(t)}
BY DEF DroppedOldest, FinishedOf

(* What a task is once it has ended: the fields endLocked writes.          *)
LEMMA EndedFields ==
    ASSUME TypeOK, NEW t \in TaskIds, NEW status \in Terminal, NEW report \in SUBSET Reports
    PROVE  /\ Ended(t, status, report) \in Task
           /\ Ended(t, status, report).status = status
           /\ Ended(t, status, report).held = task[t].held
           /\ Ended(t, status, report).report = task[t].report \union report
<1>1. task[t] \in Task /\ now \in Nat /\ status \in Statuses
  BY DEF TypeOK, Statuses
<1> QED
  BY <1>1 DEF Ended, Task

(* Ending a task keeps every variable in its type (endLocked).             *)
LEMMA EndTaskType ==
    ASSUME TypeOK, NEW t \in TaskIds, NEW status \in Terminal,
           NEW report \in SUBSET Reports,
           EndTask(t, status, report)
    PROVE  /\ task' \in [TaskIds -> Task]
           /\ pathLocks' \in [Keys -> TaskIds \union {NoTask}]
           /\ end' \in [TaskIds -> EndRecord]
           /\ closes' \in [TaskIds -> Nat]
<1> USE DEF TypeOK, EndTask
<1>1. status \in Statuses
  BY DEF Statuses
<1>2. task[t] \in Task
  OBVIOUS
<1>3. task' \in [TaskIds -> Task]
  BY EndedFields
<1>4. pathLocks' \in [Keys -> TaskIds \union {NoTask}]
  BY DEF Released
<1>5. task[t].report \subseteq Reports
  BY <1>2 DEF Task
<1>6. [status |-> status,
       error |-> (task[t].report \union report) \intersect {"error"}] \in EndRecord
  BY <1>5 DEF EndRecord
<1> QED
  BY <1>3, <1>4, <1>6

(* The type invariant is inductive: no method stores a value of another    *)
(* type (an empty status, a lock of no task).                              *)
THEOREM Typing == Spec => []TypeOK
<1>1. Init => TypeOK
  BY DEF Init, TypeOK, Unused, NoEnd, Task, EndRecord, Statuses
<1>2. TypeOK /\ [Next]_vars => TypeOK'
  <2> SUFFICES ASSUME TypeOK, [Next]_vars PROVE TypeOK'
    OBVIOUS
  <2>1. ASSUME NEW t \in TaskIds, NEW spec \in NewTasks, CreateLocked(t, spec)
        PROVE  TypeOK'
    <3>1. [Unused EXCEPT !.status = "queued", !.held = spec.held,
                         !.subtask = spec.subtask, !.cancellable = spec.cancellable,
                         !.stoppable = spec.stoppable] \in Task
      BY NewTaskType DEF Unused, Task, Statuses, Live
    <3>2. task' \in [TaskIds -> Task]
      BY <2>1, <3>1 DEF CreateLocked, TypeOK
    <3>3. known' \in SUBSET TaskIds
      BY <2>1 DEF CreateLocked, TypeOK
    <3> QED
      BY <2>1, <3>2, <3>3, NewTaskType DEF CreateLocked, TypeOK
  <2>2. ASSUME NEW spec \in NewTasks, JoinRunning(spec)
        PROVE  TypeOK'
    BY <2>2 DEF JoinRunning, DropStale, RunningHolder, TypeOK
  <2>3. ASSUME NEW t \in TaskIds, NEW status \in {"running"} \union Terminal,
               NEW report \in SUBSET Reports,
               Update(t, status, report)
        PROVE  TypeOK'
    <3>1. "cancelled" \in Terminal
      BY DEF Terminal
    <3>2. CASE UNCHANGED <<task, pathLocks, end, closes, canceled>>
      BY <2>3, <3>2 DEF Update, TypeOK
    <3>3. CASE /\ task' = [task EXCEPT ![t].status = Stored(status)]
               /\ UNCHANGED <<pathLocks, end, closes, canceled>>
      <4>1. Stored(status) \in Statuses
        BY DEF Stored, Statuses, Live
      <4>2. task' \in [TaskIds -> Task]
        BY <3>3, <4>1 DEF TypeOK, Task
      <4> QED
        BY <2>3, <3>3, <4>2 DEF Update, TypeOK
    <3>4. CASE EndTask(t, "cancelled", {}) /\ UNCHANGED canceled
      BY <2>3, <3>1, <3>4, EndTaskType DEF Update, TypeOK
    <3>5. CASE /\ status \in Terminal
               /\ EndTask(t, status, report)
               /\ canceled' = ContextsAfterEnd(t)
      BY <2>3, <3>5, EndTaskType DEF Update, ContextsAfterEnd, TypeOK
    <3> QED
      BY <2>3, <3>2, <3>3, <3>4, <3>5 DEF Update, EndCancelling
  <2>4. ASSUME NEW t \in TaskIds, Settle(t)
        PROVE  TypeOK'
    BY <2>4 DEF Settle, TypeOK, Task
  <2>5. ASSUME NEW t \in TaskIds, Cancel(t)
        PROVE  TypeOK'
    <3>1. "cancelled" \in Terminal
      BY DEF Terminal
    <3>2. CASE task[t].stoppable
      BY <2>5, <3>2 DEF Cancel, ContextsAfterEnd, TypeOK, Task, Statuses, Live
    <3>3. CASE ~task[t].stoppable
      BY <2>5, <3>1, <3>3, EndTaskType DEF Cancel, ContextsAfterEnd, TypeOK
    <3> QED
      BY <3>2, <3>3
  <2>6. ASSUME NEW t \in TaskIds, Stopped(t)
        PROVE  TypeOK'
    <3>1. "cancelled" \in Terminal
      BY DEF Terminal
    <3> QED
      BY <2>6, <3>1, EndTaskType DEF Stopped, TypeOK
  <2>7. CASE Sweep
    BY <2>7 DEF Sweep, TypeOK
  <2>8. CASE Tick
    BY <2>8 DEF Tick, TypeOK
  <2>9. CASE UNCHANGED vars
    BY <2>9 DEF vars, TypeOK
  <2>10. ASSUME NEW t \in TaskIds, MarkRunning(t) \/ Complete(t) \/ Fail(t)
         PROVE  TypeOK'
    BY <2>3, <2>10 DEF MarkRunning, Complete, Fail, Terminal, Reports
  <2> QED
    BY <2>1, <2>2, <2>4, <2>5, <2>6, <2>7, <2>8, <2>9, <2>10 DEF Next, Calls
<1> QED
  BY <1>1, <1>2, PTL DEF Spec

-----------------------------------------------------------------------------
(* The locks *)

(* An id in the table belongs to a task that was created: what a create    *)
(* relies on when it gives a fresh task the keys of no other.              *)
KnownIsCreated == \A t \in known : task[t].status # "unused"

LocksInv == KnownIsCreated /\ UnfinishedHoldsItsKeys /\ NoStaleLock

(* Every end (Update, Cancel, Stopped) of a task in the table keeps the    *)
(* lock invariant: it frees the keys of that task and no other's.          *)
LEMMA EndTaskLocks ==
    ASSUME TypeOK, LocksInv, NEW t \in known, NEW status \in Terminal,
           NEW report \in SUBSET Reports,
           EndTask(t, status, report), known' = known
    PROVE  LocksInv'
<1>1. t \in TaskIds
  BY DEF TypeOK
<1>2. \A u \in TaskIds :
         /\ task'[u].held = task[u].held
         /\ u # t => task'[u] = task[u]
         /\ u = t => task'[u].status = status
  BY <1>1, EndedFields DEF EndTask, TypeOK
<1>3. status \notin Live /\ status # "unused"
  BY DEF Live, Terminal
<1>4. \A k \in Keys : pathLocks'[k] = IF k \in task[t].held /\ pathLocks[k] = t
                                        THEN NoTask ELSE pathLocks[k]
  BY DEF EndTask, Released
<1>5. KnownIsCreated'
  BY <1>2, <1>3 DEF LocksInv, KnownIsCreated, TypeOK
<1>6. UnfinishedHoldsItsKeys'
  <2> SUFFICES ASSUME NEW u \in TaskIds, task'[u].status \in Live
               PROVE  u \in known' /\ \A k \in task'[u].held : pathLocks'[k] = u
    BY DEF UnfinishedHoldsItsKeys
  <2>1. u # t /\ task'[u] = task[u]
    BY <1>2, <1>3
  <2>2. task[u].held \subseteq Keys
    BY DEF TypeOK, Task
  <2> QED
    BY <2>1, <2>2, <1>4 DEF LocksInv, UnfinishedHoldsItsKeys
<1>7. NoStaleLock'
  <2> SUFFICES ASSUME NEW k \in Keys, pathLocks'[k] # NoTask
               PROVE  Unfinished(pathLocks[k])' /\ k \in task'[pathLocks'[k]].held
    BY DEF NoStaleLock
  <2>1. pathLocks'[k] = pathLocks[k] /\ pathLocks[k] # t
    BY <1>4 DEF LocksInv, NoStaleLock
  <2>2. pathLocks[k] \in TaskIds
    BY <2>1 DEF TypeOK
  <2> QED
    BY <2>1, <2>2, <1>2 DEF LocksInv, NoStaleLock, Unfinished, IsTerminal
<1> QED
  BY <1>5, <1>6, <1>7 DEF LocksInv

(* A step that changes neither the table, the keys of a task, the locks    *)
(* nor whether a task is live.                                             *)
SameLives ==
    /\ known' = known
    /\ pathLocks' = pathLocks
    /\ \A u \in TaskIds :
          /\ task'[u].held = task[u].held
          /\ \/ task'[u].status = task[u].status
             \/ task[u].status \in Live /\ task'[u].status \in Live

(* Such a step keeps the lock invariant (MarkRunning, Settle, a Cancel of  *)
(* a stoppable task).                                                      *)
LEMMA SameLivesSameLocks ==
    ASSUME TypeOK, LocksInv, SameLives
    PROVE  LocksInv'
<1> USE DEF SameLives
<1>1. \A u \in TaskIds : /\ task'[u].status \in Live <=> task[u].status \in Live
                         /\ task'[u].status \in Terminal <=> task[u].status \in Terminal
                         /\ task'[u].status = "unused" <=> task[u].status = "unused"
  BY DEF Live, Terminal
<1>2. KnownIsCreated'
  BY <1>1 DEF LocksInv, KnownIsCreated, TypeOK
<1>3. UnfinishedHoldsItsKeys'
  BY <1>1 DEF LocksInv, UnfinishedHoldsItsKeys
<1>4. NoStaleLock'
  BY <1>1 DEF LocksInv, NoStaleLock, Unfinished, IsTerminal, TypeOK
<1> QED
  BY <1>2, <1>3, <1>4 DEF LocksInv

(* The statuses of a task in the table, by what Update makes of them.      *)
LEMMA KnownStatus ==
    ASSUME TypeOK, LocksInv, NEW t \in known
    PROVE  /\ t \in TaskIds
           /\ task[t].status \in Live \/ task[t].status \in Terminal
           /\ ~(task[t].status \in Live /\ task[t].status \in Terminal)
           /\ task[t].status \in Live <=> ~IsTerminal(t)
BY DEF TypeOK, Task, Statuses, LocksInv, KnownIsCreated, IsTerminal, Live, Terminal

(* Creating a task keeps the lock invariant: it takes keys no live task    *)
(* holds, and the tasks dropped with it hold none.                         *)
LEMMA CreateLocks ==
    ASSUME TypeOK, LocksInv, NEW t \in TaskIds, NEW spec \in NewTasks,
           CreateLocked(t, spec)
    PROVE  LocksInv'
<1>1. /\ task'[t].held = spec.held
      /\ task'[t].status = "queued"
      /\ \A u \in TaskIds \ {t} : task'[u] = task[u]
  BY DEF CreateLocked, TypeOK, Unused
<1>2. PICK dropped \in DroppedOldest(spec.subtask) : known' = (known \union {t}) \ dropped
  BY DEF CreateLocked
<1>3. \A u \in dropped : u \in known /\ IsTerminal(u)
  BY <1>2, DroppedIsFinished
<1>4. t \notin known /\ t \notin dropped /\ t \in known'
  BY <1>2, <1>3 DEF CreateLocked, LocksInv, KnownIsCreated
<1>5. \A k \in Keys : pathLocks'[k] = IF k \in spec.held THEN t ELSE pathLocks[k]
  BY DEF CreateLocked
<1>6. KnownIsCreated'
  BY <1>1, <1>2 DEF LocksInv, KnownIsCreated, TypeOK
<1>7. UnfinishedHoldsItsKeys'
  <2> SUFFICES ASSUME NEW u \in TaskIds, task'[u].status \in Live
               PROVE  u \in known' /\ \A k \in task'[u].held : pathLocks'[k] = u
    BY DEF UnfinishedHoldsItsKeys
  <2>1. CASE u = t
    BY <2>1, <1>1, <1>4, <1>5, NewTaskType
  <2>2. CASE u # t
    <3>1. task[u].status \in Live /\ task'[u] = task[u]
      BY <1>1, <2>2
    <3>2. u \in known /\ \A k \in task[u].held : pathLocks[k] = u
      BY <3>1 DEF LocksInv, UnfinishedHoldsItsKeys
    <3>3. ~IsTerminal(u)
      BY <3>1 DEF IsTerminal, Live, Terminal
    <3>4. u \in known'
      BY <3>2, <3>3, <1>2, <1>3
    <3>5. task[u].held \subseteq Keys
      BY DEF TypeOK, Task
    <3>6. u # NoTask
      BY ManagerAssumption
    <3>7. \A k \in task[u].held : RunningHolder(k) # NoTask
      BY <3>2, <3>3, <3>6 DEF RunningHolder, Unfinished
    <3>8. \A k \in task[u].held : k \notin spec.held
      BY <3>7 DEF CreateLocked, AllFree
    <3> QED
      BY <3>1, <3>2, <3>4, <3>5, <3>8, <1>5
  <2> QED
    BY <2>1, <2>2
<1>8. NoStaleLock'
  <2> SUFFICES ASSUME NEW k \in Keys, pathLocks'[k] # NoTask
               PROVE  Unfinished(pathLocks[k])' /\ k \in task'[pathLocks'[k]].held
    BY DEF NoStaleLock
  <2>1. CASE k \in spec.held
    <3>1. pathLocks'[k] = t
      BY <2>1, <1>5
    <3> QED
      BY <2>1, <3>1, <1>1, <1>4 DEF Unfinished, IsTerminal, Terminal
  <2>2. CASE k \notin spec.held
    <3>1. pathLocks'[k] = pathLocks[k]
      BY <2>2, <1>5
    <3>2. Unfinished(pathLocks[k]) /\ k \in task[pathLocks[k]].held
      BY <3>1 DEF LocksInv, NoStaleLock
    <3>3. pathLocks[k] \in TaskIds \ {t}
      BY <3>1, <3>2, <1>4 DEF TypeOK, Unfinished
    <3>4. pathLocks[k] \in known'
      BY <3>2, <1>2, <1>3 DEF Unfinished
    <3> QED
      BY <3>1, <3>2, <3>3, <3>4, <1>1 DEF Unfinished, IsTerminal
  <2> QED
    BY <2>1, <2>2
<1> QED
  BY <1>6, <1>7, <1>8 DEF LocksInv

(* Sweeping keeps the lock invariant: no live task leaves the table.       *)
LEMMA SweepLocks ==
    ASSUME TypeOK, LocksInv, Sweep
    PROVE  LocksInv'
<1>1. \A u \in TaskIds : task'[u] = task[u]
  BY DEF Sweep
<1>2. \A u \in known : ~IsTerminal(u) => u \in known'
  BY DEF Sweep, Expired
<1>3. \A k \in Keys : pathLocks[k] # NoTask => ~IsTerminal(pathLocks[k])
  BY DEF LocksInv, NoStaleLock, Unfinished
<1>4. pathLocks' = pathLocks
  <2>1. \A k \in Keys, t \in known : Expired(t) => pathLocks[k] # t
    BY <1>3, ManagerAssumption DEF Expired, TypeOK
  <2>2. pathLocks' = [k \in Keys |-> pathLocks[k]]
    BY <2>1 DEF Sweep
  <2> QED
    BY <2>2 DEF TypeOK
<1>5. KnownIsCreated'
  BY <1>1 DEF Sweep, LocksInv, KnownIsCreated, TypeOK
<1>6. UnfinishedHoldsItsKeys'
  BY <1>1, <1>2, <1>4 DEF LocksInv, UnfinishedHoldsItsKeys, IsTerminal, Live, Terminal
<1>7. NoStaleLock'
  <2> SUFFICES ASSUME NEW k \in Keys, pathLocks'[k] # NoTask
               PROVE  Unfinished(pathLocks[k])' /\ k \in task'[pathLocks'[k]].held
    BY DEF NoStaleLock
  <2>1. Unfinished(pathLocks[k]) /\ k \in task[pathLocks[k]].held
    BY <1>4 DEF LocksInv, NoStaleLock
  <2> QED
    BY <2>1, <1>1, <1>2, <1>4 DEF Unfinished, IsTerminal, TypeOK
<1> QED
  BY <1>5, <1>6, <1>7 DEF LocksInv

(* The lock invariant is inductive on top of the types.                    *)
LEMMA LocksInvariant == Spec => []LocksInv
<1>1. Init => LocksInv
  BY DEF Init, LocksInv, KnownIsCreated, UnfinishedHoldsItsKeys, NoStaleLock, Unused, Live
<1>2. TypeOK /\ LocksInv /\ [Next]_vars => LocksInv'
  <2> SUFFICES ASSUME TypeOK, LocksInv, [Next]_vars PROVE LocksInv'
    OBVIOUS
  <2>1. ASSUME NEW t \in TaskIds, NEW spec \in NewTasks, CreateLocked(t, spec)
        PROVE  LocksInv'
    BY <2>1, CreateLocks
  <2>2. ASSUME NEW spec \in NewTasks, JoinRunning(spec)
        PROVE  LocksInv'
    <3>1. pathLocks' = pathLocks
      <4>1. \A k \in Keys : RunningHolder(k) = pathLocks[k]
        BY DEF RunningHolder, LocksInv, NoStaleLock
      <4>2. pathLocks' = [k \in Keys |-> pathLocks[k]]
        BY <2>2, <4>1 DEF JoinRunning, DropStale
      <4> QED
        BY <4>2 DEF TypeOK
    <3> QED
      BY <2>2, <3>1, SameLivesSameLocks DEF JoinRunning, SameLives
  <2>3. ASSUME NEW t \in TaskIds, NEW status \in {"running"} \union Terminal,
               NEW report \in SUBSET Reports,
               Update(t, status, report)
        PROVE  LocksInv'
    <3>1. t \in known /\ known' = known /\ "cancelled" \in Terminal
      BY <2>3 DEF Update, Terminal
    <3>2. CASE UNCHANGED <<task, pathLocks, end, closes, canceled>>
      BY <3>1, <3>2, SameLivesSameLocks DEF SameLives
    <3>3. CASE EndTask(t, "cancelled", {})
      BY <3>1, <3>3, EndTaskLocks
    <3>4. CASE status \in Terminal /\ EndTask(t, status, report)
      BY <3>1, <3>4, EndTaskLocks
    <3>5. CASE /\ status \notin Terminal
               /\ task[t].status # "cancelling"
               /\ ~IgnoresUpdates(t)
               /\ task' = [task EXCEPT ![t].status = Stored(status)]
               /\ UNCHANGED pathLocks
      <4>1. Stored(status) \in Live
        BY <3>5 DEF Stored, Live
      <4>2. task[t].status \in Live
        BY <3>1, <3>5, KnownStatus DEF IgnoresUpdates
      <4>3. \A u \in TaskIds : /\ u # t => task'[u] = task[u]
                               /\ u = t => task'[u] = [task[u] EXCEPT !.status = Stored(status)]
        BY <3>5 DEF TypeOK
      <4>4. \A u \in TaskIds : task[u] \in Task
        BY DEF TypeOK
      <4>5. \A u \in TaskIds : /\ task'[u].held = task[u].held
                               /\ u # t => task'[u].status = task[u].status
                               /\ u = t => task'[u].status \in Live
        BY <4>1, <4>3, <4>4 DEF Task
      <4> QED
        BY <3>1, <3>5, <4>2, <4>5, SameLivesSameLocks DEF SameLives
    <3> QED
      BY <2>3, <3>2, <3>3, <3>4, <3>5 DEF Update, EndCancelling
  <2>4. ASSUME NEW t \in TaskIds, MarkRunning(t) \/ Complete(t) \/ Fail(t)
        PROVE  LocksInv'
    BY <2>3, <2>4 DEF MarkRunning, Complete, Fail, Terminal, Reports
  <2>5. ASSUME NEW t \in TaskIds, Settle(t)
        PROVE  LocksInv'
    <3>1. \A u \in TaskIds : /\ task'[u].held = task[u].held
                             /\ task'[u].status = task[u].status
      BY <2>5 DEF Settle, TypeOK, Task
    <3> QED
      BY <2>5, <3>1, SameLivesSameLocks DEF Settle, SameLives
  <2>6. ASSUME NEW t \in TaskIds, Cancel(t)
        PROVE  LocksInv'
    <3>1. t \in known /\ known' = known /\ "cancelled" \in Terminal /\ task[t].status \in Live
      BY <2>6, KnownStatus DEF Cancel, CanCancel, Unfinished, Terminal
    <3>2. CASE task[t].stoppable
      <4>1. \A u \in TaskIds : /\ task'[u].held = task[u].held
                               /\ u # t => task'[u].status = task[u].status
                               /\ u = t => task'[u].status = "cancelling"
        BY <2>6, <3>2 DEF Cancel, TypeOK, Task
      <4> QED
        BY <2>6, <3>1, <3>2, <4>1, SameLivesSameLocks DEF Cancel, Live, SameLives
    <3>3. CASE ~task[t].stoppable
      BY <2>6, <3>1, <3>3, EndTaskLocks DEF Cancel
    <3> QED
      BY <3>2, <3>3
  <2>7. ASSUME NEW t \in TaskIds, Stopped(t)
        PROVE  LocksInv'
    BY <2>7, EndTaskLocks DEF Stopped, Terminal
  <2>8. CASE Sweep
    BY <2>8, SweepLocks
  <2>9. CASE Tick \/ UNCHANGED vars
    BY <2>9, SameLivesSameLocks DEF Tick, vars, SameLives
  <2> QED
    BY <2>1, <2>2, <2>4, <2>5, <2>6, <2>7, <2>8, <2>9 DEF Next, Calls
<1> QED
  BY <1>1, <1>2, Typing, PTL DEF Spec

(* A live task is in the table and holds each of its keys, and every lock  *)
(* names a live task that holds the key: two tasks never run over one key, *)
(* and no key stays taken by a task that has ended (createLocked,          *)
(* endLocked, Update, releasePathsLocked, sweep).                          *)
THEOREM Locks == Spec => [](UnfinishedHoldsItsKeys /\ NoStaleLock)
<1>1. LocksInv => UnfinishedHoldsItsKeys /\ NoStaleLock
  BY DEF LocksInv
<1> QED
  BY <1>1, LocksInvariant, PTL

-----------------------------------------------------------------------------
(* The ends *)

(* Ending a live task writes the one end its watchers read.                *)
LEMMA EndTaskEnds ==
    ASSUME TypeOK, WatchTellsTheEnd, NEW t \in TaskIds, task[t].status \in Live,
           NEW status \in Terminal, NEW report \in SUBSET Reports,
           EndTask(t, status, report)
    PROVE  WatchTellsTheEnd'
<1>1. \A u \in TaskIds \ {t} : /\ task'[u] = task[u]
                               /\ end'[u] = end[u]
                               /\ closes'[u] = closes[u]
  BY DEF EndTask, TypeOK
<1>2. /\ task'[t].status = status
      /\ end'[t] = [status |-> status, error |-> task'[t].report \intersect {"error"}]
      /\ closes'[t] = closes[t] + 1
  <2>1. /\ task'[t] = Ended(t, status, report)
        /\ end'[t] = [status |-> status,
                      error |-> (task[t].report \union report) \intersect {"error"}]
        /\ closes'[t] = closes[t] + 1
    BY DEF EndTask, TypeOK
  <2>2. /\ Ended(t, status, report).status = status
        /\ Ended(t, status, report).report = task[t].report \union report
    BY EndedFields
  <2> QED
    BY <2>1, <2>2
<1>3. closes[t] = 0
  BY DEF WatchTellsTheEnd, IsTerminal, Live, Terminal
<1>4. /\ closes'[t] = 1
      /\ end'[t] = [status |-> task'[t].status, error |-> task'[t].report \intersect {"error"}]
      /\ task'[t].status \in Terminal
  BY <1>2, <1>3
<1> QED
  <2> SUFFICES ASSUME NEW u \in TaskIds
               PROVE  /\ closes'[u] = (IF IsTerminal(u)' THEN 1 ELSE 0)
                      /\ IsTerminal(u)' => end'[u] = [status |-> task'[u].status, error |-> task'[u].report \intersect {"error"}]
                      /\ ~IsTerminal(u)' => end'[u] = NoEnd
    BY DEF WatchTellsTheEnd, NoEnd
  <2>1. CASE u = t
    BY <2>1, <1>4 DEF IsTerminal
  <2>2. CASE u # t
    BY <2>2, <1>1 DEF WatchTellsTheEnd, IsTerminal
  <2> QED
    BY <2>1, <2>2

(* A step that ends no task, and changes no status of an ended one and no  *)
(* report.                                                                 *)
NoNewEnd ==
    /\ end' = end
    /\ closes' = closes
    /\ \A u \in TaskIds :
          /\ task'[u].report = task[u].report
          /\ \/ task'[u].status = task[u].status
             \/ task[u].status \notin Terminal /\ task'[u].status \notin Terminal

(* Such a step tells the watchers nothing new.                             *)
LEMMA NoNewEndKeepsEnds ==
    ASSUME WatchTellsTheEnd, NoNewEnd
    PROVE  WatchTellsTheEnd'
BY DEF WatchTellsTheEnd, NoNewEnd, IsTerminal, Terminal

(* Every watcher is told the end once and truly, for every interleaving of *)
(* Complete, Fail, Cancel and Stopped: done is closed exactly once, with   *)
(* the end the table shows (closeEndLocked, Update's first-end guard).     *)
THEOREM Ends == Spec => []WatchTellsTheEnd
<1>1. Init => WatchTellsTheEnd
  BY DEF Init, WatchTellsTheEnd, Unused, IsTerminal, Terminal
<1>2. TypeOK /\ LocksInv /\ WatchTellsTheEnd /\ [Next]_vars => WatchTellsTheEnd'
  <2> SUFFICES ASSUME TypeOK, LocksInv, WatchTellsTheEnd, [Next]_vars
               PROVE  WatchTellsTheEnd'
    OBVIOUS
  <2>1. ASSUME NEW t \in TaskIds, NEW spec \in NewTasks, CreateLocked(t, spec)
        PROVE  WatchTellsTheEnd'
    <3>1. /\ task'[t].status = "queued"
          /\ task'[t].report = {}
          /\ \A u \in TaskIds \ {t} : task'[u] = task[u]
      BY <2>1 DEF CreateLocked, TypeOK, Unused
    <3>2. closes[t] = 0 /\ end[t] = NoEnd
      BY <2>1 DEF CreateLocked, WatchTellsTheEnd, IsTerminal, Terminal
    <3> QED
      BY <2>1, <3>1, <3>2 DEF CreateLocked, WatchTellsTheEnd, IsTerminal, Terminal
  <2>2. ASSUME NEW t \in TaskIds, NEW status \in {"running"} \union Terminal,
               NEW report \in SUBSET Reports,
               Update(t, status, report)
        PROVE  WatchTellsTheEnd'
    <3>1. t \in known /\ "cancelled" \in Terminal
      BY <2>2 DEF Update, Terminal
    <3>2. CASE UNCHANGED <<task, pathLocks, end, closes, canceled>>
      BY <3>2, NoNewEndKeepsEnds DEF NoNewEnd
    <3>3. CASE task[t].status = "cancelling" /\ EndTask(t, "cancelled", {})
      BY <3>1, <3>3, EndTaskEnds DEF Live
    <3>4. CASE status \in Terminal /\ ~IgnoresUpdates(t) /\ EndTask(t, status, report)
      BY <3>1, <3>4, KnownStatus, EndTaskEnds DEF IgnoresUpdates
    <3>5. CASE /\ status \notin Terminal
               /\ ~IgnoresUpdates(t)
               /\ task' = [task EXCEPT ![t].status = Stored(status)]
               /\ UNCHANGED <<end, closes>>
      <4>1. Stored(status) \notin Terminal /\ task[t].status \notin Terminal
        BY <3>5 DEF Stored, IgnoresUpdates, IsTerminal
      <4>2. \A u \in TaskIds : /\ task'[u].report = task[u].report
                               /\ u # t => task'[u].status = task[u].status
                               /\ u = t => task'[u].status = Stored(status)
        BY <3>5 DEF TypeOK, Task
      <4> QED
        BY <3>5, <4>1, <4>2, NoNewEndKeepsEnds DEF NoNewEnd
    <3> QED
      BY <2>2, <3>2, <3>3, <3>4, <3>5 DEF Update, EndCancelling
  <2>3. ASSUME NEW t \in TaskIds, MarkRunning(t) \/ Complete(t) \/ Fail(t)
        PROVE  WatchTellsTheEnd'
    BY <2>2, <2>3 DEF MarkRunning, Complete, Fail, Terminal, Reports
  <2>4. ASSUME NEW t \in TaskIds, Settle(t)
        PROVE  WatchTellsTheEnd'
    <3>1. \A u \in TaskIds : /\ task'[u].report = task[u].report
                             /\ task'[u].status = task[u].status
      BY <2>4 DEF Settle, TypeOK, Task
    <3> QED
      BY <2>4, <3>1, NoNewEndKeepsEnds DEF Settle, NoNewEnd
  <2>5. ASSUME NEW t \in TaskIds, Cancel(t)
        PROVE  WatchTellsTheEnd'
    <3>1. task[t].status \in Live /\ task[t].status \notin Terminal /\ "cancelled" \in Terminal
      BY <2>5, KnownStatus DEF Cancel, CanCancel, Unfinished, Terminal
    <3>2. CASE task[t].stoppable
      <4>1. \A u \in TaskIds : /\ task'[u].report = task[u].report
                               /\ u # t => task'[u].status = task[u].status
                               /\ u = t => task'[u].status = "cancelling"
        BY <2>5, <3>2 DEF Cancel, TypeOK, Task
      <4>2. "cancelling" \notin Terminal
        BY DEF Terminal
      <4> QED
        BY <2>5, <3>1, <3>2, <4>1, <4>2, NoNewEndKeepsEnds DEF Cancel, NoNewEnd
    <3>3. CASE ~task[t].stoppable
      BY <2>5, <3>1, <3>3, EndTaskEnds DEF Cancel
    <3> QED
      BY <3>2, <3>3
  <2>6. ASSUME NEW t \in TaskIds, Stopped(t)
        PROVE  WatchTellsTheEnd'
    BY <2>6, EndTaskEnds DEF Stopped, Terminal, Live
  <2>7. ASSUME UNCHANGED <<task, end, closes>>
        PROVE  WatchTellsTheEnd'
    BY <2>7, NoNewEndKeepsEnds DEF NoNewEnd
  <2> QED
    BY <2>1, <2>3, <2>4, <2>5, <2>6, <2>7 DEF Next, Calls, JoinRunning, Sweep, Tick, vars
<1> QED
  BY <1>1, <1>2, Typing, LocksInvariant, PTL DEF Spec

-----------------------------------------------------------------------------
(* The first end wins *)

EndsKept ==
    \A t \in TaskIds : IsTerminal(t) =>
        /\ end'[t] = end[t]
        /\ [task'[t] EXCEPT !.settled = FALSE] = [task[t] EXCEPT !.settled = FALSE]

(* Ending a live task leaves every ended one alone.                        *)
LEMMA EndTaskKeepsEnds ==
    ASSUME TypeOK, NEW t \in TaskIds, task[t].status \in Live, NEW status, NEW report,
           EndTask(t, status, report)
    PROVE  EndsKept
<1>1. ~IsTerminal(t)
  BY DEF IsTerminal, Live, Terminal
<1>2. \A u \in TaskIds \ {t} : task'[u] = task[u] /\ end'[u] = end[u]
  BY DEF EndTask, TypeOK
<1> QED
  BY <1>1, <1>2 DEF EndsKept

(* Once a task has ended, no report of its worker, no cancel and no other  *)
(* task's step changes its status, end time, error or result (Update's     *)
(* invariant); only Settle's mark may still be set.                        *)
THEOREM FirstEnd == Spec => FirstEndWins
<1>1. TypeOK /\ LocksInv /\ [Next]_vars => [EndsKept]_vars
  <2> SUFFICES ASSUME TypeOK, LocksInv, Next PROVE EndsKept
    OBVIOUS
  <2>1. ASSUME \A t \in TaskIds : IsTerminal(t) => task'[t] = task[t] /\ end'[t] = end[t]
        PROVE  EndsKept
    BY <2>1 DEF EndsKept
  <2>2. ASSUME NEW t \in TaskIds, NEW spec \in NewTasks, CreateLocked(t, spec)
        PROVE  EndsKept
    BY <2>1, <2>2 DEF CreateLocked, TypeOK, IsTerminal, Terminal
  <2>3. ASSUME NEW t \in TaskIds, NEW status, NEW report, Update(t, status, report)
        PROVE  EndsKept
    <3>1. t \in known
      BY <2>3 DEF Update
    <3>2. CASE UNCHANGED <<task, pathLocks, end, closes, canceled>>
      BY <2>1, <3>2
    <3>3. CASE task[t].status = "cancelling" /\ EndTask(t, "cancelled", {})
      BY <3>3, EndTaskKeepsEnds DEF Live
    <3>4. CASE ~IgnoresUpdates(t) /\ EndTask(t, status, report)
      BY <3>1, <3>4, KnownStatus, EndTaskKeepsEnds DEF IgnoresUpdates
    <3>5. CASE /\ ~IgnoresUpdates(t)
               /\ task' = [task EXCEPT ![t].status = Stored(status)]
               /\ UNCHANGED end
      BY <2>1, <3>5 DEF IgnoresUpdates, TypeOK
    <3> QED
      BY <2>3, <3>2, <3>3, <3>4, <3>5 DEF Update, EndCancelling
  <2>4. ASSUME NEW t \in TaskIds, Settle(t)
        PROVE  EndsKept
    <3>1. \A u \in TaskIds : task[u] \in Task
      BY DEF TypeOK
    <3>2. /\ task'[t] = [task[t] EXCEPT !.settled = TRUE]
          /\ \A u \in TaskIds \ {t} : task'[u] = task[u]
          /\ end' = end
      BY <2>4 DEF Settle, TypeOK
    <3>3. [task'[t] EXCEPT !.settled = FALSE] = [task[t] EXCEPT !.settled = FALSE]
      BY <3>1, <3>2 DEF Task
    <3> QED
      BY <3>2, <3>3 DEF EndsKept
  <2>5. ASSUME NEW t \in TaskIds, Cancel(t)
        PROVE  EndsKept
    <3>1. task[t].status \in Live /\ ~IsTerminal(t)
      BY <2>5, KnownStatus DEF Cancel, CanCancel, Unfinished
    <3>2. CASE task[t].stoppable
      BY <2>1, <2>5, <3>1, <3>2 DEF Cancel, TypeOK
    <3>3. CASE ~task[t].stoppable
      BY <2>5, <3>1, <3>3, EndTaskKeepsEnds DEF Cancel
    <3> QED
      BY <3>2, <3>3
  <2>6. ASSUME NEW t \in TaskIds, Stopped(t)
        PROVE  EndsKept
    BY <2>6, EndTaskKeepsEnds DEF Stopped, Live
  <2>7. CASE UNCHANGED <<task, end>>
    BY <2>1, <2>7
  <2> QED
    BY <2>2, <2>3, <2>4, <2>5, <2>6, <2>7
       DEF Next, Calls, JoinRunning, Sweep, Tick, MarkRunning, Complete, Fail
<1>2. FirstEndWins <=> [][EndsKept]_vars
  BY DEF FirstEndWins, EndsKept
<1> QED
  BY <1>1, <1>2, Typing, LocksInvariant, PTL DEF Spec

-----------------------------------------------------------------------------
(* Cancels *)

(* Until it ends a task has reported nothing: Error and Result are set     *)
(* with the end (Update), so a task that ends cancelled carries neither.   *)
UnendedHasNoReport == \A t \in TaskIds : task[t].status \notin Terminal => task[t].report = {}

CancelInv == UnendedHasNoReport /\ CancelIsClean

(* A step on one task keeps the cancel invariant when what it makes of     *)
(* that task is clean.                                                     *)
CleanStep(t) ==
    /\ \A u \in TaskIds \ {t} : task'[u] = task[u]
    /\ canceled \subseteq canceled'
    /\ task'[t].status \notin Terminal => task'[t].report = {}
    /\ task'[t].settled => task'[t].status \notin {"cancelling", "cancelled"}
    /\ task'[t].status = "cancelled" => task'[t].report = {}
    /\ task'[t].cancellable /\ task'[t].status \in Terminal \union {"cancelling"} => t \in canceled'

LEMMA CleanStepIsClean ==
    ASSUME CancelInv, NEW t \in TaskIds, CleanStep(t)
    PROVE  CancelInv'
BY DEF CancelInv, UnendedHasNoReport, CancelIsClean, CleanStep

(* Every end of a live task is clean: what ends cancelled has not passed   *)
(* Settle, and its context is canceled with it or was before.              *)
LEMMA EndTaskIsClean ==
    ASSUME TypeOK, CancelInv, NEW t \in TaskIds, task[t].status \in Live,
           NEW status \in Terminal, NEW report \in SUBSET Reports,
           EndTask(t, status, report),
           status = "cancelled" => ~task[t].settled /\ report = {},
           canceled \subseteq canceled',
           task[t].cancellable => t \in canceled'
    PROVE  CancelInv'
<1>1. \A u \in TaskIds \ {t} : task'[u] = task[u]
  BY DEF EndTask, TypeOK
<1>2. task'[t] = Ended(t, status, report)
  BY DEF EndTask, TypeOK
<1>3. /\ Ended(t, status, report).settled = task[t].settled
      /\ Ended(t, status, report).cancellable = task[t].cancellable
  BY DEF Ended, TypeOK, Task
<1>4. task[t].report = {}
  BY DEF CancelInv, UnendedHasNoReport, Live, Terminal
<1>5. task'[t].status = status /\ task'[t].report = report
  <2>1. /\ Ended(t, status, report).status = status
        /\ Ended(t, status, report).report = task[t].report \union report
    BY EndedFields
  <2>2. {} \union report = report
    OBVIOUS
  <2> QED
    BY <1>2, <1>4, <2>1, <2>2
<1>6. status # "cancelling"
  BY DEF Terminal
<1>7. CleanStep(t)
  BY <1>1, <1>2, <1>3, <1>5, <1>6 DEF CleanStep
<1> QED
  BY <1>7, CleanStepIsClean

(* A cancel and the worker's own end agree in whatever order they come: a  *)
(* task past Settle never shows as cancelled, a cancelled one carries no   *)
(* error and no result, and no context outlives its task (Settle, Cancel,  *)
(* Update, Stopped).                                                       *)
THEOREM Cancels == Spec => []CancelIsClean
<1>1. Init => CancelInv
  BY DEF Init, CancelInv, UnendedHasNoReport, CancelIsClean, Unused, Terminal
<1>2. TypeOK /\ LocksInv /\ CancelInv /\ [Next]_vars => CancelInv'
  <2> SUFFICES ASSUME TypeOK, LocksInv, CancelInv, [Next]_vars
               PROVE  CancelInv'
    OBVIOUS
  <2>1. ASSUME NEW t \in TaskIds, NEW spec \in NewTasks, CreateLocked(t, spec)
        PROVE  CancelInv'
    <3>1. /\ task'[t].status = "queued"
          /\ task'[t].report = {}
          /\ task'[t].settled = FALSE
          /\ \A u \in TaskIds \ {t} : task'[u] = task[u]
      BY <2>1 DEF CreateLocked, TypeOK, Unused
    <3>2. CleanStep(t)
      BY <2>1, <3>1 DEF CleanStep, CreateLocked, Terminal
    <3> QED
      BY <3>2, CleanStepIsClean
  <2>2. ASSUME NEW t \in TaskIds, NEW status \in {"running", "completed", "failed"},
               NEW report \in SUBSET Reports,
               Update(t, status, report)
        PROVE  CancelInv'
    <3>1. t \in known /\ t \in TaskIds /\ "cancelled" \in Terminal
      BY <2>2 DEF Update, Terminal
    <3>2. CASE UNCHANGED <<task, pathLocks, end, closes, canceled>>
      BY <3>2 DEF CancelInv, UnendedHasNoReport, CancelIsClean
    <3>3. CASE task[t].status = "cancelling" /\ EndTask(t, "cancelled", {}) /\ UNCHANGED canceled
      <4>1. /\ task[t].status \in Live /\ ~task[t].settled
            /\ task[t].cancellable => t \in canceled
        BY <3>3 DEF Live, CancelInv, CancelIsClean
      <4> QED
        BY <3>1, <3>3, <4>1, EndTaskIsClean
    <3>4. CASE /\ status \in Terminal /\ ~IgnoresUpdates(t) /\ EndTask(t, status, report)
               /\ canceled' = ContextsAfterEnd(t)
      <4>1. task[t].status \in Live /\ status # "cancelled"
        BY <3>1, <3>4, KnownStatus DEF IgnoresUpdates
      <4>2. canceled \subseteq canceled' /\ (task[t].cancellable => t \in canceled')
        BY <3>4 DEF ContextsAfterEnd
      <4> QED
        BY <3>1, <3>4, <4>1, <4>2, EndTaskIsClean
    <3>5. CASE /\ status \notin Terminal
               /\ ~IgnoresUpdates(t)
               /\ task' = [task EXCEPT ![t].status = Stored(status)]
               /\ UNCHANGED canceled
      <4>1. Stored(status) = "running" /\ task[t].status \notin Terminal
        BY <3>5 DEF Stored, IgnoresUpdates, IsTerminal, Terminal
      <4>2. /\ task'[t].status = "running"
            /\ task'[t].report = task[t].report
            /\ \A u \in TaskIds \ {t} : task'[u] = task[u]
        BY <3>5, <4>1 DEF TypeOK, Task
      <4>3. CleanStep(t)
        BY <3>5, <4>1, <4>2 DEF CleanStep, CancelInv, UnendedHasNoReport, Terminal
      <4> QED
        BY <4>3, CleanStepIsClean
    <3> QED
      BY <2>2, <3>2, <3>3, <3>4, <3>5 DEF Update, EndCancelling
  <2>3. ASSUME NEW t \in TaskIds, MarkRunning(t) \/ Complete(t) \/ Fail(t)
        PROVE  CancelInv'
    BY <2>2, <2>3 DEF MarkRunning, Complete, Fail, Reports
  <2>4. ASSUME NEW t \in TaskIds, Settle(t)
        PROVE  CancelInv'
    <3>1. /\ task[t].status \notin {"cancelling", "cancelled"}
          /\ task'[t].status = task[t].status
          /\ task'[t].report = task[t].report
          /\ task'[t].cancellable = task[t].cancellable
          /\ \A u \in TaskIds \ {t} : task'[u] = task[u]
          /\ canceled' = canceled
      BY <2>4 DEF Settle, TypeOK, Task
    <3>2. CleanStep(t)
      BY <3>1 DEF CleanStep, CancelInv, UnendedHasNoReport, CancelIsClean
    <3> QED
      BY <3>2, CleanStepIsClean
  <2>5. ASSUME NEW t \in TaskIds, Cancel(t)
        PROVE  CancelInv'
    <3>1. /\ task[t].status \in Live /\ task[t].status \notin Terminal
          /\ "cancelled" \in Terminal /\ ~task[t].settled
          /\ canceled \subseteq canceled' /\ t \in canceled'
      <4>1. task[t].cancellable /\ ~task[t].settled /\ t \in known /\ ~IsTerminal(t)
        BY <2>5 DEF Cancel, CanCancel, Unfinished
      <4>2. canceled' = canceled \union {t}
        BY <2>5, <4>1 DEF Cancel, ContextsAfterEnd
      <4> QED
        BY <4>1, <4>2, KnownStatus DEF IsTerminal, Terminal
    <3>2. CASE task[t].stoppable
      <4>1. /\ task'[t].status = "cancelling"
            /\ task'[t].report = task[t].report
            /\ task'[t].settled = task[t].settled
            /\ \A u \in TaskIds \ {t} : task'[u] = task[u]
        BY <2>5, <3>2 DEF Cancel, TypeOK, Task
      <4>2. CleanStep(t)
        BY <3>1, <4>1 DEF CleanStep, CancelInv, UnendedHasNoReport
      <4> QED
        BY <4>2, CleanStepIsClean
    <3>3. CASE ~task[t].stoppable
      BY <2>5, <3>1, <3>3, EndTaskIsClean DEF Cancel
    <3> QED
      BY <3>2, <3>3
  <2>6. ASSUME NEW t \in TaskIds, Stopped(t)
        PROVE  CancelInv'
    <3>1. /\ task[t].status \in Live /\ ~task[t].settled /\ "cancelled" \in Terminal
          /\ task[t].cancellable => t \in canceled
      BY <2>6 DEF Stopped, Live, Terminal, CancelInv, CancelIsClean
    <3> QED
      BY <2>6, <3>1, EndTaskIsClean DEF Stopped
  <2>7. ASSUME UNCHANGED <<task, canceled>>
        PROVE  CancelInv'
    BY <2>7 DEF CancelInv, UnendedHasNoReport, CancelIsClean
  <2> QED
    BY <2>1, <2>3, <2>4, <2>5, <2>6, <2>7 DEF Next, Calls, JoinRunning, Sweep, Tick, vars
<1>3. CancelInv => CancelIsClean
  BY DEF CancelInv
<1> QED
  BY <1>1, <1>2, <1>3, Typing, LocksInvariant, PTL DEF Spec

-----------------------------------------------------------------------------
(* The cap *)

\* A table of finitely many tasks, so that the cap can be counted against.
KnownIsFinite == IsFiniteSet(known)

(* What a step that takes tasks from the table, or adds one, may do: the   *)
(* body of CapDropsOldestOfItsClass.                                       *)
CapStep ==
    /\ \A new \in known' \ known :
         Cardinality(FinishedOf(task'[new].subtask) \intersect known') < MaxTasks
    /\ \A t \in known \ known' :
         /\ IsTerminal(t)
         /\ known' \subseteq known => now - task[t].completedAt > TTL
         /\ \A new \in known' \ known :
               /\ task'[new].subtask = task[t].subtask
               /\ \A kept \in known' \intersect FinishedOf(task[t].subtask) :
                     task[t].completedAt <= task[kept].completedAt

\* What is left of a finite set.
LEMMA LeftOver ==
    ASSUME NEW S, IsFiniteSet(S), NEW D \in SUBSET S
    PROVE  /\ Cardinality(S \ D) = Cardinality(S) - Cardinality(D)
           /\ Cardinality(S) \in Nat
<1>1. S \intersect D = D
  OBVIOUS
<1>2. Cardinality(S \ D) = Cardinality(S) - Cardinality(S \intersect D)
  BY FS_Difference
<1> QED
  BY <1>1, <1>2, FS_CardinalityType

(* What a create leaves of its class is under the cap: the tasks it drops  *)
(* are as many as are too many, the new one counted (Excess).              *)
LEMMA LeavesRoom ==
    ASSUME KnownIsFinite, NEW subtask, NEW dropped \in DroppedOldest(subtask)
    PROVE  Cardinality(FinishedOf(subtask) \ dropped) < MaxTasks
<1>1. PICK finished : finished = FinishedOf(subtask)
  OBVIOUS
<1>2. IsFiniteSet(finished)
  BY <1>1, FS_Subset DEF KnownIsFinite, FinishedOf
<1>3. dropped \in SUBSET finished /\ Cardinality(dropped) = Excess(finished)
  BY <1>1 DEF DroppedOldest
<1>4. Cardinality(finished \ dropped) = Cardinality(finished) - Excess(finished) /\ Cardinality(finished) \in Nat
  BY <1>2, <1>3, LeftOver
<1>5. Cardinality(finished \ dropped) < MaxTasks
  BY <1>4, ManagerAssumption DEF Excess
<1> QED
  BY <1>1, <1>5

(* A create drops ended tasks of its own class, the oldest ends first.     *)
LEMMA CreateKeepsCap ==
    ASSUME TypeOK, LocksInv, KnownIsFinite, NEW t \in TaskIds, NEW spec \in NewTasks,
           CreateLocked(t, spec)
    PROVE  KnownIsFinite' /\ CapStep
<1>1. PICK dropped \in DroppedOldest(spec.subtask) : known' = (known \union {t}) \ dropped
  BY DEF CreateLocked
<1>2. /\ dropped \subseteq FinishedOf(spec.subtask)
      /\ \A x \in dropped, y \in FinishedOf(spec.subtask) \ dropped :
             task[x].completedAt <= task[y].completedAt
  BY <1>1 DEF DroppedOldest
<1>3. task[t].status = "unused" /\ t \notin known
  BY KnownStatus DEF CreateLocked, Live, Terminal
<1>4. known' \ known = {t} /\ known \ known' = dropped
  BY <1>1, <1>2, <1>3 DEF FinishedOf
<1>5. task'[t].subtask = spec.subtask
  BY DEF CreateLocked, TypeOK, Unused
<1>6. FinishedOf(spec.subtask) \intersect known' = FinishedOf(spec.subtask) \ dropped
  BY <1>1, <1>2 DEF FinishedOf
<1>7. Cardinality(FinishedOf(spec.subtask) \intersect known') < MaxTasks
  BY <1>1, <1>6, LeavesRoom
<1>8. \A x \in dropped : IsTerminal(x) /\ task[x].subtask = spec.subtask
  BY <1>2 DEF FinishedOf
<1>9. KnownIsFinite'
  <2>1. IsFiniteSet(known \union {t})
    BY FS_AddElement DEF KnownIsFinite
  <2> QED
    BY <1>1, <2>1, FS_Subset DEF KnownIsFinite
<1>10. CapStep
  <2>1. \A new \in known' \ known : Cardinality(FinishedOf(task'[new].subtask) \intersect known') < MaxTasks
    BY <1>4, <1>5, <1>7
  <2>2. ASSUME NEW x \in known \ known'
        PROVE  /\ IsTerminal(x)
               /\ ~(known' \subseteq known)
               /\ \A new \in known' \ known :
                     /\ task'[new].subtask = task[x].subtask
                     /\ \A kept \in known' \intersect FinishedOf(task[x].subtask) :
                           task[x].completedAt <= task[kept].completedAt
    BY <1>2, <1>4, <1>5, <1>6, <1>8, <2>2
  <2> QED
    BY <2>1, <2>2 DEF CapStep
<1> QED
  BY <1>9, <1>10

(* Only ended tasks leave the table: with a create the oldest ends of the  *)
(* new task's class, as many as make room for its own end; with a sweep    *)
(* those whose TTL has passed (dropOldestFinishedLocked, sweep).           *)
THEOREM Cap == Spec => CapDropsOldestOfItsClass
<1>1. Init => KnownIsFinite
  BY FS_EmptySet DEF Init, KnownIsFinite
<1>2. TypeOK /\ LocksInv /\ KnownIsFinite /\ [Next]_vars => KnownIsFinite' /\ [CapStep]_vars
  <2> SUFFICES ASSUME TypeOK, LocksInv, KnownIsFinite, [Next]_vars
               PROVE  KnownIsFinite' /\ (CapStep \/ UNCHANGED vars)
    OBVIOUS
  <2>1. CASE \E t \in TaskIds, spec \in NewTasks : CreateLocked(t, spec)
    BY <2>1, CreateKeepsCap
  <2>2. CASE known' = known
    BY <2>2 DEF CapStep, KnownIsFinite
  <2>3. CASE Sweep
    <3>1. known' \subseteq known /\ \A t \in known \ known' : Expired(t)
      BY <2>3 DEF Sweep
    <3>2. KnownIsFinite'
      BY <3>1, FS_Subset DEF KnownIsFinite
    <3> QED
      BY <3>1, <3>2 DEF CapStep, Expired
  <2> QED
    BY <2>1, <2>2, <2>3 DEF Next, Calls, JoinRunning, MarkRunning, Complete, Fail, Update, Settle, Cancel,
       Stopped, Tick, vars
<1>3. CapDropsOldestOfItsClass <=> [][CapStep]_vars
  BY DEF CapDropsOldestOfItsClass, CapStep
<1> QED
  BY <1>1, <1>2, <1>3, Typing, LocksInvariant, PTL DEF Spec

-----------------------------------------------------------------------------
(* The refinement *)

(* A create that gives a new task its keys is a Start of TaskTable.        *)
LEMMA CreateIsStart ==
    ASSUME TypeOK, LocksInv, NEW t \in TaskIds, NEW spec \in NewTasks,
           CreateLocked(t, spec)
    PROVE  Promise!Start(t, spec.held)
<1>1. /\ task'[t].held = spec.held
      /\ task'[t].status = "queued"
      /\ \A u \in TaskIds \ {t} : task'[u] = task[u]
      /\ task[t].status = "unused"
  BY DEF CreateLocked, TypeOK, Unused
<1>2. /\ OutcomeOf(t) = "unused"
      /\ OutcomeOf(t)' = "live"
      /\ \A u \in TaskIds \ {t} : OutcomeOf(u)' = OutcomeOf(u)
  BY <1>1 DEF OutcomeOf, Live
<1>3. ASSUME NEW k \in spec.held, NEW u \in TaskIds, OutcomeOf(u) = "live", k \in task[u].held
      PROVE  FALSE
  <2>1. task[u].status \in Live
    BY <1>3 DEF OutcomeOf, Live, TypeOK, Task, Statuses, Terminal
  <2>2. u \in known /\ pathLocks[k] = u /\ ~IsTerminal(u)
    BY <1>3, <2>1 DEF LocksInv, UnfinishedHoldsItsKeys, IsTerminal, Live, Terminal
  <2>3. RunningHolder(k) = u /\ u # NoTask
    BY <2>2, ManagerAssumption DEF RunningHolder, Unfinished
  <2> QED
    BY <1>3, <2>3 DEF CreateLocked, AllFree
<1>4. \A k \in spec.held : Promise!HoldersOf(k) = {}
  BY <1>3 DEF Promise!HoldersOf
<1>5. [u \in TaskIds |-> OutcomeOf(u)]' = [[u \in TaskIds |-> OutcomeOf(u)] EXCEPT ![t] = "live"]
  BY <1>2
<1>6. [u \in TaskIds |-> task[u].held]' = [[u \in TaskIds |-> task[u].held] EXCEPT ![t] = spec.held]
  BY <1>1
<1> QED
  BY <1>2, <1>4, <1>5, <1>6 DEF Promise!Start

(* Every way a live task ends is an End of TaskTable.                      *)
LEMMA EndTaskIsEnd ==
    ASSUME TypeOK, NEW t \in TaskIds, task[t].status \in Live, NEW status \in Terminal,
           NEW report \in SUBSET Reports, EndTask(t, status, report)
    PROVE  Promise!End(t, status)
<1>1. /\ task'[t].held = task[t].held
      /\ task'[t].status = status
      /\ \A u \in TaskIds \ {t} : task'[u] = task[u]
  BY EndedFields DEF EndTask, TypeOK
<1>2. /\ OutcomeOf(t) = "live"
      /\ OutcomeOf(t)' = status
      /\ \A u \in TaskIds \ {t} : OutcomeOf(u)' = OutcomeOf(u)
  BY <1>1 DEF OutcomeOf, Live, Terminal
<1>3. [u \in TaskIds |-> OutcomeOf(u)]' = [[u \in TaskIds |-> OutcomeOf(u)] EXCEPT ![t] = status]
  BY <1>2
<1>4. [u \in TaskIds |-> task[u].held]' = [u \in TaskIds |-> task[u].held]
  BY <1>1
<1> QED
  BY <1>2, <1>3, <1>4 DEF Promise!End

(* A step that neither creates nor ends a task.                            *)
SameOutcomes ==
    \A u \in TaskIds :
       /\ task'[u].held = task[u].held
       /\ \/ task'[u].status = task[u].status
          \/ task[u].status \in Live /\ task'[u].status \in Live

(* Such a step changes nothing TaskTable shows.                            *)
LEMMA SameOutcomesStutter ==
    ASSUME SameOutcomes
    PROVE  UNCHANGED Promise!tableVars
<1>1. \A u \in TaskIds : OutcomeOf(u)' = OutcomeOf(u) /\ task'[u].held = task[u].held
  BY DEF SameOutcomes, OutcomeOf
<1>2. [u \in TaskIds |-> OutcomeOf(u)]' = [u \in TaskIds |-> OutcomeOf(u)]
  BY <1>1
<1>3. [u \in TaskIds |-> task[u].held]' = [u \in TaskIds |-> task[u].held]
  BY <1>1
<1> QED
  BY <1>2, <1>3 DEF Promise!tableVars

(* The manager implements TaskTable: a task takes all of its keys or none  *)
(* when it starts, no two live tasks share one, and it ends once, however  *)
(* the table is capped, swept and searched meanwhile.                      *)
THEOREM Refinement == Spec => ImplementsTaskTable
<1>1. Init => Promise!TableInit
  BY DEF Init, Promise!TableInit, OutcomeOf, Unused, Live
<1>2. TypeOK /\ LocksInv /\ [Next]_vars => [Promise!TableNext]_(Promise!tableVars)
  <2> SUFFICES ASSUME TypeOK, LocksInv, [Next]_vars
               PROVE  Promise!TableNext \/ UNCHANGED Promise!tableVars
    OBVIOUS
  <2>1. ASSUME NEW t \in TaskIds, NEW held \in SUBSET Keys, Promise!Start(t, held)
        PROVE  Promise!TableNext
    BY <2>1 DEF Promise!TableNext
  <2>2. ASSUME NEW t \in TaskIds, NEW status \in Terminal, Promise!End(t, status)
        PROVE  Promise!TableNext
    BY <2>2 DEF Promise!TableNext, Promise!Ends, Terminal
  <2>3. ASSUME NEW t \in TaskIds, NEW spec \in NewTasks, CreateLocked(t, spec)
        PROVE  Promise!TableNext
    BY <2>1, <2>3, CreateIsStart, NewTaskType
  <2>4. ASSUME NEW t \in TaskIds, NEW status \in {"running"} \union Terminal,
               NEW report \in SUBSET Reports,
               Update(t, status, report)
        PROVE  Promise!TableNext \/ UNCHANGED Promise!tableVars
    <3>1. t \in known /\ "cancelled" \in Terminal
      BY <2>4 DEF Update, Terminal
    <3>2. CASE UNCHANGED <<task, pathLocks, end, closes, canceled>>
      BY <3>2, SameOutcomesStutter DEF SameOutcomes
    <3>3. CASE task[t].status = "cancelling" /\ EndTask(t, "cancelled", {})
      BY <2>2, <3>1, <3>3, EndTaskIsEnd DEF Live
    <3>4. CASE status \in Terminal /\ ~IgnoresUpdates(t) /\ EndTask(t, status, report)
      BY <2>2, <3>1, <3>4, KnownStatus, EndTaskIsEnd DEF IgnoresUpdates
    <3>5. CASE /\ status \in Live
               /\ ~IgnoresUpdates(t)
               /\ task' = [task EXCEPT ![t].status = Stored(status)]
      <4>1. Stored(status) \in Live /\ task[t].status \in Live
        BY <3>1, <3>5, KnownStatus DEF Stored, IgnoresUpdates
      <4>2. \A u \in TaskIds : /\ task'[u].held = task[u].held
                               /\ u # t => task'[u].status = task[u].status
                               /\ u = t => task'[u].status = Stored(status)
        BY <3>5 DEF TypeOK, Task
      <4> QED
        BY <4>1, <4>2, SameOutcomesStutter DEF SameOutcomes
    <3> QED
      BY <2>4, <3>2, <3>3, <3>4, <3>5 DEF Update, EndCancelling, Live
  <2>5. ASSUME NEW t \in TaskIds, MarkRunning(t) \/ Complete(t) \/ Fail(t)
        PROVE  Promise!TableNext \/ UNCHANGED Promise!tableVars
    BY <2>4, <2>5 DEF MarkRunning, Complete, Fail, Reports, Terminal
  <2>6. ASSUME NEW t \in TaskIds, Settle(t)
        PROVE  UNCHANGED Promise!tableVars
    <3>1. \A u \in TaskIds : /\ task'[u].held = task[u].held
                             /\ task'[u].status = task[u].status
      BY <2>6 DEF Settle, TypeOK, Task
    <3> QED
      BY <3>1, SameOutcomesStutter DEF SameOutcomes
  <2>7. ASSUME NEW t \in TaskIds, Cancel(t)
        PROVE  Promise!TableNext \/ UNCHANGED Promise!tableVars
    <3>1. task[t].status \in Live /\ "cancelled" \in Terminal
      BY <2>7, KnownStatus DEF Cancel, CanCancel, Unfinished, Terminal
    <3>2. CASE task[t].stoppable
      <4>1. \A u \in TaskIds : /\ task'[u].held = task[u].held
                               /\ u # t => task'[u].status = task[u].status
                               /\ u = t => task'[u].status = "cancelling"
        BY <2>7, <3>2 DEF Cancel, TypeOK, Task
      <4> QED
        BY <3>1, <4>1, SameOutcomesStutter DEF SameOutcomes, Live
    <3>3. CASE ~task[t].stoppable
      BY <2>2, <2>7, <3>1, <3>3, EndTaskIsEnd DEF Cancel
    <3> QED
      BY <3>2, <3>3
  <2>8. ASSUME NEW t \in TaskIds, Stopped(t)
        PROVE  Promise!TableNext
    BY <2>2, <2>8, EndTaskIsEnd DEF Stopped, Terminal, Live
  <2>9. CASE UNCHANGED task
    BY <2>9, SameOutcomesStutter DEF SameOutcomes
  <2> QED
    BY <2>3, <2>5, <2>6, <2>7, <2>8, <2>9 DEF Next, Calls, JoinRunning, Sweep, Tick, vars
<1> QED
  BY <1>1, <1>2, Typing, LocksInvariant, PTL DEF Spec, ImplementsTaskTable, Promise!TableSpec

-----------------------------------------------------------------------------
(* The sweeper *)

\* What Start and Stop have done so far: one goroutine at most is launched, by the one
\* call that set the flag, and a Stop that saw the flag returns when it has exited.
LifeInv ==
    /\ Life!TypeOK
    /\ once = "fresh" <=> ~started
    /\ launched = IF once = "done" THEN 1 ELSE 0
    /\ loop # "none" <=> once = "done"
    /\ \A c \in Life!Goroutines : at[c] = "flagged" => once = "running"
    /\ \A c, d \in Life!Goroutines : at[c] = "flagged" /\ at[d] = "flagged" => c = d
    /\ \A c \in saw : /\ at[c] \in {"looking", "closing", "waiting", "returned"}
                      /\ at[c] = "returned" => loop = "exited"

(* A call that moves, and leaves the goroutine alone, keeps the invariant. *)
LEMMA CallMoves ==
    ASSUME LifeInv, NEW c \in Life!Goroutines, NEW step \in Life!Steps,
           at' = [at EXCEPT ![c] = step],
           step = "flagged" => at[c] = "flagged",
           saw' \in {saw, saw \union ({c} \intersect Stoppers)},
           c \in saw' => step \in {"looking", "closing", "waiting", "returned"},
           c \in saw' /\ step = "returned" => loop = "exited",
           cancel' \in BOOLEAN, UNCHANGED <<once, started, loop, launched, crash>>
    PROVE  LifeInv'
<1>1. at' \in [Life!Goroutines -> Life!Steps] /\ saw' \in SUBSET Stoppers
  BY DEF LifeInv, Life!TypeOK
<1>2. at'[c] = step /\ \A d \in Life!Goroutines \ {c} : at'[d] = at[d]
  BY DEF LifeInv, Life!TypeOK
<1>3. Life!TypeOK'
  BY <1>1 DEF LifeInv, Life!TypeOK
<1>4. saw' \subseteq Life!Goroutines
  BY <1>1 DEF Life!Goroutines
<1>5. \A d \in saw' : /\ at'[d] \in {"looking", "closing", "waiting", "returned"}
                      /\ at'[d] = "returned" => loop = "exited"
  BY <1>2, <1>4 DEF LifeInv
<1> QED
  BY <1>2, <1>3, <1>5 DEF LifeInv

LEMMA LivesKeepLife ==
    ASSUME LifeInv, Life!Lives \/ Life!SweepEnds
    PROVE  LifeInv'
<1>1. Starters \subseteq Life!Goroutines /\ Stoppers \subseteq Life!Goroutines
  BY DEF Life!Goroutines
<1>2. ASSUME NEW c \in Starters, Life!Flag(c)
      PROVE  LifeInv'
  <2>1. at'[c] = "flagged" /\ \A d \in Life!Goroutines \ {c} : at'[d] = at[d]
    BY <1>1, <1>2 DEF Life!Flag, Life!Goes, LifeInv, Life!TypeOK
  <2>2. Life!TypeOK'
    BY <1>2 DEF Life!Flag, Life!Goes, LifeInv, Life!TypeOK, Life!Steps
  <2>3. once = "fresh" /\ once' = "running" /\ started' = TRUE /\ UNCHANGED <<loop, launched, saw>>
    BY <1>2 DEF Life!Flag, Life!MayRun
  <2>4. c \notin saw /\ \A d \in Life!Goroutines : at[d] # "flagged"
    BY <1>1, <1>2, <2>3 DEF Life!Flag, LifeInv
  <2>5. saw \subseteq Life!Goroutines
    BY <1>1 DEF LifeInv, Life!TypeOK
  <2> QED
    BY <2>1, <2>2, <2>3, <2>4, <2>5 DEF LifeInv
<1>3. ASSUME NEW c \in Starters, Life!Launch(c)
      PROVE  LifeInv'
  <2>1. at'[c] = "returned" /\ \A d \in Life!Goroutines \ {c} : at'[d] = at[d]
    BY <1>1, <1>3 DEF Life!Launch, Life!Goes, LifeInv, Life!TypeOK
  <2>2. once = "running" /\ launched = 0 /\ loop = "none" /\ c \notin saw
    BY <1>1, <1>3 DEF Life!Launch, LifeInv
  <2>3. once' = "done" /\ launched' = launched + 1 /\ loop' = "idle" /\ UNCHANGED <<started, cancel, saw, crash>>
    BY <1>3 DEF Life!Launch
  <2>4. Life!TypeOK'
    <3>1. at' \in [Life!Goroutines -> Life!Steps]
      BY <1>3 DEF Life!Launch, Life!Goes, LifeInv, Life!TypeOK, Life!Steps
    <3>2. launched' = 1 /\ loop' \in Life!Loops
      BY <2>2, <2>3 DEF Life!Loops
    <3> QED
      BY <2>3, <3>1, <3>2 DEF LifeInv, Life!TypeOK
  <2>5. \A d \in Life!Goroutines : at'[d] # "flagged"
    BY <1>1, <1>3, <2>1 DEF Life!Launch, LifeInv
  <2>6. \A d \in saw : d \in Life!Goroutines /\ d # c /\ at[d] # "returned"
    BY <1>1, <2>2 DEF LifeInv, Life!TypeOK
  <2> QED
    BY <2>1, <2>2, <2>3, <2>4, <2>5, <2>6 DEF LifeInv
<1>4. ASSUME NEW c \in Starters, Life!StartAgain(c)
      PROVE  LifeInv'
  <2>1. c \notin saw
    BY <1>4 DEF Life!StartAgain, LifeInv
  <2> QED
    BY <1>1, <1>4, <2>1, CallMoves DEF Life!StartAgain, Life!Goes, Life!Steps, LifeInv, Life!TypeOK
<1>5. ASSUME NEW c \in Stoppers, Life!LoadFlag(c)
      PROVE  LifeInv'
  <2>1. c \notin saw
    BY <1>5 DEF Life!LoadFlag, LifeInv
  <2>2. CASE started
    BY <1>1, <1>5, <2>1, <2>2, CallMoves DEF Life!LoadFlag, Life!Goes, Life!Steps, LifeInv, Life!TypeOK
  <2>3. CASE ~started
    BY <1>1, <1>5, <2>1, <2>3, CallMoves DEF Life!LoadFlag, Life!Goes, Life!Steps, LifeInv, Life!TypeOK
  <2> QED
    BY <2>2, <2>3
<1>6. ASSUME NEW c \in Stoppers, Life!Select(c)
      PROVE  LifeInv'
  <2> DEFINE step == IF cancel THEN "waiting" ELSE "closing"
  <2>1. at' = [at EXCEPT ![c] = step] /\ step \in {"waiting", "closing"}
    BY <1>6 DEF Life!Select, Life!Goes
  <2>2. UNCHANGED <<once, started, loop, launched, cancel, saw, crash>> /\ cancel \in BOOLEAN
    BY <1>6 DEF Life!Select, LifeInv, Life!TypeOK
  <2> HIDE DEF step
  <2> QED
    BY <1>1, <2>1, <2>2, CallMoves DEF Life!Steps
<1>7. ASSUME NEW c \in Stoppers, Life!CloseCancel(c)
      PROVE  LifeInv'
  <2>1. CASE cancel
    BY <1>7, <2>1 DEF Life!CloseCancel, LifeInv, Life!TypeOK
  <2>2. CASE ~cancel
    BY <1>1, <1>7, <2>2, CallMoves DEF Life!CloseCancel, Life!Goes, Life!Steps
  <2> QED
    BY <2>1, <2>2
<1>8. ASSUME NEW c \in Stoppers, Life!StopReturn(c)
      PROVE  LifeInv'
  BY <1>1, <1>8, CallMoves DEF Life!StopReturn, Life!SweeperDone, Life!Goes, Life!Steps, LifeInv, Life!TypeOK
<1>9. CASE Life!SweepStarts \/ Life!SweepEnds \/ Life!Exit
  <2>1. /\ loop \in {"idle", "sweeping"} /\ loop' \in Life!Loops \ {"none"}
        /\ UNCHANGED <<once, started, launched, cancel, at, saw, crash>>
    BY <1>9 DEF Life!SweepStarts, Life!SweepEnds, Life!Exit, Life!Loops
  <2> QED
    BY <2>1 DEF LifeInv, Life!TypeOK
<1> QED
  BY <1>2, <1>3, <1>4, <1>5, <1>6, <1>7, <1>8, <1>9 DEF Life!Lives

(* With its sweeper goroutine, and however Starts and Stops come, the      *)
(* table does only what TaskManager lets it: all that is proved of it      *)
(* holds.                                                                  *)
THEOREM SweptTable == SweptSpec => Spec
<1>1. SweptInit => Init
  BY DEF SweptInit
<1>2. [SweptNext]_sweptVars => [Next]_vars
  BY DEF SweptNext, sweptVars, RunSweep, Next
<1> QED
  BY <1>1, <1>2, PTL DEF SweptSpec, Spec

LEMMA LifeInvariant == SweptSpec => []LifeInv
<1>1. SweptInit => LifeInv
  <2> SUFFICES ASSUME Life!Init PROVE LifeInv
    BY DEF SweptInit
  <2>1. Life!TypeOK
    BY DEF Life!Init, Life!TypeOK, Life!Steps, Life!Loops
  <2>2. \A c \in Life!Goroutines : at[c] # "flagged"
    BY DEF Life!Init
  <2> QED
    BY <2>1, <2>2 DEF Life!Init, LifeInv
<1>2. LifeInv /\ [SweptNext]_sweptVars => LifeInv'
  <2>1. LifeInv /\ UNCHANGED lifeVars => LifeInv'
    BY DEF LifeInv, lifeVars, Life!TypeOK
  <2> QED
    BY <2>1, LivesKeepLife DEF SweptNext, sweptVars, RunSweep
<1> QED
  BY <1>1, <1>2, PTL DEF SweptSpec

(* Starts and Stops launch one sweeper between them, whatever their order, *)
(* so sweeperDone is closed once (sweeperOnce, sweeperLoop).               *)
THEOREM Launches == SweptSpec => []OneSweeper
<1>1. LifeInv => Life!TypeOK /\ launched <= 1 /\ (loop # "none" => launched = 1)
  BY DEF LifeInv
<1> QED
  BY <1>1, LifeInvariant, SweptTable, Typing, PTL DEF OneSweeper

(* Once a Stop that saw the sweeper started has returned, only a create    *)
(* takes tasks from the table (Stop, sweeperLoop).                         *)
THEOREM Stops == SweptSpec => NoSweepAfterStop
<1> DEFINE Quiet == (\E c \in saw : at[c] = "returned") /\ known' \subseteq known => known' = known
<1>1. TypeOK /\ LocksInv /\ LifeInv /\ [SweptNext]_sweptVars => [Quiet]_sweptVars
  <2> SUFFICES ASSUME TypeOK, LocksInv, LifeInv, SweptNext, NEW c \in saw, at[c] = "returned",
                      known' \subseteq known
               PROVE  known' = known
    OBVIOUS
  <2>1. ~RunSweep
    BY DEF LifeInv, RunSweep, Life!SweepEnds
  <2>2. ASSUME NEW t \in TaskIds, NEW spec \in NewTasks, CreateLocked(t, spec)
        PROVE  FALSE
    <3>1. PICK dropped \in DroppedOldest(spec.subtask) : known' = (known \union {t}) \ dropped
      BY <2>2 DEF CreateLocked
    <3>2. task[t].status = "unused" /\ t \notin known
      BY <2>2, KnownStatus DEF CreateLocked, Live, Terminal
    <3> QED
      BY <3>1, <3>2, DroppedIsFinished
  <2>3. CASE UNCHANGED known
    BY <2>3
  <2> QED
    BY <2>1, <2>2, <2>3 DEF SweptNext, Calls, JoinRunning, MarkRunning, Complete, Fail, Update, Settle,
       Cancel, Stopped, Tick, vars
<1>2. NoSweepAfterStop <=> [][Quiet]_sweptVars
  BY DEF NoSweepAfterStop
<1> QED
  BY <1>1, <1>2, LifeInvariant, SweptTable, Typing, LocksInvariant, PTL DEF SweptSpec

-----------------------------------------------------------------------------
(* The webhook dispatcher, for every set of events, pool of workers, depth *)
(* of the channel and number of calls of Close.                            *)

CONSTANTS Events, Workers, Closers, NoEvent, QueueDepth
VARIABLES fate, queue, open, closed, hOnce, worker, closer, stopped, hCrash

Hooks == INSTANCE HookDispatcher WITH once <- hOnce, crash <- hCrash

-----------------------------------------------------------------------------
(* The inductive invariant *)

(* The channel holds each event it holds once, and those are the queued.   *)
QueueIsExact ==
    /\ \A i, j \in 1..Len(queue) : queue[i] = queue[j] => i = j
    /\ \A i \in 1..Len(queue) : fate[queue[i]] = "queued"
    /\ \A e \in Events : fate[e] = "queued" => \E i \in 1..Len(queue) : queue[i] = e

(* Each event in flight is in the hands of one worker.                     *)
HandsAreExact ==
    /\ \A w \in Workers : worker[w].event # NoEvent => fate[worker[w].event] = "sending"
    /\ \A v, w \in Workers : worker[v].event = worker[w].event /\ worker[v].event # NoEvent => v = w
    /\ \A e \in Events : fate[e] = "sending" => \E w \in Workers : worker[w].event = e

(* A worker ends only when the channel is closed and empty, and nothing is *)
(* put on it from then on; Wait returns when every worker has ended.       *)
EndedMeansEmpty ==
    /\ \A w \in Workers : ~worker[w].alive => Hooks!Drained /\ worker[w].event = NoEvent
    /\ stopped => Hooks!AllGone

HooksInv == Hooks!TypeOK /\ QueueIsExact /\ HandsAreExact /\ EndedMeansEmpty

-----------------------------------------------------------------------------

LEMMA HooksInit == ASSUME Hooks!DispatcherAssumption, Hooks!Init PROVE HooksInv
<1> USE DEF Hooks!Init
<1>1. Hooks!TypeOK
  <2>1. queue \in Seq(Events) /\ Len(queue) <= QueueDepth
    BY DEF Hooks!DispatcherAssumption
  <2>2. fate \in [Events -> Hooks!Fates] /\ closer \in [Closers -> Hooks!CloseSteps] /\ hCrash \in Hooks!Crashes
    BY DEF Hooks!Fates, Hooks!CloseSteps, Hooks!Crashes
  <2>3. worker \in [Workers -> [alive : BOOLEAN, event : Events \union {NoEvent}]]
    OBVIOUS
  <2> QED
    BY <2>1, <2>2, <2>3 DEF Hooks!TypeOK
<1>2. QueueIsExact
  BY DEF QueueIsExact
<1>3. HandsAreExact
  BY DEF HandsAreExact
<1>4. EndedMeansEmpty
  BY DEF EndedMeansEmpty
<1> QED
  BY <1>1, <1>2, <1>3, <1>4 DEF HooksInv

(* enqueue's first step moves an event that is nowhere yet.                *)
LEMMA CheckInv == ASSUME Hooks!DispatcherAssumption, HooksInv, NEW e \in Events, Hooks!Check(e) PROVE HooksInv'
BY DEF Hooks!Check, HooksInv, Hooks!TypeOK, QueueIsExact, HandsAreExact, EndedMeansEmpty,
       Hooks!Drained, Hooks!AllGone, Hooks!Fates

(* The select of enqueue: an open channel means no worker has ended.       *)
LEMMA SendInv == ASSUME Hooks!DispatcherAssumption, HooksInv, NEW e \in Events, Hooks!Send(e) PROVE HooksInv'
<1> USE DEF HooksInv
<1>1. CASE ~open
  <2>1. hCrash' \in Hooks!Crashes /\ UNCHANGED <<fate, queue, open, closed, hOnce, worker, closer, stopped>>
    BY <1>1 DEF Hooks!Send, Hooks!Crashes
  <2> QED
    BY <2>1 DEF Hooks!TypeOK, QueueIsExact, HandsAreExact, EndedMeansEmpty, Hooks!Drained, Hooks!AllGone
<1>2. CASE open /\ ~Hooks!HasRoom
  <2>1. /\ fate[e] = "checked"
        /\ fate' = [fate EXCEPT ![e] = "dropped"]
        /\ UNCHANGED <<queue, open, closed, hOnce, worker, closer, stopped, hCrash>>
    BY <1>2 DEF Hooks!Send
  <2>2. Hooks!TypeOK'
    BY <2>1 DEF Hooks!TypeOK, Hooks!Fates
  <2>3. QueueIsExact' /\ HandsAreExact'
    BY <2>1 DEF Hooks!TypeOK, QueueIsExact, HandsAreExact
  <2>4. EndedMeansEmpty'
    BY <2>1 DEF EndedMeansEmpty, Hooks!Drained, Hooks!AllGone
  <2> QED
    BY <2>2, <2>3, <2>4
<1>3. CASE open /\ Hooks!HasRoom
  <2>1. /\ fate[e] = "checked"
        /\ queue' = Append(queue, e)
        /\ fate' = [fate EXCEPT ![e] = "queued"]
        /\ UNCHANGED <<open, closed, hOnce, worker, closer, stopped, hCrash>>
    BY <1>3 DEF Hooks!Send
  <2>2. /\ queue' \in Seq(Events)
        /\ Len(queue') = Len(queue) + 1
        /\ Len(queue) \in Nat
        /\ \A i \in 1..Len(queue) : queue'[i] = queue[i]
        /\ queue'[Len(queue) + 1] = e
    BY <2>1 DEF Hooks!TypeOK
  <2>3. \A i \in 1..Len(queue) : queue[i] # e
    BY <2>1 DEF QueueIsExact
  <2>4. Hooks!TypeOK'
    BY <1>3, <2>1, <2>2 DEF Hooks!TypeOK, Hooks!Fates, Hooks!HasRoom, Hooks!DispatcherAssumption
  <2>5. QueueIsExact'
    <3>1. ASSUME NEW i \in 1..Len(queue'), NEW j \in 1..Len(queue'), queue'[i] = queue'[j]
          PROVE  i = j
      BY <2>2, <2>3, <3>1 DEF QueueIsExact
    <3>2. \A i \in 1..Len(queue') : fate'[queue'[i]] = "queued"
      BY <2>1, <2>2 DEF QueueIsExact, Hooks!TypeOK
    <3>3. ASSUME NEW f \in Events, fate'[f] = "queued"
          PROVE  \E i \in 1..Len(queue') : queue'[i] = f
      BY <2>1, <2>2, <3>3 DEF QueueIsExact, Hooks!TypeOK
    <3> QED
      BY <3>1, <3>2, <3>3 DEF QueueIsExact
  <2>6. HandsAreExact'
    BY <2>1 DEF HandsAreExact, Hooks!TypeOK
  <2>7. EndedMeansEmpty'
    BY <1>3, <2>1 DEF EndedMeansEmpty, Hooks!Drained, Hooks!AllGone
  <2> QED
    BY <2>4, <2>5, <2>6, <2>7
<1> QED
  BY <1>1, <1>2, <1>3 DEF Hooks!Send

(* The oldest event leaves the channel for the hands of one worker.        *)
LEMMA TakeInv == ASSUME Hooks!DispatcherAssumption, HooksInv, NEW w \in Workers, Hooks!Take(w) PROVE HooksInv'
<1> USE DEF HooksInv
<1>1. /\ queue # <<>>
      /\ worker[w].alive /\ worker[w].event = NoEvent
      /\ worker' = [worker EXCEPT ![w].event = Head(queue)]
      /\ queue' = Tail(queue)
      /\ fate' = [fate EXCEPT ![Head(queue)] = "sending"]
      /\ UNCHANGED <<open, closed, hOnce, closer, stopped, hCrash>>
  BY DEF Hooks!Take, Hooks!Rest
<1>2. /\ Head(queue) = queue[1] /\ queue[1] \in Events
      /\ queue' \in Seq(Events)
      /\ Len(queue') = Len(queue) - 1
      /\ Len(queue) \in Nat \ {0}
      /\ \A i \in 1..Len(queue') : queue'[i] = queue[i + 1] /\ i + 1 \in 1..Len(queue)
  BY <1>1 DEF Hooks!TypeOK
<1>3. fate[queue[1]] = "queued"
  BY <1>2 DEF QueueIsExact
<1>4. Hooks!TypeOK'
  BY <1>1, <1>2 DEF Hooks!TypeOK, Hooks!Fates, Hooks!DispatcherAssumption
<1>5. \A i \in 1..Len(queue') : queue'[i] # queue[1]
  BY <1>2 DEF QueueIsExact
<1>6. QueueIsExact'
  <2>1. \A i, j \in 1..Len(queue') : queue'[i] = queue'[j] => i = j
    BY <1>2 DEF QueueIsExact
  <2>2. \A i \in 1..Len(queue') : fate'[queue'[i]] = "queued"
    BY <1>1, <1>2, <1>5 DEF QueueIsExact, Hooks!TypeOK
  <2>3. ASSUME NEW e \in Events, fate'[e] = "queued"
        PROVE  \E i \in 1..Len(queue') : queue'[i] = e
    <3>1. e # queue[1] /\ fate[e] = "queued"
      BY <1>1, <1>2, <2>3 DEF Hooks!TypeOK
    <3>2. PICK i \in 1..Len(queue) : queue[i] = e
      BY <3>1 DEF QueueIsExact
    <3>3. i - 1 \in 1..Len(queue') /\ queue'[i - 1] = e
      BY <1>2, <3>1, <3>2
    <3> QED
      BY <3>3
  <2> QED
    BY <2>1, <2>2, <2>3 DEF QueueIsExact
<1>7. HandsAreExact'
  BY <1>1, <1>2, <1>3 DEF HandsAreExact, Hooks!TypeOK, Hooks!DispatcherAssumption
<1>8. EndedMeansEmpty'
  <2>1. \A v \in Workers : worker[v].alive /\ worker'[v].alive
    BY <1>1 DEF EndedMeansEmpty, Hooks!Drained, Hooks!TypeOK
  <2>2. ~stopped
    BY <2>1 DEF EndedMeansEmpty, Hooks!AllGone
  <2> QED
    BY <1>1, <2>1, <2>2 DEF EndedMeansEmpty
<1> QED
  BY <1>4, <1>6, <1>7, <1>8

(* The event in a worker's hands is sent, and is no longer anywhere.       *)
LEMMA FireInv == ASSUME Hooks!DispatcherAssumption, HooksInv, NEW w \in Workers, Hooks!Fire(w) PROVE HooksInv'
<1> USE DEF HooksInv
<1>1. PICK e \in Events : worker[w].event = e /\ fate[e] = "sending"
  BY DEF Hooks!Fire, Hooks!TypeOK, HandsAreExact
<1>2. /\ fate' = [fate EXCEPT ![e] = "sent"]
      /\ worker' = [worker EXCEPT ![w].event = NoEvent]
      /\ UNCHANGED <<queue, open, closed, hOnce, closer, stopped, hCrash>>
  BY <1>1 DEF Hooks!Fire
<1>3. Hooks!TypeOK'
  BY <1>2 DEF Hooks!TypeOK, Hooks!Fates
<1>4. QueueIsExact'
  BY <1>1, <1>2 DEF QueueIsExact, Hooks!TypeOK
<1>5. HandsAreExact'
  BY <1>1, <1>2 DEF HandsAreExact, Hooks!TypeOK, Hooks!DispatcherAssumption
<1>6. EndedMeansEmpty'
  BY <1>2 DEF EndedMeansEmpty, Hooks!TypeOK, Hooks!Drained, Hooks!AllGone
<1> QED
  BY <1>3, <1>4, <1>5, <1>6

LEMMA ExitInv == ASSUME Hooks!DispatcherAssumption, HooksInv, NEW w \in Workers, Hooks!Exit(w) PROVE HooksInv'
<1> USE DEF HooksInv
<1>1. /\ Hooks!Drained /\ worker[w].event = NoEvent
      /\ worker' = [worker EXCEPT ![w].alive = FALSE]
      /\ UNCHANGED <<fate, queue, open, closed, hOnce, closer, stopped, hCrash>>
  BY DEF Hooks!Exit
<1>2. \A v \in Workers : worker'[v].event = worker[v].event
  BY <1>1 DEF Hooks!TypeOK
<1>3. Hooks!TypeOK'
  BY <1>1 DEF Hooks!TypeOK
<1>4. QueueIsExact' /\ HandsAreExact'
  BY <1>1, <1>2 DEF QueueIsExact, HandsAreExact
<1>5. EndedMeansEmpty'
  BY <1>1, <1>2 DEF EndedMeansEmpty, Hooks!Drained, Hooks!AllGone, Hooks!TypeOK
<1> QED
  BY <1>3, <1>4, <1>5

(* Close moves no event; it only lets the workers end.                     *)
LEMMA CloseInv ==
    ASSUME Hooks!DispatcherAssumption, HooksInv, NEW c \in Closers,
           Hooks!Store(c) \/ Hooks!CloseQueue(c) \/ Hooks!SkipBody(c) \/ Hooks!CloseStopped(c)
    PROVE  HooksInv'
<1> USE DEF HooksInv
<1>1. UNCHANGED <<fate, queue, worker>>
  BY DEF Hooks!Store, Hooks!CloseQueue, Hooks!SkipBody, Hooks!CloseStopped
<1>2. QueueIsExact' /\ HandsAreExact'
  BY <1>1 DEF QueueIsExact, HandsAreExact
<1>3. /\ open' \in {open, FALSE}
      /\ stopped' \in {stopped, TRUE}
      /\ stopped' # stopped => Hooks!AllGone
      /\ closed' \in {closed, TRUE}
      /\ hOnce' \in {hOnce, "running", "done"}
      /\ hCrash' \in {hCrash, "close of closed channel"}
  BY DEF Hooks!Store, Hooks!CloseQueue, Hooks!SkipBody, Hooks!CloseStopped
<1>4. closer' \in [Closers -> Hooks!CloseSteps]
  BY DEF Hooks!Store, Hooks!CloseQueue, Hooks!SkipBody, Hooks!CloseStopped, Hooks!CloseSteps, Hooks!TypeOK
<1>5. Hooks!TypeOK'
  BY <1>1, <1>3, <1>4 DEF Hooks!TypeOK, Hooks!Crashes
<1>6. (Hooks!AllGone <=> Hooks!AllGone') /\ (Hooks!Drained => Hooks!Drained')
  <2>1. ~open => ~open'
    BY DEF Hooks!Store, Hooks!CloseQueue, Hooks!SkipBody, Hooks!CloseStopped
  <2> QED
    BY <1>1, <2>1 DEF Hooks!Drained, Hooks!AllGone
<1>7. EndedMeansEmpty'
  BY <1>1, <1>3, <1>6 DEF EndedMeansEmpty, Hooks!TypeOK
<1> QED
  BY <1>2, <1>5, <1>7

LEMMA HooksStep == ASSUME Hooks!DispatcherAssumption, HooksInv, [Hooks!Next]_Hooks!vars PROVE HooksInv'
<1>1. CASE UNCHANGED Hooks!vars
  BY <1>1 DEF Hooks!vars, HooksInv, Hooks!TypeOK, QueueIsExact, HandsAreExact, EndedMeansEmpty,
              Hooks!Drained, Hooks!AllGone
<1>2. CASE Hooks!Next
  BY <1>2, CheckInv, SendInv, TakeInv, FireInv, ExitInv, CloseInv DEF Hooks!Next
<1> QED
  BY <1>1, <1>2

(* What the invariant says holds in every state, whoever races with Close. *)
THEOREM HooksInvariance == ASSUME Hooks!DispatcherAssumption PROVE Hooks!Spec => []HooksInv
<1>1. Hooks!Init => HooksInv
  BY HooksInit
<1>2. HooksInv /\ [Hooks!Next]_Hooks!vars => HooksInv'
  BY HooksStep
<1> QED
  BY <1>1, <1>2, PTL DEF Hooks!Spec

-----------------------------------------------------------------------------
(* What follows from it *)

(* A set with at most one member has the size that says whether it has     *)
(* one.                                                                    *)
LEMMA AtMostOne ==
    ASSUME NEW S, \A x, y \in S : x = y
    PROVE  Cardinality(S) = IF S = {} THEN 0 ELSE 1
<1>1. CASE S = {}
  BY <1>1, FS_EmptySet
<1>2. CASE S # {}
  <2>1. PICK x \in S : TRUE
    BY <1>2
  <2>2. S = {x}
    BY <2>1
  <2> QED
    BY <1>2, <2>2, FS_Singleton
<1> QED
  BY <1>1, <1>2

LEMMA CountedAlike ==
    ASSUME NEW S
    PROVE  Hooks!Cardinality(S) = Cardinality(S)
BY DEF Hooks!Cardinality, Cardinality

(* Every accepted event is in one place: once in the channel or in the     *)
(* hands of one worker (enqueue, worker).                                  *)
LEMMA InvInOnePlace == ASSUME Hooks!DispatcherAssumption, HooksInv PROVE Hooks!AcceptedIsInOnePlace
<1> SUFFICES ASSUME NEW e \in Events
             PROVE  /\ Cardinality({i \in 1..Len(queue) : queue[i] = e})
                       = (IF fate[e] = "queued" THEN 1 ELSE 0)
                    /\ Cardinality({w \in Workers : worker[w].event = e})
                       = (IF fate[e] = "sending" THEN 1 ELSE 0)
  BY CountedAlike DEF HooksInv, Hooks!AcceptedIsInOnePlace
<1> DEFINE Places == {i \in 1..Len(queue) : queue[i] = e}
           Hands == {w \in Workers : worker[w].event = e}
<1>1. (\A x, y \in Places : x = y) /\ (Places = {} <=> fate[e] # "queued")
  BY DEF HooksInv, QueueIsExact
<1>2. (\A x, y \in Hands : x = y) /\ (Hands = {} <=> fate[e] # "sending")
  BY DEF HooksInv, HandsAreExact, Hooks!DispatcherAssumption
<1> HIDE DEF Places, Hands
<1>3. Cardinality(Places) = IF Places = {} THEN 0 ELSE 1
  BY <1>1, AtMostOne
<1>4. Cardinality(Hands) = IF Hands = {} THEN 0 ELSE 1
  BY <1>2, AtMostOne
<1>5. /\ Cardinality(Places) = (IF fate[e] = "queued" THEN 1 ELSE 0)
      /\ Cardinality(Hands) = (IF fate[e] = "sending" THEN 1 ELSE 0)
  BY <1>1, <1>2, <1>3, <1>4
<1> QED
  BY <1>5 DEF Places, Hands

(* When Wait returns, nothing accepted is left (Close, Wait).              *)
LEMMA InvSent == ASSUME Hooks!DispatcherAssumption, HooksInv PROVE Hooks!WaitMeansSent
<1> SUFFICES ASSUME stopped, NEW e \in Events PROVE fate[e] \notin {"queued", "sending"}
  BY DEF Hooks!WaitMeansSent
<1>1. PICK w \in Workers : TRUE
  BY DEF Hooks!DispatcherAssumption
<1>2. queue = <<>> /\ \A v \in Workers : worker[v].event = NoEvent
  BY <1>1 DEF HooksInv, EndedMeansEmpty, Hooks!AllGone, Hooks!Drained
<1>3. fate[e] # "queued"
  BY <1>2 DEF HooksInv, QueueIsExact
<1>4. fate[e] # "sending"
  BY <1>2 DEF HooksInv, HandsAreExact, Hooks!DispatcherAssumption
<1> QED
  BY <1>3, <1>4

(* Every accepted event is in one place, and has been sent when Wait       *)
(* returns, whatever races with Close: `rx trace` exits after Wait.        *)
THEOREM NothingAcceptedIsLost ==
    ASSUME Hooks!DispatcherAssumption
    PROVE  Hooks!Spec => [](Hooks!AcceptedIsInOnePlace /\ Hooks!WaitMeansSent)
<1>1. HooksInv => Hooks!AcceptedIsInOnePlace /\ Hooks!WaitMeansSent
  BY InvInOnePlace, InvSent
<1> QED
  BY <1>1, HooksInvariance, PTL

=============================================================================

---------------------------- MODULE TaskManager ----------------------------
(***************************************************************************)
(* The background-task manager (internal/tasks/manager.go): the task table *)
(* of `rx serve`, its path locks, the cap on finished tasks and the        *)
(* sweeper.  Every public method holds Manager.mu from its first line to   *)
(* its last, so each is one atomic action here.  Any caller may call any   *)
(* method on any task at any time: a worker that reports late, a panic     *)
(* after Complete, a second DELETE.                                        *)
(***************************************************************************)
EXTENDS Integers, FiniteSets

CONSTANTS
    TaskIds,    \* the ids uuid.NewString hands out, each once
    NoTask,     \* no task: a key nobody holds
    Paths,      \* absolute file and directory paths
    Ops,        \* operations a cancellable task can have
    ChainKeys,  \* the "chain:..." keys of log chain tasks
    MaxTasks,   \* Config.MaxTasks: finished tasks kept per class
    TTL,        \* Config.TTL in ticks of the clock
    MaxNow      \* bound of the model: the last tick of the clock

ASSUME ManagerAssumption ==
    /\ NoTask \notin TaskIds
    /\ MaxTasks \in Nat \ {0}
    /\ TTL \in Nat
    /\ MaxNow \in Nat

(* Everything a task can hold; cancellableKey joins operation and path. *)
Keys == Paths \union (Ops \X Paths) \union ChainKeys

VARIABLES
    known,      \* m.tasks: the ids the table holds
    task,       \* [TaskIds -> Task]: each Task struct; it outlives its place in the table
    pathLocks,  \* [Keys -> TaskIds or NoTask]: m.pathLocks
    end,        \* [TaskIds -> End]: what a Watch reads once done is closed
    closes,     \* [TaskIds -> Nat]: how often close(task.done) ran
    canceled,   \* the ids whose context has been canceled
    now         \* the clock

vars == <<known, task, pathLocks, end, closes, canceled, now>>

-----------------------------------------------------------------------------
(* Types *)

Terminal == {"completed", "failed", "cancelled"}
Live == {"queued", "running", "cancelling"}
(* What a worker has reported: which of Task.Error and Task.Result are set. *)
Reports == {"error", "result"}

Statuses == {"unused"} \union Live \union Terminal

Task == [status : Statuses, held : SUBSET Keys, subtask : BOOLEAN,
         cancellable : BOOLEAN, stoppable : BOOLEAN, settled : BOOLEAN,
         completedAt : Nat, report : SUBSET Reports]

(* A task not created yet: its id has not been handed out. *)
Unused == [status |-> "unused", held |-> {}, subtask |-> FALSE,
           cancellable |-> FALSE, stoppable |-> FALSE, settled |-> FALSE,
           completedAt |-> 0, report |-> {}]

EndRecord == [status : {"none"} \union Terminal, error : SUBSET {"error"}]
NoEnd == [status |-> "none", error |-> {}]

(* newTask: what createLocked takes, and the requests each public Create   *)
(* method makes of it.                                                     *)
NewTask(keySets, subtask, cancellable, stoppable) ==
    [held : keySets, subtask : {subtask}, cancellable : {cancellable}, stoppable : {stoppable}]

HeldPaths == {{p, q} : p, q \in Paths}
CreateHoldings == NewTask(HeldPaths, FALSE, FALSE, FALSE)
CreateSubtasks == NewTask({{p} : p \in Paths}, TRUE, FALSE, FALSE)
CreateKeyeds == NewTask({{k} : k \in ChainKeys}, FALSE, FALSE, FALSE)
CreateCancellables == NewTask({{k} : k \in Ops \X Paths}, FALSE, TRUE, FALSE)
CreateStoppables == NewTask({{k} : k \in Ops \X Paths}, FALSE, TRUE, TRUE)
NewTasks == CreateHoldings \union CreateSubtasks \union CreateKeyeds
                \union CreateCancellables \union CreateStoppables

Init ==
    /\ known = {}
    /\ task = [t \in TaskIds |-> Unused]
    /\ pathLocks = [k \in Keys |-> NoTask]
    /\ end = [t \in TaskIds |-> NoEnd]
    /\ closes = [t \in TaskIds |-> 0]
    /\ canceled = {}
    /\ now = 0

-----------------------------------------------------------------------------
(* Helpers.  An operator named Faulty... is not part of the model: it is   *)
(* the operator after it with one plausible bug, kept to show that a       *)
(* property can fail (README.md, "Mutants").                               *)

FaultyIsTerminal(t) == task[t].status \in Terminal \union {"cancelling"}
IsTerminal(t) == task[t].status \in Terminal

Unfinished(t) == t \in known /\ ~IsTerminal(t)

(* runningHolderLocked, without the removal of a stale lock (DropStale). *)
RunningHolder(k) ==
    IF pathLocks[k] # NoTask /\ Unfinished(pathLocks[k]) THEN pathLocks[k] ELSE NoTask

DropStale(looked) ==
    [k \in Keys |-> IF k \in looked THEN RunningHolder(k) ELSE pathLocks[k]]

(* releasePathsLocked. *)
FaultyReleased(t) == pathLocks
Released(t) ==
    [k \in Keys |-> IF k \in task[t].held /\ pathLocks[k] = t THEN NoTask ELSE pathLocks[k]]

FinishedOf(subtask) == {t \in known : task[t].subtask = subtask /\ IsTerminal(t)}

(* How many finished tasks leave: "+ 1" is the place the new task takes. *)
Excess(finished) ==
    IF Cardinality(finished) + 1 <= MaxTasks THEN 0 ELSE Cardinality(finished) + 1 - MaxTasks

(* dropOldestFinishedLocked: the sets it may drop.  Tasks that ended at    *)
(* the same instant are sorted in any order.                               *)
FaultyDroppedOldest(subtask) ==
    LET finished == FinishedOf(TRUE) \union FinishedOf(FALSE)
    IN  {d \in SUBSET finished :
            /\ Cardinality(d) = Excess(finished)
            /\ \A x \in d, y \in finished \ d : task[x].completedAt <= task[y].completedAt}
DroppedOldest(subtask) ==
    LET finished == FinishedOf(subtask)
    IN  {d \in SUBSET finished :
            /\ Cardinality(d) = Excess(finished)
            /\ \A x \in d, y \in finished \ d : task[x].completedAt <= task[y].completedAt}

-----------------------------------------------------------------------------
(* Creating *)

(* createLocked asks of every key whether a running task holds it. *)
FaultyAllFree(held) == \E k \in held : RunningHolder(k) = NoTask
AllFree(held) == \A k \in held : RunningHolder(k) = NoTask

CreateLocked(t, spec) ==
    /\ task[t].status = "unused"
    /\ AllFree(spec.held)
    /\ task' = [task EXCEPT ![t] =
                  [Unused EXCEPT !.status = "queued", !.held = spec.held,
                                 !.subtask = spec.subtask,
                                 !.cancellable = spec.cancellable,
                                 !.stoppable = spec.stoppable]]
    /\ pathLocks' = [k \in Keys |-> IF k \in spec.held THEN t ELSE pathLocks[k]]
    /\ \E dropped \in DroppedOldest(spec.subtask) : known' = (known \union {t}) \ dropped
    /\ UNCHANGED <<end, closes, canceled, now>>

(* createLocked when a key is taken, and Holder: the running task is       *)
(* handed back; stale locks of the keys looked at on the way are removed.  *)
JoinRunning(spec) ==
    /\ ~AllFree(spec.held)
    /\ \E looked \in SUBSET spec.held : pathLocks' = DropStale(looked)
    /\ UNCHANGED <<known, task, end, closes, canceled, now>>

-----------------------------------------------------------------------------
(* Ending *)

(* endLocked, and the terminal branch of Update: the end is written, done  *)
(* is closed and the keys are released in one step.                        *)
Ended(t, status, report) ==
    [task[t] EXCEPT !.status = status, !.completedAt = now,
                    !.report = task[t].report \union report]

EndTask(t, status, report) ==
    /\ task' = [task EXCEPT ![t] = Ended(t, status, report)]
    /\ end' = [end EXCEPT ![t] = [status |-> status,
                                  error |-> (task[t].report \union report) \intersect {"error"}]]
    /\ closes' = [closes EXCEPT ![t] = @ + 1]
    /\ pathLocks' = Released(t)

(* task.cancel(), where the task has a context. *)
ContextsAfterEnd(t) == IF task[t].cancellable THEN canceled \union {t} ELSE canceled

(* A cancelling task ends cancelled, whatever its worker reports. *)
EndCancelling(t, report) == EndTask(t, "cancelled", {})

(* What Update makes of the status of a task it may change. *)
FaultyStored(status) == ""
Stored(status) == status

FaultyIgnoresUpdates(t) == FALSE
IgnoresUpdates(t) == IsTerminal(t)

(* Update; MarkRunning, Complete and Fail are its only callers. *)
Update(t, status, report) ==
    /\ t \in known
    /\ \/ /\ task[t].status = "cancelling"
          /\ status \in Terminal
          /\ EndCancelling(t, report)
          /\ UNCHANGED canceled
       \/ /\ task[t].status = "cancelling"
          /\ status \notin Terminal
          /\ UNCHANGED <<task, pathLocks, end, closes, canceled>>
       \/ /\ IgnoresUpdates(t)
          /\ UNCHANGED <<task, pathLocks, end, closes, canceled>>
       \/ /\ task[t].status # "cancelling"
          /\ ~IgnoresUpdates(t)
          /\ status \in Terminal
          /\ EndTask(t, status, report)
          /\ canceled' = ContextsAfterEnd(t)
       \/ /\ task[t].status # "cancelling"
          /\ ~IgnoresUpdates(t)
          /\ status \notin Terminal
          /\ task' = [task EXCEPT ![t].status = Stored(status)]
          /\ UNCHANGED <<pathLocks, end, closes, canceled>>
    /\ UNCHANGED <<known, now>>

MarkRunning(t) == Update(t, "running", {})
Complete(t) == Update(t, "completed", {"result"})
Fail(t) == Update(t, "failed", {"error"})

(* Settle, when it returns true. *)
Settle(t) ==
    /\ t \in known
    /\ task[t].status \notin {"cancelling", "cancelled"}
    /\ task' = [task EXCEPT ![t].settled = TRUE]
    /\ UNCHANGED <<known, pathLocks, end, closes, canceled, now>>

(* Cancel, when it returns nil and changes something. *)
FaultyCanCancel(t) ==
    Unfinished(t) /\ task[t].cancellable /\ task[t].status # "cancelling"
CanCancel(t) ==
    /\ Unfinished(t)
    /\ task[t].cancellable
    /\ task[t].status # "cancelling"
    /\ ~task[t].settled

Cancel(t) ==
    /\ CanCancel(t)
    /\ canceled' = ContextsAfterEnd(t)
    /\ \/ /\ task[t].stoppable
          /\ task' = [task EXCEPT ![t].status = "cancelling"]
          /\ UNCHANGED <<pathLocks, end, closes>>
       \/ /\ ~task[t].stoppable
          /\ EndTask(t, "cancelled", {})
    /\ UNCHANGED <<known, now>>

(* Stopped: the worker of a cancelling task has returned. *)
FaultyStopped(t) ==
    /\ t \in known
    /\ EndTask(t, "cancelled", {})
    /\ UNCHANGED <<known, canceled, now>>
Stopped(t) ==
    /\ t \in known
    /\ task[t].status = "cancelling"
    /\ EndTask(t, "cancelled", {})
    /\ UNCHANGED <<known, canceled, now>>

-----------------------------------------------------------------------------
(* The sweeper and the clock *)

(* sweep: one tick of the sweeper removes every task that ended more than  *)
(* TTL ago, and any lock that still points at one.                         *)
FaultyExpired(t) ==
    t \in known /\ IsTerminal(t) /\ ~task[t].subtask /\ now - task[t].completedAt > TTL
Expired(t) == t \in known /\ IsTerminal(t) /\ now - task[t].completedAt > TTL

Sweep ==
    /\ \E t \in known : Expired(t)
    /\ known' = {t \in known : ~Expired(t)}
    /\ pathLocks' = [k \in Keys |->
                        IF \E t \in known : Expired(t) /\ k \in task[t].held /\ pathLocks[k] = t
                        THEN NoTask ELSE pathLocks[k]]
    /\ UNCHANGED <<task, end, closes, canceled, now>>

Tick ==
    /\ now < MaxNow
    /\ now' = now + 1
    /\ UNCHANGED <<known, task, pathLocks, end, closes, canceled>>

(* The calls of handlers and workers. *)
Calls ==
    \/ \E t \in TaskIds, spec \in NewTasks : CreateLocked(t, spec)
    \/ \E spec \in NewTasks : JoinRunning(spec)
    \/ \E t \in TaskIds : MarkRunning(t) \/ Complete(t) \/ Fail(t)
    \/ \E t \in TaskIds : Settle(t) \/ Cancel(t) \/ Stopped(t)

(* The sweeper may run at any time; SweptManager says when it does. *)
Next == Calls \/ Sweep \/ Tick

Spec == Init /\ [][Next]_vars

-----------------------------------------------------------------------------
(* Properties *)

TypeOK ==
    /\ known \in SUBSET TaskIds
    /\ task \in [TaskIds -> Task]
    /\ pathLocks \in [Keys -> TaskIds \union {NoTask}]
    /\ end \in [TaskIds -> EndRecord]
    /\ closes \in [TaskIds -> Nat]
    /\ canceled \in SUBSET TaskIds
    /\ now \in Nat

(* A task that has not ended is in the table and holds each of its keys:   *)
(* no create, release, drop or sweep on behalf of another task takes a     *)
(* key from a running one (releasePathsLocked, createLocked, sweep).       *)
UnfinishedHoldsItsKeys ==
    \A t \in TaskIds : task[t].status \in Live =>
        /\ t \in known
        /\ \A k \in task[t].held : pathLocks[k] = t

(* The keys of a task are free as soon as it has ended, whatever path it   *)
(* ended by (Update, Cancel, Stopped): every lock names an unfinished task *)
(* that holds the key, so ActivePathLockCount counts running work only.    *)
NoStaleLock ==
    \A k \in Keys : pathLocks[k] # NoTask =>
        /\ Unfinished(pathLocks[k])
        /\ k \in task[pathLocks[k]].held

(* A watcher is told the end once and truly: done is closed exactly once,  *)
(* when the end is written (a second close would panic the server), and    *)
(* the end is the one the table shows (closeEndLocked, Watch.End).         *)
WatchTellsTheEnd ==
    \A t \in TaskIds :
        /\ closes[t] = (IF IsTerminal(t) THEN 1 ELSE 0)
        /\ IsTerminal(t) => end[t] = [status |-> task[t].status,
                                   error |-> task[t].report \intersect {"error"}]
        /\ ~IsTerminal(t) => end[t] = NoEnd

(* A cancel and the worker's own end agree, in whatever order they come: a *)
(* task whose worker has passed Settle, and so may have written its        *)
(* answer, never shows as cancelled; a cancelled one carries no error and  *)
(* no result, whatever its worker reported after the cancel; and no worker *)
(* runs on under a live context once its task is over or cancelling        *)
(* (Settle, Cancel, Update).                                               *)
CancelIsClean ==
    \A t \in TaskIds :
        /\ task[t].settled => task[t].status \notin {"cancelling", "cancelled"}
        /\ task[t].status = "cancelled" => task[t].report = {}
        /\ task[t].cancellable /\ task[t].status \in Terminal \union {"cancelling"} => t \in canceled

(* The first end wins: once a task has ended, no later Complete, Fail,     *)
(* MarkRunning, Cancel or Stopped changes its status, time, error, result  *)
(* or what its watchers read.                                              *)
FirstEndWins ==
    [][\A t \in TaskIds : IsTerminal(t) =>
          /\ end'[t] = end[t]
          /\ [task'[t] EXCEPT !.settled = FALSE] = [task[t] EXCEPT !.settled = FALSE]]_vars

(* Only finished tasks leave the table: with a create, the oldest ends of  *)
(* the new task's own class; otherwise, those whose TTL has passed.  And a *)
(* create leaves room, under the cap of its class, for the new task's own  *)
(* end (dropOldestFinishedLocked and its "+ 1", sweep).                    *)
CapDropsOldestOfItsClass ==
    [][/\ \A new \in known' \ known :
            Cardinality(FinishedOf(task'[new].subtask) \intersect known') < MaxTasks
       /\ \A t \in known \ known' :
            /\ IsTerminal(t)
            /\ known' \subseteq known => now - task[t].completedAt > TTL
            /\ \A new \in known' \ known :
                  /\ task'[new].subtask = task[t].subtask
                  /\ \A kept \in known' \intersect FinishedOf(task[t].subtask) :
                        task[t].completedAt <= task[kept].completedAt]_vars

-----------------------------------------------------------------------------
(* The refinement: TaskManager implements TaskTable. *)

OutcomeOf(t) == IF task[t].status \in Live THEN "live" ELSE task[t].status

Promise == INSTANCE TaskTable WITH
    outcome <- [t \in TaskIds |-> OutcomeOf(t)],
    holds <- [t \in TaskIds |-> task[t].held]

(* Every behaviour of the manager keeps the promise of TaskTable. *)
ImplementsTaskTable == Promise!TableSpec

=============================================================================

--------------------------- MODULE MCServerParts ---------------------------
(***************************************************************************)
(* Three parts of rx serve whose goroutines must not wait for ever, in one *)
(* run: the queue of scans, the webhook dispatcher and the swept task      *)
(* manager.  They share no state: part says which of them runs, the others *)
(* stay as they start.                                                     *)
(***************************************************************************)
EXTENDS ScanQueue

CONSTANTS
    Part,       \* the parts checked
    OneCaller,  \* of the queue
    Events,     \* of the dispatcher
    Closers,
    NoEvent, OneEvent, OneCloser,
    Starters,   \* of the task manager
    Stoppers,
    OneStopper, aTask, noTask, aPath, anOp, aChain

VARIABLES
    part,
    hFate, hQueue, hOpen, hClosed, hOnce, hWorker, hCloser, hStopped, hCrash,
    tKnown, tTask, tPathLocks, tEnd, tCloses, tCanceled, tNow,
    tOnce, tStarted, tLoop, tLaunched, tCancel, tAt, tSaw, tCrash

hooksVars ==
    <<hFate, hQueue, hOpen, hClosed, hOnce, hWorker, hCloser, hStopped, hCrash>>
taskVars == <<tKnown, tTask, tPathLocks, tEnd, tCloses, tCanceled, tNow>>
lifeVars == <<tOnce, tStarted, tLoop, tLaunched, tCancel, tAt, tSaw, tCrash>>

Hooks == INSTANCE HookDispatcher WITH
    Workers <- {"w1", "w2"}, QueueDepth <- 2,
    fate <- hFate, queue <- hQueue, open <- hOpen, closed <- hClosed, once <- hOnce,
    worker <- hWorker, closer <- hCloser, stopped <- hStopped, crash <- hCrash

Swept == INSTANCE SweptManager WITH
    TaskIds <- {aTask}, NoTask <- noTask, Paths <- {aPath}, Ops <- {anOp}, ChainKeys <- {aChain},
    MaxTasks <- 1, TTL <- 0, MaxNow <- 2,
    known <- tKnown, task <- tTask, pathLocks <- tPathLocks, end <- tEnd, closes <- tCloses,
    canceled <- tCanceled, now <- tNow,
    once <- tOnce, started <- tStarted, loop <- tLoop, launched <- tLaunched, cancel <- tCancel,
    at <- tAt, saw <- tSaw, crash <- tCrash

ASSUME PartsAssumption == QueueAssumption /\ Hooks!DispatcherAssumption

partsVars == <<part, vars, hooksVars, taskVars, lifeVars>>

-----------------------------------------------------------------------------
PartsInit ==
    /\ part \in Part
    /\ Init /\ Hooks!Init /\ Swept!SweptInit
    /\ part # "queue" => limit = 1

QueueMoves == part = "queue" /\ Next /\ UNCHANGED <<part, hooksVars, taskVars, lifeVars>>
HooksMove == part = "hooks" /\ Hooks!Next /\ UNCHANGED <<part, vars, taskVars, lifeVars>>
TasksMove == part = "tasks" /\ Swept!SweptNext /\ UNCHANGED <<part, vars, hooksVars>>
\* These may come to rest: no more events, the clock's bound.
Rests == part \in {"hooks", "tasks"} /\ UNCHANGED partsVars

PartsNext == QueueMoves \/ HooksMove \/ TasksMove \/ Rests
PartsSpec == PartsInit /\ [][PartsNext]_partsVars

\* The fairness of each part (its module says why), for the part that runs.
QueueFairness ==
    \A c \in Callers :
        /\ SF_vars(part = "queue" /\ TakeToken(c))
        /\ WF_vars(part = "queue" /\ (Acquire(c) \/ SkipScan(c)))
        /\ WF_vars(part = "queue" /\ Enter(c))
        /\ WF_vars(part = "queue" /\ Release(c))
        /\ WF_vars(part = "queue" /\ (TakeOut(c) \/ Unlocked(c) \/ ReturnUncached(c)))
HooksFairness ==
    /\ \A w \in {"w1", "w2"} :
          WF_hooksVars(part = "hooks" /\ (Hooks!Take(w) \/ Hooks!Fire(w) \/ Hooks!Exit(w)))
    /\ \A c \in Closers : /\ WF_hooksVars(part = "hooks" /\ Hooks!CloseQueue(c))
                          /\ WF_hooksVars(part = "hooks" /\ Hooks!CloseStopped(c))
TasksFairness ==
    /\ WF_taskVars(part = "tasks" /\ ~tCrash /\ Swept!Tick)
    /\ WF_lifeVars(part = "tasks" /\ (Swept!Life!SweepStarts \/ Swept!Life!SweepEnds))
    /\ SF_lifeVars(part = "tasks" /\ Swept!Life!Exit)
    /\ \A c \in Starters : WF_lifeVars(part = "tasks" /\ Swept!Life!Launch(c))
    /\ \A c \in Stoppers :
          WF_lifeVars(part = "tasks" /\ (Swept!Life!Select(c) \/ Swept!Life!CloseCancel(c)
                                             \/ Swept!Life!StopReturn(c)))

FairParts == PartsSpec /\ QueueFairness /\ HooksFairness /\ TasksFairness

-----------------------------------------------------------------------------
(* Properties.  QueueInv and FirstComeFirstServed are ScanQueue's own.     *)

\* A caller of Scan that waits gets its turn, or gives up (lock, acquire).  Callers are
\* interchangeable, as events, closers and stoppers are: one stands for all.
EveryWaitEnds == \A c \in OneCaller : WaitEnds(c)

\* What Close waits for has been sent, each accepted event once (hooks/dispatcher.go).
WaitMeansSent == Hooks!AcceptedIsInOnePlace /\ Hooks!WaitMeansSent
\* An accepted event is sent though Close comes right after it, and Close returns.
AcceptedIsSent == \A e \in OneEvent, c \in OneCloser : Hooks!IsSent(e) /\ Hooks!Returns(c)
\* No goroutine sees the flag clear and the channel closed (Close's comment).
NoSendOnClosed == Hooks!NoSendOnClosed

\* After a Stop nothing is swept, a Stop returns, and until then the finished tasks
\* are forgotten in time (tasks/manager.go Start, Stop, sweeperLoop).
SweeperKeepsItsPromises ==
    /\ Swept!NoSweepAfterStop
    /\ \A c \in OneStopper : Swept!Returns(c)
    /\ Swept!FinishedIsForgotten

=============================================================================

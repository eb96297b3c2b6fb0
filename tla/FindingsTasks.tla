--------------------------- MODULE FindingsTasks ---------------------------
(***************************************************************************)
(* The tasks of POST /v1/findings, over a file or over a directory, and of *)
(* POST /v1/index over a directory (internal/webapi: handlers_findings.go, *)
(* folder_tasks.go, run_detached.go; internal/cachefill), composed with    *)
(* the task manager, of which TaskTable says what it promises, and with    *)
(* the queue their scans wait in (ScanQueue).                              *)
(*                                                                         *)
(* A post takes one of the places of unfinished scans, creates its task    *)
(* and starts a worker, or joins or is refused.  A worker lists the        *)
(* directory and fills one file after another; DELETE ends a task over a   *)
(* file at once and leaves one over a directory cancelling until its       *)
(* worker is gone.  Post p makes task p with worker p.                     *)
(***************************************************************************)
EXTENDS TaskTable, Integers, Sequences, FiniteSets

CONSTANTS
    Posts,      \* POST requests, and so their tasks and workers
    Asked,      \* [Posts -> [op, dir, path, files, force]]: what they may ask
    Settings,   \* <<capacity, usesCache>>
    NoCaller, Files, NoFile, Locks, NoLock, Limits      \* of ScanQueue

VARIABLES
    post,       \* [Posts -> [at, job, of]] of: the task a post found or joined
    cancelling, \* live tasks that DELETE has cancelled
    stopped,    \* tasks whose context is done
    settled,    \* tasks past the point where a cancel is refused
    capacity,   \* cap(Server.scanPlaces): maxUnfinishedScans
    placed,     \* who holds one of its places
    worker,     \* [Posts -> [at, todo, result]]
    cached,     \* <<op, file>> with a current entry
    wrote,      \* [Posts -> what its worker has written]
    usesCache,  \* the server's findings cache is on
    at, file, mine, table, refs, token, limit, running, waiters, closed

managerVars == <<tableVars, cancelling, stopped, settled>>
queueVars == <<at, file, mine, table, refs, token, limit, running, waiters, closed>>
settings == <<capacity, usesCache>>
vars == <<managerVars, post, placed, worker, cached, wrote, settings, queueVars>>

Q == INSTANCE ScanQueue WITH Callers <- Posts

\* A path leads to a file or to a directory all the while; POST /v1/index
\* makes these tasks for directories only.
ASSUME TasksAssumption ==
    /\ Q!QueueAssumption
    /\ Posts \subseteq TaskIds
    /\ \A jobs \in Asked, p \in Posts :
          /\ jobs[p].op \in {"findings", "index"}
          /\ jobs[p].dir \in BOOLEAN /\ jobs[p].force \in BOOLEAN
          /\ jobs[p].files \in Seq(Files)
          /\ ~jobs[p].dir => jobs[p].op = "findings" /\ jobs[p].files # <<>>
          /\ \A q \in Posts : jobs[p].path = jobs[q].path => jobs[p].dir = jobs[q].dir
    /\ Settings \subseteq Nat \X BOOLEAN

Key(job) == <<job.op, job.path>>
Idle == [at |-> "none", todo |-> <<>>, result |-> "none"]

Init ==
    /\ TableInit
    /\ \E jobs \in Asked : post = [p \in Posts |-> [at |-> "new", job |-> jobs[p], of |-> {}]]
    /\ cancelling = {} /\ stopped = {} /\ settled = {}
    /\ \E s \in Settings : capacity = s[1] /\ usesCache = s[2]
    /\ placed = {}
    /\ worker = [p \in Posts |-> Idle]
    /\ cached \in {{}} \union {{<<"findings", f>>} : f \in Files}
    /\ wrote = [p \in Posts |-> {}]
    /\ Q!Init

-----------------------------------------------------------------------------
(* The task manager's calls, each under its mutex.                         *)

\* Complete, Fail: the first end wins, and a cancelling task ends cancelled.
Ends_(t, e) ==
    IF outcome[t] = "live"
    THEN /\ End(t, IF t \in cancelling THEN "cancelled" ELSE e)
         /\ cancelling' = cancelling \ {t}
         /\ stopped' = stopped \union {t}
    ELSE UNCHANGED <<tableVars, cancelling, stopped>>

\* Settle refuses a task that is cancelled.
MaySettle(t) == outcome[t] # "cancelled" /\ t \notin cancelling
Settle(t) ==
    /\ settled' = IF MaySettle(t) THEN settled \union {t} ELSE settled
    /\ UNCHANGED <<tableVars, cancelling, stopped>>

\* Stopped: the worker of a cancelling task has returned.
StoppedEnds(t) == t \in cancelling

\* DELETE (Manager.Cancel): not for a task that has ended or settled.
Delete(t) ==
    /\ outcome[t] = "live" /\ t \notin cancelling /\ t \notin settled
    /\ stopped' = stopped \union {t}
    /\ IF post[t].job.dir
       THEN cancelling' = cancelling \union {t} /\ UNCHANGED tableVars
       ELSE End(t, "cancelled") /\ UNCHANGED cancelling
    /\ UNCHANGED <<settled, post, placed, worker, cached, wrote, settings, queueVars>>

-----------------------------------------------------------------------------
(* A post (startScanTask, startIndexFolder).                               *)

Answers(p, answer, of) == post' = [post EXCEPT ![p].at = answer, ![p].of = of]
AnswerOf(holders) == IF holders \subseteq cancelling THEN "busy" ELSE "joined"

\* The select on Server.scanPlaces: without a place, only a task that is
\* there is joined.
TakePlace(p) ==
    LET holders == HoldersOf(Key(post[p].job))
    IN  /\ post[p].at = "new" /\ post[p].job.op = "findings"
        /\ \/ /\ Cardinality(placed) < capacity
              /\ placed' = placed \union {p}
              /\ post' = [post EXCEPT ![p].at = "placed"]
           \/ /\ Cardinality(placed) = capacity
              /\ IF holders = {} THEN Answers(p, "full", {}) ELSE Answers(p, AnswerOf(holders), holders)
              /\ UNCHANGED placed
        /\ UNCHANGED <<managerVars, worker, cached, wrote, settings, queueVars>>

\* The task is created and its worker started, or a task is found.
CreateTask(p) ==
    LET job == post[p].job
        holders == HoldersOf(Key(job))
    IN  /\ post[p].at = IF job.op = "findings" THEN "placed" ELSE "new"
        /\ IF holders = {}
           THEN /\ Start(p, {Key(job)})
                /\ worker' = [worker EXCEPT ![p].at = "start", ![p].todo = job.files]
                /\ Answers(p, "started", {p})
           ELSE /\ IF job.op = "findings"
                   THEN post' = [post EXCEPT ![p].at = "found", ![p].of = holders]
                   ELSE Answers(p, "busy", holders)
                /\ UNCHANGED <<tableVars, worker>>
        /\ UNCHANGED <<cancelling, stopped, settled, placed, cached, wrote, settings, queueVars>>

GiveBack(p) ==
    /\ post[p].at = "found"
    /\ placed' = placed \ {p}
    /\ post' = [post EXCEPT ![p].at = "asking"]
    /\ UNCHANGED <<managerVars, worker, cached, wrote, settings, queueVars>>

\* The found task is read again, by then perhaps over.
Ask(p) ==
    /\ post[p].at = "asking"
    /\ Answers(p, AnswerOf(post[p].of), post[p].of)
    /\ UNCHANGED <<managerVars, placed, worker, cached, wrote, settings, queueVars>>

-----------------------------------------------------------------------------
(* A worker (runFindingsScan, runFindingsFolder, runIndexFolder, Each).    *)

Goes(p, step) == worker' = [worker EXCEPT ![p].at = step]
Results(p, result) == worker' = [worker EXCEPT ![p].at = "filled", ![p].result = result]

\* A directory is listed; one that cannot be fails the task.
ListFolder(p) ==
    /\ worker[p].at = "start"
    /\ \/ /\ Goes(p, IF post[p].job.dir THEN "each" ELSE "fill")
          /\ UNCHANGED managerVars
       \/ /\ post[p].job.dir
          /\ Ends_(p, "failed")
          /\ Goes(p, "leave")
          /\ UNCHANGED settled
    /\ UNCHANGED <<post, placed, cached, wrote, settings, queueVars>>

\* Each, between two files: a cancel, the end, or the next file.
Each(p) ==
    /\ worker[p].at = "each"
    /\ \/ /\ p \in stopped
          /\ Goes(p, "leave")
          /\ UNCHANGED managerVars
       \/ /\ p \notin stopped /\ worker[p].todo # <<>>
          /\ Goes(p, "fill")
          /\ UNCHANGED managerVars
       \/ /\ p \notin stopped /\ worker[p].todo = <<>>
          /\ Goes(p, "complete")
          /\ UNCHANGED managerVars
    /\ UNCHANGED <<post, placed, cached, wrote, settings, queueVars>>

\* A cancel may come between the last check and this.
CompleteFolder(p) ==
    /\ worker[p].at = "complete"
    /\ Ends_(p, "completed")
    /\ Goes(p, "leave")
    /\ UNCHANGED <<settled, post, placed, cached, wrote, settings, queueVars>>

Target(p) == Head(worker[p].todo)

\* ScanFile, IndexFile: a file that cannot be read, or is not text.
PassOver(p) ==
    /\ worker[p].at = "fill" /\ post[p].job.dir
    /\ Results(p, "skipped")
    /\ UNCHANGED <<managerVars, post, placed, cached, wrote, settings, queueVars>>

(* IndexFile: a current index is kept; a build ends at a cancel, which is  *)
(* asked again before the index is stored.                                 *)
StartBuild(p) ==
    /\ worker[p].at = "fill" /\ post[p].job.op = "index"
    /\ IF <<"index", Target(p)>> \in cached /\ ~post[p].job.force
       THEN Results(p, "current") ELSE Goes(p, "build")
    /\ UNCHANGED <<managerVars, post, placed, cached, wrote, settings, queueVars>>

EndBuild(p) ==
    /\ worker[p].at = "build"
    /\ \/ p \notin stopped /\ Goes(p, "save")
       \/ Results(p, "failed")
    /\ UNCHANGED <<managerVars, post, placed, cached, wrote, settings, queueVars>>

SaveIndex(p) ==
    /\ worker[p].at = "save"
    /\ \/ /\ cached' = cached \union {<<"index", Target(p)>>}
          /\ wrote' = [wrote EXCEPT ![p] = @ \union {Target(p)}]
          /\ Results(p, "done")
       \/ Results(p, "failed") /\ UNCHANGED <<cached, wrote>>
    /\ UNCHANGED <<managerVars, post, placed, settings, queueVars>>

-----------------------------------------------------------------------------
(* findings.Scan: the file's lock, its cache, a slot, the scan, the write. *)

StartScan(p) ==
    /\ worker[p].at = "fill" /\ post[p].job.op = "findings"
    /\ Goes(p, "scan")
    /\ IF usesCache THEN Q!Call(p, Target(p)) ELSE Q!CallUncached(p)
    /\ UNCHANGED <<managerVars, post, placed, cached, wrote, settings>>

GetLock(p) == worker[p].at = "scan" /\ Q!TakeToken(p) /\ UNCHANGED worker

GiveUpLock(p) == worker[p].at = "scan" /\ p \in stopped /\ Q!CancelLocking(p) /\ Results(p, "failed")

\* The faulty form looks the entry up under the task's path.
FaultyNeedsScan(p) == ~usesCache \/ post[p].job.force \/ <<"findings", post[p].job.path>> \notin cached
NeedsScan(p) == ~usesCache \/ post[p].job.force \/ <<"findings", Target(p)>> \notin cached

\* The cache is read under the file's lock.
ReadCache(p) ==
    /\ worker[p].at = "scan" /\ worker[p].result = "none"
    /\ \/ Q!Acquire(p) /\ NeedsScan(p) /\ UNCHANGED worker
       \/ /\ Q!SkipScan(p)
          /\ \E result \in {"failed"} \union (IF NeedsScan(p) THEN {} ELSE {"current"}) :
                worker' = [worker EXCEPT ![p].result = result]

GetSlot(p) == worker[p].at = "scan" /\ Q!Enter(p) /\ UNCHANGED worker

GiveUpSlot(p) ==
    /\ worker[p].at = "scan" /\ p \in stopped
    /\ Q!CancelWaiting(p)
    /\ worker' = [worker EXCEPT ![p].result = "failed"]

\* The scan ends whole, with an error, which a cancel is, or in a panic.
EndScan(p) ==
    /\ worker[p].at = "scan"
    /\ Q!Release(p)
    /\ \E result \in {"whole", "failed", "panic"} : worker' = [worker EXCEPT ![p].result = result]

InQueue(p) ==
    /\ GetLock(p) \/ GiveUpLock(p) \/ ReadCache(p) \/ GetSlot(p) \/ GiveUpSlot(p) \/ EndScan(p)
    /\ UNCHANGED <<managerVars, post, placed, cached, wrote, settings>>

\* After the scan: a cancel writes nothing, and a task over a file settles
\* (MayWrite) or was cancelled.  The faulty form asks the context alone.
FaultyDecide(p) ==
    /\ worker[p].at = "scan" /\ at[p] = "scanned" /\ worker[p].result = "whole"
    /\ worker' = [worker EXCEPT ![p].result = IF p \in stopped THEN "failed" ELSE "write"]
    /\ UNCHANGED <<managerVars, post, placed, cached, wrote, settings, queueVars>>

Decide(p) ==
    /\ worker[p].at = "scan" /\ at[p] = "scanned" /\ worker[p].result = "whole"
    /\ IF usesCache /\ p \notin stopped /\ ~post[p].job.dir
       THEN Settle(p) ELSE UNCHANGED managerVars
    /\ worker' = [worker EXCEPT ![p].result =
            IF ~usesCache THEN "done"
            ELSE IF p \in stopped \/ (~post[p].job.dir /\ ~MaySettle(p)) THEN "failed"
            ELSE "write"]
    /\ UNCHANGED <<post, placed, cached, wrote, settings, queueVars>>

\* commit; nothing is written for a file that changed, or on an error, and
\* the answer is given all the same.
Commit(p) ==
    /\ worker[p].at = "scan" /\ worker[p].result = "write"
    /\ \/ /\ cached' = cached \union {<<"findings", Target(p)>>}
          /\ wrote' = [wrote EXCEPT ![p] = @ \union {Target(p)}]
       \/ UNCHANGED <<cached, wrote>>
    /\ worker' = [worker EXCEPT ![p].result = "done"]
    /\ UNCHANGED <<managerVars, post, placed, settings, queueVars>>

\* The deferred unlock.
Unlock(p) ==
    /\ worker[p].at = "scan" /\ worker[p].result \in {"done", "current", "failed", "panic"}
    /\ \/ Q!TakeOut(p) /\ UNCHANGED worker
       \/ (Q!Unlocked(p) \/ Q!ReturnUncached(p)) /\ Goes(p, "filled")
    /\ UNCHANGED <<managerVars, post, placed, cached, wrote, settings>>

-----------------------------------------------------------------------------
\* Each, after a file: a cancel ends the run, else the file is counted.
Record(p) ==
    /\ worker[p].at = "filled" /\ post[p].job.dir
    /\ worker' = [worker EXCEPT ![p] =
            IF p \in stopped \/ @.result = "panic" THEN [@ EXCEPT !.at = "leave"]
            ELSE [at |-> "each", todo |-> Tail(@.todo), result |-> "none"]]
    /\ UNCHANGED <<managerVars, post, placed, cached, wrote, settings, queueVars>>

\* runFindingsScan, after the scan: an answer settles the task, once more.
SettleAnswer(p) ==
    /\ worker[p].at = "filled" /\ ~post[p].job.dir
    /\ IF worker[p].result \in {"done", "current"}
       THEN Settle(p) /\ Goes(p, IF MaySettle(p) THEN "answer" ELSE "leave")
       ELSE UNCHANGED managerVars /\ Goes(p, IF worker[p].result = "panic" THEN "leave" ELSE "report")
    /\ UNCHANGED <<post, placed, cached, wrote, settings, queueVars>>

Answer(p) ==
    /\ worker[p].at = "answer"
    /\ \E e \in {"completed", "failed"} : Ends_(p, e)
    /\ Goes(p, "leave")
    /\ UNCHANGED <<settled, post, placed, cached, wrote, settings, queueVars>>

\* A failed scan: a cancel's error is left as Cancel left the task.
Report(p) ==
    /\ worker[p].at = "report"
    /\ IF p \in stopped THEN UNCHANGED <<tableVars, cancelling, stopped>> ELSE Ends_(p, "failed")
    /\ Goes(p, "leave")
    /\ UNCHANGED <<settled, post, placed, cached, wrote, settings, queueVars>>

\* The deferred calls: the place is given back, then Stopped, then a panic
\* fails the task (runDetached).
Leave(p) ==
    /\ worker[p].at = "leave"
    /\ placed' = placed \ {p}
    /\ Goes(p, "left")
    /\ UNCHANGED <<managerVars, post, cached, wrote, settings, queueVars>>

FaultyReturn(p) ==
    /\ worker[p].at = "left"
    /\ UNCHANGED <<tableVars, cancelling, stopped>>
    /\ Goes(p, IF worker[p].result = "panic" THEN "recover" ELSE "gone")
    /\ UNCHANGED <<settled, post, placed, cached, wrote, settings, queueVars>>

Return(p) ==
    /\ worker[p].at = "left"
    /\ IF StoppedEnds(p) THEN Ends_(p, "cancelled") ELSE UNCHANGED <<tableVars, cancelling, stopped>>
    /\ Goes(p, IF worker[p].result = "panic" THEN "recover" ELSE "gone")
    /\ UNCHANGED <<settled, post, placed, cached, wrote, settings, queueVars>>

Recover(p) ==
    /\ worker[p].at = "recover"
    /\ Ends_(p, "failed")
    /\ Goes(p, "gone")
    /\ UNCHANGED <<settled, post, placed, cached, wrote, settings, queueVars>>

-----------------------------------------------------------------------------
Handler(p) == TakePlace(p) \/ CreateTask(p) \/ GiveBack(p) \/ Ask(p)

Work(p) ==
    \/ ListFolder(p) \/ Each(p) \/ CompleteFolder(p) \/ PassOver(p)
    \/ StartBuild(p) \/ EndBuild(p) \/ SaveIndex(p)
    \/ StartScan(p) \/ InQueue(p) \/ Decide(p) \/ Commit(p) \/ Unlock(p)
    \/ Record(p) \/ SettleAnswer(p) \/ Answer(p) \/ Report(p) \/ Leave(p) \/ Return(p) \/ Recover(p)

Next == \E p \in Posts : Handler(p) \/ Work(p) \/ Delete(p)

Spec == Init /\ [][Next]_vars

\* Every goroutine that can go on does; builds and scans end; a channel lets
\* its blocked senders in first come first served.  A cancel need never
\* come.
FairSpec ==
    /\ Spec
    /\ \A p \in Posts :
          /\ WF_vars(Handler(p))
          /\ WF_vars(Work(p))
          /\ SF_vars(GetLock(p) /\ UNCHANGED <<managerVars, post, placed, cached, wrote, settings>>)

-----------------------------------------------------------------------------
(* Properties                                                              *)

\* A task over a file never ends cancelled with entries on disk
\* (runFindingsScan: MayWrite, Settle): whether a cancel comes before, during
\* or after the scan, either it is refused or nothing was written.
CancelledWroteNothing ==
    \A p \in Posts : outcome[p] = "cancelled" /\ ~post[p].job.dir => wrote[p] = {}

\* A cancel followed by a new post never runs two workers for one directory
\* (CreateStoppable, Stopped), and a worker writes only while its task is
\* live, so nothing appears once the task shows its end.
Working(p) == worker[p].at \notin {"none", "leave", "left", "recover", "gone"}
OneWorkerPerDirectory ==
    /\ \A p, q \in Posts : p # q /\ Working(p) /\ Working(q) /\ Key(post[p].job) = Key(post[q].job)
                            => ~post[p].job.dir
    /\ \A p \in Posts : worker[p].result = "write" \/ worker[p].at = "save" => outcome[p] = "live"

\* A file whose findings are cached is not scanned again: two tasks that
\* reach one file, one of them over its directory, write it once (scan: the
\* lock is taken before the cache is read).
NoScanIsRepeated ==
    [][\A p \in Posts : wrote'[p] # wrote[p] /\ post[p].job.op = "findings" /\ ~post[p].job.force
        => <<"findings", Target(p)>> \notin cached]_vars

\* No two workers do one thing: neither beside each other nor after each other.
NoWorkIsDoneTwice == []OneWorkerPerDirectory /\ NoScanIsRepeated

\* Every task ends and gives its place back, however its worker ends: an
\* error, a cancel while it waits, a panic (startScanTask, runDetached).
EveryTaskEnds ==
    \A p \in Posts : outcome[p] = "live" ~> outcome[p] \in Ends /\ p \notin placed

=============================================================================

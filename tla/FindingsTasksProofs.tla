------------------------ MODULE FindingsTasksProofs ------------------------
(***************************************************************************)
(* Proofs about FindingsTasks, for any posts, directories and files.  What *)
(* the scans need of the queue is what ScanQueueProofs proves of it.       *)
(***************************************************************************)
EXTENDS FindingsTasks, TLAPS

QP == INSTANCE ScanQueueProofs WITH Callers <- Posts

-----------------------------------------------------------------------------
(* The queue *)

LEMMA QueueAssumed == QP!QueueAssumption
BY TasksAssumption DEF Q!QueueAssumption, QP!QueueAssumption, Q!IsFiniteSet, QP!IsFiniteSet

LEMMA QueueStarts == ASSUME Q!Init PROVE QP!Inv
<1>1. QP!Init
  BY DEF Q!Init, QP!Init
<1> QED
  BY <1>1, QueueAssumed, QP!InitInv

LEMMA QueueMoves == ASSUME QP!Inv, Q!Next PROVE QP!Inv'
<1>1. QP!Next
  BY DEF Q!Next, QP!Next, Q!CallUncached, QP!CallUncached, Q!Call, QP!Call, Q!TakeToken, QP!TakeToken,
     Q!Dropped, QP!Dropped, Q!Drop, QP!Drop, Q!CancelLocking, QP!CancelLocking, Q!TakeOut, QP!TakeOut,
     Q!Unlocked, QP!Unlocked, Q!ReturnUncached, QP!ReturnUncached, Q!SkipScan, QP!SkipScan, Q!Free, QP!Free,
     Q!Admit, QP!Admit, Q!MayEnter, QP!MayEnter, Q!Acquire, QP!Acquire, Q!Enter, QP!Enter, Q!GivenBack, QP!GivenBack,
     Q!Place, QP!Place, Q!Without, QP!Without, Q!CancelWaiting, QP!CancelWaiting, Q!Release, QP!Release,
     Q!SetLimit, QP!SetLimit, Q!Go, QP!Go, Q!lockVars, QP!lockVars, Q!slotVars, QP!slotVars
<1> QED
  BY <1>1, QueueAssumed, QP!StepInv

LEMMA QueueRests == ASSUME QP!Inv, UNCHANGED queueVars PROVE QP!Inv'
<1>1. UNCHANGED QP!vars
  BY DEF queueVars, QP!vars, QP!lockVars, QP!slotVars
<1> QED
  BY <1>1, QueueAssumed, QP!StepInv

\* Two posts never have the lock of one file.
LEMMA QueueExcludes ==
    ASSUME QP!Inv
    PROVE  /\ at \in [Posts -> QP!Steps] /\ file \in [Posts -> Files \union {NoFile}]
           /\ \A p, q \in Posts :
                /\ file[p] = file[q] /\ file[p] # NoFile
                /\ at[p] \in {"locked", "waiting", "scanning", "scanned"}
                /\ at[q] \in {"locked", "waiting", "scanning", "scanned"}
                => p = q
<1>1. QP!QueueInv
  BY QueueAssumed, QP!InvGivesQueueInv
<1> QED
  BY <1>1 DEF QP!QueueInv, QP!TypeOK, QP!OneScanPerFile, QP!HasLock

-----------------------------------------------------------------------------
(* The inductive invariant *)

PostSteps == {"new", "placed", "found", "asking", "full", "joined", "busy", "started"}
WorkerSteps ==
    {"none", "start", "each", "fill", "build", "save", "scan", "filled", "complete", "answer",
     "report", "leave", "left", "recover", "gone"}
WorkResults == {"none", "skipped", "current", "failed", "done", "whole", "panic", "write"}
Jobs == {jobs[p] : jobs \in Asked, p \in Posts}

Types ==
    /\ outcome \in [TaskIds -> Outcomes]
    /\ holds = [t \in TaskIds |-> holds[t]]
    /\ post \in [Posts -> [at : PostSteps, job : Jobs, of : SUBSET TaskIds]]
    /\ \E jobs \in Asked : \A q \in Posts : post[q].job = jobs[q]
    /\ worker \in [Posts -> [at : WorkerSteps, todo : Seq(Files), result : WorkResults]]
    /\ wrote \in [Posts -> SUBSET Files]
    /\ usesCache \in BOOLEAN

\* What the worker has left to fill; who builds an index.
Flow(q) ==
    LET w == worker[q]
        job == post[q].job
    IN  /\ \/ w.at \in {"fill", "build", "save", "scan"}
           \/ w.at = "filled" /\ job.dir
           \/ w.at = "start" /\ ~job.dir
           => w.todo # <<>>
        /\ w.at \in {"build", "save"} => job.op = "index"

\* The worker's place in the queue.
Linked(q) ==
    /\ worker[q].at # "scan" => at[q] = "idle"
    /\ worker[q].at = "scan" /\ usesCache => file[q] = Target(q)
    /\ worker[q].result = "write" => worker[q].at = "scan" /\ at[q] = "scanned" /\ usesCache

\* From the read of the cache, under the lock, to the write.
Scans(q) ==
    /\ worker[q].at = "scan" /\ usesCache
    /\ at[q] \in {"waiting", "scanning"} \/ (at[q] = "scanned" /\ worker[q].result \in {"whole", "write"})
Missed(q) == Scans(q) /\ ~post[q].job.force => <<"findings", Target(q)>> \notin cached

\* The worker and its task: over a directory the task is live for as long as
\* the worker works, over a file it may be cancelled, until it settles.
Running(q) ==
    LET job == post[q].job
    IN  /\ worker[q].at # "none" => outcome[q] # "unused"
        /\ Working(q) => outcome[q] \in {"live", "cancelled"}
        /\ Working(q) /\ job.dir => outcome[q] = "live" /\ Key(job) \in holds[q]
        /\ q \in cancelling => job.dir
        /\ ~job.dir /\ outcome[q] = "cancelled" => q \notin settled
        /\ ~job.dir /\ (worker[q].result = "write" \/ wrote[q] # {}) => q \in settled

PostInv(q) == Flow(q) /\ Linked(q) /\ Missed(q) /\ Running(q)

OneHolder ==
    \A s, t \in TaskIds : \A k \in holds[s] \intersect holds[t] :
        outcome[s] = "live" /\ outcome[t] = "live" => s = t

Inv == Types /\ QP!Inv /\ OneHolder /\ \A q \in Posts : PostInv(q)

-----------------------------------------------------------------------------
(* Jobs and types *)

LEMMA JobFacts ==
    ASSUME Types
    PROVE  /\ \A q \in Posts :
                /\ q \in TaskIds
                /\ post[q].job \in Jobs /\ post[q].job.op \in {"findings", "index"} /\ post[q].job.dir \in BOOLEAN
                /\ post[q].job.force \in BOOLEAN /\ post[q].job.files \in Seq(Files)
                /\ ~post[q].job.dir => post[q].job.op = "findings" /\ post[q].job.files # <<>>
           /\ \A q, r \in Posts :
                Key(post[q].job) = Key(post[r].job) => post[q].job.dir = post[r].job.dir
<1>1. PICK jobs \in Asked : \A q \in Posts : post[q].job = jobs[q]
  BY DEF Types
<1>2. ASSUME NEW q \in Posts
      PROVE  /\ q \in TaskIds
             /\ post[q].job \in Jobs /\ post[q].job.op \in {"findings", "index"} /\ post[q].job.dir \in BOOLEAN
             /\ post[q].job.force \in BOOLEAN /\ post[q].job.files \in Seq(Files)
             /\ ~post[q].job.dir => post[q].job.op = "findings" /\ post[q].job.files # <<>>
  <2>1. post[q].job = jobs[q]
    BY <1>1
  <2>2. jobs[q] \in Jobs
    BY DEF Jobs
  <2> QED
    BY <2>1, <2>2, TasksAssumption
<1>3. ASSUME NEW q \in Posts, NEW r \in Posts, Key(post[q].job) = Key(post[r].job)
      PROVE  post[q].job.dir = post[r].job.dir
  <2>1. post[q].job = jobs[q] /\ post[r].job = jobs[r]
    BY <1>1
  <2>2. jobs[q].path = jobs[r].path
    BY <1>3, <2>1 DEF Key
  <2> QED
    BY <2>1, <2>2, TasksAssumption
<1> QED
  BY <1>2, <1>3

\* Where the queue leaves the other posts.
InQueueOf(p) ==
    \/ Q!CallUncached(p) \/ (\E f \in Files : Q!Call(p, f)) \/ Q!TakeToken(p) \/ Q!CancelLocking(p) \/ Q!SkipScan(p)
    \/ Q!Acquire(p) \/ Q!Enter(p) \/ Q!CancelWaiting(p) \/ Q!Release(p)
    \/ Q!TakeOut(p) \/ Q!Unlocked(p) \/ Q!ReturnUncached(p)

LEMMA QueueSteps == ASSUME QP!Inv, NEW p \in Posts, InQueueOf(p) PROVE QP!Inv'
<1>1. Q!Next
  BY DEF Q!Next, InQueueOf
<1> QED
  BY <1>1, QueueMoves

LEMMA QueueLocal ==
    ASSUME QP!Inv, NEW p \in Posts, InQueueOf(p)
    PROVE  /\ \A q \in Posts \ {p} : at'[q] = at[q] /\ file'[q] = file[q]
           /\ Q!CallUncached(p) => at'[p] = "locked" /\ at[p] = "idle"
           /\ \A f \in Files : Q!Call(p, f) => at'[p] = "locking" /\ file'[p] = f
           /\ Q!TakeToken(p) => at'[p] = "locked" /\ file' = file
           /\ Q!CancelLocking(p) \/ Q!Unlocked(p) \/ Q!ReturnUncached(p) => at'[p] = "idle"
           /\ Q!SkipScan(p) => at[p] = "locked" /\ at'[p] = "scanned" /\ file' = file
           /\ Q!Acquire(p) => at[p] = "locked" /\ at'[p] \in {"waiting", "scanning"} /\ file' = file
           /\ Q!Enter(p) => at[p] = "waiting" /\ at'[p] = "scanning" /\ file' = file
           /\ Q!CancelWaiting(p) => at[p] = "waiting" /\ at'[p] = "scanned" /\ file' = file
           /\ Q!Release(p) => at[p] = "scanning" /\ at'[p] = "scanned" /\ file' = file
           /\ Q!TakeOut(p) => at[p] = "scanned" /\ at'[p] = "unlocked" /\ file' = file
<1>1. at \in [Posts -> QP!Steps] /\ file \in [Posts -> Files \union {NoFile}]
  BY QueueExcludes
<1> QED
  BY <1>1 DEF InQueueOf, Q!CallUncached, Q!Call, Q!TakeToken, Q!CancelLocking, Q!Unlocked, Q!ReturnUncached,
     Q!SkipScan, Q!Acquire, Q!Enter, Q!CancelWaiting, Q!Release, Q!TakeOut, Q!Drop, Q!Go

LEMMA TargetTypes ==
    ASSUME Types, NEW p \in Posts, worker[p].todo # <<>>
    PROVE  Target(p) \in Files /\ Tail(worker[p].todo) \in Seq(Files)
BY DEF Types, Target

-----------------------------------------------------------------------------
(* What a step of one post leaves alone *)

Step(p) == Handler(p) \/ Work(p) \/ Delete(p)

\* What the step of p leaves as it is, for the other posts and for p.
Apart(p) ==
    /\ \A q \in Posts \ {p} :
          /\ worker'[q] = worker[q] /\ post'[q] = post[q]
          /\ outcome'[q] = outcome[q] /\ holds'[q] = holds[q]
          /\ (q \in cancelling') = (q \in cancelling) /\ (q \in settled') = (q \in settled)
          /\ wrote'[q] = wrote[q] /\ at'[q] = at[q] /\ file'[q] = file[q]
    /\ \A q \in Posts : post'[q].job = post[q].job
    /\ UNCHANGED usesCache

\* The same for the task of p alone.
TaskApart(p) ==
    /\ \A t \in TaskIds \ {p} : outcome'[t] = outcome[t] /\ holds'[t] = holds[t]
    /\ \A t \in TaskIds \ {p} : (t \in cancelling') = (t \in cancelling) /\ (t \in settled') = (t \in settled)
    /\ outcome' \in [TaskIds -> Outcomes] /\ holds' = [t \in TaskIds |-> holds'[t]]

LEMMA EndsTask ==
    ASSUME Types, NEW p \in Posts, NEW e \in Ends, Ends_(p, e), UNCHANGED settled
    PROVE  /\ TaskApart(p)
           /\ outcome'[p] # "live" /\ (outcome[p] # "unused" => outcome'[p] # "unused")
           /\ outcome'[p] = "cancelled" => outcome[p] = "cancelled" \/ e = "cancelled" \/ p \in cancelling
           /\ cancelling' \subseteq cancelling /\ holds' = holds
<1>1. p \in TaskIds
  BY JobFacts
<1>2. CASE outcome[p] = "live"
  <2> DEFINE r == IF p \in cancelling THEN "cancelled" ELSE e
  <2>1. /\ outcome' = [outcome EXCEPT ![p] = r] /\ holds' = holds
        /\ cancelling' = cancelling \ {p}
    BY <1>2 DEF Ends_, End
  <2>2. r \in Outcomes \ {"live", "unused"}
    BY DEF Outcomes, Ends
  <2>3. outcome' \in [TaskIds -> Outcomes] /\ outcome'[p] = r /\ \A t \in TaskIds \ {p} : outcome'[t] = outcome[t]
    BY <1>1, <2>1, <2>2 DEF Types
  <2> QED
    BY <2>1, <2>2, <2>3 DEF Types, TaskApart
<1>3. CASE outcome[p] # "live"
  BY <1>1, <1>3 DEF Types, Ends_, TaskApart, tableVars
<1> QED
  BY <1>2, <1>3

LEMMA ManagerRests ==
    ASSUME Types, NEW p \in Posts, UNCHANGED managerVars
    PROVE  TaskApart(p) /\ UNCHANGED <<outcome, holds, cancelling, stopped, settled>>
BY DEF Types, managerVars, tableVars, TaskApart

LEMMA SettlesTask ==
    ASSUME Types, NEW p \in Posts, Settle(p)
    PROVE  TaskApart(p) /\ UNCHANGED <<outcome, holds, cancelling>>
           /\ (p \in settled' => p \in settled \/ MaySettle(p)) /\ settled \subseteq settled'
BY DEF Types, Settle, MaySettle, tableVars, TaskApart

\* Records of the worker of p.
LEMMA WorkerTypes ==
    ASSUME Types, NEW p \in Posts,
           \/ \E w \in [at : WorkerSteps, todo : Seq(Files), result : WorkResults] : worker' = [worker EXCEPT ![p] = w]
           \/ UNCHANGED worker
    PROVE  /\ worker' \in [Posts -> [at : WorkerSteps, todo : Seq(Files), result : WorkResults]]
           /\ \A q \in Posts \ {p} : worker'[q] = worker[q]
BY DEF Types

LEMMA WorkerGoes ==
    ASSUME Types, NEW p \in Posts, NEW step \in WorkerSteps, worker' = [worker EXCEPT ![p].at = step]
    PROVE  /\ worker' \in [Posts -> [at : WorkerSteps, todo : Seq(Files), result : WorkResults]]
           /\ \A q \in Posts \ {p} : worker'[q] = worker[q]
           /\ worker'[p].at = step /\ worker'[p].todo = worker[p].todo /\ worker'[p].result = worker[p].result
BY DEF Types

LEMMA WorkerResults ==
    ASSUME Types, NEW p \in Posts, NEW result \in WorkResults, worker' = [worker EXCEPT ![p].result = result]
    PROVE  /\ worker' \in [Posts -> [at : WorkerSteps, todo : Seq(Files), result : WorkResults]]
           /\ \A q \in Posts \ {p} : worker'[q] = worker[q]
           /\ worker'[p].at = worker[p].at /\ worker'[p].todo = worker[p].todo /\ worker'[p].result = result
BY DEF Types

LEMMA WorkerFills ==
    ASSUME Types, NEW p \in Posts, NEW result \in WorkResults, Results(p, result)
    PROVE  /\ worker' \in [Posts -> [at : WorkerSteps, todo : Seq(Files), result : WorkResults]]
           /\ \A q \in Posts \ {p} : worker'[q] = worker[q]
           /\ worker'[p].at = "filled" /\ worker'[p].todo = worker[p].todo /\ worker'[p].result = result
<1> DEFINE OneWorker == [at : WorkerSteps, todo : Seq(Files), result : WorkResults]
           moved == [worker EXCEPT ![p].at = "filled"]
<1>1. /\ moved \in [Posts -> OneWorker]
      /\ \A q \in Posts \ {p} : moved[q] = worker[q]
      /\ moved[p].at = "filled" /\ moved[p].todo = worker[p].todo /\ moved[p].result = worker[p].result
  BY DEF Types, WorkerSteps
<1>2. worker' = [moved EXCEPT ![p].result = result]
  BY DEF Results
<1> HIDE DEF moved
<1> QED
  BY <1>1, <1>2

-----------------------------------------------------------------------------
(* A step keeps the invariant when it does this *)

\* Entries of findings: none is new but that of the file p writes.
CacheGrows(p) ==
    \A f \in Files : <<"findings", f>> \in cached' =>
        \/ <<"findings", f>> \in cached
        \/ f = Target(p) /\ worker[p].at = "scan" /\ worker[p].result = "write"

\* A task that is live now was live before.
NoStart == \A t \in TaskIds : outcome'[t] = "live" => outcome[t] = "live" /\ holds'[t] = holds[t]

LEMMA OthersKept ==
    ASSUME Inv, NEW p \in Posts, Types', Apart(p), CacheGrows(p), NEW q \in Posts \ {p}
    PROVE  PostInv(q)'
<1>1. PostInv(q) /\ PostInv(p) /\ Types /\ QP!Inv
  BY DEF Inv
<1>2. /\ worker'[q] = worker[q] /\ post'[q] = post[q] /\ outcome'[q] = outcome[q] /\ holds'[q] = holds[q]
      /\ (q \in cancelling') = (q \in cancelling) /\ (q \in settled') = (q \in settled)
      /\ wrote'[q] = wrote[q] /\ at'[q] = at[q] /\ file'[q] = file[q] /\ usesCache' = usesCache
  BY DEF Apart
<1>3. Flow(q)' /\ Linked(q)' /\ Running(q)'
  BY <1>1, <1>2 DEF PostInv, Flow, Linked, Running, Working, Target, Key
<1>4. Missed(q)'
  <2>1. SUFFICES ASSUME Scans(q), ~post[q].job.force, <<"findings", Target(q)>> \in cached'
                 PROVE  FALSE
    BY <1>2 DEF Missed, Scans, Target
  <2>2. <<"findings", Target(q)>> \notin cached /\ worker[q].at = "scan" /\ usesCache
    BY <1>1, <2>1 DEF PostInv, Missed, Scans
  <2>3. file[q] = Target(q) /\ Target(q) \in Files
    BY <1>1, <2>2, TargetTypes DEF PostInv, Linked, Flow
  <2>4. Target(q) = Target(p) /\ worker[p].at = "scan" /\ worker[p].result = "write"
    BY <2>1, <2>2, <2>3 DEF CacheGrows
  <2>5. file[p] = Target(p) /\ at[p] = "scanned"
    BY <1>1, <2>4 DEF PostInv, Linked
  <2>6. Target(q) # NoFile
    BY <2>3, TasksAssumption DEF Q!QueueAssumption
  <2>7. at[q] \in {"waiting", "scanning", "scanned"}
    BY <2>1 DEF Scans
  <2> QED
    BY <1>1, <2>3, <2>4, <2>5, <2>6, <2>7, QueueExcludes
<1> QED
  BY <1>3, <1>4 DEF PostInv

LEMMA StepKeeps ==
    ASSUME Inv, NEW p \in Posts, Types', Apart(p), CacheGrows(p), PostInv(p)', NoStart,
           UNCHANGED queueVars \/ InQueueOf(p)
    PROVE  Inv'
<1>1. QP!Inv'
  BY QueueRests, QueueSteps DEF Inv
<1>2. OneHolder'
  BY DEF Inv, OneHolder, NoStart
<1>3. \A q \in Posts : PostInv(q)'
  BY OthersKept
<1> QED
  BY <1>1, <1>2, <1>3 DEF Inv

-----------------------------------------------------------------------------
(* Posts *)

LEMMA PostRecords ==
    ASSUME Types, NEW p \in Posts, NEW step \in PostSteps, NEW found \in SUBSET TaskIds,
           \/ post' = [post EXCEPT ![p].at = step, ![p].of = found]
           \/ post' = [post EXCEPT ![p].at = step]
    PROVE  /\ post' \in [Posts -> [at : PostSteps, job : Jobs, of : SUBSET TaskIds]]
           /\ \A q \in Posts \ {p} : post'[q] = post[q]
           /\ \A q \in Posts : post'[q].job = post[q].job
           /\ \E jobs \in Asked : \A q \in Posts : post'[q].job = jobs[q]
<1>1. /\ post' \in [Posts -> [at : PostSteps, job : Jobs, of : SUBSET TaskIds]]
      /\ \A q \in Posts \ {p} : post'[q] = post[q]
      /\ \A q \in Posts : post'[q].job = post[q].job
  <2>1. post \in [Posts -> [at : PostSteps, job : Jobs, of : SUBSET TaskIds]]
    BY DEF Types
  <2>2. CASE post' = [post EXCEPT ![p].at = step, ![p].of = found]
    <3> DEFINE Job == [at : PostSteps, job : Jobs, of : SUBSET TaskIds]
               moved == [post EXCEPT ![p].at = step]
    <3>1. /\ moved \in [Posts -> Job]
          /\ \A q \in Posts \ {p} : moved[q] = post[q]
          /\ \A q \in Posts : moved[q].job = post[q].job
      BY <2>1
    <3>2. post' = [moved EXCEPT ![p].of = found]
      BY <2>2
    <3> HIDE DEF moved
    <3> QED
      BY <3>1, <3>2
  <2>3. CASE post' = [post EXCEPT ![p].at = step]
    BY <2>1, <2>3
  <2> QED
    BY <2>2, <2>3
<1>2. PICK jobs \in Asked : \A q \in Posts : post[q].job = jobs[q]
  BY DEF Types
<1> QED
  BY <1>1, <1>2

\* A post that starts nothing.
LEMMA PostWaits ==
    ASSUME Inv, NEW p \in Posts, NEW step \in PostSteps, NEW found \in SUBSET TaskIds,
           \/ post' = [post EXCEPT ![p].at = step, ![p].of = found]
           \/ post' = [post EXCEPT ![p].at = step],
           UNCHANGED <<tableVars, cancelling, settled, worker, cached, wrote, usesCache, queueVars>>
    PROVE  Inv'
<1>1. Types /\ PostInv(p)
  BY DEF Inv
<1>2. Types' /\ Apart(p) /\ post'[p].job = post[p].job
  BY <1>1, PostRecords DEF Types, Apart, tableVars, queueVars
<1>3. PostInv(p)'
  BY <1>1, <1>2 DEF PostInv, Flow, Linked, Missed, Scans, Running, Working, Target, Key, tableVars, queueVars
<1>4. CacheGrows(p) /\ NoStart
  BY DEF CacheGrows, NoStart, tableVars
<1> QED
  BY <1>2, <1>3, <1>4, StepKeeps

LEMMA CreateStarts ==
    ASSUME Inv, NEW p \in Posts, CreateTask(p), HoldersOf(Key(post[p].job)) = {}
    PROVE  Inv'
<1> DEFINE job == post[p].job
<1>1. Types /\ PostInv(p) /\ QP!Inv /\ p \in TaskIds /\ OneHolder
  BY JobFacts DEF Inv
<1>2. /\ Start(p, {Key(job)})
      /\ worker' = [worker EXCEPT ![p].at = "start", ![p].todo = job.files]
      /\ post' = [post EXCEPT ![p].at = "started", ![p].of = {p}]
      /\ UNCHANGED <<cancelling, settled, cached, wrote, usesCache, queueVars>>
  BY DEF CreateTask, Answers, settings
<1>3. /\ outcome[p] = "unused" /\ outcome' = [outcome EXCEPT ![p] = "live"]
      /\ holds' = [holds EXCEPT ![p] = {Key(job)}]
  BY <1>2 DEF Start
<1>4. /\ outcome' \in [TaskIds -> Outcomes] /\ holds' = [t \in TaskIds |-> holds'[t]]
      /\ outcome'[p] = "live" /\ holds'[p] = {Key(job)}
      /\ \A t \in TaskIds \ {p} : outcome'[t] = outcome[t] /\ holds'[t] = holds[t]
  BY <1>1, <1>3 DEF Types, Outcomes
<1>5. job.files \in Seq(Files) /\ job.dir \in BOOLEAN /\ (~job.dir => job.files # <<>>)
  BY <1>1, JobFacts
<1>6. /\ worker' \in [Posts -> [at : WorkerSteps, todo : Seq(Files), result : WorkResults]]
      /\ \A q \in Posts \ {p} : worker'[q] = worker[q]
      /\ worker'[p].at = "start" /\ worker'[p].todo = job.files /\ worker'[p].result = worker[p].result
  <2> DEFINE OneWorker == [at : WorkerSteps, todo : Seq(Files), result : WorkResults]
             moved == [worker EXCEPT ![p].at = "start"]
  <2>1. /\ moved \in [Posts -> OneWorker]
        /\ \A q \in Posts \ {p} : moved[q] = worker[q]
        /\ moved[p].at = "start" /\ moved[p].todo = worker[p].todo /\ moved[p].result = worker[p].result
    BY <1>1 DEF Types, WorkerSteps
  <2>2. worker' = [moved EXCEPT ![p].todo = job.files]
    BY <1>2
  <2> HIDE DEF moved
  <2> QED
    BY <1>5, <2>1, <2>2
<1>7. /\ post' \in [Posts -> [at : PostSteps, job : Jobs, of : SUBSET TaskIds]]
      /\ \A q \in Posts \ {p} : post'[q] = post[q]
      /\ \A q \in Posts : post'[q].job = post[q].job
      /\ \E jobs \in Asked : \A q \in Posts : post'[q].job = jobs[q]
  <2>1. {p} \in SUBSET TaskIds /\ "started" \in PostSteps
    BY <1>1 DEF PostSteps
  <2> QED
    BY <1>1, <1>2, <2>1, PostRecords
<1>8. Types' /\ Apart(p)
  BY <1>1, <1>2, <1>4, <1>6, <1>7, JobFacts DEF Types, Apart, queueVars
<1>9. worker[p].at = "none" /\ at[p] = "idle" /\ worker[p].result # "write"
  BY <1>1, <1>3 DEF PostInv, Running, Linked
<1>10. PostInv(p)'
  <2>1. Flow(p)'
    BY <1>5, <1>6, <1>7 DEF Flow
  <2>2. Linked(p)' /\ Missed(p)'
    BY <1>2, <1>6, <1>9 DEF Linked, Missed, Scans, queueVars
  <2>3. Running(p)'
    BY <1>1, <1>2, <1>4, <1>6, <1>7, <1>9 DEF PostInv, Running, Working, Key
  <2> QED
    BY <2>1, <2>2, <2>3 DEF PostInv
<1>11. \A q \in Posts : PostInv(q)'
  BY <1>2, <1>8, <1>10, OthersKept DEF CacheGrows
<1>12. OneHolder'
  <2>1. ASSUME NEW t \in TaskIds \ {p}, outcome[t] = "live"
        PROVE  Key(job) \notin holds[t]
    BY <2>1 DEF HoldersOf
  <2> QED
    BY <1>1, <1>4, <2>1 DEF OneHolder
<1>13. QP!Inv'
  BY <1>1, <1>2, QueueRests
<1> QED
  BY <1>8, <1>11, <1>12, <1>13 DEF Inv

LEMMA HandlerKeeps == ASSUME Inv, NEW p \in Posts, Handler(p) PROVE Inv'
<1> DEFINE holders == HoldersOf(Key(post[p].job))
<1>1. holders \in SUBSET TaskIds /\ post[p].of \in SUBSET TaskIds /\ {} \in SUBSET TaskIds
  BY DEF HoldersOf, Inv, Types
<1>2. \A h \in SUBSET TaskIds : AnswerOf(h) \in PostSteps
  BY DEF AnswerOf, PostSteps
<1>3. CASE TakePlace(p)
  <2>1. UNCHANGED <<tableVars, cancelling, settled, worker, cached, wrote, usesCache, queueVars>>
    BY <1>3 DEF TakePlace, managerVars, settings
  <2>2. \/ post' = [post EXCEPT ![p].at = "placed"]
        \/ Answers(p, "full", {})
        \/ Answers(p, AnswerOf(holders), holders)
    BY <1>3 DEF TakePlace
  <2>3. "placed" \in PostSteps /\ "full" \in PostSteps
    BY DEF PostSteps
  <2> QED
    BY <1>1, <1>2, <2>1, <2>2, <2>3, PostWaits DEF Answers
<1>4. ASSUME CreateTask(p), holders # {} PROVE Inv'
  <2>1. UNCHANGED <<tableVars, cancelling, settled, worker, cached, wrote, usesCache, queueVars>>
    BY <1>4 DEF CreateTask, settings
  <2>2. \/ post' = [post EXCEPT ![p].at = "found", ![p].of = holders]
        \/ Answers(p, "busy", holders)
    BY <1>4 DEF CreateTask
  <2>3. "found" \in PostSteps /\ "busy" \in PostSteps
    BY DEF PostSteps
  <2> QED
    BY <1>1, <2>1, <2>2, <2>3, PostWaits DEF Answers
<1>5. CASE GiveBack(p)
  BY <1>1, <1>5, PostWaits DEF GiveBack, managerVars, settings, PostSteps
<1>6. CASE Ask(p)
  BY <1>1, <1>2, <1>6, PostWaits DEF Ask, Answers, managerVars, settings
<1> QED
  BY <1>3, <1>4, <1>5, <1>6, CreateStarts DEF Handler

-----------------------------------------------------------------------------
(* Workers, outside the queue *)

\* A step of a worker between two scans, which leaves the tasks as they are.
LEMMA WorkerMoves ==
    ASSUME Inv, NEW p \in Posts,
           worker' \in [Posts -> [at : WorkerSteps, todo : Seq(Files), result : WorkResults]],
           \A q \in Posts \ {p} : worker'[q] = worker[q],
           worker[p].at \notin {"none", "scan"}, worker'[p].at # "scan", worker'[p].result # "write",
           Working(p)' => Working(p), Flow(p)',
           UNCHANGED <<post, tableVars, cancelling, settled, cached, wrote, usesCache, queueVars>>
    PROVE  Inv'
<1>1. Types /\ PostInv(p)
  BY DEF Inv
<1>2. Types' /\ Apart(p)
  BY <1>1 DEF Types, Apart, tableVars, queueVars
<1>3. Linked(p)' /\ Missed(p)' /\ Running(p)'
  BY <1>1 DEF PostInv, Linked, Missed, Scans, Running, tableVars, queueVars
<1> QED
  BY <1>2, <1>3, StepKeeps DEF PostInv, CacheGrows, NoStart, tableVars

\* A worker that is over, or ends its task.
LEMMA WorkerEnds ==
    ASSUME Inv, NEW p \in Posts, NEW step \in {"leave", "left", "recover", "gone"}, Goes(p, step),
           worker[p].at \notin {"none", "scan"},
           \/ UNCHANGED <<tableVars, cancelling, stopped>>
           \/ Ends_(p, "cancelled") /\ StoppedEnds(p)
           \/ \E e \in {"completed", "failed"} : Ends_(p, e),
           UNCHANGED <<post, settled, cached, wrote, usesCache, queueVars>>
    PROVE  Inv'
<1>1. Types /\ PostInv(p) /\ p \in TaskIds
  BY JobFacts DEF Inv
<1>2. /\ TaskApart(p) /\ NoStart
      /\ outcome'[p] # "unused"
      /\ outcome'[p] = "cancelled" => outcome[p] = "cancelled" \/ p \in cancelling
      /\ p \in cancelling' => p \in cancelling
  <2>1. ASSUME NEW e \in Ends, Ends_(p, e), e = "cancelled" => p \in cancelling
        PROVE  /\ TaskApart(p) /\ NoStart
               /\ outcome'[p] # "unused"
               /\ outcome'[p] = "cancelled" => outcome[p] = "cancelled" \/ p \in cancelling
               /\ p \in cancelling' => p \in cancelling
    <3>1. outcome[p] # "unused"
      BY <1>1 DEF PostInv, Running
    <3> QED
      BY <1>1, <2>1, <3>1, EndsTask DEF NoStart, TaskApart
  <2>2. ASSUME UNCHANGED <<tableVars, cancelling, stopped>>
        PROVE  /\ TaskApart(p) /\ NoStart
               /\ outcome'[p] # "unused"
               /\ outcome'[p] = "cancelled" => outcome[p] = "cancelled" \/ p \in cancelling
               /\ p \in cancelling' => p \in cancelling
    BY <1>1, <2>2, ManagerRests DEF NoStart, PostInv, Running, tableVars, managerVars
  <2> QED
    BY <2>1, <2>2 DEF Ends, StoppedEnds
<1>3. /\ worker' \in [Posts -> [at : WorkerSteps, todo : Seq(Files), result : WorkResults]]
      /\ \A q \in Posts \ {p} : worker'[q] = worker[q]
      /\ worker'[p].at = step /\ worker'[p].result = worker[p].result
  BY <1>1, WorkerGoes DEF Goes, WorkerSteps
<1>4. Types' /\ Apart(p)
  BY <1>1, <1>2, <1>3, JobFacts DEF Types, Apart, TaskApart, queueVars
<1>5. worker[p].result # "write"
  BY <1>1 DEF PostInv, Linked
<1>6. Flow(p)' /\ Linked(p)' /\ Missed(p)'
  BY <1>1, <1>3, <1>5 DEF PostInv, Flow, Linked, Missed, Scans, queueVars
<1>7. Running(p)'
  BY <1>1, <1>2, <1>3, <1>5 DEF PostInv, Running, Working
<1> QED
  BY <1>2, <1>4, <1>6, <1>7, StepKeeps DEF PostInv, CacheGrows

LEMMA FolderKeeps ==
    ASSUME Inv, NEW p \in Posts,
           ListFolder(p) \/ Each(p) \/ CompleteFolder(p) \/ PassOver(p) \/ Record(p)
    PROVE  Inv'
<1>1. Types /\ PostInv(p)
  BY DEF Inv
<1>2. post[p].job.dir \in BOOLEAN
  BY <1>1, JobFacts
<1>3. ASSUME UNCHANGED <<post, managerVars, cached, wrote, settings, queueVars>>
      PROVE  UNCHANGED <<post, tableVars, cancelling, settled, cached, wrote, usesCache, queueVars>>
  BY <1>3 DEF managerVars, settings
<1>4. CASE ListFolder(p)
  <2>1. CASE Goes(p, IF post[p].job.dir THEN "each" ELSE "fill") /\ UNCHANGED managerVars
    <3> DEFINE step == IF post[p].job.dir THEN "each" ELSE "fill"
    <3>1. step \in WorkerSteps
      BY DEF WorkerSteps
    <3>2. /\ worker' \in [Posts -> [at : WorkerSteps, todo : Seq(Files), result : WorkResults]]
          /\ \A q \in Posts \ {p} : worker'[q] = worker[q]
          /\ worker'[p].at = step /\ worker'[p].todo = worker[p].todo /\ worker'[p].result = worker[p].result
      BY <1>1, <2>1, <3>1, WorkerGoes DEF Goes
    <3>3. UNCHANGED <<post, tableVars, cancelling, settled, cached, wrote, usesCache, queueVars>>
      BY <1>3, <1>4, <2>1 DEF ListFolder
    <3>4. worker[p].at = "start" /\ worker[p].result # "write"
      BY <1>1, <1>4 DEF ListFolder, PostInv, Linked
    <3>5. Flow(p)'
      BY <1>1, <1>2, <3>2, <3>3, <3>4 DEF PostInv, Flow
    <3>6. Working(p)
      BY <3>4 DEF Working
    <3> QED
      BY <3>2, <3>3, <3>4, <3>5, <3>6, WorkerMoves
  <2>2. CASE Ends_(p, "failed") /\ Goes(p, "leave") /\ UNCHANGED settled
    <3>1. worker[p].at = "start" /\ UNCHANGED <<post, settled, cached, wrote, usesCache, queueVars>>
      BY <1>4, <2>2 DEF ListFolder, settings
    <3> QED
      BY <2>2, <3>1, WorkerEnds
  <2> QED
    BY <1>4, <2>1, <2>2 DEF ListFolder
<1>5. CASE Each(p)
  <2>1. UNCHANGED <<post, tableVars, cancelling, settled, cached, wrote, usesCache, queueVars>>
    BY <1>3, <1>5 DEF Each
  <2>2. worker[p].at = "each" /\ worker[p].result # "write"
    BY <1>1, <1>5 DEF Each, PostInv, Linked
  <2>3. ASSUME NEW step \in {"leave", "fill", "complete"}, Goes(p, step), step = "fill" => worker[p].todo # <<>>
        PROVE  Inv'
    <3>1. /\ worker' \in [Posts -> [at : WorkerSteps, todo : Seq(Files), result : WorkResults]]
          /\ \A q \in Posts \ {p} : worker'[q] = worker[q]
          /\ worker'[p].at = step /\ worker'[p].todo = worker[p].todo /\ worker'[p].result = worker[p].result
      BY <1>1, <2>3, WorkerGoes DEF Goes, WorkerSteps
    <3>2. Flow(p)'
      BY <2>3, <3>1 DEF Flow
    <3>3. Working(p)
      BY <2>2 DEF Working
    <3> QED
      BY <2>1, <2>2, <2>3, <3>1, <3>2, <3>3, WorkerMoves
  <2> QED
    BY <1>5, <2>3 DEF Each
<1>6. CASE CompleteFolder(p)
  <2>1. worker[p].at = "complete" /\ Ends_(p, "completed") /\ Goes(p, "leave")
        /\ UNCHANGED <<post, settled, cached, wrote, usesCache, queueVars>>
    BY <1>6 DEF CompleteFolder, settings
  <2> QED
    BY <2>1, WorkerEnds
<1>7. CASE PassOver(p)
  <2>1. UNCHANGED <<post, tableVars, cancelling, settled, cached, wrote, usesCache, queueVars>>
    BY <1>3, <1>7 DEF PassOver
  <2>2. worker[p].at = "fill" /\ Working(p) /\ Results(p, "skipped") /\ worker[p].todo # <<>>
    BY <1>1, <1>7 DEF PassOver, Working, PostInv, Flow
  <2>3. /\ worker' \in [Posts -> [at : WorkerSteps, todo : Seq(Files), result : WorkResults]]
        /\ \A q \in Posts \ {p} : worker'[q] = worker[q]
        /\ worker'[p].at = "filled" /\ worker'[p].todo = worker[p].todo /\ worker'[p].result = "skipped"
    BY <1>1, <2>2, WorkerFills DEF WorkResults
  <2>4. Flow(p)'
    BY <2>2, <2>3 DEF Flow
  <2> QED
    BY <2>1, <2>2, <2>3, <2>4, WorkerMoves
<1>8. CASE Record(p)
  <2> DEFINE w == worker[p]
             next == IF p \in stopped \/ w.result = "panic" THEN [w EXCEPT !.at = "leave"]
                     ELSE [at |-> "each", todo |-> Tail(w.todo), result |-> "none"]
  <2>1. UNCHANGED <<post, tableVars, cancelling, settled, cached, wrote, usesCache, queueVars>>
    BY <1>3, <1>8 DEF Record
  <2>2. w.at = "filled" /\ w.todo # <<>> /\ w.result # "write" /\ w \in [at : WorkerSteps, todo : Seq(Files), result : WorkResults]
    BY <1>1, <1>8 DEF Record, PostInv, Flow, Linked, Types
  <2>3. Tail(w.todo) \in Seq(Files)
    BY <1>1, <2>2, TargetTypes
  <2>4. /\ next \in [at : WorkerSteps, todo : Seq(Files), result : WorkResults]
        /\ next.at \in {"leave", "each"} /\ next.result # "write"
    BY <2>2, <2>3 DEF WorkerSteps, WorkResults
  <2>5. worker' = [worker EXCEPT ![p] = next]
    BY <1>8 DEF Record
  <2> HIDE DEF next
  <2>6. /\ worker' \in [Posts -> [at : WorkerSteps, todo : Seq(Files), result : WorkResults]]
        /\ \A q \in Posts \ {p} : worker'[q] = worker[q]
        /\ worker'[p] = next
    BY <1>1, <2>4, <2>5 DEF Types
  <2>7. Flow(p)'
    BY <2>4, <2>6 DEF Flow
  <2>8. Working(p)
    BY <2>2 DEF Working
  <2> QED
    BY <2>1, <2>2, <2>4, <2>6, <2>7, <2>8, WorkerMoves
<1> QED
  BY <1>4, <1>5, <1>6, <1>7, <1>8

LEMMA BuildKeeps ==
    ASSUME Inv, NEW p \in Posts, StartBuild(p) \/ EndBuild(p)
    PROVE  Inv'
<1>1. Types /\ PostInv(p)
  BY DEF Inv
<1>2. UNCHANGED <<post, tableVars, cancelling, settled, cached, wrote, usesCache, queueVars>>
  BY DEF StartBuild, EndBuild, managerVars, settings
<1>3. /\ worker[p].at \in {"fill", "build"} /\ Working(p) /\ worker[p].todo # <<>> /\ worker[p].result # "write"
      /\ post[p].job.op = "index"
  BY <1>1 DEF StartBuild, EndBuild, Working, PostInv, Flow, Linked
<1>4. ASSUME NEW step \in {"build", "save"}, Goes(p, step)
      PROVE  Inv'
  <2>1. /\ worker' \in [Posts -> [at : WorkerSteps, todo : Seq(Files), result : WorkResults]]
        /\ \A q \in Posts \ {p} : worker'[q] = worker[q]
        /\ worker'[p].at = step /\ worker'[p].todo = worker[p].todo /\ worker'[p].result = worker[p].result
    BY <1>1, <1>4, WorkerGoes DEF Goes, WorkerSteps
  <2>2. Flow(p)'
    BY <1>2, <1>3, <2>1 DEF Flow
  <2> QED
    BY <1>2, <1>3, <1>4, <2>1, <2>2, WorkerMoves
<1>5. ASSUME NEW result \in {"current", "failed"}, Results(p, result)
      PROVE  Inv'
  <2>1. /\ worker' \in [Posts -> [at : WorkerSteps, todo : Seq(Files), result : WorkResults]]
        /\ \A q \in Posts \ {p} : worker'[q] = worker[q]
        /\ worker'[p].at = "filled" /\ worker'[p].todo = worker[p].todo /\ worker'[p].result = result
    BY <1>1, <1>5, WorkerFills DEF WorkResults
  <2>2. Flow(p)'
    BY <1>3, <2>1 DEF Flow
  <2> QED
    BY <1>2, <1>3, <1>5, <2>1, <2>2, WorkerMoves
<1> QED
  BY <1>4, <1>5 DEF StartBuild, EndBuild

\* The index of a directory's file is stored: no entry of findings is new.
LEMMA SaveKeeps ==
    ASSUME Inv, NEW p \in Posts, SaveIndex(p)
    PROVE  Inv'
<1>1. Types /\ PostInv(p)
  BY DEF Inv
<1>2. UNCHANGED <<post, tableVars, cancelling, settled, usesCache, queueVars>>
  BY DEF SaveIndex, managerVars, settings
<1>3. /\ worker[p].at = "save" /\ Working(p) /\ worker[p].todo # <<>> /\ worker[p].result # "write"
      /\ post[p].job.op = "index" /\ at[p] = "idle"
  BY <1>1 DEF SaveIndex, Working, PostInv, Flow, Linked
<1>4. post[p].job.dir
  BY <1>1, <1>3, JobFacts
<1>5. PICK result \in {"done", "failed"} : Results(p, result)
  BY DEF SaveIndex
<1>6. /\ worker' \in [Posts -> [at : WorkerSteps, todo : Seq(Files), result : WorkResults]]
      /\ \A q \in Posts \ {p} : worker'[q] = worker[q]
      /\ worker'[p].at = "filled" /\ worker'[p].todo = worker[p].todo /\ worker'[p].result = result
  BY <1>1, <1>5, WorkerFills DEF WorkResults
<1>7. /\ wrote' \in [Posts -> SUBSET Files] /\ \A q \in Posts \ {p} : wrote'[q] = wrote[q]
      /\ cached' = cached \/ cached' = cached \union {<<"index", Target(p)>>}
  <2>1. Target(p) \in Files
    BY <1>1, <1>3, TargetTypes
  <2>2. \/ wrote' = [wrote EXCEPT ![p] = @ \union {Target(p)}] /\ cached' = cached \union {<<"index", Target(p)>>}
        \/ wrote' = wrote /\ cached' = cached
    BY DEF SaveIndex
  <2>3. wrote[p] \union {Target(p)} \in SUBSET Files
    BY <1>1, <2>1 DEF Types
  <2>4. wrote' \in [Posts -> SUBSET Files] /\ \A q \in Posts \ {p} : wrote'[q] = wrote[q]
    BY <1>1, <2>2, <2>3 DEF Types
  <2> QED
    BY <2>2, <2>4
<1>8. Types' /\ Apart(p)
  BY <1>1, <1>2, <1>6, <1>7 DEF Types, Apart, tableVars, queueVars
<1>9. CacheGrows(p) /\ NoStart
  BY <1>2, <1>7 DEF CacheGrows, NoStart, tableVars
<1>10. PostInv(p)'
  <2>1. Flow(p)'
    BY <1>3, <1>6 DEF Flow
  <2>2. Linked(p)' /\ Missed(p)'
    BY <1>2, <1>3, <1>6 DEF Linked, Missed, Scans, queueVars
  <2>3. Running(p)'
    BY <1>1, <1>2, <1>3, <1>4, <1>6 DEF PostInv, Running, Working, tableVars, Key
  <2> QED
    BY <2>1, <2>2, <2>3 DEF PostInv
<1> QED
  BY <1>2, <1>8, <1>9, <1>10, StepKeeps

LEMMA EndKeeps ==
    ASSUME Inv, NEW p \in Posts,
           Answer(p) \/ Report(p) \/ Leave(p) \/ Return(p) \/ Recover(p)
    PROVE  Inv'
<1>1. UNCHANGED <<post, settled, cached, wrote, usesCache, queueVars>>
  BY DEF Answer, Report, Leave, Return, Recover, settings, managerVars
<1>2. worker[p].at \in {"answer", "report", "leave", "left", "recover"}
  BY DEF Answer, Report, Leave, Return, Recover
<1>3. PICK step \in {"leave", "left", "recover", "gone"} : Goes(p, step)
  BY DEF Answer, Report, Leave, Return, Recover
<1>4. \/ UNCHANGED <<tableVars, cancelling, stopped>>
      \/ Ends_(p, "cancelled") /\ StoppedEnds(p)
      \/ \E e \in {"completed", "failed"} : Ends_(p, e)
  BY DEF Answer, Report, Leave, Return, Recover, managerVars
<1> QED
  BY <1>1, <1>2, <1>3, <1>4, WorkerEnds

LEMMA SettleKeeps ==
    ASSUME Inv, NEW p \in Posts, SettleAnswer(p)
    PROVE  Inv'
<1>1. Types /\ PostInv(p) /\ p \in TaskIds
  BY JobFacts DEF Inv
<1>2. /\ UNCHANGED <<post, cached, wrote, usesCache, queueVars>>
      /\ worker[p].at = "filled" /\ ~post[p].job.dir /\ at[p] = "idle" /\ worker[p].result # "write"
  BY <1>1 DEF SettleAnswer, settings, PostInv, Linked
<1>3. /\ TaskApart(p) /\ UNCHANGED <<outcome, holds, cancelling>>
      /\ p \in settled' => p \in settled \/ MaySettle(p)
      /\ p \in settled => p \in settled'
  <2>1. CASE Settle(p)
    BY <1>1, <2>1, SettlesTask
  <2>2. CASE UNCHANGED managerVars
    BY <1>1, <2>2, ManagerRests
  <2> QED
    BY <2>1, <2>2 DEF SettleAnswer
<1>4. PICK step \in {"answer", "leave", "report"} : Goes(p, step)
  BY DEF SettleAnswer
<1>5. /\ worker' \in [Posts -> [at : WorkerSteps, todo : Seq(Files), result : WorkResults]]
      /\ \A q \in Posts \ {p} : worker'[q] = worker[q]
      /\ worker'[p].at = step /\ worker'[p].result = worker[p].result
  BY <1>1, <1>4, WorkerGoes DEF Goes, WorkerSteps
<1>6. Types' /\ Apart(p)
  BY <1>1, <1>2, <1>3, <1>5, JobFacts DEF Types, Apart, TaskApart, queueVars
<1>7. CacheGrows(p) /\ NoStart
  BY <1>2, <1>3 DEF CacheGrows, NoStart
<1>8. Flow(p)' /\ Linked(p)' /\ Missed(p)'
  BY <1>2, <1>4, <1>5 DEF Flow, Linked, Missed, Scans, queueVars
<1>9. Running(p)'
  BY <1>1, <1>2, <1>3, <1>4, <1>5 DEF PostInv, Running, Working, MaySettle
<1> QED
  BY <1>2, <1>6, <1>7, <1>8, <1>9, StepKeeps DEF PostInv

-----------------------------------------------------------------------------
(* Workers, in the queue *)

\* A step of a scan that leaves the tasks, the entries and the files written
\* as they are.
LEMMA ScanMoves ==
    ASSUME Inv, NEW p \in Posts, InQueueOf(p), worker[p].at \in {"fill", "scan"},
           worker' \in [Posts -> [at : WorkerSteps, todo : Seq(Files), result : WorkResults]],
           \A q \in Posts \ {p} : worker'[q] = worker[q],
           worker'[p].todo = worker[p].todo, worker'[p].at \in {"scan", "filled"},
           worker'[p].result # "write", Linked(p)', Missed(p)',
           UNCHANGED <<managerVars, post, placed, cached, wrote, settings>>
    PROVE  Inv'
<1>1. Types /\ PostInv(p) /\ QP!Inv
  BY DEF Inv
<1>2. UNCHANGED <<outcome, holds, cancelling, settled, post, cached, wrote, usesCache>>
  BY DEF managerVars, tableVars, settings
<1>3. Types' /\ Apart(p)
  BY <1>1, <1>2, QueueLocal DEF Types, Apart
<1>4. CacheGrows(p) /\ NoStart
  BY <1>2 DEF CacheGrows, NoStart
<1>5. Flow(p)'
  BY <1>1, <1>2 DEF PostInv, Flow
<1>6. Running(p)'
  BY <1>1, <1>2 DEF PostInv, Running, Working
<1> QED
  BY <1>3, <1>4, <1>5, <1>6, StepKeeps DEF PostInv

LEMMA StartKeeps ==
    ASSUME Inv, NEW p \in Posts, StartScan(p)
    PROVE  Inv'
<1>1. Types /\ PostInv(p) /\ QP!Inv
  BY DEF Inv
<1>2. /\ worker[p].at = "fill" /\ worker[p].todo # <<>> /\ worker[p].result # "write"
      /\ UNCHANGED <<managerVars, post, placed, cached, wrote, settings>>
  BY <1>1 DEF StartScan, PostInv, Flow, Linked
<1>3. Target(p) \in Files
  BY <1>1, <1>2, TargetTypes
<1>4. InQueueOf(p)
  BY <1>3 DEF StartScan, InQueueOf
<1>5. /\ worker' \in [Posts -> [at : WorkerSteps, todo : Seq(Files), result : WorkResults]]
      /\ \A q \in Posts \ {p} : worker'[q] = worker[q]
      /\ worker'[p].at = "scan" /\ worker'[p].todo = worker[p].todo /\ worker'[p].result = worker[p].result
  BY <1>1, WorkerGoes DEF StartScan, Goes, WorkerSteps
<1>6. Target(p)' = Target(p) /\ usesCache' = usesCache /\ usesCache \in BOOLEAN
  BY <1>1, <1>2, <1>5 DEF Target, settings, Types
<1>7. IF usesCache THEN at'[p] = "locking" /\ file'[p] = Target(p) ELSE at'[p] = "locked"
  BY <1>1, <1>3, <1>4, <1>6, QueueLocal DEF StartScan
<1>8. Linked(p)' /\ Missed(p)'
  BY <1>2, <1>5, <1>6, <1>7 DEF Linked, Missed, Scans
<1> QED
  BY <1>2, <1>4, <1>5, <1>8, ScanMoves

\* What one step of the queue makes of the worker.
LEMMA QueueKeeps ==
    ASSUME Inv, NEW p \in Posts, InQueue(p)
    PROVE  Inv'
<1>1. Types /\ PostInv(p) /\ QP!Inv
  BY DEF Inv
<1>2. /\ worker[p].at = "scan" /\ worker[p].todo # <<>> /\ InQueueOf(p)
      /\ UNCHANGED <<managerVars, post, placed, cached, wrote, settings>>
  BY <1>1 DEF InQueue, GetLock, GiveUpLock, ReadCache, GetSlot, GiveUpSlot, EndScan, InQueueOf, PostInv, Flow
<1>3. usesCache' = usesCache /\ usesCache \in BOOLEAN /\ post' = post /\ cached' = cached
  BY <1>1, <1>2 DEF settings, Types
<1>4. /\ at[p] # "scanned" => worker[p].result # "write"
      /\ usesCache => file[p] = Target(p)
  BY <1>1, <1>2 DEF PostInv, Linked
<1>5. CASE GetLock(p)
  <2>1. at[p] = "locking" /\ at'[p] = "locked" /\ file' = file /\ worker' = worker
    BY <1>1, <1>2, <1>5, QueueLocal DEF GetLock, Q!TakeToken
  <2>2. Linked(p)' /\ Missed(p)'
    BY <1>2, <1>3, <1>4, <2>1 DEF Linked, Missed, Scans, Target
  <2> QED
    BY <1>1, <1>2, <1>4, <2>1, <2>2, ScanMoves DEF Types
<1>6. CASE GiveUpLock(p)
  <2>1. at'[p] = "idle" /\ Results(p, "failed")
    BY <1>1, <1>2, <1>6, QueueLocal DEF GiveUpLock
  <2>2. /\ worker' \in [Posts -> [at : WorkerSteps, todo : Seq(Files), result : WorkResults]]
        /\ \A q \in Posts \ {p} : worker'[q] = worker[q]
        /\ worker'[p].at = "filled" /\ worker'[p].todo = worker[p].todo /\ worker'[p].result = "failed"
    BY <1>1, <2>1, WorkerFills DEF WorkResults
  <2>3. Linked(p)' /\ Missed(p)'
    BY <2>1, <2>2 DEF Linked, Missed, Scans
  <2> QED
    BY <1>2, <2>2, <2>3, ScanMoves
<1>7. ASSUME Q!Acquire(p), NeedsScan(p), UNCHANGED worker PROVE Inv'
  <2>1. at[p] = "locked" /\ at'[p] \in {"waiting", "scanning"} /\ file' = file
    BY <1>1, <1>2, <1>7, QueueLocal
  <2>2. Linked(p)' /\ Missed(p)'
    BY <1>2, <1>3, <1>4, <1>7, <2>1 DEF Linked, Missed, Scans, Target, NeedsScan
  <2> QED
    BY <1>1, <1>2, <1>4, <1>7, <2>1, <2>2, ScanMoves DEF Types
\* A step after which the scan has no findings to write yet.
<1>8. ASSUME NEW result \in WorkResults \ {"write"}, worker' = [worker EXCEPT ![p].result = result],
             at[p] # "idle", at'[p] = "scanned", file' = file,
             result = "whole" => at[p] = "scanning"
      PROVE  Inv'
  <2>1. /\ worker' \in [Posts -> [at : WorkerSteps, todo : Seq(Files), result : WorkResults]]
        /\ \A q \in Posts \ {p} : worker'[q] = worker[q]
        /\ worker'[p].at = worker[p].at /\ worker'[p].todo = worker[p].todo /\ worker'[p].result = result
    BY <1>1, <1>8, WorkerResults
  <2>2. Linked(p)'
    BY <1>2, <1>3, <1>4, <1>8, <2>1 DEF Linked, Target
  <2>3. Missed(p)'
    BY <1>1, <1>2, <1>3, <1>8, <2>1 DEF PostInv, Missed, Scans, Target
  <2> QED
    BY <1>2, <1>8, <2>1, <2>2, <2>3, ScanMoves
<1>9. ASSUME Q!SkipScan(p), NEW result \in {"failed", "current"}, worker' = [worker EXCEPT ![p].result = result]
      PROVE  Inv'
  <2>1. at[p] = "locked" /\ at'[p] = "scanned" /\ file' = file
    BY <1>1, <1>2, <1>9, QueueLocal
  <2> QED
    BY <1>8, <1>9, <2>1 DEF WorkResults
<1>10. CASE ReadCache(p)
  BY <1>7, <1>9, <1>10 DEF ReadCache
<1>11. CASE GetSlot(p)
  <2>1. at[p] = "waiting" /\ at'[p] = "scanning" /\ file' = file /\ worker' = worker
    BY <1>1, <1>2, <1>11, QueueLocal DEF GetSlot
  <2>2. Linked(p)' /\ Missed(p)'
    BY <1>1, <1>2, <1>3, <1>4, <2>1 DEF PostInv, Linked, Missed, Scans, Target
  <2> QED
    BY <1>1, <1>2, <1>4, <2>1, <2>2, ScanMoves DEF Types
<1>12. CASE GiveUpSlot(p)
  <2>1. at[p] = "waiting" /\ at'[p] = "scanned" /\ file' = file
    BY <1>1, <1>2, <1>12, QueueLocal DEF GiveUpSlot
  <2> QED
    <3>1. worker' = [worker EXCEPT ![p].result = "failed"] /\ "failed" \in WorkResults \ {"write"}
      BY <1>12 DEF GiveUpSlot, WorkResults
    <3> QED
      BY <1>8, <2>1, <3>1
<1>13. CASE EndScan(p)
  <2>1. at[p] = "scanning" /\ at'[p] = "scanned" /\ file' = file
    BY <1>1, <1>2, <1>13, QueueLocal DEF EndScan
  <2> QED
    BY <1>8, <1>13, <2>1 DEF EndScan, WorkResults
<1> QED
  BY <1>5, <1>6, <1>10, <1>11, <1>12, <1>13 DEF InQueue

LEMMA UnlockKeeps ==
    ASSUME Inv, NEW p \in Posts, Unlock(p)
    PROVE  Inv'
<1>1. Types /\ PostInv(p) /\ QP!Inv
  BY DEF Inv
<1>2. /\ worker[p].at = "scan" /\ worker[p].result \in {"done", "current", "failed", "panic"} /\ InQueueOf(p)
      /\ UNCHANGED <<managerVars, post, placed, cached, wrote, settings>>
  BY DEF Unlock, InQueueOf
<1>3. usesCache' = usesCache
  BY <1>2 DEF settings
<1>4. CASE Q!TakeOut(p) /\ UNCHANGED worker
  <2>1. at'[p] = "unlocked" /\ file' = file
    BY <1>1, <1>2, <1>4, QueueLocal
  <2>2. Linked(p)' /\ Missed(p)'
    BY <1>1, <1>2, <1>3, <1>4, <2>1 DEF PostInv, Linked, Missed, Scans, Target
  <2> QED
    BY <1>1, <1>2, <1>4, <2>1, <2>2, ScanMoves DEF Types
<1>5. CASE (Q!Unlocked(p) \/ Q!ReturnUncached(p)) /\ Goes(p, "filled")
  <2>1. at'[p] = "idle"
    BY <1>1, <1>2, <1>5, QueueLocal
  <2>2. /\ worker' \in [Posts -> [at : WorkerSteps, todo : Seq(Files), result : WorkResults]]
        /\ \A q \in Posts \ {p} : worker'[q] = worker[q]
        /\ worker'[p].at = "filled" /\ worker'[p].todo = worker[p].todo /\ worker'[p].result = worker[p].result
    BY <1>1, <1>5, WorkerGoes DEF Goes, WorkerSteps
  <2>3. Linked(p)' /\ Missed(p)'
    BY <1>2, <2>1, <2>2 DEF Linked, Missed, Scans
  <2> QED
    BY <1>2, <2>2, <2>3, ScanMoves
<1> QED
  BY <1>4, <1>5 DEF Unlock

-----------------------------------------------------------------------------
(* The decision, the write and the cancel *)

LEMMA DecideKeeps ==
    ASSUME Inv, NEW p \in Posts, Decide(p)
    PROVE  Inv'
<1> DEFINE result == IF ~usesCache THEN "done"
                     ELSE IF p \in stopped \/ (~post[p].job.dir /\ ~MaySettle(p)) THEN "failed"
                     ELSE "write"
<1>1. Types /\ PostInv(p) /\ p \in TaskIds
  BY JobFacts DEF Inv
<1>2. /\ UNCHANGED <<post, cached, wrote, usesCache, queueVars>>
      /\ worker[p].at = "scan" /\ at[p] = "scanned" /\ worker[p].result = "whole"
      /\ worker' = [worker EXCEPT ![p].result = result]
  BY DEF Decide, settings
<1>3. /\ TaskApart(p) /\ UNCHANGED <<outcome, holds, cancelling>>
      /\ p \in settled' => p \in settled \/ MaySettle(p)
      /\ p \in settled => p \in settled'
      /\ result = "write" /\ ~post[p].job.dir => p \in settled'
  <2>1. CASE usesCache /\ p \notin stopped /\ ~post[p].job.dir
    <3>1. Settle(p)
      BY <2>1 DEF Decide
    <3>2. result = "write" => p \in settled'
      BY <2>1, <3>1 DEF Settle
    <3> QED
      BY <1>1, <3>1, <3>2, SettlesTask
  <2>2. CASE ~(usesCache /\ p \notin stopped /\ ~post[p].job.dir)
    <3>1. UNCHANGED managerVars
      BY <2>2 DEF Decide
    <3>2. result = "write" => post[p].job.dir
      BY <2>2
    <3> QED
      BY <1>1, <3>1, <3>2, ManagerRests
  <2> QED
    BY <2>1, <2>2
<1>4. result \in WorkResults /\ (result = "write" => usesCache)
  BY DEF WorkResults
<1> HIDE DEF result
<1>5. /\ worker' \in [Posts -> [at : WorkerSteps, todo : Seq(Files), result : WorkResults]]
      /\ \A q \in Posts \ {p} : worker'[q] = worker[q]
      /\ worker'[p].at = "scan" /\ worker'[p].todo = worker[p].todo /\ worker'[p].result = result
  BY <1>1, <1>2, <1>4, WorkerResults
<1>6. Types' /\ Apart(p)
  BY <1>1, <1>2, <1>3, <1>5, JobFacts DEF Types, Apart, TaskApart, queueVars
<1>7. CacheGrows(p) /\ NoStart
  BY <1>2, <1>3 DEF CacheGrows, NoStart
<1>8. Flow(p)' /\ Linked(p)'
  BY <1>1, <1>2, <1>4, <1>5 DEF PostInv, Flow, Linked, Target, queueVars
<1>9. Missed(p)'
  BY <1>1, <1>2, <1>5 DEF PostInv, Missed, Scans, Target, queueVars
<1>10. Running(p)'
  BY <1>1, <1>2, <1>3, <1>5 DEF PostInv, Running, Working, MaySettle
<1> QED
  BY <1>2, <1>6, <1>7, <1>8, <1>9, <1>10, StepKeeps DEF PostInv

\* The one step that adds an entry of findings.
LEMMA CommitKeeps ==
    ASSUME Inv, NEW p \in Posts, Commit(p)
    PROVE  Inv'
<1>1. Types /\ PostInv(p)
  BY DEF Inv
<1>2. /\ UNCHANGED <<post, tableVars, cancelling, settled, usesCache, queueVars>>
      /\ worker[p].at = "scan" /\ worker[p].result = "write" /\ worker[p].todo # <<>>
      /\ worker' = [worker EXCEPT ![p].result = "done"]
  BY <1>1 DEF Commit, managerVars, settings, PostInv, Flow
<1>3. /\ worker' \in [Posts -> [at : WorkerSteps, todo : Seq(Files), result : WorkResults]]
      /\ \A q \in Posts \ {p} : worker'[q] = worker[q]
      /\ worker'[p].at = "scan" /\ worker'[p].todo = worker[p].todo /\ worker'[p].result = "done"
  BY <1>1, <1>2, WorkerResults DEF WorkResults
<1>4. /\ wrote' \in [Posts -> SUBSET Files] /\ \A q \in Posts \ {p} : wrote'[q] = wrote[q]
      /\ cached' = cached \/ cached' = cached \union {<<"findings", Target(p)>>}
  <2>1. Target(p) \in Files
    BY <1>1, <1>2, TargetTypes
  <2>2. \/ wrote' = [wrote EXCEPT ![p] = @ \union {Target(p)}] /\ cached' = cached \union {<<"findings", Target(p)>>}
        \/ wrote' = wrote /\ cached' = cached
    BY DEF Commit
  <2>3. wrote[p] \union {Target(p)} \in SUBSET Files
    BY <1>1, <2>1 DEF Types
  <2>4. wrote' \in [Posts -> SUBSET Files] /\ \A q \in Posts \ {p} : wrote'[q] = wrote[q]
    BY <1>1, <2>2, <2>3 DEF Types
  <2> QED
    BY <2>2, <2>4
<1>5. Types' /\ Apart(p)
  BY <1>1, <1>2, <1>3, <1>4 DEF Types, Apart, tableVars, queueVars
<1>6. CacheGrows(p) /\ NoStart
  BY <1>2, <1>4 DEF CacheGrows, NoStart, tableVars
<1>7. Flow(p)' /\ Linked(p)' /\ Missed(p)'
  BY <1>1, <1>2, <1>3 DEF PostInv, Flow, Linked, Missed, Scans, Target, queueVars
<1>8. Running(p)'
  BY <1>1, <1>2, <1>3 DEF PostInv, Running, Working, tableVars
<1> QED
  BY <1>2, <1>5, <1>6, <1>7, <1>8, StepKeeps DEF PostInv

LEMMA DeleteKeeps ==
    ASSUME Inv, NEW p \in Posts, Delete(p)
    PROVE  Inv'
<1>1. Types /\ PostInv(p) /\ p \in TaskIds
  BY JobFacts DEF Inv
<1>2. /\ outcome[p] = "live" /\ p \notin settled
      /\ UNCHANGED <<settled, post, worker, cached, wrote, usesCache, queueVars>>
      /\ \/ post[p].job.dir /\ cancelling' = cancelling \union {p} /\ UNCHANGED tableVars
         \/ ~post[p].job.dir /\ End(p, "cancelled") /\ UNCHANGED cancelling
  BY DEF Delete, settings
<1>3. /\ TaskApart(p) /\ NoStart
      /\ post[p].job.dir => UNCHANGED <<outcome, holds>>
      /\ ~post[p].job.dir => outcome'[p] = "cancelled" /\ UNCHANGED <<holds, cancelling>>
  <2>1. CASE post[p].job.dir /\ cancelling' = cancelling \union {p} /\ UNCHANGED tableVars
    BY <1>1, <1>2, <2>1 DEF Types, TaskApart, NoStart, tableVars
  <2>2. CASE ~post[p].job.dir /\ End(p, "cancelled") /\ UNCHANGED cancelling
    <3>1. outcome' = [outcome EXCEPT ![p] = "cancelled"] /\ holds' = holds /\ "cancelled" \in Outcomes
      BY <2>2 DEF End, Outcomes, Ends
    <3>2. /\ outcome' \in [TaskIds -> Outcomes] /\ outcome'[p] = "cancelled"
          /\ \A t \in TaskIds \ {p} : outcome'[t] = outcome[t]
      BY <1>1, <3>1 DEF Types
    <3> QED
      BY <1>1, <1>2, <2>2, <3>1, <3>2 DEF Types, TaskApart, NoStart
  <2> QED
    BY <1>2, <2>1, <2>2
<1>4. Types' /\ Apart(p)
  BY <1>1, <1>2, <1>3, JobFacts DEF Types, Apart, TaskApart, queueVars
<1>5. Flow(p)' /\ Linked(p)' /\ Missed(p)'
  BY <1>1, <1>2 DEF PostInv, Flow, Linked, Missed, Scans, Target, queueVars
<1>6. Running(p)'
  BY <1>1, <1>2, <1>3 DEF PostInv, Running, Working, Key
<1> QED
  BY <1>2, <1>3, <1>4, <1>5, <1>6, StepKeeps DEF PostInv, CacheGrows

-----------------------------------------------------------------------------
(* The invariant, and what it gives *)

LEMMA InitInv == Init => Inv
<1> SUFFICES ASSUME Init PROVE Inv
  OBVIOUS
<1>1. PICK jobs \in Asked : post = [p \in Posts |-> [at |-> "new", job |-> jobs[p], of |-> {}]]
  BY DEF Init
<1>2. \A q \in Posts : jobs[q] \in Jobs
  BY DEF Jobs
<1>3. post \in [Posts -> [at : PostSteps, job : Jobs, of : SUBSET TaskIds]] /\ \A q \in Posts : post[q].job = jobs[q]
  BY <1>1, <1>2 DEF PostSteps
<1>4. /\ outcome = [t \in TaskIds |-> "unused"] /\ holds = [t \in TaskIds |-> {}]
      /\ cancelling = {} /\ settled = {} /\ wrote = [q \in Posts |-> {}] /\ worker = [q \in Posts |-> Idle]
  BY DEF Init, TableInit
<1>5. usesCache \in BOOLEAN
  BY TasksAssumption DEF Init
<1>6. Idle \in [at : WorkerSteps, todo : Seq(Files), result : WorkResults]
  BY DEF Idle, WorkerSteps, WorkResults
<1>7. worker \in [Posts -> [at : WorkerSteps, todo : Seq(Files), result : WorkResults]]
  BY <1>4, <1>6
<1>8. wrote \in [Posts -> SUBSET Files] /\ outcome \in [TaskIds -> Outcomes] /\ holds = [t \in TaskIds |-> holds[t]]
  BY <1>4 DEF Outcomes
<1>9. Types
  BY <1>3, <1>5, <1>7, <1>8 DEF Types
<1>10. at = [q \in Posts |-> "idle"]
  BY DEF Init, Q!Init
<1>11. ASSUME NEW q \in Posts PROVE PostInv(q)
  <2>1. worker[q].at = "none" /\ worker[q].result = "none" /\ at[q] = "idle" /\ wrote[q] = {} /\ q \in TaskIds
    BY <1>4, <1>9, <1>10, JobFacts DEF Idle
  <2>2. outcome[q] = "unused"
    BY <1>4, <2>1
  <2> QED
    BY <1>4, <2>1, <2>2 DEF PostInv, Flow, Linked, Missed, Scans, Running, Working
<1>12. OneHolder
  BY <1>4 DEF OneHolder
<1> QED
  BY <1>9, <1>11, <1>12, QueueStarts DEF Init, Inv

LEMMA RestKeeps == ASSUME Inv, UNCHANGED vars PROVE Inv'
<1>1. QP!Inv'
  BY QueueRests DEF Inv, vars
<1>2. UNCHANGED <<outcome, holds, cancelling, settled, post, worker, cached, wrote, usesCache, at, file>>
  BY DEF vars, managerVars, tableVars, settings, queueVars
<1>3. Types' /\ OneHolder'
  BY <1>2 DEF Inv, Types, OneHolder
<1>4. ASSUME NEW q \in Posts PROVE PostInv(q)'
  BY <1>2 DEF Inv, PostInv, Flow, Linked, Missed, Scans, Running, Working, Target, Key
<1> QED
  BY <1>1, <1>3, <1>4 DEF Inv

LEMMA StepInv == Inv /\ [Next]_vars => Inv'
<1> SUFFICES ASSUME Inv, [Next]_vars PROVE Inv'
  OBVIOUS
<1>1. CASE UNCHANGED vars
  BY <1>1, RestKeeps
<1>2. ASSUME NEW p \in Posts, Handler(p) \/ Work(p) \/ Delete(p) PROVE Inv'
  <2>1. CASE Handler(p)
    BY <2>1, HandlerKeeps
  <2>2. CASE Delete(p)
    BY <2>2, DeleteKeeps
  <2>3. CASE Work(p)
    BY <2>3, FolderKeeps, BuildKeeps, SaveKeeps, StartKeeps, QueueKeeps, DecideKeeps, CommitKeeps, UnlockKeeps,
       SettleKeeps, EndKeeps DEF Work
  <2> QED
    BY <1>2, <2>1, <2>2, <2>3
<1> QED
  BY <1>1, <1>2 DEF Next

LEMMA Invariance == Spec => []Inv
BY InitInv, StepInv, PTL DEF Spec

\* A task over a file that ends cancelled has written nothing, whenever the
\* cancel comes: a write, and the answer, settle the task first, and DELETE
\* does not cancel a settled one (runFindingsScan: MayWrite; Settle; Cancel).
THEOREM CancelWritesNothing == Spec => []CancelledWroteNothing
<1>1. Inv => CancelledWroteNothing
  <2> SUFFICES ASSUME Inv, NEW p \in Posts, outcome[p] = "cancelled", ~post[p].job.dir
               PROVE  wrote[p] = {}
    BY DEF CancelledWroteNothing
  <2>1. Running(p)
    BY DEF Inv, PostInv
  <2> QED
    BY <2>1 DEF Running
<1> QED
  BY <1>1, Invariance, PTL

LEMMA InvGivesOneWorker == Inv => OneWorkerPerDirectory
<1> SUFFICES ASSUME Inv PROVE OneWorkerPerDirectory
  OBVIOUS
<1>1. Types /\ OneHolder /\ \A q \in Posts : PostInv(q) /\ q \in TaskIds
  BY JobFacts DEF Inv
<1>2. ASSUME NEW p \in Posts, NEW q \in Posts, p # q, Working(p), Working(q),
             Key(post[p].job) = Key(post[q].job), post[p].job.dir
      PROVE  FALSE
  <2>1. post[q].job.dir
    BY <1>1, <1>2, JobFacts
  <2>2. /\ outcome[p] = "live" /\ Key(post[p].job) \in holds[p]
        /\ outcome[q] = "live" /\ Key(post[q].job) \in holds[q]
    BY <1>1, <1>2, <2>1 DEF PostInv, Running
  <2> QED
    BY <1>1, <1>2, <2>2 DEF OneHolder
<1>3. ASSUME NEW p \in Posts, worker[p].result = "write" \/ worker[p].at = "save"
      PROVE  outcome[p] = "live"
  <2>1. PostInv(p) /\ post[p].job.dir \in BOOLEAN /\ (~post[p].job.dir => post[p].job.op = "findings")
    BY <1>1, JobFacts
  <2>2. Working(p)
    BY <1>3, <2>1 DEF PostInv, Linked, Working
  <2>3. CASE post[p].job.dir
    BY <2>1, <2>2, <2>3 DEF PostInv, Running
  <2>4. CASE ~post[p].job.dir
    <3>1. worker[p].result = "write"
      BY <1>3, <2>1, <2>4 DEF PostInv, Flow
    <3> QED
      BY <2>1, <2>2, <2>4, <3>1 DEF PostInv, Running
  <2> QED
    BY <2>1, <2>3, <2>4
<1> QED
  BY <1>2, <1>3 DEF OneWorkerPerDirectory

\* What a step writes of the findings was not in the cache before it.
LEMMA WritesOnce ==
    ASSUME Inv, [Next]_vars, NEW p \in Posts,
           wrote'[p] # wrote[p], post[p].job.op = "findings", ~post[p].job.force
    PROVE  <<"findings", Target(p)>> \notin cached
<1>1. Types /\ PostInv(p)
  BY DEF Inv
<1>2. PICK q \in Posts : SaveIndex(q) \/ Commit(q)
  BY DEF Next, vars, Handler, Work, TakePlace, CreateTask, GiveBack, Ask, Delete, ListFolder, Each, CompleteFolder,
     PassOver, StartBuild, EndBuild, StartScan, InQueue, Decide, Unlock, Record, SettleAnswer, Answer, Report, Leave,
     Return, Recover
<1>3. p = q
  BY <1>1, <1>2 DEF SaveIndex, Commit, Types
<1>4. Commit(p)
  BY <1>1, <1>2, <1>3 DEF SaveIndex, PostInv, Flow
<1>5. Scans(p)
  BY <1>1, <1>4 DEF Commit, PostInv, Linked, Scans
<1> QED
  BY <1>1, <1>5 DEF PostInv, Missed

\* No two workers do one thing.  Over a directory they never run beside each
\* other, for a cancelled task stays live until its worker is gone
\* (CreateStoppable, Stopped), and a worker writes only while its task is
\* live; and a file is not scanned again when its findings are cached, for
\* the cache is read under the lock that the write still has (scan).
THEOREM WorkIsDoneOnce == Spec => NoWorkIsDoneTwice
<1>1. Inv /\ [Next]_vars =>
        [\A p \in Posts : wrote'[p] # wrote[p] /\ post[p].job.op = "findings" /\ ~post[p].job.force
            => <<"findings", Target(p)>> \notin cached]_vars
  BY WritesOnce
<1>2. Spec => []Inv /\ [][Next]_vars
  BY Invariance, PTL DEF Spec
<1>3. Spec => []OneWorkerPerDirectory
  BY Invariance, InvGivesOneWorker, PTL
<1>4. Spec => NoScanIsRepeated
  BY <1>1, <1>2, PTL DEF NoScanIsRepeated
<1> QED
  BY <1>3, <1>4 DEF NoWorkIsDoneTwice

=============================================================================

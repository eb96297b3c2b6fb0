-------------------------- MODULE ChainIndexTasks --------------------------
(***************************************************************************)
(* The registry of log chains' index tasks (chainIndexTasks in             *)
(* internal/webapi/chain_index.go): who may start one, how many there may  *)
(* be, and what is remembered of how they ended.  What a task does         *)
(* between its start and its end is the run of module IndexBuilds.         *)
(*                                                                         *)
(* Every method holds c.mu, so it is one step with regard to the others;   *)
(* the task table has a lock of its own, so a describe, which looks at the *)
(* table before it starts a task, is two steps (Look, Begin) that keep     *)
(* c.mu in between.  The table is what TaskTable promises.                 *)
(***************************************************************************)
EXTENDS TaskTable, Integers, FiniteSets

CONSTANTS
    NoTask,         \* no task
    Files,          \* fingerprints a chain's files can have
    NoFiles,        \* no fingerprint
    MaxUnfinished,  \* maxUnfinished()
    MaxEnded,       \* maxEndedChainRecords
    TTL,            \* the task TTL in ticks of the clock
    MaxNow          \* bound of the model: the last tick of the clock

ChainKeys == Keys

ChainsAssumption ==
    /\ NoTask \notin TaskIds
    /\ NoFiles \notin Files
    /\ MaxUnfinished \in Nat \ {0}
    /\ MaxEnded \in Nat
    /\ TTL \in Nat
    /\ MaxNow \in Nat

VARIABLES
    gone,        \* ended tasks the table has dropped (its cap, the sweeper)
    records,     \* [ChainKeys -> Record or NoRecord] c.records
    unfinished,  \* c.unfinished
    run,         \* [TaskIds -> Runs] each task's goroutine
    looking,     \* the describe that holds c.mu between its two steps
    now          \* the clock

vars == <<tableVars, gone, records, unfinished, run, looking, now>>

-----------------------------------------------------------------------------
(* Types *)

(* completing, failing: the end is recorded, the task has not ended yet;   *)
(* panicking: a panic unwinds, the place is not given back; recovering: it *)
(* is; ended and recovered: the task has ended.                            *)
Runs == {"none", "running", "completing", "failing", "panicking", "recovering", "ended", "recovered"}

(* end is "open" while the record has none. *)
Record == [task : TaskIds, files : Files, end : {"open", "completed", "failed"}, at : Nat]
NoRecord == [task |-> NoTask, files |-> NoFiles, end |-> "none", at |-> 0]

Nobody == [chain |-> NoTask, files |-> NoFiles]
Lookers == [chain : ChainKeys, files : Files] \union {Nobody}

Init ==
    /\ TableInit
    /\ gone = {}
    /\ records = [c \in ChainKeys |-> NoRecord]
    /\ unfinished = 0
    /\ run = [t \in TaskIds |-> "none"]
    /\ looking = Nobody
    /\ now = 0

-----------------------------------------------------------------------------
(* Records.  An operator named Faulty... is the next one without that      *)
(* prefix, with one plausible bug.                                         *)

HasEnd(r) == r.end \in {"completed", "failed"}
Open(r) == r.end = "open"
Expired(r) == HasEnd(r) /\ now - r.at > TTL

(* settleLocked: a record left open by a panic takes its end from the      *)
(* table (the outcomes it holds when it is asked), or goes with the task.  *)
Settled(r, table) ==
    IF ~Open(r) \/ table[r.task] = "live" THEN r
    ELSE IF r.task \in gone THEN NoRecord
    ELSE [r EXCEPT !.end = table[r.task], !.at = now]

(* pruneLocked: the records it may leave.  Ends at the same instant are    *)
(* sorted in any order.                                                    *)
Fresh(recs, table) ==
    [c \in ChainKeys |-> LET r == Settled(recs[c], table) IN IF Expired(r) THEN NoRecord ELSE r]
KeptEnds(ended) == IF Cardinality(ended) < MaxEnded THEN Cardinality(ended) ELSE MaxEnded
Pruned(recs, table) ==
    LET fresh == Fresh(recs, table)
        ended == {c \in ChainKeys : HasEnd(fresh[c])}
    IN  {[c \in ChainKeys |-> IF c \in ended \ kept THEN NoRecord ELSE fresh[c]] :
            kept \in {k \in SUBSET ended :
                        /\ Cardinality(k) = KeptEnds(ended)
                        /\ \A x \in k, y \in ended \ k : fresh[x].at >= fresh[y].at}}

(* lastLocked: what is left of a chain's record once it has been looked at *)
(* for these files.                                                        *)
Last(c, files) ==
    LET r == Settled(records[c], outcome)
    IN  IF HasEnd(r) /\ (Expired(r) \/ r.files # files) THEN NoRecord ELSE r

-----------------------------------------------------------------------------
(* Starting *)

(* startLocked.  Past the limit a running task is joined and nothing is    *)
(* started; otherwise the table hands back the running task or a new one.  *)
HasPlace == unfinished < MaxUnfinished

StartLocked(c, files) ==
    \/ /\ ~HasPlace \/ HoldersOf(c) # {}
       /\ UNCHANGED <<tableVars, records, unfinished, run>>
    \/ /\ HasPlace
       /\ \E t \in TaskIds :
             /\ Start(t, {c})
             /\ unfinished' = unfinished + 1
             /\ records' \in Pruned([records EXCEPT ![c] =
                                [task |-> t, files |-> files, end |-> "open", at |-> 0]], outcome')
             /\ run' = [run EXCEPT ![t] = "running"]

(* start: POST /v1/logs/index, whatever the last task ended as. *)
Post(c, files) ==
    /\ looking = Nobody
    /\ StartLocked(c, files)
    /\ UNCHANGED <<gone, looking, now>>

(* The first half of forDescription; all of last, and of a description     *)
(* that waits for no part.                                                 *)
MayStart(last) == last.end # "failed"

Look(c, files, waits) ==
    /\ looking = Nobody
    /\ records' = [records EXCEPT ![c] = Last(c, files)]
    /\ looking' = IF waits /\ MayStart(Last(c, files)) THEN [chain |-> c, files |-> files] ELSE Nobody
    /\ UNCHANGED <<tableVars, gone, unfinished, run, now>>

(* The second half of forDescription. *)
Begin ==
    /\ looking # Nobody
    /\ StartLocked(looking.chain, looking.files)
    /\ looking' = Nobody
    /\ UNCHANGED <<gone, now>>

-----------------------------------------------------------------------------
(* Ending *)

ChainOf(t) == CHOOSE c \in ChainKeys : holds[t] = {c}

(* recordEnd, the first half of complete and fail. *)
IsLast(t) == records[ChainOf(t)].task = t
RecordEnd(t, e) ==
    /\ looking = Nobody
    /\ run[t] = "running"
    /\ run' = [run EXCEPT ![t] = IF e = "completed" THEN "completing" ELSE "failing"]
    /\ unfinished' = unfinished - 1
    /\ records' \in IF IsLast(t)
                      THEN Pruned([records EXCEPT ![ChainOf(t)].end = e, ![ChainOf(t)].at = now], outcome)
                      ELSE {records}
    /\ UNCHANGED <<tableVars, gone, looking, now>>

(* The second half: the task manager's Complete or Fail. *)
FaultyEndTask(t) ==
    /\ run[t] = "running"
    /\ End(t, "completed")
    /\ run' = [run EXCEPT ![t] = "ended"]
    /\ UNCHANGED <<gone, records, unfinished, looking, now>>
EndTask(t) ==
    /\ \/ run[t] = "completing" /\ End(t, "completed")
       \/ run[t] = "failing" /\ End(t, "failed")
    /\ run' = [run EXCEPT ![t] = "ended"]
    /\ UNCHANGED <<gone, records, unfinished, looking, now>>

(* A panic of the run: giveBackPlaceUnlessEnded, then runDetached fails    *)
(* the task.                                                               *)
Panic(t) ==
    /\ run[t] = "running"
    /\ run' = [run EXCEPT ![t] = "panicking"]
    /\ UNCHANGED <<tableVars, gone, records, unfinished, looking, now>>

Places == 1
GiveBackPlace(t) ==
    /\ looking = Nobody
    /\ run[t] = "panicking"
    /\ run' = [run EXCEPT ![t] = "recovering"]
    /\ unfinished' = unfinished - Places
    /\ UNCHANGED <<tableVars, gone, records, looking, now>>

Recover(t) ==
    /\ run[t] = "recovering"
    /\ End(t, "failed")
    /\ run' = [run EXCEPT ![t] = "recovered"]
    /\ UNCHANGED <<gone, records, unfinished, looking, now>>

-----------------------------------------------------------------------------
(* The table drops ended tasks; the clock runs. *)

Drop(t) ==
    /\ outcome[t] \in Ends
    /\ t \notin gone
    /\ gone' = gone \union {t}
    /\ UNCHANGED <<tableVars, records, unfinished, run, looking, now>>

Tick ==
    /\ now < MaxNow
    /\ now' = now + 1
    /\ UNCHANGED <<tableVars, gone, records, unfinished, run, looking>>

Next ==
    \/ \E c \in ChainKeys, files \in Files :
          \/ Post(c, files)
          \/ \E waits \in BOOLEAN : Look(c, files, waits)
    \/ Begin
    \/ \E t \in TaskIds :
          \/ \E e \in {"completed", "failed"} : RecordEnd(t, e)
          \/ EndTask(t) \/ Panic(t) \/ GiveBackPlace(t) \/ Recover(t) \/ Drop(t)
    \/ Tick

Spec == Init /\ [][Next]_vars

-----------------------------------------------------------------------------
(* Properties *)

TypeOK ==
    /\ outcome \in [TaskIds -> Outcomes]
    /\ holds \in [TaskIds -> SUBSET Keys]
    /\ gone \in SUBSET TaskIds
    /\ records \in [ChainKeys -> Record \union {NoRecord}]
    /\ unfinished \in 0..MaxUnfinished
    /\ run \in [TaskIds -> Runs]
    /\ looking \in Lookers
    /\ now \in 0..MaxNow

(* The types, and: a place is taken exactly by the tasks that have neither *)
(* recorded their end nor given it back after a panic, so none is lost and *)
(* none is freed twice.                                                    *)
PlacesAreCounted ==
    /\ TypeOK
    /\ unfinished = Cardinality({t \in TaskIds : run[t] \in {"running", "panicking"}})

(* A describe never finds a task ended without its end in the record, as   *)
(* long as the task recorded it (recordEnd before Complete and Fail); a    *)
(* record left open is that of the task that holds the chain, or of one    *)
(* that panicked.                                                          *)
EndIsRecordedFirst ==
    \A c \in ChainKeys : Open(records[c]) =>
        LET t == records[c].task
        IN  /\ holds[t] = {c}
            /\ run[t] \in {"running", "panicking", "recovering", "recovered"}
            /\ run[t] # "recovered" => outcome[t] = "live"

(* The end a record tells is the end of its task: the one it is about to   *)
(* have, or the one it had, also after the table has dropped it and after  *)
(* a newer task of the chain (recordEnd, settleLocked).                    *)
RecordTellsTheEnd ==
    \A c \in ChainKeys : HasEnd(records[c]) =>
        LET t == records[c].task
        IN  /\ holds[t] = {c}
            /\ outcome[t] = "live" => run[t] = (IF records[c].end = "failed" THEN "failing" ELSE "completing")
            /\ outcome[t] # "live" => outcome[t] = records[c].end

(* The records stay bounded, panics included: whenever a task is created,  *)
(* at most MaxEnded of them have an end and the others are of tasks that   *)
(* have not ended (pruneLocked, settleLocked).                             *)
CreateBoundsRecords ==
    [][unfinished' > unfinished =>
          /\ Cardinality({c \in ChainKeys : HasEnd(records'[c])}) <= MaxEnded
          /\ \A c \in ChainKeys : Open(records'[c]) => outcome'[records'[c].task] = "live"]_vars

(* A describe never starts a task for files whose failure is on record:    *)
(* it would fail the same way on every poll of a viewer.                   *)
FailureOnRecordIsNotRetried ==
    [][looking # Nobody /\ unfinished' > unfinished =>
          LET r == records[looking.chain]
          IN  ~(r.end = "failed" /\ r.files = looking.files)]_vars

\* The places and the records of the index tasks are true of the tasks, the records
\* stay bounded, and a failure on record is not tried again.
RecordsAreTrue ==
    /\ [](PlacesAreCounted /\ EndIsRecordedFirst /\ RecordTellsTheEnd)
    /\ CreateBoundsRecords /\ FailureOnRecordIsNotRetried

=============================================================================

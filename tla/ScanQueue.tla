----------------------------- MODULE ScanQueue -----------------------------
(***************************************************************************)
(* The order in which signature scans of one process read files            *)
(* (internal/findings/queue.go, used by scan and scanQueued): the lock of  *)
(* each file, whose table keeps an entry only while someone uses it, and   *)
(* the slots, first come first served, whose number may change meanwhile.  *)
(* A step is what runs between two channel operations or under a mutex.    *)
(***************************************************************************)
EXTENDS Integers, Sequences, FiniteSets

CONSTANTS
    Callers,    \* goroutines that call Scan
    NoCaller,   \* nobody
    Files,      \* cache directories
    NoFile,     \* the call uses no cache, so takes no file lock
    Locks,      \* fileLock structs; one allocated is a fresh one
    NoLock,     \* no entry in the table
    Limits      \* what SetMaxScans may ask for, after clampScans

QueueAssumption ==
    /\ IsFiniteSet(Callers)
    /\ NoCaller \notin Callers
    /\ NoFile \notin Files
    /\ NoLock \notin Locks
    /\ Limits \subseteq 1..64

VARIABLES
    at,         \* [Callers -> Steps] where each call is
    file,       \* [Callers -> Files or NoFile] what it scans
    mine,       \* [Callers -> Locks or NoLock] the fileLock it uses
    table,      \* [Files -> Locks or NoLock] fileLocks.held
    refs,       \* [Locks -> Nat]
    token,      \* [Locks -> Callers or NoCaller] whose token is in the channel
    limit,      \* slotLimiter.limit
    running,    \* slotLimiter.running
    waiters,    \* slotLimiter.waiters, oldest first
    closed      \* the callers whose waiter channel is closed

lockVars == <<mine, table, refs, token>>
slotVars == <<limit, running, waiters, closed>>
vars == <<at, file, lockVars, slotVars>>

(* idle; locking: counted in refs, not holding the token; locked; waiting  *)
(* for a slot; scanning; scanned: the slot is given back; unlocked: the    *)
(* token is taken out, the caller still counted in refs.                   *)
Steps == {"idle", "locking", "locked", "waiting", "scanning", "scanned", "unlocked"}

Init ==
    /\ at = [c \in Callers |-> "idle"]
    /\ file = [c \in Callers |-> NoFile]
    /\ mine = [c \in Callers |-> NoLock]
    /\ table = [f \in Files |-> NoLock]
    /\ refs = [l \in Locks |-> 0]
    /\ token = [l \in Locks |-> NoCaller]
    /\ limit \in Limits
    /\ running = 0
    /\ waiters = <<>>
    /\ closed = {}

Go(c, step) == at' = [at EXCEPT ![c] = step]

-----------------------------------------------------------------------------
(* fileLocks.  An operator named Faulty... is the one after it with one    *)
(* plausible bug.                                                          *)

(* A call that uses no cache goes straight to the slots. *)
CallUncached(c) ==
    /\ at[c] = "idle"
    /\ Go(c, "locked")
    /\ UNCHANGED <<file, lockVars, slotVars>>

(* lock, under f.mu: the entry is found or made, and counted. *)
Call(c, f) ==
    /\ at[c] = "idle"
    /\ \E l \in Locks :
          /\ IF table[f] = NoLock THEN refs[l] = 0 /\ token[l] = NoCaller ELSE l = table[f]
          /\ table' = [table EXCEPT ![f] = l]
          /\ refs' = [refs EXCEPT ![l] = @ + 1]
          /\ mine' = [mine EXCEPT ![c] = l]
    /\ file' = [file EXCEPT ![c] = f]
    /\ Go(c, "locking")
    /\ UNCHANGED <<token, slotVars>>

(* The send that goes into the channel's one place. *)
TakeToken(c) ==
    /\ at[c] = "locking"
    /\ token[mine[c]] = NoCaller
    /\ token' = [token EXCEPT ![mine[c]] = c]
    /\ Go(c, "locked")
    /\ UNCHANGED <<file, mine, table, refs, slotVars>>

(* drop, under f.mu.  The faulty form forgets the entry whoever uses it.   *)
Dropped(c) == IF refs[mine[c]] = 1 THEN [table EXCEPT ![file[c]] = NoLock] ELSE table

Drop(c) ==
    /\ refs' = [refs EXCEPT ![mine[c]] = @ - 1]
    /\ table' = Dropped(c)
    /\ mine' = [mine EXCEPT ![c] = NoLock]
    /\ file' = [file EXCEPT ![c] = NoFile]
    /\ Go(c, "idle")
    /\ UNCHANGED <<token, slotVars>>

(* The context is canceled while the caller waits for the token. *)
CancelLocking(c) == at[c] = "locking" /\ Drop(c)

(* unlock: the token is taken out, then the entry dropped. *)
TakeOut(c) ==
    /\ at[c] = "scanned"
    /\ mine[c] # NoLock
    /\ token' = [token EXCEPT ![mine[c]] = NoCaller]
    /\ Go(c, "unlocked")
    /\ UNCHANGED <<file, mine, table, refs, slotVars>>

Unlocked(c) == at[c] = "unlocked" /\ Drop(c)

ReturnUncached(c) ==
    /\ at[c] = "scanned"
    /\ mine[c] = NoLock
    /\ Go(c, "idle")
    /\ UNCHANGED <<file, lockVars, slotVars>>

(* An answer that needs no scan (all cached), or an error before it. *)
SkipScan(c) ==
    /\ at[c] = "locked"
    /\ Go(c, "scanned")
    /\ UNCHANGED <<file, lockVars, slotVars>>

-----------------------------------------------------------------------------
(* slotLimiter *)

Free(run, lim, queue) ==
    IF run >= lim THEN 0 ELSE IF lim - run < Len(queue) THEN lim - run ELSE Len(queue)

(* admitLocked: the oldest waiters get the free slots, and so count as     *)
(* running before they have noticed.  The faulty forms let nobody in, and  *)
(* the newest first.                                                       *)
FaultyAdmit(run, lim, queue, granted) ==
    running' = run /\ waiters' = queue /\ closed' = granted
FaultyAdmitNewest(run, lim, queue, granted) ==
    LET n == Free(run, lim, queue)
        kept == Len(queue) - n
    IN  /\ running' = run + n
        /\ waiters' = SubSeq(queue, 1, kept)
        /\ closed' = granted \union {queue[i] : i \in kept + 1 .. Len(queue)}
Admit(run, lim, queue, granted) ==
    LET n == Free(run, lim, queue)
    IN  /\ running' = run + n
        /\ waiters' = SubSeq(queue, n + 1, Len(queue))
        /\ closed' = granted \union {queue[i] : i \in 1..n}

(* acquire, under l.mu. *)
MayEnter == running < limit /\ waiters = <<>>

Acquire(c) ==
    /\ at[c] = "locked"
    /\ \/ /\ MayEnter
          /\ running' = running + 1
          /\ Go(c, "scanning")
          /\ UNCHANGED waiters
       \/ /\ ~MayEnter
          /\ waiters' = Append(waiters, c)
          /\ Go(c, "waiting")
          /\ UNCHANGED running
    /\ UNCHANGED <<file, lockVars, limit, closed>>

(* The waiter's select sees its channel closed. *)
Enter(c) ==
    /\ at[c] = "waiting"
    /\ c \in closed
    /\ closed' = closed \ {c}
    /\ Go(c, "scanning")
    /\ UNCHANGED <<file, lockVars, limit, running, waiters>>

(* The waiter's select sees its context canceled: it leaves the queue, or, *)
(* when the slot was given in the same instant, gives it back.             *)
FaultyGivenBack == running
GivenBack == running - 1

Place(c) == {i \in 1..Len(waiters) : waiters[i] = c}
Without(i) == SubSeq(waiters, 1, i - 1) \o SubSeq(waiters, i + 1, Len(waiters))

CancelWaiting(c) ==
    /\ at[c] = "waiting"
    /\ \/ \E i \in Place(c) : waiters' = Without(i) /\ UNCHANGED <<running, closed>>
       \/ Place(c) = {} /\ Admit(GivenBack, limit, waiters, closed \ {c})
    /\ Go(c, "scanned")
    /\ UNCHANGED <<file, lockVars, limit>>

(* release: the scan has ended, with findings, an error or a cancel. *)
Release(c) ==
    /\ at[c] = "scanning"
    /\ Admit(running - 1, limit, waiters, closed)
    /\ Go(c, "scanned")
    /\ UNCHANGED <<file, lockVars, limit>>

SetLimit(n) ==
    /\ n # limit
    /\ limit' = n
    /\ Admit(running, n, waiters, closed)
    /\ UNCHANGED <<at, file, lockVars>>

-----------------------------------------------------------------------------

Next ==
    \/ \E c \in Callers :
          \/ CallUncached(c)
          \/ \E f \in Files : Call(c, f)
          \/ TakeToken(c) \/ CancelLocking(c) \/ SkipScan(c)
          \/ Acquire(c) \/ Enter(c) \/ CancelWaiting(c) \/ Release(c)
          \/ TakeOut(c) \/ Unlocked(c) \/ ReturnUncached(c)
    \/ \E n \in Limits : SetLimit(n)

Spec == Init /\ [][Next]_vars

(* Every goroutine that can go on does, and scans end.  A channel lets its *)
(* blocked senders in first come first served, so one that waits for the   *)
(* token is not passed over for ever.  Calls, cancels and SetMaxScans need *)
(* never happen.                                                           *)
FairSpec ==
    /\ Spec
    /\ \A c \in Callers :
          /\ SF_vars(TakeToken(c))
          /\ WF_vars(Acquire(c) \/ SkipScan(c))
          /\ WF_vars(Enter(c))
          /\ WF_vars(Release(c))
          /\ WF_vars(TakeOut(c) \/ Unlocked(c) \/ ReturnUncached(c))

-----------------------------------------------------------------------------
(* Properties *)

TypeOK ==
    /\ at \in [Callers -> Steps]
    /\ file \in [Callers -> Files \union {NoFile}]
    /\ mine \in [Callers -> Locks \union {NoLock}]
    /\ table \in [Files -> Locks \union {NoLock}]
    /\ refs \in [Locks -> Nat]
    /\ token \in [Locks -> Callers \union {NoCaller}]
    /\ limit \in Limits
    /\ running \in Nat
    /\ waiters \in Seq(Callers)
    /\ closed \in SUBSET Callers

HasLock(c) == file[c] # NoFile /\ at[c] \in {"locked", "waiting", "scanning", "scanned"}

(* One scan of a file at a time: no two callers hold the lock of one file, *)
(* though its entry leaves the table and is made anew (lock, drop).        *)
OneScanPerFile ==
    \A c, d \in Callers : c # d /\ HasLock(c) /\ HasLock(d) => file[c] # file[d]

(* The table of locks holds an entry exactly while a caller holds or waits *)
(* for it, so no file scanned once stays in it (lock, drop).               *)
TableHoldsUsersOnly ==
    \A f \in Files : (table[f] # NoLock) <=> (\E c \in Callers : file[c] = f)

(* Every slot counted is one a caller has or is about to notice, also when *)
(* a cancel comes in the instant of the grant: slots are neither lost nor  *)
(* given twice (acquire, releaseLocked, admitLocked).                      *)
SlotsAreAccounted ==
    running = Cardinality({c \in Callers : at[c] = "scanning"}) + Cardinality(closed)

(* No slot stays free while a caller waits for one, whatever the order of  *)
(* releases, cancels and limit changes: no wake-up is lost.                *)
NoIdleSlot == waiters # <<>> => running >= limit

(* The bookkeeping of the queue is right: the locks, one scan of a file,   *)
(* the slots, and no wake-up lost.                                         *)
QueueInv == TypeOK /\ OneScanPerFile /\ TableHoldsUsersOnly /\ SlotsAreAccounted /\ NoIdleSlot

(* A caller that comes later never gets a slot before one still waiting,   *)
(* and nobody is let in past the limit.                                    *)
HasSlot(c) == at[c] = "scanning" \/ c \in closed
FirstComeFirstServed ==
    [][\A c, w \in Callers : ~HasSlot(c) /\ HasSlot(c)' =>
          /\ running' <= limit'
          /\ Place(w) # {} /\ Place(w)' # {} => \E i \in Place(c), j \in Place(w) : i < j]_vars

(* A caller that waits gets its turn, or gives up: neither the file locks  *)
(* nor the slots ever wait for each other in a circle.                     *)
WaitEnds(c) == at[c] \in {"locking", "waiting"} ~> at[c] \in {"scanning", "scanned", "idle"}

=============================================================================

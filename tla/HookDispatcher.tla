--------------------------- MODULE HookDispatcher ---------------------------
(***************************************************************************)
(* The webhook dispatcher (internal/hooks/dispatcher.go): trace goroutines *)
(* that put events on a bounded channel and never wait, workers that send  *)
(* them, and Close, which lets the workers drain the channel.  A step is   *)
(* what runs between two operations on the closed flag, the channel, the   *)
(* sync.Once or the wait group.  A panic that nothing recovers ends the    *)
(* program; crash says which one.                                          *)
(***************************************************************************)
EXTENDS Integers, Sequences, FiniteSets

CONSTANTS
    Events,      \* one call of enqueue each, in a goroutine of a trace
    Workers,     \* the worker pool
    Closers,     \* goroutines that call Close
    NoEvent,     \* what an idle worker holds
    QueueDepth   \* DispatcherConfig.QueueDepth

DispatcherAssumption ==
    /\ NoEvent \notin Events
    /\ Workers # {}
    /\ QueueDepth \in Nat \ {0}

VARIABLES
    fate,        \* [Events -> Fates] how far each event has got
    queue,       \* what the channel holds
    open,        \* the channel has not been closed
    closed,      \* the closed flag
    once,        \* stopOnce: "fresh", "running" or "done"
    worker,      \* [Workers -> [alive, event]]
    closer,      \* [Closers -> CloseSteps]
    stopped,     \* the stopped channel is closed: Wait returns
    crash        \* the panic that ended the program, "none" while it runs

vars == <<fate, queue, open, closed, once, worker, closer, stopped, crash>>

(* new: not fired yet; checked: enqueue has read closed = false.           *)
Fates == {"new", "checked", "queued", "sending", "sent", "dropped"}
CloseSteps == {"idle", "stored", "waiting", "returned"}
Crashes == {"none", "send on closed channel", "close of closed channel"}

Init ==
    /\ fate = [e \in Events |-> "new"]
    /\ queue = <<>>
    /\ open = TRUE
    /\ closed = FALSE
    /\ once = "fresh"
    /\ worker = [w \in Workers |-> [alive |-> TRUE, event |-> NoEvent]]
    /\ closer = [c \in Closers |-> "idle"]
    /\ stopped = FALSE
    /\ crash = "none"

Up == crash = "none"

-----------------------------------------------------------------------------
(* enqueue.  An operator named Faulty... is the one after it with one      *)
(* plausible bug.                                                          *)

(* closed.Load(): after Close the event is dropped quietly. *)
Check(e) ==
    /\ Up
    /\ fate[e] = "new"
    /\ fate' = [fate EXCEPT ![e] = IF closed THEN "dropped" ELSE "checked"]
    /\ UNCHANGED <<queue, open, closed, once, worker, closer, stopped, crash>>

(* The select: a closed channel panics, a full one drops the event. *)
HasRoom == Len(queue) < QueueDepth

Send(e) ==
    /\ Up
    /\ fate[e] = "checked"
    /\ \/ /\ ~open
          /\ crash' = "send on closed channel"
          /\ UNCHANGED <<fate, queue>>
       \/ /\ open /\ HasRoom
          /\ queue' = Append(queue, e)
          /\ fate' = [fate EXCEPT ![e] = "queued"]
          /\ UNCHANGED crash
       \/ /\ open /\ ~HasRoom
          /\ fate' = [fate EXCEPT ![e] = "dropped"]
          /\ UNCHANGED <<queue, crash>>
    /\ UNCHANGED <<open, closed, once, worker, closer, stopped>>

-----------------------------------------------------------------------------
(* worker: it ranges over the channel, which ends when the channel is      *)
(* closed and empty.                                                       *)

Rest == Tail(queue)

Take(w) ==
    /\ Up
    /\ worker[w].alive
    /\ worker[w].event = NoEvent
    /\ queue # <<>>
    /\ worker' = [worker EXCEPT ![w].event = Head(queue)]
    /\ queue' = Rest
    /\ fate' = [fate EXCEPT ![Head(queue)] = "sending"]
    /\ UNCHANGED <<open, closed, once, closer, stopped, crash>>

(* fire ends with an answer, an error or the client's timeout. *)
Fire(w) ==
    /\ Up
    /\ worker[w].event # NoEvent
    /\ fate' = [fate EXCEPT ![worker[w].event] = "sent"]
    /\ worker' = [worker EXCEPT ![w].event = NoEvent]
    /\ UNCHANGED <<queue, open, closed, once, closer, stopped, crash>>

FaultyDrained == ~open
Drained == ~open /\ queue = <<>>

Exit(w) ==
    /\ Up
    /\ worker[w].alive
    /\ worker[w].event = NoEvent
    /\ Drained
    /\ worker' = [worker EXCEPT ![w].alive = FALSE]
    /\ UNCHANGED <<fate, queue, open, closed, once, closer, stopped, crash>>

-----------------------------------------------------------------------------
(* Close *)

(* stopOnce.Do runs its body once; the flag first. *)
Store(c) ==
    /\ Up
    /\ closer[c] = "idle"
    /\ once = "fresh"
    /\ once' = "running"
    /\ closed' = TRUE
    /\ closer' = [closer EXCEPT ![c] = "stored"]
    /\ UNCHANGED <<fate, queue, open, worker, stopped, crash>>

CloseQueue(c) ==
    /\ Up
    /\ closer[c] = "stored"
    /\ open' = FALSE
    /\ once' = "done"
    /\ closer' = [closer EXCEPT ![c] = "waiting"]
    /\ UNCHANGED <<fate, queue, closed, worker, stopped, crash>>

(* A later Close waits until the first has run the body, then skips it. *)
SkipBody(c) ==
    /\ Up
    /\ closer[c] = "idle"
    /\ once = "done"
    /\ closer' = [closer EXCEPT ![c] = "waiting"]
    /\ UNCHANGED <<fate, queue, open, closed, once, worker, stopped, crash>>

(* wg.Wait, then close(d.stopped), which no Once guards. *)
FaultyAllGone == \A w \in Workers : worker[w].event = NoEvent
AllGone == \A w \in Workers : ~worker[w].alive

CloseStopped(c) ==
    /\ Up
    /\ closer[c] = "waiting"
    /\ AllGone
    /\ \/ /\ ~stopped
          /\ stopped' = TRUE
          /\ closer' = [closer EXCEPT ![c] = "returned"]
          /\ UNCHANGED crash
       \/ /\ stopped
          /\ crash' = "close of closed channel"
          /\ UNCHANGED <<stopped, closer>>
    /\ UNCHANGED <<fate, queue, open, closed, once, worker>>

-----------------------------------------------------------------------------

Next ==
    \/ \E e \in Events : Check(e) \/ Send(e)
    \/ \E w \in Workers : Take(w) \/ Fire(w) \/ Exit(w)
    \/ \E c \in Closers : Store(c) \/ CloseQueue(c) \/ SkipBody(c) \/ CloseStopped(c)

Spec == Init /\ [][Next]_vars

(* The workers and a Close that has begun go on; fire ends by its timeout. *)
FairSpec ==
    /\ Spec
    /\ \A w \in Workers : WF_vars(Take(w) \/ Fire(w) \/ Exit(w))
    /\ \A c \in Closers : WF_vars(CloseQueue(c)) /\ WF_vars(CloseStopped(c))

-----------------------------------------------------------------------------
(* Properties *)

TypeOK ==
    /\ fate \in [Events -> Fates]
    /\ queue \in Seq(Events) /\ Len(queue) <= QueueDepth
    /\ open \in BOOLEAN
    /\ closed \in BOOLEAN
    /\ once \in {"fresh", "running", "done"}
    /\ worker \in [Workers -> [alive : BOOLEAN, event : Events \union {NoEvent}]]
    /\ closer \in [Closers -> CloseSteps]
    /\ stopped \in BOOLEAN
    /\ crash \in Crashes

(* The types, and: every event that was accepted is in one place, once in  *)
(* the channel or in the hands of one worker (enqueue, worker).            *)
AcceptedIsInOnePlace ==
    /\ TypeOK
    /\ \A e \in Events :
        /\ Cardinality({i \in 1..Len(queue) : queue[i] = e}) = (IF fate[e] = "queued" THEN 1 ELSE 0)
        /\ Cardinality({w \in Workers : worker[w].event = e}) = (IF fate[e] = "sending" THEN 1 ELSE 0)

(* Wait returns only when every accepted event has been sent: `rx trace`   *)
(* exits after it, and an event still queued or in flight would be lost    *)
(* (Close, Wait; also for a trace goroutine that races with Close).        *)
WaitMeansSent == stopped => \A e \in Events : fate[e] \notin {"queued", "sending"}

(* An accepted event is sent even when Close comes right after it, unless  *)
(* the program has crashed.                                                *)
IsSent(e) == fate[e] = "queued" ~> (fate[e] = "sent" \/ ~Up)
AcceptedIsSent == \A e \in Events : IsSent(e)

(* A Close that has begun returns. *)
Returns(c) == closer[c] \in {"stored", "waiting"} ~> (closer[c] = "returned" \/ ~Up)
CloseReturns == \A c \in Closers : Returns(c)

(* Close's comment: an enqueue that races with it sends to the still open  *)
(* channel or sees the flag, "avoiding a send-on-closed panic".            *)
NoSendOnClosed == crash # "send on closed channel"

=============================================================================

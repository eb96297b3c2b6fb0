------------------------------ MODULE Sweeper ------------------------------
(***************************************************************************)
(* The life of the task manager's sweeper goroutine: Manager.Start, Stop   *)
(* and sweeperLoop (internal/tasks/manager.go).  SweptManager joins it to  *)
(* the table that TaskManager describes.  None of these methods holds      *)
(* Manager.mu: a step is what runs between two operations on the started   *)
(* flag, the sync.Once or one of the two channels.                         *)
(***************************************************************************)
EXTENDS Integers

CONSTANTS
    Starters,   \* goroutines that call Start
    Stoppers    \* goroutines that call Stop

VARIABLES
    once,       \* sweeperOnce: "fresh", "running" or "done"
    started,    \* the started flag
    loop,       \* the sweeper goroutine
    launched,   \* how many sweeper goroutines were started
    cancel,     \* sweeperCancel is closed
    at,         \* [Starters \union Stoppers -> Steps] how far each call has got
    saw,        \* the Stoppers that found the flag set
    crash       \* a second close has ended the program

vars == <<once, started, loop, launched, cancel, at, saw, crash>>

Loops == {"none", "idle", "sweeping", "exited"}
Steps == {"idle", "flagged", "looking", "closing", "waiting", "returned"}
Goroutines == Starters \union Stoppers

Init ==
    /\ once = "fresh"
    /\ started = FALSE
    /\ loop = "none"
    /\ launched = 0
    /\ cancel = FALSE
    /\ at = [c \in Goroutines |-> "idle"]
    /\ saw = {}
    /\ crash = FALSE

Goes(c, step) == ~crash /\ at' = [at EXCEPT ![c] = step]

-----------------------------------------------------------------------------
(* Start.  An operator named Faulty... is the one after it with one        *)
(* plausible bug.                                                          *)

MayRun == once = "fresh"

Flag(c) ==
    /\ at[c] = "idle"
    /\ MayRun
    /\ Goes(c, "flagged")
    /\ once' = "running"
    /\ started' = TRUE
    /\ UNCHANGED <<loop, launched, cancel, saw, crash>>

Launch(c) ==
    /\ at[c] = "flagged"
    /\ Goes(c, "returned")
    /\ once' = "done"
    /\ launched' = launched + 1
    /\ loop' = "idle"
    /\ UNCHANGED <<started, cancel, saw, crash>>

(* A later Start waits for the first to run the body, and does nothing. *)
StartAgain(c) ==
    /\ at[c] = "idle"
    /\ ~MayRun
    /\ once = "done"
    /\ Goes(c, "returned")
    /\ UNCHANGED <<once, started, loop, launched, cancel, saw, crash>>

-----------------------------------------------------------------------------
(* Stop *)

LoadFlag(c) ==
    /\ at[c] = "idle"
    /\ Goes(c, IF started THEN "looking" ELSE "returned")
    /\ saw' = IF started THEN saw \union {c} ELSE saw
    /\ UNCHANGED <<once, started, loop, launched, cancel, crash>>

(* The select: its default is a step before the close it leads to. *)
Select(c) ==
    /\ at[c] = "looking"
    /\ Goes(c, IF cancel THEN "waiting" ELSE "closing")
    /\ UNCHANGED <<once, started, loop, launched, cancel, saw, crash>>

CloseCancel(c) ==
    /\ at[c] = "closing"
    /\ IF cancel THEN ~crash /\ crash' = TRUE /\ UNCHANGED <<at, cancel>>
                 ELSE Goes(c, "waiting") /\ cancel' = TRUE /\ UNCHANGED crash
    /\ UNCHANGED <<once, started, loop, launched, saw>>

FaultySweeperDone == cancel
SweeperDone == loop = "exited"

StopReturn(c) ==
    /\ at[c] = "waiting"
    /\ SweeperDone
    /\ Goes(c, "returned")
    /\ UNCHANGED <<once, started, loop, launched, cancel, saw, crash>>

-----------------------------------------------------------------------------
(* sweeperLoop *)

(* The ticker has fired; TaskManager!Sweep is what SweepEnds then does to  *)
(* the table.                                                              *)
SweepStarts ==
    /\ ~crash
    /\ loop = "idle"
    /\ loop' = "sweeping"
    /\ UNCHANGED <<once, started, launched, cancel, at, saw, crash>>

SweepEnds ==
    /\ ~crash
    /\ loop = "sweeping"
    /\ loop' = "idle"
    /\ UNCHANGED <<once, started, launched, cancel, at, saw, crash>>

LoopExits == cancel

Exit ==
    /\ ~crash
    /\ loop = "idle"
    /\ LoopExits
    /\ loop' = "exited"
    /\ UNCHANGED <<once, started, launched, cancel, at, saw, crash>>

(* Everything but SweepEnds, which is one step with the sweep. *)
Lives ==
    \/ \E c \in Starters : Flag(c) \/ Launch(c) \/ StartAgain(c)
    \/ \E c \in Stoppers : LoadFlag(c) \/ Select(c) \/ CloseCancel(c) \/ StopReturn(c)
    \/ SweepStarts
    \/ Exit

TypeOK ==
    /\ once \in {"fresh", "running", "done"}
    /\ started \in BOOLEAN
    /\ loop \in Loops
    /\ launched \in Nat
    /\ cancel \in BOOLEAN
    /\ at \in [Goroutines -> Steps]
    /\ saw \in SUBSET Stoppers
    /\ crash \in BOOLEAN

=============================================================================

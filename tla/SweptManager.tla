---------------------------- MODULE SweptManager ----------------------------
(***************************************************************************)
(* The task manager with its sweeper goroutine: TaskManager's table, where *)
(* a sweep happens only while the goroutine of Sweeper is sweeping, and    *)
(* handlers, workers, Starts and Stops go on around it                     *)
(* (internal/tasks/manager.go).                                            *)
(***************************************************************************)
EXTENDS TaskManager

CONSTANTS
    Starters,   \* goroutines that call Start
    Stoppers    \* goroutines that call Stop

VARIABLES once, started, loop, launched, cancel, at, saw, crash

lifeVars == <<once, started, loop, launched, cancel, at, saw, crash>>
sweptVars == <<vars, lifeVars>>

Life == INSTANCE Sweeper

SweptInit == Init /\ Life!Init

(* m.sweep: it holds Manager.mu throughout, and may find nothing to drop. *)
RunSweep ==
    /\ Life!SweepEnds
    /\ \/ Sweep
       \/ (\A t \in known : ~Expired(t)) /\ UNCHANGED vars

SweptNext ==
    \/ ~crash /\ Calls /\ UNCHANGED lifeVars
    \/ ~crash /\ Tick /\ UNCHANGED lifeVars
    \/ Life!Lives /\ UNCHANGED vars
    \/ RunSweep

SweptSpec == SweptInit /\ [][SweptNext]_sweptVars

(* Goroutines and the clock go on.  A tick and the cancel can both be      *)
(* ready: select picks one at random, so the cancel is not passed over for *)
(* ever.                                                                   *)
FairSpec ==
    /\ SweptSpec
    /\ WF_sweptVars(~crash /\ Tick /\ UNCHANGED lifeVars)
    /\ WF_sweptVars((Life!SweepStarts /\ UNCHANGED vars) \/ RunSweep)
    /\ SF_sweptVars(Life!Exit /\ UNCHANGED vars)
    /\ \A c \in Starters : WF_sweptVars(Life!Launch(c) /\ UNCHANGED vars)
    /\ \A c \in Stoppers :
          WF_sweptVars((Life!Select(c) \/ Life!CloseCancel(c) \/ Life!StopReturn(c))
                       /\ UNCHANGED vars)

-----------------------------------------------------------------------------
(* Properties *)

(* The types, and: two Starts, however they overlap with each other and    *)
(* with Stops, launch one goroutine (sweeperOnce); a second would close    *)
(* sweeperDone again.                                                      *)
OneSweeper ==
    /\ TypeOK /\ Life!TypeOK
    /\ launched <= 1 /\ (loop # "none" => launched = 1)

(* After a Stop that found the sweeper started has returned, no sweep      *)
(* touches the table, also when the goroutine had not been launched yet    *)
(* when Stop looked: only a create drops tasks from then on.               *)
NoSweepAfterStop ==
    [][(\E c \in saw : at[c] = "returned") /\ known' \subseteq known => known' = known]_sweptVars

(* A Stop that waits for the sweeper returns, also one that came between   *)
(* the flag and the launch, unless two Stops at once have ended the        *)
(* program.                                                                *)
Returns(c) == c \in saw ~> (at[c] = "returned" \/ crash)
StopReturns == \A c \in Stoppers : Returns(c)

(* A finished task does not stay for ever once the sweeper is started: it  *)
(* leaves the table when its TTL has passed, unless the sweeper is stopped *)
(* (checked for the ends early enough for the clock's bound).              *)
FinishedIsForgotten ==
    \A t \in TaskIds :
        (IsTerminal(t) /\ task[t].completedAt + TTL < MaxNow /\ started)
            ~> (t \notin known \/ cancel \/ crash)

=============================================================================

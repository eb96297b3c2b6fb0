----------------------------- MODULE TaskTable -----------------------------
(***************************************************************************)
(* What the task manager promises its callers, without how it keeps the    *)
(* promise: a task holds its keys from the moment it starts until the      *)
(* moment it ends, no two live tasks hold one key, and a task ends once.   *)
(* TaskManager implements this module (see TaskManager!Promise), and       *)
(* IndexBuilds is written against it.                                      *)
(***************************************************************************)

CONSTANTS
    TaskIds,    \* the ids uuid.NewString hands out
    Keys        \* what a task can hold: paths, <<operation, path>>, chain keys

VARIABLES
    outcome,    \* [TaskIds -> Outcomes] how far each task has got
    holds       \* [TaskIds -> SUBSET Keys] the keys each task was created with

tableVars == <<outcome, holds>>

Ends == {"completed", "failed", "cancelled"}
Outcomes == {"unused", "live"} \union Ends

(* The live task that holds key k, as a set of none or one. *)
HoldersOf(k) == {t \in TaskIds : outcome[t] = "live" /\ k \in holds[t]}

TableInit ==
    /\ outcome = [t \in TaskIds |-> "unused"]
    /\ holds = [t \in TaskIds |-> {}]

(* Every key is taken at once, or none is. *)
Start(t, held) ==
    /\ outcome[t] = "unused"
    /\ \A k \in held : HoldersOf(k) = {}
    /\ outcome' = [outcome EXCEPT ![t] = "live"]
    /\ holds' = [holds EXCEPT ![t] = held]

End(t, e) ==
    /\ outcome[t] = "live"
    /\ outcome' = [outcome EXCEPT ![t] = e]
    /\ holds' = holds

TableNext ==
    \E t \in TaskIds :
        \/ \E held \in SUBSET Keys : Start(t, held)
        \/ \E e \in Ends : End(t, e)

TableSpec == TableInit /\ [][TableNext]_tableVars

=============================================================================

--------------------------- MODULE MCTaskManager ---------------------------
(* TaskManager on a small instance: three tasks, two paths, one operation. *)
EXTENDS TaskManager, TLC

CONSTANTS t1, t2, t3, p1, p2, index, chain

TaskSymmetry == Permutations({t1, t2, t3}) \union Permutations({p1, p2})

=============================================================================

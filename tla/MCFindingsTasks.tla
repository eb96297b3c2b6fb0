-------------------------- MODULE MCFindingsTasks --------------------------
(* FindingsTasks with two posts for a file, or for its directory. *)
EXTENDS FindingsTasks

CONSTANTS p1, p2, fa, fb, dir

ScanOf(f) == [op |-> "findings", dir |-> FALSE, path |-> f, files |-> <<f>>, force |-> FALSE]
ScanAll == [op |-> "findings", dir |-> TRUE, path |-> dir, files |-> <<fa, fb>>, force |-> FALSE]
IndexAll == [op |-> "index", dir |-> TRUE, path |-> dir, files |-> <<fa>>, force |-> FALSE]

Rescan == [ScanOf(fb) EXCEPT !.force = TRUE]

Choices == <<ScanOf(fa), Rescan, ScanAll, IndexAll>>
SomeKeys == {<<Choices[i].op, Choices[i].path>> : i \in DOMAIN Choices}

\* Every pair of them; p1 and p2 are alike, so one order of a pair is enough.
SomeAsked == {[p \in Posts |-> IF p = p1 THEN Choices[i] ELSE Choices[j]] :
                <<i, j>> \in {x \in (1..4) \X (1..4) : x[1] <= x[2]}}

\* One place and no cache, or two places, so that two scans meet.
SomeSettings == {<<1, FALSE>>, <<2, TRUE>>}
=============================================================================

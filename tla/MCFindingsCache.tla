-------------------------- MODULE MCFindingsCache --------------------------
(* FindingsCache on small instances.  Every version of the file gives as   *)
(* many findings as the others, so the counts meta.json records never help *)
(* a reader to tell two texts apart.                                       *)
EXTENDS FindingsCache

CONSTANTS p1, p2, s1, s2, c1, c2

(* Every call, and calls that ask for one signature, for both, and for one *)
(* under other settings.                                                   *)
AllAsked == Scopes \X (SUBSET Sigs \ {{}})
SomeAsked == {<<c1, {s1}>>, <<c1, {s1, s2}>>, <<c2, {s2}>>}

Grows == [v \in Versions |-> v]
SameCounts == [v \in Versions |-> 1]

(* A bound of the instance: the second process does not force a scan, asks *)
(* for one signature, and scans while the reader rests and holds nothing.   *)
SecondIsSmall ==
    \A p \in Scanners \ {p1} : scan[p].at # "idle" =>
        /\ ~scan[p].force
        /\ Cardinality(scan[p].sel) = 1
        /\ \A r \in Readers : reading[r].at = "idle"
        /\ held = NothingKept
(* A bound of the instance: reads are under the settings c1; scans are     *)
(* under either.                                                           *)
ReadsUnderOne == \A r \in Readers : reading[r].scope # c2
BoundedSpec == Init /\ [][Next /\ NoLateCommit' /\ SecondIsSmall' /\ ReadsUnderOne']_vars

=============================================================================

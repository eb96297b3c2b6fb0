--------------------------- MODULE SequentialScan ---------------------------
(***************************************************************************)
(* What a signature scan promises (sigscan.Scan): the pieces of a text are *)
(* read one after the other, and the scan ends with a result of all of     *)
(* them, with the error of a piece that cannot be read, or, once its       *)
(* context is canceled, with no result.                                    *)
(***************************************************************************)
EXTENDS Naturals, Sequences

CONSTANT NoPiece        \* no piece is damaged

VARIABLES pieces,       \* how many pieces the text has
          damaged,      \* the piece that cannot be read, or NoPiece
          merged,       \* the pieces read so far, in the order they were read
          canceled,     \* the caller canceled the scan
          answer        \* "none", "result", "failed", "canceled"

vars == <<pieces, damaged, merged, canceled, answer>>

Init ==
    /\ pieces \in Nat \ {0}
    /\ damaged \in (0 .. pieces - 1) \union {NoPiece}
    /\ merged = << >>
    /\ canceled = FALSE
    /\ answer = "none"

ReadNext ==
    /\ answer = "none"
    /\ Len(merged) < pieces
    /\ Len(merged) # damaged
    /\ merged' = Append(merged, Len(merged))
    /\ UNCHANGED <<pieces, damaged, canceled, answer>>

Cancel ==
    /\ answer = "none"
    /\ canceled' = TRUE
    /\ UNCHANGED <<pieces, damaged, merged, answer>>

\* A piece that cannot be read is noticed by whoever reads ahead of the merge,
\* so the scan may fail before it gets there.
End ==
    /\ answer = "none"
    /\ \/ canceled /\ answer' = "canceled"
       \/ ~canceled /\ damaged # NoPiece /\ answer' = "failed"
       \/ ~canceled /\ Len(merged) = pieces /\ answer' = "result"
    /\ UNCHANGED <<pieces, damaged, merged, canceled>>

Next == ReadNext \/ Cancel \/ End

Spec == Init /\ [][Next]_vars

Fairness == WF_vars(ReadNext) /\ WF_vars(End)

=============================================================================

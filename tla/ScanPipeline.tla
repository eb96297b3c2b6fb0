---------------------------- MODULE ScanPipeline ----------------------------
(***************************************************************************)
(* The goroutines of one signature scan (internal/sigscan: scan.go,        *)
(* stream.go).                                                             *)
(*                                                                         *)
(* A plain or seekable file is cut into planned chunks: a dispatcher takes *)
(* a token of `window` for a chunk and hands it to a worker that waits on  *)
(* the unbuffered channel `work`.  A stream is cut into batches by one     *)
(* decoder, which needs a buffer for each, and sends them on the buffered  *)
(* channel `batches`.  The workers walk what they get and send an outcome  *)
(* on `results`; the scan's own goroutine merges the outcomes in order and *)
(* gives the token, or the buffer, back.  The first error, or a cancel     *)
(* from outside, cancels the derived context, and every goroutine has      *)
(* ended before the scan answers.                                          *)
(***************************************************************************)
EXTENDS Integers, Sequences, FiniteSets

CONSTANTS Workers,      \* the number of walking goroutines the options ask for
          PerWorker,    \* tuning.inFlightPerWorker
          Lengths,      \* bound: how many chunks or batches a text is cut into
          Damages,      \* bound: the pieces that may be damaged
          NoPiece

PipelineAssumption ==
    /\ Workers \in Nat \ {0}
    /\ PerWorker \in Nat \ {0}
    /\ Lengths \subseteq Nat \ {0}
    /\ Damages \subseteq Nat
    /\ NoPiece \notin Nat

VARIABLES source,       \* "chunks" or "stream"
          pieces,       \* how many chunks, or batches, the text has
          damaged,      \* the piece that cannot be read, walked or decoded, or NoPiece
          where,        \* which step meets the damage: "walk", "replay", "decode"
          canceled,     \* the caller canceled its context
          stopped,      \* the derived context is done
          producer,     \* the dispatcher or the decoder: where it is, and its next piece
          window,       \* tokens in the window channel
          batches,      \* the batches channel
          closed,       \* work, or batches, is closed
          ended,        \* the ended channel: the decoder's report
          worker,       \* the walking goroutines
          results,      \* the results channel
          merger,       \* mergeInOrder, and what follows it
          pending,      \* outcomes that wait for their turn
          merged,       \* the pieces merged, in the order of the merge
          free,         \* the free channel of the decoder
          content,      \* what each buffer made so far holds
          bufferOf,     \* the buffer of each batch sent
          answer

control == <<source, pieces, damaged, where>>
context == <<canceled, stopped>>
buffers == <<free, content, bufferOf>>
producing == <<producer, window, batches, closed, ended>>
merging == <<merger, pending, merged>>
vars == <<control, context, producing, worker, results, merging, buffers, answer>>

None == -1              \* no piece, no known total

\* runChunks never starts more workers than there are chunks.
Active == 1 .. (IF source = "chunks" /\ pieces < Workers THEN pieces ELSE Workers)
Count == Cardinality(Active)

MaxBufs == PerWorker * Count + 2

Init ==
    /\ source \in {"chunks", "stream"}
    /\ pieces \in Lengths
    /\ damaged \in {s \in Damages : s < pieces} \union {NoPiece}
    /\ where \in IF damaged = NoPiece THEN {"walk"}
                 ELSE IF source = "chunks" THEN {"walk", "replay"} ELSE {"decode"}
    /\ canceled = FALSE
    /\ stopped = FALSE
    /\ producer = [at |-> "acquire", seq |-> 0, buffer |-> None, report |-> "ok"]
    /\ window = 0
    /\ batches = << >>
    /\ closed = FALSE
    /\ ended = << >>
    /\ worker = [w \in Active |-> [at |-> "wait", seq |-> None, ok |-> TRUE]]
    /\ results = << >>
    /\ merger = [at |-> "receive", next |-> 0, err |-> FALSE,
                 total |-> IF source = "chunks" THEN pieces ELSE None]
    /\ pending = {}
    /\ merged = << >>
    /\ free = << >>
    /\ content = << >>
    /\ bufferOf = [s \in 0 .. pieces - 1 |-> None]
    /\ answer = "none"

\* The caller's cancel reaches the derived context at once.
Cancel ==
    /\ answer = "none" /\ ~canceled
    /\ canceled' = TRUE /\ stopped' = TRUE
    /\ UNCHANGED <<control, producing, worker, results, merging, buffers, answer>>

-----------------------------------------------------------------------------
(* The dispatcher of runChunks. *)

DispatcherTakesToken ==
    /\ source = "chunks" /\ producer.at = "acquire" /\ producer.seq < pieces
    /\ window < PerWorker * Count
    /\ window' = window + 1
    /\ producer' = [producer EXCEPT !.at = "send"]
    /\ UNCHANGED <<control, context, batches, closed, ended, worker, results, merging, buffers, answer>>

\* work is unbuffered: the send and a worker's receive are one step.
DispatcherHandsOver(w) ==
    /\ source = "chunks" /\ producer.at = "send"
    /\ worker[w].at = "wait"
    /\ worker' = [worker EXCEPT ![w] = [at |-> "walk", seq |-> producer.seq, ok |-> TRUE]]
    /\ producer' = [producer EXCEPT !.at = "acquire", !.seq = @ + 1]
    /\ UNCHANGED <<control, context, window, batches, closed, ended, results, merging, buffers, answer>>

DispatcherEnds ==
    /\ source = "chunks" /\ producer.at \in {"acquire", "send"}
    /\ stopped \/ producer.seq = pieces
    /\ producer' = [producer EXCEPT !.at = "gone"]
    /\ closed' = TRUE
    /\ UNCHANGED <<control, context, window, batches, ended, worker, results, merging, buffers, answer>>

-----------------------------------------------------------------------------
(* The decoder of runStream: decoder.run, acquire and nextBatch. *)

DecoderReuses ==
    /\ source = "stream" /\ producer.at \in {"acquire", "blocked"}
    /\ free # << >>
    /\ producer' = [producer EXCEPT !.at = "fill", !.buffer = Head(free)]
    /\ free' = Tail(free)
    /\ UNCHANGED <<control, context, window, batches, closed, ended, worker, results, merging,
                   content, bufferOf, answer>>

DecoderMakes ==
    /\ source = "stream" /\ producer.at = "acquire"
    /\ free = << >> /\ Len(content) < MaxBufs
    /\ content' = Append(content, None)
    /\ producer' = [producer EXCEPT !.at = "fill", !.buffer = Len(content) + 1]
    /\ UNCHANGED <<control, context, window, batches, closed, ended, worker, results, merging,
                   free, bufferOf, answer>>

\* Every buffer is made and none is free: the decoder waits for the merge.
DecoderBlocks ==
    /\ source = "stream" /\ producer.at = "acquire"
    /\ free = << >> /\ Len(content) = MaxBufs
    /\ producer' = [producer EXCEPT !.at = "blocked"]
    /\ UNCHANGED <<control, context, window, batches, closed, ended, worker, results, merging,
                   buffers, answer>>

\* run returns, with the error that ended it if there was one.
DecoderReturns(report) ==
    /\ producer' = [producer EXCEPT !.at = "close", !.report = report]
    /\ UNCHANGED <<control, context, window, batches, closed, ended, worker, results, merging, answer>>

DecoderGivesUp ==
    /\ source = "stream" /\ stopped
    /\ producer.at \in {"blocked", "send"}
    /\ DecoderReturns("canceled")
    /\ UNCHANGED buffers

DecoderFills ==
    /\ source = "stream" /\ producer.at = "fill"
    /\ ~(where = "decode" /\ damaged = producer.seq)
    /\ content' = [content EXCEPT ![producer.buffer] = producer.seq]
    /\ bufferOf' = [bufferOf EXCEPT ![producer.seq] = producer.buffer]
    /\ producer' = [producer EXCEPT !.at = "send"]
    /\ UNCHANGED <<control, context, window, batches, closed, ended, worker, results, merging,
                   free, answer>>

DecoderFails ==
    /\ source = "stream" /\ producer.at = "fill"
    /\ where = "decode" /\ damaged = producer.seq
    /\ DecoderReturns("failed")
    /\ UNCHANGED buffers

DecoderSends ==
    /\ source = "stream" /\ producer.at = "send"
    /\ Len(batches) < Count
    /\ batches' = Append(batches, producer.seq)
    /\ producer' = [producer EXCEPT !.seq = @ + 1,
                                    !.at = IF producer.seq = pieces - 1 THEN "close" ELSE "acquire"]
    /\ UNCHANGED <<control, context, window, closed, ended, worker, results, merging, buffers, answer>>

DecoderCloses ==
    /\ source = "stream" /\ producer.at = "close"
    /\ closed' = TRUE
    /\ producer' = [producer EXCEPT !.at = "report"]
    /\ UNCHANGED <<control, context, window, batches, ended, worker, results, merging, buffers, answer>>

DecoderReports ==
    /\ source = "stream" /\ producer.at = "report"
    /\ ended = << >>
    /\ ended' = << [batches |-> producer.seq, ok |-> producer.report = "ok"] >>
    /\ producer' = [producer EXCEPT !.at = "gone"]
    /\ UNCHANGED <<control, context, window, batches, closed, worker, results, merging, buffers, answer>>

-----------------------------------------------------------------------------
(* The workers. *)

WorkerTakesBatch(w) ==
    /\ worker[w].at = "wait" /\ batches # << >>
    /\ worker' = [worker EXCEPT ![w] = [at |-> "walk", seq |-> Head(batches), ok |-> TRUE]]
    /\ batches' = Tail(batches)
    /\ UNCHANGED <<control, context, producer, window, closed, ended, results, merging, buffers, answer>>

WorkerEnds(w) ==
    /\ worker[w].at = "wait" /\ batches = << >> /\ closed
    /\ worker' = [worker EXCEPT ![w].at = "gone"]
    /\ UNCHANGED <<control, context, producing, results, merging, buffers, answer>>

\* A chunk's walk looks at the context between two reads; a batch's does not.
WorkerWalks(w) ==
    /\ worker[w].at = "walk"
    /\ \E ok \in BOOLEAN :
        /\ ok => ~(where = "walk" /\ damaged = worker[w].seq)
        /\ ~ok => source = "chunks" /\ (stopped \/ (where = "walk" /\ damaged = worker[w].seq))
        /\ worker' = [worker EXCEPT ![w].at = "send", ![w].ok = ok]
    /\ UNCHANGED <<control, context, producing, results, merging, buffers, answer>>

WorkerSends(w) ==
    /\ worker[w].at = "send" /\ Len(results) < Count
    /\ results' = Append(results, [seq |-> worker[w].seq, ok |-> worker[w].ok])
    /\ worker' = [worker EXCEPT ![w] = [at |-> "wait", seq |-> None, ok |-> TRUE]]
    /\ UNCHANGED <<control, context, producing, merging, buffers, answer>>

WorkerGivesUp(w) ==
    /\ worker[w].at = "send" /\ stopped
    /\ worker' = [worker EXCEPT ![w].at = "gone"]
    /\ UNCHANGED <<control, context, producing, results, merging, buffers, answer>>

-----------------------------------------------------------------------------
(* mergeInOrder, and the end of runChunks, runStream and scanFile. *)

Unfinished == merger.total = None \/ merger.next < merger.total

\* A faulty form: outcomes are merged as they arrive.
FaultyReady == pending

\* The outcome that is merged next, if it is there.
Ready == {s \in pending : s = merger.next}

\* A faulty form: the buffer goes back as soon as its outcome is here.
FaultyMergeReceives ==
    /\ merger.at = "receive" /\ Unfinished /\ Ready = {}
    /\ results # << >> /\ Head(results).ok
    /\ results' = Tail(results)
    /\ pending' = pending \union {Head(results).seq}
    /\ free' = IF source = "stream" THEN Append(free, bufferOf[Head(results).seq]) ELSE free
    /\ UNCHANGED <<control, context, producing, worker, merger, merged, content, bufferOf, answer>>

MergeReceives ==
    /\ merger.at = "receive" /\ Unfinished /\ Ready = {}
    /\ results # << >>
    /\ results' = Tail(results)
    /\ IF Head(results).ok
       THEN pending' = pending \union {Head(results).seq} /\ UNCHANGED merger
       ELSE merger' = [merger EXCEPT !.at = "cancel", !.err = TRUE] /\ UNCHANGED pending
    /\ UNCHANGED <<control, context, producing, worker, merged, buffers, answer>>

\* The decoder's report says how many batches there are, or that it failed.
MergeLearnsTotal ==
    /\ merger.at = "receive" /\ Unfinished /\ Ready = {}
    /\ ended # << >>
    /\ ended' = << >>
    /\ merger' = IF Head(ended).ok THEN [merger EXCEPT !.total = Head(ended).batches]
                 ELSE [merger EXCEPT !.at = "cancel", !.err = TRUE]
    /\ UNCHANGED <<control, context, producer, window, batches, closed, worker, results, pending,
                   merged, buffers, answer>>

MergeIsCanceled ==
    /\ merger.at = "receive" /\ Unfinished /\ Ready = {}
    /\ stopped
    /\ merger' = [merger EXCEPT !.at = "cancel", !.err = TRUE]
    /\ UNCHANGED <<control, context, producing, worker, results, pending, merged, buffers, answer>>

\* m.add: it fails when the lines it walks again cannot be read, or when it
\* sees the context done while it walks them.
MergeAdds ==
    /\ merger.at = "receive"
    /\ \E s \in Ready :
        /\ pending' = pending \ {s}
        /\ \E ok \in BOOLEAN :
            /\ ok => ~(where = "replay" /\ damaged = s)
            /\ ~ok => stopped \/ (where = "replay" /\ damaged = s)
            /\ merged' = IF ok THEN Append(merged, s) ELSE merged
            /\ merger' = [merger EXCEPT !.at = "release", !.err = ~ok]
    /\ UNCHANGED <<control, context, producing, worker, results, buffers, answer>>

\* release: the chunk's token, or the batch's buffer, goes back.
GivesBack(s) ==
    IF source = "chunks"
    THEN window > 0 /\ window' = window - 1 /\ UNCHANGED free
    ELSE Len(free) < MaxBufs /\ free' = Append(free, bufferOf[s]) /\ UNCHANGED window

MergeReleases ==
    /\ merger.at = "release"
    /\ GivesBack(merger.next)
    /\ merger' = IF merger.err THEN [merger EXCEPT !.at = "cancel"]
                 ELSE [merger EXCEPT !.at = "receive", !.next = @ + 1]
    /\ UNCHANGED <<control, context, producer, batches, closed, ended, worker, results, pending,
                   merged, content, bufferOf, answer>>

MergeCancels ==
    /\ \/ merger.at = "receive" /\ ~Unfinished
       \/ merger.at = "cancel"
    /\ stopped' = TRUE
    /\ merger' = [merger EXCEPT !.at = "wait"]
    /\ UNCHANGED <<control, canceled, producing, worker, results, pending, merged, buffers, answer>>

AllGone == producer.at = "gone" /\ \A w \in Active : worker[w].at = "gone"

WaitsForAll ==
    /\ merger.at = "wait" /\ AllGone
    /\ merger' = [merger EXCEPT !.at = "answer"]
    /\ UNCHANGED <<control, context, producing, worker, results, pending, merged, buffers, answer>>

\* scanFile answers with the caller's cancel before it looks at the error.
Outcome == IF canceled THEN "canceled" ELSE IF merger.err THEN "failed" ELSE "result"

Answers ==
    /\ merger.at = "answer" /\ answer = "none"
    /\ answer' = Outcome
    /\ UNCHANGED <<control, context, producing, worker, results, merging, buffers>>

-----------------------------------------------------------------------------
Producer ==
    \/ DispatcherTakesToken \/ (\E w \in Active : DispatcherHandsOver(w)) \/ DispatcherEnds
    \/ DecoderReuses \/ DecoderMakes \/ DecoderBlocks \/ DecoderGivesUp \/ DecoderFills \/ DecoderFails
    \/ DecoderSends \/ DecoderCloses \/ DecoderReports

Worker(w) ==
    WorkerTakesBatch(w) \/ WorkerEnds(w) \/ WorkerWalks(w) \/ WorkerSends(w) \/ WorkerGivesUp(w)

Merger ==
    \/ MergeReceives \/ MergeLearnsTotal \/ MergeIsCanceled \/ MergeAdds \/ MergeReleases
    \/ MergeCancels \/ WaitsForAll \/ Answers

\* The scan is over; nothing else may stop it (a deadlock would be reported).
Over == answer # "none" /\ UNCHANGED vars

Next == Cancel \/ Producer \/ (\E w \in Active : Worker(w)) \/ Merger \/ Over

Spec == Init /\ [][Next]_vars

\* Every goroutine that can go on does so; nothing makes the caller cancel.
FairSpec ==
    /\ Spec
    /\ WF_vars(Producer) /\ WF_vars(Merger)
    /\ \A w \in 1 .. Workers : WF_vars(w \in Active /\ Worker(w))

-----------------------------------------------------------------------------
(* Properties. *)

\* Whatever the order in which the workers finish, the scan is the scan of one
\* goroutine over the pieces in order (scan.go:71-73): it answers with a result
\* only when every piece was merged once and in order and the caller never
\* canceled, and a damaged text never gives a result.
Sequential == INSTANCE SequentialScan
ImplementsSequentialScan == Sequential!Spec

\* The pieces that are read or wait for the merge.
Walking == {worker[w].seq : w \in {x \in Active : worker[x].at \in {"walk", "send"}}}
InChannels == {batches[i] : i \in DOMAIN batches} \union {results[i].seq : i \in DOMAIN results}
Adding == IF merger.at = "release" THEN {merger.next} ELSE {}
InFlight == Walking \union InChannels \union pending \union Adding

\* A batch's lines stay in its buffer until the merge is done with it, since a
\* block that crosses into the batch is finished by walking them again
\* (stream.go:12-15), the chunks and batches held are never more than the window
\* or the buffers allow (scan.go:420-421, stream.go:63-65), and the channel the
\* buffers go back on is never full (scan.go:637-638).
HeldUntilMerged ==
    /\ source = "chunks" => Cardinality(InFlight) <= window /\ window <= PerWorker * Count
    /\ source = "stream" =>
        /\ \A s \in InFlight \ Adding : content[bufferOf[s]] = s
        /\ merger.at = "release" => content[bufferOf[merger.next]] = merger.next
        /\ Cardinality(InFlight) + Len(free) <= Len(content) /\ Len(content) <= MaxBufs
        /\ merger.at = "release" => Len(free) < MaxBufs

=============================================================================

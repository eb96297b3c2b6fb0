------------------------- MODULE ScanPipelineProofs -------------------------
(***************************************************************************)
(* Proofs about ScanPipeline, for any number of workers and of pieces, any *)
(* window and any damage.                                                  *)
(***************************************************************************)
EXTENDS ScanPipeline, FiniteSetTheorems, FunctionTheorems, SequenceTheorems, TLAPS

-----------------------------------------------------------------------------
(* Types *)

Numbers == 0 .. pieces - 1
ProducerSteps == {"acquire", "send", "blocked", "fill", "close", "report", "gone"}
MergerSteps == {"receive", "release", "cancel", "wait", "answer"}

ControlTypes ==
    /\ source \in {"chunks", "stream"}
    /\ pieces \in Nat \ {0}
    /\ damaged \in Numbers \union {NoPiece}
    /\ where \in {"walk", "replay", "decode"}
    /\ where = "decode" => source = "stream"

ProducerTypes ==
    /\ producer \in [at : ProducerSteps, seq : 0 .. pieces, buffer : Int,
                     report : {"ok", "canceled", "failed"}]
    /\ window \in Nat
    /\ batches \in Seq(Numbers)
    /\ ended \in Seq([batches : Nat, ok : BOOLEAN])

WorkerTypes ==
    /\ worker \in [Active -> [at : {"wait", "walk", "send", "gone"}, seq : Numbers \union {None}, ok : BOOLEAN]]
    /\ \A w \in Active : worker[w].at \in {"walk", "send"} => worker[w].seq \in Numbers
    /\ results \in Seq([seq : Numbers, ok : BOOLEAN])

MergerTypes ==
    /\ merger \in [at : MergerSteps, next : Nat, err : BOOLEAN, total : Int]
    /\ merger.at = "release" => merger.next \in Numbers
    /\ pending \in SUBSET Numbers
    /\ merged \in Seq(Nat)

BufferTypes ==
    /\ free \in Seq(Int)
    /\ content \in Seq(Int)
    /\ bufferOf \in [Numbers -> Int]

\* The next piece is one of the text's while the producer is busy with it.
SeqInRange ==
    /\ producer.at \in {"send", "fill", "blocked"} => producer.seq < pieces
    /\ source = "stream" /\ producer.at = "acquire" => producer.seq < pieces

Types ==
    /\ ControlTypes /\ ProducerTypes /\ WorkerTypes /\ MergerTypes /\ BufferTypes /\ SeqInRange
    /\ canceled \in BOOLEAN /\ stopped \in BOOLEAN
    /\ answer \in {"none", "canceled", "failed", "result"}

(* How many workers there are. *)
LEMMA CountType ==
    ASSUME PipelineAssumption, ControlTypes
    PROVE  Count \in Nat \ {0} /\ PerWorker * Count \in Nat /\ MaxBufs \in Nat
<1> DEFINE k == IF source = "chunks" /\ pieces < Workers THEN pieces ELSE Workers
<1>1. k \in Nat \ {0}
  BY DEF PipelineAssumption, ControlTypes
<1>2. Count = k
  <2> HIDE DEF k
  <2>1. Cardinality(1 .. k) = k
    BY <1>1, FS_Interval
  <2> QED
    BY <2>1 DEF Count, Active, k
<1>3. PerWorker \in Nat
  BY DEF PipelineAssumption
<1> HIDE DEF k
<1> QED
  BY <1>1, <1>2, <1>3 DEF MaxBufs

LEMMA InitTypes == ASSUME PipelineAssumption, Init PROVE Types
<1> USE DEF Init
<1>1. ControlTypes
  BY DEF ControlTypes, PipelineAssumption, Numbers
<1>2. ProducerTypes /\ SeqInRange
  BY <1>1 DEF ProducerTypes, ProducerSteps, SeqInRange, ControlTypes, None
<1>3. WorkerTypes
  BY DEF WorkerTypes, None
<1>4. MergerTypes
  BY <1>1 DEF MergerTypes, MergerSteps, None, ControlTypes
<1>5. BufferTypes
  BY DEF BufferTypes, Numbers, None
<1> QED
  BY <1>1, <1>2, <1>3, <1>4, <1>5 DEF Types

(* The ends of the channels. *)
LEMMA TakenOff ==
    ASSUME NEW S, NEW s \in Seq(S), s # << >>
    PROVE  /\ Head(s) \in S /\ Head(s) = s[1] /\ Len(s) \in Nat \ {0}
           /\ Tail(s) \in Seq(S) /\ Len(Tail(s)) = Len(s) - 1
           /\ \A i \in 1 .. Len(s) - 1 : Tail(s)[i] = s[i + 1]
<1>1. /\ Head(s) \in S /\ Head(s) = s[1] /\ Tail(s) \in Seq(S) /\ Len(Tail(s)) = Len(s) - 1
      /\ \A i \in 1 .. Len(Tail(s)) : Tail(s)[i] = s[i + 1]
  BY HeadTailProperties
<1>2. Len(s) \in Nat \ {0}
  BY EmptySeq
<1> QED
  BY <1>1, <1>2

LEMMA PutOn ==
    ASSUME NEW S, NEW s \in Seq(S), NEW x \in S
    PROVE  /\ Append(s, x) \in Seq(S) /\ Len(s) \in Nat /\ Len(Append(s, x)) = Len(s) + 1
           /\ \A i \in 1 .. Len(s) : Append(s, x)[i] = s[i]
           /\ Append(s, x)[Len(s) + 1] = x
BY AppendProperties

LEMMA ProducerStepTypes ==
    ASSUME PipelineAssumption, Types, Producer
    PROVE  Types'
<1>0. /\ UNCHANGED <<source, pieces, damaged, where, canceled, stopped, answer>>
      /\ UNCHANGED <<merger, pending, merged, results>>
  BY DEF Producer, DispatcherTakesToken, DispatcherHandsOver, DispatcherEnds, DecoderReuses, DecoderMakes,
     DecoderBlocks, DecoderGivesUp, DecoderFills, DecoderFails, DecoderSends, DecoderCloses, DecoderReports,
     DecoderReturns, control, context, merging
<1>1. Active' = Active /\ Numbers' = Numbers
  BY <1>0 DEF Active, Numbers
<1>2. ControlTypes' /\ MergerTypes'
  BY <1>0, <1>1 DEF Types, ControlTypes, MergerTypes
<1>3. (ProducerTypes /\ SeqInRange)'
  <2> USE <1>0, <1>1 DEF Types, ProducerTypes, SeqInRange, ControlTypes, Numbers, ProducerSteps
  <2>1. CASE DispatcherTakesToken
    BY <2>1, SMTT(30) DEF DispatcherTakesToken
  <2>2. CASE \E w \in Active : DispatcherHandsOver(w)
    <3>1. /\ producer.seq \in Nat /\ producer.seq < pieces /\ pieces \in Nat /\ source = "chunks"
          /\ UNCHANGED <<window, batches, ended>>
          /\ producer' = [producer EXCEPT !.at = "acquire", !.seq = @ + 1]
      BY <2>2 DEF DispatcherHandsOver
    <3>2. producer.seq + 1 \in 0 .. pieces
      BY <3>1
    <3>3. producer' \in [at : ProducerSteps, seq : 0 .. pieces, buffer : Int, report : {"ok", "canceled", "failed"}]
      BY <3>1, <3>2
    <3>4. producer'.at = "acquire"
      BY <3>1
    <3> QED
      BY <3>1, <3>3, <3>4
  <2>3. CASE DispatcherEnds
    BY <2>3 DEF DispatcherEnds
  <2>4. CASE DecoderReuses
    <3>1. Head(free) \in Int
      BY <2>4, TakenOff DEF DecoderReuses, BufferTypes
    <3> QED
      BY <2>4, <3>1 DEF DecoderReuses
  <2>5. CASE DecoderMakes
    <3>1. Len(content) + 1 \in Int
      BY DEF BufferTypes
    <3> QED
      BY <2>5, <3>1 DEF DecoderMakes
  <2>6. CASE DecoderBlocks
    BY <2>6 DEF DecoderBlocks
  <2>7. CASE DecoderGivesUp \/ DecoderFails
    BY <2>7 DEF DecoderGivesUp, DecoderFails, DecoderReturns
  <2>8. CASE DecoderFills
    BY <2>8 DEF DecoderFills
  <2>9. CASE DecoderSends
    <3>1. producer.seq \in Numbers
      BY <2>9 DEF DecoderSends
    <3>2. batches' \in Seq(Numbers)
      BY <2>9, <3>1, PutOn DEF DecoderSends
    <3>3. /\ producer.seq \in Nat /\ producer.seq < pieces /\ pieces \in Nat /\ source = "stream"
          /\ UNCHANGED <<window, ended>>
          /\ producer' = [producer EXCEPT !.seq = @ + 1,
                             !.at = IF producer.seq = pieces - 1 THEN "close" ELSE "acquire"]
      BY <2>9 DEF DecoderSends
    <3>4. producer.seq + 1 \in 0 .. pieces /\ (producer.seq # pieces - 1 => producer.seq + 1 < pieces)
      BY <3>3
    <3>5. producer' \in [at : ProducerSteps, seq : 0 .. pieces, buffer : Int, report : {"ok", "canceled", "failed"}]
      BY <3>3, <3>4
    <3>6. producer'.seq = producer.seq + 1
          /\ producer'.at = IF producer.seq = pieces - 1 THEN "close" ELSE "acquire"
      BY <3>3
    <3> QED
      BY <3>2, <3>3, <3>4, <3>5, <3>6
  <2>10. CASE DecoderCloses
    BY <2>10 DEF DecoderCloses
  <2>11. CASE DecoderReports
    BY <2>11 DEF DecoderReports
  <2> QED
    BY <2>1, <2>2, <2>3, <2>4, <2>5, <2>6, <2>7, <2>8, <2>9, <2>10, <2>11 DEF Producer
<1>4. WorkerTypes'
  <2>1. CASE UNCHANGED worker
    BY <1>0, <1>1, <2>1 DEF Types, WorkerTypes
  <2>2. CASE \E w \in Active : DispatcherHandsOver(w)
    BY <1>0, <1>1, <2>2 DEF Types, WorkerTypes, DispatcherHandsOver, SeqInRange, ProducerTypes, ControlTypes, Numbers
  <2> QED
    BY <2>1, <2>2 DEF Producer, DispatcherTakesToken, DispatcherEnds, DecoderReuses, DecoderMakes,
     DecoderBlocks, DecoderGivesUp, DecoderFills, DecoderFails, DecoderSends, DecoderCloses, DecoderReports,
     DecoderReturns
<1>5. BufferTypes'
  <2>1. CASE UNCHANGED <<free, content, bufferOf>>
    BY <1>1, <2>1 DEF Types, BufferTypes
  <2>2. CASE DecoderReuses
    BY <1>1, <2>2, TakenOff DEF Types, BufferTypes, DecoderReuses
  <2>3. CASE DecoderMakes
    BY <1>1, <2>3, PutOn DEF Types, BufferTypes, DecoderMakes, None
  <2>4. CASE DecoderFills
    <3>1. content' \in Seq(Int)
      <4>1. producer.seq \in Int /\ producer.buffer \in Int /\ content \in Seq(Int)
        BY DEF Types, BufferTypes, ProducerTypes
      <4>2. content' = [content EXCEPT ![producer.buffer] = producer.seq]
        BY <2>4 DEF DecoderFills
      <4>3. CASE producer.buffer \in 1 .. Len(content)
        BY <4>1, <4>2, <4>3, ExceptSeq
      <4>4. CASE producer.buffer \notin 1 .. Len(content)
        <5>1. DOMAIN content = 1 .. Len(content)
          BY <4>1
        <5>2. content' = content
          BY <4>1, <4>2, <4>4, <5>1
        <5> QED
          BY <4>1, <5>2
      <4> QED
        BY <4>3, <4>4
    <3> QED
      BY <1>1, <2>4, <3>1 DEF Types, BufferTypes, DecoderFills, ProducerTypes
  <2> QED
    BY <2>1, <2>2, <2>3, <2>4 DEF Producer, DispatcherTakesToken, DispatcherHandsOver, DispatcherEnds,
     DecoderBlocks, DecoderGivesUp, DecoderFails, DecoderSends, DecoderCloses, DecoderReports,
     DecoderReturns, buffers
<1> QED
  BY <1>0, <1>2, <1>3, <1>4, <1>5 DEF Types

LEMMA WorkerStepTypes ==
    ASSUME PipelineAssumption, Types, NEW w \in Active, Worker(w)
    PROVE  Types'
<1>0. /\ UNCHANGED <<source, pieces, damaged, where, canceled, stopped, answer>>
      /\ UNCHANGED <<merger, pending, merged, producer, window, ended, free, content, bufferOf>>
  BY DEF Worker, WorkerTakesBatch, WorkerEnds, WorkerWalks, WorkerSends, WorkerGivesUp,
     control, context, producing, merging, buffers
<1>1. Active' = Active /\ Numbers' = Numbers
  BY <1>0 DEF Active, Numbers
<1>2. ControlTypes' /\ MergerTypes' /\ BufferTypes' /\ SeqInRange'
  BY <1>0, <1>1 DEF Types, ControlTypes, MergerTypes, BufferTypes, SeqInRange
<1>3. ProducerTypes' /\ WorkerTypes'
  <2> USE <1>0, <1>1 DEF Types, ProducerTypes, WorkerTypes
  <2>1. CASE WorkerTakesBatch(w)
    BY <2>1, TakenOff DEF WorkerTakesBatch
  <2>2. CASE WorkerEnds(w) \/ WorkerWalks(w) \/ WorkerGivesUp(w)
    BY <2>2, SMTT(30) DEF WorkerEnds, WorkerWalks, WorkerGivesUp, producing
  <2>3. CASE WorkerSends(w)
    <3>1. [seq |-> worker[w].seq, ok |-> worker[w].ok] \in [seq : Numbers, ok : BOOLEAN]
      BY <2>3 DEF WorkerSends
    <3>2. results' \in Seq([seq : Numbers, ok : BOOLEAN])
      BY <2>3, <3>1, PutOn DEF WorkerSends
    <3> QED
      BY <2>3, <3>2 DEF WorkerSends, producing
  <2> QED
    BY <2>1, <2>2, <2>3 DEF Worker
<1> QED
  BY <1>0, <1>2, <1>3 DEF Types

LEMMA MergerStepTypes ==
    ASSUME PipelineAssumption, Types, Merger
    PROVE  Types'
<1>0. UNCHANGED <<source, pieces, damaged, where, canceled, producer, batches, worker, content, bufferOf>>
  BY DEF Merger, MergeReceives, MergeLearnsTotal, MergeIsCanceled, MergeAdds, MergeReleases, MergeCancels,
     WaitsForAll, Answers, control, context, producing, merging, buffers
<1>1. Active' = Active /\ Numbers' = Numbers
  BY <1>0 DEF Active, Numbers
<1>2. ControlTypes' /\ SeqInRange'
  BY <1>0, <1>1 DEF Types, ControlTypes, SeqInRange
<1>3. CASE MergeReceives
  <2>1. results' \in Seq([seq : Numbers, ok : BOOLEAN]) /\ Head(results).seq \in Numbers
    <3>1. results \in Seq([seq : Numbers, ok : BOOLEAN]) /\ results # << >> /\ results' = Tail(results)
      BY <1>3 DEF MergeReceives, Types, WorkerTypes
    <3>2. Head(results) \in [seq : Numbers, ok : BOOLEAN] /\ results' \in Seq([seq : Numbers, ok : BOOLEAN])
      BY <3>1, TakenOff
    <3> QED
      BY <3>2
  <2>2. UNCHANGED <<stopped, window, ended, merged, free, answer>>
    BY <1>3 DEF MergeReceives, context, producing, buffers
  <2>3. pending' \in SUBSET Numbers
    BY <1>3, <2>1 DEF MergeReceives, Types, MergerTypes
  <2>4. /\ merger' \in [at : MergerSteps, next : Nat, err : BOOLEAN, total : Int]
        /\ merger'.at # "release"
    BY <1>3 DEF MergeReceives, Types, MergerTypes, MergerSteps
  <2> QED
    BY <1>0, <1>1, <1>2, <2>1, <2>2, <2>3, <2>4 DEF Types, ProducerTypes, WorkerTypes, MergerTypes, BufferTypes
<1>4. CASE MergeLearnsTotal
  <2>1. Head(ended) \in [batches : Nat, ok : BOOLEAN] /\ ended' \in Seq([batches : Nat, ok : BOOLEAN])
    <3>1. << >> \in Seq([batches : Nat, ok : BOOLEAN])
      OBVIOUS
    <3> QED
      BY <1>4, <3>1, TakenOff DEF MergeLearnsTotal, Types, ProducerTypes
  <2>2. UNCHANGED <<stopped, window, results, pending, merged, free, answer>>
    BY <1>4 DEF MergeLearnsTotal, context, buffers
  <2>3. /\ merger' \in [at : MergerSteps, next : Nat, err : BOOLEAN, total : Int]
        /\ merger'.at # "release"
    <3>1. CASE merger' = [merger EXCEPT !.total = Head(ended).batches]
      <4>1. Head(ended).batches \in Int /\ merger.at = "receive"
        BY <1>4, <2>1 DEF MergeLearnsTotal
      <4> QED
        BY <3>1, <4>1 DEF Types, MergerTypes
    <3>2. CASE merger' = [merger EXCEPT !.at = "cancel", !.err = TRUE]
      BY <3>2 DEF Types, MergerTypes, MergerSteps
    <3> QED
      BY <1>4, <3>1, <3>2 DEF MergeLearnsTotal
  <2> QED
    BY <1>0, <1>1, <1>2, <2>1, <2>2, <2>3 DEF Types, ProducerTypes, WorkerTypes, MergerTypes, BufferTypes
<1>5. CASE MergeIsCanceled \/ MergeCancels \/ WaitsForAll
  <2>1. UNCHANGED <<window, ended, results, pending, merged, free, answer>>
    BY <1>5 DEF MergeIsCanceled, MergeCancels, WaitsForAll, producing, buffers
  <2>2. stopped' \in BOOLEAN
    BY <1>5 DEF MergeIsCanceled, MergeCancels, WaitsForAll, context, Types
  <2>3. /\ merger' \in [at : MergerSteps, next : Nat, err : BOOLEAN, total : Int]
        /\ merger'.at # "release"
    BY <1>5 DEF MergeIsCanceled, MergeCancels, WaitsForAll, Types, MergerTypes, MergerSteps
  <2> QED
    BY <1>0, <1>1, <1>2, <2>1, <2>2, <2>3 DEF Types, ProducerTypes, WorkerTypes, MergerTypes, BufferTypes
<1>6. CASE MergeAdds
  <2>1. PICK s \in Ready, ok \in BOOLEAN :
            /\ pending' = pending \ {s}
            /\ merged' = IF ok THEN Append(merged, s) ELSE merged
            /\ merger' = [merger EXCEPT !.at = "release", !.err = ~ok]
    BY <1>6 DEF MergeAdds
  <2>2. UNCHANGED <<stopped, window, ended, results, free, answer>>
    BY <1>6 DEF MergeAdds, context, producing, buffers
  <2>3. s \in Nat /\ s = merger.next /\ s \in Numbers
    BY DEF Ready, Types, MergerTypes, Numbers
  <2>4. merged' \in Seq(Nat)
    BY <2>1, <2>3, PutOn DEF Types, MergerTypes
  <2>5. /\ merger' \in [at : MergerSteps, next : Nat, err : BOOLEAN, total : Int]
        /\ merger'.next \in Numbers
    BY <2>1, <2>3 DEF Types, MergerTypes, MergerSteps
  <2> QED
    BY <1>0, <1>1, <1>2, <2>1, <2>2, <2>4, <2>5 DEF Types, ProducerTypes, WorkerTypes, MergerTypes, BufferTypes
<1>7. CASE MergeReleases
  <2>1. UNCHANGED <<stopped, ended, results, pending, merged, answer>>
    BY <1>7 DEF MergeReleases, context, producing, merging
  <2>2. /\ merger' \in [at : MergerSteps, next : Nat, err : BOOLEAN, total : Int]
        /\ merger'.at # "release"
    <3>1. CASE merger' = [merger EXCEPT !.at = "cancel"]
      BY <3>1 DEF Types, MergerTypes, MergerSteps
    <3>2. CASE merger' = [merger EXCEPT !.at = "receive", !.next = @ + 1]
      <4>1. merger.next + 1 \in Nat
        BY DEF Types, MergerTypes
      <4> QED
        BY <3>2, <4>1 DEF Types, MergerTypes, MergerSteps
    <3> QED
      BY <1>7, <3>1, <3>2 DEF MergeReleases
  <2>3. window' \in Nat
    BY <1>7 DEF MergeReleases, GivesBack, Types, ProducerTypes
  <2>4. free' \in Seq(Int)
    <3>1. CASE UNCHANGED free
      BY <3>1 DEF Types, BufferTypes
    <3>2. CASE free' = Append(free, bufferOf[merger.next])
      <4>1. bufferOf[merger.next] \in Int
        BY <1>7, <3>2 DEF MergeReleases, Types, MergerTypes, BufferTypes
      <4> QED
        BY <3>2, <4>1, PutOn DEF Types, BufferTypes
    <3> QED
      BY <1>7, <3>1, <3>2 DEF MergeReleases, GivesBack
  <2> QED
    BY <1>0, <1>1, <1>2, <2>1, <2>2, <2>3, <2>4 DEF Types, ProducerTypes, WorkerTypes, MergerTypes, BufferTypes
<1>8. CASE Answers
  <2>1. UNCHANGED <<stopped, window, ended, results, merger, pending, merged, free>>
    BY <1>8 DEF Answers, context, producing, merging, buffers
  <2>2. answer' \in {"none", "canceled", "failed", "result"}
    BY <1>8 DEF Answers, Outcome
  <2> QED
    BY <1>0, <1>1, <1>2, <2>1, <2>2 DEF Types, ProducerTypes, WorkerTypes, MergerTypes, BufferTypes
<1> QED
  BY <1>3, <1>4, <1>5, <1>6, <1>7, <1>8 DEF Merger

-----------------------------------------------------------------------------
(* Where the pieces are *)

Busy(w) == worker[w].at \in {"walk", "send"}

\* Everything below has been merged, or its outcome is in the merger's hands.
Floor == IF merger.at = "release" THEN merger.next + 1 ELSE merger.next
Between(s) == Floor <= s /\ s < producer.seq

(* A piece is at one place, behind the producer and ahead of the merge.    *)
Apart ==
    /\ \A v, w \in Active : Busy(v) /\ Busy(w) /\ worker[v].seq = worker[w].seq => v = w
    /\ \A i, j \in 1 .. Len(batches) : batches[i] = batches[j] => i = j
    /\ \A i, j \in 1 .. Len(results) : results[i].seq = results[j].seq => i = j
    /\ \A w \in Active, i \in 1 .. Len(batches) : Busy(w) => worker[w].seq # batches[i]
    /\ \A w \in Active, i \in 1 .. Len(results) : Busy(w) => worker[w].seq # results[i].seq
    /\ \A w \in Active : Busy(w) => worker[w].seq \notin pending
    /\ \A i \in 1 .. Len(batches), j \in 1 .. Len(results) : batches[i] # results[j].seq
    /\ \A i \in 1 .. Len(batches) : batches[i] \notin pending
    /\ \A i \in 1 .. Len(results) : results[i].seq \notin pending

Ahead ==
    /\ Floor <= producer.seq
    /\ \A w \in Active : Busy(w) => Between(worker[w].seq)
    /\ \A i \in 1 .. Len(batches) : Between(batches[i])
    /\ \A i \in 1 .. Len(results) : Between(results[i].seq)
    /\ \A s \in pending : Between(s)

Placed == Apart /\ Ahead

LEMMA PieceTypes ==
    ASSUME Types
    PROVE  /\ pieces \in Nat /\ producer.seq \in Nat /\ merger.next \in Nat /\ Floor \in Nat
           /\ \A w \in Active : Busy(w) => worker[w].seq \in Numbers
           /\ Len(batches) \in Nat /\ \A i \in 1 .. Len(batches) : batches[i] \in Numbers
           /\ Len(results) \in Nat /\ \A i \in 1 .. Len(results) : results[i].seq \in Numbers
           /\ \A s \in pending : s \in Numbers
           /\ \A s \in Numbers : s \in Nat
<1>1. /\ pieces \in Nat /\ producer.seq \in Nat /\ merger.next \in Nat
      /\ batches \in Seq(Numbers) /\ results \in Seq([seq : Numbers, ok : BOOLEAN])
      /\ pending \in SUBSET Numbers
  BY DEF Types, ControlTypes, ProducerTypes, WorkerTypes, MergerTypes
<1>2. \A w \in Active : Busy(w) => worker[w].seq \in Numbers
  BY DEF Types, WorkerTypes, Busy
<1>3. \A i \in 1 .. Len(results) : results[i] \in [seq : Numbers, ok : BOOLEAN]
  BY <1>1, ElementOfSeq
<1>4. \A s \in Numbers : s \in Nat
  BY <1>1 DEF Numbers
<1> QED
  BY <1>1, <1>2, <1>3, <1>4 DEF Floor

LEMMA InitPlaced == ASSUME PipelineAssumption, Init PROVE Placed
BY DEF Init, Placed, Apart, Ahead, Floor, Between, Busy

(* A step that moves no piece, and lets the merge go on no further.        *)
LEMMA SamePlaces ==
    ASSUME Types, Types', Placed, UNCHANGED <<source, pieces, batches, results, pending>>,
           producer'.seq = producer.seq, Floor' <= Floor,
           \A w \in Active : Busy(w)' => Busy(w) /\ worker'[w].seq = worker[w].seq
    PROVE  Placed'
<1>1. Active' = Active
  BY DEF Active
<1>2. Floor \in Int /\ Floor' \in Int /\ producer.seq \in Int
  BY PieceTypes DEF Types, MergerTypes, Floor
<1>3. \A s \in Int : Between(s) => Between(s)'
  BY <1>2 DEF Between
<1>4. \A s \in Numbers : Between(s) => Between(s)'
  BY <1>3, PieceTypes
<1>5. Floor' <= producer'.seq
  BY <1>2 DEF Placed, Ahead
<1>7. Apart'
  BY <1>1 DEF Placed, Apart
<1>8. Ahead'
  BY <1>1, <1>4, <1>5, PieceTypes DEF Placed, Ahead
<1> QED
  BY <1>7, <1>8 DEF Placed

(* The producer passes on its piece: it is ahead of all others.            *)
LEMMA ProducerPlaced ==
    ASSUME PipelineAssumption, Types, Types', Placed, Producer
    PROVE  Placed'
<1>1. UNCHANGED <<source, pieces, merger, results, pending>>
  BY DEF Producer, DispatcherTakesToken, DispatcherHandsOver, DispatcherEnds, DecoderReuses, DecoderMakes,
     DecoderBlocks, DecoderGivesUp, DecoderFills, DecoderFails, DecoderSends, DecoderCloses, DecoderReports,
     DecoderReturns, control, merging
<1>2. Active' = Active /\ Floor' = Floor
  BY <1>1 DEF Active, Floor
<1>3. Floor \in Int /\ producer.seq \in Int /\ \A s \in Numbers : s \in Int
  BY PieceTypes
<1>4. CASE producer'.seq = producer.seq /\ UNCHANGED <<batches, worker>>
  BY <1>1, <1>2, <1>3, <1>4, SamePlaces DEF Busy
<1>5. /\ \A w \in Active : Busy(w) => worker[w].seq \in Numbers /\ worker[w].seq # producer.seq
      /\ \A i \in 1 .. Len(batches) : batches[i] \in Numbers /\ batches[i] # producer.seq
      /\ \A i \in 1 .. Len(results) : results[i].seq \in Numbers /\ results[i].seq # producer.seq
      /\ \A s \in pending : s \in Numbers /\ s # producer.seq
  <2>1. \A s \in Int : Between(s) => s # producer.seq
    BY <1>3 DEF Between
  <2> QED
    BY <1>3, <2>1, PieceTypes DEF Placed, Ahead
<1>6. CASE producer'.seq = producer.seq + 1 /\ ((\E w \in Active : DispatcherHandsOver(w)) \/ DecoderSends)
  <2>1. Floor' <= producer'.seq /\ Floor' <= producer.seq /\ producer.seq < producer'.seq
    BY <1>2, <1>3, <1>6 DEF Placed, Ahead
  <2>2. \A s \in Numbers : Between(s) => Between(s)'
    <3>1. \A s \in Int : Between(s) => Between(s)'
      BY <1>2, <1>3, <1>6 DEF Between
    <3> QED
      BY <1>3, <3>1
  <2>3. CASE \E w \in Active : DispatcherHandsOver(w)
    <3>1. PICK w \in Active : DispatcherHandsOver(w)
      BY <2>3
    <3>2. /\ ~Busy(w) /\ Busy(w)' /\ w \in DOMAIN worker /\ worker'[w].seq = producer.seq /\ batches' = batches
          /\ \A v \in Active : v # w => worker'[v] = worker[v]
      BY <3>1 DEF DispatcherHandsOver, Types, WorkerTypes, Busy
    <3>3. Apart'
      BY <1>1, <1>2, <1>5, <3>2 DEF Placed, Apart, Busy
    <3>4. \A v \in Active : Busy(v)' => Floor' <= worker'[v].seq /\ worker'[v].seq < producer'.seq
      <4>1. \A v \in Active : v # w /\ Busy(v)' => worker'[v] = worker[v] /\ Busy(v)
        BY <3>2 DEF Busy
      <4>2. \A v \in Active : Busy(v) => Floor' <= worker[v].seq /\ worker[v].seq < producer'.seq
        BY <1>5, <2>2 DEF Placed, Ahead, Between
      <4> QED
        BY <2>1, <3>2, <4>1, <4>2
    <3>5. Ahead'
      BY <1>1, <1>2, <1>5, <2>1, <2>2, <3>2, <3>4 DEF Placed, Ahead, Between
    <3> QED
      BY <3>3, <3>5 DEF Placed
  <2>4. CASE DecoderSends
    <3>1. producer.seq \in Numbers /\ batches \in Seq(Numbers)
      BY <2>4 DEF DecoderSends, Types, SeqInRange, ProducerTypes, Numbers, ControlTypes
    <3>2. /\ batches' = Append(batches, producer.seq) /\ worker' = worker /\ Len(batches) \in Nat
          /\ Len(batches') = Len(batches) + 1 /\ batches'[Len(batches) + 1] = producer.seq
          /\ \A i \in 1 .. Len(batches) : batches'[i] = batches[i]
      BY <2>4, <3>1, PutOn DEF DecoderSends
    <3>3. \A i \in 1 .. Len(batches') : i \in 1 .. Len(batches) \/ i = Len(batches) + 1
      BY <3>2
    <3>4. Apart'
      BY <1>1, <1>2, <1>5, <3>2, <3>3 DEF Placed, Apart, Busy
    <3>5. \A i \in 1 .. Len(batches') : Floor' <= batches'[i] /\ batches'[i] < producer'.seq
      <4>1. \A i \in 1 .. Len(batches) : Floor' <= batches[i] /\ batches[i] < producer'.seq
        BY <1>5, <2>2 DEF Placed, Ahead, Between
      <4> QED
        BY <2>1, <3>2, <3>3, <4>1
    <3>6. Ahead'
      BY <1>1, <1>2, <1>5, <2>1, <2>2, <3>2, <3>5 DEF Placed, Ahead, Between, Busy
    <3> QED
      BY <3>4, <3>6 DEF Placed
  <2> QED
    BY <1>6, <2>3, <2>4
<1>7. ASSUME (\E w \in Active : DispatcherHandsOver(w)) \/ DecoderSends
      PROVE  producer'.seq = producer.seq + 1
  <2>1. \E step \in ProducerSteps : producer' = [producer EXCEPT !.at = step, !.seq = @ + 1]
    BY <1>7 DEF DispatcherHandsOver, DecoderSends, ProducerSteps
  <2> QED
    BY <2>1 DEF Types, ProducerTypes
<1>8. \/ (\E w \in Active : DispatcherHandsOver(w)) \/ DecoderSends
      \/ producer'.seq = producer.seq /\ UNCHANGED <<batches, worker>>
  BY DEF Producer, DispatcherTakesToken, DispatcherEnds, DecoderReuses, DecoderMakes, DecoderBlocks,
     DecoderGivesUp, DecoderFills, DecoderFails, DecoderCloses, DecoderReports, DecoderReturns,
     Types, ProducerTypes
<1> QED
  BY <1>4, <1>6, <1>7, <1>8

(* A worker takes a batch, or passes its piece on.                         *)
LEMMA WorkerPlaced ==
    ASSUME PipelineAssumption, Types, Types', Placed, NEW w \in Active, Worker(w)
    PROVE  Placed'
<1>1. UNCHANGED <<source, pieces, merger, pending, producer>>
  BY DEF Worker, WorkerTakesBatch, WorkerEnds, WorkerWalks, WorkerSends, WorkerGivesUp,
     control, producing, merging
<1>2. Active' = Active /\ Floor' = Floor
  BY <1>1 DEF Active, Floor
<1>3. worker \in [Active -> [at : {"wait", "walk", "send", "gone"}, seq : Numbers \union {None}, ok : BOOLEAN]]
  BY DEF Types, WorkerTypes
<1>4. Floor \in Int /\ \A s : Between(s)' <=> Between(s)
  BY <1>1, <1>2, PieceTypes DEF Between
<1>5. CASE WorkerEnds(w) \/ WorkerWalks(w) \/ WorkerGivesUp(w)
  <2>1. UNCHANGED <<batches, results>>
    BY <1>5 DEF WorkerEnds, WorkerWalks, WorkerGivesUp, producing
  <2>2. \A v \in Active : Busy(v)' => Busy(v) /\ worker'[v].seq = worker[v].seq
    BY <1>3, <1>5 DEF WorkerEnds, WorkerWalks, WorkerGivesUp, Busy
  <2>3. Floor' <= Floor
    BY <1>2, <1>4
  <2> QED
    BY <1>1, <2>1, <2>2, <2>3, SamePlaces
<1>6. CASE WorkerTakesBatch(w)
  <2>1. batches \in Seq(Numbers) /\ batches # << >>
    BY <1>6 DEF Types, ProducerTypes, WorkerTakesBatch
  <2>2. /\ ~Busy(w) /\ Busy(w)' /\ worker'[w].seq = batches[1] /\ results' = results
        /\ \A v \in Active : v # w => worker'[v] = worker[v]
        /\ Len(batches) \in Nat \ {0} /\ Len(batches') = Len(batches) - 1
        /\ \A i \in 1 .. Len(batches) - 1 : batches'[i] = batches[i + 1]
    BY <1>3, <1>6, <2>1, TakenOff DEF WorkerTakesBatch, Busy
  <2>3. /\ \A i \in 1 .. Len(batches') : i + 1 \in 1 .. Len(batches) /\ i + 1 # 1 /\ batches'[i] = batches[i + 1]
        /\ 1 \in 1 .. Len(batches)
        /\ \A i, j \in 1 .. Len(batches') : i + 1 = j + 1 => i = j
    BY <2>2
  <2>4. Apart'
    <3>1. \A v \in Active : v # w => (Busy(v)' <=> Busy(v)) /\ worker'[v] = worker[v]
      BY <2>2 DEF Busy
    <3>2. \A v \in Active : Busy(v) => worker[v].seq # batches[1]
      BY <2>3 DEF Placed, Apart
    <3>3. \A u, v \in Active : Busy(u)' /\ Busy(v)' /\ worker'[u].seq = worker'[v].seq => u = v
      BY <2>2, <3>1, <3>2 DEF Placed, Apart
    <3>4. \A i, j \in 1 .. Len(batches') : batches'[i] = batches'[j] => i = j
      <4> SUFFICES ASSUME NEW i \in 1 .. Len(batches'), NEW j \in 1 .. Len(batches'), batches'[i] = batches'[j]
                   PROVE  i = j
        OBVIOUS
      <4>1. batches[i + 1] = batches[j + 1] /\ i + 1 \in 1 .. Len(batches) /\ j + 1 \in 1 .. Len(batches)
        BY <2>3
      <4>2. i + 1 = j + 1
        BY <4>1 DEF Placed, Apart
      <4> QED
        BY <2>3, <4>2
    <3>5. \A v \in Active, i \in 1 .. Len(batches') : Busy(v)' => worker'[v].seq # batches'[i]
      <4> SUFFICES ASSUME NEW v \in Active, NEW i \in 1 .. Len(batches'), Busy(v)'
                   PROVE  worker'[v].seq # batches'[i]
        OBVIOUS
      <4>1. i + 1 \in 1 .. Len(batches) /\ i + 1 # 1 /\ batches'[i] = batches[i + 1]
        BY <2>3
      <4>2. CASE v = w
        <5>1. batches[1] # batches[i + 1]
          BY <2>3, <4>1 DEF Placed, Apart
        <5> QED
          BY <2>2, <4>1, <4>2, <5>1
      <4>3. CASE v # w
        BY <3>1, <4>1, <4>3 DEF Placed, Apart
      <4> QED
        BY <4>2, <4>3
    <3>6. \A v \in Active : Busy(v)' => /\ worker'[v].seq \notin pending
                                      /\ \A i \in 1 .. Len(results) : worker'[v].seq # results[i].seq
      BY <2>2, <2>3, <3>1 DEF Placed, Apart
    <3>7. \A i \in 1 .. Len(batches') : /\ batches'[i] \notin pending
                                        /\ \A j \in 1 .. Len(results) : batches'[i] # results[j].seq
      BY <2>3 DEF Placed, Apart
    <3> QED
      BY <1>1, <1>2, <2>2, <3>3, <3>4, <3>5, <3>6, <3>7 DEF Placed, Apart
  <2>5. Ahead'
    BY <1>1, <1>2, <1>4, <2>2, <2>3 DEF Placed, Ahead, Busy
  <2> QED
    BY <2>4, <2>5 DEF Placed
<1>7. CASE WorkerSends(w)
  <2>1. /\ results \in Seq([seq : Numbers, ok : BOOLEAN])
        /\ [seq |-> worker[w].seq, ok |-> worker[w].ok] \in [seq : Numbers, ok : BOOLEAN]
        /\ results' = Append(results, [seq |-> worker[w].seq, ok |-> worker[w].ok])
    BY <1>7 DEF Types, WorkerTypes, WorkerSends
  <2>2. /\ Len(results) \in Nat /\ Len(results') = Len(results) + 1
        /\ \A i \in 1 .. Len(results) : results'[i] = results[i]
        /\ results'[Len(results) + 1].seq = worker[w].seq
    BY <2>1, PutOn
  <2>3. /\ Busy(w) /\ ~Busy(w)' /\ batches' = batches
        /\ \A v \in Active : v # w => worker'[v] = worker[v]
    BY <1>3, <1>7 DEF WorkerSends, Busy, producing
  <2>4. \A i \in 1 .. Len(results') : i \in 1 .. Len(results) \/ i = Len(results) + 1
    BY <2>2
  <2>5. Apart'
    <3>1. \A v \in Active : Busy(v)' => v # w /\ Busy(v) /\ worker'[v] = worker[v]
      BY <2>3 DEF Busy
    <3>2. \A v \in Active : Busy(v)' => worker'[v].seq # worker[w].seq
      BY <2>3, <3>1 DEF Placed, Apart
    <3>3. /\ \A i \in 1 .. Len(results) : results[i].seq # worker[w].seq
          /\ \A i \in 1 .. Len(batches) : batches[i] # worker[w].seq
          /\ worker[w].seq \notin pending
      BY <2>3 DEF Placed, Apart
    <3>4. \A i, j \in 1 .. Len(results') : results'[i].seq = results'[j].seq => i = j
      BY <2>2, <2>4, <3>3 DEF Placed, Apart
    <3>5. \A v \in Active, i \in 1 .. Len(results') : Busy(v)' => worker'[v].seq # results'[i].seq
      BY <2>2, <2>4, <3>1, <3>2 DEF Placed, Apart
    <3>6. \A i \in 1 .. Len(results') : /\ results'[i].seq \notin pending
                                        /\ \A j \in 1 .. Len(batches) : batches[j] # results'[i].seq
      BY <2>2, <2>4, <3>3 DEF Placed, Apart
    <3> QED
      BY <1>1, <1>2, <2>3, <3>1, <3>4, <3>5, <3>6 DEF Placed, Apart
  <2>6. Ahead'
    BY <1>1, <1>2, <1>4, <2>2, <2>3, <2>4 DEF Placed, Ahead, Busy
  <2> QED
    BY <2>5, <2>6 DEF Placed
<1> QED
  BY <1>5, <1>6, <1>7 DEF Worker

(* The merge takes an outcome in, and then the one whose turn it is.       *)
LEMMA MergerPlaced ==
    ASSUME PipelineAssumption, Types, Types', Placed, Merger
    PROVE  Placed'
<1>1. UNCHANGED <<source, pieces, producer, batches, worker>>
  BY DEF Merger, MergeReceives, MergeLearnsTotal, MergeIsCanceled, MergeAdds, MergeReleases, MergeCancels,
     WaitsForAll, Answers, control, context, producing, merging, buffers
<1>2. Active' = Active
  BY <1>1 DEF Active
<1>3. merger \in [at : MergerSteps, next : Nat, err : BOOLEAN, total : Int]
  BY DEF Types, MergerTypes
<1>4. CASE MergeLearnsTotal \/ MergeIsCanceled \/ MergeReleases \/ MergeCancels \/ WaitsForAll \/ Answers
  <2>1. UNCHANGED <<results, pending>>
    BY <1>4 DEF MergeLearnsTotal, MergeIsCanceled, MergeReleases, MergeCancels, WaitsForAll, Answers,
       producing, merging
  <2>2. Floor' <= Floor
    <3>1. CASE MergeReleases
      <4>1. merger.at = "release" /\ (merger'.next = merger.next \/ merger'.next = merger.next + 1)
            /\ merger'.at # "release"
        BY <1>3, <3>1 DEF MergeReleases
      <4> QED
        BY <1>3, <4>1 DEF Floor
    <3>2. CASE ~MergeReleases
      <4>1. merger'.next = merger.next /\ merger'.at # "release"
        BY <1>3, <1>4, <3>2 DEF MergeLearnsTotal, MergeIsCanceled, MergeCancels, WaitsForAll, Answers, merging
      <4> QED
        BY <1>3, <4>1 DEF Floor
    <3> QED
      BY <3>1, <3>2
  <2> QED
    BY <1>1, <1>2, <2>1, <2>2, SamePlaces DEF Busy
<1>5. CASE MergeReceives
  <2>1. results \in Seq([seq : Numbers, ok : BOOLEAN]) /\ results # << >>
    BY <1>5 DEF Types, WorkerTypes, MergeReceives
  <2>2. /\ Len(results) \in Nat \ {0} /\ Len(results') = Len(results) - 1 /\ Head(results) = results[1]
        /\ \A i \in 1 .. Len(results) - 1 : results'[i] = results[i + 1]
    BY <1>5, <2>1, TakenOff DEF MergeReceives
  <2>3. /\ \A i \in 1 .. Len(results') : i + 1 \in 1 .. Len(results) /\ i + 1 # 1 /\ results'[i] = results[i + 1]
        /\ 1 \in 1 .. Len(results)
        /\ \A i, j \in 1 .. Len(results') : i + 1 = j + 1 => i = j
    BY <2>2
  <2>4. pending' \subseteq pending \union {results[1].seq}
    BY <1>5, <2>2 DEF MergeReceives
  <2>5. Floor' = Floor /\ Floor \in Int
    <3>1. merger'.next = merger.next /\ merger.at = "receive" /\ merger'.at # "release"
      BY <1>3, <1>5 DEF MergeReceives
    <3> QED
      BY <3>1, PieceTypes DEF Floor
  <2>6. \A s : Between(s)' <=> Between(s)
    BY <1>1, <2>5 DEF Between
  <2>7. Apart'
    <3>1. \A i, j \in 1 .. Len(results') : results'[i].seq = results'[j].seq => i = j
      <4> SUFFICES ASSUME NEW i \in 1 .. Len(results'), NEW j \in 1 .. Len(results'),
                          results'[i].seq = results'[j].seq
                   PROVE  i = j
        OBVIOUS
      <4>1. /\ results[i + 1].seq = results[j + 1].seq
            /\ i + 1 \in 1 .. Len(results) /\ j + 1 \in 1 .. Len(results)
        BY <2>3
      <4>2. i + 1 = j + 1
        BY <4>1 DEF Placed, Apart
      <4> QED
        BY <2>3, <4>2
    <3>2. \A i \in 1 .. Len(results') : results'[i].seq # results[1].seq /\ results'[i].seq \notin pending
      BY <2>3 DEF Placed, Apart
    <3>3. \A v \in Active : Busy(v) => worker[v].seq # results[1].seq
      BY <2>3 DEF Placed, Apart
    <3>4. \A i \in 1 .. Len(batches) : batches[i] # results[1].seq
      BY <2>3 DEF Placed, Apart
    <3>5. \A v \in Active, i \in 1 .. Len(results') : Busy(v) => worker[v].seq # results'[i].seq
      BY <2>3 DEF Placed, Apart
    <3>6. \A i \in 1 .. Len(batches), j \in 1 .. Len(results') : batches[i] # results'[j].seq
      BY <2>3 DEF Placed, Apart
    <3> QED
      BY <1>1, <1>2, <2>4, <3>1, <3>2, <3>3, <3>4, <3>5, <3>6 DEF Placed, Apart, Busy
  <2>8. Ahead'
    BY <1>1, <1>2, <2>3, <2>4, <2>5, <2>6 DEF Placed, Ahead, Busy
  <2> QED
    BY <2>7, <2>8 DEF Placed
<1>6. CASE MergeAdds
  <2>1. /\ merger.at = "receive" /\ merger.next \in pending /\ pending' = pending \ {merger.next}
        /\ merger'.at = "release" /\ merger'.next = merger.next /\ results' = results
    BY <1>3, <1>6 DEF MergeAdds, Ready
  <2>2. Floor = merger.next /\ Floor' = merger.next + 1
    BY <2>1 DEF Floor
  <2>3. \A s \in Numbers : Between(s) /\ s # merger.next => Between(s)'
    BY <1>1, <2>2, PieceTypes DEF Between
  <2>4. /\ \A w \in Active : Busy(w) => worker[w].seq # merger.next
        /\ \A i \in 1 .. Len(batches) : batches[i] # merger.next
        /\ \A i \in 1 .. Len(results) : results[i].seq # merger.next
    BY <2>1 DEF Placed, Apart
  <2>5. Floor' <= producer'.seq
    <3>1. merger.next < producer.seq
      BY <2>1 DEF Placed, Ahead, Between
    <3> QED
      BY <1>1, <2>2, <3>1, PieceTypes
  <2>6. Apart'
    BY <1>1, <1>2, <2>1 DEF Placed, Apart, Busy
  <2>7. Ahead'
    BY <1>1, <1>2, <2>1, <2>3, <2>4, <2>5, PieceTypes DEF Placed, Ahead, Busy
  <2> QED
    BY <2>6, <2>7 DEF Placed
<1> QED
  BY <1>4, <1>5, <1>6 DEF Merger

-----------------------------------------------------------------------------
(* What the outcomes and the reports tell *)

\* The piece can be decoded; it has been walked.
Whole(s) == ~(damaged = s /\ where = "decode")
Walked(s) == ~(damaged = s /\ where \in {"walk", "decode"})

\* Why a piece may have no outcome, or a bad one.
Excused == canceled \/ damaged # NoPiece \/ merger.at \in {"wait", "answer"}

OutcomesAreTrue ==
    /\ source = "stream" /\ producer.at = "send" => Whole(producer.seq)
    /\ \A i \in 1 .. Len(batches) : Whole(batches[i])
    /\ \A w \in Active : /\ worker[w].at = "walk" => Whole(worker[w].seq)
                         /\ worker[w].at = "send" => IF worker[w].ok THEN Walked(worker[w].seq) ELSE Excused
    /\ \A i \in 1 .. Len(results) : IF results[i].ok THEN Walked(results[i].seq) ELSE Excused
    /\ \A s \in pending : Walked(s)

ReportsAreTrue ==
    /\ stopped => canceled \/ merger.at \in {"wait", "answer"}
    /\ producer.report # "ok" => Excused
    /\ producer.at \in {"close", "report"} /\ producer.report = "ok" => producer.seq = pieces
    /\ \A i \in 1 .. Len(ended) : IF ended[i].ok THEN ended[i].batches = pieces ELSE Excused

(* The merge has gone as far as it says.                                   *)
MergedSoFar ==
    /\ Len(merged) <= pieces
    /\ merger.at = "receive" => ~merger.err /\ Len(merged) = merger.next
    /\ merger.at = "release" => Len(merged) = (IF merger.err THEN merger.next ELSE merger.next + 1)
    /\ merger.at = "cancel" => merger.err
    /\ merger.at \in {"wait", "answer"} /\ ~merger.err => Len(merged) = pieces
    /\ merger.err => canceled \/ damaged # NoPiece
    /\ merger.total \in {None, pieces}
    /\ answer # "none" => merger.at = "answer"

Told == OutcomesAreTrue /\ ReportsAreTrue /\ MergedSoFar

LEMMA InitTold == ASSUME PipelineAssumption, Init PROVE Told
<1> USE DEF Init
<1>1. OutcomesAreTrue
  BY DEF OutcomesAreTrue
<1>2. ReportsAreTrue
  BY DEF ReportsAreTrue
<1>3. MergedSoFar
  <2>1. pieces \in Nat /\ source \in {"chunks", "stream"}
    BY InitTypes DEF Types, ControlTypes
  <2>2. /\ merger.at = "receive" /\ merger.next = 0 /\ merger.err = FALSE /\ merger.total \in {None, pieces}
        /\ Len(merged) = 0 /\ answer = "none"
    OBVIOUS
  <2> HIDE DEF Init
  <2> QED
    BY <2>1, <2>2 DEF MergedSoFar
<1> QED
  BY <1>1, <1>2, <1>3 DEF Told

LEMMA CancelTold ==
    ASSUME Types, Told, Cancel
    PROVE  Told'
<1>1. /\ canceled' /\ UNCHANGED <<source, pieces, damaged, where, producer, batches, ended, worker, results,
                                  merger, pending, merged>>
      /\ answer = "none" /\ answer' = answer
  BY DEF Cancel, control, producing, merging
<1>2. Active' = Active /\ Excused'
  BY <1>1 DEF Active, Excused
<1>3. OutcomesAreTrue'
  BY <1>1, <1>2 DEF Told, OutcomesAreTrue, Whole, Walked
<1>4. ReportsAreTrue' /\ MergedSoFar'
  BY <1>1, <1>2 DEF Told, ReportsAreTrue, MergedSoFar
<1> QED
  BY <1>3, <1>4 DEF Told

LEMMA ProducerTold ==
    ASSUME PipelineAssumption, Types, Types', Told, Producer
    PROVE  Told'
<1>1. UNCHANGED <<source, pieces, damaged, where, canceled, stopped, answer, results, merger, pending, merged>>
  BY DEF Producer, DispatcherTakesToken, DispatcherHandsOver, DispatcherEnds, DecoderReuses, DecoderMakes,
     DecoderBlocks, DecoderGivesUp, DecoderFills, DecoderFails, DecoderSends, DecoderCloses, DecoderReports,
     DecoderReturns, control, context, merging
<1>2. /\ Active' = Active /\ (Excused <=> Excused')
      /\ \A s : (Whole(s)' <=> Whole(s)) /\ (Walked(s)' <=> Walked(s))
  BY <1>1 DEF Active, Excused, Whole, Walked
<1>3. MergedSoFar'
  BY <1>1 DEF Told, MergedSoFar
<1>4. producer \in [at : ProducerSteps, seq : 0 .. pieces, buffer : Int, report : {"ok", "canceled", "failed"}]
  BY DEF Types, ProducerTypes
<1>5. CASE DispatcherTakesToken \/ DispatcherEnds \/ DecoderReuses \/ DecoderMakes \/ DecoderBlocks
  <2>1. /\ UNCHANGED <<batches, ended, worker>> /\ producer'.report = producer.report
        /\ producer'.at \notin {"close", "report"}
        /\ source = "stream" => producer'.at # "send"
    BY <1>4, <1>5 DEF DispatcherTakesToken, DispatcherEnds, DecoderReuses, DecoderMakes, DecoderBlocks
  <2>2. OutcomesAreTrue'
    BY <1>1, <1>2, <2>1 DEF Told, OutcomesAreTrue
  <2>3. ReportsAreTrue'
    BY <1>1, <1>2, <2>1 DEF Told, ReportsAreTrue
  <2> QED
    BY <1>3, <2>2, <2>3 DEF Told
<1>6. CASE \E w \in Active : DispatcherHandsOver(w)
  <2>1. PICK w \in Active : DispatcherHandsOver(w)
    BY <1>6
  <2>2. /\ UNCHANGED <<batches, ended>> /\ producer'.report = producer.report /\ producer'.at = "acquire"
        /\ source = "chunks" /\ worker'[w].at = "walk" /\ worker'[w].seq = producer.seq
        /\ \A v \in Active : v # w => worker'[v] = worker[v]
    BY <1>4, <2>1 DEF DispatcherHandsOver, Types, WorkerTypes
  <2>3. Whole(producer.seq)
    BY <2>2 DEF Whole, Types, ControlTypes
  <2>4. \A v \in Active :
            /\ worker'[v].at = "walk" => Whole(worker'[v].seq)
            /\ worker'[v].at = "send" => IF worker'[v].ok THEN Walked(worker'[v].seq) ELSE Excused
    BY <2>2, <2>3 DEF Told, OutcomesAreTrue
  <2>5. OutcomesAreTrue'
    BY <1>1, <1>2, <2>2, <2>4 DEF Told, OutcomesAreTrue, Whole, Walked
  <2>6. ReportsAreTrue'
    BY <1>1, <1>2, <2>2 DEF Told, ReportsAreTrue
  <2> QED
    BY <1>3, <2>5, <2>6 DEF Told
<1>7. CASE DecoderGivesUp \/ DecoderFails
  <2>1. /\ UNCHANGED <<batches, ended, worker>> /\ producer'.report # "ok" /\ producer'.at = "close"
        /\ stopped \/ damaged = producer.seq
    BY <1>4, <1>7 DEF DecoderGivesUp, DecoderFails, DecoderReturns
  <2>2. Excused
    <3>1. CASE stopped
      BY <3>1 DEF Told, ReportsAreTrue, Excused
    <3>2. CASE damaged = producer.seq
      BY <1>4, <3>2 DEF Excused, PipelineAssumption, Types, ControlTypes
    <3> QED
      BY <2>1, <3>1, <3>2
  <2>3. OutcomesAreTrue'
    BY <1>1, <1>2, <2>1 DEF Told, OutcomesAreTrue
  <2>4. ReportsAreTrue'
    BY <1>1, <1>2, <2>1, <2>2 DEF Told, ReportsAreTrue
  <2> QED
    BY <1>3, <2>3, <2>4 DEF Told
<1>8. CASE DecoderFills
  <2>1. /\ UNCHANGED <<batches, ended, worker>> /\ producer'.report = producer.report
        /\ producer'.at = "send" /\ producer'.seq = producer.seq /\ Whole(producer.seq)
    BY <1>4, <1>8 DEF DecoderFills, Whole
  <2>2. OutcomesAreTrue'
    BY <1>1, <1>2, <2>1 DEF Told, OutcomesAreTrue, Whole
  <2>3. ReportsAreTrue'
    BY <1>1, <1>2, <2>1 DEF Told, ReportsAreTrue
  <2> QED
    BY <1>3, <2>2, <2>3 DEF Told
<1>9. CASE DecoderSends
  <2>1. /\ UNCHANGED <<ended, worker>> /\ producer'.report = producer.report
        /\ producer'.at # "send" /\ producer'.seq = producer.seq + 1
        /\ producer'.at = "close" <=> producer.seq = pieces - 1
        /\ producer'.at # "report" /\ producer.at = "send" /\ source = "stream"
    BY <1>4, <1>9 DEF DecoderSends
  <2>2. producer.seq \in Numbers /\ batches \in Seq(Numbers) /\ batches' = Append(batches, producer.seq)
    BY <1>9 DEF DecoderSends, Types, SeqInRange, ProducerTypes, Numbers, ControlTypes
  <2>3. /\ Len(batches) \in Nat /\ Len(batches') = Len(batches) + 1 /\ batches'[Len(batches) + 1] = producer.seq
        /\ \A i \in 1 .. Len(batches) : batches'[i] = batches[i]
    BY <2>2, PutOn
  <2>4. \A i \in 1 .. Len(batches') : i \in 1 .. Len(batches) \/ i = Len(batches) + 1
    BY <2>3
  <2>5. Whole(producer.seq)
    BY <2>1 DEF Told, OutcomesAreTrue
  <2>6. \A i \in 1 .. Len(batches') : Whole(batches'[i])
    BY <2>3, <2>4, <2>5 DEF Told, OutcomesAreTrue
  <2>7. OutcomesAreTrue'
    BY <1>1, <1>2, <2>1, <2>6 DEF Told, OutcomesAreTrue, Whole
  <2>8. producer'.at \in {"close", "report"} => producer'.seq = pieces
    <3>1. producer.seq \in Int /\ pieces \in Int
      BY DEF Types, ProducerTypes, ControlTypes
    <3> QED
      BY <2>1, <3>1
  <2>9. ReportsAreTrue'
    BY <1>1, <1>2, <2>1, <2>8 DEF Told, ReportsAreTrue
  <2> QED
    BY <1>3, <2>7, <2>9 DEF Told
<1>10. CASE DecoderCloses
  <2>1. /\ UNCHANGED <<batches, ended, worker>> /\ producer'.report = producer.report
        /\ producer'.at = "report" /\ producer'.seq = producer.seq /\ producer.at = "close"
    BY <1>4, <1>10 DEF DecoderCloses
  <2>2. OutcomesAreTrue'
    BY <1>1, <1>2, <2>1 DEF Told, OutcomesAreTrue
  <2>3. ReportsAreTrue'
    BY <1>1, <1>2, <2>1 DEF Told, ReportsAreTrue
  <2> QED
    BY <1>3, <2>2, <2>3 DEF Told
<1>11. CASE DecoderReports
  <2>1. /\ UNCHANGED <<batches, worker>> /\ producer'.report = producer.report
        /\ producer'.at = "gone" /\ producer.at = "report"
        /\ ended' = << [batches |-> producer.seq, ok |-> producer.report = "ok"] >>
    BY <1>4, <1>11 DEF DecoderReports
  <2>2. OutcomesAreTrue'
    BY <1>1, <1>2, <2>1 DEF Told, OutcomesAreTrue
  <2>3. \A i \in 1 .. Len(ended') : IF ended'[i].ok THEN ended'[i].batches = pieces ELSE Excused
    <3>1. producer.report = "ok" => producer.seq = pieces
      BY <2>1 DEF Told, ReportsAreTrue
    <3>2. producer.report # "ok" => Excused
      BY DEF Told, ReportsAreTrue
    <3> DEFINE report == [batches |-> producer.seq, ok |-> producer.report = "ok"]
    <3>3. report.batches = producer.seq /\ (report.ok <=> producer.report = "ok")
      OBVIOUS
    <3>4. ended' = << report >>
      BY <2>1
    <3> HIDE DEF report
    <3>5. \A i \in 1 .. Len(ended') : ended'[i] = report
      BY <3>4
    <3> QED
      BY <3>1, <3>2, <3>3, <3>5
  <2>4. ReportsAreTrue'
    BY <1>1, <1>2, <2>1, <2>3 DEF Told, ReportsAreTrue
  <2> QED
    BY <1>3, <2>2, <2>4 DEF Told
<1> QED
  BY <1>5, <1>6, <1>7, <1>8, <1>9, <1>10, <1>11 DEF Producer

LEMMA WorkerTold ==
    ASSUME PipelineAssumption, Types, Types', Told, NEW w \in Active, Worker(w)
    PROVE  Told'
<1>1. UNCHANGED <<source, pieces, damaged, where, canceled, stopped, answer, producer, ended, merger, pending, merged>>
  BY DEF Worker, WorkerTakesBatch, WorkerEnds, WorkerWalks, WorkerSends, WorkerGivesUp,
     control, context, producing, merging
<1>2. /\ Active' = Active /\ (Excused <=> Excused')
      /\ \A s : (Whole(s)' <=> Whole(s)) /\ (Walked(s)' <=> Walked(s))
  BY <1>1 DEF Active, Excused, Whole, Walked
<1>3. MergedSoFar' /\ ReportsAreTrue'
  BY <1>1, <1>2 DEF Told, MergedSoFar, ReportsAreTrue
<1>4. /\ worker \in [Active -> [at : {"wait", "walk", "send", "gone"}, seq : Numbers \union {None}, ok : BOOLEAN]]
      /\ batches \in Seq(Numbers) /\ results \in Seq([seq : Numbers, ok : BOOLEAN])
  BY DEF Types, WorkerTypes, ProducerTypes
<1>5. CASE WorkerEnds(w) \/ WorkerGivesUp(w)
  <2>1. /\ UNCHANGED <<batches, results>>
        /\ \A v \in Active : v # w => worker'[v] = worker[v]
        /\ worker'[w].at = "gone"
    BY <1>4, <1>5 DEF WorkerEnds, WorkerGivesUp, producing
  <2>2. OutcomesAreTrue'
    BY <1>1, <1>2, <2>1 DEF Told, OutcomesAreTrue
  <2> QED
    BY <1>3, <2>2 DEF Told
<1>6. CASE WorkerWalks(w)
  <2>1. PICK ok \in BOOLEAN :
          /\ ok => ~(where = "walk" /\ damaged = worker[w].seq)
          /\ ~ok => stopped \/ (where = "walk" /\ damaged = worker[w].seq)
          /\ worker' = [worker EXCEPT ![w].at = "send", ![w].ok = ok]
    BY <1>6 DEF WorkerWalks
  <2>2. /\ UNCHANGED <<batches, results>> /\ worker[w].at = "walk" /\ worker[w].seq \in Numbers
        /\ \A v \in Active : v # w => worker'[v] = worker[v]
        /\ worker'[w].at = "send" /\ worker'[w].seq = worker[w].seq /\ worker'[w].ok = ok
    BY <1>4, <1>6, <2>1 DEF WorkerWalks, producing, Types, WorkerTypes
  <2>3. ok => Walked(worker[w].seq)
    BY <2>1, <2>2 DEF Told, OutcomesAreTrue, Whole, Walked
  <2>4. ~ok => Excused
    <3>1. stopped => Excused
      BY DEF Told, ReportsAreTrue, Excused
    <3>2. damaged = worker[w].seq => Excused
      BY <2>2 DEF Excused, PipelineAssumption, Numbers, Types, ControlTypes
    <3> QED
      BY <2>1, <3>1, <3>2
  <2>5. \A v \in Active :
            /\ worker'[v].at = "walk" => Whole(worker'[v].seq)
            /\ worker'[v].at = "send" => IF worker'[v].ok THEN Walked(worker'[v].seq) ELSE Excused
    BY <2>2, <2>3, <2>4 DEF Told, OutcomesAreTrue
  <2>6. OutcomesAreTrue'
    BY <1>1, <1>2, <2>2, <2>5 DEF Told, OutcomesAreTrue, Whole, Walked
  <2> QED
    BY <1>3, <2>6 DEF Told
<1>7. CASE WorkerTakesBatch(w)
  <2>1. batches # << >> /\ results' = results
    BY <1>7 DEF WorkerTakesBatch
  <2>2. /\ worker'[w].at = "walk" /\ worker'[w].seq = batches[1]
        /\ \A v \in Active : v # w => worker'[v] = worker[v]
        /\ Len(batches) \in Nat \ {0} /\ Len(batches') = Len(batches) - 1
        /\ \A i \in 1 .. Len(batches) - 1 : batches'[i] = batches[i + 1]
    BY <1>4, <1>7, <2>1, TakenOff DEF WorkerTakesBatch
  <2>3. /\ \A i \in 1 .. Len(batches') : i + 1 \in 1 .. Len(batches) /\ batches'[i] = batches[i + 1]
        /\ 1 \in 1 .. Len(batches)
    BY <2>2
  <2>4. \A i \in 1 .. Len(batches') : Whole(batches'[i])
    BY <2>3 DEF Told, OutcomesAreTrue
  <2>5. \A v \in Active :
            /\ worker'[v].at = "walk" => Whole(worker'[v].seq)
            /\ worker'[v].at = "send" => IF worker'[v].ok THEN Walked(worker'[v].seq) ELSE Excused
    BY <2>2, <2>3 DEF Told, OutcomesAreTrue
  <2>6. OutcomesAreTrue'
    BY <1>1, <1>2, <2>1, <2>4, <2>5 DEF Told, OutcomesAreTrue, Whole, Walked
  <2> QED
    BY <1>3, <2>6 DEF Told
<1>8. CASE WorkerSends(w)
  <2>1. /\ [seq |-> worker[w].seq, ok |-> worker[w].ok] \in [seq : Numbers, ok : BOOLEAN]
        /\ results' = Append(results, [seq |-> worker[w].seq, ok |-> worker[w].ok])
        /\ worker[w].at = "send" /\ batches' = batches
    BY <1>8 DEF Types, WorkerTypes, WorkerSends, producing
  <2>2. /\ Len(results) \in Nat /\ Len(results') = Len(results) + 1
        /\ \A i \in 1 .. Len(results) : results'[i] = results[i]
        /\ results'[Len(results) + 1] = [seq |-> worker[w].seq, ok |-> worker[w].ok]
    BY <1>4, <2>1, PutOn
  <2>3. worker'[w].at = "wait" /\ \A v \in Active : v # w => worker'[v] = worker[v]
    BY <1>4, <1>8 DEF WorkerSends
  <2>4. \A i \in 1 .. Len(results') : i \in 1 .. Len(results) \/ i = Len(results) + 1
    BY <2>2
  <2>5. IF worker[w].ok THEN Walked(worker[w].seq) ELSE Excused
    BY <2>1 DEF Told, OutcomesAreTrue
  <2>6. \A i \in 1 .. Len(results') : IF results'[i].ok THEN Walked(results'[i].seq) ELSE Excused
    BY <2>2, <2>4, <2>5 DEF Told, OutcomesAreTrue
  <2>7. OutcomesAreTrue'
    BY <1>1, <1>2, <2>1, <2>3, <2>6 DEF Told, OutcomesAreTrue, Walked
  <2> QED
    BY <1>3, <2>7 DEF Told
<1> QED
  BY <1>5, <1>6, <1>7, <1>8 DEF Worker

LEMMA MergerTold ==
    ASSUME PipelineAssumption, Types, Types', Told, Merger
    PROVE  Told'
<1>1. UNCHANGED <<source, pieces, damaged, where, canceled, producer, batches, worker>>
  BY DEF Merger, MergeReceives, MergeLearnsTotal, MergeIsCanceled, MergeAdds, MergeReleases, MergeCancels,
     WaitsForAll, Answers, control, context, producing, merging, buffers
<1>2. Active' = Active /\ \A s : (Whole(s)' <=> Whole(s)) /\ (Walked(s)' <=> Walked(s))
  BY <1>1 DEF Active, Whole, Walked
<1>3. /\ merger \in [at : MergerSteps, next : Nat, err : BOOLEAN, total : Int]
      /\ merged \in Seq(Nat) /\ Len(merged) \in Nat /\ pieces \in Nat
  BY DEF Types, MergerTypes, ControlTypes
<1>4. CASE MergeReceives
  <2>1. /\ results \in Seq([seq : Numbers, ok : BOOLEAN]) /\ results # << >> /\ merger.at = "receive"
        /\ UNCHANGED <<ended, stopped, merged, answer>>
    BY <1>4 DEF Types, WorkerTypes, MergeReceives, context, producing, buffers
  <2>2. /\ Len(results) \in Nat \ {0} /\ Len(results') = Len(results) - 1 /\ Head(results) = results[1]
        /\ \A i \in 1 .. Len(results) - 1 : results'[i] = results[i + 1]
    BY <1>4, <2>1, TakenOff DEF MergeReceives
  <2>3. /\ \A i \in 1 .. Len(results') : i + 1 \in 1 .. Len(results) /\ results'[i] = results[i + 1]
        /\ 1 \in 1 .. Len(results)
    BY <2>2
  <2>4. merger'.at \in {"receive", "cancel"} /\ merger'.next = merger.next /\ merger'.total = merger.total
    BY <1>3, <1>4, <2>1 DEF MergeReceives
  <2>5. Excused' <=> Excused
    BY <1>1, <2>1, <2>4 DEF Excused
  <2>6. OutcomesAreTrue'
    <3>1. \A i \in 1 .. Len(results') : IF results'[i].ok THEN Walked(results'[i].seq) ELSE Excused
      BY <2>3 DEF Told, OutcomesAreTrue
    <3>2. \A s \in pending' : Walked(s)
      BY <1>4, <2>2, <2>3 DEF MergeReceives, Told, OutcomesAreTrue
    <3> QED
      BY <1>1, <1>2, <2>5, <3>1, <3>2 DEF Told, OutcomesAreTrue, Walked
  <2>7. ReportsAreTrue'
    BY <1>1, <2>1, <2>4, <2>5 DEF Told, ReportsAreTrue
  <2>8. MergedSoFar'
    <3>1. CASE UNCHANGED merger
      BY <1>1, <2>1, <3>1 DEF Told, MergedSoFar
    <3>2. CASE ~Head(results).ok /\ merger' = [merger EXCEPT !.at = "cancel", !.err = TRUE]
      <4>1. canceled \/ damaged # NoPiece
        BY <2>1, <2>2, <2>3, <3>2 DEF Told, OutcomesAreTrue, Excused
      <4>2. merger'.err /\ merger'.at = "cancel"
        BY <1>3, <3>2
      <4> QED
        BY <1>1, <2>1, <2>4, <4>1, <4>2 DEF Told, MergedSoFar
    <3> QED
      BY <1>4, <3>1, <3>2 DEF MergeReceives
  <2> QED
    BY <2>6, <2>7, <2>8 DEF Told
<1>5. CASE MergeLearnsTotal
  <2>1. /\ ended \in Seq([batches : Nat, ok : BOOLEAN]) /\ ended # << >> /\ ended' = << >> /\ merger.at = "receive"
        /\ UNCHANGED <<results, pending, merged, stopped, answer>>
    BY <1>5 DEF Types, ProducerTypes, MergeLearnsTotal, context, buffers
  <2>2. 1 \in 1 .. Len(ended) /\ Head(ended) = ended[1]
    BY <2>1, TakenOff
  <2>3. IF Head(ended).ok THEN Head(ended).batches = pieces ELSE canceled \/ damaged # NoPiece
    BY <2>1, <2>2 DEF Told, ReportsAreTrue, Excused
  <2>4. CASE Head(ended).ok /\ merger' = [merger EXCEPT !.total = Head(ended).batches]
    <3>1. /\ merger'.at = "receive" /\ merger'.next = merger.next /\ merger'.err = merger.err
          /\ merger'.total = pieces
      BY <1>3, <2>1, <2>3, <2>4
    <3>2. OutcomesAreTrue'
      BY <1>1, <1>2, <2>1, <3>1 DEF Told, OutcomesAreTrue, Excused
    <3>3. ReportsAreTrue'
      BY <1>1, <2>1, <3>1 DEF Told, ReportsAreTrue, Excused
    <3>4. MergedSoFar'
      BY <1>1, <2>1, <3>1 DEF Told, MergedSoFar
    <3> QED
      BY <3>2, <3>3, <3>4 DEF Told
  <2>5. CASE ~Head(ended).ok /\ merger' = [merger EXCEPT !.at = "cancel", !.err = TRUE]
    <3>1. /\ merger'.at = "cancel" /\ merger'.next = merger.next /\ merger'.err
          /\ merger'.total = merger.total
      BY <1>3, <2>1, <2>5
    <3>2. OutcomesAreTrue'
      BY <1>1, <1>2, <2>1, <3>1 DEF Told, OutcomesAreTrue, Excused
    <3>3. ReportsAreTrue'
      BY <1>1, <2>1, <3>1 DEF Told, ReportsAreTrue, Excused
    <3>4. MergedSoFar'
      BY <1>1, <2>1, <2>3, <2>5, <3>1 DEF Told, MergedSoFar
    <3> QED
      BY <3>2, <3>3, <3>4 DEF Told
  <2> QED
    BY <1>5, <2>4, <2>5 DEF MergeLearnsTotal
<1>6. CASE MergeIsCanceled
  <2>1. /\ merger.at = "receive" /\ stopped
        /\ UNCHANGED <<results, ended, pending, merged, stopped, answer>>
        /\ merger'.at = "cancel" /\ merger'.err /\ merger'.total = merger.total /\ merger'.next = merger.next
    BY <1>3, <1>6 DEF MergeIsCanceled, context, producing
  <2>2. canceled
    BY <2>1 DEF Told, ReportsAreTrue
  <2>3. OutcomesAreTrue'
    BY <1>1, <1>2, <2>1, <2>2 DEF Told, OutcomesAreTrue, Excused
  <2>4. ReportsAreTrue'
    BY <1>1, <2>1, <2>2 DEF Told, ReportsAreTrue, Excused
  <2>5. MergedSoFar'
    BY <1>1, <2>1, <2>2 DEF Told, MergedSoFar
  <2> QED
    BY <2>3, <2>4, <2>5 DEF Told
<1>7. CASE MergeAdds
  <2>1. PICK ok \in BOOLEAN :
          /\ ok => ~(where = "replay" /\ damaged = merger.next)
          /\ ~ok => stopped \/ (where = "replay" /\ damaged = merger.next)
          /\ merger.next \in pending /\ pending' = pending \ {merger.next}
          /\ merged' = IF ok THEN Append(merged, merger.next) ELSE merged
          /\ merger' = [merger EXCEPT !.at = "release", !.err = ~ok]
    BY <1>7 DEF MergeAdds, Ready
  <2>2. /\ merger.at = "receive" /\ UNCHANGED <<results, ended, stopped, answer>>
        /\ merger'.at = "release" /\ merger'.next = merger.next /\ merger'.err = ~ok /\ merger'.total = merger.total
    BY <1>3, <1>7, <2>1 DEF MergeAdds, context, producing
  <2>3. OutcomesAreTrue'
    BY <1>1, <1>2, <2>1, <2>2 DEF Told, OutcomesAreTrue, Excused
  <2>4. ReportsAreTrue'
    BY <1>1, <2>2 DEF Told, ReportsAreTrue, Excused
  <2>5. merger.next \in Numbers /\ merger.next < pieces
    BY <1>3, <2>1 DEF Types, MergerTypes, Numbers
  <2>6. ~ok => canceled \/ damaged # NoPiece
    <3>1. damaged = merger.next => damaged # NoPiece
      BY <1>3 DEF PipelineAssumption
    <3> QED
      BY <2>1, <2>2, <3>1 DEF Told, ReportsAreTrue
  <2>7. Len(merged') = (IF ok THEN merger.next + 1 ELSE merger.next)
    <3>1. Len(merged) = merger.next
      BY <2>2 DEF Told, MergedSoFar
    <3>2. Len(Append(merged, merger.next)) = Len(merged) + 1
      BY <1>3, PutOn
    <3> QED
      BY <2>1, <3>1, <3>2
  <2>8. Len(merged') <= pieces
    BY <1>3, <2>5, <2>7
  <2>9. MergedSoFar'
    BY <1>1, <2>2, <2>6, <2>7, <2>8 DEF Told, MergedSoFar
  <2> QED
    BY <2>3, <2>4, <2>9 DEF Told
<1>8. CASE MergeReleases
  <2>1. /\ merger.at = "release" /\ UNCHANGED <<results, ended, pending, merged, stopped, answer>>
        /\ merger'.err = merger.err /\ merger'.total = merger.total
        /\ IF merger.err THEN merger'.at = "cancel" /\ merger'.next = merger.next
           ELSE merger'.at = "receive" /\ merger'.next = merger.next + 1
    BY <1>3, <1>8 DEF MergeReleases, context, producing
  <2>2. OutcomesAreTrue'
    BY <1>1, <1>2, <2>1 DEF Told, OutcomesAreTrue, Excused
  <2>3. ReportsAreTrue'
    BY <1>1, <2>1 DEF Told, ReportsAreTrue, Excused
  <2>4. MergedSoFar'
    BY <1>1, <2>1 DEF Told, MergedSoFar
  <2> QED
    BY <2>2, <2>3, <2>4 DEF Told
<1>9. CASE MergeCancels
  <2>1. /\ merger.at = "cancel" \/ (merger.at = "receive" /\ ~Unfinished)
        /\ UNCHANGED <<results, ended, pending, merged, answer>>
        /\ merger'.err = merger.err /\ merger'.total = merger.total /\ merger'.at = "wait"
    BY <1>3, <1>9 DEF MergeCancels, producing
  <2>2. ~merger.err => Len(merged) = pieces
    <3>1. SUFFICES ASSUME ~merger.err PROVE Len(merged) = pieces
      OBVIOUS
    <3>2. merger.at = "receive" /\ merger.total = pieces /\ merger.next >= pieces
      BY <1>3, <2>1, <3>1 DEF Told, MergedSoFar, Unfinished
    <3> QED
      BY <1>3, <3>2 DEF Told, MergedSoFar
  <2>3. Excused'
    BY <2>1 DEF Excused
  <2>4. OutcomesAreTrue'
    BY <1>1, <1>2, <2>1, <2>3 DEF Told, OutcomesAreTrue
  <2>5. ReportsAreTrue'
    BY <1>1, <2>1, <2>3 DEF Told, ReportsAreTrue
  <2>6. MergedSoFar'
    BY <1>1, <2>1, <2>2 DEF Told, MergedSoFar
  <2> QED
    BY <2>4, <2>5, <2>6 DEF Told
<1>10. CASE WaitsForAll \/ Answers
  <2>1. /\ merger.at \in {"wait", "answer"} /\ merger'.at = "answer"
        /\ UNCHANGED <<results, ended, pending, merged, stopped>>
        /\ merger'.err = merger.err /\ merger'.total = merger.total
    BY <1>3, <1>10 DEF WaitsForAll, Answers, producing, context, merging
  <2>2. Excused'
    BY <2>1 DEF Excused
  <2>3. OutcomesAreTrue'
    BY <1>1, <1>2, <2>1, <2>2 DEF Told, OutcomesAreTrue
  <2>4. ReportsAreTrue'
    BY <1>1, <2>1, <2>2 DEF Told, ReportsAreTrue
  <2>5. MergedSoFar'
    BY <1>1, <2>1 DEF Told, MergedSoFar
  <2> QED
    BY <2>3, <2>4, <2>5 DEF Told
<1> QED
  BY <1>4, <1>5, <1>6, <1>7, <1>8, <1>9, <1>10 DEF Merger

-----------------------------------------------------------------------------
(* The scan implements the scan of one goroutine *)

Sound == Types /\ Placed /\ Told

LEMMA CancelTypes ==
    ASSUME Types, Cancel
    PROVE  Types'
<1>1. /\ canceled' = TRUE /\ stopped' = TRUE
      /\ UNCHANGED <<control, producing, worker, results, merging, buffers, answer>>
  BY DEF Cancel
<1> QED
  BY <1>1, SMTT(30) DEF Types, ControlTypes, ProducerTypes, WorkerTypes, MergerTypes, BufferTypes, SeqInRange, Numbers, Active,
     control, producing, merging, buffers

LEMMA CancelPlaced ==
    ASSUME Types, Types', Placed, Cancel
    PROVE  Placed'
<1>1. UNCHANGED <<source, pieces, producer, batches, worker, results, merger, pending>>
  BY DEF Cancel, control, producing, merging
<1>2. Floor' <= Floor
  <2>1. Floor' = Floor /\ Floor \in Nat
    BY <1>1, PieceTypes DEF Floor
  <2> QED
    BY <2>1
<1>3. \A w \in Active : Busy(w)' => Busy(w) /\ worker'[w].seq = worker[w].seq
  BY <1>1 DEF Busy
<1> QED
  BY <1>1, <1>2, <1>3, SamePlaces

LEMMA SameTypes == ASSUME Types, UNCHANGED vars PROVE Types'
BY SMTT(30) DEF Types, ControlTypes, ProducerTypes, WorkerTypes, MergerTypes, BufferTypes, SeqInRange, Numbers, Active,
   vars, control, context, producing, merging, buffers

LEMMA SameSound ==
    ASSUME Sound, UNCHANGED vars
    PROVE  Sound'
<1>1. UNCHANGED <<source, pieces, damaged, where, canceled, stopped, producer, batches, ended, worker, results,
                  merger, pending, merged, answer>>
  BY DEF vars, control, context, producing, merging
<1>2. Active' = Active
  BY <1>1 DEF Active
<1>3. Types'
  BY SameTypes DEF Sound
<1>4. Placed'
  BY <1>1, <1>2 DEF Sound, Placed, Apart, Ahead, Between, Floor, Busy
<1>5. Told'
  BY <1>1, <1>2 DEF Sound, Told, OutcomesAreTrue, ReportsAreTrue, MergedSoFar, Whole, Walked, Excused
<1> QED
  BY <1>3, <1>4, <1>5 DEF Sound

LEMMA InitSound == ASSUME PipelineAssumption, Init PROVE Sound
BY InitTypes, InitPlaced, InitTold DEF Sound

LEMMA NextSound ==
    ASSUME PipelineAssumption, Sound, [Next]_vars
    PROVE  Sound'
<1>1. CASE Cancel
  BY <1>1, CancelTypes, CancelPlaced, CancelTold DEF Sound
<1>2. CASE Producer
  BY <1>2, ProducerStepTypes, ProducerPlaced, ProducerTold DEF Sound
<1>3. CASE \E w \in Active : Worker(w)
  <2>1. PICK w \in Active : Worker(w)
    BY <1>3
  <2> QED
    BY <2>1, WorkerStepTypes, WorkerPlaced, WorkerTold DEF Sound
<1>4. CASE Merger
  BY <1>4, MergerStepTypes, MergerPlaced, MergerTold DEF Sound
<1>5. CASE Over \/ UNCHANGED vars
  BY <1>5, SameSound DEF Over
<1> QED
  BY <1>1, <1>2, <1>3, <1>4, <1>5 DEF Next

(* A scan starts as the sequential one does.                               *)
LEMMA InitRefines ==
    ASSUME PipelineAssumption, Init
    PROVE  Sequential!Init
<1>1. pieces \in Nat \ {0} /\ damaged \in 0 .. pieces - 1 \union {NoPiece}
  BY InitTypes DEF Types, ControlTypes, Numbers
<1>2. merged = << >> /\ canceled = FALSE /\ answer = "none"
  BY DEF Init
<1> QED
  BY <1>1, <1>2 DEF Sequential!Init

(* Only an outcome of an undamaged piece is merged, and it is the next one. *)
LEMMA AddsRefines ==
    ASSUME PipelineAssumption, Sound, MergeAdds
    PROVE  Sequential!ReadNext \/ UNCHANGED Sequential!vars
<1>1. PICK ok \in BOOLEAN :
        /\ ok => ~(where = "replay" /\ damaged = merger.next)
        /\ merger.next \in pending
        /\ merged' = IF ok THEN Append(merged, merger.next) ELSE merged
  BY DEF MergeAdds, Ready
<1>2. merger.at = "receive" /\ UNCHANGED <<pieces, damaged, canceled, answer>>
  BY DEF MergeAdds, control, context
<1>3. CASE ~ok
  BY <1>1, <1>2, <1>3 DEF Sequential!vars
<1>4. CASE ok
  <2>1. answer = "none" /\ Len(merged) = merger.next
    BY <1>2 DEF Sound, Told, MergedSoFar
  <2>2. merger.next < pieces
    BY <1>1 DEF Sound, Types, ControlTypes, MergerTypes, Numbers
  <2>3. merger.next # damaged
    <3>1. Walked(merger.next) /\ where \in {"walk", "replay", "decode"}
      BY <1>1 DEF Sound, Told, OutcomesAreTrue, Types, ControlTypes
    <3> QED
      BY <1>1, <1>4, <3>1 DEF Walked
  <2> QED
    BY <1>1, <1>2, <1>4, <2>1, <2>2, <2>3 DEF Sequential!ReadNext
<1> QED
  BY <1>3, <1>4

(* The answer is one the sequential scan may give.                         *)
LEMMA AnswersRefines ==
    ASSUME PipelineAssumption, Sound, Answers
    PROVE  Sequential!End
<1>1. /\ answer = "none" /\ merger.at = "answer" /\ UNCHANGED <<pieces, damaged, merged, canceled>>
      /\ answer' = IF canceled THEN "canceled" ELSE IF merger.err THEN "failed" ELSE "result"
  BY DEF Answers, Outcome, control, context, merging
<1>2. merger.err => canceled \/ damaged # NoPiece
  BY DEF Sound, Told, MergedSoFar
<1>3. ~merger.err => Len(merged) = pieces
  BY <1>1 DEF Sound, Told, MergedSoFar
<1> QED
  BY <1>1, <1>2, <1>3 DEF Sequential!End

LEMMA NextRefines ==
    ASSUME PipelineAssumption, Sound, [Next]_vars
    PROVE  [Sequential!Next]_(Sequential!vars)
<1>1. CASE Cancel
  BY <1>1 DEF Cancel, control, merging, Sequential!Next, Sequential!Cancel
<1>2. CASE Producer
  BY <1>2 DEF Producer, DispatcherTakesToken, DispatcherHandsOver, DispatcherEnds, DecoderReuses, DecoderMakes,
     DecoderBlocks, DecoderGivesUp, DecoderFills, DecoderFails, DecoderSends, DecoderCloses, DecoderReports,
     DecoderReturns, control, context, merging, Sequential!vars
<1>3. CASE \E w \in Active : Worker(w)
  BY <1>3 DEF Worker, WorkerTakesBatch, WorkerEnds, WorkerWalks, WorkerSends, WorkerGivesUp,
     control, context, merging, Sequential!vars
<1>4. CASE MergeAdds
  BY <1>4, AddsRefines DEF Sequential!Next
<1>5. CASE Answers
  BY <1>5, AnswersRefines DEF Sequential!Next
<1>6. CASE MergeReceives \/ MergeLearnsTotal \/ MergeIsCanceled \/ MergeReleases \/ MergeCancels \/ WaitsForAll
  BY <1>6 DEF MergeReceives, MergeLearnsTotal, MergeIsCanceled, MergeReleases, MergeCancels, WaitsForAll,
     control, context, merging, Sequential!vars
<1>7. CASE Over \/ UNCHANGED vars
  BY <1>7 DEF Over, vars, control, context, merging, Sequential!vars
<1> QED
  BY <1>1, <1>2, <1>3, <1>4, <1>5, <1>6, <1>7 DEF Next, Merger

(* Whatever the order in which the goroutines go on, a scan is one that    *)
(* reads the pieces one after the other (scan.go:71-73): nothing is merged *)
(* twice or out of order, a damaged or canceled text gives no result.      *)
THEOREM Refinement ==
    ASSUME PipelineAssumption
    PROVE  Spec => ImplementsSequentialScan
<1>1. Init => Sound /\ Sequential!Init
  BY InitSound, InitRefines
<1>2. Sound /\ [Next]_vars => Sound'
  BY NextSound
<1>3. Sound /\ [Next]_vars => [Sequential!Next]_(Sequential!vars)
  BY NextRefines
<1> QED
  BY <1>1, <1>2, <1>3, PTL DEF Spec, Sequential!Spec, ImplementsSequentialScan

-----------------------------------------------------------------------------
(* What the window and the buffers hold *)

\* A token for each chunk in flight, and for the one the dispatcher offers.
TokensAreHeld ==
    /\ Cardinality(InFlight) + (IF producer.at = "send" THEN 1 ELSE 0) <= window
    /\ window <= PerWorker * Count

\* A buffer of its own for each batch in flight, and for the one that is filled.
InFlightHasBuffers ==
    \A s \in InFlight : bufferOf[s] \in 1 .. Len(content) /\ content[bufferOf[s]] = s

FreeIsFree ==
    /\ \A i \in 1 .. Len(free) : free[i] \in 1 .. Len(content)
    /\ \A i, j \in 1 .. Len(free) : free[i] = free[j] => i = j
    /\ \A i \in 1 .. Len(free) : \A s \in InFlight : free[i] # bufferOf[s]

DecoderHasBuffer ==
    /\ producer.at \in {"fill", "send"} =>
        /\ producer.buffer \in 1 .. Len(content)
        /\ \A i \in 1 .. Len(free) : free[i] # producer.buffer
        /\ \A s \in InFlight : bufferOf[s] # producer.buffer
    /\ producer.at = "send" => bufferOf[producer.seq] = producer.buffer /\ content[producer.buffer] = producer.seq

BuffersAreHeld == InFlightHasBuffers /\ FreeIsFree /\ DecoderHasBuffer /\ Len(content) <= MaxBufs

Held ==
    /\ source = "chunks" => TokensAreHeld
    /\ source = "stream" => BuffersAreHeld

LEMMA InFlightParts ==
    ASSUME Types
    PROVE  /\ \A w \in Active : Busy(w) => worker[w].seq \in InFlight
           /\ \A i \in 1 .. Len(batches) : batches[i] \in InFlight
           /\ \A i \in 1 .. Len(results) : results[i].seq \in InFlight
           /\ \A s \in pending : s \in InFlight
           /\ merger.at = "release" => merger.next \in InFlight
           /\ \A s \in InFlight : s \in Numbers
           /\ IsFiniteSet(InFlight) /\ Cardinality(InFlight) \in Nat
<1>1. /\ batches \in Seq(Numbers) /\ results \in Seq([seq : Numbers, ok : BOOLEAN])
      /\ DOMAIN batches = 1 .. Len(batches) /\ DOMAIN results = 1 .. Len(results)
  BY DEF Types, ProducerTypes, WorkerTypes
<1>2. /\ \A w \in Active : Busy(w) => worker[w].seq \in Walking
      /\ \A i \in 1 .. Len(batches) : batches[i] \in InChannels
      /\ \A i \in 1 .. Len(results) : results[i].seq \in InChannels
      /\ merger.at = "release" => merger.next \in Adding
  BY <1>1 DEF Walking, InChannels, Adding, Busy
<1>3. InFlight \subseteq Numbers
  <2>1. \A s \in Walking : s \in Numbers
    BY DEF Types, WorkerTypes, Walking
  <2>2. \A s \in InChannels : s \in Numbers
    BY <1>1, PieceTypes DEF InChannels
  <2>3. \A s \in Adding : s \in Numbers
    BY DEF Adding, Types, MergerTypes
  <2> QED
    BY <2>1, <2>2, <2>3, PieceTypes DEF InFlight
<1>4. IsFiniteSet(Numbers)
  <2>1. 0 \in Int /\ pieces - 1 \in Int
    BY PieceTypes
  <2> QED
    BY <2>1, FS_Interval DEF Numbers
<1>5. IsFiniteSet(InFlight) /\ Cardinality(InFlight) \in Nat
  BY <1>3, <1>4, FS_Subset, FS_CardinalityType
<1> QED
  BY <1>2, <1>3, <1>5 DEF InFlight

LEMMA InFlightWithin ==
    ASSUME Types', NEW S,
           \A w \in Active' : Busy(w)' => worker'[w].seq \in S,
           \A i \in 1 .. Len(batches') : batches'[i] \in S,
           \A i \in 1 .. Len(results') : results'[i].seq \in S,
           \A s \in pending' : s \in S,
           merger'.at = "release" => merger'.next \in S
    PROVE  \A s \in InFlight' : s \in S
<1>1. DOMAIN batches' = 1 .. Len(batches') /\ DOMAIN results' = 1 .. Len(results')
  BY DEF Types, ProducerTypes, WorkerTypes
<1>2. \A s \in Walking' : s \in S
  BY DEF Walking, Busy
<1>3. \A s \in InChannels' : s \in S
  BY <1>1 DEF InChannels
<1>4. \A s \in Adding' : s \in S
  BY DEF Adding
<1> QED
  BY <1>2, <1>3, <1>4 DEF InFlight

(* All that is in flight is behind the producer.                           *)
LEMMA InFlightBehind ==
    ASSUME Types, Placed
    PROVE  \A s \in InFlight : s < producer.seq
<1> DEFINE S == {s \in Numbers : s < producer.seq}
<1>1. DOMAIN batches = 1 .. Len(batches) /\ DOMAIN results = 1 .. Len(results)
  BY DEF Types, ProducerTypes, WorkerTypes
<1>2. \A s \in Walking : s < producer.seq
  BY DEF Placed, Ahead, Between, Walking, Busy
<1>3. \A s \in InChannels : s < producer.seq
  BY <1>1 DEF Placed, Ahead, Between, InChannels
<1>4. \A s \in pending : s < producer.seq
  BY DEF Placed, Ahead, Between
<1>5. \A s \in Adding : s < producer.seq
  <2>1. merger.at = "release" => merger.next + 1 <= producer.seq
    BY DEF Placed, Ahead, Floor
  <2>2. merger.at = "release" => merger.next < producer.seq
    BY <2>1, PieceTypes
  <2> QED
    BY <2>2 DEF Adding
<1> QED
  BY <1>2, <1>3, <1>4, <1>5 DEF InFlight

(* A step that takes no token and no buffer and gives none back.           *)
LEMMA NoneTaken ==
    ASSUME PipelineAssumption, Types, Types', Held, UNCHANGED <<source, pieces, window, free, content, bufferOf>>,
           \A s \in InFlight' : s \in InFlight,
           producer'.at \in {"fill", "send"} =>
               producer'.at = producer.at /\ producer'.seq = producer.seq /\ producer'.buffer = producer.buffer
    PROVE  Held'
<1>1. Active' = Active /\ Count' = Count /\ MaxBufs' = MaxBufs
  BY DEF Active, Count, MaxBufs
<1>2. Cardinality(InFlight') <= Cardinality(InFlight) /\ Cardinality(InFlight') \in Nat
  <2>1. InFlight' \subseteq InFlight
    OBVIOUS
  <2> QED
    BY <2>1, InFlightParts, FS_Subset, FS_CardinalityType
<1>3. (source = "chunks" => TokensAreHeld)'
  <2>1. Cardinality(InFlight) \in Nat /\ window \in Int
    BY InFlightParts DEF Types, ProducerTypes
  <2> QED
    BY <1>1, <1>2, <2>1 DEF Held, TokensAreHeld
<1>4. (source = "stream" => BuffersAreHeld)'
  BY <1>1 DEF Held, BuffersAreHeld, InFlightHasBuffers, FreeIsFree, DecoderHasBuffer
<1> QED
  BY <1>3, <1>4 DEF Held

LEMMA InitHeld == ASSUME PipelineAssumption, Init PROVE Held
<1>1. InFlight = {}
  BY DEF Init, InFlight, Walking, InChannels, Adding
<1>2. producer.at = "acquire" /\ window = 0 /\ free = << >> /\ content = << >>
  BY DEF Init
<1>3. Cardinality(InFlight) = 0
  BY <1>1, FS_EmptySet
<1>4. PerWorker * Count \in Nat /\ MaxBufs \in Nat
  BY InitTypes, CountType DEF Types
<1>5. TokensAreHeld
  BY <1>2, <1>3, <1>4 DEF TokensAreHeld
<1>6. BuffersAreHeld
  BY <1>1, <1>2, <1>4 DEF BuffersAreHeld, InFlightHasBuffers, FreeIsFree, DecoderHasBuffer
<1> QED
  BY <1>5, <1>6 DEF Held

LEMMA CancelHeld ==
    ASSUME PipelineAssumption, Types, Types', Held, Cancel
    PROVE  Held'
<1>1. /\ UNCHANGED <<source, pieces, window, free, content, bufferOf, producer>>
      /\ UNCHANGED <<batches, worker, results, pending, merger>>
  BY DEF Cancel, control, producing, merging, buffers
<1>2. InFlight' = InFlight
  BY <1>1 DEF InFlight, Walking, InChannels, Adding, Active
<1> QED
  BY <1>1, <1>2, NoneTaken

LEMMA WorkerHeld ==
    ASSUME PipelineAssumption, Types, Types', Held, NEW w \in Active, Worker(w)
    PROVE  Held'
<1>1. /\ UNCHANGED <<source, pieces, window, free, content, bufferOf, producer>>
      /\ UNCHANGED <<pending, merger>>
  BY DEF Worker, WorkerTakesBatch, WorkerEnds, WorkerWalks, WorkerSends, WorkerGivesUp,
     control, producing, merging, buffers
<1>2. Active' = Active
  BY <1>1 DEF Active
<1>3. worker \in [Active -> [at : {"wait", "walk", "send", "gone"}, seq : Numbers \union {None}, ok : BOOLEAN]]
  BY DEF Types, WorkerTypes
<1>4. \A v \in Active \ {w} : worker'[v] = worker[v]
  BY <1>3 DEF Worker, WorkerTakesBatch, WorkerEnds, WorkerWalks, WorkerSends, WorkerGivesUp
<1>5. /\ Busy(w)' => worker'[w].seq \in InFlight
      /\ \A i \in 1 .. Len(batches') : batches'[i] \in InFlight
      /\ \A i \in 1 .. Len(results') : results'[i].seq \in InFlight
  <2>1. CASE WorkerTakesBatch(w)
    <3>1. /\ batches \in Seq(Numbers) /\ batches # << >> /\ batches' = Tail(batches)
          /\ results' = results /\ worker'[w].seq = Head(batches)
      BY <1>3, <2>1 DEF WorkerTakesBatch, Types, ProducerTypes
    <3>2. /\ Head(batches) = batches[1] /\ Len(batches) \in Nat \ {0} /\ Len(batches') = Len(batches) - 1
          /\ \A i \in 1 .. Len(batches) - 1 : batches'[i] = batches[i + 1]
      BY <3>1, TakenOff
    <3>3. /\ 1 \in 1 .. Len(batches)
          /\ \A i \in 1 .. Len(batches') : i + 1 \in 1 .. Len(batches) /\ batches'[i] = batches[i + 1]
      BY <3>2
    <3> QED
      BY <3>1, <3>2, <3>3, InFlightParts
  <2>2. CASE WorkerEnds(w) \/ WorkerGivesUp(w)
    <3>1. worker'[w].at = "gone" /\ batches' = batches /\ results' = results
      BY <1>3, <2>2 DEF WorkerEnds, WorkerGivesUp, producing
    <3> QED
      BY <3>1, InFlightParts DEF Busy
  <2>3. CASE WorkerWalks(w)
    <3>1. worker'[w].seq = worker[w].seq /\ Busy(w) /\ batches' = batches /\ results' = results
      BY <1>3, <2>3 DEF WorkerWalks, producing, Busy
    <3> QED
      BY <3>1, InFlightParts
  <2>4. CASE WorkerSends(w)
    <3> DEFINE outcome == [seq |-> worker[w].seq, ok |-> worker[w].ok]
    <3>1. /\ worker'[w].at = "wait" /\ batches' = batches /\ Busy(w)
          /\ results \in Seq([seq : Numbers, ok : BOOLEAN]) /\ results' = Append(results, outcome)
      BY <1>3, <2>4 DEF WorkerSends, producing, Busy, Types, WorkerTypes
    <3>2. outcome \in [seq : Numbers, ok : BOOLEAN] /\ outcome.seq = worker[w].seq
      BY <1>3, <3>1, PieceTypes
    <3> HIDE DEF outcome
    <3>3. /\ Len(results) \in Nat /\ Len(results') = Len(results) + 1 /\ results'[Len(results) + 1] = outcome
          /\ \A i \in 1 .. Len(results) : results'[i] = results[i]
      BY <3>1, <3>2, PutOn
    <3>4. \A i \in 1 .. Len(results') : i \in 1 .. Len(results) \/ i = Len(results) + 1
      BY <3>3
    <3>5. worker[w].seq \in InFlight
      BY <3>1, InFlightParts
    <3>6. \A i \in 1 .. Len(results') : results'[i].seq \in InFlight
      BY <3>2, <3>3, <3>4, <3>5, InFlightParts
    <3> QED
      BY <3>1, <3>6, InFlightParts DEF Busy
  <2> QED
    BY <2>1, <2>2, <2>3, <2>4 DEF Worker
<1>6. \A v \in Active' : Busy(v)' => worker'[v].seq \in InFlight
  BY <1>2, <1>4, <1>5, InFlightParts DEF Busy
<1>7. \A s \in InFlight' : s \in InFlight
  BY <1>1, <1>5, <1>6, InFlightParts, InFlightWithin
<1> QED
  BY <1>1, <1>7, NoneTaken

LEMMA MergerHeld ==
    ASSUME PipelineAssumption, Types, Types', Placed, Held, Merger
    PROVE  Held'
<1>1. UNCHANGED <<source, pieces, content, bufferOf, producer, batches, worker>>
  BY DEF Merger, MergeReceives, MergeLearnsTotal, MergeIsCanceled, MergeAdds, MergeReleases, MergeCancels,
     WaitsForAll, Answers, control, producing, merging, buffers
<1>2. Active' = Active /\ Count' = Count /\ MaxBufs' = MaxBufs
  BY <1>1 DEF Active, Count, MaxBufs
<1>3. merger \in [at : MergerSteps, next : Nat, err : BOOLEAN, total : Int]
  BY DEF Types, MergerTypes
<1>4. CASE MergeReceives
  <2>1. /\ results \in Seq([seq : Numbers, ok : BOOLEAN]) /\ results # << >> /\ results' = Tail(results)
        /\ UNCHANGED <<window, free>> /\ merger'.at # "release"
        /\ pending' \subseteq pending \union {Head(results).seq}
    BY <1>3, <1>4 DEF Types, WorkerTypes, MergeReceives, producing, buffers
  <2>2. /\ Len(results) \in Nat \ {0} /\ Len(results') = Len(results) - 1 /\ Head(results) = results[1]
        /\ \A i \in 1 .. Len(results) - 1 : results'[i] = results[i + 1]
    BY <2>1, TakenOff
  <2>3. /\ \A i \in 1 .. Len(results') : i + 1 \in 1 .. Len(results) /\ results'[i] = results[i + 1]
        /\ 1 \in 1 .. Len(results)
    BY <2>2
  <2>4. /\ \A i \in 1 .. Len(results') : results'[i].seq \in InFlight
        /\ \A s \in pending' : s \in InFlight
    BY <2>1, <2>2, <2>3, InFlightParts
  <2>5. \A v \in Active' : Busy(v)' => worker'[v].seq \in InFlight
    BY <1>1, <1>2, InFlightParts DEF Busy
  <2>6. \A s \in InFlight' : s \in InFlight
    BY <1>1, <2>1, <2>4, <2>5, InFlightParts, InFlightWithin
  <2> QED
    BY <1>1, <2>1, <2>6, NoneTaken
<1>5. CASE MergeLearnsTotal \/ MergeIsCanceled \/ MergeCancels \/ WaitsForAll \/ Answers
  <2>1. UNCHANGED <<window, free, results, pending>> /\ merger'.at # "release"
    BY <1>3, <1>5 DEF MergeLearnsTotal, MergeIsCanceled, MergeCancels, WaitsForAll, Answers, producing, buffers, merging
  <2>2. \A s \in InFlight' : s \in InFlight
    BY <1>1, <1>2, <2>1 DEF InFlight, Walking, InChannels, Adding
  <2> QED
    BY <1>1, <2>1, <2>2, NoneTaken
<1>6. CASE MergeAdds
  <2>1. /\ UNCHANGED <<window, free, results>> /\ merger.next \in pending
        /\ pending' \subseteq pending /\ merger'.next = merger.next
    BY <1>3, <1>6 DEF MergeAdds, Ready, producing, buffers
  <2>2. \A s \in InFlight' : s \in InFlight
    BY <1>1, <1>2, <2>1 DEF InFlight, Walking, InChannels, Adding
  <2> QED
    BY <1>1, <2>1, <2>2, NoneTaken
<1>7. CASE MergeReleases
  <2>1. /\ merger.at = "release" /\ merger'.at # "release" /\ UNCHANGED <<results, pending>>
        /\ GivesBack(merger.next)
    BY <1>3, <1>7 DEF MergeReleases
  <2>2. merger.next \in InFlight /\ merger.next \in Numbers /\ Floor = merger.next + 1 /\ merger.next \in Nat
    BY <2>1, InFlightParts, PieceTypes DEF Floor
  <2>3. ~Between(merger.next)
    BY <2>2 DEF Between
  <2>4. \A s \in InFlight' : s \in InFlight \ {merger.next}
    <3>1. \A v \in Active' : Busy(v)' => worker'[v].seq \in InFlight \ {merger.next}
      BY <1>1, <1>2, <2>3, InFlightParts DEF Busy, Placed, Ahead
    <3>2. \A i \in 1 .. Len(batches') : batches'[i] \in InFlight \ {merger.next}
      BY <1>1, <2>3, InFlightParts DEF Placed, Ahead
    <3>3. \A i \in 1 .. Len(results') : results'[i].seq \in InFlight \ {merger.next}
      BY <2>1, <2>3, InFlightParts DEF Placed, Ahead
    <3>4. \A s \in pending' : s \in InFlight \ {merger.next}
      BY <2>1, <2>3, InFlightParts DEF Placed, Ahead
    <3> QED
      BY <2>1, <3>1, <3>2, <3>3, <3>4, InFlightWithin
  <2>5. source = "chunks" => TokensAreHeld'
    <3> SUFFICES ASSUME source = "chunks" PROVE TokensAreHeld'
      OBVIOUS
    <3>1. window' = window - 1 /\ window \in Int /\ PerWorker * Count \in Nat
      BY <2>1, CountType DEF GivesBack, Types, ProducerTypes
    <3>2. /\ Cardinality(InFlight \ {merger.next}) = Cardinality(InFlight) - 1
          /\ IsFiniteSet(InFlight \ {merger.next}) /\ Cardinality(InFlight) \in Nat
      BY <2>2, InFlightParts, FS_RemoveElement
    <3>3. Cardinality(InFlight') <= Cardinality(InFlight) - 1 /\ Cardinality(InFlight') \in Nat
      <4>1. InFlight' \subseteq InFlight \ {merger.next}
        BY <2>4
      <4> QED
        BY <3>2, <4>1, FS_Subset, FS_CardinalityType
    <3> QED
      BY <1>1, <1>2, <3>1, <3>2, <3>3 DEF Held, TokensAreHeld
  <2>6. source = "stream" => BuffersAreHeld'
    <3> SUFFICES ASSUME source = "stream" PROVE BuffersAreHeld'
      OBVIOUS
    <3>1. /\ free' = Append(free, bufferOf[merger.next]) /\ free \in Seq(Int) /\ bufferOf[merger.next] \in Int
          /\ BuffersAreHeld
      BY <2>1, <2>2 DEF GivesBack, Types, BufferTypes, Held
    <3>2. /\ Len(free) \in Nat /\ Len(free') = Len(free) + 1 /\ free'[Len(free) + 1] = bufferOf[merger.next]
          /\ \A i \in 1 .. Len(free) : free'[i] = free[i]
      BY <3>1, PutOn
    <3>3. \A i \in 1 .. Len(free') : i \in 1 .. Len(free) \/ i = Len(free) + 1
      BY <3>2
    <3>4. InFlightHasBuffers'
      BY <1>1, <2>4, <3>1 DEF BuffersAreHeld, InFlightHasBuffers
    <3>5. \A s \in InFlight' : bufferOf[s] # bufferOf[merger.next]
      BY <2>2, <2>4, <3>1 DEF BuffersAreHeld, InFlightHasBuffers
    <3>6. \A i \in 1 .. Len(free) : free[i] # bufferOf[merger.next]
      BY <2>2, <3>1 DEF BuffersAreHeld, FreeIsFree
    <3>7. FreeIsFree'
      <4>1. \A i \in 1 .. Len(free') : free'[i] \in 1 .. Len(content)
        BY <2>2, <3>1, <3>2, <3>3 DEF BuffersAreHeld, FreeIsFree, InFlightHasBuffers
      <4>2. \A i, j \in 1 .. Len(free') : free'[i] = free'[j] => i = j
        BY <3>1, <3>2, <3>3, <3>6, SMTT(30) DEF BuffersAreHeld, FreeIsFree
      <4>3. \A i \in 1 .. Len(free') : \A s \in InFlight' : free'[i] # bufferOf[s]
        BY <2>4, <3>1, <3>2, <3>3, <3>5 DEF BuffersAreHeld, FreeIsFree
      <4> QED
        BY <1>1, <4>1, <4>2, <4>3 DEF FreeIsFree
    <3>8. DecoderHasBuffer'
      <4>1. producer.at \in {"fill", "send"} => \A i \in 1 .. Len(free') : free'[i] # producer.buffer
        BY <2>2, <3>1, <3>2, <3>3 DEF BuffersAreHeld, DecoderHasBuffer
      <4> QED
        BY <1>1, <2>4, <3>1, <4>1 DEF BuffersAreHeld, DecoderHasBuffer
    <3> QED
      BY <1>1, <1>2, <3>1, <3>4, <3>7, <3>8 DEF BuffersAreHeld
  <2> QED
    BY <1>1, <2>5, <2>6 DEF Held
<1> QED
  BY <1>4, <1>5, <1>6, <1>7 DEF Merger

(* The decoder takes a buffer, from the free ones or a new one.            *)
LEMMA DecoderTakesHeld ==
    ASSUME PipelineAssumption, Types, Types', Held, DecoderReuses \/ DecoderMakes, InFlight' = InFlight
    PROVE  Held'
<1>1. /\ source = "stream" /\ UNCHANGED <<source, pieces, bufferOf>> /\ BuffersAreHeld
      /\ producer'.at = "fill" /\ MaxBufs' = MaxBufs
      /\ free \in Seq(Int) /\ Len(free) \in Nat /\ content \in Seq(Int) /\ Len(content) \in Nat
  <2>1. source = "stream" /\ UNCHANGED <<source, pieces, bufferOf>>
    BY DEF DecoderReuses, DecoderMakes, control
  <2>2. producer'.at = "fill"
    BY DEF DecoderReuses, DecoderMakes, Types, ProducerTypes
  <2>3. MaxBufs' = MaxBufs
    BY <2>1 DEF MaxBufs, Count, Active
  <2>4. free \in Seq(Int) /\ Len(free) \in Nat /\ content \in Seq(Int) /\ Len(content) \in Nat
    BY DEF Types, BufferTypes
  <2> QED
    BY <2>1, <2>2, <2>3, <2>4 DEF Held
<1>2. CASE DecoderReuses
  <2>1. free # << >> /\ free' = Tail(free) /\ producer'.buffer = Head(free) /\ content' = content
    BY <1>2 DEF DecoderReuses, Types, ProducerTypes
  <2>2. /\ Head(free) = free[1] /\ Len(free) \in Nat \ {0} /\ Len(free') = Len(free) - 1
        /\ \A i \in 1 .. Len(free) - 1 : free'[i] = free[i + 1]
    BY <1>1, <2>1, TakenOff
  <2>3. /\ 1 \in 1 .. Len(free)
        /\ \A i \in 1 .. Len(free') : i + 1 \in 1 .. Len(free) /\ i + 1 # 1 /\ free'[i] = free[i + 1]
    BY <2>2
  <2>4. InFlightHasBuffers'
    BY <1>1, <2>1 DEF BuffersAreHeld, InFlightHasBuffers
  <2>5. FreeIsFree'
    <3>1. \A i, j \in 1 .. Len(free') : free'[i] = free'[j] => i = j
      <4> TAKE i, j \in 1 .. Len(free')
      <4> HAVE free'[i] = free'[j]
      <4>1. i + 1 = j + 1
        BY <1>1, <2>3 DEF BuffersAreHeld, FreeIsFree
      <4> QED
        BY <4>1
    <3>2. \A i \in 1 .. Len(free') : free'[i] \in 1 .. Len(content)
      BY <1>1, <2>3 DEF BuffersAreHeld, FreeIsFree
    <3>3. \A i \in 1 .. Len(free') : \A s \in InFlight : free'[i] # bufferOf[s]
      BY <1>1, <2>3 DEF BuffersAreHeld, FreeIsFree
    <3> QED
      BY <1>1, <2>1, <3>1, <3>2, <3>3 DEF FreeIsFree
  <2>6. DecoderHasBuffer'
    <3>1. free[1] \in 1 .. Len(content) /\ \A s \in InFlight : bufferOf[s] # free[1]
      BY <1>1, <2>3 DEF BuffersAreHeld, FreeIsFree
    <3>2. \A i \in 1 .. Len(free') : free'[i] # free[1]
      BY <1>1, <2>3 DEF BuffersAreHeld, FreeIsFree
    <3> QED
      BY <1>1, <2>1, <2>2, <3>1, <3>2 DEF DecoderHasBuffer
  <2> QED
    BY <1>1, <2>1, <2>4, <2>5, <2>6 DEF Held, BuffersAreHeld
<1>3. CASE DecoderMakes
  <2>1. /\ free = << >> /\ free' = << >> /\ Len(content) < MaxBufs /\ content' = Append(content, None)
        /\ producer'.buffer = Len(content) + 1
    BY <1>3 DEF DecoderMakes, Types, ProducerTypes
  <2>2. /\ Len(content') = Len(content) + 1
        /\ \A i \in 1 .. Len(content) : content'[i] = content[i]
    BY <1>1, <2>1, PutOn DEF None
  <2>3. \A i \in 1 .. Len(content) : i \in 1 .. Len(content') /\ i # Len(content) + 1
    BY <1>1, <2>2
  <2>4. InFlightHasBuffers'
    BY <1>1, <2>2, <2>3 DEF BuffersAreHeld, InFlightHasBuffers
  <2>5. FreeIsFree'
    BY <2>1 DEF FreeIsFree
  <2>6. DecoderHasBuffer'
    <3>1. Len(content) + 1 \in 1 .. Len(content')
      BY <1>1, <2>2
    <3>2. \A s \in InFlight : bufferOf[s] # Len(content) + 1
      BY <1>1, <2>3 DEF BuffersAreHeld, InFlightHasBuffers
    <3> QED
      BY <1>1, <2>1, <3>1, <3>2 DEF DecoderHasBuffer
  <2>7. Len(content') <= MaxBufs'
    BY <1>1, <2>1, <2>2, CountType DEF Types
  <2> QED
    BY <1>1, <2>4, <2>5, <2>6, <2>7 DEF Held, BuffersAreHeld
<1> QED
  BY <1>2, <1>3

(* The decoder fills its buffer: no batch in flight is in it.              *)
LEMMA DecoderFillsHeld ==
    ASSUME PipelineAssumption, Types, Types', Placed, Held, DecoderFills, InFlight' = InFlight
    PROVE  Held'
<1>1. /\ source = "stream" /\ UNCHANGED <<source, pieces, free>> /\ BuffersAreHeld
      /\ producer.at = "fill" /\ producer'.at = "send" /\ producer'.seq = producer.seq
      /\ producer'.buffer = producer.buffer /\ MaxBufs' = MaxBufs
      /\ content' = [content EXCEPT ![producer.buffer] = producer.seq]
      /\ bufferOf' = [bufferOf EXCEPT ![producer.seq] = producer.buffer]
  BY DEF DecoderFills, control, Held, Types, ProducerTypes, MaxBufs, Count, Active
<1>2. /\ producer.seq \in Numbers /\ producer.seq \in Int /\ producer.buffer \in 1 .. Len(content)
      /\ content \in Seq(Int) /\ Len(content) \in Nat
  BY <1>1 DEF Types, SeqInRange, ProducerTypes, ControlTypes, BufferTypes, Numbers, BuffersAreHeld, DecoderHasBuffer
<1>3. \A s \in InFlight : s # producer.seq /\ s \in Numbers
  BY <1>2, InFlightBehind, InFlightParts, PieceTypes
<1>4. /\ bufferOf'[producer.seq] = producer.buffer
      /\ \A s \in InFlight : bufferOf'[s] = bufferOf[s]
  BY <1>1, <1>2, <1>3 DEF Types, BufferTypes
<1>5. /\ Len(content') = Len(content) /\ content'[producer.buffer] = producer.seq
      /\ \A i \in 1 .. Len(content) : i # producer.buffer => content'[i] = content[i]
  BY <1>1, <1>2
<1>6. InFlightHasBuffers'
  BY <1>1, <1>4, <1>5 DEF BuffersAreHeld, InFlightHasBuffers, DecoderHasBuffer
<1>7. FreeIsFree'
  BY <1>1, <1>4, <1>5 DEF BuffersAreHeld, FreeIsFree
<1>8. DecoderHasBuffer'
  BY <1>1, <1>2, <1>4, <1>5 DEF BuffersAreHeld, DecoderHasBuffer
<1> QED
  BY <1>1, <1>5, <1>6, <1>7, <1>8 DEF Held, BuffersAreHeld

(* The producer passes its piece on, with its token or its buffer.         *)
LEMMA PassesOnHeld ==
    ASSUME PipelineAssumption, Types, Types', Held, producer.at = "send", producer'.at # "send", producer'.at # "fill",
           UNCHANGED <<source, pieces, window, free, content, bufferOf>>,
           \A s \in InFlight' : s \in InFlight \union {producer.seq}
    PROVE  Held'
<1>1. Active' = Active /\ Count' = Count /\ MaxBufs' = MaxBufs
  BY DEF Active, Count, MaxBufs
<1>2. source = "chunks" => TokensAreHeld'
  <2>1. IsFiniteSet(InFlight) /\ Cardinality(InFlight) \in Nat
    BY InFlightParts
  <2>2. /\ IsFiniteSet(InFlight \union {producer.seq})
        /\ Cardinality(InFlight \union {producer.seq}) <= Cardinality(InFlight) + 1
        /\ Cardinality(InFlight \union {producer.seq}) \in Nat
    <3>1. CASE producer.seq \in InFlight
      <4>1. InFlight \union {producer.seq} = InFlight
        BY <3>1
      <4>2. Cardinality(InFlight) <= Cardinality(InFlight) + 1
        BY <2>1
      <4> QED
        BY <2>1, <4>1, <4>2
    <3>2. CASE producer.seq \notin InFlight
      BY <2>1, <3>2, FS_AddElement
    <3> QED
      BY <3>1, <3>2
  <2>3. Cardinality(InFlight') <= Cardinality(InFlight) + 1 /\ Cardinality(InFlight') \in Nat
    <3>1. InFlight' \subseteq InFlight \union {producer.seq}
      OBVIOUS
    <3>2. Cardinality(InFlight') <= Cardinality(InFlight \union {producer.seq}) /\ Cardinality(InFlight') \in Nat
      BY <2>2, <3>1, FS_Subset, FS_CardinalityType
    <3> QED
      BY <2>1, <2>2, <3>2
  <2>4. window \in Int
    BY DEF Types, ProducerTypes
  <2> QED
    BY <1>1, <2>1, <2>3, <2>4 DEF Held, TokensAreHeld
<1>3. source = "stream" => BuffersAreHeld'
  BY <1>1 DEF Held, BuffersAreHeld, InFlightHasBuffers, FreeIsFree, DecoderHasBuffer
<1> QED
  BY <1>2, <1>3 DEF Held

LEMMA ProducerHeld ==
    ASSUME PipelineAssumption, Types, Types', Placed, Held, Producer
    PROVE  Held'
<1>1. UNCHANGED <<source, pieces, results, pending, merger>>
  BY DEF Producer, DispatcherTakesToken, DispatcherHandsOver, DispatcherEnds, DecoderReuses, DecoderMakes,
     DecoderBlocks, DecoderGivesUp, DecoderFills, DecoderFails, DecoderSends, DecoderCloses, DecoderReports,
     DecoderReturns, control, merging
<1>2. Active' = Active /\ Count' = Count
  BY <1>1 DEF Active, Count
<1>3. producer \in [at : ProducerSteps, seq : 0 .. pieces, buffer : Int, report : {"ok", "canceled", "failed"}]
  BY DEF Types, ProducerTypes
<1>4. UNCHANGED <<worker, batches>> => InFlight' = InFlight
  BY <1>1, <1>2 DEF InFlight, Walking, InChannels, Adding
<1>5. CASE DispatcherTakesToken
  <2>1. /\ source = "chunks" /\ producer.at = "acquire" /\ producer'.at = "send" /\ window' = window + 1
        /\ window < PerWorker * Count /\ InFlight' = InFlight
    BY <1>3, <1>4, <1>5 DEF DispatcherTakesToken
  <2>2. window \in Int /\ PerWorker * Count \in Int /\ Cardinality(InFlight) \in Nat
    BY CountType, InFlightParts DEF Types, ProducerTypes
  <2> QED
    BY <1>1, <1>2, <2>1, <2>2 DEF Held, TokensAreHeld
<1>6. CASE \E w \in Active : DispatcherHandsOver(w)
  <2>1. PICK w \in Active : DispatcherHandsOver(w)
    BY <1>6
  <2>2. /\ producer.at = "send" /\ producer'.at = "acquire" /\ batches' = batches
        /\ UNCHANGED <<window, free, content, bufferOf>>
        /\ worker'[w].seq = producer.seq /\ \A v \in Active : v # w => worker'[v] = worker[v]
    BY <1>3, <2>1 DEF DispatcherHandsOver, Types, WorkerTypes, buffers
  <2>3. \A v \in Active' : Busy(v)' => worker'[v].seq \in InFlight \union {producer.seq}
    BY <1>2, <2>2, InFlightParts DEF Busy
  <2>4. \A s \in InFlight' : s \in InFlight \union {producer.seq}
    <3> DEFINE S == InFlight \union {producer.seq}
    <3>1. \A s \in InFlight : s \in S
      OBVIOUS
    <3>2. \A v \in Active' : Busy(v)' => worker'[v].seq \in S
      BY <2>3
    <3> HIDE DEF S
    <3>3. \A s \in InFlight' : s \in S
      BY <1>1, <2>2, <3>1, <3>2, InFlightParts, InFlightWithin
    <3> QED
      BY <3>3 DEF S
  <2> QED
    BY <1>1, <2>2, <2>4, PassesOnHeld
<1>7. CASE DispatcherEnds \/ DecoderBlocks \/ DecoderGivesUp \/ DecoderFails \/ DecoderCloses \/ DecoderReports
  <2>1. UNCHANGED <<worker, batches, window, free, content, bufferOf>> /\ producer'.at \notin {"fill", "send"}
    BY <1>3, <1>7 DEF DispatcherEnds, DecoderBlocks, DecoderGivesUp, DecoderFails, DecoderCloses, DecoderReports,
       DecoderReturns, buffers
  <2> QED
    BY <1>1, <1>4, <2>1, NoneTaken
<1>8. CASE DecoderReuses \/ DecoderMakes
  <2>1. UNCHANGED <<worker, batches>>
    BY <1>8 DEF DecoderReuses, DecoderMakes
  <2> QED
    BY <1>4, <1>8, <2>1, DecoderTakesHeld
<1>9. CASE DecoderFills
  <2>1. UNCHANGED <<worker, batches>>
    BY <1>9 DEF DecoderFills
  <2> QED
    BY <1>4, <1>9, <2>1, DecoderFillsHeld
<1>10. CASE DecoderSends
  <2>1. /\ producer.at = "send" /\ producer'.at \notin {"send", "fill"} /\ worker' = worker
        /\ UNCHANGED <<window, free, content, bufferOf>>
        /\ batches' = Append(batches, producer.seq)
    BY <1>3, <1>10 DEF DecoderSends, buffers
  <2>2. producer.seq \in Numbers /\ batches \in Seq(Numbers)
    BY <2>1 DEF Types, SeqInRange, ProducerTypes, Numbers, ControlTypes
  <2>3. /\ Len(batches) \in Nat /\ Len(batches') = Len(batches) + 1 /\ batches'[Len(batches) + 1] = producer.seq
        /\ \A i \in 1 .. Len(batches) : batches'[i] = batches[i]
    BY <2>1, <2>2, PutOn
  <2>4. \A i \in 1 .. Len(batches') : i \in 1 .. Len(batches) \/ i = Len(batches) + 1
    BY <2>3
  <2>5. \A s \in InFlight' : s \in InFlight \union {producer.seq}
    <3> DEFINE S == InFlight \union {producer.seq}
    <3>1. producer.seq \in S /\ \A s \in InFlight : s \in S
      OBVIOUS
    <3> HIDE DEF S
    <3>2. \A i \in 1 .. Len(batches') : batches'[i] \in S
      BY <2>3, <2>4, <3>1, InFlightParts
    <3>3. \A v \in Active' : Busy(v)' => worker'[v].seq \in S
      BY <1>2, <2>1, <3>1, InFlightParts DEF Busy
    <3>4. \A s \in InFlight' : s \in S
      BY <1>1, <3>1, <3>2, <3>3, InFlightParts, InFlightWithin
    <3> QED
      BY <3>4 DEF S
  <2> QED
    BY <1>1, <2>1, <2>5, PassesOnHeld
<1> QED
  BY <1>5, <1>6, <1>7, <1>8, <1>9, <1>10 DEF Producer

LEMMA SameHeld ==
    ASSUME PipelineAssumption, Types, Types', Held, UNCHANGED vars
    PROVE  Held'
<1>1. UNCHANGED <<source, pieces, window, free, content, bufferOf, producer, worker, batches, results, pending, merger>>
  BY DEF vars, control, producing, merging, buffers
<1>2. InFlight' = InFlight
  BY <1>1 DEF InFlight, Walking, InChannels, Adding, Active
<1> QED
  BY <1>1, <1>2, NoneTaken

LEMMA NextHeld ==
    ASSUME PipelineAssumption, Sound, Sound', Held, [Next]_vars
    PROVE  Held'
<1>1. Types /\ Types' /\ Placed
  BY DEF Sound
<1>2. CASE \E w \in Active : Worker(w)
  <2>1. PICK w \in Active : Worker(w)
    BY <1>2
  <2> QED
    BY <1>1, <2>1, WorkerHeld
<1> QED
  BY <1>1, <1>2, CancelHeld, ProducerHeld, MergerHeld, SameHeld DEF Next, Over

LEMMA UpTo ==
    ASSUME NEW n \in Nat
    PROVE  IsFiniteSet(1 .. n) /\ Cardinality(1 .. n) = n
<1>1. 1 \in Int /\ n \in Int
  OBVIOUS
<1> QED
  BY <1>1, FS_Interval

(* The sets of buffers in use and of free ones are apart, so together they *)
(* are no more than the buffers made.                                      *)
LEMMA HeldCount ==
    ASSUME Types, BuffersAreHeld
    PROVE  Cardinality(InFlight) + Len(free) <= Len(content)
<1> DEFINE Used == {bufferOf[s] : s \in InFlight}
           Free == {free[i] : i \in 1 .. Len(free)}
           U == [s \in InFlight |-> bufferOf[s]]
           F == [i \in 1 .. Len(free) |-> free[i]]
<1>1. /\ Len(free) \in Nat /\ Len(content) \in Nat
      /\ IsFiniteSet(InFlight) /\ Cardinality(InFlight) \in Nat
  BY InFlightParts DEF Types, BufferTypes
<1>2. U \in Bijection(InFlight, Used)
  <2>1. U \in [InFlight -> Used]
    OBVIOUS
  <2>2. \A s, r \in InFlight : U[s] = U[r] => s = r
    BY DEF BuffersAreHeld, InFlightHasBuffers
  <2>3. \A b \in Used : \E s \in InFlight : U[s] = b
    OBVIOUS
  <2> QED
    BY <2>1, <2>2, <2>3, Fun_IsBij
<1>3. F \in Bijection(1 .. Len(free), Free)
  <2>1. F \in [1 .. Len(free) -> Free]
    OBVIOUS
  <2>2. \A i, j \in 1 .. Len(free) : F[i] = F[j] => i = j
    BY DEF BuffersAreHeld, FreeIsFree
  <2>3. \A b \in Free : \E i \in 1 .. Len(free) : F[i] = b
    OBVIOUS
  <2> QED
    BY <2>1, <2>2, <2>3, Fun_IsBij
<1>4. Used \subseteq 1 .. Len(content) /\ Free \subseteq 1 .. Len(content) /\ Used \intersect Free = {}
  BY DEF BuffersAreHeld, InFlightHasBuffers, FreeIsFree
<1> HIDE DEF Used, Free, U, F
<1>5. IsFiniteSet(Used) /\ Cardinality(Used) = Cardinality(InFlight)
  <2>1. ExistsBijection(InFlight, Used)
    BY <1>2 DEF ExistsBijection
  <2> QED
    BY <1>1, <2>1, FS_Bijection
<1>6. IsFiniteSet(Free) /\ Cardinality(Free) = Len(free)
  <2>1. ExistsBijection(1 .. Len(free), Free)
    BY <1>3 DEF ExistsBijection
  <2>2. IsFiniteSet(1 .. Len(free)) /\ Cardinality(1 .. Len(free)) = Len(free)
    BY <1>1, UpTo
  <2> QED
    BY <2>1, <2>2, FS_Bijection
<1>7. Cardinality(Used \union Free) = Cardinality(InFlight) + Len(free)
  <2>1. Cardinality(Used \intersect Free) = 0
    BY <1>4, FS_EmptySet
  <2>2. Cardinality(Used \union Free) = Cardinality(Used) + Cardinality(Free) - Cardinality(Used \intersect Free)
    BY <1>5, <1>6, FS_Union
  <2> QED
    BY <1>1, <1>5, <1>6, <2>1, <2>2
<1>8. Cardinality(Used \union Free) <= Len(content)
  <2>1. IsFiniteSet(1 .. Len(content)) /\ Cardinality(1 .. Len(content)) = Len(content)
    BY <1>1, UpTo
  <2> QED
    BY <1>4, <2>1, FS_Subset
<1> QED
  BY <1>7, <1>8

LEMMA HeldIsEnough ==
    ASSUME PipelineAssumption, Types, Held
    PROVE  HeldUntilMerged
<1>1. source = "chunks" => Cardinality(InFlight) <= window /\ window <= PerWorker * Count
  <2>1. Cardinality(InFlight) \in Nat /\ window \in Int
    BY InFlightParts DEF Types, ProducerTypes
  <2> QED
    BY <2>1 DEF Held, TokensAreHeld
<1>2. ASSUME source = "stream"
      PROVE  /\ \A s \in InFlight \ Adding : content[bufferOf[s]] = s
             /\ merger.at = "release" => content[bufferOf[merger.next]] = merger.next
             /\ Cardinality(InFlight) + Len(free) <= Len(content) /\ Len(content) <= MaxBufs
             /\ merger.at = "release" => Len(free) < MaxBufs
  <2>1. BuffersAreHeld
    BY <1>2 DEF Held
  <2>2. Cardinality(InFlight) + Len(free) <= Len(content) /\ Len(content) <= MaxBufs
    BY <2>1, HeldCount DEF BuffersAreHeld
  <2>3. \A s \in InFlight : content[bufferOf[s]] = s
    BY <2>1 DEF BuffersAreHeld, InFlightHasBuffers
  <2>4. merger.at = "release" => Len(free) < MaxBufs
    <3>1. SUFFICES ASSUME merger.at = "release" PROVE Len(free) < MaxBufs
      OBVIOUS
    <3>2. Cardinality(InFlight) # 0
      BY <3>1, InFlightParts, FS_EmptySet
    <3>3. Len(free) \in Nat /\ Len(content) \in Nat /\ Cardinality(InFlight) \in Nat /\ MaxBufs \in Nat
      BY InFlightParts, CountType DEF Types, BufferTypes
    <3> QED
      BY <2>2, <3>2, <3>3
  <2> QED
    BY <2>2, <2>3, <2>4, InFlightParts
<1> QED
  BY <1>1, <1>2 DEF HeldUntilMerged

(* A batch's lines stay in their buffer until the merge is done with them  *)
(* (stream.go:12-15), no more is held than the window or the buffers allow *)
(* (scan.go:420-421), and a buffer always finds room on the channel it     *)
(* goes back on (scan.go:637-638).                                         *)
THEOREM Holding ==
    ASSUME PipelineAssumption
    PROVE  Spec => []HeldUntilMerged
<1>1. Init => Sound /\ Held
  BY InitSound, InitHeld
<1>2. Sound /\ Held /\ [Next]_vars => Sound' /\ Held'
  BY NextSound, NextHeld
<1>3. Sound /\ Held => HeldUntilMerged
  BY HeldIsEnough DEF Sound
<1> QED
  BY <1>1, <1>2, <1>3, PTL DEF Spec

=============================================================================

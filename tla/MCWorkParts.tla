---------------------------- MODULE MCWorkParts ----------------------------
(***************************************************************************)
(* The goroutines of one signature scan and the index builds of rx serve   *)
(* on small instances, in one run: work somebody waits for, which must end. *)
(* They share no state: part says which of them runs, the other stays as   *)
(* it starts.  The scan has two workers, a window of one piece each, and   *)
(* more pieces than the window and the decoder's buffers hold.  The builds *)
(* serve two chains of two parts over three paths; the second parts are    *)
(* one file.                                                               *)
(***************************************************************************)
EXTENDS ScanPipeline

CONSTANTS
    Part,       \* the parts checked
    l1, c1, c2, p1, p2, p3, NoTask      \* of the builds

VARIABLES
    part,
    bOutcome, bHolds, bVersion, bRunning, bActive, bQueue, bChainParts, bLine, bWoken,
    bPhase, bLookup, bChain

buildVars ==
    <<bOutcome, bHolds, bVersion, bRunning, bActive, bQueue, bChainParts, bLine, bWoken,
      bPhase, bLookup, bChain>>

ChainParts == {c1, c2} \X {1, 2}
SharedTail == [p \in ChainParts |-> IF p[2] = 2 THEN p3 ELSE IF p[1] = c1 THEN p1 ELSE p2]

Index == INSTANCE IndexBuilds WITH
    Lookups <- {l1}, Chains <- {c1, c2}, Others <- {}, Compressing <- {}, Parts <- {1, 2},
    TaskIds <- {l1} \union ChainParts, Keys <- {p1, p2, p3}, PathOf <- SharedTail,
    MaxRunning <- 1, MaxQueued <- 1, Touched <- {p3}, MaxVersion <- 1,
    outcome <- bOutcome, holds <- bHolds, version <- bVersion, running <- bRunning,
    active <- bActive, queue <- bQueue, chainParts <- bChainParts, line <- bLine,
    woken <- bWoken, phase <- bPhase, lookup <- bLookup, chain <- bChain

ASSUME PartsAssumption == PipelineAssumption /\ Index!BuildsAssumption

-----------------------------------------------------------------------------
PartsInit ==
    /\ part \in Part
    /\ Init /\ Index!Init
    /\ part # "scan" => source = "chunks" /\ pieces = 1 /\ damaged = NoPiece

ScanMoves == part = "scan" /\ Next /\ UNCHANGED <<part, buildVars>>
BuildsMove == part = "builds" /\ Index!Next /\ UNCHANGED <<part, vars>>
\* The builds may come to rest.
Rests == part = "builds" /\ UNCHANGED <<part, vars, buildVars>>

PartsSpec == PartsInit /\ [][ScanMoves \/ BuildsMove \/ Rests]_<<part, vars, buildVars>>

\* The fairness of each part (its module says why), for the part that runs.
ScanFairness ==
    /\ WF_vars(part = "scan" /\ Producer)
    /\ WF_vars(part = "scan" /\ Merger)
    /\ \A w \in 1 .. Workers : WF_vars(part = "scan" /\ w \in Active /\ Worker(w))
BuildsFairness ==
    /\ \A t \in {l1} \union ChainParts :
          /\ WF_buildVars(part = "builds" /\ ((\E e \in Index!Ends : Index!BuildEnds(t, e)) \/ Index!Panic(t)))
          /\ WF_buildVars(part = "builds" /\ (Index!Finished(t) \/ Index!Recovered(t)))
    /\ WF_buildVars(part = "builds" /\ (Index!KeepReach(l1) \/ Index!KeepNothing(l1)))
    /\ WF_buildVars(part = "builds" /\ Index!SeeEnd(l1))
    /\ \A c \in {c1, c2} :
          WF_buildVars(part = "builds" /\ (Index!Submit(c) \/ Index!AwaitRoom(c) \/ Index!PartEnds(c)))

FairParts == PartsSpec /\ ScanFairness /\ BuildsFairness

-----------------------------------------------------------------------------
(* Properties.  HeldUntilMerged and ImplementsSequentialScan are           *)
(* ScanPipeline's own.                                                     *)

\* Who waits is answered: the goroutines of a scan end, as the one goroutine does that
\* reads the pieces in order (sigscan/scan.go); a lookup that waits for a build is answered
\* and the run of a chain ends, whatever panics (webapi/samples_index.go; the chains are
\* interchangeable).
WaitersAreAnswered ==
    /\ part = "scan" => Sequential!Fairness
    /\ Index!LookupIsAnswered /\ Index!RunEnds(c1)

=============================================================================

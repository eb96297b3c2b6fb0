SPECIFICATION FairParts
CONSTANTS
    Part = {"builds", "scan"}
    l1 = l1
    c1 = c1
    c2 = c2
    p1 = p1
    p2 = p2
    p3 = p3
    NoTask = NoTask
    Workers = 2
    PerWorker = 1
    Lengths = {1, 5}
    Damages = {0, 3}
    NoPiece = NoPiece
INVARIANTS
    HeldUntilMerged
PROPERTIES
    WaitersAreAnswered
    ImplementsSequentialScan

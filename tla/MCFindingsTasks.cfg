SPECIFICATION FairSpec
CONSTANTS
    p1 = p1
    p2 = p2
    fa = fa
    fb = fb
    dir = dir
    NoCaller = NoCaller
    NoFile = NoFile
    NoLock = NoLock
    Posts = {p1, p2}
    TaskIds = {p1, p2}
    Keys <- SomeKeys
    Asked <- SomeAsked
    Settings <- SomeSettings
    Files = {fa, fb}
    Locks = {l1, l2}
    Limits = {1}
INVARIANTS
    CancelledWroteNothing
PROPERTIES
    NoWorkIsDoneTwice
    EveryTaskEnds
CHECK_DEADLOCK FALSE

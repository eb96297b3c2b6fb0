SPECIFICATION FairParts
CONSTANTS
    Part = {"queue", "hooks", "tasks"}
    Events = {e1, e2, e3, e4}
    Closers = {x1, x2}
    OneEvent = {e1}
    OneCloser = {x1}
    OneStopper = {b1}
    NoEvent = NoEvent
    aTask = aTask
    noTask = noTask
    aPath = aPath
    anOp = anOp
    aChain = aChain
    Callers = {a, b, c}
    OneCaller = {a}
    NoCaller = NoCaller
    Files = {fa, fb}
    NoFile = NoFile
    Locks = {k1, k2, k3}
    NoLock = NoLock
    Limits = {1, 2}
    Starters = {a1, a2}
    Stoppers = {b1, b2}
INVARIANTS
    QueueInv
    WaitMeansSent
PROPERTIES
    FirstComeFirstServed
    EveryWaitEnds
    AcceptedIsSent
    SweeperKeepsItsPromises

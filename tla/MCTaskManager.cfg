SPECIFICATION Spec
CONSTANTS
    t1 = t1
    t2 = t2
    t3 = t3
    p1 = p1
    p2 = p2
    index = index
    chain = chain
    NoTask = NoTask
    TaskIds = {t1, t2, t3}
    Paths = {p1, p2}
    Ops = {index}
    ChainKeys = {}
    MaxTasks = 2
    TTL = 0
    MaxNow = 1
SYMMETRY TaskSymmetry
INVARIANTS
    TypeOK
    UnfinishedHoldsItsKeys
    WatchTellsTheEnd
    CancelIsClean
PROPERTIES
    FirstEndWins
    CapDropsOldestOfItsClass
    ImplementsTaskTable
CHECK_DEADLOCK FALSE

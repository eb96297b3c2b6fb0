SPECIFICATION PartsSpec
CONSTANTS
    Part = {"listing", "search", "describe", "tasks", "builds"}
    t1 = t1
    t2 = t2
    t3 = t3
    c1 = c1
    c2 = c2
    f1 = f1
    f2 = f2
    l1 = l1
    o1 = o1
    f3 = f3
    NoTask = NoTask
    NoFiles = NoFiles
    Lookups = {l1}
    Chains = {c1, c2}
    Parts <- TwoParts
    Others = {o1}
    Compressing = {o1}
    TaskIds <- AllTasks
    Keys = {f1, f2, f3}
    PathOf <- SharedTail
    MaxRunning = 1
    MaxQueued = 1
    Touched = {f3}
    MaxVersion = 2
    Frozen = 2
    FileIds <- SomeFiles
    Stamps <- SomeStamps
    Headers <- SomeHeaders
    Created <- NewFiles
    Described <- SomeChains
    Tolerance = 5
    Attempts = 2
    CacheEntries = 1
    Procs = {1}
    Describes = 2
    Rebuilds = 1
    Removals = 1
    Denials = 1
INVARIANTS
    ListingIsReadAsChains
    AnyOrderGivesTheSameAnswer
    EachLineComesOnce
    HitsAreWhatAReadGives
    ReadyChainsAreOneText
    RegistryInv
PROPERTIES
    RecordsAreTrue
CHECK_DEADLOCK FALSE

SPECIFICATION PartsSpec
CONSTANTS
    Part = {"merge", "seekable", "caches", "viewer"}
    Procs = {"p"}
    Patterns = {"a", "b"}
    Jobs <- SomeJobs
    MaxJobs = 2
    Texts <- SomeTexts
    Appended <- SomeLines
    Step = 2
    MaxChanges = 2
INVARIANTS
    MergeIsChunkFree
    MergeMasksBodies
    SeekableIsWhole
    HitsAreScans
    IndexedNumbersAreTrue
    ViewerIsOneBuild

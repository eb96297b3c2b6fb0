SPECIFICATION PartsSpec
CONSTANTS
    Part = {"seekable"}
    Procs = {"p"}
    Patterns = {"a", "b"}
    Jobs <- SomeJobs
    MaxJobs = 2
    Texts <- SomeTexts
    Appended <- SomeLines
    Step = 2
    MaxChanges = 2
INVARIANTS
    MatchesAreWholeLines

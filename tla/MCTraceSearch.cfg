CONSTANTS
    Searches <- SomeSearches
    Workers = 2
    MinChunk = 3
    MaxChunks = 3
    PipeCap = 1
    CreditBytes = 3
    Faults = 1
    Outside = TRUE
SPECIFICATION Spec
INVARIANTS
    AnswerIsFull
    WindowsAreWhole
    KeptSearchesAreWhole
PROPERTIES
    SearchEnds

SPECIFICATION Spec
CONSTANTS
    p1 = p1
    p2 = p2
    s1 = s1
    s2 = s2
    c1 = c1
    c2 = c2
    NoScope = NoScope
    NoScanner = NoScanner
    Scanners = {p1, p2}
    Readers = {}
    Sigs = {s1, s2}
    Scopes = {c1}
    Asked <- AllAsked
    MaxVersion = 2
    Size <- Grows
    Counts <- SameCounts
INVARIANTS
    CacheIsTrue
CHECK_DEADLOCK FALSE

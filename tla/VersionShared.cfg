\* Two callers; a slow fetch can end after a later one, and there is time for an entry to expire twice.
SPECIFICATION FairSpec
CONSTANTS
    Callers = {c1, c2}
    TTL = 2
    FetchTimeout = 1
    MaxVersion = 2
    MaxTime = 4
INVARIANTS
    TypeOK
    BoundedStaleness
PROPERTIES
    NeverForgets
    GetReturns

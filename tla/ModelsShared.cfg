\* Two clients; upstream's list may be empty, or hold closed models only.
SPECIFICATION Spec
CONSTANTS
    Clients = {c1, c2}
    Models = {old, new, closed}
    Closed = {closed}
    Fallback = {old}
    Catalogs = {{}, {new, closed}, {closed}}
    ListClosed = FALSE
    TTL = 2
    FetchTimeout = 1
    MaxTime = 4
INVARIANTS
    TypeOK
    BoundedStaleness
    AnswerUsable

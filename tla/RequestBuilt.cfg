\* One file in every state, another beside it, and two changes meanwhile.
SPECIFICATION MCSpec
CONSTANTS
    t = t
    u = u
    None = None
    Texts = {t, u}
    Limits = {0, 1, 2}
    Requests <- MCRequests
    Flags <- FlagRecords
    FileCount = 2
    Codes <- GitCodes
    Edits <- MCEdits
    RecentCount = 1
    MaxChanges = 2
INVARIANTS
    TypeOK
    SummaryTrue
    ChangesSeen
    PromptKept
    ClientDecides
CHECK_DEADLOCK FALSE

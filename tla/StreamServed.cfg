\* Two calls interleaved, or one before any ending: every departure of the gateway.
SPECIFICATION Spec
CONSTANTS
    a = a
    b = b
    x = x
    y = y
    Blank = Blank
    ToolIds = {a, b}
    Fragments = {x, y}
    RawReasons = {"tool-calls", "max_tokens", "content-filter", "odd", ""}
    Deviations = {"restart", "orphan", "sparse", "repeat", "multistep", "cut", "error"}
    MaxFragments = 2
    MaxStrays = 1
    MaxSpeech = 1
    MaxSteps = 2
SYMMETRY Symmetry
CONSTRAINT OneInQuestion
INVARIANTS
    TypeOK
    ToolsFaithful
    SlotsKeepTheirId
    RoleAnnouncedOnce
    FinishedOnce
    EndsFaithfully
PROPERTIES
    ChunksLegal
    SilentAfterDone
CHECK_DEADLOCK FALSE

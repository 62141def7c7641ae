\* Three messages with three calls and parts among them.
SPECIFICATION Spec
CONSTANTS
    a = a
    b = b
    f = f
    g = g
    Blank = Blank
    Unknown = Unknown
    CallIds = {a, b}
    ToolNames = {f, g}
    Heads <- MCHeads
    Calls <- MCCalls
    Parts <- MCParts
    MaxMessages = 3
    MaxItems = 3
INVARIANTS
    TypeOK
    TurnsInOrder
    ResultsNamed
    CallsUnique
    CallsKept
    ContentKept
CHECK_DEADLOCK FALSE

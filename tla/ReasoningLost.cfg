\* Clients that send the proxy's own answers back.
SPECIFICATION Spec
CONSTANTS
    a = a
    b = b
    f = f
    g = g
    Blank = Blank
    Unknown = Unknown
    CallIds = {a, b}
    ToolNames = {f, g}
    Heads <- EchoHeads
    Calls <- MCCalls
    Parts <- TextParts
    MaxMessages = 3
    MaxItems = 2
INVARIANTS
    ReasoningRoundTrips
CHECK_DEADLOCK FALSE

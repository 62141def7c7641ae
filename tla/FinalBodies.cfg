\* Two calls, two kinds of fragments, and every departure of the gateway.
SPECIFICATION Spec
CONSTANTS
    a = a
    b = b
    x = x
    y = y
    Blank = Blank
    ToolIds = {a, b}
    Fragments = {x, y}
    RawReasons = {"tool-calls", ""}
    Deviations = {"restart", "orphan", "sparse", "repeat", "multistep", "cut", "error"}
    MaxFragments = 1
    MaxStrays = 1
    MaxSpeech = 1
    MaxSteps = 2
SYMMETRY Symmetry
INVARIANTS
    TypeOK
    SlotsFaithful
    BodyComplete
    BodyVerdict
PROPERTIES
    FinishKept
CHECK_DEADLOCK FALSE

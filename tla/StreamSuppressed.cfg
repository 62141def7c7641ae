\* A tool-call that says more than was streamed before it.
SPECIFICATION Spec
CONSTANTS
    a = a
    b = b
    x = x
    y = y
    Blank = Blank
    ToolIds = {a, b}
    Fragments = {x}
    RawReasons = {"tool-calls", ""}
    Deviations = {"sparse"}
    MaxFragments = 2
    MaxStrays = 1
    MaxSpeech = 1
    MaxSteps = 1
SYMMETRY Symmetry
INVARIANTS
    SuppressedWasStreamed
CHECK_DEADLOCK FALSE

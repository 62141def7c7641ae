\* A finish-step without usage and then no finish.
SPECIFICATION Spec
CONSTANTS
    a = a
    b = b
    x = x
    y = y
    Blank = Blank
    ToolIds = {a}
    Fragments = {x}
    RawReasons = {"max_tokens", ""}
    Deviations = {"cut"}
    MaxFragments = 1
    MaxStrays = 1
    MaxSpeech = 1
    MaxSteps = 1
INVARIANTS
    SignaledReasonWins
CHECK_DEADLOCK FALSE

SPECIFICATION Spec
CONSTANTS
    Proc = {a, b}
    WeightCap = 4
    NodeFloor = 1
    NodeDelta = 1
    RefractoryPeriod = 3
    InitialWeight = 5
    Bumps <- MCBumps
    Fade <- MCFade
    Damp <- MCDamp
    Millisecond = 2
    MaxTime = 7
    MaxCalls = 4
SYMMETRY Symmetry
INVARIANTS TypeOK CountersRight AnswerIsTrue
PROPERTIES BumpsApart HiddenStays

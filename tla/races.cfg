SPECIFICATION Spec
CONSTANTS
    Writers = {a}
    Recallers = {b}
    Forgetters = {b, c}
    MaxMsg = 2
    MaxChunks = 1
    SeedK = 2
    Oversample = 2
    MaxHops = 0
    RecentN = 1
    MaxCalls = 2
INVARIANTS TypeOK NodeCountExact CountersExact NoOrphans WholeUntilForgotten
PROPERTIES DriftIsPermanent NoResurrection

SPECIFICATION Spec
CONSTANTS
    Writers = {a}
    Recallers = {b}
    Forgetters = {c}
    MaxMsg = 1
    MaxChunks = 2
    SeedK = 2
    Oversample = 2
    MaxHops = 1
    RecentN = 1
    MaxCalls = 2
INVARIANT EdgeCountExact

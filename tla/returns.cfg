SPECIFICATION FairSpec
CONSTANTS
    Writers = {a}
    Recallers = {b}
    Forgetters = {a, b}
    MaxMsg = 1
    MaxChunks = 2
    SeedK = 2
    Oversample = 2
    MaxHops = 2
    RecentN = 1
    MaxCalls = 2
PROPERTIES EveryCallReturns KeepsLifecycle NoResurrection

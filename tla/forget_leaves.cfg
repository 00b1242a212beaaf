SPECIFICATION Spec
CONSTANTS
    Writers = {a}
    Recallers = {}
    Forgetters = {c}
    MaxMsg = 2
    MaxChunks = 1
    SeedK = 2
    Oversample = 2
    MaxHops = 1
    RecentN = 1
    MaxCalls = 2
INVARIANT ForgetLeavesNothing

SPECIFICATION Spec
CONSTANTS
    f1 = f1
    t1 = t1
    t2 = t2
    t3 = t3
    system = system
    x = x
    y = y
    Ingester = {a}
    File = {f1}
    Line = {t1, t2, t3, system}
    Turn <- MCTurn
    Chunk = {x, y}
    Script <- MCScript
    Uuid <- MCUuid
    ChunkList <- MCChunkList
    FlushSize = 2
    MaxTime = 0
    MaxCalls = 2
    Stamp <- MCStamp
    Undated <- MCUndated
    DefaultSeed = 8
    Second = 1
    AdvanceClock = 2
    QueryText = {y}
    Battery = 1
INVARIANTS RunTypeOK RecordedIsPrimed DoneIsComplete NeverFromTheFuture ClaimsOnlyReplayed
CHECK_DEADLOCK FALSE

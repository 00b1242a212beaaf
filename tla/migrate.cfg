SPECIFICATION Spec
CONSTANTS
    old = old
    new = new
    Process = {old, new}
    Latest = 3
    Size <- MCSize
    IndexStatement <- MCIndexStatement
    Build <- MCBuild
    MaxRuns = 4
    MaxDrops = 1
INVARIANTS MigrateTypeOK RecordedIsApplied RecordsInOrder ReadyIsComplete
CHECK_DEADLOCK FALSE

SPECIFICATION Spec
CONSTANTS
    Token <- MCToken
    Blank <- MCBlank
    Gap <- MCGap
    Mark <- MCMark
    Held <- MCHeld
    Corpora <- MCCorpora
    Settings <- MCSettings
    TargetN = 1
    K = 1
    Oversample = 2
    Change = {1}
    MayFail = TRUE
INVARIANTS ScoringTypeOK NothingLost FlagsRight CountedOnce
CHECK_DEADLOCK FALSE

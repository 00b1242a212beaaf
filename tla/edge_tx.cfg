SPECIFICATION Spec
CONSTANTS
    Proc = {a, b, c}
    Weights = {1, 2}
    MaxCalls = 4
SYMMETRY Symmetry
INVARIANTS TypeOK OneEdgePerPair MissedOnlyIfDeleted
PROPERTIES Atomic

SPECIFICATION Spec
CONSTANTS
    Proc = {a, b}
    WeightCap = 4
    EdgeFloor = 2
    Fade <- MCFade
    Deltas = {1, 3}
    StructuralWeights = {1, 3, 5}
    MaxTime = 2
    MaxCalls = 4
    MaxPuts = 2
SYMMETRY Symmetry
INVARIANTS TypeOK CountersFollow WeakEdgesDoomed
PROPERTIES FallsOnlyWithTime

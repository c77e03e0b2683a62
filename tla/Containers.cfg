SPECIFICATION MCSpec
CONSTANTS
    Elements = {a, b, c, d}
    MaxSaves = 3
    SetIndices = {1, 2, 100}
    Divisor = 32
INVARIANTS
    PositionsInvert
PROPERTIES
    SavedSetsSurvive
    Backtracks
    ClassesAreSets
CHECK_DEADLOCK FALSE

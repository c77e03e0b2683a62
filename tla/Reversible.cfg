SPECIFICATION MCSpec
CONSTANTS
    num_lines = 3
    Algorithms = {"transformation", "transposition", "young", "reed_muller",
                  "simplify", "windows", "lines"}
    Swaps = 2
INVARIANTS
    MiddleIsLeft
    AdjustedRowsStay
    StepsAreRight
    HelperIsClear
    NeverWorse
PROPERTIES
    KeepsContract
CHECK_DEADLOCK FALSE

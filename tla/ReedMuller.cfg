SPECIFICATION MCSpec
CONSTANTS
    num_lines = 3
    Algorithms = {"reed_muller"}
    Swaps = 2
INVARIANTS
    ColumnIsFound
CHECK_DEADLOCK FALSE

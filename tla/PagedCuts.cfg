SPECIFICATION MCSpec
CONSTANTS
    Inputs = {1, 2}
    Ands = {3, 4, 5}
    Child <- MCChild
    NodeLevels <- MCLevels
    k = 3
    priority = 2
    OnInput <- NoValue
    OnAnd <- NoValueOf
    constant_result = FALSE
    Blank = FALSE
    Values = {FALSE}
    Missing = Missing
    Nobody = Nobody
    MayReorder = TRUE
INVARIANTS
    CutsAreCuts
    ConesFitCuts
    DepthsAreBounds
    NothingIsLost
    ParallelIsSequential
    ChildrenFirst

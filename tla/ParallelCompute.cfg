SPECIFICATION Spec
CONSTANTS
    Inputs = {1, 2}
    Ands = {3, 4, 5}
    Child <- LargeChild
    OnInput <- SimulateInput
    OnAnd <- SimulateAnd
    constant_result = FALSE
    Blank = FALSE
    Values = {FALSE, TRUE}
    Missing = Missing
    Nobody = Nobody
    MayReorder = FALSE
INVARIANTS
    NoLostBit
    NoLostWakeup
PROPERTIES
    ImplementsEvaluation
    Returns

SPECIFICATION Spec
CONSTANTS
    n = 3
    m = 2
    Functions <- Sample
    Approaches = {"naive", "unateness", "split", "split_parallel", "split_inputs_parallel"}
INVARIANTS
    MatrixIsCorrect
    SkipsAreDependent
PROPERTIES
    EntriesAreFinal
CHECK_DEADLOCK FALSE

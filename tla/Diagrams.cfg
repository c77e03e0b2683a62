SPECIFICATION MCSpec
CONSTANTS
    nvars = 3
    Capacity = 32
    Ops = {"and", "or", "xor", "not", "cof0", "cof1", "exists", "constrain", "restrict", "round_down", "round_up", "round"}
    ZddOps = {"diff", "union", "intersection", "symmetric_difference", "join", "delta", "nonsub", "nonsup", "minhit"}
    MaxOps = 2
INVARIANTS
    DiagramsAreCanonical
    CallsAreCorrect
PROPERTIES
    HandlesKeepMeaning
CHECK_DEADLOCK FALSE

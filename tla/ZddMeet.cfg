SPECIFICATION Spec
CONSTANTS
    nvars = 2
    Capacity = 16
    Ops = {"union", "meet"}
    MaxOps = 1
INVARIANTS
    MeetCommutes
CHECK_DEADLOCK FALSE

SPECIFICATION Spec
CONSTANTS
    Inputs = {1, 2}
    Gates = {3, 4, 5}
    Migs <- AllMigs
    Assignments <- AllAssignments
    InputValue <- TrueIn
    Unknown <- Noise
INVARIANTS
    CandidatesReady
    RegistersHold
    OneOwner
CHECK_DEADLOCK FALSE

SPECIFICATION TableSpec
CONSTANTS
    nvars = 2
    Capacity = 8
    Kind = "bdd"
INVARIANTS
    TableCanonical
PROPERTIES
    NodesAreFinal
    InternsNodes
CHECK_DEADLOCK FALSE

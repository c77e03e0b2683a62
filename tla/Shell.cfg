SPECIFICATION Spec
CONSTANTS
    Stores = {"aig", "mig"}
    AbcStore = "aig"
    Lines <- MCLines
    Parsed <- MCParsed
    Patterns <- MCPatterns
    Files <- MCFiles
    AliasFile <- MCAliasFile
    MaxOpenFiles = 2
    MaxTyped = 1
    Scripts <- MCScripts
    NoLine = "no line"
    NoFile = "none"
    Nothing = "nothing"
INVARIANTS
    CurrentIsValid
PROPERTIES
    FailureStops
    Settles
CHECK_DEADLOCK FALSE

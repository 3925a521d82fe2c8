CONSTANTS
    MaxBlock = 4
    Inspectors <- MCInspectors
    MaxFailures = 2
    MaxGeneration = 2
    InitialState = 0
    PropagateErrors = TRUE
    MissingBlocks = {}
    None = None
SPECIFICATION Spec
PROPERTY DbStateMonotone
CHECK_DEADLOCK FALSE

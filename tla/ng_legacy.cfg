CONSTANTS
    MaxBlock = 4
    Inspectors <- MCInspectors
    MaxFailures = 2
    MaxGeneration = 2
    InitialState = 0
    PropagateErrors = FALSE
    MissingBlocks = {2}
    None = None
SPECIFICATION Spec
INVARIANT TypeOK
PROPERTY DbStateMonotone
CHECK_DEADLOCK FALSE

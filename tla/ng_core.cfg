\* The error-propagating loop of inspect/block/mod.rs, started from a
\* saved state (block 0); block 2 is not in the network database.
CONSTANTS
    MaxBlock = 4
    Inspectors <- MCInspectors
    MaxFailures = 2
    MaxGeneration = 2
    InitialState = 0
    PropagateErrors = TRUE
    MissingBlocks = {2}
    None = None
SPECIFICATION Spec
INVARIANT NoSkippedBlock
\* The bounded block stream ends, and with it every behaviour.
CHECK_DEADLOCK FALSE

\* The pipeline is not the atomic batch of spec 4.4.
CONSTANTS
    v1 = v1
    v2 = v2
    Validators <- MCValidators
    Snapshots <- MCSnapshots
    MaxBlock = 3
    MaxGeneration = 1
    MaxFailures = 0
    MaxDrops = 1
SPECIFICATION Spec
PROPERTY AtomicSnapshots
CHECK_DEADLOCK FALSE

\* Restarts, failed fetches and a lost connection: the busy flag is always
\* released, and within one run of the service loop updates are serial.
CONSTANTS
    v1 = v1
    v2 = v2
    Validators <- MCValidators
    Snapshots <- MCSnapshotsSmall
    MaxBlock = 3
    MaxGeneration = 2
    MaxFailures = 1
    MaxDrops = 1
SPECIFICATION FairSpec
INVARIANT TypeOK
INVARIANT AtMostOneUpdate
PROPERTY BusyReleased
CHECK_DEADLOCK FALSE

\* Two failures and a restart anywhere in the loops of three eras.
CONSTANTS
    Validators = {v1, v2, v3}
    Unclaimed = {v1, v2}
    MaxEra = 3
    MaxFailures = 2
    MaxRestarts = 1
SPECIFICATION Spec
INVARIANT TypeOK
INVARIANT ProcessedEraNotified
PROPERTY DueEraProcessed
CHECK_DEADLOCK FALSE

CONSTANTS
    ValidatorCandidates = {1, 2, 3, 4, 5}
    ActiveCandidates = {1, 6}
    NominatorCandidates = {7, 8, 9}
    Targets <- MCTargets
    SuperOf <- MCSuperOf
    IdentityOf = {10}
    PageSize = 2
    MaxNominatorRewarded = 1
    NoParent = NoParent
SPECIFICATION Spec
INVARIANTS
    TypeOK
    InactivePartition
    NominationsCounted
    ParentOneHop
PROPERTIES
    Terminates
CHECK_DEADLOCK FALSE

SPECIFICATION Spec
CONSTANTS
    s1 = s1
    s2 = s2
    Subscribers <- MCSubscribers
    OtherFields <- MCOtherFields
    Values <- MCValues
    MaxBest = 4
    BusCapacity = 1
INVARIANT ClientViewConsistent
CHECK_DEADLOCK FALSE

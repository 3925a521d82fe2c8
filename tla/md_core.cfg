CONSTANTS
    Names = {"u32", "Weird"}
    Known = {"u32"}
    Versions = {"V12", "V13", "V14"}
    Chains = {"polkadot", "westend"}
    EventArgTypes <- MCEventArgTypes
    CallArgTypes <- MCCallArgTypes
SPECIFICATION Spec
INVARIANTS
    TypeOK
    ParsedAsDeclared
    RejectsOnlyNestedTuples
CHECK_DEADLOCK FALSE

CONSTANTS
    c1 = c1
    c2 = c2
    v1 = v1
    d1 = d1
    d2 = d2
    Clients <- MCClients
    Validators <- MCValidators
    Details <- MCDetails
    MaxBlock = 3
    BusCapacity = 1
SPECIFICATION Spec
INVARIANT TypeOK
 
CHECK_DEADLOCK FALSE

\* A RemoveValidator query whose app-side delete never happens.
CONSTANTS
    Users = {1, 2, 3}
    Validators = {v1}
    Messages = {m1, m2}
    Removals = {r1}
    NoUser = NoUser
    MaxFailures = 1
    MessageKinds = {"groupCreated", "command", "address", "text", "noText"}
    ChatIsPrivate = TRUE
SPECIFICATION Spec
INVARIANT NotifiedIffListed
CHECK_DEADLOCK FALSE

\* An admin is deleted while user.created is handled; no fault at all.
SPECIFICATION Spec
CONSTANTS
    Users = {admin, root}
    Admins = {admin}
    Super = root
    OnChain = TRUE
    Trusted = TRUE
    MaxBacklog = 1
    Faults = {}
CHECK_DEADLOCK FALSE
INVARIANTS
    EveryDidHasUser

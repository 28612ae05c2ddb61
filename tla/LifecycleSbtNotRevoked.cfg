\* A node that times out once between the two halves of cred.created.
SPECIFICATION Spec
CONSTANTS
    Creds = {c1}
    DbRevocable = {c1}
    ChainTypes = {c1}
    ChainRevocable = {c1}
    OnChain = TRUE
    WithSBT = TRUE
    Faults = {"timeout"}
INVARIANT
    HandledRevokeIsOnSbt
CHECK_DEADLOCK FALSE

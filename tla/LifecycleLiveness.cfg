\* Calls fail, time out and are answered late, but no event is lost.
SPECIFICATION FairSpec
CONSTANTS
    Creds = {c1}
    DbRevocable = {c1}
    ChainTypes = {c1}
    ChainRevocable = {c1}
    OnChain = TRUE
    WithSBT = TRUE
    Faults = {"rpc", "db", "timeout", "ack"}
PROPERTIES
    IssuedGetsAnchored
    RevokedGetsRevokedOnRegistry
CHECK_DEADLOCK FALSE

\* No event is lost, the database answers; RPC calls fail for a while.
SPECIFICATION FairSpec
CONSTANTS
    Users = {user, root}
    Admins = {}
    Super = root
    OnChain = TRUE
    Trusted = TRUE
    MaxBacklog = 1
    Faults = {"rpc", "timeout"}
CHECK_DEADLOCK FALSE
PROPERTIES
    DidGetsAnchored
    UserGetsDid

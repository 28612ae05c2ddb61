\* An admin that may be deleted and the seeded super_admin, every fault.
SPECIFICATION Spec
CONSTANTS
    Users = {admin, root}
    Admins = {admin}
    Super = root
    OnChain = TRUE
    Trusted = TRUE
    MaxBacklog = 2
    Faults = {"rpc", "db", "timeout", "publish", "crash", "kill"}
CHECK_DEADLOCK FALSE
INVARIANTS
    AnnouncedAtMostOnce
    AnchoredRowIsOnChain
    DidStaysPending
    UserStaysPending
    SeedDoneMeansReady

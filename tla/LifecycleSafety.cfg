\* Two credentials whose types are anchored and revocable, every fault.
SPECIFICATION Spec
CONSTANTS
    Creds = {c1, c2}
    DbRevocable = {c1, c2}
    ChainTypes = {c1, c2}
    ChainRevocable = {c1, c2}
    OnChain = TRUE
    WithSBT = TRUE
    Faults = {"rpc", "db", "timeout", "ack", "publish", "crash"}
SYMMETRY CredSymmetry
INVARIANTS
    ChainRevocationFollowsTable
    AnchorsAreTruthful
    AckedIssueIsAnchored
    AckedRevokeIsOnRegistry
    OneTokenPerCredential
    IssueStaysPending
PROPERTIES
    NothingIsTakenBack
    ImplementsPromise
CHECK_DEADLOCK FALSE

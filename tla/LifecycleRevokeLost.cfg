\* The broker is away when the background task publishes.
SPECIFICATION FairSpec
CONSTANTS
    Creds = {c1}
    DbRevocable = {c1}
    ChainTypes = {c1}
    ChainRevocable = {c1}
    OnChain = TRUE
    WithSBT = TRUE
    Faults = {"publish"}
PROPERTY
    RevokedFailsVerify
CHECK_DEADLOCK FALSE

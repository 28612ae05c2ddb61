\* Two credentials of two types, two accounts, two blocks.
SPECIFICATION Spec
CONSTANTS
    Ids = {c1, c2}
    TypeIds = {t1, t2}
    DocumentHashes = {h1}
    Addresses = {admin, holder}
    Issuers = {admin}
    Admin = admin
    ZeroHash = zeroHash
    ZeroAddress = zeroAddress
    MaxUint = 3
    MaxTime = 2
SYMMETRY IdSymmetry
INVARIANTS
    TokensAreCertificates
    BalancesCountTokens
    RevokedOnlyIfRevocable
CHECK_DEADLOCK FALSE
PROPERTIES
    NothingIsRewritten
    ImplementsLifecycleChain

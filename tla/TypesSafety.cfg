\* A seeded type and a new one, two templates, three jobs at a time, every fault.
SPECIFICATION Spec
CONSTANTS
    Types = {seeded, new}
    Seeded = {seeded}
    Templates = {x, y}
    NoTemplate = NoTemplate
    Workers = {w1, w2, w3}
    Configured = TRUE
    Faults = {"rpc", "db", "timeout", "crash"}
SYMMETRY TypesSymmetry
INVARIANTS
    ChainAgreesWithTable
    AnchoredTypeIsOnChain
    ChainOnlyTypeIsExcused

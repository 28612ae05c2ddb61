\* A message to be executed, one that never can be, and a window of two.
SPECIFICATION FairSpec
CONSTANTS
    p = p
    g = g
    w = w
    main = main
    none = none
    nobody = none
    Messages = {p, g}
    Poison = {p}
    Ops = {g, w}
    Callers = {main, w}
    Workers = {w}
    Startup <- MCStartup
    Event <- MCEvent
    Window = 2
    MaxTx = 2
    MaxWork = 1
    BusFaults = {"broker", "crash"}
    SendFaults = {"rpc", "timeout"}
INVARIANTS
    DoneIsExecuted
PROPERTIES
    ImplementsMail
    ImplementsAccount
    GoodMessagesAreHandled
CHECK_DEADLOCK FALSE

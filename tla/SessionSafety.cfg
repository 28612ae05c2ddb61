\* Two tabs, a student who may log in twice and an admin.
SPECIFICATION Spec
CONSTANTS
    sara = sara
    ann = ann
    s1 = s1
    s2 = s2
    a1 = a1
    tab1 = tab1
    tab2 = tab2
    Tabs = {tab1, tab2}
    Tokens = {s1, s2, a1}
    Users = {sara, ann}
    Owner <- MCOwner
    Portal <- MCPortal
    MaxRequests = 2
SYMMETRY Symmetric
INVARIANTS
    RequestsGoOutAsShown
PROPERTIES
    SessionChangesForAReason
CHECK_DEADLOCK FALSE

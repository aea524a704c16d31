\* A counter whose original is decided meanwhile.
SPECIFICATION Spec
CONSTANTS
    a = a
    b = b
    f1 = f1
    f2 = f2
    f3 = f3
    g1 = g1
    g2 = g2
    none = none
    Agents <- TwoAgents
    Rows <- TwoRows
    GrantIds <- NoGrants
    NoRow = none
    NoAgent = none
    MaxRequests = 2
SYMMETRY Symmetric
CHECK_DEADLOCK FALSE
INVARIANTS
    CountersFollowCountered

\* A friendship, and a later proposal the other way.
SPECIFICATION EnsureSpec
CONSTANTS
    Agents = {me, peer}
    Rows = {i1, i2}
    GrantIds = {j1}
    NoRow = none
    NoAgent = none
    MaxRequests = 1
    Me = me
    Peer = peer
CHECK_DEADLOCK FALSE
INVARIANT MissingWhenReported

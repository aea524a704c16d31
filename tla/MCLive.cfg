SPECIFICATION LiveSpec
CONSTANTS
    \* the wake hub
    Processes = {p1, p2}
    Pulls = {w1}
    Items = {x1}
    NoProcess = NoProcess
    MaxWaiters = 1
    MaxPublishFailures = 1
    MaxDrops = 1
    MaxOutages = 0
    \* an agent with an endpoint
    Urls = {u1, u2}
    NoUrl = NoUrl
    AgentSlugs = {s1, s2}
    Fetches = {f1, f2}
    Messages = {m1}
    Edits = {e1}
    MaxVersion = 2
    \* the agents of an organization
    Owned = {x1, x2, x3}
    FirstCalls = {c1, c2}
    NoAgentYet = none
    MaxSuffix = 1
    \* a command and the pair of agents it is about
    Agents = {me, peer}
    Rows = {i1, i2}
    GrantIds = {j1}
    NoRow = none
    NoAgent = none
    MaxRequests = 1
    Me = me
    Peer = peer
CHECK_DEADLOCK FALSE
INVARIANT ChargedAsForwarded
PROPERTIES
    AgentsAreKept
    CardCatchesUp
    WorkEndsTheWait
    AnswersEndTheWait

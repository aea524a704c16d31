SPECIFICATION PartsSpec
CONSTANTS
    \* friendships and grants
    Agents = {a1, a2}
    Rows = {i1, i2}
    GrantIds = {j1, j2}
    NoRow = none
    NoAgent = none
    MaxRequests = 2
    \* the auto-friendship policy
    OrgAgents = {1, 2, 3}
    Proposers = {2}
    MaxRunning = 2
    \* credentials
    Grants = {g1}
    Keys = {i1, i2, i3}
    Agents_ = {a1, a2}
    Asks = {a1, a2}
    Apps = {app}
    NoApp = noapp
    Person = person
    Unmade = unmade
    \* reviews
    Authors = {a1, a2}
    Skills = {j1, j2}
    Invokes = {q1, q2}
    Writes = {a1, a2}
    \* counted limits
    Callers = {i1, i2, i3}
    MaxFailures = 3
    Quota = 2
    PerHour = 2
    \* the wake hub
    Processes = {a1, a2}
    Pulls = {w1}
    Items = {x1, x2}
    NoProcess = NoProcess
    MaxWaiters = 1
    MaxPublishFailures = 1
    MaxDrops = 1
    MaxOutages = 1
    \* wake URLs
    Relays = {a1, a2}
    Works = {x1}
    Turns = {t1, t2}
    Notice = notice
    FailureLimit = 2
    MaxPings = 2
    MaxSets = 2
    MaxErrors = 1
    \* slugs
    Named = {a1, a2}
    Names = {i1, i2, i3}
    Patches = {a1, a2}
    NoName = noname
    MaxHops = 8
    MaxRenames = 3
    \* heartbeats
    Copies_ = {a1, a2}
    MaxPolls = 3
    MaxDown = 1
    \* the serve loop
    Workers = {a1, a2}
    Jobs = {1, 2}
    BatchSize = 2
    MaxClaims = 2
    MaxReleases = 1
    MaxStops = 1
SYMMETRY PartsSymmetry
CONSTRAINTS
    OneKindOfCredential
    FewKeys
    FewFaults
    FewSets
CHECK_DEADLOCK FALSE
INVARIANTS
    GrantsAmongFriends
    EveryPairBefriended
    RevokedForGood
    ReachIsKept
    ReviewedIfLetThrough
    OvershootsByTheOthers
    WokenUnlessOut
    WorkIsAnnounced
    OffIsTold
    OldSlugsLead
    PollsAreKept
    HandledPerClaim
PROPERTIES
    DecidedForGood

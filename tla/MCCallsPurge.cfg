SPECIFICATION CallsSpec
CONSTANTS
    CallIds = {c1}
    Agents = {a1, a2}
    Nobody = Nobody
    Requests = {r1, r2}
    Invs = {i1}
    MaxActive = 1
    MaxMessages = 1
    MaxAttempts = 1
    TagsOn = TRUE
    MaxSends = 3
    MaxCrashes = 1
SYMMETRY Symmetric
CONSTRAINT Small
INVARIANT PurgeFindsInvocations
CHECK_DEADLOCK FALSE

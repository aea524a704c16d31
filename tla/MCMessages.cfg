SPECIFICATION MessagesSpec
CONSTANTS
    \* calls
    CallIds = {c1}
    Agents = {a1, a2}
    Nobody = Nobody
    Requests = {r1, r2}
    Invs = {i1}
    MaxActive = 1
    MaxMessages = 1
    MaxAttempts = 1
    TagsOn = TRUE
    MaxSends = 3
    MaxCrashes = 1
    \* the screening of a message
    ItemCount = 2
    TextLength = 2
    Contacts = 2
    MaxChunks = 2
    MaxJudged = 1
SYMMETRY Symmetric
CONSTRAINT Small
INVARIANTS
    NothingSlipsThrough
    NothingSaidAfterTheEnd
    EndsAreTold
    CountedAndCharged
PROPERTIES
    OnlyLateWritesComeBack
CHECK_DEADLOCK FALSE

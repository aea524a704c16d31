\* An endpoint is set while a capability comes to ask first.
SPECIFICATION PushSpec
CONSTANTS
    Urls = {u1}
    NoUrl = NoUrl
    AgentSlugs = {s1}
    Fetches = {f1}
    Messages = {m1}
    Edits = {e1, e2}
    MaxVersion = 1
CHECK_DEADLOCK FALSE
INVARIANT PushNeverAsks

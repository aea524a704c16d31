\* Two invocations of a capability that asks first, or stops asking, one under
\* the grant and one while it is public: held requests and standing consents.
SPECIFICATION Spec
CONSTANTS
    i1 = i1
    i2 = i2
    yes = yes
    no = no
    none = none
    Ids <- TwoIds
    CallIds <- NoIds
    PublicIds <- SecondId
    LegacyIds <- NoIds
    Answers <- JustYes
    Failing <- NoIds
    NoAnswer = none
    NoConsent = none
    MaxDeliveries = 2
    MaxRequests = 1
    Semantics = {"autonomous"}
    ConsentSettings = {TRUE, FALSE}
    PublicSettings = {TRUE, FALSE}
    MaxInFlight = 0
CHECK_DEADLOCK FALSE
INVARIANTS
    HeldExactlyWhileAsked
    NeverDeliveredUnapproved
    ChargedOnceQueued
    ConsentWithinLimits

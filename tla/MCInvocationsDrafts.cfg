\* A human_in_loop capability: drafts, replaced drafts, approvers and owners,
\* of an invocation that asks first, does not, or was there before deadlines.
SPECIFICATION FairSpec
CONSTANTS
    i1 = i1
    i2 = i2
    yes = yes
    no = no
    none = none
    Ids <- OneId
    CallIds <- OneId
    PublicIds <- NoIds
    LegacyIds <- OneId
    Answers <- YesOrNo
    Failing <- JustNo
    NoAnswer = none
    NoConsent = none
    MaxDeliveries = 2
    MaxRequests = 0
    Semantics = {"human_in_loop"}
    ConsentSettings = {TRUE, FALSE}
    PublicSettings = {FALSE}
    MaxInFlight = 2
CHECK_DEADLOCK FALSE
INVARIANTS
    ConfirmedAsShown
    HumanConfirmedWhilePublished
    NoticesAgree
PROPERTIES
    EveryInvocationSettles
    KeepsContract

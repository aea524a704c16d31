\* A revoked grant and the claims that were out when it was revoked.
SPECIFICATION Spec
CONSTANTS
    i1 = i1
    i2 = i2
    yes = yes
    no = no
    none = none
    Ids <- OneId
    CallIds <- NoIds
    PublicIds <- NoIds
    LegacyIds <- NoIds
    Answers <- JustYes
    Failing <- NoIds
    NoAnswer = none
    NoConsent = none
    MaxDeliveries = 3
    MaxRequests = 1
    Semantics = {"autonomous"}
    ConsentSettings = {FALSE}
    PublicSettings = {FALSE}
    MaxInFlight = 0
CHECK_DEADLOCK FALSE
PROPERTIES
    NoClaimUnderRevokedGrant

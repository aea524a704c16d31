----------------------------- MODULE PushAgents -----------------------------
(***************************************************************************)
(* An agent that may have an endpoint of its own (push) or poll the relay  *)
(* (pull): its owner's changes to it and to its one capability, the card   *)
(* fetched from its host and cached, and the A2A messages the relay        *)
(* forwards to that endpoint or parks.                                     *)
(*                                                                         *)
(* A handler's transaction, or a single statement, is one step; what it    *)
(* read before is a step of its own, so that others come between.  A host  *)
(* numbers the versions of its card; the number is the ETag of a version,  *)
(* so that two hosts may serve different cards under one ETag.             *)
(***************************************************************************)
EXTENDS Naturals

CONSTANTS
    Urls, NoUrl,       \* card URLs, each at a host of its own
    AgentSlugs,
    Fetches,           \* refresh ticks and lazy fetches under way
    Messages,          \* SendMessage requests
    Edits,             \* the owner's requests
    MaxVersion         \* bound: versions of a host's card

ASSUME PushAssumption == NoUrl \notin Urls /\ MaxVersion \in Nat \ {0}

VARIABLES
    pushAgent, \* agents: agent_card_url (NoUrl is mode 'pull') and slug
    asks,      \* agent_capabilities.consent_required
    cardRow,   \* agent_card_cached
    fetchedAt, \* agent_card_fetched_at: never, recent, or over four hours ago
    attempted, \* agent_card_last_attempted_at is within the staleness window
    hosted,    \* the version of the card each URL serves
    fetch,     \* cache_card_for_agent calls
    edit,      \* update requests
    message,   \* SendMessage requests
    took       \* messages an endpoint took

pushVars == <<pushAgent, asks, cardRow, fetchedAt, attempted, hosted, fetch, edit, message, took>>

NoCard == [url |-> NoUrl]
NoFetch == [step |-> "idle"]
NewEdit == [step |-> "new"]
NewMessage == [step |-> "new"]

PushInit ==
    /\ pushAgent \in [url : Urls \cup {NoUrl}, slug : AgentSlugs]
    /\ asks = FALSE /\ cardRow = NoCard
    /\ fetchedAt = "never" /\ attempted = FALSE
    /\ hosted = [u \in Urls |-> 1]
    /\ fetch = [f \in Fetches |-> NoFetch]
    /\ edit = [e \in Edits |-> NewEdit]
    /\ message = [m \in Messages |-> NewMessage]
    /\ took = {}

IsPush == pushAgent.url # NoUrl

----------------------------------------------------------------------------
(* The owner's changes *)

\* update refuses an endpoint while a capability asks first ...
EndpointAllowed(url) == url # NoUrl => ~asks

ChecksEndpoint(e, url) ==
    /\ edit[e].step = "new"
    /\ edit' = [edit EXCEPT ![e] = IF EndpointAllowed(url)
                                     THEN [step |-> "endpoint", url |-> url] ELSE [step |-> "done"]]
    /\ UNCHANGED <<pushAgent, asks, cardRow, fetchedAt, attempted, hosted, fetch, message, took>>

\* ... and then sets it.  What was cached for the old endpoint stays.
SetsEndpoint(e) ==
    /\ edit[e].step = "endpoint"
    /\ pushAgent' = [pushAgent EXCEPT !.url = edit[e].url]
    /\ edit' = [edit EXCEPT ![e] = [step |-> "done"]]
    /\ UNCHANGED <<asks, cardRow, fetchedAt, attempted, hosted, fetch, message, took>>

RenamesAgent(e, slug) ==
    /\ edit[e].step = "new" /\ slug # pushAgent.slug
    /\ pushAgent' = [pushAgent EXCEPT !.slug = slug]
    /\ edit' = [edit EXCEPT ![e] = [step |-> "done"]]
    /\ UNCHANGED <<asks, cardRow, fetchedAt, attempted, hosted, fetch, message, took>>

\* A capability's create or update reads the agent's mode, and the settings
\* the request leaves as they are ...
ReadsCapability(e, wanted) ==
    /\ edit[e].step = "new"
    /\ edit' = [edit EXCEPT ![e] = IF wanted /\ IsPush
                                     THEN [step |-> "done"]
                                     ELSE [step |-> "capability", asks |-> wanted]]
    /\ UNCHANGED <<pushAgent, asks, cardRow, fetchedAt, attempted, hosted, fetch, message, took>>

\* ... and writes all of them.
WritesCapability(e) ==
    /\ edit[e].step = "capability"
    /\ asks' = edit[e].asks
    /\ edit' = [edit EXCEPT ![e] = [step |-> "done"]]
    /\ UNCHANGED <<pushAgent, cardRow, fetchedAt, attempted, hosted, fetch, message, took>>

----------------------------------------------------------------------------
(* Fetching the card *)

HostPublishes(u) ==
    /\ hosted[u] < MaxVersion
    /\ hosted' = [hosted EXCEPT ![u] = @ + 1]
    /\ UNCHANGED <<pushAgent, asks, cardRow, fetchedAt, attempted, fetch, edit, message, took>>

\* Fault: only a card that was never fetched is claimed.
NeverFetched == ~attempted /\ cardRow = NoCard

DueForRefresh == ~attempted

\* The refresh job's tick: the attempt counts from the claim.
Claims(f) ==
    /\ fetch[f] = NoFetch /\ IsPush /\ DueForRefresh
    /\ attempted' = TRUE
    /\ fetch' = [fetch EXCEPT ![f] = [step |-> "claimed"]]
    /\ UNCHANGED <<pushAgent, asks, cardRow, fetchedAt, hosted, edit, message, took>>

\* A card request finds none cached.
FetchesLazily(f) ==
    /\ fetch[f] = NoFetch /\ IsPush /\ cardRow = NoCard
    /\ fetch' = [fetch EXCEPT ![f] = [step |-> "claimed"]]
    /\ UNCHANGED <<pushAgent, asks, cardRow, fetchedAt, attempted, hosted, edit, message, took>>

\* cache_card_for_agent reads the row: the URL, the slug its published card
\* is to name, and the ETag of what is cached, whichever URL that is from.
LoadsAgent(f) ==
    /\ fetch[f].step = "claimed"
    /\ fetch' = [fetch EXCEPT ![f] = IF IsPush
                   THEN [step |-> "asking", url |-> pushAgent.url, slug |-> pushAgent.slug,
                         etag |-> cardRow]
                   ELSE NoFetch]
    /\ UNCHANGED <<pushAgent, asks, cardRow, fetchedAt, attempted, hosted, edit, message, took>>

\* The host is sent a bare ETag, and says so when it serves a card under it.
NotModified(f) ==
    fetch[f].etag # NoCard /\ fetch[f].etag.version = hosted[fetch[f].url]

HostAnswers(f) ==
    /\ fetch[f].step = "asking"
    /\ fetch' = [fetch EXCEPT ![f] =
                   IF NotModified(f) THEN [step |-> "unmodified"]
                   ELSE [step |-> "fresh", card |-> [url |-> @.url, version |-> hosted[@.url],
                                                     slug |-> @.slug]]]
    /\ UNCHANGED <<pushAgent, asks, cardRow, fetchedAt, attempted, hosted, edit, message, took>>

\* A failed fetch waits for the next window; so does one whose process stops.
FetchFails(f) ==
    /\ fetch[f] # NoFetch
    /\ fetch' = [fetch EXCEPT ![f] = NoFetch]
    /\ UNCHANGED <<pushAgent, asks, cardRow, fetchedAt, attempted, hosted, edit, message, took>>

StoresCard(f) ==
    /\ fetch[f].step \in {"fresh", "unmodified"}
    /\ cardRow' = IF fetch[f].step = "fresh" THEN fetch[f].card ELSE cardRow
    /\ fetchedAt' = "recent"
    /\ fetch' = [fetch EXCEPT ![f] = NoFetch]
    /\ UNCHANGED <<pushAgent, asks, attempted, hosted, edit, message, took>>

StalenessPasses ==
    /\ attempted /\ attempted' = FALSE
    /\ UNCHANGED <<pushAgent, asks, cardRow, fetchedAt, hosted, fetch, edit, message, took>>

FourHoursPass ==
    /\ fetchedAt = "recent" /\ fetchedAt' = "old"
    /\ UNCHANGED <<pushAgent, asks, cardRow, attempted, hosted, fetch, edit, message, took>>

----------------------------------------------------------------------------
(* SendMessage *)

To(m, step) == message' = [message EXCEPT ![m] = step]

\* evaluate reads the agent's mode, and a push agent's health.
Authorizes(m) ==
    /\ message[m].step = "new"
    /\ To(m, IF IsPush /\ fetchedAt # "recent" THEN [step |-> "done", told |-> "unreachable"]
             ELSE [step |-> "authorized", push |-> IsPush])
    /\ UNCHANGED <<pushAgent, asks, cardRow, fetchedAt, attempted, hosted, fetch, edit, took>>

\* Its limits, or the screening of the message, refuse it.
TurnsAwayMessage(m) ==
    /\ message[m].step = "authorized"
    /\ To(m, [step |-> "done", told |-> "refused"])
    /\ UNCHANGED <<pushAgent, asks, cardRow, fetchedAt, attempted, hosted, fetch, edit, took>>

\* A pull agent's message is parked, held first if the capability asks.
Parks(m) ==
    /\ message[m].step = "authorized" /\ ~message[m].push
    /\ To(m, [step |-> "done", told |-> "task", row |-> IF asks THEN "awaiting_consent" ELSE "pending"])
    /\ UNCHANGED <<pushAgent, asks, cardRow, fetchedAt, attempted, hosted, fetch, edit, took>>

\* A push agent's is posted to the endpoint its cached card names.
Posts(m) ==
    /\ message[m].step = "authorized" /\ message[m].push
    /\ To(m, IF cardRow = NoCard THEN [step |-> "done", told |-> "unreachable"]
             ELSE [step |-> "posted", to |-> cardRow.url])
    /\ UNCHANGED <<pushAgent, asks, cardRow, fetchedAt, attempted, hosted, fetch, edit, took>>

Takes(m) ==
    /\ message[m].step = "posted" /\ m \notin took
    /\ took' = took \cup {m}
    /\ UNCHANGED <<pushAgent, asks, cardRow, fetchedAt, attempted, hosted, fetch, edit, message>>

\* What the relay sees of it: an answer, one whose body breaks off or can't
\* be passed on, or no answer, taken or not.
Outcomes(m) ==
    IF m \in took THEN {"succeeded", "failed", "broken", "blocked", "timeout", "transport"}
    ELSE {"timeout", "transport"}

Hears(m, outcome) ==
    /\ message[m].step = "posted" /\ outcome \in Outcomes(m)
    /\ To(m, [step |-> "heard", outcome |-> outcome])
    /\ UNCHANGED <<pushAgent, asks, cardRow, fetchedAt, attempted, hosted, fetch, edit, took>>

\* Fault: an answer whose body can't be read ends the request at once.
RecordedIfRead(outcome) ==
    CASE outcome \in {"succeeded", "timeout"} -> outcome
      [] outcome = "broken" -> "none"
      [] OTHER -> "failed"

\* The status of the row, which is written with its charge.
RecordedAs(outcome) == IF outcome \in {"succeeded", "timeout"} THEN outcome ELSE "failed"

ToldOf(outcome) ==
    CASE outcome \in {"succeeded", "failed"} -> "answer"
      [] outcome = "blocked" -> "refused"
      [] OTHER -> "unreachable"

Records(m) ==
    /\ message[m].step = "heard"
    /\ To(m, [step |-> "done", told |-> ToldOf(message[m].outcome),
              row |-> RecordedAs(message[m].outcome)])
    /\ UNCHANGED <<pushAgent, asks, cardRow, fetchedAt, attempted, hosted, fetch, edit, took>>

\* The row can't be written, or the process stops.
MessageLost(m) ==
    /\ message[m].step \in {"posted", "heard"}
    /\ To(m, [step |-> "done", told |-> "error"])
    /\ UNCHANGED <<pushAgent, asks, cardRow, fetchedAt, attempted, hosted, fetch, edit, took>>

----------------------------------------------------------------------------

PushNext ==
    \/ \E e \in Edits :
           \/ \E url \in Urls \cup {NoUrl} : ChecksEndpoint(e, url)
           \/ SetsEndpoint(e) \/ WritesCapability(e)
           \/ \E slug \in AgentSlugs : RenamesAgent(e, slug)
           \/ \E wanted \in BOOLEAN : ReadsCapability(e, wanted)
    \/ \E u \in Urls : HostPublishes(u)
    \/ \E f \in Fetches :
           \/ Claims(f) \/ FetchesLazily(f) \/ LoadsAgent(f)
           \/ HostAnswers(f) \/ FetchFails(f) \/ StoresCard(f)
    \/ StalenessPasses \/ FourHoursPass
    \/ \E m \in Messages :
           \/ Authorizes(m) \/ TurnsAwayMessage(m) \/ Parks(m) \/ Posts(m) \/ Takes(m)
           \/ \E outcome \in Outcomes(m) : Hears(m, outcome)
           \/ Records(m) \/ MessageLost(m)

PushSpec == PushInit /\ [][PushNext]_pushVars

\* The refresh loop ticks for ever, the window it waits for passes, and a host
\* that is asked again and again is at last reached.
PushFairness ==
    /\ WF_pushVars(StalenessPasses)
    /\ WF_pushVars(\E f \in Fetches : Claims(f))
    /\ SF_pushVars(\E f \in Fetches : LoadsAgent(f))
    /\ SF_pushVars(\E f \in Fetches : HostAnswers(f))
    /\ SF_pushVars(\E f \in Fetches : StoresCard(f))

PushFairSpec == PushSpec /\ PushFairness

----------------------------------------------------------------------------
(* Properties *)

\* forwarder: "every attempt is charged (success, failure, or timeout)", and
\* "the upstream took the call even if its body can't be read, so it's
\* recorded (and charged) either way".  A message that was posted ends with a
\* row, and its charge, unless the caller is told of an error; and what the
\* caller is given of an endpoint's answer is what the row says.
ChargedAsForwarded ==
    \A m \in Messages :
        message[m].step = "done" =>
            /\ m \in took =>
                   \/ message[m].told = "error"
                   \/ "row" \in DOMAIN message[m] /\ message[m].row \in {"succeeded", "failed", "timeout"}
            /\ message[m].told = "answer" => m \in took /\ message[m].row \in {"succeeded", "failed"}

\* The card is the one its agent's URL serves now.
IsCurrent == cardRow # NoCard /\ cardRow.url = pushAgent.url /\ cardRow.version = hosted[pushAgent.url]

\* The card is another URL's, and has the ETag under which its agent's URL serves
\* a card now: each refresh is then told that nothing was modified.
SharesItsTag ==
    cardRow # NoCard /\ cardRow.url # pushAgent.url /\ cardRow.version = hosted[pushAgent.url]

\* refresh_job and fetcher: whatever fetches were under way as the owner moved
\* the agent from one endpoint to another, an older one ending after a newer one
\* too, the card cached for it is in the end the one its own URL serves, unless
\* the two hosts gave their cards the same ETag: then the old one stays.
CardCatchesUp == <>[](IsPush => IsCurrent \/ SharesItsTag)

\* owner consent, section 11: "an agent with any consent-required capability
\* can't switch to push mode", and a push agent can't require consent.
PushNeverAsks == IsPush => ~asks
=============================================================================

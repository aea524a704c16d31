---------------------------- MODULE Invocations ----------------------------
(***************************************************************************)
(* The life of a pull-mode invocation in the relay: authorized, queued or  *)
(* held for the owner's consent, claimed under a lease, released, answered *)
(* late or on time, drafted for the owner, timed out, cancelled.           *)
(*                                                                         *)
(* One granter agent publishes one capability, one grantee agent calls it  *)
(* under one grant, or without one while it is public.  Ids are the rows   *)
(* of relay_invocations this pair may ever write.  A step is one SQL       *)
(* transaction.  Where a handler reads a row, does something slow (limits, *)
(* message screening) and writes later, the read and the write are two     *)
(* steps, so anything may run in between.                                  *)
(*                                                                         *)
(* Time is abstracted to which timers have run out: a timer is "off",      *)
(* "running" or "over", and a running one may run out at any step.  Every  *)
(* order of leases, deadlines and waits the settings allow is one of the   *)
(* orders explored.                                                        *)
(***************************************************************************)
EXTENDS Naturals, FiniteSets

CONSTANTS
    Ids,             \* invocation ids
    CallIds,         \* those made inside one call (calls.id = call_id)
    PublicIds,       \* those made without the grant (grant_id IS NULL)
    LegacyIds,       \* those that may date from before deadlines (migration 0053)
    Answers,         \* the results a worker or the owner may post
    Failing,         \* those posted with status 'failed'
    NoAnswer,        \* output_preview / draft when there is none
    NoConsent,       \* consent_id when no standing consent covers
    MaxDeliveries,   \* invocation_sweep::MAX_DELIVERIES
    MaxRequests,     \* the largest max_requests a consent may carry here
    Semantics,       \* the values the owner may give capability.semantics
    ConsentSettings, \* the values the owner may give consent_required
    PublicSettings,  \* the values of: public_invoke, on a network agent
    MaxInFlight      \* bound: results being screened at any time

HumanInLoop == "human_in_loop"
Autonomous == "autonomous"
Deleted == "deleted"

ASSUME ConstantsAssumption ==
    /\ CallIds \subseteq Ids
    /\ PublicIds \subseteq Ids
    /\ LegacyIds \subseteq Ids
    /\ Failing \subseteq Answers
    /\ NoAnswer \notin Answers
    /\ NoConsent \notin Ids
    /\ MaxDeliveries \in Nat \ {0}
    /\ MaxRequests \in Nat
    /\ Semantics \subseteq {HumanInLoop, Autonomous}
    /\ ConsentSettings \subseteq BOOLEAN
    /\ PublicSettings \subseteq BOOLEAN
    /\ MaxInFlight \in Nat

VARIABLES
    semantics,   \* the capability's semantics, or Deleted
    asks,        \* its consent_required
    public,      \* its public_invoke, while its agent is on the network
    grant,       \* the grant: active, lapsed (past expires_at), revoked
    gone,        \* the agents that were tombstoned
    status,      \* relay_invocations.status; "none" before the row exists
    deliveries,  \* how often the row was claimed
    lease,       \* the timer behind lease_until
    deadline,    \* the timer behind expires_at
    answer,      \* output_preview
    charges,     \* rows it put into credit_charge_queue
    gate,        \* status of its kind = 'request' consent request
    gateWait,    \* the timer behind that request's expires_at
    terms,       \* the terms it asks for
    coveredBy,   \* that request's consent_id
    draft,       \* status of its kind = 'reply' consent request
    draftWait,   \* the timer behind that request's expires_at
    draftAnswer, \* the stored draft (and so its sha256)
    shown,       \* the reply its approver last had on screen
    consent,     \* standing consents, by the invocation whose approval
    maxUses,     \*   created them: none, live or revoked; max_requests;
    used,        \*   used;
    lapsed,      \*   and those past valid_until
    authorized,  \* invokes that passed their checks, not yet written
    inFlight,    \* results past their check, not yet written
    notices      \* agent_notices written about an invocation

agentVars == <<semantics, asks, public, grant, gone>>
rowVars == <<status, deliveries, lease, deadline, answer, charges>>
gateVars == <<gate, gateWait, terms, coveredBy>>
draftVars == <<draft, draftWait, draftAnswer, shown>>
consentVars == <<consent, maxUses, used, lapsed>>
requestVars == <<authorized, inFlight>>
vars == <<agentVars, rowVars, gateVars, draftVars, consentVars, requestVars,
          notices>>

----------------------------------------------------------------------------
(* Types and small helpers *)

Open == {"pending", "in_progress"}
Answered == {"succeeded", "failed"}
Settled == Answered \cup {"rejected", "timeout"}
Statuses == {"none", "awaiting_consent"} \cup Open \cup Settled
RequestStatuses ==
    {"none", "pending", "approved", "denied", "expired", "cancelled"}
Timers == {"off", "running", "over"}
Agents == {"granter", "grantee"}
NoticeKinds == {"consent_requested", "invocation_expired", "reply_confirmed",
                "reply_rejected", "reply_expired"}

\* Consent terms, by how many requests they cover: Once is a single request
\* (valid_for "once"), anything more is a standing consent.
Once == 0
Unlimited == MaxRequests + 1
Terms == Once .. Unlimited

\* ConsentTerms::is_standing.
IsStanding(t) == t # Once

\* ConsentTerms::within: an approver may narrow what was asked, never widen.
Within(t, asked) == IsStanding(t) => IsStanding(asked) /\ t <= asked

AnswerStatus(a) == IF a \in Failing THEN "failed" ELSE "succeeded"

\* f with v at every id in S.
Put(f, S, v) == [i \in Ids |-> IF i \in S THEN v ELSE f[i]]

Requests == [id : Ids, answer : Answers, as : {"result", "draft", "owner"}]

Tell(kind, i) == notices' = notices \cup {<<kind, i>>}

PendingGates == {i \in Ids : gate[i] = "pending"}
PendingDrafts == {i \in Ids : draft[i] = "pending"}
Held == {i \in Ids : status[i] = "awaiting_consent"}
LiveConsents == {k \in Ids : consent[k] = "live"}

TypeOK ==
    /\ semantics \in Semantics \cup {Deleted}
    /\ asks \in BOOLEAN
    /\ public \in BOOLEAN
    /\ grant \in {"active", "lapsed", "revoked"}
    /\ gone \subseteq Agents
    /\ status \in [Ids -> Statuses]
    /\ deliveries \in [Ids -> 0 .. MaxDeliveries]
    /\ lease \in [Ids -> Timers]
    /\ deadline \in [Ids -> Timers]
    /\ answer \in [Ids -> Answers \cup {NoAnswer}]
    /\ charges \in [Ids -> Nat]
    /\ gate \in [Ids -> RequestStatuses]
    /\ gateWait \in [Ids -> Timers]
    /\ terms \in [Ids -> Terms]
    /\ coveredBy \in [Ids -> Ids \cup {NoConsent}]
    /\ draft \in [Ids -> RequestStatuses]
    /\ draftWait \in [Ids -> Timers]
    /\ draftAnswer \in [Ids -> Answers \cup {NoAnswer}]
    /\ shown \in [Ids -> Answers \cup {NoAnswer}]
    /\ consent \in [Ids -> {"none", "live", "revoked"}]
    /\ maxUses \in [Ids -> Terms]
    /\ used \in [Ids -> Nat]
    /\ lapsed \subseteq Ids
    /\ authorized \in [Ids -> {"no", "plain", "gated"}]
    /\ inFlight \subseteq Requests
    /\ notices \subseteq NoticeKinds \X Ids

\* Rows from before migration 0053 are open or held, with no deadline; the
\* other ids are not used yet.
InitLegacy(queued, held) ==
    /\ status = [i \in Ids |-> IF i \in held THEN "awaiting_consent"
                              ELSE IF i \in queued THEN "pending" ELSE "none"]
    /\ charges = [i \in Ids |-> IF i \in queued THEN 1 ELSE 0]
    /\ gate = [i \in Ids |-> IF i \in held THEN "pending" ELSE "none"]
    /\ gateWait = [i \in Ids |-> IF i \in held THEN "running" ELSE "off"]

Init ==
    /\ semantics \in Semantics
    /\ asks \in ConsentSettings
    /\ public \in PublicSettings
    /\ grant = "active"
    /\ gone = {}
    /\ \E queued \in SUBSET LegacyIds, held \in SUBSET LegacyIds :
          queued \cap held = {} /\ InitLegacy(queued, held)
    /\ deliveries = [i \in Ids |-> 0]
    /\ lease = [i \in Ids |-> "off"]
    /\ deadline = [i \in Ids |-> "off"]
    /\ answer = [i \in Ids |-> NoAnswer]
    /\ terms = [i \in Ids |-> Once]
    /\ coveredBy = [i \in Ids |-> NoConsent]
    /\ draft = [i \in Ids |-> "none"]
    /\ draftWait = [i \in Ids |-> "off"]
    /\ draftAnswer = [i \in Ids |-> NoAnswer]
    /\ shown = [i \in Ids |-> NoAnswer]
    /\ consent = [k \in Ids |-> "none"]
    /\ maxUses = [k \in Ids |-> Once]
    /\ used = [k \in Ids |-> 0]
    /\ lapsed = {}
    /\ authorized = [i \in Ids |-> "no"]
    /\ inFlight = {}
    /\ notices = {}

----------------------------------------------------------------------------
(* Invoking: check, screen, then write the row *)

\* start, authorize_and_enqueue_trusted: every check on the grant, the agents
\* and the capability, and whether it asks first, from one read.  Limits and
\* message screening run after this step and before Enqueue.
Authorize(i) ==
    /\ i \notin PublicIds
    /\ status[i] = "none" /\ authorized[i] = "no"
    /\ semantics # Deleted /\ gone = {} /\ grant = "active"
    /\ authorized' = [authorized EXCEPT ![i] = IF asks THEN "gated" ELSE "plain"]
    /\ UNCHANGED <<agentVars, rowVars, gateVars, draftVars, consentVars,
                   inFlight, notices>>

\* authorize_and_enqueue_public up to the screening: the same without a grant,
\* of a public capability.  The caller's own tombstone is not looked at.
AuthorizePublic(i) ==
    /\ i \in PublicIds
    /\ status[i] = "none" /\ authorized[i] = "no"
    /\ semantics # Deleted /\ "granter" \notin gone /\ public
    /\ authorized' = [authorized EXCEPT ![i] = IF asks THEN "gated" ELSE "plain"]
    /\ UNCHANGED <<agentVars, rowVars, gateVars, draftVars, consentVars,
                   inFlight, notices>>

\* record_terminal: a check or the screening refuses, and the refusal is
\* recorded, uncharged.  The row references the grant and the capability, so
\* neither may be deleted; agents deleted before the read are a bare 404, and
\* on the public path every check before the screening ends without a row.
Refuse(i) ==
    /\ status[i] = "none"
    /\ semantics # Deleted
    /\ authorized[i] # "no" \/ (i \notin PublicIds /\ gone = {})
    /\ status' = [status EXCEPT ![i] = "rejected"]
    /\ authorized' = [authorized EXCEPT ![i] = "no"]
    /\ UNCHANGED <<agentVars, deliveries, lease, deadline, answer, charges,
                   gateVars, draftVars, consentVars, inFlight, notices>>

\* The invoke ends without a row: over a limit, an error, a dropped request.
TurnAway(i) ==
    /\ authorized[i] # "no"
    /\ authorized' = [authorized EXCEPT ![i] = "no"]
    /\ UNCHANGED <<agentVars, rowVars, gateVars, draftVars, consentVars,
                   inFlight, notices>>

\* Fault: a row is queued without its charge.
QueueUncharged(i) ==
    /\ status' = [status EXCEPT ![i] = "pending"]
    /\ UNCHANGED charges

\* The row takes its place in the queue, and its charge with it.
Queue(i) ==
    /\ status' = [status EXCEPT ![i] = "pending"]
    /\ charges' = [charges EXCEPT ![i] = @ + 1]

\* The row and its charge, in one statement.  Nothing is re-read: the grant
\* may be revoked and the agents deleted by now.  The foreign keys still need
\* the capability.
Enqueue(i) ==
    /\ authorized[i] = "plain"
    /\ semantics # Deleted
    /\ Queue(i)
    /\ deadline' = [deadline EXCEPT ![i] = "running"]
    /\ authorized' = [authorized EXCEPT ![i] = "no"]
    /\ UNCHANGED <<agentVars, deliveries, lease, answer, gateVars, draftVars,
                   consentVars, inFlight, notices>>

\* Fault: the use count is not compared with max_requests.
CoveringUncounted == LiveConsents \ lapsed

\* The consents the `used` CTE may take a use of.
Covering ==
    {k \in LiveConsents \ lapsed : maxUses[k] = Unlimited \/ used[k] < maxUses[k]}

\* enqueue_consent_required when a standing consent covers the request.
EnqueueCovered(i, t, k) ==
    /\ authorized[i] = "gated"
    /\ semantics # Deleted
    /\ k \in Covering
    /\ used' = [used EXCEPT ![k] = @ + 1]
    /\ Queue(i)
    /\ deadline' = [deadline EXCEPT ![i] = "running"]
    /\ gate' = [gate EXCEPT ![i] = "approved"]
    /\ terms' = [terms EXCEPT ![i] = t]
    /\ coveredBy' = [coveredBy EXCEPT ![i] = k]
    /\ authorized' = [authorized EXCEPT ![i] = "no"]
    /\ UNCHANGED <<agentVars, deliveries, lease, answer, gateWait, draftVars,
                   consent, maxUses, lapsed, inFlight, notices>>

\* enqueue_consent_required when none does: held, uncharged, its agent told.
EnqueueHeld(i, t) ==
    /\ authorized[i] = "gated"
    /\ semantics # Deleted
    /\ Covering = {}
    /\ status' = [status EXCEPT ![i] = "awaiting_consent"]
    /\ deadline' = [deadline EXCEPT ![i] = "running"]
    /\ gate' = [gate EXCEPT ![i] = "pending"]
    /\ gateWait' = [gateWait EXCEPT ![i] = "running"]
    /\ terms' = [terms EXCEPT ![i] = t]
    /\ authorized' = [authorized EXCEPT ![i] = "no"]
    /\ Tell("consent_requested", i)
    /\ UNCHANGED <<agentVars, deliveries, lease, answer, charges, coveredBy,
                   draftVars, consentVars, inFlight>>

----------------------------------------------------------------------------
(* The called agent's workers *)

\* Fault: the claim query also picks held rows.
ClaimableOrHeld(i) == status[i] \in {"pending", "awaiting_consent"}

\* The rows the claim query picks from.
Claimable(i) == status[i] = "pending"

\* A human_in_loop claim has no lease: its owner answers it.
ClaimLease == IF semantics = HumanInLoop THEN "off" ELSE "running"

\* claim_invocations, one row of the batch.  A pull looks at its agent once,
\* before it waits: a deleted agent's poll that was waiting goes on claiming.
Claim(i) ==
    /\ Claimable(i)
    /\ status' = [status EXCEPT ![i] = "in_progress"]
    /\ deliveries' = [deliveries EXCEPT ![i] = @ + 1]
    /\ lease' = [lease EXCEPT ![i] = ClaimLease]
    /\ UNCHANGED <<agentVars, deadline, answer, charges, gateVars, draftVars,
                   consentVars, requestVars, notices>>

\* release_claim.
ReleaseClaim(i) ==
    /\ status[i] = "in_progress"
    /\ draft[i] # "pending"
    /\ status' = [status EXCEPT ![i] = "pending"]
    /\ lease' = [lease EXCEPT ![i] = "off"]
    /\ deliveries' = [deliveries EXCEPT ![i] = IF @ = 0 THEN 0 ELSE @ - 1]
    /\ UNCHANGED <<agentVars, deadline, answer, charges, gateVars, draftVars,
                   consentVars, requestVars, notices>>

\* check_answerable, from the row submit_result read.
Answerable(i) ==
    \/ status[i] = "in_progress"
    \/ /\ status[i] = "pending" /\ deliveries[i] > 0
       /\ semantics # HumanInLoop

\* Fault: every agent's reply is its result.
ReplyAtOnce == "result"

\* An agent's reply to a human_in_loop capability is a draft for the owner.
ReplyKind == IF semantics = HumanInLoop THEN "draft" ELSE "result"

\* submit_result up to the screening.  What the reply will be is decided by
\* the semantics read here.
SubmitResult(i, a) ==
    /\ Answerable(i)
    /\ Cardinality(inFlight) < MaxInFlight
    /\ inFlight' = inFlight \cup {[id |-> i, answer |-> a, as |-> ReplyKind]}
    /\ UNCHANGED <<agentVars, rowVars, gateVars, draftVars, consentVars,
                   authorized, notices>>

\* The request r ends here without writing: blocked by the screening, or cut
\* off by a crash.
DropResult(r) ==
    /\ r \in inFlight
    /\ inFlight' = inFlight \ {r}
    /\ UNCHANGED <<agentVars, rowVars, gateVars, draftVars, consentVars,
                   authorized, notices>>

\* The guard of submit_result's UPDATE.
TakesResult(i) ==
    \/ status[i] = "in_progress"
    \/ status[i] = "pending" /\ deliveries[i] > 0

\* The rest of submit_result for an autonomous capability: the first answer
\* wins, late or not; any other is told already_settled.
FinishResult(r) ==
    /\ r \in inFlight /\ r.as = "result"
    /\ inFlight' = inFlight \ {r}
    /\ IF TakesResult(r.id)
       THEN /\ status' = [status EXCEPT ![r.id] = AnswerStatus(r.answer)]
            /\ answer' = [answer EXCEPT ![r.id] = r.answer]
            /\ lease' = [lease EXCEPT ![r.id] = "off"]
       ELSE UNCHANGED <<status, answer, lease>>
    /\ UNCHANGED <<agentVars, deliveries, deadline, charges, gateVars,
                   draftVars, consentVars, authorized, notices>>

\* store_draft: a new draft replaces a pending one and restarts its wait; the
\* invocation is not looked at again.  A decided reply is a Conflict.
StoreDraft(r) ==
    /\ r \in inFlight /\ r.as = "draft"
    /\ inFlight' = inFlight \ {r}
    /\ IF draft[r.id] \in {"none", "pending"}
       THEN /\ draft' = [draft EXCEPT ![r.id] = "pending"]
            /\ draftWait' = [draftWait EXCEPT ![r.id] = "running"]
            /\ draftAnswer' = [draftAnswer EXCEPT ![r.id] = r.answer]
       ELSE UNCHANGED <<draft, draftWait, draftAnswer>>
    /\ UNCHANGED <<agentVars, rowVars, gateVars, shown, consentVars,
                   authorized, notices>>

----------------------------------------------------------------------------
(* The granter's approvers, on the web *)

\* submit_result from an approver's web session: checked and screened here,
\* written by AnswerAsOwner.
SubmitAsOwner(i, a) ==
    /\ semantics = HumanInLoop
    /\ status[i] \in Open
    /\ Cardinality(inFlight) < MaxInFlight
    /\ inFlight' = inFlight \cup {[id |-> i, answer |-> a, as |-> "owner"]}
    /\ UNCHANGED <<agentVars, rowVars, gateVars, draftVars, consentVars,
                   authorized, notices>>

\* answer_as_owner's transaction: claims a pending call, confirms the reply
\* and releases it, or rolls all of it back.  A claimed call's agent is told.
AnswerAsOwner(r) ==
    LET i == r.id IN
    /\ r \in inFlight /\ r.as = "owner"
    /\ inFlight' = inFlight \ {r}
    /\ IF status[i] \in Open /\ draft[i] \in {"none", "pending"}
       THEN /\ status' = [status EXCEPT ![i] = AnswerStatus(r.answer)]
            /\ deliveries' = [deliveries EXCEPT
                                 ![i] = IF status[i] = "pending" THEN @ + 1 ELSE @]
            /\ answer' = [answer EXCEPT ![i] = r.answer]
            /\ draft' = [draft EXCEPT ![i] = "approved"]
            /\ draftAnswer' = [draftAnswer EXCEPT ![i] = r.answer]
            /\ shown' = [shown EXCEPT ![i] = r.answer]
            /\ IF status[i] = "in_progress"
               THEN Tell("reply_confirmed", i) ELSE UNCHANGED notices
       ELSE UNCHANGED <<status, deliveries, answer, draft, draftAnswer, shown,
                        notices>>
    /\ UNCHANGED <<agentVars, lease, deadline, charges, gateVars, draftWait,
                   consentVars, authorized>>

\* The approval page of a pending draft is loaded, with its draft_sha256.
ShowDraft(i) ==
    /\ draft[i] = "pending"
    /\ shown' = [shown EXCEPT ![i] = draftAnswer[i]]
    /\ UNCHANGED <<agentVars, rowVars, gateVars, draft, draftWait, draftAnswer,
                   consentVars, requestVars, notices>>

\* lock_for_decision: pending, and not past expires_at.
DecidableGate(i) == gate[i] = "pending" /\ gateWait[i] # "over"
DecidableDraft(i) == draft[i] = "pending" /\ draftWait[i] # "over"

\* Fault: whatever draft is stored is approved, shown or not.
AnyDraft(i) == TRUE

\* The draft_sha256 sent back is the stored draft's.
DraftAsShown(i) == shown[i] = draftAnswer[i]

\* Fault: the release does not look at the status.
ReleasesAlways(i) == TRUE

\* The guard of reply::release's UPDATE.
Releases(i) == status[i] = "in_progress"

\* approve_reply: the draft must be the one shown, and the call still in
\* progress, or nothing is committed.
ApproveReply(i) ==
    /\ DecidableDraft(i)
    /\ DraftAsShown(i)
    /\ Releases(i)
    /\ draft' = [draft EXCEPT ![i] = "approved"]
    /\ status' = [status EXCEPT ![i] = AnswerStatus(draftAnswer[i])]
    /\ answer' = [answer EXCEPT ![i] = draftAnswer[i]]
    /\ Tell("reply_confirmed", i)
    /\ UNCHANGED <<agentVars, deliveries, lease, deadline, charges, gateVars,
                   draftWait, draftAnswer, shown, consentVars, requestVars>>

\* deny, for a reply: the notice is written whether or not the call ended.
DenyReply(i) ==
    /\ DecidableDraft(i)
    /\ draft' = [draft EXCEPT ![i] = "denied"]
    /\ status' = [status EXCEPT ![i] = IF @ = "in_progress" THEN "failed" ELSE @]
    /\ Tell("reply_rejected", i)
    /\ UNCHANGED <<agentVars, deliveries, lease, deadline, answer, charges,
                   gateVars, draftWait, draftAnswer, shown, consentVars,
                   requestVars>>

\* still_authorized: under an active grant, or without one while public.
StillAuthorized(i) ==
    /\ semantics # Deleted /\ gone = {}
    /\ IF i \in PublicIds THEN public ELSE grant = "active"

\* approve, for a held request: a standing approval replaces the pair's live
\* consent and counts this request as its first use; the request is queued,
\* charged, and given its full time to be answered (a deadline that is NULL
\* stays NULL).
ApproveRequest(i, t) ==
    /\ DecidableGate(i)
    /\ Within(t, terms[i])
    /\ status[i] = "awaiting_consent"
    /\ StillAuthorized(i)
    /\ IF IsStanding(t)
       THEN /\ consent' = [Put(consent, LiveConsents, "revoked") EXCEPT ![i] = "live"]
            /\ maxUses' = [maxUses EXCEPT ![i] = t]
            /\ used' = [used EXCEPT ![i] = 1]
            /\ coveredBy' = [coveredBy EXCEPT ![i] = i]
       ELSE UNCHANGED <<consent, maxUses, used, coveredBy>>
    /\ gate' = [gate EXCEPT ![i] = "approved"]
    /\ Queue(i)
    /\ deadline' = [deadline EXCEPT ![i] = IF @ = "off" THEN "off" ELSE "running"]
    /\ UNCHANGED <<agentVars, deliveries, lease, answer, gateWait, terms,
                   draftVars, lapsed, requestVars, notices>>

\* close_unapproved, for a held request.
CloseRequest(i, as) ==
    /\ gate' = [gate EXCEPT ![i] = as]
    /\ status' = [status EXCEPT
                     ![i] = IF @ = "awaiting_consent" THEN "rejected" ELSE @]
    /\ UNCHANGED <<agentVars, deliveries, lease, deadline, answer, charges,
                   gateWait, terms, coveredBy, draftVars, consentVars,
                   requestVars, notices>>

\* approve, when the call is no longer one the requester may make.
CancelUnauthorized(i) ==
    /\ DecidableGate(i)
    /\ status[i] = "awaiting_consent"
    /\ ~StillAuthorized(i)
    /\ CloseRequest(i, "cancelled")

\* deny, for a held request.
DenyRequest(i) ==
    /\ DecidableGate(i)
    /\ CloseRequest(i, "denied")

\* revoke_consent.
RevokeConsent(k) ==
    /\ consent[k] = "live"
    /\ consent' = [consent EXCEPT ![k] = "revoked"]
    /\ UNCHANGED <<agentVars, rowVars, gateVars, draftVars, maxUses, used,
                   lapsed, requestVars, notices>>

----------------------------------------------------------------------------
(* The workers every relay process runs *)

\* expire_once, for a held request.
ExpireRequest(i) ==
    /\ gate[i] = "pending" /\ gateWait[i] = "over"
    /\ gate' = [gate EXCEPT ![i] = "expired"]
    /\ status' = [status EXCEPT
                     ![i] = IF @ = "awaiting_consent" THEN "rejected" ELSE @]
    /\ UNCHANGED <<agentVars, deliveries, lease, deadline, answer, charges,
                   gateWait, terms, coveredBy, draftVars, consentVars,
                   requestVars, notices>>

\* expire_once, for a draft: a claimed call fails with it, and its agent is told.
ExpireDraft(i) ==
    /\ draft[i] = "pending" /\ draftWait[i] = "over"
    /\ draft' = [draft EXCEPT ![i] = "expired"]
    /\ IF status[i] = "in_progress"
       THEN /\ status' = [status EXCEPT ![i] = "failed"]
            /\ Tell("reply_expired", i)
       ELSE UNCHANGED <<status, notices>>
    /\ UNCHANGED <<agentVars, deliveries, lease, deadline, answer, charges,
                   gateVars, draftWait, draftAnswer, shown, consentVars,
                   requestVars>>

\* Fault: claimed rows are not given one.
LacksDeadlineUnclaimed(i) == status[i] = "pending" /\ deadline[i] = "off"

\* The rows the backfill picks.
LacksDeadline(i) == status[i] \in Open /\ deadline[i] = "off"

\* backfill: an open row from before deadlines existed gets a full one.
Backfill(i) ==
    /\ LacksDeadline(i)
    /\ deadline' = [deadline EXCEPT ![i] = "running"]
    /\ UNCHANGED <<agentVars, status, deliveries, lease, answer, charges,
                   gateVars, draftVars, consentVars, requestVars, notices>>

\* deadlines, one row of the batch, with its pending draft.
SweepDeadline(i) ==
    /\ status[i] \in Open /\ deadline[i] = "over"
    /\ status' = [status EXCEPT ![i] = "timeout"]
    /\ lease' = [lease EXCEPT ![i] = "off"]
    /\ draft' = [draft EXCEPT ![i] = IF @ = "pending" THEN "cancelled" ELSE @]
    /\ Tell("invocation_expired", i)
    /\ UNCHANGED <<agentVars, deliveries, deadline, answer, charges, gateVars,
                   draftWait, draftAnswer, shown, consentVars, requestVars>>

\* The row had its last claim.
OutOfClaims(i) == deliveries[i] >= MaxDeliveries

\* leases, one row of the batch: back to pending, or out of claims.
SweepLease(i) ==
    /\ status[i] = "in_progress" /\ lease[i] = "over"
    /\ lease' = [lease EXCEPT ![i] = "off"]
    /\ IF OutOfClaims(i)
       THEN /\ status' = [status EXCEPT ![i] = "timeout"]
            /\ Tell("invocation_expired", i)
       ELSE /\ status' = [status EXCEPT ![i] = "pending"]
            /\ UNCHANGED notices
    /\ UNCHANGED <<agentVars, deliveries, deadline, answer, charges, gateVars,
                   draftVars, consentVars, requestVars>>

----------------------------------------------------------------------------
(* What an invocation depends on goes away *)

\* grants::revoke: its queued and held invocations are rejected, and whatever
\* consent request of theirs is pending is cancelled; claimed ones are left.
RevokeGrant ==
    LET cut == {i \in Ids \ PublicIds :
                  status[i] \in {"pending", "awaiting_consent"}} IN
    /\ grant # "revoked" /\ semantics # Deleted
    /\ grant' = "revoked"
    /\ status' = Put(status, cut, "rejected")
    /\ gate' = Put(gate, PendingGates \cap cut, "cancelled")
    /\ draft' = Put(draft, PendingDrafts \cap cut, "cancelled")
    /\ UNCHANGED <<semantics, asks, public, gone, deliveries, lease, deadline,
                   answer, charges, gateWait, terms, coveredBy, draftWait,
                   draftAnswer, shown, consentVars, requestVars, notices>>

\* Fault: the held invocations of the cancelled requests are forgotten.
CancelRequestsOnly(others) ==
    /\ gate' = Put(gate, PendingGates, "cancelled")
    /\ draft' = Put(draft, PendingDrafts, "cancelled")
    /\ status' = Put(status, others, "rejected")
    /\ consent' = Put(consent, LiveConsents, "revoked")

\* cancel_for_capability and cancel_for_agent: pending consent requests of
\* both kinds are cancelled, held invocations rejected with them, and the
\* pair's consents revoked.
CancelPending(others) ==
    /\ gate' = Put(gate, PendingGates, "cancelled")
    /\ draft' = Put(draft, PendingDrafts, "cancelled")
    /\ status' = Put(status, (PendingGates \cap Held) \cup others, "rejected")
    /\ consent' = Put(consent, LiveConsents, "revoked")

\* agents::delete: its grants are revoked, and what is queued on those, or
\* queued to it, is rejected; claimed invocations are left.
DeleteAgent(agent) ==
    /\ agent \notin gone
    /\ gone' = gone \cup {agent}
    /\ grant' = "revoked"
    /\ CancelPending({i \in Ids : /\ status[i] = "pending"
                                  /\ \/ agent = "granter"
                                     \/ /\ i \notin PublicIds
                                        /\ grant # "revoked" /\ semantics # Deleted})
    /\ UNCHANGED <<semantics, asks, public, deliveries, lease, deadline, answer,
                   charges, gateWait, terms, coveredBy, draftWait, draftAnswer,
                   shown, maxUses, used, lapsed, requestVars, notices>>

\* capabilities::delete, its settings with it.  Invocations outlive the
\* capability: whoever reads their semantics next finds none.
DeleteCapability ==
    /\ semantics # Deleted
    /\ semantics' = Deleted /\ asks' = FALSE /\ public' = FALSE
    /\ CancelPending({})
    /\ UNCHANGED <<grant, gone, deliveries, lease, deadline,
                   answer, charges, gateWait, terms, coveredBy, draftWait,
                   draftAnswer, shown, maxUses, used, lapsed, requestVars, notices>>

\* capabilities::update, and agents::update of the visibility: semantics,
\* consent_required and public_invoke may change at any time.
UpdateCapability(s, b, p) ==
    /\ semantics # Deleted
    /\ semantics' = s
    /\ asks' = b
    /\ public' = p
    /\ UNCHANGED <<grant, gone, rowVars, gateVars, draftVars, consentVars,
                   requestVars, notices>>

\* cancel_for_call, then purge_call: the call's unfinished invocations are
\* closed with their pending requests, and every output of the call is erased.
PurgeCall ==
    LET unfinished == {i \in CallIds : status[i] \in Open \cup {"awaiting_consent"}}
    IN
    /\ CallIds # {}
    /\ gate' = Put(gate, PendingGates \cap unfinished, "cancelled")
    /\ draft' = Put(draft, PendingDrafts \cap unfinished, "cancelled")
    /\ status' = [i \in Ids |->
                    IF i \notin unfinished THEN status[i]
                    ELSE IF i \in Held THEN "rejected" ELSE "failed"]
    /\ answer' = Put(answer, CallIds, NoAnswer)
    /\ UNCHANGED <<agentVars, deliveries, lease, deadline, charges, gateWait,
                   terms, coveredBy, draftWait, draftAnswer, shown,
                   consentVars, requestVars, notices>>

----------------------------------------------------------------------------
(* Time.  A timer nothing reads in the current state need not run out. *)

LeaseRunsOut(i) ==
    /\ status[i] = "in_progress" /\ lease[i] = "running"
    /\ lease' = [lease EXCEPT ![i] = "over"]
    /\ UNCHANGED <<agentVars, status, deliveries, deadline, answer, charges,
                   gateVars, draftVars, consentVars, requestVars, notices>>

DeadlineRunsOut(i) ==
    /\ status[i] \in Open /\ deadline[i] = "running"
    /\ deadline' = [deadline EXCEPT ![i] = "over"]
    /\ UNCHANGED <<agentVars, status, deliveries, lease, answer, charges,
                   gateVars, draftVars, consentVars, requestVars, notices>>

GateWaitRunsOut(i) ==
    /\ gate[i] = "pending" /\ gateWait[i] = "running"
    /\ gateWait' = [gateWait EXCEPT ![i] = "over"]
    /\ UNCHANGED <<agentVars, rowVars, gate, terms, coveredBy, draftVars,
                   consentVars, requestVars, notices>>

DraftWaitRunsOut(i) ==
    /\ draft[i] = "pending" /\ draftWait[i] = "running"
    /\ draftWait' = [draftWait EXCEPT ![i] = "over"]
    /\ UNCHANGED <<agentVars, rowVars, gateVars, draft, draftAnswer, shown,
                   consentVars, requestVars, notices>>

ConsentRunsOut(k) ==
    /\ consent[k] = "live" /\ k \notin lapsed
    /\ \E i \in Ids : status[i] = "none"
    /\ lapsed' = lapsed \cup {k}
    /\ UNCHANGED <<agentVars, rowVars, gateVars, draftVars, consent, maxUses,
                   used, requestVars, notices>>

GrantRunsOut ==
    /\ grant = "active" /\ semantics # Deleted
    /\ \E i \in Ids : status[i] \in {"none", "awaiting_consent"}
    /\ grant' = "lapsed"
    /\ UNCHANGED <<semantics, asks, public, gone, rowVars, gateVars, draftVars,
                   consentVars, requestVars, notices>>

----------------------------------------------------------------------------
Invoking ==
    \E i \in Ids :
        \/ Authorize(i) \/ AuthorizePublic(i) \/ Refuse(i) \/ TurnAway(i)
        \/ Enqueue(i)
        \/ \E t \in Terms : EnqueueHeld(i, t) \/ \E k \in Ids : EnqueueCovered(i, t, k)

Answering ==
    \/ \E i \in Ids : Claim(i) \/ ReleaseClaim(i)
    \/ \E i \in Ids, a \in Answers : SubmitResult(i, a) \/ SubmitAsOwner(i, a)
    \/ \E r \in inFlight :
          DropResult(r) \/ FinishResult(r) \/ StoreDraft(r) \/ AnswerAsOwner(r)

Deciding ==
    \E i \in Ids :
        \/ ShowDraft(i) \/ ApproveReply(i) \/ DenyReply(i)
        \/ \E t \in Terms : ApproveRequest(i, t)
        \/ CancelUnauthorized(i) \/ DenyRequest(i) \/ RevokeConsent(i)

Sweeping ==
    \E i \in Ids :
        \/ ExpireRequest(i) \/ ExpireDraft(i)
        \/ Backfill(i) \/ SweepDeadline(i) \/ SweepLease(i)

Cascading ==
    \/ RevokeGrant \/ DeleteCapability \/ PurgeCall
    \/ \E agent \in Agents : DeleteAgent(agent)
    \/ \E s \in Semantics, b \in ConsentSettings, p \in PublicSettings :
          UpdateCapability(s, b, p)

Passing ==
    \/ GrantRunsOut
    \/ \E i \in Ids :
          \/ LeaseRunsOut(i) \/ DeadlineRunsOut(i) \/ GateWaitRunsOut(i)
          \/ DraftWaitRunsOut(i) \/ ConsentRunsOut(i)

Next == Invoking \/ Answering \/ Deciding \/ Sweeping \/ Cascading \/ Passing

\* Time passes, and every relay process runs both workers on an interval for
\* its whole life.  Nothing is assumed of callers, workers or owners.
Fairness ==
    \A i \in Ids :
        /\ WF_vars(Backfill(i))
        /\ WF_vars(DeadlineRunsOut(i)) /\ WF_vars(SweepDeadline(i))
        /\ WF_vars(GateWaitRunsOut(i)) /\ WF_vars(ExpireRequest(i))

Spec == Init /\ [][Next]_vars
FairSpec == Spec /\ Fairness

----------------------------------------------------------------------------
(* Properties *)

\* A settled invocation stays settled as it is: a late result, a second
\* approver, the sweep or a cascade never changes its status, and its result
\* is never replaced, only erased with its call's content.  (submit_result's
\* guarded UPDATE, reply::release, the sweep and the cascades.)
SettledForGood ==
    [][\A i \in Ids : status[i] \in Settled =>
          /\ status'[i] = status[i]
          /\ answer'[i] \in {answer[i], NoAnswer}]_vars

\* An invocation is held exactly while its consent request waits: whatever
\* ends the one, a decision, expiry, a revoked grant, a deleted agent or
\* capability, a purged call, ends the other with it.
HeldExactlyWhileAsked ==
    \A i \in Ids : status[i] = "awaiting_consent" <=> gate[i] = "pending"

\* No worker is ever given an invocation whose owner was asked and has not
\* said yes, on any path into the queue.
NeverDeliveredUnapproved ==
    \A i \in Ids : deliveries[i] > 0 => gate[i] \in {"none", "approved"}

\* Charged once, when it is queued, and not before: a row that was ever open
\* has queued exactly one charge; one that is held, or that the owner
\* refused, ignored or could no longer allow, none.
ChargedOnceQueued ==
    \A i \in Ids :
        /\ charges[i] <= 1
        /\ status[i] \in Open \cup Answered \cup {"timeout"} => charges[i] = 1
        /\ gate[i] \in {"pending", "denied", "expired", "cancelled"}
              => charges[i] = 0

\* A standing consent covers no more requests than the approver allowed, the
\* approved one included, and counts each; a pair has one live consent.
ConsentWithinLimits ==
    /\ \A k \in Ids :
          LET covered == Cardinality({i \in Ids : coveredBy[i] = k}) IN
          /\ used[k] = covered
          /\ consent[k] # "none" => maxUses[k] = Unlimited \/ covered <= maxUses[k]
    /\ Cardinality(LiveConsents) <= 1

\* Claims are bounded: an invocation is claimed at most MaxDeliveries times
\* without being handed back, and one waiting for a claim has a claim left.
ClaimsBounded ==
    \A i \in Ids :
        /\ deliveries[i] <= MaxDeliveries
        /\ status[i] = "pending" => deliveries[i] < MaxDeliveries

\* What an approver confirmed is what the requester received: the stored
\* draft, the page they approved it on and the result agree, however often
\* the agent replaced its draft in between.
ConfirmedAsShown ==
    \A i \in Ids : draft[i] = "approved" =>
        /\ status[i] \in Answered
        /\ shown[i] = draftAnswer[i]
        /\ answer[i] \in {draftAnswer[i], NoAnswer}

\* While the capability is and stays human_in_loop, no result reaches the
\* requester without an approver's confirmation, whatever the agent posts.
HumanConfirmed ==
    \A i \in Ids : answer[i] # NoAnswer => draft[i] = "approved"

HumanConfirmedWhilePublished ==
    Semantics = {HumanInLoop} /\ semantics # Deleted => HumanConfirmed

\* The notices that tell an agent how a call to it, or its reply, ended.
EndsTold(i) ==
    {kind \in NoticeKinds \ {"consent_requested"} : <<kind, i>> \in notices}

\* What the agent is told stays true of the call and of its draft, and the two
\* ends it may be told of one call are a single pair: store_draft does not look
\* at the call, so a draft it stores after the deadline sweep, or on a call
\* handed back, can still be rejected by the owner of a call that is told, or
\* will be told, to have expired.  No other two notices are sent of one call.
NoticesAgree ==
    \A i \in Ids :
        /\ <<"reply_confirmed", i>> \in notices =>
              draft[i] = "approved" /\ status[i] \in Answered
        /\ <<"reply_rejected", i>> \in notices => draft[i] = "denied"
        /\ <<"reply_expired", i>> \in notices =>
              draft[i] = "expired" /\ status[i] = "failed" /\ answer[i] = NoAnswer
        /\ <<"invocation_expired", i>> \in notices => status[i] = "timeout"
        /\ \A kind, other \in EndsTold(i) :
              kind = other \/ {kind, other} = {"invocation_expired", "reply_rejected"}

\* Every recorded invocation settles, however workers, owners and callers
\* behave: crash, stay silent, hand back, redraft or answer late.
EveryInvocationSettles ==
    \A i \in Ids : status[i] \in Open \cup {"awaiting_consent"}
                       ~> status[i] \in Settled

\* grants::revoke: "Without this second UPDATE the worker would still pull
\* queued rows off the inbox, run them, and post results against a now-revoked
\* grant".  No worker claims anything under a revoked grant.
NoClaimUnderRevokedGrant ==
    [][grant = "revoked" =>
          \A i \in Ids \ PublicIds :
              status[i] = "pending" => status'[i] # "in_progress"]_vars

----------------------------------------------------------------------------
(* What the caller is promised *)

View(i) ==
    CASE status[i] = "none" -> "absent"
      [] status[i] = "awaiting_consent" -> "held"
      [] status[i] \in Open -> "open"
      [] OTHER -> "settled"

Contract == INSTANCE InvocationContract WITH
    view <- [i \in Ids |-> View(i)],
    result <- answer,
    billed <- {i \in Ids : charges[i] > 0}

\* The relay implements the caller's contract.
KeepsContract == Contract!Spec
=============================================================================

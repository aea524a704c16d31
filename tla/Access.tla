------------------------------- MODULE Access -------------------------------
(***************************************************************************)
(* What acts for a person: OAuth authorizations (a code a client redeems), *)
(* device pairings (a code a device polls with until the person approves   *)
(* it), and API keys.  Each may be narrowed to some of the person's        *)
(* agents, and each can be revoked.  One person, who is a member of the    *)
(* accounts of all the agents here.                                        *)
(*                                                                         *)
(* A handler that holds a row's lock from its read to its commit is one    *)
(* step.  A request at the relay is several: it authenticates, looks up    *)
(* its credential's scope, in a cache first, and acts.                     *)
(***************************************************************************)
EXTENDS Naturals, FiniteSets

CONSTANTS
    Grants,        \* codes: an authorization code, or a device's
    Keys, Agents_, Asks,
    Apps, NoApp,   \* registered clients; a device may pair without one
    Person, Unmade \* what an agent is attributed to when no app or key made it

Creds == Grants \cup Keys
Modes == {"all", "own", "selected"}

ASSUME AccessAssumption ==
    /\ NoApp \notin Apps /\ Keys \cap (Grants \cup Apps) = {}
    /\ {Person, Unmade} \cap (Apps \cup Keys) = {}

VARIABLES
    pairing,    \* oauth_authorizations and oauth_device_codes
    dead,       \* revoked_tokens, by the pairing the token was minted from
    keyState,   \* api_keys
    scopeRow,   \* credential_scopes: what each credential is narrowed to; all is no row
    madeBy,     \* agents: created_by_client_id or created_by_api_key_id
    cached,     \* the scope cache of a relay
    ask,        \* requests under way
    rootOf,     \* history: the key each key was rotated from, first of all
    meant,      \* history: what each credential is to reach, by the first key of its family:
                \* what the person narrowed it to, and what it made if it lists its agents
    unlisted,   \* history: of that, the agents whose enrolment hasn't come
    origin      \* history: the app, or the first of the keys, that made each agent; none
                \* for one that a request of a key makes after the key was rotated

accessVars == <<pairing, dead, keyState, scopeRow, madeBy, cached, ask, rootOf, meant, unlisted,
                origin>>

All == [mode |-> "all", sel |-> {}]
NoGrant == [state |-> "none", expired |-> FALSE, mints |-> 0, revoked |-> FALSE,
            scope |-> All, app |-> NoApp, agent |-> {}]
NotAsking == [at |-> "idle"]
Uncached == [known |-> FALSE]

AccessInit ==
    /\ pairing = [g \in Grants |-> NoGrant]
    /\ dead = {}
    /\ keyState = [k \in Keys |-> "none"]
    /\ scopeRow = [c \in Creds |-> All]
    /\ madeBy \in [Agents_ -> {Unmade, Person}]
    /\ cached = [c \in Creds |-> Uncached]
    /\ ask = [r \in Asks |-> NotAsking]
    /\ rootOf = [k \in Keys |-> k]
    /\ meant = [c \in Creds |-> All]
    /\ unlisted = [c \in Creds |-> {}]
    /\ origin = madeBy

Made == {a \in Agents_ : madeBy[a] # Unmade}

\* A key and those it is rotated into are a family, named by the first.
Root(c) == IF c \in Keys THEN rootOf[c] ELSE c

\* What a person can narrow a credential to.
Scopes == {All, [mode |-> "own", sel |-> {}]}
          \cup [mode : {"selected"}, sel : SUBSET Made \ {{}}]

----------------------------------------------------------------------------
(* OAuth codes and device pairings *)

IssueCode(g, app, scope) ==
    /\ pairing[g].state = "none"
    /\ pairing' = [pairing EXCEPT ![g] = [NoGrant EXCEPT !.state = "approved", !.app = app,
                                                     !.scope = scope]]
    /\ UNCHANGED <<dead, keyState, scopeRow, madeBy, cached, ask, rootOf, meant, unlisted, origin>>

DeviceAuthorization(g, app) ==
    /\ pairing[g].state = "none"
    /\ pairing' = [pairing EXCEPT ![g] = [NoGrant EXCEPT !.state = "pending", !.app = app]]
    /\ UNCHANGED <<dead, keyState, scopeRow, madeBy, cached, ask, rootOf, meant, unlisted, origin>>

Approves(g, a, scope) ==
    /\ pairing[g].state = "pending" /\ ~pairing[g].expired
    /\ pairing' = [pairing EXCEPT ![g].state = "approved", ![g].scope = scope, ![g].agent = {a}]

\* approve_device links an agent there is ...
ApproveExisting(g, a, scope) ==
    /\ a \in Made
    /\ Approves(g, a, scope)
    /\ UNCHANGED <<dead, keyState, scopeRow, madeBy, cached, ask, rootOf, meant, unlisted, origin>>

\* ... or makes one, attributed to the client that pairs.
ApproveNew(g, a, scope) ==
    LET maker == IF pairing[g].app = NoApp THEN Person ELSE pairing[g].app IN
    /\ a \notin Made
    /\ Approves(g, a, scope)
    /\ madeBy' = [madeBy EXCEPT ![a] = maker]
    /\ origin' = [origin EXCEPT ![a] = maker]
    /\ UNCHANGED <<dead, keyState, scopeRow, cached, ask, rootOf, meant, unlisted>>

Deny(g) ==
    /\ pairing[g].state = "pending"
    /\ pairing' = [pairing EXCEPT ![g].state = "denied"]
    /\ UNCHANGED <<dead, keyState, scopeRow, madeBy, cached, ask, rootOf, meant, unlisted, origin>>

CodeExpires(g) ==
    /\ pairing[g].state \in {"pending", "approved"} /\ ~pairing[g].expired
    /\ pairing' = [pairing EXCEPT ![g].expired = TRUE]
    /\ UNCHANGED <<dead, keyState, scopeRow, madeBy, cached, ask, rootOf, meant, unlisted, origin>>

\* A pairing of no registered client can't be matched by client: own is then
\* the agent it produced.
Effective(g) ==
    IF pairing[g].scope.mode = "own" /\ pairing[g].app = NoApp
      THEN [mode |-> "selected", sel |-> pairing[g].agent] ELSE pairing[g].scope

\* Fault: a code that was revoked can still be redeemed.
RedeemableOnce(g) == pairing[g].state = "approved" /\ ~pairing[g].expired /\ pairing[g].mints = 0

Redeemable(g) ==
    /\ pairing[g].state = "approved" /\ ~pairing[g].expired
    /\ pairing[g].mints = 0 /\ ~pairing[g].revoked

\* The token and its scope are there together.
MintToken(g) ==
    /\ Redeemable(g)
    /\ pairing' = [pairing EXCEPT ![g].mints = @ + 1]
    /\ scopeRow' = [scopeRow EXCEPT ![g] = Effective(g)]
    /\ meant' = [meant EXCEPT ![g] = Effective(g)]
    /\ UNCHANGED <<dead, keyState, madeBy, cached, ask, rootOf, unlisted, origin>>

\* Revoking kills the token if one was minted, and else keeps it from being.
RevokePairing(g) ==
    /\ pairing[g].state = "approved"
    /\ pairing' = [pairing EXCEPT ![g].revoked = TRUE]
    /\ dead' = IF pairing[g].mints > 0 THEN dead \cup {g} ELSE dead
    /\ UNCHANGED <<keyState, scopeRow, madeBy, cached, ask, rootOf, meant, unlisted, origin>>

----------------------------------------------------------------------------
(* API keys *)

\* A new key's id tells nothing: one of those not taken yet.
NewKey == CHOOSE k \in Keys : keyState[k] = "none"

CreateKey(k, scope) ==
    /\ keyState[k] = "none" /\ k = NewKey
    /\ keyState' = [keyState EXCEPT ![k] = "live"]
    /\ scopeRow' = [scopeRow EXCEPT ![k] = scope]
    /\ meant' = [meant EXCEPT ![k] = scope]
    /\ UNCHANGED <<pairing, dead, madeBy, cached, ask, rootOf, unlisted, origin>>

\* Revoked here or as a pairing, or past its expiry.
EndKey(k) ==
    /\ keyState[k] = "live"
    /\ keyState' = [keyState EXCEPT ![k] = "revoked"]
    /\ UNCHANGED <<pairing, dead, scopeRow, madeBy, cached, ask, rootOf, meant, unlisted, origin>>

\* Its scope row is pointed at the new key.
ScopeMoved(old, new) == [scopeRow EXCEPT ![new] = scopeRow[old], ![old] = All]

\* Fault: the agents stay with the key that is retired.
AgentsLeft(old, new) == madeBy

AgentsMoved(old, new) == [a \in Agents_ |-> IF madeBy[a] = old THEN new ELSE madeBy[a]]

RotateKey(old, new) ==
    /\ keyState[old] = "live" /\ keyState[new] = "none" /\ new = NewKey
    /\ keyState' = [keyState EXCEPT ![old] = "rotated", ![new] = "live"]
    /\ scopeRow' = ScopeMoved(old, new)
    /\ madeBy' = AgentsMoved(old, new)
    /\ rootOf' = [rootOf EXCEPT ![new] = rootOf[old]]
    /\ UNCHANGED <<pairing, dead, cached, ask, meant, unlisted, origin>>

----------------------------------------------------------------------------
(* Requests *)

Alive(c) == IF c \in Keys THEN keyState[c] = "live" ELSE pairing[c].mints > 0 /\ c \notin dead

Authenticate(r, c) ==
    /\ ask[r] = NotAsking /\ Alive(c)
    /\ ask' = [ask EXCEPT ![r] = [at |-> "authenticated", as |-> c]]
    /\ UNCHANGED <<pairing, dead, keyState, scopeRow, madeBy, cached, rootOf, meant, unlisted, origin>>

Answered(r) == ask' = [ask EXCEPT ![r] = NotAsking]

Attribution(c) == IF c \in Keys THEN c ELSE IF pairing[c].app = NoApp THEN Person ELSE pairing[c].app

\* resolve_grant and manageable_agent_ids: no row is all.
InScope(c) ==
    CASE scopeRow[c].mode = "all" -> Agents_
      [] scopeRow[c].mode = "own" -> {a \in Made : madeBy[a] = Attribution(c) /\ madeBy[a] # Person}
      [] OTHER -> scopeRow[c].sel

CacheAllows(c, a) == cached[c].known /\ a \in cached[c].ids

\* Allowed calls never query once cached ...
ActCached(r, a) ==
    /\ ask[r].at = "authenticated" /\ a \in Made
    /\ CacheAllows(ask[r].as, a)
    /\ ask' = [ask EXCEPT ![r] = [at |-> "acted", as |-> ask[r].as, to |-> a]]
    /\ UNCHANGED <<pairing, dead, keyState, scopeRow, madeBy, cached, rootOf, meant, unlisted, origin>>

\* ... and what the cache would refuse, or doesn't have, is looked up.
LoadScope(r, a) ==
    LET c == ask[r].as IN
    /\ ask[r].at = "authenticated" /\ a \in Made
    /\ ~CacheAllows(c, a)
    /\ ask' = [ask EXCEPT ![r] = [at |-> "loaded", as |-> c, to |-> a, ids |-> InScope(c)]]
    /\ UNCHANGED <<pairing, dead, keyState, scopeRow, madeBy, cached, rootOf, meant, unlisted, origin>>

ActLoaded(r) ==
    /\ ask[r].at = "loaded"
    /\ cached' = [cached EXCEPT ![ask[r].as] = [known |-> TRUE, ids |-> ask[r].ids]]
    /\ IF ask[r].to \in ask[r].ids
         THEN ask' = [ask EXCEPT ![r] = [at |-> "acted", as |-> ask[r].as, to |-> ask[r].to]]
         ELSE Answered(r)
    /\ UNCHANGED <<pairing, dead, keyState, scopeRow, madeBy, rootOf, meant, unlisted, origin>>

CacheExpires(c) ==
    /\ cached[c].known
    /\ cached' = [cached EXCEPT ![c] = Uncached]
    /\ UNCHANGED <<pairing, dead, keyState, scopeRow, madeBy, ask, rootOf, meant, unlisted, origin>>

\* Making an agent is three steps: the row, attributed to the client or key,
\* which a credential that lists its agents is to reach from then on ...
MakeAgent(r, a) ==
    LET c == ask[r].as
        Listed(f) == IF scopeRow[c].mode = "selected" THEN f \cup {a} ELSE f
    IN
    /\ ask[r].at = "authenticated" /\ a \notin Made
    /\ madeBy' = [madeBy EXCEPT ![a] = Attribution(c)]
    /\ origin' = [origin EXCEPT ![a] = IF c \notin Keys THEN Attribution(c)
                                       ELSE IF keyState[c] = "rotated" THEN Person ELSE rootOf[c]]
    /\ meant' = [meant EXCEPT ![Root(c)].sel = Listed(@)]
    /\ unlisted' = [unlisted EXCEPT ![Root(c)] = Listed(@)]
    /\ ask' = [ask EXCEPT ![r] = [at |-> "made", as |-> c, to |-> a]]
    /\ UNCHANGED <<pairing, dead, keyState, scopeRow, cached, rootOf>>

Forget(c) == cached' = [cached EXCEPT ![c] = Uncached]

\* ... the credential's scope, looked up: a key rotated meanwhile has none ...
ResolvesGrant(r) ==
    LET c == ask[r].as IN
    /\ ask[r].at = "made"
    /\ IF scopeRow[c].mode = "selected"
         THEN ask' = [ask EXCEPT ![r].at = "enrolling"] /\ UNCHANGED cached
         ELSE Answered(r) /\ Forget(c)
    /\ UNCHANGED <<pairing, dead, keyState, scopeRow, madeBy, rootOf, meant, unlisted, origin>>

\* ... and the agent put on the list that was found, whichever key of the
\* family that row is by then of.
Enroll(r) ==
    LET c == ask[r].as
        a == ask[r].to
        Found(d) == Root(d) = Root(c) /\ scopeRow[d].mode = "selected"
    IN
    /\ ask[r].at = "enrolling"
    /\ scopeRow' = [d \in Creds |-> IF Found(d) THEN [scopeRow[d] EXCEPT !.sel = @ \cup {a}]
                                               ELSE scopeRow[d]]
    /\ unlisted' = [unlisted EXCEPT ![Root(c)] = @ \ {a}]
    /\ Forget(c) /\ Answered(r)
    /\ UNCHANGED <<pairing, dead, keyState, madeBy, rootOf, meant, origin>>

\* A request is done, or fails or is cut off, or was refused for something else.
AskEnds(r) ==
    /\ ask[r] # NotAsking
    /\ Answered(r)
    /\ UNCHANGED <<pairing, dead, keyState, scopeRow, madeBy, cached, rootOf, meant, unlisted, origin>>

\* A token signs itself out.
SignOut(r) ==
    /\ ask[r].at = "authenticated" /\ ask[r].as \in Grants
    /\ dead' = dead \cup {ask[r].as}
    /\ Answered(r)
    /\ UNCHANGED <<pairing, keyState, scopeRow, madeBy, cached, rootOf, meant, unlisted, origin>>

----------------------------------------------------------------------------

AccessNext ==
    \/ \E g \in Grants :
           \/ \E app \in Apps, scope \in Scopes : IssueCode(g, app, scope)
           \/ \E app \in Apps \cup {NoApp} : DeviceAuthorization(g, app)
           \/ \E a \in Agents_, scope \in Scopes :
                  ApproveExisting(g, a, scope) \/ ApproveNew(g, a, scope)
           \/ Deny(g) \/ CodeExpires(g) \/ MintToken(g) \/ RevokePairing(g)
    \/ \E k \in Keys :
           \/ \E scope \in Scopes : CreateKey(k, scope)
           \/ EndKey(k)
           \/ \E new \in Keys : RotateKey(k, new)
    \/ \E c \in Creds : CacheExpires(c)
    \/ \E r \in Asks :
           \/ \E c \in Creds : Authenticate(r, c)
           \/ \E a \in Agents_ : ActCached(r, a) \/ LoadScope(r, a) \/ MakeAgent(r, a)
           \/ ActLoaded(r) \/ ResolvesGrant(r) \/ Enroll(r) \/ AskEnds(r) \/ SignOut(r)

AccessSpec == AccessInit /\ [][AccessNext]_accessVars

----------------------------------------------------------------------------
(* Properties *)

\* pairings::revoke "also kills the JWT we minted": whether the token was
\* minted before the pairing was revoked or was about to be, nothing
\* authenticates with it afterwards, and a code gives one token.
RevokedForGood ==
    \A g \in Grants :
        /\ pairing[g].mints <= 1
        /\ pairing[g].revoked /\ pairing[g].mints > 0 => ~Alive(g)

\* What a credential is to reach: a scope "only ever NARROWS", and one that
\* lists its agents is to reach those it makes, "so it can keep managing" them.
Reach(c) ==
    LET scope == meant[Root(c)] IN
    CASE scope.mode = "all" -> Agents_
      [] scope.mode = "own" ->
             {a \in Made : origin[a] = IF c \in Keys THEN rootOf[c] ELSE pairing[c].app}
      [] OTHER -> scope.sel

\* scope: a credential acts only as agents it is to reach, through any cache
\* and any rotation of keys.  The exception is a request that had
\* authenticated with a key when it was rotated: with its row moved away that
\* key resolves to all.
ActsWithinReach ==
    \A r \in Asks :
        ask[r].at = "acted" =>
            ask[r].to \in Reach(ask[r].as) \/ (ask[r].as \in Keys /\ keyState[ask[r].as] = "rotated")

\* api_keys::rotate: the credential "keeps its identity".  A live key reaches
\* all that its family was given or made, but for an agent that a request of
\* an older key made after that key was rotated, and for one that was made but
\* not enrolled: the request is still at it, was cut off after the agent's
\* INSERT, or found no scope because its key was rotated in between.
KeepsItsReach ==
    \A k \in Keys : keyState[k] = "live" => Reach(k) \subseteq InScope(k) \cup unlisted[rootOf[k]]

\* What a credential can do and what it may do stay the same through pairings,
\* caches and rotations, and through the agents made on the way but for one
\* whose enrolment was cut off.
ReachIsKept == ActsWithinReach /\ KeepsItsReach
=============================================================================

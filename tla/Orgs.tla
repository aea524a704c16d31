------------------------------- MODULE Orgs --------------------------------
(***************************************************************************)
(* The agents of an organization and of its owner's personal account:      *)
(* created, deleted, moved to the personal account one by one or all when  *)
(* the organization is deleted, and the default agent that the relay makes *)
(* for a caller without one.  What a transaction wrote is seen by others   *)
(* when it commits; the rows it locked, and a slug it took, make them wait. *)
(***************************************************************************)
EXTENDS Naturals, Sequences, FiniteSets

CONSTANTS
    Owned,        \* ids of agents
    FirstCalls,   \* calls by name whose caller has no agent of their own
    NoAgentYet,
    MaxSuffix     \* the code's 999: how many suffixes allocate_free_slug tries

ASSUME OrgsAssumption ==
    /\ {NoAgentYet, "none", "makes"} \cap Owned = {} /\ MaxSuffix \in Nat

VARIABLES
    orgState,    \* accounts: the organization, live or deleted
    homeOf,      \* agents.account_id: org, personal, or nowhere; gone once the row is deleted
    slugAt,      \* agents.slug
    tombstones,  \* agents.tombstoned_at IS NOT NULL
    deletion,    \* delete_org's transaction
    moving,      \* move_to_personal's transactions: the slug each found free
    firstCall,   \* default_agent's transactions
    defaultRow   \* default_agents: the agent of the owner's key

orgVars == <<orgState, homeOf, slugAt, tombstones, deletion, moving, firstCall, defaultRow>>

\* A slug is what allocate_free_slug appends to a base slug: "b" is <<>>, "b-1"
\* is <<1>>.
BaseSlugs == {<<>>, <<1>>}
NoSlug == <<0>>

NoDeletion == [stage |-> "idle", list |-> {}, next |-> {}, moved |-> {}]

OrgsInit ==
    /\ orgState = "live"
    /\ homeOf = [x \in Owned |-> "nowhere"]
    /\ slugAt = [x \in Owned |-> NoSlug]
    /\ tombstones = {}
    /\ deletion = NoDeletion
    /\ moving = [x \in Owned |-> NoSlug]
    /\ firstCall = [c \in FirstCalls |-> "none"]
    /\ defaultRow = NoAgentYet

LiveIn(account) == {x \in Owned \ tombstones : homeOf[x] = account}
Live == LiveIn("org") \cup LiveIn("personal")

\* What delete_org wrote and has not committed: new slugs in the personal account.
Uncommitted == {m.slug : m \in deletion.moved}

\* The rows a transaction in progress has locked.
LockedAgents == deletion.list \cup {x \in Owned : moving[x] # NoSlug}

Taken(account) == {slugAt[x] : x \in LiveIn(account)}

\* Fault: a new agent does not wait for the organization's row.
IgnoresLock(account) == account = "org" => orgState = "live"

\* An INSERT's foreign key waits for a locked account row, and fails when that
\* was deleted.
AccountOpen(account) == account = "org" => orgState = "live" /\ deletion.stage = "idle"

\* create: one INSERT, unless a live agent has the slug.
CreatesAgent(x, account, slug) ==
    /\ homeOf[x] = "nowhere" /\ AccountOpen(account)
    /\ slug \notin Taken(account)
    /\ account = "personal" => slug \notin Uncommitted
    /\ homeOf' = [homeOf EXCEPT ![x] = account]
    /\ slugAt' = [slugAt EXCEPT ![x] = slug]
    /\ UNCHANGED <<orgState, tombstones, deletion, moving, firstCall, defaultRow>>

\* delete: a tombstone.
TombstonesAgent(x) ==
    /\ x \in Live \ LockedAgents
    /\ tombstones' = tombstones \cup {x}
    /\ UNCHANGED <<orgState, homeOf, slugAt, deletion, moving, firstCall, defaultRow>>

\* allocate_free_slug: the base slug, or the first suffix free in the personal
\* account as this transaction sees it.
Candidate(base, n) == IF n = 0 THEN base ELSE Append(base, n)
FreeSuffixes(base, seen) == {n \in 0..MaxSuffix : Candidate(base, n) \notin seen}
AllocateFreeSlug(base, seen) ==
    LET free == FreeSuffixes(base, seen) IN
        IF free = {} THEN NoSlug ELSE Candidate(base, CHOOSE n \in free : \A k \in free : n <= k)

----------------------------------------------------------------------------
(* move_to_personal *)

\* It locks the agent and looks for a slug ...
BeginsMove(x) ==
    LET slug == AllocateFreeSlug(slugAt[x], Taken("personal")) IN
        /\ x \in LiveIn("org") \ LockedAgents /\ slug # NoSlug
        /\ moving' = [moving EXCEPT ![x] = slug]
        /\ UNCHANGED <<orgState, homeOf, slugAt, tombstones, deletion, firstCall, defaultRow>>

\* ... and takes it, unless another took it meanwhile: then it fails.
EndsMove(x) ==
    /\ moving[x] # NoSlug /\ moving[x] \notin Uncommitted
    /\ moving' = [moving EXCEPT ![x] = NoSlug]
    /\ IF moving[x] \in Taken("personal")
         THEN UNCHANGED <<homeOf, slugAt>>
         ELSE /\ homeOf' = [homeOf EXCEPT ![x] = "personal"]
              /\ slugAt' = [slugAt EXCEPT ![x] = moving[x]]
    /\ UNCHANGED <<orgState, tombstones, deletion, firstCall, defaultRow>>

----------------------------------------------------------------------------
(* delete_org *)

LocksOrg ==
    /\ orgState = "live" /\ deletion.stage = "idle"
    /\ deletion' = [NoDeletion EXCEPT !.stage = "locked"]
    /\ UNCHANGED <<orgState, homeOf, slugAt, tombstones, moving, firstCall, defaultRow>>

\* The live agents, once nobody else has them locked.
LoadsAgents ==
    /\ deletion.stage = "locked" /\ \A x \in LiveIn("org") : moving[x] = NoSlug
    /\ deletion' = [deletion EXCEPT !.stage = "moving", !.list = LiveIn("org")]
    /\ UNCHANGED <<orgState, homeOf, slugAt, tombstones, moving, firstCall, defaultRow>>

\* A transaction that ends without a commit leaves nothing.
FailsDeletion ==
    /\ deletion' = NoDeletion
    /\ UNCHANGED <<orgState, homeOf, slugAt, tombstones, moving, firstCall, defaultRow>>

Moved == {m.agent : m \in deletion.moved}

FindsSlug(x) ==
    LET slug == AllocateFreeSlug(slugAt[x], Taken("personal") \cup Uncommitted) IN
        /\ deletion.stage = "moving" /\ deletion.next = {} /\ x \in deletion.list \ Moved
        /\ IF slug = NoSlug
             THEN FailsDeletion
             ELSE /\ deletion' = [deletion EXCEPT !.next = {[agent |-> x, slug |-> slug]}]
                  /\ UNCHANGED <<orgState, homeOf, slugAt, tombstones, moving, firstCall, defaultRow>>

\* Then that agent moves; the unique index refuses a slug that was taken since,
\* and the deletion fails with it.
MovesListed ==
    \E m \in deletion.next :
        IF m.slug \in Taken("personal")
          THEN FailsDeletion
          ELSE /\ deletion' = [deletion EXCEPT !.next = {}, !.moved = @ \cup {m}]
               /\ UNCHANGED <<orgState, homeOf, slugAt, tombstones, moving, firstCall, defaultRow>>

MovedTo(x) == (CHOOSE m \in deletion.moved : m.agent = x).slug

\* The account's row goes, and by cascade every agent it still has.
DropsOrg ==
    /\ deletion.stage = "moving" /\ Moved = deletion.list
    /\ orgState' = "deleted"
    /\ homeOf' = [x \in Owned |-> IF x \in Moved THEN "personal"
                                  ELSE IF homeOf[x] = "org" THEN "gone" ELSE homeOf[x]]
    /\ slugAt' = [x \in Owned |-> IF x \in Moved THEN MovedTo(x) ELSE slugAt[x]]
    /\ deletion' = NoDeletion
    /\ UNCHANGED <<tombstones, moving, firstCall, defaultRow>>

----------------------------------------------------------------------------
(* default_agent *)

\* Fault: without the lock.
AnyoneLooks == TRUE

\* The advisory lock on the owner's key is free.
NobodyMakes == \A c \in FirstCalls : firstCall[c] # "makes"

\* A first call takes the lock and looks for the default agent.  It calls as that
\* one, which ends its transaction, or makes one.
LooksForDefault(c) ==
    /\ firstCall[c] = "none" /\ NobodyMakes
    /\ firstCall' = [firstCall EXCEPT ![c] = IF defaultRow \in Live THEN defaultRow ELSE "makes"]
    /\ UNCHANGED <<orgState, homeOf, slugAt, tombstones, deletion, moving, defaultRow>>

\* The new agent is in the personal account, under the slug its name gives or
\* one with random characters, and takes the place of a deleted one.
MakesDefault(c, x, slug) ==
    /\ firstCall[c] = "makes" /\ homeOf[x] = "nowhere"
    /\ slug \notin Taken("personal") \cup Uncommitted
    /\ homeOf' = [homeOf EXCEPT ![x] = "personal"]
    /\ slugAt' = [slugAt EXCEPT ![x] = slug]
    /\ defaultRow' = x
    /\ firstCall' = [firstCall EXCEPT ![c] = x]
    /\ UNCHANGED <<orgState, tombstones, deletion, moving>>

OrgsNext ==
    \/ \E x \in Owned :
           \/ \E slug \in BaseSlugs :
                  \/ \E account \in {"org", "personal"} : CreatesAgent(x, account, slug)
                  \/ \E c \in FirstCalls : MakesDefault(c, x, slug)
           \/ TombstonesAgent(x) \/ BeginsMove(x) \/ EndsMove(x) \/ FindsSlug(x)
    \/ \E c \in FirstCalls : LooksForDefault(c)
    \/ LocksOrg \/ LoadsAgents \/ MovesListed \/ DropsOrg

OrgsSpec == OrgsInit /\ [][OrgsNext]_orgVars

----------------------------------------------------------------------------
(* Properties *)

\* default_agent: "Concurrent first calls make one agent. A deleted default agent
\* is replaced."  Calls whose agents are both there are made as one agent.
OneDefaultAgent ==
    \A c, d \in FirstCalls :
        firstCall[c] \in Live /\ firstCall[d] \in Live => firstCall[c] = firstCall[d]

\* delete_org: the history of an organization's agents needs "to survive", so they
\* move instead of being "cascade-killed".  No agent that is live goes with the
\* organization, whenever it was created or moved; and first calls agree on one.
AgentsAreKept ==
    [][ /\ \A x \in Live : homeOf'[x] # "gone"
        /\ OneDefaultAgent' ]_orgVars
=============================================================================

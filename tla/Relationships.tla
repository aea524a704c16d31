--------------------------- MODULE Relationships ---------------------------
(***************************************************************************)
(* Who may call whom: friendships proposed, accepted, rejected, cancelled  *)
(* and countered, and the grants given on them.                            *)
(*                                                                         *)
(* Each handler reads what it needs, may wait for the message screening,   *)
(* and writes later: a request is a record of what was read, and the write *)
(* is a step of its own.  Each agent has its own account and publishes at  *)
(* most one capability, so a grant is named by its granter and grantee.    *)
(* No handler here reads a grant's expires_at, so it has no timer.          *)
(***************************************************************************)
EXTENDS Naturals, FiniteSets

CONSTANTS
    Agents,      \* agents, one account each
    Rows,        \* ids of friendships
    GrantIds,    \* ids of grants
    NoRow,       \* counter_of_id when there is none
    NoAgent,     \* an agent column of a row that is not written yet
    MaxRequests  \* bound: requests between their read and their write

ASSUME RelationshipsAssumption ==
    /\ NoRow \notin Rows
    /\ NoAgent \notin Agents
    /\ MaxRequests \in Nat

VARIABLES
    gone,       \* tombstoned agents
    published,  \* agents whose capability exists
    status,     \* friendships.status; "none" before the row exists
    proposer,   \* proposer_agent_id
    target,     \* target_agent_id
    counterOf,  \* counter_of_id
    grant,      \* grants.status; "none" before the row and after its deletion
    granter,    \* granter_agent_id
    grantee,    \* grantee_agent_id
    requests    \* handlers between their read and their write

friendVars == <<status, proposer, target, counterOf>>
grantVars == <<grant, granter, grantee>>
vars == <<gone, published, friendVars, grantVars, requests>>

Verdicts == {"accepted", "rejected", "cancelled"}
Decided == Verdicts \cup {"countered"}
Statuses == {"none", "proposed"} \cup Decided

Requests ==
    [op : Verdicts \cup {"propose", "counter", "grant"},
     row : Rows \cup {NoRow}, from : Agents, to : Agents]

TypeOK ==
    /\ gone \subseteq Agents
    /\ published \subseteq Agents
    /\ status \in [Rows -> Statuses]
    /\ proposer \in [Rows -> Agents \cup {NoAgent}]
    /\ target \in [Rows -> Agents \cup {NoAgent}]
    /\ counterOf \in [Rows -> Rows \cup {NoRow}]
    /\ grant \in [GrantIds -> {"none", "active", "revoked"}]
    /\ granter \in [GrantIds -> Agents \cup {NoAgent}]
    /\ grantee \in [GrantIds -> Agents \cup {NoAgent}]
    /\ requests \subseteq Requests
    /\ \A p \in Rows : status[p] # "none" => {proposer[p], target[p]} \subseteq Agents

Init ==
    /\ gone = {}
    /\ published = Agents
    /\ status = [p \in Rows |-> "none"]
    /\ proposer = [p \in Rows |-> NoAgent]
    /\ target = [p \in Rows |-> NoAgent]
    /\ counterOf = [p \in Rows |-> NoRow]
    /\ grant = [g \in GrantIds |-> "none"]
    /\ granter = [g \in GrantIds |-> NoAgent]
    /\ grantee = [g \in GrantIds |-> NoAgent]
    /\ requests = {}

----------------------------------------------------------------------------
(* Requests *)

Read(r) ==
    /\ Cardinality(requests) < MaxRequests
    /\ requests' = requests \cup {r}
    /\ UNCHANGED <<gone, published, friendVars, grantVars>>

Done(r) == r \in requests /\ requests' = requests \ {r}

\* The request ends without writing: refused by the screening, or dropped.
Abandon(r) ==
    /\ Done(r)
    /\ UNCHANGED <<gone, published, friendVars, grantVars>>

----------------------------------------------------------------------------
(* Friendships *)

\* uq_friendships_active_pair: the ordered pair has a live row already.
InFlight(a, b) ==
    \E p \in Rows : /\ status[p] \in {"proposed", "accepted"}
                    /\ proposer[p] = a /\ target[p] = b

\* propose, over REST: both agents are live.
ReadPropose(a, b) ==
    /\ a # b /\ {a, b} \cap gone = {}
    /\ Read([op |-> "propose", row |-> NoRow, from |-> a, to |-> b])

\* propose_friendship, over MCP: deleted agents are still rows.
ReadProposeMcp(a, b) ==
    /\ a # b
    /\ Read([op |-> "propose", row |-> NoRow, from |-> a, to |-> b])

\* A new row's id tells nothing: one of those not taken yet.
NewRow == CHOOSE p \in Rows : status[p] = "none"

\* A new row, of status 'proposed'.
Insert(p, a, b, of) ==
    /\ status[p] = "none" /\ p = NewRow
    /\ proposer' = [proposer EXCEPT ![p] = a]
    /\ target' = [target EXCEPT ![p] = b]
    /\ counterOf' = [counterOf EXCEPT ![p] = of]

\* propose's INSERT, or the Conflict the index makes of it.
WritePropose(r, p) ==
    /\ r.op = "propose" /\ Done(r)
    /\ IF InFlight(r.from, r.to)
       THEN UNCHANGED friendVars
       ELSE /\ Insert(p, r.from, r.to, NoRow)
            /\ status' = [status EXCEPT ![p] = "proposed"]
    /\ UNCHANGED <<gone, published, grantVars>>

\* Who may decide: the proposer cancels, the target does the rest.
Decider(verdict, p) == IF verdict = "cancelled" THEN proposer[p] ELSE target[p]

\* cancel, accept and reject: the row was proposed, its decider live.
ReadDecision(verdict, p) ==
    /\ status[p] = "proposed"
    /\ Decider(verdict, p) \notin gone
    /\ Read([op |-> verdict, row |-> p, from |-> proposer[p], to |-> target[p]])

\* Fault: the UPDATE does not look at the status again.
DecidesAnyway(p) == TRUE

\* The guard of every deciding UPDATE.
Decides(p) == status[p] = "proposed"

\* Their UPDATE.  Whether it changed a row is not looked at.
WriteDecision(r) ==
    /\ r.op \in Verdicts /\ Done(r)
    /\ status' = [status EXCEPT ![r.row] = IF Decides(r.row) THEN r.op ELSE @]
    /\ UNCHANGED <<gone, published, proposer, target, counterOf, grantVars>>

\* counter, up to its transaction.
ReadCounter(p) ==
    /\ status[p] = "proposed"
    /\ target[p] \notin gone
    /\ Read([op |-> "counter", row |-> p, from |-> target[p], to |-> proposer[p]])

\* counter's transaction: the original is countered if it is still proposed,
\* and the reverse proposal inserted either way, unless there is one already.
WriteCounter(r, q) ==
    LET p == r.row IN
    /\ r.op = "counter" /\ Done(r)
    /\ IF InFlight(r.from, r.to)
       THEN UNCHANGED friendVars
       ELSE /\ Insert(q, r.from, r.to, p)
            /\ status' = [status EXCEPT
                             ![p] = IF Decides(p) THEN "countered" ELSE @,
                             ![q] = "proposed"]
    /\ UNCHANGED <<gone, published, grantVars>>

----------------------------------------------------------------------------
(* Grants *)

\* Fault: a proposal is friendship enough.
FriendsOnceProposed(a, b) == InFlight(a, b) \/ InFlight(b, a)

\* have_accepted_friendship, in either direction.
Friends(a, b) ==
    \E p \in Rows : /\ status[p] = "accepted"
                    /\ {proposer[p], target[p]} = {a, b}

\* create, up to its INSERT: the granter's capability exists and the two are
\* friends.  Neither agent is asked whether it is still live.
ReadGrant(a, b) ==
    /\ a # b
    /\ a \in published
    /\ Friends(a, b)
    /\ Read([op |-> "grant", row |-> NoRow, from |-> a, to |-> b])

\* uq_grants_active: the rows of this triple with status 'active'.
Active(a, b) ==
    {g \in GrantIds : grant[g] = "active" /\ granter[g] = a /\ grantee[g] = b}

\* create's INSERT; its Conflict when the triple has an active row, past its
\* expires_at or not; an error when the capability is gone.
WriteGrant(r, g) ==
    /\ r.op = "grant" /\ Done(r)
    /\ IF r.from \notin published \/ Active(r.from, r.to) # {}
       THEN UNCHANGED grantVars
       ELSE /\ grant[g] = "none" /\ granter[g] = NoAgent
            /\ grant' = [grant EXCEPT ![g] = "active"]
            /\ granter' = [granter EXCEPT ![g] = r.from]
            /\ grantee' = [grantee EXCEPT ![g] = r.to]
    /\ UNCHANGED <<gone, published, friendVars>>

\* revoke: the row was active, and the UPDATE sees to it that it still is.
RevokeGrant(g) ==
    /\ grant[g] = "active"
    /\ grant' = [grant EXCEPT ![g] = "revoked"]
    /\ UNCHANGED <<gone, published, friendVars, granter, grantee, requests>>

----------------------------------------------------------------------------
(* What they depend on goes away *)

\* agents::delete: tombstoned, its active grants, either way, revoked.  Its
\* friendships and proposals are left.
DeleteAgent(a) ==
    /\ a \notin gone
    /\ gone' = gone \cup {a}
    /\ grant' = [g \in GrantIds |->
                   IF grant[g] = "active" /\ a \in {granter[g], grantee[g]}
                   THEN "revoked" ELSE grant[g]]
    /\ UNCHANGED <<published, friendVars, granter, grantee, requests>>

\* capabilities::delete: the grants on it are deleted with it.
DeleteCapability(a) ==
    /\ a \in published
    /\ published' = published \ {a}
    /\ grant' = [g \in GrantIds |-> IF granter[g] = a THEN "none" ELSE grant[g]]
    /\ UNCHANGED <<gone, friendVars, granter, grantee, requests>>

----------------------------------------------------------------------------
Reading ==
    \/ \E a, b \in Agents : ReadPropose(a, b) \/ ReadProposeMcp(a, b) \/ ReadGrant(a, b)
    \/ \E p \in Rows :
          \/ ReadCounter(p)
          \/ \E verdict \in Verdicts : ReadDecision(verdict, p)

Writing ==
    \E r \in requests :
        \/ Abandon(r) \/ WriteDecision(r)
        \/ \E p \in Rows : WritePropose(r, p) \/ WriteCounter(r, p)
        \/ \E g \in GrantIds : WriteGrant(r, g)

Ending ==
    \/ \E g \in GrantIds : RevokeGrant(g)
    \/ \E a \in Agents : DeleteAgent(a) \/ DeleteCapability(a)

Next == Reading \/ Writing \/ Ending

Spec == Init /\ [][Next]_vars

----------------------------------------------------------------------------
(* Properties *)

\* A proposal is decided once: an accept, a reject, a counter and the
\* proposer's cancel all read it as proposed before any of them writes, and
\* only the first write counts.
DecidedForGood ==
    [][\A p \in Rows : status[p] \in Decided => status'[p] = status[p]]_vars

\* A grant stands on an accepted friendship of its two agents, for as long as
\* it is active.
GrantsAmongFriends ==
    \A g \in GrantIds :
        grant[g] = "active" => Friends(granter[g], grantee[g])

\* Migration 0004: a counter's counter_of_id "points to the original (now
\* status='countered') friendship row".
CountersFollowCountered ==
    \A p \in Rows : counterOf[p] # NoRow => status[counterOf[p]] = "countered"
=============================================================================

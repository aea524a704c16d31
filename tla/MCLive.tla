------------------------------- MODULE MCLive -------------------------------
(***************************************************************************)
(* Four more components that share no state: the wake hub, an agent with   *)
(* an endpoint of its own and the command `invoke ensure`, under the       *)
(* fairness of their modules, and the agents of an organization.  One of   *)
(* them moves in each behaviour, chosen at the start.                      *)
(***************************************************************************)
EXTENDS Wake, PushAgents, Orgs, Ensure

VARIABLE moves  \* the component that moves

FirstSlug == CHOOSE s \in AgentSlugs : TRUE

LiveInit ==
    /\ moves \in {"wake", "push", "orgs", "ensure"}
    /\ WakeInit
    /\ PushInit
    /\ pushAgent.slug = FirstSlug /\ (moves # "push" => pushAgent.url = NoUrl)
    /\ OrgsInit
    /\ Init /\ EnsureInit

\* Bound: of the two agents of a command, only the one it calls is deleted or
\* grants anything, and its capability stays.
OnlyPeerGrants ==
    /\ Me \notin gone' /\ published' = Agents
    /\ \A r \in requests' : r.op = "grant" => r.from = Peer

\* Bound: while two fetches are under way, no message has come, no hours pass and
\* of the owner's changes only a new endpoint is at work.
OneFetchOrQuiet ==
    \/ \A f, g \in Fetches : NoFetch \in {fetch'[f], fetch'[g]} \/ f = g
    \/ /\ \A m \in Messages : message'[m] = NewMessage
       /\ \A e \in Edits : edit'[e].step # "capability"
       /\ ~asks' /\ fetchedAt' # "old" /\ pushAgent'.slug = FirstSlug

commandVars == <<vars, ensureVars>>

LiveNext ==
    /\ \/ moves = "wake" /\ WakeNext /\ UNCHANGED <<pushVars, orgVars, commandVars>>
       \/ /\ moves = "push" /\ PushNext /\ OneFetchOrQuiet
          /\ UNCHANGED <<wakeVars, orgVars, commandVars>>
       \/ moves = "orgs" /\ OrgsNext /\ UNCHANGED <<wakeVars, pushVars, commandVars>>
       \/ /\ moves = "ensure" /\ EnsureNext /\ OnlyPeerGrants
          /\ UNCHANGED <<wakeVars, pushVars, orgVars>>
    /\ UNCHANGED moves

liveVars == <<moves, wakeVars, pushVars, orgVars, commandVars>>

\* WakeFairness, PushFairness and the fairness of EnsureFairSpec, for the
\* component that moves: a step of another one is not enabled and nothing is
\* due of it.
OfWake(A) == moves = "wake" /\ A
OfPush(A) == moves = "push" /\ A
OfEnsure(A) == moves = "ensure" /\ A

LiveFairness ==
    /\ \A p \in Processes :
           /\ WF_wakeVars(OfWake(Notify(p))) /\ WF_wakeVars(OfWake(Sends(p)))
           /\ WF_wakeVars(OfWake(Listens(p))) /\ WF_wakeVars(OfWake(Rouses(p)))
    /\ \A w \in Pulls :
           WF_wakeVars(OfWake(Proceeds(w))) /\ WF_wakeVars(OfWake(WokeClosed(w)))
    /\ WF_pushVars(OfPush(StalenessPasses))
    /\ WF_pushVars(OfPush(\E f \in Fetches : Claims(f)))
    /\ SF_pushVars(OfPush(\E f \in Fetches : LoadsAgent(f)))
    /\ SF_pushVars(OfPush(\E f \in Fetches : HostAnswers(f)))
    /\ SF_pushVars(OfPush(\E f \in Fetches : StoresCard(f)))
    /\ WF_ensureVars(OfEnsure(PollsFriendship))

LiveSpec == LiveInit /\ [][LiveNext]_liveVars /\ LiveFairness
=============================================================================

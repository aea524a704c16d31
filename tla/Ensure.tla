------------------------------- MODULE Ensure -------------------------------
(***************************************************************************)
(* `chakramcp invoke ensure`: one run of the command line that calls a     *)
(* capability of Peer for Me, proposing the friendship when there is none  *)
(* and waiting for it, or for the grant, when told to.                     *)
(*                                                                         *)
(* Each request to the relay is a step, and everybody else's handlers go   *)
(* on between them.  A poll that fails on its way is repeated, and changes *)
(* nothing.  The capability is not public.                                 *)
(***************************************************************************)
EXTENDS Relationships

CONSTANTS Me, Peer

ASSUME EnsureAssumption == {Me, Peer} \subseteq Agents /\ Me # Peer

VARIABLES
    newest,  \* the rows of the pair with the latest updated_at
    run      \* where the command is, what it found, and whether the two were
             \* friends when it began

ensureVars == <<newest, run>>

EnsureInit ==
    /\ newest = {}
    /\ run = [at |-> "none", row |-> NoRow, grant |-> NoRow, befriended |-> FALSE]

----------------------------------------------------------------------------
(* The relay *)

\* set_updated_at: a statement's rows share its time, and a row that no
\* statement touches keeps its own.
Restamps ==
    LET touched == {p \in Rows : status'[p] # status[p] /\ {proposer'[p], target'[p]} = {Me, Peer}}
    IN  newest' = IF touched = {} THEN newest ELSE touched

Relates == Next /\ Restamps /\ UNCHANGED run

\* The listings and fetch_friendship leave out deleted agents.
Visible == {Me, Peer} \cap gone = {}

----------------------------------------------------------------------------
(* The command *)

Goes(at) == run' = [run EXCEPT !.at = at]

\* ensure_run begins: both agents resolve.
Starts ==
    /\ run.at = "none"
    /\ Visible
    /\ run' = [run EXCEPT !.at = "finding", !.befriended = Friends(Me, Peer)]
    /\ UNCHANGED <<vars, newest>>

\* With a row whose friendship is not accepted: wait for it, with
\* --wait-for-friendship, or report it.
Unaccepted(p) ==
    \E at \in {"waiting", "waiting_for_friendship"} :
        run' = [run EXCEPT !.row = p, !.at = at]

\* find_friendship: the first row of the pair in a list that is sorted by
\* updated_at, newest first, whatever its direction and status.
FindsFriendship(p) ==
    /\ run.at = "finding" /\ Visible
    /\ p \in newest
    /\ IF status[p] = "accepted" THEN Goes("granting") ELSE Unaccepted(p)
    /\ UNCHANGED <<vars, newest>>

FindsNone ==
    /\ run.at = "finding"
    /\ newest = {} \/ ~Visible
    /\ Goes("proposing")
    /\ UNCHANGED <<vars, newest>>

\* POST /v1/friendships: without a message nothing is screened, so the handler
\* reads and writes at once.
Proposes(p) ==
    /\ run.at = "proposing"
    /\ IF ~Visible \/ InFlight(Me, Peer)
       THEN Goes("error") /\ UNCHANGED <<friendVars, newest>>
       ELSE /\ Insert(p, Me, Peer, NoRow)
            /\ status' = [status EXCEPT ![p] = "proposed"]
            /\ Restamps
            /\ Unaccepted(p)
    /\ UNCHANGED <<gone, published, grantVars, requests>>

\* Fault: a countered proposal is still to be answered.
StillProposed(p) == status[p] \in Verdicts

\* is_friendship_terminal
IsFriendshipTerminal(p) == status[p] \in Decided

\* wait_for_friendship's poll, of that one row.
PollsFriendship ==
    /\ run.at = "waiting"
    /\ \/ ~Visible /\ Goes("error")
       \/ /\ Visible /\ IsFriendshipTerminal(run.row)
          /\ Goes(IF status[run.row] = "accepted" THEN "granting" ELSE "friendship_not_accepted")
    /\ UNCHANGED <<vars, newest>>

\* find_grant: an active grant from Peer to Me.
FindsGrant(g) ==
    /\ run.at \in {"granting", "polling"}
    /\ g \in Active(Peer, Me)
    /\ run' = [run EXCEPT !.at = "invoking", !.grant = g]
    /\ UNCHANGED <<vars, newest>>

\* There is none: poll for it, with --wait-for-grant, or report it.
LacksGrant ==
    /\ run.at = "granting"
    /\ Active(Peer, Me) = {}
    /\ \E at \in {"polling", "waiting_for_grant"} : Goes(at)
    /\ UNCHANGED <<vars, newest>>

\* POST /v1/invoke, refused when the grant was revoked or deleted since.
InvokesPeer ==
    /\ run.at = "invoking"
    /\ Goes(IF grant[run.grant] = "active" THEN "invoked" ELSE "error")
    /\ UNCHANGED <<vars, newest>>

\* The deadline of a wait.
TimesOut ==
    /\ run.at \in {"waiting", "polling"}
    /\ Goes("timeout")
    /\ UNCHANGED <<vars, newest>>

Commands ==
    \/ Starts
    \/ \E p \in Rows : FindsFriendship(p) \/ Proposes(p)
    \/ \E g \in GrantIds : FindsGrant(g)
    \/ FindsNone \/ PollsFriendship \/ LacksGrant \/ InvokesPeer \/ TimesOut

EnsureNext == Relates \/ Commands

EnsureSpec == Init /\ EnsureInit /\ [][EnsureNext]_<<vars, ensureVars>>

EnsureFairSpec == EnsureSpec /\ WF_ensureVars(PollsFriendship)

----------------------------------------------------------------------------
(* Properties *)

\* invoke.rs, the doc comment of Sub::Ensure: the waiting states are returned
\* when the friendship or the grant is missing.  A friendship that was there when
\* the command began is not missing.
MissingWhenReported ==
    run.at \in {"waiting_for_friendship", "friendship_not_accepted"} => ~run.befriended

\* A command that waits for a proposal goes on when the proposal is answered,
\* whatever the answer, and is not left to its deadline.  Its polls are the only
\* steps taken for granted.
AnswersEndTheWait ==
    (run.at = "waiting" /\ status[run.row] \in Decided) ~> run.at # "waiting"
=============================================================================

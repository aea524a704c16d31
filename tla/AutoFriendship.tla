--------------------------- MODULE AutoFriendship ---------------------------
(***************************************************************************)
(* The auto-friendship policy of one organization: turning it on, joining  *)
(* and creating an agent each befriend all pairs in its scope, with one    *)
(* INSERT ... SELECT ... WHERE NOT EXISTS.                                 *)
(*                                                                         *)
(* A backfill is two steps, since the statement inserts what its snapshot  *)
(* lacked: Look takes the snapshot, Finish inserts, or fails as a whole on *)
(* the unique index of the ordered pair.  OrgAgents are numbered by id, each  *)
(* with an account of its own in the organization's scope.                 *)
(***************************************************************************)
EXTENDS Naturals, FiniteSets

CONSTANTS
    OrgAgents,     \* agent ids
    Proposers,  \* agents whose users also propose friendships by hand
    MaxRunning  \* bound: saves and backfills under way at any time

ASSUME AutoFriendshipAssumption ==
    /\ OrgAgents \subseteq Nat
    /\ Proposers \subseteq OrgAgents
    /\ MaxRunning \in Nat

VARIABLES
    enabled,   \* accounts.auto_friendship_enabled
    live,      \* agents created and not tombstoned
    rows,      \* friendships proposed or accepted: <<proposer, target, status>>
    saving,    \* saves of the settings between read and write, by the flag they read
    triggered, \* backfills triggered and not started
    planned,   \* the pairs each running backfill found missing
    missed,    \* history: whether anything went wrong since the last snapshot
    withdrawn  \* history: pairs whose proposal was rejected or cancelled since it

autoVars == <<enabled, live, rows, saving, triggered, planned, missed, withdrawn>>

AutoTypeOK ==
    /\ enabled \in BOOLEAN
    /\ live \subseteq OrgAgents
    /\ rows \subseteq OrgAgents \X OrgAgents \X {"proposed", "accepted"}
    /\ saving \in [BOOLEAN -> 0 .. MaxRunning]
    /\ triggered \in 0 .. MaxRunning
    /\ planned \subseteq SUBSET (OrgAgents \X OrgAgents)
    /\ missed \in BOOLEAN
    /\ withdrawn \subseteq SUBSET OrgAgents

AutoInit ==
    /\ enabled \in BOOLEAN
    /\ live = {}
    /\ rows = {}
    /\ saving = [read \in BOOLEAN |-> 0]
    /\ triggered = 0
    /\ planned = {}
    /\ missed = FALSE
    /\ withdrawn = {}

HasRow(x, y) == \E s \in {"proposed", "accepted"} : <<x, y, s>> \in rows
Related(x, y) == HasRow(x, y) \/ HasRow(y, x)
Idle == triggered = 0 /\ planned = {}

\* The pairs a backfill inserts: in scope, lower id first, with no row in
\* either direction.
Missing == {p \in live \X live : p[1] < p[2] /\ ~Related(p[1], p[2])}

Room == saving[TRUE] + saving[FALSE] + triggered + Cardinality(planned) < MaxRunning

\* Fault: nothing runs the backfill.
TriggersNothing(on) == 0

\* A hook runs the backfill of an organization with the setting on.
Triggers(on) == IF on THEN 1 ELSE 0

\* agents::create, or an invite accepted by the owner of a new account.
Create(x) ==
    /\ x \notin live /\ Room
    /\ live' = live \cup {x}
    /\ triggered' = triggered + Triggers(enabled)
    /\ UNCHANGED <<enabled, rows, saving, planned, missed, withdrawn>>

\* update_settings reads the flag ...
ReadSettings ==
    /\ Room
    /\ saving' = [saving EXCEPT ![enabled] = @ + 1]
    /\ UNCHANGED <<enabled, live, rows, triggered, planned, missed, withdrawn>>

\* ... writes it, or leaves it, and runs the backfill if it went from off,
\* as it was read, to on, as it is now.
SaveSettings(prev, on) ==
    /\ saving[prev] > 0
    /\ saving' = [saving EXCEPT ![prev] = @ - 1]
    /\ enabled' = on
    /\ triggered' = triggered + Triggers(~prev /\ on)
    /\ missed' = (missed \/ (~enabled /\ on /\ prev))
    /\ UNCHANGED <<live, rows, planned, withdrawn>>

\* Two backfills that found the same missing: the second adds nothing.
Look ==
    /\ triggered > 0
    /\ Missing \notin planned
    /\ triggered' = triggered - 1
    /\ planned' = planned \cup {Missing}
    /\ missed' = FALSE /\ withdrawn' = {}
    /\ UNCHANGED <<enabled, live, rows, saving>>

\* A row the plan would insert is there by now.
Clashes(plan) == \E p \in plan : HasRow(p[1], p[2])

\* backfill_for_org: all its rows, or none when one of them exists by now.
\* The handlers log the error and go on.
Finish(plan) ==
    /\ plan \in planned
    /\ planned' = planned \ {plan}
    /\ rows' = IF Clashes(plan) THEN rows
               ELSE rows \cup {<<p[1], p[2], "accepted">> : p \in plan}
    /\ missed' = (missed \/ Clashes(plan))
    /\ UNCHANGED <<enabled, live, saving, triggered, withdrawn>>

\* A user proposes, with only the ordered pair's index in the way.
Propose(x, y) ==
    /\ x \in Proposers \cap live /\ y \in live \ {x}
    /\ ~HasRow(x, y)
    /\ rows' = rows \cup {<<x, y, "proposed">>}
    /\ UNCHANGED <<enabled, live, saving, triggered, planned, missed, withdrawn>>

\* The target accepts ...
AcceptsProposal(x, y) ==
    /\ <<x, y, "proposed">> \in rows
    /\ rows' = (rows \ {<<x, y, "proposed">>}) \cup {<<x, y, "accepted">>}
    /\ UNCHANGED <<enabled, live, saving, triggered, planned, missed, withdrawn>>

\* ... or counters, with a proposal the other way.  Once the first is no longer
\* proposed that is one by hand.
CountersProposal(x, y) ==
    /\ <<x, y, "proposed">> \in rows /\ ~HasRow(y, x)
    /\ rows' = (rows \ {<<x, y, "proposed">>}) \cup {<<y, x, "proposed">>}
    /\ UNCHANGED <<enabled, live, saving, triggered, planned, missed, withdrawn>>

\* The target rejects it, or its proposer cancels it, and nothing runs the
\* backfill again.
EndsProposal(x, y) ==
    /\ <<x, y, "proposed">> \in rows
    /\ rows' = rows \ {<<x, y, "proposed">>}
    /\ withdrawn' = withdrawn \cup {{x, y}}
    /\ UNCHANGED <<enabled, live, saving, triggered, planned, missed>>

AutoNext ==
    \/ ReadSettings \/ Look
    \/ \E prev, on \in BOOLEAN : SaveSettings(prev, on)
    \/ \E x \in OrgAgents : Create(x)
    \/ \E x, y \in OrgAgents :
           \/ Propose(x, y) \/ AcceptsProposal(x, y) \/ CountersProposal(x, y)
           \/ EndsProposal(x, y)
    \/ \E plan \in planned : Finish(plan)

AutoSpec == AutoInit /\ [][AutoNext]_autoVars

----------------------------------------------------------------------------
(* Properties *)

Befriended(x, y) == {<<x, y, "accepted">>, <<y, x, "accepted">>} \cap rows # {}
ProposedByHand(x, y) == {<<x, y, "proposed">>, <<y, x, "proposed">>} \cap rows # {}

\* "Every pair of agents owned by accounts that share membership in that org
\* becomes instantly-accepted friends": with the setting on and no backfill
\* left to run, every pair in scope is, or one of them has proposed to the other
\* and was not answered, or was turned down since the last snapshot: the backfill
\* passes a pair over for a proposal, and nothing makes up for it when that
\* comes to nothing.  Nor is a pair when a backfill failed on a row that came in
\* between, or a save took the setting, turned off since it read it, to be on
\* all along.  The next backfill makes up for any of these.
EveryPairBefriended ==
    enabled /\ Idle /\ ~missed =>
        \A x, y \in live :
            x # y => Befriended(x, y) \/ ProposedByHand(x, y) \/ {x, y} \in withdrawn
=============================================================================

------------------------ MODULE RelationshipsProofs ------------------------
(***************************************************************************)
(* Proofs about Relationships and AutoFriendship, for any number of        *)
(* agents, friendships, grants and requests under way.                     *)
(*                                                                         *)
(* A grant stands on an accepted friendship because an accepted row stays  *)
(* accepted, and because a handler that is about to write a grant already  *)
(* saw one.  The auto-friendship policy misses no pair because every pair  *)
(* in scope without a row is in the plan of a running backfill, or a       *)
(* backfill is still to start.                                             *)
(***************************************************************************)
EXTENDS Relationships, AutoFriendship, TLAPS

----------------------------------------------------------------------------
(* Friendships and grants *)

\* A handler about to write a grant has seen the friendship it stands on.
GrantersAreFriends ==
    \A r \in requests : r.op = "grant" => Friends(r.from, r.to)

\* A handler of an existing row has read it.
RequestsReadTheirRow ==
    \A r \in requests : r.op \in Verdicts \cup {"counter"} =>
        r.row \in Rows /\ status[r.row] # "none"

FriendsInv ==
    /\ TypeOK
    /\ RequestsReadTheirRow
    /\ GrantersAreFriends
    /\ GrantsAmongFriends

\* What a step may do to the friendships: a row that exists keeps its agents,
\* and a decided one its status.
RowsKept ==
    \A p \in Rows :
        /\ status[p] # "none" =>
              /\ proposer'[p] = proposer[p] /\ target'[p] = target[p]
              /\ status'[p] # "none"
        /\ status[p] \in Decided => status'[p] = status[p]

\* Friends stay friends.
LEMMA FriendsStay ==
    ASSUME RowsKept, NEW a, NEW b, Friends(a, b) PROVE Friends(a, b)'
BY DEF RowsKept, Friends, Decided, Verdicts

\* No handler's UPDATE moves a row past its first decision.
LEMMA RowsStep == ASSUME FriendsInv, [Next]_vars PROVE RowsKept
<1> USE RelationshipsAssumption
    DEF FriendsInv, RequestsReadTheirRow, TypeOK, RowsKept, Decided, Verdicts,
        vars, friendVars, grantVars
<1>1. CASE Reading
  BY <1>1 DEF Reading, ReadPropose, ReadProposeMcp, ReadGrant, ReadCounter,
              ReadDecision, Read
<1>2. ASSUME NEW r \in requests, Abandon(r) PROVE RowsKept
  BY <1>2 DEF Abandon
<1>3. ASSUME NEW r \in requests, WriteDecision(r) PROVE RowsKept
  BY <1>3 DEF WriteDecision, Decides
<1>4. ASSUME NEW r \in requests, NEW p \in Rows, WritePropose(r, p)
      PROVE RowsKept
  BY <1>4 DEF WritePropose, Insert
<1>5. ASSUME NEW r \in requests, NEW p \in Rows, WriteCounter(r, p)
      PROVE RowsKept
  BY <1>5 DEF WriteCounter, Insert, Decides
<1>6. ASSUME NEW r \in requests, NEW g \in GrantIds, WriteGrant(r, g)
      PROVE RowsKept
  BY <1>6 DEF WriteGrant
<1>7. CASE Ending
  BY <1>7 DEF Ending, RevokeGrant, DeleteAgent, DeleteCapability
<1>8. CASE UNCHANGED vars
  BY <1>8
<1> HIDE DEF FriendsInv, RowsKept, vars
<1> QED
  BY <1>1, <1>2, <1>3, <1>4, <1>5, <1>6, <1>7, <1>8 DEF Next, Writing

\* Every step keeps the types, and a request under way what its row was.
LEMMA FriendsTypeStep == ASSUME TypeOK, RequestsReadTheirRow, [Next]_vars
                         PROVE  TypeOK' /\ RequestsReadTheirRow'
<1> DEFINE Goal == TypeOK' /\ RequestsReadTheirRow'
<1> USE RelationshipsAssumption
    DEF RequestsReadTheirRow, TypeOK, Decided, Verdicts, Statuses, Requests,
        vars, friendVars, grantVars
<1>1. ASSUME NEW a \in Agents, NEW b \in Agents,
             ReadPropose(a, b) \/ ReadProposeMcp(a, b) \/ ReadGrant(a, b)
      PROVE Goal
  BY <1>1 DEF ReadPropose, ReadProposeMcp, ReadGrant, Read
<1>2. ASSUME NEW p \in Rows, ReadCounter(p) PROVE Goal
  BY <1>2 DEF ReadCounter, Read
<1>3. ASSUME NEW p \in Rows, NEW verdict \in Verdicts, ReadDecision(verdict, p)
      PROVE Goal
  BY <1>3 DEF ReadDecision, Read
<1>4. ASSUME NEW r \in requests, Abandon(r) PROVE Goal
  BY <1>4 DEF Abandon, Done
<1>5. ASSUME NEW r \in requests, WriteDecision(r) PROVE Goal
  BY <1>5 DEF WriteDecision, Done, Decides
<1>6. ASSUME NEW r \in requests, NEW p \in Rows, WritePropose(r, p) PROVE Goal
  BY <1>6 DEF WritePropose, Insert, Done
<1>7. ASSUME NEW r \in requests, NEW p \in Rows, WriteCounter(r, p) PROVE Goal
  BY <1>7 DEF WriteCounter, Insert, Done, Decides
<1>8. ASSUME NEW r \in requests, NEW g \in GrantIds, WriteGrant(r, g)
      PROVE Goal
  BY <1>8 DEF WriteGrant, Done
<1>9. ASSUME NEW g \in GrantIds, RevokeGrant(g) PROVE Goal
  BY <1>9 DEF RevokeGrant
<1>10. ASSUME NEW a \in Agents, DeleteAgent(a) \/ DeleteCapability(a)
       PROVE Goal
  BY <1>10 DEF DeleteAgent, DeleteCapability
<1>11. CASE UNCHANGED vars
  BY <1>11
<1> HIDE DEF TypeOK, RequestsReadTheirRow, vars
<1> QED
  BY <1>1, <1>2, <1>3, <1>4, <1>5, <1>6, <1>7, <1>8, <1>9, <1>10, <1>11
  DEF Next, Reading, Writing, Ending

\* Every step leaves each grant, and each grant about to be written, on an
\* accepted friendship.
LEMMA GrantsStep == ASSUME FriendsInv, [Next]_vars
                    PROVE  GrantersAreFriends' /\ GrantsAmongFriends'
<1> DEFINE Goal == GrantersAreFriends' /\ GrantsAmongFriends'
<1>1. \A a, b : Friends(a, b) => Friends(a, b)'
  BY RowsStep, FriendsStay
<1> USE RelationshipsAssumption, <1>1
    DEF FriendsInv, TypeOK, GrantersAreFriends, GrantsAmongFriends, vars,
        friendVars, grantVars
<1>2. ASSUME NEW a \in Agents, NEW b \in Agents,
             ReadPropose(a, b) \/ ReadProposeMcp(a, b) \/ ReadGrant(a, b)
      PROVE Goal
  BY <1>2 DEF ReadPropose, ReadProposeMcp, ReadGrant, Read
<1>3. ASSUME NEW p \in Rows,
             ReadCounter(p) \/ \E verdict \in Verdicts : ReadDecision(verdict, p)
      PROVE Goal
  BY <1>3 DEF ReadCounter, ReadDecision, Read, Verdicts
<1>4. ASSUME NEW r \in requests,
             \/ Abandon(r) \/ WriteDecision(r)
             \/ \E p \in Rows : WritePropose(r, p) \/ WriteCounter(r, p)
      PROVE Goal
  <2>1. requests' \subseteq requests /\ UNCHANGED grantVars
    BY <1>4 DEF Abandon, WriteDecision, WritePropose, WriteCounter, Done
  <2> QED
    BY <2>1
<1>5. ASSUME NEW r \in requests, NEW g \in GrantIds, WriteGrant(r, g)
      PROVE Goal
  BY <1>5 DEF WriteGrant, Done
<1>6. ASSUME NEW g \in GrantIds, RevokeGrant(g) PROVE Goal
  BY <1>6 DEF RevokeGrant
<1>7. ASSUME NEW a \in Agents, DeleteAgent(a) \/ DeleteCapability(a)
      PROVE Goal
  BY <1>7 DEF DeleteAgent, DeleteCapability
<1>8. CASE UNCHANGED vars
  BY <1>8
<1> HIDE DEF FriendsInv, GrantersAreFriends, GrantsAmongFriends, vars
<1> QED
  BY <1>2, <1>3, <1>4, <1>5, <1>6, <1>7, <1>8
  DEF Next, Reading, Writing, Ending

\* Grants and the handlers about to write one stand on accepted friendships.
THEOREM FriendsInvariant == Spec => []FriendsInv
<1>1. Init => FriendsInv
  BY RelationshipsAssumption
  DEF Init, FriendsInv, TypeOK, Requests, Statuses, RequestsReadTheirRow,
      GrantersAreFriends, GrantsAmongFriends
<1>2. FriendsInv /\ [Next]_vars => FriendsInv'
  BY FriendsTypeStep, GrantsStep DEF FriendsInv
<1> QED
  BY <1>1, <1>2, PTL DEF Spec

\* grants::create asks for a friendship once, before it writes; the grant
\* still stands on one for as long as it is active, since nothing ends an
\* accepted friendship.
THEOREM GrantsStandOnFriendship == Spec => []GrantsAmongFriends
BY FriendsInvariant, PTL DEF FriendsInv

\* A proposal is decided once: of an accept, a reject, a counter and a cancel
\* that all read it as proposed, the first write counts.
THEOREM DecisionsAreFinal == Spec => DecidedForGood
<1>1. FriendsInv /\ [Next]_vars =>
          [\A p \in Rows : status[p] \in Decided => status'[p] = status[p]]_vars
  BY RowsStep DEF RowsKept
<1> QED
  BY <1>1, FriendsInvariant, PTL DEF Spec, DecidedForGood

----------------------------------------------------------------------------
(* The auto-friendship policy *)

PolicyTypes ==
    /\ enabled \in BOOLEAN
    /\ live \subseteq OrgAgents
    /\ rows \subseteq OrgAgents \X OrgAgents \X {"proposed", "accepted"}
    /\ planned \subseteq SUBSET (OrgAgents \X OrgAgents)
    /\ triggered \in Nat
    /\ missed \in BOOLEAN

\* A pair in scope without a row is about to get one, unless its proposal came
\* to nothing after the snapshot.
MissingIsPlanned ==
    enabled /\ ~missed /\ triggered = 0 =>
        \A p \in Missing : {p[1], p[2]} \in withdrawn \/ \E plan \in planned : p \in plan

PolicyInv == PolicyTypes /\ MissingIsPlanned

\* Every step of the policy keeps the types.
LEMMA PolicyTypesStep == ASSUME PolicyTypes, [AutoNext]_autoVars
                         PROVE  PolicyTypes'
<1> USE AutoFriendshipAssumption DEF PolicyTypes, autoVars
<1>1. CASE ReadSettings
  BY <1>1 DEF ReadSettings
<1>2. CASE Look
  <2>1. Missing \subseteq OrgAgents \X OrgAgents
    BY DEF Missing
  <2>2. planned' \subseteq SUBSET (OrgAgents \X OrgAgents)
    BY <1>2, <2>1 DEF Look
  <2>3. triggered' \in Nat
    BY <1>2 DEF Look
  <2>4. UNCHANGED <<enabled, live, rows>> /\ missed' = FALSE
    BY <1>2 DEF Look
  <2> QED
    BY <2>2, <2>3, <2>4
<1>3. ASSUME NEW prev \in BOOLEAN, NEW on \in BOOLEAN, SaveSettings(prev, on)
      PROVE PolicyTypes'
  BY <1>3 DEF SaveSettings, Triggers
<1>4. ASSUME NEW x \in OrgAgents, Create(x) PROVE PolicyTypes'
  BY <1>4 DEF Create, Triggers
<1>5. ASSUME NEW x \in OrgAgents, NEW y \in OrgAgents, Propose(x, y)
      PROVE PolicyTypes'
  BY <1>5 DEF Propose
<1>6. ASSUME NEW plan \in planned, Finish(plan) PROVE PolicyTypes'
  <2>1. {<<p[1], p[2], "accepted">> : p \in plan}
            \subseteq OrgAgents \X OrgAgents \X {"proposed", "accepted"}
    OBVIOUS
  <2>2. rows' \subseteq OrgAgents \X OrgAgents \X {"proposed", "accepted"}
    BY <1>6, <2>1 DEF Finish
  <2> QED
    BY <1>6, <2>2 DEF Finish
<1>7. CASE UNCHANGED autoVars
  BY <1>7
<1>8. ASSUME NEW x \in OrgAgents, NEW y \in OrgAgents, AcceptsProposal(x, y)
      PROVE PolicyTypes'
  BY <1>8 DEF AcceptsProposal
<1>9. ASSUME NEW x \in OrgAgents, NEW y \in OrgAgents, CountersProposal(x, y)
      PROVE PolicyTypes'
  BY <1>9 DEF CountersProposal
<1>10. ASSUME NEW x \in OrgAgents, NEW y \in OrgAgents, EndsProposal(x, y)
       PROVE PolicyTypes'
  BY <1>10 DEF EndsProposal
<1> HIDE DEF PolicyTypes, autoVars
<1> QED
  BY <1>1, <1>2, <1>3, <1>4, <1>5, <1>6, <1>7, <1>8, <1>9, <1>10 DEF AutoNext

\* No hook and no backfill leaves a pair behind that nothing is about to
\* befriend.
LEMMA MissingStep == ASSUME PolicyInv, [AutoNext]_autoVars
                     PROVE  MissingIsPlanned'
<1> USE AutoFriendshipAssumption
    DEF PolicyInv, PolicyTypes, MissingIsPlanned, autoVars, Missing, Related,
        HasRow
<1>1. CASE ReadSettings
  BY <1>1 DEF ReadSettings
<1>2. CASE Look
  <2>1. Missing' = Missing /\ planned' = planned \cup {Missing}
    BY <1>2 DEF Look
  <2> HIDE DEF Missing
  <2> QED
    BY <2>1
<1>3. ASSUME NEW prev \in BOOLEAN, NEW on \in BOOLEAN, SaveSettings(prev, on)
      PROVE MissingIsPlanned'
  BY <1>3 DEF SaveSettings, Triggers
<1>4. ASSUME NEW x \in OrgAgents, Create(x) PROVE MissingIsPlanned'
  BY <1>4 DEF Create, Triggers
<1>5. ASSUME NEW x \in OrgAgents, NEW y \in OrgAgents, Propose(x, y)
      PROVE MissingIsPlanned'
  BY <1>5 DEF Propose
<1>6. ASSUME NEW plan \in planned, Finish(plan) PROVE MissingIsPlanned'
  <2> SUFFICES ASSUME enabled', ~missed', triggered' = 0, NEW p \in Missing',
                      {p[1], p[2]} \notin withdrawn'
               PROVE  \E other \in planned' : p \in other
    BY DEF MissingIsPlanned
  <2>1. ~Clashes(plan) /\ ~missed /\ enabled /\ triggered = 0
    BY <1>6 DEF Finish
  <2>2. rows' = rows \cup {<<q[1], q[2], "accepted">> : q \in plan}
    BY <1>6, <2>1 DEF Finish
  <2>3. p \in Missing
    BY <1>6, <2>2 DEF Finish
  <2>4. PICK other \in planned : p \in other
    BY <1>6, <2>1, <2>3 DEF Finish
  <2>5. other # plan
    <3>1. p \notin plan
      BY <2>2
    <3> QED
      BY <2>4, <3>1
  <2> QED
    BY <1>6, <2>4, <2>5 DEF Finish
<1>7. CASE UNCHANGED autoVars
  BY <1>7
<1>8. ASSUME NEW x \in OrgAgents, NEW y \in OrgAgents, AcceptsProposal(x, y)
      PROVE MissingIsPlanned'
  BY <1>8 DEF AcceptsProposal
<1>9. ASSUME NEW x \in OrgAgents, NEW y \in OrgAgents, CountersProposal(x, y)
      PROVE MissingIsPlanned'
  BY <1>9 DEF CountersProposal
<1>10. ASSUME NEW x \in OrgAgents, NEW y \in OrgAgents, EndsProposal(x, y)
       PROVE MissingIsPlanned'
  <2> SUFFICES ASSUME enabled', ~missed', triggered' = 0, NEW p \in Missing',
                      {p[1], p[2]} \notin withdrawn'
               PROVE  \E plan \in planned : p \in plan
    BY <1>10 DEF EndsProposal
  <2>1. /\ rows' = rows \ {<<x, y, "proposed">>} /\ withdrawn' = withdrawn \cup {{x, y}}
        /\ UNCHANGED <<enabled, live, triggered, planned, missed>>
    BY <1>10 DEF EndsProposal
  <2>2. p \in live \X live /\ p[1] < p[2] /\ ~Related(p[1], p[2])'
    BY <2>1
  <2>3. {p[1], p[2]} # {x, y} /\ {p[1], p[2]} \notin withdrawn
    BY <2>1
  <2>4. ~Related(p[1], p[2])
    <3>1. <<p[1], p[2]>> # <<x, y>> /\ <<p[2], p[1]>> # <<x, y>>
      BY <2>3
    <3> QED
      BY <2>1, <2>2, <3>1
  <2> QED
    BY <2>1, <2>2, <2>3, <2>4
<1> HIDE DEF PolicyInv, MissingIsPlanned, autoVars
<1> QED
  BY <1>1, <1>2, <1>3, <1>4, <1>5, <1>6, <1>7, <1>8, <1>9, <1>10 DEF AutoNext

\* A pair the policy should befriend and has not is planned, or will be.
THEOREM PolicyInvariant == AutoSpec => []PolicyInv
<1>1. AutoInit => PolicyInv
  <2> SUFFICES ASSUME AutoInit PROVE PolicyInv
    OBVIOUS
  <2>1. PolicyTypes
    BY DEF AutoInit, PolicyTypes
  <2>2. Missing = {}
    BY DEF AutoInit, Missing
  <2> QED
    BY <2>1, <2>2 DEF PolicyInv, MissingIsPlanned
<1>2. PolicyInv /\ [AutoNext]_autoVars => PolicyInv'
  BY PolicyTypesStep, MissingStep DEF PolicyInv
<1> QED
  BY <1>1, <1>2, PTL DEF AutoSpec

\* With the setting on and no backfill left to run, every pair in scope is
\* befriended, proposed, or turned down since the last snapshot, whatever order
\* saves, hooks, backfills, proposals and decisions came in, unless a backfill
\* failed or a save read the setting stale.
THEOREM PolicyReachesEveryPair == AutoSpec => []EveryPairBefriended
<1>1. PolicyInv => EveryPairBefriended
  <2> SUFFICES ASSUME PolicyInv, enabled, Idle, ~missed,
                      NEW x \in live, NEW y \in live, x # y, {x, y} \notin withdrawn
               PROVE  Befriended(x, y) \/ ProposedByHand(x, y)
    BY DEF EveryPairBefriended
  <2>1. x \in Nat /\ y \in Nat
    BY AutoFriendshipAssumption DEF PolicyInv, PolicyTypes
  <2>2. \A p \in live \X live :
            p[1] < p[2] => Related(p[1], p[2]) \/ {p[1], p[2]} \in withdrawn
    BY DEF PolicyInv, MissingIsPlanned, Idle, Missing
  <2>3. Related(x, y)
    <3>1. CASE x < y
      <4>1. <<x, y>> \in live \X live
        OBVIOUS
      <4> QED
        BY <2>2, <3>1, <4>1
    <3>2. CASE y < x
      <4>1. <<y, x>> \in live \X live /\ {y, x} = {x, y}
        OBVIOUS
      <4>2. Related(y, x)
        BY <2>2, <3>2, <4>1
      <4> QED
        BY <4>2 DEF Related
    <3> QED
      BY <2>1, <3>1, <3>2
  <2> QED
    BY <2>3 DEF Related, HasRow, Befriended, ProposedByHand
<1> QED
  BY <1>1, PolicyInvariant, PTL
=============================================================================

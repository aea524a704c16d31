----------------------- MODULE InvocationsReplyProofs -----------------------
(***************************************************************************)
(* Proofs about what the owner decides in Invocations: confirmed replies,  *)
(* the notices their agent gets, and what a standing consent covers, for   *)
(* every set of ids and answers and every bound.                           *)
(*                                                                         *)
(* The argument: the properties rest on IInv of InvocationsProofs and are  *)
(* inductive with it but for three facts.  A reply that is a result can be *)
(* in flight only once the capability was no longer human_in_loop; a       *)
(* consent exists only where its own request was approved; and whatever it *)
(* covers was approved with it.                                            *)
(***************************************************************************)
EXTENDS InvocationsProofs, FiniteSetTheorems

----------------------------------------------------------------------------
(* Confirmed replies *)

\* While the capability can only be human_in_loop, every reply in flight is a
\* draft or the owner's own.
NoBareResultInFlight ==
    Semantics = {HumanInLoop} /\ semantics # Deleted =>
        \A r \in inFlight : r.as # "result"

RepliesInv ==
    /\ NoBareResultInFlight
    /\ ConfirmedAsShown
    /\ HumanConfirmedWhilePublished

\* Every step keeps what was confirmed.
LEMMA RepliesStep ==
    ASSUME IInv, IInv', RepliesInv, [Next]_vars PROVE RepliesInv'
<1> USE ConstantsAssumption
    DEF IInv, TypeOK, RowInv, AuthorizedHasNoRow, AnsweredIsSettled,
        HeldExactlyWhileAsked, RepliesInv, NoBareResultInFlight,
        ConfirmedAsShown, HumanConfirmedWhilePublished, HumanConfirmed,
        vars, agentVars, rowVars, gateVars, draftVars,
        consentVars, requestVars, Open, Answered, Settled, Deleted,
        HumanInLoop
<1>1. ASSUME NEW i \in Ids, Authorize(i) PROVE RepliesInv'
  BY <1>1 DEF Authorize
<1>2. ASSUME NEW i \in Ids, Refuse(i) PROVE RepliesInv'
  BY <1>2 DEF Refuse
<1>3. ASSUME NEW i \in Ids, TurnAway(i) PROVE RepliesInv'
  BY <1>3 DEF TurnAway
<1>4. ASSUME NEW i \in Ids, Enqueue(i) PROVE RepliesInv'
  BY <1>4 DEF Enqueue, Queue
<1>5. ASSUME NEW i \in Ids, NEW t \in Terms, EnqueueHeld(i, t)
      PROVE RepliesInv'
  BY <1>5 DEF EnqueueHeld
<1>6. ASSUME NEW i \in Ids, NEW t \in Terms, NEW k \in Ids, EnqueueCovered(i, t, k)
      PROVE RepliesInv'
  BY <1>6 DEF EnqueueCovered, Queue
<1>7. ASSUME NEW i \in Ids, Claim(i) PROVE RepliesInv'
  BY <1>7 DEF Claim, Claimable, ClaimLease
<1>8. ASSUME NEW i \in Ids, ReleaseClaim(i) PROVE RepliesInv'
  BY <1>8 DEF ReleaseClaim
<1>9. ASSUME NEW i \in Ids, NEW a \in Answers, SubmitResult(i, a)
      PROVE RepliesInv'
  BY <1>9 DEF SubmitResult, ReplyKind, Requests
<1>10. ASSUME NEW i \in Ids, NEW a \in Answers, SubmitAsOwner(i, a)
      PROVE RepliesInv'
  BY <1>10 DEF SubmitAsOwner, Requests
<1>11. ASSUME NEW r \in inFlight, DropResult(r) PROVE RepliesInv'
  BY <1>11 DEF DropResult
<1>12. ASSUME NEW r \in inFlight, FinishResult(r) PROVE RepliesInv'
  BY <1>12 DEF FinishResult, TakesResult, AnswerStatus, Requests
<1>13. ASSUME NEW r \in inFlight, StoreDraft(r) PROVE RepliesInv'
  BY <1>13 DEF StoreDraft, Requests
<1>14. ASSUME NEW r \in inFlight, AnswerAsOwner(r) PROVE RepliesInv'
  <2>1. r.id \in Ids /\ r.answer \in Answers
    BY DEF Requests
  <2>2. NoBareResultInFlight'
    BY <1>14 DEF AnswerAsOwner
  <2>3. ConfirmedAsShown' /\ HumanConfirmedWhilePublished'
    BY <1>14, <2>1 DEF AnswerAsOwner, AnswerStatus
  <2> QED
    BY <2>2, <2>3
<1>15. ASSUME NEW i \in Ids, ShowDraft(i) PROVE RepliesInv'
  BY <1>15 DEF ShowDraft
<1>16. ASSUME NEW i \in Ids, ApproveReply(i) PROVE RepliesInv'
  BY <1>16
  DEF ApproveReply, DecidableDraft, DraftAsShown, Releases, AnswerStatus,
      Tell
<1>17. ASSUME NEW i \in Ids, DenyReply(i) PROVE RepliesInv'
  BY <1>17 DEF DenyReply, DecidableDraft, Tell
<1>18. ASSUME NEW i \in Ids, NEW t \in Terms, ApproveRequest(i, t)
      PROVE RepliesInv'
  BY <1>18 DEF ApproveRequest, DecidableGate, Queue, Put, LiveConsents
<1>19. ASSUME NEW i \in Ids, CancelUnauthorized(i) PROVE RepliesInv'
  BY <1>19 DEF CancelUnauthorized, DecidableGate, CloseRequest
<1>20. ASSUME NEW i \in Ids, DenyRequest(i) PROVE RepliesInv'
  BY <1>20 DEF DenyRequest, DecidableGate, CloseRequest
<1>21. ASSUME NEW i \in Ids, RevokeConsent(i) PROVE RepliesInv'
  BY <1>21 DEF RevokeConsent
<1>22. ASSUME NEW i \in Ids, ExpireRequest(i) PROVE RepliesInv'
  BY <1>22 DEF ExpireRequest
<1>23. ASSUME NEW i \in Ids, ExpireDraft(i) PROVE RepliesInv'
  BY <1>23 DEF ExpireDraft, Tell
<1>24. ASSUME NEW i \in Ids, Backfill(i) PROVE RepliesInv'
  BY <1>24 DEF Backfill
<1>25. ASSUME NEW i \in Ids, SweepDeadline(i) PROVE RepliesInv'
  BY <1>25 DEF SweepDeadline, Tell
<1>26. ASSUME NEW i \in Ids, SweepLease(i) PROVE RepliesInv'
  BY <1>26 DEF SweepLease, OutOfClaims, Tell
<1>27. ASSUME RevokeGrant PROVE RepliesInv'
  BY <1>27 DEF RevokeGrant, Put, PendingGates, PendingDrafts
<1>28. ASSUME DeleteCapability PROVE RepliesInv'
  BY <1>28
  DEF DeleteCapability, CancelPending, Put, PendingGates, PendingDrafts,
      Held, LiveConsents
<1>29. ASSUME PurgeCall PROVE RepliesInv'
  BY <1>29 DEF PurgeCall, Put, PendingGates, PendingDrafts, Held
<1>30. ASSUME NEW agent \in Agents, DeleteAgent(agent) PROVE RepliesInv'
  BY <1>30
  DEF DeleteAgent, CancelPending, Put, PendingGates, PendingDrafts, Held,
      LiveConsents
<1>31. ASSUME NEW s \in Semantics, NEW b \in ConsentSettings,
             NEW p \in PublicSettings, UpdateCapability(s, b, p)
      PROVE RepliesInv'
  BY <1>31 DEF UpdateCapability
<1>32. ASSUME GrantRunsOut PROVE RepliesInv'
  BY <1>32 DEF GrantRunsOut
<1>33. ASSUME NEW i \in Ids, LeaseRunsOut(i) PROVE RepliesInv'
  BY <1>33 DEF LeaseRunsOut
<1>34. ASSUME NEW i \in Ids, DeadlineRunsOut(i) PROVE RepliesInv'
  BY <1>34 DEF DeadlineRunsOut
<1>35. ASSUME NEW i \in Ids, GateWaitRunsOut(i) PROVE RepliesInv'
  BY <1>35 DEF GateWaitRunsOut
<1>36. ASSUME NEW i \in Ids, DraftWaitRunsOut(i) PROVE RepliesInv'
  BY <1>36 DEF DraftWaitRunsOut
<1>37. ASSUME NEW i \in Ids, ConsentRunsOut(i) PROVE RepliesInv'
  BY <1>37 DEF ConsentRunsOut
<1>38. ASSUME NEW i \in Ids, AuthorizePublic(i) PROVE RepliesInv'
  BY <1>38 DEF AuthorizePublic
<1>39. CASE UNCHANGED vars
  BY <1>39
<1> HIDE DEF IInv, RepliesInv, vars
<1> QED
  BY <1>1, <1>2, <1>3, <1>4, <1>5, <1>6, <1>7, <1>8, <1>9, <1>10, <1>11,
     <1>12, <1>13, <1>14, <1>15, <1>16, <1>17, <1>18, <1>19, <1>20, <1>21,
     <1>22, <1>23, <1>24, <1>25, <1>26, <1>27, <1>28, <1>29, <1>30, <1>31,
     <1>32, <1>33, <1>34, <1>35, <1>36, <1>37, <1>38, <1>39
  DEF Next, Invoking, Answering, Deciding, Sweeping, Cascading, Passing

\* Confirmed replies stay as they were, given what IInv says of their rows:
\* no answer of an agent whose capability keeps a human in the loop is on its
\* way as a bare result.
THEOREM RepliesInvariant == Spec => []RepliesInv
<1>1. Init => RepliesInv
  BY DEF Init, RepliesInv, NoBareResultInFlight, ConfirmedAsShown,
         HumanConfirmedWhilePublished, HumanConfirmed
<1>2. IInv /\ IInv' /\ RepliesInv /\ [Next]_vars => RepliesInv'
  BY RepliesStep
<1> QED
  BY <1>1, <1>2, Invariant, PTL DEF Spec

\* What an approver confirmed is what the requester received, however often
\* the agent replaced its draft (store_draft) before the decision.
THEOREM ConfirmedIsShown == Spec => []ConfirmedAsShown
BY RepliesInvariant, PTL DEF RepliesInv

\* A capability that can only be human_in_loop gives no answer its owner did
\* not confirm: submit_result never turns a worker's reply into a result.
THEOREM HumanConfirms == Spec => []HumanConfirmedWhilePublished
BY RepliesInvariant, PTL DEF RepliesInv

----------------------------------------------------------------------------
(* Notices *)

\* What each notice says of its own, of the call and of its draft.
NoticesTrueOf(i) ==
    /\ <<"reply_confirmed", i>> \in notices =>
          draft[i] = "approved" /\ status[i] \in Answered
    /\ <<"reply_rejected", i>> \in notices => draft[i] = "denied"
    /\ <<"reply_expired", i>> \in notices =>
          draft[i] = "expired" /\ status[i] = "failed" /\ answer[i] = NoAnswer
    /\ <<"invocation_expired", i>> \in notices => status[i] = "timeout"

NoticesTrue == \A i \in Ids : NoticesTrueOf(i)

\* A draft has one end and a call has one status, so what the notices say
\* leaves one pair of them.
LEMMA OnePairOfEnds == NoticesTrue => NoticesAgree
<1> SUFFICES ASSUME NoticesTrue, NEW i \in Ids,
                    NEW kind \in EndsTold(i), NEW other \in EndsTold(i), kind # other
             PROVE  {kind, other} = {"invocation_expired", "reply_rejected"}
  BY DEF NoticesTrue, NoticesTrueOf, NoticesAgree
<1>1. /\ <<kind, i>> \in notices /\ <<other, i>> \in notices
      /\ \A k \in {kind, other} :
            k \in {"invocation_expired", "reply_confirmed", "reply_rejected", "reply_expired"}
  BY DEF EndsTold, NoticeKinds
<1>2. NoticesTrueOf(i)
  BY DEF NoticesTrue
<1>3. kind # "reply_confirmed" /\ other # "reply_confirmed"
  BY <1>1, <1>2 DEF NoticesTrueOf, Answered
<1>4. kind # "reply_expired" /\ other # "reply_expired"
  BY <1>1, <1>2 DEF NoticesTrueOf
<1> QED
  BY <1>1, <1>3, <1>4

\* Every step keeps the notices of each call true.
LEMMA NoticesStep ==
    ASSUME IInv, NoticesTrue, [Next]_vars, NEW c \in Ids PROVE NoticesTrueOf(c)'
<1> NoticesTrueOf(c)
  BY DEF NoticesTrue
<1> USE ConstantsAssumption
    DEF IInv, TypeOK, RowInv, AuthorizedHasNoRow, AnsweredIsSettled,
        NoticesTrueOf, Settled, vars, agentVars, rowVars, gateVars,
        draftVars, consentVars, requestVars, Open, Answered
<1>1. ASSUME NEW i \in Ids, Authorize(i) PROVE NoticesTrueOf(c)'
  BY <1>1 DEF Authorize
<1>2. ASSUME NEW i \in Ids, Refuse(i) PROVE NoticesTrueOf(c)'
  BY <1>2 DEF Refuse
<1>3. ASSUME NEW i \in Ids, TurnAway(i) PROVE NoticesTrueOf(c)'
  BY <1>3 DEF TurnAway
<1>4. ASSUME NEW i \in Ids, Enqueue(i) PROVE NoticesTrueOf(c)'
  BY <1>4 DEF Enqueue, Queue
<1>5. ASSUME NEW i \in Ids, NEW t \in Terms, EnqueueHeld(i, t)
      PROVE NoticesTrueOf(c)'
  BY <1>5 DEF EnqueueHeld, Tell
<1>6. ASSUME NEW i \in Ids, NEW t \in Terms, NEW k \in Ids, EnqueueCovered(i, t, k)
      PROVE NoticesTrueOf(c)'
  BY <1>6 DEF EnqueueCovered, Queue
<1>7. ASSUME NEW i \in Ids, Claim(i) PROVE NoticesTrueOf(c)'
  BY <1>7 DEF Claim, Claimable, ClaimLease
<1>8. ASSUME NEW i \in Ids, ReleaseClaim(i) PROVE NoticesTrueOf(c)'
  BY <1>8 DEF ReleaseClaim
<1>9. ASSUME NEW i \in Ids, NEW a \in Answers, SubmitResult(i, a)
      PROVE NoticesTrueOf(c)'
  BY <1>9 DEF SubmitResult, ReplyKind, Requests
<1>10. ASSUME NEW i \in Ids, NEW a \in Answers, SubmitAsOwner(i, a)
      PROVE NoticesTrueOf(c)'
  BY <1>10 DEF SubmitAsOwner, Requests
<1>11. ASSUME NEW r \in inFlight, DropResult(r) PROVE NoticesTrueOf(c)'
  BY <1>11 DEF DropResult
<1>12. ASSUME NEW r \in inFlight, FinishResult(r) PROVE NoticesTrueOf(c)'
  BY <1>12 DEF FinishResult, TakesResult, AnswerStatus, Requests
<1>13. ASSUME NEW r \in inFlight, StoreDraft(r) PROVE NoticesTrueOf(c)'
  BY <1>13 DEF StoreDraft, Requests
<1>14. ASSUME NEW r \in inFlight, AnswerAsOwner(r) PROVE NoticesTrueOf(c)'
  <2>1. r.id \in Ids
    BY DEF Requests
  <2>2. CASE c = r.id /\ status[c] \in Open /\ draft[c] \in {"none", "pending"}
    <3>1. status'[c] \in Answered /\ draft'[c] = "approved"
      BY <1>14, <2>1, <2>2 DEF AnswerAsOwner, AnswerStatus
    <3>2. notices' \subseteq notices \cup {<<"reply_confirmed", c>>}
      BY <1>14, <2>2 DEF AnswerAsOwner, Tell
    <3> QED
      BY <2>2, <3>1, <3>2
  <2>3. CASE ~(c = r.id /\ status[c] \in Open /\ draft[c] \in {"none", "pending"})
    <3>1. status'[c] = status[c] /\ answer'[c] = answer[c] /\ draft'[c] = draft[c]
      BY <1>14, <2>1, <2>3 DEF AnswerAsOwner
    <3>2. \A k \in NoticeKinds : <<k, c>> \in notices' => <<k, c>> \in notices
      BY <1>14, <2>1, <2>3 DEF AnswerAsOwner, Tell
    <3> QED
      BY <3>1, <3>2 DEF NoticeKinds
  <2> QED
    BY <2>2, <2>3
<1>15. ASSUME NEW i \in Ids, ShowDraft(i) PROVE NoticesTrueOf(c)'
  BY <1>15 DEF ShowDraft
<1>16. ASSUME NEW i \in Ids, ApproveReply(i) PROVE NoticesTrueOf(c)'
  BY <1>16
  DEF ApproveReply, DecidableDraft, DraftAsShown, Releases, AnswerStatus,
      Tell
<1>17. ASSUME NEW i \in Ids, DenyReply(i) PROVE NoticesTrueOf(c)'
  BY <1>17 DEF DenyReply, DecidableDraft, Tell
<1>18. ASSUME NEW i \in Ids, NEW t \in Terms, ApproveRequest(i, t)
      PROVE NoticesTrueOf(c)'
  BY <1>18 DEF ApproveRequest, DecidableGate, Queue, Put, LiveConsents
<1>19. ASSUME NEW i \in Ids, CancelUnauthorized(i) PROVE NoticesTrueOf(c)'
  BY <1>19 DEF CancelUnauthorized, DecidableGate, CloseRequest
<1>20. ASSUME NEW i \in Ids, DenyRequest(i) PROVE NoticesTrueOf(c)'
  BY <1>20 DEF DenyRequest, DecidableGate, CloseRequest
<1>21. ASSUME NEW i \in Ids, RevokeConsent(i) PROVE NoticesTrueOf(c)'
  BY <1>21 DEF RevokeConsent
<1>22. ASSUME NEW i \in Ids, ExpireRequest(i) PROVE NoticesTrueOf(c)'
  BY <1>22 DEF ExpireRequest
<1>23. ASSUME NEW i \in Ids, ExpireDraft(i) PROVE NoticesTrueOf(c)'
  BY <1>23 DEF ExpireDraft, Tell
<1>24. ASSUME NEW i \in Ids, Backfill(i) PROVE NoticesTrueOf(c)'
  BY <1>24 DEF Backfill
<1>25. ASSUME NEW i \in Ids, SweepDeadline(i) PROVE NoticesTrueOf(c)'
  BY <1>25 DEF SweepDeadline, Tell
<1>26. ASSUME NEW i \in Ids, SweepLease(i) PROVE NoticesTrueOf(c)'
  BY <1>26 DEF SweepLease, OutOfClaims, Tell
<1>27. ASSUME RevokeGrant PROVE NoticesTrueOf(c)'
  BY <1>27 DEF RevokeGrant, Put, PendingGates, PendingDrafts
<1>28. ASSUME DeleteCapability PROVE NoticesTrueOf(c)'
  BY <1>28
  DEF DeleteCapability, CancelPending, Put, PendingGates, PendingDrafts,
      Held, LiveConsents
<1>29. ASSUME PurgeCall PROVE NoticesTrueOf(c)'
  BY <1>29 DEF PurgeCall, Put, PendingGates, PendingDrafts, Held
<1>30. ASSUME NEW agent \in Agents, DeleteAgent(agent) PROVE NoticesTrueOf(c)'
  BY <1>30
  DEF DeleteAgent, CancelPending, Put, PendingGates, PendingDrafts, Held,
      LiveConsents
<1>31. ASSUME NEW s \in Semantics, NEW b \in ConsentSettings,
             NEW p \in PublicSettings, UpdateCapability(s, b, p)
      PROVE NoticesTrueOf(c)'
  BY <1>31 DEF UpdateCapability
<1>32. ASSUME GrantRunsOut PROVE NoticesTrueOf(c)'
  BY <1>32 DEF GrantRunsOut
<1>33. ASSUME NEW i \in Ids, LeaseRunsOut(i) PROVE NoticesTrueOf(c)'
  BY <1>33 DEF LeaseRunsOut
<1>34. ASSUME NEW i \in Ids, DeadlineRunsOut(i) PROVE NoticesTrueOf(c)'
  BY <1>34 DEF DeadlineRunsOut
<1>35. ASSUME NEW i \in Ids, GateWaitRunsOut(i) PROVE NoticesTrueOf(c)'
  BY <1>35 DEF GateWaitRunsOut
<1>36. ASSUME NEW i \in Ids, DraftWaitRunsOut(i) PROVE NoticesTrueOf(c)'
  BY <1>36 DEF DraftWaitRunsOut
<1>37. ASSUME NEW i \in Ids, ConsentRunsOut(i) PROVE NoticesTrueOf(c)'
  BY <1>37 DEF ConsentRunsOut
<1>38. ASSUME NEW i \in Ids, AuthorizePublic(i) PROVE NoticesTrueOf(c)'
  BY <1>38 DEF AuthorizePublic
<1>39. CASE UNCHANGED vars
  BY <1>39
<1> HIDE DEF IInv, NoticesTrueOf, vars
<1> QED
  BY <1>1, <1>2, <1>3, <1>4, <1>5, <1>6, <1>7, <1>8, <1>9, <1>10, <1>11,
     <1>12, <1>13, <1>14, <1>15, <1>16, <1>17, <1>18, <1>19, <1>20, <1>21,
     <1>22, <1>23, <1>24, <1>25, <1>26, <1>27, <1>28, <1>29, <1>30, <1>31,
     <1>32, <1>33, <1>34, <1>35, <1>36, <1>37, <1>38, <1>39
  DEF Next, Invoking, Answering, Deciding, Sweeping, Cascading, Passing

\* The notices of approve_reply, answer_as_owner, deny, expire_once and the
\* sweep stay true, and an agent is told two of them about one call only where
\* a draft was rejected (deny) of a call that expired.
THEOREM NoticesAreTrue == Spec => []NoticesAgree
<1>1. Init => NoticesTrue
  BY DEF Init, NoticesTrue, NoticesTrueOf
<1>2. IInv /\ NoticesTrue /\ [Next]_vars => NoticesTrue'
  BY NoticesStep DEF NoticesTrue
<1> QED
  BY <1>1, <1>2, Invariant, OnePairOfEnds, PTL DEF Spec

----------------------------------------------------------------------------
(* Standing consents *)

CoveredBy(k) == {i \in Ids : coveredBy[i] = k}

\* A consent is as old as the approval of its own request.
ConsentFromApproval ==
    \A k \in Ids : consent[k] # "none" => gate[k] = "approved"

\* What a consent covers was approved, and the consent exists.
CoveredWasApproved ==
    \A i \in Ids : coveredBy[i] # NoConsent =>
        gate[i] = "approved" /\ consent[coveredBy[i]] # "none"

\* The use count is the number of requests covered, and within the terms.
UsesCounted ==
    \A k \in Ids :
        /\ IsFiniteSet(CoveredBy(k))
        /\ used[k] = Cardinality(CoveredBy(k))
        /\ consent[k] # "none" => maxUses[k] = Unlimited \/ used[k] <= maxUses[k]

\* A pair has one live consent: approve revokes the one it replaces.
OneLiveConsent ==
    \A j, k \in Ids : consent[j] = "live" /\ consent[k] = "live" => j = k

ConsentInv ==
    /\ ConsentFromApproval
    /\ CoveredWasApproved
    /\ UsesCounted
    /\ OneLiveConsent

\* Covering one more request, not covered before, counts one more.
LEMMA OneMoreCovered ==
    ASSUME NEW i \in Ids, NEW k \in Ids, UsesCounted,
           coveredBy \in [Ids -> Ids \cup {NoConsent}], coveredBy[i] = NoConsent,
           coveredBy' = [coveredBy EXCEPT ![i] = k]
    PROVE  /\ \A j \in Ids \ {k} : CoveredBy(j)' = CoveredBy(j)
           /\ IsFiniteSet(CoveredBy(k)')
           /\ Cardinality(CoveredBy(k)') = Cardinality(CoveredBy(k)) + 1
<1>1. CoveredBy(k)' = CoveredBy(k) \cup {i} /\ i \notin CoveredBy(k)
  BY ConstantsAssumption DEF CoveredBy
<1>2. \A j \in Ids \ {k} : CoveredBy(j)' = CoveredBy(j)
  BY ConstantsAssumption DEF CoveredBy
<1> QED
  BY <1>1, <1>2, FS_AddElement DEF UsesCounted

\* Where no consent was given or used, the counts stay.
LEMMA SameCovered ==
    ASSUME UsesCounted, UNCHANGED <<coveredBy, used, maxUses>>,
           \A k \in Ids : consent[k]' # "none" => consent[k] # "none"
    PROVE  UsesCounted'
<1>1. \A k : CoveredBy(k)' = CoveredBy(k)
  BY DEF CoveredBy
<1> QED
  BY <1>1 DEF UsesCounted, Unlimited

\* Every step keeps the counts and the one live consent.
LEMMA ConsentStep ==
    ASSUME IInv, ConsentInv, [Next]_vars PROVE ConsentInv'
<1> USE ConstantsAssumption, SameCovered
    DEF IInv, TypeOK, RowInv, AuthorizedHasNoRow, UnqueuedUntouched,
        HeldExactlyWhileAsked, ConsentInv, ConsentFromApproval,
        CoveredWasApproved, OneLiveConsent, vars, agentVars, rowVars, gateVars,
        draftVars, consentVars, requestVars
<1>1. ASSUME NEW i \in Ids, Authorize(i) PROVE ConsentInv'
  BY <1>1 DEF Authorize
<1>2. ASSUME NEW i \in Ids, Refuse(i) PROVE ConsentInv'
  BY <1>2 DEF Refuse
<1>3. ASSUME NEW i \in Ids, TurnAway(i) PROVE ConsentInv'
  BY <1>3 DEF TurnAway
<1>4. ASSUME NEW i \in Ids, Enqueue(i) PROVE ConsentInv'
  BY <1>4 DEF Enqueue, Queue
<1>5. ASSUME NEW i \in Ids, NEW t \in Terms, EnqueueHeld(i, t)
      PROVE ConsentInv'
  BY <1>5 DEF EnqueueHeld, Tell
<1>6. ASSUME NEW i \in Ids, NEW t \in Terms, NEW k \in Ids, EnqueueCovered(i, t, k)
      PROVE ConsentInv'
  <2>1. /\ coveredBy[i] = NoConsent
        /\ coveredBy' = [coveredBy EXCEPT ![i] = k]
        /\ used' = [used EXCEPT ![k] = @ + 1]
        /\ UNCHANGED <<consent, maxUses>>
    BY <1>6 DEF EnqueueCovered, Queue
  <2>2. maxUses[k] = Unlimited \/ used[k] + 1 <= maxUses[k]
    BY <1>6 DEF EnqueueCovered, Covering, LiveConsents, Terms, Once, Unlimited
  <2>3. UsesCounted'
    <3>1. /\ IsFiniteSet(CoveredBy(k)')
          /\ Cardinality(CoveredBy(k)') = Cardinality(CoveredBy(k)) + 1
          /\ \A j \in Ids \ {k} : CoveredBy(j)' = CoveredBy(j)
      BY <2>1, OneMoreCovered
    <3> QED
      BY <2>1, <2>2, <3>1 DEF UsesCounted, Unlimited
  <2>4. gate' = [gate EXCEPT ![i] = "approved"] /\ consent[k] = "live"
    BY <1>6 DEF EnqueueCovered, Covering, LiveConsents
  <2>5. ConsentFromApproval'
    BY <2>1, <2>4
  <2>6. CoveredWasApproved'
    BY <2>1, <2>4
  <2>7. OneLiveConsent'
    BY <2>1
  <2> QED
    BY <2>3, <2>5, <2>6, <2>7
<1>7. ASSUME NEW i \in Ids, Claim(i) PROVE ConsentInv'
  BY <1>7 DEF Claim, Claimable, ClaimLease
<1>8. ASSUME NEW i \in Ids, ReleaseClaim(i) PROVE ConsentInv'
  BY <1>8 DEF ReleaseClaim
<1>9. ASSUME NEW i \in Ids, NEW a \in Answers, SubmitResult(i, a)
      PROVE ConsentInv'
  BY <1>9 DEF SubmitResult, ReplyKind, Requests
<1>10. ASSUME NEW i \in Ids, NEW a \in Answers, SubmitAsOwner(i, a)
      PROVE ConsentInv'
  BY <1>10 DEF SubmitAsOwner, Requests
<1>11. ASSUME NEW r \in inFlight, DropResult(r) PROVE ConsentInv'
  BY <1>11 DEF DropResult
<1>12. ASSUME NEW r \in inFlight, FinishResult(r) PROVE ConsentInv'
  BY <1>12 DEF FinishResult, TakesResult, AnswerStatus, Requests
<1>13. ASSUME NEW r \in inFlight, StoreDraft(r) PROVE ConsentInv'
  BY <1>13 DEF StoreDraft, Requests
<1>14. ASSUME NEW r \in inFlight, AnswerAsOwner(r) PROVE ConsentInv'
  BY <1>14 DEF AnswerAsOwner, AnswerStatus, Requests, Tell
<1>15. ASSUME NEW i \in Ids, ShowDraft(i) PROVE ConsentInv'
  BY <1>15 DEF ShowDraft
<1>16. ASSUME NEW i \in Ids, ApproveReply(i) PROVE ConsentInv'
  BY <1>16
  DEF ApproveReply, DecidableDraft, DraftAsShown, Releases, AnswerStatus,
      Tell
<1>17. ASSUME NEW i \in Ids, DenyReply(i) PROVE ConsentInv'
  BY <1>17 DEF DenyReply, DecidableDraft, Tell
<1>18. ASSUME NEW i \in Ids, NEW t \in Terms, ApproveRequest(i, t)
      PROVE ConsentInv'
  <2>1. consent[i] = "none" /\ coveredBy[i] = NoConsent
    BY <1>18 DEF ApproveRequest, DecidableGate
  <2>2. gate' = [gate EXCEPT ![i] = "approved"]
    BY <1>18 DEF ApproveRequest
  <2>3. CASE IsStanding(t)
    <3>1. /\ coveredBy' = [coveredBy EXCEPT ![i] = i]
          /\ used' = [used EXCEPT ![i] = 1]
          /\ maxUses' = [maxUses EXCEPT ![i] = t]
      BY <1>18, <2>3 DEF ApproveRequest
    <3>2. consent' = [Put(consent, LiveConsents, "revoked") EXCEPT ![i] = "live"]
      BY <1>18, <2>3 DEF ApproveRequest
    <3>3. /\ consent'[i] = "live"
          /\ \A k \in Ids \ {i} :
                /\ consent'[k] # "live"
                /\ consent'[k] = "none" <=> consent[k] = "none"
      BY <3>2 DEF Put, LiveConsents
    <3>4. CoveredBy(i) = {}
      BY <2>1 DEF CoveredBy
    <3>5. 1 <= t
      BY <2>3 DEF IsStanding, Terms, Once, Unlimited
    <3>6. /\ IsFiniteSet(CoveredBy(i)')
          /\ Cardinality(CoveredBy(i)') = Cardinality(CoveredBy(i)) + 1
          /\ \A k \in Ids \ {i} : CoveredBy(k)' = CoveredBy(k)
      BY <2>1, <3>1, OneMoreCovered
    <3>7. UsesCounted'
      BY <3>1, <3>3, <3>4, <3>5, <3>6, FS_EmptySet DEF UsesCounted, Unlimited
    <3>8. ConsentFromApproval'
      BY <2>2, <3>3
    <3>9. CoveredWasApproved'
      BY <2>2, <3>1, <3>3
    <3>10. OneLiveConsent'
      BY <3>3
    <3> QED
      BY <3>7, <3>8, <3>9, <3>10
  <2>4. CASE ~IsStanding(t)
    <3>1. UNCHANGED <<consent, maxUses, used, coveredBy>>
      BY <1>18, <2>4 DEF ApproveRequest
    <3> QED
      BY <2>2, <3>1
  <2> QED
    BY <2>3, <2>4
<1>19. ASSUME NEW i \in Ids, CancelUnauthorized(i) PROVE ConsentInv'
  BY <1>19 DEF CancelUnauthorized, DecidableGate, CloseRequest
<1>20. ASSUME NEW i \in Ids, DenyRequest(i) PROVE ConsentInv'
  BY <1>20 DEF DenyRequest, DecidableGate, CloseRequest
<1>21. ASSUME NEW i \in Ids, RevokeConsent(i) PROVE ConsentInv'
  BY <1>21 DEF RevokeConsent
<1>22. ASSUME NEW i \in Ids, ExpireRequest(i) PROVE ConsentInv'
  BY <1>22 DEF ExpireRequest
<1>23. ASSUME NEW i \in Ids, ExpireDraft(i) PROVE ConsentInv'
  BY <1>23 DEF ExpireDraft, Tell
<1>24. ASSUME NEW i \in Ids, Backfill(i) PROVE ConsentInv'
  BY <1>24 DEF Backfill
<1>25. ASSUME NEW i \in Ids, SweepDeadline(i) PROVE ConsentInv'
  BY <1>25 DEF SweepDeadline, Tell
<1>26. ASSUME NEW i \in Ids, SweepLease(i) PROVE ConsentInv'
  BY <1>26 DEF SweepLease, OutOfClaims, Tell
<1>27. ASSUME RevokeGrant PROVE ConsentInv'
  BY <1>27 DEF RevokeGrant, Put, PendingGates, PendingDrafts
<1>28. ASSUME DeleteCapability PROVE ConsentInv'
  BY <1>28
  DEF DeleteCapability, CancelPending, Put, PendingGates, PendingDrafts,
      Held, LiveConsents
<1>29. ASSUME PurgeCall PROVE ConsentInv'
  BY <1>29 DEF PurgeCall, Put, PendingGates, PendingDrafts, Held
<1>30. ASSUME NEW agent \in Agents, DeleteAgent(agent) PROVE ConsentInv'
  BY <1>30
  DEF DeleteAgent, CancelPending, Put, PendingGates, PendingDrafts, Held,
      LiveConsents
<1>31. ASSUME NEW s \in Semantics, NEW b \in ConsentSettings,
             NEW p \in PublicSettings, UpdateCapability(s, b, p)
      PROVE ConsentInv'
  BY <1>31 DEF UpdateCapability
<1>32. ASSUME GrantRunsOut PROVE ConsentInv'
  BY <1>32 DEF GrantRunsOut
<1>33. ASSUME NEW i \in Ids, LeaseRunsOut(i) PROVE ConsentInv'
  BY <1>33 DEF LeaseRunsOut
<1>34. ASSUME NEW i \in Ids, DeadlineRunsOut(i) PROVE ConsentInv'
  BY <1>34 DEF DeadlineRunsOut
<1>35. ASSUME NEW i \in Ids, GateWaitRunsOut(i) PROVE ConsentInv'
  BY <1>35 DEF GateWaitRunsOut
<1>36. ASSUME NEW i \in Ids, DraftWaitRunsOut(i) PROVE ConsentInv'
  BY <1>36 DEF DraftWaitRunsOut
<1>37. ASSUME NEW i \in Ids, ConsentRunsOut(i) PROVE ConsentInv'
  BY <1>37 DEF ConsentRunsOut
<1>38. ASSUME NEW i \in Ids, AuthorizePublic(i) PROVE ConsentInv'
  BY <1>38 DEF AuthorizePublic
<1>39. CASE UNCHANGED vars
  BY <1>39
<1> HIDE DEF IInv, ConsentInv, vars
<1> QED
  BY <1>1, <1>2, <1>3, <1>4, <1>5, <1>6, <1>7, <1>8, <1>9, <1>10, <1>11,
     <1>12, <1>13, <1>14, <1>15, <1>16, <1>17, <1>18, <1>19, <1>20, <1>21,
     <1>22, <1>23, <1>24, <1>25, <1>26, <1>27, <1>28, <1>29, <1>30, <1>31,
     <1>32, <1>33, <1>34, <1>35, <1>36, <1>37, <1>38, <1>39
  DEF Next, Invoking, Answering, Deciding, Sweeping, Cascading, Passing

\* What a standing consent covers was approved and is counted as its uses, and
\* a pair has one live consent.
THEOREM ConsentInvariant == Spec => []ConsentInv
<1>1. Init => ConsentInv
  <2> SUFFICES ASSUME Init PROVE ConsentInv
    OBVIOUS
  <2>1. \A k \in Ids : CoveredBy(k) = {}
    BY ConstantsAssumption DEF Init, CoveredBy
  <2>2. UsesCounted
    BY <2>1, FS_EmptySet DEF Init, UsesCounted
  <2> QED
    BY <2>2 DEF Init, ConsentInv, ConsentFromApproval, CoveredWasApproved,
                OneLiveConsent
<1>2. IInv /\ ConsentInv /\ [Next]_vars => ConsentInv'
  BY ConsentStep
<1> QED
  BY <1>1, <1>2, Invariant, PTL DEF Spec

\* A standing consent covers no more than its approver allowed, counts every
\* request it covers, and is the pair's only live one, for any number of
\* requests: the `used` CTE and approve keep the count with the row.
THEOREM ConsentsAreBounded == Spec => []ConsentWithinLimits
<1>1. ConsentInv => ConsentWithinLimits
  <2> SUFFICES ASSUME ConsentInv PROVE ConsentWithinLimits
    OBVIOUS
  <2>1. Cardinality(LiveConsents) <= 1
    <3>1. CASE LiveConsents = {}
      BY <3>1, FS_EmptySet
    <3>2. ASSUME NEW k \in LiveConsents PROVE Cardinality(LiveConsents) <= 1
      <4>1. LiveConsents = {k}
        BY DEF LiveConsents, ConsentInv, OneLiveConsent
      <4> QED
        BY <4>1, FS_Singleton
    <3> QED
      BY <3>1, <3>2
  <2> QED
    BY <2>1 DEF ConsentInv, UsesCounted, CoveredBy, ConsentWithinLimits
<1> QED
  BY <1>1, ConsentInvariant, PTL
=============================================================================

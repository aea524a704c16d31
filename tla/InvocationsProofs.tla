------------------------- MODULE InvocationsProofs -------------------------
(***************************************************************************)
(* Proofs about Invocations, for every set of ids and answers, every bound *)
(* and every setting of the capability.                                    *)
(*                                                                         *)
(* The argument: IInv is TypeOK, three of the properties themselves, and   *)
(* four facts about a row they need to be inductive.  A claim bound does   *)
(* not survive queueing a row that was claimed before; being held and      *)
(* being asked end together only because an invoke that passed its checks  *)
(* has no row yet; one charge per row only because a row that may still be *)
(* queued has none.                                                        *)
(***************************************************************************)
EXTENDS Invocations, TLAPS

----------------------------------------------------------------------------
(* The inductive invariant *)

\* Between its checks and its write, an invoke has no row.
AuthorizedHasNoRow == \A i \in Ids : authorized[i] # "no" => status[i] = "none"

\* What was not queued yet was neither charged nor claimed, and what has no
\* row was never asked about.
UnqueuedUntouched ==
    \A i \in Ids :
        /\ status[i] \in {"none", "awaiting_consent"} =>
              charges[i] = 0 /\ deliveries[i] = 0
        /\ status[i] = "none" => gate[i] = "none"

\* What was never charged was never claimed or answered.
UnchargedUntouched ==
    \A i \in Ids : charges[i] = 0 => deliveries[i] = 0 /\ answer[i] = NoAnswer

\* Only a settled invocation has an answer.
AnsweredIsSettled ==
    \A i \in Ids : answer[i] # NoAnswer => status[i] \in Settled

RowInv ==
    /\ AuthorizedHasNoRow
    /\ UnqueuedUntouched
    /\ UnchargedUntouched
    /\ AnsweredIsSettled
    /\ HeldExactlyWhileAsked
    /\ ChargedOnceQueued
    /\ ClaimsBounded

IInv == TypeOK /\ RowInv

\* Every step keeps the types; claims stay in range because a row waiting for
\* a claim has one left.
LEMMA TypeStep == ASSUME TypeOK, ClaimsBounded, [Next]_vars PROVE TypeOK'
<1> USE ConstantsAssumption
    DEF TypeOK, ClaimsBounded, vars, agentVars, rowVars, gateVars, draftVars,
        consentVars, requestVars, Open, Answered, Settled, Statuses,
        RequestStatuses, Timers, Agents, NoticeKinds, Once, Unlimited, Terms
<1>1. ASSUME NEW i \in Ids, Authorize(i) PROVE TypeOK'
  BY <1>1 DEF Authorize
<1>2. ASSUME NEW i \in Ids, Refuse(i) PROVE TypeOK'
  BY <1>2 DEF Refuse
<1>3. ASSUME NEW i \in Ids, TurnAway(i) PROVE TypeOK'
  BY <1>3 DEF TurnAway
<1>4. ASSUME NEW i \in Ids, Enqueue(i) PROVE TypeOK'
  BY <1>4 DEF Enqueue, Queue
<1>5. ASSUME NEW i \in Ids, NEW t \in Terms, EnqueueHeld(i, t) PROVE TypeOK'
  BY <1>5 DEF EnqueueHeld, Tell
<1>6. ASSUME NEW i \in Ids, NEW t \in Terms, NEW k \in Ids, EnqueueCovered(i, t, k)
      PROVE TypeOK'
  BY <1>6 DEF EnqueueCovered, Queue
<1>7. ASSUME NEW i \in Ids, Claim(i) PROVE TypeOK'
  BY <1>7 DEF Claim, Claimable, ClaimLease
<1>8. ASSUME NEW i \in Ids, ReleaseClaim(i) PROVE TypeOK'
  BY <1>8 DEF ReleaseClaim
<1>9. ASSUME NEW i \in Ids, NEW a \in Answers, SubmitResult(i, a)
      PROVE TypeOK'
  BY <1>9 DEF SubmitResult, ReplyKind, Requests
<1>10. ASSUME NEW i \in Ids, NEW a \in Answers, SubmitAsOwner(i, a)
      PROVE TypeOK'
  BY <1>10 DEF SubmitAsOwner, Requests
<1>11. ASSUME NEW r \in inFlight, DropResult(r) PROVE TypeOK'
  BY <1>11 DEF DropResult
<1>12. ASSUME NEW r \in inFlight, FinishResult(r) PROVE TypeOK'
  <2>1. r.id \in Ids /\ r.answer \in Answers
    BY DEF Requests
  <2>2. AnswerStatus(r.answer) \in Statuses
    BY DEF AnswerStatus
  <2>3. inFlight' \subseteq Requests
    BY <1>12 DEF FinishResult
  <2>4. QED
    BY <1>12, <2>1, <2>2, <2>3 DEF FinishResult
<1>13. ASSUME NEW r \in inFlight, StoreDraft(r) PROVE TypeOK'
  BY <1>13 DEF StoreDraft, Requests
<1>14. ASSUME NEW r \in inFlight, AnswerAsOwner(r) PROVE TypeOK'
  <2> DEFINE i == r.id
  <2>1. i \in Ids /\ r.answer \in Answers
    BY <1>14 DEF Requests, AnswerAsOwner
  <2>2. AnswerStatus(r.answer) \in Statuses
    BY DEF AnswerStatus
  <2>3. status[i] = "pending" => deliveries[i] + 1 \in 0 .. MaxDeliveries
    BY <2>1
  <2>4. deliveries' \in [Ids -> 0 .. MaxDeliveries]
    BY <1>14, <2>1, <2>3 DEF AnswerAsOwner
  <2>5. notices' \subseteq NoticeKinds \X Ids
    BY <1>14, <2>1 DEF AnswerAsOwner, Tell
  <2>6. inFlight' \subseteq Requests
    BY <1>14 DEF AnswerAsOwner
  <2>7. /\ status' \in [Ids -> Statuses]
        /\ answer' \in [Ids -> Answers \cup {NoAnswer}]
    BY <1>14, <2>1, <2>2 DEF AnswerAsOwner
  <2>8. /\ draft' \in [Ids -> RequestStatuses]
        /\ draftAnswer' \in [Ids -> Answers \cup {NoAnswer}]
        /\ shown' \in [Ids -> Answers \cup {NoAnswer}]
    BY <1>14, <2>1 DEF AnswerAsOwner
  <2>9. UNCHANGED <<agentVars, lease, deadline, charges, gateVars, draftWait,
                    consentVars, authorized>>
    BY <1>14 DEF AnswerAsOwner
  <2>10. QED
    BY <2>4, <2>5, <2>6, <2>7, <2>8, <2>9
<1>15. ASSUME NEW i \in Ids, ShowDraft(i) PROVE TypeOK'
  BY <1>15 DEF ShowDraft
<1>16. ASSUME NEW i \in Ids, ApproveReply(i) PROVE TypeOK'
  BY <1>16
  DEF ApproveReply, DecidableDraft, DraftAsShown, Releases, AnswerStatus,
      Tell
<1>17. ASSUME NEW i \in Ids, DenyReply(i) PROVE TypeOK'
  BY <1>17 DEF DenyReply, DecidableDraft, Tell
<1>18. ASSUME NEW i \in Ids, NEW t \in Terms, ApproveRequest(i, t)
      PROVE TypeOK'
  <2>0. Put(consent, LiveConsents, "revoked") \in
        [Ids -> {"none", "live", "revoked"}]
    BY DEF Put
  <2>1. consent' \in [Ids -> {"none", "live", "revoked"}]
    BY <1>18, <2>0 DEF ApproveRequest
  <2>2. maxUses' \in [Ids -> Terms]
    BY <1>18 DEF ApproveRequest
  <2>3. used' \in [Ids -> Nat]
    BY <1>18 DEF ApproveRequest
  <2>4. coveredBy' \in [Ids -> Ids \cup {NoConsent}]
    BY <1>18 DEF ApproveRequest
  <2>5. charges' \in [Ids -> Nat] /\ status' \in [Ids -> Statuses]
    BY <1>18 DEF ApproveRequest, Queue
  <2>6. QED
    BY <1>18, <2>1, <2>2, <2>3, <2>4, <2>5 DEF ApproveRequest
<1>19. ASSUME NEW i \in Ids, CancelUnauthorized(i) PROVE TypeOK'
  BY <1>19 DEF CancelUnauthorized, DecidableGate, CloseRequest
<1>20. ASSUME NEW i \in Ids, DenyRequest(i) PROVE TypeOK'
  BY <1>20 DEF DenyRequest, DecidableGate, CloseRequest
<1>21. ASSUME NEW i \in Ids, RevokeConsent(i) PROVE TypeOK'
  BY <1>21 DEF RevokeConsent
<1>22. ASSUME NEW i \in Ids, ExpireRequest(i) PROVE TypeOK'
  BY <1>22 DEF ExpireRequest
<1>23. ASSUME NEW i \in Ids, ExpireDraft(i) PROVE TypeOK'
  BY <1>23 DEF ExpireDraft, Tell
<1>24. ASSUME NEW i \in Ids, Backfill(i) PROVE TypeOK'
  BY <1>24 DEF Backfill
<1>25. ASSUME NEW i \in Ids, SweepDeadline(i) PROVE TypeOK'
  BY <1>25 DEF SweepDeadline, Tell
<1>26. ASSUME NEW i \in Ids, SweepLease(i) PROVE TypeOK'
  BY <1>26 DEF SweepLease, OutOfClaims, Tell
<1>27. ASSUME RevokeGrant PROVE TypeOK'
  BY <1>27 DEF RevokeGrant, Put, PendingGates, PendingDrafts
<1>28. ASSUME DeleteCapability PROVE TypeOK'
  BY <1>28
  DEF DeleteCapability, CancelPending, Put, PendingGates, PendingDrafts,
      Held, LiveConsents
<1>29. ASSUME PurgeCall PROVE TypeOK'
  BY <1>29 DEF PurgeCall, Put, PendingGates, PendingDrafts, Held
<1>30. ASSUME NEW agent \in Agents, DeleteAgent(agent) PROVE TypeOK'
  BY <1>30
  DEF DeleteAgent, CancelPending, Put, PendingGates, PendingDrafts, Held,
      LiveConsents
<1>31. ASSUME NEW s \in Semantics, NEW b \in ConsentSettings,
             NEW p \in PublicSettings, UpdateCapability(s, b, p)
      PROVE TypeOK'
  BY <1>31 DEF UpdateCapability
<1>32. ASSUME GrantRunsOut PROVE TypeOK'
  BY <1>32 DEF GrantRunsOut
<1>33. ASSUME NEW i \in Ids, LeaseRunsOut(i) PROVE TypeOK'
  BY <1>33 DEF LeaseRunsOut
<1>34. ASSUME NEW i \in Ids, DeadlineRunsOut(i) PROVE TypeOK'
  BY <1>34 DEF DeadlineRunsOut
<1>35. ASSUME NEW i \in Ids, GateWaitRunsOut(i) PROVE TypeOK'
  BY <1>35 DEF GateWaitRunsOut
<1>36. ASSUME NEW i \in Ids, DraftWaitRunsOut(i) PROVE TypeOK'
  BY <1>36 DEF DraftWaitRunsOut
<1>37. ASSUME NEW i \in Ids, ConsentRunsOut(i) PROVE TypeOK'
  BY <1>37 DEF ConsentRunsOut
<1>38. ASSUME NEW i \in Ids, AuthorizePublic(i) PROVE TypeOK'
  BY <1>38 DEF AuthorizePublic
<1>39. CASE UNCHANGED vars
  BY <1>39
<1> HIDE DEF TypeOK, ClaimsBounded, Terms, vars
<1> QED
  BY <1>1, <1>2, <1>3, <1>4, <1>5, <1>6, <1>7, <1>8, <1>9, <1>10, <1>11,
     <1>12, <1>13, <1>14, <1>15, <1>16, <1>17, <1>18, <1>19, <1>20, <1>21,
     <1>22, <1>23, <1>24, <1>25, <1>26, <1>27, <1>28, <1>29, <1>30, <1>31,
     <1>32, <1>33, <1>34, <1>35, <1>36, <1>37, <1>38, <1>39
  DEF Next, Invoking, Answering, Deciding, Sweeping, Cascading, Passing

\* Every step keeps the facts about rows.
LEMMA RowStep == ASSUME TypeOK, TypeOK', RowInv, [Next]_vars PROVE RowInv'
<1> USE ConstantsAssumption
    DEF TypeOK, RowInv, AuthorizedHasNoRow, UnqueuedUntouched,
        UnchargedUntouched, AnsweredIsSettled, HeldExactlyWhileAsked,
        ChargedOnceQueued, ClaimsBounded, vars, agentVars, rowVars, gateVars,
        draftVars, consentVars, requestVars, Open, Answered, Settled, Statuses,
        RequestStatuses
<1>1. ASSUME NEW i \in Ids, Authorize(i) PROVE RowInv'
  BY <1>1 DEF Authorize
<1>2. ASSUME NEW i \in Ids, Refuse(i) PROVE RowInv'
  BY <1>2 DEF Refuse
<1>3. ASSUME NEW i \in Ids, TurnAway(i) PROVE RowInv'
  BY <1>3 DEF TurnAway
<1>4. ASSUME NEW i \in Ids, Enqueue(i) PROVE RowInv'
  BY <1>4 DEF Enqueue, Queue
<1>5. ASSUME NEW i \in Ids, NEW t \in Terms, EnqueueHeld(i, t) PROVE RowInv'
  BY <1>5 DEF EnqueueHeld, Tell
<1>6. ASSUME NEW i \in Ids, NEW t \in Terms, NEW k \in Ids, EnqueueCovered(i, t, k)
      PROVE RowInv'
  BY <1>6 DEF EnqueueCovered, Queue
<1>7. ASSUME NEW i \in Ids, Claim(i) PROVE RowInv'
  BY <1>7 DEF Claim, Claimable, ClaimLease
<1>8. ASSUME NEW i \in Ids, ReleaseClaim(i) PROVE RowInv'
  BY <1>8 DEF ReleaseClaim
<1>9. ASSUME NEW i \in Ids, NEW a \in Answers, SubmitResult(i, a)
      PROVE RowInv'
  BY <1>9 DEF SubmitResult, ReplyKind, Requests
<1>10. ASSUME NEW i \in Ids, NEW a \in Answers, SubmitAsOwner(i, a)
      PROVE RowInv'
  BY <1>10 DEF SubmitAsOwner, Requests
<1>11. ASSUME NEW r \in inFlight, DropResult(r) PROVE RowInv'
  BY <1>11 DEF DropResult
<1>12. ASSUME NEW r \in inFlight, FinishResult(r) PROVE RowInv'
  BY <1>12 DEF FinishResult, TakesResult, AnswerStatus, Requests
<1>13. ASSUME NEW r \in inFlight, StoreDraft(r) PROVE RowInv'
  BY <1>13 DEF StoreDraft, Requests
<1>14. ASSUME NEW r \in inFlight, AnswerAsOwner(r) PROVE RowInv'
  BY <1>14 DEF AnswerAsOwner, AnswerStatus, Requests, Tell
<1>15. ASSUME NEW i \in Ids, ShowDraft(i) PROVE RowInv'
  BY <1>15 DEF ShowDraft
<1>16. ASSUME NEW i \in Ids, ApproveReply(i) PROVE RowInv'
  BY <1>16
  DEF ApproveReply, DecidableDraft, DraftAsShown, Releases, AnswerStatus,
      Tell
<1>17. ASSUME NEW i \in Ids, DenyReply(i) PROVE RowInv'
  BY <1>17 DEF DenyReply, DecidableDraft, Tell
<1>18. ASSUME NEW i \in Ids, NEW t \in Terms, ApproveRequest(i, t)
      PROVE RowInv'
  BY <1>18 DEF ApproveRequest, DecidableGate, Queue, Put, LiveConsents
<1>19. ASSUME NEW i \in Ids, CancelUnauthorized(i) PROVE RowInv'
  BY <1>19 DEF CancelUnauthorized, DecidableGate, CloseRequest
<1>20. ASSUME NEW i \in Ids, DenyRequest(i) PROVE RowInv'
  BY <1>20 DEF DenyRequest, DecidableGate, CloseRequest
<1>21. ASSUME NEW i \in Ids, RevokeConsent(i) PROVE RowInv'
  BY <1>21 DEF RevokeConsent
<1>22. ASSUME NEW i \in Ids, ExpireRequest(i) PROVE RowInv'
  BY <1>22 DEF ExpireRequest
<1>23. ASSUME NEW i \in Ids, ExpireDraft(i) PROVE RowInv'
  BY <1>23 DEF ExpireDraft, Tell
<1>24. ASSUME NEW i \in Ids, Backfill(i) PROVE RowInv'
  BY <1>24 DEF Backfill
<1>25. ASSUME NEW i \in Ids, SweepDeadline(i) PROVE RowInv'
  BY <1>25 DEF SweepDeadline, Tell
<1>26. ASSUME NEW i \in Ids, SweepLease(i) PROVE RowInv'
  BY <1>26 DEF SweepLease, OutOfClaims, Tell
<1>27. ASSUME RevokeGrant PROVE RowInv'
  BY <1>27 DEF RevokeGrant, Put, PendingGates, PendingDrafts
<1>28. ASSUME DeleteCapability PROVE RowInv'
  BY <1>28
  DEF DeleteCapability, CancelPending, Put, PendingGates, PendingDrafts,
      Held, LiveConsents
<1>29. ASSUME PurgeCall PROVE RowInv'
  BY <1>29 DEF PurgeCall, Put, PendingGates, PendingDrafts, Held
<1>30. ASSUME NEW agent \in Agents, DeleteAgent(agent) PROVE RowInv'
  BY <1>30
  DEF DeleteAgent, CancelPending, Put, PendingGates, PendingDrafts, Held,
      LiveConsents
<1>31. ASSUME NEW s \in Semantics, NEW b \in ConsentSettings,
             NEW p \in PublicSettings, UpdateCapability(s, b, p)
      PROVE RowInv'
  BY <1>31 DEF UpdateCapability
<1>32. ASSUME GrantRunsOut PROVE RowInv'
  BY <1>32 DEF GrantRunsOut
<1>33. ASSUME NEW i \in Ids, LeaseRunsOut(i) PROVE RowInv'
  BY <1>33 DEF LeaseRunsOut
<1>34. ASSUME NEW i \in Ids, DeadlineRunsOut(i) PROVE RowInv'
  BY <1>34 DEF DeadlineRunsOut
<1>35. ASSUME NEW i \in Ids, GateWaitRunsOut(i) PROVE RowInv'
  BY <1>35 DEF GateWaitRunsOut
<1>36. ASSUME NEW i \in Ids, DraftWaitRunsOut(i) PROVE RowInv'
  BY <1>36 DEF DraftWaitRunsOut
<1>37. ASSUME NEW i \in Ids, ConsentRunsOut(i) PROVE RowInv'
  BY <1>37 DEF ConsentRunsOut
<1>38. ASSUME NEW i \in Ids, AuthorizePublic(i) PROVE RowInv'
  BY <1>38 DEF AuthorizePublic
<1>39. CASE UNCHANGED vars
  BY <1>39
<1> HIDE DEF TypeOK, RowInv, vars
<1> QED
  BY <1>1, <1>2, <1>3, <1>4, <1>5, <1>6, <1>7, <1>8, <1>9, <1>10, <1>11,
     <1>12, <1>13, <1>14, <1>15, <1>16, <1>17, <1>18, <1>19, <1>20, <1>21,
     <1>22, <1>23, <1>24, <1>25, <1>26, <1>27, <1>28, <1>29, <1>30, <1>31,
     <1>32, <1>33, <1>34, <1>35, <1>36, <1>37, <1>38, <1>39
  DEF Next, Invoking, Answering, Deciding, Sweeping, Cascading, Passing

\* Rows from before deadlines existed satisfy it too.
LEMMA InitInv == ASSUME Init PROVE IInv
<1> USE ConstantsAssumption DEF Init, InitLegacy, Open, Answered, Settled,
        Statuses, RequestStatuses, Timers, Agents, NoticeKinds, Once,
        Unlimited, Terms, Requests
<1>1. TypeOK
  BY DEF TypeOK
<1>2. RowInv
  BY DEF RowInv, AuthorizedHasNoRow, UnqueuedUntouched, UnchargedUntouched,
         AnsweredIsSettled, HeldExactlyWhileAsked, ChargedOnceQueued,
         ClaimsBounded
<1> QED
  BY <1>1, <1>2 DEF IInv

\* Whatever callers, workers, owners, sweeps and cascades do to a row, in any
\* order, IInv holds.
THEOREM Invariant == Spec => []IInv
<1>1. Init => IInv
  BY InitInv
<1>2. IInv /\ [Next]_vars => IInv'
  BY TypeStep, RowStep DEF IInv, RowInv
<1> QED
  BY <1>1, <1>2, PTL DEF Spec

----------------------------------------------------------------------------
(* The properties the runs check, for every instance *)

\* Every column keeps its values, however the two workers, the owner and the
\* cascades interleave.
THEOREM TypeCorrect == Spec => []TypeOK
BY Invariant, PTL DEF IInv

\* An invocation is held exactly while its consent request waits: the code
\* that ends one (decide, expire_once, revoke, cascade) always ends the other.
THEOREM HeldWhileAsked == Spec => []HeldExactlyWhileAsked
<1>1. IInv => HeldExactlyWhileAsked
  BY DEF IInv, RowInv
<1> QED
  BY <1>1, Invariant, PTL

\* A row queues one charge, when it enters the queue: by the insert, by the
\* covered insert or by approve, never by two of them.
THEOREM ChargedOnce == Spec => []ChargedOnceQueued
<1>1. IInv => ChargedOnceQueued
  BY DEF IInv, RowInv
<1> QED
  BY <1>1, Invariant, PTL

\* claim, release_claim and the lease sweep together never hand a row out
\* more than MaxDeliveries times.
THEOREM ClaimsAreBounded == Spec => []ClaimsBounded
<1>1. IInv => ClaimsBounded
  BY DEF IInv, RowInv
<1> QED
  BY <1>1, Invariant, PTL

\* No worker gets an invocation its owner was asked about and has not allowed.
THEOREM NeverUnapproved == Spec => []NeverDeliveredUnapproved
<1>1. IInv => NeverDeliveredUnapproved
  BY DEF IInv, RowInv, TypeOK, UnchargedUntouched, ChargedOnceQueued,
         RequestStatuses, NeverDeliveredUnapproved
<1> QED
  BY <1>1, Invariant, PTL

\* What one step may do to a settled invocation.
SettledStay ==
    \A i \in Ids : status[i] \in Settled =>
        /\ status'[i] = status[i]
        /\ answer'[i] \in {answer[i], NoAnswer}

\* No action moves a settled row: each reads its status in the same step.
LEMMA SettledStep == ASSUME IInv, Next PROVE SettledStay
<1> USE ConstantsAssumption
    DEF IInv, TypeOK, RowInv, AuthorizedHasNoRow, HeldExactlyWhileAsked, vars,
        agentVars, rowVars, gateVars, draftVars, consentVars, requestVars,
        Open, Answered, Settled, SettledStay
<1>1. ASSUME NEW i \in Ids, Authorize(i) PROVE SettledStay
  BY <1>1 DEF Authorize
<1>2. ASSUME NEW i \in Ids, Refuse(i) PROVE SettledStay
  BY <1>2 DEF Refuse
<1>3. ASSUME NEW i \in Ids, TurnAway(i) PROVE SettledStay
  BY <1>3 DEF TurnAway
<1>4. ASSUME NEW i \in Ids, Enqueue(i) PROVE SettledStay
  BY <1>4 DEF Enqueue, Queue
<1>5. ASSUME NEW i \in Ids, NEW t \in Terms, EnqueueHeld(i, t)
      PROVE SettledStay
  BY <1>5 DEF EnqueueHeld, Tell
<1>6. ASSUME NEW i \in Ids, NEW t \in Terms, NEW k \in Ids, EnqueueCovered(i, t, k)
      PROVE SettledStay
  BY <1>6 DEF EnqueueCovered, Queue
<1>7. ASSUME NEW i \in Ids, Claim(i) PROVE SettledStay
  BY <1>7 DEF Claim, Claimable, ClaimLease
<1>8. ASSUME NEW i \in Ids, ReleaseClaim(i) PROVE SettledStay
  BY <1>8 DEF ReleaseClaim
<1>9. ASSUME NEW i \in Ids, NEW a \in Answers, SubmitResult(i, a)
      PROVE SettledStay
  BY <1>9 DEF SubmitResult, ReplyKind, Requests
<1>10. ASSUME NEW i \in Ids, NEW a \in Answers, SubmitAsOwner(i, a)
      PROVE SettledStay
  BY <1>10 DEF SubmitAsOwner, Requests
<1>11. ASSUME NEW r \in inFlight, DropResult(r) PROVE SettledStay
  BY <1>11 DEF DropResult
<1>12. ASSUME NEW r \in inFlight, FinishResult(r) PROVE SettledStay
  BY <1>12 DEF FinishResult, TakesResult, AnswerStatus, Requests
<1>13. ASSUME NEW r \in inFlight, StoreDraft(r) PROVE SettledStay
  BY <1>13 DEF StoreDraft, Requests
<1>14. ASSUME NEW r \in inFlight, AnswerAsOwner(r) PROVE SettledStay
  BY <1>14 DEF AnswerAsOwner, AnswerStatus, Requests, Tell
<1>15. ASSUME NEW i \in Ids, ShowDraft(i) PROVE SettledStay
  BY <1>15 DEF ShowDraft
<1>16. ASSUME NEW i \in Ids, ApproveReply(i) PROVE SettledStay
  BY <1>16
  DEF ApproveReply, DecidableDraft, DraftAsShown, Releases, AnswerStatus,
      Tell
<1>17. ASSUME NEW i \in Ids, DenyReply(i) PROVE SettledStay
  BY <1>17 DEF DenyReply, DecidableDraft, Tell
<1>18. ASSUME NEW i \in Ids, NEW t \in Terms, ApproveRequest(i, t)
      PROVE SettledStay
  BY <1>18 DEF ApproveRequest, DecidableGate, Queue, Put, LiveConsents
<1>19. ASSUME NEW i \in Ids, CancelUnauthorized(i) PROVE SettledStay
  BY <1>19 DEF CancelUnauthorized, DecidableGate, CloseRequest
<1>20. ASSUME NEW i \in Ids, DenyRequest(i) PROVE SettledStay
  BY <1>20 DEF DenyRequest, DecidableGate, CloseRequest
<1>21. ASSUME NEW i \in Ids, RevokeConsent(i) PROVE SettledStay
  BY <1>21 DEF RevokeConsent
<1>22. ASSUME NEW i \in Ids, ExpireRequest(i) PROVE SettledStay
  BY <1>22 DEF ExpireRequest
<1>23. ASSUME NEW i \in Ids, ExpireDraft(i) PROVE SettledStay
  BY <1>23 DEF ExpireDraft, Tell
<1>24. ASSUME NEW i \in Ids, Backfill(i) PROVE SettledStay
  BY <1>24 DEF Backfill
<1>25. ASSUME NEW i \in Ids, SweepDeadline(i) PROVE SettledStay
  BY <1>25 DEF SweepDeadline, Tell
<1>26. ASSUME NEW i \in Ids, SweepLease(i) PROVE SettledStay
  BY <1>26 DEF SweepLease, OutOfClaims, Tell
<1>27. ASSUME RevokeGrant PROVE SettledStay
  BY <1>27 DEF RevokeGrant, Put, PendingGates, PendingDrafts
<1>28. ASSUME DeleteCapability PROVE SettledStay
  BY <1>28
  DEF DeleteCapability, CancelPending, Put, PendingGates, PendingDrafts,
      Held, LiveConsents
<1>29. ASSUME PurgeCall PROVE SettledStay
  BY <1>29 DEF PurgeCall, Put, PendingGates, PendingDrafts, Held
<1>30. ASSUME NEW agent \in Agents, DeleteAgent(agent) PROVE SettledStay
  BY <1>30
  DEF DeleteAgent, CancelPending, Put, PendingGates, PendingDrafts, Held,
      LiveConsents
<1>31. ASSUME NEW s \in Semantics, NEW b \in ConsentSettings,
             NEW p \in PublicSettings, UpdateCapability(s, b, p)
      PROVE SettledStay
  BY <1>31 DEF UpdateCapability
<1>32. ASSUME GrantRunsOut PROVE SettledStay
  BY <1>32 DEF GrantRunsOut
<1>33. ASSUME NEW i \in Ids, LeaseRunsOut(i) PROVE SettledStay
  BY <1>33 DEF LeaseRunsOut
<1>34. ASSUME NEW i \in Ids, DeadlineRunsOut(i) PROVE SettledStay
  BY <1>34 DEF DeadlineRunsOut
<1>35. ASSUME NEW i \in Ids, GateWaitRunsOut(i) PROVE SettledStay
  BY <1>35 DEF GateWaitRunsOut
<1>36. ASSUME NEW i \in Ids, DraftWaitRunsOut(i) PROVE SettledStay
  BY <1>36 DEF DraftWaitRunsOut
<1>37. ASSUME NEW i \in Ids, ConsentRunsOut(i) PROVE SettledStay
  BY <1>37 DEF ConsentRunsOut
<1>38. ASSUME NEW i \in Ids, AuthorizePublic(i) PROVE SettledStay
  BY <1>38 DEF AuthorizePublic
<1> HIDE DEF IInv, SettledStay, vars
<1> QED
  BY <1>1, <1>2, <1>3, <1>4, <1>5, <1>6, <1>7, <1>8, <1>9, <1>10, <1>11,
     <1>12, <1>13, <1>14, <1>15, <1>16, <1>17, <1>18, <1>19, <1>20, <1>21,
     <1>22, <1>23, <1>24, <1>25, <1>26, <1>27, <1>28, <1>29, <1>30, <1>31,
     <1>32, <1>33, <1>34, <1>35, <1>36, <1>37, <1>38
  DEF Next, Invoking, Answering, Deciding, Sweeping, Cascading, Passing

\* A settled invocation stays settled as it is: no late result, second
\* approver, sweep or cascade replaces its end.
THEOREM SettledIsFinal == Spec => SettledForGood
<1>1. IInv /\ [Next]_vars => [SettledStay]_vars
  BY SettledStep
<1> QED
  BY <1>1, Invariant, PTL DEF Spec, SettledForGood, SettledStay

----------------------------------------------------------------------------
(* The relay implements the caller's contract *)

\* Every step of the relay is a step of the contract for every invocation at
\* once, or leaves what the caller sees alone.
LEMMA ContractStep == ASSUME IInv, IInv', [Next]_vars PROVE Contract!Next
<1> USE ConstantsAssumption
    DEF IInv, TypeOK, RowInv, AuthorizedHasNoRow, UnqueuedUntouched,
        UnchargedUntouched, AnsweredIsSettled, HeldExactlyWhileAsked,
        ChargedOnceQueued, vars, agentVars, rowVars, gateVars, draftVars,
        consentVars, requestVars, Open, Answered, Settled, Statuses,
        RequestStatuses, View, Contract!Next, Contract!BecomeOpen,
        Contract!StayUnbilled, Contract!Settle, Contract!Rest, Contract!Stay,
        Contract!Go
<1>1. ASSUME NEW i \in Ids, Authorize(i) PROVE Contract!Next
  BY <1>1 DEF Authorize
<1>2. ASSUME NEW i \in Ids, Refuse(i) PROVE Contract!Next
  BY <1>2 DEF Refuse
<1>3. ASSUME NEW i \in Ids, TurnAway(i) PROVE Contract!Next
  BY <1>3 DEF TurnAway
<1>4. ASSUME NEW i \in Ids, Enqueue(i) PROVE Contract!Next
  BY <1>4 DEF Enqueue, Queue
<1>5. ASSUME NEW i \in Ids, NEW t \in Terms, EnqueueHeld(i, t)
      PROVE Contract!Next
  BY <1>5 DEF EnqueueHeld, Tell
<1>6. ASSUME NEW i \in Ids, NEW t \in Terms, NEW k \in Ids, EnqueueCovered(i, t, k)
      PROVE Contract!Next
  BY <1>6 DEF EnqueueCovered, Queue
<1>7. ASSUME NEW i \in Ids, Claim(i) PROVE Contract!Next
  BY <1>7 DEF Claim, Claimable, ClaimLease
<1>8. ASSUME NEW i \in Ids, ReleaseClaim(i) PROVE Contract!Next
  BY <1>8 DEF ReleaseClaim
<1>9. ASSUME NEW i \in Ids, NEW a \in Answers, SubmitResult(i, a)
      PROVE Contract!Next
  BY <1>9 DEF SubmitResult, ReplyKind, Requests
<1>10. ASSUME NEW i \in Ids, NEW a \in Answers, SubmitAsOwner(i, a)
      PROVE Contract!Next
  BY <1>10 DEF SubmitAsOwner, Requests
<1>11. ASSUME NEW r \in inFlight, DropResult(r) PROVE Contract!Next
  BY <1>11 DEF DropResult
<1>12. ASSUME NEW r \in inFlight, FinishResult(r) PROVE Contract!Next
  BY <1>12 DEF FinishResult, TakesResult, AnswerStatus, Requests
<1>13. ASSUME NEW r \in inFlight, StoreDraft(r) PROVE Contract!Next
  BY <1>13 DEF StoreDraft, Requests
<1>14. ASSUME NEW r \in inFlight, AnswerAsOwner(r) PROVE Contract!Next
  BY <1>14 DEF AnswerAsOwner, AnswerStatus, Requests, Tell
<1>15. ASSUME NEW i \in Ids, ShowDraft(i) PROVE Contract!Next
  BY <1>15 DEF ShowDraft
<1>16. ASSUME NEW i \in Ids, ApproveReply(i) PROVE Contract!Next
  BY <1>16
  DEF ApproveReply, DecidableDraft, DraftAsShown, Releases, AnswerStatus,
      Tell
<1>17. ASSUME NEW i \in Ids, DenyReply(i) PROVE Contract!Next
  BY <1>17 DEF DenyReply, DecidableDraft, Tell
<1>18. ASSUME NEW i \in Ids, NEW t \in Terms, ApproveRequest(i, t)
      PROVE Contract!Next
  BY <1>18 DEF ApproveRequest, DecidableGate, Queue, Put, LiveConsents
<1>19. ASSUME NEW i \in Ids, CancelUnauthorized(i) PROVE Contract!Next
  BY <1>19 DEF CancelUnauthorized, DecidableGate, CloseRequest
<1>20. ASSUME NEW i \in Ids, DenyRequest(i) PROVE Contract!Next
  BY <1>20 DEF DenyRequest, DecidableGate, CloseRequest
<1>21. ASSUME NEW i \in Ids, RevokeConsent(i) PROVE Contract!Next
  BY <1>21 DEF RevokeConsent
<1>22. ASSUME NEW i \in Ids, ExpireRequest(i) PROVE Contract!Next
  BY <1>22 DEF ExpireRequest
<1>23. ASSUME NEW i \in Ids, ExpireDraft(i) PROVE Contract!Next
  BY <1>23 DEF ExpireDraft, Tell
<1>24. ASSUME NEW i \in Ids, Backfill(i) PROVE Contract!Next
  BY <1>24 DEF Backfill
<1>25. ASSUME NEW i \in Ids, SweepDeadline(i) PROVE Contract!Next
  BY <1>25 DEF SweepDeadline, Tell
<1>26. ASSUME NEW i \in Ids, SweepLease(i) PROVE Contract!Next
  BY <1>26 DEF SweepLease, OutOfClaims, Tell
<1>27. ASSUME RevokeGrant PROVE Contract!Next
  BY <1>27 DEF RevokeGrant, Put, PendingGates, PendingDrafts
<1>28. ASSUME DeleteCapability PROVE Contract!Next
  BY <1>28
  DEF DeleteCapability, CancelPending, Put, PendingGates, PendingDrafts,
      Held, LiveConsents
<1>29. ASSUME PurgeCall PROVE Contract!Next
  BY <1>29 DEF PurgeCall, Put, PendingGates, PendingDrafts, Held
<1>30. ASSUME NEW agent \in Agents, DeleteAgent(agent) PROVE Contract!Next
  BY <1>30
  DEF DeleteAgent, CancelPending, Put, PendingGates, PendingDrafts, Held,
      LiveConsents
<1>31. ASSUME NEW s \in Semantics, NEW b \in ConsentSettings,
             NEW p \in PublicSettings, UpdateCapability(s, b, p)
      PROVE Contract!Next
  BY <1>31 DEF UpdateCapability
<1>32. ASSUME GrantRunsOut PROVE Contract!Next
  BY <1>32 DEF GrantRunsOut
<1>33. ASSUME NEW i \in Ids, LeaseRunsOut(i) PROVE Contract!Next
  BY <1>33 DEF LeaseRunsOut
<1>34. ASSUME NEW i \in Ids, DeadlineRunsOut(i) PROVE Contract!Next
  BY <1>34 DEF DeadlineRunsOut
<1>35. ASSUME NEW i \in Ids, GateWaitRunsOut(i) PROVE Contract!Next
  BY <1>35 DEF GateWaitRunsOut
<1>36. ASSUME NEW i \in Ids, DraftWaitRunsOut(i) PROVE Contract!Next
  BY <1>36 DEF DraftWaitRunsOut
<1>37. ASSUME NEW i \in Ids, ConsentRunsOut(i) PROVE Contract!Next
  BY <1>37 DEF ConsentRunsOut
<1>38. ASSUME NEW i \in Ids, AuthorizePublic(i) PROVE Contract!Next
  BY <1>38 DEF AuthorizePublic
<1>39. CASE UNCHANGED vars
  BY <1>39
<1> HIDE DEF IInv, Contract!Next, vars
<1> QED
  BY <1>1, <1>2, <1>3, <1>4, <1>5, <1>6, <1>7, <1>8, <1>9, <1>10, <1>11,
     <1>12, <1>13, <1>14, <1>15, <1>16, <1>17, <1>18, <1>19, <1>20, <1>21,
     <1>22, <1>23, <1>24, <1>25, <1>26, <1>27, <1>28, <1>29, <1>30, <1>31,
     <1>32, <1>33, <1>34, <1>35, <1>36, <1>37, <1>38, <1>39
  DEF Next, Invoking, Answering, Deciding, Sweeping, Cascading, Passing

\* A system that starts starts as the contract does.
LEMMA ContractInit == ASSUME Init PROVE Contract!Init
<1>1. \A i \in Ids : View(i) \in {"absent", "held", "open"}
  BY DEF Init, InitLegacy, View, Open
<1>2. \A i \in Ids : charges[i] > 0 <=> View(i) = "open"
  BY DEF Init, InitLegacy, View, Open
<1>3. answer = [i \in Ids |-> NoAnswer]
  BY DEF Init
<1> QED
  BY <1>1, <1>2, <1>3 DEF Contract!Init

\* The refinement: with status, output_preview and the queued charges read as
\* view, result and bill, every behaviour of the relay is one the caller was
\* promised.
THEOREM Refinement == Spec => KeepsContract
<1>1. Init => Contract!Init
  BY ContractInit
<1>2. IInv /\ IInv' /\ [Next]_vars => Contract!Next
  BY ContractStep
<1> QED
  BY <1>1, <1>2, Invariant, PTL DEF Spec, KeepsContract, Contract!Spec
=============================================================================

---------------------------- MODULE AccessProofs ----------------------------
(***************************************************************************)
(* Proofs about who may do how much: the credentials that act for a person *)
(* (Access), the reviews an agent may write (Reviews) and the limits that  *)
(* are checked in one statement and counted in another (Limits), for any   *)
(* number of credentials, agents, requests and writes at a time.           *)
(***************************************************************************)
EXTENDS Access, Reviews, Limits, FiniteSetTheorems, TLAPS

----------------------------------------------------------------------------
(* Limits: how far they are overshot *)

Counting == {"idle", "signin", "invoke", "buy"}

LimitsTypes ==
    /\ admitted \in [Callers -> Counting]
    /\ failures \in Nat /\ invoked \in Nat /\ bought \in Nat

\* The requests past the check of a limit, and what they add to a count stay
\* below the limit and the others.
Past(what) == {r \in Callers : admitted[r] = what}
Keeps_(count, what, limit) ==
    count + Cardinality(Past(what)) <= limit + Cardinality(Callers) - 1

LimitsInv == LimitsTypes /\ OvershootsByTheOthers

\* What the requests past a check are, before and after a step.
LEMMA PastCounts ==
    ASSUME NEW what
    PROVE  /\ IsFiniteSet(Past(what)) /\ Cardinality(Past(what)) \in Nat
           /\ Cardinality(Callers) \in Nat
           /\ Cardinality(Past(what)) <= Cardinality(Callers)
<1>1. Past(what) \subseteq Callers /\ IsFiniteSet(Callers)
  BY LimitsAssumption DEF Past
<1> QED
  BY <1>1, FS_Subset, FS_CardinalityType

\* A request passes a check, or is counted.
LEMMA PastMoves ==
    ASSUME LimitsTypes, NEW r \in Callers, NEW from \in Counting, NEW to \in Counting,
           from # to, admitted[r] = from, admitted' = [admitted EXCEPT ![r] = to]
    PROVE  /\ Cardinality(Past(from)') = Cardinality(Past(from)) - 1
           /\ Cardinality(Past(to)') <= Cardinality(Callers)
           /\ Cardinality(Past(to)') \in Nat
           /\ \A what \in Counting \ {from, to} : Past(what)' = Past(what)
           /\ admitted' \in [Callers -> Counting]
<1>1. admitted \in [Callers -> Counting]
  BY DEF LimitsTypes
<1>2. Past(from)' = Past(from) \ {r} /\ r \in Past(from)
  BY <1>1 DEF Past
<1>3. Cardinality(Past(from) \ {r}) = Cardinality(Past(from)) - 1
  BY <1>2, PastCounts, FS_RemoveElement
<1>4. Past(to)' \subseteq Callers /\ IsFiniteSet(Callers)
  BY LimitsAssumption DEF Past
<1>5. \A what \in Counting \ {from, to} : Past(what)' = Past(what)
  BY <1>1 DEF Past
<1>6. Cardinality(Past(to)') <= Cardinality(Callers) /\ Cardinality(Past(to)') \in Nat
  BY <1>4, FS_Subset, FS_CardinalityType
<1> QED
  BY <1>1, <1>2, <1>3, <1>5, <1>6

\* OvershootsByTheOthers, with the requests past each check named.
LEMMA OvershootsAsPast ==
    OvershootsByTheOthers <=>
        /\ Keeps_(failures, "signin", MaxFailures)
        /\ Keeps_(invoked, "invoke", Quota)
        /\ Keeps_(bought, "buy", PerHour)
BY LimitsAssumption, PastCounts DEF OvershootsByTheOthers, Keeps_, Admitted, Past

\* A count stays a count, and what it stands at with the requests past its
\* check stays within the limit and the others, through every step.
LEMMA LimitsStep ==
    ASSUME LimitsInv, [LimitsNext]_limitVars
    PROVE  LimitsInv'
<1> DEFINE N == Cardinality(Callers)
<1>1. /\ LimitsTypes
      /\ Keeps_(failures, "signin", MaxFailures)
      /\ Keeps_(invoked, "invoke", Quota)
      /\ Keeps_(bought, "buy", PerHour)
  BY OvershootsAsPast DEF LimitsInv
<1>2. SUFFICES /\ LimitsTypes'
               /\ Keeps_(failures, "signin", MaxFailures)'
               /\ Keeps_(invoked, "invoke", Quota)'
               /\ Keeps_(bought, "buy", PerHour)'
  <2>1. OvershootsByTheOthers' <=>
            /\ Keeps_(failures, "signin", MaxFailures)'
            /\ Keeps_(invoked, "invoke", Quota)'
            /\ Keeps_(bought, "buy", PerHour)'
    BY OvershootsAsPast, PTL
  <2> QED
    BY <2>1 DEF LimitsInv
<1>3. N \in Nat /\ MaxFailures \in Nat \ {0} /\ Quota \in Nat \ {0} /\ PerHour \in Nat \ {0}
  BY LimitsAssumption, PastCounts
<1>4. \A what \in Counting : Cardinality(Past(what)) \in Nat /\ Cardinality(Past(what)) <= N
  BY PastCounts
<1>5. failures \in Nat /\ invoked \in Nat /\ bought \in Nat
  BY <1>1 DEF LimitsTypes
<1> DEFINE Goal == /\ LimitsTypes'
                   /\ Keeps_(failures, "signin", MaxFailures)'
                   /\ Keeps_(invoked, "invoke", Quota)'
                   /\ Keeps_(bought, "buy", PerHour)'
<1>6. ASSUME UNCHANGED limitVars  PROVE Goal
  BY <1>1, <1>6 DEF limitVars, LimitsTypes, Keeps_, Past
<1>7. ASSUME NEW r \in Callers, ChecksSignin(r)  PROVE Goal
  <2>1. /\ failures + 1 <= MaxFailures
        /\ UNCHANGED <<failures, invoked, bought>>
        /\ admitted[r] = "idle" /\ admitted' = [admitted EXCEPT ![r] = "signin"]
    BY <1>3, <1>5, <1>7 DEF ChecksSignin, RefusesSignin, PassesCheck
  <2>2. /\ Cardinality(Past("signin")') <= N /\ Cardinality(Past("signin")') \in Nat
        /\ Past("invoke")' = Past("invoke") /\ Past("buy")' = Past("buy")
        /\ admitted' \in [Callers -> Counting]
    BY <1>1, <1>7, <2>1, PastMoves DEF Counting
  <2> QED
    BY <1>1, <1>3, <1>5, <2>1, <2>2 DEF Keeps_, LimitsTypes
<1>8. ASSUME NEW r \in Callers, ChecksQuota(r)  PROVE Goal
  <2>1. /\ invoked + 1 <= Quota
        /\ UNCHANGED <<failures, invoked, bought>>
        /\ admitted[r] = "idle" /\ admitted' = [admitted EXCEPT ![r] = "invoke"]
    BY <1>3, <1>5, <1>8 DEF ChecksQuota, PassesCheck
  <2>2. /\ Cardinality(Past("invoke")') <= N /\ Cardinality(Past("invoke")') \in Nat
        /\ Past("signin")' = Past("signin") /\ Past("buy")' = Past("buy")
        /\ admitted' \in [Callers -> Counting]
    BY <1>1, <1>8, <2>1, PastMoves DEF Counting
  <2> QED
    BY <1>1, <1>3, <1>5, <2>1, <2>2 DEF Keeps_, LimitsTypes
<1>9. ASSUME NEW r \in Callers, ChecksCheckouts(r)  PROVE Goal
  <2>1. /\ bought + 1 <= PerHour
        /\ UNCHANGED <<failures, invoked, bought>>
        /\ admitted[r] = "idle" /\ admitted' = [admitted EXCEPT ![r] = "buy"]
    BY <1>3, <1>5, <1>9 DEF ChecksCheckouts, PassesCheck
  <2>2. /\ Cardinality(Past("buy")') <= N /\ Cardinality(Past("buy")') \in Nat
        /\ Past("signin")' = Past("signin") /\ Past("invoke")' = Past("invoke")
        /\ admitted' \in [Callers -> Counting]
    BY <1>1, <1>9, <2>1, PastMoves DEF Counting
  <2> QED
    BY <1>1, <1>3, <1>5, <2>1, <2>2 DEF Keeps_, LimitsTypes
<1>10. ASSUME NEW r \in Callers, WrongPassword(r) \/ RightPassword(r)  PROVE Goal
  <2>1. /\ failures' = failures + 1 \/ failures' = 0
        /\ UNCHANGED <<invoked, bought>>
        /\ admitted[r] = "signin" /\ admitted' = [admitted EXCEPT ![r] = "idle"]
    BY <1>10 DEF WrongPassword, RightPassword, IsCounted
  <2>2. /\ Cardinality(Past("signin")') = Cardinality(Past("signin")) - 1
        /\ Past("invoke")' = Past("invoke") /\ Past("buy")' = Past("buy")
        /\ admitted' \in [Callers -> Counting]
    BY <1>1, <1>10, <2>1, PastMoves DEF Counting
  <2>3. Cardinality(Past("signin")) \in Nat /\ Cardinality(Past("signin")) <= N
    BY <1>4 DEF Counting
  <2> QED
    BY <1>1, <1>3, <1>5, <2>1, <2>2, <2>3 DEF Keeps_, LimitsTypes
<1>11. ASSUME NEW r \in Callers, InsertsPublic(r)  PROVE Goal
  <2>1. /\ invoked' = invoked + 1
        /\ UNCHANGED <<failures, bought>>
        /\ admitted[r] = "invoke" /\ admitted' = [admitted EXCEPT ![r] = "idle"]
    BY <1>11 DEF InsertsPublic, IsCounted
  <2>2. /\ Cardinality(Past("invoke")') = Cardinality(Past("invoke")) - 1
        /\ Past("signin")' = Past("signin") /\ Past("buy")' = Past("buy")
        /\ admitted' \in [Callers -> Counting]
    BY <1>1, <1>11, <2>1, PastMoves DEF Counting
  <2>3. Cardinality(Past("invoke")) \in Nat
    BY <1>4 DEF Counting
  <2> QED
    BY <1>1, <1>3, <1>5, <2>1, <2>2, <2>3 DEF Keeps_, LimitsTypes
<1>12. ASSUME NEW r \in Callers, RefusedOtherwise(r)  PROVE Goal
  <2>1. /\ UNCHANGED <<failures, invoked, bought>>
        /\ admitted[r] = "invoke" /\ admitted' = [admitted EXCEPT ![r] = "idle"]
    BY <1>12 DEF RefusedOtherwise, IsCounted
  <2>2. /\ Cardinality(Past("invoke")') = Cardinality(Past("invoke")) - 1
        /\ Past("signin")' = Past("signin") /\ Past("buy")' = Past("buy")
        /\ admitted' \in [Callers -> Counting]
    BY <1>1, <1>12, <2>1, PastMoves DEF Counting
  <2>3. Cardinality(Past("invoke")) \in Nat
    BY <1>4 DEF Counting
  <2> QED
    BY <1>1, <1>3, <1>5, <2>1, <2>2, <2>3 DEF Keeps_, LimitsTypes
<1>13. ASSUME NEW r \in Callers, InsertsCheckout(r)  PROVE Goal
  <2>1. /\ bought' = bought + 1
        /\ UNCHANGED <<failures, invoked>>
        /\ admitted[r] = "buy" /\ admitted' = [admitted EXCEPT ![r] = "idle"]
    BY <1>13 DEF InsertsCheckout, IsCounted
  <2>2. /\ Cardinality(Past("buy")') = Cardinality(Past("buy")) - 1
        /\ Past("signin")' = Past("signin") /\ Past("invoke")' = Past("invoke")
        /\ admitted' \in [Callers -> Counting]
    BY <1>1, <1>13, <2>1, PastMoves DEF Counting
  <2>3. Cardinality(Past("buy")) \in Nat
    BY <1>4 DEF Counting
  <2> QED
    BY <1>1, <1>3, <1>5, <2>1, <2>2, <2>3 DEF Keeps_, LimitsTypes
<1>14. ASSUME SigninWindowEnds \/ QuotaMonthEnds \/ CheckoutAges  PROVE Goal
  <2>1. /\ admitted' = admitted
        /\ failures' \in Nat /\ failures' <= failures
        /\ invoked' \in Nat /\ invoked' <= invoked
        /\ bought' \in Nat /\ bought' <= bought
    BY <1>5, <1>14 DEF SigninWindowEnds, QuotaMonthEnds, CheckoutAges
  <2>2. \A what \in Counting : Past(what)' = Past(what)
    BY <2>1 DEF Past
  <2>3. LimitsTypes'
    BY <1>1, <2>1 DEF LimitsTypes
  <2>4. /\ Cardinality(Past("signin")) \in Nat
        /\ Cardinality(Past("invoke")) \in Nat
        /\ Cardinality(Past("buy")) \in Nat
    BY <1>4 DEF Counting
  <2>5. Past("signin")' = Past("signin") /\ Past("invoke")' = Past("invoke")
        /\ Past("buy")' = Past("buy")
    BY <2>2 DEF Counting
  <2> QED
    BY <1>1, <1>3, <1>5, <2>1, <2>3, <2>4, <2>5 DEF Keeps_
<1>15. Goal
  <2> HIDE DEF Goal
  <2> QED
    BY <1>6, <1>7, <1>8, <1>9, <1>10, <1>11, <1>12, <1>13, <1>14 DEF LimitsNext
<1> QED
  BY <1>15

\* The counts of Limits, and the margin of each limit, always hold: the bound
\* on the overshoot is inductive with nothing but the types beside it, because
\* it counts the requests that are past a check.
THEOREM LimitsInvariant == LimitsSpec => []LimitsInv
<1>1. LimitsInit => LimitsInv
  <2> SUFFICES ASSUME LimitsInit PROVE LimitsInv
    OBVIOUS
  <2>1. LimitsTypes
    BY DEF LimitsInit, LimitsTypes, Counting
  <2>2. Past("signin") = {} /\ Past("invoke") = {} /\ Past("buy") = {}
    BY DEF LimitsInit, Past
  <2>3. Cardinality({}) = 0 /\ Cardinality(Callers) \in Nat
        /\ MaxFailures \in Nat \ {0} /\ Quota \in Nat \ {0} /\ PerHour \in Nat \ {0}
    BY FS_EmptySet, PastCounts, LimitsAssumption
  <2>4. failures = 0 /\ invoked = 0 /\ bought = 0
    BY DEF LimitsInit
  <2>5. /\ Keeps_(failures, "signin", MaxFailures)
        /\ Keeps_(invoked, "invoke", Quota)
        /\ Keeps_(bought, "buy", PerHour)
    <3>1. /\ Cardinality(Past("signin")) = 0
          /\ Cardinality(Past("invoke")) = 0
          /\ Cardinality(Past("buy")) = 0
      BY <2>2, <2>3
    <3> QED
      BY <2>3, <2>4, <3>1 DEF Keeps_
  <2> QED
    BY <2>1, <2>5, OvershootsAsPast DEF LimitsInv
<1>2. LimitsInv /\ [LimitsNext]_limitVars => LimitsInv'
  BY LimitsStep
<1> QED
  BY <1>1, <1>2, PTL DEF LimitsSpec

\* signin_limit, invoke_public and create_checkout: whatever the number of
\* requests, none of the three limits is exceeded by more than the requests
\* that ran beside the one that reached it.
THEOREM LimitsAreOvershotByTheOthers == LimitsSpec => []OvershootsByTheOthers
<1>1. LimitsInv => OvershootsByTheOthers
  BY DEF LimitsInv
<1> QED
  BY <1>1, LimitsInvariant, PTL

----------------------------------------------------------------------------
(* Reviews: only what the owner let through *)

Statuses == {"awaiting_consent", "pending", "rejected", "settled"}
Sent == [by : Authors, skill : Skills, status : Statuses]
Checked_ == [by : Authors, tags : SUBSET Skills]

ReviewsTypes ==
    /\ asks \subseteq Skills /\ deleted \subseteq Skills /\ allowed \subseteq Invokes
    /\ request \in [Invokes -> {NotSent} \cup Sent]
    /\ write \in [Writes -> {NoWrite} \cup Checked_]
    /\ review \in [Authors -> SUBSET Skills]

\* A request is allowed once it is sent, and one that qualifies was allowed:
\* what turns a request down or settles it never lets it through.
AllowedIsSent == \A q \in allowed : request[q] # NotSent
QualifiedIsAllowed ==
    \A q \in Invokes : request[q] # NotSent /\ Qualifies(q) => q \in allowed

\* A write that passed its checks tags what its author was let through to.
WritesAsLetThrough ==
    \A w \in Writes : write[w] # NoWrite => write[w].tags \subseteq LetThrough(write[w].by)

ReviewsInv ==
    /\ ReviewsTypes
    /\ AllowedIsSent
    /\ QualifiedIsAllowed
    /\ WritesAsLetThrough
    /\ ReviewedIfLetThrough

\* A request that was sent has a status, and NotSent is not among them.
LEMMA SentIsNotUnsent ==
    /\ NotSent \notin Sent
    /\ NoWrite \notin Checked_
    /\ \A x \in Sent : x.status \in Statuses
<1>1. NotSent.status \notin Statuses
  BY DEF NotSent, Statuses
<1>2. \A x \in Sent : x.status \in Statuses
  BY DEF Sent
<1>3. \A x \in Checked_ : DOMAIN x = {"by", "tags"}
  BY DEF Checked_
<1>4. DOMAIN NoWrite = {"tags"}
  BY DEF NoWrite
<1>5. {"by", "tags"} # {"tags"}
  OBVIOUS
<1> QED
  BY <1>1, <1>2, <1>3, <1>4, <1>5

\* What an author was let through to only grows while the requests that are
\* allowed stay allowed, with their author and their capability.
LEMMA LetThroughGrows ==
    ASSUME allowed \subseteq allowed',
           \A q \in allowed : request'[q].by = request[q].by
                              /\ request'[q].skill = request[q].skill
    PROVE  \A a : LetThrough(a) \subseteq LetThrough(a)'
BY DEF LetThrough

\* Every step keeps what reviews rest on.
LEMMA ReviewsStep ==
    ASSUME ReviewsInv, [ReviewsNext]_reviewVars
    PROVE  ReviewsInv'
<1> DEFINE Grows == /\ allowed \subseteq allowed'
                    /\ \A q \in allowed : request'[q].by = request[q].by
                                          /\ request'[q].skill = request[q].skill
           Requests_ == /\ ReviewsTypes' /\ AllowedIsSent' /\ QualifiedIsAllowed'
           Goal == ReviewsInv'
<1>0. /\ ReviewsTypes /\ AllowedIsSent /\ QualifiedIsAllowed
      /\ WritesAsLetThrough /\ ReviewedIfLetThrough
  BY DEF ReviewsInv
<1>1. ASSUME Requests_, Grows, UNCHANGED <<write, review>>  PROVE Goal
  <2>1. \A a : LetThrough(a) \subseteq LetThrough(a)'
    BY <1>1, LetThroughGrows
  <2>2. WritesAsLetThrough'
    BY <1>0, <1>1, <2>1 DEF WritesAsLetThrough
  <2>3. ReviewedIfLetThrough'
    BY <1>0, <1>1, <2>1 DEF ReviewedIfLetThrough
  <2> QED
    BY <1>1, <2>2, <2>3 DEF ReviewsInv
<1>2. ASSUME UNCHANGED <<request, allowed>>
      PROVE  \A a : LetThrough(a)' = LetThrough(a)
  BY <1>2 DEF LetThrough
<1>3. ASSUME UNCHANGED reviewVars  PROVE Goal
  <2>1. Requests_
    BY <1>0, <1>3 DEF reviewVars, ReviewsTypes, AllowedIsSent, QualifiedIsAllowed, Qualifies
  <2> QED
    BY <1>1, <1>3, <2>1 DEF reviewVars
<1>4. ASSUME NEW q \in Invokes, NEW a \in Authors, NEW s \in Skills, SendsRequest(q, a, s)
      PROVE  Goal
  <2>1. PICK st \in {"awaiting_consent", "pending"} :
            /\ request' = [request EXCEPT ![q] = [by |-> a, skill |-> s, status |-> st]]
            /\ st = "pending" => allowed' = allowed \cup {q}
            /\ st = "awaiting_consent" => allowed' = allowed
    BY <1>4 DEF SendsRequest
  <2>2. request[q] = NotSent /\ q \notin allowed
    BY <1>0, <1>4 DEF SendsRequest, AllowedIsSent
  <2>3. [by |-> a, skill |-> s, status |-> st] \in Sent
    BY <2>1 DEF Sent, Statuses
  <2>4. ReviewsTypes'
    BY <1>0, <1>4, <2>1, <2>3 DEF ReviewsTypes, SendsRequest
  <2>5. request'[q] # NotSent
    BY <1>0, <2>1, <2>3, SentIsNotUnsent DEF ReviewsTypes
  <2>6. \A p \in Invokes \ {q} : request'[p] = request[p]
    BY <1>0, <2>1 DEF ReviewsTypes
  <2>7. AllowedIsSent'
    BY <1>0, <2>1, <2>5, <2>6 DEF AllowedIsSent, ReviewsTypes
  <2>8. QualifiedIsAllowed'
    <3>1. Qualifies(q)' => q \in allowed'
      BY <1>0, <2>1 DEF Qualifies, ReviewsTypes
    <3> QED
      BY <1>0, <2>1, <2>6, <3>1 DEF QualifiedIsAllowed, Qualifies
  <2>9. Grows
    BY <1>0, <2>1, <2>2, <2>6 DEF ReviewsTypes
  <2> QED
    BY <1>1, <1>4, <2>4, <2>7, <2>8, <2>9 DEF SendsRequest
<1>5. ASSUME NEW q \in Invokes, OwnerApproves(q) \/ TurnsDown(q) \/ SettlesRequest(q)
      PROVE  Goal
  <2>1. PICK st \in Statuses :
            /\ request' = [request EXCEPT ![q].status = st]
            /\ allowed' = IF request[q].status = "awaiting_consent" /\ st = "pending"
                            THEN allowed \cup {q} ELSE allowed
            /\ st \in {"pending", "settled"} => q \in allowed' \/ request[q].status = "pending"
    BY <1>5 DEF OwnerApproves, TurnsDown, SettlesRequest, Statuses
  <2>2. /\ request[q].status \in {"awaiting_consent", "pending"}
        /\ UNCHANGED <<asks, deleted, write, review>>
    BY <1>5 DEF OwnerApproves, TurnsDown, SettlesRequest
  <2>3. request[q] \in Sent /\ request[q] # NotSent
    BY <1>0, <2>2, SentIsNotUnsent DEF ReviewsTypes, NotSent
  <2>4. [request[q] EXCEPT !.status = st] \in Sent
    BY <2>1, <2>3 DEF Sent
  <2>5. request' = [request EXCEPT ![q] = [request[q] EXCEPT !.status = st]]
    BY <2>1
  <2>6. ReviewsTypes'
    BY <1>0, <2>1, <2>2, <2>4, <2>5 DEF ReviewsTypes
  <2>7. /\ request'[q] = [request[q] EXCEPT !.status = st]
        /\ \A p \in Invokes \ {q} : request'[p] = request[p]
    BY <1>0, <2>5 DEF ReviewsTypes
  <2>8. request'[q] # NotSent
    BY <2>4, <2>7, SentIsNotUnsent
  <2>9. AllowedIsSent'
    BY <1>0, <2>1, <2>7, <2>8 DEF AllowedIsSent, ReviewsTypes
  <2>10. request'[q].status = st
    BY <2>3, <2>7 DEF Sent
  <2>11. Qualifies(q)' => q \in allowed'
    <3>1. Qualifies(q)' => st \in {"pending", "settled"}
      BY <2>1, <2>10 DEF Qualifies, Statuses
    <3>2. request[q].status = "pending" => q \in allowed
      BY <1>0, <2>3 DEF QualifiedIsAllowed, Qualifies
    <3> QED
      BY <2>1, <3>1, <3>2
  <2>12. QualifiedIsAllowed'
    BY <1>0, <2>1, <2>7, <2>11 DEF QualifiedIsAllowed, Qualifies
  <2>13. request'[q].by = request[q].by /\ request'[q].skill = request[q].skill
    BY <2>3, <2>7 DEF Sent
  <2>14. Grows
    BY <1>0, <2>1, <2>7, <2>13 DEF ReviewsTypes
  <2> QED
    BY <1>1, <2>2, <2>6, <2>9, <2>12, <2>14
<1>6. ASSUME NEW s \in Skills, TogglesAsking(s)  PROVE Goal
  <2>1. Requests_
    BY <1>0, <1>6
    DEF TogglesAsking, ReviewsTypes, AllowedIsSent, QualifiedIsAllowed, Qualifies
  <2> QED
    BY <1>1, <1>6, <2>1 DEF TogglesAsking
<1>7. ASSUME NEW s \in Skills, DeletesSkill(s)  PROVE Goal
  <2>1. /\ Requests_
        /\ \A a \in Authors : review'[a] \subseteq review[a]
    BY <1>0, <1>7
    DEF DeletesSkill, ReviewsTypes, AllowedIsSent, QualifiedIsAllowed, Qualifies
  <2>2. \A a : LetThrough(a)' = LetThrough(a)
    BY <1>2, <1>7 DEF DeletesSkill
  <2>3. WritesAsLetThrough'
    BY <1>0, <1>7, <2>2 DEF DeletesSkill, WritesAsLetThrough
  <2>4. ReviewedIfLetThrough'
    BY <1>0, <2>1, <2>2 DEF ReviewedIfLetThrough
  <2> QED
    BY <2>1, <2>3, <2>4 DEF ReviewsInv
<1>8. ASSUME NEW a \in Authors, NEW w \in Writes, WriteChecks(w, a)  PROVE Goal
  <2>1. PICK tags \in SUBSET Tagable(a) : write' = [write EXCEPT ![w] = [by |-> a, tags |-> tags]]
    BY <1>8 DEF WriteChecks
  <2>2. Tagable(a) \subseteq LetThrough(a) /\ Tagable(a) \subseteq Skills
    BY <1>0 DEF Tagable, LetThrough, QualifiedIsAllowed
  <2>3. [by |-> a, tags |-> tags] \in Checked_
    BY <2>1, <2>2 DEF Checked_
  <2>4. Requests_
    BY <1>0, <1>8, <2>1, <2>3
    DEF WriteChecks, ReviewsTypes, AllowedIsSent, QualifiedIsAllowed, Qualifies
  <2>5. \A b : LetThrough(b)' = LetThrough(b)
    BY <1>2, <1>8 DEF WriteChecks
  <2>6. /\ write'[w] = [by |-> a, tags |-> tags]
        /\ \A v \in Writes \ {w} : write'[v] = write[v]
    BY <1>0, <2>1 DEF ReviewsTypes
  <2>7. WritesAsLetThrough'
    BY <1>0, <2>1, <2>2, <2>5, <2>6 DEF WritesAsLetThrough
  <2>8. ReviewedIfLetThrough'
    BY <1>0, <1>8, <2>5 DEF ReviewedIfLetThrough, WriteChecks
  <2> QED
    BY <2>4, <2>7, <2>8 DEF ReviewsInv
<1>9. ASSUME NEW w \in Writes, WriteCommits(w)  PROVE Goal
  <2>1. write[w] \in Checked_ /\ write[w].tags \subseteq LetThrough(write[w].by)
    BY <1>0, <1>9 DEF WriteCommits, ReviewsTypes, WritesAsLetThrough
  <2>2. write[w].by \in Authors /\ write[w].tags \subseteq Skills
    BY <2>1 DEF Checked_
  <2>3. Requests_
    BY <1>0, <1>9, <2>2
    DEF WriteCommits, ReviewsTypes, AllowedIsSent, QualifiedIsAllowed, Qualifies
  <2>4. \A a : LetThrough(a)' = LetThrough(a)
    BY <1>2, <1>9 DEF WriteCommits
  <2>5. WritesAsLetThrough'
    BY <1>0, <1>9, <2>4 DEF WriteCommits, WritesAsLetThrough, ReviewsTypes
  <2>6. ReviewedIfLetThrough'
    BY <1>0, <1>9, <2>1, <2>2, <2>4 DEF WriteCommits, ReviewedIfLetThrough, ReviewsTypes
  <2> QED
    BY <2>3, <2>5, <2>6 DEF ReviewsInv
<1>10. Goal
  <2> HIDE DEF Goal
  <2> QED
    BY <1>3, <1>4, <1>5, <1>6, <1>7, <1>8, <1>9 DEF ReviewsNext
<1> QED
  BY <1>10

\* Types, requests, writes and reviews always stand as ReviewsInv says: that
\* a review tags only what was let through needs the requests that qualify to
\* have been allowed, and the writes past their checks to have read that.
THEOREM ReviewsInvariant == ReviewsSpec => []ReviewsInv
<1>1. ReviewsInit => ReviewsInv
  BY DEF ReviewsInit, ReviewsInv, ReviewsTypes, AllowedIsSent, QualifiedIsAllowed,
         WritesAsLetThrough, ReviewedIfLetThrough, LetThrough
<1>2. ReviewsInv /\ [ReviewsNext]_reviewVars => ReviewsInv'
  BY ReviewsStep
<1> QED
  BY <1>1, <1>2, PTL DEF ReviewsSpec

\* reviews::write: whatever is asked for, approved, turned down or deleted
\* between a write's checks and its commit, an agent's review tags only what
\* the owner let it through to.
THEOREM ReviewsAreOfWhatWasLetThrough == ReviewsSpec => []ReviewedIfLetThrough
<1>1. ReviewsInv => ReviewedIfLetThrough
  BY DEF ReviewsInv
<1> QED
  BY <1>1, ReviewsInvariant, PTL

----------------------------------------------------------------------------
(* Access: what a credential may reach *)

Makers == Apps \cup Keys \cup {Person, Unmade}
Scoped == [mode : Modes, sel : SUBSET Agents_]
Pairing_ == [state : {"none", "pending", "approved", "denied"}, expired : BOOLEAN,
             mints : {0, 1}, revoked : BOOLEAN, scope : Scoped,
             app : Apps \cup {NoApp}, agent : SUBSET Agents_]
Cached_ == [known : {TRUE}, ids : SUBSET Agents_]
Authenticated == [at : {"authenticated"}, as : Creds]
Loaded == [at : {"loaded"}, as : Creds, to : Agents_, ids : SUBSET Agents_]
Done == [at : {"acted", "made", "enrolling"}, as : Creds, to : Agents_]

PairingTypes == pairing \in [Grants -> Pairing_] /\ dead \subseteq Grants

KeyTypes ==
    /\ keyState \in [Keys -> {"none", "live", "revoked", "rotated"}]
    /\ rootOf \in [Keys -> Keys]

ScopeTypes ==
    /\ scopeRow \in [Creds -> Scoped] /\ meant \in [Creds -> Scoped]
    /\ unlisted \in [Creds -> SUBSET Agents_]

AgentTypes == madeBy \in [Agents_ -> Makers] /\ origin \in [Agents_ -> Makers]

AskTypes ==
    /\ cached \in [Creds -> {Uncached} \cup Cached_]
    /\ ask \in [Asks -> {NotAsking} \cup Authenticated \cup Loaded \cup Done]

\* A token was minted of a pairing that was approved, and is dead once the
\* pairing was revoked.
MintedOfApproved ==
    \A g \in Grants : pairing[g].mints > 0 =>
        /\ pairing[g].state = "approved"
        /\ pairing[g].revoked => g \in dead

Retired(c) == c \in Keys /\ keyState[c] = "rotated"
Used(c) == IF c \in Keys THEN keyState[c] # "none" ELSE pairing[c].mints > 0

\* A scope is stored as it is meant, but for the agents not listed yet; the row
\* of a key that was rotated moved on with it.  Only a pairing with a client has
\* the scope own.
StoresWhatIsMeant(c) ==
    /\ scopeRow[c].mode = meant[Root(c)].mode
    /\ scopeRow[c].sel \subseteq meant[Root(c)].sel
    /\ meant[Root(c)].sel \subseteq scopeRow[c].sel \cup unlisted[Root(c)]
StoredAsMeant ==
    \A c \in Creds : IF Retired(c) THEN scopeRow[c] = All ELSE StoresWhatIsMeant(c)
OwnHasClient ==
    \A g \in Grants : meant[g].mode = "own" => pairing[g].mints > 0 /\ pairing[g].app \in Apps

\* An id that was never given to a key is nowhere.
FreshIsNowhere ==
    \A k \in Keys : keyState[k] = "none" =>
        /\ \A l \in Keys : rootOf[l] = k <=> l = k
        /\ \A a \in Agents_ : madeBy[a] # k /\ origin[a] # k

\* At most one key of a family is in use.
OneOfAFamily ==
    \A k, l \in Keys :
        /\ rootOf[k] = rootOf[l]
        /\ keyState[k] \notin {"none", "rotated"} /\ keyState[l] \notin {"none", "rotated"}
        => k = l

\* An agent is attributed to the app that made it, or to the key of the
\* family that made it that is in use.
AttributedAsMade ==
    \A a \in Agents_ :
        /\ madeBy[a] \notin Keys => origin[a] = madeBy[a]
        /\ \A k \in Keys :
               /\ madeBy[a] = k /\ keyState[k] # "rotated" => origin[a] = rootOf[k]
               /\ origin[a] = rootOf[k] /\ keyState[k] = "live" => madeBy[a] = k

\* What a request or a cache was told of a credential is within its reach.
Told(c, ids) == Used(c) /\ (ids \subseteq Reach(c) \/ Retired(c))
CachesWithinReach == \A c \in Creds : cached[c].known => Told(c, cached[c].ids)
ListsNow(x) == meant[Root(x.as)].mode = "selected" => x.to \in meant[Root(x.as)].sel
AskWithinReach(x) ==
    /\ x \in Authenticated \cup Loaded \cup Done => Used(x.as)
    /\ x \in Loaded => Told(x.as, x.ids)
    /\ x.at = "acted" => Told(x.as, {x.to})
    /\ x.at = "made" => Retired(x.as) \/ ListsNow(x)
    /\ x.at = "enrolling" => meant[Root(x.as)].mode = "selected" /\ ListsNow(x)
AsksWithinReach == \A r \in Asks : AskWithinReach(ask[r])

KeysInv == FreshIsNowhere /\ OneOfAFamily /\ AttributedAsMade

AccessTypes == PairingTypes /\ KeyTypes /\ ScopeTypes /\ AgentTypes /\ AskTypes

AccessInv ==
    /\ AccessTypes
    /\ MintedOfApproved
    /\ StoredAsMeant /\ OwnHasClient
    /\ KeysInv
    /\ CachesWithinReach /\ AsksWithinReach

\* What can be put into a scope, and into a pairing, has its type.
LEMMA ScopesTyped ==
    /\ All \in Scoped /\ Scopes \subseteq Scoped /\ NoGrant \in Pairing_
    /\ \A g \in Grants : pairing[g] \in Pairing_ => Effective(g) \in Scoped
<1>1. All \in Scoped
  BY DEF All, Scoped, Modes
<1>2. Made \subseteq Agents_
  BY DEF Made
<1>3. ASSUME NEW s \in Scopes  PROVE s \in Scoped
  <2>1. CASE s \in [mode : {"selected"}, sel : SUBSET Made \ {{}}]
    BY <1>2, <2>1 DEF Scoped, Modes
  <2>2. CASE s = [mode |-> "own", sel |-> {}]
    BY <2>2 DEF Scoped, Modes
  <2> QED
    BY <1>1, <1>3, <2>1, <2>2 DEF Scopes
<1>4. NoGrant \in Pairing_
  BY <1>1 DEF NoGrant, Pairing_
<1>5. ASSUME NEW g \in Grants, pairing[g] \in Pairing_  PROVE Effective(g) \in Scoped
  <2>1. pairing[g].scope \in Scoped /\ pairing[g].agent \subseteq Agents_
    BY <1>5 DEF Pairing_
  <2>2. [mode |-> "selected", sel |-> pairing[g].agent] \in Scoped
    BY <2>1 DEF Scoped, Modes
  <2> QED
    BY <2>1, <2>2 DEF Effective
<1> QED
  BY <1>1, <1>3, <1>4, <1>5

\* A request's place tells its shape.
LEMMA AskShapes ==
    ASSUME NEW x \in {NotAsking} \cup Authenticated \cup Loaded \cup Done
    PROVE  /\ x = NotAsking <=> x.at = "idle"
           /\ x \in Authenticated <=> x.at = "authenticated"
           /\ x \in Loaded <=> x.at = "loaded"
           /\ x \in Done <=> x.at \in {"acted", "made", "enrolling"}
           /\ x # NotAsking <=> x \in Authenticated \cup Loaded \cup Done
<1>1. NotAsking.at = "idle"
  BY DEF NotAsking
<1>2. /\ \A y \in Authenticated : y.at = "authenticated"
      /\ \A y \in Loaded : y.at = "loaded"
      /\ \A y \in Done : y.at \in {"acted", "made", "enrolling"}
  BY DEF Authenticated, Loaded, Done
<1> QED
  BY <1>1, <1>2

\* The steps a pairing can take, types first.
LEMMA PairingsStep ==
    ASSUME AccessTypes, MintedOfApproved, [AccessNext]_accessVars
    PROVE  PairingTypes' /\ MintedOfApproved'
<1> DEFINE P == PairingTypes' /\ MintedOfApproved'
<1>0. pairing \in [Grants -> Pairing_] /\ dead \subseteq Grants
  BY DEF AccessTypes, PairingTypes
\* Any of them leaves all pairings but one, and the tokens that are dead.
<1>1. ASSUME NEW g \in Grants, NEW p \in Pairing_, pairing' = [pairing EXCEPT ![g] = p],
             dead \subseteq dead', dead' \subseteq Grants,
             p.mints > 0 => /\ p.state = "approved"
                            /\ p.revoked => g \in dead'
      PROVE  P
  <2>1. PairingTypes'
    BY <1>0, <1>1 DEF PairingTypes
  <2>2. \A h \in Grants : pairing'[h] = IF h = g THEN p ELSE pairing[h]
    BY <1>0, <1>1
  <2>3. MintedOfApproved'
    BY <1>1, <2>2 DEF MintedOfApproved
  <2> QED
    BY <2>1, <2>3
<1>2. ASSUME pairing' = pairing, dead \subseteq dead', dead' \subseteq Grants  PROVE P
  BY <1>0, <1>2 DEF PairingTypes, MintedOfApproved
<1>3. \A g \in Grants :
          /\ pairing[g].state \in {"none", "pending", "denied"} => pairing[g].mints = 0
          /\ pairing[g].mints \in {0, 1}
  BY <1>0 DEF MintedOfApproved, Pairing_
<1>4. ASSUME NEW g \in Grants, NEW app \in Apps, NEW scope \in Scopes, IssueCode(g, app, scope)
      PROVE  P
  <2> DEFINE p == [NoGrant EXCEPT !.state = "approved", !.app = app, !.scope = scope]
  <2>1. p \in Pairing_ /\ ~(p.mints > 0)
    <3>1. p \in Pairing_ /\ p.mints = 0
      BY <1>4, ScopesTyped DEF NoGrant, Pairing_
    <3> QED
      BY <3>1
  <2>2. pairing' = [pairing EXCEPT ![g] = p] /\ dead' = dead
    BY <1>4 DEF IssueCode
  <2> HIDE DEF p
  <2> QED
    BY <1>0, <1>1, <2>1, <2>2
<1>5. ASSUME NEW g \in Grants, NEW app \in Apps \cup {NoApp}, DeviceAuthorization(g, app)
      PROVE  P
  <2> DEFINE p == [NoGrant EXCEPT !.state = "pending", !.app = app]
  <2>1. p \in Pairing_ /\ ~(p.mints > 0)
    <3>1. p \in Pairing_ /\ p.mints = 0
      BY <1>5, ScopesTyped DEF NoGrant, Pairing_
    <3> QED
      BY <3>1
  <2>2. pairing' = [pairing EXCEPT ![g] = p] /\ dead' = dead
    BY <1>5 DEF DeviceAuthorization
  <2> HIDE DEF p
  <2> QED
    BY <1>0, <1>1, <2>1, <2>2
<1>6. ASSUME NEW g \in Grants, NEW a \in Agents_, NEW scope \in Scopes,
             ApproveExisting(g, a, scope) \/ ApproveNew(g, a, scope)
      PROVE  P
  <2> DEFINE p == [pairing[g] EXCEPT !.state = "approved", !.scope = scope, !.agent = {a}]
  <2>1. pairing' = [pairing EXCEPT ![g] = p] /\ dead' = dead /\ pairing[g].state = "pending"
    <3>1. Approves(g, a, scope) /\ dead' = dead
      BY <1>6 DEF ApproveExisting, ApproveNew
    <3> QED
      BY <3>1 DEF Approves
  <2>2. p \in Pairing_
    BY <1>0, ScopesTyped DEF Pairing_
  <2>3. ~(p.mints > 0)
    BY <1>0, <1>3, <2>1 DEF Pairing_
  <2> HIDE DEF p
  <2> QED
    BY <1>0, <1>1, <2>1, <2>2, <2>3
<1>7. ASSUME NEW g \in Grants, Deny(g)  PROVE P
  <2> DEFINE p == [pairing[g] EXCEPT !.state = "denied"]
  <2>1. pairing' = [pairing EXCEPT ![g] = p] /\ dead' = dead /\ pairing[g].state = "pending"
    BY <1>7 DEF Deny
  <2>2. p \in Pairing_
    BY <1>0 DEF Pairing_
  <2>3. ~(p.mints > 0)
    BY <1>0, <1>3, <2>1 DEF Pairing_
  <2> HIDE DEF p
  <2> QED
    BY <1>0, <1>1, <2>1, <2>2, <2>3
<1>8. ASSUME NEW g \in Grants, CodeExpires(g)  PROVE P
  <2> DEFINE p == [pairing[g] EXCEPT !.expired = TRUE]
  <2>1. pairing' = [pairing EXCEPT ![g] = p] /\ dead' = dead
    BY <1>8 DEF CodeExpires
  <2>2. p \in Pairing_ /\ p.mints = pairing[g].mints /\ p.state = pairing[g].state
        /\ p.revoked = pairing[g].revoked
    BY <1>0 DEF Pairing_
  <2> HIDE DEF p
  <2> QED
    BY <1>0, <1>1, <2>1, <2>2 DEF MintedOfApproved
<1>9. ASSUME NEW g \in Grants, MintToken(g)  PROVE P
  <2> DEFINE p == [pairing[g] EXCEPT !.mints = 1]
  <2>1. /\ pairing[g].state = "approved" /\ pairing[g].mints = 0 /\ ~pairing[g].revoked
        /\ pairing' = [pairing EXCEPT ![g].mints = pairing[g].mints + 1] /\ dead' = dead
    BY <1>9 DEF MintToken, Redeemable
  <2>2. pairing' = [pairing EXCEPT ![g] = p]
    BY <2>1
  <2>3. p \in Pairing_ /\ p.state = "approved" /\ p.revoked = pairing[g].revoked
    BY <1>0, <2>1 DEF Pairing_
  <2> HIDE DEF p
  <2> QED
    BY <1>0, <1>1, <2>1, <2>2, <2>3
<1>10. ASSUME NEW g \in Grants, RevokePairing(g)  PROVE P
  <2> DEFINE p == [pairing[g] EXCEPT !.revoked = TRUE]
  <2>1. /\ pairing' = [pairing EXCEPT ![g] = p] /\ pairing[g].state = "approved"
        /\ dead' = IF pairing[g].mints > 0 THEN dead \cup {g} ELSE dead
    BY <1>10 DEF RevokePairing
  <2>2. p \in Pairing_ /\ p.mints = pairing[g].mints /\ p.state = pairing[g].state
    BY <1>0 DEF Pairing_
  <2>3. dead \subseteq dead' /\ dead' \subseteq Grants /\ (p.mints > 0 => g \in dead')
    BY <1>0, <2>1, <2>2
  <2> HIDE DEF p
  <2> QED
    BY <1>1, <2>1, <2>2, <2>3
<1>11. ASSUME NEW r \in Asks, SignOut(r)  PROVE P
  BY <1>0, <1>2, <1>11 DEF SignOut
<1>12. ASSUME NEW k \in Keys, EndKey(k) \/ (\E scope \in Scopes : CreateKey(k, scope))
                              \/ (\E new \in Keys : RotateKey(k, new))
       PROVE  P
  BY <1>0, <1>2, <1>12 DEF EndKey, CreateKey, RotateKey
<1>13. ASSUME NEW c \in Creds, CacheExpires(c)  PROVE P
  BY <1>0, <1>2, <1>13 DEF CacheExpires
<1>14. ASSUME NEW r \in Asks,
              \/ \E c \in Creds : Authenticate(r, c)
              \/ \E a \in Agents_ : ActCached(r, a) \/ LoadScope(r, a) \/ MakeAgent(r, a)
              \/ ActLoaded(r) \/ ResolvesGrant(r) \/ Enroll(r) \/ AskEnds(r)
       PROVE  P
  BY <1>0, <1>2, <1>14
  DEF Authenticate, ActCached, LoadScope, MakeAgent, ActLoaded, ResolvesGrant, Enroll, AskEnds
<1>15. ASSUME UNCHANGED accessVars  PROVE P
  BY <1>0, <1>2, <1>15 DEF accessVars
<1>16. P
  <2> HIDE DEF P
  <2> QED
    BY <1>4, <1>5, <1>6, <1>7, <1>8, <1>9, <1>10, <1>11, <1>12, <1>13, <1>14, <1>15
    DEF AccessNext
<1> QED
  BY <1>16

\* An agent comes to be: attributed to the person or an app, or to a key.
LEMMA AgentAppears ==
    ASSUME KeyTypes, AgentTypes, KeysInv,
           NEW a \in Agents_, NEW m \in Makers, NEW o \in Makers,
           madeBy' = [madeBy EXCEPT ![a] = m], origin' = [origin EXCEPT ![a] = o],
           UNCHANGED <<keyState, rootOf>>,
           \/ m \notin Keys /\ o = m
           \/ m \in Keys /\ keyState[m] \notin {"none", "rotated"} /\ o = rootOf[m]
           \/ m \in Keys /\ keyState[m] = "rotated" /\ o \notin Keys
    PROVE  AgentTypes' /\ KeysInv'
<1>1. madeBy \in [Agents_ -> Makers] /\ origin \in [Agents_ -> Makers]
  BY DEF AgentTypes
<1>2. \A b \in Agents_ : /\ madeBy'[b] = IF b = a THEN m ELSE madeBy[b]
                         /\ origin'[b] = IF b = a THEN o ELSE origin[b]
  BY <1>1
<1>3. AgentTypes'
  BY <1>1 DEF AgentTypes, Makers
<1>4. FreshIsNowhere /\ OneOfAFamily /\ AttributedAsMade
  BY DEF KeysInv
<1>5. rootOf \in [Keys -> Keys]
  BY DEF KeyTypes
<1>6. FreshIsNowhere'
  <2>1. \A k \in Keys : keyState[k] = "none" => m # k /\ o # k
    BY <1>4, <1>5 DEF FreshIsNowhere
  <2> QED
    BY <1>2, <1>4, <2>1 DEF FreshIsNowhere
<1>7. OneOfAFamily'
  BY <1>4 DEF OneOfAFamily
<1>8. m \notin Keys => o = m
  OBVIOUS
<1>9. \A k \in Keys : /\ m = k /\ keyState[k] # "rotated" => o = rootOf[k]
                      /\ o = rootOf[k] /\ keyState[k] = "live" => m = k
  <2> SUFFICES ASSUME NEW k \in Keys
               PROVE  /\ m = k /\ keyState[k] # "rotated" => o = rootOf[k]
                      /\ o = rootOf[k] /\ keyState[k] = "live" => m = k
    OBVIOUS
  <2>1. rootOf[k] \in Keys
    BY <1>5
  <2> QED
    BY <1>4, <2>1 DEF OneOfAFamily
<1>10. AttributedAsMade'
  BY <1>2, <1>4, <1>8, <1>9 DEF AttributedAsMade
<1> QED
  BY <1>3, <1>6, <1>7, <1>10 DEF KeysInv

\* The steps of the keys, and of the agents they are attributed.
LEMMA KeysStep ==
    ASSUME AccessInv, [AccessNext]_accessVars
    PROVE  KeyTypes' /\ AgentTypes' /\ KeysInv'
<1> DEFINE Goal == KeyTypes' /\ AgentTypes' /\ KeysInv'
<1>0. KeyTypes /\ AgentTypes /\ KeysInv /\ AccessTypes
  BY DEF AccessInv, AccessTypes
<1>1. /\ keyState \in [Keys -> {"none", "live", "revoked", "rotated"}]
      /\ rootOf \in [Keys -> Keys]
      /\ madeBy \in [Agents_ -> Makers] /\ origin \in [Agents_ -> Makers]
  BY <1>0 DEF KeyTypes, AgentTypes
<1>2. FreshIsNowhere /\ OneOfAFamily /\ AttributedAsMade
  BY <1>0 DEF KeysInv
<1>3. ASSUME UNCHANGED <<keyState, rootOf, madeBy, origin>>  PROVE Goal
  BY <1>0, <1>3
  DEF KeyTypes, AgentTypes, KeysInv, FreshIsNowhere, OneOfAFamily, AttributedAsMade
<1>4. ASSUME NEW g \in Grants, NEW a \in Agents_, NEW scope \in Scopes, ApproveNew(g, a, scope)
      PROVE  Goal
  <2> DEFINE m == IF pairing[g].app = NoApp THEN Person ELSE pairing[g].app
  <2>1. pairing[g].app \in Apps \cup {NoApp}
    BY <1>0 DEF AccessTypes, PairingTypes, Pairing_
  <2>2. m \in Makers /\ m \notin Keys
    BY <2>1, AccessAssumption DEF Makers
  <2>3. /\ madeBy' = [madeBy EXCEPT ![a] = m] /\ origin' = [origin EXCEPT ![a] = m]
        /\ UNCHANGED <<keyState, rootOf>>
    BY <1>4 DEF ApproveNew
  <2> HIDE DEF m
  <2>4. AgentTypes' /\ KeysInv'
    BY <1>0, <2>2, <2>3, AgentAppears
  <2> QED
    BY <1>0, <2>3, <2>4 DEF KeyTypes
<1>5. ASSUME NEW r \in Asks, NEW a \in Agents_, MakeAgent(r, a)  PROVE Goal
  <2>1. PICK c \in Creds : c = ask[r].as /\ Used(c)
    <3>1. ask[r] \in {NotAsking} \cup Authenticated \cup Loaded \cup Done
      BY <1>0 DEF AccessTypes, AskTypes
    <3>2. ask[r] \in Authenticated
      BY <1>5, <3>1, AskShapes DEF MakeAgent
    <3>3. Used(ask[r].as)
      BY <3>2 DEF AccessInv, AsksWithinReach, AskWithinReach
    <3> QED
      BY <3>2, <3>3 DEF Authenticated
  <2> DEFINE m == Attribution(c)
             o == IF c \notin Keys THEN Attribution(c)
                  ELSE IF keyState[c] = "rotated" THEN Person ELSE rootOf[c]
  <2>2. /\ madeBy' = [madeBy EXCEPT ![a] = m] /\ origin' = [origin EXCEPT ![a] = o]
        /\ UNCHANGED <<keyState, rootOf>>
    BY <1>5, <2>1 DEF MakeAgent
  <2>3. CASE c \in Keys
    <3>1. m = c /\ m \in Makers /\ keyState[c] # "none"
      BY <2>1, <2>3 DEF Attribution, Makers, Used
    <3>2. IF keyState[c] = "rotated" THEN o = Person ELSE o = rootOf[c]
      BY <2>3
    <3>3. o \in Makers /\ Person \notin Keys
      BY <1>1, <2>3, AccessAssumption DEF Makers
    <3> HIDE DEF m, o
    <3>4. AgentTypes' /\ KeysInv'
      BY <1>0, <2>2, <2>3, <3>1, <3>2, <3>3, AgentAppears
    <3> QED
      BY <1>0, <2>2, <3>4 DEF KeyTypes
  <2>4. CASE c \notin Keys
    <3>1. c \in Grants
      BY <2>1, <2>4 DEF Creds
    <3>2. pairing[c].app \in Apps \cup {NoApp}
      BY <1>0, <3>1 DEF AccessTypes, PairingTypes, Pairing_
    <3>3. o = m /\ m \in Makers /\ m \notin Keys
      BY <2>4, <3>2, AccessAssumption DEF Attribution, Makers
    <3> HIDE DEF m, o
    <3>4. AgentTypes' /\ KeysInv'
      BY <1>0, <2>2, <3>3, AgentAppears
    <3> QED
      BY <1>0, <2>2, <3>4 DEF KeyTypes
  <2> QED
    BY <2>3, <2>4
<1>6. ASSUME NEW k \in Keys, NEW scope \in Scopes, CreateKey(k, scope)  PROVE Goal
  <2>1. /\ keyState[k] = "none" /\ keyState' = [keyState EXCEPT ![k] = "live"]
        /\ UNCHANGED <<rootOf, madeBy, origin>>
    BY <1>6 DEF CreateKey
  <2>2. KeyTypes' /\ AgentTypes'
    BY <1>0, <1>1, <2>1 DEF KeyTypes, AgentTypes
  <2>3. \A l \in Keys : keyState'[l] = IF l = k THEN "live" ELSE keyState[l]
    BY <1>1, <2>1
  <2>4. /\ \A l \in Keys : rootOf[l] = k <=> l = k
        /\ \A a \in Agents_ : madeBy[a] # k /\ origin[a] # k
    BY <1>2, <2>1 DEF FreshIsNowhere
  <2>5. FreshIsNowhere'
    BY <1>2, <2>1, <2>3 DEF FreshIsNowhere
  <2>6. OneOfAFamily'
    BY <1>2, <2>1, <2>3, <2>4 DEF OneOfAFamily
  <2>7. AttributedAsMade'
    BY <1>2, <2>1, <2>3, <2>4 DEF AttributedAsMade
  <2> QED
    BY <2>2, <2>5, <2>6, <2>7 DEF KeysInv
<1>7. ASSUME NEW k \in Keys, EndKey(k)  PROVE Goal
  <2>1. /\ keyState[k] = "live" /\ keyState' = [keyState EXCEPT ![k] = "revoked"]
        /\ UNCHANGED <<rootOf, madeBy, origin>>
    BY <1>7 DEF EndKey
  <2>2. KeyTypes' /\ AgentTypes'
    BY <1>0, <1>1, <2>1 DEF KeyTypes, AgentTypes
  <2>3. \A l \in Keys : keyState'[l] = IF l = k THEN "revoked" ELSE keyState[l]
    BY <1>1, <2>1
  <2>4. FreshIsNowhere'
    BY <1>2, <2>1, <2>3 DEF FreshIsNowhere
  <2>5. OneOfAFamily'
    BY <1>2, <2>1, <2>3 DEF OneOfAFamily
  <2>6. AttributedAsMade'
    BY <1>2, <2>1, <2>3 DEF AttributedAsMade
  <2> QED
    BY <2>2, <2>4, <2>5, <2>6 DEF KeysInv
<1>8. ASSUME NEW k \in Keys, NEW new \in Keys, RotateKey(k, new)  PROVE Goal
  <2>1. /\ keyState[k] = "live" /\ keyState[new] = "none" /\ k # new
        /\ madeBy' = [a \in Agents_ |-> IF madeBy[a] = k THEN new ELSE madeBy[a]]
        /\ origin' = origin
    BY <1>8 DEF RotateKey, AgentsMoved
  <2>2. /\ \A l \in Keys : keyState'[l] = IF l = k THEN "rotated"
                                          ELSE IF l = new THEN "live" ELSE keyState[l]
        /\ \A l \in Keys : rootOf'[l] = IF l = new THEN rootOf[k] ELSE rootOf[l]
        /\ \A a \in Agents_ : madeBy'[a] = IF madeBy[a] = k THEN new ELSE madeBy[a]
    <3>1. /\ keyState' = [keyState EXCEPT ![k] = "rotated", ![new] = "live"]
          /\ rootOf' = [rootOf EXCEPT ![new] = rootOf[k]]
      BY <1>8 DEF RotateKey
    <3> QED
      BY <1>1, <2>1, <3>1
  <2>3. KeyTypes' /\ AgentTypes'
    BY <1>0, <1>1, <1>8, <2>1 DEF KeyTypes, AgentTypes, RotateKey, Makers
  <2>4. /\ \A l \in Keys : rootOf[l] = new <=> l = new
        /\ \A a \in Agents_ : madeBy[a] # new /\ origin[a] # new
    BY <1>2, <2>1 DEF FreshIsNowhere
  <2>5. FreshIsNowhere'
    <3> SUFFICES ASSUME NEW l \in Keys, keyState'[l] = "none"
                 PROVE  /\ \A j \in Keys : rootOf'[j] = l <=> j = l
                        /\ \A a \in Agents_ : madeBy'[a] # l /\ origin'[a] # l
      BY DEF FreshIsNowhere
    <3>1. keyState[l] = "none" /\ l # new /\ l # k
      BY <2>2
    <3>2. /\ \A j \in Keys : rootOf[j] = l <=> j = l
          /\ \A a \in Agents_ : madeBy[a] # l /\ origin[a] # l
      BY <1>2, <3>1 DEF FreshIsNowhere
    <3> QED
      BY <2>1, <2>2, <3>1, <3>2
  <2>6. OneOfAFamily'
    BY <1>2, <2>1, <2>2, <2>4 DEF OneOfAFamily
  <2>7. AttributedAsMade'
    <3> SUFFICES ASSUME NEW a \in Agents_
                 PROVE  /\ madeBy'[a] \notin Keys => origin'[a] = madeBy'[a]
                        /\ \A l \in Keys :
                               /\ madeBy'[a] = l /\ keyState'[l] # "rotated" => origin'[a] = rootOf'[l]
                               /\ origin'[a] = rootOf'[l] /\ keyState'[l] = "live" => madeBy'[a] = l
      BY DEF AttributedAsMade
    <3>1. /\ madeBy[a] \notin Keys => origin[a] = madeBy[a]
          /\ \A l \in Keys :
                 /\ madeBy[a] = l /\ keyState[l] # "rotated" => origin[a] = rootOf[l]
                 /\ origin[a] = rootOf[l] /\ keyState[l] = "live" => madeBy[a] = l
      BY <1>2 DEF AttributedAsMade
    <3>2. madeBy'[a] \notin Keys => origin'[a] = madeBy'[a]
      BY <2>1, <2>2, <3>1
    <3>3. ASSUME NEW l \in Keys, madeBy'[a] = l, keyState'[l] # "rotated"
          PROVE  origin'[a] = rootOf'[l]
      BY <2>1, <2>2, <2>4, <3>1, <3>3
    <3>4. ASSUME NEW l \in Keys, origin'[a] = rootOf'[l], keyState'[l] = "live"
          PROVE  madeBy'[a] = l
      BY <1>2, <2>1, <2>2, <2>4, <3>1, <3>4 DEF OneOfAFamily
    <3> QED
      BY <3>2, <3>3, <3>4
  <2> QED
    BY <2>3, <2>5, <2>6, <2>7 DEF KeysInv
<1>9. ASSUME NEW g \in Grants, NEW a \in Agents_, NEW scope \in Scopes,
             ApproveExisting(g, a, scope)
      PROVE  Goal
  BY <1>3, <1>9 DEF ApproveExisting
<1>10. ASSUME NEW g \in Grants,
              \/ \E app \in Apps, scope \in Scopes : IssueCode(g, app, scope)
              \/ \E app \in Apps \cup {NoApp} : DeviceAuthorization(g, app)
              \/ Deny(g) \/ CodeExpires(g) \/ MintToken(g) \/ RevokePairing(g)
       PROVE  Goal
  BY <1>3, <1>10
  DEF IssueCode, DeviceAuthorization, Deny, CodeExpires, MintToken, RevokePairing
<1>11. ASSUME NEW c \in Creds, CacheExpires(c)  PROVE Goal
  BY <1>3, <1>11 DEF CacheExpires
<1>12. ASSUME NEW r \in Asks,
              \/ \E c \in Creds : Authenticate(r, c)
              \/ \E a \in Agents_ : ActCached(r, a) \/ LoadScope(r, a)
              \/ ActLoaded(r) \/ ResolvesGrant(r) \/ Enroll(r) \/ AskEnds(r) \/ SignOut(r)
       PROVE  Goal
  BY <1>3, <1>12
  DEF Authenticate, ActCached, LoadScope, ActLoaded, ResolvesGrant, Enroll, AskEnds,
      SignOut
<1>13. ASSUME UNCHANGED accessVars  PROVE Goal
  BY <1>3, <1>13 DEF accessVars
<1>14. Goal
  <2> HIDE DEF Goal
  <2> QED
    BY <1>4, <1>5, <1>6, <1>7, <1>8, <1>9, <1>10, <1>11, <1>12, <1>13 DEF AccessNext
<1> QED
  BY <1>14

\* A credential in use stays what it is: its token minted for the same client,
\* its key of the same family; what was rotated stays so, and agents stay made.
PairingsStay ==
    \A g \in Grants : pairing[g].mints > 0 =>
        pairing'[g].mints > 0 /\ pairing'[g].app = pairing[g].app
KeysStay ==
    \A k \in Keys : keyState[k] # "none" =>
        /\ keyState'[k] # "none" /\ rootOf'[k] = rootOf[k]
        /\ keyState[k] = "rotated" => keyState'[k] = "rotated"
AgentsStay == \A a \in Made : a \in Made' /\ origin'[a] = origin[a]

\* Any step leaves the credentials in use and the agents there are.
LEMMA CredentialsStay ==
    ASSUME AccessInv, [AccessNext]_accessVars
    PROVE  PairingsStay /\ KeysStay /\ AgentsStay
<1> DEFINE Goal == PairingsStay /\ KeysStay /\ AgentsStay
<1>0. AccessTypes /\ MintedOfApproved
  BY DEF AccessInv
<1>1. /\ pairing \in [Grants -> Pairing_]
      /\ keyState \in [Keys -> {"none", "live", "revoked", "rotated"}]
      /\ rootOf \in [Keys -> Keys]
      /\ madeBy \in [Agents_ -> Makers] /\ origin \in [Agents_ -> Makers]
  BY <1>0 DEF AccessTypes, PairingTypes, KeyTypes, AgentTypes
<1>2. /\ pairing' = pairing => PairingsStay
      /\ UNCHANGED <<keyState, rootOf>> => KeysStay
      /\ UNCHANGED <<madeBy, origin>> => AgentsStay
  BY DEF PairingsStay, KeysStay, AgentsStay, Made
<1>3. \A g \in Grants : pairing[g].state \in {"none", "pending"} => ~(pairing[g].mints > 0)
  BY <1>0 DEF MintedOfApproved
<1>4. ASSUME NEW g \in Grants, NEW p,
             pairing' = [pairing EXCEPT ![g] = p],
             pairing[g].mints > 0 => p.mints > 0 /\ p.app = pairing[g].app
      PROVE  PairingsStay
  BY <1>1, <1>4 DEF PairingsStay
<1>5. ASSUME NEW a \in Agents_, a \notin Made, NEW m, NEW o,
             madeBy' = [madeBy EXCEPT ![a] = m], origin' = [origin EXCEPT ![a] = o]
      PROVE  AgentsStay
  BY <1>1, <1>5 DEF AgentsStay, Made
<1>6. ASSUME NEW g \in Grants, NEW app \in Apps, NEW scope \in Scopes, IssueCode(g, app, scope)
      PROVE  Goal
  BY <1>2, <1>3, <1>4, <1>6 DEF IssueCode
<1>7. ASSUME NEW g \in Grants, NEW app \in Apps \cup {NoApp}, DeviceAuthorization(g, app)
      PROVE  Goal
  BY <1>2, <1>3, <1>4, <1>7 DEF DeviceAuthorization
<1>8. ASSUME NEW g \in Grants, NEW a \in Agents_, NEW scope \in Scopes,
             ApproveExisting(g, a, scope)
      PROVE  Goal
  <2> DEFINE p == [pairing[g] EXCEPT !.state = "approved", !.scope = scope, !.agent = {a}]
  <2>1. /\ pairing' = [pairing EXCEPT ![g] = p] /\ pairing[g].state = "pending"
        /\ UNCHANGED <<keyState, rootOf, madeBy, origin>>
    BY <1>8 DEF ApproveExisting, Approves
  <2> HIDE DEF p
  <2> QED
    BY <1>2, <1>3, <1>4, <2>1
<1>9. ASSUME NEW g \in Grants, NEW a \in Agents_, NEW scope \in Scopes, ApproveNew(g, a, scope)
      PROVE  Goal
  <2> DEFINE p == [pairing[g] EXCEPT !.state = "approved", !.scope = scope, !.agent = {a}]
  <2>1. /\ pairing' = [pairing EXCEPT ![g] = p] /\ pairing[g].state = "pending"
        /\ UNCHANGED <<keyState, rootOf>>
    BY <1>9 DEF ApproveNew, Approves
  <2>2. AgentsStay
    BY <1>5, <1>9 DEF ApproveNew
  <2> HIDE DEF p
  <2> QED
    BY <1>2, <1>3, <1>4, <2>1, <2>2
<1>10. ASSUME NEW g \in Grants, Deny(g)  PROVE Goal
  BY <1>2, <1>3, <1>4, <1>10 DEF Deny
<1>11. ASSUME NEW g \in Grants, CodeExpires(g)  PROVE Goal
  <2> DEFINE p == [pairing[g] EXCEPT !.expired = TRUE]
  <2>1. p.mints = pairing[g].mints /\ p.app = pairing[g].app
    BY <1>1 DEF Pairing_
  <2>2. pairing' = [pairing EXCEPT ![g] = p] /\ UNCHANGED <<keyState, rootOf, madeBy, origin>>
    BY <1>11 DEF CodeExpires
  <2> HIDE DEF p
  <2> QED
    BY <1>2, <1>4, <2>1, <2>2
<1>12. ASSUME NEW g \in Grants, MintToken(g)  PROVE Goal
  <2>1. pairing[g].mints = 0
    BY <1>12 DEF MintToken, Redeemable
  <2>2. ~(pairing[g].mints > 0)
    BY <2>1
  <2> QED
    BY <1>2, <1>4, <1>12, <2>2 DEF MintToken
<1>13. ASSUME NEW g \in Grants, RevokePairing(g)  PROVE Goal
  <2> DEFINE p == [pairing[g] EXCEPT !.revoked = TRUE]
  <2>1. p.mints = pairing[g].mints /\ p.app = pairing[g].app
    BY <1>1 DEF Pairing_
  <2>2. pairing' = [pairing EXCEPT ![g] = p] /\ UNCHANGED <<keyState, rootOf, madeBy, origin>>
    BY <1>13 DEF RevokePairing
  <2> HIDE DEF p
  <2> QED
    BY <1>2, <1>4, <2>1, <2>2
<1>14. ASSUME NEW k \in Keys, NEW scope \in Scopes, CreateKey(k, scope)  PROVE Goal
  <2>1. KeysStay
    BY <1>1, <1>14 DEF CreateKey, KeysStay
  <2> QED
    BY <1>2, <1>14, <2>1 DEF CreateKey
<1>15. ASSUME NEW k \in Keys, EndKey(k)  PROVE Goal
  <2>1. KeysStay
    BY <1>1, <1>15 DEF EndKey, KeysStay
  <2> QED
    BY <1>2, <1>15, <2>1 DEF EndKey
<1>16. ASSUME NEW k \in Keys, NEW new \in Keys, RotateKey(k, new)  PROVE Goal
  <2>1. KeysStay
    BY <1>1, <1>16 DEF RotateKey, KeysStay
  <2>2. AgentsStay
    <3>1. new # Unmade
      BY AccessAssumption
    <3> QED
      BY <1>1, <1>16, <3>1 DEF RotateKey, AgentsMoved, AgentsStay, Made
  <2> QED
    BY <1>2, <1>16, <2>1, <2>2 DEF RotateKey
<1>17. ASSUME NEW r \in Asks, NEW a \in Agents_, MakeAgent(r, a)  PROVE Goal
  BY <1>2, <1>5, <1>17 DEF MakeAgent
<1>18. ASSUME NEW c \in Creds, CacheExpires(c)  PROVE Goal
  BY <1>2, <1>18 DEF CacheExpires
<1>19. ASSUME NEW r \in Asks,
              \/ \E c \in Creds : Authenticate(r, c)
              \/ \E a \in Agents_ : ActCached(r, a) \/ LoadScope(r, a)
              \/ ActLoaded(r) \/ ResolvesGrant(r) \/ Enroll(r) \/ AskEnds(r) \/ SignOut(r)
       PROVE  Goal
  BY <1>2, <1>19
  DEF Authenticate, ActCached, LoadScope, ActLoaded, ResolvesGrant, Enroll, AskEnds,
      SignOut
<1>20. ASSUME UNCHANGED accessVars  PROVE Goal
  BY <1>2, <1>20 DEF accessVars
<1>21. Goal
  <2> HIDE DEF Goal
  <2> QED
    BY <1>6, <1>7, <1>8, <1>9, <1>10, <1>11, <1>12, <1>13, <1>14, <1>15, <1>16, <1>17, <1>18,
       <1>19, <1>20 DEF AccessNext
<1> QED
  BY <1>21

\* What a credential in use is to reach is left, or lists more.
MeantGrows ==
    \A c \in Creds : Used(c) =>
        \/ meant'[Root(c)] = meant[Root(c)]
        \/ /\ meant[Root(c)].mode = "selected" /\ meant'[Root(c)].mode = "selected"
           /\ meant[Root(c)].sel \subseteq meant'[Root(c)].sel

\* Every credential is of a family, and a new one is a family of its own.
LEMMA Families ==
    ASSUME AccessInv
    PROVE  /\ \A c \in Creds : Root(c) \in Creds
           /\ \A g \in Grants : \A c \in Creds : Root(c) = g <=> c = g
           /\ \A k \in Keys : keyState[k] = "none" => \A c \in Creds : Root(c) = k <=> c = k
<1>1. rootOf \in [Keys -> Keys] /\ FreshIsNowhere
  BY DEF AccessInv, AccessTypes, KeyTypes, KeysInv
<1>2. Keys \cap Grants = {} /\ Creds = Grants \cup Keys
  BY AccessAssumption DEF Creds
<1>3. \A k \in Keys : keyState[k] = "none" => \A c \in Creds : Root(c) = k <=> c = k
  BY <1>1, <1>2 DEF FreshIsNowhere, Root
<1>4. \A g \in Grants : \A c \in Creds : Root(c) = g <=> c = g
  BY <1>1, <1>2 DEF Root
<1> QED
  BY <1>1, <1>2, <1>3, <1>4 DEF Root

\* A step that leaves the keys leaves the families.
LEMMA FamiliesStay ==
    ASSUME UNCHANGED <<keyState, rootOf>>
    PROVE  \A c \in Creds : Root(c)' = Root(c) /\ (Retired(c)' <=> Retired(c))
BY DEF Root, Retired

\* The scopes through every step.
LEMMA ScopesStep ==
    ASSUME AccessInv, [AccessNext]_accessVars
    PROVE  ScopeTypes' /\ StoredAsMeant' /\ OwnHasClient' /\ MeantGrows
<1> DEFINE Goal == ScopeTypes' /\ StoredAsMeant' /\ OwnHasClient' /\ MeantGrows
<1>0. AccessTypes /\ StoredAsMeant /\ OwnHasClient
  BY DEF AccessInv
<1>1. /\ scopeRow \in [Creds -> Scoped] /\ meant \in [Creds -> Scoped]
      /\ unlisted \in [Creds -> SUBSET Agents_]
      /\ keyState \in [Keys -> {"none", "live", "revoked", "rotated"}]
      /\ pairing \in [Grants -> Pairing_]
  BY <1>0 DEF AccessTypes, ScopeTypes, KeyTypes, PairingTypes
<1>2. PairingsStay /\ KeysStay
  BY CredentialsStay
<1>3. Keys \cap Grants = {} /\ Creds = Grants \cup Keys
  BY AccessAssumption DEF Creds
\* Whatever leaves the rows, and rotates no key, leaves the rest.
<1>4. ASSUME UNCHANGED <<scopeRow, meant, unlisted, rootOf>>,
             \A c \in Creds : Retired(c)' <=> Retired(c)
      PROVE  Goal
  <2>1. ScopeTypes'
    BY <1>0, <1>4 DEF AccessTypes, ScopeTypes
  <2>2. StoredAsMeant'
    <3> SUFFICES ASSUME NEW c \in Creds
                 PROVE  IF Retired(c)' THEN scopeRow'[c] = All ELSE StoresWhatIsMeant(c)'
      BY DEF StoredAsMeant
    <3>1. StoresWhatIsMeant(c)' <=> StoresWhatIsMeant(c)
      BY <1>4 DEF StoresWhatIsMeant, Root
    <3> QED
      BY <1>0, <1>4, <3>1 DEF StoredAsMeant
  <2>3. OwnHasClient'
    BY <1>0, <1>2, <1>4 DEF OwnHasClient, PairingsStay
  <2>4. MeantGrows
    BY <1>4 DEF MeantGrows
  <2> QED
    BY <2>1, <2>2, <2>3, <2>4
\* The scope of a new credential is set, and meant to be that.
<1>5. ASSUME NEW c \in Creds, NEW s \in Scoped, ~Used(c), Root(c) = c,
             \A d \in Creds : Root(d) = c <=> d = c,
             scopeRow' = [scopeRow EXCEPT ![c] = s], meant' = [meant EXCEPT ![c] = s],
             UNCHANGED <<unlisted, rootOf>>,
             \A d \in Creds : Retired(d)' <=> Retired(d),
             c \in Grants /\ s.mode = "own" => pairing'[c].mints > 0 /\ pairing'[c].app \in Apps
      PROVE  Goal
  <2>1. \A d \in Creds : /\ scopeRow'[d] = IF d = c THEN s ELSE scopeRow[d]
                         /\ meant'[d] = IF d = c THEN s ELSE meant[d]
                         /\ Root(d)' = Root(d) /\ Root(d) \in Creds
    BY <1>1, <1>5, Families DEF Root
  <2>2. ScopeTypes'
    BY <1>1, <1>5 DEF ScopeTypes, Scoped, Creds
  <2>3. ~Retired(c)
    BY <1>1, <1>5 DEF Retired, Used
  <2>4. StoredAsMeant'
    <3> SUFFICES ASSUME NEW d \in Creds
                 PROVE  IF Retired(d)' THEN scopeRow'[d] = All ELSE StoresWhatIsMeant(d)'
      BY DEF StoredAsMeant
    <3>1. CASE d = c
      BY <1>5, <2>1, <2>3, <3>1 DEF StoresWhatIsMeant
    <3>2. CASE d # c
      <4>1. scopeRow'[d] = scopeRow[d] /\ meant'[Root(d)] = meant[Root(d)] /\ Root(d)' = Root(d)
        BY <1>5, <2>1, <3>2
      <4> QED
        BY <1>0, <1>5, <4>1 DEF StoredAsMeant, StoresWhatIsMeant
    <3> QED
      BY <3>1, <3>2
  <2>5. OwnHasClient'
    BY <1>0, <1>2, <1>3, <1>5, <2>1 DEF OwnHasClient, PairingsStay
  <2>6. MeantGrows
    BY <1>5, <2>1 DEF MeantGrows
  <2> QED
    BY <2>2, <2>4, <2>5, <2>6
<1>6. UNCHANGED <<keyState, rootOf>> => \A c \in Creds : Retired(c)' <=> Retired(c)
  BY DEF Retired
<1>7. ASSUME NEW g \in Grants, MintToken(g)  PROVE Goal
  <2>1. /\ pairing[g].mints = 0 /\ pairing'[g].mints = 1 /\ pairing'[g].app = pairing[g].app
        /\ UNCHANGED <<keyState, rootOf, unlisted>>
        /\ scopeRow' = [scopeRow EXCEPT ![g] = Effective(g)]
        /\ meant' = [meant EXCEPT ![g] = Effective(g)]
    <3>1. /\ pairing[g].mints = 0 /\ UNCHANGED <<keyState, rootOf, unlisted>>
          /\ pairing' = [pairing EXCEPT ![g].mints = pairing[g].mints + 1]
          /\ scopeRow' = [scopeRow EXCEPT ![g] = Effective(g)]
          /\ meant' = [meant EXCEPT ![g] = Effective(g)]
      BY <1>7 DEF MintToken, Redeemable
    <3> QED
      BY <1>1, <3>1 DEF Pairing_
  <2>2. pairing[g].app \in Apps \cup {NoApp} /\ pairing[g] \in Pairing_
    BY <1>1 DEF Pairing_
  <2>3. Effective(g) \in Scoped
    BY <2>2, ScopesTyped
  <2>4. Effective(g).mode = "own" => pairing[g].app \in Apps
    BY <2>2 DEF Effective
  <2>5. g \in Creds /\ ~Used(g)
    BY <1>3, <2>1 DEF Used
  <2>6. pairing'[g].mints > 0
    BY <2>1
  <2>7. Root(g) = g /\ \A d \in Creds : Root(d) = g <=> d = g
    BY <2>5, Families
  <2> HIDE DEF Goal
  <2> QED
    BY <1>5, <1>6, <2>1, <2>3, <2>4, <2>5, <2>6, <2>7
<1>8. ASSUME NEW k \in Keys, NEW scope \in Scopes, CreateKey(k, scope)  PROVE Goal
  <2>1. /\ keyState[k] = "none" /\ keyState' = [keyState EXCEPT ![k] = "live"]
        /\ scopeRow' = [scopeRow EXCEPT ![k] = scope] /\ meant' = [meant EXCEPT ![k] = scope]
        /\ UNCHANGED <<unlisted, rootOf>>
    BY <1>8 DEF CreateKey
  <2>2. \A c \in Creds : Retired(c)' <=> Retired(c)
    BY <1>1, <2>1 DEF Retired
  <2>3. k \in Creds /\ ~Used(k) /\ k \notin Grants /\ scope \in Scoped
    BY <1>3, <2>1, ScopesTyped DEF Used
  <2>4. Root(k) = k /\ \A d \in Creds : Root(d) = k <=> d = k
    BY <2>1, <2>3, Families
  <2> HIDE DEF Goal
  <2> QED
    BY <1>5, <2>1, <2>2, <2>3, <2>4
<1>9. ASSUME NEW k \in Keys, EndKey(k)  PROVE Goal
  <2>1. \A c \in Creds : Retired(c)' <=> Retired(c)
    BY <1>1, <1>9 DEF EndKey, Retired
  <2> QED
    BY <1>4, <1>9, <2>1 DEF EndKey
<1>10. ASSUME NEW k \in Keys, NEW new \in Keys, RotateKey(k, new)  PROVE Goal
  <2>1. /\ keyState[k] = "live" /\ keyState[new] = "none" /\ k # new
        /\ keyState' = [keyState EXCEPT ![k] = "rotated", ![new] = "live"]
        /\ scopeRow' = [scopeRow EXCEPT ![new] = scopeRow[k], ![k] = All]
        /\ rootOf' = [rootOf EXCEPT ![new] = rootOf[k]]
        /\ UNCHANGED <<meant, unlisted>>
    BY <1>10 DEF RotateKey, ScopeMoved
  <2>2. k \in Creds /\ new \in Creds /\ k \notin Grants /\ new \notin Grants
    BY <1>3
  <2>3. \A c \in Creds :
            /\ scopeRow'[c] = IF c = k THEN All ELSE IF c = new THEN scopeRow[k] ELSE scopeRow[c]
            /\ Root(c)' = IF c = new THEN Root(k) ELSE Root(c)
    <3>1. rootOf \in [Keys -> Keys]
      BY <1>0 DEF AccessTypes, KeyTypes
    <3> QED
      BY <1>1, <2>1, <2>2, <3>1 DEF Root
  <2>4. ScopeTypes'
    BY <1>1, <2>1, <2>2, ScopesTyped DEF ScopeTypes, Scoped, Creds
  <2>5. \A c \in Creds : Retired(c)' <=> (Retired(c) \/ c = k)
    BY <1>1, <2>1 DEF Retired
  <2>6. StoresWhatIsMeant(k) /\ ~Retired(new)
    BY <1>0, <2>1, <2>2 DEF StoredAsMeant, Retired
  <2>7. StoredAsMeant'
    <3> SUFFICES ASSUME NEW c \in Creds
                 PROVE  IF Retired(c)' THEN scopeRow'[c] = All ELSE StoresWhatIsMeant(c)'
      BY DEF StoredAsMeant
    <3>1. IF Retired(c) THEN scopeRow[c] = All ELSE StoresWhatIsMeant(c)
      BY <1>0 DEF StoredAsMeant
    <3>2. Retired(c)' <=> (Retired(c) \/ c = k)
      BY <2>5
    <3>3. CASE c = k
      BY <2>3, <3>2, <3>3
    <3>4. CASE c = new /\ c # k
      <4>1. scopeRow'[c] = scopeRow[k] /\ Root(c)' = Root(k)
        BY <2>2, <2>3, <3>4
      <4>2. StoresWhatIsMeant(c)'
        BY <2>1, <2>6, <4>1 DEF StoresWhatIsMeant
      <4> QED
        BY <2>6, <3>2, <3>4, <4>2
    <3>5. CASE c # k /\ c # new
      <4>1. scopeRow'[c] = scopeRow[c] /\ Root(c)' = Root(c)
        BY <2>3, <3>5
      <4>2. StoresWhatIsMeant(c)' <=> StoresWhatIsMeant(c)
        BY <2>1, <4>1 DEF StoresWhatIsMeant
      <4> QED
        BY <3>1, <3>2, <3>5, <4>1, <4>2
    <3> QED
      BY <3>3, <3>4, <3>5
  <2>8. OwnHasClient'
    BY <1>0, <1>2, <2>1 DEF OwnHasClient, PairingsStay
  <2>9. MeantGrows
    BY <2>1 DEF MeantGrows
  <2> QED
    BY <2>4, <2>7, <2>8, <2>9
<1>11. ASSUME NEW r \in Asks, NEW a \in Agents_, MakeAgent(r, a)  PROVE Goal
  <2>1. PICK c \in Creds : c = ask[r].as /\ Used(c)
    <3>1. ask[r] \in {NotAsking} \cup Authenticated \cup Loaded \cup Done
      BY <1>0 DEF AccessTypes, AskTypes
    <3>2. ask[r] \in Authenticated
      BY <1>11, <3>1, AskShapes DEF MakeAgent
    <3>3. Used(ask[r].as)
      BY <3>2 DEF AccessInv, AsksWithinReach, AskWithinReach
    <3> QED
      BY <3>2, <3>3 DEF Authenticated
  <2>2. PICK f \in Creds : f = Root(c)
    BY <2>1, Families
  <2>3. UNCHANGED <<keyState, rootOf, scopeRow, pairing>>
    BY <1>11 DEF MakeAgent
  <2>4. CASE scopeRow[c].mode = "selected"
    <3>1. /\ meant' = [meant EXCEPT ![f].sel = meant[f].sel \cup {a}]
          /\ unlisted' = [unlisted EXCEPT ![f] = unlisted[f] \cup {a}]
      BY <1>11, <2>1, <2>2, <2>4 DEF MakeAgent
    <3> DEFINE s == [meant[f] EXCEPT !.sel = meant[f].sel \cup {a}]
    <3>2. s \in Scoped /\ s.mode = meant[f].mode /\ s.sel = meant[f].sel \cup {a}
      BY <1>1 DEF Scoped
    <3>3. meant' = [meant EXCEPT ![f] = s]
      BY <3>1
    <3> HIDE DEF s
    <3>4. \A d \in Creds : /\ meant'[d] = IF d = f THEN s ELSE meant[d]
                           /\ unlisted'[d] = IF d = f THEN unlisted[f] \cup {a} ELSE unlisted[d]
      BY <1>1, <3>1, <3>3
    <3>5. ScopeTypes'
      BY <1>1, <2>3, <3>1, <3>2, <3>3 DEF ScopeTypes
    <3>6. meant[f].mode = "selected"
      <4>1. ~Retired(c)
        BY <1>0, <2>4 DEF StoredAsMeant, All
      <4> QED
        BY <1>0, <2>2, <2>4, <4>1 DEF StoredAsMeant, StoresWhatIsMeant
    <3>7. StoredAsMeant'
      <4> SUFFICES ASSUME NEW d \in Creds
                   PROVE  IF Retired(d)' THEN scopeRow'[d] = All ELSE StoresWhatIsMeant(d)'
        BY DEF StoredAsMeant
      <4>1. Root(d)' = Root(d) /\ (Retired(d)' <=> Retired(d)) /\ Root(d) \in Creds
        BY <2>3, Families, FamiliesStay
      <4>2. StoresWhatIsMeant(d) => StoresWhatIsMeant(d)'
        BY <2>3, <3>2, <3>4, <4>1 DEF StoresWhatIsMeant
      <4> QED
        BY <1>0, <2>3, <4>1, <4>2 DEF StoredAsMeant
    <3>8. OwnHasClient'
      <4>1. \A g \in Grants : meant'[g].mode = meant[g].mode
        BY <1>3, <3>2, <3>4
      <4> QED
        BY <1>0, <2>3, <4>1 DEF OwnHasClient
    <3>9. MeantGrows
      <4>1. \A d \in Creds : Root(d) \in Creds
        BY Families
      <4> QED
        BY <3>2, <3>4, <3>6, <4>1 DEF MeantGrows
    <3> QED
      BY <3>5, <3>7, <3>8, <3>9
  <2>5. CASE scopeRow[c].mode # "selected"
    <3>1. meant' = meant /\ unlisted' = unlisted
      <4>1. /\ meant' = [meant EXCEPT ![f].sel = meant[f].sel]
            /\ unlisted' = [unlisted EXCEPT ![f] = unlisted[f]]
        BY <1>11, <2>1, <2>2, <2>5 DEF MakeAgent
      <4>2. [meant[f] EXCEPT !.sel = meant[f].sel] = meant[f]
        BY <1>1 DEF Scoped
      <4> QED
        BY <1>1, <4>1, <4>2
    <3> QED
      BY <1>4, <1>6, <2>3, <3>1
  <2> QED
    BY <2>4, <2>5
<1>17. ASSUME NEW r \in Asks, Enroll(r)  PROVE Goal
  <2>1. ask[r] \in Done /\ ask[r].at = "enrolling"
    <3>1. ask[r] \in {NotAsking} \cup Authenticated \cup Loaded \cup Done
      BY <1>0 DEF AccessTypes, AskTypes
    <3> QED
      BY <1>17, <3>1, AskShapes DEF Enroll
  <2>2. PICK c \in Creds, a \in Agents_ : c = ask[r].as /\ a = ask[r].to
    BY <2>1 DEF Done
  <2>3. PICK f \in Creds : f = Root(c)
    BY <2>2, Families
  <2>4. UNCHANGED <<keyState, rootOf, meant, pairing>>
    BY <1>17 DEF Enroll
  <2>5. meant[f].mode = "selected" /\ a \in meant[f].sel
    BY <2>1, <2>2, <2>3 DEF AccessInv, AsksWithinReach, AskWithinReach, ListsNow
  <2> DEFINE Found(d) == Root(d) = f /\ scopeRow[d].mode = "selected"
             Longer(d) == [scopeRow[d] EXCEPT !.sel = scopeRow[d].sel \cup {a}]
  <2>6. /\ scopeRow' = [d \in Creds |-> IF Found(d) THEN Longer(d) ELSE scopeRow[d]]
        /\ unlisted' = [unlisted EXCEPT ![f] = unlisted[f] \ {a}]
    BY <1>17, <2>2, <2>3 DEF Enroll
  <2>7. \A d \in Creds : /\ Longer(d) \in Scoped /\ Longer(d).mode = scopeRow[d].mode
                         /\ Longer(d).sel = scopeRow[d].sel \cup {a}
    BY <1>1 DEF Scoped
  <2> HIDE DEF Longer
  <2>8. ScopeTypes'
    BY <1>1, <2>4, <2>6, <2>7 DEF ScopeTypes
  <2>9. \A d \in Creds :
            /\ scopeRow'[d] = IF Found(d) THEN Longer(d) ELSE scopeRow[d]
            /\ unlisted'[d] = IF d = f THEN unlisted[f] \ {a} ELSE unlisted[d]
    BY <1>1, <2>6
  <2>10. StoredAsMeant'
    <3> SUFFICES ASSUME NEW d \in Creds
                 PROVE  IF Retired(d)' THEN scopeRow'[d] = All ELSE StoresWhatIsMeant(d)'
      BY DEF StoredAsMeant
    <3>1. Root(d)' = Root(d) /\ (Retired(d)' <=> Retired(d)) /\ Root(d) \in Creds
      BY <2>4, Families, FamiliesStay
    <3>2. IF Retired(d) THEN scopeRow[d] = All ELSE StoresWhatIsMeant(d)
      BY <1>0 DEF StoredAsMeant
    <3>3. CASE Retired(d)
      <4>1. ~Found(d)
        BY <3>2, <3>3 DEF All
      <4> QED
        BY <2>9, <3>1, <3>2, <3>3, <4>1
    <3>4. CASE ~Retired(d) /\ Root(d) = f
      <4>1. Found(d)
        BY <2>5, <3>2, <3>4 DEF StoresWhatIsMeant
      <4>2. scopeRow'[d].mode = scopeRow[d].mode /\ scopeRow'[d].sel = scopeRow[d].sel \cup {a}
        BY <2>7, <2>9, <4>1
      <4>3. StoresWhatIsMeant(d)'
        BY <2>4, <2>5, <2>9, <3>1, <3>2, <3>4, <4>2 DEF StoresWhatIsMeant
      <4> QED
        BY <3>1, <3>4, <4>3
    <3>5. CASE ~Retired(d) /\ Root(d) # f
      <4>1. scopeRow'[d] = scopeRow[d] /\ unlisted'[Root(d)] = unlisted[Root(d)]
        BY <2>9, <3>1, <3>5
      <4> QED
        BY <2>4, <3>1, <3>2, <3>5, <4>1 DEF StoresWhatIsMeant
    <3> QED
      BY <3>3, <3>4, <3>5
  <2>11. OwnHasClient'
    BY <1>0, <2>4 DEF OwnHasClient
  <2>12. MeantGrows
    BY <2>4 DEF MeantGrows
  <2> QED
    BY <2>8, <2>10, <2>11, <2>12
<1>12. ASSUME NEW g \in Grants,
              \/ \E app \in Apps, scope \in Scopes : IssueCode(g, app, scope)
              \/ \E app \in Apps \cup {NoApp} : DeviceAuthorization(g, app)
              \/ \E a \in Agents_, scope \in Scopes :
                     ApproveExisting(g, a, scope) \/ ApproveNew(g, a, scope)
              \/ Deny(g) \/ CodeExpires(g) \/ RevokePairing(g)
       PROVE  Goal
  <2>1. UNCHANGED <<scopeRow, meant, unlisted, keyState, rootOf>>
    BY <1>12
    DEF IssueCode, DeviceAuthorization, ApproveExisting, ApproveNew, Deny, CodeExpires,
        RevokePairing
  <2> QED
    BY <1>4, <1>6, <2>1
<1>13. ASSUME NEW c \in Creds, CacheExpires(c)  PROVE Goal
  BY <1>4, <1>6, <1>13 DEF CacheExpires
<1>14. ASSUME NEW r \in Asks,
              \/ \E c \in Creds : Authenticate(r, c)
              \/ \E a \in Agents_ : ActCached(r, a) \/ LoadScope(r, a)
              \/ ActLoaded(r) \/ ResolvesGrant(r) \/ AskEnds(r) \/ SignOut(r)
       PROVE  Goal
  <2>1. UNCHANGED <<scopeRow, meant, unlisted, keyState, rootOf>>
    BY <1>14
    DEF Authenticate, ActCached, LoadScope, ActLoaded, ResolvesGrant, AskEnds, SignOut
  <2> QED
    BY <1>4, <1>6, <2>1
<1>15. ASSUME UNCHANGED accessVars  PROVE Goal
  BY <1>4, <1>6, <1>15 DEF accessVars
<1>16. Goal
  <2> HIDE DEF Goal
  <2> QED
    BY <1>7, <1>8, <1>9, <1>10, <1>11, <1>12, <1>13, <1>14, <1>15, <1>17 DEF AccessNext
<1> QED
  BY <1>16

\* What the relay looks up for a credential, but for a key that was rotated,
\* is what the credential was meant to reach.
LEMMA LooksUpWhatIsMeant ==
    ASSUME AccessInv, NEW c \in Creds, ~Retired(c)
    PROVE  InScope(c) \subseteq Reach(c) /\ Reach(c) \subseteq Agents_
<1>1. /\ StoresWhatIsMeant(c) /\ Root(c) \in Creds
      /\ meant[Root(c)].mode \in Modes /\ meant[Root(c)].sel \subseteq Agents_
  BY Families DEF AccessInv, StoredAsMeant, AccessTypes, ScopeTypes, Scoped
<1>2. CASE meant[Root(c)].mode = "all"
  BY <1>1, <1>2 DEF InScope, Reach, StoresWhatIsMeant
<1>3. CASE meant[Root(c)].mode = "own"
  <2>1. /\ InScope(c) = {a \in Made : madeBy[a] = Attribution(c) /\ madeBy[a] # Person}
        /\ Reach(c) = {a \in Made : origin[a] = IF c \in Keys THEN rootOf[c] ELSE pairing[c].app}
    BY <1>1, <1>3 DEF InScope, Reach, StoresWhatIsMeant
  <2>2. AttributedAsMade /\ OwnHasClient
    BY DEF AccessInv, KeysInv
  <2>3. CASE c \in Keys
    BY <2>1, <2>2, <2>3 DEF AttributedAsMade, Attribution, Retired, Made
  <2>4. CASE c \notin Keys
    <3>1. pairing[c].app \in Apps
      BY <1>3, <2>2, <2>4 DEF OwnHasClient, Creds, Root
    <3>2. pairing[c].app # NoApp /\ pairing[c].app \notin Keys
      BY <3>1, AccessAssumption
    <3> QED
      BY <2>1, <2>2, <2>4, <3>2 DEF AttributedAsMade, Attribution, Made
  <2> QED
    BY <2>3, <2>4
<1>4. CASE meant[Root(c)].mode = "selected"
  BY <1>1, <1>4 DEF InScope, Reach, StoresWhatIsMeant
<1> QED
  BY <1>1, <1>2, <1>3, <1>4 DEF Modes

\* A live key looks up all that it was meant to reach, but for the agents not
\* listed yet.
LEMMA LiveKeysReachAll ==
    ASSUME AccessInv, NEW k \in Keys, keyState[k] = "live"
    PROVE  Reach(k) \subseteq InScope(k) \cup unlisted[rootOf[k]]
<1>1. k \in Creds /\ ~Retired(k) /\ Root(k) = rootOf[k]
  BY DEF Creds, Retired, Root
<1>2. /\ StoresWhatIsMeant(k) /\ Root(k) \in Creds
      /\ meant[Root(k)].mode \in Modes
  BY <1>1, Families DEF AccessInv, StoredAsMeant, AccessTypes, ScopeTypes, Scoped
<1>3. CASE meant[Root(k)].mode = "own"
  <2>1. /\ InScope(k) = {a \in Made : madeBy[a] = k /\ madeBy[a] # Person}
        /\ Reach(k) = {a \in Made : origin[a] = rootOf[k]}
    BY <1>2, <1>3 DEF InScope, Reach, Attribution, StoresWhatIsMeant
  <2>2. k # Person
    BY AccessAssumption
  <2> QED
    BY <2>1, <2>2 DEF AccessInv, KeysInv, AttributedAsMade, Made
<1>4. CASE meant[Root(k)].mode # "own"
  BY <1>1, <1>2, <1>4 DEF InScope, Reach, Modes, StoresWhatIsMeant
<1> QED
  BY <1>3, <1>4

\* The reach of a credential in use only grows, so what was told of it stays
\* within it.
LEMMA ReachGrows ==
    ASSUME AccessInv, [AccessNext]_accessVars
    PROVE  \A c \in Creds : \A ids : Told(c, ids) => Told(c, ids)'
<1> SUFFICES ASSUME NEW c \in Creds, Used(c)
             PROVE  /\ Used(c)'
                    /\ Retired(c) => Retired(c)'
                    /\ ~Retired(c) => Reach(c) \subseteq Reach(c)'
  BY DEF Told
<1>1. PairingsStay /\ KeysStay /\ AgentsStay /\ MeantGrows
  BY CredentialsStay, ScopesStep
<1>2. c \in Grants \/ c \in Keys
  BY DEF Creds
<1>3. Used(c)'
  BY <1>1, <1>2 DEF Used, PairingsStay, KeysStay
<1>4. Retired(c) => Retired(c)'
  BY <1>1 DEF Retired, KeysStay
<1>5. Root(c)' = Root(c) /\ Root(c) \in Creds
  BY <1>1, Families DEF Root, Used, KeysStay
<1>6. ASSUME ~Retired(c)  PROVE Reach(c) \subseteq Reach(c)'
  <2> DEFINE m == meant[Root(c)]
             n == meant'[Root(c)]
  <2>1. Reach(c) \subseteq Agents_ /\ m.mode \in Modes
    BY <1>5, <1>6, LooksUpWhatIsMeant DEF AccessInv, AccessTypes, ScopeTypes, Scoped
  <2>2. \/ n = m
        \/ m.mode = "selected" /\ n.mode = "selected" /\ m.sel \subseteq n.sel
    BY <1>1 DEF MeantGrows
  <2>3. CASE m.mode = "all"
    BY <1>5, <2>1, <2>2, <2>3 DEF Reach
  <2>4. CASE m.mode = "selected"
    BY <1>5, <2>1, <2>2, <2>4 DEF Reach
  <2>5. CASE m.mode = "own"
    <3>1. n.mode = "own"
      BY <2>2, <2>5
    <3>2. c \in Keys => rootOf'[c] = rootOf[c]
      BY <1>1 DEF Used, KeysStay
    <3>3. c \notin Keys => pairing'[c].app = pairing[c].app
      BY <1>1, <1>2 DEF Used, PairingsStay
    <3>4. \A a \in Made : a \in Made' /\ origin'[a] = origin[a]
      BY <1>1 DEF AgentsStay
    <3>5. Reach(c) = {a \in Made : origin[a] = IF c \in Keys THEN rootOf[c] ELSE pairing[c].app}
      BY <2>5 DEF Reach
    <3>6. Reach(c)' = {a \in Made' : origin'[a] = IF c \in Keys THEN rootOf'[c] ELSE pairing'[c].app}
      BY <1>5, <3>1 DEF Reach
    <3> QED
      BY <3>2, <3>3, <3>4, <3>5, <3>6
  <2> QED
    BY <2>1, <2>3, <2>4, <2>5 DEF Modes
<1> QED
  BY <1>3, <1>4, <1>6

\* The requests and the caches through every step.
LEMMA AsksStep ==
    ASSUME AccessInv, [AccessNext]_accessVars
    PROVE  AskTypes' /\ CachesWithinReach' /\ AsksWithinReach'
<1> DEFINE AskType == {NotAsking} \cup Authenticated \cup Loaded \cup Done
           Goal == AskTypes' /\ CachesWithinReach' /\ AsksWithinReach'
<1>0. AskTypes /\ CachesWithinReach /\ AsksWithinReach
  BY DEF AccessInv, AccessTypes
<1>1. cached \in [Creds -> {Uncached} \cup Cached_] /\ ask \in [Asks -> AskType]
  BY <1>0 DEF AskTypes
<1>2. \A c \in Creds : \A ids : Told(c, ids) => Told(c, ids)'
  BY ReachGrows
<1>3. \A c \in Creds : Used(c) => Used(c)'
  <2>1. PairingsStay /\ KeysStay
    BY CredentialsStay
  <2> QED
    BY <2>1 DEF Used, PairingsStay, KeysStay, Creds
<1>4. \A x \in AskType : x # NotAsking => x.as \in Creds
  BY DEF Authenticated, Loaded, Done
<1>5. ASSUME NEW x \in AskType, AskWithinReach(x)  PROVE AskWithinReach(x)'
  <2>1. x \in Authenticated \cup Loaded \cup Done => x.as \in Creds
    BY DEF Authenticated, Loaded, Done
  <2>2. x.at \in {"acted", "made", "enrolling"} => x \in Done
    BY AskShapes
  <2>3. ASSUME x \in Done
        PROVE  /\ Retired(x.as) => Retired(x.as)'
               /\ ListsNow(x) => ListsNow(x)'
               /\ meant[Root(x.as)].mode = "selected" => meant'[Root(x.as)'].mode = "selected"
    <3>1. Used(x.as) /\ x.as \in Creds
      BY <1>5, <2>1, <2>3 DEF AskWithinReach
    <3>2. PairingsStay /\ KeysStay /\ MeantGrows
      BY CredentialsStay, ScopesStep
    <3>3. Root(x.as)' = Root(x.as)
      BY <3>1, <3>2 DEF Root, Used, KeysStay
    <3>4. Retired(x.as) => Retired(x.as)'
      BY <3>2 DEF Retired, KeysStay
    <3>5. \/ meant'[Root(x.as)] = meant[Root(x.as)]
          \/ /\ meant[Root(x.as)].mode = "selected" /\ meant'[Root(x.as)].mode = "selected"
             /\ meant[Root(x.as)].sel \subseteq meant'[Root(x.as)].sel
      BY <3>1, <3>2 DEF MeantGrows
    <3> QED
      BY <3>3, <3>4, <3>5 DEF ListsNow
  <2>4. /\ x \in Authenticated \cup Loaded \cup Done => Used(x.as)'
        /\ x \in Loaded => Told(x.as, x.ids)'
        /\ x.at = "acted" => Told(x.as, {x.to})'
    BY <1>2, <1>3, <1>5, <2>1, <2>2 DEF AskWithinReach
  <2>5. /\ x.at = "made" => Retired(x.as)' \/ ListsNow(x)'
        /\ x.at = "enrolling" => meant'[Root(x.as)'].mode = "selected" /\ ListsNow(x)'
    BY <1>5, <2>2, <2>3 DEF AskWithinReach
  <2> QED
    BY <2>4, <2>5 DEF AskWithinReach
<1>6. AskWithinReach(NotAsking) /\ AskWithinReach(NotAsking)'
  <2>1. NotAsking.at = "idle" /\ NotAsking \notin Authenticated \cup Loaded \cup Done
    BY AskShapes DEF NotAsking
  <2> QED
    BY <2>1 DEF AskWithinReach
<1>7. ASSUME cached' = cached  PROVE CachesWithinReach'
  BY <1>0, <1>2, <1>7 DEF CachesWithinReach
<1>8. ASSUME NEW c \in Creds, cached' = [cached EXCEPT ![c] = Uncached]
      PROVE  CachesWithinReach' /\ cached' \in [Creds -> {Uncached} \cup Cached_]
  <2>1. ~Uncached.known
    BY DEF Uncached
  <2> QED
    BY <1>0, <1>1, <1>2, <1>8, <2>1 DEF CachesWithinReach
<1>9. ASSUME ask' = ask  PROVE AsksWithinReach'
  <2> SUFFICES ASSUME NEW r \in Asks PROVE AskWithinReach(ask[r])'
    BY DEF AsksWithinReach
  <2>1. PICK x \in AskType : x = ask[r]
    BY <1>1
  <2>2. AskWithinReach(x)'
    BY <1>0, <1>5, <2>1 DEF AsksWithinReach
  <2> QED
    BY <1>9, <2>1, <2>2
<1>10. ASSUME NEW r \in Asks, NEW y \in AskType, ask' = [ask EXCEPT ![r] = y],
              AskWithinReach(y)'
       PROVE  AsksWithinReach' /\ ask' \in [Asks -> AskType]
  <2>1. ask' \in [Asks -> AskType]
    <3> HIDE DEF AskType
    <3> QED
      BY <1>1, <1>10
  <2> SUFFICES ASSUME NEW q \in Asks PROVE AskWithinReach(ask[q])'
    BY <2>1 DEF AsksWithinReach
  <2>2. PICK x \in AskType : x = ask[q]
    BY <1>1
  <2>3. AskWithinReach(x)'
    BY <1>0, <1>5, <2>2 DEF AsksWithinReach
  <2>4. ask'[q] = IF q = r THEN y ELSE x
    <3> HIDE DEF AskType
    <3> QED
      BY <1>1, <1>10, <2>2
  <2> QED
    BY <1>10, <2>3, <2>4
<1>11. ASSUME UNCHANGED <<cached, ask>>  PROVE Goal
  BY <1>0, <1>1, <1>7, <1>9, <1>11 DEF AskTypes
<1>12. NotAsking \in AskType
  OBVIOUS
\* A request goes on, and the caches are left.
<1>13. ASSUME NEW r \in Asks, NEW y \in AskType, ask' = [ask EXCEPT ![r] = y], cached' = cached,
              AskWithinReach(y)'
       PROVE  Goal
  <2>1. AsksWithinReach' /\ ask' \in [Asks -> AskType]
    BY <1>10, <1>13
  <2>2. CachesWithinReach'
    BY <1>7, <1>13
  <2> QED
    BY <1>1, <1>13, <2>1, <2>2 DEF AskTypes
<1>14. ASSUME NEW r \in Asks, NEW c \in Creds, Authenticate(r, c)  PROVE Goal
  <2> DEFINE y == [at |-> "authenticated", as |-> c]
  <2>1. y \in Authenticated /\ y.at \notin {"acted", "made", "enrolling"} /\ y.as = c
    BY DEF Authenticated
  <2>2. Used(c)'
    BY <1>3, <1>14 DEF Authenticate, Alive, Used
  <2>3. y \notin Loaded
    BY <2>1, AskShapes
  <2>4. AskWithinReach(y)'
    BY <2>1, <2>2, <2>3 DEF AskWithinReach
  <2>5. ask' = [ask EXCEPT ![r] = y] /\ cached' = cached
    BY <1>14 DEF Authenticate
  <2> HIDE DEF y, Goal
  <2> QED
    BY <1>13, <2>1, <2>4, <2>5
<1>15. ASSUME NEW r \in Asks, ask[r].at = "authenticated"
       PROVE  ask[r] \in Authenticated /\ ask[r].as \in Creds /\ Used(ask[r].as)
  <2>1. ask[r] \in AskType /\ AskWithinReach(ask[r])
    BY <1>0, <1>1 DEF AsksWithinReach
  <2>2. ask[r] \in Authenticated
    BY <1>15, <2>1, AskShapes
  <2> QED
    BY <2>1, <2>2 DEF AskWithinReach, Authenticated
<1>16. ASSUME NEW r \in Asks, NEW a \in Agents_, ActCached(r, a)  PROVE Goal
  <2>1. PICK c \in Creds : c = ask[r].as
    BY <1>15, <1>16 DEF ActCached
  <2> DEFINE y == [at |-> "acted", as |-> c, to |-> a]
  <2>2. Told(c, {a})
    BY <1>0, <1>16, <2>1 DEF ActCached, CacheAllows, CachesWithinReach, Told
  <2>3. Told(c, {a})' /\ Used(c)'
    BY <1>2, <1>3, <2>2 DEF Told
  <2>4. y \in Done /\ y.as = c /\ y.to = a /\ y.at = "acted"
    BY <1>16 DEF Done
  <2>5. y \notin Loaded
    BY <2>4, AskShapes
  <2>6. AskWithinReach(y)'
    BY <2>3, <2>4, <2>5 DEF AskWithinReach
  <2>7. ask' = [ask EXCEPT ![r] = y] /\ cached' = cached
    BY <1>16, <2>1 DEF ActCached
  <2> HIDE DEF y, Goal
  <2> QED
    BY <1>13, <2>4, <2>6, <2>7
<1>17. ASSUME NEW r \in Asks, NEW a \in Agents_, LoadScope(r, a)  PROVE Goal
  <2>1. PICK c \in Creds : c = ask[r].as /\ Used(c)
    BY <1>15, <1>17 DEF LoadScope
  <2>2. PICK ids : ids = InScope(c)
    OBVIOUS
  <2> DEFINE y == [at |-> "loaded", as |-> c, to |-> a, ids |-> ids]
  <2>3. Told(c, ids)
    BY <2>1, <2>2, LooksUpWhatIsMeant DEF Told
  <2>4. ids \subseteq Agents_
    <3>1. scopeRow[c] \in Scoped
      BY DEF AccessInv, AccessTypes, ScopeTypes
    <3> QED
      BY <2>2, <3>1 DEF InScope, Scoped, Made
  <2>5. Told(c, ids)' /\ Used(c)'
    BY <1>2, <1>3, <2>1, <2>3
  <2>6. y \in Loaded /\ y.as = c /\ y.ids = ids /\ y.at \notin {"acted", "made", "enrolling"}
    BY <1>17, <2>4 DEF Loaded
  <2>7. AskWithinReach(y)'
    BY <2>5, <2>6 DEF AskWithinReach
  <2>8. ask' = [ask EXCEPT ![r] = y] /\ cached' = cached
    BY <1>17, <2>1, <2>2 DEF LoadScope
  <2> HIDE DEF y, Goal
  <2> QED
    BY <1>13, <2>6, <2>7, <2>8
<1>18. ASSUME NEW r \in Asks, NEW a \in Agents_, MakeAgent(r, a)  PROVE Goal
  <2>1. PICK c \in Creds : c = ask[r].as /\ Used(c)
    BY <1>15, <1>18 DEF MakeAgent
  <2> DEFINE y == [at |-> "made", as |-> c, to |-> a]
  <2>2. y \in Done /\ y.as = c /\ y.at = "made" /\ y.to = a
    BY <1>18 DEF Done
  <2>3. y \notin Loaded /\ Used(c)'
    BY <1>3, <2>1, <2>2, AskShapes
  <2>6. ASSUME ~Retired(c)  PROVE ListsNow(y)'
    <3>1. Root(c)' = Root(c) /\ Root(c) \in Creds
      BY <1>18, Families DEF MakeAgent, Root
    <3>2. StoresWhatIsMeant(c) /\ meant \in [Creds -> Scoped]
      BY <2>6 DEF AccessInv, StoredAsMeant, AccessTypes, ScopeTypes
    <3>3. CASE scopeRow[c].mode = "selected"
      <4>1. meant' = [meant EXCEPT ![Root(c)].sel = meant[Root(c)].sel \cup {a}]
        BY <1>18, <2>1, <3>3 DEF MakeAgent
      <4>2. a \in meant'[Root(c)].sel
        BY <3>1, <3>2, <4>1 DEF Scoped
      <4> QED
        BY <2>2, <3>1, <4>2 DEF ListsNow
    <3>4. CASE scopeRow[c].mode # "selected"
      <4>1. meant' = [meant EXCEPT ![Root(c)].sel = meant[Root(c)].sel]
        BY <1>18, <2>1, <3>4 DEF MakeAgent
      <4>2. meant'[Root(c)].mode # "selected"
        BY <3>1, <3>2, <3>4, <4>1 DEF Scoped, StoresWhatIsMeant
      <4> QED
        BY <2>2, <3>1, <4>2 DEF ListsNow
    <3> QED
      BY <3>3, <3>4
  <2>7. Retired(c)' <=> Retired(c)
    BY <1>18 DEF MakeAgent, Retired
  <2>4. AskWithinReach(y)'
    BY <2>2, <2>3, <2>6, <2>7 DEF AskWithinReach
  <2>5. ask' = [ask EXCEPT ![r] = y] /\ cached' = cached
    BY <1>18, <2>1 DEF MakeAgent
  <2> HIDE DEF y, Goal
  <2> QED
    BY <1>13, <2>2, <2>4, <2>5
<1>19. ASSUME NEW r \in Asks, ActLoaded(r)  PROVE Goal
  <2>1. PICK x \in Loaded : x = ask[r]
    <3>1. ask[r] \in AskType
      BY <1>1
    <3> QED
      BY <1>19, <3>1, AskShapes DEF ActLoaded
  <2>2. x.as \in Creds /\ x.to \in Agents_ /\ x.ids \subseteq Agents_
    BY DEF Loaded
  <2>3. Told(x.as, x.ids) /\ Used(x.as)
    BY <1>0, <2>1 DEF AsksWithinReach, AskWithinReach
  <2>4. Told(x.as, x.ids)' /\ Used(x.as)'
    BY <1>2, <1>3, <2>2, <2>3
  <2> DEFINE e == [known |-> TRUE, ids |-> x.ids]
             y == [at |-> "acted", as |-> x.as, to |-> x.to]
  <2>5. e \in Cached_ /\ e.ids = x.ids
    BY <2>2 DEF Cached_
  <2>6. cached' = [cached EXCEPT ![x.as] = e]
    BY <1>19, <2>1 DEF ActLoaded
  <2>7. CachesWithinReach' /\ cached' \in [Creds -> {Uncached} \cup Cached_]
    <3> HIDE DEF e
    <3>1. \A c \in Creds : cached'[c] = IF c = x.as THEN e ELSE cached[c]
      BY <1>1, <2>6
    <3>2. CachesWithinReach'
      BY <1>0, <1>2, <2>4, <2>5, <3>1 DEF CachesWithinReach
    <3> QED
      BY <1>1, <2>5, <2>6, <3>2
  <2>8. CASE x.to \in x.ids
    <3>1. Told(x.as, {x.to})'
      BY <2>4, <2>8 DEF Told
    <3>2. y \in Done /\ y.as = x.as /\ y.to = x.to
      BY <2>2 DEF Done
    <3>3. y \notin Loaded
      BY <3>2, AskShapes
    <3>4. AskWithinReach(y)'
      BY <2>4, <3>1, <3>2, <3>3 DEF AskWithinReach
    <3>5. ask' = [ask EXCEPT ![r] = y]
      BY <1>19, <2>1, <2>8 DEF ActLoaded
    <3> HIDE DEF y
    <3>6. AsksWithinReach' /\ ask' \in [Asks -> AskType]
      BY <1>10, <3>2, <3>4, <3>5
    <3> QED
      BY <2>7, <3>6 DEF AskTypes
  <2>9. CASE x.to \notin x.ids
    <3>1. ask' = [ask EXCEPT ![r] = NotAsking]
      BY <1>19, <2>1, <2>9 DEF ActLoaded, Answered
    <3>2. AsksWithinReach' /\ ask' \in [Asks -> AskType]
      BY <1>6, <1>10, <1>12, <3>1
    <3> QED
      BY <2>7, <3>2 DEF AskTypes
  <2> QED
    BY <2>8, <2>9
<1>20. ASSUME NEW r \in Asks, Enroll(r)  PROVE Goal
  <2>1. ask[r] \in Done
    <3>1. ask[r] \in AskType
      BY <1>1
    <3> QED
      BY <1>20, <3>1, AskShapes DEF Enroll
  <2>2. PICK c \in Creds : c = ask[r].as
    BY <2>1 DEF Done
  <2>3. ask' = [ask EXCEPT ![r] = NotAsking] /\ cached' = [cached EXCEPT ![c] = Uncached]
    BY <1>20, <2>2 DEF Enroll, Forget, Answered
  <2>4. AsksWithinReach' /\ ask' \in [Asks -> AskType]
    BY <1>6, <1>10, <1>12, <2>3
  <2>5. CachesWithinReach' /\ cached' \in [Creds -> {Uncached} \cup Cached_]
    BY <1>8, <2>3
  <2> QED
    BY <2>4, <2>5 DEF AskTypes
<1>27. ASSUME NEW r \in Asks, ResolvesGrant(r)  PROVE Goal
  <2>1. PICK x \in Done : x = ask[r] /\ x.at = "made"
    <3>1. ask[r] \in AskType
      BY <1>1
    <3> QED
      BY <1>27, <3>1, AskShapes DEF ResolvesGrant
  <2>2. x.as \in Creds /\ x.to \in Agents_ /\ Used(x.as)
    BY <1>0, <2>1 DEF Done, AsksWithinReach, AskWithinReach
  <2>3. CASE scopeRow[x.as].mode = "selected"
    <3> DEFINE y == [x EXCEPT !.at = "enrolling"]
    <3>1. y \in Done /\ y.at = "enrolling" /\ y.as = x.as /\ y.to = x.to
      BY DEF Done
    <3>2. ask' = [ask EXCEPT ![r] = y] /\ cached' = cached
      BY <1>27, <2>1, <2>3 DEF ResolvesGrant
    <3>3. ~Retired(x.as) /\ meant[Root(x.as)].mode = "selected"
      <4>1. ~Retired(x.as)
        BY <2>2, <2>3 DEF AccessInv, StoredAsMeant, All
      <4> QED
        BY <2>2, <2>3, <4>1 DEF AccessInv, StoredAsMeant, StoresWhatIsMeant
    <3>4. x.to \in meant[Root(x.as)].sel
      BY <1>0, <2>1, <3>3 DEF AsksWithinReach, AskWithinReach, ListsNow
    <3>5. meant' = meant /\ Root(x.as)' = Root(x.as) /\ Used(x.as)'
      BY <1>3, <1>27, <2>2 DEF ResolvesGrant, Root
    <3>6. y \notin Loaded
      BY <3>1, AskShapes
    <3>7. AskWithinReach(y)'
      BY <3>1, <3>3, <3>4, <3>5, <3>6 DEF AskWithinReach, ListsNow
    <3> HIDE DEF y, Goal
    <3> QED
      BY <1>13, <3>1, <3>2, <3>7
  <2>4. CASE scopeRow[x.as].mode # "selected"
    <3>1. ask' = [ask EXCEPT ![r] = NotAsking] /\ cached' = [cached EXCEPT ![x.as] = Uncached]
      BY <1>27, <2>1, <2>4 DEF ResolvesGrant, Forget, Answered
    <3>2. AsksWithinReach' /\ ask' \in [Asks -> AskType]
      BY <1>6, <1>10, <1>12, <3>1
    <3>3. CachesWithinReach' /\ cached' \in [Creds -> {Uncached} \cup Cached_]
      BY <1>8, <2>2, <3>1
    <3> QED
      BY <3>2, <3>3 DEF AskTypes
  <2> QED
    BY <2>3, <2>4
<1>21. ASSUME NEW r \in Asks, AskEnds(r) \/ SignOut(r)  PROVE Goal
  <2>1. ask' = [ask EXCEPT ![r] = NotAsking] /\ cached' = cached
    BY <1>21 DEF AskEnds, SignOut, Answered
  <2> HIDE DEF Goal
  <2> QED
    BY <1>6, <1>12, <1>13, <2>1
<1>22. ASSUME NEW c \in Creds, CacheExpires(c)  PROVE Goal
  <2>1. cached' = [cached EXCEPT ![c] = Uncached] /\ ask' = ask
    BY <1>22 DEF CacheExpires
  <2>2. CachesWithinReach' /\ cached' \in [Creds -> {Uncached} \cup Cached_]
    BY <1>8, <2>1
  <2>3. AsksWithinReach'
    BY <1>9, <2>1
  <2> QED
    BY <1>0, <2>1, <2>2, <2>3 DEF AskTypes
<1>23. ASSUME NEW g \in Grants,
              \/ \E app \in Apps, scope \in Scopes : IssueCode(g, app, scope)
              \/ \E app \in Apps \cup {NoApp} : DeviceAuthorization(g, app)
              \/ \E a \in Agents_, scope \in Scopes :
                     ApproveExisting(g, a, scope) \/ ApproveNew(g, a, scope)
              \/ Deny(g) \/ CodeExpires(g) \/ MintToken(g) \/ RevokePairing(g)
       PROVE  Goal
  <2>1. UNCHANGED <<cached, ask>>
    BY <1>23
    DEF IssueCode, DeviceAuthorization, ApproveExisting, ApproveNew, Deny, CodeExpires,
        MintToken, RevokePairing
  <2> HIDE DEF Goal
  <2> QED
    BY <1>11, <2>1
<1>24. ASSUME NEW k \in Keys,
              \/ \E scope \in Scopes : CreateKey(k, scope)
              \/ EndKey(k)
              \/ \E new \in Keys : RotateKey(k, new)
       PROVE  Goal
  <2>1. UNCHANGED <<cached, ask>>
    BY <1>24 DEF CreateKey, EndKey, RotateKey
  <2> HIDE DEF Goal
  <2> QED
    BY <1>11, <2>1
<1>25. ASSUME UNCHANGED accessVars  PROVE Goal
  BY <1>11, <1>25 DEF accessVars
<1>26. Goal
  <2> HIDE DEF Goal
  <2> QED
    BY <1>14, <1>16, <1>17, <1>18, <1>19, <1>20, <1>21, <1>22, <1>23, <1>24, <1>25,
       <1>27 DEF AccessNext
<1> QED
  BY <1>26

\* The invariant of the credentials holds in every state.  That a credential
\* acts within its reach rests on what the caches and the requests were told,
\* and that on scopes being stored as meant, on agents being attributed to the
\* key of their family that is in use, and on ids of keys being new.
THEOREM AccessInvariant == AccessSpec => []AccessInv
<1>1. AccessInit => AccessInv
  <2> SUFFICES ASSUME AccessInit PROVE AccessInv
    OBVIOUS
  <2>1. madeBy \in [Agents_ -> Makers] /\ \A a \in Agents_ : madeBy[a] \notin Keys
    BY AccessAssumption DEF AccessInit, Makers
  <2>2. AccessTypes
    BY <2>1, ScopesTyped
    DEF AccessInit, AccessTypes, PairingTypes, KeyTypes, ScopeTypes, AgentTypes, AskTypes
  <2>3. MintedOfApproved
    <3>1. NoGrant.mints = 0
      BY DEF NoGrant
    <3>2. ~(NoGrant.mints > 0)
      BY <3>1
    <3> QED
      BY <3>2 DEF AccessInit, MintedOfApproved
  <2>4. StoredAsMeant /\ OwnHasClient
    BY DEF AccessInit, StoredAsMeant, StoresWhatIsMeant, Root, OwnHasClient, Retired, All, Creds
  <2>5. KeysInv
    BY <2>1 DEF AccessInit, KeysInv, FreshIsNowhere, OneOfAFamily, AttributedAsMade
  <2>6. CachesWithinReach
    BY DEF AccessInit, CachesWithinReach, Uncached
  <2>7. AsksWithinReach
    <3>1. NotAsking.at = "idle" /\ NotAsking \notin Authenticated \cup Loaded \cup Done
      BY AskShapes DEF NotAsking
    <3> QED
      BY <3>1 DEF AccessInit, AsksWithinReach, AskWithinReach
  <2> QED
    BY <2>2, <2>3, <2>4, <2>5, <2>6, <2>7 DEF AccessInv
<1>2. AccessInv /\ [AccessNext]_accessVars => AccessInv'
  <2> SUFFICES ASSUME AccessInv, [AccessNext]_accessVars PROVE AccessInv'
    OBVIOUS
  <2>1. PairingTypes' /\ MintedOfApproved'
    BY PairingsStep DEF AccessInv
  <2>2. KeyTypes' /\ AgentTypes' /\ KeysInv'
    BY KeysStep
  <2>3. ScopeTypes' /\ StoredAsMeant' /\ OwnHasClient'
    BY ScopesStep
  <2>4. AskTypes' /\ CachesWithinReach' /\ AsksWithinReach'
    BY AsksStep
  <2> QED
    BY <2>1, <2>2, <2>3, <2>4 DEF AccessInv, AccessTypes
<1> QED
  BY <1>1, <1>2, PTL DEF AccessSpec

\* pairings::revoke: a token minted of a pairing authenticates nothing once
\* the pairing is revoked, whichever of the two came first, and a code gives
\* one token.
THEOREM RevokedPairingsAreDead == AccessSpec => []RevokedForGood
<1>1. AccessInv => RevokedForGood
  <2> SUFFICES ASSUME AccessInv, NEW g \in Grants
               PROVE  /\ pairing[g].mints <= 1
                      /\ pairing[g].revoked /\ pairing[g].mints > 0 => ~Alive(g)
    BY DEF RevokedForGood
  <2>1. pairing[g].mints \in {0, 1}
    BY DEF AccessInv, AccessTypes, PairingTypes, Pairing_
  <2>2. g \notin Keys
    BY AccessAssumption
  <2>3. pairing[g].revoked /\ pairing[g].mints > 0 => g \in dead
    BY DEF AccessInv, MintedOfApproved
  <2> QED
    BY <2>1, <2>2, <2>3 DEF Alive
<1> QED
  BY <1>1, AccessInvariant, PTL

\* scope and api_keys::rotate: through caches, rotations of keys and agents
\* made on the way, a credential acts only as agents it is to reach, but for a
\* request that was under way when its key was rotated.  A live key looks up
\* all that its family is to reach, but for agents that were made and whose
\* enrolment has not come: a crash after the INSERT, or a rotation before the
\* grant is resolved, leaves them out for good.
THEOREM ReachStaysAsMeant == AccessSpec => []ReachIsKept
<1>1. AccessInv => ActsWithinReach
  BY DEF AccessInv, AsksWithinReach, AskWithinReach, ActsWithinReach, Told, Retired
<1>2. AccessInv => KeepsItsReach
  BY LiveKeysReachAll DEF KeepsItsReach
<1>3. AccessInv => ReachIsKept
  BY <1>1, <1>2 DEF ReachIsKept
<1> QED
  BY <1>3, AccessInvariant, PTL
=============================================================================

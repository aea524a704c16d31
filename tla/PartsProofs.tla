----------------------------- MODULE PartsProofs -----------------------------
(***************************************************************************)
(* Proofs about six parts that stand by themselves: the serve loop against *)
(* leases (ServeLoop), the polls relays record (Heartbeats), push agents   *)
(* and what is forwarded to them (PushAgents), an organization's agents    *)
(* (Orgs), the screening of a message (Screening), and the slugs of an     *)
(* account's agents (Slugs).                                               *)
(***************************************************************************)
EXTENDS ServeLoop, Heartbeats, PushAgents, Orgs, Screening, Slugs,
        FiniteSetTheorems, SequenceTheorems, TLAPS

----------------------------------------------------------------------------
(* ServeLoop: handlers run as often as claims allow *)

JobStatus == {"pending", "in_progress", "settled", "timeout"}
Job_ == [status : JobStatus, deliveries : Nat]

ServeTypes ==
    /\ job \in [Jobs -> Job_]
    /\ batch \in [Workers -> Seq(Jobs)]
    /\ ran \in [Jobs -> Nat] /\ releases \in [Jobs -> Nat]

\* What is pending can be claimed once more, and a claim that stands counts.
DeliveredWithin ==
    \A j \in Jobs :
        /\ job[j].deliveries <= MaxClaims
        /\ job[j].status = "pending" => job[j].deliveries < MaxClaims
        /\ job[j].status = "in_progress" => job[j].deliveries >= 1

\* A worker holds an invocation once.
HeldOnce ==
    \A w \in Workers : \A m, n \in DOMAIN batch[w] : batch[w][m] = batch[w][n] => m = n

\* Each run, and each copy that will run, stands for a claim, whether it is
\* still counted or was given back.
Holders(j) == {w \in Workers : \E n \in DOMAIN batch[w] : batch[w][n] = j}
RunPerClaim ==
    \A j \in Jobs : ran[j] + Cardinality(Holders(j)) <= job[j].deliveries + releases[j]

ServeInv == ServeTypes /\ DeliveredWithin /\ HeldOnce /\ RunPerClaim

\* The workers that hold an invocation, as their number goes down or up by one.
LEMMA HoldersCount ==
    ASSUME NEW S \in SUBSET Workers
    PROVE  /\ IsFiniteSet(S) /\ Cardinality(S) \in Nat
           /\ \A T \in SUBSET S : Cardinality(T) <= Cardinality(S) /\ Cardinality(T) \in Nat
           /\ \A w \in S : Cardinality(S \ {w}) = Cardinality(S) - 1
           /\ \A w \in Workers : \A T \in SUBSET (S \cup {w}) :
                  Cardinality(T) <= Cardinality(S) + 1
<1>1. IsFiniteSet(S) /\ Cardinality(S) \in Nat
  BY ServeAssumption, FS_Subset, FS_CardinalityType
<1>2. \A T \in SUBSET S : Cardinality(T) <= Cardinality(S) /\ Cardinality(T) \in Nat
  BY <1>1, FS_Subset, FS_CardinalityType
<1>3. \A w \in S : Cardinality(S \ {w}) = Cardinality(S) - 1
  BY <1>1, FS_RemoveElement
<1>4. ASSUME NEW w \in Workers, NEW T \in SUBSET (S \cup {w})
      PROVE  Cardinality(T) <= Cardinality(S) + 1
  <2>1. /\ IsFiniteSet(S \cup {w})
        /\ Cardinality(S \cup {w}) = IF w \in S THEN Cardinality(S) ELSE Cardinality(S) + 1
    BY <1>1, FS_AddElement
  <2>2. Cardinality(T) <= Cardinality(S \cup {w}) /\ Cardinality(T) \in Nat
    BY <2>1, FS_Subset, FS_CardinalityType
  <2> QED
    BY <1>1, <2>1, <2>2
<1> QED
  BY <1>1, <1>2, <1>3, <1>4

\* The serve loop's invariant through every step.
LEMMA ServeStep ==
    ASSUME ServeInv, [ServeNext]_serveVars
    PROVE  ServeInv'
<1> DEFINE Goal == ServeInv'
<1>0. ServeTypes /\ DeliveredWithin /\ HeldOnce /\ RunPerClaim
  BY DEF ServeInv
<1>1. /\ job \in [Jobs -> Job_] /\ batch \in [Workers -> Seq(Jobs)]
      /\ ran \in [Jobs -> Nat] /\ releases \in [Jobs -> Nat]
      /\ MaxClaims \in Nat /\ MaxClaims >= 1
      /\ \A j \in Jobs : job[j].deliveries \in Nat /\ job[j].status \in JobStatus
  BY <1>0, ServeAssumption DEF ServeTypes, Job_
<1>2. \A j : Holders(j) \subseteq Workers /\ Cardinality(Holders(j)) \in Nat
  BY HoldersCount DEF Holders
\* Where batches only lose entries, no count of holders goes up.
<1>3. ASSUME NEW j, Holders(j)' \subseteq Holders(j)
      PROVE  Cardinality(Holders(j)') <= Cardinality(Holders(j)) /\ Cardinality(Holders(j)') \in Nat
  BY <1>2, <1>3, HoldersCount
<1>4. ASSUME NEW w \in Workers, PullsBatch(w)  PROVE Goal
  <2>1. PICK free \in SUBSET Waiting :
            /\ job' = Hand(Oldest(free))
            /\ \/ \E q \in InOrder(Oldest(free)) : batch' = [batch EXCEPT ![w] = q]
               \/ batch' = batch
    BY <1>4 DEF PullsBatch
  <2>2. batch[w] = <<>> /\ UNCHANGED <<answers, ran, releases, stops>>
    BY <1>4 DEF PullsBatch
  <2>3. PICK S : S = Oldest(free)
    OBVIOUS
  <2>4. S \subseteq Jobs /\ \A j \in S : job[j].status = "pending"
    BY <2>1, <2>3 DEF Oldest, Waiting
  <2>5. job' = [j \in Jobs |-> IF j \in S
                                 THEN [status |-> "in_progress", deliveries |-> job[j].deliveries + 1]
                                 ELSE job[j]]
    BY <2>1, <2>3 DEF Hand
  <2>6. job' \in [Jobs -> Job_]
    BY <1>1, <2>5 DEF Job_, JobStatus
  <2>7. \A j \in Jobs : job'[j] = IF j \in S
                                    THEN [status |-> "in_progress", deliveries |-> job[j].deliveries + 1]
                                    ELSE job[j]
    BY <2>5
  <2>12. ASSUME NEW j \in S
         PROVE  job'[j].status = "in_progress" /\ job'[j].deliveries = job[j].deliveries + 1
    <3>1. PICK d : d = job[j].deliveries + 1
      OBVIOUS
    <3>2. job'[j] = [status |-> "in_progress", deliveries |-> d]
      BY <2>4, <2>7, <3>1
    <3> QED
      BY <3>1, <3>2
  <2>13. \A j \in Jobs \ S : job'[j] = job[j]
    BY <2>7
  <2>14. \A j \in S : job[j].deliveries < MaxClaims
    BY <1>0, <2>4 DEF DeliveredWithin
  <2>8. DeliveredWithin'
    <3> SUFFICES ASSUME NEW j \in Jobs
                 PROVE  /\ job'[j].deliveries <= MaxClaims
                        /\ job'[j].status = "pending" => job'[j].deliveries < MaxClaims
                        /\ job'[j].status = "in_progress" => job'[j].deliveries >= 1
      BY DEF DeliveredWithin
    <3>1. CASE j \in S
      <4>1. job'[j].status = "in_progress" /\ job'[j].deliveries = job[j].deliveries + 1
        BY <2>12, <3>1
      <4>2. job[j].deliveries \in Nat /\ job[j].deliveries < MaxClaims /\ MaxClaims \in Nat
        BY <1>1, <2>14, <3>1
      <4> QED
        BY <4>1, <4>2
    <3>2. CASE j \notin S
      BY <1>0, <2>13, <3>2 DEF DeliveredWithin
    <3> QED
      BY <3>1, <3>2
  <2>9. /\ batch' \in [Workers -> Seq(Jobs)]
        /\ \A v \in Workers \ {w} : batch'[v] = batch[v]
        /\ \A n \in DOMAIN batch'[w] : batch'[w][n] \in S
        /\ \A m, n \in DOMAIN batch'[w] : batch'[w][m] = batch'[w][n] => m = n
    <3>1. CASE batch' = batch
      BY <1>1, <2>2, <3>1
    <3>2. ASSUME NEW q \in InOrder(S), batch' = [batch EXCEPT ![w] = q]
          PROVE  /\ batch' \in [Workers -> Seq(Jobs)]
                 /\ \A v \in Workers \ {w} : batch'[v] = batch[v]
                 /\ \A n \in DOMAIN batch'[w] : batch'[w][n] \in S
                 /\ \A m, n \in DOMAIN batch'[w] : batch'[w][m] = batch'[w][n] => m = n
      <4>1. IsFiniteSet(S)
        BY <2>4, ServeAssumption, FS_Subset
      <4>2. Cardinality(S) \in Nat
        BY <4>1, FS_CardinalityType
      <4>3. /\ q \in [1..Cardinality(S) -> S]
            /\ \A m, n \in DOMAIN q : m < n => q[m] < q[n]
        BY DEF InOrder
      <4>4. q \in Seq(Jobs)
        <5>1. PICK n \in Nat : n = Cardinality(S)
          BY <4>2
        <5>2. q \in [1..n -> Jobs]
          BY <2>4, <4>3, <5>1
        <5> QED
          BY <5>1, <5>2
      <4>5. \A m, n \in DOMAIN q : q[m] = q[n] => m = n
        <5> SUFFICES ASSUME NEW m \in DOMAIN q, NEW n \in DOMAIN q, m # n PROVE q[m] # q[n]
          OBVIOUS
        <5>1. m \in Nat /\ n \in Nat /\ q[m] \in Nat /\ q[n] \in Nat
          <6>1. DOMAIN q = 1..Cardinality(S)
            BY <4>3
          <6>2. m \in 1..Cardinality(S) /\ n \in 1..Cardinality(S)
            BY <6>1
          <6>3. q[m] \in S /\ q[n] \in S /\ m \in Nat /\ n \in Nat
            BY <4>2, <4>3, <6>2
          <6> QED
            BY <2>4, <6>3, ServeAssumption
        <5>2. m < n \/ n < m
          BY <5>1
        <5>3. q[m] < q[n] \/ q[n] < q[m]
          BY <4>3, <5>2
        <5> QED
          BY <5>1, <5>3
      <4>6. batch'[w] = q /\ \A v \in Workers \ {w} : batch'[v] = batch[v]
        BY <1>1, <3>2
      <4>7. batch' \in [Workers -> Seq(Jobs)]
        BY <1>1, <3>2, <4>4
      <4> QED
        BY <4>3, <4>5, <4>6, <4>7
    <3> QED
      BY <2>1, <2>3, <3>1, <3>2
  <2>10. HeldOnce'
    BY <1>0, <2>9 DEF HeldOnce
  <2>11. RunPerClaim'
    <3> SUFFICES ASSUME NEW j \in Jobs
                 PROVE  ran'[j] + Cardinality(Holders(j)') <= job'[j].deliveries + releases'[j]
      BY DEF RunPerClaim
    <3>1. /\ ran[j] + Cardinality(Holders(j)) <= job[j].deliveries + releases[j]
          /\ ran[j] \in Nat /\ releases[j] \in Nat /\ job[j].deliveries \in Nat
          /\ Cardinality(Holders(j)) \in Nat
      BY <1>0, <1>1, <1>2 DEF RunPerClaim
    <3>2. CASE j \in S
      <4>1. Holders(j)' \subseteq Holders(j) \cup {w}
        BY <2>9 DEF Holders
      <4>2. Cardinality(Holders(j)') <= Cardinality(Holders(j)) + 1
        BY <1>2, <4>1, HoldersCount
      <4>3. Cardinality(Holders(j)') \in Nat
        <5>1. Holders(j)' \subseteq Workers
          BY DEF Holders
        <5> QED
          BY <5>1, HoldersCount
      <4>4. job'[j].deliveries = job[j].deliveries + 1
        BY <2>12, <3>2
      <4> DEFINE h == Cardinality(Holders(j))
                 m == Cardinality(Holders(j)')
      <4>5. /\ ran[j] + h <= job[j].deliveries + releases[j] /\ m <= h + 1
            /\ h \in Nat /\ m \in Nat
        BY <3>1, <4>2, <4>3
      <4> HIDE DEF h, m
      <4>6. ran[j] + m <= job[j].deliveries + 1 + releases[j]
        BY <3>1, <4>5
      <4> QED
        BY <2>2, <4>4, <4>6 DEF m
    <3>3. CASE j \notin S
      <4>1. Holders(j)' \subseteq Holders(j)
        BY <2>9, <3>3 DEF Holders
      <4>2. job'[j] = job[j]
        BY <2>7, <3>3
      <4> DEFINE h == Cardinality(Holders(j))
                 m == Cardinality(Holders(j)')
      <4>3. m <= h /\ h \in Nat /\ m \in Nat
        BY <1>2, <1>3, <4>1
      <4>4. ran[j] + h <= job[j].deliveries + releases[j]
        BY <3>1
      <4> HIDE DEF h, m
      <4>5. ran[j] + m <= job[j].deliveries + releases[j]
        BY <3>1, <4>3, <4>4
      <4> QED
        BY <2>2, <4>2, <4>5 DEF m
    <3> QED
      BY <3>2, <3>3
  <2> QED
    BY <1>1, <2>2, <2>6, <2>8, <2>9, <2>10, <2>11 DEF ServeInv, ServeTypes
<1>5. ASSUME NEW w \in Workers, HandlesJob(w)  PROVE Goal
  <2>1. PICK s \in Seq(Jobs) : s = batch[w] /\ s # <<>>
    BY <1>1, <1>5 DEF HandlesJob
  <2>2. PICK k \in Jobs : k = Head(s) /\ k = s[1]
    BY <2>1
  <2>3. /\ ran' = [ran EXCEPT ![k] = ran[k] + 1] /\ batch' = [batch EXCEPT ![w] = Tail(s)]
        /\ UNCHANGED <<job, releases, stops>>
    BY <1>5, <2>1, <2>2 DEF HandlesJob
  <2>4. /\ Tail(s) \in Seq(Jobs)
        /\ \A n \in DOMAIN Tail(s) : n + 1 \in DOMAIN s /\ n + 1 # 1 /\ Tail(s)[n] = s[n + 1]
    BY <2>1
  <2>5. ServeTypes'
    BY <1>0, <1>1, <2>3, <2>4 DEF ServeTypes
  <2>6. batch'[w] = Tail(s) /\ \A v \in Workers \ {w} : batch'[v] = batch[v]
    BY <1>1, <2>3
  <2>7. \A m, n \in DOMAIN s : s[m] = s[n] => m = n
    BY <1>0, <2>1 DEF HeldOnce
  <2>8. \A m, n \in DOMAIN Tail(s) : Tail(s)[m] = Tail(s)[n] => m = n
    <3> SUFFICES ASSUME NEW m \in DOMAIN Tail(s), NEW n \in DOMAIN Tail(s),
                        Tail(s)[m] = Tail(s)[n]
                 PROVE  m = n
      OBVIOUS
    <3>1. m + 1 = n + 1
      BY <2>4, <2>7
    <3>2. m \in Nat /\ n \in Nat
      BY <2>4
    <3> QED
      BY <3>1, <3>2
  <2>9. HeldOnce'
    BY <1>0, <2>6, <2>8 DEF HeldOnce
  <2>10. RunPerClaim'
    <3> SUFFICES ASSUME NEW j \in Jobs
                 PROVE  ran'[j] + Cardinality(Holders(j)') <= job'[j].deliveries + releases'[j]
      BY DEF RunPerClaim
    <3>1. /\ ran[j] + Cardinality(Holders(j)) <= job[j].deliveries + releases[j]
          /\ ran[j] \in Nat /\ releases[j] \in Nat /\ job[j].deliveries \in Nat
          /\ Cardinality(Holders(j)) \in Nat
      BY <1>0, <1>1, <1>2 DEF RunPerClaim
    <3>2. Holders(j)' \subseteq Holders(j)
      <4> SUFFICES ASSUME NEW v \in Holders(j)'  PROVE v \in Holders(j)
        OBVIOUS
      <4>1. v \in Workers /\ \E n \in DOMAIN batch'[v] : batch'[v][n] = j
        BY DEF Holders
      <4>2. \E n \in DOMAIN batch[v] : batch[v][n] = j
        <5>1. CASE v = w
          <6>1. PICK n \in DOMAIN Tail(s) : Tail(s)[n] = j
            BY <2>6, <4>1, <5>1
          <6>2. n + 1 \in DOMAIN s /\ s[n + 1] = j
            BY <2>4, <6>1
          <6> QED
            BY <2>1, <5>1, <6>2
        <5>2. CASE v # w
          BY <2>6, <4>1, <5>2
        <5> QED
          BY <5>1, <5>2
      <4> QED
        BY <4>1, <4>2 DEF Holders
    <3>3. CASE j = k
      <4>1. w \in Holders(j) /\ w \notin Holders(j)'
        <5>1. 1 \in DOMAIN s /\ s[1] = j
          BY <2>1, <2>2, <3>3
        <5>2. \A n \in DOMAIN Tail(s) : Tail(s)[n] # j
          BY <2>4, <2>7, <5>1
        <5> QED
          BY <2>1, <2>6, <5>1, <5>2 DEF Holders
      <4>2. Holders(j)' \subseteq Holders(j) \ {w}
        BY <3>2, <4>1
      <4>3. /\ Cardinality(Holders(j) \ {w}) = Cardinality(Holders(j)) - 1
            /\ Holders(j) \ {w} \subseteq Workers
        BY <1>2, <4>1, HoldersCount
      <4>4. /\ Cardinality(Holders(j)') <= Cardinality(Holders(j) \ {w})
            /\ Cardinality(Holders(j)') \in Nat
        BY <4>2, <4>3, HoldersCount
      <4>5. ran'[j] = ran[j] + 1
        BY <1>1, <2>3, <3>3
      <4> DEFINE h == Cardinality(Holders(j))
                 m == Cardinality(Holders(j)')
      <4>6. m <= h - 1 /\ h \in Nat /\ m \in Nat
        BY <1>2, <4>3, <4>4
      <4>7. ran[j] + h <= job[j].deliveries + releases[j]
        BY <3>1
      <4> HIDE DEF h, m
      <4>8. ran[j] + 1 + m <= job[j].deliveries + releases[j]
        BY <1>1, <4>6, <4>7
      <4> QED
        BY <2>3, <4>5, <4>8 DEF m
    <3>4. CASE j # k
      <4>1. ran'[j] = ran[j]
        BY <1>1, <2>3, <3>4
      <4> QED
        BY <1>3, <2>3, <3>1, <3>2, <4>1
    <3> QED
      BY <3>3, <3>4
  <2>11. DeliveredWithin'
    BY <1>0, <2>3 DEF DeliveredWithin
  <2> QED
    BY <2>5, <2>9, <2>10, <2>11 DEF ServeInv
<1>6. ASSUME NEW w \in Workers, StopsWorker(w)  PROVE Goal
  <2>1. batch' = [batch EXCEPT ![w] = <<>>] /\ UNCHANGED <<job, answers, ran, releases>>
    BY <1>6 DEF StopsWorker
  <2>2. batch'[w] = <<>> /\ \A v \in Workers \ {w} : batch'[v] = batch[v]
    BY <1>1, <2>1
  <2>3. ServeTypes'
    BY <1>0, <1>1, <2>1 DEF ServeTypes
  <2>4. HeldOnce'
    BY <1>0, <2>2 DEF HeldOnce
  <2>5. RunPerClaim'
    <3> SUFFICES ASSUME NEW j \in Jobs
                 PROVE  ran'[j] + Cardinality(Holders(j)') <= job'[j].deliveries + releases'[j]
      BY DEF RunPerClaim
    <3>1. /\ ran[j] + Cardinality(Holders(j)) <= job[j].deliveries + releases[j]
          /\ ran[j] \in Nat /\ releases[j] \in Nat /\ job[j].deliveries \in Nat
          /\ Cardinality(Holders(j)) \in Nat
      BY <1>0, <1>1, <1>2 DEF RunPerClaim
    <3>2. Holders(j)' \subseteq Holders(j)
      BY <2>2 DEF Holders
    <3> QED
      BY <1>3, <2>1, <3>1, <3>2
  <2>6. DeliveredWithin'
    BY <1>0, <2>1 DEF DeliveredWithin
  <2> QED
    BY <2>3, <2>4, <2>5, <2>6 DEF ServeInv
\* What the relay writes of one invocation leaves the batches.
<1>7. ASSUME NEW k \in Jobs, NEW x \in Job_, NEW m \in Nat,
             job' = [job EXCEPT ![k] = x], releases' = [releases EXCEPT ![k] = m],
             UNCHANGED <<batch, ran>>,
             x.deliveries <= MaxClaims, x.status = "pending" => x.deliveries < MaxClaims,
             x.status # "in_progress", x.deliveries + m = job[k].deliveries + releases[k]
      PROVE  Goal
  <2>1. ServeTypes'
    BY <1>0, <1>1, <1>7 DEF ServeTypes
  <2>2. \A j \in Jobs : /\ job'[j] = IF j = k THEN x ELSE job[j]
                        /\ releases'[j] = IF j = k THEN m ELSE releases[j]
    BY <1>1, <1>7
  <2>3. DeliveredWithin'
    BY <1>0, <1>7, <2>2 DEF DeliveredWithin
  <2>4. HeldOnce'
    BY <1>0, <1>7 DEF HeldOnce
  <2>5. \A j : Holders(j)' = Holders(j)
    BY <1>7 DEF Holders
  <2>6. RunPerClaim'
    BY <1>0, <1>7, <2>2, <2>5 DEF RunPerClaim
  <2> QED
    BY <2>1, <2>3, <2>4, <2>6 DEF ServeInv
<1>8. ASSUME UNCHANGED <<job, batch, ran, releases>>  PROVE Goal
  BY <1>0, <1>8 DEF ServeInv, ServeTypes, DeliveredWithin, HeldOnce, RunPerClaim, Holders
<1>9. ASSUME NEW j \in Jobs, job[j].status = "in_progress", NEW st \in {"settled", "timeout", "pending"},
             st = "pending" => job[j].deliveries < MaxClaims,
             job' = [job EXCEPT ![j].status = st], UNCHANGED <<batch, ran, releases>>
      PROVE  Goal
  <2> DEFINE x == [job[j] EXCEPT !.status = st]
  <2>1. x \in Job_ /\ x.status = st /\ x.deliveries = job[j].deliveries
    BY <1>1 DEF Job_, JobStatus
  <2>2. job' = [job EXCEPT ![j] = x] /\ releases' = [releases EXCEPT ![j] = releases[j]]
    BY <1>1, <1>9
  <2>3. releases[j] \in Nat /\ x.deliveries <= MaxClaims
    BY <1>0, <1>1, <2>1 DEF DeliveredWithin
  <2> HIDE DEF x, Goal
  <2> QED
    BY <1>7, <1>9, <2>1, <2>2, <2>3
<1>10. ASSUME NEW j \in Jobs, ResultArrives(j)  PROVE Goal
  <2>1. CASE job[j].status = "in_progress"
    BY <1>9, <1>10, <2>1 DEF ResultArrives
  <2>2. CASE job[j].status # "in_progress"
    BY <1>8, <1>10, <2>2 DEF ResultArrives
  <2> QED
    BY <2>1, <2>2
<1>11. ASSUME NEW j \in Jobs, LeaseRunsOut(j)  PROVE Goal
  <2>1. ~ClaimedEnough(j) => job[j].deliveries < MaxClaims
    BY <1>1 DEF ClaimedEnough
  <2>2. CASE ClaimedEnough(j)
    BY <1>9, <1>11, <2>2 DEF LeaseRunsOut
  <2>3. CASE ~ClaimedEnough(j)
    BY <1>9, <1>11, <2>1, <2>3 DEF LeaseRunsOut
  <2> QED
    BY <2>2, <2>3
<1>12. ASSUME NEW j \in Jobs, ReleasesJob(j)  PROVE Goal
  <2> DEFINE x == [status |-> "pending", deliveries |-> job[j].deliveries - 1]
  <2>1. /\ job' = [job EXCEPT ![j] = x] /\ releases' = [releases EXCEPT ![j] = releases[j] + 1]
        /\ UNCHANGED <<batch, ran>> /\ job[j].status = "in_progress"
    BY <1>12 DEF ReleasesJob
  <2>2. job[j].deliveries >= 1 /\ job[j].deliveries <= MaxClaims /\ job[j].deliveries \in Nat
        /\ releases[j] \in Nat
    BY <1>0, <1>1, <2>1 DEF DeliveredWithin
  <2>3. x \in Job_ /\ x.status = "pending" /\ x.deliveries < MaxClaims /\ x.deliveries <= MaxClaims
    BY <1>1, <2>2 DEF Job_, JobStatus
  <2>4. releases[j] + 1 \in Nat /\ x.deliveries + (releases[j] + 1) = job[j].deliveries + releases[j]
    BY <2>2
  <2> HIDE DEF x, Goal
  <2> QED
    BY <1>7, <2>1, <2>3, <2>4
<1>13. ASSUME NEW j \in Jobs, ResultLost(j)  PROVE Goal
  BY <1>8, <1>13 DEF ResultLost
<1>14. ASSUME UNCHANGED serveVars  PROVE Goal
  BY <1>8, <1>14 DEF serveVars
<1>15. Goal
  <2> HIDE DEF Goal
  <2> QED
    BY <1>4, <1>5, <1>6, <1>10, <1>11, <1>12, <1>13, <1>14 DEF ServeNext
<1> QED
  BY <1>15

\* The serve loop's invariant holds in every state.  That an invocation is
\* handled per claim needs each run and each copy to be matched with a claim
\* that was counted or given back, and what is pending to have one left.
THEOREM ServeInvariant == ServeSpec => []ServeInv
<1>1. ServeInit => ServeInv
  <2> SUFFICES ASSUME ServeInit PROVE ServeInv
    OBVIOUS
  <2>1. ServeTypes
    BY DEF ServeInit, ServeTypes, Job_, JobStatus
  <2>2. DeliveredWithin
    BY ServeAssumption DEF ServeInit, DeliveredWithin
  <2>3. HeldOnce
    BY DEF ServeInit, HeldOnce
  <2>4. RunPerClaim
    <3>1. \A j : Holders(j) = {}
      BY DEF ServeInit, Holders
    <3>2. Cardinality({}) = 0
      BY FS_EmptySet
    <3> QED
      <4> SUFFICES ASSUME NEW j \in Jobs
                   PROVE  ran[j] + Cardinality(Holders(j)) <= job[j].deliveries + releases[j]
        BY DEF RunPerClaim
      <4>1. ran[j] = 0 /\ job[j].deliveries = 0 /\ releases[j] = 0
        BY DEF ServeInit
      <4>2. Cardinality(Holders(j)) = 0
        BY <3>1, <3>2
      <4> QED
        BY <4>1, <4>2
  <2> QED
    BY <2>1, <2>2, <2>3, <2>4 DEF ServeInv
<1>2. ServeInv /\ [ServeNext]_serveVars => ServeInv'
  BY ServeStep
<1> QED
  BY <1>1, <1>2, PTL DEF ServeSpec

\* The SDK's serve loop against claim_invocations, the sweep and
\* release_claim: handlers run on an invocation at most MaxClaims times, and
\* once more for each release, whatever becomes of leases, answers and workers.
THEOREM HandlersRunPerClaim == ServeSpec => []HandledPerClaim
<1>1. ServeInv => HandledPerClaim
  <2> SUFFICES ASSUME ServeInv, NEW j \in Jobs
               PROVE  ran[j] + Copies(j) <= MaxClaims + releases[j]
    BY DEF HandledPerClaim
  <2>1. /\ ran[j] + Cardinality(Holders(j)) <= job[j].deliveries + releases[j]
        /\ ran[j] \in Nat /\ releases[j] \in Nat
        /\ job[j].deliveries \in Nat /\ job[j].deliveries <= MaxClaims
    BY DEF ServeInv, ServeTypes, Job_, RunPerClaim, DeliveredWithin
  <2>2. Copies(j) = Cardinality(Holders(j)) /\ Holders(j) \subseteq Workers
    BY DEF Copies, Holders
  <2>3. Cardinality(Holders(j)) \in Nat /\ MaxClaims \in Nat
    BY <2>2, HoldersCount, ServeAssumption
  <2> QED
    BY <2>1, <2>2, <2>3
<1> QED
  BY <1>1, ServeInvariant, PTL

----------------------------------------------------------------------------
(* Heartbeats: polls are kept *)

HeartTypes ==
    /\ polls \in Nat /\ heartbeat \in Nat
    /\ unflushed \in [Copies_ -> Nat] /\ flushing \in [Copies_ -> Nat]
    /\ presence \in [Copies_ -> Nat] /\ seenBy \in [Copies_ -> Nat]
    /\ loading \in [Copies_ -> Nat]

\* What a relay saw is in its memory; and in the table, in its batch, or
\* waiting for one.
SeenIsRemembered == \A p \in Copies_ : presence[p] >= seenBy[p]
SeenIsSomewhere ==
    \A p \in Copies_ :
        heartbeat >= seenBy[p] \/ unflushed[p] >= seenBy[p] \/ flushing[p] >= seenBy[p]

HeartInv == HeartTypes /\ SeenIsRemembered /\ SeenIsSomewhere

\* The later of two times, and the latest of three.
LEMMA LaterIsMax ==
    ASSUME NEW s \in Nat, NEW t \in Nat
    PROVE  Later(s, t) \in Nat /\ Later(s, t) >= s /\ Later(s, t) >= t
<1>1. \E x \in {s, t} : \A y \in {s, t} : x >= y
  <2>1. CASE s >= t
    BY <2>1
  <2>2. CASE ~(s >= t)
    <3>1. t >= s
      BY <2>2
    <3> QED
      BY <3>1
  <2> QED
    BY <2>1, <2>2
<1> QED
  BY <1>1 DEF Later, Max

\* Every step keeps what relays saw.
LEMMA HeartStep ==
    ASSUME HeartInv, [HeartbeatsNext]_heartVars
    PROVE  HeartInv'
<1> DEFINE Goal == HeartInv'
<1>0. HeartTypes /\ SeenIsRemembered /\ SeenIsSomewhere
  BY DEF HeartInv
<1>1. /\ polls \in Nat /\ heartbeat \in Nat
      /\ unflushed \in [Copies_ -> Nat] /\ flushing \in [Copies_ -> Nat]
      /\ presence \in [Copies_ -> Nat] /\ seenBy \in [Copies_ -> Nat]
      /\ loading \in [Copies_ -> Nat]
  BY <1>0 DEF HeartTypes
<1>2. Unread \in Nat
  BY HeartbeatsAssumption DEF Unread
<1>3. ASSUME NEW p \in Copies_, RecordsPoll(p)  PROVE Goal
  <2>1. HeartTypes'
    BY <1>1, <1>3 DEF RecordsPoll, HeartTypes
  <2>2. SeenIsRemembered'
    BY <1>0, <1>1, <1>3 DEF RecordsPoll, SeenIsRemembered
  <2>3. SeenIsSomewhere'
    BY <1>0, <1>1, <1>3 DEF RecordsPoll, SeenIsSomewhere
  <2> QED
    BY <2>1, <2>2, <2>3 DEF HeartInv
<1>4. ASSUME NEW p \in Copies_, Drains(p)  PROVE Goal
  <2>1. HeartTypes'
    BY <1>1, <1>4 DEF Drains, HeartTypes
  <2>2. SeenIsRemembered'
    BY <1>0, <1>4 DEF Drains, SeenIsRemembered
  <2>3. SeenIsSomewhere'
    BY <1>0, <1>1, <1>4 DEF Drains, SeenIsSomewhere
  <2> QED
    BY <2>1, <2>2, <2>3 DEF HeartInv
<1>5. ASSUME NEW p \in Copies_
      PROVE  Greatest(p) \in Nat /\ Greatest(p) >= heartbeat /\ Greatest(p) >= flushing[p]
  BY <1>1, LaterIsMax DEF Greatest
<1>6. ASSUME NEW p \in Copies_, FlushWrites(p)  PROVE Goal
  <2>1. HeartTypes'
    BY <1>1, <1>5, <1>6 DEF FlushWrites, HeartTypes
  <2>2. SeenIsRemembered'
    BY <1>0, <1>6 DEF FlushWrites, SeenIsRemembered
  <2>3. SeenIsSomewhere'
    <3> SUFFICES ASSUME NEW q \in Copies_
                 PROVE  \/ heartbeat' >= seenBy'[q] \/ unflushed'[q] >= seenBy'[q]
                        \/ flushing'[q] >= seenBy'[q]
      BY DEF SeenIsSomewhere
    <3>1. /\ heartbeat' \in Nat /\ heartbeat' >= heartbeat /\ heartbeat' >= flushing[p]
          /\ seenBy'[q] = seenBy[q] /\ unflushed'[q] = unflushed[q]
          /\ q # p => flushing'[q] = flushing[q]
      BY <1>1, <1>5, <1>6 DEF FlushWrites
    <3>2. /\ heartbeat >= seenBy[q] \/ unflushed[q] >= seenBy[q] \/ flushing[q] >= seenBy[q]
          /\ seenBy[q] \in Nat /\ flushing[q] \in Nat /\ unflushed[q] \in Nat
      BY <1>0, <1>1 DEF SeenIsSomewhere
    <3> QED
      BY <1>1, <3>1, <3>2
  <2> QED
    BY <2>1, <2>2, <2>3 DEF HeartInv
<1>7. ASSUME NEW p \in Copies_, FlushFails(p)  PROVE Goal
  <2>1. Restored(p) \in Nat /\ Restored(p) >= unflushed[p] /\ Restored(p) >= flushing[p]
    BY <1>1, LaterIsMax DEF Restored
  <2>2. /\ heartbeat' \in Nat /\ heartbeat' >= heartbeat
        /\ unflushed' = [unflushed EXCEPT ![p] = Restored(p)]
        /\ flushing' = [flushing EXCEPT ![p] = 0]
        /\ UNCHANGED <<polls, presence, loading, down, seenBy>>
    BY <1>1, <1>5, <1>7 DEF FlushFails
  <2>3. HeartTypes'
    BY <1>1, <2>1, <2>2 DEF HeartTypes
  <2>4. SeenIsRemembered'
    BY <1>0, <2>2 DEF SeenIsRemembered
  <2>5. SeenIsSomewhere'
    <3> SUFFICES ASSUME NEW q \in Copies_
                 PROVE  \/ heartbeat' >= seenBy'[q] \/ unflushed'[q] >= seenBy'[q]
                        \/ flushing'[q] >= seenBy'[q]
      BY DEF SeenIsSomewhere
    <3>1. /\ heartbeat >= seenBy[q] \/ unflushed[q] >= seenBy[q] \/ flushing[q] >= seenBy[q]
          /\ seenBy[q] \in Nat /\ flushing[q] \in Nat /\ unflushed[q] \in Nat
      BY <1>0, <1>1 DEF SeenIsSomewhere
    <3>2. /\ seenBy'[q] = seenBy[q]
          /\ q = p => unflushed'[q] = Restored(p)
          /\ q # p => unflushed'[q] = unflushed[q] /\ flushing'[q] = flushing[q]
      BY <1>1, <2>2
    <3> QED
      BY <1>1, <2>1, <2>2, <3>1, <3>2
  <2> QED
    BY <2>3, <2>4, <2>5 DEF HeartInv
<1>8. ASSUME NEW p \in Copies_, ReloadReads(p)  PROVE Goal
  BY <1>0, <1>1, <1>8 DEF ReloadReads, HeartInv, HeartTypes, SeenIsRemembered, SeenIsSomewhere
<1>9. ASSUME NEW p \in Copies_, ReloadMerges(p)  PROVE Goal
  <2>1. Later(loading[p], presence[p]) \in Nat /\ Later(loading[p], presence[p]) >= presence[p]
    BY <1>1, LaterIsMax
  <2>2. HeartTypes'
    BY <1>1, <1>2, <1>9, <2>1 DEF ReloadMerges, HeartTypes
  <2>3. SeenIsRemembered'
    <3> SUFFICES ASSUME NEW q \in Copies_ PROVE presence'[q] >= seenBy'[q]
      BY DEF SeenIsRemembered
    <3>1. /\ presence'[q] \in Nat /\ presence'[q] >= presence[q] /\ seenBy'[q] = seenBy[q]
      BY <1>1, <1>9, <2>1 DEF ReloadMerges
    <3>2. presence[q] >= seenBy[q] /\ presence[q] \in Nat /\ seenBy[q] \in Nat
      BY <1>0, <1>1 DEF SeenIsRemembered
    <3> QED
      BY <3>1, <3>2
  <2>4. SeenIsSomewhere'
    BY <1>0, <1>9 DEF ReloadMerges, SeenIsSomewhere
  <2> QED
    BY <2>2, <2>3, <2>4 DEF HeartInv
<1>10. ASSUME NEW p \in Copies_, RestartsRelay(p)  PROVE Goal
  <2>1. HeartTypes'
    BY <1>1, <1>2, <1>10 DEF RestartsRelay, HeartTypes
  <2>2. SeenIsRemembered'
    BY <1>0, <1>1, <1>10 DEF RestartsRelay, SeenIsRemembered
  <2>3. SeenIsSomewhere'
    BY <1>0, <1>1, <1>10 DEF RestartsRelay, SeenIsSomewhere
  <2> QED
    BY <2>1, <2>2, <2>3 DEF HeartInv
<1>11. ASSUME UNCHANGED heartVars  PROVE Goal
  BY <1>0, <1>11 DEF heartVars, HeartInv, HeartTypes, SeenIsRemembered, SeenIsSomewhere
<1>12. Goal
  <2> HIDE DEF Goal
  <2> QED
    BY <1>3, <1>4, <1>6, <1>7, <1>8, <1>9, <1>10, <1>11 DEF HeartbeatsNext
<1> QED
  BY <1>12

\* What relays saw is kept in every state: where the last poll a relay took
\* is to be found moves between the map, the batch and the table.
THEOREM HeartInvariant == HeartbeatsSpec => []HeartInv
<1>1. HeartbeatsInit => HeartInv
  <2> SUFFICES ASSUME HeartbeatsInit PROVE HeartInv
    OBVIOUS
  <2>1. HeartTypes
    BY HeartbeatsAssumption DEF HeartbeatsInit, HeartTypes, Zeros, Unread
  <2>2. SeenIsRemembered /\ SeenIsSomewhere
    BY DEF HeartbeatsInit, SeenIsRemembered, SeenIsSomewhere, Zeros
  <2> QED
    BY <2>1, <2>2 DEF HeartInv
<1>2. HeartInv /\ [HeartbeatsNext]_heartVars => HeartInv'
  BY HeartStep
<1> QED
  BY <1>1, <1>2, PTL DEF HeartbeatsSpec

\* Heartbeats: the last poll a relay took since it started is lost by no flush,
\* reload or failed write, of its own or of another relay.
THEOREM PollsStay == HeartbeatsSpec => []PollsAreKept
<1>1. HeartInv => PollsAreKept
  <2> SUFFICES ASSUME HeartInv, NEW p \in Copies_
               PROVE  /\ presence[p] >= seenBy[p]
                      /\ Max({heartbeat, unflushed[p], flushing[p]}) >= seenBy[p]
    BY DEF PollsAreKept
  <2>1. /\ heartbeat \in Nat /\ unflushed[p] \in Nat /\ flushing[p] \in Nat /\ seenBy[p] \in Nat
        /\ presence[p] >= seenBy[p]
        /\ heartbeat >= seenBy[p] \/ unflushed[p] >= seenBy[p] \/ flushing[p] >= seenBy[p]
    BY DEF HeartInv, HeartTypes, SeenIsRemembered, SeenIsSomewhere
  <2> DEFINE S == {heartbeat, unflushed[p], flushing[p]}
  <2>2. \E x \in S : \A y \in S : x >= y
    <3>1. \A x, y \in Nat : x >= y \/ y >= x
      OBVIOUS
    <3>2. \A x, y, z \in Nat : x >= y /\ y >= z => x >= z
      OBVIOUS
    <3>3. \A x \in Nat : x >= x
      OBVIOUS
    <3> QED
      BY <2>1, <3>1, <3>2, <3>3
  <2>3. Max(S) \in S /\ \A y \in S : Max(S) >= y
    BY <2>2 DEF Max
  <2>4. PICK x \in S : x >= seenBy[p]
    BY <2>1
  <2>5. Max(S) >= x /\ Max(S) \in Nat /\ x \in Nat
    BY <2>1, <2>3, <2>4
  <2> QED
    BY <2>1, <2>4, <2>5
<1> QED
  BY <1>1, HeartInvariant, PTL

----------------------------------------------------------------------------
(* PushAgents: what was forwarded is on record *)

\* A message an endpoint took was posted, and an answer that was heard is of
\* one it took.
TookIsPosted ==
    \A m \in Messages :
        m \in took => message[m].step \in {"posted", "heard", "done"}
HeardOfTaken ==
    \A m \in Messages :
        message[m].step = "heard" =>
            /\ message[m].outcome \in
                   {"succeeded", "failed", "broken", "blocked", "timeout", "transport"}
            /\ message[m].outcome \in {"succeeded", "failed"} => m \in took

ForwardInv ==
    /\ DOMAIN message = Messages
    /\ TookIsPosted
    /\ HeardOfTaken
    /\ ChargedAsForwarded

\* What one message comes to, as one step of it must leave it.
Settles(m, x, taken) ==
    /\ taken => x.step \in {"posted", "heard", "done"}
    /\ x.step = "heard" =>
           /\ x.outcome \in {"succeeded", "failed", "broken", "blocked", "timeout", "transport"}
           /\ x.outcome \in {"succeeded", "failed"} => taken
    /\ x.step = "done" =>
           /\ taken => \/ x.told = "error"
                       \/ "row" \in DOMAIN x /\ x.row \in {"succeeded", "failed", "timeout"}
           /\ x.told = "answer" => taken /\ x.row \in {"succeeded", "failed"}

EachSettles ==
    /\ DOMAIN message = Messages
    /\ \A m \in Messages : Settles(m, message[m], m \in took)

\* The invariant of the messages, message by message.
LEMMA ForwardedOneByOne == ForwardInv <=> EachSettles
BY DEF EachSettles, ForwardInv, TookIsPosted, HeardOfTaken, ChargedAsForwarded, Settles

\* The messages' invariant through every step.
LEMMA ForwardStep ==
    ASSUME ForwardInv, [PushNext]_pushVars
    PROVE  ForwardInv'
<1> DEFINE Each == /\ DOMAIN message' = Messages
                   /\ \A m \in Messages : Settles(m, message'[m], m \in took')
<1>1. SUFFICES Each
  <2>1. ForwardInv' <=> EachSettles'
    BY ForwardedOneByOne, PTL
  <2> QED
    BY <2>1 DEF EachSettles
<1>2. DOMAIN message = Messages /\ \A m \in Messages : Settles(m, message[m], m \in took)
  BY ForwardedOneByOne DEF EachSettles
<1>3. ASSUME NEW m \in Messages, NEW x, To(m, x), UNCHANGED took, Settles(m, x, m \in took)
      PROVE  Each
  <2>1. /\ DOMAIN message' = Messages
        /\ \A n \in Messages : message'[n] = IF n = m THEN x ELSE message[n]
    BY <1>2, <1>3 DEF To
  <2> QED
    BY <1>2, <1>3, <2>1
<1>4. ASSUME UNCHANGED <<message, took>>  PROVE Each
  BY <1>2, <1>4
<1>5. ASSUME NEW m \in Messages, message[m].step \in {"new", "authorized"}  PROVE m \notin took
  BY <1>2, <1>5 DEF Settles
<1>6. ASSUME NEW m \in Messages, Authorizes(m)  PROVE Each
  <2>1. PICK x : /\ To(m, x) /\ UNCHANGED took
                 /\ \/ x = [step |-> "done", told |-> "unreachable"]
                    \/ x = [step |-> "authorized", push |-> IsPush]
    BY <1>6 DEF Authorizes
  <2>2. Settles(m, x, m \in took)
    BY <1>5, <1>6, <2>1 DEF Authorizes, Settles
  <2> HIDE DEF Each
  <2> QED
    BY <1>3, <2>1, <2>2
<1>7. ASSUME NEW m \in Messages, TurnsAwayMessage(m)  PROVE Each
  <2>1. Settles(m, [step |-> "done", told |-> "refused"], m \in took)
    BY <1>5, <1>7 DEF TurnsAwayMessage, Settles
  <2> HIDE DEF Each
  <2> QED
    BY <1>3, <1>7, <2>1 DEF TurnsAwayMessage
<1>8. ASSUME NEW m \in Messages, Parks(m)  PROVE Each
  <2>1. PICK x : /\ To(m, x) /\ UNCHANGED took
                 /\ x = [step |-> "done", told |-> "task",
                         row |-> IF asks THEN "awaiting_consent" ELSE "pending"]
    BY <1>8 DEF Parks
  <2>2. Settles(m, x, m \in took)
    BY <1>5, <1>8, <2>1 DEF Parks, Settles
  <2> HIDE DEF Each
  <2> QED
    BY <1>3, <2>1, <2>2
<1>9. ASSUME NEW m \in Messages, Posts(m)  PROVE Each
  <2>1. PICK x : /\ To(m, x) /\ UNCHANGED took
                 /\ \/ x = [step |-> "done", told |-> "unreachable"]
                    \/ x = [step |-> "posted", to |-> cardRow.url]
    BY <1>9 DEF Posts
  <2>2. Settles(m, x, m \in took)
    BY <1>5, <1>9, <2>1 DEF Posts, Settles
  <2> HIDE DEF Each
  <2> QED
    BY <1>3, <2>1, <2>2
<1>10. ASSUME NEW m \in Messages, Takes(m)  PROVE Each
  <2>1. message' = message /\ took' = took \cup {m} /\ message[m].step = "posted"
    BY <1>10 DEF Takes
  <2>2. Settles(m, message'[m], m \in took')
    BY <2>1 DEF Settles
  <2>3. ASSUME NEW n \in Messages, n # m  PROVE Settles(n, message'[n], n \in took')
    <3>1. Settles(n, message[n], n \in took) /\ message'[n] = message[n]
      BY <1>2, <2>1
    <3>2. n \in took' <=> n \in took
      BY <2>1, <2>3
    <3> QED
      BY <3>1, <3>2 DEF Settles
  <2> QED
    BY <1>2, <2>1, <2>2, <2>3
<1>11. ASSUME NEW m \in Messages, NEW outcome \in Outcomes(m), Hears(m, outcome)  PROVE Each
  <2>1. /\ outcome \in {"succeeded", "failed", "broken", "blocked", "timeout", "transport"}
        /\ outcome \in {"succeeded", "failed"} => m \in took
    BY DEF Outcomes
  <2>2. Settles(m, [step |-> "heard", outcome |-> outcome], m \in took)
    BY <2>1 DEF Settles
  <2> HIDE DEF Each
  <2> QED
    BY <1>3, <1>11, <2>2 DEF Hears
<1>12. ASSUME NEW m \in Messages, Records(m)  PROVE Each
  <2>1. PICK o : o = message[m].outcome
    OBVIOUS
  <2>2. /\ o \in {"succeeded", "failed", "broken", "blocked", "timeout", "transport"}
        /\ o \in {"succeeded", "failed"} => m \in took
    BY <1>2, <1>12, <2>1 DEF Records, Settles
  <2>3. PICK x : /\ To(m, x) /\ UNCHANGED took
                 /\ x = [step |-> "done", told |-> ToldOf(o), row |-> RecordedAs(o)]
    BY <1>12, <2>1 DEF Records
  <2>4. "row" \in DOMAIN x /\ x.row = RecordedAs(o) /\ x.told = ToldOf(o) /\ x.step = "done"
    BY <2>3
  <2>5. RecordedAs(o) \in {"succeeded", "failed", "timeout"}
    BY DEF RecordedAs
  <2>6. ToldOf(o) = "answer" => m \in took /\ RecordedAs(o) \in {"succeeded", "failed"}
    BY <2>2 DEF ToldOf, RecordedAs
  <2>7. Settles(m, x, m \in took)
    BY <2>4, <2>5, <2>6 DEF Settles
  <2> HIDE DEF Each
  <2> QED
    BY <1>3, <2>3, <2>7
<1>13. ASSUME NEW m \in Messages, MessageLost(m)  PROVE Each
  <2>1. Settles(m, [step |-> "done", told |-> "error"], m \in took)
    BY DEF Settles
  <2> HIDE DEF Each
  <2> QED
    BY <1>3, <1>13, <2>1 DEF MessageLost
<1>14. ASSUME NEW e \in Edits,
              \/ \E url \in Urls \cup {NoUrl} : ChecksEndpoint(e, url)
              \/ SetsEndpoint(e) \/ WritesCapability(e)
              \/ \E slug \in AgentSlugs : RenamesAgent(e, slug)
              \/ \E wanted \in BOOLEAN : ReadsCapability(e, wanted)
       PROVE  Each
  <2>1. UNCHANGED <<message, took>>
    BY <1>14
    DEF ChecksEndpoint, SetsEndpoint, WritesCapability, RenamesAgent, ReadsCapability
  <2> HIDE DEF Each
  <2> QED
    BY <1>4, <2>1
<1>15. ASSUME NEW u \in Urls, HostPublishes(u)  PROVE Each
  BY <1>4, <1>15 DEF HostPublishes
<1>16. ASSUME NEW f \in Fetches,
              \/ Claims(f) \/ FetchesLazily(f) \/ LoadsAgent(f)
              \/ HostAnswers(f) \/ FetchFails(f) \/ StoresCard(f)
       PROVE  Each
  <2>1. UNCHANGED <<message, took>>
    BY <1>16 DEF Claims, FetchesLazily, LoadsAgent, HostAnswers, FetchFails, StoresCard
  <2> HIDE DEF Each
  <2> QED
    BY <1>4, <2>1
<1>17. ASSUME StalenessPasses \/ FourHoursPass  PROVE Each
  BY <1>4, <1>17 DEF StalenessPasses, FourHoursPass
<1>18. ASSUME UNCHANGED pushVars  PROVE Each
  BY <1>4, <1>18 DEF pushVars
<1>19. Each
  <2> HIDE DEF Each
  <2> QED
    BY <1>6, <1>7, <1>8, <1>9, <1>10, <1>11, <1>12, <1>13, <1>14, <1>15, <1>16, <1>17, <1>18
    DEF PushNext
<1> QED
  BY <1>19

\* The messages' invariant holds in every state: that an answer is of a
\* message that was taken is known since it was heard.
THEOREM ForwardInvariant == PushSpec => []ForwardInv
<1>1. PushInit => ForwardInv
  BY DEF PushInit, ForwardInv, TookIsPosted, HeardOfTaken, ChargedAsForwarded, NewMessage
<1>2. ForwardInv /\ [PushNext]_pushVars => ForwardInv'
  BY ForwardStep
<1> QED
  BY <1>1, <1>2, PTL DEF PushSpec

\* forwarder: a message an endpoint took ends with a row, which is its charge,
\* unless the caller is told of an error, and the caller gets an answer only of
\* what was taken and recorded as it is told.
THEOREM ForwardedIsCharged == PushSpec => []ChargedAsForwarded
<1>1. ForwardInv => ChargedAsForwarded
  BY DEF ForwardInv
<1> QED
  BY <1>1, ForwardInvariant, PTL

----------------------------------------------------------------------------
(* Orgs: agents are kept, and first calls agree *)

Homes == {"nowhere", "org", "personal", "gone"}

OrgTypes ==
    /\ homeOf \in [Owned -> Homes] /\ tombstones \subseteq Owned
    /\ DOMAIN moving = Owned /\ DOMAIN firstCall = FirstCalls
    /\ deletion = [stage |-> deletion.stage, list |-> deletion.list,
                   next |-> deletion.next, moved |-> deletion.moved]

\* A deletion that moves agents moves the live ones of the organization, and
\* nothing else has them locked: whatever it listed when it loaded them is
\* still what there is.
ListedAsTheyAre ==
    deletion.list = IF deletion.stage = "moving" THEN LiveIn("org") ELSE {}
MovingIsLive ==
    \A x \in Owned : moving[x] # NoSlug => x \in LiveIn("org") /\ x \notin deletion.list

\* A first call's agent is made, and while it is live it is the default.
CalledIsMade ==
    /\ defaultRow \in Owned => homeOf[defaultRow] # "nowhere"
    /\ \A c \in FirstCalls : firstCall[c] \in Owned => homeOf[firstCall[c]] # "nowhere"
CalledIsDefault == \A c \in FirstCalls : firstCall[c] \in Live => firstCall[c] = defaultRow

\* The call that makes the default agent makes it alone, and there is none.
MakesAlone ==
    \A c \in FirstCalls : firstCall[c] = "makes" =>
        /\ defaultRow \notin Live
        /\ \A d \in FirstCalls : firstCall[d] = "makes" => d = c

OrgsInv ==
    /\ OrgTypes
    /\ ListedAsTheyAre /\ MovingIsLive
    /\ CalledIsMade /\ CalledIsDefault /\ MakesAlone

\* Live agents are those of the two accounts that have no tombstone.
LEMMA LiveAreHome ==
    \A x : x \in Live <=> x \in Owned /\ x \notin tombstones /\ homeOf[x] \in {"org", "personal"}
BY DEF Live, LiveIn

\* Where no agent comes to be and no first call goes on, the first calls stay
\* as they should be.
LEMMA CallsRest ==
    ASSUME OrgsInv, UNCHANGED <<firstCall, defaultRow>>, Live' \subseteq Live,
           \A x \in Owned : homeOf[x] # "nowhere" => homeOf'[x] # "nowhere"
    PROVE  CalledIsMade' /\ CalledIsDefault' /\ MakesAlone'
<1>1. CalledIsMade /\ CalledIsDefault /\ MakesAlone
  BY DEF OrgsInv
<1>2. CalledIsMade'
  BY <1>1 DEF CalledIsMade
<1>3. CalledIsDefault'
  BY <1>1 DEF CalledIsDefault
<1>4. MakesAlone'
  BY <1>1 DEF MakesAlone
<1> QED
  BY <1>2, <1>3, <1>4

\* The agents of the organization and of first calls, through every step; and
\* no live agent goes.
LEMMA OrgsStep ==
    ASSUME OrgsInv, [OrgsNext]_orgVars
    PROVE  OrgsInv' /\ \A x \in Live : homeOf'[x] # "gone"
<1> DEFINE Kept == \A x \in Live : homeOf'[x] # "gone"
           Goal == OrgsInv' /\ Kept
<1>0. OrgTypes /\ ListedAsTheyAre /\ MovingIsLive /\ CalledIsMade /\ CalledIsDefault /\ MakesAlone
  BY DEF OrgsInv
<1>1. /\ homeOf \in [Owned -> Homes] /\ tombstones \subseteq Owned
      /\ DOMAIN moving = Owned /\ DOMAIN firstCall = FirstCalls
  BY <1>0 DEF OrgTypes
<1>2. "none" \notin Owned /\ "makes" \notin Owned /\ NoAgentYet \notin Owned
  BY OrgsAssumption
<1>3. \A x \in Live : x \in Owned /\ homeOf[x] \in {"org", "personal"}
  BY LiveAreHome
\* An agent comes to be, in an account that lets it.
<1>4. ASSUME NEW x \in Owned, NEW account \in {"org", "personal"},
             homeOf[x] = "nowhere", homeOf' = [homeOf EXCEPT ![x] = account],
             account = "org" => deletion.stage = "idle",
             UNCHANGED <<tombstones, deletion, moving>>
      PROVE  /\ OrgTypes' \/ DOMAIN firstCall' # FirstCalls
             /\ ListedAsTheyAre' /\ MovingIsLive' /\ Kept
             /\ Live' \subseteq Live \cup {x} /\ x \notin Live
             /\ \A y \in Owned : homeOf[y] # "nowhere" => homeOf'[y] = homeOf[y]
             /\ homeOf'[x] = account
  <2>1. \A y \in Owned : homeOf'[y] = IF y = x THEN account ELSE homeOf[y]
    BY <1>1, <1>4
  <2>2. OrgTypes' \/ DOMAIN firstCall' # FirstCalls
    BY <1>0, <1>1, <1>4 DEF OrgTypes, Homes
  <2>3. account # "org" => LiveIn("org")' = LiveIn("org")
    BY <1>4, <2>1 DEF LiveIn
  <2>4. ListedAsTheyAre'
    BY <1>0, <1>4, <2>3 DEF ListedAsTheyAre
  <2>5. LiveIn("org") \subseteq LiveIn("org")'
    BY <1>4, <2>1 DEF LiveIn
  <2>6. MovingIsLive'
    BY <1>0, <1>4, <2>5 DEF MovingIsLive
  <2>7. Live' \subseteq Live \cup {x} /\ x \notin Live
    BY <1>3, <1>4, <2>1 DEF Live, LiveIn
  <2>8. Kept
    BY <1>3, <1>4, <2>1
  <2> QED
    BY <1>4, <2>1, <2>2, <2>4, <2>6, <2>7, <2>8
\* The rows of agents rest.
<1>5. ASSUME UNCHANGED <<homeOf, tombstones>>
      PROVE  /\ LiveIn("org")' = LiveIn("org") /\ Live' = Live /\ Kept
             /\ \A x \in Owned : homeOf[x] # "nowhere" => homeOf'[x] # "nowhere"
  BY <1>3, <1>5 DEF LiveIn, Live
<1>6. ASSUME NEW x \in Owned, NEW account \in {"org", "personal"}, NEW slug \in BaseSlugs,
             CreatesAgent(x, account, slug)
      PROVE  Goal
  <2>1. /\ homeOf[x] = "nowhere" /\ homeOf' = [homeOf EXCEPT ![x] = account]
        /\ account = "org" => deletion.stage = "idle"
        /\ UNCHANGED <<tombstones, deletion, moving, firstCall, defaultRow>>
    BY <1>6 DEF CreatesAgent, AccountOpen
  <2>2. /\ OrgTypes' \/ DOMAIN firstCall' # FirstCalls
        /\ ListedAsTheyAre' /\ MovingIsLive' /\ Kept
        /\ Live' \subseteq Live \cup {x} /\ x \notin Live
        /\ \A y \in Owned : homeOf[y] # "nowhere" => homeOf'[y] = homeOf[y]
        /\ homeOf'[x] = account
    BY <1>4, <2>1
  <2>3. defaultRow # x /\ \A c \in FirstCalls : firstCall[c] # x
    BY <1>0, <2>1 DEF CalledIsMade
  <2>4. CalledIsMade'
    BY <1>0, <2>1, <2>2 DEF CalledIsMade
  <2>5. CalledIsDefault'
    BY <1>0, <2>1, <2>2, <2>3 DEF CalledIsDefault
  <2>6. MakesAlone'
    BY <1>0, <2>1, <2>2, <2>3 DEF MakesAlone
  <2> QED
    BY <1>1, <2>1, <2>2, <2>4, <2>5, <2>6 DEF OrgsInv
<1>7. ASSUME NEW c \in FirstCalls, NEW x \in Owned, NEW slug \in BaseSlugs, MakesDefault(c, x, slug)
      PROVE  Goal
  <2>1. /\ homeOf[x] = "nowhere" /\ homeOf' = [homeOf EXCEPT ![x] = "personal"]
        /\ firstCall[c] = "makes" /\ defaultRow' = x /\ firstCall' = [firstCall EXCEPT ![c] = x]
        /\ UNCHANGED <<tombstones, deletion, moving>>
    BY <1>7 DEF MakesDefault
  <2>2. /\ OrgTypes' \/ DOMAIN firstCall' # FirstCalls
        /\ ListedAsTheyAre' /\ MovingIsLive' /\ Kept
        /\ Live' \subseteq Live \cup {x} /\ x \notin Live
        /\ \A y \in Owned : homeOf[y] # "nowhere" => homeOf'[y] = homeOf[y]
        /\ homeOf'[x] = "personal"
    BY <1>4, <2>1
  <2>3. /\ DOMAIN firstCall' = FirstCalls
        /\ \A d \in FirstCalls : firstCall'[d] = IF d = c THEN x ELSE firstCall[d]
    BY <1>1, <2>1
  <2>4. /\ defaultRow \notin Live
        /\ \A d \in FirstCalls : firstCall[d] = "makes" => d = c
    BY <1>0, <2>1 DEF MakesAlone
  <2>5. CalledIsMade'
    BY <1>0, <2>1, <2>2, <2>3 DEF CalledIsMade
  <2>6. CalledIsDefault'
    BY <1>0, <2>1, <2>2, <2>3, <2>4 DEF CalledIsDefault
  <2>7. MakesAlone'
    BY <1>2, <2>3, <2>4 DEF MakesAlone
  <2> QED
    BY <2>2, <2>3, <2>5, <2>6, <2>7 DEF OrgsInv
<1>8. ASSUME NEW x \in Owned, TombstonesAgent(x)  PROVE Goal
  <2>1. /\ x \in Live /\ x \notin deletion.list /\ moving[x] = NoSlug
        /\ tombstones' = tombstones \cup {x}
        /\ UNCHANGED <<homeOf, deletion, moving, firstCall, defaultRow>>
    BY <1>8 DEF TombstonesAgent, LockedAgents
  <2>2. LiveIn("org")' = LiveIn("org") \ {x} /\ Live' = Live \ {x}
    BY <2>1 DEF LiveIn, Live
  <2>3. OrgTypes'
    BY <1>0, <1>1, <2>1 DEF OrgTypes
  <2>4. ListedAsTheyAre'
    BY <1>0, <2>1, <2>2 DEF ListedAsTheyAre
  <2>5. MovingIsLive'
    BY <1>0, <2>1, <2>2 DEF MovingIsLive
  <2>6. CalledIsMade' /\ CalledIsDefault' /\ MakesAlone'
    BY <2>1, <2>2, CallsRest
  <2>7. Kept
    BY <1>3, <2>1
  <2> QED
    BY <2>3, <2>4, <2>5, <2>6, <2>7 DEF OrgsInv
<1>9. ASSUME NEW x \in Owned, BeginsMove(x)  PROVE Goal
  <2>1. PICK s : /\ x \in LiveIn("org") /\ x \notin deletion.list
                 /\ moving' = [moving EXCEPT ![x] = s]
                 /\ UNCHANGED <<homeOf, tombstones, deletion, firstCall, defaultRow>>
    BY <1>9 DEF BeginsMove, LockedAgents
  <2>2. LiveIn("org")' = LiveIn("org") /\ Live' = Live /\ Kept
    BY <1>5, <2>1
  <2>3. OrgTypes'
    BY <1>0, <1>1, <2>1 DEF OrgTypes
  <2>4. ListedAsTheyAre'
    BY <1>0, <2>1, <2>2 DEF ListedAsTheyAre
  <2>5. MovingIsLive'
    BY <1>0, <1>1, <2>1, <2>2 DEF MovingIsLive
  <2>6. CalledIsMade' /\ CalledIsDefault' /\ MakesAlone'
    BY <2>1, <2>2, CallsRest
  <2> QED
    BY <2>2, <2>3, <2>4, <2>5, <2>6 DEF OrgsInv
<1>10. ASSUME NEW x \in Owned, EndsMove(x)  PROVE Goal
  <2>1. /\ moving[x] # NoSlug /\ moving' = [moving EXCEPT ![x] = NoSlug]
        /\ homeOf' = homeOf \/ homeOf' = [homeOf EXCEPT ![x] = "personal"]
        /\ UNCHANGED <<tombstones, deletion, firstCall, defaultRow>>
    BY <1>10 DEF EndsMove
  <2>2. x \in LiveIn("org") /\ x \notin deletion.list
    BY <1>0, <2>1 DEF MovingIsLive
  <2>3. deletion.stage # "moving"
    BY <1>0, <2>2 DEF ListedAsTheyAre
  <2>4. \A y \in Owned : homeOf'[y] = homeOf[y] \/ (y = x /\ homeOf'[y] = "personal")
    BY <1>1, <2>1
  <2>5. /\ LiveIn("org") \ {x} \subseteq LiveIn("org")' /\ Live' \subseteq Live
        /\ \A y \in Owned : homeOf[y] # "nowhere" => homeOf'[y] # "nowhere"
    BY <2>1, <2>2, <2>4 DEF LiveIn, Live
  <2>6. OrgTypes'
    BY <1>0, <1>1, <2>1 DEF OrgTypes, Homes
  <2>7. ListedAsTheyAre'
    BY <1>0, <2>1, <2>3 DEF ListedAsTheyAre
  <2>8. MovingIsLive'
    BY <1>0, <1>1, <2>1, <2>5 DEF MovingIsLive
  <2>9. CalledIsMade' /\ CalledIsDefault' /\ MakesAlone'
    BY <2>1, <2>5, CallsRest
  <2>10. Kept
    BY <1>3, <2>4
  <2> QED
    BY <2>6, <2>7, <2>8, <2>9, <2>10 DEF OrgsInv
\* A step of the deletion before it commits.
<1>11. ASSUME NEW d, deletion' = d,
              d = [stage |-> d.stage, list |-> d.list, next |-> d.next, moved |-> d.moved],
              d.list = IF d.stage = "moving" THEN LiveIn("org") ELSE {},
              \A x \in d.list : moving[x] = NoSlug,
              UNCHANGED <<homeOf, tombstones, moving, firstCall, defaultRow>>
       PROVE  Goal
  <2>1. LiveIn("org")' = LiveIn("org") /\ Live' = Live /\ Kept
    BY <1>5, <1>11
  <2>2. OrgTypes'
    BY <1>0, <1>11 DEF OrgTypes
  <2>3. ListedAsTheyAre'
    BY <1>11, <2>1 DEF ListedAsTheyAre
  <2>4. MovingIsLive'
    BY <1>0, <1>11, <2>1 DEF MovingIsLive
  <2>5. CalledIsMade' /\ CalledIsDefault' /\ MakesAlone'
    BY <1>11, <2>1, CallsRest
  <2> QED
    BY <2>1, <2>2, <2>3, <2>4, <2>5 DEF OrgsInv
<1>12. \A x \in deletion.list : moving[x] = NoSlug
  BY <1>0, <1>3 DEF MovingIsLive, ListedAsTheyAre, LiveIn
<1>13. ASSUME FailsDeletion  PROVE Goal
  <2>1. /\ NoDeletion = [stage |-> NoDeletion.stage, list |-> NoDeletion.list,
                         next |-> NoDeletion.next, moved |-> NoDeletion.moved]
        /\ NoDeletion.list = {} /\ NoDeletion.stage # "moving"
    BY DEF NoDeletion
  <2> HIDE DEF Goal
  <2> QED
    BY <1>11, <1>13, <2>1 DEF FailsDeletion
<1>14. ASSUME LocksOrg  PROVE Goal
  <2> DEFINE d == [NoDeletion EXCEPT !.stage = "locked"]
  <2>1. /\ d = [stage |-> d.stage, list |-> d.list, next |-> d.next, moved |-> d.moved]
        /\ d.list = {} /\ d.stage # "moving"
    BY DEF NoDeletion
  <2>2. deletion' = d /\ UNCHANGED <<homeOf, tombstones, moving, firstCall, defaultRow>>
    BY <1>14 DEF LocksOrg
  <2> HIDE DEF d, Goal
  <2> QED
    BY <1>11, <2>1, <2>2
<1>15. ASSUME LoadsAgents  PROVE Goal
  <2> DEFINE l == LiveIn("org")
             d == [stage |-> "moving", list |-> l, next |-> deletion.next, moved |-> deletion.moved]
  <2>3. [deletion EXCEPT !.stage = "moving", !.list = l] = d
    <3> HIDE DEF l
    <3>1. deletion = [stage |-> deletion.stage, list |-> deletion.list,
                      next |-> deletion.next, moved |-> deletion.moved]
      BY <1>0 DEF OrgTypes
    <3> DEFINE p == [deletion EXCEPT !.stage = "moving"]
    <3>2. p = [stage |-> "moving", list |-> deletion.list,
               next |-> deletion.next, moved |-> deletion.moved]
      BY <3>1
    <3>3. [deletion EXCEPT !.stage = "moving", !.list = l] = [p EXCEPT !.list = l]
      OBVIOUS
    <3> HIDE DEF p
    <3> QED
      BY <3>2, <3>3
  <2>1. /\ d = [stage |-> d.stage, list |-> d.list, next |-> d.next, moved |-> d.moved]
        /\ d.list = LiveIn("org") /\ d.stage = "moving"
    OBVIOUS
  <2>2. /\ deletion' = d /\ UNCHANGED <<homeOf, tombstones, moving, firstCall, defaultRow>>
        /\ \A x \in LiveIn("org") : moving[x] = NoSlug
    BY <1>15, <2>3 DEF LoadsAgents
  <2> HIDE DEF d, Goal
  <2> QED
    BY <1>11, <2>1, <2>2
<1>16. ASSUME NEW x \in Owned, FindsSlug(x)  PROVE Goal
  <2>1. PICK n : n = {[agent |-> x, slug |->
                        AllocateFreeSlug(slugAt[x], Taken("personal") \cup Uncommitted)]}
    OBVIOUS
  <2>5. deletion = [stage |-> deletion.stage, list |-> deletion.list,
                    next |-> deletion.next, moved |-> deletion.moved]
    BY <1>0 DEF OrgTypes
  <2> DEFINE d == [stage |-> deletion.stage, list |-> deletion.list, next |-> n, moved |-> deletion.moved]
  <2>6. [deletion EXCEPT !.next = n] = d
    BY <2>5
  <2>2. \/ FailsDeletion
        \/ deletion' = d /\ UNCHANGED <<homeOf, tombstones, moving, firstCall, defaultRow>>
    BY <1>16, <2>1, <2>6 DEF FindsSlug
  <2>3. /\ d = [stage |-> d.stage, list |-> d.list, next |-> d.next, moved |-> d.moved]
        /\ d.list = deletion.list /\ d.stage = deletion.stage
    BY <2>5
  <2>4. d.list = IF d.stage = "moving" THEN LiveIn("org") ELSE {}
    BY <1>0, <2>3 DEF ListedAsTheyAre
  <2> HIDE DEF d, Goal
  <2> QED
    BY <1>11, <1>12, <1>13, <2>2, <2>3, <2>4
<1>17. ASSUME MovesListed  PROVE Goal
  <2>1. PICK m : \/ FailsDeletion
                 \/ /\ deletion' = [deletion EXCEPT !.next = {}, !.moved = deletion.moved \cup {m}]
                    /\ UNCHANGED <<homeOf, tombstones, moving, firstCall, defaultRow>>
    BY <1>17 DEF MovesListed
  <2>2. deletion = [stage |-> deletion.stage, list |-> deletion.list,
                    next |-> deletion.next, moved |-> deletion.moved]
    BY <1>0 DEF OrgTypes
  <2> DEFINE d == [stage |-> deletion.stage, list |-> deletion.list, next |-> {},
                   moved |-> deletion.moved \cup {m}]
  <2>6. [deletion EXCEPT !.next = {}, !.moved = deletion.moved \cup {m}] = d
    <3> DEFINE p == [deletion EXCEPT !.next = {}]
               v == deletion.moved \cup {m}
    <3>1. p = [stage |-> deletion.stage, list |-> deletion.list, next |-> {},
               moved |-> deletion.moved]
      BY <2>2
    <3>2. [deletion EXCEPT !.next = {}, !.moved = v] = [p EXCEPT !.moved = v]
      OBVIOUS
    <3> HIDE DEF p, v
    <3>3. [p EXCEPT !.moved = v] = [stage |-> deletion.stage, list |-> deletion.list, next |-> {},
                                    moved |-> v]
      BY <3>1
    <3> QED
      BY <3>2, <3>3 DEF v
  <2>3. /\ d = [stage |-> d.stage, list |-> d.list, next |-> d.next, moved |-> d.moved]
        /\ d.list = deletion.list /\ d.stage = deletion.stage
    BY <2>2
  <2>4. d.list = IF d.stage = "moving" THEN LiveIn("org") ELSE {}
    BY <1>0, <2>3 DEF ListedAsTheyAre
  <2>5. FailsDeletion \/ (deletion' = d /\ UNCHANGED <<homeOf, tombstones, moving, firstCall, defaultRow>>)
    BY <2>1, <2>6
  <2> HIDE DEF d, Goal
  <2> QED
    BY <1>11, <1>12, <1>13, <2>3, <2>4, <2>5
<1>18. ASSUME DropsOrg  PROVE Goal
  <2>1. /\ deletion.stage = "moving" /\ Moved = deletion.list
        /\ homeOf' = [x \in Owned |-> IF x \in Moved THEN "personal"
                                      ELSE IF homeOf[x] = "org" THEN "gone" ELSE homeOf[x]]
        /\ deletion' = NoDeletion
        /\ UNCHANGED <<tombstones, moving, firstCall, defaultRow>>
    BY <1>18 DEF DropsOrg
  <2>2. Moved = LiveIn("org")
    BY <1>0, <2>1 DEF ListedAsTheyAre
  <2>3. \A x \in Owned :
            homeOf'[x] = IF x \in LiveIn("org") THEN "personal"
                         ELSE IF homeOf[x] = "org" THEN "gone" ELSE homeOf[x]
    BY <2>1, <2>2
  <2>4. \A x \in Owned : x \in LiveIn("org") <=> x \notin tombstones /\ homeOf[x] = "org"
    BY DEF LiveIn
  <2>5. Kept
    BY <2>3, <2>4, LiveAreHome
  <2>6. Live' \subseteq Live
    <3> SUFFICES ASSUME NEW x \in Live'  PROVE x \in Live
      OBVIOUS
    <3>1. x \in Owned /\ x \notin tombstones /\ homeOf'[x] \in {"org", "personal"}
      BY <2>1 DEF Live, LiveIn
    <3>2. homeOf[x] \in {"org", "personal"}
      BY <2>3, <2>4, <3>1
    <3> QED
      BY <3>1, <3>2, LiveAreHome
  <2>7. \A x \in Owned : homeOf[x] # "nowhere" => homeOf'[x] # "nowhere"
    BY <2>3
  <2>8. OrgTypes'
    BY <1>0, <1>1, <2>1 DEF OrgTypes, Homes, NoDeletion
  <2>9. ListedAsTheyAre'
    BY <2>1 DEF ListedAsTheyAre, NoDeletion
  <2>10. \A x \in Owned : moving[x] = NoSlug
    BY <1>0, <1>12, <2>1, <2>2 DEF MovingIsLive
  <2>11. MovingIsLive'
    BY <2>1, <2>10 DEF MovingIsLive
  <2>12. CalledIsMade' /\ CalledIsDefault' /\ MakesAlone'
    BY <2>1, <2>6, <2>7, CallsRest
  <2> QED
    BY <2>5, <2>8, <2>9, <2>11, <2>12 DEF OrgsInv
<1>19. ASSUME NEW c \in FirstCalls, LooksForDefault(c)  PROVE Goal
  <2>1. /\ firstCall[c] = "none" /\ \A d \in FirstCalls : firstCall[d] # "makes"
        /\ firstCall' = [firstCall EXCEPT ![c] = IF defaultRow \in Live THEN defaultRow ELSE "makes"]
        /\ UNCHANGED <<homeOf, tombstones, deletion, moving, defaultRow>>
    BY <1>19 DEF LooksForDefault, NobodyMakes
  <2>2. LiveIn("org")' = LiveIn("org") /\ Live' = Live /\ Kept
    BY <1>5, <2>1
  <2>3. /\ DOMAIN firstCall' = FirstCalls
        /\ \A d \in FirstCalls : firstCall'[d] = IF d # c THEN firstCall[d]
                                                 ELSE IF defaultRow \in Live THEN defaultRow ELSE "makes"
    BY <1>1, <2>1
  <2>4. OrgTypes' /\ ListedAsTheyAre' /\ MovingIsLive'
    BY <1>0, <2>1, <2>2, <2>3 DEF OrgTypes, ListedAsTheyAre, MovingIsLive
  <2>5. CalledIsMade'
    BY <1>0, <1>2, <2>1, <2>3 DEF CalledIsMade
  <2>6. CalledIsDefault'
    BY <1>0, <1>2, <1>3, <2>1, <2>2, <2>3 DEF CalledIsDefault
  <2>7. MakesAlone'
    BY <1>2, <1>3, <2>1, <2>2, <2>3 DEF MakesAlone
  <2> QED
    BY <2>2, <2>4, <2>5, <2>6, <2>7 DEF OrgsInv
<1>20. ASSUME UNCHANGED orgVars  PROVE Goal
  <2>1. LiveIn("org")' = LiveIn("org") /\ Live' = Live /\ Kept
    BY <1>5, <1>20 DEF orgVars
  <2>2. OrgTypes' /\ ListedAsTheyAre' /\ MovingIsLive'
    BY <1>0, <1>20, <2>1 DEF orgVars, OrgTypes, ListedAsTheyAre, MovingIsLive
  <2>3. CalledIsMade' /\ CalledIsDefault' /\ MakesAlone'
    BY <1>20, <2>1, CallsRest DEF orgVars
  <2> QED
    BY <2>1, <2>2, <2>3 DEF OrgsInv
<1>21. Goal
  <2> HIDE DEF Goal
  <2> QED
    BY <1>6, <1>7, <1>8, <1>9, <1>10, <1>14, <1>15, <1>16, <1>17, <1>18, <1>19, <1>20 DEF OrgsNext
<1> QED
  BY <1>21

\* The invariant of agents and first calls holds in every state.  That no live
\* agent goes with the organization needs the deletion's list to be what the
\* organization has, until it commits; that first calls agree, that the one
\* that makes the default agent is alone.
THEOREM OrgsInvariant == OrgsSpec => []OrgsInv
<1>1. OrgsInit => OrgsInv
  <2> SUFFICES ASSUME OrgsInit PROVE OrgsInv
    OBVIOUS
  <2>1. "none" \notin Owned /\ NoAgentYet \notin Owned
    BY OrgsAssumption
  <2>2. Live = {}
    BY DEF OrgsInit, Live, LiveIn
  <2>3. OrgTypes /\ ListedAsTheyAre /\ MovingIsLive
    BY DEF OrgsInit, OrgTypes, Homes, ListedAsTheyAre, MovingIsLive, NoDeletion
  <2>4. CalledIsMade /\ CalledIsDefault /\ MakesAlone
    BY <2>1, <2>2 DEF OrgsInit, CalledIsMade, CalledIsDefault, MakesAlone
  <2> QED
    BY <2>3, <2>4 DEF OrgsInv
<1>2. OrgsInv /\ [OrgsNext]_orgVars => OrgsInv'
  BY OrgsStep
<1> QED
  BY <1>1, <1>2, PTL DEF OrgsSpec

\* delete_org and default_agent: whatever agents are created, moved or deleted
\* while an organization is deleted, no live agent goes with it, and first
\* calls whose agents are there were made as one agent.
THEOREM AgentsOutliveTheirOrg == OrgsSpec => AgentsAreKept
<1>1. OrgsInv => OneDefaultAgent
  BY DEF OrgsInv, CalledIsDefault, OneDefaultAgent
<1>2. OrgsInv' => OneDefaultAgent'
  BY <1>1, PTL
<1>3. OrgsInv /\ OrgsInv' /\ [OrgsNext]_orgVars
      => [(\A x \in Live : homeOf'[x] # "gone") /\ OneDefaultAgent']_orgVars
  BY <1>2, OrgsStep
<1> QED
  BY <1>3, OrgsInvariant, PTL DEF OrgsSpec, AgentsAreKept

----------------------------------------------------------------------------
(* Screening *)

\* A set of numbers that is not empty has a least one: the runs of numbers up
\* to each are finite sets, and those are well-founded by inclusion.
LEMMA HasLeast ==
    ASSUME NEW S, S \subseteq Nat, S # {}
    PROVE  \E x \in S : \A y \in S : x <= y
<1> DEFINE R == StrictSubsetOrdering(Nat)
           T == {1..x : x \in S}
<1>1. IsWellFoundedOn(R, FiniteSubsetsOf(Nat))
  BY FS_StrictSubsetOrderingWellFounded
<1>2. T \subseteq FiniteSubsetsOf(Nat) /\ T # {}
  <2>1. ASSUME NEW x \in S  PROVE 1..x \in FiniteSubsetsOf(Nat)
    <3>1. IsFiniteSet(1..x)
      BY FS_Interval
    <3>2. 1..x \in SUBSET Nat
      OBVIOUS
    <3> QED
      BY <3>1, <3>2 DEF FiniteSubsetsOf
  <2> QED
    BY <2>1
<1>3. \A x, y \in Nat : y < x => <<1..y, 1..x>> \in R
  BY DEF StrictSubsetOrdering
<1> HIDE DEF R
<1>4. PICK t \in T : \A u \in T : ~(<<u, t>> \in R)
  <2> HIDE DEF T
  <2> QED
    BY <1>1, <1>2, WFMin
<1>5. PICK x \in S : t = 1..x
  OBVIOUS
<1>6. \A y \in S : y \in Nat /\ x \in Nat /\ ~(y < x)
  BY <1>3, <1>4, <1>5
<1> QED
  BY <1>5, <1>6

\* What a chunk holds of a text: a run of its pieces.
Fields == {f \in [item : TextItems, from : 1..TextLength, to : 1..TextLength] : f.from <= f.to}
Chunks == [fields : Seq(Fields), decoded : SUBSET TextItems]
Stages == {"placing", "filling", "asking", "decided"}

ScreenTypes ==
    /\ screened.encoded \subseteq TextItems /\ screened.hidden \subseteq 1..Contacts
    /\ stage \in Stages
    /\ offset \in [TextItems -> 0..TextLength]
    /\ chunks \in Seq(Chunks)
    /\ stage = "filling" => chunks # <<>>

\* Each chunk has its query once the judge is asked, and each query holds its
\* chunk or, after a refusal, half of it.
QueriesAsChunks == DOMAIN queries = IF stage \in {"asking", "decided"} THEN DOMAIN chunks ELSE {}
AsPlaced(c, q) ==
    /\ q = [fields |-> q.fields, halved |-> q.halved, retried |-> q.retried,
            came |-> q.came, reply |-> q.reply]
    /\ q.halved \in BOOLEAN /\ q.came \in {"nothing", "failure", "lost", "answers"}
    /\ q.fields = IF q.halved THEN Half(chunks[c].fields) ELSE chunks[c].fields
    /\ q.came = "answers" => q.reply \in Answers(c)
AskedAsPlaced == \A c \in DOMAIN queries : AsPlaced(c, queries[c])

\* Every piece of text that was placed is in a chunk, and what an encoded span
\* decodes to goes with a piece of its text.
InChunk(i, p, c) ==
    \E k \in DOMAIN chunks[c].fields :
        LET f == chunks[c].fields[k] IN f.item = i /\ f.from <= p /\ p <= f.to
PlacedInChunks ==
    \A i \in TextItems : \A p \in 1..offset[i] : \E c \in DOMAIN chunks : InChunk(i, p, c)
DecodedWithText == \A c \in DOMAIN chunks : chunks[c].decoded \subseteq ItemsOf(chunks[c].fields)

\* What is told of the answers: which texts they left out, how many queries
\* failed, and the highest probability of each question.
AnsweredTypes ==
    /\ answered = [best |-> answered.best, failed |-> answered.failed,
                   first |-> answered.first, unjudged |-> answered.unjudged]
    /\ answered.best = [harm |-> answered.best.harm, off |-> answered.best.off,
                        contact |-> answered.best.contact]
    /\ answered.best.harm \in 0..1 /\ answered.best.off \in 0..1 /\ answered.first \in BOOLEAN
FailedQueries == {c \in DOMAIN queries : queries[c].came \in {"failure", "lost"}}
FirstAsAnswered ==
    /\ answered.first <=> 1 \in GotAnswers
    /\ answered.best.contact = IF 1 \in GotAnswers THEN queries[1].reply.contact ELSE <<>>
FailuresCounted == answered.failed = Cardinality(FailedQueries)
LeftOutIsTold ==
    /\ \A c \in FailedQueries :
           queries[c].came = "failure" => ItemsOf(chunks[c].fields) \subseteq answered.unjudged
    /\ \A c \in GotAnswers :
           queries[c].halved => Leftover(chunks[c].fields) \subseteq answered.unjudged
BestOfAnswers ==
    \A c \in GotAnswers :
        /\ queries[c].reply.harm <= answered.best.harm
        /\ queries[c].reply.off <= answered.best.off

DecidedAsTold ==
    stage = "decided" =>
        /\ decided = [redacted |-> Redacted, flagged |-> Flagged, blocked |-> Blocked,
                      unjudged |-> PlanUnjudged \cup answered.unjudged]
        /\ \A c \in DOMAIN queries : queries[c].came # "nothing"

ScreenInv ==
    /\ ScreenTypes /\ QueriesAsChunks /\ AskedAsPlaced /\ PlacedInChunks /\ DecodedWithText
    /\ AnsweredTypes /\ FirstAsAnswered /\ FailuresCounted /\ LeftOutIsTold /\ BestOfAnswers
    /\ DecidedAsTold

\* The text that plan places next is one that is not placed.
LEMMA NextIsQueued ==
    ASSUME ScreenTypes, Queue # {}
    PROVE  NextItem \in Queue
<1>1. Queue \subseteq Nat
  BY ScreeningAssumption DEF Queue, TextItems
<1>2. \E i \in Queue : \A j \in Queue : i <= j
  BY <1>1, HasLeast
<1> QED
  BY <1>2 DEF NextItem

\* Of the entries that halve does not report as left over, every piece is still
\* in the half: it had several, and these are among the first.
LEMMA HalfKeeps ==
    ASSUME NEW fields \in Seq(Fields), NEW k \in DOMAIN fields,
           fields[k].item \notin Leftover(fields)
    PROVE  \E j \in DOMAIN Half(fields) : Half(fields)[j] = fields[k]
<1> DEFINE n == Len(fields)
           h == (n + 1) \div 2
           rest == SubSeq(fields, h + 1, n)
<1>1. n \in Nat /\ DOMAIN fields = 1..n /\ k \in 1..n
  OBVIOUS
<1>2. CASE n > 1
  <2>1. h \in Nat /\ 1 <= h /\ h <= n
    BY <1>1, <1>2
  <2> HIDE DEF h
  <2>2. ASSUME k > h  PROVE FALSE
    <3>1. k - h \in 1..(n - h) /\ DOMAIN rest = 1..(n - h)
      BY <1>1, <2>1, <2>2
    <3>2. rest[k - h] = fields[k]
      BY <1>1, <2>1, <2>2, <3>1
    <3>3. fields[k].item \in ItemsOf(rest)
      BY <3>1, <3>2 DEF ItemsOf
    <3> QED
      BY <1>2, <3>3 DEF Leftover, h
  <2>3. Half(fields) = SubSeq(fields, 1, h)
    BY <1>2 DEF Half, h
  <2>4. k \in 1..h /\ DOMAIN SubSeq(fields, 1, h) = 1..h /\ SubSeq(fields, 1, h)[k] = fields[k]
    BY <1>1, <2>1, <2>2
  <2> QED
    BY <2>3, <2>4
<1>3. CASE ~(n > 1)
  BY <1>3 DEF Leftover, ItemsOf
<1> QED
  BY <1>2, <1>3

\* At most every query has failed, and not every one when one was answered.
LEMMA FailedOfAll ==
    ASSUME ScreenInv, stage \in {"asking", "decided"}
    PROVE  /\ IsFiniteSet(FailedQueries) /\ DOMAIN queries = 1..Len(chunks)
           /\ GotAnswers # {} => ~AllFailed
<1>1. Len(chunks) \in Nat /\ DOMAIN queries = 1..Len(chunks)
  BY DEF ScreenInv, ScreenTypes, QueriesAsChunks
<1>2. IsFiniteSet(1..Len(chunks)) /\ Cardinality(1..Len(chunks)) = Len(chunks)
  <2> DEFINE n == Len(chunks)
  <2>1. n \in Nat
    BY <1>1
  <2> HIDE DEF n
  <2>2. IsFiniteSet(1..n) /\ Cardinality(1..n) = n
    BY <2>1, FS_Interval
  <2> QED
    BY <2>2 DEF n
<1>3. FailedQueries \subseteq 1..Len(chunks)
  BY <1>1 DEF FailedQueries
<1>4. IsFiniteSet(FailedQueries) /\ (FailedQueries # 1..Len(chunks) =>
          Cardinality(FailedQueries) < Len(chunks))
  <2> DEFINE N == 1..Len(chunks)
             F == FailedQueries
  <2>1. IsFiniteSet(N) /\ Cardinality(N) = Len(chunks) /\ F \in SUBSET N /\ Len(chunks) \in Nat
    BY <1>1, <1>2, <1>3
  <2> HIDE DEF N, F
  <2>2. IsFiniteSet(F) /\ Cardinality(F) <= Cardinality(N) /\ (Cardinality(N) = Cardinality(F) => N = F)
    BY <2>1, FS_Subset
  <2>3. Cardinality(F) \in Nat
    BY <2>2, FS_CardinalityType
  <2>4. IsFiniteSet(F) /\ (F # N => Cardinality(F) < Len(chunks))
    BY <2>1, <2>2, <2>3
  <2> QED
    BY <2>4 DEF N, F
<1>5. GotAnswers # {} => FailedQueries # 1..Len(chunks)
  BY <1>1 DEF GotAnswers, FailedQueries
<1>6. answered.failed = Cardinality(FailedQueries) /\ Cardinality(FailedQueries) \in Nat
  BY <1>4, FS_CardinalityType DEF ScreenInv, FailuresCounted
<1>7. ASSUME GotAnswers # {}  PROVE ~AllFailed
  BY <1>1, <1>4, <1>5, <1>6, <1>7 DEF AllFailed
<1> QED
  BY <1>1, <1>4, <1>7

\* A screened message whose queries all came back gets nothing past.
LEMMA ScreenedAsTold ==
    ASSUME ScreenInv
    PROVE  NothingSlipsThrough
<1> SUFFICES ASSUME stage = "decided"  PROVE NothingSlipsThrough
  BY DEF NothingSlipsThrough, NothingPassesUnseen, AnyChunkDecides
<1>1. /\ IsFiniteSet(FailedQueries) /\ DOMAIN queries = 1..Len(chunks)
      /\ GotAnswers # {} => ~AllFailed
  BY FailedOfAll
<1>2. /\ decided.redacted = Redacted /\ decided.flagged = Flagged /\ decided.blocked = Blocked
      /\ decided.unjudged = PlanUnjudged \cup answered.unjudged
      /\ \A c \in DOMAIN queries : queries[c].came # "nothing"
  BY DEF ScreenInv, DecidedAsTold
<1>3. DOMAIN chunks = DOMAIN queries /\ \A c \in DOMAIN queries : chunks[c].fields \in Seq(Fields)
  <2>1. DOMAIN chunks = DOMAIN queries /\ chunks \in Seq(Chunks)
    BY DEF ScreenInv, ScreenTypes, QueriesAsChunks
  <2>2. ASSUME NEW c \in DOMAIN queries  PROVE chunks[c].fields \in Seq(Fields)
    <3>1. chunks[c] \in Chunks
      BY <2>1
    <3> QED
      BY <3>1 DEF Chunks
  <2> QED
    BY <2>1, <2>2
<1>4. \A c \in DOMAIN queries : c \in GotAnswers \/ c \in FailedQueries
  BY <1>2 DEF ScreenInv, AskedAsPlaced, AsPlaced, GotAnswers, FailedQueries
<1>5. ASSUME NEW i \in TextItems \ (decided.unjudged \cup LostTexts), NEW c \in DOMAIN queries,
             i \in ItemsOf(chunks[c].fields)
      PROVE  c \in GotAnswers
  <2>1. queries[c].came # "lost"
    BY <1>5 DEF LostTexts
  <2>2. c \in FailedQueries => queries[c].came = "failure"
    BY <2>1 DEF FailedQueries
  <2>3. c \notin FailedQueries
    BY <1>2, <1>5, <2>2 DEF ScreenInv, LeftOutIsTold
  <2> QED
    BY <1>4, <2>3
<1>6. ASSUME NEW i \in TextItems \ (decided.unjudged \cup LostTexts), NEW p \in 1..TextLength
      PROVE  <<i, p>> \in ReadByJudge
  <2>1. p \in 1..offset[i]
    BY <1>2, <1>6, ScreeningAssumption DEF PlanUnjudged, Queue, ScreenInv, ScreenTypes
  <2>2. PICK c \in DOMAIN chunks : InChunk(i, p, c)
    BY <2>1 DEF ScreenInv, PlacedInChunks
  <2>3. PICK k \in DOMAIN chunks[c].fields :
            /\ chunks[c].fields[k].item = i
            /\ chunks[c].fields[k].from <= p /\ p <= chunks[c].fields[k].to
    BY <2>2 DEF InChunk
  <2>4. c \in GotAnswers
    BY <1>3, <1>5, <2>3 DEF ItemsOf
  <2>5. PICK j \in DOMAIN queries[c].fields : queries[c].fields[j] = chunks[c].fields[k]
    <3>1. CASE queries[c].halved
      <4>1. chunks[c].fields[k].item \notin Leftover(chunks[c].fields)
        BY <1>2, <1>6, <2>3, <2>4, <3>1 DEF ScreenInv, LeftOutIsTold
      <4>2. \E j \in DOMAIN Half(chunks[c].fields) :
                Half(chunks[c].fields)[j] = chunks[c].fields[k]
        BY <1>3, <4>1, HalfKeeps
      <4> QED
        BY <1>3, <3>1, <4>2 DEF ScreenInv, AskedAsPlaced, AsPlaced
    <3>2. CASE ~queries[c].halved
      BY <1>3, <3>2 DEF ScreenInv, AskedAsPlaced, AsPlaced
    <3> QED
      BY <3>1, <3>2
  <2>6. <<i, p>> \in Pieces(queries[c].fields[j])
    <3>1. /\ chunks[c].fields[k].from \in Nat /\ chunks[c].fields[k].to \in Nat
          /\ p \in Nat
      <4>1. chunks[c].fields[k] \in Fields
        BY <1>3, <2>3
      <4> QED
        BY <4>1, ScreeningAssumption DEF Fields
    <3> QED
      BY <2>3, <2>5, <3>1 DEF Pieces
  <2> QED
    BY <2>4, <2>5, <2>6 DEF ReadByJudge
<1>7. ASSUME NEW i \in TextItems \ (decided.unjudged \cup LostTexts), i \in screened.encoded
      PROVE  i \in ReadDecoded
  <2>1. PICK c \in DOMAIN chunks : i \in chunks[c].decoded
    BY <1>2, <1>7 DEF PlanUnjudged, Placed
  <2>2. c \in GotAnswers
    BY <1>3, <1>5, <2>1 DEF ScreenInv, DecodedWithText
  <2> QED
    BY <2>1, <2>2 DEF ReadDecoded
<1>8. ASSUME NEW c \in 1..Contacts \ (decided.redacted \cup decided.flagged)
      PROVE  c \in Judged /\ 1 \in GotAnswers
  <2>1. c \in Judged
    BY <1>2, <1>8 DEF Flagged, UnjudgedContacts
  <2>2. answered.first
    BY <1>2, <1>8, <2>1 DEF Flagged
  <2> QED
    BY <2>1, <2>2 DEF ScreenInv, FirstAsAnswered
<1>9. NothingPassesUnseen
  <2>1. ASSUME NEW i \in TextItems \ (decided.unjudged \cup LostTexts)
        PROVE  {i} \X (1..TextLength) \subseteq ReadByJudge
    BY <1>6
  <2> QED
    BY <1>7, <1>8, <2>1 DEF NothingPassesUnseen
<1>10. ASSUME NEW c \in GotAnswers
       PROVE  /\ queries[c].reply.harm = 1 => decided.blocked
              /\ queries[c].reply.off = 1 => answered.best.off = 1
  <2>1. ~AllFailed
    BY <1>1, <1>10
  <2>2. /\ queries[c].reply.harm \in 0..1 /\ queries[c].reply.off \in 0..1
        /\ queries[c].reply.harm <= answered.best.harm /\ queries[c].reply.off <= answered.best.off
        /\ answered.best.harm \in 0..1 /\ answered.best.off \in 0..1
    BY <1>10 DEF ScreenInv, AskedAsPlaced, AsPlaced, Answers, GotAnswers, BestOfAnswers, AnsweredTypes
  <2>3. queries[c].reply.harm = 1 => decided.blocked
    <3>1. queries[c].reply.harm = 1 => answered.best.harm = 1
      BY <2>2
    <3>2. queries[c].reply.harm = 1 => Blocked
      BY <2>1, <3>1 DEF Blocked
    <3> QED
      BY <1>2, <3>2, Zenon
  <2>4. queries[c].reply.off = 1 => answered.best.off = 1
    BY <2>2
  <2> QED
    BY <2>3, <2>4
<1>11. SaysOffPlatform => ~AllFailed /\ answered.best.off = 1
  BY <1>1, <1>10 DEF SaysOffPlatform
<1>12. SaysOffPlatform => UnjudgedContacts \subseteq decided.redacted
  BY <1>2, <1>11 DEF Redacted
<1>13. ASSUME 1 \in GotAnswers, NEW x \in DOMAIN queries[1].reply.contact,
              \/ queries[1].reply.contact[x] = 2
              \/ SaysOffPlatform /\ (x \in screened.hidden \/ queries[1].reply.contact[x] = 1)
       PROVE  x \in decided.redacted
  <2>1. ~AllFailed /\ answered.best.contact = queries[1].reply.contact
    BY <1>1, <1>13 DEF ScreenInv, FirstAsAnswered
  <2>2. x \in Judged
    <3>1. 1 \in DOMAIN queries /\ queries[1].reply \in Answers(1)
      BY <1>13 DEF ScreenInv, AskedAsPlaced, AsPlaced, GotAnswers
    <3>2. DOMAIN queries[1].reply.contact \subseteq Judged
      BY <3>1 DEF Answers
    <3> QED
      BY <1>13, <3>2
  <2>3. Convinces(x)
    BY <1>11, <1>13, <2>1 DEF Convinces
  <2>4. x \in Redacted
    BY <1>13, <2>1, <2>2, <2>3 DEF Redacted
  <2> QED
    BY <1>2, <2>4
<1>14. AnyChunkDecides
  BY <1>10, <1>12, <1>13 DEF AnyChunkDecides
<1> QED
  BY <1>9, <1>14 DEF NothingSlipsThrough

\* A chunk's query that goes on while the others wait: what was placed, and what
\* the others answered, is as it was.
LEMMA QueryMoves ==
    ASSUME ScreenInv, stage = "asking", NEW c \in DOMAIN queries, NEW q, AsPlaced(c, q),
           queries' = [queries EXCEPT ![c] = q],
           UNCHANGED <<screened, stage, offset, chunks, decided>>
    PROVE  /\ ScreenTypes' /\ QueriesAsChunks' /\ AskedAsPlaced' /\ PlacedInChunks'
           /\ DecodedWithText' /\ DecidedAsTold'
           /\ DOMAIN queries' = DOMAIN queries /\ queries'[c] = q
           /\ \A d \in DOMAIN queries \ {c} : queries'[d] = queries[d]
<1>1. /\ DOMAIN queries' = DOMAIN queries /\ queries'[c] = q
      /\ \A d \in DOMAIN queries \ {c} : queries'[d] = queries[d]
  OBVIOUS
<1>2. ScreenTypes'
  BY DEF ScreenInv, ScreenTypes
<1>3. QueriesAsChunks'
  BY <1>1 DEF ScreenInv, QueriesAsChunks
<1>4. AskedAsPlaced'
  <2>1. ASSUME NEW d \in DOMAIN queries  PROVE AsPlaced(d, queries'[d])
    BY <1>1 DEF ScreenInv, AskedAsPlaced
  <2>2. \A d, r : AsPlaced(d, r)' <=> AsPlaced(d, r')
    BY DEF AsPlaced, Answers, Judged
  <2> QED
    BY <1>1, <2>1 DEF AskedAsPlaced, AsPlaced, Answers
<1>5. PlacedInChunks' /\ DecodedWithText'
  BY DEF ScreenInv, PlacedInChunks, InChunk, DecodedWithText
<1>6. DecidedAsTold'
  BY DEF DecidedAsTold
<1> QED
  BY <1>1, <1>2, <1>3, <1>4, <1>5, <1>6

\* A query that is tried once more.
LEMMA AsksAgain ==
    ASSUME ScreenInv, stage = "asking", NEW c \in DOMAIN queries, queries[c].came = "nothing",
           NEW q, AsPlaced(c, q), q.came = "nothing",
           queries' = [queries EXCEPT ![c] = q],
           UNCHANGED <<screened, stage, offset, chunks, answered, decided>>
    PROVE  ScreenInv'
<1>1. /\ ScreenTypes' /\ QueriesAsChunks' /\ AskedAsPlaced' /\ PlacedInChunks'
      /\ DecodedWithText' /\ DecidedAsTold'
      /\ DOMAIN queries' = DOMAIN queries /\ queries'[c] = q
      /\ \A d \in DOMAIN queries \ {c} : queries'[d] = queries[d]
  BY QueryMoves
<1>2. /\ FailedQueries' = FailedQueries /\ GotAnswers' = GotAnswers
      /\ c \notin FailedQueries /\ c \notin GotAnswers
  BY <1>1 DEF FailedQueries, GotAnswers
<1>3. AnsweredTypes' /\ FailuresCounted'
  BY <1>2 DEF ScreenInv, AnsweredTypes, FailuresCounted
<1>4. LeftOutIsTold' /\ BestOfAnswers'
  BY <1>1, <1>2 DEF ScreenInv, LeftOutIsTold, BestOfAnswers, GotAnswers, FailedQueries
<1>5. FirstAsAnswered'
  BY <1>1, <1>2 DEF ScreenInv, FirstAsAnswered
<1> QED
  BY <1>1, <1>3, <1>4, <1>5 DEF ScreenInv

\* A query that ends without an answer is counted, and unless its task was lost,
\* what its chunk holds is left out.
LEMMA QueryEnds ==
    ASSUME ScreenInv, NEW c \in DOMAIN queries, Pending(c),
           NEW how \in {"failure", "lost"}, NEW u, answered.unjudged \subseteq u,
           how = "failure" => ItemsOf(chunks[c].fields) \subseteq u,
           queries' = [queries EXCEPT ![c].came = how],
           answered' = [best |-> answered.best, failed |-> answered.failed + 1,
                        first |-> answered.first, unjudged |-> u],
           UNCHANGED <<screened, stage, offset, chunks, decided>>
    PROVE  ScreenInv'
<1> DEFINE q == [queries[c] EXCEPT !.came = how]
<1>1. AsPlaced(c, queries[c]) /\ stage = "asking" /\ queries[c].came = "nothing"
  BY DEF ScreenInv, AskedAsPlaced, Pending
<1>2. /\ q = [fields |-> queries[c].fields, halved |-> queries[c].halved,
              retried |-> queries[c].retried, came |-> how, reply |-> queries[c].reply]
      /\ queries' = [queries EXCEPT ![c] = q]
  BY <1>1 DEF AsPlaced
<1>3. AsPlaced(c, q) /\ q.came = how
  BY <1>1, <1>2 DEF AsPlaced
<1> HIDE DEF q
<1>4. /\ ScreenTypes' /\ QueriesAsChunks' /\ AskedAsPlaced' /\ PlacedInChunks'
      /\ DecodedWithText' /\ DecidedAsTold'
      /\ DOMAIN queries' = DOMAIN queries /\ queries'[c] = q
      /\ \A d \in DOMAIN queries \ {c} : queries'[d] = queries[d]
  BY <1>1, <1>2, <1>3, QueryMoves
<1>5. /\ FailedQueries' = FailedQueries \cup {c} /\ GotAnswers' = GotAnswers
      /\ c \notin FailedQueries /\ c \notin GotAnswers
  BY <1>1, <1>3, <1>4 DEF FailedQueries, GotAnswers
<1>7. /\ answered'.best = answered.best /\ answered'.first = answered.first
      /\ answered'.failed = answered.failed + 1 /\ answered'.unjudged = u
  OBVIOUS
<1>6. AnsweredTypes'
  BY <1>7 DEF ScreenInv, AnsweredTypes
<1>8. FirstAsAnswered'
  BY <1>4, <1>5, <1>7 DEF ScreenInv, FirstAsAnswered
<1>9. FailuresCounted'
  <2>1. IsFiniteSet(FailedQueries)
    BY <1>1, FailedOfAll
  <2>2. Cardinality(FailedQueries \cup {c}) = Cardinality(FailedQueries) + 1
    BY <1>5, <2>1, FS_AddElement
  <2> QED
    BY <1>5, <1>7, <2>2 DEF ScreenInv, FailuresCounted
<1>10. LeftOutIsTold'
  <2>1. ASSUME NEW d \in FailedQueries', queries'[d].came = "failure"
        PROVE  ItemsOf(chunks[d].fields) \subseteq u
    <3>1. CASE d = c
      BY <1>3, <1>4, <2>1, <3>1
    <3>2. CASE d # c
      BY <1>4, <1>5, <2>1, <3>2 DEF ScreenInv, LeftOutIsTold, FailedQueries
    <3> QED
      BY <3>1, <3>2
  <2>2. ASSUME NEW d \in GotAnswers, queries'[d].halved
        PROVE  Leftover(chunks[d].fields) \subseteq u
    BY <1>4, <1>5, <2>2 DEF ScreenInv, LeftOutIsTold, GotAnswers
  <2> QED
    BY <1>5, <1>7, <2>1, <2>2 DEF LeftOutIsTold
<1>11. BestOfAnswers'
  BY <1>4, <1>5, <1>7 DEF ScreenInv, BestOfAnswers, GotAnswers
<1> QED
  BY <1>4, <1>6, <1>8, <1>9, <1>10, <1>11 DEF ScreenInv

\* A query that fails is counted, and what its chunk holds is left out.
LEMMA QueryFails ==
    ASSUME ScreenInv, NEW c \in DOMAIN queries, Pending(c), Fails(c),
           UNCHANGED <<screened, stage, offset, chunks, decided>>
    PROVE  ScreenInv'
<1> DEFINE n == answered.failed + 1
           u == answered.unjudged \cup ItemsOf(chunks[c].fields)
<1>1. answered = [best |-> answered.best, failed |-> answered.failed,
                  first |-> answered.first, unjudged |-> answered.unjudged]
  BY DEF ScreenInv, AnsweredTypes
<1>2. /\ answered' = [answered EXCEPT !.failed = n, !.unjudged = u]
      /\ queries' = [queries EXCEPT ![c].came = "failure"]
  BY DEF Fails
<1>3. answered.unjudged \subseteq u /\ ItemsOf(chunks[c].fields) \subseteq u
  OBVIOUS
<1> HIDE DEF n, u
<1>4. answered' = [best |-> answered.best, failed |-> n, first |-> answered.first, unjudged |-> u]
  <2> DEFINE p == [answered EXCEPT !.failed = n]
  <2>1. p = [best |-> answered.best, failed |-> n,
             first |-> answered.first, unjudged |-> answered.unjudged]
    BY <1>1
  <2>2. [answered EXCEPT !.failed = n, !.unjudged = u] = [p EXCEPT !.unjudged = u]
    OBVIOUS
  <2> HIDE DEF p
  <2> QED
    BY <1>2, <2>1, <2>2
<1>5. answered' = [best |-> answered.best, failed |-> answered.failed + 1,
                   first |-> answered.first, unjudged |-> u]
  BY <1>4 DEF n
<1> QED
  BY <1>2, <1>3, <1>5, QueryEnds

\* So is one whose task is lost, but what its chunk holds is not.
LEMMA TaskEndsLost ==
    ASSUME ScreenInv, NEW c \in DOMAIN queries, TaskIsLost(c)
    PROVE  ScreenInv'
<1>1. answered = [best |-> answered.best, failed |-> answered.failed,
                  first |-> answered.first, unjudged |-> answered.unjudged]
  BY DEF ScreenInv, AnsweredTypes
<1>2. /\ Pending(c) /\ queries' = [queries EXCEPT ![c].came = "lost"]
      /\ answered' = [answered EXCEPT !.failed = answered.failed + 1]
      /\ UNCHANGED <<screened, stage, offset, chunks, decided>>
  BY DEF TaskIsLost
<1>3. answered' = [best |-> answered.best, failed |-> answered.failed + 1,
                   first |-> answered.first, unjudged |-> answered.unjudged]
  BY <1>1, <1>2
<1> QED
  BY <1>2, <1>3, QueryEnds

\* A function of nothing is the empty sequence.
LEMMA NothingIsEmpty ==
    ASSUME NEW S, NEW f \in [{} -> S]
    PROVE  f = <<>>
<1>1. f \in [1..0 -> S]
  OBVIOUS
<1>2. f \in Seq(S) /\ Len(f) = 0
  BY <1>1
<1> QED
  BY <1>2, EmptySeq

\* An answer is merged into what the message has: its probabilities count, and
\* what it left out is told.
LEMMA QueryIsAnswered ==
    ASSUME ScreenInv, NEW c \in DOMAIN queries, NEW a \in Answers(c), JudgeAnswers(c, a)
    PROVE  ScreenInv'
<1> DEFINE q == [fields |-> queries[c].fields, halved |-> queries[c].halved,
                 retried |-> queries[c].retried, came |-> "answers", reply |-> a]
           u == answered.unjudged \cup (IF queries[c].halved THEN Leftover(chunks[c].fields) ELSE {})
           f == answered.first \/ c = 1
           b == Merged(answered.best, a)
<1>1. /\ AsPlaced(c, queries[c]) /\ stage = "asking" /\ queries[c].came = "nothing"
      /\ UNCHANGED <<screened, stage, offset, chunks, decided>>
  BY DEF ScreenInv, AskedAsPlaced, JudgeAnswers, Pending
<1>2. queries' = [queries EXCEPT ![c] = q]
  <2> DEFINE p == [queries[c] EXCEPT !.came = "answers"]
  <2>1. p = [fields |-> queries[c].fields, halved |-> queries[c].halved,
             retried |-> queries[c].retried, came |-> "answers", reply |-> queries[c].reply]
    BY <1>1 DEF AsPlaced
  <2>2. queries' = [queries EXCEPT ![c] = [p EXCEPT !.reply = a]]
    BY DEF JudgeAnswers
  <2> HIDE DEF p
  <2>3. [p EXCEPT !.reply = a] = q
    BY <2>1
  <2> QED
    BY <2>2, <2>3
<1>3. AsPlaced(c, q) /\ q.came = "answers" /\ q.reply = a /\ q.halved = queries[c].halved
  BY <1>1 DEF AsPlaced
<1> HIDE DEF q
<1>4. /\ ScreenTypes' /\ QueriesAsChunks' /\ AskedAsPlaced' /\ PlacedInChunks'
      /\ DecodedWithText' /\ DecidedAsTold'
      /\ DOMAIN queries' = DOMAIN queries /\ queries'[c] = q
      /\ \A d \in DOMAIN queries \ {c} : queries'[d] = queries[d]
  BY <1>1, <1>2, <1>3, QueryMoves
<1>5. /\ FailedQueries' = FailedQueries /\ GotAnswers' = GotAnswers \cup {c}
      /\ c \notin FailedQueries /\ c \notin GotAnswers
  BY <1>1, <1>3, <1>4 DEF FailedQueries, GotAnswers
<1>6. answered' = [best |-> b, failed |-> answered.failed, first |-> f, unjudged |-> u]
  <2>1. answered = [best |-> answered.best, failed |-> answered.failed,
                    first |-> answered.first, unjudged |-> answered.unjudged]
    BY DEF ScreenInv, AnsweredTypes
  <2>2. answered' = [answered EXCEPT !.best = b, !.first = f, !.unjudged = u]
    BY DEF JudgeAnswers
  <2> HIDE DEF b, f, u
  <2> DEFINE p == [answered EXCEPT !.best = b]
             r == [p EXCEPT !.first = f]
  <2>3. p = [best |-> b, failed |-> answered.failed,
             first |-> answered.first, unjudged |-> answered.unjudged]
    BY <2>1
  <2>4. [answered EXCEPT !.best = b, !.first = f, !.unjudged = u] = [r EXCEPT !.unjudged = u]
    OBVIOUS
  <2> HIDE DEF p
  <2>5. r = [best |-> b, failed |-> answered.failed, first |-> f, unjudged |-> answered.unjudged]
    BY <2>3
  <2> HIDE DEF r
  <2> QED
    BY <2>2, <2>4, <2>5
<1>7. /\ b = [harm |-> b.harm, off |-> b.off, contact |-> b.contact]
      /\ b.harm \in 0..1 /\ b.off \in 0..1
      /\ b.harm >= answered.best.harm /\ b.off >= answered.best.off
      /\ b.harm >= a.harm /\ b.off >= a.off
  BY DEF ScreenInv, AnsweredTypes, Answers, Merged, Greater
<1>8. b.contact = IF c = 1 THEN a.contact ELSE answered.best.contact
  <2>1. b.contact = IF a.contact = <<>> THEN answered.best.contact ELSE a.contact
    BY DEF Merged
  <2> HIDE DEF b
  <2>2. CASE c = 1
    BY <1>5, <2>1, <2>2 DEF ScreenInv, FirstAsAnswered
  <2>3. CASE c # 1
    <3>1. a.contact \in [{} -> 0..2]
      BY <2>3 DEF Answers
    <3>2. a.contact = <<>>
      BY <3>1, NothingIsEmpty
    <3> QED
      BY <2>1, <2>3, <3>2
  <2> QED
    BY <2>2, <2>3
<1>9. f \in BOOLEAN /\ (f <=> answered.first \/ c = 1)
  BY DEF ScreenInv, AnsweredTypes
<1>10. answered.unjudged \subseteq u /\ (queries[c].halved => Leftover(chunks[c].fields) \subseteq u)
  OBVIOUS
<1> HIDE DEF b, f, u
<1>11. /\ answered'.best = b /\ answered'.first = f /\ answered'.unjudged = u
       /\ answered'.failed = answered.failed
  BY <1>6
<1>12. AnsweredTypes'
  BY <1>6, <1>7, <1>9, <1>11 DEF AnsweredTypes
<1>13. FirstAsAnswered'
  <2>1. answered'.first <=> 1 \in GotAnswers'
    BY <1>5, <1>9, <1>11 DEF ScreenInv, FirstAsAnswered
  <2>2. CASE c = 1
    BY <1>3, <1>4, <1>5, <1>8, <1>11, <2>1, <2>2 DEF FirstAsAnswered
  <2>3. CASE c # 1
    BY <1>4, <1>5, <1>8, <1>11, <2>1, <2>3 DEF ScreenInv, FirstAsAnswered, GotAnswers
  <2> QED
    BY <2>2, <2>3
<1>14. FailuresCounted'
  BY <1>5, <1>11 DEF ScreenInv, FailuresCounted
<1>15. LeftOutIsTold'
  BY <1>1, <1>3, <1>4, <1>5, <1>10, <1>11 DEF ScreenInv, LeftOutIsTold, GotAnswers, FailedQueries
<1>16. BestOfAnswers'
  <2>1. ASSUME NEW d \in GotAnswers
        PROVE  /\ d \in DOMAIN queries /\ d # c /\ queries'[d].reply = queries[d].reply
               /\ queries[d].reply.harm \in 0..1 /\ queries[d].reply.off \in 0..1
    BY <1>4, <1>5, <2>1 DEF ScreenInv, AskedAsPlaced, AsPlaced, Answers, GotAnswers
  <2>2. ASSUME NEW d \in GotAnswers
        PROVE  /\ queries'[d].reply.harm <= b.harm /\ queries'[d].reply.off <= b.off
    BY <1>7, <2>1, <2>2 DEF ScreenInv, BestOfAnswers, AnsweredTypes
  <2>3. queries'[c].reply.harm <= b.harm /\ queries'[c].reply.off <= b.off
    BY <1>3, <1>4, <1>7 DEF Answers
  <2> QED
    BY <1>5, <1>11, <2>2, <2>3 DEF BestOfAnswers
<1> QED
  BY <1>4, <1>12, <1>13, <1>14, <1>15, <1>16 DEF ScreenInv

\* What is asked and answered does not change while the text is placed: nothing
\* is asked yet.
LEMMA NothingAskedYet ==
    ASSUME ScreenInv, stage \in {"placing", "filling"}, stage' # "decided",
           UNCHANGED <<queries, answered>>, DOMAIN queries' = {}
    PROVE  /\ AskedAsPlaced' /\ AnsweredTypes' /\ FirstAsAnswered' /\ FailuresCounted'
           /\ LeftOutIsTold' /\ BestOfAnswers' /\ DecidedAsTold'
<1>1. FailedQueries' = FailedQueries /\ GotAnswers' = GotAnswers
  BY DEF FailedQueries, GotAnswers
<1>2. FailedQueries' = {} /\ GotAnswers' = {}
  BY DEF FailedQueries, GotAnswers
<1>3. AskedAsPlaced' /\ AnsweredTypes' /\ FirstAsAnswered' /\ FailuresCounted'
  BY <1>1 DEF ScreenInv, AskedAsPlaced, AnsweredTypes, FirstAsAnswered, FailuresCounted
<1>4. LeftOutIsTold' /\ BestOfAnswers' /\ DecidedAsTold'
  BY <1>2 DEF LeftOutIsTold, BestOfAnswers, DecidedAsTold
<1> QED
  BY <1>3, <1>4

\* A chunk that is opened holds nothing yet.
LEMMA ChunkOpens ==
    ASSUME ScreenInv, OpensChunk
    PROVE  ScreenInv'
<1> DEFINE new == [fields |-> <<>>, decoded |-> {}]
<1>1. /\ chunks \in Seq(Chunks) /\ new \in Chunks /\ chunks' = Append(chunks, new)
      /\ stage = "placing" /\ stage' = "filling"
      /\ UNCHANGED <<screened, offset, queries, answered, decided>>
  BY DEF ScreenInv, ScreenTypes, OpensChunk, Chunks
<1> HIDE DEF new
<1>2. /\ chunks' \in Seq(Chunks) /\ chunks' # <<>>
      /\ DOMAIN chunks' = DOMAIN chunks \cup {Len(chunks) + 1} /\ chunks'[Len(chunks) + 1] = new
      /\ \A c \in DOMAIN chunks : chunks'[c] = chunks[c]
  BY <1>1
<1>3. ScreenTypes'
  BY <1>1, <1>2 DEF ScreenInv, ScreenTypes, Stages
<1>4. QueriesAsChunks' /\ DOMAIN queries' = {}
  BY <1>1 DEF ScreenInv, QueriesAsChunks
<1>5. PlacedInChunks'
  <2>1. ASSUME NEW i \in TextItems, NEW p \in 1..offset[i]
        PROVE  \E c \in DOMAIN chunks' : InChunk(i, p, c)'
    <3>1. PICK c \in DOMAIN chunks : InChunk(i, p, c)
      BY <2>1 DEF ScreenInv, PlacedInChunks
    <3>2. c \in DOMAIN chunks' /\ InChunk(i, p, c)'
      BY <1>2, <3>1 DEF InChunk
    <3> QED
      BY <3>2
  <2> QED
    BY <1>1, <2>1 DEF PlacedInChunks, TextItems
<1>6. DecodedWithText'
  BY <1>2 DEF new, ScreenInv, DecodedWithText, ItemsOf
<1> QED
  BY <1>1, <1>3, <1>4, <1>5, <1>6, NothingAskedYet DEF ScreenInv

\* A text, or the part of it that fits, goes to the end of the chunk.
LEMMA TextIsPlaced ==
    ASSUME ScreenInv, NEW n \in 1..TextLength, NEW whole \in BOOLEAN, PlacesText(n, whole)
    PROVE  ScreenInv'
<1>0. PICK i, l : i = NextItem /\ l = Len(chunks)
  OBVIOUS
<1> DEFINE f == [item |-> i, from |-> offset[i] + 1, to |-> offset[i] + n]
           add == IF whole THEN {i} ELSE {}
           new == [fields |-> Append(chunks[l].fields, f), decoded |-> chunks[l].decoded \cup add]
<1>1. /\ stage = "filling" /\ i \in Queue /\ n \in 1..(TextLength - offset[i])
      /\ chunks' = [chunks EXCEPT ![l] = new]
      /\ offset' = [offset EXCEPT ![i] = offset[i] + n]
      /\ stage' \in {"placing", "filling"}
      /\ UNCHANGED <<screened, queries, answered, decided>>
  BY <1>0, NextIsQueued DEF ScreenInv, PlacesText
<1>2. /\ i \in TextItems /\ offset[i] \in 0..TextLength /\ offset[i] < TextLength
      /\ TextLength \in Nat /\ n \in Nat /\ n >= 1 /\ offset[i] + n <= TextLength
  BY <1>1, ScreeningAssumption DEF Queue, ScreenInv, ScreenTypes
<1>3. f \in Fields
  BY <1>2 DEF Fields
<1> HIDE DEF f
<1>4. chunks \in Seq(Chunks) /\ l \in DOMAIN chunks
  BY <1>0, <1>1 DEF ScreenInv, ScreenTypes
<1>5. chunks[l].fields \in Seq(Fields) /\ chunks[l].decoded \subseteq TextItems
  <2>1. chunks[l] \in Chunks
    BY <1>4
  <2> QED
    BY <2>1 DEF Chunks
<1>6. /\ new.fields = Append(chunks[l].fields, f) /\ new.fields \in Seq(Fields)
      /\ new.decoded = chunks[l].decoded \cup add /\ new \in Chunks
  BY <1>2, <1>3, <1>5 DEF Chunks
<1>7. /\ DOMAIN new.fields = DOMAIN chunks[l].fields \cup {Len(chunks[l].fields) + 1}
      /\ new.fields[Len(chunks[l].fields) + 1] = f
      /\ \A k \in DOMAIN chunks[l].fields : new.fields[k] = chunks[l].fields[k]
  BY <1>3, <1>5, <1>6
<1> HIDE DEF new
<1>8. /\ chunks' \in Seq(Chunks) /\ DOMAIN chunks' = DOMAIN chunks /\ chunks'[l] = new
      /\ \A c \in DOMAIN chunks \ {l} : chunks'[c] = chunks[c]
      /\ chunks' # <<>>
  BY <1>1, <1>4, <1>6
<1>9. /\ offset' \in [TextItems -> 0..TextLength] /\ offset'[i] = offset[i] + n
      /\ \A j \in TextItems \ {i} : offset'[j] = offset[j]
  BY <1>1, <1>2 DEF ScreenInv, ScreenTypes
<1>10. ScreenTypes'
  <2>1. stage' \in Stages
    BY <1>1 DEF Stages
  <2> QED
    BY <1>1, <1>8, <1>9, <2>1 DEF ScreenInv, ScreenTypes, TextItems
<1>11. QueriesAsChunks' /\ DOMAIN queries' = {}
  BY <1>1 DEF ScreenInv, QueriesAsChunks
<1>12. PlacedInChunks'
  <2>1. ASSUME NEW j \in TextItems, NEW p \in 1..offset'[j]
        PROVE  \E c \in DOMAIN chunks' : InChunk(j, p, c)'
    <3>1. CASE p \in 1..offset[j]
      <4>1. PICK c \in DOMAIN chunks : InChunk(j, p, c)
        BY <3>1 DEF ScreenInv, PlacedInChunks
      <4>2. CASE c # l
        BY <1>8, <4>1, <4>2 DEF InChunk
      <4>3. CASE c = l
        <5>1. PICK k \in DOMAIN chunks[l].fields :
                  LET g == chunks[l].fields[k] IN g.item = j /\ g.from <= p /\ p <= g.to
          BY <4>1, <4>3 DEF InChunk
        <5>2. k \in DOMAIN new.fields /\ new.fields[k] = chunks[l].fields[k]
          BY <1>7
        <5> QED
          BY <1>4, <1>8, <5>1, <5>2 DEF InChunk
      <4> QED
        BY <4>2, <4>3
    <3>2. CASE p \notin 1..offset[j]
      <4>1. j = i
        BY <1>9, <2>1, <3>2
      <4>2. p \in Nat /\ offset[i] + 1 <= p /\ p <= offset[i] + n
        BY <1>2, <1>9, <2>1, <3>2, <4>1
      <4>3. l \in DOMAIN chunks' /\ InChunk(j, p, l)'
        <5> DEFINE k == Len(chunks[l].fields) + 1
        <5>1. f.item = j /\ f.from <= p /\ p <= f.to
          BY <4>1, <4>2 DEF f
        <5>2. k \in DOMAIN new.fields /\ new.fields[k] = f
          BY <1>7
        <5>3. \E m \in DOMAIN new.fields :
                  LET g == new.fields[m] IN g.item = j /\ g.from <= p /\ p <= g.to
          BY <5>1, <5>2
        <5> QED
          BY <1>4, <1>8, <5>3 DEF InChunk
      <4> QED
        BY <4>3
    <3> QED
      BY <3>1, <3>2
  <2> QED
    BY <2>1 DEF PlacedInChunks, TextItems
<1>13. DecodedWithText'
  <2>1. ItemsOf(chunks[l].fields) \cup {i} \subseteq ItemsOf(new.fields)
    <3>1. f.item = i
      BY DEF f
    <3> QED
      BY <1>7, <3>1 DEF ItemsOf
  <2>2. new.decoded \subseteq ItemsOf(new.fields)
    BY <1>4, <1>6, <2>1 DEF ScreenInv, DecodedWithText
  <2> QED
    BY <1>8, <2>2 DEF ScreenInv, DecodedWithText
<1> QED
  BY <1>1, <1>10, <1>11, <1>12, <1>13, NothingAskedYet DEF ScreenInv

\* Each chunk becomes a query, and nothing is answered.
LEMMA JudgeIsAsked ==
    ASSUME ScreenInv, AsksJudge
    PROVE  ScreenInv'
<1>1. /\ stage = "placing" /\ stage' = "asking" /\ DOMAIN queries = {}
      /\ queries' = [c \in DOMAIN chunks |->
             [fields |-> chunks[c].fields, halved |-> FALSE, retried |-> FALSE,
              came |-> "nothing", reply |-> NoAnswers]]
      /\ UNCHANGED <<screened, offset, chunks, answered, decided>>
  BY DEF AsksJudge, ScreenInv, QueriesAsChunks
<1>2. ScreenTypes' /\ PlacedInChunks' /\ DecodedWithText'
  BY <1>1 DEF ScreenInv, ScreenTypes, Stages, PlacedInChunks, InChunk, DecodedWithText
<1>3. DOMAIN queries' = DOMAIN chunks /\ QueriesAsChunks'
  BY <1>1 DEF QueriesAsChunks
<1>4. \A c \in DOMAIN queries' : queries'[c].came = "nothing"
  BY <1>1
<1>5. AskedAsPlaced'
  <2>1. ASSUME NEW c \in DOMAIN queries'  PROVE AsPlaced(c, queries[c])'
    BY <1>1 DEF AsPlaced
  <2> QED
    BY <2>1 DEF AskedAsPlaced
<1>6. /\ FailedQueries' = {} /\ GotAnswers' = {} /\ FailedQueries = {} /\ GotAnswers = {}
  BY <1>1, <1>4 DEF FailedQueries, GotAnswers
<1>7. AnsweredTypes' /\ FirstAsAnswered' /\ FailuresCounted'
  BY <1>1, <1>6 DEF ScreenInv, AnsweredTypes, FirstAsAnswered, FailuresCounted
<1>8. LeftOutIsTold' /\ BestOfAnswers' /\ DecidedAsTold'
  BY <1>1, <1>6 DEF LeftOutIsTold, BestOfAnswers, DecidedAsTold
<1> QED
  BY <1>2, <1>3, <1>5, <1>7, <1>8 DEF ScreenInv

\* A refused query is asked again with half of its chunk, or fails.
LEMMA QueryIsRefused ==
    ASSUME ScreenInv, NEW c \in DOMAIN queries, JudgeRefuses(c)
    PROVE  ScreenInv'
<1>1. /\ AsPlaced(c, queries[c]) /\ stage = "asking" /\ queries[c].came = "nothing"
      /\ Pending(c) /\ UNCHANGED <<screened, stage, offset, chunks, decided>>
  BY DEF ScreenInv, AskedAsPlaced, JudgeRefuses, Pending
<1>2. CASE queries[c].halved
  BY <1>1, <1>2, QueryFails DEF JudgeRefuses
<1>3. CASE ~queries[c].halved
  <2> DEFINE g == Half(chunks[c].fields)
             q == [fields |-> g, halved |-> TRUE, retried |-> FALSE,
                   came |-> queries[c].came, reply |-> queries[c].reply]
  <2>1. queries[c].fields = chunks[c].fields
    BY <1>1, <1>3 DEF AsPlaced
  <2>2. queries' = [queries EXCEPT ![c].halved = TRUE, ![c].retried = FALSE, ![c].fields = g]
    BY <1>3, <2>1 DEF JudgeRefuses
  <2>6. queries[c] = [fields |-> queries[c].fields, halved |-> queries[c].halved,
                      retried |-> queries[c].retried, came |-> queries[c].came,
                      reply |-> queries[c].reply]
    BY <1>1 DEF AsPlaced
  <2>7. PICK yes, no : yes = TRUE /\ no = FALSE
    OBVIOUS
  <2> HIDE DEF g
  <2>3. queries' = [queries EXCEPT ![c] = q]
    <3> DEFINE p == [queries[c] EXCEPT !.halved = yes]
               r == [p EXCEPT !.retried = no]
    <3>1. p = [fields |-> queries[c].fields, halved |-> yes, retried |-> queries[c].retried,
               came |-> queries[c].came, reply |-> queries[c].reply]
      BY <2>6
    <3>2. queries' = [queries EXCEPT ![c] = [r EXCEPT !.fields = g]]
      BY <2>2, <2>7
    <3> HIDE DEF p
    <3>3. r = [fields |-> queries[c].fields, halved |-> yes, retried |-> no,
               came |-> queries[c].came, reply |-> queries[c].reply]
      BY <3>1
    <3> HIDE DEF r
    <3>4. [r EXCEPT !.fields = g] = [fields |-> g, halved |-> yes, retried |-> no,
                                     came |-> queries[c].came, reply |-> queries[c].reply]
      BY <3>3
    <3>5. [r EXCEPT !.fields = g] = q
      BY <2>7, <3>4
    <3> QED
      BY <3>2, <3>5
  <2>4. AsPlaced(c, q) /\ q.came = "nothing"
    BY <1>1 DEF AsPlaced, g, q
  <2>5. UNCHANGED answered
    BY <1>3 DEF JudgeRefuses
  <2> HIDE DEF q
  <2> QED
    BY <1>1, <2>3, <2>4, <2>5, AsksAgain
<1> QED
  BY <1>2, <1>3

\* A busy judge is asked once more.
LEMMA QueryIsPutOff ==
    ASSUME ScreenInv, NEW c \in DOMAIN queries, JudgeIsBusy(c)
    PROVE  ScreenInv'
<1>1. /\ AsPlaced(c, queries[c]) /\ stage = "asking" /\ queries[c].came = "nothing"
      /\ Pending(c) /\ UNCHANGED <<screened, stage, offset, chunks, decided>>
  BY DEF ScreenInv, AskedAsPlaced, JudgeIsBusy, Pending
<1>2. CASE queries[c].retried
  BY <1>1, <1>2, QueryFails DEF JudgeIsBusy
<1>3. CASE ~queries[c].retried
  <2> DEFINE q == [queries[c] EXCEPT !.retried = TRUE]
  <2>1. /\ q = [fields |-> queries[c].fields, halved |-> queries[c].halved, retried |-> TRUE,
                came |-> queries[c].came, reply |-> queries[c].reply]
        /\ queries' = [queries EXCEPT ![c] = q] /\ UNCHANGED answered
    BY <1>1, <1>3 DEF AsPlaced, JudgeIsBusy
  <2>2. AsPlaced(c, q) /\ q.came = "nothing"
    BY <1>1, <2>1 DEF AsPlaced
  <2> HIDE DEF q
  <2> QED
    BY <1>1, <2>1, <2>2, AsksAgain
<1> QED
  BY <1>2, <1>3

\* Every step of a screening keeps the invariant.
LEMMA ScreeningStep ==
    ASSUME ScreenInv, [ScreeningNext]_screenVars
    PROVE  ScreenInv'
<1>1. CASE OpensChunk
  BY <1>1, ChunkOpens
<1>2. CASE ClosesChunk
  <2>1. /\ stage = "filling" /\ stage' = "placing"
        /\ UNCHANGED <<screened, offset, chunks, queries, answered, decided>>
    BY <1>2 DEF ClosesChunk
  <2>2. /\ ScreenTypes' /\ PlacedInChunks' /\ DecodedWithText' /\ QueriesAsChunks'
        /\ DOMAIN queries' = {}
    BY <2>1 DEF ScreenInv, ScreenTypes, Stages, PlacedInChunks, InChunk, DecodedWithText,
                QueriesAsChunks
  <2> QED
    BY <2>1, <2>2, NothingAskedYet DEF ScreenInv
<1>3. CASE AsksJudge
  BY <1>3, JudgeIsAsked
<1>4. CASE DecidesMessage
  <2>1. /\ stage = "asking" /\ stage' = "decided"
        /\ decided' = [redacted |-> Redacted, flagged |-> Flagged, blocked |-> Blocked,
                       unjudged |-> PlanUnjudged \cup answered.unjudged]
        /\ \A c \in DOMAIN queries : queries[c].came # "nothing"
        /\ UNCHANGED <<screened, offset, chunks, queries, answered>>
    BY <1>4 DEF DecidesMessage
  <2>2. /\ Redacted' = Redacted /\ Flagged' = Flagged /\ PlanUnjudged' = PlanUnjudged
        /\ Blocked' = Blocked /\ UNCHANGED <<queries, answered>>
    BY <2>1 DEF Redacted, Flagged, PlanUnjudged, Queue, Placed, Convinces, UnjudgedContacts,
                Judged, TextItems, Blocked, AllFailed
  <2>3. DecidedAsTold'
    BY <2>1, <2>2 DEF DecidedAsTold
  <2>4. /\ ScreenTypes' /\ QueriesAsChunks' /\ AskedAsPlaced' /\ PlacedInChunks'
        /\ DecodedWithText'
    <3>1. ScreenTypes' /\ QueriesAsChunks'
      BY <2>1 DEF ScreenInv, ScreenTypes, Stages, QueriesAsChunks
    <3>2. AskedAsPlaced'
      BY <2>1 DEF ScreenInv, AskedAsPlaced, AsPlaced
    <3>3. PlacedInChunks' /\ DecodedWithText'
      BY <2>1 DEF ScreenInv, PlacedInChunks, InChunk, DecodedWithText
    <3> QED
      BY <3>1, <3>2, <3>3
  <2>5. /\ AnsweredTypes' /\ FirstAsAnswered' /\ FailuresCounted' /\ LeftOutIsTold'
        /\ BestOfAnswers'
    BY <2>1 DEF ScreenInv, AnsweredTypes, FirstAsAnswered, FailuresCounted, LeftOutIsTold,
                BestOfAnswers, FailedQueries, GotAnswers, Judged
  <2> QED
    BY <2>3, <2>4, <2>5 DEF ScreenInv
<1>5. ASSUME NEW n \in 1..TextLength, NEW whole \in BOOLEAN, PlacesText(n, whole)
      PROVE  ScreenInv'
  BY <1>5, TextIsPlaced
<1>6. ASSUME NEW c \in DOMAIN queries, JudgeFails(c)  PROVE ScreenInv'
  BY <1>6, QueryFails DEF JudgeFails
<1>7. ASSUME NEW c \in DOMAIN queries, JudgeIsBusy(c)  PROVE ScreenInv'
  BY <1>7, QueryIsPutOff
<1>8. ASSUME NEW c \in DOMAIN queries, JudgeRefuses(c)  PROVE ScreenInv'
  BY <1>8, QueryIsRefused
<1>9. ASSUME NEW c \in DOMAIN queries, NEW a \in Answers(c), JudgeAnswers(c, a)  PROVE ScreenInv'
  BY <1>9, QueryIsAnswered
<1>10. CASE UNCHANGED screenVars
  <2>1. UNCHANGED <<screened, stage, offset, chunks, queries, answered, decided>>
    BY <1>10 DEF screenVars
  <2>2. /\ ScreenTypes' /\ QueriesAsChunks' /\ AskedAsPlaced' /\ PlacedInChunks'
        /\ DecodedWithText'
    <3>1. ScreenTypes' /\ QueriesAsChunks'
      BY <2>1 DEF ScreenInv, ScreenTypes, Stages, QueriesAsChunks
    <3>2. AskedAsPlaced'
      BY <2>1 DEF ScreenInv, AskedAsPlaced, AsPlaced
    <3>3. PlacedInChunks' /\ DecodedWithText'
      BY <2>1 DEF ScreenInv, PlacedInChunks, InChunk, DecodedWithText
    <3> QED
      BY <3>1, <3>2, <3>3
  <2>3. /\ AnsweredTypes' /\ FirstAsAnswered' /\ FailuresCounted' /\ LeftOutIsTold'
        /\ BestOfAnswers'
    BY <2>1 DEF ScreenInv, AnsweredTypes, FirstAsAnswered, FailuresCounted, LeftOutIsTold,
                BestOfAnswers, FailedQueries, GotAnswers, Judged
  <2>4. DecidedAsTold'
    BY <2>1 DEF ScreenInv, DecidedAsTold, Redacted, Flagged, PlanUnjudged, Queue, Placed, Convinces,
                UnjudgedContacts, Judged, TextItems, Blocked, AllFailed
  <2> QED
    BY <2>2, <2>3, <2>4 DEF ScreenInv
<1>11. ASSUME NEW c \in DOMAIN queries, TaskIsLost(c)  PROVE ScreenInv'
  BY <1>11, TaskEndsLost
<1> QED
  BY <1>1, <1>2, <1>3, <1>4, <1>5, <1>6, <1>7, <1>8, <1>9, <1>10, <1>11 DEF ScreeningNext

\* Nothing is placed or asked when a screening starts.
LEMMA ScreeningStarts ==
    ASSUME ScreeningInit
    PROVE  ScreenInv
<1>1. /\ screened.encoded \subseteq TextItems /\ screened.hidden \subseteq 1..Contacts
  BY DEF ScreeningInit, ScreenedMessages
<1>2. /\ stage = "placing" /\ offset = [i \in TextItems |-> 0] /\ chunks = <<>> /\ queries = <<>>
      /\ answered = [best |-> NoAnswers, failed |-> 0, first |-> FALSE, unjudged |-> {}]
  BY DEF ScreeningInit
<1>3. DOMAIN queries = {} /\ DOMAIN chunks = {}
  BY <1>2
<1>4. ScreenTypes
  BY <1>1, <1>2, ScreeningAssumption DEF ScreenTypes, Stages
<1>5. FailedQueries = {} /\ GotAnswers = {}
  BY <1>3 DEF FailedQueries, GotAnswers
<1>6. AnsweredTypes
  BY <1>2 DEF AnsweredTypes, NoAnswers
<1>7. FailuresCounted
  BY <1>2, <1>5, FS_EmptySet DEF FailuresCounted
<1>8. PlacedInChunks
  BY <1>2 DEF PlacedInChunks
<1>9. /\ QueriesAsChunks /\ AskedAsPlaced /\ DecodedWithText /\ FirstAsAnswered /\ LeftOutIsTold
      /\ BestOfAnswers /\ DecidedAsTold
  BY <1>2, <1>3, <1>5 DEF QueriesAsChunks, AskedAsPlaced, DecodedWithText, FirstAsAnswered,
                           LeftOutIsTold, BestOfAnswers, DecidedAsTold, NoAnswers
<1> QED
  BY <1>4, <1>6, <1>7, <1>8, <1>9 DEF ScreenInv

\* Every piece of text that is placed is in a query, and of every query it is
\* told whether it failed, what it left out and what it found.
THEOREM ScreeningInvariant == ScreeningSpec => []ScreenInv
<1>1. ScreeningInit => ScreenInv
  BY ScreeningStarts
<1>2. ScreenInv /\ [ScreeningNext]_screenVars => ScreenInv'
  BY ScreeningStep
<1> QED
  BY <1>1, <1>2, PTL DEF ScreeningSpec

\* However many texts and contacts a message has, and in whatever order the judge
\* answers, refuses or fails (plan, ask_chunk, decide): what the judge did not
\* read is reported, but for what a lost task held, and what it found is acted on.
THEOREM NothingPassesTheScreening == ScreeningSpec => []NothingSlipsThrough
<1>1. ScreenInv => NothingSlipsThrough
  BY ScreenedAsTold
<1> QED
  BY <1>1, ScreeningInvariant, PTL

----------------------------------------------------------------------------
(* Slugs: an old slug leads to its agent *)

Alias_ == [to : Names \cup {NoName}, at : Nat]

SlugTypes ==
    /\ slugOf \in [Named -> Names \cup {NoName}]
    /\ alias \in [Names -> Alias_]
    /\ renames \in Nat
    /\ DOMAIN left = Names /\ DOMAIN renaming = Patches

\* A rename under way starts from a slug its agent had, and goes to another.
RenamesStand ==
    \A p \in Patches : renaming[p] # NotRenaming =>
        /\ renaming[p].who \in Named /\ slugOf[renaming[p].who] # NoName
        /\ renaming[p].from \in Names /\ renaming[p].to \in Names \ {renaming[p].from}

OneLiveEach ==
    \A x, y \in Named \ removed : slugOf[x] = slugOf[y] /\ slugOf[x] # NoName => x = y

Left(s) == left[s] # NeverLeft
Aliased(s) == alias[s] # NoAlias

\* Aliases and departures are as old as the rename that made them.
AgesStand ==
    \A s \in Names :
        /\ Aliased(s) => alias[s].to \in Names /\ alias[s].at \in 1 .. renames
        /\ Left(s) => left[s].who \in Named /\ left[s].at \in 1 .. renames
        /\ Aliased(s) /\ Left(s) => alias[s].at = left[s].at

\* The alias of what was left later than a live alias is alive.
NewerLast ==
    \A s, t \in Names : Aliased(s) /\ Left(t) /\ left[t].at > alias[s].at => Aliased(t)

\* The alias of a slug an agent left leads to the slug it has, to one it left
\* later, or to one that another agent has taken or left since, if its renames
\* didn't cross.
AliasesLead ==
    \A s \in Names : Aliased(s) /\ Left(s) /\ left[s].who \notin strayed =>
        \/ slugOf[left[s].who] = alias[s].to
        \/ ~Left(alias[s].to)
        \/ left[alias[s].to].who # left[s].who
        \/ left[alias[s].to].at > left[s].at

SlugsInv ==
    SlugTypes /\ RenamesStand /\ OneLiveEach /\ AgesStand /\ NewerLast /\ AliasesLead

\* create: the slug's last agent no longer counts, and no alias is changed.
LEMMA RegisterKeeps ==
    ASSUME SlugsInv, NEW x \in Named, NEW s \in Names, RegistersAgent(x, s)
    PROVE  SlugsInv'
<1>0. /\ slugOf \in [Named -> Names \cup {NoName}] /\ NoName \notin Names
      /\ DOMAIN left = Names
      /\ slugOf' = [slugOf EXCEPT ![x] = s] /\ slugOf[x] = NoName /\ LiveWith(s) = {}
      /\ left' = [left EXCEPT ![s] = NeverLeft]
      /\ UNCHANGED <<removed, alias, renaming, renames, strayed>>
  BY SlugsAssumption DEF SlugsInv, SlugTypes, RegistersAgent
<1>1. SlugTypes' /\ RenamesStand'
  BY <1>0 DEF SlugsInv, SlugTypes, RenamesStand
<1>2. OneLiveEach'
  BY <1>0 DEF SlugsInv, OneLiveEach, LiveWith
<1>3. /\ \A t \in Names : Left(t)' <=> Left(t) /\ t # s
      /\ \A t \in Names \ {s} : left'[t] = left[t]
      /\ \A t : Aliased(t)' <=> Aliased(t)
  BY <1>0 DEF Left, Aliased
<1>4. AgesStand' /\ NewerLast'
  BY <1>0, <1>3 DEF SlugsInv, AgesStand, NewerLast
<1>5. AliasesLead'
  BY <1>0, <1>3 DEF SlugsInv, AliasesLead, AgesStand
<1> QED
  BY <1>1, <1>2, <1>4, <1>5 DEF SlugsInv

\* update: the slug that is left gets the newest alias there is, and the one
\* that is taken counts as left by nobody.
LEMMA RenameKeeps ==
    ASSUME SlugsInv, NEW p \in Patches, RenamesTo(p) PROVE SlugsInv'
<1>3. PICK x, old, new :
          x = renaming[p].who /\ old = renaming[p].from /\ new = renaming[p].to
  OBVIOUS
<1>0. /\ slugOf \in [Named -> Names \cup {NoName}] /\ NoName \notin Names
      /\ alias \in [Names -> Alias_] /\ renames \in Nat /\ DOMAIN left = Names
      /\ DOMAIN renaming = Patches /\ renaming[p] # NotRenaming
      /\ x \in Named /\ slugOf[x] # NoName /\ old \in Names /\ new \in Names /\ new # old
      /\ removed' = removed
      /\ renaming' = [renaming EXCEPT ![p] = NotRenaming]
  BY <1>3, SlugsAssumption DEF SlugsInv, SlugTypes, RenamesStand, RenamesTo
<1>1. CASE x \notin removed /\ LiveWith(new) \ {x} # {}
  <2>1. UNCHANGED <<slugOf, alias, renames, left, strayed>>
    BY <1>1, <1>3 DEF RenamesTo
  <2> QED
    BY <1>0, <2>1
    DEF SlugsInv, SlugTypes, RenamesStand, OneLiveEach, AgesStand, NewerLast,
        AliasesLead, Left, Aliased
<1>2. CASE ~(x \notin removed /\ LiveWith(new) \ {x} # {})
  <2>1. /\ slugOf' = [slugOf EXCEPT ![x] = new]
        /\ alias' = [alias EXCEPT ![old] = [to |-> new, at |-> renames + 1]]
        /\ renames' = renames + 1
        /\ left' = [left EXCEPT ![old] = [who |-> x, at |-> renames + 1],
                                ![new] = NeverLeft]
        /\ strayed' = strayed \cup {y \in {x} : slugOf[y] \notin {old, new}}
    BY <1>2, <1>3 DEF RenamesTo, AliasWritten
  <2>2. SlugTypes'
    BY <1>0, <2>1 DEF SlugsInv, SlugTypes, Alias_
  <2>3. RenamesStand'
    BY <1>0, <2>1 DEF SlugsInv, RenamesStand
  <2>4. OneLiveEach'
    BY <1>0, <1>2, <2>1 DEF SlugsInv, OneLiveEach, LiveWith
  <2>5. /\ slugOf'[x] = new /\ \A y \in Named \ {x} : slugOf'[y] = slugOf[y]
        /\ alias'[old] = [to |-> new, at |-> renames + 1]
        /\ left'[old] = [who |-> x, at |-> renames + 1] /\ left'[new] = NeverLeft
        /\ \A t \in Names \ {old} : alias'[t] = alias[t]
        /\ \A t \in Names \ {old, new} : left'[t] = left[t]
    BY <1>0, <2>1
  <2>6. /\ Aliased(old)' /\ Left(old)' /\ ~Left(new)'
        /\ \A t \in Names \ {old} : Aliased(t)' <=> Aliased(t)
        /\ \A t \in Names \ {old, new} : Left(t)' <=> Left(t)
    <3>1. alias'[old].to # NoAlias.to
      BY <1>0, <2>5 DEF NoAlias
    <3>2. left'[old].at # NeverLeft.at
      BY <1>0, <2>5 DEF NeverLeft
    <3>3. alias'[old] # NoAlias /\ left'[old] # NeverLeft
      BY <3>1, <3>2
    <3> QED
      BY <2>5, <3>3 DEF Aliased, Left, NoAlias, NeverLeft
  <2>7. AgesStand'
    <3> SUFFICES ASSUME NEW s \in Names
                 PROVE  /\ Aliased(s)' => alias'[s].to \in Names /\ alias'[s].at \in 1 .. renames'
                        /\ Left(s)' => left'[s].who \in Named /\ left'[s].at \in 1 .. renames'
                        /\ Aliased(s)' /\ Left(s)' => alias'[s].at = left'[s].at
      BY DEF AgesStand
    <3>1. CASE s = old
      BY <1>0, <2>1, <2>5, <3>1
    <3>2. CASE s # old
      <4>1. /\ Aliased(s)' => Aliased(s) /\ alias'[s] = alias[s]
            /\ Left(s)' => Left(s) /\ left'[s] = left[s]
        BY <2>5, <2>6, <3>2
      <4>2. \A n \in 1 .. renames : n \in 1 .. renames'
        BY <1>0, <2>1
      <4> QED
        BY <4>1, <4>2 DEF SlugsInv, AgesStand
    <3> QED
      BY <3>1, <3>2
  <2>8. NewerLast'
    <3> SUFFICES ASSUME NEW s \in Names, NEW t \in Names, Aliased(s)', Left(t)',
                        left'[t].at > alias'[s].at
                 PROVE  Aliased(t)'
      BY DEF NewerLast
    <3>1. CASE t = old
      BY <2>6, <3>1
    <3>2. CASE t # old
      <4>1. Left(t) /\ left'[t] = left[t] /\ left[t].at \in 1 .. renames
        BY <2>5, <2>6, <3>2 DEF SlugsInv, AgesStand
      <4>2. s # old
        BY <1>0, <2>5, <4>1
      <4>3. Aliased(s) /\ alias'[s] = alias[s]
        BY <2>5, <2>6, <4>2
      <4>4. Aliased(t)
        BY <4>1, <4>3 DEF SlugsInv, NewerLast
      <4> QED
        BY <2>6, <3>2, <4>4
    <3> QED
      BY <3>1, <3>2
  <2>9. AliasesLead'
    <3> SUFFICES ASSUME NEW s \in Names, Aliased(s)', Left(s)', left'[s].who \notin strayed'
                 PROVE  \/ slugOf'[left'[s].who] = alias'[s].to
                        \/ left'[alias'[s].to] = NeverLeft
                        \/ left'[alias'[s].to].who # left'[s].who
                        \/ left'[alias'[s].to].at > left'[s].at
      BY DEF AliasesLead, Left, Aliased
    <3>1. CASE s = old
      BY <2>5, <3>1
    <3>2. CASE s # old
      <4>1. s # new /\ Aliased(s) /\ Left(s) /\ left'[s] = left[s] /\ alias'[s] = alias[s]
        BY <2>5, <2>6, <3>2
      <4>2. PICK t \in Names : t = alias[s].to
        BY <4>1 DEF SlugsInv, AgesStand
      <4>3. left[s].who \in Named /\ left[s].at < renames + 1 /\ left[s].at \in Nat
        BY <1>0, <4>1 DEF SlugsInv, AgesStand
      <4>4. \/ slugOf[left[s].who] = t \/ ~Left(t)
            \/ left[t].who # left[s].who \/ left[t].at > left[s].at
        BY <2>1, <4>1, <4>2 DEF SlugsInv, AliasesLead
      <4>5. CASE t = old
        BY <2>5, <4>1, <4>2, <4>3, <4>5
      <4>6. CASE t = new
        BY <2>5, <4>1, <4>2, <4>6
      <4>7. CASE t \notin {old, new}
        <5>1. left'[t] = left[t]
          BY <1>0, <2>5, <4>7
        <5>2. slugOf[left[s].who] = t => slugOf'[left[s].who] = t
          <6>1. CASE left[s].who = x
            BY <2>1, <4>1, <4>7, <6>1
          <6>2. CASE left[s].who # x
            BY <2>5, <4>3, <6>2
          <6> QED
            BY <6>1, <6>2
        <5> QED
          BY <4>1, <4>2, <4>3, <4>4, <5>1, <5>2 DEF Left
      <4> QED
        BY <4>5, <4>6, <4>7
    <3> QED
      BY <3>1, <3>2
  <2> QED
    BY <2>2, <2>3, <2>4, <2>7, <2>8, <2>9 DEF SlugsInv
<1> QED
  BY <1>1, <1>2

\* Only the oldest alias expires, so none that is newer than a live one does.
LEMMA ExpiryKeeps ==
    ASSUME SlugsInv, NEW s \in Names, AliasExpires(s) PROVE SlugsInv'
<1>0. /\ alias \in [Names -> Alias_] /\ Aliased(s)
      /\ \A t \in Names : ~Aliased(t) \/ alias[s].at <= alias[t].at
      /\ alias' = [alias EXCEPT ![s] = NoAlias]
      /\ UNCHANGED <<slugOf, removed, renaming, renames, left, strayed>>
  BY DEF SlugsInv, SlugTypes, AliasExpires, Aliased
<1>1. /\ \A t \in Names : Aliased(t)' <=> Aliased(t) /\ t # s
      /\ \A t \in Names \ {s} : alias'[t] = alias[t]
      /\ \A t : Left(t)' <=> Left(t)
  BY <1>0 DEF Aliased, Left
<1>2. SlugTypes' /\ RenamesStand' /\ OneLiveEach'
  BY <1>0 DEF SlugsInv, SlugTypes, RenamesStand, OneLiveEach, Alias_, NoAlias
<1>3. AgesStand'
  BY <1>0, <1>1 DEF SlugsInv, AgesStand
<1>4. NewerLast'
  <2> SUFFICES ASSUME NEW u \in Names, NEW t \in Names, Aliased(u)', Left(t)',
                      left'[t].at > alias'[u].at
               PROVE  Aliased(t)'
    BY DEF NewerLast, Left, Aliased
  <2>1. Aliased(u) /\ Left(t) /\ left[t].at > alias[u].at /\ u # s
    BY <1>0, <1>1
  <2>2. Aliased(t)
    BY <2>1 DEF SlugsInv, NewerLast
  <2>3. t # s
    <3>1. ASSUME t = s PROVE FALSE
      <4>1. alias[s].at = left[s].at
        BY <1>0, <2>1, <3>1 DEF SlugsInv, AgesStand
      <4>2. alias[s].at <= alias[u].at /\ alias[u].at \in Nat /\ alias[s].at \in Nat
        BY <1>0, <2>1 DEF Alias_
      <4> QED
        BY <2>1, <3>1, <4>1, <4>2
    <3> QED
      BY <3>1
  <2> QED
    BY <1>1, <2>2, <2>3
<1>5. AliasesLead'
  BY <1>0, <1>1 DEF SlugsInv, AliasesLead
<1> QED
  BY <1>2, <1>3, <1>4, <1>5 DEF SlugsInv

\* The invariant the redirects rest on.
THEOREM SlugsInvariant == SlugsSpec => []SlugsInv
<1>1. SlugsInit => SlugsInv
  BY SlugsAssumption
  DEF SlugsInit, SlugsInv, SlugTypes, RenamesStand, OneLiveEach, AgesStand, NewerLast,
      AliasesLead, Left, Aliased, NoAlias, Alias_
<1>2. SlugsInv /\ [SlugsNext]_slugVars => SlugsInv'
  <2> SUFFICES ASSUME SlugsInv, [SlugsNext]_slugVars PROVE SlugsInv'
    OBVIOUS
  <2> USE DEF SlugsInv, SlugTypes, RenamesStand, OneLiveEach, AgesStand, NewerLast,
              AliasesLead, Left, Aliased
  <2>1. ASSUME NEW p \in Patches, NEW x \in Named, NEW s \in Names, ChecksRename(p, x, s)
        PROVE  SlugsInv'
    BY <2>1, SlugsAssumption DEF ChecksRename
  <2>2. ASSUME NEW x \in Named, DeletesNamed(x) PROVE SlugsInv'
    BY <2>2 DEF DeletesNamed
  <2>3. CASE UNCHANGED slugVars
    BY <2>3 DEF slugVars
  <2> HIDE DEF SlugsInv
  <2> QED
    BY <2>1, <2>2, <2>3, RegisterKeeps, RenameKeeps, ExpiryKeeps DEF SlugsNext
<1> QED
  BY <1>1, <1>2, PTL DEF SlugsSpec

\* The walk along the aliases from a slug, n of them.
IsWalk(f, s, n) == f = [k \in 0..n |-> IF k = 0 THEN s ELSE Follow(f[k - 1])]
Walk(s, n) == CHOOSE f : IsWalk(f, s, n)

\* What a walk is at each step, as its definition has it.
LEMMA WalkAt ==
    ASSUME NEW f, NEW s, NEW n \in Nat, IsWalk(f, s, n)
    PROVE  f[0] = s /\ \A k \in 0..n : k # 0 => f[k] = Follow(f[k - 1])
BY DEF IsWalk

\* There is one of every length.
LEMMA WalkExists ==
    ASSUME NEW s, NEW n \in Nat PROVE IsWalk(Walk(s, n), s, n)
<1> DEFINE None == {m \in Nat : ~ \E f : IsWalk(f, s, m)}
<1>1. ASSUME None # {} PROVE FALSE
  <2>1. PICK m \in None : \A k \in None : m <= k
    <3>1. None \subseteq Nat
      OBVIOUS
    <3> HIDE DEF None
    <3> QED
      BY <1>1, <3>1, HasLeast
  <2>2. m # 0
    <3>1. ASSUME m = 0 PROVE FALSE
      <4> DEFINE f == [k \in 0..0 |-> s]
      <4>1. \A k \in 0..0 : k = 0
        OBVIOUS
      <4>2. f = [k \in 0..0 |-> IF k = 0 THEN s ELSE Follow(f[k - 1])]
        BY <4>1
      <4> QED
        BY <2>1, <3>1, <4>2 DEF IsWalk
    <3> QED
      BY <3>1
  <2>3. m - 1 \in Nat /\ m - 1 \notin None
    BY <2>1, <2>2
  <2>4. PICK f : IsWalk(f, s, m - 1)
    BY <2>3
  <2> DEFINE g == [k \in 0..m |-> IF k = m THEN Follow(f[m - 1]) ELSE f[k]]
  <2>5. \A k \in 0..m : g[k] = IF k = 0 THEN s ELSE Follow(g[k - 1])
    <3> SUFFICES ASSUME NEW k \in 0..m
                 PROVE  g[k] = IF k = 0 THEN s ELSE Follow(g[k - 1])
      OBVIOUS
    <3>1. f[0] = s /\ \A j \in 0..(m - 1) : j # 0 => f[j] = Follow(f[j - 1])
      BY <2>3, <2>4, WalkAt
    <3>2. CASE k = 0
      BY <2>2, <3>1, <3>2
    <3>3. CASE k # 0
      <4>1. g[k - 1] = f[k - 1]
        BY <2>1, <3>3
      <4>2. g[k] = Follow(f[k - 1])
        BY <2>1, <3>1, <3>3
      <4> HIDE DEF g
      <4> QED
        BY <3>3, <4>1, <4>2
    <3> QED
      BY <3>2, <3>3
  <2>6. g = [k \in 0..m |-> g[k]]
    OBVIOUS
  <2> HIDE DEF g
  <2>7. IsWalk(g, s, m)
    BY <2>5, <2>6 DEF IsWalk
  <2> QED
    BY <2>1, <2>7
<1>2. \E f : IsWalk(f, s, n)
  BY <1>1
<1> QED
  BY <1>2 DEF Walk

\* A longer walk starts with the shorter.
LEMMA WalksAgree ==
    ASSUME NEW s, NEW m \in Nat, NEW n \in Nat, m <= n, NEW k \in 0..m
    PROVE  Walk(s, m)[k] = Walk(s, n)[k]
<1> DEFINE Off == {j \in 0..m : Walk(s, m)[j] # Walk(s, n)[j]}
<1>1. ASSUME Off # {} PROVE FALSE
  <2>1. PICK j \in Off : \A i \in Off : j <= i
    <3>1. Off \subseteq Nat
      OBVIOUS
    <3> HIDE DEF Off
    <3> QED
      BY <1>1, <3>1, HasLeast
  <2>2. /\ Walk(s, m)[0] = s /\ \A i \in 0..m : i # 0 => Walk(s, m)[i] = Follow(Walk(s, m)[i - 1])
        /\ Walk(s, n)[0] = s /\ \A i \in 0..n : i # 0 => Walk(s, n)[i] = Follow(Walk(s, n)[i - 1])
    BY WalkExists, WalkAt
  <2>3. j # 0
    BY <2>1, <2>2
  <2>4. j - 1 \in 0..m /\ j - 1 \notin Off /\ j \in 0..n
    BY <2>1, <2>3
  <2>5. Walk(s, m)[j - 1] = Walk(s, n)[j - 1]
    BY <2>4
  <2> QED
    BY <2>1, <2>2, <2>3, <2>4, <2>5
<1> QED
  BY <1>1

\* resolve_alias and the chain of aliases are walks.
LEMMA WhatIsWalked ==
    ASSUME NEW s
    PROVE  /\ ResolveAlias(s) = Walk(s, MaxHops)[MaxHops]
           /\ ChainFrom(s) = {Walk(s, Cardinality(Names))[n] : n \in 0..Cardinality(Names)}
<1>1. ResolveAlias(s) = Walk(s, MaxHops)[MaxHops]
  BY DEF ResolveAlias, Walk, IsWalk
<1>2. ChainFrom(s) = {Walk(s, Cardinality(Names))[n] : n \in 0..Cardinality(Names)}
  BY DEF ChainFrom, Walk, IsWalk
<1> QED
  BY <1>1, <1>2

\* A walk from a slug with a live alias that its agent left, all over slugs
\* that only that agent left or has: every slug it comes to before the agent's
\* own was left later than those before, and has a live alias too.
LEMMA WalkLeads ==
    ASSUME SlugsInv, NEW s \in Names, Aliased(s), NEW x, x = left[s].who, x # NoName,
           x \notin strayed, ~Aliased(slugOf[x]), NEW n \in Nat, NEW f, IsWalk(f, s, n),
           \A k \in 0..n : f[k] = slugOf[x] \/ left[f[k]].who = x
    PROVE  \A k \in 0..n :
               /\ f[k] \in Names
               /\ f[k] # slugOf[x] =>
                      /\ Aliased(f[k])
                      /\ \A j \in 0..(k - 1) :
                             f[j] # slugOf[x] /\ left[f[j]].at < left[f[k]].at
<1> DEFINE Leads(k) == /\ f[k] \in Names
                       /\ f[k] # slugOf[x] =>
                              /\ Aliased(f[k])
                              /\ \A j \in 0..(k - 1) :
                                     f[j] # slugOf[x] /\ left[f[j]].at < left[f[k]].at
           Bad == {k \in 0..n : ~Leads(k)}
<1>1. ASSUME Bad # {} PROVE FALSE
  <2>1. PICK k \in Bad : \A j \in Bad : k <= j
    <3>1. Bad \subseteq Nat
      OBVIOUS
    <3> HIDE DEF Bad
    <3> QED
      BY <1>1, <3>1, HasLeast
  <2>2. f[0] = s /\ \A j \in 0..n : j # 0 => f[j] = Follow(f[j - 1])
    BY WalkAt
  <2>3. k # 0
    <3>1. Leads(0)
      BY <2>2
    <3> HIDE DEF Leads
    <3> QED
      BY <2>1, <3>1
  <2>4. k - 1 \in 0..n /\ k - 1 \notin Bad
    BY <2>1, <2>3
  <2>5. Leads(k - 1)
    BY <2>4
  <2>6. PICK u \in Names : u = f[k - 1]
    BY <2>5
  <2>7. f[k] = IF Aliased(u) THEN alias[u].to ELSE u
    BY <2>1, <2>2, <2>3, <2>6 DEF Follow, Aliased
  <2>8. \A t \in Names : Left(t) => left[t].at \in Nat
    BY DEF SlugsInv, SlugTypes, AgesStand
  <2>9. \A t : left[t].who = x => Left(t)
    BY DEF Left, NeverLeft
  <2>10. CASE u = slugOf[x]
    <3>1. f[k] = u
      BY <2>7, <2>10
    <3>2. Leads(k)
      BY <2>10, <3>1
    <3> QED
      BY <2>1, <3>2
  <2>11. CASE u # slugOf[x]
    <3>1. Aliased(u) /\ \A j \in 0..(k - 2) : f[j] # slugOf[x] /\ left[f[j]].at < left[u].at
      BY <2>1, <2>3, <2>5, <2>6, <2>11
    <3>2. left[u].who = x /\ Left(u) /\ left[u].at = alias[u].at /\ left[u].at \in Nat
      BY <2>4, <2>6, <2>8, <2>9, <2>11, <3>1 DEF SlugsInv, AgesStand
    <3>3. f[k] = alias[u].to /\ f[k] \in Names
      BY <2>7, <3>1 DEF SlugsInv, AgesStand
    <3>4. CASE f[k] = slugOf[x]
      BY <2>1, <3>3, <3>4
    <3>5. CASE f[k] # slugOf[x]
      <4>1. left[f[k]].who = x /\ Left(f[k]) /\ left[f[k]].at \in Nat
        BY <2>1, <2>8, <2>9, <3>3, <3>5
      <4>2. left[f[k]].at > left[u].at
        BY <3>1, <3>2, <3>3, <3>5, <4>1 DEF SlugsInv, AliasesLead
      <4>3. Aliased(f[k])
        BY <3>1, <3>2, <3>3, <4>1, <4>2 DEF SlugsInv, NewerLast
      <4>4. ASSUME NEW j \in 0..(k - 1)
            PROVE  f[j] # slugOf[x] /\ left[f[j]].at < left[f[k]].at
        <5>1. CASE j = k - 1
          BY <2>6, <2>11, <3>2, <4>1, <4>2, <5>1
        <5>2. CASE j # k - 1
          <6>1. j \in 0..(k - 2) /\ j \in 0..n /\ j \notin Bad
            BY <2>1, <2>3, <4>4, <5>2
          <6>2. f[j] # slugOf[x] /\ left[f[j]].at < left[u].at
            BY <3>1, <6>1
          <6>3. left[f[j]].at \in Nat
            BY <2>8, <2>9, <6>1, <6>2
          <6> QED
            BY <3>2, <4>1, <4>2, <6>2, <6>3
        <5> QED
          BY <5>1, <5>2
      <4> QED
        BY <2>1, <3>3, <4>3, <4>4
    <3> QED
      BY <3>4, <3>5
  <2> QED
    BY <2>10, <2>11
<1> QED
  BY <1>1

\* The walk has come to the agent's own slug once it has followed as many
\* aliases as are live: it meets none of them twice.
LEMMA WalkEnds ==
    ASSUME SlugsInv, NEW s \in Names, Aliased(s), NEW x, x = left[s].who, x # NoName,
           x \notin strayed, ~Aliased(slugOf[x]), NEW n \in Nat, NEW f, IsWalk(f, s, n),
           \A k \in 0..n : f[k] = slugOf[x] \/ left[f[k]].who = x,
           IsFiniteSet(Names), Cardinality({t \in Names : Aliased(t)}) <= n
    PROVE  \E k \in 0..Cardinality({t \in Names : Aliased(t)}) :
               f[k] = slugOf[x] /\ f[k] \in Names
<1> DEFINE live == {t \in Names : Aliased(t)}
           m == Cardinality(live)
           g == [k \in 0..m |-> f[k]]
<1>1. IsFiniteSet(live) /\ m \in Nat /\ m <= n
  <2>1. IsFiniteSet(live)
    BY FS_Subset
  <2>2. m \in Nat
    BY <2>1, FS_CardinalityType
  <2> QED
    BY <2>1, <2>2
<1>2. \A k \in 0..n :
          /\ f[k] \in Names
          /\ f[k] # slugOf[x] =>
                 /\ Aliased(f[k])
                 /\ \A j \in 0..(k - 1) : f[j] # slugOf[x] /\ left[f[j]].at < left[f[k]].at
  BY WalkLeads
<1> HIDE DEF m
<1>3. ASSUME \A k \in 0..m : f[k] # slugOf[x] PROVE FALSE
  <2>1. g \in [0..m -> live]
    BY <1>1, <1>2, <1>3
  <2>2. ASSUME NEW j \in 0..m, NEW k \in 0..m, j < k PROVE f[j] # f[k]
    <3>1. left[f[j]].at < left[f[k]].at
      BY <1>1, <1>2, <1>3, <2>2
    <3>2. left[f[k]].at \in Nat
      <4>1. left[f[k]].who = x
        BY <1>1, <1>3
      <4>2. Left(f[k]) /\ f[k] \in Names
        BY <1>1, <1>2, <4>1 DEF Left, NeverLeft
      <4> QED
        BY <4>2 DEF SlugsInv, SlugTypes, AgesStand
    <3> QED
      BY <3>1, <3>2
  <2>3. \A j, k \in 0..m : g[j] = g[k] => j = k
    BY <1>1, <2>2
  <2>4. IsFiniteSet(0..m) /\ Cardinality(0..m) = m + 1
    BY <1>1, FS_Interval
  <2> HIDE DEF g, live
  <2>5. \E j, k \in 0..m : j # k /\ g[j] = g[k]
    BY <1>1, <2>1, <2>4, FS_PigeonHole DEF m
  <2> QED
    BY <2>3, <2>5
<1>4. PICK k \in 0..m : f[k] = slugOf[x]
  BY <1>3
<1>5. f[k] \in Names
  BY <1>1, <1>2
<1> QED
  BY <1>4, <1>5 DEF m

\* A walk stays where it comes to a slug without an alias.
LEMMA WalkStays ==
    ASSUME NEW s, NEW n \in Nat, NEW f, IsWalk(f, s, n), NEW k \in 0..n, ~Aliased(f[k])
    PROVE  f[n] = f[k]
<1> DEFINE Off == {j \in k..n : f[j] # f[k]}
<1>1. ASSUME Off # {} PROVE FALSE
  <2>1. PICK j \in Off : \A i \in Off : j <= i
    <3>1. Off \subseteq Nat
      OBVIOUS
    <3> HIDE DEF Off
    <3> QED
      BY <1>1, <3>1, HasLeast
  <2>2. j # k /\ j - 1 \in k..n /\ j - 1 \notin Off /\ j \in 0..n /\ j # 0
    BY <2>1
  <2>3. f[j - 1] = f[k]
    BY <2>2
  <2>4. f[j] = Follow(f[j - 1])
    BY <2>2, WalkAt
  <2> QED
    BY <2>1, <2>3, <2>4 DEF Follow, Aliased
<1> QED
  BY <1>1

\* Renames of several agents that race, slugs that others take, deleted agents and
\* aliases that expire along the way never make a request for a slug an agent left end at no
\* agent or at another one, as long as no more aliases are alive than
\* resolve_alias follows and no two renames of that agent crossed.
THEOREM OldSlugsAreFollowed ==
    SlugsSpec => [](Cardinality({t \in Names : alias[t] # NoAlias}) <= MaxHops => OldSlugsLead)
<1> DEFINE live == {t \in Names : Aliased(t)}
           few == Cardinality(live) <= MaxHops
<1>1. ASSUME SlugsInv, few PROVE OldSlugsLead
  <2> SUFFICES ASSUME NEW s \in Names, NEW x, x = left[s].who,
                      x # NoName, x \notin removed \cup strayed,
                      Aliased(s), ~Aliased(slugOf[x]),
                      \A t \in ChainFrom(s) : t = slugOf[x] \/ left[t].who = x
               PROVE  ServedAt(s) = {x}
    BY DEF OldSlugsLead, Aliased
  <2> DEFINE n == Cardinality(Names)
             m == Cardinality(live)
  <2>1. IsFiniteSet(Names) /\ MaxHops \in Nat
    BY SlugsAssumption
  <2>2. n \in Nat /\ m \in Nat /\ m <= n
    <3>1. live \in SUBSET Names
      OBVIOUS
    <3> HIDE DEF live
    <3> QED
      BY <2>1, <3>1, FS_Subset, FS_CardinalityType
  <2>3. m <= MaxHops
    BY <1>1
  <2>4. \A k \in 0..n : Walk(s, n)[k] = slugOf[x] \/ left[Walk(s, n)[k]].who = x
    BY WhatIsWalked
  <2>5. IsWalk(Walk(s, n), s, n) /\ IsWalk(Walk(s, MaxHops), s, MaxHops)
    BY <2>1, <2>2, WalkExists
  <2> HIDE DEF n
  <2>6. PICK k \in 0..m : Walk(s, n)[k] = slugOf[x] /\ slugOf[x] \in Names
    BY <1>1, <2>1, <2>2, <2>4, <2>5, WalkEnds
  <2> HIDE DEF m
  <2>7. Walk(s, MaxHops)[k] = slugOf[x]
    BY <2>1, <2>2, <2>3, <2>6, WalksAgree
  <2>8. ResolveAlias(s) = slugOf[x]
    <3>1. k \in 0..MaxHops
      BY <2>1, <2>2, <2>3
    <3>2. Walk(s, MaxHops)[MaxHops] = slugOf[x]
      BY <2>1, <2>5, <2>7, <3>1, WalkStays
    <3> QED
      BY <3>2, WhatIsWalked
  <2>9. x \in Named
    <3>1. Left(s)
      BY DEF Left, NeverLeft
    <3> QED
      BY <1>1, <3>1 DEF SlugsInv, AgesStand
  <2> QED
    BY <1>1, <2>6, <2>8, <2>9, SlugsAssumption DEF ServedAt, LiveWith, SlugsInv, OneLiveEach
<1>2. SlugsInv => (Cardinality({t \in Names : alias[t] # NoAlias}) <= MaxHops => OldSlugsLead)
  BY <1>1 DEF Aliased
<1> QED
  BY <1>2, SlugsInvariant, PTL
=============================================================================

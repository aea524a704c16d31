----------------------------- MODULE ServeLoop -----------------------------
(***************************************************************************)
(* The SDKs' serve loop against the relay's leases.  A worker claims a     *)
(* batch of an agent's invocations, runs its handler on each in turn and   *)
(* posts the result; an error of the post is swallowed, as one of the pull *)
(* is.  All invocations of a batch are leased at once, so those at its end *)
(* may be handed to another worker before their turn comes.                *)
(***************************************************************************)
EXTENDS Naturals, Sequences, FiniteSets

CONSTANTS
    Workers,        \* processes that serve the agent
    Jobs,           \* invocations, in the order they came: 1 .. n
    BatchSize,      \* batch_size
    MaxClaims,      \* MAX_DELIVERIES
    MaxReleases,    \* bound: releases, by clients that run their own loop
    MaxStops        \* bound: workers stopped and started again

ASSUME ServeAssumption ==
    /\ IsFiniteSet(Workers) /\ IsFiniteSet(Jobs) /\ Jobs \subseteq Nat \ {0}
    /\ {BatchSize, MaxClaims} \subseteq Nat \ {0} /\ MaxReleases \in Nat /\ MaxStops \in Nat

VARIABLES
    job,        \* relay_invocations: [status, deliveries]
    batch,      \* what each worker has pulled and not handled yet
    answers,    \* invocations whose result is on its way to the relay
    ran,        \* history: how often a handler ran on each invocation
    releases,   \* how often each was released
    stops       \* how many workers have stopped

serveVars == <<job, batch, answers, ran, releases, stops>>

ServeInit ==
    /\ job = [j \in Jobs |-> [status |-> "pending", deliveries |-> 0]]
    /\ batch = [w \in Workers |-> <<>>]
    /\ answers = {}
    /\ ran = [j \in Jobs |-> 0]
    /\ releases = [j \in Jobs |-> 0]
    /\ stops = 0

Waiting == {j \in Jobs : job[j].status = "pending"}

\* The oldest that are pending.  SKIP LOCKED lets a pull take any it finds
\* free, the oldest of those.
Oldest(free) == {j \in free : Cardinality({k \in free : k < j}) < BatchSize}

\* A batch comes sorted by when its invocations were created.
InOrder(claimed) ==
    {q \in [1..Cardinality(claimed) -> claimed] : \A m, n \in DOMAIN q : m < n => q[m] < q[n]}

Hand(claimed) ==
    [j \in Jobs |-> IF j \in claimed THEN [status |-> "in_progress", deliveries |-> job[j].deliveries + 1]
                                     ELSE job[j]]

\* pull: the claim commits; the answer gets to the worker or is lost with it.
PullsBatch(w) ==
    /\ batch[w] = <<>>
    /\ \E free \in SUBSET Waiting \ {{}} :
           /\ job' = Hand(Oldest(free))
           /\ \/ \E q \in InOrder(Oldest(free)) : batch' = [batch EXCEPT ![w] = q]
              \/ UNCHANGED batch
    /\ UNCHANGED <<answers, ran, releases, stops>>

\* The handler runs whether or not the claim still stands.  A handler of a
\* person's reply may leave the answer to them.
HandlesJob(w) ==
    /\ batch[w] # <<>>
    /\ LET j == Head(batch[w]) IN
           /\ ran' = [ran EXCEPT ![j] = @ + 1]
           /\ answers' \in {answers, answers \cup {j}}
    /\ batch' = [batch EXCEPT ![w] = Tail(@)]
    /\ UNCHANGED <<job, releases, stops>>

\* report_result takes it from any worker of the agent while the invocation is
\* claimed, and refuses it otherwise.
ResultArrives(j) ==
    /\ j \in answers
    /\ answers' = answers \ {j}
    /\ job' = IF job[j].status = "in_progress" THEN [job EXCEPT ![j].status = "settled"] ELSE job
    /\ UNCHANGED <<batch, ran, releases, stops>>

ResultLost(j) ==
    /\ j \in answers
    /\ answers' = answers \ {j}
    /\ UNCHANGED <<job, batch, ran, releases, stops>>

\* Fault: one claim more than allowed.
ClaimedTooLate(j) == job[j].deliveries > MaxClaims

ClaimedEnough(j) == job[j].deliveries >= MaxClaims

\* The sweep: back to pending, or given up.
LeaseRunsOut(j) ==
    /\ job[j].status = "in_progress"
    /\ job' = [job EXCEPT ![j].status = IF ClaimedEnough(j) THEN "timeout" ELSE "pending"]
    /\ UNCHANGED <<batch, answers, ran, releases, stops>>

\* Any client of the agent may give back the claim, whoever holds it now.
ReleasesJob(j) ==
    /\ job[j].status = "in_progress" /\ releases[j] < MaxReleases
    /\ job' = [job EXCEPT ![j] = [status |-> "pending", deliveries |-> @.deliveries - 1]]
    /\ releases' = [releases EXCEPT ![j] = @ + 1]
    /\ UNCHANGED <<batch, answers, ran, stops>>

\* Cancelled or gone mid-batch: nothing is released.
StopsWorker(w) ==
    /\ batch[w] # <<>> /\ stops < MaxStops
    /\ batch' = [batch EXCEPT ![w] = <<>>]
    /\ stops' = stops + 1
    /\ UNCHANGED <<job, answers, ran, releases>>

ServeNext ==
    \/ \E w \in Workers : PullsBatch(w) \/ HandlesJob(w) \/ StopsWorker(w)
    \/ \E j \in Jobs : ResultArrives(j) \/ ResultLost(j) \/ LeaseRunsOut(j) \/ ReleasesJob(j)

ServeSpec == ServeInit /\ [][ServeNext]_serveVars

----------------------------------------------------------------------------
(* Properties *)

Copies(j) == Cardinality({w \in Workers : \E n \in DOMAIN batch[w] : batch[w][n] = j})

\* However leases lapse under a batch, answers are lost and claims are given
\* back by others, handlers run on an invocation at most MaxClaims times and
\* once more for each release; the copies that workers still hold count, as
\* each will run.
HandledPerClaim ==
    \A j \in Jobs : ran[j] + Copies(j) <= MaxClaims + releases[j]
=============================================================================

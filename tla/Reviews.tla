------------------------------ MODULE Reviews ------------------------------
(***************************************************************************)
(* Reviews of one agent by the agents that called it: a review tags the    *)
(* capabilities its author invoked.  A request the target's owner never    *)
(* let through doesn't count, and the owner can hide a review, which is    *)
(* edited in place.  The write is a chain of reads and then a transaction. *)
(***************************************************************************)
EXTENDS Naturals, FiniteSets

CONSTANTS
    Authors,    \* the agents that may review
    Skills,     \* capabilities of the agent reviewed
    Invokes,   \* invocations
    Writes      \* writes under way at a time

VARIABLES
    asks,       \* capabilities with consent_required
    deleted,    \* capabilities that were deleted
    request,    \* relay_invocations: [by, skill, status]
    allowed,    \* history: the requests that did not have to ask, or were approved
    write,      \* the write of each slot, past its checks
    review      \* agent_reviews: the tags of each

reviewVars == <<asks, deleted, request, allowed, write, review>>

NotSent == [status |-> "none"]
NoWrite == [tags |-> {}]

ReviewsInit ==
    /\ asks \in SUBSET Skills /\ deleted = {}
    /\ request = [q \in Invokes |-> NotSent]
    /\ allowed = {}
    /\ write = [w \in Writes |-> NoWrite]
    /\ review = [a \in Authors |-> {}]

----------------------------------------------------------------------------
(* The requests, as far as reviews depend on them *)

SendsRequest(q, a, s) ==
    /\ request[q] = NotSent /\ s \notin deleted
    /\ request' = [request EXCEPT ![q] =
                      [by |-> a, skill |-> s,
                       status |-> IF s \in asks THEN "awaiting_consent" ELSE "pending"]]
    /\ allowed' = IF s \in asks THEN allowed ELSE allowed \cup {q}
    /\ UNCHANGED <<asks, deleted, write, review>>

OwnerApproves(q) ==
    /\ request[q].status = "awaiting_consent"
    /\ request' = [request EXCEPT ![q].status = "pending"]
    /\ allowed' = allowed \cup {q}
    /\ UNCHANGED <<asks, deleted, write, review>>

\* The owner denies it, its approval expires, or the grant is revoked.
TurnsDown(q) ==
    /\ request[q].status \in {"awaiting_consent", "pending"}
    /\ request' = [request EXCEPT ![q].status = "rejected"]
    /\ UNCHANGED <<asks, deleted, allowed, write, review>>

\* Claimed and answered, or given up by the sweep.
SettlesRequest(q) ==
    /\ request[q].status = "pending"
    /\ request' = [request EXCEPT ![q].status = "settled"]
    /\ UNCHANGED <<asks, deleted, allowed, write, review>>

\* The owner turns asking on or off for a capability.
TogglesAsking(s) ==
    /\ s \notin deleted
    /\ asks' = IF s \in asks THEN asks \ {s} ELSE asks \cup {s}
    /\ UNCHANGED <<deleted, request, allowed, write, review>>

\* Its tags go with it; a review may be left with none.
DeletesSkill(s) ==
    /\ s \notin deleted
    /\ deleted' = deleted \cup {s}
    /\ review' = [a \in Authors |-> review[a] \ {s}]
    /\ UNCHANGED <<asks, request, allowed, write>>

----------------------------------------------------------------------------
(* write *)

\* Fault: only requests that were turned down don't count.
QualifiesUnlessRejected(q) == request[q].status # "rejected"

Qualifies(q) == request[q].status \notin {"rejected", "awaiting_consent"}

\* The capabilities an author may tag.
Tagable(a) ==
    {s \in Skills \ deleted :
        \E q \in Invokes : request[q] # NotSent /\ request[q].by = a /\ request[q].skill = s
                            /\ Qualifies(q)}

\* Every tag is checked ...
WriteChecks(w, a) ==
    /\ write[w] = NoWrite
    /\ \E tags \in SUBSET Tagable(a) \ {{}} :
           write' = [write EXCEPT ![w] = [by |-> a, tags |-> tags]]
    /\ UNCHANGED <<asks, deleted, request, allowed, review>>

\* ... then the review is inserted, or updated with its tags swapped.  A tag of
\* a capability deleted meanwhile fails the foreign key, and the write with it.
WriteCommits(w) ==
    /\ write[w] # NoWrite
    /\ write' = [write EXCEPT ![w] = NoWrite]
    /\ review' = IF write[w].tags \cap deleted # {} THEN review
                 ELSE [review EXCEPT ![write[w].by] = write[w].tags]
    /\ UNCHANGED <<asks, deleted, request, allowed>>

ReviewsNext ==
    \/ \E q \in Invokes :
           \/ \E a \in Authors, s \in Skills : SendsRequest(q, a, s)
           \/ OwnerApproves(q) \/ TurnsDown(q) \/ SettlesRequest(q)
    \/ \E s \in Skills : TogglesAsking(s) \/ DeletesSkill(s)
    \/ \E a \in Authors, w \in Writes : WriteChecks(w, a)
    \/ \E w \in Writes : WriteCommits(w)

ReviewsSpec == ReviewsInit /\ [][ReviewsNext]_reviewVars

----------------------------------------------------------------------------
(* Properties *)

LetThrough(a) ==
    {s \in Skills : \E q \in allowed : request[q].by = a /\ request[q].skill = s}

\* Owner consent design, 4.6: a held request doesn't "let the requester review
\* an agent whose owner never approved the call".  Every capability a review
\* tags is one the owner let its author through to, however asking was turned
\* on and off, requests were turned down and writes overtook each other.
ReviewedIfLetThrough ==
    \A a \in Authors : review[a] \subseteq LetThrough(a)
=============================================================================

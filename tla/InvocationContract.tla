------------------------ MODULE InvocationContract ------------------------
(***************************************************************************)
(* What the relay promises the caller of an invocation, and nothing of how *)
(* workers, leases, drafts or sweeps bring it about:                       *)
(*                                                                         *)
(*   absent -> settled           refused, recorded, never billed           *)
(*   absent -> open              queued, billed                            *)
(*   absent -> held -> open      billed only when the owner approves       *)
(*             held -> settled   never billed                              *)
(*   open -> settled             with at most one result                   *)
(*                                                                         *)
(* A settled invocation never moves again; its result can only be erased.  *)
(* One step may move several invocations, as a revoked grant does.         *)
(***************************************************************************)
CONSTANTS Ids, Answers, NoAnswer

VARIABLES view, result, billed

Views == {"absent", "held", "open", "settled"}

\* The promise may start with invocations already held or open.
Init ==
    /\ view \in [Ids -> {"absent", "held", "open"}]
    /\ result = [i \in Ids |-> NoAnswer]
    /\ billed = {i \in Ids : view[i] = "open"}

Stay(i) == view'[i] = view[i] /\ (i \in billed' <=> i \in billed)

Go(i, from, to) == view[i] = from /\ view'[i] = to

\* Written to the queue, after approval or without asking: billed now.
BecomeOpen(i) ==
    /\ Go(i, "absent", "open") \/ Go(i, "held", "open")
    /\ i \notin billed /\ i \in billed'
    /\ result'[i] = NoAnswer

\* Held for the owner, or refused before or by the owner: not billed.
StayUnbilled(i) ==
    /\ \/ Go(i, "absent", "held")
       \/ Go(i, "absent", "settled")
       \/ Go(i, "held", "settled")
    /\ i \notin billed'
    /\ result'[i] = NoAnswer

\* Answered, or given up with no result.
Settle(i) ==
    /\ Go(i, "open", "settled")
    /\ i \in billed /\ i \in billed'
    /\ result'[i] \in Answers \cup {NoAnswer}

\* Nothing the caller sees, or the result erased.
Rest(i) == Stay(i) /\ result'[i] \in {result[i], NoAnswer}

Next == \A i \in Ids : BecomeOpen(i) \/ StayUnbilled(i) \/ Settle(i) \/ Rest(i)

Spec == Init /\ [][Next]_<<view, result, billed>>
=============================================================================

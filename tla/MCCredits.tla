----------------------------- MODULE MCCredits -----------------------------
(* Credits on small instances. *)
EXTENDS Credits, TLC

NoOverride == {}
OneEntry == {3}

\* The checkouts of Checkouts \ C have come to nothing, one way a checkout ends.
Left(C) == [c \in Checkouts |->
               IF c \in C THEN Unused
               ELSE [Unused EXCEPT !.account = CHOOSE a \in Accounts : TRUE,
                                   !.status = "failed"]]

\* What a behaviour is about: the accounting loops, checkouts and payments, or
\* one of each.  The rest of the ids and bounds is used up.
MCInit ==
    \/ InitWith({}, Left({}), 1, 0)
    \/ InitWith(Invocations, Left(Checkouts), MaxMonth, MaxCrashes)
    \/ \E v \in Invocations, c \in Checkouts :
           InitWith(Invocations \ {v}, Left({c}), MaxMonth, MaxCrashes)

MCSpec == MCInit /\ [][Next]_vars /\ Fairness
=============================================================================

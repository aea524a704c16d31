------------------------------ MODULE MCCalls ------------------------------
(* Calls on small instances. *)
EXTENDS Calls, TLC

Symmetric == Permutations(Agents) \cup Permutations(Requests)

Busy == {r \in Requests : request[r] # Idle}

\* Bounds of the instance: few entries, at most one agent goes and nobody pulls
\* before the end; and of two handlers at once, an agent gone, and a tagger or
\* an invocation at work, one at a time.
Small ==
    /\ \A c \in CallIds : Len(entries[c]) <= 5
    /\ Cardinality(gone) <= 1
    /\ read # {} => \A c \in CallIds : ~Open(c)
    /\ Cardinality(Busy) = 2 => gone = {} /\ read = {}
    /\ Cardinality(Busy) = 2 \/ gone # {} =>
           /\ tagger.claimed = {}
           /\ \A i \in Invs : inv[i].status = "none"
=============================================================================

-------------------------- MODULE MCRelationships --------------------------
(* Relationships on small instances: model values for agents and rows. *)
EXTENDS Relationships, TLC

CONSTANTS a, b, f1, f2, f3, g1, g2, none

TwoAgents == {a, b}
TwoRows == {f1, f2}
ThreeRows == {f1, f2, f3}
TwoGrants == {g1, g2}
NoGrants == {}

\* Agents, rows and grants are interchangeable.
Symmetric ==
    Permutations(Agents) \cup Permutations(Rows) \cup Permutations(GrantIds)
=============================================================================

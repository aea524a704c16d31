----------------------------- MODULE MCSwitches ----------------------------
(* Switches on a small instance. *)
EXTENDS Switches, TLC

Nothing == {0}
GrantAndAdjustment == {4, -1}
Symmetric == Permutations(Invocations)
=============================================================================

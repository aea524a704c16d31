--------------------------- MODULE MCInvocations ---------------------------
(* Invocations on small instances: model values for ids and answers. *)
EXTENDS Invocations

CONSTANTS i1, i2, yes, no, none

NoIds == {}
OneId == {i1}
SecondId == {i2}
TwoIds == {i1, i2}
JustYes == {yes}
JustNo == {no}
YesOrNo == {yes, no}
=============================================================================

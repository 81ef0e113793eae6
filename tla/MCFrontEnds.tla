---------------------------- MODULE MCFrontEnds -----------------------------
(* Instances of FrontEnds for TLC.                                          *)
EXTENDS FrontEnds

Values   == {-1, 0, 1, 23, 24, 300}
Hues     == {15 * i : i \in 0 .. 25}
Indices  == {-1, 0, 272} \cup 16 .. 22
=============================================================================

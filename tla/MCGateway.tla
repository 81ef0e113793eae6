----------------------------- MODULE MCGateway -----------------------------
(* Instances of Gateway for TLC; the HTTP threads are alike.                *)
EXTENDS Gateway, TLC

Symmetry == Permutations(Handler)
=============================================================================

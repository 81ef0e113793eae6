------------------------------ MODULE MCSearch ------------------------------
(* Instances of Search for TLC; devices are alike.                          *)
EXTENDS Search, TLC

Symmetry == Permutations(Dev)
=============================================================================

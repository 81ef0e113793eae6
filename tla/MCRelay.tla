------------------------------ MODULE MCRelay ------------------------------
(* Instances of Relay for TLC.  The addresses are alike: no definition     *)
(* picks one of them.                                                      *)
EXTENDS Relay, TLC

Symmetry == Permutations(Addr)
=============================================================================

---------------------------- MODULE MCTransport ----------------------------
(* Instances of Transport for TLC; threads are alike, and so are devices.   *)
EXTENDS Transport, TLC

Symmetry == Permutations(Thread) \cup Permutations(Dev)
=============================================================================

------------------------------ MODULE MCFlock ------------------------------
(* Four processes of which two end on the way: one with the lock, one with  *)
(* the breaker.                                                             *)
EXTENDS Flock, TLC

Symmetry == Permutations(Procs)
=============================================================================

------------------------------ MODULE MCVBuffer -----------------------------
(* A small instance of VBuffer for TLC.                                     *)
EXTENDS VBuffer, TLC

Symmetry == Permutations(Threads)
=============================================================================

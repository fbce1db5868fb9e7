------------------------------ MODULE MCVHook ------------------------------
(* The threads of the hooked program are interchangeable, but the liveness  *)
(* property rules symmetry reduction out.                                   *)
EXTENDS VHook
=============================================================================

--------------------------- MODULE MCVmessStream ---------------------------
(* A small instance of VmessStream for TLC.                                 *)
EXTENDS VmessStream, TLC
=============================================================================

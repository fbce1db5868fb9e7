----------------------------- MODULE MCTcpRelay -----------------------------
(* A small instance of TcpRelay for TLC.                                    *)
EXTENDS TcpRelay, TLC
=============================================================================

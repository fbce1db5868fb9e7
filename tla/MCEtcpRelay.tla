---------------------------- MODULE MCEtcpRelay ----------------------------
(* Small instances of EtcpRelay for TLC.                                    *)
EXTENDS EtcpRelay, TLC

Symmetry == Permutations(Conns)

(* How many blocks the peers may send: client and target.                   *)
Send22 == [s \in Sides |-> 2]
Send11 == [s \in Sides |-> 1]
Send00 == [s \in Sides |-> 0]
=============================================================================

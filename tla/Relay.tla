------------------------------- MODULE Relay -------------------------------
(***************************************************************************)
(* What a TCP relay promises for each connection: two streams, one in each  *)
(* direction.  A stream is handed on in order and without loss, its end is  *)
(* announced only after all of it unless a peer was lost, and the           *)
(* connection is given up only when a peer was lost or some direction had   *)
(* ended.  Until it is up, the target may be dialled again.                 *)
(***************************************************************************)
EXTENDS Naturals, Sequences

CONSTANTS Conns, Data

VARIABLES
    phase,  \* connection -> idle, up or down
    src,    \* end -> what the peer at that end sent
    over,   \* end -> that peer has ended its stream
    dst,    \* end -> what was handed to the peer at that end
    shut,   \* end -> that peer was told that the other stream has ended
    lost    \* end -> the peer has gone away

rvars == <<phase, src, over, dst, shut, lost>>

REnds == Conns \X {"in", "out"}
Other(e) == <<e[1], IF e[2] = "in" THEN "out" ELSE "in">>

RInit ==
    /\ phase = [c \in Conns |-> "idle"]
    /\ src = [e \in REnds |-> <<>>]
    /\ over = [e \in REnds |-> FALSE]
    /\ dst = [e \in REnds |-> <<>>]
    /\ shut = [e \in REnds |-> FALSE]
    /\ lost = [e \in REnds |-> FALSE]

Send(e) ==
    /\ phase[e[1]] # "down"
    /\ ~over[e]
    /\ \E d \in Data : src' = [src EXCEPT ![e] = Append(@, d)]
    /\ UNCHANGED <<phase, over, dst, shut, lost>>

End(e) ==
    /\ phase[e[1]] # "down"
    /\ over' = [over EXCEPT ![e] = TRUE]
    /\ UNCHANGED <<phase, src, dst, shut, lost>>

Lose(e) ==
    /\ lost' = [lost EXCEPT ![e] = TRUE]
    /\ UNCHANGED <<phase, src, over, dst, shut>>

Establish(c) ==
    /\ phase[c] = "idle"
    /\ phase' = [phase EXCEPT ![c] = "up"]
    /\ UNCHANGED <<src, over, dst, shut, lost>>

Refuse(c) ==
    /\ phase[c] = "idle"
    /\ phase' = [phase EXCEPT ![c] = "down"]
    /\ UNCHANGED <<src, over, dst, shut, lost>>

Redial(c) ==
    LET e == <<c, "out">> IN
    /\ phase[c] = "idle"
    /\ src' = [src EXCEPT ![e] = <<>>]
    /\ over' = [over EXCEPT ![e] = FALSE]
    /\ lost' = [lost EXCEPT ![e] = FALSE]
    /\ UNCHANGED <<phase, dst, shut>>

(* Hand the next item that the peer at e sent to the peer at the other end. *)
Deliver(e) ==
    LET o == Other(e)
        n == Len(dst[o]) + 1
    IN  /\ phase[e[1]] = "up"
        /\ n <= Len(src[e])
        /\ dst' = [dst EXCEPT ![o] = Append(@, src[e][n])]
        /\ UNCHANGED <<phase, src, over, shut, lost>>

Announce(e) ==
    LET o == Other(e) IN
    /\ phase[e[1]] = "up"
    /\ (over[e] /\ dst[o] = src[e]) \/ lost[e] \/ lost[o]
    /\ shut' = [shut EXCEPT ![o] = TRUE]
    /\ UNCHANGED <<phase, src, over, dst, lost>>

TearDown(c) ==
    /\ phase[c] = "up"
    /\ \E s \in {"in", "out"} : over[<<c, s>>] \/ lost[<<c, s>>]
    /\ phase' = [phase EXCEPT ![c] = "down"]
    /\ shut' = [e \in REnds |-> IF e[1] = c THEN FALSE ELSE shut[e]]
    /\ UNCHANGED <<src, over, dst, lost>>

RNext ==
    \/ \E e \in REnds : Send(e) \/ End(e) \/ Lose(e) \/ Deliver(e) \/ Announce(e)
    \/ \E c \in Conns : Establish(c) \/ Refuse(c) \/ Redial(c) \/ TearDown(c)

RSpec == RInit /\ [][RNext]_rvars
=============================================================================

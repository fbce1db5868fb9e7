----------------------------- MODULE EtcpRelay -----------------------------
(***************************************************************************)
(* One worker of the epoll relay, proto/relay/etcp.c: it accepts clients,   *)
(* runs the inbound handshake, dials the outbound, and moves data between   *)
(* the two sockets of a connection on edge-triggered readiness events.      *)
(* tcp_relay_epoll starts several workers, each with its own epoll instance *)
(* and listening socket; they share no mutable state, so one is modelled.   *)
(*                                                                          *)
(* A connection has two ends, the client's <<c, "in">> and the target's     *)
(* <<c, "out">>.  An end is at once the proxy's tcp_socket_t, its descriptor*)
(* in the epoll set, and the etcp_relay_conn_t whose in_sock it is.         *)
(***************************************************************************)
EXTENDS TcpSocket, FiniteSets

CONSTANTS
    Conns,          \* connections a client may open
    InProtos,       \* protocols the inbound may be configured with
    OutProtos,      \* protocols the outbound may be configured with
    MaxSend,        \* bound: blocks the peer at a side sends on a connection
    RecvCap,        \* bound: blocks the kernel holds for a proxy socket
    WindowCap       \* bound: blocks a peer's kernel holds unread

ASSUME ConnAssumption == IsFiniteSet(Conns)
ASSUME ProtoAssumption == InProtos \subseteq Protos /\ OutProtos \subseteq Protos
ASSUME BoundAssumption ==
    MaxSend \in [{"in", "out"} -> Nat] /\ RecvCap \in Nat /\ WindowCap \in Nat

VARIABLES
    pc,         \* where the worker is
    cur,        \* the end it is working on
    harvested,  \* events epoll_wait returned that are not handled yet
    chunk,      \* the block between the read and the write
    st,         \* end -> none, queued (in the backlog), open or freed
    sock,       \* end -> the proxy's socket
    epoll,      \* end -> none, armed or ready (on the ready list)
    conn,       \* end -> none, live or freed etcp_relay_conn_t
    nclosed,    \* end -> its nclosed
    peer        \* end -> the program at the other side of the socket

workerVars == <<pc, cur, harvested, chunk>>
connVars == <<epoll, conn, nclosed>>
vars == <<pc, cur, harvested, chunk, st, sock, epoll, conn, nclosed, peer>>

Sides == {"in", "out"}
Ends == Conns \X Sides
Opp(e) == <<e[1], IF e[2] = "in" THEN "out" ELSE "in">>
EndsOf(c) == {<<c, "in">>, <<c, "out">>}

(* A peer: the blocks it sent, whether it sent its handshake header and     *)
(* ended its stream (FIN, or the VMess end trunk), the blocks it was given, *)
(* how many of them it has not read, and what it was told of the end.       *)
Peer ==
    [sent : Seq(Nat), greeted : BOOLEAN, ended : BOOLEAN,
     got : Seq(Nat), unread : Nat, told : {"open", "fin", "rst"}]

NewPeer == [sent |-> <<>>, greeted |-> FALSE, ended |-> FALSE,
            got |-> <<>>, unread |-> 0, told |-> "open"]

WorkerLoc == {"wait", "handshake", "dial", "register",
              "read", "write", "eof", "fail", "crashed"}

TypeOK ==
    /\ pc \in WorkerLoc
    /\ cur \in Ends
    /\ harvested \subseteq Ends
    /\ chunk \in Seq(Nat)
    /\ st \in [Ends -> {"none", "queued", "open", "freed"}]
    /\ sock \in [Ends -> Socket]
    /\ epoll \in [Ends -> {"none", "armed", "ready"}]
    /\ conn \in [Ends -> {"none", "live", "freed"}]
    /\ nclosed \in [Ends -> 0 .. 2]
    /\ peer \in [Ends -> Peer]

Init ==
    /\ pc = "wait"
    /\ cur \in Ends
    /\ harvested = {}
    /\ chunk = <<>>
    /\ st = [e \in Ends |-> "none"]
    /\ \E ip \in InProtos, op \in OutProtos :
          sock = [e \in Ends |-> NewSocket(IF e[2] = "in" THEN ip ELSE op)]
    /\ epoll = [e \in Ends |-> "none"]
    /\ conn = [e \in Ends |-> "none"]
    /\ nclosed = [e \in Ends |-> 0]
    /\ peer = [e \in Ends |-> NewPeer]

-----------------------------------------------------------------------------
(* The peers and the kernel.  Whatever arrives for a registered descriptor  *)
(* puts it on the ready list, even while the worker is handling it.         *)

Wake(e) == [epoll EXCEPT ![e] = IF @ = "none" THEN @ ELSE "ready"]

(* The peer can still send on e.                                            *)
Sending(e) == /\ st[e] \in {"queued", "open"}
              /\ ~sock[e].fin
              /\ ~sock[e].rst

Arrive(e, s, p) ==
    /\ pc # "crashed"
    /\ sock' = [sock EXCEPT ![e] = s]
    /\ peer' = [peer EXCEPT ![e] = p]
    /\ epoll' = Wake(e)
    /\ UNCHANGED <<workerVars, st, conn, nclosed>>

PeerConnect(c) ==
    LET e == <<c, "in">> IN
    /\ st[e] = "none"
    /\ st' = [st EXCEPT ![e] = "queued"]
    /\ UNCHANGED <<workerVars, connVars, sock, peer>>

PeerGreet(e) ==
    /\ Sending(e)
    /\ sock[e].proto # "native"
    /\ ~peer[e].greeted
    /\ Arrive(e, [sock[e] EXCEPT !.hello = TRUE],
                 [peer[e] EXCEPT !.greeted = TRUE])

(* A SOCKS client waits for the proxy's answer before it sends data; the    *)
(* other peers may send right behind their header.                          *)
MaySendData(e) ==
    /\ Sending(e)
    /\ ~peer[e].ended
    /\ sock[e].proto = "native" \/ peer[e].greeted
    /\ sock[e].proto = "socks" /\ e[2] = "in" => ~sock[e].hello

PeerSend(e) ==
    /\ MaySendData(e)
    /\ Len(peer[e].sent) < MaxSend[e[2]]
    /\ Len(sock[e].kbuf) < RecvCap
    /\ LET d == Len(peer[e].sent) + 1 IN
       Arrive(e, [sock[e] EXCEPT !.kbuf = Append(@, d)],
                 [peer[e] EXCEPT !.sent = Append(@, d)])

PeerEnd(e) ==
    /\ MaySendData(e)
    /\ sock[e].proto = "vmess"
    /\ Arrive(e, [sock[e] EXCEPT !.kend = TRUE],
                 [peer[e] EXCEPT !.ended = TRUE])

PeerFin(e) ==
    /\ Sending(e)
    /\ Arrive(e, [sock[e] EXCEPT !.fin = TRUE],
                 [peer[e] EXCEPT !.ended = @ \/ sock[e].proto # "vmess"])

PeerReset(e) ==
    /\ st[e] \in {"queued", "open"}
    /\ ~sock[e].rst
    /\ Arrive(e, [sock[e] EXCEPT !.rst = TRUE], peer[e])

PeerRecv(e) ==
    /\ peer[e].unread > 0
    /\ peer' = [peer EXCEPT ![e].unread = @ - 1]
    /\ UNCHANGED <<workerVars, connVars, st, sock>>

-----------------------------------------------------------------------------
(* The worker: the server branch of etcp_handle.                            *)

(* tcp_socket_close on the ends of C, then tcp_socket_free on those of S.   *)
(* close() with unread data in the kernel resets the connection.            *)
CloseAndFree(S, C) ==
    /\ st' = [e \in Ends |-> IF e \in S THEN "freed" ELSE st[e]]
    /\ sock' = [e \in Ends |-> IF e \in C THEN CloseWrite(sock[e]) ELSE sock[e]]
    /\ peer' = [e \in Ends |->
         IF e \in S
         THEN [peer[e] EXCEPT !.told =
                 IF sock[e].hello \/ sock[e].kbuf # <<>> \/ sock[e].kend
                 THEN "rst" ELSE "fin"]
         ELSE peer[e]]

Accept(c) ==
    /\ pc = "wait"
    /\ harvested = {}
    /\ st[<<c, "in">>] = "queued"
    /\ st' = [st EXCEPT ![<<c, "in">>] = "open"]
    /\ cur' = <<c, "in">>
    /\ pc' = "handshake"
    /\ UNCHANGED <<harvested, chunk, connVars, sock, peer>>

HandshakeOk ==
    /\ pc = "handshake"
    /\ sock[cur].proto = "native" \/ sock[cur].hello
    /\ \E over \in Overread(sock[cur]) :
          sock' = [sock EXCEPT ![cur] = ReadHello(@, over)]
    /\ pc' = IF cur[2] = "in" THEN "dial" ELSE "register"
    /\ UNCHANGED <<cur, harvested, chunk, connVars, st, peer>>

(* Faulty variant: a failed outbound handshake forgets the client's socket. *)
FailedForgetsIn(e) == {e}

(* The ends that a failed handshake releases: the inbound's only the        *)
(* client's socket, the outbound's both.                                    *)
Failed(e) == IF e[2] = "in" THEN {e} ELSE EndsOf(e[1])

(* Faulty variant: the end of the stream inside the header goes unnoticed.  *)
HandshakeFailNoEof ==
    /\ pc = "handshake"
    /\ sock[cur].proto # "native"
    /\ sock[cur].hello \/ sock[cur].rst
    /\ CloseAndFree(Failed(cur), Failed(cur))
    /\ pc' = "wait"
    /\ UNCHANGED <<cur, harvested, chunk, connVars>>

(* A header that does not decode, or a stream that ends before one.         *)
HandshakeFail ==
    /\ pc = "handshake"
    /\ sock[cur].proto # "native"
    /\ sock[cur].hello \/ sock[cur].fin \/ sock[cur].rst
    /\ CloseAndFree(Failed(cur), Failed(cur))
    /\ pc' = "wait"
    /\ UNCHANGED <<cur, harvested, chunk, connVars>>

(* A dokodemo inbound, whose sockets are native, knows no target.  Of the   *)
(* outbounds only dokodemo's, again native, does without one; the others    *)
(* dereference the NULL they are given, which ends the program.             *)
Dialable(e) == sock[e].proto # "native" \/ sock[Opp(e)].proto = "native"

NullTarget ==
    /\ pc = "dial"
    /\ sock[cur].proto = "native"
    /\ pc' = "crashed"
    /\ UNCHANGED <<cur, harvested, chunk, connVars, st, sock, peer>>

DialOk ==
    /\ pc = "dial"
    /\ Dialable(cur)
    /\ st' = [st EXCEPT ![Opp(cur)] = "open"]
    /\ cur' = Opp(cur)
    /\ pc' = "handshake"
    /\ UNCHANGED <<harvested, chunk, connVars, sock, peer>>

(* tcp_outbound_client frees the socket it made and returns NULL.           *)
DialFail ==
    /\ pc = "dial"
    /\ Dialable(cur)
    /\ CloseAndFree(EndsOf(cur[1]), EndsOf(cur[1]))
    /\ pc' = "wait"
    /\ UNCHANGED <<cur, harvested, chunk, connVars>>

(* Faulty variant: what arrived before the registration gives no event.     *)
AddedBlind(e) == "armed"

(* EPOLL_CTL_ADD puts what is already readable on the ready list.           *)
Added(e) == IF Readable(sock[e]) THEN "ready" ELSE "armed"

(* Link the two relay conns and register both descriptors.                  *)
Register ==
    /\ pc = "register"
    /\ conn' = [e \in Ends |-> IF e \in EndsOf(cur[1]) THEN "live" ELSE conn[e]]
    /\ epoll' = [e \in Ends |-> IF e \in EndsOf(cur[1]) THEN Added(e) ELSE epoll[e]]
    /\ pc' = "wait"
    /\ UNCHANGED <<cur, harvested, chunk, nclosed, st, sock, peer>>

-----------------------------------------------------------------------------
(* The worker: epoll_wait and the pipe branch of etcp_handle.               *)

(* Faulty variant: both events of a connection in one batch.                *)
MaxEventsTwo == 2

(* epoll_wait(epfd, &event, 1, -1): one event at a time.                    *)
MaxEvents == 1

(* An end that is on the ready list but has nothing to read any more is     *)
(* dropped from it without an event.                                        *)
EpollWait ==
    /\ pc = "wait"
    /\ harvested = {}
    /\ \E S \in SUBSET {e \in Ends : epoll[e] = "ready"} :
          /\ Cardinality(S) \in 1 .. MaxEvents
          /\ harvested' = {e \in S : Readable(sock[e])}
          /\ epoll' = [e \in Ends |-> IF e \in S THEN "armed" ELSE epoll[e]]
    /\ UNCHANGED <<pc, cur, chunk, st, sock, conn, nclosed, peer>>

Dispatch(e) ==
    /\ pc = "wait"
    /\ e \in harvested
    /\ harvested' = harvested \ {e}
    /\ cur' = e
    /\ pc' = "read"
    /\ UNCHANGED <<chunk, connVars, st, sock, peer>>

AfterRead(res) ==
    CASE res = "data" -> "write"
      [] res = "eof" -> "eof"
      [] res = "again" -> "wait"
      [] res = "error" -> "fail"

Read ==
    /\ pc = "read"
    /\ LET r == TryRead(sock[cur]) IN
       /\ sock' = [sock EXCEPT ![cur] = r.sock]
       /\ chunk' = r.data
       /\ pc' = AfterRead(r.res)
    /\ UNCHANGED <<cur, harvested, connVars, st, peer>>

(* Faulty variant: one read for each event, as with level triggering.       *)
AfterWriteOnce == "wait"

(* The loop reads until there is nothing left: an edge is not repeated.     *)
AfterWrite == "read"

(* A blocking write waits for room in the peer's window.                    *)
Write ==
    LET o == Opp(cur) IN
    /\ pc = "write"
    /\ ~sock[o].rst
    /\ ~sock[o].wshut
    /\ peer[o].unread < WindowCap
    /\ peer' = [peer EXCEPT ![o].got = @ \o chunk, ![o].unread = @ + 1]
    /\ chunk' = <<>>
    /\ pc' = AfterWrite
    /\ UNCHANGED <<cur, harvested, connVars, st, sock>>

WriteFail ==
    /\ pc = "write"
    /\ sock[Opp(cur)].rst \/ sock[Opp(cur)].wshut
    /\ chunk' = <<>>
    /\ pc' = "fail"
    /\ UNCHANGED <<cur, harvested, connVars, st, sock, peer>>

(* etcp_remove_conn: deregister, close the ends of C, free the two sockets  *)
(* and the two relay conns.                                                 *)
RemoveConn(c, C) ==
    /\ epoll' = [e \in Ends |-> IF e \in EndsOf(c) THEN "none" ELSE epoll[e]]
    /\ conn' = [e \in Ends |-> IF e \in EndsOf(c) THEN "freed" ELSE conn[e]]
    /\ CloseAndFree(EndsOf(c), C)

(* A VMess socket writes its end trunk when it is closed, which may block.  *)
MayClose(e) == \/ sock[e].proto # "vmess"
               \/ sock[e].rst \/ sock[e].wshut
               \/ peer[e].unread < WindowCap

(* conn->nclosed++ and conn->pair->nclosed++.                               *)
CountClosed(c) ==
    nclosed' = [e \in Ends |-> IF e \in EndsOf(c) THEN nclosed[e] + 1 ELSE nclosed[e]]

(* Faulty variant: the count that removes the connection is missed.         *)
BothClosedLate(n) == n > 2

BothClosed(n) == n = 2

(* case 0: shut down the other socket's sending side.  The kernel wakes     *)
(* whoever polls a socket that is shut down, by whichever side.             *)
HalfClose ==
    LET o == Opp(cur) IN
    /\ pc = "eof"
    /\ ~BothClosed(nclosed[cur] + 1)
    /\ MayClose(o)
    /\ sock' = [sock EXCEPT ![o] = CloseWrite(@)]
    /\ peer' = [peer EXCEPT ![o].told = "fin"]
    /\ epoll' = Wake(o)
    /\ CountClosed(cur[1])
    /\ pc' = "wait"
    /\ UNCHANGED <<cur, harvested, chunk, conn, st>>

(* case 0 when the count reaches 2: shut down, then remove, which closes    *)
(* neither socket again.                                                    *)
FullClose ==
    /\ pc = "eof"
    /\ BothClosed(nclosed[cur] + 1)
    /\ MayClose(Opp(cur))
    /\ CountClosed(cur[1])
    /\ RemoveConn(cur[1], {Opp(cur)})
    /\ pc' = "wait"
    /\ UNCHANGED <<cur, harvested, chunk>>

(* What etcp_remove_conn closes: both sockets unless an end of file was     *)
(* counted, then neither.                                                   *)
Unclosed(e) == IF nclosed[e] = 0 THEN EndsOf(e[1]) ELSE {}

(* case -1 and a failed write.                                              *)
Fail ==
    /\ pc = "fail"
    /\ \A e \in Unclosed(cur) : MayClose(e)
    /\ RemoveConn(cur[1], Unclosed(cur))
    /\ pc' = "wait"
    /\ UNCHANGED <<cur, harvested, chunk, nclosed>>

-----------------------------------------------------------------------------
Peers ==
    \/ \E c \in Conns : PeerConnect(c)
    \/ \E e \in Ends : \/ PeerGreet(e) \/ PeerSend(e) \/ PeerEnd(e)
                       \/ PeerFin(e) \/ PeerReset(e) \/ PeerRecv(e)

Handle == \/ HandshakeOk \/ HandshakeFail \/ NullTarget \/ DialOk \/ DialFail
          \/ Register
          \/ Read \/ Write \/ WriteFail \/ HalfClose \/ FullClose \/ Fail

Worker == \/ \E c \in Conns : Accept(c)
          \/ EpollWait
          \/ \E e \in Ends : Dispatch(e)
          \/ Handle

Next == Peers \/ Worker

Spec == Init /\ [][Next]_vars

(* The worker never stops; the kernel serves its ready list and backlog in  *)
(* order, so neither an event nor a client waits for ever.  Peers are       *)
(* trusted only to read what they are sent and to complete a handshake they *)
(* owe, by a header or by going away.                                       *)
Fairness ==
    /\ WF_vars(Handle)
    /\ WF_vars(\E e \in Ends : Dispatch(e))
    /\ \A e \in Ends : SF_vars(EpollWait /\ epoll[e] # epoll'[e])
    /\ \A c \in Conns : SF_vars(Accept(c))
    /\ \A e \in Ends : WF_vars(PeerRecv(e)) /\ WF_vars(PeerGreet(e))

FairSpec == Spec /\ Fairness

-----------------------------------------------------------------------------
(* Properties.                                                              *)

Handling == IF pc \in {"read", "write", "eof", "fail"} THEN {cur} ELSE {}

(* Freeing both halves of a connection from the handler of one of them      *)
(* leaves no event, no registration and no worker step behind that would    *)
(* use the freed relay conns or their sockets.                              *)
NoUseAfterFree ==
    \A e \in harvested \cup Handling \cup {x \in Ends : epoll[x] # "none"} :
       \A x \in EndsOf(e[1]) : conn[x] = "live" /\ st[x] = "open"

(* Whatever failed on the way, a worker that waits for events holds no      *)
(* socket except the two of each connection it relays.                      *)
NoLeak ==
    pc = "wait" => \A e \in Ends : st[e] = "open" <=> conn[e] = "live"

(* A VMess handshake took along data or an end trunk, and nothing is left   *)
(* in the kernel that would give an event for it: what lies in raw_buf      *)
(* waits until more of the stream, or its FIN, arrives.                     *)
Stranded(e) == /\ sock[e].raw # <<>> \/ sock[e].rend
               /\ ~Readable(sock[e])
               /\ e \notin harvested \cup Handling

(* The edge-triggered contract: when the worker waits for events, an end    *)
(* without a pending one has nothing that should have been relayed, neither *)
(* in the kernel nor in the socket's own buffers, and the end of its stream *)
(* has been passed on; unless the handshake left it stranded.               *)
Quiescent ==
    pc = "wait" /\ harvested = {} =>
      \A e \in Ends : conn[e] = "live" /\ epoll[e] = "armed" =>
         \/ Stranded(e)
         \/ /\ sock[e].kbuf = <<>> /\ ~sock[e].kend /\ ~sock[e].rst
            /\ sock[e].raw = <<>> /\ ~sock[e].rend
            /\ peer[e].ended => sock[Opp(e)].wshut

(* Only a handshake strands what it took along: the handler of an event     *)
(* goes back to epoll_wait with raw_buf empty, however many trunks one read *)
(* brought, so a connection that is relayed never becomes stranded.         *)
OnlyHandshakesStrand ==
    [][\A e \in Ends : conn[e] = "live" /\ conn'[e] = "live" /\ Stranded(e)'
          => Stranded(e)]_vars

(* etcp.h: "fd0 ready -> read fd0, write fd1 / fd1 ready -> read fd1, write *)
(* fd0": unless a peer reset the connection, it is removed only when both   *)
(* streams have ended and both were written out.                            *)
GracefulClose ==
    \A c \in Conns :
       conn[<<c, "in">>] = "freed" /\ (\A e \in EndsOf(c) : ~sock[e].rst)
          => \A e \in EndsOf(c) : peer[e].ended /\ peer[Opp(e)].got = peer[e].sent

(* The relay implements the abstract one.                                   *)
Phase(c) ==
    CASE conn[<<c, "in">>] = "live" -> "up"
      [] conn[<<c, "in">>] # "live" /\ st[<<c, "in">>] = "freed" -> "down"
      [] conn[<<c, "in">>] # "live" /\ st[<<c, "in">>] # "freed" -> "idle"

R == INSTANCE Relay WITH
        Data <- 1 .. MaxSend["in"] + MaxSend["out"],
        phase <- [c \in Conns |-> Phase(c)],
        src <- [e \in Ends |-> peer[e].sent],
        over <- [e \in Ends |-> peer[e].ended],
        dst <- [e \in Ends |-> peer[e].got],
        shut <- [e \in Ends |-> conn[e] = "live" /\ sock[e].wshut],
        lost <- [e \in Ends |-> sock[e].rst]

(* Every step of the relay is a step of the abstract relay or none: items   *)
(* are delivered in order, ends are announced after the data, and no        *)
(* connection is given up while both streams run and both peers are there.  *)
RelaySpec == R!RSpec

(* A connection both of whose peers ended their streams is removed, unless  *)
(* an end stays behind in raw_buf.                                          *)
Finished(c) == \A e \in EndsOf(c) : conn[e] = "live" /\ peer[e].ended /\ ~Stranded(e)
EventuallyRemoved ==
    \A c \in Conns : Finished(c) ~> conn[<<c, "in">>] = "freed"

(* Every block that arrives is delivered, whether its stream ends or not,   *)
(* unless the connection goes.  Of the blocks that a handshake took along   *)
(* this holds once anything follows them: one read empties raw_buf.         *)
EventuallyDelivered ==
    \A e \in Ends : \A n \in 1 .. MaxSend[e[2]] :
       conn[e] = "live" /\ Len(peer[e].sent) >= n /\ ~Stranded(e)
          ~> Len(peer[Opp(e)].got) >= n \/ conn[e] = "freed"

(* A client in the backlog is taken, however busy the other connections.    *)
EventuallyAccepted ==
    \A c \in Conns : st[<<c, "in">>] = "queued" ~> st[<<c, "in">>] # "queued"
=============================================================================

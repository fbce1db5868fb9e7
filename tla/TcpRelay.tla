------------------------------ MODULE TcpRelay ------------------------------
(***************************************************************************)
(* One connection of the threaded relay, proto/relay/tcp.c: a detached      *)
(* handler thread runs the handshake and dials the outbound with retries,   *)
(* then a reader thread (out -> in) and a writer thread (in -> out) move    *)
(* the data with blocking calls; the handler joins both and frees the       *)
(* sockets.  Connections share nothing, so one is modelled.                 *)
(*                                                                          *)
(* A copying thread is named after the socket it reads: "in" is the writer, *)
(* "out" the reader.                                                        *)
(***************************************************************************)
EXTENDS TcpSocket

CONSTANTS
    InProtos, OutProtos,
    MaxRetry,       \* max_connect_retry of the configuration
    MaxSend,        \* bound: blocks a peer sends
    RecvCap,        \* bound: blocks the kernel holds for a proxy socket
    WindowCap       \* bound: blocks a peer's kernel holds unread

ASSUME ProtoAssumption == InProtos \subseteq Protos /\ OutProtos \subseteq Protos
ASSUME BoundAssumption == MaxSend \in Nat /\ RecvCap \in Nat /\ WindowCap \in Nat
ASSUME RetryAssumption == MaxRetry \in Nat \ {0}

VARIABLES
    hpc,        \* where the handler is
    retry,      \* its count of failed dials
    tpc,        \* side -> where the copying thread is
    chunk,      \* side -> what that thread has read and not written
    st,         \* side -> none, queued, open or freed
    sock,       \* side -> the proxy's socket
    peer        \* side -> the program behind the socket

vars == <<hpc, retry, tpc, chunk, st, sock, peer>>

Sides == {"in", "out"}
Opp(s) == IF s = "in" THEN "out" ELSE "in"

Peer ==
    [sent : Seq(Nat), greeted : BOOLEAN, ended : BOOLEAN,
     got : Seq(Nat), unread : Nat]

NewPeer == [sent |-> <<>>, greeted |-> FALSE, ended |-> FALSE,
            got |-> <<>>, unread |-> 0]

HandlerLoc == {"accept", "handshake", "dial", "outhandshake", "failed",
               "join", "exit", "crashed"}
ThreadLoc == {"none", "read", "write", "close", "exit"}

TypeOK ==
    /\ hpc \in HandlerLoc
    /\ retry \in 0 .. MaxRetry
    /\ tpc \in [Sides -> ThreadLoc]
    /\ chunk \in [Sides -> Seq(Nat)]
    /\ st \in [Sides -> {"none", "queued", "open", "freed"}]
    /\ sock \in [Sides -> Socket]
    /\ peer \in [Sides -> Peer]

Init ==
    /\ hpc = "accept"
    /\ retry = 0
    /\ tpc = [s \in Sides |-> "none"]
    /\ chunk = [s \in Sides |-> <<>>]
    /\ st = [s \in Sides |-> "none"]
    /\ \E ip \in InProtos, op \in OutProtos :
          sock = [s \in Sides |-> NewSocket(IF s = "in" THEN ip ELSE op)]
    /\ peer = [s \in Sides |-> NewPeer]

-----------------------------------------------------------------------------
(* The peers and the kernel.                                                *)

Sending(s) == st[s] \in {"queued", "open"} /\ ~sock[s].fin /\ ~sock[s].rst

Arrive(s, so, p) ==
    /\ hpc # "crashed"
    /\ sock' = [sock EXCEPT ![s] = so]
    /\ peer' = [peer EXCEPT ![s] = p]
    /\ UNCHANGED <<hpc, retry, tpc, chunk, st>>

PeerConnect ==
    /\ st["in"] = "none"
    /\ st' = [st EXCEPT !["in"] = "queued"]
    /\ UNCHANGED <<hpc, retry, tpc, chunk, sock, peer>>

PeerGreet(s) ==
    /\ Sending(s)
    /\ sock[s].proto # "native"
    /\ ~peer[s].greeted
    /\ Arrive(s, [sock[s] EXCEPT !.hello = TRUE],
                 [peer[s] EXCEPT !.greeted = TRUE])

(* A SOCKS client waits for the proxy's answer before it sends data.        *)
MaySendData(s) ==
    /\ Sending(s)
    /\ ~peer[s].ended
    /\ sock[s].proto = "native" \/ peer[s].greeted
    /\ sock[s].proto = "socks" /\ s = "in" => ~sock[s].hello

PeerSend(s) ==
    /\ MaySendData(s)
    /\ Len(peer[s].sent) < MaxSend
    /\ Len(sock[s].kbuf) < RecvCap
    /\ LET d == Len(peer[s].sent) + 1 IN
       Arrive(s, [sock[s] EXCEPT !.kbuf = Append(@, d)],
                 [peer[s] EXCEPT !.sent = Append(@, d)])

PeerEnd(s) ==
    /\ MaySendData(s)
    /\ sock[s].proto = "vmess"
    /\ Arrive(s, [sock[s] EXCEPT !.kend = TRUE],
                 [peer[s] EXCEPT !.ended = TRUE])

PeerFin(s) ==
    /\ Sending(s)
    /\ Arrive(s, [sock[s] EXCEPT !.fin = TRUE],
                 [peer[s] EXCEPT !.ended = @ \/ sock[s].proto # "vmess"])

PeerReset(s) ==
    /\ st[s] \in {"queued", "open"}
    /\ ~sock[s].rst
    /\ Arrive(s, [sock[s] EXCEPT !.rst = TRUE], peer[s])

PeerRecv(s) ==
    /\ peer[s].unread > 0
    /\ peer' = [peer EXCEPT ![s].unread = @ - 1]
    /\ UNCHANGED <<hpc, retry, tpc, chunk, st, sock>>

-----------------------------------------------------------------------------
(* The handler.                                                             *)

Goto(l) == hpc' = l

(* tcp_socket_close on the sides of C and tcp_socket_free on those of S.    *)
CloseAndFree(S, C) ==
    /\ st' = [s \in Sides |-> IF s \in S THEN "freed" ELSE st[s]]
    /\ sock' = [s \in Sides |-> IF s \in C THEN CloseWrite(sock[s]) ELSE sock[s]]

(* The accept loop of tcp_relay starts a handler for the client.            *)
Accept ==
    /\ hpc = "accept"
    /\ st["in"] = "queued"
    /\ st' = [st EXCEPT !["in"] = "open"]
    /\ Goto("handshake")
    /\ UNCHANGED <<retry, tpc, chunk, sock, peer>>

Greeted(s) == sock[s].proto = "native" \/ sock[s].hello
Rejected(s) == /\ sock[s].proto # "native"
               /\ sock[s].hello \/ sock[s].fin \/ sock[s].rst

ReadHeader(s) == \E over \in Overread(sock[s]) :
                    sock' = [sock EXCEPT ![s] = ReadHello(@, over)]

HandshakeOk ==
    /\ hpc = "handshake"
    /\ Greeted("in")
    /\ ReadHeader("in")
    /\ Goto("dial")
    /\ UNCHANGED <<retry, tpc, chunk, st, peer>>

HandshakeFail ==
    /\ hpc = "handshake"
    /\ Rejected("in")
    /\ CloseAndFree({"in"}, {"in"})
    /\ Goto("exit")
    /\ UNCHANGED <<retry, tpc, chunk, peer>>

(* A dokodemo inbound, whose socket is native, has no target.  Only the     *)
(* dokodemo outbound, again native, can dial without one.                   *)
HasTarget == sock["in"].proto # "native"
Dialable == HasTarget \/ sock["out"].proto = "native"

(* tcp_outbound_client: a TCP connection, and the outbound's handshake.     *)
DialOk ==
    /\ hpc = "dial"
    /\ Dialable
    /\ st' = [st EXCEPT !["out"] = "open"]
    /\ Goto("outhandshake")
    /\ UNCHANGED <<retry, tpc, chunk, sock, peer>>

(* Faulty variant: one attempt too many.                                    *)
RetriesUpLate(n) == n > MaxRetry

RetriesUp(n) == n >= MaxRetry

(* Faulty variant: the socket of the failed attempt is not freed.           *)
RetryNoFree ==
    /\ retry' = retry + 1
    /\ sock' = [sock EXCEPT !["out"] = NewSocket(sock["out"].proto)]
    /\ peer' = [peer EXCEPT !["out"] = NewPeer]
    /\ Goto(IF RetriesUp(retry') THEN "failed" ELSE "dial")
    /\ UNCHANGED <<tpc, chunk, st>>

(* The attempt failed; its socket is gone and the next one is a new one.    *)
Retry ==
    /\ retry' = retry + 1
    /\ sock' = [sock EXCEPT !["out"] = NewSocket(sock["out"].proto)]
    /\ peer' = [peer EXCEPT !["out"] = NewPeer]
    /\ st' = [st EXCEPT !["out"] = "none"]
    /\ Goto(IF RetriesUp(retry') THEN "failed" ELSE "dial")
    /\ UNCHANGED <<tpc, chunk>>

DialFail == hpc = "dial" /\ Dialable /\ Retry

OutHandshakeFail == hpc = "outhandshake" /\ Rejected("out") /\ Retry

(* Both copying threads are started.                                        *)
Connected ==
    /\ hpc = "outhandshake"
    /\ Greeted("out")
    /\ HasTarget
    /\ ReadHeader("out")
    /\ tpc' = [s \in Sides |-> "read"]
    /\ Goto("join")
    /\ UNCHANGED <<retry, chunk, st, peer>>

GiveUp ==
    /\ hpc = "failed"
    /\ HasTarget
    /\ CloseAndFree({"in"}, {"in"})
    /\ Goto("exit")
    /\ UNCHANGED <<retry, tpc, chunk, peer>>

(* The other outbounds, and at the latest print_target, dereference the     *)
(* target, which ends the program.                                          *)
NullTarget ==
    /\ hpc \in {"dial", "failed"} \/ (hpc = "outhandshake" /\ Greeted("out"))
    /\ ~HasTarget
    /\ Goto("crashed")
    /\ UNCHANGED <<retry, tpc, chunk, st, sock, peer>>

(* Faulty variant: only one of the threads is waited for.                   *)
JoinableOne == \E s \in Sides : tpc[s] = "exit"

(* thread_join of the reader and the writer, then both sockets are freed.   *)
Joinable == \A s \in Sides : tpc[s] = "exit"

Join ==
    /\ hpc = "join"
    /\ Joinable
    /\ CloseAndFree(Sides, {})
    /\ Goto("exit")
    /\ UNCHANGED <<retry, tpc, chunk, peer>>

-----------------------------------------------------------------------------
(* _tcp_relay_reader and _tcp_relay_writer.                                 *)

(* Faulty variant: a read of 0 bytes is taken for "nothing yet".            *)
AfterReadAgain(res) ==
    CASE res = "eof" -> "read"
      [] res = "error" -> "close"
      [] res \in {"data", "again"} -> "write"

(* n_read && n_read != -1: -2 goes on to the write as a size.               *)
AfterRead(res) == IF res \in {"eof", "error"} THEN "close" ELSE "write"

Read(s) ==
    /\ hpc = "join" /\ tpc[s] = "read"
    /\ ReadReturns(sock[s])
    /\ LET r == BlockingRead(sock[s]) IN
       /\ sock' = [sock EXCEPT ![s] = r.sock]
       /\ chunk' = [chunk EXCEPT ![s] = r.data]
       /\ tpc' = [tpc EXCEPT ![s] = AfterRead(r.res)]
    /\ UNCHANGED <<hpc, retry, st, peer>>

Writable(s) == ~sock[s].rst /\ ~sock[s].wshut

Write(s) ==
    LET o == Opp(s) IN
    /\ hpc = "join" /\ tpc[s] = "write"
    /\ chunk[s] # <<>>
    /\ Writable(o)
    /\ peer[o].unread < WindowCap
    /\ peer' = [peer EXCEPT ![o].got = @ \o chunk[s], ![o].unread = @ + 1]
    /\ chunk' = [chunk EXCEPT ![s] = <<>>]
    /\ tpc' = [tpc EXCEPT ![s] = "read"]
    /\ UNCHANGED <<hpc, retry, st, sock>>

(* The other peer is gone, or the size is -2 and a plain write refuses it.  *)
WriteFail(s) ==
    LET o == Opp(s) IN
    /\ hpc = "join" /\ tpc[s] = "write"
    /\ IF chunk[s] # <<>> THEN ~Writable(o) ELSE sock[o].proto # "vmess"
    /\ chunk' = [chunk EXCEPT ![s] = <<>>]
    /\ tpc' = [tpc EXCEPT ![s] = "close"]
    /\ UNCHANGED <<hpc, retry, st, sock, peer>>

(* A size of -2 given to vmess_serial_write: realloc fails, memcpy faults.  *)
WriteCrash(s) ==
    /\ hpc = "join" /\ tpc[s] = "write"
    /\ chunk[s] = <<>>
    /\ sock[Opp(s)].proto = "vmess"
    /\ Goto("crashed")
    /\ UNCHANGED <<retry, tpc, chunk, st, sock, peer>>

(* Faulty variants: a thread closes both sockets, or the one it reads.      *)
CloseTargetsBoth(s) == Sides
CloseTargetsOwn(s) == {s}

CloseTargets(s) == {Opp(s)}

(* tcp_socket_close on the other socket; its end trunk may block.           *)
Close(s) ==
    /\ hpc = "join" /\ tpc[s] = "close"
    /\ \A o \in CloseTargets(s) :
          sock[o].proto = "vmess" /\ ~sock[o].rst => peer[o].unread < WindowCap
    /\ sock' = [x \in Sides |->
                   IF x \in CloseTargets(s) THEN CloseWrite(sock[x]) ELSE sock[x]]
    /\ tpc' = [tpc EXCEPT ![s] = "exit"]
    /\ UNCHANGED <<hpc, retry, chunk, st, peer>>

-----------------------------------------------------------------------------
PeerStep(s) == \/ PeerGreet(s) \/ PeerSend(s) \/ PeerEnd(s)
               \/ PeerFin(s) \/ PeerReset(s) \/ PeerRecv(s)

Handler == \/ Accept \/ HandshakeOk \/ HandshakeFail \/ DialOk \/ DialFail
           \/ OutHandshakeFail \/ Connected \/ GiveUp \/ NullTarget \/ Join

Copy(s) == Read(s) \/ Write(s) \/ WriteFail(s) \/ WriteCrash(s) \/ Close(s)

Reader == Copy("out")
Writer == Copy("in")

Next == \/ PeerConnect
        \/ \E s \in Sides : PeerStep(s)
        \/ Handler \/ Reader \/ Writer

Spec == Init /\ [][Next]_vars

(* Every thread is scheduled; peers read what they are sent.                *)
Fairness == /\ WF_vars(Handler) /\ WF_vars(Reader) /\ WF_vars(Writer)
            /\ \A s \in Sides : WF_vars(PeerRecv(s))

FairSpec == Spec /\ Fairness

-----------------------------------------------------------------------------
(* Properties.                                                              *)

(* No thread is still reading, writing or closing a socket that the handler *)
(* has freed: a thread that ends early does not take the other's sockets.   *)
NoUseAfterFree ==
    \A s \in Sides : tpc[s] \in {"read", "write", "close"}
       => \A x \in Sides : st[x] = "open"

(* Between peers that neither reset nor break off, a copying thread stops   *)
(* only when its stream has ended and all of it was written, so a half that *)
(* ends first never cuts the other one off.                                 *)
Proper(s) == ~sock[s].rst /\ (sock[s].fin => peer[s].ended)
FinMeansAll ==
    \A s \in Sides :
       tpc[s] = "exit" /\ (\A x \in Sides : Proper(x))
          => peer[s].ended /\ peer[Opp(s)].got = peer[s].sent

(* Whatever failed, the handler holds the client's socket and no other when *)
(* it dials, for the first time or again, and when it has given up; once it *)
(* is gone no socket is open.                                               *)
NoLeak ==
    /\ hpc \in {"handshake", "dial", "failed"} => st["in"] = "open" /\ st["out"] = "none"
    /\ hpc = "exit" => \A s \in Sides : st[s] # "open"

(* The threaded relay implements the abstract one.                          *)
R == INSTANCE Relay WITH
        Conns <- {1},
        Data <- 1 .. MaxSend,
        phase <- [c \in {1} |-> CASE hpc = "join" -> "up"
                                  [] hpc \in {"exit", "crashed"} -> "down"
                                  [] OTHER -> "idle"],
        src <- [e \in {1} \X Sides |-> peer[e[2]].sent],
        over <- [e \in {1} \X Sides |-> peer[e[2]].ended \/ sock[e[2]].fin],
        dst <- [e \in {1} \X Sides |-> peer[e[2]].got],
        shut <- [e \in {1} \X Sides |-> hpc = "join" /\ sock[e[2]].wshut],
        lost <- [e \in {1} \X Sides |-> sock[e[2]].rst]

(* Every step of the two copying threads and their handler is a step of the *)
(* abstract relay or none.                                                  *)
RelaySpec == R!RSpec

(* When both streams have ended or broken off, the handler ends too: no     *)
(* thread stays behind in a read and no socket stays open.                  *)
EventuallyFreed ==
    hpc = "join" /\ (\A s \in Sides : peer[s].ended \/ sock[s].rst)
       ~> hpc \in {"exit", "crashed"}
=============================================================================

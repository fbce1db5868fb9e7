--------------------------- MODULE TcpRelayProofs ---------------------------
(***************************************************************************)
(* For every mixture of protocols and every bound, the threads of a         *)
(* connection of the threaded relay never use a socket that was freed, and  *)
(* a handler that is gone leaves none open.  Between any outbounds but      *)
(* SOCKS ones, whose server may speak before the handshake is over, a       *)
(* thread stops only when its stream has ended and all of it was written,   *)
(* and every step is a step of the abstract relay or leaves it as it is.    *)
(***************************************************************************)
EXTENDS TcpRelay, TcpSocketProofs

(* Before the two threads are started.                                      *)
Alone == {"accept", "handshake", "dial", "outhandshake", "failed"}

(* Which sockets there are at each point of the handler.                    *)
Holds ==
    /\ hpc = "accept" => st["in"] \in {"none", "queued"} /\ st["out"] = "none"
    /\ hpc \in {"handshake", "dial", "failed"} => st["in"] = "open" /\ st["out"] = "none"
    /\ hpc \in {"outhandshake", "join"} => st["in"] = "open" /\ st["out"] = "open"
    /\ hpc = "exit" => st["in"] = "freed" /\ st["out"] \in {"none", "freed"}
    /\ hpc = "crashed" => st["in"] = "open"

(* The threads run only while the handler waits for them, or the program is *)
(* gone.                                                                    *)
Threaded ==
    /\ hpc \in Alone => \A s \in Sides : tpc[s] = "none"
    /\ hpc = "exit" => \A s \in Sides : tpc[s] \in {"none", "exit"}
    /\ hpc = "crashed" =>
          (\A s \in Sides : tpc[s] = "none") \/ (\A s \in Sides : st[s] = "open")

Bounded == hpc \in {"accept", "handshake", "dial", "outhandshake"} => retry < MaxRetry

IInv == TypeOK /\ Holds /\ Threaded /\ Bounded

-----------------------------------------------------------------------------

LEMMA SideFacts ==
    /\ "in" \in Sides /\ "out" \in Sides
    /\ \A s \in Sides : s = "in" \/ s = "out"
    /\ \A s \in Sides : Opp(s) \in Sides
BY DEF Sides, Opp

LEMMA NewPeerType == NewPeer \in Peer
<1>1. <<>> \in Seq(Nat)
  OBVIOUS
<1> QED BY <1>1 DEF NewPeer, Peer

(* The fields that the peers change.                                        *)
LEMMA PeerFields ==
  ASSUME NEW p \in Peer
  PROVE  /\ [p EXCEPT !.greeted = TRUE] \in Peer
         /\ [p EXCEPT !.ended = TRUE] \in Peer
         /\ \A b \in BOOLEAN : [p EXCEPT !.ended = b] \in Peer
         /\ \A q \in Seq(Nat) : [p EXCEPT !.sent = q] \in Peer
         /\ \A n \in Nat : [p EXCEPT !.unread = n] \in Peer
         /\ \A q \in Seq(Nat), n \in Nat : [p EXCEPT !.got = q, !.unread = n] \in Peer
BY DEF Peer

LEMMA SocketFields ==
  ASSUME NEW s \in Socket
  PROVE  /\ [s EXCEPT !.hello = TRUE] \in Socket
         /\ [s EXCEPT !.kend = TRUE] \in Socket
         /\ [s EXCEPT !.fin = TRUE] \in Socket
         /\ [s EXCEPT !.rst = TRUE] \in Socket
         /\ \A q \in Seq(Nat) : [s EXCEPT !.kbuf = q] \in Socket
BY DEF Socket

LEMMA InitIInv == Init => IInv
<1> SUFFICES ASSUME Init PROVE IInv
  OBVIOUS
<1>1. sock \in [Sides -> Socket]
  <2>1. PICK ip \in InProtos, op \in OutProtos :
           sock = [s \in Sides |-> NewSocket(IF s = "in" THEN ip ELSE op)]
    BY DEF Init
  <2>2. ip \in Protos /\ op \in Protos
    BY ProtoAssumption
  <2> QED BY <2>1, <2>2, NewSocketType
<1>2. peer \in [Sides -> Peer]
  BY NewPeerType DEF Init
<1>3. chunk \in [Sides -> Seq(Nat)]
  <2>1. <<>> \in Seq(Nat)
    OBVIOUS
  <2> QED BY <2>1 DEF Init
<1>4. TypeOK
  BY <1>1, <1>2, <1>3, RetryAssumption DEF Init, TypeOK, HandlerLoc, ThreadLoc
<1>5. Holds /\ Threaded /\ Bounded
  BY SideFacts, RetryAssumption DEF Init, Holds, Threaded, Bounded
<1> QED BY <1>4, <1>5 DEF IInv

(* What changes neither the handler, the threads nor whose sockets there    *)
(* are keeps the invariant if it keeps the types.                           *)
LEMMA TypesSuffice ==
  ASSUME IInv, UNCHANGED <<hpc, retry, tpc, st>>,
         chunk' \in [Sides -> Seq(Nat)], sock' \in [Sides -> Socket],
         peer' \in [Sides -> Peer]
  PROVE  IInv'
BY DEF IInv, TypeOK, Holds, Threaded, Bounded

-----------------------------------------------------------------------------
(* The peers.                                                               *)

LEMMA ArriveKeeps ==
  ASSUME IInv, NEW s \in Sides, NEW x \in Socket, NEW p \in Peer, Arrive(s, x, p)
  PROVE  IInv'
<1>1. sock' \in [Sides -> Socket] /\ peer' \in [Sides -> Peer] /\ chunk' \in [Sides -> Seq(Nat)]
  BY DEF IInv, TypeOK, Arrive
<1> QED BY <1>1, TypesSuffice DEF Arrive

LEMMA PeerKeeps ==
  ASSUME IInv, NEW s \in Sides, PeerStep(s)
  PROVE  IInv'
<1>1. sock[s] \in Socket /\ peer[s] \in Peer
  BY DEF IInv, TypeOK
<1>2. CASE PeerGreet(s)
  BY <1>1, <1>2, SocketFields, PeerFields, ArriveKeeps DEF PeerGreet
<1>3. CASE PeerSend(s)
  <2>1. sock[s].kbuf \in Seq(Nat) /\ peer[s].sent \in Seq(Nat)
    BY <1>1 DEF Socket, Peer
  <2> DEFINE d == Len(peer[s].sent) + 1
             k == Append(sock[s].kbuf, d)
             q == Append(peer[s].sent, d)
  <2>2. d \in Nat
    BY <2>1, LenProperties
  <2> HIDE DEF d
  <2>3. k \in Seq(Nat) /\ q \in Seq(Nat)
    BY <2>1, <2>2, AppendProperties
  <2>4. Arrive(s, [sock[s] EXCEPT !.kbuf = k], [peer[s] EXCEPT !.sent = q])
    BY <1>3 DEF PeerSend, d
  <2> HIDE DEF k, q
  <2> QED BY <1>1, <2>3, <2>4, SocketFields, PeerFields, ArriveKeeps
<1>4. CASE PeerEnd(s)
  BY <1>1, <1>4, SocketFields, PeerFields, ArriveKeeps DEF PeerEnd
<1>5. CASE PeerFin(s)
  <2> DEFINE b == peer[s].ended \/ sock[s].proto # "vmess"
  <2>1. b \in BOOLEAN
    OBVIOUS
  <2>2. Arrive(s, [sock[s] EXCEPT !.fin = TRUE], [peer[s] EXCEPT !.ended = b])
    BY <1>5 DEF PeerFin
  <2> HIDE DEF b
  <2> QED BY <1>1, <2>1, <2>2, SocketFields, PeerFields, ArriveKeeps
<1>6. CASE PeerReset(s)
  BY <1>1, <1>6, SocketFields, PeerFields, ArriveKeeps DEF PeerReset
<1>7. CASE PeerRecv(s)
  <2> DEFINE n == peer[s].unread - 1
  <2>1. n \in Nat
    BY <1>1, <1>7 DEF PeerRecv, Peer
  <2>2. peer' = [peer EXCEPT ![s] = [peer[s] EXCEPT !.unread = n]]
    BY <1>7 DEF PeerRecv
  <2> HIDE DEF n
  <2>3. [peer[s] EXCEPT !.unread = n] \in Peer
    BY <1>1, <2>1, PeerFields
  <2>4. peer' \in [Sides -> Peer]
    BY <2>2, <2>3 DEF IInv, TypeOK
  <2> QED BY <1>7, <2>4, TypesSuffice DEF PeerRecv, IInv, TypeOK
<1> QED BY <1>2, <1>3, <1>4, <1>5, <1>6, <1>7 DEF PeerStep

LEMMA ConnectKeeps == ASSUME IInv, PeerConnect PROVE IInv'
<1>1. hpc = "accept"
  BY SideFacts DEF IInv, TypeOK, HandlerLoc, Holds, PeerConnect
<1> QED BY <1>1, SideFacts DEF IInv, TypeOK, Holds, Threaded, Bounded, PeerConnect

-----------------------------------------------------------------------------
(* The handler.                                                             *)

(* The sockets stay sockets when one is closed or reads its header.         *)
LEMMA ClosedType ==
  ASSUME IInv, NEW S, NEW C, CloseAndFree(S, C)
  PROVE  /\ sock' \in [Sides -> Socket]
         /\ st' \in [Sides -> {"none", "queued", "open", "freed"}]
         /\ \A s \in Sides : st'[s] = IF s \in S THEN "freed" ELSE st[s]
BY CloseWriteType DEF CloseAndFree, IInv, TypeOK

LEMMA HeaderType ==
  ASSUME IInv, NEW s \in Sides, ReadHeader(s)
  PROVE  sock' \in [Sides -> Socket]
<1>1. PICK over \in Overread(sock[s]) :
          sock' = [sock EXCEPT ![s] = ReadHello(sock[s], over)]
  BY DEF ReadHeader
<1>2. ReadHello(sock[s], over) \in Socket
  BY ReadHelloType DEF IInv, TypeOK
<1> QED BY <1>1, <1>2 DEF IInv, TypeOK

LEMMA RetryKeeps ==
  ASSUME IInv, hpc \in {"dial", "outhandshake"}, Retry
  PROVE  IInv'
<1>1. retry \in 0 .. MaxRetry /\ retry < MaxRetry /\ retry' = retry + 1
  BY DEF IInv, TypeOK, Bounded, Retry
<1>2. hpc' \in {"dial", "failed"} /\ (hpc' = "dial" => retry' < MaxRetry)
  BY <1>1, RetryAssumption DEF Retry, Goto, RetriesUp
<1>3. NewSocket(sock["out"].proto) \in Socket
  <2>1. sock["out"].proto \in Protos
    BY SideFacts DEF IInv, TypeOK, Socket
  <2> QED BY <2>1, NewSocketType
<1>4. TypeOK'
  <2>1. retry' \in 0 .. MaxRetry /\ hpc' \in HandlerLoc
    BY <1>1, <1>2, RetryAssumption DEF HandlerLoc
  <2>2. sock' \in [Sides -> Socket] /\ peer' \in [Sides -> Peer]
    BY <1>3, NewPeerType DEF IInv, TypeOK, Retry
  <2>3. st' \in [Sides -> {"none", "queued", "open", "freed"}]
    BY DEF IInv, TypeOK, Retry
  <2>4. tpc' \in [Sides -> ThreadLoc] /\ chunk' \in [Sides -> Seq(Nat)]
    BY DEF IInv, TypeOK, Retry
  <2> QED BY <2>1, <2>2, <2>3, <2>4 DEF TypeOK
<1>5. st'["in"] = "open" /\ st'["out"] = "none"
  BY SideFacts DEF IInv, TypeOK, Holds, Retry
<1>6. Holds'
  BY <1>2, <1>5 DEF Holds
<1>7. Threaded' /\ Bounded'
  BY <1>2 DEF IInv, Threaded, Bounded, Retry, Alone
<1> QED BY <1>4, <1>6, <1>7 DEF IInv

LEMMA HandlerKeeps == ASSUME IInv, Handler PROVE IInv'
<1> USE SideFacts DEF Goto
<1>1. TypeOK /\ Holds /\ Threaded /\ Bounded
  BY DEF IInv
<1>2. CASE Accept
  <2>1. TypeOK'
    BY <1>1, <1>2 DEF Accept, TypeOK, HandlerLoc
  <2>2. Holds' /\ Threaded' /\ Bounded'
    BY <1>1, <1>2 DEF Accept, TypeOK, Holds, Threaded, Bounded, Alone
  <2> QED BY <2>1, <2>2 DEF IInv
<1>3. CASE HandshakeOk
  <2>1. sock' \in [Sides -> Socket]
    BY <1>3, HeaderType DEF HandshakeOk
  <2>2. TypeOK'
    BY <1>1, <1>3, <2>1 DEF HandshakeOk, TypeOK, HandlerLoc
  <2>3. Holds' /\ Threaded' /\ Bounded'
    BY <1>1, <1>3 DEF HandshakeOk, Holds, Threaded, Bounded, Alone
  <2> QED BY <2>2, <2>3 DEF IInv
<1>4. CASE HandshakeFail \/ GiveUp
  <2>1. /\ CloseAndFree({"in"}, {"in"}) /\ hpc \in {"handshake", "failed"}
        /\ hpc' = "exit" /\ UNCHANGED <<retry, tpc, chunk, peer>>
    BY <1>4 DEF HandshakeFail, GiveUp
  <2>2. /\ sock' \in [Sides -> Socket]
        /\ st' \in [Sides -> {"none", "queued", "open", "freed"}]
        /\ st'["in"] = "freed" /\ st'["out"] = st["out"]
    BY <2>1, ClosedType
  <2>3. TypeOK'
    BY <1>1, <2>1, <2>2 DEF TypeOK, HandlerLoc
  <2>4. Holds' /\ Threaded' /\ Bounded'
    BY <1>1, <2>1, <2>2 DEF Holds, Threaded, Bounded, Alone
  <2> QED BY <2>3, <2>4 DEF IInv
<1>5. CASE DialOk
  <2>1. TypeOK'
    BY <1>1, <1>5 DEF DialOk, TypeOK, HandlerLoc
  <2>2. Holds' /\ Threaded' /\ Bounded'
    BY <1>1, <1>5 DEF DialOk, TypeOK, Holds, Threaded, Bounded, Alone
  <2> QED BY <2>1, <2>2 DEF IInv
<1>6. CASE DialFail \/ OutHandshakeFail
  BY <1>6, RetryKeeps DEF DialFail, OutHandshakeFail
<1>7. CASE Connected
  <2>1. sock' \in [Sides -> Socket]
    BY <1>7, HeaderType DEF Connected
  <2>2. TypeOK'
    BY <1>1, <1>7, <2>1 DEF Connected, TypeOK, HandlerLoc, ThreadLoc
  <2>3. Holds' /\ Threaded' /\ Bounded'
    BY <1>1, <1>7 DEF Connected, Holds, Threaded, Bounded, Alone
  <2> QED BY <2>2, <2>3 DEF IInv
<1>8. CASE NullTarget
  <2>1. hpc \in {"dial", "failed", "outhandshake"} /\ hpc' = "crashed"
    BY <1>8 DEF NullTarget
  <2>2. TypeOK'
    BY <1>1, <1>8 DEF NullTarget, TypeOK, HandlerLoc
  <2>3. Holds' /\ Threaded' /\ Bounded'
    BY <1>1, <1>8, <2>1 DEF NullTarget, Holds, Threaded, Bounded, Alone
  <2> QED BY <2>2, <2>3 DEF IInv
<1>9. CASE Join
  <2>1. /\ CloseAndFree(Sides, {}) /\ hpc' = "exit"
        /\ \A s \in Sides : tpc[s] = "exit"
        /\ UNCHANGED <<retry, tpc, chunk, peer>>
    BY <1>9 DEF Join, Joinable
  <2>2. /\ sock' \in [Sides -> Socket]
        /\ st' \in [Sides -> {"none", "queued", "open", "freed"}]
        /\ \A s \in Sides : st'[s] = "freed"
    BY <2>1, ClosedType
  <2>3. TypeOK'
    BY <1>1, <2>1, <2>2 DEF TypeOK, HandlerLoc
  <2>4. Holds' /\ Threaded' /\ Bounded'
    BY <1>1, <2>1, <2>2 DEF Holds, Threaded, Bounded, Alone
  <2> QED BY <2>3, <2>4 DEF IInv
<1> QED BY <1>2, <1>3, <1>4, <1>5, <1>6, <1>7, <1>8, <1>9 DEF Handler

-----------------------------------------------------------------------------
(* The copying threads.                                                     *)

(* A thread's step that stays in the connection keeps the invariant if it   *)
(* keeps the types.                                                         *)
LEMMA CopyTypesSuffice ==
  ASSUME IInv, NEW s \in Sides, hpc = "join", UNCHANGED <<hpc, retry, st>>,
         NEW l \in ThreadLoc, tpc' = [tpc EXCEPT ![s] = l],
         chunk' \in [Sides -> Seq(Nat)], sock' \in [Sides -> Socket],
         peer' \in [Sides -> Peer]
  PROVE  IInv'
<1>1. TypeOK'
  BY DEF IInv, TypeOK
<1>2. Holds' /\ Threaded' /\ Bounded'
  BY DEF IInv, Holds, Threaded, Bounded, Alone
<1> QED BY <1>1, <1>2 DEF IInv

LEMMA CopyKeeps ==
  ASSUME IInv, NEW s \in Sides, Copy(s)
  PROVE  IInv'
<1>1. /\ sock \in [Sides -> Socket] /\ peer \in [Sides -> Peer]
      /\ chunk \in [Sides -> Seq(Nat)] /\ Opp(s) \in Sides /\ <<>> \in Seq(Nat)
  BY SideFacts DEF IInv, TypeOK
<1>2. CASE Read(s)
  <2> DEFINE r == BlockingRead(sock[s])
  <2>1. r \in ResultType
    BY <1>1, BlockingReadType
  <2>2. /\ hpc = "join" /\ UNCHANGED <<hpc, retry, st, peer>>
        /\ sock' = [sock EXCEPT ![s] = r.sock] /\ chunk' = [chunk EXCEPT ![s] = r.data]
        /\ tpc' = [tpc EXCEPT ![s] = AfterRead(r.res)]
    BY <1>2 DEF Read
  <2> HIDE DEF r
  <2>3. r.sock \in Socket /\ r.data \in Seq(Nat)
    BY <2>1 DEF ResultType
  <2>4. AfterRead(r.res) \in ThreadLoc
    BY DEF AfterRead, ThreadLoc
  <2>5. /\ sock' \in [Sides -> Socket] /\ chunk' \in [Sides -> Seq(Nat)]
        /\ peer' \in [Sides -> Peer]
    BY <1>1, <2>2, <2>3
  <2> QED BY <2>2, <2>4, <2>5, CopyTypesSuffice
<1>3. CASE Write(s)
  <2> DEFINE o == Opp(s)
             q == peer[o].got \o chunk[s]
             n == peer[o].unread + 1
  <2>1. peer[o].got \in Seq(Nat) /\ chunk[s] \in Seq(Nat) /\ peer[o].unread \in Nat
    BY <1>1 DEF Peer
  <2>2. q \in Seq(Nat) /\ n \in Nat
    BY <2>1, ConcatProperties
  <2>3. /\ hpc = "join" /\ UNCHANGED <<hpc, retry, st, sock>>
        /\ peer' = [peer EXCEPT ![o] = [peer[o] EXCEPT !.got = q, !.unread = n]]
        /\ chunk' = [chunk EXCEPT ![s] = <<>>] /\ tpc' = [tpc EXCEPT ![s] = "read"]
    BY <1>3 DEF Write
  <2> HIDE DEF q, n
  <2>4. [peer[o] EXCEPT !.got = q, !.unread = n] \in Peer
    BY <1>1, <2>2, PeerFields
  <2>5. peer' \in [Sides -> Peer]
    BY <1>1, <2>3, <2>4
  <2>6. chunk' \in [Sides -> Seq(Nat)] /\ sock' \in [Sides -> Socket]
    BY <1>1, <2>3
  <2>7. "read" \in ThreadLoc
    BY DEF ThreadLoc
  <2> QED BY <2>3, <2>5, <2>6, <2>7, CopyTypesSuffice
<1>4. CASE WriteFail(s)
  <2>1. /\ hpc = "join" /\ UNCHANGED <<hpc, retry, st, sock, peer>>
        /\ chunk' = [chunk EXCEPT ![s] = <<>>] /\ tpc' = [tpc EXCEPT ![s] = "close"]
    BY <1>4 DEF WriteFail
  <2>2. /\ chunk' \in [Sides -> Seq(Nat)] /\ sock' \in [Sides -> Socket]
        /\ peer' \in [Sides -> Peer] /\ "close" \in ThreadLoc
    BY <1>1, <2>1 DEF ThreadLoc
  <2> QED BY <2>1, <2>2, CopyTypesSuffice
<1>5. CASE WriteCrash(s)
  <2>1. hpc = "join" /\ hpc' = "crashed" /\ UNCHANGED <<retry, tpc, chunk, st, sock, peer>>
    BY <1>5 DEF WriteCrash, Goto
  <2>2. \A x \in Sides : st[x] = "open"
    BY <2>1, SideFacts DEF IInv, Holds
  <2> QED BY <2>1, <2>2, SideFacts DEF IInv, TypeOK, Holds, Threaded, Bounded, HandlerLoc, Alone
<1>6. CASE Close(s)
  <2>1. /\ hpc = "join" /\ UNCHANGED <<hpc, retry, chunk, st, peer>>
        /\ sock' = [x \in Sides |->
                       IF x \in CloseTargets(s) THEN CloseWrite(sock[x]) ELSE sock[x]]
        /\ tpc' = [tpc EXCEPT ![s] = "exit"]
    BY <1>6 DEF Close
  <2>2. sock' \in [Sides -> Socket]
    BY <1>1, <2>1, CloseWriteType
  <2>3. /\ chunk' \in [Sides -> Seq(Nat)] /\ peer' \in [Sides -> Peer]
        /\ "exit" \in ThreadLoc
    BY <1>1, <2>1 DEF ThreadLoc
  <2> QED BY <2>1, <2>2, <2>3, CopyTypesSuffice
<1> QED BY <1>2, <1>3, <1>4, <1>5, <1>6 DEF Copy

LEMMA NextKeeps == IInv /\ [Next]_vars => IInv'
<1> SUFFICES ASSUME IInv, [Next]_vars PROVE IInv'
  OBVIOUS
<1>1. CASE Next
  BY <1>1, ConnectKeeps, PeerKeeps, HandlerKeeps, CopyKeeps, SideFacts DEF Next, Reader, Writer
<1>2. CASE UNCHANGED vars
  BY <1>2, TypesSuffice DEF vars, IInv, TypeOK
<1> QED BY <1>1, <1>2

-----------------------------------------------------------------------------

(* The invariant of a connection: types, which sockets the handler holds at *)
(* each of its steps, and where the threads can be meanwhile.               *)
THEOREM Invariance == Spec => []IInv
<1> QED BY InitIInv, NextKeeps, PTL DEF Spec

(* Every variable keeps its type, the count of failed dials its limit.      *)
THEOREM Types == Spec => []TypeOK
<1>1. IInv => TypeOK
  BY DEF IInv
<1> QED BY <1>1, Invariance, PTL

(* No thread reads, writes or closes a socket that the handler has freed.   *)
THEOREM FreedUnused == Spec => []NoUseAfterFree
<1>1. IInv => NoUseAfterFree
  BY SideFacts DEF IInv, TypeOK, HandlerLoc, Holds, Threaded, Alone, NoUseAfterFree
<1> QED BY <1>1, Invariance, PTL

(* Whatever failed, the handler dials with no socket but the client's, no   *)
(* attempt leaves one to the next or to its end, and a handler that is gone *)
(* has left none open.                                                      *)
THEOREM NoSocketLeaks == Spec => []NoLeak
<1>1. IInv => NoLeak
  BY SideFacts DEF IInv, Holds, NoLeak
<1> QED BY <1>1, Invariance, PTL

-----------------------------------------------------------------------------
(* The streams.                                                             *)

(* Before the header is read nothing else is; a SOCKS client sends nothing  *)
(* behind it.                                                               *)
Early(s) ==
    /\ sock[s].proto = "socks" => s = "in"
    /\ sock[s].hello => /\ peer[s].greeted /\ Untouched(sock[s])
                        /\ sock[s].proto = "socks" => sock[s].kbuf = <<>>
    /\ sock[s].proto # "native" /\ ~peer[s].greeted =>
          Untouched(sock[s]) /\ sock[s].kbuf = <<>> /\ ~sock[s].kend
    /\ tpc[s] # "none" \/ (s = "in" /\ hpc \in {"dial", "outhandshake", "failed"}) =>
          ~sock[s].hello /\ (sock[s].proto # "native" => peer[s].greeted)

(* Where every block is that was sent, and what the places in a thread mean.*)
Ledger(s) ==
    /\ tpc[s] = "none" => chunk[s] = <<>> /\ peer[Opp(s)].got = <<>>
    /\ tpc[s] = "read" => chunk[s] = <<>>
    /\ tpc[s] \in {"none", "read", "write"} =>
          peer[s].sent = (peer[Opp(s)].got \o chunk[s]) \o Inside(sock[s])
    /\ tpc[s] = "write" /\ chunk[s] = <<>> => ~Proper(s)
    /\ tpc[s] \in {"close", "exit"} /\ Proper(s) /\ Proper(Opp(s)) =>
          peer[s].ended /\ peer[Opp(s)].got = peer[s].sent
    /\ sock[Opp(s)].wshut /\ hpc # "exit" => tpc[s] = "exit"

Streams ==
    \A s \in Sides : Shaped(sock[s], peer[s].ended) /\ Early(s) /\ Ledger(s)

SInv == IInv /\ Streams

-----------------------------------------------------------------------------
(* The peers.                                                               *)

LEMMA OppFacts ==
    /\ \A s \in Sides : Opp(s) \in Sides /\ Opp(s) # s /\ Opp(Opp(s)) = s
    /\ \A s, x \in Sides : x = s \/ x = Opp(s)
BY DEF Sides, Opp

LEMMA FieldTypes ==
  ASSUME TypeOK, NEW s \in Sides
  PROVE  /\ sock[s] \in Socket /\ peer[s] \in Peer /\ chunk[s] \in Seq(Nat)
         /\ sock[s].kbuf \in Seq(Nat) /\ sock[s].raw \in Seq(Nat)
         /\ sock[s].proto \in Protos
         /\ sock[s].hello \in BOOLEAN /\ sock[s].kend \in BOOLEAN
         /\ sock[s].rend \in BOOLEAN /\ sock[s].eof \in BOOLEAN
         /\ sock[s].fin \in BOOLEAN /\ sock[s].rst \in BOOLEAN
         /\ peer[s].sent \in Seq(Nat) /\ peer[s].got \in Seq(Nat)
         /\ peer[s].ended \in BOOLEAN /\ peer[s].greeted \in BOOLEAN
<1>1. sock[s] \in Socket /\ peer[s] \in Peer /\ chunk[s] \in Seq(Nat)
  BY DEF TypeOK
<1> QED BY <1>1 DEF Socket, Peer

(* What happens on one side is nothing to the other, unless the other's     *)
(* data, mode or failure is concerned.                                      *)
LEMMA OtherSide ==
  ASSUME Streams, NEW s \in Sides, UNCHANGED <<hpc, tpc, chunk>>,
         sock'[Opp(s)] = sock[Opp(s)], peer'[Opp(s)] = peer[Opp(s)],
         peer'[s].got = peer[s].got, sock'[s].wshut = sock[s].wshut,
         Proper(s)' => Proper(s)
  PROVE  (Shaped(sock[Opp(s)], peer[Opp(s)].ended) /\ Early(Opp(s)) /\ Ledger(Opp(s)))'
<1> DEFINE o == Opp(s)
<1>1. o \in Sides /\ Opp(o) = s /\ Shaped(sock[o], peer[o].ended) /\ Early(o) /\ Ledger(o)
  BY OppFacts DEF Streams
<1>2. Shaped(sock[o], peer[o].ended)' /\ Early(o)'
  BY <1>1 DEF Shaped, Early, Untouched
<1>3. Proper(o)' <=> Proper(o)
  BY DEF Proper
<1>4. Ledger(o)'
  BY <1>1, <1>3 DEF Ledger, Inside
<1> QED BY <1>2, <1>4

LEMMA Arrived ==
  ASSUME TypeOK, NEW s \in Sides, NEW x, NEW p, Arrive(s, x, p)
  PROVE  /\ sock'[s] = x /\ peer'[s] = p
         /\ sock'[Opp(s)] = sock[Opp(s)] /\ peer'[Opp(s)] = peer[Opp(s)]
         /\ UNCHANGED <<hpc, tpc, chunk>>
BY OppFacts DEF TypeOK, Arrive

LEMMA PeerStreams ==
  ASSUME SInv, NEW s \in Sides, PeerStep(s)
  PROVE  Streams'
<1> DEFINE o == Opp(s)
<1>1. /\ TypeOK /\ Streams /\ o \in Sides /\ o # s /\ Opp(o) = s
      /\ Shaped(sock[s], peer[s].ended) /\ Early(s) /\ Ledger(s)
  BY OppFacts DEF SInv, IInv, Streams
<1>2. /\ sock[s] \in Socket /\ peer[s] \in Peer /\ chunk[s] \in Seq(Nat)
      /\ sock[s].kbuf \in Seq(Nat) /\ sock[s].raw \in Seq(Nat)
      /\ peer[s].sent \in Seq(Nat) /\ peer[o].got \in Seq(Nat)
  BY <1>1, FieldTypes
<1>3. SUFFICES /\ Shaped(sock[s], peer[s].ended)' /\ Early(s)' /\ Ledger(s)'
               /\ UNCHANGED <<hpc, tpc, chunk>>
               /\ sock'[o] = sock[o] /\ peer'[o] = peer[o]
               /\ peer'[s].got = peer[s].got /\ sock'[s].wshut = sock[s].wshut
               /\ Proper(s)' => Proper(s)
  BY <1>1, OtherSide, OppFacts DEF Streams
<1>4. CASE PeerGreet(s)
  <2>1. /\ sock'[s] = [sock[s] EXCEPT !.hello = TRUE]
        /\ peer'[s] = [peer[s] EXCEPT !.greeted = TRUE]
        /\ sock'[o] = sock[o] /\ peer'[o] = peer[o] /\ UNCHANGED <<hpc, tpc, chunk>>
    BY <1>1, <1>4, Arrived DEF PeerGreet
  <2>2. /\ sock'[s].hello /\ peer'[s].greeted
        /\ SameStream(sock[s], sock'[s])
        /\ sock'[s].proto = sock[s].proto /\ sock'[s].wshut = sock[s].wshut
        /\ sock'[s].fin = sock[s].fin /\ sock'[s].rst = sock[s].rst
        /\ peer'[s].ended = peer[s].ended /\ peer'[s].sent = peer[s].sent
        /\ peer'[s].got = peer[s].got
    BY <1>2, <2>1 DEF Socket, Peer, SameStream
  <2>3. sock[s].proto # "native" /\ ~peer[s].greeted
    BY <1>4 DEF PeerGreet
  <2>4. /\ Shaped(sock[s], peer[s].ended)'
        /\ Proper(s)' <=> Proper(s)
        /\ Proper(o)' <=> Proper(o)
    BY <1>1, <2>1, <2>2 DEF Shaped, SameStream, Proper
  <2>5. Early(s)'
    BY <1>1, <2>1, <2>2, <2>3 DEF Early, Untouched, SameStream
  <2>6. Ledger(s)'
    BY <1>1, <2>1, <2>2, <2>4 DEF Ledger, Inside, SameStream
  <2> QED BY <2>1, <2>2, <2>4, <2>5, <2>6
<1>5. CASE PeerSend(s)
  <2> DEFINE d == Len(peer[s].sent) + 1
  <2>1. /\ sock'[s] = [sock[s] EXCEPT !.kbuf = Append(sock[s].kbuf, d)]
        /\ peer'[s] = [peer[s] EXCEPT !.sent = Append(peer[s].sent, d)]
        /\ sock'[o] = sock[o] /\ peer'[o] = peer[o] /\ UNCHANGED <<hpc, tpc, chunk>>
    BY <1>1, <1>5, Arrived DEF PeerSend
  <2>2. d \in Nat
    BY <1>2, LenProperties
  <2> HIDE DEF d
  <2>3. /\ SameOutside(sock[s], sock'[s])
        /\ sock'[s].kbuf = Append(sock[s].kbuf, d) /\ sock'[s].raw = sock[s].raw
        /\ sock'[s].kend = sock[s].kend /\ sock'[s].rend = sock[s].rend
        /\ sock'[s].eof = sock[s].eof
        /\ peer'[s].ended = peer[s].ended /\ peer'[s].greeted = peer[s].greeted
        /\ peer'[s].sent = Append(peer[s].sent, d) /\ peer'[s].got = peer[s].got
    BY <1>2, <2>1 DEF Socket, Peer, SameOutside
  <2>4. /\ ~sock[s].fin /\ ~sock[s].rst /\ ~peer[s].ended
        /\ sock[s].proto = "native" \/ peer[s].greeted
        /\ sock[s].proto = "socks" /\ s = "in" => ~sock[s].hello
    BY <1>5 DEF PeerSend, MaySendData, Sending
  <2>5. /\ Shaped(sock[s], peer[s].ended)'
        /\ Proper(s) /\ Proper(s)'
    BY <1>1, <2>3, <2>4 DEF Shaped, SameOutside, Proper
  <2>6. Early(s)'
    BY <1>1, <2>1, <2>3, <2>4 DEF Early, Untouched, SameOutside
  <2>7. Inside(sock'[s]) = Append(Inside(sock[s]), d)
    <3>1. sock[s].raw \o Append(sock[s].kbuf, d) = Append(sock[s].raw \o sock[s].kbuf, d)
      BY <1>2, <2>2, ConcatAppend
    <3>2. Inside(sock'[s]) = sock'[s].raw \o sock'[s].kbuf
      BY DEF Inside
    <3> QED BY <2>3, <3>1, <3>2 DEF Inside
  <2>8. \A q \in Seq(Nat) :
           peer[s].sent = q \o Inside(sock[s]) => peer'[s].sent = q \o Inside(sock'[s])
    <3>1. Inside(sock[s]) \in Seq(Nat)
      BY <1>2, InsideType
    <3> QED BY <2>2, <2>3, <2>7, <3>1, ConcatAppend
  <2>9. Ledger(s)'
    <3>1. peer[o].got \o chunk[s] \in Seq(Nat)
      BY <1>2, ConcatProperties
    <3>2. Proper(o)' <=> Proper(o)
      BY <2>1 DEF Proper
    <3>3. peer[s].sent = (peer[o].got \o chunk[s]) \o Inside(sock[s])
             => peer'[s].sent = (peer'[o].got \o chunk'[s]) \o Inside(sock'[s])
      BY <2>1, <2>8, <3>1
    <3> QED BY <1>1, <2>1, <2>3, <2>4, <2>5, <3>2, <3>3 DEF Ledger, SameOutside
  <2> QED BY <2>1, <2>3, <2>5, <2>6, <2>9 DEF SameOutside
<1>6. CASE PeerEnd(s)
  <2>1. /\ sock'[s] = [sock[s] EXCEPT !.kend = TRUE]
        /\ peer'[s] = [peer[s] EXCEPT !.ended = TRUE]
        /\ sock'[o] = sock[o] /\ peer'[o] = peer[o] /\ UNCHANGED <<hpc, tpc, chunk>>
    BY <1>1, <1>6, Arrived DEF PeerEnd
  <2>2. /\ SameOutside(sock[s], sock'[s])
        /\ sock'[s].kbuf = sock[s].kbuf /\ sock'[s].raw = sock[s].raw
        /\ sock'[s].kend = TRUE /\ sock'[s].rend = sock[s].rend
        /\ sock'[s].eof = sock[s].eof
        /\ peer'[s].ended = TRUE /\ peer'[s].greeted = peer[s].greeted
        /\ peer'[s].sent = peer[s].sent /\ peer'[s].got = peer[s].got
    BY <1>2, <2>1 DEF Socket, Peer, SameOutside
  <2>3. /\ ~sock[s].fin /\ ~sock[s].rst /\ ~peer[s].ended /\ sock[s].proto = "vmess"
        /\ sock[s].proto = "native" \/ peer[s].greeted
    BY <1>6 DEF PeerEnd, MaySendData, Sending
  <2>4. Shaped(sock[s], peer[s].ended)' /\ Proper(s) /\ Proper(s)'
    BY <1>1, <2>2, <2>3 DEF Shaped, SameOutside, Proper
  <2>5. Early(s)'
    BY <1>1, <2>1, <2>2, <2>3 DEF Early, Untouched, SameOutside
  <2>6. Proper(o)' <=> Proper(o)
    BY <2>1 DEF Proper
  <2>7. Ledger(s)'
    BY <1>1, <2>1, <2>2, <2>4, <2>6 DEF Ledger, Inside, SameOutside
  <2> QED BY <2>1, <2>2, <2>4, <2>5, <2>7 DEF SameOutside
<1>7. CASE PeerFin(s)
  <2> DEFINE e == peer[s].ended \/ sock[s].proto # "vmess"
  <2>1. /\ sock'[s] = [sock[s] EXCEPT !.fin = TRUE]
        /\ peer'[s] = [peer[s] EXCEPT !.ended = e]
        /\ sock'[o] = sock[o] /\ peer'[o] = peer[o] /\ UNCHANGED <<hpc, tpc, chunk>>
    BY <1>1, <1>7, Arrived DEF PeerFin
  <2>2. /\ SameStream(sock[s], sock'[s]) /\ sock'[s].fin
        /\ sock'[s].proto = sock[s].proto /\ sock'[s].wshut = sock[s].wshut
        /\ sock'[s].hello = sock[s].hello /\ sock'[s].rst = sock[s].rst
        /\ peer'[s].ended = e /\ peer'[s].greeted = peer[s].greeted
        /\ peer'[s].sent = peer[s].sent /\ peer'[s].got = peer[s].got
    BY <1>2, <2>1 DEF Socket, Peer, SameStream
  <2>3. ~sock[s].fin /\ ~sock[s].rst
    BY <1>7 DEF PeerFin, Sending
  <2>4. Shaped(sock[s], peer[s].ended)' /\ Proper(s)
    BY <1>1, <2>2, <2>3 DEF Shaped, SameStream, Proper
  <2>5. Early(s)'
    BY <1>1, <2>1, <2>2, <2>3 DEF Early, Untouched, SameStream
  <2>6. Proper(o)' <=> Proper(o)
    BY <2>1 DEF Proper
  <2>7. Ledger(s)'
    BY <1>1, <2>1, <2>2, <2>4, <2>6 DEF Ledger, Inside, SameStream
  <2> QED BY <2>1, <2>2, <2>4, <2>5, <2>7
<1>8. CASE PeerReset(s)
  <2>1. /\ sock'[s] = [sock[s] EXCEPT !.rst = TRUE] /\ peer'[s] = peer[s]
        /\ sock'[o] = sock[o] /\ peer'[o] = peer[o] /\ UNCHANGED <<hpc, tpc, chunk>>
    BY <1>1, <1>8, Arrived DEF PeerReset
  <2>2. /\ SameStream(sock[s], sock'[s]) /\ sock'[s].rst
        /\ sock'[s].proto = sock[s].proto /\ sock'[s].wshut = sock[s].wshut
        /\ sock'[s].hello = sock[s].hello
    BY <1>2, <2>1 DEF Socket, SameStream
  <2>3. Shaped(sock[s], peer[s].ended)' /\ ~Proper(s)'
    BY <1>1, <2>1, <2>2 DEF Shaped, SameStream, Proper
  <2>4. Early(s)'
    BY <1>1, <2>1, <2>2 DEF Early, Untouched, SameStream
  <2>5. Ledger(s)'
    BY <1>1, <2>1, <2>2, <2>3 DEF Ledger, Inside, SameStream
  <2> QED BY <2>1, <2>2, <2>3, <2>4, <2>5
<1>9. CASE PeerRecv(s)
  <2>1. /\ peer'[s] = [peer[s] EXCEPT !.unread = peer[s].unread - 1] /\ peer'[o] = peer[o]
        /\ UNCHANGED <<hpc, tpc, chunk, sock>>
    BY <1>1, <1>9 DEF PeerRecv, TypeOK
  <2>2. /\ peer'[s].ended = peer[s].ended /\ peer'[s].greeted = peer[s].greeted
        /\ peer'[s].sent = peer[s].sent /\ peer'[s].got = peer[s].got
    BY <1>2, <2>1 DEF Peer
  <2>3. /\ Shaped(sock[s], peer[s].ended)' /\ Early(s)'
        /\ Proper(s)' <=> Proper(s)
        /\ Proper(o)' <=> Proper(o)
    BY <1>1, <2>1, <2>2 DEF Early, Proper
  <2>4. Ledger(s)'
    BY <1>1, <2>1, <2>2, <2>3 DEF Ledger
  <2> QED BY <2>1, <2>2, <2>3, <2>4
<1> QED BY <1>3, <1>4, <1>5, <1>6, <1>7, <1>8, <1>9 DEF PeerStep

-----------------------------------------------------------------------------
(* The handler.                                                             *)

(* The same for the socket of a side whose header is there.                 *)
LEMMA HeaderStream ==
  ASSUME SInv, NEW s \in Sides, Greeted(s), ReadHeader(s)
  PROVE  /\ Shaped(sock'[s], peer[s].ended) /\ Inside(sock'[s]) = Inside(sock[s])
         /\ ~sock'[s].hello /\ (sock[s].proto # "native" => peer[s].greeted)
         /\ sock'[s].proto = sock[s].proto /\ sock'[s].fin = sock[s].fin
         /\ sock'[s].rst = sock[s].rst /\ sock'[s].wshut = sock[s].wshut
         /\ sock'[Opp(s)] = sock[Opp(s)]
<1>1. TypeOK /\ Shaped(sock[s], peer[s].ended) /\ Early(s)
  BY DEF SInv, IInv, Streams
<1>2. sock[s] \in Socket /\ peer[s].ended \in BOOLEAN
  BY <1>1, FieldTypes
<1>3. PICK over \in Overread(sock[s]) :
          sock' = [sock EXCEPT ![s] = ReadHello(sock[s], over)]
  BY DEF ReadHeader
<1>4. sock'[s] = ReadHello(sock[s], over) /\ sock'[Opp(s)] = sock[Opp(s)]
  BY <1>1, <1>3, OppFacts DEF TypeOK
<1>5. /\ sock[s].proto # "native" => Untouched(sock[s]) /\ peer[s].greeted
      /\ sock[s].proto = "socks" => sock[s].kbuf = <<>>
  BY <1>1 DEF Greeted, Early
<1> QED BY <1>1, <1>2, <1>4, <1>5, HelloSound

(* While there are no threads, the streams are inside the sockets.          *)
Idle(s) ==
    /\ tpc[s] \in {"none", "read"} /\ chunk[s] = <<>> /\ peer[s].got = <<>>
    /\ ~sock[s].wshut /\ peer[s].sent = (<<>> \o <<>>) \o Inside(sock[s])

LEMMA AloneIdle ==
  ASSUME SInv, hpc \in Alone, NEW s \in Sides
  PROVE  Idle(s) /\ tpc[s] = "none"
<1>1. tpc[s] = "none" /\ tpc[Opp(s)] = "none" /\ hpc # "exit"
  BY OppFacts DEF SInv, IInv, Threaded, Alone
<1>2. Ledger(s) /\ Ledger(Opp(s)) /\ Opp(Opp(s)) = s
  BY OppFacts DEF SInv, Streams
<1>3. chunk[s] = <<>> /\ peer[Opp(s)].got = <<>> /\ peer[s].got = <<>>
  BY <1>1, <1>2 DEF Ledger
<1>4. ~sock[s].wshut
  BY <1>1, <1>2 DEF Ledger
<1>5. peer[s].sent = (peer[Opp(s)].got \o chunk[s]) \o Inside(sock[s])
  BY <1>1, <1>2 DEF Ledger
<1> QED BY <1>1, <1>3, <1>4, <1>5 DEF Idle

LEMMA IdleLedger ==
  ASSUME \A s \in Sides : Idle(s)
  PROVE  \A s \in Sides : Ledger(s)
<1> SUFFICES ASSUME NEW s \in Sides PROVE Ledger(s)
  OBVIOUS
<1>1. Idle(s) /\ Idle(Opp(s))
  BY OppFacts
<1>2. /\ tpc[s] \in {"none", "read"} /\ chunk[s] = <<>> /\ peer[Opp(s)].got = <<>>
      /\ ~sock[Opp(s)].wshut /\ peer[s].sent = (<<>> \o <<>>) \o Inside(sock[s])
  BY <1>1 DEF Idle
<1> QED BY <1>2 DEF Ledger

LEMMA HandshakeStreams ==
  ASSUME SInv, HandshakeOk PROVE Streams'
<1> USE SideFacts
<1>1. /\ hpc = "handshake" /\ hpc' = "dial" /\ Greeted("in") /\ ReadHeader("in")
      /\ UNCHANGED <<tpc, chunk, peer>>
  BY DEF HandshakeOk, Goto
<1>2. Opp("in") = "out" /\ Opp("out") = "in"
  BY DEF Opp
<1>3. \A s \in Sides : /\ Shaped(sock[s], peer[s].ended) /\ Early(s) /\ Idle(s)
                       /\ tpc[s] = "none"
  BY <1>1, AloneIdle DEF SInv, Alone, Streams
<1>4. /\ Shaped(sock'["in"], peer["in"].ended) /\ Inside(sock'["in"]) = Inside(sock["in"])
      /\ ~sock'["in"].hello /\ (sock["in"].proto # "native" => peer["in"].greeted)
      /\ sock'["in"].proto = sock["in"].proto /\ sock'["in"].wshut = sock["in"].wshut
      /\ sock'["out"] = sock["out"]
  BY <1>1, <1>2, HeaderStream
<1>5. \A s \in Sides : Shaped(sock[s], peer[s].ended)'
  BY <1>1, <1>3, <1>4
<1>6. \A s \in Sides : Early(s)'
  BY <1>1, <1>3, <1>4 DEF Early, Untouched
<1>7. \A s \in Sides : Idle(s)'
  BY <1>1, <1>2, <1>3, <1>4 DEF Idle
<1>8. (\A s \in Sides : Idle(s))' => (\A s \in Sides : Ledger(s))'
  BY IdleLedger, PTL
<1> QED BY <1>5, <1>6, <1>7, <1>8 DEF Streams

LEMMA ConnectedStreams ==
  ASSUME SInv, Connected PROVE Streams'
<1> USE SideFacts
<1>1. /\ hpc = "outhandshake" /\ hpc' = "join" /\ Greeted("out") /\ ReadHeader("out")
      /\ tpc' = [s \in Sides |-> "read"] /\ UNCHANGED <<chunk, peer>>
  BY DEF Connected, Goto
<1>2. Opp("in") = "out" /\ Opp("out") = "in"
  BY DEF Opp
<1>3. \A s \in Sides : /\ Shaped(sock[s], peer[s].ended) /\ Early(s) /\ Idle(s)
                       /\ tpc[s] = "none" /\ tpc'[s] = "read"
  BY <1>1, AloneIdle DEF SInv, Alone, Streams
<1>4. /\ Shaped(sock'["out"], peer["out"].ended)
      /\ Inside(sock'["out"]) = Inside(sock["out"])
      /\ ~sock'["out"].hello /\ (sock["out"].proto # "native" => peer["out"].greeted)
      /\ sock'["out"].proto = sock["out"].proto /\ sock'["out"].wshut = sock["out"].wshut
      /\ sock'["in"] = sock["in"]
  BY <1>1, <1>2, HeaderStream
<1>5. \A s \in Sides : Shaped(sock[s], peer[s].ended)'
  BY <1>1, <1>3, <1>4
<1>6. \A s \in Sides : Early(s)'
  BY <1>1, <1>3, <1>4 DEF Early, Untouched
<1>7. \A s \in Sides : Idle(s)'
  BY <1>1, <1>2, <1>3, <1>4 DEF Idle
<1>8. (\A s \in Sides : Idle(s))' => (\A s \in Sides : Ledger(s))'
  BY IdleLedger, PTL
<1> QED BY <1>5, <1>6, <1>7, <1>8 DEF Streams

LEMMA RetryStreams ==
  ASSUME SInv, hpc \in {"dial", "outhandshake"}, Retry PROVE Streams'
<1> USE SideFacts
<1>1. /\ hpc' \in {"dial", "failed"} /\ UNCHANGED <<tpc, chunk>>
      /\ sock' = [sock EXCEPT !["out"] = NewSocket(sock["out"].proto)]
      /\ peer' = [peer EXCEPT !["out"] = NewPeer]
  BY DEF Retry, Goto
<1>2. Opp("in") = "out" /\ Opp("out") = "in"
  BY DEF Opp
<1>3. /\ TypeOK
      /\ \A s \in Sides : /\ Shaped(sock[s], peer[s].ended) /\ Early(s) /\ Idle(s)
                          /\ tpc[s] = "none"
  BY AloneIdle DEF SInv, IInv, Alone, Streams
<1>4. /\ sock'["in"] = sock["in"] /\ peer'["in"] = peer["in"]
      /\ sock'["out"] = NewSocket(sock["out"].proto) /\ peer'["out"] = NewPeer
  BY <1>1, <1>3 DEF TypeOK
<1>5. <<>> \o <<>> = <<>>
  BY EmptySeq, NoConcat
<1>6. \A s \in Sides : Shaped(sock[s], peer[s].ended)'
  BY <1>3, <1>4 DEF Shaped, NewSocket, NewPeer
<1>7. \A s \in Sides : Early(s)'
  BY <1>1, <1>3, <1>4 DEF Early, Untouched, NewSocket, NewPeer
<1>8. Idle("in")'
  BY <1>1, <1>3, <1>4 DEF Idle
<1>9. Idle("out")'
  <2>1. /\ sock'["out"].raw = <<>> /\ sock'["out"].kbuf = <<>> /\ ~sock'["out"].wshut
        /\ peer'["out"].sent = <<>> /\ peer'["out"].got = <<>>
    BY <1>4 DEF NewSocket, NewPeer
  <2>2. Inside(sock'["out"]) = <<>>
    BY <1>5, <2>1 DEF Inside
  <2> QED BY <1>1, <1>3, <1>5, <2>1, <2>2 DEF Idle
<1>10. (\A s \in Sides : Idle(s))' => (\A s \in Sides : Ledger(s))'
  BY IdleLedger, PTL
<1> QED BY <1>6, <1>7, <1>8, <1>9, <1>10 DEF Streams

(* Closing sockets on the way out touches no stream.                        *)
LEMMA LeaveStreams ==
  ASSUME SInv, NEW S, NEW C, CloseAndFree(S, C), hpc' = "exit",
         UNCHANGED <<tpc, chunk, peer>>
  PROVE  Streams'
<1>1. /\ TypeOK
      /\ \A s \in Sides : Shaped(sock[s], peer[s].ended) /\ Early(s) /\ Ledger(s)
  BY DEF SInv, IInv, Streams
<1>2. \A s \in Sides :
         /\ SameStream(sock[s], sock'[s]) /\ sock'[s].proto = sock[s].proto
         /\ sock'[s].hello = sock[s].hello
         /\ sock'[s].fin = sock[s].fin /\ sock'[s].rst = sock[s].rst
  BY <1>1, FieldTypes DEF CloseAndFree, CloseWrite, SameStream, Socket
<1>3. \A s \in Sides : Shaped(sock[s], peer[s].ended)' /\ (Proper(s)' <=> Proper(s))
  BY <1>1, <1>2 DEF Shaped, SameStream, Proper
<1>4. \A s \in Sides : Early(s)'
  BY <1>1, <1>2 DEF Early, Untouched, SameStream
<1>5. \A s \in Sides : Ledger(s)'
  BY <1>1, <1>2, <1>3, OppFacts DEF Ledger, Inside, SameStream
<1> QED BY <1>3, <1>4, <1>5 DEF Streams

(* A step of the handler that leaves threads and sockets alone.             *)
LEMMA GotoStreams ==
  ASSUME SInv, UNCHANGED <<tpc, chunk, sock, peer>>, hpc # "exit",
         hpc' \in {"dial", "outhandshake", "failed"}
            => hpc \in {"dial", "outhandshake", "failed"}
  PROVE  Streams'
<1>1. \A s \in Sides : Shaped(sock[s], peer[s].ended) /\ Early(s) /\ Ledger(s)
  BY DEF SInv, Streams
<1>2. \A s \in Sides : Shaped(sock[s], peer[s].ended)' /\ Early(s)'
  BY <1>1 DEF Early
<1>3. \A s \in Sides : Ledger(s)'
  BY <1>1 DEF Ledger, Proper
<1> QED BY <1>2, <1>3 DEF Streams

LEMMA HandlerStreams ==
  ASSUME SInv, Handler PROVE Streams'
<1>1. CASE Accept \/ DialOk \/ NullTarget
  BY <1>1, GotoStreams DEF Accept, DialOk, NullTarget, Goto
<1>2. CASE HandshakeOk
  BY <1>2, HandshakeStreams
<1>3. CASE HandshakeFail \/ GiveUp \/ Join
  BY <1>3, LeaveStreams DEF HandshakeFail, GiveUp, Join, Goto
<1>4. CASE DialFail \/ OutHandshakeFail
  BY <1>4, RetryStreams DEF DialFail, OutHandshakeFail
<1>5. CASE Connected
  BY <1>5, ConnectedStreams
<1> QED BY <1>1, <1>2, <1>3, <1>4, <1>5 DEF Handler

-----------------------------------------------------------------------------
(* The copying threads.                                                     *)

(* A thread's step is nothing to the stream that the other thread copies.   *)
LEMMA OtherThread ==
  ASSUME Streams, NEW s \in Sides, UNCHANGED hpc,
         tpc'[Opp(s)] = tpc[Opp(s)], chunk'[Opp(s)] = chunk[Opp(s)],
         SameStream(sock[Opp(s)], sock'[Opp(s)]),
         sock'[Opp(s)].proto = sock[Opp(s)].proto,
         sock'[Opp(s)].hello = sock[Opp(s)].hello,
         peer'[Opp(s)].sent = peer[Opp(s)].sent,
         peer'[Opp(s)].ended = peer[Opp(s)].ended,
         peer'[Opp(s)].greeted = peer[Opp(s)].greeted,
         peer'[s].got = peer[s].got, sock'[s].wshut = sock[s].wshut,
         \A x \in Sides : Proper(x)' <=> Proper(x)
  PROVE  (Shaped(sock[Opp(s)], peer[Opp(s)].ended) /\ Early(Opp(s)) /\ Ledger(Opp(s)))'
<1> DEFINE o == Opp(s)
<1>1. o \in Sides /\ Opp(o) = s /\ Shaped(sock[o], peer[o].ended) /\ Early(o) /\ Ledger(o)
  BY OppFacts DEF Streams
<1>2. Shaped(sock[o], peer[o].ended)' /\ Early(o)'
  BY <1>1 DEF Shaped, Early, Untouched, SameStream
<1>3. Ledger(o)'
  BY <1>1 DEF Ledger, Inside, SameStream
<1> QED BY <1>2, <1>3

(* While a thread lives, its stream's header has been read.                 *)
LEMMA EarlyKept ==
  ASSUME Streams, NEW s \in Sides, tpc[s] # "none", UNCHANGED hpc,
         sock'[s].proto = sock[s].proto, sock'[s].hello = sock[s].hello,
         peer'[s].greeted = peer[s].greeted
  PROVE  Early(s)'
<1>1. /\ sock[s].proto = "socks" => s = "in"
      /\ ~sock[s].hello /\ (sock[s].proto # "native" => peer[s].greeted)
  BY DEF Streams, Early
<1> QED BY <1>1 DEF Early

LEMMA ReadStreams ==
  ASSUME SInv, NEW s \in Sides, Read(s) PROVE Streams'
<1> DEFINE o == Opp(s)
           r == BlockingRead(sock[s])
<1>1. /\ TypeOK /\ Streams /\ o \in Sides /\ o # s /\ Opp(o) = s
      /\ Shaped(sock[s], peer[s].ended) /\ Early(s) /\ Ledger(s)
  BY OppFacts DEF SInv, IInv, Streams
<1>2. /\ sock[s] \in Socket /\ peer[s].ended \in BOOLEAN
      /\ peer[s].sent \in Seq(Nat) /\ peer[o].got \in Seq(Nat)
  BY <1>1, FieldTypes
<1>3. /\ hpc = "join" /\ tpc[s] = "read" /\ ReadReturns(sock[s])
      /\ UNCHANGED <<hpc, peer>> /\ sock' = [sock EXCEPT ![s] = r.sock]
      /\ chunk' = [chunk EXCEPT ![s] = r.data]
      /\ tpc' = [tpc EXCEPT ![s] = AfterRead(r.res)]
  BY DEF Read
<1>4. /\ Sound(sock[s], peer[s].ended, r)
      /\ r.res = "again" => sock[s].fin /\ ~peer[s].ended
  BY <1>1, <1>2, <1>3, BlockingReadSound
<1>5. r.sock \in Socket /\ r.data \in Seq(Nat)
  BY <1>2, BlockingReadType DEF ResultType
<1> HIDE DEF r
<1>6. /\ sock'[s] = r.sock /\ chunk'[s] = r.data /\ tpc'[s] = AfterRead(r.res)
      /\ sock'[o] = sock[o] /\ chunk'[o] = chunk[o] /\ tpc'[o] = tpc[o]
  BY <1>1, <1>3 DEF TypeOK
<1>7. /\ Shaped(sock[s], peer[s].ended)' /\ SameOutside(sock[s], sock'[s])
      /\ r.data \o Inside(sock'[s]) = Inside(sock[s])
  BY <1>3, <1>4, <1>6 DEF Sound
<1>8. Proper(s)' <=> Proper(s)
  BY <1>3, <1>7 DEF Proper, SameOutside
<1>9. Proper(o)' <=> Proper(o)
  BY <1>3, <1>6 DEF Proper
<1>10. Early(s)'
  BY <1>1, <1>3, <1>7, EarlyKept DEF SameOutside
<1>11. peer[s].sent = (peer[o].got \o r.data) \o Inside(sock'[s])
  <2>1. peer[s].sent = (peer[o].got \o <<>>) \o Inside(sock[s])
    BY <1>1, <1>3 DEF Ledger
  <2>2. peer[s].sent = peer[o].got \o (r.data \o Inside(sock'[s]))
    BY <1>2, <1>7, <2>1, NoConcat
  <2>3. Inside(sock'[s]) \in Seq(Nat)
    BY <1>5, <1>6, InsideType
  <2> QED BY <1>2, <1>5, <2>2, <2>3, Assoc
<1>12. Ledger(s)'
  <2>1. CASE r.res = "data"
    <3>1. tpc'[s] = "write" /\ chunk'[s] # <<>>
      BY <1>4, <1>6, <2>1 DEF AfterRead, Sound
    <3> QED BY <1>1, <1>3, <1>6, <1>7, <1>11, <3>1 DEF Ledger
  <2>2. CASE r.res = "again"
    <3>1. tpc'[s] = "write" /\ ~Proper(s)'
      BY <1>4, <1>6, <1>8, <2>2 DEF AfterRead, Proper
    <3> QED BY <1>1, <1>3, <1>6, <1>7, <1>11, <3>1 DEF Ledger
  <2>3. CASE r.res \in {"eof", "error"}
    <3>1. tpc'[s] = "close" /\ r.data = <<>>
      BY <1>4, <1>6, <2>3 DEF AfterRead, Sound
    <3>2. Proper(s)' => peer'[s].ended /\ peer'[o].got = peer'[s].sent
      <4>1. ASSUME Proper(s) PROVE r.res = "eof" /\ Inside(sock'[s]) = <<>> /\ peer[s].ended
        BY <1>4, <1>6, <2>3, <4>1 DEF Sound, Proper
      <4>2. ASSUME Proper(s) PROVE peer[o].got = peer[s].sent
        BY <1>2, <1>11, <3>1, <4>1, <4>2, NoConcat
      <4> QED BY <1>3, <1>8, <4>1, <4>2
    <3>3. ~(sock[o].wshut /\ hpc # "exit")
      BY <1>1, <1>3 DEF Ledger
    <3> QED BY <1>3, <1>6, <3>1, <3>2, <3>3 DEF Ledger
  <2> QED BY <1>4, <2>1, <2>2, <2>3 DEF Sound, Results
<1>13. (Shaped(sock[o], peer[o].ended) /\ Early(o) /\ Ledger(o))'
  <2>1. \A x \in Sides : Proper(x)' <=> Proper(x)
    BY <1>8, <1>9, OppFacts
  <2>2. SameStream(sock[o], sock'[o]) /\ sock'[s].wshut = sock[s].wshut
    BY <1>6, <1>7 DEF SameStream, SameOutside
  <2> QED BY <1>1, <1>3, <1>6, <2>1, <2>2, OtherThread
<1> QED BY <1>7, <1>10, <1>12, <1>13, OppFacts DEF Streams

LEMMA WriteStreams ==
  ASSUME SInv, NEW s \in Sides, Write(s) PROVE Streams'
<1> DEFINE o == Opp(s)
           q == peer[o].got \o chunk[s]
<1>1. /\ TypeOK /\ Streams /\ o \in Sides /\ o # s /\ Opp(o) = s
      /\ Shaped(sock[s], peer[s].ended) /\ Early(s) /\ Ledger(s)
  BY OppFacts DEF SInv, IInv, Streams
<1>2. /\ peer[o] \in Peer /\ peer[o].got \in Seq(Nat) /\ chunk[s] \in Seq(Nat)
  BY <1>1, FieldTypes
<1>3. /\ hpc = "join" /\ tpc[s] = "write" /\ UNCHANGED <<hpc, sock>>
      /\ peer' = [peer EXCEPT ![o] = [peer[o] EXCEPT !.got = q,
                                                    !.unread = peer[o].unread + 1]]
      /\ chunk' = [chunk EXCEPT ![s] = <<>>] /\ tpc' = [tpc EXCEPT ![s] = "read"]
  BY DEF Write
<1>4. q \in Seq(Nat)
  BY <1>2, ConcatProperties
<1>5. peer[s].sent = q \o Inside(sock[s])
  BY <1>1, <1>3 DEF Ledger
<1> HIDE DEF q
<1>6. /\ peer'[s] = peer[s] /\ chunk'[s] = <<>> /\ tpc'[s] = "read"
      /\ chunk'[o] = chunk[o] /\ tpc'[o] = tpc[o]
      /\ peer'[o].got = q /\ peer'[o].sent = peer[o].sent
      /\ peer'[o].ended = peer[o].ended /\ peer'[o].greeted = peer[o].greeted
  BY <1>1, <1>2, <1>3 DEF TypeOK, Peer
<1>7. \A x \in Sides : Proper(x)' <=> Proper(x)
  BY <1>3, <1>6, OppFacts DEF Proper
<1>8. Shaped(sock[s], peer[s].ended)' /\ Early(s)'
  BY <1>1, <1>3, <1>6, EarlyKept
<1>9. peer'[s].sent = (peer'[o].got \o chunk'[s]) \o Inside(sock'[s])
  BY <1>3, <1>4, <1>5, <1>6, NoConcat
<1>10. Ledger(s)'
  BY <1>1, <1>3, <1>6, <1>9 DEF Ledger
<1>11. (Shaped(sock[o], peer[o].ended) /\ Early(o) /\ Ledger(o))'
  <2>1. SameStream(sock[o], sock'[o])
    BY <1>3 DEF SameStream
  <2> QED BY <1>1, <1>3, <1>6, <1>7, <2>1, OtherThread
<1> QED BY <1>8, <1>10, <1>11, OppFacts DEF Streams

(* A write fails only when a peer is gone or the stream broke off.          *)
LEMMA WriteFailStreams ==
  ASSUME SInv, NEW s \in Sides, WriteFail(s) PROVE Streams'
<1> DEFINE o == Opp(s)
<1>1. /\ TypeOK /\ Streams /\ o \in Sides /\ o # s /\ Opp(o) = s
      /\ Shaped(sock[s], peer[s].ended) /\ Early(s) /\ Ledger(s)
  BY OppFacts DEF SInv, IInv, Streams
<1>2. /\ hpc = "join" /\ tpc[s] = "write" /\ UNCHANGED <<hpc, sock, peer>>
      /\ chunk' = [chunk EXCEPT ![s] = <<>>] /\ tpc' = [tpc EXCEPT ![s] = "close"]
  BY DEF WriteFail
<1>3. /\ chunk'[s] = <<>> /\ tpc'[s] = "close"
      /\ chunk'[o] = chunk[o] /\ tpc'[o] = tpc[o]
  BY <1>1, <1>2 DEF TypeOK
<1>4. ~Proper(s) \/ ~Proper(o)
  <2>1. CASE chunk[s] = <<>>
    BY <1>1, <1>2, <2>1 DEF Ledger
  <2>2. CASE chunk[s] # <<>>
    <3>1. sock[o].rst \/ sock[o].wshut
      BY <2>2 DEF WriteFail, Writable
    <3>2. ~sock[o].wshut
      BY <1>1, <1>2 DEF Ledger
    <3> QED BY <3>1, <3>2 DEF Proper
  <2> QED BY <2>1, <2>2
<1>5. \A x \in Sides : Proper(x)' <=> Proper(x)
  BY <1>2 DEF Proper
<1>6. Shaped(sock[s], peer[s].ended)' /\ Early(s)'
  BY <1>1, <1>2, EarlyKept
<1>7. Ledger(s)'
  BY <1>1, <1>2, <1>3, <1>4, <1>5 DEF Ledger
<1>8. (Shaped(sock[o], peer[o].ended) /\ Early(o) /\ Ledger(o))'
  <2>1. SameStream(sock[o], sock'[o])
    BY <1>2 DEF SameStream
  <2> QED BY <1>1, <1>2, <1>3, <1>5, <2>1, OtherThread
<1> QED BY <1>6, <1>7, <1>8, OppFacts DEF Streams

LEMMA CloseStreams ==
  ASSUME SInv, NEW s \in Sides, Close(s) PROVE Streams'
<1> DEFINE o == Opp(s)
<1>1. /\ TypeOK /\ Streams /\ o \in Sides /\ o # s /\ Opp(o) = s
      /\ Shaped(sock[s], peer[s].ended) /\ Early(s) /\ Ledger(s)
  BY OppFacts DEF SInv, IInv, Streams
<1>2. /\ hpc = "join" /\ tpc[s] = "close" /\ UNCHANGED <<hpc, chunk, peer>>
      /\ sock' = [x \in Sides |-> IF x \in {o} THEN CloseWrite(sock[x]) ELSE sock[x]]
      /\ tpc' = [tpc EXCEPT ![s] = "exit"]
  BY DEF Close, CloseTargets
<1>3. /\ sock'[s] = sock[s] /\ sock'[o] = CloseWrite(sock[o])
      /\ tpc'[s] = "exit" /\ tpc'[o] = tpc[o]
  BY <1>1, <1>2 DEF TypeOK
<1>4. sock[o] \in Socket
  BY <1>1, FieldTypes
<1>5. /\ SameStream(sock[o], sock'[o]) /\ sock'[o].proto = sock[o].proto
      /\ sock'[o].hello = sock[o].hello
      /\ sock'[o].fin = sock[o].fin /\ sock'[o].rst = sock[o].rst
  BY <1>3, <1>4 DEF CloseWrite, SameStream, Socket
<1>6. \A x \in Sides : Proper(x)' <=> Proper(x)
  BY <1>2, <1>3, <1>5, OppFacts DEF Proper
<1>7. Shaped(sock[s], peer[s].ended)' /\ Early(s)'
  BY <1>1, <1>2, <1>3, EarlyKept
<1>8. Ledger(s)'
  BY <1>1, <1>2, <1>3, <1>6 DEF Ledger
<1>9. (Shaped(sock[o], peer[o].ended) /\ Early(o) /\ Ledger(o))'
  BY <1>1, <1>2, <1>3, <1>5, <1>6, OtherThread
<1> QED BY <1>7, <1>8, <1>9, OppFacts DEF Streams

LEMMA CopyStreams ==
  ASSUME SInv, NEW s \in Sides, Copy(s) PROVE Streams'
<1>1. CASE WriteCrash(s)
  BY <1>1, GotoStreams DEF WriteCrash, Goto
<1> QED BY <1>1, ReadStreams, WriteStreams, WriteFailStreams, CloseStreams DEF Copy

-----------------------------------------------------------------------------

LEMMA InitStreams == "socks" \notin OutProtos /\ Init => Streams
<1> SUFFICES ASSUME "socks" \notin OutProtos, Init PROVE Streams
  OBVIOUS
<1>1. PICK ip \in InProtos, op \in OutProtos :
         sock = [s \in Sides |-> NewSocket(IF s = "in" THEN ip ELSE op)]
  BY DEF Init
<1>2. \A s \in Sides :
         /\ tpc[s] = "none" /\ chunk[s] = <<>> /\ peer[s] = NewPeer /\ hpc = "accept"
         /\ sock[s] = NewSocket(IF s = "in" THEN ip ELSE op)
  BY <1>1 DEF Init
<1>3. \A s \in Sides :
         /\ sock[s].proto = (IF s = "in" THEN ip ELSE op)
         /\ ~sock[s].hello /\ ~sock[s].kend /\ ~sock[s].rend /\ ~sock[s].eof
         /\ sock[s].kbuf = <<>> /\ sock[s].raw = <<>> /\ ~sock[s].wshut
         /\ peer[s].sent = <<>> /\ peer[s].got = <<>> /\ ~peer[s].ended
  <2>1. \A p : LET x == NewSocket(p)
                IN  /\ x.proto = p /\ ~x.hello /\ ~x.kend /\ ~x.rend /\ ~x.eof
                    /\ x.kbuf = <<>> /\ x.raw = <<>> /\ ~x.wshut
    BY DEF NewSocket
  <2>2. NewPeer.sent = <<>> /\ NewPeer.got = <<>> /\ ~NewPeer.ended
    BY DEF NewPeer
  <2> QED BY <1>2, <2>1, <2>2
<1>4. \A s \in Sides : Shaped(sock[s], peer[s].ended) /\ Early(s)
  <2>1. op # "socks"
    BY <1>1
  <2> QED BY <1>2, <1>3, <2>1, SideFacts DEF Shaped, Early, Untouched
<1>5. \A s \in Sides : Idle(s)
  <2>1. <<>> \o <<>> = <<>>
    BY EmptySeq, NoConcat
  <2> QED BY <1>2, <1>3, <2>1 DEF Idle, Inside
<1> QED BY <1>4, <1>5, IdleLedger DEF Streams

LEMMA NextStreams == SInv /\ [Next]_vars => Streams'
<1> SUFFICES ASSUME SInv, [Next]_vars PROVE Streams'
  OBVIOUS
<1>1. CASE PeerConnect
  <2>1. hpc = "accept"
    BY <1>1, SideFacts DEF SInv, IInv, TypeOK, HandlerLoc, Holds, PeerConnect
  <2> QED BY <1>1, <2>1, GotoStreams DEF PeerConnect
<1>2. CASE UNCHANGED vars
  <2>1. UNCHANGED <<hpc, tpc, chunk, sock, peer>>
    BY <1>2 DEF vars
  <2>2. \A s \in Sides : Shaped(sock[s], peer[s].ended) /\ Early(s) /\ Ledger(s)
    BY DEF SInv, Streams
  <2>3. \A s \in Sides : Shaped(sock[s], peer[s].ended)' /\ Early(s)'
    BY <2>1, <2>2 DEF Early
  <2>4. \A s \in Sides : Ledger(s)'
    BY <2>1, <2>2 DEF Ledger, Proper
  <2> QED BY <2>3, <2>4 DEF Streams
<1> QED BY <1>1, <1>2, PeerStreams, HandlerStreams, CopyStreams, SideFacts
        DEF Next, Reader, Writer

(* Every block that a peer sent is with the other peer, in a thread's hands *)
(* or in the socket, in this order, until the thread that copies it stops.  *)
THEOREM StreamInvariance ==
  ASSUME "socks" \notin OutProtos PROVE Spec => []SInv
<1>1. Init => SInv
  BY InitIInv, InitStreams DEF SInv
<1>2. SInv /\ [Next]_vars => SInv'
  BY NextKeeps, NextStreams DEF SInv
<1> QED BY <1>1, <1>2, PTL DEF Spec

(* Between peers that neither reset nor break off, a thread of the threaded *)
(* relay stops only when its stream has ended and all of it was written.    *)
THEOREM EndMeansAll ==
  ASSUME "socks" \notin OutProtos PROVE Spec => []FinMeansAll
<1>1. SInv => FinMeansAll
  BY OppFacts DEF SInv, Streams, Ledger, FinMeansAll
<1> QED BY <1>1, StreamInvariance, PTL

-----------------------------------------------------------------------------
(* The peer has ended its stream, and was told that the other has ended.    *)
OverAt(s) == peer[s].ended \/ sock[s].fin
ShutAt(s) == hpc = "join" /\ sock[s].wshut

-----------------------------------------------------------------------------
(* What the refinement needs beyond the ledger of the blocks: a write hands *)
(* on one block at most, a size of -2 means that the stream broke off with  *)
(* nothing left of it, and a thread closes for a reason the peer can see.   *)
Finished(s) ==
    \/ sock[s].rst \/ sock[Opp(s)].rst
    \/ OverAt(s) /\ peer[Opp(s)].got = peer[s].sent

Whole(s) ==
    /\ chunk[s] = <<>> \/ \E d \in Nat : chunk[s] = <<d>>
    /\ tpc[s] = "write" /\ chunk[s] = <<>> => sock[s].fin /\ Inside(sock[s]) = <<>>
    /\ tpc[s] = "close" => Finished(s)

WInv == SInv /\ \A s \in Sides : Whole(s)

LEMMA OneBlock ==
  ASSUME NEW so \in Socket, NEW e \in BOOLEAN, Shaped(so, e), ReadReturns(so),
         NEW r, r = BlockingRead(so)
  PROVE  /\ r.data = <<>> \/ \E d \in Nat : r.data = <<d>>
         /\ r.res = "again" => r.sock.raw = <<>> /\ r.sock.kbuf = <<>>
<1>1. /\ so.kbuf \in Seq(Nat) /\ so.raw \in Seq(Nat)
      /\ so.rend \in BOOLEAN /\ so.rst \in BOOLEAN /\ so.fin \in BOOLEAN
      /\ so.kend \in BOOLEAN /\ so.eof \in BOOLEAN
  BY DEF Socket
<1>2. \A q \in Seq(Nat) : q # <<>> => Head(q) \in Nat
  BY HeadTailProperties
<1>3. CASE so.proto # "vmess"
  <2>1. r = PlainTryRead(so)
    BY <1>3 DEF BlockingRead
  <2>2. CASE so.kbuf # <<>>
    BY <1>1, <1>2, <2>1, <2>2 DEF PlainTryRead, Result
  <2>3. ASSUME so.kbuf = <<>> PROVE r.data = <<>>
    <3>1. r \in {Result("error", <<>>, so), Result("eof", <<>>, so),
                 Result("again", <<>>, so)}
      BY <1>1, <2>1, <2>3 DEF PlainTryRead
    <3> QED BY <3>1 DEF Result
  <2>4. r.res # "again"
    BY <1>3, <2>1, PlainReadSound
  <2> QED BY <2>2, <2>3, <2>4
<1>4. CASE so.proto = "vmess"
  <2>1. r = VmessRead(so)
    BY <1>4 DEF BlockingRead
  <2>2. CASE so.eof
    BY <2>1, <2>2 DEF VmessRead, Result
  <2>3. CASE ~so.eof /\ (so.raw # <<>> \/ so.rend)
    <3>1. r = DecodeTrunk(so)
      BY <2>1, <2>3 DEF VmessRead
    <3> QED BY <2>3, <3>1, TrunkBlock
  <2>4. CASE ~so.eof /\ so.raw = <<>> /\ ~so.rend
    <3>1. CASE so.rst /\ so.kbuf = <<>> /\ ~so.kend
      BY <2>1, <2>4, <3>1 DEF VmessRead, Result
    <3>2. CASE ~(so.rst /\ so.kbuf = <<>> /\ ~so.kend)
      <4>1. r = DecodeTrunk(Harvest(so)) /\ Harvest(so) \in Socket
        BY <2>1, <2>4, <3>2, HarvestType DEF VmessRead
      <4>2. Harvest(so).kbuf = <<>>
        BY DEF Harvest, Socket
      <4> QED BY <4>1, <4>2, TrunkBlock
    <3> QED BY <3>1, <3>2
  <2> QED BY <2>2, <2>3, <2>4
<1> QED BY <1>3, <1>4

(* What the peers do while the threads run.                                 *)
LEMMA PeerFacts ==
  ASSUME TypeOK, NEW s \in Sides, PeerStep(s)
  PROVE  /\ UNCHANGED <<hpc, tpc, chunk>>
         /\ sock'[Opp(s)] = sock[Opp(s)] /\ peer'[Opp(s)] = peer[Opp(s)]
         /\ sock'[s].wshut = sock[s].wshut /\ peer'[s].got = peer[s].got
         /\ sock[s].rst => sock'[s].rst
         /\ sock[s].fin => sock'[s].fin /\ Inside(sock'[s]) = Inside(sock[s])
         /\ OverAt(s) => OverAt(s)' /\ peer'[s].sent = peer[s].sent
         /\ \/ /\ PeerSend(s) /\ ~OverAt(s) /\ ~OverAt(s)'
               /\ peer'[s].sent = Append(peer[s].sent, Len(peer[s].sent) + 1)
               /\ sock'[s].rst = sock[s].rst
            \/ /\ peer'[s].sent = peer[s].sent /\ sock'[s].rst = sock[s].rst
               /\ OverAt(s)' => OverAt(s) \/ (Sending(s) /\ hpc # "crashed")
            \/ /\ peer'[s].sent = peer[s].sent /\ sock'[s].rst = TRUE
               /\ OverAt(s)' <=> OverAt(s)
<1>1. sock[s] \in Socket /\ peer[s] \in Peer
  BY FieldTypes
<1>2. CASE PeerGreet(s)
  <2>1. /\ Arrive(s, [sock[s] EXCEPT !.hello = TRUE],
                  [peer[s] EXCEPT !.greeted = TRUE])
    BY <1>2 DEF PeerGreet
  <2>2. /\ sock'[s] = [sock[s] EXCEPT !.hello = TRUE]
        /\ peer'[s] = [peer[s] EXCEPT !.greeted = TRUE]
        /\ sock'[Opp(s)] = sock[Opp(s)] /\ peer'[Opp(s)] = peer[Opp(s)]
        /\ UNCHANGED <<hpc, tpc, chunk>>
    BY <2>1, Arrived
  <2>3. /\ sock'[s].kbuf = sock[s].kbuf /\ sock'[s].raw = sock[s].raw
        /\ sock'[s].fin = sock[s].fin /\ sock'[s].rst = sock[s].rst
        /\ sock'[s].wshut = sock[s].wshut /\ peer'[s].sent = peer[s].sent
        /\ peer'[s].got = peer[s].got /\ peer'[s].ended = peer[s].ended
    BY <1>1, <2>2 DEF Socket, Peer
  <2> QED BY <2>1, <2>2, <2>3 DEF Inside, OverAt
<1>3. CASE PeerSend(s)
  <2> DEFINE d == Len(peer[s].sent) + 1
  <2>1. /\ Arrive(s, [sock[s] EXCEPT !.kbuf = Append(sock[s].kbuf, d)],
                  [peer[s] EXCEPT !.sent = Append(peer[s].sent, d)])
        /\ ~sock[s].fin /\ ~OverAt(s)
    BY <1>3 DEF PeerSend, MaySendData, Sending, OverAt
  <2> HIDE DEF d
  <2>2. /\ sock'[s] = [sock[s] EXCEPT !.kbuf = Append(sock[s].kbuf, d)]
        /\ peer'[s] = [peer[s] EXCEPT !.sent = Append(peer[s].sent, d)]
        /\ sock'[Opp(s)] = sock[Opp(s)] /\ peer'[Opp(s)] = peer[Opp(s)]
        /\ UNCHANGED <<hpc, tpc, chunk>>
    BY <2>1, Arrived
  <2>3. /\ sock'[s].raw = sock[s].raw /\ sock'[s].fin = sock[s].fin
        /\ sock'[s].rst = sock[s].rst /\ sock'[s].wshut = sock[s].wshut
        /\ peer'[s].got = peer[s].got /\ peer'[s].ended = peer[s].ended
        /\ peer'[s].sent = Append(peer[s].sent, d)
    BY <1>1, <2>2 DEF Socket, Peer
  <2> QED BY <1>3, <2>1, <2>2, <2>3 DEF Inside, OverAt, d
<1>4. CASE PeerEnd(s)
  <2>1. /\ Arrive(s, [sock[s] EXCEPT !.kend = TRUE],
                  [peer[s] EXCEPT !.ended = TRUE])
        /\ ~sock[s].fin /\ ~OverAt(s) /\ Sending(s) /\ hpc # "crashed"
    BY <1>4 DEF PeerEnd, MaySendData, Sending, Arrive, OverAt
  <2>2. /\ sock'[s] = [sock[s] EXCEPT !.kend = TRUE]
        /\ peer'[s] = [peer[s] EXCEPT !.ended = TRUE]
        /\ sock'[Opp(s)] = sock[Opp(s)] /\ peer'[Opp(s)] = peer[Opp(s)]
        /\ UNCHANGED <<hpc, tpc, chunk>>
    BY <2>1, Arrived
  <2>3. /\ sock'[s].kbuf = sock[s].kbuf /\ sock'[s].raw = sock[s].raw
        /\ sock'[s].fin = sock[s].fin /\ sock'[s].rst = sock[s].rst
        /\ sock'[s].wshut = sock[s].wshut /\ peer'[s].sent = peer[s].sent
        /\ peer'[s].got = peer[s].got
    BY <1>1, <2>2 DEF Socket, Peer
  <2> QED BY <2>1, <2>2, <2>3 DEF Inside, OverAt
<1>5. CASE PeerFin(s)
  <2> DEFINE b == peer[s].ended \/ sock[s].proto # "vmess"
  <2>1. /\ Arrive(s, [sock[s] EXCEPT !.fin = TRUE],
                  [peer[s] EXCEPT !.ended = b])
        /\ ~sock[s].fin /\ Sending(s) /\ hpc # "crashed"
    BY <1>5 DEF PeerFin, Sending, Arrive
  <2> HIDE DEF b
  <2>2. /\ sock'[s] = [sock[s] EXCEPT !.fin = TRUE]
        /\ peer'[s] = [peer[s] EXCEPT !.ended = b]
        /\ sock'[Opp(s)] = sock[Opp(s)] /\ peer'[Opp(s)] = peer[Opp(s)]
        /\ UNCHANGED <<hpc, tpc, chunk>>
    BY <2>1, Arrived
  <2>3. /\ sock'[s].kbuf = sock[s].kbuf /\ sock'[s].raw = sock[s].raw
        /\ sock'[s].rst = sock[s].rst /\ sock'[s].wshut = sock[s].wshut
        /\ peer'[s].sent = peer[s].sent /\ peer'[s].got = peer[s].got
        /\ sock'[s].fin = TRUE
    BY <1>1, <2>2 DEF Socket, Peer
  <2> QED BY <2>1, <2>2, <2>3 DEF Inside, OverAt
<1>6. CASE PeerReset(s)
  <2>1. /\ Arrive(s, [sock[s] EXCEPT !.rst = TRUE],
                  peer[s])
    BY <1>6 DEF PeerReset
  <2>2. /\ sock'[s] = [sock[s] EXCEPT !.rst = TRUE]
        /\ peer'[s] = peer[s]
        /\ sock'[Opp(s)] = sock[Opp(s)] /\ peer'[Opp(s)] = peer[Opp(s)]
        /\ UNCHANGED <<hpc, tpc, chunk>>
    BY <2>1, Arrived
  <2>3. /\ sock'[s].kbuf = sock[s].kbuf /\ sock'[s].raw = sock[s].raw
        /\ sock'[s].fin = sock[s].fin /\ sock'[s].wshut = sock[s].wshut
        /\ peer'[s].sent = peer[s].sent /\ peer'[s].got = peer[s].got
        /\ peer'[s].ended = peer[s].ended /\ sock'[s].rst = TRUE
    BY <1>1, <2>2 DEF Socket, Peer
  <2> QED BY <2>1, <2>2, <2>3 DEF Inside, OverAt
<1>7. CASE PeerRecv(s)
  <2> DEFINE n == peer[s].unread - 1
  <2>1. /\ peer' = [peer EXCEPT ![s] = [peer[s] EXCEPT !.unread = n]]
        /\ UNCHANGED <<hpc, tpc, chunk, sock>>
    BY <1>7 DEF PeerRecv
  <2> HIDE DEF n
  <2>2. /\ peer'[s].sent = peer[s].sent /\ peer'[s].got = peer[s].got
        /\ peer'[s].ended = peer[s].ended /\ peer'[Opp(s)] = peer[Opp(s)]
    BY <1>1, <2>1, OppFacts DEF TypeOK, Peer
  <2> QED BY <2>1, <2>2 DEF Inside, OverAt
<1> QED BY <1>2, <1>3, <1>4, <1>5, <1>6, <1>7 DEF PeerStep

(* What a step of the peers or of the other thread does not undo.           *)
LEMMA KeptWhole ==
  ASSUME NEW s \in Sides, Whole(s), chunk'[s] = chunk[s], tpc'[s] = tpc[s],
         sock[s].fin => sock'[s].fin /\ Inside(sock'[s]) = Inside(sock[s]),
         sock[s].rst => sock'[s].rst, sock[Opp(s)].rst => sock'[Opp(s)].rst,
         OverAt(s) => OverAt(s)' /\ peer'[s].sent = peer[s].sent,
         peer'[Opp(s)].got = peer[Opp(s)].got
  PROVE  Whole(s)'
BY DEF Whole, Finished

LEMMA PeerWhole ==
  ASSUME WInv, NEW x \in Sides, PeerStep(x), NEW s \in Sides
  PROVE  Whole(s)'
<1>1. TypeOK /\ Whole(s) /\ Opp(Opp(s)) = s /\ (x = s \/ x = Opp(s))
  BY OppFacts DEF WInv, SInv, IInv
<1>2. CASE x = s
  BY <1>1, <1>2, PeerFacts, KeptWhole
<1>3. CASE x = Opp(s)
  <2>1. OverAt(s)' <=> OverAt(s)
    BY <1>1, <1>3, PeerFacts DEF OverAt
  <2> QED BY <1>1, <1>3, <2>1, PeerFacts, KeptWhole
<1> QED BY <1>1, <1>2, <1>3

LEMMA HandlerWhole ==
  ASSUME WInv, Handler, NEW s \in Sides PROVE Whole(s)'
<1>1. UNCHANGED chunk /\ tpc'[s] \notin {"write", "close"}
  <2>1. Threaded
    BY DEF WInv, SInv, IInv
  <2>2. CASE hpc \in Alone
    <3>1. tpc[s] = "none"
      BY <2>1, <2>2 DEF Threaded
    <3> QED BY <2>2, <3>1 DEF Handler, Accept, HandshakeOk, HandshakeFail, DialOk,
                DialFail, OutHandshakeFail, Connected, GiveUp, NullTarget, Join, Retry, Alone
  <2>3. CASE hpc = "join"
    <3>1. Join
      BY <2>3 DEF Handler, Accept, HandshakeOk, HandshakeFail, DialOk,
                DialFail, OutHandshakeFail, Connected, GiveUp, NullTarget
    <3> QED BY <3>1 DEF Join, Joinable
  <2> QED BY <2>2, <2>3 DEF Handler, Accept, HandshakeOk, HandshakeFail, DialOk,
             DialFail, OutHandshakeFail, Connected, GiveUp, NullTarget, Join, Alone
<1> QED BY <1>1 DEF WInv, Whole

(* The thread's own steps.                                                  *)
LEMMA ReadWhole ==
  ASSUME WInv, NEW s \in Sides, Read(s)
  PROVE  /\ Whole(s)' /\ UNCHANGED <<hpc, peer>>
         /\ SameOutside(sock[s], sock'[s]) /\ sock'[Opp(s)] = sock[Opp(s)]
         /\ tpc'[Opp(s)] = tpc[Opp(s)] /\ chunk'[Opp(s)] = chunk[Opp(s)]
<1> DEFINE r == BlockingRead(sock[s])
           o == Opp(s)
<1>1. /\ TypeOK /\ o \in Sides /\ o # s /\ Shaped(sock[s], peer[s].ended) /\ Ledger(s)
  BY OppFacts DEF WInv, SInv, IInv, Streams
<1>2. /\ sock[s] \in Socket /\ peer[s].ended \in BOOLEAN
      /\ peer[s].sent \in Seq(Nat) /\ peer[o].got \in Seq(Nat)
  BY <1>1, FieldTypes
<1>3. /\ tpc[s] = "read" /\ hpc = "join" /\ ReadReturns(sock[s]) /\ UNCHANGED <<hpc, peer>>
      /\ sock' = [sock EXCEPT ![s] = r.sock] /\ chunk' = [chunk EXCEPT ![s] = r.data]
      /\ tpc' = [tpc EXCEPT ![s] = AfterRead(r.res)]
  BY DEF Read
<1>4. /\ Sound(sock[s], peer[s].ended, r)
      /\ r.res = "again" => sock[s].fin
      /\ r.data = <<>> \/ \E d \in Nat : r.data = <<d>>
      /\ r.res = "again" => r.sock.raw = <<>> /\ r.sock.kbuf = <<>>
  BY <1>1, <1>2, <1>3, BlockingReadSound, OneBlock
<1>5. r.sock \in Socket /\ r.data \in Seq(Nat)
  BY <1>2, BlockingReadType DEF ResultType
<1> HIDE DEF r
<1>6. /\ sock'[s] = r.sock /\ chunk'[s] = r.data /\ tpc'[s] = AfterRead(r.res)
      /\ sock'[o] = sock[o] /\ tpc'[o] = tpc[o] /\ chunk'[o] = chunk[o]
  BY <1>1, <1>3 DEF TypeOK
<1>7. SameOutside(sock[s], sock'[s])
  BY <1>4, <1>6 DEF Sound
<1>8. ASSUME tpc'[s] = "write", chunk'[s] = <<>>
      PROVE  sock'[s].fin /\ Inside(sock'[s]) = <<>>
  <2>1. r.res = "again"
    BY <1>4, <1>6, <1>8 DEF AfterRead, Sound, Results
  <2>2. <<>> \o <<>> = <<>>
    BY EmptySeq, NoConcat
  <2> QED BY <1>4, <1>6, <1>7, <2>1, <2>2 DEF SameOutside, Inside
<1>9. ASSUME tpc'[s] = "close" PROVE Finished(s)'
  <2>1. r.res \in {"eof", "error"} /\ r.data = <<>>
    BY <1>4, <1>6, <1>9 DEF AfterRead, Sound
  <2>2. CASE r.res = "error"
    BY <1>4, <1>7, <2>2 DEF Sound, SameOutside, Finished
  <2>3. CASE r.res = "eof"
    <3>1. Inside(sock'[s]) = <<>> /\ OverAt(s)
      BY <1>4, <1>6, <2>3 DEF Sound, OverAt
    <3>2. <<>> \o <<>> = <<>>
      BY EmptySeq, NoConcat
    <3>3. Inside(sock[s]) = <<>>
      BY <1>4, <1>6, <2>1, <3>1, <3>2 DEF Sound
    <3>4. peer[s].sent = (peer[o].got \o <<>>) \o <<>>
      BY <1>1, <1>3, <3>3 DEF Ledger
    <3>5. peer[o].got = peer[s].sent
      BY <1>2, <3>4, NoConcat
    <3> QED BY <1>3, <1>7, <3>1, <3>5 DEF Finished, OverAt, SameOutside
  <2> QED BY <2>1, <2>2, <2>3
<1> QED BY <1>3, <1>4, <1>6, <1>7, <1>8, <1>9 DEF Whole

LEMMA FailWhole ==
  ASSUME WInv, NEW s \in Sides, WriteFail(s)
  PROVE  Whole(s)'
<1> DEFINE o == Opp(s)
<1>1. TypeOK /\ o \in Sides /\ Ledger(s) /\ Whole(s)
  BY OppFacts DEF WInv, SInv, IInv, Streams
<1>2. /\ hpc = "join" /\ tpc[s] = "write" /\ UNCHANGED <<hpc, sock, peer>>
      /\ chunk'[s] = <<>> /\ tpc'[s] = "close"
  BY <1>1 DEF WriteFail, TypeOK
<1>3. Finished(s)
  <2>1. CASE chunk[s] = <<>>
    <3>1. OverAt(s) /\ Inside(sock[s]) = <<>>
      BY <1>1, <1>2, <2>1 DEF Whole, OverAt
    <3>2. peer[s].sent = (peer[o].got \o <<>>) \o <<>> /\ peer[o].got \in Seq(Nat)
      BY <1>1, <1>2, <2>1, <3>1, FieldTypes DEF Ledger
    <3>3. <<>> \in Seq(Nat)
      OBVIOUS
    <3>4. peer[o].got = peer[s].sent
      BY <3>2, <3>3, NoConcat
    <3> QED BY <3>1, <3>4 DEF Finished
  <2>2. CASE chunk[s] # <<>>
    <3>1. sock[o].rst \/ sock[o].wshut
      BY <2>2 DEF WriteFail, Writable
    <3>2. ~sock[o].wshut
      BY <1>1, <1>2 DEF Ledger
    <3> QED BY <3>1, <3>2 DEF Finished
  <2> QED BY <2>1, <2>2
<1>4. Finished(s)'
  BY <1>2, <1>3 DEF Finished, OverAt
<1> QED BY <1>2, <1>4 DEF Whole

(* What the other three steps of a thread change.                           *)
LEMMA CopyFacts ==
  ASSUME TypeOK, NEW s \in Sides
  PROVE  LET o == Opp(s) IN
         /\ Write(s) =>
              /\ UNCHANGED <<hpc, sock>> /\ chunk'[s] = <<>> /\ tpc'[s] = "read"
              /\ peer'[s] = peer[s] /\ chunk'[o] = chunk[o] /\ tpc'[o] = tpc[o]
              /\ peer'[o].got = peer[o].got \o chunk[s]
              /\ peer'[o].sent = peer[o].sent /\ peer'[o].ended = peer[o].ended
         /\ WriteFail(s) =>
              /\ UNCHANGED <<hpc, sock, peer>>
              /\ chunk'[o] = chunk[o] /\ tpc'[o] = tpc[o]
         /\ Close(s) =>
              /\ UNCHANGED <<hpc, peer, chunk>> /\ tpc'[s] = "exit" /\ tpc'[o] = tpc[o]
              /\ sock'[s] = sock[s] /\ sock'[o] = CloseWrite(sock[o])
<1> DEFINE o == Opp(s)
<1>1. o \in Sides /\ o # s /\ peer[o] \in Peer
  BY OppFacts, FieldTypes
<1>2. ASSUME Write(s)
      PROVE  /\ UNCHANGED <<hpc, sock>> /\ chunk'[s] = <<>> /\ tpc'[s] = "read"
             /\ peer'[s] = peer[s] /\ chunk'[o] = chunk[o] /\ tpc'[o] = tpc[o]
             /\ peer'[o].got = peer[o].got \o chunk[s]
             /\ peer'[o].sent = peer[o].sent /\ peer'[o].ended = peer[o].ended
  <2> DEFINE q == peer[o].got \o chunk[s]
             n == peer[o].unread + 1
  <2>1. /\ UNCHANGED <<hpc, sock>> /\ chunk' = [chunk EXCEPT ![s] = <<>>]
        /\ tpc' = [tpc EXCEPT ![s] = "read"]
        /\ peer' = [peer EXCEPT ![o] = [peer[o] EXCEPT !.got = q, !.unread = n]]
    BY <1>2 DEF Write
  <2> HIDE DEF q, n
  <2>2. /\ peer'[s] = peer[s] /\ peer'[o].got = q
        /\ peer'[o].sent = peer[o].sent /\ peer'[o].ended = peer[o].ended
    BY <1>1, <2>1 DEF TypeOK, Peer
  <2> QED BY <1>1, <2>1, <2>2 DEF TypeOK, q
<1>3. ASSUME WriteFail(s)
      PROVE  UNCHANGED <<hpc, sock, peer>> /\ chunk'[o] = chunk[o] /\ tpc'[o] = tpc[o]
  BY <1>1, <1>3 DEF WriteFail, TypeOK
<1>4. ASSUME Close(s)
      PROVE  /\ UNCHANGED <<hpc, peer, chunk>> /\ tpc'[s] = "exit" /\ tpc'[o] = tpc[o]
             /\ sock'[s] = sock[s] /\ sock'[o] = CloseWrite(sock[o])
  BY <1>1, <1>4 DEF Close, CloseTargets, TypeOK
<1> QED BY <1>2, <1>3, <1>4

LEMMA ClosedFields ==
  \A so \in Socket : LET x == CloseWrite(so)
                     IN  /\ SameStream(so, x) /\ x.wshut
                         /\ x.fin = so.fin /\ x.rst = so.rst
BY DEF CloseWrite, Socket, SameStream

LEMMA CopyWhole ==
  ASSUME WInv, NEW x \in Sides, Copy(x), NEW s \in Sides
  PROVE  Whole(s)'
<1>1. TypeOK /\ Whole(s) /\ Whole(x) /\ Opp(Opp(s)) = s /\ (x = s \/ x = Opp(s))
      /\ Opp(x) \in Sides /\ Opp(x) # x
  BY OppFacts DEF WInv, SInv, IInv
<1>2. CASE Read(x)
  <2>1. /\ Whole(x)' /\ UNCHANGED <<hpc, peer>>
        /\ SameOutside(sock[x], sock'[x]) /\ sock'[Opp(x)] = sock[Opp(x)]
        /\ tpc'[Opp(x)] = tpc[Opp(x)] /\ chunk'[Opp(x)] = chunk[Opp(x)]
    BY <1>2, ReadWhole
  <2>2. CASE x = Opp(s)
    <3>1. OverAt(s)' <=> OverAt(s)
      BY <1>1, <2>1, <2>2 DEF OverAt
    <3> QED BY <1>1, <2>1, <2>2, <3>1, KeptWhole DEF SameOutside
  <2> QED BY <1>1, <2>1, <2>2
<1>3. CASE Write(x)
  <2>1. CASE x = s
    <3>1. chunk'[s] = <<>> /\ tpc'[s] = "read"
      BY <1>1, <1>3, <2>1, CopyFacts
    <3> QED BY <3>1 DEF Whole
  <2>2. CASE x = Opp(s)
    <3> Opp(x) = s
      BY <1>1, <2>2
    <3>1. /\ UNCHANGED sock /\ chunk'[s] = chunk[s] /\ tpc'[s] = tpc[s]
          /\ peer'[x] = peer[x]
          /\ peer'[s].sent = peer[s].sent /\ peer'[s].ended = peer[s].ended
      BY <1>1, <1>3, <2>2, CopyFacts
    <3>2. OverAt(s)' <=> OverAt(s)
      BY <3>1 DEF OverAt
    <3> QED BY <1>1, <2>2, <3>1, <3>2, KeptWhole
  <2> QED BY <1>1, <2>1, <2>2
<1>4. CASE WriteFail(x)
  <2>1. CASE x = s
    BY <1>4, <2>1, FailWhole
  <2>2. CASE x = Opp(s)
    <3> Opp(x) = s
      BY <1>1, <2>2
    <3>1. UNCHANGED <<sock, peer>> /\ chunk'[s] = chunk[s] /\ tpc'[s] = tpc[s]
      BY <1>1, <1>4, <2>2, CopyFacts
    <3>2. OverAt(s)' <=> OverAt(s)
      BY <3>1 DEF OverAt
    <3> QED BY <1>1, <2>2, <3>1, <3>2, KeptWhole
  <2> QED BY <1>1, <2>1, <2>2
<1>5. CASE WriteCrash(x)
  <2>1. UNCHANGED <<tpc, chunk, sock, peer>>
    BY <1>5 DEF WriteCrash
  <2> QED BY <1>1, <2>1 DEF Whole, Finished, OverAt
<1>6. CASE Close(x)
  <2>1. CASE x = s
    <3>1. UNCHANGED chunk /\ tpc'[s] = "exit"
      BY <1>1, <1>6, <2>1, CopyFacts
    <3> QED BY <1>1, <3>1 DEF Whole
  <2>2. CASE x = Opp(s)
    <3>1. /\ UNCHANGED <<peer, chunk>> /\ tpc'[s] = tpc[s]
          /\ sock'[x] = sock[x] /\ sock'[s] = CloseWrite(sock[s])
      BY <1>1, <1>6, <2>2, CopyFacts
    <3>2. /\ SameStream(sock[s], sock'[s])
          /\ sock'[s].fin = sock[s].fin /\ sock'[s].rst = sock[s].rst
      BY <1>1, <3>1, FieldTypes, ClosedFields
    <3>3. (OverAt(s)' <=> OverAt(s)) /\ Inside(sock'[s]) = Inside(sock[s])
      BY <3>1, <3>2 DEF OverAt, Inside, SameStream
    <3> QED BY <1>1, <2>2, <3>1, <3>2, <3>3, KeptWhole
  <2> QED BY <1>1, <2>1, <2>2
<1> QED BY <1>2, <1>3, <1>4, <1>5, <1>6 DEF Copy

LEMMA NextWhole == WInv /\ [Next]_vars => WInv'
<1> SUFFICES ASSUME WInv, [Next]_vars PROVE \A s \in Sides : Whole(s)'
  BY NextKeeps, NextStreams DEF WInv, SInv
<1> TAKE s \in Sides
<1>1. CASE PeerConnect \/ UNCHANGED vars
  BY <1>1 DEF PeerConnect, vars, WInv, Whole, Finished, OverAt
<1> QED BY <1>1, PeerWhole, HandlerWhole, CopyWhole, SideFacts DEF Next, Reader, Writer

(* The ledger of the blocks, and what a closing thread has seen.            *)
THEOREM WholeInvariance ==
  ASSUME "socks" \notin OutProtos PROVE Spec => []WInv
<1>1. Init => WInv
  BY InitIInv, InitStreams DEF WInv, SInv, Whole, Init
<1> QED BY <1>1, NextWhole, PTL DEF Spec

-----------------------------------------------------------------------------
(* The variables of the abstract relay, as the refinement mapping has them, *)
(* and what its actions are for them.                                       *)
Ends == {1} \X Sides
Phase == [c \in {1} |-> CASE hpc = "join" -> "up"
                          [] hpc \in {"exit", "crashed"} -> "down"
                          [] OTHER -> "idle"]
Src == [e \in Ends |-> peer[e[2]].sent]
Over == [e \in Ends |-> OverAt(e[2])]
Dst == [e \in Ends |-> peer[e[2]].got]
Shut == [e \in Ends |-> ShutAt(e[2])]
Lost == [e \in Ends |-> sock[e[2]].rst]

LEMMA InitMeans ==
  ASSUME /\ Phase = [c \in {1} |-> "idle"]
         /\ Src = [e \in Ends |-> <<>>] /\ Over = [e \in Ends |-> FALSE]
         /\ Dst = [e \in Ends |-> <<>>] /\ Shut = [e \in Ends |-> FALSE]
         /\ Lost = [e \in Ends |-> FALSE]
  PROVE  R!RInit
BY DEF R!RInit, R!REnds, Phase, Src, Over, OverAt, Dst, Shut, ShutAt, Lost, Ends, Sides

LEMMA StutterMeans ==
  ASSUME UNCHANGED <<Phase, Src, Over, Dst, Shut, Lost>>
  PROVE  UNCHANGED R!rvars
BY DEF R!rvars, Phase, Src, Over, OverAt, Dst, Shut, ShutAt, Lost, Ends

LEMMA SendMeans ==
  ASSUME NEW e \in Ends, NEW d \in 1 .. MaxSend, Phase[1] # "down", ~Over[e],
         Src' = [Src EXCEPT ![e] = Append(@, d)],
         UNCHANGED <<Phase, Over, Dst, Shut, Lost>>
  PROVE  R!RNext
<1>1. R!Send(e)
  BY DEF R!Send, Phase, Src, Over, OverAt, Dst, Shut, ShutAt, Lost, Ends
<1> QED BY <1>1 DEF R!RNext, R!REnds, Ends, Sides

LEMMA EndMeans ==
  ASSUME NEW e \in Ends, Phase[1] # "down",
         Over' = [Over EXCEPT ![e] = TRUE],
         UNCHANGED <<Phase, Src, Dst, Shut, Lost>>
  PROVE  R!RNext
<1>1. R!End(e)
  BY DEF R!End, Phase, Src, Over, OverAt, Dst, Shut, ShutAt, Lost, Ends
<1> QED BY <1>1 DEF R!RNext, R!REnds, Ends, Sides

LEMMA LoseMeans ==
  ASSUME NEW e \in Ends, Lost' = [Lost EXCEPT ![e] = TRUE],
         UNCHANGED <<Phase, Src, Over, Dst, Shut>>
  PROVE  R!RNext
<1>1. R!Lose(e)
  BY DEF R!Lose, Phase, Src, Over, OverAt, Dst, Shut, ShutAt, Lost, Ends
<1> QED BY <1>1 DEF R!RNext, R!REnds, Ends, Sides

LEMMA PhaseMeans ==
  ASSUME Phase[1] = "idle", NEW l \in {"up", "down"},
         Phase' = [Phase EXCEPT ![1] = l],
         UNCHANGED <<Src, Over, Dst, Shut, Lost>>
  PROVE  R!RNext
<1>1. R!Establish(1) \/ R!Refuse(1)
  BY DEF R!Establish, R!Refuse, Phase, Src, Over, OverAt, Dst, Shut, ShutAt, Lost, Ends
<1> QED BY <1>1 DEF R!RNext

LEMMA RedialMeans ==
  ASSUME Phase[1] = "idle",
         Src' = [Src EXCEPT ![<<1, "out">>] = <<>>],
         Over' = [Over EXCEPT ![<<1, "out">>] = FALSE],
         Lost' = [Lost EXCEPT ![<<1, "out">>] = FALSE],
         UNCHANGED <<Phase, Dst, Shut>>
  PROVE  R!RNext
<1>1. R!Redial(1)
  BY DEF R!Redial, Phase, Src, Over, OverAt, Dst, Shut, ShutAt, Lost, Ends
<1> QED BY <1>1 DEF R!RNext

LEMMA DeliverMeans ==
  ASSUME NEW s \in Sides, Phase[1] = "up",
         Len(Dst[<<1, Opp(s)>>]) + 1 <= Len(Src[<<1, s>>]),
         Dst' = [Dst EXCEPT ![<<1, Opp(s)>>] =
                    Append(@, Src[<<1, s>>][Len(Dst[<<1, Opp(s)>>]) + 1])],
         UNCHANGED <<Phase, Src, Over, Shut, Lost>>
  PROVE  R!RNext
<1>1. R!Deliver(<<1, s>>)
  BY DEF R!Deliver, R!Other, Opp, Phase, Src, Over, OverAt, Dst, Shut, ShutAt, Lost, Ends
<1> QED BY <1>1 DEF R!RNext, R!REnds, Sides

LEMMA AnnounceMeans ==
  ASSUME NEW s \in Sides, Phase[1] = "up",
         \/ Over[<<1, s>>] /\ Dst[<<1, Opp(s)>>] = Src[<<1, s>>]
         \/ Lost[<<1, s>>] \/ Lost[<<1, Opp(s)>>],
         Shut' = [Shut EXCEPT ![<<1, Opp(s)>>] = TRUE],
         UNCHANGED <<Phase, Src, Over, Dst, Lost>>
  PROVE  R!RNext
<1>1. R!Announce(<<1, s>>)
  BY DEF R!Announce, R!Other, Opp, Phase, Src, Over, OverAt, Dst, Shut, ShutAt, Lost, Ends
<1> QED BY <1>1 DEF R!RNext, R!REnds, Sides

LEMMA TearDownMeans ==
  ASSUME NEW s \in Sides, Phase[1] = "up", Over[<<1, s>>] \/ Lost[<<1, s>>],
         Phase' = [Phase EXCEPT ![1] = "down"],
         Shut' = [e \in Ends |-> FALSE],
         UNCHANGED <<Src, Over, Dst, Lost>>
  PROVE  R!RNext
<1>1. R!TearDown(1)
  BY DEF R!TearDown, R!REnds, Sides, Phase, Src, Over, OverAt, Dst, Shut, ShutAt, Lost, Ends
<1> QED BY <1>1 DEF R!RNext

(* Their values, what leaves them as they are, and what changes one end.    *)
LEMMA EndFacts ==
    /\ \A s \in Sides : <<1, s>> \in Ends
    /\ \A e \in Ends : e[2] \in Sides /\ e = <<1, e[2]>>
BY DEF Ends

LEMMA Values ==
  ASSUME NEW s \in Sides
  PROVE  /\ Src[<<1, s>>] = peer[s].sent /\ Dst[<<1, s>>] = peer[s].got
         /\ Over[<<1, s>>] <=> OverAt(s)
         /\ Lost[<<1, s>>] = sock[s].rst
         /\ Phase[1] = IF hpc = "join" THEN "up"
                       ELSE IF hpc \in {"exit", "crashed"} THEN "down" ELSE "idle"
BY EndFacts DEF Src, Dst, Over, Lost, Phase

LEMMA Unchanged ==
    /\ (\A s \in Sides : peer'[s].sent = peer[s].sent) => UNCHANGED Src
    /\ (\A s \in Sides : peer'[s].got = peer[s].got) => UNCHANGED Dst
    /\ (\A s \in Sides : OverAt(s)' <=> OverAt(s)) => UNCHANGED Over
    /\ (\A s \in Sides : ShutAt(s)' <=> ShutAt(s)) => UNCHANGED Shut
    /\ (\A s \in Sides : sock'[s].rst = sock[s].rst) => UNCHANGED Lost
<1>1. ASSUME \A s \in Sides : peer'[s].sent = peer[s].sent PROVE UNCHANGED Src
  BY <1>1, EndFacts DEF Src
<1>2. ASSUME \A s \in Sides : peer'[s].got = peer[s].got PROVE UNCHANGED Dst
  BY <1>2, EndFacts DEF Dst
<1>3. ASSUME \A s \in Sides : OverAt(s)' <=> OverAt(s) PROVE UNCHANGED Over
  BY <1>3, EndFacts DEF Over, OverAt
<1>4. ASSUME \A s \in Sides : ShutAt(s)' <=> ShutAt(s) PROVE UNCHANGED Shut
  BY <1>4, EndFacts DEF Shut, ShutAt
<1>5. ASSUME \A s \in Sides : sock'[s].rst = sock[s].rst PROVE UNCHANGED Lost
  BY <1>5, EndFacts DEF Lost
<1> QED BY <1>1, <1>2, <1>3, <1>4, <1>5

LEMMA Changed ==
  ASSUME NEW s \in Sides
  PROVE  /\ peer'[Opp(s)].sent = peer[Opp(s)].sent
              => Src' = [Src EXCEPT ![<<1, s>>] = peer'[s].sent]
         /\ peer'[Opp(s)].got = peer[Opp(s)].got
              => Dst' = [Dst EXCEPT ![<<1, s>>] = peer'[s].got]
         /\ (OverAt(Opp(s))' <=> OverAt(Opp(s))) /\ OverAt(s)'
              => Over' = [Over EXCEPT ![<<1, s>>] = TRUE]
         /\ (OverAt(Opp(s))' <=> OverAt(Opp(s))) /\ ~OverAt(s)'
              => Over' = [Over EXCEPT ![<<1, s>>] = FALSE]
         /\ (ShutAt(Opp(s))' <=> ShutAt(Opp(s))) /\ ShutAt(s)'
              => Shut' = [Shut EXCEPT ![<<1, s>>] = TRUE]
         /\ sock'[Opp(s)].rst = sock[Opp(s)].rst
              => Lost' = [Lost EXCEPT ![<<1, s>>] = sock'[s].rst]
<1>1. \A e \in Ends : e[2] \in {s, Opp(s)} /\ (e[2] = s <=> e = <<1, s>>)
  BY EndFacts, OppFacts
<1>2. <<1, s>> \in Ends
  BY EndFacts
<1>3. ASSUME peer'[Opp(s)].sent = peer[Opp(s)].sent
      PROVE  Src' = [Src EXCEPT ![<<1, s>>] = peer'[s].sent]
  BY <1>1, <1>2, <1>3 DEF Src
<1>4. ASSUME peer'[Opp(s)].got = peer[Opp(s)].got
      PROVE  Dst' = [Dst EXCEPT ![<<1, s>>] = peer'[s].got]
  BY <1>1, <1>2, <1>4 DEF Dst
<1>5. ASSUME OverAt(Opp(s))' <=> OverAt(Opp(s)), OverAt(s)'
      PROVE  Over' = [Over EXCEPT ![<<1, s>>] = TRUE]
  BY <1>1, <1>2, <1>5 DEF Over, OverAt
<1>6. ASSUME OverAt(Opp(s))' <=> OverAt(Opp(s)), ~OverAt(s)'
      PROVE  Over' = [Over EXCEPT ![<<1, s>>] = FALSE]
  BY <1>1, <1>2, <1>6 DEF Over, OverAt
<1>7. ASSUME ShutAt(Opp(s))' <=> ShutAt(Opp(s)), ShutAt(s)'
      PROVE  Shut' = [Shut EXCEPT ![<<1, s>>] = TRUE]
  BY <1>1, <1>2, <1>7 DEF Shut, ShutAt
<1>8. ASSUME sock'[Opp(s)].rst = sock[Opp(s)].rst
      PROVE  Lost' = [Lost EXCEPT ![<<1, s>>] = sock'[s].rst]
  BY <1>1, <1>2, <1>8 DEF Lost
<1> QED BY <1>3, <1>4, <1>5, <1>6, <1>7, <1>8

LEMMA PhaseFacts ==
    /\ hpc' = hpc \/ (hpc \in Alone /\ hpc' \in Alone) => UNCHANGED Phase
    /\ hpc' = "join" => Phase' = [Phase EXCEPT ![1] = "up"]
    /\ hpc' \in {"exit", "crashed"} => Phase' = [Phase EXCEPT ![1] = "down"]
    /\ hpc \in Alone => Phase[1] = "idle"
    /\ hpc = "join" => Phase[1] = "up"
BY DEF Phase, Alone

(* A step that the abstract relay does not see.                             *)
LEMMA Unseen ==
  ASSUME UNCHANGED Phase,
         \A s \in Sides : /\ peer'[s].sent = peer[s].sent /\ peer'[s].got = peer[s].got
                          /\ peer'[s].ended = peer[s].ended
                          /\ sock'[s].fin = sock[s].fin /\ sock'[s].rst = sock[s].rst
                          /\ ShutAt(s)' <=> ShutAt(s)
  PROVE  UNCHANGED R!rvars
<1>1. \A s \in Sides : OverAt(s)' <=> OverAt(s)
  BY DEF OverAt
<1> QED BY <1>1, Unchanged, StutterMeans

-----------------------------------------------------------------------------
(* Every step is one of the abstract relay or none.                         *)

LEMMA RefInit == Init => R!RInit
<1> SUFFICES ASSUME Init PROVE R!RInit
  OBVIOUS
<1>1. PICK ip \in InProtos, op \in OutProtos :
         sock = [s \in Sides |-> NewSocket(IF s = "in" THEN ip ELSE op)]
  BY DEF Init
<1>2. /\ \A p : ~NewSocket(p).fin /\ NewSocket(p).rst = FALSE
      /\ NewPeer.sent = <<>> /\ NewPeer.got = <<>> /\ ~NewPeer.ended
  BY DEF NewSocket, NewPeer
<1>3. hpc = "accept"
  BY DEF Init
<1>4. \A s \in Sides :
         /\ sock[s].rst = FALSE /\ ~OverAt(s) /\ ~ShutAt(s)
         /\ peer[s].sent = <<>> /\ peer[s].got = <<>>
  BY <1>1, <1>2, <1>3 DEF Init, OverAt, ShutAt
<1>5. Phase = [c \in {1} |-> "idle"]
  BY <1>3 DEF Phase
<1>6. Src = [e \in Ends |-> <<>>] /\ Dst = [e \in Ends |-> <<>>]
  BY <1>4, EndFacts DEF Src, Dst
<1>7. Lost = [e \in Ends |-> FALSE]
  BY <1>4, EndFacts DEF Lost
<1>8. Over = [e \in Ends |-> FALSE]
  <2>1. \A e \in Ends : OverAt(e[2]) = FALSE
    BY <1>4, EndFacts
  <2> QED BY <2>1, Zenon DEF Over
<1>9. Shut = [e \in Ends |-> FALSE]
  <2>1. \A e \in Ends : ShutAt(e[2]) = FALSE
    BY <1>4, EndFacts
  <2> QED BY <2>1, Zenon DEF Shut
<1> QED BY <1>5, <1>6, <1>7, <1>8, <1>9, InitMeans

LEMMA RefPeer ==
  ASSUME WInv, NEW s \in Sides, PeerStep(s)
  PROVE  R!RNext \/ UNCHANGED R!rvars
<1>1. /\ TypeOK /\ Holds /\ Opp(s) \in Sides /\ <<1, s>> \in Ends
      /\ \A x \in Sides : x = s \/ x = Opp(s)
  BY OppFacts, EndFacts DEF WInv, SInv, IInv
<1>2. /\ UNCHANGED hpc
      /\ sock'[Opp(s)] = sock[Opp(s)] /\ peer'[Opp(s)] = peer[Opp(s)]
      /\ sock'[s].wshut = sock[s].wshut /\ peer'[s].got = peer[s].got
  BY <1>1, PeerFacts
<1>3. OverAt(Opp(s))' <=> OverAt(Opp(s))
  BY <1>2 DEF OverAt
<1>4. \A x \in Sides : ShutAt(x)' <=> ShutAt(x)
  BY <1>1, <1>2 DEF ShutAt
<1>5. UNCHANGED <<Phase, Dst, Shut>>
  BY <1>1, <1>2, <1>4, Unchanged, PhaseFacts
<1>6. Sending(s) /\ hpc # "crashed" => Phase[1] # "down"
  <2>1. hpc = "exit" => ~Sending(s)
    BY <1>1, SideFacts DEF Sending, Holds
  <2> QED BY <2>1, Values
<1>7. CASE /\ PeerSend(s) /\ ~OverAt(s) /\ ~OverAt(s)'
           /\ peer'[s].sent = Append(peer[s].sent, Len(peer[s].sent) + 1)
           /\ sock'[s].rst = sock[s].rst
  <2> DEFINE d == Len(peer[s].sent) + 1
  <2>1. d \in 1 .. MaxSend /\ Phase[1] # "down"
    <3>1. Len(peer[s].sent) \in Nat
      BY <1>1, FieldTypes, LenProperties
    <3> QED BY <1>6, <1>7, <3>1, BoundAssumption DEF PeerSend, MaySendData, Arrive
  <2>2. UNCHANGED <<Over, Lost>>
    BY <1>1, <1>2, <1>3, <1>7, Unchanged
  <2>3. ~Over[<<1, s>>] /\ Src[<<1, s>>] = peer[s].sent
    BY <1>7, Values
  <2>4. Src' = [Src EXCEPT ![<<1, s>>] = Append(@, d)]
    <3>1. Src' = [Src EXCEPT ![<<1, s>>] = peer'[s].sent]
      BY <1>2, Changed
    <3> QED BY <1>7, <2>3, <3>1
  <2> HIDE DEF d
  <2> QED BY <1>1, <1>5, <2>1, <2>2, <2>3, <2>4, SendMeans
<1>8. CASE /\ peer'[s].sent = peer[s].sent /\ sock'[s].rst = sock[s].rst
           /\ OverAt(s)' => OverAt(s) \/ (Sending(s) /\ hpc # "crashed")
  <2>1. UNCHANGED <<Src, Lost>>
    BY <1>1, <1>2, <1>8, Unchanged
  <2>2. CASE OverAt(s)' <=> OverAt(s)
    <3>1. UNCHANGED Over
      BY <1>1, <1>3, <2>2, Unchanged
    <3> QED BY <1>5, <2>1, <3>1, StutterMeans
  <2>3. CASE OverAt(s)' /\ ~OverAt(s)
    <3>1. Over' = [Over EXCEPT ![<<1, s>>] = TRUE] /\ Phase[1] # "down"
      BY <1>3, <1>6, <1>8, <2>3, Changed
    <3> QED BY <1>1, <1>5, <2>1, <3>1, EndMeans
  <2>4. OverAt(s) => OverAt(s)'
    BY <1>1, PeerFacts
  <2> QED BY <2>2, <2>3, <2>4
<1>9. CASE /\ peer'[s].sent = peer[s].sent /\ sock'[s].rst = TRUE
           /\ OverAt(s)' <=> OverAt(s)
  <2>1. UNCHANGED <<Src, Over>>
    BY <1>1, <1>2, <1>3, <1>9, Unchanged
  <2>2. Lost' = [Lost EXCEPT ![<<1, s>>] = TRUE]
    BY <1>2, <1>9, Changed
  <2> QED BY <1>1, <1>5, <2>1, <2>2, LoseMeans
<1> QED BY <1>1, <1>7, <1>8, <1>9, PeerFacts

(* The handler gives up, or the program ends, before there is a relay.      *)
LEMMA RefRefuse ==
  ASSUME hpc \in Alone, hpc' \in {"exit", "crashed"}, UNCHANGED peer,
         \A s \in Sides : sock'[s].fin = sock[s].fin /\ sock'[s].rst = sock[s].rst
  PROVE  R!RNext
<1>1. \A s \in Sides : (OverAt(s)' <=> OverAt(s)) /\ (ShutAt(s)' <=> ShutAt(s))
  BY DEF OverAt, ShutAt, Alone
<1>2. UNCHANGED <<Src, Over, Dst, Shut, Lost>>
  BY <1>1, Unchanged
<1>3. Phase[1] = "idle" /\ Phase' = [Phase EXCEPT ![1] = "down"]
  BY PhaseFacts
<1> QED BY <1>2, <1>3, PhaseMeans

LEMMA ClosedSame ==
  ASSUME TypeOK, NEW S, NEW C, CloseAndFree(S, C), NEW s \in Sides
  PROVE  sock'[s].fin = sock[s].fin /\ sock'[s].rst = sock[s].rst
BY FieldTypes, ClosedFields DEF CloseAndFree

LEMMA RefRetry ==
  ASSUME WInv, hpc \in {"dial", "outhandshake"}, Retry PROVE R!RNext
<1> USE SideFacts
<1>1. /\ TypeOK /\ Idle("out") /\ Opp("out") = "in"
      /\ hpc \in Alone /\ hpc' \in Alone
      /\ sock' = [sock EXCEPT !["out"] = NewSocket(sock["out"].proto)]
      /\ peer' = [peer EXCEPT !["out"] = NewPeer]
  BY AloneIdle DEF WInv, SInv, IInv, Retry, Goto, Alone, Opp
<1>2. /\ sock'["in"] = sock["in"] /\ peer'["in"] = peer["in"]
      /\ sock'["out"] = NewSocket(sock["out"].proto) /\ peer'["out"] = NewPeer
  BY <1>1 DEF TypeOK
<1>3. /\ ~sock'["out"].fin /\ sock'["out"].rst = FALSE
      /\ peer'["out"].sent = <<>> /\ peer'["out"].got = <<>> /\ ~peer'["out"].ended
  BY <1>2 DEF NewSocket, NewPeer
<1>4. /\ ~OverAt("out")' /\ (OverAt("in")' <=> OverAt("in"))
      /\ \A s \in Sides : ShutAt(s)' <=> ShutAt(s)
  BY <1>1, <1>2, <1>3 DEF OverAt, ShutAt, Alone
<1>5. peer["out"].got = <<>>
  BY <1>1 DEF Idle
<1>6. UNCHANGED <<Phase, Dst, Shut>> /\ Phase[1] = "idle"
  BY <1>1, <1>2, <1>3, <1>4, <1>5, Unchanged, PhaseFacts
<1>7. /\ Src' = [Src EXCEPT ![<<1, "out">>] = <<>>]
      /\ Over' = [Over EXCEPT ![<<1, "out">>] = FALSE]
      /\ Lost' = [Lost EXCEPT ![<<1, "out">>] = FALSE]
  BY <1>1, <1>2, <1>3, <1>4, Changed
<1> QED BY <1>6, <1>7, RedialMeans

LEMMA RefJoin ==
  ASSUME WInv, Join PROVE R!RNext
<1>1. /\ hpc = "join" /\ hpc' = "exit" /\ tpc["in"] = "exit" /\ CloseAndFree(Sides, {})
      /\ UNCHANGED peer /\ TypeOK /\ Ledger("in") /\ "in" \in Sides /\ Opp("in") = "out"
      /\ "out" \in Sides
  BY SideFacts DEF Join, Joinable, Goto, WInv, SInv, IInv, Streams, Opp
<1>2. \A s \in Sides : /\ sock'[s].fin = sock[s].fin /\ sock'[s].rst = sock[s].rst
                       /\ OverAt(s)' <=> OverAt(s)
                       /\ ~ShutAt(s)'
  BY <1>1, ClosedSame DEF OverAt, ShutAt
<1>3. \E s \in Sides : OverAt(s) \/ sock[s].rst
  BY <1>1 DEF Ledger, Proper, OverAt
<1>4. UNCHANGED <<Src, Over, Dst, Lost>>
  BY <1>1, <1>2, Unchanged
<1>5. Shut' = [e \in Ends |-> FALSE]
  <2>1. \A e \in Ends : ShutAt(e[2])' = FALSE
    BY <1>2, EndFacts
  <2> QED BY <2>1, Zenon DEF Shut
<1>6. Phase[1] = "up" /\ Phase' = [Phase EXCEPT ![1] = "down"]
  BY <1>1, PhaseFacts
<1> QED BY <1>3, <1>4, <1>5, <1>6, Values, TearDownMeans

LEMMA RefHandler ==
  ASSUME WInv, Handler PROVE R!RNext \/ UNCHANGED R!rvars
<1> USE SideFacts
<1>1. TypeOK /\ SInv
  BY DEF WInv, SInv, IInv
<1>2. CASE Accept \/ DialOk
  <2>1. hpc \in Alone /\ hpc' \in Alone /\ UNCHANGED <<sock, peer>>
    BY <1>2 DEF Accept, DialOk, Goto, Alone
  <2>2. \A s \in Sides : ShutAt(s)' <=> ShutAt(s)
    BY <2>1 DEF ShutAt, Alone
  <2> QED BY <2>1, <2>2, PhaseFacts, Unseen
<1>3. CASE HandshakeOk
  <2>1. /\ hpc \in Alone /\ hpc' \in Alone /\ UNCHANGED peer
        /\ Greeted("in") /\ ReadHeader("in")
    BY <1>3 DEF HandshakeOk, Goto, Alone
  <2>2. \A s \in Sides : sock'[s].fin = sock[s].fin /\ sock'[s].rst = sock[s].rst
    BY <1>1, <2>1, HeaderStream DEF Opp
  <2>3. \A s \in Sides : ShutAt(s)' <=> ShutAt(s)
    BY <2>1 DEF ShutAt, Alone
  <2> QED BY <2>1, <2>2, <2>3, PhaseFacts, Unseen
<1>4. CASE HandshakeFail \/ GiveUp
  <2>1. /\ hpc \in Alone /\ hpc' = "exit" /\ UNCHANGED peer
        /\ CloseAndFree({"in"}, {"in"})
    BY <1>4 DEF HandshakeFail, GiveUp, Goto, Alone
  <2> QED BY <1>1, <2>1, ClosedSame, RefRefuse
<1>5. CASE NullTarget
  <2>1. hpc \in Alone /\ hpc' = "crashed" /\ UNCHANGED <<sock, peer>>
    BY <1>5 DEF NullTarget, Goto, Alone
  <2> QED BY <2>1, RefRefuse
<1>6. CASE DialFail \/ OutHandshakeFail
  BY <1>6, RefRetry DEF DialFail, OutHandshakeFail
<1>7. CASE Connected
  <2>1. /\ hpc \in Alone /\ hpc' = "join" /\ UNCHANGED peer
        /\ Greeted("out") /\ ReadHeader("out")
    BY <1>7 DEF Connected, Goto, Alone
  <2>2. \A s \in Sides : /\ sock'[s].fin = sock[s].fin /\ sock'[s].rst = sock[s].rst
                         /\ sock'[s].wshut = sock[s].wshut
    BY <1>1, <2>1, HeaderStream DEF Opp
  <2>3. \A s \in Sides : ~sock[s].wshut
    BY <1>1, <2>1, AloneIdle DEF Idle
  <2>4. \A s \in Sides : (OverAt(s)' <=> OverAt(s)) /\ (ShutAt(s)' <=> ShutAt(s))
    BY <2>1, <2>2, <2>3 DEF OverAt, ShutAt
  <2>5. UNCHANGED <<Src, Over, Dst, Shut, Lost>>
    BY <2>1, <2>2, <2>4, Unchanged
  <2> QED BY <2>1, <2>5, PhaseFacts, PhaseMeans
<1>8. CASE Join
  BY <1>8, RefJoin
<1> QED BY <1>2, <1>3, <1>4, <1>5, <1>6, <1>7, <1>8 DEF Handler

LEMMA RefCopy ==
  ASSUME WInv, NEW s \in Sides, Copy(s)
  PROVE  R!RNext \/ UNCHANGED R!rvars
<1> DEFINE o == Opp(s)
<1>1. /\ TypeOK /\ o \in Sides /\ o # s /\ Opp(o) = s /\ Ledger(s) /\ Whole(s)
      /\ hpc = "join" /\ \A x \in Sides : x = s \/ x = o
  BY OppFacts DEF WInv, SInv, IInv, Streams, Copy, Read, Write, WriteFail, WriteCrash, Close
<1>2. Phase[1] = "up"
  BY <1>1, PhaseFacts
<1>3. CASE Read(s)
  <2>1. /\ UNCHANGED <<hpc, peer>>
        /\ SameOutside(sock[s], sock'[s]) /\ sock'[o] = sock[o]
    BY <1>3, ReadWhole
  <2>2. \A x \in Sides : /\ sock'[x].fin = sock[x].fin /\ sock'[x].rst = sock[x].rst
                         /\ ShutAt(x)' <=> ShutAt(x)
    BY <1>1, <2>1 DEF SameOutside, ShutAt
  <2> QED BY <2>1, <2>2, PhaseFacts, Unseen
<1>4. CASE Write(s)
  <2> DEFINE n == Len(peer[o].got) + 1
  <2>1. /\ UNCHANGED <<hpc, sock>> /\ peer'[s] = peer[s]
        /\ peer'[o].got = peer[o].got \o chunk[s]
        /\ peer'[o].sent = peer[o].sent /\ peer'[o].ended = peer[o].ended
    BY <1>1, <1>4, CopyFacts
  <2>2. \A x \in Sides : (OverAt(x)' <=> OverAt(x)) /\ (ShutAt(x)' <=> ShutAt(x))
    BY <1>1, <2>1 DEF OverAt, ShutAt
  <2>3. UNCHANGED <<Phase, Src, Over, Shut, Lost>>
    BY <1>1, <2>1, <2>2, Unchanged, PhaseFacts
  <2>4. PICK d \in Nat : chunk[s] = <<d>>
    BY <1>1, <1>4 DEF Whole, Write
  <2>5. /\ peer[o].got \in Seq(Nat) /\ Inside(sock[s]) \in Seq(Nat)
        /\ peer[s].sent = (peer[o].got \o <<d>>) \o Inside(sock[s])
    BY <1>1, <1>4, <2>4, FieldTypes, InsideType DEF Write, Ledger
  <2>6. /\ n <= Len(peer[s].sent) /\ peer[s].sent[n] = d
        /\ peer'[o].got = Append(peer[o].got, d)
    <3> DEFINE g == peer[o].got
               w == peer[s].sent
               r == Inside(sock[s])
    <3>1. g \in Seq(Nat) /\ r \in Seq(Nat) /\ w = (g \o <<d>>) \o r
      BY <2>5
    <3> HIDE DEF g, w, r
    <3>2. Len(g) + 1 <= Len(w) /\ w[Len(g) + 1] = d /\ g \o <<d>> = Append(g, d)
      BY <3>1, NextBlock
    <3>3. /\ Len(peer[o].got) + 1 <= Len(peer[s].sent)
          /\ peer[s].sent[Len(peer[o].got) + 1] = d
          /\ peer[o].got \o <<d>> = Append(peer[o].got, d)
      BY <3>2 DEF g, w
    <3> QED BY <2>1, <2>4, <3>3
  <2>7. Src[<<1, s>>] = peer[s].sent /\ Dst[<<1, o>>] = peer[o].got
    BY <1>1, Values
  <2>8. Dst' = [Dst EXCEPT ![<<1, o>>] =
                   Append(@, Src[<<1, s>>][Len(Dst[<<1, o>>]) + 1])]
    <3>1. Dst' = [Dst EXCEPT ![<<1, o>>] = peer'[o].got]
      BY <1>1, <2>1, Changed
    <3> QED BY <2>6, <2>7, <3>1
  <2> QED BY <1>1, <1>2, <2>3, <2>6, <2>7, <2>8, DeliverMeans
<1>5. CASE WriteFail(s)
  <2>1. UNCHANGED <<hpc, sock, peer>>
    BY <1>5 DEF WriteFail
  <2>2. \A x \in Sides : ShutAt(x)' <=> ShutAt(x)
    BY <2>1 DEF ShutAt
  <2> QED BY <2>1, <2>2, PhaseFacts, Unseen
<1>6. CASE WriteCrash(s)
  <2>1. UNCHANGED <<sock, peer>> /\ hpc' = "crashed" /\ OverAt(s)
    BY <1>1, <1>6 DEF WriteCrash, Goto, Whole, OverAt
  <2>2. \A x \in Sides : (OverAt(x)' <=> OverAt(x)) /\ ~ShutAt(x)'
    BY <2>1 DEF OverAt, ShutAt
  <2>3. Shut' = [e \in Ends |-> FALSE]
    <3>1. \A e \in Ends : ShutAt(e[2])' = FALSE
      BY <2>2, EndFacts
    <3> QED BY <3>1, Zenon DEF Shut
  <2>4. UNCHANGED <<Src, Over, Dst, Lost>>
    BY <2>1, <2>2, Unchanged
  <2> QED BY <1>2, <2>1, <2>3, <2>4, Values, PhaseFacts, TearDownMeans
<1>7. CASE Close(s)
  <2>1. /\ UNCHANGED <<hpc, peer>> /\ sock'[s] = sock[s] /\ sock'[o] = CloseWrite(sock[o])
    BY <1>1, <1>7, CopyFacts
  <2>2. /\ sock'[o].wshut /\ sock'[o].fin = sock[o].fin /\ sock'[o].rst = sock[o].rst
    BY <1>1, <2>1, FieldTypes, ClosedFields
  <2>3. /\ \A x \in Sides : OverAt(x)' <=> OverAt(x)
        /\ ShutAt(o)' /\ (ShutAt(s)' <=> ShutAt(s))
    BY <1>1, <2>1, <2>2 DEF OverAt, ShutAt
  <2>4. UNCHANGED <<Phase, Src, Over, Dst, Lost>>
    BY <1>1, <2>1, <2>2, <2>3, Unchanged, PhaseFacts
  <2>5. Shut' = [Shut EXCEPT ![<<1, o>>] = TRUE]
    BY <1>1, <2>3, Changed
  <2>6. Finished(s)
    BY <1>1, <1>7 DEF Whole, Close
  <2> QED BY <1>1, <1>2, <2>4, <2>5, <2>6, Values, AnnounceMeans DEF Finished
<1> QED BY <1>3, <1>4, <1>5, <1>6, <1>7 DEF Copy

LEMMA RefNext == WInv /\ [Next]_vars => [R!RNext]_R!rvars
<1> SUFFICES ASSUME WInv, [Next]_vars PROVE R!RNext \/ UNCHANGED R!rvars
  OBVIOUS
<1>1. CASE PeerConnect \/ UNCHANGED vars
  <2>1. UNCHANGED <<hpc, sock, peer>>
    BY <1>1 DEF PeerConnect, vars
  <2>2. \A x \in Sides : ShutAt(x)' <=> ShutAt(x)
    BY <2>1 DEF ShutAt
  <2> QED BY <2>1, <2>2, PhaseFacts, Unseen
<1> QED BY <1>1, RefPeer, RefHandler, RefCopy, SideFacts DEF Next, Reader, Writer

(* The threaded relay implements the abstract one: it hands each stream on  *)
(* in order, a block at a time, announces an end only behind all of it or   *)
(* when a peer was lost, and gives up only when there is a reason to.       *)
THEOREM Refinement ==
  ASSUME "socks" \notin OutProtos PROVE Spec => RelaySpec
<1> QED BY RefInit, RefNext, WholeInvariance, PTL DEF Spec, RelaySpec, R!RSpec
=============================================================================

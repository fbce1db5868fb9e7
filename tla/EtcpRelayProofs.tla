-------------------------- MODULE EtcpRelayProofs --------------------------
(***************************************************************************)
(* For every number of connections, every mixture of protocols and every    *)
(* bound, the epoll worker keeps its types, never touches what              *)
(* etcp_remove_conn has freed, and leaks no socket.  For the streams it     *)
(* relays: where each block of one is, what an end without an event may     *)
(* hide, and that between any outbounds but SOCKS ones every step is a step *)
(* of the abstract relay or leaves it as it is.                             *)
(***************************************************************************)
EXTENDS EtcpRelay, TcpSocketProofs, FiniteSetTheorems

(* The open sockets that a connection being set up holds.                   *)
Held ==
    CASE pc \in {"dial", "crashed"} \/ (pc = "handshake" /\ cur[2] = "in") -> {cur}
      [] pc = "register" \/ (pc = "handshake" /\ cur[2] = "out") -> EndsOf(cur[1])
      [] pc \notin {"dial", "crashed", "handshake", "register"} -> {}

(* The two relay conns of a connection live and die together.               *)
Paired == \A e \in Ends : conn[Opp(e)] = conn[e] /\ nclosed[Opp(e)] = nclosed[e]

(* Exactly the live ones are in the epoll set.                              *)
Registered == \A e \in Ends : epoll[e] # "none" <=> conn[e] = "live"

(* A socket is open while its relay conn lives or while it is being set up. *)
Owned == \A e \in Ends :
            /\ st[e] = "open" <=> conn[e] = "live" \/ e \in Held
            /\ e \in Held => conn[e] = "none"
            /\ conn[e] = "freed" => st[e] = "freed"

(* Ends of stream counted: none before it lives, at most one while it does. *)
Counted == \A e \in Ends :
              /\ conn[e] = "none" => nclosed[e] = 0
              /\ conn[e] = "live" => nclosed[e] <= 1

(* There is at most one event to handle, and it is of a live relay conn.    *)
OneEvent == /\ \A e, f \in harvested : e = f
            /\ \A e \in harvested : conn[e] = "live"
            /\ harvested # {} => pc = "wait"

(* So is the one being handled; the setting up begins with the client.      *)
Placed == /\ pc \in {"read", "write", "eof", "fail"} => conn[cur] = "live"
          /\ pc = "dial" => cur[2] = "in"
          /\ pc = "register" => cur[2] = "out"

IInv == TypeOK /\ Paired /\ Registered /\ Owned /\ Counted /\ OneEvent /\ Placed

-----------------------------------------------------------------------------
(* Ends and pairs.                                                          *)
LEMMA EndFacts ==
  ASSUME NEW e \in Ends
  PROVE  /\ e[1] \in Conns /\ e[2] \in Sides
         /\ Opp(e) \in Ends /\ Opp(Opp(e)) = e /\ Opp(e) # e
         /\ Opp(e)[1] = e[1]
         /\ EndsOf(e[1]) = {e, Opp(e)}
         /\ EndsOf(e[1]) \subseteq Ends
BY DEF Ends, Sides, Opp, EndsOf

LEMMA EndsOfFacts ==
  ASSUME NEW c \in Conns
  PROVE  /\ <<c, "in">> \in Ends /\ <<c, "out">> \in Ends
         /\ EndsOf(c) \subseteq Ends
         /\ \A e \in Ends : e \in EndsOf(c) <=> e[1] = c
         /\ \A e \in Ends : Opp(e) \in EndsOf(c) <=> e \in EndsOf(c)
BY DEF Ends, Sides, Opp, EndsOf

(* NewPeer is one.                                                          *)
LEMMA NewPeerType == NewPeer \in Peer
<1>1. <<>> \in Seq(Nat)
  OBVIOUS
<1> QED BY <1>1 DEF NewPeer, Peer

LEMMA InitIInv == Init => IInv
<1> SUFFICES ASSUME Init PROVE IInv
  OBVIOUS
<1>1. TypeOK
  <2>1. sock \in [Ends -> Socket]
    <3>1. PICK ip \in InProtos, op \in OutProtos :
             sock = [e \in Ends |-> NewSocket(IF e[2] = "in" THEN ip ELSE op)]
      BY DEF Init
    <3>2. ip \in Protos /\ op \in Protos
      BY ProtoAssumption
    <3> QED BY <3>1, <3>2, NewSocketType
  <2>2. peer \in [Ends -> Peer]
    BY NewPeerType DEF Init
  <2>3. chunk \in Seq(Nat)
    BY DEF Init
  <2> QED BY <2>1, <2>2, <2>3 DEF Init, TypeOK, WorkerLoc
<1>2. Paired
  BY EndFacts DEF Init, Paired
<1>3. Held = {}
  BY DEF Init, Held
<1>4. Registered /\ Owned /\ Counted /\ OneEvent /\ Placed
  BY <1>3 DEF Init, Registered, Owned, Counted, OneEvent, Placed
<1> QED BY <1>1, <1>2, <1>4 DEF IInv

-----------------------------------------------------------------------------
(* Whatever arrives for an end keeps the invariant.                         *)
LEMMA ArriveKeeps ==
  ASSUME IInv, NEW e \in Ends, NEW s \in Socket, NEW p \in Peer, Arrive(e, s, p)
  PROVE  IInv'
<1> USE DEF Arrive, workerVars
<1>0. TypeOK /\ Paired /\ Registered /\ Owned /\ Counted /\ OneEvent /\ Placed
  BY DEF IInv
<1>1. \A x \in Ends : /\ epoll'[x] \in {"none", "armed", "ready"}
                       /\ epoll'[x] = "none" <=> epoll[x] = "none"
  BY <1>0 DEF TypeOK, Wake
<1>2. TypeOK'
  <2>1. epoll' \in [Ends -> {"none", "armed", "ready"}]
    BY <1>0 DEF TypeOK, Wake
  <2> QED BY <1>0, <2>1 DEF TypeOK
<1>3. Held' = Held
  BY DEF Held
<1>4. Paired' /\ Counted' /\ OneEvent' /\ Placed'
  BY <1>0 DEF Paired, Counted, OneEvent, Placed
<1>5. Registered'
  BY <1>0, <1>1 DEF Registered
<1>6. Owned'
  BY <1>0, <1>3 DEF Owned
<1> QED BY <1>2, <1>4, <1>5, <1>6 DEF IInv

(* The fields of a peer that its steps change.                              *)
LEMMA PeerFields ==
  ASSUME NEW p \in Peer
  PROVE  /\ [p EXCEPT !.greeted = TRUE] \in Peer
         /\ [p EXCEPT !.ended = TRUE] \in Peer
         /\ \A b \in BOOLEAN : [p EXCEPT !.ended = b] \in Peer
         /\ \A q \in Seq(Nat) : [p EXCEPT !.sent = q] \in Peer
         /\ \A t \in {"open", "fin", "rst"} : [p EXCEPT !.told = t] \in Peer
         /\ \A n \in Nat : [p EXCEPT !.unread = n] \in Peer
         /\ \A q \in Seq(Nat), n \in Nat : [p EXCEPT !.got = q, !.unread = n] \in Peer
BY DEF Peer

(* The fields of a socket that what arrives changes.                        *)
LEMMA SocketFields ==
  ASSUME NEW s \in Socket
  PROVE  /\ [s EXCEPT !.hello = TRUE] \in Socket
         /\ [s EXCEPT !.kend = TRUE] \in Socket
         /\ [s EXCEPT !.fin = TRUE] \in Socket
         /\ [s EXCEPT !.rst = TRUE] \in Socket
         /\ \A q \in Seq(Nat) : [s EXCEPT !.kbuf = q] \in Socket
BY DEF Socket

(* The peers' steps.                                                        *)
LEMMA PeersKeep == IInv /\ Peers => IInv'
<1> SUFFICES ASSUME IInv, Peers PROVE IInv'
  OBVIOUS
<1>0. TypeOK /\ Paired /\ Registered /\ Owned /\ Counted /\ OneEvent /\ Placed
  BY DEF IInv
<1>1. ASSUME NEW c \in Conns, PeerConnect(c) PROVE IInv'
  <2> USE DEF PeerConnect, workerVars, connVars
  <2>1. TypeOK'
    BY <1>0, <1>1 DEF TypeOK
  <2>2. Held' = Held
    BY <1>1 DEF Held
  <2>3. Paired' /\ Registered' /\ Counted' /\ OneEvent' /\ Placed'
    BY <1>0, <1>1 DEF Paired, Registered, Counted, OneEvent, Placed
  <2>4. Owned'
    BY <1>0, <1>1, <2>2, EndsOfFacts DEF Owned, TypeOK
  <2> QED BY <2>1, <2>3, <2>4 DEF IInv
<1>2. ASSUME NEW e \in Ends,
             PeerGreet(e) \/ PeerSend(e) \/ PeerEnd(e) \/ PeerFin(e) \/ PeerReset(e)
      PROVE  IInv'
  <2>1. sock[e] \in Socket /\ peer[e] \in Peer
    BY <1>0 DEF TypeOK
  <2>2. CASE PeerGreet(e)
    BY <2>1, <2>2, SocketFields, PeerFields, ArriveKeeps DEF PeerGreet
  <2>3. CASE PeerSend(e)
    <3>1. sock[e].kbuf \in Seq(Nat) /\ peer[e].sent \in Seq(Nat)
      BY <2>1 DEF Socket, Peer
    <3> DEFINE d == Len(peer[e].sent) + 1
               k == Append(sock[e].kbuf, d)
               q == Append(peer[e].sent, d)
    <3>2. d \in Nat
      BY <3>1, LenProperties
    <3> HIDE DEF d
    <3>3. k \in Seq(Nat) /\ q \in Seq(Nat)
      BY <3>1, <3>2, AppendProperties
    <3>4. Arrive(e, [sock[e] EXCEPT !.kbuf = k], [peer[e] EXCEPT !.sent = q])
      BY <2>3 DEF PeerSend, d
    <3> HIDE DEF k, q
    <3> QED BY <2>1, <3>3, <3>4, SocketFields, PeerFields, ArriveKeeps
  <2>4. CASE PeerEnd(e)
    BY <2>1, <2>4, SocketFields, PeerFields, ArriveKeeps DEF PeerEnd
  <2>5. CASE PeerFin(e)
    <3> DEFINE b == peer[e].ended \/ sock[e].proto # "vmess"
    <3>1. b \in BOOLEAN
      OBVIOUS
    <3>2. Arrive(e, [sock[e] EXCEPT !.fin = TRUE], [peer[e] EXCEPT !.ended = b])
      BY <2>5 DEF PeerFin
    <3> HIDE DEF b
    <3> QED BY <2>1, <3>1, <3>2, SocketFields, PeerFields, ArriveKeeps
  <2>6. CASE PeerReset(e)
    BY <2>1, <2>6, SocketFields, PeerFields, ArriveKeeps DEF PeerReset
  <2> QED BY <1>2, <2>2, <2>3, <2>4, <2>5, <2>6
<1>3. ASSUME NEW e \in Ends, PeerRecv(e) PROVE IInv'
  <2> USE DEF PeerRecv, workerVars, connVars
  <2>1. peer[e] \in Peer
    BY <1>0 DEF TypeOK
  <2> DEFINE n == peer[e].unread - 1
  <2>n. n \in Nat
    BY <1>3, <2>1 DEF Peer
  <2> HIDE DEF n
  <2>2. [peer[e] EXCEPT !.unread = n] \in Peer
    BY <2>1, <2>n, PeerFields
  <2>3. TypeOK'
    BY <1>0, <1>3, <2>2 DEF TypeOK, n
  <2>4. Held' = Held
    BY <1>3 DEF Held
  <2>5. Paired' /\ Registered' /\ Counted' /\ OneEvent' /\ Placed' /\ Owned'
    BY <1>0, <1>3, <2>4 DEF Paired, Registered, Counted, OneEvent, Placed, Owned
  <2> QED BY <2>3, <2>5 DEF IInv
<1> QED BY <1>1, <1>2, <1>3 DEF Peers

-----------------------------------------------------------------------------
(* Closing and freeing keeps the types, and says which sockets are freed.   *)
LEMMA CloseAndFreeTypes ==
  ASSUME TypeOK, NEW S, NEW C, CloseAndFree(S, C)
  PROVE  /\ st' \in [Ends -> {"none", "queued", "open", "freed"}]
         /\ sock' \in [Ends -> Socket]
         /\ peer' \in [Ends -> Peer]
         /\ \A e \in Ends : st'[e] = IF e \in S THEN "freed" ELSE st[e]
<1>1. \A e \in Ends : sock[e] \in Socket /\ CloseWrite(sock[e]) \in Socket
  BY CloseWriteType DEF TypeOK
<1>2. \A e \in Ends : peer[e] \in Peer /\ \A t \in {"open", "fin", "rst"} :
                        [peer[e] EXCEPT !.told = t] \in Peer
  BY PeerFields DEF TypeOK
<1>3. sock' \in [Ends -> Socket]
  BY <1>1 DEF CloseAndFree
<1>4. peer' \in [Ends -> Peer]
  BY <1>2 DEF CloseAndFree
<1>5. /\ st' \in [Ends -> {"none", "queued", "open", "freed"}]
      /\ \A e \in Ends : st'[e] = IF e \in S THEN "freed" ELSE st[e]
  BY DEF CloseAndFree, TypeOK
<1> QED BY <1>3, <1>4, <1>5

(* Setting up a connection.                                                 *)
LEMMA SetUpKeeps ==
  ASSUME IInv,
         (\E c \in Conns : Accept(c)) \/ HandshakeOk \/ HandshakeFail
            \/ NullTarget \/ DialOk \/ DialFail \/ Register
  PROVE  IInv'
<1> USE DEF connVars
<1>0. TypeOK /\ Paired /\ Registered /\ Owned /\ Counted /\ OneEvent /\ Placed
  BY DEF IInv
<1>c. /\ cur \in Ends /\ cur[1] \in Conns /\ cur[2] \in {"in", "out"}
      /\ Opp(cur) \in Ends /\ Opp(cur)[1] = cur[1]
      /\ EndsOf(cur[1]) = {cur, Opp(cur)}
  BY <1>0, EndFacts DEF TypeOK, Sides
<1>1. ASSUME NEW c \in Conns, Accept(c) PROVE IInv'
  <2> DEFINE e == <<c, "in">>
  <2>e. e \in Ends /\ e[2] = "in"
    BY EndsOfFacts
  <2>a. /\ pc = "wait" /\ pc' = "handshake" /\ cur' = e /\ harvested = {} /\ harvested' = {}
        /\ st[e] = "queued" /\ st' = [st EXCEPT ![e] = "open"]
        /\ UNCHANGED <<chunk, epoll, conn, nclosed, sock, peer>>
    BY <1>1 DEF Accept
  <2> HIDE DEF e
  <2>1. TypeOK'
    BY <1>0, <2>e, <2>a DEF TypeOK, WorkerLoc
  <2>2. Held = {} /\ Held' = {e}
    BY <2>e, <2>a DEF Held
  <2>3. conn[e] = "none"
    BY <1>0, <2>e, <2>a, <2>2 DEF TypeOK, Owned
  <2>4. Owned'
    BY <1>0, <2>e, <2>a, <2>2, <2>3 DEF TypeOK, Owned
  <2>5. Paired' /\ Registered' /\ Counted' /\ OneEvent' /\ Placed'
    BY <1>0, <2>a DEF Paired, Registered, Counted, OneEvent, Placed
  <2> QED BY <2>1, <2>4, <2>5 DEF IInv
<1>2. CASE HandshakeOk
  <2>1. PICK over \in Overread(sock[cur]) :
          sock' = [sock EXCEPT ![cur] = ReadHello(sock[cur], over)]
    BY <1>2 DEF HandshakeOk
  <2>2. sock' \in [Ends -> Socket]
    BY <1>0, <1>c, <2>1, ReadHelloType DEF TypeOK
  <2>3. TypeOK'
    BY <1>0, <1>2, <2>2 DEF TypeOK, WorkerLoc, HandshakeOk
  <2>4. Held' = Held
    BY <1>2, <1>c DEF HandshakeOk, Held
  <2>5. Owned'
    BY <1>0, <1>2, <2>4 DEF Owned, HandshakeOk
  <2>6. Paired' /\ Registered' /\ Counted' /\ OneEvent' /\ Placed'
    BY <1>0, <1>2, <1>c DEF Paired, Registered, Counted, OneEvent, Placed, HandshakeOk
  <2> QED BY <2>3, <2>5, <2>6 DEF IInv
<1>3. CASE HandshakeFail
  <2>1. Held = Failed(cur) /\ Held' = {}
    BY <1>3, <1>c DEF HandshakeFail, Held, Failed
  <2>2. /\ TypeOK'
        /\ \A e \in Ends : st'[e] = IF e \in Held THEN "freed" ELSE st[e]
    BY <1>0, <1>3, <2>1, CloseAndFreeTypes DEF TypeOK, WorkerLoc, HandshakeFail
  <2>3. Owned'
    BY <1>0, <1>3, <2>1, <2>2 DEF Owned, HandshakeFail
  <2>4. Paired' /\ Registered' /\ Counted' /\ OneEvent' /\ Placed'
    BY <1>0, <1>3 DEF Paired, Registered, Counted, OneEvent, Placed, HandshakeFail
  <2> QED BY <2>2, <2>3, <2>4 DEF IInv
<1>4. CASE DialOk
  <2>1. cur[2] = "in" /\ Opp(cur)[2] = "out" /\ EndsOf(Opp(cur)[1]) = {cur, Opp(cur)}
    BY <1>0, <1>4, <1>c DEF Placed, DialOk, Opp
  <2>2. Held = {cur} /\ Held' = {cur, Opp(cur)}
    BY <1>4, <2>1 DEF DialOk, Held
  <2>3. TypeOK'
    BY <1>0, <1>4, <1>c DEF TypeOK, WorkerLoc, DialOk
  <2>4. conn[cur] = "none" /\ conn[Opp(cur)] = "none"
    BY <1>0, <1>c, <2>2 DEF Owned, Paired
  <2>5. Owned'
    BY <1>0, <1>4, <1>c, <2>2, <2>4 DEF Owned, TypeOK, DialOk
  <2>6. Paired' /\ Registered' /\ Counted' /\ OneEvent' /\ Placed'
    BY <1>0, <1>4 DEF Paired, Registered, Counted, OneEvent, Placed, DialOk
  <2> QED BY <2>3, <2>5, <2>6 DEF IInv
<1>5. CASE DialFail
  <2>1. Held = {cur} /\ Held' = {}
    BY <1>5 DEF DialFail, Held
  <2>2. /\ TypeOK'
        /\ \A e \in Ends : st'[e] = IF e \in EndsOf(cur[1]) THEN "freed" ELSE st[e]
    BY <1>0, <1>5, CloseAndFreeTypes DEF TypeOK, WorkerLoc, DialFail
  <2>3. conn[cur] = "none" /\ conn[Opp(cur)] = "none"
    BY <1>0, <1>c, <2>1 DEF Owned, Paired
  <2>4. Owned'
    BY <1>0, <1>5, <1>c, <2>1, <2>2, <2>3 DEF Owned, DialFail
  <2>5. Paired' /\ Registered' /\ Counted' /\ OneEvent' /\ Placed'
    BY <1>0, <1>5 DEF Paired, Registered, Counted, OneEvent, Placed, DialFail
  <2> QED BY <2>2, <2>4, <2>5 DEF IInv
<1>6. CASE Register
  <2>1. Held = EndsOf(cur[1]) /\ Held' = {}
    BY <1>6 DEF Register, Held
  <2>2. \A e \in Ends : /\ conn'[e] = IF e \in Held THEN "live" ELSE conn[e]
                        /\ epoll'[e] = IF e \in Held THEN Added(e) ELSE epoll[e]
                        /\ Added(e) \in {"armed", "ready"}
                        /\ e \in Held <=> Opp(e) \in Held
    BY <1>0, <1>6, <1>c, <2>1, EndsOfFacts DEF Register, Added
  <2>3. TypeOK'
    <3>1. conn' \in [Ends -> {"none", "live", "freed"}]
      BY <1>0, <1>6 DEF TypeOK, Register
    <3>2. epoll' \in [Ends -> {"none", "armed", "ready"}]
      BY <1>0, <1>6 DEF TypeOK, Register, Added
    <3> QED BY <1>0, <1>6, <3>1, <3>2 DEF TypeOK, WorkerLoc, Register
  <2>4. Owned'
    BY <1>0, <1>6, <2>1, <2>2 DEF Owned, Register
  <2>5. Registered'
    BY <1>0, <1>6, <2>2 DEF Registered, Register
  <2>6. Paired'
    <3>1. \A e \in Ends : Opp(e) \in Ends
      BY EndFacts
    <3> QED BY <1>0, <1>6, <2>2, <3>1 DEF Paired, Register
  <2>7. Counted'
    BY <1>0, <1>6, <2>2 DEF Counted, Owned, Register
  <2>8. OneEvent' /\ Placed'
    BY <1>0, <1>6 DEF OneEvent, Placed, Register
  <2> QED BY <2>3, <2>4, <2>5, <2>6, <2>7, <2>8 DEF IInv
<1>7. CASE NullTarget
  <2>1. TypeOK'
    BY <1>0, <1>7 DEF TypeOK, WorkerLoc, NullTarget
  <2>2. Held' = Held
    BY <1>7 DEF NullTarget, Held
  <2>3. Paired' /\ Registered' /\ Owned' /\ Counted' /\ OneEvent' /\ Placed'
    BY <1>0, <1>7, <2>2
       DEF Paired, Registered, Owned, Counted, OneEvent, Placed, NullTarget
  <2> QED BY <2>1, <2>3 DEF IInv
<1> QED BY <1>1, <1>2, <1>3, <1>4, <1>5, <1>6, <1>7

-----------------------------------------------------------------------------
(* etcp_remove_conn, called for a live relay conn while it is handled.      *)
LEMMA RemoveConnKeeps ==
  ASSUME IInv, pc \in {"eof", "fail"}, pc' = "wait", NEW C, RemoveConn(cur[1], C),
         UNCHANGED <<cur, harvested, chunk>>,
         nclosed' \in [Ends -> 0 .. 2],
         \A e \in Ends : nclosed'[Opp(e)] = nclosed'[e],
         \A e \in Ends : e[1] # cur[1] => nclosed'[e] = nclosed[e]
  PROVE  IInv'
<1>0. TypeOK /\ Paired /\ Registered /\ Owned /\ Counted /\ OneEvent /\ Placed
  BY DEF IInv
<1> DEFINE G == EndsOf(cur[1])
<1>1. \A e \in Ends : /\ e \in G <=> e[1] = cur[1]
                      /\ e \in G <=> Opp(e) \in G
                      /\ Opp(e) \in Ends
  <2>1. cur[1] \in Conns
    BY <1>0, EndFacts DEF TypeOK
  <2> QED BY <2>1, EndFacts, EndsOfFacts
<1>2. \A e \in Ends : /\ epoll'[e] = IF e \in G THEN "none" ELSE epoll[e]
                      /\ conn'[e] = IF e \in G THEN "freed" ELSE conn[e]
                      /\ st'[e] = IF e \in G THEN "freed" ELSE st[e]
  <2>1. CloseAndFree(G, C)
    BY DEF RemoveConn
  <2> QED BY <1>0, <2>1, CloseAndFreeTypes DEF RemoveConn
<1>3. TypeOK'
  <2>1. /\ epoll' \in [Ends -> {"none", "armed", "ready"}]
        /\ conn' \in [Ends -> {"none", "live", "freed"}]
    BY <1>0 DEF RemoveConn, TypeOK
  <2> QED BY <1>0, <2>1, CloseAndFreeTypes DEF RemoveConn, TypeOK, WorkerLoc
<1>4. Held = {} /\ Held' = {}
  BY DEF Held
<1> HIDE DEF G
<1>5. Paired' /\ Registered' /\ Owned' /\ Counted'
  BY <1>0, <1>1, <1>2, <1>4 DEF Paired, Registered, Owned, Counted
<1>6. harvested' = {}
  BY <1>0 DEF OneEvent
<1>7. OneEvent' /\ Placed'
  BY <1>6 DEF OneEvent, Placed
<1> QED BY <1>3, <1>5, <1>7 DEF IInv

(* Both relay conns of a connection count an end of stream.                 *)
LEMMA CountClosedFacts ==
  ASSUME IInv, pc = "eof", CountClosed(cur[1])
  PROVE  /\ nclosed' \in [Ends -> 0 .. 2]
         /\ \A e \in Ends : nclosed'[Opp(e)] = nclosed'[e]
         /\ \A e \in Ends : nclosed'[e] = IF e[1] = cur[1] THEN nclosed[cur] + 1
                                          ELSE nclosed[e]
<1>0. TypeOK /\ Paired /\ Counted /\ Placed
  BY DEF IInv
<1>1. cur \in Ends /\ cur[1] \in Conns
  BY <1>0, EndFacts DEF TypeOK
<1>2. \A e \in Ends : /\ e \in EndsOf(cur[1]) <=> e[1] = cur[1]
                      /\ e[1] = cur[1] => e = cur \/ e = Opp(cur)
                      /\ Opp(e) \in Ends /\ Opp(e)[1] = e[1]
  BY <1>1, EndFacts, EndsOfFacts
<1>3. nclosed[cur] \in 0 .. 1 /\ nclosed[Opp(cur)] = nclosed[cur]
  BY <1>0, <1>1 DEF TypeOK, Counted, Placed, Paired
<1>4. \A e \in Ends : e[1] = cur[1] => nclosed[e] = nclosed[cur]
  BY <1>2, <1>3
<1>5. \A e \in Ends : nclosed'[e] = IF e[1] = cur[1] THEN nclosed[cur] + 1
                                    ELSE nclosed[e]
  BY <1>2, <1>4 DEF CountClosed
<1>6. nclosed' \in [Ends -> 0 .. 2]
  <2>1. \A e \in Ends : (IF e \in EndsOf(cur[1]) THEN nclosed[e] + 1 ELSE nclosed[e]) \in 0 .. 2
    BY <1>0, <1>2, <1>3, <1>4 DEF TypeOK
  <2> QED BY <2>1 DEF CountClosed
<1>7. \A e \in Ends : nclosed'[Opp(e)] = nclosed'[e]
  BY <1>0, <1>2, <1>5 DEF Paired
<1> QED BY <1>5, <1>6, <1>7

(* Waiting for events and handling them.                                    *)
LEMMA PipeKeeps ==
  ASSUME IInv,
         EpollWait \/ (\E e \in Ends : Dispatch(e)) \/ Read \/ Write \/ WriteFail
            \/ HalfClose \/ FullClose \/ Fail
  PROVE  IInv'
<1> USE DEF connVars
<1>0. TypeOK /\ Paired /\ Registered /\ Owned /\ Counted /\ OneEvent /\ Placed
  BY DEF IInv
<1>c. /\ cur \in Ends /\ cur[1] \in Conns
      /\ Opp(cur) \in Ends /\ Opp(cur)[1] = cur[1]
  BY <1>0, EndFacts DEF TypeOK
<1>1. CASE EpollWait
  <2>1. PICK S \in SUBSET {e \in Ends : epoll[e] = "ready"} :
           /\ Cardinality(S) \in 1 .. MaxEvents
           /\ harvested' = {e \in S : Readable(sock[e])}
           /\ epoll' = [e \in Ends |-> IF e \in S THEN "armed" ELSE epoll[e]]
    BY <1>1 DEF EpollWait
  <2>2. IsFiniteSet(S)
    <3>1. IsFiniteSet(Sides)
      <4>1. IsFiniteSet({"in"}) /\ Sides = {"in"} \cup {"out"}
        BY FS_Singleton DEF Sides
      <4> QED BY <4>1, FS_AddElement
    <3>2. IsFiniteSet(Ends)
      BY <3>1, ConnAssumption, FS_Product DEF Ends
    <3>3. S \subseteq Ends
      OBVIOUS
    <3> QED BY <3>2, <3>3, FS_Subset
  <2>3. Cardinality(S) = 1
    BY <2>1 DEF MaxEvents
  <2>4. \A e, f \in S : e = f
    BY <2>2, <2>3, FS_Singleton
  <2>5. \A e \in Ends : /\ epoll'[e] = "none" <=> epoll[e] = "none"
                        /\ e \in S => conn[e] = "live"
    BY <1>0, <2>1 DEF Registered
  <2>6. TypeOK'
    <3>1. harvested' \subseteq Ends
      BY <2>1
    <3>2. epoll' \in [Ends -> {"none", "armed", "ready"}]
      BY <1>0, <2>1 DEF TypeOK
    <3> QED BY <1>0, <1>1, <3>1, <3>2 DEF TypeOK, EpollWait
  <2>7. Held' = Held
    BY <1>1 DEF EpollWait, Held
  <2>8. Paired' /\ Owned' /\ Counted' /\ Placed'
    BY <1>0, <1>1, <2>7 DEF Paired, Owned, Counted, Placed, EpollWait
  <2>9. Registered'
    BY <1>0, <1>1, <2>5 DEF Registered, EpollWait
  <2>10. OneEvent'
    BY <1>1, <2>1, <2>4, <2>5 DEF OneEvent, EpollWait
  <2> QED BY <2>6, <2>8, <2>9, <2>10 DEF IInv
<1>2. ASSUME NEW e \in Ends, Dispatch(e) PROVE IInv'
  <2>1. conn[e] = "live" /\ harvested' = {}
    BY <1>0, <1>2 DEF OneEvent, Dispatch
  <2>2. TypeOK'
    BY <1>0, <1>2, <2>1 DEF TypeOK, WorkerLoc, Dispatch
  <2>3. Held = {} /\ Held' = {}
    BY <1>2 DEF Dispatch, Held
  <2>4. Paired' /\ Registered' /\ Owned' /\ Counted' /\ OneEvent' /\ Placed'
    BY <1>0, <1>2, <2>1, <2>3
       DEF Paired, Registered, Owned, Counted, OneEvent, Placed, Dispatch
  <2> QED BY <2>2, <2>4 DEF IInv
<1>3. CASE Read
  <2> DEFINE r == TryRead(sock[cur])
  <2>1. r.res \in Results /\ r.data \in Seq(Nat) /\ r.sock \in Socket
    BY <1>0, <1>c, TryReadType DEF TypeOK, ResultType
  <2>2. /\ pc = "read" /\ pc' = AfterRead(r.res) /\ chunk' = r.data
        /\ sock' = [sock EXCEPT ![cur] = r.sock]
        /\ UNCHANGED <<cur, harvested, epoll, conn, nclosed, st, peer>>
    BY <1>3 DEF Read
  <2> HIDE DEF r
  <2>3. pc' \in {"write", "eof", "wait", "fail"}
    BY <2>1, <2>2 DEF AfterRead, Results
  <2>4. TypeOK'
    BY <1>0, <1>c, <2>1, <2>2, <2>3 DEF TypeOK, WorkerLoc
  <2>5. Held = {} /\ Held' = {}
    BY <2>2, <2>3 DEF Held
  <2>6. Paired' /\ Registered' /\ Owned' /\ Counted' /\ OneEvent' /\ Placed'
    BY <1>0, <2>2, <2>3, <2>5 DEF Paired, Registered, Owned, Counted, OneEvent, Placed
  <2> QED BY <2>4, <2>6 DEF IInv
<1>4. CASE Write
  <2> DEFINE o == Opp(cur)
             g == peer[o].got \o chunk
             n == peer[o].unread + 1
  <2>1. peer[o] \in Peer /\ chunk \in Seq(Nat)
    BY <1>0, <1>c DEF TypeOK
  <2>2. g \in Seq(Nat) /\ n \in Nat
    BY <2>1, ConcatProperties DEF Peer
  <2>3. peer' = [peer EXCEPT ![o] = [peer[o] EXCEPT !.got = g, !.unread = n]]
    BY <1>0, <1>c, <1>4 DEF Write, TypeOK
  <2> HIDE DEF g, n
  <2>4. peer' \in [Ends -> Peer]
    BY <1>0, <1>c, <2>1, <2>2, <2>3, PeerFields DEF TypeOK
  <2>5. pc' = "read" /\ chunk' \in Seq(Nat)
    BY <1>4 DEF Write, AfterWrite
  <2>6. TypeOK'
    BY <1>0, <1>4, <2>4, <2>5 DEF TypeOK, WorkerLoc, Write
  <2>7. Held = {} /\ Held' = {}
    BY <1>4, <2>5 DEF Held, Write
  <2>8. Paired' /\ Registered' /\ Owned' /\ Counted' /\ OneEvent' /\ Placed'
    BY <1>0, <1>4, <2>5, <2>7
       DEF Paired, Registered, Owned, Counted, OneEvent, Placed, Write
  <2> QED BY <2>6, <2>8 DEF IInv
<1>5. CASE WriteFail
  <2>1. chunk' \in Seq(Nat)
    BY <1>5 DEF WriteFail
  <2>2. TypeOK'
    BY <1>0, <1>5, <2>1 DEF TypeOK, WorkerLoc, WriteFail
  <2>3. Held = {} /\ Held' = {}
    BY <1>5 DEF Held, WriteFail
  <2>4. Paired' /\ Registered' /\ Owned' /\ Counted' /\ OneEvent' /\ Placed'
    BY <1>0, <1>5, <2>3
       DEF Paired, Registered, Owned, Counted, OneEvent, Placed, WriteFail
  <2> QED BY <2>2, <2>4 DEF IInv
<1>6. CASE HalfClose
  <2> DEFINE o == Opp(cur)
  <2>1. /\ pc = "eof" /\ pc' = "wait" /\ CountClosed(cur[1])
        /\ nclosed[cur] + 1 # 2 /\ epoll' = Wake(o)
        /\ sock' = [sock EXCEPT ![o] = CloseWrite(sock[o])]
        /\ peer' = [peer EXCEPT ![o].told = "fin"]
        /\ UNCHANGED <<cur, harvested, chunk, conn, st>>
    BY <1>6 DEF HalfClose, BothClosed
  <2>2. /\ nclosed' \in [Ends -> 0 .. 2]
        /\ \A e \in Ends : nclosed'[Opp(e)] = nclosed'[e]
        /\ \A e \in Ends : nclosed'[e] = IF e[1] = cur[1] THEN nclosed[cur] + 1
                                         ELSE nclosed[e]
    BY <2>1, CountClosedFacts
  <2>3. \A x \in Ends : epoll'[x] = "none" <=> epoll[x] = "none"
    BY <1>0, <2>1 DEF TypeOK, Wake
  <2>4. TypeOK'
    <3>1. CloseWrite(sock[o]) \in Socket /\ [peer[o] EXCEPT !.told = "fin"] \in Peer
      BY <1>0, <1>c, CloseWriteType, PeerFields DEF TypeOK
    <3>2. sock' \in [Ends -> Socket] /\ peer' \in [Ends -> Peer]
      BY <1>0, <1>c, <2>1, <3>1 DEF TypeOK
    <3>3. epoll' \in [Ends -> {"none", "armed", "ready"}]
      BY <1>0, <2>1 DEF TypeOK, Wake
    <3> QED BY <1>0, <2>1, <2>2, <3>2, <3>3 DEF TypeOK, WorkerLoc
  <2>5. Held = {} /\ Held' = {}
    BY <2>1 DEF Held
  <2>6. conn[cur] = "live" /\ conn[o] = "live" /\ nclosed[cur] = 0
    BY <1>0, <1>c, <2>1 DEF Placed, Paired, Counted, TypeOK
  <2>7. Counted'
    <3>1. \A e \in Ends : e[1] = cur[1] => e = cur \/ e = o
      BY <1>c, EndFacts, EndsOfFacts
    <3> QED BY <1>0, <2>1, <2>2, <2>6, <3>1 DEF Counted
  <2>8. Paired' /\ Registered' /\ Owned' /\ OneEvent' /\ Placed'
    BY <1>0, <2>1, <2>2, <2>3, <2>5 DEF Paired, Registered, Owned, OneEvent, Placed
  <2> QED BY <2>4, <2>7, <2>8 DEF IInv
<1>7. CASE FullClose
  <2>1. /\ pc = "eof" /\ pc' = "wait" /\ CountClosed(cur[1])
        /\ RemoveConn(cur[1], {Opp(cur)}) /\ UNCHANGED <<cur, harvested, chunk>>
    BY <1>7 DEF FullClose
  <2> QED BY <2>1, CountClosedFacts, RemoveConnKeeps
<1>8. CASE Fail
  <2>1. /\ pc = "fail" /\ pc' = "wait" /\ nclosed' = nclosed
        /\ RemoveConn(cur[1], Unclosed(cur)) /\ UNCHANGED <<cur, harvested, chunk>>
    BY <1>8 DEF Fail
  <2>2. nclosed' \in [Ends -> 0 .. 2] /\ \A e \in Ends : nclosed'[Opp(e)] = nclosed'[e]
    BY <1>0, <2>1 DEF TypeOK, Paired
  <2> QED BY <2>1, <2>2, RemoveConnKeeps
<1> QED BY <1>1, <1>2, <1>3, <1>4, <1>5, <1>6, <1>7, <1>8

-----------------------------------------------------------------------------
(* The inductive invariant holds in every reachable state.                  *)
THEOREM Invariance == Spec => []IInv
<1>1. Init => IInv
  BY InitIInv
<1>2. IInv /\ [Next]_vars => IInv'
  <2> SUFFICES ASSUME IInv, [Next]_vars PROVE IInv'
    OBVIOUS
  <2>1. CASE Peers
    BY <2>1, PeersKeep
  <2>2. CASE Worker
    BY <2>2, SetUpKeeps, PipeKeeps DEF Worker, Handle
  <2>3. CASE UNCHANGED vars
    BY <2>3 DEF vars, IInv, TypeOK, Paired, Registered, Owned, Counted, OneEvent,
                Placed, Held
  <2> QED BY <2>1, <2>2, <2>3 DEF Next
<1> QED BY <1>1, <1>2, PTL DEF Spec

(* The worker's data and its sockets keep their types; in particular the    *)
(* count of ended streams never passes 2.                                   *)
THEOREM Types == Spec => []TypeOK
<1>1. IInv => TypeOK
  BY DEF IInv
<1> QED BY <1>1, Invariance, PTL

(* etcp_remove_conn frees the two relay conns while an event of neither is  *)
(* waiting to be handled: nothing freed is ever used.                       *)
THEOREM FreedUnused == Spec => []NoUseAfterFree
<1>1. IInv => NoUseAfterFree
  <2> SUFFICES ASSUME IInv,
                      NEW e \in harvested \cup Handling \cup {x \in Ends : epoll[x] # "none"},
                      NEW x \in EndsOf(e[1])
               PROVE  conn[x] = "live" /\ st[x] = "open"
    BY DEF NoUseAfterFree
  <2>0. TypeOK /\ Paired /\ Registered /\ Owned /\ OneEvent /\ Placed
    BY DEF IInv
  <2>1. e \in Ends
    BY <2>0 DEF TypeOK, Handling
  <2>2. conn[e] = "live"
    BY <2>0, <2>1 DEF OneEvent, Placed, Registered, Handling
  <2>3. x \in Ends /\ (x = e \/ x = Opp(e))
    BY <2>1, EndFacts
  <2>4. conn[x] = "live"
    BY <2>0, <2>1, <2>2, <2>3 DEF Paired
  <2> QED BY <2>0, <2>3, <2>4 DEF Owned
<1> QED BY <1>1, Invariance, PTL

(* Whatever fails, no socket is left open without a connection to own it.   *)
THEOREM NoSocketLeaks == Spec => []NoLeak
<1>1. IInv => NoLeak
  BY DEF IInv, Owned, Held, NoLeak
<1> QED BY <1>1, Invariance, PTL

-----------------------------------------------------------------------------
(* The streams.                                                             *)

(* The ends whose header the worker has read while it sets them up.         *)
Past ==
    CASE pc \in {"dial", "crashed"} -> {cur}
      [] pc = "handshake" /\ cur[2] = "out" -> {Opp(cur)}
      [] pc = "register" -> EndsOf(cur[1])
      [] ~(pc \in {"dial", "crashed", "register"} \/ (pc = "handshake" /\ cur[2] = "out")) -> {}

(* A socket is of a configured protocol, the end of its stream goes through *)
(* it in stages, and the FIN of a plain stream is its end.                  *)
Formed(e) ==
    /\ sock[e].proto \in (IF e[2] = "in" THEN InProtos ELSE OutProtos)
    /\ Shaped(sock[e], peer[e].ended)
    /\ sock[e].proto # "vmess" /\ sock[e].fin => peer[e].ended

(* Before it relays, the worker has shut nothing down and read nothing but  *)
(* headers; a SOCKS client sends nothing behind its own.  The outbound's    *)
(* socket is never freed before the client's.                               *)
Early(e) ==
    /\ e[2] = "out" /\ st[e] = "freed" => st[Opp(e)] = "freed"
    /\ st[e] # "freed" /\ conn[e] = "none" =>
          /\ ~sock[e].wshut
          /\ e \notin Past =>
                /\ Untouched(sock[e])
                /\ sock[e].proto = "socks" /\ e[2] = "in"
                      => sock[e].kbuf = <<>> /\ (peer[e].greeted => sock[e].hello)

(* What the worker has in its hands of the stream from e.                   *)
Hands(e) == IF pc = "write" /\ cur = e THEN chunk ELSE <<>>

(* A SOCKS server may send behind its answer, and that is lost.             *)
Lossy(e) == e[2] = "out" /\ sock[e].proto = "socks"

(* Otherwise what a peer sent is with the other peer, in the worker's hands *)
(* or in the socket, in this order, until the connection fails.             *)
Ledger(e) ==
    conn[e] # "freed" /\ ~(pc = "fail" /\ cur = e) /\ ~Lossy(e)
       => peer[e].sent = (peer[Opp(e)].got \o Hands(e)) \o Inside(sock[e])

(* A live socket is shut down only behind a stream that has ended.          *)
Announced(e) == conn[e] = "live" /\ sock[e].wshut => peer[Opp(e)].ended

(* An end without an event has nothing in the kernel that an event should   *)
(* have told of, and its end was passed on.                                 *)
Quiet(e) ==
    epoll[e] = "armed" /\ e \notin harvested \cup Handling =>
       /\ Emptied(sock[e])
       /\ sock[e].proto # "vmess" /\ sock[e].fin => sock[Opp(e)].wshut

(* Why the worker is where it is.                                           *)
Standing ==
    /\ pc = "write" => \E d \in Nat : chunk = <<d>>
    /\ pc = "eof" => /\ peer[cur].ended /\ Inside(sock[cur]) = <<>>
                     /\ epoll[cur] = "armed" => Emptied(sock[cur])
    /\ pc = "fail" => \E x \in EndsOf(cur[1]) : peer[x].ended \/ sock[x].rst

Flow(e) == Formed(e) /\ Early(e) /\ Ledger(e) /\ Announced(e) /\ Quiet(e)

FInv == IInv /\ Standing /\ \A e \in Ends : Flow(e)

-----------------------------------------------------------------------------
(* The fields of a socket and of a peer.                                    *)
LEMMA FieldTypes ==
  ASSUME TypeOK, NEW e \in Ends
  PROVE  /\ sock[e] \in Socket /\ sock[e].kbuf \in Seq(Nat) /\ sock[e].raw \in Seq(Nat)
         /\ Inside(sock[e]) \in Seq(Nat)
         /\ peer[e] \in Peer /\ peer[e].sent \in Seq(Nat) /\ peer[e].got \in Seq(Nat)
         /\ peer[e].ended \in BOOLEAN /\ peer[e].unread \in Nat
         /\ chunk \in Seq(Nat) /\ Hands(e) \in Seq(Nat)
<1>1. sock[e] \in Socket /\ peer[e] \in Peer /\ chunk \in Seq(Nat)
  BY DEF TypeOK
<1>2. <<>> \in Seq(Nat)
  OBVIOUS
<1>3. Inside(sock[e]) \in Seq(Nat)
  BY <1>1, InsideType
<1> QED BY <1>1, <1>2, <1>3 DEF Socket, Peer, Hands

(* What leaves each part alone.                                             *)
LEMMA FormedKept ==
  ASSUME NEW e \in Ends, Formed(e),
         SameStream(sock[e], sock'[e]), sock'[e].proto = sock[e].proto,
         sock'[e].fin = sock[e].fin, peer'[e].ended = peer[e].ended
  PROVE  Formed(e)'
BY DEF Formed, Shaped, SameStream

LEMMA EarlyKept ==
  ASSUME NEW e \in Ends, Early(e), sock'[e] = sock[e],
         peer'[e].greeted = peer[e].greeted,
         st[e] = "freed" => st'[e] = "freed",
         e[2] = "out" /\ st'[e] = "freed" => st[e] = "freed",
         st[Opp(e)] = "freed" => st'[Opp(e)] = "freed",
         conn'[e] = "none" => conn[e] = "none",
         st'[e] # "freed" /\ conn'[e] = "none" => (e \in Past => e \in Past')
  PROVE  Early(e)'
BY DEF Early, Untouched

LEMMA LedgerKept ==
  ASSUME NEW e \in Ends, Ledger(e), Inside(sock'[e]) = Inside(sock[e]),
         sock'[e].proto = sock[e].proto, peer'[e].sent = peer[e].sent,
         peer'[Opp(e)].got = peer[Opp(e)].got, Hands(e)' = Hands(e),
         conn[e] = "freed" => conn'[e] = "freed",
         pc = "fail" /\ cur = e => conn'[e] = "freed"
  PROVE  Ledger(e)'
BY DEF Ledger, Lossy

LEMMA AnnouncedKept ==
  ASSUME NEW e \in Ends, Announced(e),
         conn'[e] = "live" => conn[e] = "live" /\ sock'[e].wshut = sock[e].wshut,
         peer[Opp(e)].ended => peer'[Opp(e)].ended
  PROVE  Announced(e)'
BY DEF Announced

LEMMA QuietKept ==
  ASSUME NEW e \in Ends, Quiet(e),
         epoll'[e] = "armed" => epoll[e] = "armed" /\ sock'[e] = sock[e],
         e \in harvested \cup Handling => (e \in harvested \cup Handling)',
         sock[Opp(e)].wshut => sock'[Opp(e)].wshut
  PROVE  Quiet(e)'
BY DEF Quiet, Emptied

-----------------------------------------------------------------------------
(* The peers' steps.                                                        *)
PeerStep(e) == \/ PeerGreet(e) \/ PeerSend(e) \/ PeerEnd(e)
               \/ PeerFin(e) \/ PeerReset(e) \/ PeerRecv(e)

LEMMA Arrived ==
  ASSUME TypeOK, NEW x \in Ends, NEW s, NEW p, Arrive(x, s, p)
  PROVE  /\ UNCHANGED <<pc, cur, harvested, chunk, st, conn>> /\ pc # "crashed"
         /\ \A e \in Ends \ {x} :
               sock'[e] = sock[e] /\ peer'[e] = peer[e] /\ epoll'[e] = epoll[e]
         /\ sock'[x] = s /\ peer'[x] = p /\ epoll'[x] # "armed"
BY DEF Arrive, Wake, TypeOK, workerVars

(* What a step of a peer leaves alone, and what it does not take back.      *)
Kept(x) ==
    /\ UNCHANGED <<pc, cur, harvested, chunk, st, conn>>
    /\ \A e \in Ends \ {x} :
          sock'[e] = sock[e] /\ peer'[e] = peer[e] /\ epoll'[e] = epoll[e]
    /\ epoll'[x] = "armed" => epoll[x] = "armed" /\ sock'[x] = sock[x]
    /\ sock'[x].proto = sock[x].proto /\ sock'[x].wshut = sock[x].wshut
    /\ peer'[x].got = peer[x].got
    /\ sock[x].rst => sock'[x].rst
    /\ peer[x].ended => /\ peer'[x].ended
                        /\ Inside(sock'[x]) = Inside(sock[x])

(* What it changes.                                                         *)
Change(x) ==
    LET Sent == peer'[x].sent = peer[x].sent
        Ended == peer'[x].ended = peer[x].ended
        Reset == sock'[x].rst = sock[x].rst
    IN  \/ /\ PeerSend(x) /\ Ended /\ Reset
           /\ peer'[x].sent = Append(peer[x].sent, Len(peer[x].sent) + 1)
        \/ Sending(x) /\ pc # "crashed" /\ peer'[x].ended = TRUE /\ Sent /\ Reset
        \/ sock'[x].rst = TRUE /\ Sent /\ Ended
        \/ Sent /\ Ended /\ Reset

LEMMA PeerParts ==
  ASSUME TypeOK, NEW x \in Ends, PeerStep(x)
  PROVE  /\ Kept(x) /\ Change(x)
         /\ Formed(x) => Formed(x)'
         /\ Early(x) => Early(x)'
         /\ Ledger(x) => Ledger(x)'
<1>0. /\ sock[x] \in Socket /\ peer[x] \in Peer /\ Opp(x) \in Ends \ {x}
  BY FieldTypes, EndFacts
<1>1. CASE PeerGreet(x)
  <2>1. Arrive(x, [sock[x] EXCEPT !.hello = TRUE], [peer[x] EXCEPT !.greeted = TRUE])
    BY <1>1 DEF PeerGreet
  <2>2. /\ sock'[x] = [sock[x] EXCEPT !.hello = TRUE]
        /\ peer'[x] = [peer[x] EXCEPT !.greeted = TRUE]
        /\ UNCHANGED <<pc, cur, harvested, chunk, st, conn>>
        /\ \A e \in Ends \ {x} :
              sock'[e] = sock[e] /\ peer'[e] = peer[e] /\ epoll'[e] = epoll[e]
        /\ epoll'[x] # "armed"
    BY <2>1, Arrived
  <2>3. /\ SameStream(sock[x], sock'[x]) /\ sock'[x].proto = sock[x].proto
        /\ sock'[x].fin = sock[x].fin /\ sock'[x].rst = sock[x].rst
        /\ sock'[x].wshut = sock[x].wshut /\ sock'[x].hello = TRUE
        /\ peer'[x].sent = peer[x].sent /\ peer'[x].got = peer[x].got
        /\ peer'[x].ended = peer[x].ended
    BY <1>0, <2>2 DEF Socket, Peer, SameStream
  <2>4. Kept(x) /\ Change(x)
    BY <2>2, <2>3 DEF Kept, Change, SameStream, Inside
  <2>5. Formed(x) => Formed(x)'
    BY <2>3, FormedKept
  <2>6. Early(x) => Early(x)'
    BY <2>2, <2>3 DEF Early, Untouched, SameStream, Past
  <2>7. Ledger(x) => Ledger(x)'
    BY <1>0, <2>2, <2>3 DEF Ledger, Lossy, Hands, SameStream, Inside
  <2> QED BY <2>4, <2>5, <2>6, <2>7
<1>2. CASE PeerSend(x)
  <2> DEFINE d == Len(peer[x].sent) + 1
  <2>1. /\ Arrive(x, [sock[x] EXCEPT !.kbuf = Append(sock[x].kbuf, d)],
                     [peer[x] EXCEPT !.sent = Append(peer[x].sent, d)])
        /\ ~peer[x].ended
        /\ sock[x].proto = "socks" /\ x[2] = "in" => peer[x].greeted /\ ~sock[x].hello
    BY <1>2 DEF PeerSend, MaySendData
  <2>2. d \in Nat
    BY <1>0, LenProperties DEF Peer
  <2>3. d = Len(peer[x].sent) + 1
    OBVIOUS
  <2> HIDE DEF d
  <2>4. /\ sock'[x] = [sock[x] EXCEPT !.kbuf = Append(sock[x].kbuf, d)]
        /\ peer'[x] = [peer[x] EXCEPT !.sent = Append(peer[x].sent, d)]
        /\ UNCHANGED <<pc, cur, harvested, chunk, st, conn>>
        /\ \A e \in Ends \ {x} :
              sock'[e] = sock[e] /\ peer'[e] = peer[e] /\ epoll'[e] = epoll[e]
        /\ epoll'[x] # "armed"
    BY <2>1, Arrived
  <2>5. /\ sock'[x].kbuf = Append(sock[x].kbuf, d) /\ sock'[x].kend = sock[x].kend
        /\ sock'[x].raw = sock[x].raw /\ sock'[x].rend = sock[x].rend
        /\ sock'[x].eof = sock[x].eof /\ sock'[x].proto = sock[x].proto
        /\ sock'[x].fin = sock[x].fin /\ sock'[x].rst = sock[x].rst
        /\ sock'[x].wshut = sock[x].wshut /\ sock'[x].hello = sock[x].hello
        /\ peer'[x].sent = Append(peer[x].sent, d) /\ peer'[x].got = peer[x].got
        /\ peer'[x].ended = peer[x].ended /\ peer'[x].greeted = peer[x].greeted
    BY <1>0, <2>4 DEF Socket, Peer
  <2>6. Kept(x) /\ Change(x)
    BY <1>2, <2>1, <2>3, <2>4, <2>5 DEF Kept, Change
  <2>7. Formed(x) => Formed(x)'
    BY <2>1, <2>5 DEF Formed, Shaped
  <2>8. Early(x) => Early(x)'
    BY <2>1, <2>4, <2>5 DEF Early, Untouched, Past
  <2>9. ASSUME Ledger(x) PROVE Ledger(x)'
    <3> DEFINE g == peer[Opp(x)].got \o Hands(x)
               i == Inside(sock[x])
    <3>1. /\ Inside(sock'[x]) = Append(i, d)
      BY <1>0, <2>2, <2>5, ConcatAppend DEF Inside, Socket
    <3>2. g \in Seq(Nat) /\ i \in Seq(Nat)
      BY <1>0, FieldTypes, ConcatProperties
    <3>3. g \o Append(i, d) = Append(g \o i, d)
      BY <2>2, <3>2, ConcatAppend
    <3>4. peer'[Opp(x)].got \o Hands(x)' = g
      BY <1>0, <2>4 DEF Hands
    <3>5. peer[x].sent = g \o i => peer'[x].sent = g \o Append(i, d)
      BY <2>5, <3>3
    <3> QED BY <2>4, <2>5, <2>9, <3>1, <3>4, <3>5 DEF Ledger, Lossy
  <2> QED BY <2>6, <2>7, <2>8, <2>9
<1>3. CASE PeerEnd(x)
  <2>1. /\ Arrive(x, [sock[x] EXCEPT !.kend = TRUE], [peer[x] EXCEPT !.ended = TRUE])
        /\ ~peer[x].ended /\ Sending(x) /\ sock[x].proto = "vmess"
    BY <1>3 DEF PeerEnd, MaySendData
  <2>2. /\ sock'[x] = [sock[x] EXCEPT !.kend = TRUE]
        /\ peer'[x] = [peer[x] EXCEPT !.ended = TRUE]
        /\ UNCHANGED <<pc, cur, harvested, chunk, st, conn>> /\ pc # "crashed"
        /\ \A e \in Ends \ {x} :
              sock'[e] = sock[e] /\ peer'[e] = peer[e] /\ epoll'[e] = epoll[e]
        /\ epoll'[x] # "armed"
    BY <2>1, Arrived
  <2>3. /\ sock'[x].kbuf = sock[x].kbuf /\ sock'[x].kend = TRUE
        /\ sock'[x].raw = sock[x].raw /\ sock'[x].rend = sock[x].rend
        /\ sock'[x].eof = sock[x].eof /\ sock'[x].proto = sock[x].proto
        /\ sock'[x].fin = sock[x].fin /\ sock'[x].rst = sock[x].rst
        /\ sock'[x].wshut = sock[x].wshut /\ sock'[x].hello = sock[x].hello
        /\ peer'[x].sent = peer[x].sent /\ peer'[x].got = peer[x].got
        /\ peer'[x].ended = TRUE /\ peer'[x].greeted = peer[x].greeted
    BY <1>0, <2>2 DEF Socket, Peer
  <2>4. Kept(x) /\ Change(x)
    BY <2>1, <2>2, <2>3 DEF Kept, Change, Inside
  <2>5. Formed(x) => Formed(x)'
    BY <2>1, <2>3 DEF Formed, Shaped
  <2>6. Early(x) => Early(x)'
    BY <2>2, <2>3 DEF Early, Untouched, Past
  <2>7. Ledger(x) => Ledger(x)'
    BY <1>0, <2>2, <2>3 DEF Ledger, Lossy, Hands, Inside
  <2> QED BY <2>4, <2>5, <2>6, <2>7
<1>4. CASE PeerFin(x)
  <2> DEFINE b == peer[x].ended \/ sock[x].proto # "vmess"
  <2>1. /\ Arrive(x, [sock[x] EXCEPT !.fin = TRUE], [peer[x] EXCEPT !.ended = b])
        /\ Sending(x)
    BY <1>4 DEF PeerFin
  <2>2. b \in BOOLEAN /\ (b <=> peer[x].ended \/ sock[x].proto # "vmess")
    OBVIOUS
  <2> HIDE DEF b
  <2>3. /\ sock'[x] = [sock[x] EXCEPT !.fin = TRUE]
        /\ peer'[x] = [peer[x] EXCEPT !.ended = b]
        /\ UNCHANGED <<pc, cur, harvested, chunk, st, conn>> /\ pc # "crashed"
        /\ \A e \in Ends \ {x} :
              sock'[e] = sock[e] /\ peer'[e] = peer[e] /\ epoll'[e] = epoll[e]
        /\ epoll'[x] # "armed"
    BY <2>1, Arrived
  <2>4. /\ sock'[x].kbuf = sock[x].kbuf /\ sock'[x].kend = sock[x].kend
        /\ sock'[x].raw = sock[x].raw /\ sock'[x].rend = sock[x].rend
        /\ sock'[x].eof = sock[x].eof /\ sock'[x].proto = sock[x].proto
        /\ sock'[x].fin = TRUE /\ sock'[x].rst = sock[x].rst
        /\ sock'[x].wshut = sock[x].wshut /\ sock'[x].hello = sock[x].hello
        /\ peer'[x].sent = peer[x].sent /\ peer'[x].got = peer[x].got
        /\ peer'[x].ended = b /\ peer'[x].greeted = peer[x].greeted
    BY <1>0, <2>3 DEF Socket, Peer
  <2>5. Kept(x)
    BY <2>2, <2>3, <2>4 DEF Kept, Inside
  <2>6. Change(x)
    <3>1. b = TRUE \/ b = peer[x].ended
      BY <1>0, <2>2 DEF Peer
    <3> QED BY <2>1, <2>3, <2>4, <3>1 DEF Change
  <2>7. Formed(x) => Formed(x)'
    BY <2>2, <2>4 DEF Formed, Shaped
  <2>8. Early(x) => Early(x)'
    BY <2>3, <2>4 DEF Early, Untouched, Past
  <2>9. Ledger(x) => Ledger(x)'
    BY <1>0, <2>3, <2>4 DEF Ledger, Lossy, Hands, Inside
  <2> QED BY <2>5, <2>6, <2>7, <2>8, <2>9
<1>5. CASE PeerReset(x)
  <2>1. Arrive(x, [sock[x] EXCEPT !.rst = TRUE], peer[x])
    BY <1>5 DEF PeerReset
  <2>2. /\ sock'[x] = [sock[x] EXCEPT !.rst = TRUE] /\ peer'[x] = peer[x]
        /\ UNCHANGED <<pc, cur, harvested, chunk, st, conn>>
        /\ \A e \in Ends \ {x} :
              sock'[e] = sock[e] /\ peer'[e] = peer[e] /\ epoll'[e] = epoll[e]
        /\ epoll'[x] # "armed"
    BY <2>1, Arrived
  <2>3. /\ SameStream(sock[x], sock'[x]) /\ sock'[x].proto = sock[x].proto
        /\ sock'[x].fin = sock[x].fin /\ sock'[x].rst = TRUE
        /\ sock'[x].wshut = sock[x].wshut /\ sock'[x].hello = sock[x].hello
    BY <1>0, <2>2 DEF Socket, SameStream
  <2>4. Kept(x) /\ Change(x)
    BY <2>2, <2>3 DEF Kept, Change, SameStream, Inside
  <2>5. Formed(x) => Formed(x)'
    BY <2>2, <2>3, FormedKept
  <2>6. Early(x) => Early(x)'
    BY <2>2, <2>3 DEF Early, Untouched, SameStream, Past
  <2>7. Ledger(x) => Ledger(x)'
    BY <1>0, <2>2, <2>3 DEF Ledger, Lossy, Hands, SameStream, Inside
  <2> QED BY <2>4, <2>5, <2>6, <2>7
<1>6. CASE PeerRecv(x)
  <2> DEFINE n == peer[x].unread - 1
  <2>1. /\ peer' = [peer EXCEPT ![x] = [peer[x] EXCEPT !.unread = n]]
        /\ UNCHANGED <<pc, cur, harvested, chunk, st, conn, epoll, sock>>
    BY <1>6 DEF PeerRecv, workerVars, connVars
  <2> HIDE DEF n
  <2>2. /\ peer'[x].sent = peer[x].sent /\ peer'[x].got = peer[x].got
        /\ peer'[x].ended = peer[x].ended /\ peer'[x].greeted = peer[x].greeted
        /\ \A e \in Ends \ {x} : peer'[e] = peer[e]
    BY <1>0, <2>1 DEF TypeOK, Peer
  <2>3. Kept(x) /\ Change(x)
    BY <2>1, <2>2 DEF Kept, Change
  <2>4. Formed(x) => Formed(x)'
    BY <2>1, <2>2 DEF Formed
  <2>5. Early(x) => Early(x)'
    BY <2>1, <2>2 DEF Early, Past
  <2>6. Ledger(x) => Ledger(x)'
    BY <1>0, <2>1, <2>2 DEF Ledger, Lossy, Hands
  <2> QED BY <2>3, <2>4, <2>5, <2>6
<1> QED BY <1>1, <1>2, <1>3, <1>4, <1>5, <1>6 DEF PeerStep

LEMMA PeerFlow ==
  ASSUME FInv, NEW x \in Ends, PeerStep(x)
  PROVE  Standing' /\ \A e \in Ends : Flow(e)'
<1>1. /\ TypeOK /\ Kept(x) /\ Standing /\ cur \in Ends
      /\ \A e \in Ends : Formed(e) /\ Early(e) /\ Ledger(e) /\ Announced(e) /\ Quiet(e)
  BY PeerParts DEF FInv, IInv, TypeOK, Flow
<1>2. Formed(x)' /\ Early(x)' /\ Ledger(x)'
  BY <1>1, PeerParts
<1>3. /\ UNCHANGED <<pc, cur, harvested, chunk, st, conn>>
      /\ \A e \in Ends \ {x} :
            sock'[e] = sock[e] /\ peer'[e] = peer[e] /\ epoll'[e] = epoll[e]
      /\ epoll'[x] = "armed" => epoll[x] = "armed" /\ sock'[x] = sock[x]
      /\ sock'[x].proto = sock[x].proto /\ sock'[x].wshut = sock[x].wshut
      /\ peer'[x].got = peer[x].got
      /\ sock[x].rst => sock'[x].rst
      /\ peer[x].ended => /\ peer'[x].ended
                          /\ Inside(sock'[x]) = Inside(sock[x])
  BY <1>1 DEF Kept
<1>4. /\ \A e \in Ends : /\ peer[e].ended => /\ peer'[e].ended
                                             /\ Inside(sock'[e]) = Inside(sock[e])
                         /\ sock[e].rst => sock'[e].rst
                         /\ sock'[e].wshut = sock[e].wshut
                         /\ peer'[e].got = peer[e].got
                         /\ epoll'[e] = "armed" => epoll[e] = "armed" /\ sock'[e] = sock[e]
                         /\ Hands(e)' = Hands(e)
      /\ Past' = Past /\ Handling' = Handling
  BY <1>3 DEF Past, Handling, Hands
<1>5. Standing'
  <2>1. EndsOf(cur[1]) \subseteq Ends
    BY <1>1, EndFacts
  <2> QED BY <1>1, <1>3, <1>4, <2>1 DEF Standing, Emptied
<1>6. ASSUME NEW e \in Ends PROVE Flow(e)'
  <2>1. Opp(e) \in Ends /\ Formed(e) /\ Early(e) /\ Ledger(e) /\ Announced(e) /\ Quiet(e)
    BY <1>1, EndFacts
  <2>2. Announced(e)' /\ Quiet(e)'
    BY <1>3, <1>4, <2>1, AnnouncedKept, QuietKept
  <2>3. CASE e # x
    <3>1. sock'[e] = sock[e] /\ peer'[e] = peer[e]
      BY <1>3, <2>3
    <3>2. Formed(e)'
      BY <2>1, <3>1 DEF Formed
    <3>3. Early(e)'
      BY <1>3, <1>4, <2>1, <3>1, EarlyKept
    <3>4. Ledger(e)'
      BY <1>3, <1>4, <2>1, <3>1 DEF Ledger, Lossy
    <3> QED BY <2>2, <3>2, <3>3, <3>4 DEF Flow
  <2> QED BY <1>2, <2>2, <2>3 DEF Flow
<1> QED BY <1>5, <1>6

(* A step that leaves the streams alone.                                    *)
LEMMA StepFlow ==
  ASSUME FInv, UNCHANGED <<sock, peer, conn, epoll, harvested>>,
         pc \notin {"read", "write", "eof", "fail"}, pc' \notin {"write", "eof", "fail"},
         \A e \in Ends :
            /\ st[e] = "freed" <=> st'[e] = "freed"
            /\ e \in Past => e \in Past'
  PROVE  Standing' /\ \A e \in Ends : Flow(e)'
<1>1. \A e \in Ends : Formed(e) /\ Early(e) /\ Ledger(e) /\ Announced(e) /\ Quiet(e)
  BY DEF FInv, Flow
<1>2. Standing'
  BY DEF Standing
<1>3. ASSUME NEW e \in Ends PROVE Flow(e)'
  <2>1. Formed(e) /\ Early(e) /\ Ledger(e) /\ Announced(e) /\ Quiet(e) /\ Opp(e) \in Ends
    BY <1>1, EndFacts
  <2>2. Formed(e)' /\ Announced(e)'
    BY <2>1 DEF Formed, Announced
  <2>3. Early(e)'
    BY <2>1, EarlyKept
  <2>4. Ledger(e)'
    <3>1. Hands(e) = <<>> /\ Hands(e)' = <<>>
      BY DEF Hands
    <3> QED BY <2>1, <3>1 DEF Ledger, Lossy
  <2>5. Quiet(e)'
    BY <2>1 DEF Quiet, Handling
  <2> QED BY <2>2, <2>3, <2>4, <2>5 DEF Flow
<1> QED BY <1>2, <1>3

LEMMA ConnectFlow ==
  ASSUME FInv, NEW c \in Conns, PeerConnect(c)
  PROVE  Standing' /\ \A e \in Ends : Flow(e)'
<1>1. /\ TypeOK /\ Standing
      /\ \A e \in Ends : Formed(e) /\ Early(e) /\ Ledger(e) /\ Announced(e) /\ Quiet(e)
  BY DEF FInv, IInv, Flow
<1>2. /\ UNCHANGED <<pc, cur, harvested, chunk, epoll, conn, sock, peer>>
      /\ \A e \in Ends : st[e] = "freed" <=> st'[e] = "freed"
  <2>1. <<c, "in">> \in Ends
    BY EndsOfFacts
  <2> QED BY <1>1, <2>1 DEF PeerConnect, TypeOK, workerVars, connVars
<1>3. Past' = Past /\ Handling' = Handling /\ Standing'
  BY <1>1, <1>2 DEF Past, Handling, Standing
<1>4. ASSUME NEW e \in Ends PROVE Flow(e)'
  <2>1. Formed(e) /\ Early(e) /\ Ledger(e) /\ Announced(e) /\ Quiet(e) /\ Opp(e) \in Ends
    BY <1>1, EndFacts
  <2>2. Formed(e)' /\ Announced(e)' /\ Quiet(e)'
    BY <1>2, <1>3, <2>1 DEF Formed, Announced, Quiet
  <2>3. Early(e)'
    BY <1>2, <1>3, <2>1, EarlyKept
  <2>4. Ledger(e)'
    BY <1>2, <2>1 DEF Ledger, Lossy, Hands
  <2> QED BY <2>2, <2>3, <2>4 DEF Flow
<1> QED BY <1>3, <1>4

-----------------------------------------------------------------------------
(* Setting up a connection.                                                 *)
LEMMA CurFacts ==
  ASSUME TypeOK
  PROVE  /\ cur \in Ends /\ cur[1] \in Conns /\ cur[2] \in {"in", "out"}
         /\ Opp(cur) \in Ends /\ Opp(cur) # cur /\ Opp(Opp(cur)) = cur
         /\ Opp(cur)[1] = cur[1]
         /\ EndsOf(cur[1]) = {cur, Opp(cur)}
         /\ \A e \in Ends : Opp(e) = cur <=> e = Opp(cur)
BY EndFacts DEF TypeOK, Sides

LEMMA BeginFlow ==
  ASSUME FInv, (\E c \in Conns : Accept(c)) \/ NullTarget \/ DialOk
  PROVE  Standing' /\ \A e \in Ends : Flow(e)'
<1>1. /\ TypeOK /\ Owned /\ Placed /\ \A e \in Ends : Early(e)
  BY DEF FInv, IInv, Flow
<1>2. ASSUME NEW c \in Conns, Accept(c) PROVE Standing' /\ \A e \in Ends : Flow(e)'
  <2>1. <<c, "in">> \in Ends
    BY EndsOfFacts
  <2>2. /\ UNCHANGED <<sock, peer, conn, epoll, harvested>> /\ pc = "wait" /\ pc' = "handshake"
        /\ \A e \in Ends : st[e] = "freed" <=> st'[e] = "freed"
    BY <1>1, <1>2, <2>1 DEF Accept, TypeOK, connVars
  <2>3. Past = {}
    BY <2>2 DEF Past
  <2> QED BY <2>2, <2>3, StepFlow
<1>3. CASE NullTarget
  <2>1. /\ UNCHANGED <<sock, peer, conn, epoll, harvested, st, cur>>
        /\ pc = "dial" /\ pc' = "crashed"
    BY <1>3 DEF NullTarget, connVars
  <2>2. Past' = Past
    BY <2>1 DEF Past
  <2> QED BY <2>1, <2>2, StepFlow
<1>4. CASE DialOk
  <2>1. /\ UNCHANGED <<sock, peer, conn, epoll, harvested>>
        /\ pc = "dial" /\ pc' = "handshake" /\ cur' = Opp(cur)
        /\ st' = [st EXCEPT ![Opp(cur)] = "open"]
    BY <1>4 DEF DialOk, connVars
  <2>2. cur[2] = "in" /\ Opp(cur)[2] = "out"
    BY <1>1, <2>1, CurFacts DEF Placed, Opp
  <2>3. st[cur] = "open"
    BY <1>1, <2>1, CurFacts DEF Owned, Held
  <2>4. st[Opp(cur)] # "freed"
    BY <1>1, <2>2, <2>3, CurFacts DEF Early
  <2>5. \A e \in Ends : st[e] = "freed" <=> st'[e] = "freed"
    BY <1>1, <2>1, <2>4, CurFacts DEF TypeOK
  <2>6. Past = {cur} /\ Past' = {cur}
    BY <1>1, <2>1, <2>2, CurFacts DEF Past
  <2> QED BY <2>1, <2>5, <2>6, StepFlow
<1> QED BY <1>2, <1>3, <1>4

LEMMA HelloFlow ==
  ASSUME FInv, HandshakeOk
  PROVE  Standing' /\ \A e \in Ends : Flow(e)'
<1>1. /\ TypeOK /\ Owned /\ Paired /\ Registered /\ Placed
      /\ \A e \in Ends : Formed(e) /\ Early(e) /\ Ledger(e) /\ Announced(e) /\ Quiet(e)
  BY DEF FInv, IInv, Flow
<1>2. PICK over \in Overread(sock[cur]) :
          sock' = [sock EXCEPT ![cur] = ReadHello(sock[cur], over)]
  BY DEF HandshakeOk
<1>3. /\ pc = "handshake" /\ pc' \in {"dial", "register"}
      /\ pc' = "dial" <=> cur[2] = "in"
      /\ UNCHANGED <<cur, harvested, epoll, conn, st, peer>>
  BY DEF HandshakeOk, connVars
<1>4. /\ cur \in Held /\ conn[cur] = "none" /\ conn[Opp(cur)] = "none"
      /\ st[cur] = "open" /\ epoll[cur] = "none" /\ epoll[Opp(cur)] = "none"
  BY <1>1, <1>3, CurFacts DEF Held, Owned, Paired, Registered
<1>5. cur \notin Past /\ Past' = Past \cup {cur}
  BY <1>1, <1>3, CurFacts DEF Past
<1>6. /\ ~sock[cur].wshut /\ Untouched(sock[cur])
      /\ sock[cur].proto = "socks" /\ cur[2] = "in" => sock[cur].kbuf = <<>>
      /\ Formed(cur)
  BY <1>1, <1>4, <1>5, CurFacts DEF Early
<1> DEFINE x == ReadHello(sock[cur], over)
<1>7. sock[cur] \in Socket /\ peer[cur].ended \in BOOLEAN
  BY <1>1, CurFacts, FieldTypes
<1>8. /\ Shaped(x, peer[cur].ended)
      /\ x.proto = sock[cur].proto /\ x.fin = sock[cur].fin /\ x.wshut = sock[cur].wshut
  BY <1>6, <1>7, HelloShape DEF Formed
<1>9. ~Lossy(cur) => Inside(x) = Inside(sock[cur])
  <2>1. CASE sock[cur].proto = "socks" => sock[cur].kbuf = <<>>
    BY <1>6, <1>7, <2>1, HelloSound DEF Formed
  <2>2. CASE sock[cur].proto = "socks" /\ cur[2] = "out"
    BY <2>2 DEF Lossy
  <2> QED BY <1>1, <1>6, <2>1, <2>2, CurFacts
<1>10. sock'[cur] = x /\ \A e \in Ends \ {cur} : sock'[e] = sock[e]
  BY <1>1, <1>2, CurFacts DEF TypeOK
<1> HIDE DEF x
<1>11. Standing'
  BY <1>3 DEF Standing
<1>12. ASSUME NEW e \in Ends PROVE Flow(e)'
  <2>1. Formed(e) /\ Early(e) /\ Ledger(e) /\ Announced(e) /\ Quiet(e) /\ Opp(e) \in Ends
    BY <1>1, EndFacts
  <2>2. Hands(e) = <<>> /\ Hands(e)' = <<>>
    BY <1>3 DEF Hands
  <2>3. Quiet(e)'
    <3>1. Handling = {} /\ Handling' = {}
      BY <1>3 DEF Handling
    <3>2. epoll[e] = "armed" => e # cur /\ Opp(e) # cur
      BY <1>1, <1>4, CurFacts
    <3> QED BY <1>3, <1>10, <2>1, <3>1, <3>2 DEF Quiet
  <2>4. Announced(e)'
    <3>1. conn[e] = "live" => e # cur
      BY <1>4
    <3> QED BY <1>3, <1>10, <2>1, <3>1 DEF Announced
  <2>5. CASE e = cur
    <3>1. Formed(e)'
      BY <1>3, <1>6, <1>8, <1>10, <2>5 DEF Formed
    <3>2. Early(e)'
      BY <1>3, <1>5, <1>6, <1>8, <1>10, <2>1, <2>5 DEF Early
    <3>3. Ledger(e)'
      BY <1>3, <1>8, <1>9, <1>10, <2>1, <2>2, <2>5 DEF Ledger, Lossy
    <3> QED BY <2>3, <2>4, <3>1, <3>2, <3>3 DEF Flow
  <2>6. CASE e # cur
    <3>1. sock'[e] = sock[e]
      BY <1>10, <2>6
    <3>2. Formed(e)'
      BY <1>3, <2>1, <3>1 DEF Formed
    <3>3. Early(e)'
      BY <1>3, <1>5, <2>1, <3>1, EarlyKept
    <3>4. Ledger(e)'
      BY <1>3, <2>1, <2>2, <3>1 DEF Ledger, Lossy
    <3> QED BY <2>3, <2>4, <3>2, <3>3, <3>4 DEF Flow
  <2> QED BY <2>5, <2>6
<1> QED BY <1>11, <1>12

(* What closing and freeing leaves of the streams.                          *)
LEMMA ClosedFields ==
  ASSUME TypeOK, NEW S, NEW C, CloseAndFree(S, C)
  PROVE  \A e \in Ends :
            /\ SameStream(sock[e], sock'[e]) /\ Inside(sock'[e]) = Inside(sock[e])
            /\ sock'[e].proto = sock[e].proto /\ sock'[e].fin = sock[e].fin
            /\ sock'[e].rst = sock[e].rst
            /\ sock[e].wshut => sock'[e].wshut
            /\ e \notin C => sock'[e] = sock[e]
            /\ peer'[e].sent = peer[e].sent /\ peer'[e].got = peer[e].got
            /\ peer'[e].ended = peer[e].ended /\ peer'[e].greeted = peer[e].greeted
            /\ st'[e] = IF e \in S THEN "freed" ELSE st[e]
<1> SUFFICES ASSUME NEW e \in Ends
             PROVE  /\ SameStream(sock[e], sock'[e]) /\ Inside(sock'[e]) = Inside(sock[e])
                    /\ sock'[e].proto = sock[e].proto /\ sock'[e].fin = sock[e].fin
                    /\ sock'[e].rst = sock[e].rst
                    /\ sock[e].wshut => sock'[e].wshut
                    /\ e \notin C => sock'[e] = sock[e]
                    /\ peer'[e].sent = peer[e].sent /\ peer'[e].got = peer[e].got
                    /\ peer'[e].ended = peer[e].ended /\ peer'[e].greeted = peer[e].greeted
                    /\ st'[e] = IF e \in S THEN "freed" ELSE st[e]
  OBVIOUS
<1>1. sock[e] \in Socket /\ peer[e] \in Peer
  BY DEF TypeOK
<1>2. sock'[e] = (IF e \in C THEN CloseWrite(sock[e]) ELSE sock[e])
  BY DEF CloseAndFree
<1>3. /\ SameStream(sock[e], sock'[e])
      /\ sock'[e].proto = sock[e].proto /\ sock'[e].fin = sock[e].fin
      /\ sock'[e].rst = sock[e].rst
      /\ sock[e].wshut => sock'[e].wshut
      /\ e \notin C => sock'[e] = sock[e]
  BY <1>1, <1>2 DEF CloseWrite, SameStream, Socket
<1>4. Inside(sock'[e]) = Inside(sock[e])
  BY <1>3 DEF Inside, SameStream
<1>5. /\ peer'[e].sent = peer[e].sent /\ peer'[e].got = peer[e].got
      /\ peer'[e].ended = peer[e].ended /\ peer'[e].greeted = peer[e].greeted
  <2>1. peer'[e] = peer[e] \/ \E t \in {"fin", "rst"} : peer'[e] = [peer[e] EXCEPT !.told = t]
    BY DEF CloseAndFree
  <2> QED BY <1>1, <2>1 DEF Peer
<1>6. st'[e] = IF e \in S THEN "freed" ELSE st[e]
  BY DEF CloseAndFree
<1> QED BY <1>3, <1>4, <1>5, <1>6

LEMMA GiveUpFlow ==
  ASSUME FInv, HandshakeFail \/ DialFail
  PROVE  Standing' /\ \A e \in Ends : Flow(e)'
<1>1. /\ TypeOK /\ Owned /\ Paired /\ Registered
      /\ \A e \in Ends : Formed(e) /\ Early(e) /\ Ledger(e) /\ Announced(e) /\ Quiet(e)
  BY DEF FInv, IInv, Flow
<1>2. /\ pc \in {"handshake", "dial"} /\ pc' = "wait"
      /\ UNCHANGED <<cur, harvested, chunk, epoll, conn>>
  BY DEF HandshakeFail, DialFail, connVars
<1>3. PICK S : /\ CloseAndFree(S, S)
               /\ S = EndsOf(cur[1]) \/ (S = {cur} /\ cur[2] = "in")
  BY DEF HandshakeFail, DialFail, Failed
<1>4. /\ Past \subseteq S /\ Past' = {} /\ Handling = {} /\ Handling' = {}
      /\ S \subseteq {cur, Opp(cur)}
      /\ \A e \in S : e[2] = "out" => Opp(e) \in S
  BY <1>1, <1>2, <1>3, CurFacts DEF Past, Handling
<1>5. conn[cur] = "none" /\ conn[Opp(cur)] = "none"
  BY <1>1, <1>2, CurFacts DEF Owned, Held, Paired
<1>6. \A e \in S : e \in Ends /\ conn[e] = "none" /\ epoll[e] = "none"
  BY <1>1, <1>4, <1>5, CurFacts DEF Registered
<1>7. Standing'
  BY <1>2 DEF Standing
<1>8. ASSUME NEW e \in Ends PROVE Flow(e)'
  <2>1. Formed(e) /\ Early(e) /\ Ledger(e) /\ Announced(e) /\ Quiet(e) /\ Opp(e) \in Ends
    BY <1>1, EndFacts
  <2>2. /\ SameStream(sock[e], sock'[e]) /\ Inside(sock'[e]) = Inside(sock[e])
        /\ sock'[e].proto = sock[e].proto /\ sock'[e].fin = sock[e].fin
        /\ e \notin S => sock'[e] = sock[e]
        /\ peer'[e].sent = peer[e].sent
        /\ peer'[e].ended = peer[e].ended /\ peer'[e].greeted = peer[e].greeted
        /\ st'[e] = IF e \in S THEN "freed" ELSE st[e]
    BY <1>1, <1>3, ClosedFields
  <2>3. /\ sock[Opp(e)].wshut => sock'[Opp(e)].wshut
        /\ peer'[Opp(e)].got = peer[Opp(e)].got /\ peer'[Opp(e)].ended = peer[Opp(e)].ended
        /\ st'[Opp(e)] = IF Opp(e) \in S THEN "freed" ELSE st[Opp(e)]
    BY <1>1, <1>3, <2>1, ClosedFields
  <2>4. Formed(e)'
    BY <2>1, <2>2, FormedKept
  <2>5. Early(e)'
    <3>1. CASE e \in S
      BY <1>4, <2>2, <2>3, <3>1 DEF Early
    <3>2. CASE e \notin S
      BY <1>2, <1>4, <2>1, <2>2, <2>3, <3>2, EarlyKept
    <3> QED BY <3>1, <3>2
  <2>6. Ledger(e)'
    <3>1. Hands(e) = <<>> /\ Hands(e)' = <<>>
      BY <1>2 DEF Hands
    <3> QED BY <1>2, <2>1, <2>2, <2>3, <3>1, LedgerKept
  <2>7. Announced(e)'
    BY <1>2, <1>6, <2>1, <2>2, <2>3, AnnouncedKept
  <2>8. Quiet(e)'
    BY <1>2, <1>4, <1>6, <2>1, <2>2, <2>3, QuietKept
  <2> QED BY <2>4, <2>5, <2>6, <2>7, <2>8 DEF Flow
<1> QED BY <1>7, <1>8

(* Registering the two sockets shows whatever has arrived.                  *)
LEMMA RegisterFlow ==
  ASSUME FInv, Register
  PROVE  Standing' /\ \A e \in Ends : Flow(e)'
<1>1. /\ TypeOK /\ Owned /\ Registered /\ Placed
      /\ \A e \in Ends : Formed(e) /\ Early(e) /\ Ledger(e) /\ Announced(e) /\ Quiet(e)
  BY DEF FInv, IInv, Flow
<1>2. /\ pc = "register" /\ pc' = "wait"
      /\ UNCHANGED <<cur, harvested, chunk, st, sock, peer>>
  BY DEF Register
<1> DEFINE G == EndsOf(cur[1])
<1>3. \A e \in Ends : /\ conn'[e] = IF e \in G THEN "live" ELSE conn[e]
                      /\ epoll'[e] = IF e \in G THEN Added(e) ELSE epoll[e]
  BY DEF Register
<1>4. /\ G \subseteq Ends /\ Past = G /\ Past' = {} /\ Handling = {} /\ Handling' = {}
      /\ \A e \in G : conn[e] = "none" /\ st[e] = "open"
  BY <1>1, <1>2, CurFacts DEF Past, Handling, Owned, Held
<1> HIDE DEF G
<1>5. Standing'
  BY <1>2 DEF Standing
<1>6. ASSUME NEW e \in Ends PROVE Flow(e)'
  <2>1. Formed(e) /\ Early(e) /\ Ledger(e) /\ Announced(e) /\ Quiet(e)
    BY <1>1
  <2>2. Formed(e)'
    BY <1>2, <2>1 DEF Formed
  <2>3. Hands(e) = <<>> /\ Hands(e)' = <<>>
    BY <1>2 DEF Hands
  <2>4. CASE e \in G
    <3>1. conn[e] = "none" /\ st[e] = "open" /\ ~sock[e].wshut /\ conn'[e] = "live"
      BY <1>3, <1>4, <2>1, <2>4 DEF Early
    <3>2. Early(e)' /\ Announced(e)'
      BY <1>2, <3>1 DEF Early, Announced
    <3>3. Ledger(e)'
      BY <1>2, <2>1, <2>3, <3>1 DEF Ledger, Lossy
    <3>4. Quiet(e)'
      <4>1. epoll'[e] = "armed" => ~Readable(sock[e])
        BY <1>3, <2>4 DEF Added
      <4> QED BY <1>2, <4>1 DEF Quiet, Emptied, Readable
    <3> QED BY <2>2, <3>2, <3>3, <3>4 DEF Flow
  <2>5. CASE e \notin G
    <3>1. conn'[e] = conn[e] /\ epoll'[e] = epoll[e]
      BY <1>3, <2>5
    <3>2. Early(e)' /\ Announced(e)'
      BY <1>2, <1>4, <2>1, <2>5, <3>1 DEF Early, Announced
    <3>3. Ledger(e)'
      BY <1>2, <2>1, <2>3, <3>1 DEF Ledger, Lossy
    <3>4. Quiet(e)'
      BY <1>2, <1>4, <2>1, <3>1 DEF Quiet
    <3> QED BY <2>2, <3>2, <3>3, <3>4 DEF Flow
  <2> QED BY <2>4, <2>5
<1> QED BY <1>5, <1>6

-----------------------------------------------------------------------------
(* The relay.                                                               *)
LEMMA EventFlow ==
  ASSUME FInv, EpollWait \/ \E x \in Ends : Dispatch(x)
  PROVE  Standing' /\ \A e \in Ends : Flow(e)'
<1>1. /\ TypeOK /\ OneEvent
      /\ \A e \in Ends : Formed(e) /\ Early(e) /\ Ledger(e) /\ Announced(e) /\ Quiet(e)
  BY DEF FInv, IInv, Flow
<1>2. /\ UNCHANGED <<chunk, st, sock, conn, peer>>
      /\ pc = "wait" /\ pc' \in {"wait", "read"}
  BY DEF EpollWait, Dispatch, connVars
<1>3. /\ Past = {} /\ Past' = {} /\ Standing'
      /\ \A e \in Ends : Hands(e) = <<>> /\ Hands(e)' = <<>>
  BY <1>2 DEF Past, Standing, Hands
<1>4. ASSUME NEW e \in Ends PROVE Quiet(e)'
  <2>0. Quiet(e)
    BY <1>1
  <2>1. CASE EpollWait
    <3>1. PICK S \in SUBSET {x \in Ends : epoll[x] = "ready"} :
             /\ harvested' = {x \in S : Readable(sock[x])}
             /\ epoll' = [x \in Ends |-> IF x \in S THEN "armed" ELSE epoll[x]]
      BY <2>1 DEF EpollWait
    <3>2. harvested = {} /\ Handling = {} /\ Handling' = {}
      BY <2>1 DEF EpollWait, Handling
    <3>3. CASE e \in S
      <4>1. e \notin harvested' => ~Readable(sock[e])
        BY <3>1, <3>3
      <4> QED BY <1>2, <3>2, <4>1 DEF Quiet, Emptied, Readable
    <3>4. CASE e \notin S
      BY <1>2, <2>0, <3>1, <3>2, <3>4 DEF Quiet
    <3> QED BY <3>3, <3>4
  <2>2. ASSUME NEW x \in Ends, Dispatch(x) PROVE Quiet(e)'
    <3>1. harvested = {x} /\ Handling = {} /\ Handling' = {x} /\ epoll' = epoll
      BY <1>1, <2>2 DEF OneEvent, Dispatch, Handling, connVars
    <3> QED BY <1>2, <2>0, <3>1 DEF Quiet
  <2> QED BY <2>1, <2>2
<1>5. ASSUME NEW e \in Ends PROVE Flow(e)'
  <2>1. Formed(e) /\ Early(e) /\ Ledger(e) /\ Announced(e) /\ Hands(e)' = Hands(e)
    BY <1>1, <1>3
  <2>2. Formed(e)' /\ Announced(e)'
    BY <1>2, <2>1 DEF Formed, Announced
  <2>3. Early(e)'
    BY <1>2, <1>3, <2>1, EarlyKept
  <2>4. Ledger(e)'
    BY <1>2, <2>1 DEF Ledger, Lossy
  <2> QED BY <1>4, <2>2, <2>3, <2>4 DEF Flow
<1> QED BY <1>3, <1>5

LEMMA ReadFlow ==
  ASSUME FInv, Read
  PROVE  /\ Standing' /\ \A e \in Ends : Flow(e)'
         /\ SameOutside(sock[cur], sock'[cur])
<1>1. /\ TypeOK /\ OneEvent /\ Placed
      /\ \A e \in Ends : Formed(e) /\ Early(e) /\ Ledger(e) /\ Announced(e) /\ Quiet(e)
  BY DEF FInv, IInv, Flow
<1> DEFINE r == TryRead(sock[cur])
<1>2. /\ pc = "read" /\ pc' = AfterRead(r.res) /\ chunk' = r.data
      /\ sock' = [sock EXCEPT ![cur] = r.sock]
      /\ UNCHANGED <<cur, harvested, epoll, conn, st, peer>>
  BY DEF Read, connVars
<1>3. /\ sock[cur] \in Socket /\ peer[cur].ended \in BOOLEAN /\ Formed(cur)
      /\ peer[cur].sent \in Seq(Nat) /\ peer[Opp(cur)].got \in Seq(Nat)
      /\ r.data \in Seq(Nat) /\ r.sock \in Socket
      /\ conn[cur] = "live" /\ harvested = {}
  BY <1>1, <1>2, CurFacts, FieldTypes, TryReadType DEF ResultType, Placed, OneEvent
<1>4. /\ Sound(sock[cur], peer[cur].ended, r)
      /\ r.data = <<>> \/ \E d \in Nat : r.data = <<d>>
      /\ r.res \in {"again", "eof"} => Emptied(r.sock)
      /\ r.res = "again" /\ sock[cur].proto # "vmess" => ~sock[cur].fin
      /\ r.res = "eof" => peer[cur].ended
  BY <1>3, TryReadSound DEF Formed
<1> HIDE DEF r
<1>5. /\ r.data \o Inside(r.sock) = Inside(sock[cur])
      /\ Shaped(r.sock, peer[cur].ended) /\ SameOutside(sock[cur], r.sock)
      /\ r.res \in Results
      /\ r.res = "data" <=> r.data # <<>>
      /\ r.res = "eof" => Inside(r.sock) = <<>>
      /\ r.res = "error" => sock[cur].rst
  BY <1>4 DEF Sound
<1>6. sock'[cur] = r.sock /\ \A e \in Ends \ {cur} : sock'[e] = sock[e]
  BY <1>1, <1>2, CurFacts DEF TypeOK
<1>7. /\ pc' \in {"write", "eof", "wait", "fail"}
      /\ pc' = "write" <=> r.res = "data"
      /\ pc' = "eof" <=> r.res = "eof"
      /\ pc' = "wait" <=> r.res = "again"
      /\ pc' = "fail" <=> r.res = "error"
  BY <1>2, <1>5 DEF AfterRead, Results
<1>8. /\ Past = {} /\ Past' = {} /\ Handling = {cur}
      /\ Handling' = (IF pc' = "wait" THEN {} ELSE {cur})
  BY <1>2, <1>7 DEF Past, Handling
<1>9. Standing'
  <2>1. pc' = "write" => \E d \in Nat : chunk' = <<d>>
    BY <1>2, <1>4, <1>5, <1>7
  <2>2. pc' = "eof" => peer'[cur'].ended /\ Inside(sock'[cur']) = <<>> /\ Emptied(sock'[cur'])
    BY <1>2, <1>4, <1>5, <1>6, <1>7
  <2>3. pc' = "fail" => sock'[cur'].rst /\ cur' \in EndsOf(cur'[1])
    BY <1>1, <1>2, <1>5, <1>6, <1>7, CurFacts DEF SameOutside
  <2> QED BY <2>1, <2>2, <2>3 DEF Standing
<1>10. ASSUME NEW e \in Ends PROVE Flow(e)'
  <2>1. /\ Formed(e) /\ Early(e) /\ Ledger(e) /\ Announced(e) /\ Quiet(e) /\ Opp(e) \in Ends
        /\ Hands(e) = <<>>
    BY <1>1, <1>2, EndFacts DEF Hands
  <2>2. /\ sock'[e].wshut = sock[e].wshut /\ sock'[Opp(e)].wshut = sock[Opp(e)].wshut
        /\ sock'[e].proto = sock[e].proto /\ sock'[e].fin = sock[e].fin
    BY <1>5, <1>6, <2>1 DEF SameOutside
  <2>3. Announced(e)'
    BY <1>2, <2>1, <2>2 DEF Announced
  <2>4. CASE e = cur
    <3>1. Formed(e)'
      BY <1>2, <1>3, <1>5, <1>6, <2>2, <2>4 DEF Formed
    <3>2. Early(e)'
      BY <1>2, <1>3, <2>1, <2>4 DEF Early
    <3>3. Hands(e)' = r.data
      BY <1>2, <1>5, <1>7, <2>4 DEF Hands
    <3>4. Ledger(e)'
      <4> DEFINE g == peer[Opp(e)].got
      <4>1. (g \o <<>>) \o Inside(sock[e]) = (g \o r.data) \o Inside(r.sock)
        <5>1. Inside(r.sock) \in Seq(Nat) /\ g \in Seq(Nat)
          BY <1>3, <2>4, InsideType
        <5>2. Inside(sock[e]) = r.data \o Inside(r.sock)
          BY <1>5, <2>4
        <5>3. r.data \in Seq(Nat)
          BY <1>3
        <5> DEFINE i == Inside(r.sock)
                   d == r.data
        <5>4. g \o <<>> = g
          BY <5>1, NoConcat
        <5>5. (g \o d) \o i = g \o (d \o i)
          <6> HIDE DEF g, d, i
          <6> QED BY <5>1, <5>3, Assoc DEF d, i
        <5> QED BY <5>2, <5>4, <5>5
      <4>2. /\ Ledger(e) => \/ conn[e] = "freed" \/ Lossy(e)
                           \/ peer[e].sent = (g \o <<>>) \o Inside(sock[e])
            /\ Lossy(e) => Lossy(e)'
        BY <1>2, <2>1, <2>2 DEF Ledger, Lossy
      <4>3. /\ peer'[e].sent = peer[e].sent /\ peer'[Opp(e)].got = g
            /\ Inside(sock'[e]) = Inside(r.sock) /\ conn'[e] = conn[e]
        BY <1>2, <1>6, <2>4
      <4> HIDE DEF g
      <4> QED BY <2>1, <3>3, <4>1, <4>2, <4>3 DEF Ledger
    <3>5. Quiet(e)'
      BY <1>2, <1>3, <1>4, <1>6, <1>7, <1>8, <2>2, <2>4 DEF Quiet
    <3> QED BY <2>3, <3>1, <3>2, <3>4, <3>5 DEF Flow
  <2>5. CASE e # cur
    <3>1. sock'[e] = sock[e]
      BY <1>6, <2>5
    <3>2. Formed(e)'
      BY <1>2, <2>1, <3>1 DEF Formed
    <3>3. Early(e)'
      BY <1>2, <1>8, <2>1, <3>1, EarlyKept
    <3>4. Ledger(e)'
      <4>1. Hands(e)' = <<>>
        BY <1>2, <2>5 DEF Hands
      <4> QED BY <1>2, <2>1, <3>1, <4>1 DEF Ledger, Lossy
    <3>5. Quiet(e)'
      BY <1>2, <1>8, <2>1, <2>2, <2>5, <3>1 DEF Quiet
    <3> QED BY <2>3, <3>2, <3>3, <3>4, <3>5 DEF Flow
  <2> QED BY <2>4, <2>5
<1> QED BY <1>5, <1>6, <1>9, <1>10

LEMMA WriteFlow ==
  ASSUME FInv, Write
  PROVE  Standing' /\ \A e \in Ends : Flow(e)'
<1>1. /\ TypeOK /\ Placed
      /\ \A e \in Ends : Formed(e) /\ Early(e) /\ Ledger(e) /\ Announced(e) /\ Quiet(e)
  BY DEF FInv, IInv, Flow
<1> DEFINE o == Opp(cur)
           g == peer[o].got \o chunk
           n == peer[o].unread + 1
<1>2. /\ pc = "write" /\ pc' = "read" /\ chunk' = <<>>
      /\ UNCHANGED <<cur, harvested, epoll, conn, st, sock>>
  BY DEF Write, AfterWrite, connVars
<1>3. peer' = [peer EXCEPT ![o] = [peer[o] EXCEPT !.got = g, !.unread = n]]
  BY <1>1, CurFacts DEF Write, TypeOK
<1>4. g = peer[o].got \o chunk
  OBVIOUS
<1>5. /\ o \in Ends /\ o # cur /\ \A e \in Ends : Opp(e) = o <=> e = cur
      /\ peer[o] \in Peer /\ chunk \in Seq(Nat) /\ peer[o].got \in Seq(Nat)
      /\ Inside(sock[cur]) \in Seq(Nat)
  BY <1>1, CurFacts, EndFacts, FieldTypes
<1> HIDE DEF g, n, o
<1>6. /\ peer'[o].got = g
      /\ \A e \in Ends : /\ peer'[e].sent = peer[e].sent /\ peer'[e].ended = peer[e].ended
                         /\ peer'[e].greeted = peer[e].greeted
                         /\ e # o => peer'[e].got = peer[e].got
  BY <1>1, <1>3, <1>5 DEF TypeOK, Peer
<1>7. /\ Past = {} /\ Past' = {} /\ Handling = {cur} /\ Handling' = {cur}
  BY <1>2 DEF Past, Handling
<1>8. Standing'
  BY <1>2 DEF Standing
<1>9. g \in Seq(Nat)
  BY <1>4, <1>5, ConcatProperties
<1>10. ASSUME NEW e \in Ends PROVE Flow(e)'
  <2>1. /\ Formed(e) /\ Early(e) /\ Ledger(e) /\ Announced(e) /\ Quiet(e) /\ Opp(e) \in Ends
        /\ Hands(e) = (IF e = cur THEN chunk ELSE <<>>) /\ Hands(e)' = <<>>
    BY <1>1, <1>2, EndFacts DEF Hands
  <2>2. Formed(e)' /\ Announced(e)' /\ Quiet(e)'
    BY <1>2, <1>6, <1>7, <2>1 DEF Formed, Announced, Quiet
  <2>3. Early(e)'
    BY <1>2, <1>6, <1>7, <2>1, EarlyKept
  <2>4. Ledger(e)'
    <3>1. CASE e = cur
      <4>1. g \o <<>> = g
        BY <1>9, NoConcat
      <4>2. peer'[Opp(e)].got = g /\ Opp(e) = o
        BY <1>5, <1>6, <3>1
      <4> QED BY <1>2, <1>4, <1>6, <2>1, <3>1, <4>1, <4>2 DEF Ledger, Lossy
    <3>2. CASE e # cur
      BY <1>2, <1>5, <1>6, <2>1, <3>2 DEF Ledger, Lossy
    <3> QED BY <3>1, <3>2
  <2> QED BY <2>2, <2>3, <2>4 DEF Flow
<1> QED BY <1>8, <1>10

LEMMA WriteFailFlow ==
  ASSUME FInv, WriteFail
  PROVE  Standing' /\ \A e \in Ends : Flow(e)'
<1>1. /\ TypeOK /\ Placed /\ Paired
      /\ \A e \in Ends : Formed(e) /\ Early(e) /\ Ledger(e) /\ Announced(e) /\ Quiet(e)
  BY DEF FInv, IInv, Flow
<1>2. /\ pc = "write" /\ pc' = "fail"
      /\ UNCHANGED <<cur, harvested, epoll, conn, st, sock, peer>>
      /\ sock[Opp(cur)].rst \/ sock[Opp(cur)].wshut
  BY DEF WriteFail, connVars
<1>3. Past = {} /\ Past' = {} /\ Handling = {cur} /\ Handling' = {cur}
  BY <1>2 DEF Past, Handling
<1>4. Standing'
  <2>1. conn[Opp(cur)] = "live"
    BY <1>1, <1>2, CurFacts DEF Placed, Paired
  <2>2. sock[Opp(cur)].wshut => peer[cur].ended
    BY <1>1, <2>1, CurFacts DEF Announced
  <2> QED BY <1>1, <1>2, <2>2, CurFacts DEF Standing
<1>5. ASSUME NEW e \in Ends PROVE Flow(e)'
  <2>1. Formed(e) /\ Early(e) /\ Ledger(e) /\ Announced(e) /\ Quiet(e)
    BY <1>1
  <2>2. Formed(e)' /\ Announced(e)' /\ Quiet(e)'
    BY <1>2, <1>3, <2>1 DEF Formed, Announced, Quiet
  <2>3. Early(e)'
    BY <1>2, <1>3, <2>1, EarlyKept
  <2>4. Ledger(e)'
    BY <1>2, <2>1 DEF Ledger, Lossy, Hands
  <2> QED BY <2>2, <2>3, <2>4 DEF Flow
<1> QED BY <1>4, <1>5

LEMMA HalfCloseFlow ==
  ASSUME FInv, HalfClose
  PROVE  Standing' /\ \A e \in Ends : Flow(e)'
<1>1. /\ TypeOK /\ Standing
      /\ \A e \in Ends : Formed(e) /\ Early(e) /\ Ledger(e) /\ Announced(e) /\ Quiet(e)
  BY DEF FInv, IInv, Flow
<1> DEFINE o == Opp(cur)
<1>2. /\ pc = "eof" /\ pc' = "wait" /\ epoll' = Wake(o)
      /\ sock' = [sock EXCEPT ![o] = CloseWrite(sock[o])]
      /\ peer' = [peer EXCEPT ![o] = [peer[o] EXCEPT !.told = "fin"]]
      /\ UNCHANGED <<cur, harvested, chunk, conn, st>>
  BY <1>1, CurFacts DEF HalfClose, TypeOK
<1>3. /\ o \in Ends /\ o # cur /\ \A e \in Ends : Opp(e) = o <=> e = cur
      /\ peer[o] \in Peer /\ sock[o] \in Socket
  BY <1>1, CurFacts, EndFacts, FieldTypes
<1> HIDE DEF o
<1>4. /\ sock'[o] = CloseWrite(sock[o]) /\ epoll'[o] # "armed"
      /\ \A e \in Ends \ {o} : sock'[e] = sock[e] /\ epoll'[e] = epoll[e]
  BY <1>1, <1>2, <1>3 DEF TypeOK, Wake
<1>5. /\ SameStream(sock[o], sock'[o])
      /\ sock'[o].proto = sock[o].proto /\ sock'[o].fin = sock[o].fin
      /\ sock'[o].wshut = TRUE
  BY <1>3, <1>4 DEF CloseWrite, SameStream, Socket
<1>6. \A e \in Ends : /\ peer'[e].sent = peer[e].sent /\ peer'[e].ended = peer[e].ended
                      /\ peer'[e].greeted = peer[e].greeted
                      /\ peer'[e].got = peer[e].got
  BY <1>1, <1>2, <1>3 DEF TypeOK, Peer
<1>7. /\ Past = {} /\ Past' = {} /\ Handling = {cur} /\ Handling' = {}
  BY <1>2 DEF Past, Handling
<1>8. Standing'
  BY <1>2 DEF Standing
<1>9. peer[cur].ended /\ (epoll[cur] = "armed" => Emptied(sock[cur])) /\ cur \in Ends
  BY <1>1, <1>2, CurFacts DEF Standing
<1>10. ASSUME NEW e \in Ends PROVE Flow(e)'
  <2>1. /\ Formed(e) /\ Early(e) /\ Ledger(e) /\ Announced(e) /\ Quiet(e) /\ Opp(e) \in Ends
        /\ Hands(e) = <<>> /\ Hands(e)' = <<>>
    BY <1>1, <1>2, EndFacts DEF Hands
  <2>2. CASE e = o
    <3>1. Formed(e)'
      BY <1>5, <1>6, <2>1, <2>2, FormedKept
    <3>2. conn[e] = "live" /\ Opp(e) = cur
      <4>1. conn[cur] = "live" /\ conn[o] = conn[cur]
        BY <1>2, <1>9 DEF FInv, IInv, Placed, Paired, o
      <4> QED BY <1>1, <2>2, <4>1, CurFacts DEF o
    <3>3. Early(e)'
      BY <1>2, <2>1, <3>2 DEF Early
    <3>4. Ledger(e)'
      <4>1. Inside(sock'[e]) = Inside(sock[e])
        BY <1>5, <2>2 DEF Inside, SameStream
      <4> QED BY <1>2, <1>5, <1>6, <2>1, <2>2, <4>1 DEF Ledger, Lossy
    <3>5. Announced(e)'
      BY <1>6, <1>9, <3>2 DEF Announced
    <3>6. Quiet(e)'
      BY <1>4, <2>2 DEF Quiet
    <3> QED BY <3>1, <3>3, <3>4, <3>5, <3>6 DEF Flow
  <2>3. CASE e # o
    <3>1. sock'[e] = sock[e] /\ epoll'[e] = epoll[e]
      BY <1>4, <2>3
    <3>2. Formed(e)' /\ Announced(e)'
      BY <1>2, <1>6, <2>1, <3>1 DEF Formed, Announced
    <3>3. Early(e)'
      BY <1>2, <1>6, <1>7, <2>1, <3>1, EarlyKept
    <3>4. Ledger(e)'
      BY <1>2, <1>6, <2>1, <3>1 DEF Ledger, Lossy
    <3>5. Quiet(e)'
      <4>1. CASE e = cur
        <5>1. sock'[Opp(e)].wshut
          BY <1>3, <1>5, <4>1
        <5>2. epoll'[e] = "armed" => Emptied(sock'[e])
          BY <1>9, <3>1, <4>1
        <5> QED BY <5>1, <5>2 DEF Quiet
      <4>2. CASE e # cur
        <5>1. sock'[Opp(e)] = sock[Opp(e)]
          BY <1>3, <1>4, <2>1, <4>2
        <5> QED BY <1>2, <1>7, <2>1, <3>1, <4>2, <5>1 DEF Quiet
      <4> QED BY <4>1, <4>2
    <3> QED BY <3>2, <3>3, <3>4, <3>5 DEF Flow
  <2> QED BY <2>2, <2>3
<1> QED BY <1>8, <1>10

LEMMA RemovalFlow ==
  ASSUME FInv, FullClose \/ Fail
  PROVE  Standing' /\ \A e \in Ends : Flow(e)'
<1>1. /\ TypeOK /\ OneEvent
      /\ \A e \in Ends : Formed(e) /\ Early(e) /\ Ledger(e) /\ Announced(e) /\ Quiet(e)
  BY DEF FInv, IInv, Flow
<1>2. /\ pc \in {"eof", "fail"} /\ pc' = "wait"
      /\ UNCHANGED <<cur, harvested, chunk>>
  BY DEF FullClose, Fail
<1> DEFINE G == EndsOf(cur[1])
<1>3. PICK C : RemoveConn(cur[1], C) /\ C \subseteq G
  BY <1>1, CurFacts DEF FullClose, Fail, Unclosed
<1>4. /\ CloseAndFree(G, C)
      /\ \A e \in Ends : /\ epoll'[e] = IF e \in G THEN "none" ELSE epoll[e]
                         /\ conn'[e] = IF e \in G THEN "freed" ELSE conn[e]
  BY <1>3 DEF RemoveConn
<1>5. /\ cur \in G /\ \A e \in Ends : e \in G <=> Opp(e) \in G
      /\ harvested = {} /\ harvested' = {}
      /\ Past = {} /\ Past' = {} /\ Handling = {cur} /\ Handling' = {}
  <2>1. cur \in G /\ \A e \in Ends : e \in G <=> Opp(e) \in G
    BY <1>1, CurFacts, EndFacts, EndsOfFacts
  <2> QED BY <1>1, <1>2, <2>1 DEF OneEvent, Past, Handling
<1> HIDE DEF G
<1>6. Standing'
  BY <1>2 DEF Standing
<1>7. ASSUME NEW e \in Ends PROVE Flow(e)'
  <2>1. /\ Formed(e) /\ Early(e) /\ Ledger(e) /\ Announced(e) /\ Quiet(e) /\ Opp(e) \in Ends
        /\ Hands(e) = <<>> /\ Hands(e)' = <<>>
    BY <1>1, <1>2, EndFacts DEF Hands
  <2>2. /\ SameStream(sock[e], sock'[e]) /\ Inside(sock'[e]) = Inside(sock[e])
        /\ sock'[e].proto = sock[e].proto /\ sock'[e].fin = sock[e].fin
        /\ e \notin C => sock'[e] = sock[e]
        /\ peer'[e].sent = peer[e].sent
        /\ peer'[e].ended = peer[e].ended /\ peer'[e].greeted = peer[e].greeted
        /\ st'[e] = IF e \in G THEN "freed" ELSE st[e]
    BY <1>1, <1>4, ClosedFields
  <2>3. /\ sock[Opp(e)].wshut => sock'[Opp(e)].wshut
        /\ peer'[Opp(e)].got = peer[Opp(e)].got /\ peer'[Opp(e)].ended = peer[Opp(e)].ended
        /\ st'[Opp(e)] = IF Opp(e) \in G THEN "freed" ELSE st[Opp(e)]
    BY <1>1, <1>4, <2>1, ClosedFields
  <2>4. Formed(e)'
    BY <2>1, <2>2, FormedKept
  <2>5. CASE e \in G
    <3>1. conn'[e] = "freed" /\ epoll'[e] = "none" /\ st'[e] = "freed" /\ st'[Opp(e)] = "freed"
      BY <1>4, <1>5, <2>2, <2>3, <2>5
    <3>2. Early(e)' /\ Ledger(e)' /\ Announced(e)' /\ Quiet(e)'
      BY <3>1 DEF Early, Ledger, Announced, Quiet
    <3> QED BY <2>4, <3>2 DEF Flow
  <2>6. CASE e \notin G
    <3>1. /\ conn'[e] = conn[e] /\ epoll'[e] = epoll[e] /\ sock'[e] = sock[e]
          /\ st'[e] = st[e] /\ st'[Opp(e)] = st[Opp(e)] /\ e # cur
      BY <1>3, <1>4, <1>5, <2>1, <2>2, <2>3, <2>6
    <3>2. Early(e)'
      BY <1>5, <2>1, <2>2, <3>1, EarlyKept
    <3>3. Ledger(e)'
      BY <2>1, <2>2, <2>3, <3>1 DEF Ledger, Lossy
    <3>4. Announced(e)'
      BY <2>1, <2>3, <3>1 DEF Announced
    <3>5. Quiet(e)'
      BY <1>5, <2>1, <2>3, <3>1 DEF Quiet
    <3> QED BY <2>4, <3>2, <3>3, <3>4, <3>5 DEF Flow
  <2> QED BY <2>5, <2>6
<1> QED BY <1>6, <1>7

-----------------------------------------------------------------------------
LEMMA InitFlow ==
  ASSUME Init
  PROVE  Standing /\ \A e \in Ends : Flow(e)
<1>1. PICK ip \in InProtos, op \in OutProtos :
         sock = [e \in Ends |-> NewSocket(IF e[2] = "in" THEN ip ELSE op)]
  BY DEF Init
<1>2. Standing /\ Handling = {} /\ Past = {}
  BY DEF Init, Standing, Handling, Past
<1>3. ASSUME NEW e \in Ends PROVE Flow(e)
  <2>1. /\ pc = "wait" /\ st[e] = "none" /\ conn[e] = "none" /\ epoll[e] = "none"
        /\ peer[e] = NewPeer /\ peer[Opp(e)] = NewPeer /\ Opp(e) \in Ends
    BY EndFacts DEF Init
  <2> DEFINE p == IF e[2] = "in" THEN ip ELSE op
  <2>2. sock[e] = NewSocket(p)
    BY <1>1
  <2>3. p \in (IF e[2] = "in" THEN InProtos ELSE OutProtos)
    OBVIOUS
  <2> HIDE DEF p
  <2>4. /\ sock[e].proto = p /\ ~sock[e].hello /\ sock[e].kbuf = <<>> /\ ~sock[e].kend
        /\ ~sock[e].fin /\ sock[e].raw = <<>> /\ ~sock[e].rend /\ ~sock[e].eof
        /\ ~sock[e].wshut
    BY <2>2 DEF NewSocket
  <2>5. /\ peer[e].sent = <<>> /\ ~peer[e].greeted /\ ~peer[e].ended
        /\ peer[Opp(e)].got = <<>>
    BY <2>1 DEF NewPeer
  <2>6. Formed(e)
    BY <2>3, <2>4, <2>5 DEF Formed, Shaped
  <2>7. Early(e)
    BY <1>2, <2>1, <2>4, <2>5 DEF Early, Untouched
  <2>8. Ledger(e)
    <3>1. <<>> \in Seq(Nat)
      OBVIOUS
    <3>2. Inside(sock[e]) = <<>> /\ (<<>> \o <<>>) \o <<>> = <<>>
      BY <2>4, <3>1, NoConcat DEF Inside
    <3>3. Hands(e) = <<>>
      BY <2>1 DEF Hands
    <3> QED BY <2>5, <3>2, <3>3 DEF Ledger
  <2>9. Announced(e) /\ Quiet(e)
    BY <2>1 DEF Announced, Quiet
  <2> QED BY <2>6, <2>7, <2>8, <2>9 DEF Flow
<1> QED BY <1>2, <1>3

(* With the streams, the invariant is inductive too.                        *)
THEOREM FlowInvariance == Spec => []FInv
<1>1. Init => FInv
  BY InitFlow, InitIInv DEF FInv
<1>2. FInv /\ IInv' /\ [Next]_vars => FInv'
  <2> SUFFICES ASSUME FInv, IInv', [Next]_vars
               PROVE  Standing' /\ \A e \in Ends : Flow(e)'
    BY DEF FInv
  <2>1. CASE Peers
    <3>1. ASSUME NEW c \in Conns, PeerConnect(c)
          PROVE  Standing' /\ \A e \in Ends : Flow(e)'
      BY <3>1, ConnectFlow
    <3>2. ASSUME NEW x \in Ends, PeerStep(x)
          PROVE  Standing' /\ \A e \in Ends : Flow(e)'
      BY <3>2, PeerFlow
    <3> QED BY <2>1, <3>1, <3>2 DEF Peers, PeerStep
  <2>2. CASE (\E c \in Conns : Accept(c)) \/ NullTarget \/ DialOk
    BY <2>2, BeginFlow
  <2>3. CASE HandshakeOk
    BY <2>3, HelloFlow
  <2>4. CASE HandshakeFail \/ DialFail
    BY <2>4, GiveUpFlow
  <2>5. CASE Register
    BY <2>5, RegisterFlow
  <2>6. CASE EpollWait \/ \E x \in Ends : Dispatch(x)
    BY <2>6, EventFlow
  <2>7. CASE Read
    BY <2>7, ReadFlow
  <2>8. CASE Write
    BY <2>8, WriteFlow
  <2>9. CASE WriteFail
    BY <2>9, WriteFailFlow
  <2>10. CASE HalfClose
    BY <2>10, HalfCloseFlow
  <2>11. CASE FullClose \/ Fail
    BY <2>11, RemovalFlow
  <2>12. CASE UNCHANGED vars
    <3>1. Standing /\ \A e \in Ends : Flow(e)
      BY DEF FInv
    <3>2. UNCHANGED <<pc, cur, harvested, chunk, st, sock, epoll, conn, peer>>
      BY <2>12 DEF vars
    <3>3. Standing'
      BY <3>1, <3>2 DEF Standing
    <3>4. ASSUME NEW e \in Ends PROVE Flow(e)'
      <4>1. Formed(e)' /\ Announced(e)' /\ Ledger(e)'
        BY <3>1, <3>2 DEF Flow, Formed, Announced, Ledger, Hands, Lossy
      <4>2. Past' = Past /\ Handling' = Handling
        BY <3>2 DEF Past, Handling
      <4>3. Early(e)' /\ Quiet(e)'
        BY <3>1, <3>2, <4>2 DEF Flow, Early, Quiet
      <4> QED BY <4>1, <4>3 DEF Flow
    <3> QED BY <3>3, <3>4
  <2> QED BY <2>1, <2>2, <2>3, <2>4, <2>5, <2>6, <2>7, <2>8, <2>9, <2>10, <2>11, <2>12
          DEF Next, Worker, Handle
<1> QED BY <1>1, <1>2, Invariance, PTL DEF Spec

-----------------------------------------------------------------------------
(* What events tell.                                                        *)

(* A socket whose handler may go back to epoll_wait: its own buffer is      *)
(* empty and it is not broken.                                              *)
Drained(so) == so.raw = <<>> /\ ~so.rend /\ ~so.rst

(* An end without an event is drained, or the handshake stranded it.        *)
Told(e) ==
    epoll[e] = "armed" /\ e \notin harvested \cup Handling
       => Stranded(e) \/ Drained(sock[e])

(* A plain stream ends with its FIN.  A VMess socket whose read_buf is      *)
(* closed has been counted and passed on, or is about to be.                *)
Passed(e) ==
    /\ sock[e].proto # "vmess" /\ peer[e].ended => sock[e].fin
    /\ conn[e] = "none" => ~sock[e].eof
    /\ conn[e] = "live" /\ sock[e].eof =>
          \/ nclosed[e] = 1 /\ sock[Opp(e)].wshut
          \/ pc = "eof" /\ cur = e

(* The end that is being announced has nothing left, and is not broken      *)
(* unless its other end was announced before or an event will tell.         *)
AtEnd ==
    pc = "eof" =>
       /\ sock[cur].raw = <<>> /\ ~sock[cur].rend
       /\ epoll[cur] = "armed" /\ nclosed[cur] = 0 => ~sock[cur].rst

WInv == AtEnd /\ \A e \in Ends : Told(e) /\ Passed(e)

(* A step does not strand an end that is relayed.                           *)
NotStranded(e) ==
    conn[e] = "live" /\ conn'[e] = "live" /\ Stranded(e)' => Stranded(e)

(* All of a socket but its sending side.                                    *)
SameSide(so, x) ==
    /\ SameStream(so, x) /\ x.hello = so.hello /\ x.proto = so.proto
    /\ x.fin = so.fin /\ x.rst = so.rst

(* What a step has to leave alone.                                          *)
LEMMA EventKept ==
  ASSUME NEW e \in Ends, Told(e), Passed(e), SameSide(sock[e], sock'[e]),
         peer'[e].ended = peer[e].ended,
         conn'[e] = conn[e], nclosed'[e] = nclosed[e],
         epoll'[e] = "armed" => epoll[e] = "armed",
         (e \in harvested \cup Handling)' <=> e \in harvested \cup Handling,
         sock[Opp(e)].wshut => sock'[Opp(e)].wshut,
         pc = "eof" /\ cur = e => pc' = "eof" /\ cur' = e
  PROVE  Told(e)' /\ Passed(e)' /\ NotStranded(e)
<1>1. Readable(sock'[e]) <=> Readable(sock[e])
  BY DEF SameSide, SameStream, Readable
<1>2. Stranded(e)' <=> Stranded(e)
  BY <1>1 DEF Stranded, SameSide, SameStream
<1>3. Drained(sock'[e]) <=> Drained(sock[e])
  BY DEF Drained, SameSide, SameStream
<1>4. Told(e)'
  BY <1>2, <1>3 DEF Told
<1>5. Passed(e)'
  BY DEF Passed, SameSide, SameStream
<1> QED BY <1>2, <1>4, <1>5 DEF NotStranded

(* A peer's step touches no buffer of the socket, and what it brings can be *)
(* read.                                                                    *)
LEMMA PeerBuffers ==
  ASSUME TypeOK, NEW x \in Ends, PeerStep(x)
  PROVE  /\ sock'[x].raw = sock[x].raw /\ sock'[x].rend = sock[x].rend
         /\ sock'[x].eof = sock[x].eof /\ sock'[x].proto = sock[x].proto
         /\ sock'[x] = sock[x] \/ Readable(sock'[x])
         /\ sock[x].fin => sock'[x].fin
         /\ sock[x].proto # "vmess" /\ peer'[x].ended => peer[x].ended \/ sock'[x].fin
         /\ nclosed' = nclosed
<1>0. sock[x] \in Socket /\ peer[x] \in Peer /\ sock[x].kbuf \in Seq(Nat)
  BY FieldTypes
<1>1. CASE PeerGreet(x)
  <2>1. Arrive(x, [sock[x] EXCEPT !.hello = TRUE], [peer[x] EXCEPT !.greeted = TRUE])
    BY <1>1 DEF PeerGreet
  <2>2. /\ sock'[x] = [sock[x] EXCEPT !.hello = TRUE]
        /\ peer'[x] = [peer[x] EXCEPT !.greeted = TRUE] /\ nclosed' = nclosed
    BY <1>0, <2>1, Arrived DEF Arrive
  <2>3. /\ sock'[x].raw = sock[x].raw /\ sock'[x].rend = sock[x].rend
        /\ sock'[x].eof = sock[x].eof /\ sock'[x].proto = sock[x].proto
        /\ sock'[x].hello = TRUE /\ (sock[x].fin => sock'[x].fin)
    BY <1>0, <2>2 DEF Socket
  <2>4. peer'[x].ended = peer[x].ended
    BY <1>0, <2>2 DEF Peer
  <2> QED BY <2>2, <2>3, <2>4 DEF Readable
<1>2. CASE PeerSend(x)
  <2> DEFINE d == Len(peer[x].sent) + 1
             q == Append(sock[x].kbuf, d)
  <2>1. Arrive(x, [sock[x] EXCEPT !.kbuf = q], [peer[x] EXCEPT !.sent = Append(@, d)])
    BY <1>2 DEF PeerSend
  <2>2. /\ sock'[x] = [sock[x] EXCEPT !.kbuf = q] /\ nclosed' = nclosed
        /\ peer'[x] = [peer[x] EXCEPT !.sent = Append(@, d)]
    BY <1>0, <2>1, Arrived DEF Arrive
  <2>3. q # <<>>
    <3>1. d \in Nat
      BY <1>0, LenProperties DEF Peer
    <3> HIDE DEF d
    <3> QED BY <1>0, <3>1, AppendProperties
  <2> HIDE DEF q
  <2>4. /\ sock'[x].raw = sock[x].raw /\ sock'[x].rend = sock[x].rend
        /\ sock'[x].eof = sock[x].eof /\ sock'[x].proto = sock[x].proto
        /\ sock'[x].kbuf = q /\ (sock[x].fin => sock'[x].fin)
    BY <1>0, <2>2 DEF Socket
  <2>5. peer'[x].ended = peer[x].ended
    BY <1>0, <2>2 DEF Peer
  <2> QED BY <2>2, <2>3, <2>4, <2>5 DEF Readable
<1>3. CASE PeerEnd(x)
  <2>1. /\ Arrive(x, [sock[x] EXCEPT !.kend = TRUE], [peer[x] EXCEPT !.ended = TRUE])
        /\ sock[x].proto = "vmess"
    BY <1>3 DEF PeerEnd
  <2>2. sock'[x] = [sock[x] EXCEPT !.kend = TRUE] /\ nclosed' = nclosed
    BY <2>1, Arrived DEF Arrive
  <2> QED BY <1>0, <2>1, <2>2 DEF Socket, Readable
<1>4. CASE PeerFin(x)
  <2>1. PICK p : Arrive(x, [sock[x] EXCEPT !.fin = TRUE], p)
    BY <1>4 DEF PeerFin
  <2>2. sock'[x] = [sock[x] EXCEPT !.fin = TRUE] /\ nclosed' = nclosed
    BY <1>0, <2>1, Arrived DEF Arrive
  <2>3. /\ sock'[x].raw = sock[x].raw /\ sock'[x].rend = sock[x].rend
        /\ sock'[x].eof = sock[x].eof /\ sock'[x].proto = sock[x].proto
        /\ sock'[x].fin = TRUE /\ (sock[x].fin => sock'[x].fin)
    BY <1>0, <2>2 DEF Socket
  <2> QED BY <2>2, <2>3 DEF Readable
<1>5. CASE PeerReset(x)
  <2>1. Arrive(x, [sock[x] EXCEPT !.rst = TRUE], peer[x])
    BY <1>5 DEF PeerReset
  <2>2. /\ sock'[x] = [sock[x] EXCEPT !.rst = TRUE] /\ peer'[x] = peer[x]
        /\ nclosed' = nclosed
    BY <2>1, Arrived DEF Arrive
  <2> QED BY <1>0, <2>2 DEF Socket, Readable
<1>6. CASE PeerRecv(x)
  <2>1. sock' = sock /\ nclosed' = nclosed
        /\ peer' = [peer EXCEPT ![x].unread = @ - 1]
    BY <1>6 DEF PeerRecv, connVars
  <2>2. peer'[x].ended = peer[x].ended
    BY <1>0, <2>1 DEF TypeOK, Peer
  <2> QED BY <2>1, <2>2
<1> QED BY <1>1, <1>2, <1>3, <1>4, <1>5, <1>6 DEF PeerStep

LEMMA PeerEvents ==
  ASSUME FInv, WInv, NEW x \in Ends, PeerStep(x)
  PROVE  AtEnd' /\ \A e \in Ends : Told(e)' /\ Passed(e)' /\ NotStranded(e)
<1>1. TypeOK /\ AtEnd /\ \A e \in Ends : Told(e) /\ Passed(e)
  BY DEF FInv, IInv, WInv
<1>2. Kept(x)
  BY <1>1, PeerParts
<1>3. /\ UNCHANGED <<pc, cur, harvested, conn, nclosed>> /\ Handling' = Handling
      /\ \A e \in Ends \ {x} :
            sock'[e] = sock[e] /\ peer'[e] = peer[e] /\ epoll'[e] = epoll[e]
      /\ epoll'[x] = "armed" => epoll[x] = "armed" /\ sock'[x] = sock[x]
      /\ sock'[x].wshut = sock[x].wshut
  BY <1>1, <1>2, PeerBuffers DEF Kept, Handling
<1>4. /\ sock'[x].raw = sock[x].raw /\ sock'[x].rend = sock[x].rend
      /\ sock'[x].eof = sock[x].eof /\ sock'[x].proto = sock[x].proto
      /\ sock'[x] = sock[x] \/ Readable(sock'[x])
      /\ sock[x].fin => sock'[x].fin
      /\ sock[x].proto # "vmess" /\ peer'[x].ended => peer[x].ended \/ sock'[x].fin
  BY <1>1, PeerBuffers
<1>5. AtEnd'
  <2>1. cur \in Ends
    BY <1>1 DEF TypeOK
  <2>2. CASE cur = x
    BY <1>1, <1>3, <1>4, <2>2 DEF AtEnd
  <2>3. CASE cur # x
    BY <1>1, <1>3, <2>1, <2>3 DEF AtEnd
  <2> QED BY <2>2, <2>3
<1>6. ASSUME NEW e \in Ends PROVE Told(e)' /\ Passed(e)' /\ NotStranded(e)
  <2>1. Told(e) /\ Passed(e) /\ Opp(e) \in Ends /\ sock'[Opp(e)].wshut = sock[Opp(e)].wshut
    BY <1>1, <1>3, EndFacts
  <2>2. CASE e = x
    <3>1. Told(e)'
      BY <1>3, <2>1, <2>2 DEF Told, Stranded
    <3>2. Passed(e)'
      BY <1>3, <1>4, <2>1, <2>2 DEF Passed
    <3>3. NotStranded(e)
      BY <1>3, <1>4, <2>2 DEF NotStranded, Stranded
    <3> QED BY <3>1, <3>2, <3>3
  <2>3. CASE e # x
    <3>1. SameSide(sock[e], sock'[e])
      BY <1>3, <2>3 DEF SameSide, SameStream
    <3> QED BY <1>3, <2>1, <2>3, <3>1, EventKept
  <2> QED BY <2>2, <2>3
<1> QED BY <1>5, <1>6

(* A step that leaves the sockets, the events and the counts alone.         *)
LEMMA StepEvents ==
  ASSUME WInv, UNCHANGED <<sock, conn, nclosed, epoll, harvested>>,
         Handling' = Handling, pc # "eof", pc' # "eof",
         \A e \in Ends : peer'[e].ended = peer[e].ended
  PROVE  AtEnd' /\ \A e \in Ends : Told(e)' /\ Passed(e)' /\ NotStranded(e)
<1>1. AtEnd'
  BY DEF AtEnd
<1>2. ASSUME NEW e \in Ends PROVE Told(e)' /\ Passed(e)' /\ NotStranded(e)
  <2>1. Told(e) /\ Passed(e) /\ SameSide(sock[e], sock'[e])
    BY DEF WInv, SameSide, SameStream
  <2> QED BY <2>1, EventKept
<1> QED BY <1>1, <1>2

LEMMA BeginEvents ==
  ASSUME FInv, WInv,
         \/ \E c \in Conns : PeerConnect(c) \/ Accept(c)
         \/ NullTarget \/ DialOk \/ Write \/ WriteFail
  PROVE  AtEnd' /\ \A e \in Ends : Told(e)' /\ Passed(e)' /\ NotStranded(e)
<1>1. CASE \E c \in Conns : PeerConnect(c)
  <2>1. UNCHANGED <<pc, cur, sock, peer, conn, nclosed, epoll, harvested>>
    BY <1>1 DEF PeerConnect, workerVars, connVars
  <2>2. Handling' = Handling
    BY <2>1 DEF Handling
  <2>3. AtEnd'
    BY <2>1 DEF WInv, AtEnd
  <2>4. ASSUME NEW e \in Ends PROVE Told(e)' /\ Passed(e)' /\ NotStranded(e)
    <3>1. Told(e) /\ Passed(e) /\ SameSide(sock[e], sock'[e])
      BY <2>1 DEF WInv, SameSide, SameStream
    <3> QED BY <2>1, <2>2, <3>1, EventKept
  <2> QED BY <2>3, <2>4
<1>2. CASE (\E c \in Conns : Accept(c)) \/ NullTarget \/ DialOk
  <2>1. /\ UNCHANGED <<sock, peer, conn, nclosed, epoll, harvested>>
        /\ pc \in {"wait", "dial"} /\ pc' \in {"handshake", "crashed"}
    BY <1>2 DEF Accept, NullTarget, DialOk, connVars
  <2>2. Handling' = Handling
    BY <2>1 DEF Handling
  <2> QED BY <2>1, <2>2, StepEvents
<1>3. CASE Write \/ WriteFail
  <2>1. /\ UNCHANGED <<sock, cur, conn, nclosed, epoll, harvested>>
        /\ pc = "write" /\ pc' \in {"read", "fail"}
    BY <1>3 DEF Write, WriteFail, AfterWrite, connVars
  <2>2. Handling' = Handling
    BY <2>1 DEF Handling
  <2>3. \A e \in Ends : peer'[e].ended = peer[e].ended
    <3>1. CASE WriteFail
      BY <3>1 DEF WriteFail
    <3>2. CASE Write
      <4>1. peer' = [peer EXCEPT ![Opp(cur)].got = @ \o chunk, ![Opp(cur)].unread = @ + 1]
        BY <3>2 DEF Write
      <4> QED BY <4>1 DEF FInv, IInv, TypeOK, Peer
    <3> QED BY <1>3, <3>1, <3>2
  <2> QED BY <2>1, <2>2, <2>3, StepEvents
<1> QED BY <1>1, <1>2, <1>3

LEMMA HelloEvents ==
  ASSUME FInv, WInv, HandshakeOk
  PROVE  AtEnd' /\ \A e \in Ends : Told(e)' /\ Passed(e)' /\ NotStranded(e)
<1>1. /\ TypeOK /\ Owned /\ Registered
      /\ \A e \in Ends : Told(e) /\ Passed(e)
  BY DEF FInv, IInv, WInv
<1>2. PICK over \in Overread(sock[cur]) :
          sock' = [sock EXCEPT ![cur] = ReadHello(sock[cur], over)]
  BY DEF HandshakeOk
<1>3. /\ pc = "handshake" /\ pc' \in {"dial", "register"}
      /\ UNCHANGED <<cur, harvested, epoll, conn, nclosed, peer>>
  BY DEF HandshakeOk, connVars
<1>4. conn[cur] = "none" /\ epoll[cur] = "none" /\ cur \in Ends
  <2>1. cur \in Held
    BY <1>1, <1>3, CurFacts DEF Held
  <2> QED BY <1>1, <2>1, CurFacts DEF Owned, Registered
<1>5. /\ Handling = {} /\ Handling' = {} /\ AtEnd'
  BY <1>3 DEF Handling, AtEnd
<1>6. /\ sock'[cur].eof = sock[cur].eof /\ sock'[cur].proto = sock[cur].proto
      /\ sock'[cur].fin = sock[cur].fin /\ sock'[cur].wshut = sock[cur].wshut
      /\ \A e \in Ends \ {cur} : sock'[e] = sock[e]
  <2>1. sock[cur] \in Socket
    BY <1>1, <1>4, FieldTypes
  <2>2. sock'[cur] = ReadHello(sock[cur], over) /\ \A e \in Ends \ {cur} : sock'[e] = sock[e]
    BY <1>1, <1>2, <1>4 DEF TypeOK
  <2> QED BY <2>1, <2>2 DEF ReadHello, Socket
<1>7. ASSUME NEW e \in Ends PROVE Told(e)' /\ Passed(e)' /\ NotStranded(e)
  <2>1. Told(e) /\ Passed(e) /\ Opp(e) \in Ends /\ sock'[Opp(e)].wshut = sock[Opp(e)].wshut
    BY <1>1, <1>6, EndFacts
  <2>2. CASE e = cur
    BY <1>3, <1>4, <1>6, <2>1, <2>2 DEF Told, Passed, NotStranded
  <2>3. CASE e # cur
    <3>1. SameSide(sock[e], sock'[e])
      BY <1>6, <2>3 DEF SameSide, SameStream
    <3> QED BY <1>3, <1>5, <2>1, <3>1, EventKept
  <2> QED BY <2>2, <2>3
<1> QED BY <1>5, <1>7

(* Closing and freeing touches only the sending sides.                      *)
LEMMA ClosedSide ==
  ASSUME TypeOK, NEW S, NEW C, CloseAndFree(S, C), NEW e \in Ends
  PROVE  /\ SameSide(sock[e], sock'[e]) /\ peer'[e].ended = peer[e].ended
         /\ sock[e].wshut => sock'[e].wshut
<1>1. sock[e] \in Socket
  BY DEF TypeOK
<1>2. sock'[e] = (IF e \in C THEN CloseWrite(sock[e]) ELSE sock[e])
  BY DEF CloseAndFree
<1>3. sock'[e].hello = sock[e].hello
  BY <1>1, <1>2 DEF CloseWrite, Socket
<1> QED BY <1>3, ClosedFields DEF SameSide

LEMMA GiveUpEvents ==
  ASSUME FInv, WInv, HandshakeFail \/ DialFail
  PROVE  AtEnd' /\ \A e \in Ends : Told(e)' /\ Passed(e)' /\ NotStranded(e)
<1>1. TypeOK /\ \A e \in Ends : Told(e) /\ Passed(e)
  BY DEF FInv, IInv, WInv
<1>2. /\ pc \in {"handshake", "dial"} /\ pc' = "wait"
      /\ UNCHANGED <<cur, harvested, epoll, conn, nclosed>>
  BY DEF HandshakeFail, DialFail, connVars
<1>3. \E S : CloseAndFree(S, S)
  BY DEF HandshakeFail, DialFail
<1>4. Handling' = Handling /\ AtEnd'
  BY <1>2 DEF Handling, AtEnd
<1>5. ASSUME NEW e \in Ends PROVE Told(e)' /\ Passed(e)' /\ NotStranded(e)
  <2>1. Told(e) /\ Passed(e) /\ Opp(e) \in Ends
    BY <1>1, EndFacts
  <2>2. /\ SameSide(sock[e], sock'[e]) /\ peer'[e].ended = peer[e].ended
        /\ sock[Opp(e)].wshut => sock'[Opp(e)].wshut
    BY <1>1, <1>3, <2>1, ClosedSide
  <2> QED BY <1>2, <1>4, <2>1, <2>2, EventKept
<1> QED BY <1>4, <1>5

LEMMA RegisterEvents ==
  ASSUME FInv, WInv, Register
  PROVE  AtEnd' /\ \A e \in Ends : Told(e)' /\ Passed(e)' /\ NotStranded(e)
<1>1. /\ TypeOK /\ Owned /\ \A e \in Ends : Told(e) /\ Passed(e)
  BY DEF FInv, IInv, WInv
<1>2. /\ pc = "register" /\ pc' = "wait"
      /\ UNCHANGED <<cur, harvested, sock, nclosed, peer>>
  BY DEF Register
<1> DEFINE G == EndsOf(cur[1])
<1>3. \A e \in Ends : /\ conn'[e] = IF e \in G THEN "live" ELSE conn[e]
                      /\ epoll'[e] = IF e \in G THEN Added(e) ELSE epoll[e]
  BY DEF Register
<1>4. /\ Handling = {} /\ Handling' = {} /\ AtEnd'
      /\ \A e \in G : e \in Ends /\ conn[e] = "none"
  BY <1>1, <1>2, CurFacts DEF Handling, AtEnd, Owned, Held
<1> HIDE DEF G
<1>5. ASSUME NEW e \in Ends PROVE Told(e)' /\ Passed(e)' /\ NotStranded(e)
  <2>1. Told(e) /\ Passed(e)
    BY <1>1
  <2>2. CASE e \in G
    <3>1. conn[e] = "none" /\ ~sock[e].eof
      BY <1>4, <2>1, <2>2 DEF Passed
    <3>2. epoll'[e] = "armed" => ~Readable(sock[e])
      BY <1>3, <2>2 DEF Added
    <3>3. Told(e)'
      BY <1>2, <1>4, <3>2 DEF Told, Stranded, Drained, Readable
    <3>4. Passed(e)'
      BY <1>2, <2>1, <3>1 DEF Passed
    <3> QED BY <3>1, <3>3, <3>4 DEF NotStranded
  <2>3. CASE e \notin G
    <3>1. /\ conn'[e] = conn[e] /\ epoll'[e] = epoll[e]
          /\ SameSide(sock[e], sock'[e]) /\ peer'[e] = peer[e]
          /\ nclosed'[e] = nclosed[e] /\ sock'[Opp(e)] = sock[Opp(e)]
      BY <1>2, <1>3, <2>3 DEF SameSide, SameStream
    <3> QED BY <1>2, <1>4, <2>1, <3>1, EventKept
  <2> QED BY <2>2, <2>3
<1> QED BY <1>4, <1>5

LEMMA WaitEvents ==
  ASSUME FInv, WInv, EpollWait \/ \E x \in Ends : Dispatch(x)
  PROVE  AtEnd' /\ \A e \in Ends : Told(e)' /\ Passed(e)' /\ NotStranded(e)
<1>1. TypeOK /\ OneEvent /\ \A e \in Ends : Told(e) /\ Passed(e)
  BY DEF FInv, IInv, WInv
<1>2. /\ UNCHANGED <<sock, conn, nclosed, peer>>
      /\ pc = "wait" /\ pc' \in {"wait", "read"} /\ AtEnd'
  BY DEF EpollWait, Dispatch, connVars, AtEnd
<1>3. CASE EpollWait
  <2>1. PICK S \in SUBSET {x \in Ends : epoll[x] = "ready"} :
           /\ harvested' = {x \in S : Readable(sock[x])}
           /\ epoll' = [x \in Ends |-> IF x \in S THEN "armed" ELSE epoll[x]]
    BY <1>3 DEF EpollWait
  <2>2. pc' = "wait" /\ harvested = {} /\ Handling = {} /\ Handling' = {}
    BY <1>3 DEF EpollWait, Handling
  <2>3. ASSUME NEW e \in Ends PROVE Told(e)' /\ Passed(e)' /\ NotStranded(e)
    <3>1. Told(e) /\ Passed(e)
      BY <1>1
    <3>2. Passed(e)'
      BY <1>2, <3>1 DEF Passed
    <3>3. NotStranded(e)
      BY <1>2, <2>2 DEF NotStranded, Stranded
    <3>4. CASE e \in S
      <4>1. e \notin harvested' => ~Readable(sock[e])
        BY <2>1, <3>4
      <4>2. Told(e)'
        BY <1>2, <2>2, <4>1 DEF Told, Stranded, Drained, Readable
      <4> QED BY <3>2, <3>3, <4>2
    <3>5. CASE e \notin S
      <4>1. epoll'[e] = epoll[e] /\ e \notin harvested'
        BY <2>1, <3>5
      <4>2. Told(e)'
        BY <1>2, <2>2, <3>1, <4>1 DEF Told, Stranded
      <4> QED BY <3>2, <3>3, <4>2
    <3> QED BY <3>4, <3>5
  <2> QED BY <1>2, <2>3
<1>4. ASSUME NEW x \in Ends, Dispatch(x)
      PROVE  \A e \in Ends : Told(e)' /\ Passed(e)' /\ NotStranded(e)
  <2>1. /\ harvested = {x} /\ harvested' = {} /\ Handling = {} /\ Handling' = {x}
        /\ epoll' = epoll
    BY <1>1, <1>4 DEF OneEvent, Dispatch, Handling, connVars
  <2>2. ASSUME NEW e \in Ends PROVE Told(e)' /\ Passed(e)' /\ NotStranded(e)
    <3>1. Told(e) /\ Passed(e) /\ SameSide(sock[e], sock'[e])
      BY <1>1, <1>2 DEF SameSide, SameStream
    <3> QED BY <1>2, <2>1, <3>1, EventKept
  <2> QED BY <2>2
<1> QED BY <1>2, <1>3, <1>4

LEMMA ReadEvents ==
  ASSUME FInv, WInv, Read
  PROVE  AtEnd' /\ \A e \in Ends : Told(e)' /\ Passed(e)' /\ NotStranded(e)
<1>1. /\ TypeOK /\ OneEvent /\ Placed
      /\ \A e \in Ends : Told(e) /\ Passed(e) /\ Formed(e)
  BY DEF FInv, IInv, WInv, Flow
<1> DEFINE r == TryRead(sock[cur])
<1>2. /\ pc = "read" /\ pc' = AfterRead(r.res)
      /\ sock' = [sock EXCEPT ![cur] = r.sock]
      /\ UNCHANGED <<cur, harvested, epoll, conn, nclosed, st, peer>>
  BY DEF Read, connVars
<1>3. /\ sock[cur] \in Socket /\ peer[cur].ended \in BOOLEAN
      /\ Shaped(sock[cur], peer[cur].ended)
      /\ conn[cur] = "live" /\ harvested = {} /\ cur \in Ends
  BY <1>1, <1>2, CurFacts, FieldTypes DEF Placed, OneEvent, Formed
<1>4. /\ SameOutside(sock[cur], r.sock) /\ r.res \in Results
      /\ r.res \in {"again", "eof"} => r.sock.raw = <<>> /\ ~r.sock.rend
      /\ r.res = "again" => ~sock[cur].rst
      /\ r.res = "eof" => ~sock[cur].rst \/ sock[cur].eof
      /\ r.sock.eof => r.res = "eof"
  <2>1. Sound(sock[cur], peer[cur].ended, r)
    <3>1. sock[cur].proto # "vmess" /\ sock[cur].fin => peer[cur].ended
      BY <1>1, <1>3 DEF Formed
    <3> QED BY <1>3, <3>1, TryReadSound
  <2> QED BY <1>3, <2>1, TryReadDrained DEF Sound
<1> HIDE DEF r
<1>5. sock'[cur] = r.sock /\ \A e \in Ends \ {cur} : sock'[e] = sock[e]
  BY <1>1, <1>2, <1>3 DEF TypeOK
<1>6. /\ pc' \in {"write", "eof", "wait", "fail"}
      /\ pc' = "eof" <=> r.res = "eof"
      /\ pc' = "wait" <=> r.res = "again"
  BY <1>2, <1>4 DEF AfterRead, Results
<1>7. Handling = {cur} /\ Handling' = (IF pc' = "wait" THEN {} ELSE {cur})
  BY <1>2, <1>6 DEF Handling
<1>8. sock[cur].eof => nclosed[cur] = 1
  BY <1>1, <1>2, <1>3 DEF Passed
<1>9. AtEnd'
  <2>1. pc' = "eof" => r.sock.raw = <<>> /\ ~r.sock.rend /\ (nclosed[cur] = 0 => ~r.sock.rst)
    BY <1>4, <1>6, <1>8 DEF SameOutside
  <2> QED BY <1>2, <1>5, <2>1 DEF AtEnd
<1>10. ASSUME NEW e \in Ends PROVE Told(e)' /\ Passed(e)' /\ NotStranded(e)
  <2>1. Told(e) /\ Passed(e) /\ Opp(e) \in Ends
    BY <1>1, EndFacts
  <2>2. sock'[Opp(e)].wshut = sock[Opp(e)].wshut
    BY <1>4, <1>5, <2>1 DEF SameOutside
  <2>3. CASE e = cur
    <3>1. pc' = "wait" => Drained(r.sock)
      BY <1>4, <1>6 DEF Drained, SameOutside
    <3>2. Told(e)'
      BY <1>2, <1>5, <1>7, <2>3, <3>1 DEF Told
    <3>3. Passed(e)'
      BY <1>2, <1>3, <1>4, <1>5, <1>6, <2>1, <2>3 DEF Passed, SameOutside
    <3>4. NotStranded(e)
      BY <1>2, <1>5, <1>7, <2>3, <3>1 DEF NotStranded, Stranded, Drained
    <3> QED BY <3>2, <3>3, <3>4
  <2>4. CASE e # cur
    <3>1. SameSide(sock[e], sock'[e])
      BY <1>5, <2>4 DEF SameSide, SameStream
    <3>2. (e \in harvested \cup Handling)' <=> e \in harvested \cup Handling
      BY <1>2, <1>7, <2>4
    <3> QED BY <1>2, <2>1, <2>2, <2>4, <3>1, <3>2, EventKept
  <2> QED BY <2>3, <2>4
<1> QED BY <1>9, <1>10

LEMMA HalfCloseEvents ==
  ASSUME FInv, WInv, HalfClose
  PROVE  AtEnd' /\ \A e \in Ends : Told(e)' /\ Passed(e)' /\ NotStranded(e)
<1>1. /\ TypeOK /\ AtEnd /\ Paired /\ Counted /\ Placed /\ OneEvent
      /\ \A e \in Ends : Told(e) /\ Passed(e)
  BY DEF FInv, IInv, WInv
<1> DEFINE o == Opp(cur)
<1>2. /\ pc = "eof" /\ pc' = "wait" /\ epoll' = Wake(o) /\ AtEnd'
      /\ sock' = [sock EXCEPT ![o] = CloseWrite(sock[o])]
      /\ peer' = [peer EXCEPT ![o] = [peer[o] EXCEPT !.told = "fin"]]
      /\ UNCHANGED <<cur, harvested, conn>>
      /\ nclosed[cur] + 1 # 2 /\ CountClosed(cur[1])
  BY <1>1, CurFacts DEF HalfClose, TypeOK, AtEnd, BothClosed
<1>3. /\ o \in Ends /\ o # cur /\ cur \in Ends /\ Opp(o) = cur
      /\ \A e \in Ends : (Opp(e) = o <=> e = cur) /\ (e \in EndsOf(cur[1]) <=> e \in {cur, o})
      /\ peer[o] \in Peer /\ sock[o] \in Socket
  BY <1>1, CurFacts, EndFacts, FieldTypes
<1>4. /\ conn[cur] = "live" /\ conn[o] = "live" /\ nclosed[cur] = 0 /\ nclosed[o] = 0
      /\ harvested = {}
  <2>1. conn[cur] = "live" /\ conn[o] = conn[cur] /\ nclosed[o] = nclosed[cur] /\ harvested = {}
    BY <1>1, <1>2, <1>3 DEF Placed, Paired, OneEvent
  <2>2. nclosed[cur] \in 0 .. 2 /\ nclosed[cur] <= 1
    BY <1>1, <1>3, <2>1 DEF TypeOK, Counted
  <2> QED BY <1>2, <2>1, <2>2
<1> HIDE DEF o
<1>5. \A e \in Ends : nclosed'[e] = IF e \in {cur, o} THEN nclosed[e] + 1 ELSE nclosed[e]
  BY <1>2, <1>3 DEF CountClosed
<1>6. /\ sock'[o] = CloseWrite(sock[o]) /\ epoll'[o] # "armed"
      /\ \A e \in Ends \ {o} : sock'[e] = sock[e] /\ epoll'[e] = epoll[e]
  BY <1>1, <1>2, <1>3 DEF TypeOK, Wake
<1>7. SameSide(sock[o], sock'[o]) /\ sock'[o].wshut = TRUE
  BY <1>3, <1>6 DEF CloseWrite, SameSide, SameStream, Socket
<1>8. \A e \in Ends : peer'[e].ended = peer[e].ended
  BY <1>1, <1>2, <1>3 DEF TypeOK, Peer
<1>9. Handling = {cur} /\ Handling' = {}
  BY <1>2 DEF Handling
<1>10. ASSUME NEW e \in Ends PROVE Told(e)' /\ Passed(e)' /\ NotStranded(e)
  <2>1. Told(e) /\ Passed(e)
    BY <1>1
  <2>2. CASE e = cur
    <3>1. /\ sock'[e] = sock[e] /\ epoll'[e] = epoll[e] /\ nclosed'[e] = 1
          /\ sock'[Opp(e)].wshut
      BY <1>3, <1>4, <1>5, <1>6, <1>7, <2>2
    <3>2. /\ sock[e].raw = <<>> /\ ~sock[e].rend
          /\ epoll[e] = "armed" => ~sock[e].rst
      BY <1>1, <1>2, <1>4, <2>2 DEF AtEnd
    <3>3. Told(e)' /\ NotStranded(e)
      BY <3>1, <3>2 DEF Told, NotStranded, Stranded, Drained
    <3>4. Passed(e)'
      BY <1>2, <1>8, <2>1, <3>1 DEF Passed
    <3> QED BY <3>3, <3>4
  <2>3. CASE e = o
    <3>1. ~sock[e].eof
      BY <1>2, <1>3, <1>4, <2>1, <2>3 DEF Passed
    <3>2. Told(e)'
      BY <1>6, <2>3 DEF Told
    <3>3. Passed(e)'
      BY <1>2, <1>4, <1>7, <1>8, <2>1, <2>3, <3>1 DEF Passed, SameSide, SameStream
    <3>4. Readable(sock'[e]) <=> Readable(sock[e])
      BY <1>7, <2>3 DEF SameSide, SameStream, Readable
    <3>5. NotStranded(e)
      BY <1>3, <1>4, <1>7, <1>9, <2>3, <3>4 DEF NotStranded, Stranded, SameSide, SameStream
    <3> QED BY <3>2, <3>3, <3>5
  <2>4. CASE e \notin {cur, o}
    <3>1. /\ SameSide(sock[e], sock'[e]) /\ epoll'[e] = epoll[e] /\ nclosed'[e] = nclosed[e]
          /\ sock'[Opp(e)].wshut = sock[Opp(e)].wshut
      <4>1. Opp(e) \in Ends /\ Opp(e) # o
        BY <1>3, <2>4, EndFacts
      <4> QED BY <1>5, <1>6, <2>4, <4>1 DEF SameSide, SameStream
    <3>2. (e \in harvested \cup Handling)' <=> e \in harvested \cup Handling
      BY <1>2, <1>9, <2>4
    <3> QED BY <1>2, <1>8, <2>1, <2>4, <3>1, <3>2, EventKept
  <2> QED BY <2>2, <2>3, <2>4
<1> QED BY <1>2, <1>10

LEMMA RemovalEvents ==
  ASSUME FInv, WInv, FullClose \/ Fail
  PROVE  AtEnd' /\ \A e \in Ends : Told(e)' /\ Passed(e)' /\ NotStranded(e)
<1>1. /\ TypeOK /\ OneEvent /\ \A e \in Ends : Told(e) /\ Passed(e)
  BY DEF FInv, IInv, WInv
<1>2. /\ pc \in {"eof", "fail"} /\ pc' = "wait" /\ AtEnd'
      /\ UNCHANGED <<cur, harvested>>
  BY DEF FullClose, Fail, AtEnd
<1> DEFINE G == EndsOf(cur[1])
<1>3. PICK C : RemoveConn(cur[1], C)
  BY DEF FullClose, Fail
<1>4. /\ CloseAndFree(G, C)
      /\ \A e \in Ends : /\ epoll'[e] = IF e \in G THEN "none" ELSE epoll[e]
                         /\ conn'[e] = IF e \in G THEN "freed" ELSE conn[e]
  BY <1>3 DEF RemoveConn
<1>5. cur \in G /\ Handling = {cur} /\ Handling' = {}
  BY <1>1, <1>2, CurFacts DEF Handling
<1>6. \A e \in Ends \ G : nclosed'[e] = nclosed[e]
  BY DEF FullClose, Fail, CountClosed
<1> HIDE DEF G
<1>7. ASSUME NEW e \in Ends PROVE Told(e)' /\ Passed(e)' /\ NotStranded(e)
  <2>1. Told(e) /\ Passed(e) /\ Opp(e) \in Ends
    BY <1>1, EndFacts
  <2>2. /\ SameSide(sock[e], sock'[e]) /\ peer'[e].ended = peer[e].ended
        /\ sock[Opp(e)].wshut => sock'[Opp(e)].wshut
    BY <1>1, <1>4, <2>1, ClosedSide
  <2>3. CASE e \in G
    <3>1. conn'[e] = "freed" /\ epoll'[e] = "none"
      BY <1>4, <2>3
    <3> QED BY <2>1, <2>2, <3>1 DEF Told, Passed, NotStranded, SameSide
  <2>4. CASE e \notin G
    <3>1. conn'[e] = conn[e] /\ epoll'[e] = epoll[e] /\ nclosed'[e] = nclosed[e] /\ e # cur
      BY <1>4, <1>5, <1>6, <2>4
    <3>2. (e \in harvested \cup Handling)' <=> e \in harvested \cup Handling
      BY <1>2, <1>5, <3>1
    <3> QED BY <2>1, <2>2, <3>1, <3>2, EventKept
  <2> QED BY <2>3, <2>4
<1> QED BY <1>2, <1>7

LEMMA InitEvents == Init => WInv
<1> SUFFICES ASSUME Init PROVE WInv
  OBVIOUS
<1>1. PICK ip \in InProtos, op \in OutProtos :
         sock = [e \in Ends |-> NewSocket(IF e[2] = "in" THEN ip ELSE op)]
  BY DEF Init
<1>2. AtEnd
  BY DEF Init, AtEnd
<1>3. ASSUME NEW e \in Ends PROVE Told(e) /\ Passed(e)
  <2>1. conn[e] = "none" /\ epoll[e] = "none" /\ ~peer[e].ended
    BY DEF Init, NewPeer
  <2>2. ~sock[e].eof
    BY <1>1 DEF NewSocket
  <2> QED BY <2>1, <2>2 DEF Told, Passed
<1> QED BY <1>2, <1>3 DEF WInv

(* Whatever the worker and the peers do.                                    *)
LEMMA NextEvents ==
  ASSUME FInv, WInv, Next
  PROVE  AtEnd' /\ \A e \in Ends : Told(e)' /\ Passed(e)' /\ NotStranded(e)
<1>1. CASE Peers
  <2>1. CASE \E c \in Conns : PeerConnect(c)
    BY <2>1, BeginEvents
  <2>2. ASSUME NEW x \in Ends, PeerStep(x)
        PROVE  AtEnd' /\ \A e \in Ends : Told(e)' /\ Passed(e)' /\ NotStranded(e)
    BY <2>2, PeerEvents
  <2> QED BY <1>1, <2>1, <2>2 DEF Peers, PeerStep
<1>2. CASE (\E c \in Conns : Accept(c)) \/ NullTarget \/ DialOk \/ Write \/ WriteFail
  BY <1>2, BeginEvents
<1>3. CASE HandshakeOk
  BY <1>3, HelloEvents
<1>4. CASE HandshakeFail \/ DialFail
  BY <1>4, GiveUpEvents
<1>5. CASE Register
  BY <1>5, RegisterEvents
<1>6. CASE EpollWait \/ \E x \in Ends : Dispatch(x)
  BY <1>6, WaitEvents
<1>7. CASE Read
  BY <1>7, ReadEvents
<1>8. CASE HalfClose
  BY <1>8, HalfCloseEvents
<1>9. CASE FullClose \/ Fail
  BY <1>9, RemovalEvents
<1> QED BY <1>1, <1>2, <1>3, <1>4, <1>5, <1>6, <1>7, <1>8, <1>9 DEF Next, Worker, Handle

(* An end without an event is drained or stranded, and a closed read_buf    *)
(* has been passed on.                                                      *)
LEMMA EventInvariance == Spec => []WInv
<1>1. FInv /\ WInv /\ [Next]_vars => WInv'
  <2>1. CASE Next
    BY <2>1, NextEvents DEF WInv
  <2>2. CASE UNCHANGED vars
    <3>1. UNCHANGED <<pc, cur, harvested, sock, epoll, conn, nclosed, peer>>
      BY <2>2 DEF vars
    <3>2. Handling' = Handling
      BY <3>1 DEF Handling
    <3> QED BY <3>1, <3>2 DEF WInv, AtEnd, Told, Passed, Stranded
  <2> QED BY <2>1, <2>2
<1> QED BY <1>1, InitEvents, FlowInvariance, PTL DEF Spec

(* The edge-triggered contract, for every protocol: an end without a        *)
(* pending event has nothing left to relay and the end of its stream has    *)
(* been passed on, unless a VMess handshake took along what comes next and  *)
(* nothing followed it.                                                     *)
THEOREM NothingUnannounced == Spec => []Quiescent
<1>1. FInv /\ WInv => Quiescent
  <2> SUFFICES ASSUME FInv, WInv, pc = "wait", harvested = {},
                      NEW e \in Ends, conn[e] = "live", epoll[e] = "armed",
                      ~Stranded(e)
               PROVE  /\ sock[e].kbuf = <<>> /\ ~sock[e].kend /\ ~sock[e].rst
                      /\ sock[e].raw = <<>> /\ ~sock[e].rend
                      /\ peer[e].ended => sock[Opp(e)].wshut
    BY DEF Quiescent
  <2>1. Formed(e) /\ Quiet(e) /\ Told(e) /\ Passed(e)
    BY DEF FInv, Flow, WInv
  <2>2. Handling = {}
    BY DEF Handling
  <2>3. Drained(sock[e]) /\ Emptied(sock[e])
    BY <2>1, <2>2 DEF Told, Quiet
  <2>4. peer[e].ended => sock[Opp(e)].wshut
    <3>1. CASE sock[e].proto = "vmess"
      <4>1. peer[e].ended => sock[e].eof
        BY <2>1, <2>3, <3>1 DEF Formed, Shaped, Drained, Emptied
      <4> QED BY <2>1, <4>1 DEF Passed
    <3>2. CASE sock[e].proto # "vmess"
      BY <2>1, <2>2, <3>2 DEF Passed, Quiet
    <3> QED BY <3>1, <3>2
  <2> QED BY <2>3, <2>4 DEF Drained, Emptied
<1> QED BY <1>1, FlowInvariance, EventInvariance, PTL

(* However many trunks one read brings and whatever happens in between, the *)
(* handler of an event leaves nothing behind in raw_buf: only the handshake *)
(* strands what it took along.                                              *)
THEOREM HandlersStrandNothing == Spec => OnlyHandshakesStrand
<1> DEFINE Step == \A e \in Ends : conn[e] = "live" /\ conn'[e] = "live" /\ Stranded(e)'
                       => Stranded(e)
<1>1. FInv /\ WInv /\ [Next]_vars => [Step]_vars
  <2>1. FInv /\ WInv /\ Next => Step
    BY NextEvents DEF NotStranded
  <2> QED BY <2>1
<1> QED BY <1>1, FlowInvariance, EventInvariance, PTL DEF Spec, OnlyHandshakesStrand

-----------------------------------------------------------------------------
(* The relay of the streams, seen as the abstract one.                      *)

(* Only clients wait in the backlog.                                        *)
Backlog == \A e \in Ends : st[e] = "queued" => e[2] = "in"

ShutAt(e) == conn[e] = "live" /\ sock[e].wshut

(* The variables of the abstract relay, as the refinement mapping has them, *)
(* and what its actions are for them.                                       *)
Phases == [c \in Conns |-> Phase(c)]
Src == [e \in Ends |-> peer[e].sent]
Over == [e \in Ends |-> peer[e].ended]
Dst == [e \in Ends |-> peer[e].got]
Shut == [e \in Ends |-> ShutAt(e)]
Lost == [e \in Ends |-> sock[e].rst]

LEMMA InitMeans ==
  ASSUME /\ Phases = [c \in Conns |-> "idle"]
         /\ Src = [e \in Ends |-> <<>>] /\ Over = [e \in Ends |-> FALSE]
         /\ Dst = [e \in Ends |-> <<>>] /\ Shut = [e \in Ends |-> FALSE]
         /\ Lost = [e \in Ends |-> FALSE]
  PROVE  R!RInit
BY DEF R!RInit, R!REnds, Phases, Src, Over, Dst, Shut, ShutAt, Lost, Ends, Sides

LEMMA StutterMeans ==
  ASSUME UNCHANGED <<Phases, Src, Over, Dst, Shut, Lost>>
  PROVE  UNCHANGED R!rvars
BY DEF R!rvars, Phases, Src, Over, Dst, Shut, ShutAt, Lost

LEMMA SendMeans ==
  ASSUME NEW e \in Ends, NEW d \in 1 .. MaxSend["in"] + MaxSend["out"],
         Phases[e[1]] # "down", ~Over[e],
         Src' = [Src EXCEPT ![e] = Append(@, d)],
         UNCHANGED <<Phases, Over, Dst, Shut, Lost>>
  PROVE  R!RNext
<1>1. R!Send(e)
  BY DEF R!Send, Phases, Src, Over, Dst, Shut, ShutAt, Lost
<1> QED BY <1>1 DEF R!RNext, R!REnds, Ends, Sides

LEMMA EndMeans ==
  ASSUME NEW e \in Ends, Phases[e[1]] # "down",
         Over' = [Over EXCEPT ![e] = TRUE],
         UNCHANGED <<Phases, Src, Dst, Shut, Lost>>
  PROVE  R!RNext
<1>1. R!End(e)
  BY DEF R!End, Phases, Src, Over, Dst, Shut, ShutAt, Lost
<1> QED BY <1>1 DEF R!RNext, R!REnds, Ends, Sides

LEMMA LoseMeans ==
  ASSUME NEW e \in Ends, Lost' = [Lost EXCEPT ![e] = TRUE],
         UNCHANGED <<Phases, Src, Over, Dst, Shut>>
  PROVE  R!RNext
<1>1. R!Lose(e)
  BY DEF R!Lose, Phases, Src, Over, Dst, Shut, ShutAt, Lost
<1> QED BY <1>1 DEF R!RNext, R!REnds, Ends, Sides

LEMMA PhaseMeans ==
  ASSUME NEW c \in Conns, Phases[c] = "idle", NEW l \in {"up", "down"},
         Phases' = [Phases EXCEPT ![c] = l],
         UNCHANGED <<Src, Over, Dst, Shut, Lost>>
  PROVE  R!RNext
<1>1. R!Establish(c) \/ R!Refuse(c)
  BY DEF R!Establish, R!Refuse, Phases, Src, Over, Dst, Shut, ShutAt, Lost
<1> QED BY <1>1 DEF R!RNext

LEMMA DeliverMeans ==
  ASSUME NEW e \in Ends, Phases[e[1]] = "up",
         Len(Dst[Opp(e)]) + 1 <= Len(Src[e]),
         Dst' = [Dst EXCEPT ![Opp(e)] = Append(@, Src[e][Len(Dst[Opp(e)]) + 1])],
         UNCHANGED <<Phases, Src, Over, Shut, Lost>>
  PROVE  R!RNext
<1>1. R!Other(e) = Opp(e)
  BY DEF R!Other, Opp
<1>2. R!Deliver(e)
  BY <1>1 DEF R!Deliver, Phases, Src, Over, Dst, Shut, ShutAt, Lost
<1> QED BY <1>2 DEF R!RNext, R!REnds, Ends, Sides

LEMMA AnnounceMeans ==
  ASSUME NEW e \in Ends, Phases[e[1]] = "up", Over[e], Dst[Opp(e)] = Src[e],
         Shut' = [Shut EXCEPT ![Opp(e)] = TRUE],
         UNCHANGED <<Phases, Src, Over, Dst, Lost>>
  PROVE  R!RNext
<1>1. R!Other(e) = Opp(e)
  BY DEF R!Other, Opp
<1>2. R!Announce(e)
  BY <1>1 DEF R!Announce, Phases, Src, Over, Dst, Shut, ShutAt, Lost
<1> QED BY <1>2 DEF R!RNext, R!REnds, Ends, Sides

LEMMA TearDownMeans ==
  ASSUME NEW c \in Conns, NEW e \in EndsOf(c), Phases[c] = "up", Over[e] \/ Lost[e],
         Phases' = [Phases EXCEPT ![c] = "down"],
         Shut' = [x \in Ends |-> IF x[1] = c THEN FALSE ELSE Shut[x]],
         UNCHANGED <<Src, Over, Dst, Lost>>
  PROVE  R!RNext
<1>1. R!TearDown(c)
  BY DEF R!TearDown, R!REnds, Phases, Src, Over, Dst, Shut, ShutAt, Lost,
         EndsOf, Ends, Sides
<1> QED BY <1>1 DEF R!RNext

(* Their values, what leaves them as they are, and what changes one end.    *)
LEMMA Values ==
  ASSUME NEW e \in Ends
  PROVE  /\ Src[e] = peer[e].sent /\ Dst[e] = peer[e].got
         /\ Over[e] = peer[e].ended /\ Lost[e] = sock[e].rst
         /\ Phases[e[1]] = Phase(e[1])
BY EndFacts DEF Src, Dst, Over, Lost, Phases

LEMMA Unchanged ==
    /\ (\A e \in Ends : peer'[e].sent = peer[e].sent) => UNCHANGED Src
    /\ (\A e \in Ends : peer'[e].got = peer[e].got) => UNCHANGED Dst
    /\ (\A e \in Ends : peer'[e].ended = peer[e].ended) => UNCHANGED Over
    /\ (\A e \in Ends : ShutAt(e)' <=> ShutAt(e)) => UNCHANGED Shut
    /\ (\A e \in Ends : sock'[e].rst = sock[e].rst) => UNCHANGED Lost
<1>1. ASSUME \A e \in Ends : ShutAt(e)' <=> ShutAt(e) PROVE UNCHANGED Shut
  BY <1>1 DEF Shut, ShutAt
<1> QED BY <1>1 DEF Src, Dst, Over, Lost

LEMMA Changed ==
  ASSUME NEW x \in Ends
  PROVE  /\ (\A e \in Ends \ {x} : peer'[e].sent = peer[e].sent)
              => Src' = [Src EXCEPT ![x] = peer'[x].sent]
         /\ (\A e \in Ends \ {x} : peer'[e].got = peer[e].got)
              => Dst' = [Dst EXCEPT ![x] = peer'[x].got]
         /\ (\A e \in Ends \ {x} : peer'[e].ended = peer[e].ended)
              => Over' = [Over EXCEPT ![x] = peer'[x].ended]
         /\ (\A e \in Ends \ {x} : ShutAt(e)' <=> ShutAt(e)) /\ ShutAt(x)'
              => Shut' = [Shut EXCEPT ![x] = TRUE]
         /\ (\A e \in Ends \ {x} : sock'[e].rst = sock[e].rst)
              => Lost' = [Lost EXCEPT ![x] = sock'[x].rst]
<1>1. ASSUME \A e \in Ends \ {x} : peer'[e].sent = peer[e].sent
      PROVE  Src' = [Src EXCEPT ![x] = peer'[x].sent]
  BY <1>1 DEF Src
<1>2. ASSUME \A e \in Ends \ {x} : peer'[e].got = peer[e].got
      PROVE  Dst' = [Dst EXCEPT ![x] = peer'[x].got]
  BY <1>2 DEF Dst
<1>3. ASSUME \A e \in Ends \ {x} : peer'[e].ended = peer[e].ended
      PROVE  Over' = [Over EXCEPT ![x] = peer'[x].ended]
  BY <1>3 DEF Over
<1>4. ASSUME \A e \in Ends \ {x} : ShutAt(e)' <=> ShutAt(e), ShutAt(x)'
      PROVE  Shut' = [Shut EXCEPT ![x] = TRUE]
  BY <1>4 DEF Shut, ShutAt
<1>5. ASSUME \A e \in Ends \ {x} : sock'[e].rst = sock[e].rst
      PROVE  Lost' = [Lost EXCEPT ![x] = sock'[x].rst]
  BY <1>5 DEF Lost
<1> QED BY <1>1, <1>2, <1>3, <1>4, <1>5

(* A connection is idle, up or down by its client's end.                    *)
LEMMA PhaseValue ==
  ASSUME NEW c \in Conns
  PROVE  /\ <<c, "in">> \in Ends
         /\ conn[<<c, "in">>] = "live" => Phase(c) = "up"
         /\ conn[<<c, "in">>] # "live" /\ st[<<c, "in">>] = "freed" => Phase(c) = "down"
         /\ conn[<<c, "in">>] # "live" /\ st[<<c, "in">>] # "freed" => Phase(c) = "idle"
BY EndsOfFacts DEF Phase

LEMMA SamePhases ==
  ASSUME \A e \in Ends : /\ conn'[e] = conn[e]
                         /\ e[2] = "in" => (st'[e] = "freed" <=> st[e] = "freed")
  PROVE  UNCHANGED Phases
<1>1. ASSUME NEW c \in Conns PROVE Phase(c)' = Phase(c)
  <2>1. <<c, "in">> \in Ends /\ <<c, "in">>[2] = "in"
    BY EndsOfFacts
  <2> QED BY <2>1 DEF Phase
<1> QED BY <1>1 DEF Phases

LEMMA OnePhase ==
  ASSUME NEW c \in Conns, NEW l, Phase(c)' = l,
         \A e \in Ends : e[1] # c => conn'[e] = conn[e] /\ st'[e] = st[e]
  PROVE  Phases' = [Phases EXCEPT ![c] = l]
<1>1. ASSUME NEW x \in Conns, x # c PROVE Phase(x)' = Phase(x)
  <2>1. <<x, "in">> \in Ends /\ <<x, "in">>[1] # c
    BY <1>1, EndsOfFacts
  <2> QED BY <2>1 DEF Phase
<1> QED BY <1>1 DEF Phases

(* A step that the abstract relay does not see.                             *)
LEMMA Unseen ==
  ASSUME \A e \in Ends :
            /\ conn'[e] = conn[e]
            /\ e[2] = "in" => (st'[e] = "freed" <=> st[e] = "freed")
            /\ peer'[e].sent = peer[e].sent /\ peer'[e].got = peer[e].got
            /\ peer'[e].ended = peer[e].ended
            /\ sock'[e].rst = sock[e].rst /\ sock'[e].wshut = sock[e].wshut
  PROVE  UNCHANGED R!rvars
<1>1. \A e \in Ends : ShutAt(e)' <=> ShutAt(e)
  BY DEF ShutAt
<1> QED BY <1>1, SamePhases, Unchanged, StutterMeans

-----------------------------------------------------------------------------
RInv == FInv /\ Backlog

LEMMA NextBacklog == TypeOK /\ Backlog /\ [Next]_vars => Backlog'
<1> SUFFICES ASSUME TypeOK, Backlog, [Next]_vars, NEW e \in Ends, st'[e] = "queued"
             PROVE  e[2] = "in"
  BY DEF Backlog
<1>1. CASE st[e] = "queued"
  BY <1>1 DEF Backlog
<1>2. CASE st'[e] # st[e]
  <2>1. CASE \E c \in Conns : PeerConnect(c)
    BY <1>2, <2>1 DEF PeerConnect, TypeOK
  <2>2. CASE st' = [st EXCEPT ![Opp(cur)] = "open"]
    BY <1>2, <2>2 DEF TypeOK
  <2>3. CASE \E c \in Conns : Accept(c)
    BY <1>2, <2>3 DEF Accept, TypeOK
  <2>4. ASSUME NEW S, NEW C, CloseAndFree(S, C) PROVE FALSE
    BY <1>2, <2>4 DEF CloseAndFree
  <2>5. st' = st \/ \/ \E c \in Conns : PeerConnect(c) \/ Accept(c)
                    \/ DialOk
                    \/ \E S, C : CloseAndFree(S, C)
    <3>1. CASE Peers
      BY <3>1 DEF Peers, PeerGreet, PeerSend, PeerEnd, PeerFin, PeerReset, PeerRecv, Arrive
    <3>2. CASE HandshakeFail \/ DialFail
      BY <3>2 DEF HandshakeFail, DialFail
    <3>3. CASE FullClose \/ Fail
      BY <3>3 DEF FullClose, Fail, RemoveConn
    <3>4. CASE HandshakeOk \/ NullTarget \/ Register \/ Read \/ Write \/ WriteFail \/ HalfClose
      BY <3>4 DEF HandshakeOk, NullTarget, Register, Read, Write, WriteFail, HalfClose
    <3>5. CASE EpollWait \/ \E x \in Ends : Dispatch(x)
      BY <3>5 DEF EpollWait, Dispatch
    <3>6. CASE UNCHANGED vars
      BY <3>6 DEF vars
    <3> QED BY <3>1, <3>2, <3>3, <3>4, <3>5, <3>6 DEF Next, Worker, Handle
  <2> QED BY <1>2, <2>1, <2>2, <2>3, <2>4, <2>5 DEF DialOk
<1> QED BY <1>1, <1>2

(* Every step is one of the abstract relay or none.                         *)
LEMMA RefInit == Init => R!RInit
<1> SUFFICES ASSUME Init PROVE R!RInit
  OBVIOUS
<1>1. PICK ip \in InProtos, op \in OutProtos :
         sock = [e \in Ends |-> NewSocket(IF e[2] = "in" THEN ip ELSE op)]
  BY DEF Init
<1>2. /\ \A p : NewSocket(p).rst = FALSE
      /\ NewPeer.sent = <<>> /\ NewPeer.got = <<>> /\ NewPeer.ended = FALSE
  BY DEF NewSocket, NewPeer
<1>3. \A e \in Ends :
         /\ sock[e].rst = FALSE /\ peer[e].ended = FALSE
         /\ peer[e].sent = <<>> /\ peer[e].got = <<>>
         /\ conn[e] = "none" /\ st[e] = "none"
  BY <1>1, <1>2 DEF Init
<1>4. Phases = [c \in Conns |-> "idle"]
  <2>1. \A c \in Conns : Phase(c) = "idle"
    BY <1>3, PhaseValue
  <2> QED BY <2>1 DEF Phases
<1>5. /\ Src = [e \in Ends |-> <<>>] /\ Dst = [e \in Ends |-> <<>>]
      /\ Over = [e \in Ends |-> FALSE] /\ Lost = [e \in Ends |-> FALSE]
  BY <1>3 DEF Src, Dst, Over, Lost
<1>6. Shut = [e \in Ends |-> FALSE]
  <2>1. \A e \in Ends : ShutAt(e) = FALSE
    BY <1>3 DEF ShutAt
  <2> QED BY <2>1, Zenon DEF Shut
<1> QED BY <1>4, <1>5, <1>6, InitMeans

(* A connection one of whose peers can still send is not given up.          *)
LEMMA SendingUp ==
  ASSUME RInv, NEW x \in Ends, Sending(x), pc # "crashed"
  PROVE  Phase(x[1]) # "down"
<1>1. TypeOK /\ Owned /\ Paired /\ Placed /\ Backlog
  BY DEF RInv, FInv, IInv
<1>2. st[x] \in {"queued", "open"}
  BY DEF Sending
<1> DEFINE i == <<x[1], "in">>
<1>3. x[1] \in Conns /\ i \in Ends /\ (x = i \/ (x[2] = "out" /\ Opp(x) = i))
  BY EndFacts DEF Ends, Sides, Opp
<1>4. conn[i] = "live" \/ st[i] # "freed"
  <2>1. CASE x = i
    BY <1>2, <2>1
  <2>2. CASE x[2] = "out" /\ Opp(x) = i
    <3>1. st[x] = "open"
      BY <1>1, <1>2, <2>2 DEF Backlog
    <3>2. CASE conn[x] = "live"
      BY <1>1, <2>2, <3>2 DEF Paired
    <3>3. CASE x \in Held
      <4>1. Held = EndsOf(cur[1])
        BY <1>1, <2>2, <3>3, CurFacts DEF Held, Placed
      <4>2. i \in Held
        BY <1>1, <2>2, <3>3, <4>1, CurFacts
      <4> QED BY <1>1, <1>3, <4>2 DEF Owned
    <3> QED BY <1>1, <3>1, <3>2, <3>3 DEF Owned
  <2> QED BY <1>3, <2>1, <2>2
<1> QED BY <1>3, <1>4, PhaseValue

LEMMA RefPeer ==
  ASSUME RInv, NEW x \in Ends, PeerStep(x)
  PROVE  R!RNext \/ UNCHANGED R!rvars
<1>1. TypeOK /\ Kept(x) /\ Change(x) /\ x[1] \in Conns
  BY PeerParts, EndFacts DEF RInv, FInv, IInv
<1>2. /\ UNCHANGED <<pc, st, conn>>
      /\ \A e \in Ends \ {x} : sock'[e] = sock[e] /\ peer'[e] = peer[e]
      /\ sock'[x].wshut = sock[x].wshut /\ peer'[x].got = peer[x].got
  BY <1>1 DEF Kept
<1>3. \A e \in Ends : (ShutAt(e)' <=> ShutAt(e)) /\ peer'[e].got = peer[e].got
  BY <1>2 DEF ShutAt
<1>4. UNCHANGED <<Phases, Dst, Shut>>
  BY <1>2, <1>3, Unchanged, SamePhases
<1>5. Sending(x) /\ pc # "crashed" => Phases[x[1]] # "down"
  BY SendingUp, Values
<1>6. peer'[x].sent = peer[x].sent => UNCHANGED Src
  BY <1>2, Unchanged
<1>7. peer'[x].ended = peer[x].ended => UNCHANGED Over
  BY <1>2, Unchanged
<1>8. sock'[x].rst = sock[x].rst => UNCHANGED Lost
  BY <1>2, Unchanged
<1>9. CASE /\ PeerSend(x) /\ peer'[x].ended = peer[x].ended /\ sock'[x].rst = sock[x].rst
           /\ peer'[x].sent = Append(peer[x].sent, Len(peer[x].sent) + 1)
  <2> DEFINE d == Len(peer[x].sent) + 1
  <2>1. Sending(x) /\ ~peer[x].ended /\ pc # "crashed" /\ Len(peer[x].sent) < MaxSend[x[2]]
    BY <1>9 DEF PeerSend, MaySendData, Arrive
  <2>2. d \in 1 .. MaxSend["in"] + MaxSend["out"]
    <3>1. Len(peer[x].sent) \in Nat
      BY <1>1, FieldTypes, LenProperties
    <3>2. x[2] \in {"in", "out"} /\ MaxSend["in"] \in Nat /\ MaxSend["out"] \in Nat
      BY EndFacts, BoundAssumption DEF Sides
    <3> DEFINE a == MaxSend["in"]
               b == MaxSend["out"]
               n == Len(peer[x].sent)
    <3>3. n < a \/ n < b
      BY <2>1, <3>2
    <3> HIDE DEF a, b, n
    <3>4. n + 1 \in 1 .. a + b
      BY <3>1, <3>2, <3>3 DEF a, b, n
    <3> QED BY <3>4 DEF a, b, n
  <2>3. ~Over[x] /\ Src[x] = peer[x].sent
    BY <2>1, Values
  <2>4. Src' = [Src EXCEPT ![x] = Append(@, d)]
    <3>1. Src' = [Src EXCEPT ![x] = peer'[x].sent]
      BY <1>2, Changed
    <3> QED BY <1>9, <2>3, <3>1
  <2> HIDE DEF d
  <2> QED BY <1>4, <1>5, <1>7, <1>8, <1>9, <2>1, <2>2, <2>3, <2>4, SendMeans
<1>10. CASE /\ Sending(x) /\ pc # "crashed" /\ peer'[x].ended = TRUE
            /\ peer'[x].sent = peer[x].sent /\ sock'[x].rst = sock[x].rst
  <2>1. Over' = [Over EXCEPT ![x] = TRUE]
    BY <1>2, <1>10, Changed
  <2> QED BY <1>4, <1>5, <1>6, <1>8, <1>10, <2>1, EndMeans
<1>11. CASE /\ sock'[x].rst = TRUE /\ peer'[x].sent = peer[x].sent
            /\ peer'[x].ended = peer[x].ended
  <2>1. Lost' = [Lost EXCEPT ![x] = TRUE]
    BY <1>2, <1>11, Changed
  <2> QED BY <1>4, <1>6, <1>7, <1>11, <2>1, LoseMeans
<1>12. CASE /\ peer'[x].sent = peer[x].sent /\ peer'[x].ended = peer[x].ended
            /\ sock'[x].rst = sock[x].rst
  BY <1>4, <1>6, <1>7, <1>8, <1>12, StutterMeans
<1> QED BY <1>1, <1>9, <1>10, <1>11, <1>12 DEF Change

(* Setting up a connection.                                                 *)
LEMMA RefSetUp ==
  ASSUME RInv,
         (\E c \in Conns : Accept(c) \/ PeerConnect(c)) \/ HandshakeOk \/ NullTarget \/ DialOk
  PROVE  UNCHANGED R!rvars
<1>1. TypeOK /\ Placed
  BY DEF RInv, FInv, IInv
<1>2. ASSUME NEW c \in Conns, Accept(c) \/ PeerConnect(c) PROVE UNCHANGED R!rvars
  <2>1. UNCHANGED <<conn, sock, peer>>
    BY <1>2 DEF Accept, PeerConnect, connVars
  <2>2. \A e \in Ends : st'[e] = "freed" <=> st[e] = "freed"
    <3>1. <<c, "in">> \in Ends
      BY EndsOfFacts
    <3> QED BY <1>1, <1>2, <3>1 DEF Accept, PeerConnect, TypeOK
  <2> QED BY <2>1, <2>2, Unseen
<1>3. CASE HandshakeOk
  <2>1. PICK over \in Overread(sock[cur]) :
          sock' = [sock EXCEPT ![cur] = ReadHello(sock[cur], over)]
    BY <1>3 DEF HandshakeOk
  <2>2. sock[cur] \in Socket
    BY <1>1, CurFacts, FieldTypes
  <2>3. /\ ReadHello(sock[cur], over).rst = sock[cur].rst
        /\ ReadHello(sock[cur], over).wshut = sock[cur].wshut
    BY <2>2 DEF ReadHello, Socket
  <2>4. \A e \in Ends : sock'[e].rst = sock[e].rst /\ sock'[e].wshut = sock[e].wshut
    BY <1>1, <2>1, <2>3 DEF TypeOK
  <2>5. UNCHANGED <<conn, st, peer>>
    BY <1>3 DEF HandshakeOk, connVars
  <2> QED BY <2>4, <2>5, Unseen
<1>4. CASE NullTarget
  <2>1. UNCHANGED <<conn, st, sock, peer>>
    BY <1>4 DEF NullTarget, connVars
  <2> QED BY <2>1, Unseen
<1>5. CASE DialOk
  <2>1. UNCHANGED <<conn, sock, peer>> /\ st' = [st EXCEPT ![Opp(cur)] = "open"] /\ pc = "dial"
    BY <1>5 DEF DialOk, connVars
  <2>2. Opp(cur)[2] = "out"
    BY <1>1, <2>1 DEF Placed, Opp
  <2>3. \A e \in Ends : e[2] = "in" => st'[e] = st[e]
    BY <1>1, <2>1, <2>2 DEF TypeOK
  <2> QED BY <2>1, <2>3, Unseen
<1> QED BY <1>2, <1>3, <1>4, <1>5

LEMMA RefGiveUp ==
  ASSUME RInv, HandshakeFail \/ DialFail PROVE R!RNext
<1>1. TypeOK /\ Owned /\ Paired /\ cur[1] \in Conns
  BY CurFacts DEF RInv, FInv, IInv
<1>2. pc \in {"handshake", "dial"} /\ conn' = conn
  BY DEF HandshakeFail, DialFail, connVars
<1>3. PICK S : /\ CloseAndFree(S, S)
               /\ S = EndsOf(cur[1]) \/ (S = {cur} /\ cur[2] = "in")
  BY DEF HandshakeFail, DialFail, Failed
<1>0. PICK c \in Conns : c = cur[1]
  BY <1>1
<1> DEFINE i == <<c, "in">>
<1>4. /\ i \in S /\ i \in {cur, Opp(cur)} /\ S \subseteq {cur, Opp(cur)}
      /\ \A e \in Ends : e \in S => e[1] = c
  <2>1. i \in EndsOf(cur[1]) /\ EndsOf(cur[1]) = {cur, Opp(cur)} /\ Opp(cur)[1] = cur[1]
    BY <1>0, <1>1, CurFacts DEF EndsOf
  <2>2. cur[2] = "in" => i = cur
    BY <1>0, <1>1, CurFacts DEF Ends
  <2> QED BY <1>0, <1>3, <2>1, <2>2
<1>5. /\ conn[cur] = "none" /\ conn[Opp(cur)] = "none" /\ cur \in Held
      /\ i \in Held
  <2>1. cur \in Held /\ (Held = EndsOf(cur[1]) \/ (Held = {cur} /\ (pc = "dial" \/ cur[2] = "in")))
    BY <1>1, <1>2, CurFacts DEF Held
  <2>2. pc = "dial" => cur[2] = "in"
    BY DEF RInv, FInv, IInv, Placed
  <2>3. cur[2] = "in" => i = cur
    BY <1>0, <1>1, CurFacts DEF Ends
  <2>4. i \in EndsOf(cur[1])
    BY <1>0 DEF EndsOf
  <2> QED BY <1>1, <2>1, <2>2, <2>3, <2>4, CurFacts DEF Owned, Paired
<1>6. i \in Ends
  BY <1>1, EndsOfFacts
<1> HIDE DEF i
<1>7. conn[i] = "none" /\ st[i] = "open"
  BY <1>1, <1>4, <1>5, <1>6 DEF Owned
<1>8. \A e \in Ends :
         /\ peer'[e].sent = peer[e].sent /\ peer'[e].got = peer[e].got
         /\ peer'[e].ended = peer[e].ended /\ sock'[e].rst = sock[e].rst
         /\ e \notin S => sock'[e] = sock[e]
         /\ st'[e] = IF e \in S THEN "freed" ELSE st[e]
  BY <1>1, <1>3, ClosedFields
<1>9. \A e \in Ends : ShutAt(e)' <=> ShutAt(e)
  <2>1. \A e \in S : conn[e] # "live"
    BY <1>4, <1>5
  <2> QED BY <1>2, <1>8, <2>1 DEF ShutAt
<1>10. UNCHANGED <<Src, Over, Dst, Shut, Lost>>
  BY <1>8, <1>9, Unchanged
<1>11. Phase(c) = "idle" /\ Phases[c] = Phase(c)
  BY <1>1, <1>7, PhaseValue DEF i, Phases
<1>12. Phase(c)' = "down"
  <2>1. conn'[i] = "none" /\ st'[i] = "freed"
    BY <1>2, <1>4, <1>6, <1>7, <1>8
  <2> QED BY <2>1 DEF Phase, i
<1>13. Phases' = [Phases EXCEPT ![c] = "down"]
  BY <1>1, <1>2, <1>4, <1>8, <1>12, OnePhase
<1> QED BY <1>1, <1>10, <1>11, <1>13, PhaseMeans

LEMMA RefRegister ==
  ASSUME RInv, Register PROVE R!RNext
<1>1. TypeOK /\ Owned /\ cur[1] \in Conns /\ \A e \in Ends : Early(e)
  BY CurFacts DEF RInv, FInv, IInv, Flow
<1>0. PICK c \in Conns : c = cur[1]
  BY <1>1
<1> DEFINE G == EndsOf(cur[1])
           i == <<c, "in">>
<1>2. /\ pc = "register" /\ UNCHANGED <<st, sock, peer>>
      /\ \A e \in Ends : conn'[e] = IF e \in G THEN "live" ELSE conn[e]
  BY DEF Register
<1>3. /\ G = Held /\ i \in G /\ i \in Ends /\ \A e \in Ends : e \in G <=> e[1] = c
  BY <1>0, <1>1, <1>2, EndsOfFacts DEF Held, EndsOf
<1>4. \A e \in Ends : e \in G => conn[e] = "none" /\ st[e] = "open" /\ ~sock[e].wshut
  BY <1>1, <1>3 DEF Owned, Early
<1> HIDE DEF G
<1>5. \A e \in Ends : ShutAt(e)' <=> ShutAt(e)
  BY <1>2, <1>4 DEF ShutAt
<1>6. UNCHANGED <<Src, Over, Dst, Shut, Lost>>
  BY <1>2, <1>5, Unchanged
<1>7. Phase(c) = "idle" /\ Phases[c] = Phase(c)
  BY <1>1, <1>3, <1>4, PhaseValue DEF Phases
<1>8. Phase(c)' = "up"
  <2>1. conn'[i] = "live"
    BY <1>2, <1>3
  <2> QED BY <2>1 DEF Phase
<1>9. Phases' = [Phases EXCEPT ![c] = "up"]
  BY <1>1, <1>2, <1>3, <1>8, OnePhase
<1> QED BY <1>1, <1>6, <1>7, <1>9, PhaseMeans

(* Waiting for events, reading, and a write that fails.                     *)
LEMMA RefEvents ==
  ASSUME RInv, EpollWait \/ (\E x \in Ends : Dispatch(x)) \/ Read \/ WriteFail
  PROVE  UNCHANGED R!rvars
<1>1. CASE EpollWait \/ (\E x \in Ends : Dispatch(x)) \/ WriteFail
  <2>1. UNCHANGED <<conn, st, sock, peer>>
    BY <1>1 DEF EpollWait, Dispatch, WriteFail, connVars
  <2> QED BY <2>1, Unseen
<1>2. CASE Read
  <2>1. UNCHANGED <<conn, st, peer>> /\ SameOutside(sock[cur], sock'[cur])
    BY <1>2, ReadFlow DEF Read, connVars, RInv
  <2>2. \A e \in Ends \ {cur} : sock'[e] = sock[e]
    BY <1>2 DEF Read, RInv, FInv, IInv, TypeOK
  <2>3. \A e \in Ends : sock'[e].rst = sock[e].rst /\ sock'[e].wshut = sock[e].wshut
    BY <2>1, <2>2 DEF SameOutside
  <2> QED BY <2>1, <2>3, Unseen
<1> QED BY <1>1, <1>2

(* What a worker that handles an event works on.                            *)
LEMMA AtWork ==
  ASSUME RInv, pc \in {"read", "write", "eof", "fail"}, "socks" \notin OutProtos
  PROVE  /\ cur \in Ends /\ Opp(cur) \in Ends /\ Opp(cur) # cur
         /\ conn[cur] = "live" /\ conn[Opp(cur)] = "live"
         /\ Phases[cur[1]] = "up" /\ ~Lossy(cur)
         /\ Formed(cur) /\ Ledger(cur) /\ Standing
<1>1. TypeOK /\ Paired /\ Placed /\ Standing /\ \A e \in Ends : Formed(e) /\ Ledger(e)
  BY DEF RInv, FInv, IInv, Flow
<1>2. conn[cur] = "live" /\ conn[Opp(cur)] = "live"
  BY <1>1, CurFacts DEF Placed, Paired
<1>3. Phases[cur[1]] = "up"
  <2>1. PICK c \in Conns : c = cur[1]
    BY <1>1, CurFacts
  <2>2. <<c, "in">> \in EndsOf(cur[1])
    BY <2>1 DEF EndsOf
  <2>3. conn[<<c, "in">>] = "live"
    BY <1>1, <1>2, <2>2, CurFacts
  <2>4. Phase(c) = "up"
    BY <2>3, PhaseValue
  <2> QED BY <2>1, <2>4 DEF Phases
<1>4. ~Lossy(cur) /\ Formed(cur) /\ Ledger(cur)
  BY <1>1, CurFacts DEF Lossy, Formed
<1> QED BY <1>1, <1>2, <1>3, <1>4, CurFacts

LEMMA RefWrite ==
  ASSUME RInv, Write, "socks" \notin OutProtos PROVE R!RNext
<1> DEFINE o == Opp(cur)
           n == Len(peer[o].got) + 1
           q == peer[o].got \o chunk
           u == peer[o].unread + 1
<1>1. pc = "write" /\ UNCHANGED <<cur, conn, st, sock>>
  BY DEF Write, connVars
<1>2. /\ cur \in Ends /\ o \in Ends /\ o # cur /\ TypeOK
      /\ conn[cur] = "live" /\ Phases[cur[1]] = "up" /\ ~Lossy(cur)
      /\ Ledger(cur) /\ Standing
  BY <1>1, AtWork DEF RInv, FInv, IInv
<1>3. peer' = [peer EXCEPT ![o] = [peer[o] EXCEPT !.got = q, !.unread = u]]
  BY <1>2 DEF Write, TypeOK
<1>4. q = peer[o].got \o chunk
  OBVIOUS
<1> HIDE DEF q, u
<1>5. /\ peer'[o].got = q
      /\ \A e \in Ends : peer'[e].sent = peer[e].sent /\ peer'[e].ended = peer[e].ended
      /\ \A e \in Ends \ {o} : peer'[e].got = peer[e].got
  <2>1. peer[o] \in Peer
    BY <1>2, FieldTypes
  <2> QED BY <1>2, <1>3, <2>1 DEF TypeOK, Peer
<1>6. \A e \in Ends : ShutAt(e)' <=> ShutAt(e)
  BY <1>1 DEF ShutAt
<1>7. UNCHANGED <<Phases, Src, Over, Shut, Lost>>
  BY <1>1, <1>5, <1>6, Unchanged, SamePhases
<1>8. PICK d \in Nat : chunk = <<d>>
  BY <1>1, <1>2 DEF Standing
<1>9. n <= Len(peer[cur].sent) /\ peer[cur].sent[n] = d /\ q = Append(peer[o].got, d)
  <2> DEFINE g == peer[o].got
             w == peer[cur].sent
             r == Inside(sock[cur])
  <2>1. g \in Seq(Nat) /\ r \in Seq(Nat)
    BY <1>2, FieldTypes
  <2>2. w = (g \o <<d>>) \o r
    BY <1>1, <1>2, <1>8 DEF Ledger, Hands
  <2> HIDE DEF g, w, r
  <2>3. Len(g) + 1 <= Len(w) /\ w[Len(g) + 1] = d /\ g \o <<d>> = Append(g, d)
    BY <2>1, <2>2, NextBlock
  <2>4. /\ Len(peer[o].got) + 1 <= Len(peer[cur].sent)
        /\ peer[cur].sent[Len(peer[o].got) + 1] = d
        /\ peer[o].got \o <<d>> = Append(peer[o].got, d)
    BY <2>3 DEF g, w
  <2> QED BY <1>4, <1>8, <2>4
<1>10. Src[cur] = peer[cur].sent /\ Dst[o] = peer[o].got
  BY <1>2, Values
<1>11. Dst' = [Dst EXCEPT ![o] = Append(@, Src[cur][Len(Dst[o]) + 1])]
  <2>1. Dst' = [Dst EXCEPT ![o] = peer'[o].got]
    BY <1>2, <1>5, Changed
  <2> QED BY <1>5, <1>9, <1>10, <2>1
<1> QED BY <1>2, <1>7, <1>9, <1>10, <1>11, DeliverMeans

LEMMA RefHalfClose ==
  ASSUME RInv, HalfClose, "socks" \notin OutProtos PROVE R!RNext
<1>0. PICK o \in Ends : o = Opp(cur)
  BY CurFacts DEF RInv, FInv, IInv
<1>1. pc = "eof" /\ UNCHANGED <<cur, conn, st>>
  BY DEF HalfClose
<1>2. /\ cur \in Ends /\ o \in Ends /\ o # cur /\ TypeOK
      /\ conn[cur] = "live" /\ conn[o] = "live" /\ Phases[cur[1]] = "up" /\ ~Lossy(cur)
      /\ Ledger(cur) /\ Standing
  BY <1>0, <1>1, AtWork DEF RInv, FInv, IInv
<1>3. /\ sock' = [sock EXCEPT ![o] = CloseWrite(sock[o])]
      /\ peer' = [peer EXCEPT ![o] = [peer[o] EXCEPT !.told = "fin"]]
      /\ sock[o] \in Socket /\ peer[o] \in Peer
  BY <1>0, <1>2, FieldTypes DEF HalfClose, TypeOK
<1>4. \A e \in Ends : /\ peer'[e].sent = peer[e].sent /\ peer'[e].ended = peer[e].ended
                      /\ peer'[e].got = peer[e].got
  BY <1>2, <1>3 DEF TypeOK, Peer
<1>5. /\ sock'[o].wshut /\ sock'[o].rst = sock[o].rst
      /\ \A e \in Ends \ {o} : sock'[e] = sock[e]
  BY <1>2, <1>3 DEF TypeOK, CloseWrite, Socket
<1>6. ShutAt(o)' /\ \A e \in Ends \ {o} : ShutAt(e)' <=> ShutAt(e)
  BY <1>1, <1>2, <1>5 DEF ShutAt
<1>7. Shut' = [Shut EXCEPT ![o] = TRUE]
  BY <1>2, <1>6, Changed
<1>8. UNCHANGED <<Phases, Src, Over, Dst, Lost>>
  BY <1>1, <1>4, <1>5, Unchanged, SamePhases
<1>9. peer[cur].ended /\ peer[o].got = peer[cur].sent
  <2>1. peer[cur].ended /\ Inside(sock[cur]) = <<>> /\ Hands(cur) = <<>>
    BY <1>1, <1>2 DEF Standing, Hands
  <2>2. peer[cur].sent = (peer[o].got \o <<>>) \o <<>>
    BY <1>0, <1>1, <1>2, <2>1 DEF Ledger
  <2>3. peer[o].got \in Seq(Nat)
    BY <1>2, FieldTypes
  <2> QED BY <2>1, <2>2, <2>3, NoConcat
<1>10. Over[cur] /\ Dst[o] = Src[cur]
  BY <1>2, <1>9, Values
<1> QED BY <1>0, <1>2, <1>7, <1>8, <1>10, AnnounceMeans

LEMMA RefRemoval ==
  ASSUME RInv, FullClose \/ Fail, "socks" \notin OutProtos PROVE R!RNext
<1>1. pc \in {"eof", "fail"}
  BY DEF FullClose, Fail
<1>2. /\ cur \in Ends /\ TypeOK /\ conn[cur] = "live" /\ conn[Opp(cur)] = "live"
      /\ Phases[cur[1]] = "up" /\ Standing
  BY <1>1, AtWork DEF RInv, FInv, IInv
<1>3. PICK c \in Conns : c = cur[1]
  BY <1>2, CurFacts
<1> DEFINE G == EndsOf(c)
<1>4. PICK C : RemoveConn(c, C) /\ C \subseteq G
  BY <1>2, <1>3, CurFacts DEF FullClose, Fail, Unclosed
<1>5. CloseAndFree(G, C)
  BY <1>4 DEF RemoveConn
<1>6. \A e \in Ends : conn'[e] = IF e \in G THEN "freed" ELSE conn[e]
  BY <1>4 DEF RemoveConn
<1>7. \A e \in Ends : e \in G <=> e[1] = c
  BY EndsOfFacts
<1>8. <<c, "in">> \in Ends /\ <<c, "in">> \in G
  BY EndsOfFacts DEF EndsOf
<1>9. PICK x \in G : peer[x].ended \/ sock[x].rst
  BY <1>1, <1>2, <1>3, CurFacts DEF Standing
<1>10. x \in Ends
  BY <1>9, EndsOfFacts
<1>11. Over[x] \/ Lost[x]
  BY <1>9, <1>10, Values
<1> HIDE DEF G
<1>12. \A e \in Ends :
         /\ peer'[e].sent = peer[e].sent /\ peer'[e].got = peer[e].got
         /\ peer'[e].ended = peer[e].ended /\ sock'[e].rst = sock[e].rst
         /\ e \notin C => sock'[e] = sock[e]
         /\ st'[e] = IF e \in G THEN "freed" ELSE st[e]
  BY <1>2, <1>5, ClosedFields
<1>13. UNCHANGED <<Src, Over, Dst, Lost>>
  BY <1>12, Unchanged
<1>14. Shut' = [e \in Ends |-> IF e[1] = c THEN FALSE ELSE Shut[e]]
  <2>1. \A e \in Ends : e[1] = c => ShutAt(e)' = FALSE
    BY <1>6, <1>7 DEF ShutAt
  <2>2. \A e \in Ends : e[1] # c => (ShutAt(e)' <=> ShutAt(e))
    BY <1>4, <1>6, <1>7, <1>12 DEF ShutAt
  <2>3. \A e \in Ends : e[1] # c => ShutAt(e)' = Shut[e]
    BY <2>2 DEF Shut, ShutAt
  <2>4. \A e \in Ends : ShutAt(e)' = IF e[1] = c THEN FALSE ELSE Shut[e]
    BY <2>1, <2>3, Zenon
  <2> QED BY <2>4, Zenon DEF Shut
<1>15. Phase(c)' = "down"
  <2>1. conn'[<<c, "in">>] = "freed" /\ st'[<<c, "in">>] = "freed"
    BY <1>6, <1>8, <1>12
  <2> QED BY <2>1 DEF Phase
<1>16. Phases' = [Phases EXCEPT ![c] = "down"]
  BY <1>6, <1>7, <1>12, <1>15, OnePhase
<1> QED BY <1>2, <1>3, <1>9, <1>11, <1>13, <1>14, <1>16, TearDownMeans DEF G

LEMMA RefNext ==
  ASSUME "socks" \notin OutProtos PROVE RInv /\ [Next]_vars => [R!RNext]_R!rvars
<1> SUFFICES ASSUME RInv, [Next]_vars PROVE R!RNext \/ UNCHANGED R!rvars
  OBVIOUS
<1>1. CASE Peers
  <2>1. ASSUME NEW x \in Ends, PeerStep(x) PROVE R!RNext \/ UNCHANGED R!rvars
    BY <2>1, RefPeer
  <2>2. CASE \E c \in Conns : PeerConnect(c)
    BY <2>2, RefSetUp
  <2> QED BY <1>1, <2>1, <2>2 DEF Peers, PeerStep
<1>2. CASE (\E c \in Conns : Accept(c)) \/ HandshakeOk \/ NullTarget \/ DialOk
  BY <1>2, RefSetUp
<1>3. CASE HandshakeFail \/ DialFail
  BY <1>3, RefGiveUp
<1>4. CASE Register
  BY <1>4, RefRegister
<1>5. CASE EpollWait \/ (\E x \in Ends : Dispatch(x)) \/ Read \/ WriteFail
  BY <1>5, RefEvents
<1>6. CASE Write
  BY <1>6, RefWrite
<1>7. CASE HalfClose
  BY <1>7, RefHalfClose
<1>8. CASE FullClose \/ Fail
  BY <1>8, RefRemoval
<1>9. CASE UNCHANGED vars
  <2>1. UNCHANGED <<conn, st, sock, peer>>
    BY <1>9 DEF vars
  <2> QED BY <2>1, Unseen
<1> QED BY <1>1, <1>2, <1>3, <1>4, <1>5, <1>6, <1>7, <1>8, <1>9 DEF Next, Worker, Handle

(* The epoll relay implements the abstract one, for every number of         *)
(* connections and every mixture of protocols without SOCKS outbounds: it   *)
(* hands each stream on in order, a block at a time, shuts a side down only *)
(* behind all of the other's stream, and removes a connection only when a   *)
(* stream has ended or a peer has reset it.                                 *)
THEOREM Refinement ==
  ASSUME "socks" \notin OutProtos PROVE Spec => RelaySpec
<1>1. Init => Backlog
  BY DEF Init, Backlog
<1>2. FInv => TypeOK
  BY DEF FInv, IInv
<1>3. Spec => []RInv
  <2>1. Spec => []Backlog
    BY <1>1, <1>2, NextBacklog, FlowInvariance, PTL DEF Spec
  <2> QED BY <2>1, FlowInvariance, PTL DEF RInv
<1> QED BY <1>3, RefInit, RefNext, PTL DEF Spec, RelaySpec, R!RSpec
=============================================================================

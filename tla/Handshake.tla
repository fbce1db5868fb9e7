----------------------------- MODULE Handshake -----------------------------
(***************************************************************************)
(* The handshakes of proto/socks/tcp.c and proto/vmess/tcp.c, byte by byte, *)
(* between a server socket of vmecs and a client: vmecs's own, or any other *)
(* program that speaks the protocol, which may offer other authentication   *)
(* methods, ask for another command or send a user id.  TCP cuts the        *)
(* stream anywhere, either side may die, and the server's clock moves on    *)
(* while it waits.                                                          *)
(***************************************************************************)
EXTENDS Codecs

CONSTANTS
    AskedTargets,  \* protocol -> the targets its client may be given
    Resolved,      \* the IPv4 address a domain may resolve to
    Offers,        \* authentication methods a SOCKS 5 client may offer
    PMax,          \* p_max: the most padding of a VMess request
    Delta,         \* time_delta: clock difference a VMess server accepts
    MaxClock,      \* bound: clocks are in 0 .. MaxClock
    MaxData        \* bound: bytes each side sends behind the handshake

(* An address has the size of its family, and the length of a name fits in  *)
(* its byte: targets come out of handshakes themselves.                     *)
Sendable(t) ==
    /\ t \in Targets
    /\ t.type = Ipv4 => Len(t.host) = 4
    /\ t.type = Ipv6 => Len(t.host) = Wide
    /\ t.type = Domain => Len(t.host) < 256

(* tcp_socket_connect_target hands a client the target as text.             *)
Handed(t) == Parse(Node(t), t.port)

(* A name that starts like the text of an address is one.                   *)
ASSUME TargetsAssumption ==
    /\ AskedTargets \in [{"socks4", "socks5", "vmess"} -> SUBSET Targets]
    /\ \A protocol \in DOMAIN AskedTargets : \A t \in AskedTargets[protocol] :
          /\ Sendable(t) /\ Sendable(Handed(t))
          /\ t.type = Domain /\ IsLiteral(t.host) =>
                Len(t.host) >= 2 /\ t.host[2] \in {Ipv4, Ipv6}
ASSUME ResolvedAssumption == Resolved \in Seq(Bytes) /\ Len(Resolved) = 4
ASSUME OffersAssumption == Offers \subseteq Seq(Bytes)
ASSUME BoundsAssumption == {PMax, Delta, MaxClock, MaxData} \subseteq Nat

VARIABLES
    conn,   \* what this connection is for; it never changes
    asked,  \* the target in the client's request
    pc,     \* the message a party waits for, or how it ended
    rbuf,   \* a party's rbuffer
    should_read, \* the decoder has asked for more than the rbuffer holds
    in,     \* bytes sent to a party that it has not read
    cut,    \* whether the other side's end, or its reset, follows them
    target, \* addr.target of the server's socket
    sent,   \* bytes of data a party has sent
    clock   \* the server's clock

vars == <<conn, asked, pc, rbuf, should_read, in, cut, target, sent, clock>>

Parties == {"client", "server"}
Other(p) == IF p = "client" THEN "server" ELSE "client"

(* A message is named after its decoder; "vers" is the server's first byte. *)
Messages == {"auth_sel", "auth_ack", "request5", "response5", "request4",
             "response4", "vmess_request", "vmess_response"}
Ended == {"done", "failed", "dead"}

(* user is the id of a SOCKS 4 request, or the one a VMess client was given. *)
Conns ==
    [proto : {"socks5"}, target : AskedTargets["socks5"], methods : Offers,
     cmd : {Connect, 2}, user : {<<>>}, pad : {0}, gen : {0}]
    \cup
    [proto : {"socks4"}, target : AskedTargets["socks4"], methods : {<<NoAuth>>},
     cmd : {Connect, 2}, user : {<<>>, <<7>>}, pad : {0}, gen : {0}]
    \cup
    [proto : {"vmess"}, target : AskedTargets["vmess"], methods : {<<NoAuth>>},
     cmd : {Connect}, user : {<<OwnUser>>, <<OwnUser + 1>>},
     pad : 0 .. PMax, gen : 0 .. MaxClock]

TypeOK ==
    /\ conn \in Conns
    /\ asked \in Targets
    /\ pc \in [Parties -> Messages \cup Ended \cup {"start", "vers"}]
    /\ rbuf \in [Parties -> Seq(Nat)]
    /\ should_read \in [Parties -> BOOLEAN]
    /\ in \in [Parties -> Seq(Nat)]
    /\ cut \in [Parties -> {"no", "fin", "reset"}]
    /\ target \in Targets \cup {NoTarget}
    /\ sent \in [Parties -> 0 .. MaxData]
    /\ clock \in 0 .. MaxClock

(* tcp_socket_accept has returned the server's socket, and the client's     *)
(* connect has reached it.                                                  *)
Init ==
    /\ conn \in Conns
    /\ clock \in (IF conn.proto = "vmess" THEN 0 .. MaxClock ELSE {0})
    /\ asked = conn.target
    /\ pc = [client |-> "start",
             server |-> IF conn.proto = "vmess" THEN "vmess_request" ELSE "vers"]
    /\ rbuf = [p \in Parties |-> <<>>]
    /\ should_read = [p \in Parties |-> FALSE]
    /\ in = [p \in Parties |-> <<>>]
    /\ cut = [p \in Parties |-> "no"]
    /\ target = NoTarget
    /\ sent = [p \in Parties |-> 0]

-----------------------------------------------------------------------------
(* Steps in the life of a party.                                            *)

Goes(p, m) == pc' = [pc EXCEPT ![p] = m]

(* p ends before the handshake does: last is what it still writes.  A close *)
(* with bytes unread, or still to come, is a reset, which may overtake the  *)
(* bytes before it.                                                         *)
Ends(p, how, last) ==
    LET q == Other(p) IN
    /\ Goes(p, how)
    /\ \/ /\ cut' = [cut EXCEPT ![q] = "fin"]
          /\ in' = [in EXCEPT ![p] = <<>>, ![q] = @ \o last]
       \/ /\ cut' = [cut EXCEPT ![q] = "reset"]
          /\ \E n \in 0 .. Len(in[q]) :
                in' = [in EXCEPT ![p] = <<>>, ![q] = Take(@, n)]
    /\ rbuf' = [rbuf EXCEPT ![p] = <<>>]
    /\ should_read' = [should_read EXCEPT ![p] = FALSE]
    /\ UNCHANGED <<conn, asked, target, sent, clock>>

(* A handshake that returns false: the caller closes the socket, which for  *)
(* VMess writes an end trunk, and frees it.                                 *)
Fail(p) == Ends(p, "failed", IF conn.proto = "vmess" THEN <<0, 0>> ELSE <<>>)

(* p has read n bytes, decoded a message and answers with reply; rest is    *)
(* what it keeps in the rbuffer, and next the message it waits for.         *)
Moves(p, n, reply, rest, next) ==
    /\ Goes(p, next)
    /\ in' = [in EXCEPT ![p] = Drop(@, n), ![Other(p)] = @ \o reply]
    /\ rbuf' = [rbuf EXCEPT ![p] = rest]
    /\ should_read' = [should_read EXCEPT ![p] = FALSE]
    /\ UNCHANGED <<conn, cut, sent, clock>>

MovesOn(p, n, reply, rest, next) ==
    Moves(p, n, reply, rest, next) /\ UNCHANGED <<asked, target>>

-----------------------------------------------------------------------------
(* The client writes its first message.  vmecs's own is handed the target   *)
(* as text; other clients may send it as it is.                             *)

Asks == asked' \in {conn.target, Handed(conn.target)} /\ UNCHANGED target

StartSocks5 ==
    /\ conn.proto = "socks5" /\ pc["client"] = "start"
    /\ Asks
    /\ Moves("client", 0, AuthSel(conn.methods), <<>>, "auth_ack")

(* A SOCKS 4 client resolves the target first, and needs an IPv4 address.   *)
Resolved4 == Resolve4(Handed(conn.target), Resolved)

Request4To(t) ==
    /\ asked' = t
    /\ Moves("client", 0, Request4(conn.cmd, t, conn.user), <<>>, "response4")
    /\ UNCHANGED target

(* Faulty variant: the result of resolving is not looked at.                *)
StartSocks4Blind ==
    /\ conn.proto = "socks4" /\ pc["client"] = "start"
    /\ \E t \in Resolved4 : Request4To(t)

StartSocks4 ==
    /\ conn.proto = "socks4" /\ pc["client"] = "start"
    /\ \/ \E t \in Resolved4 \ {NoTarget} : Request4To(t)
       \/ NoTarget \in Resolved4 /\ Fail("client")

ClientAuth == AuthInit(Head(conn.user), conn.gen)

StartVmess ==
    /\ conn.proto = "vmess" /\ pc["client"] = "start"
    /\ Asks
    /\ Moves("client", 0,
             VmessRequest(Head(conn.user), conn.gen, asked', conn.pad),
             <<>>, "vmess_response")

(* The server's read of one byte, the version.  A reset leaves the byte     *)
(* uninitialised and goes unnoticed here: whatever the byte is, the next    *)
(* read fails.                                                              *)
Version(v) ==
    CASE v = 5 -> MovesOn("server", 1, <<>>, <<v>>, "auth_sel")
      [] v = 4 -> MovesOn("server", 1, <<>>, <<v>>, "request4")
      [] OTHER -> Fail("server")

ReadVersion ==
    /\ pc["server"] = "vers"
    /\ \/ in["server"] # <<>> /\ Version(Head(in["server"]))
       \/ in["server"] = <<>> /\ cut["server"] = "fin" /\ Fail("server")
       \/ /\ in["server"] = <<>> /\ cut["server"] = "reset"
          /\ \E v \in {0, 4, 5} : Version(v)

-----------------------------------------------------------------------------
(* What a party does with the message m it has decoded; rest is what its    *)
(* rbuffer holds behind m.                                                  *)

ServerAuthSel(m, rest, n) ==
    /\ pc["server"] = "auth_sel"
    /\ IF NoAuth \in {m[i] : i \in 3 .. Len(m)}
       THEN MovesOn("server", n, AuthAck(NoAuth), rest, "request5")
       ELSE Fail("server")

ClientAuthAck(m, rest, n) ==
    /\ pc["client"] = "auth_ack"
    /\ IF m[2] = NoAuth
       THEN MovesOn("client", n, Request5(conn.cmd, asked), rest, "response5")
       ELSE Fail("client")

(* The handshake is over for the server of a SOCKS connection: its rbuffer  *)
(* is freed, with the bytes behind the request.                             *)
Serve(t, n, reply) ==
    /\ target' = t
    /\ Moves("server", n, reply, <<>>, "done")
    /\ UNCHANGED asked

ServerRequest5(m, n) ==
    /\ pc["server"] = "request5"
    /\ IF m[2] = Connect
       THEN Serve(Target5(m), n, Response5(Success5))
       ELSE Fail("server")

ServerRequest4(m, n) ==
    /\ pc["server"] = "request4"
    /\ IF m[2] = Connect
       THEN Serve(Target4(m), n, Response4(Success4))
       ELSE Fail("server")

(* The client's rbuffer is freed in the same way.                           *)
ClientResponse(m, n) ==
    /\ pc["client"] \in {"response4", "response5"}
    /\ IF m[2] = (IF pc["client"] = "response4" THEN Success4 ELSE Success5)
       THEN MovesOn("client", n, <<>>, <<>>, "done")
       ELSE Fail("client")

(* The times whose validation codes the server tries.                       *)
Window == (clock - Delta) .. (clock + Delta)

(* A VMess socket decodes through raw_buf, which outlives the handshake.    *)
(* The server looks at neither the command nor the version.                 *)
ServerVmessRequest(m, rest, n) ==
    /\ pc["server"] = "vmess_request"
    /\ target' = TargetV(m)
    /\ Moves("server", n, VmessResponse(WithNonce(AuthOf(m, Window), m)),
             rest, "done")
    /\ UNCHANGED asked

(* Faulty variant: the bytes behind the response are dropped.               *)
ClientVmessResponseForgets(rest, n) ==
    /\ pc["client"] = "vmess_response"
    /\ MovesOn("client", n, <<>>, <<>>, "done")

ClientVmessResponse(rest, n) ==
    /\ pc["client"] = "vmess_response"
    /\ MovesOn("client", n, <<>>, rest, "done")

Handle(p, m, rest, n) ==
    \/ /\ p = "server"
       /\ \/ ServerAuthSel(m, rest, n)
          \/ ServerRequest5(m, n)
          \/ ServerRequest4(m, n)
          \/ ServerVmessRequest(m, rest, n)
    \/ /\ p = "client"
       /\ \/ ClientAuthAck(m, rest, n)
          \/ ClientResponse(m, n)
          \/ ClientVmessResponse(rest, n)

-----------------------------------------------------------------------------
(* rbuffer_read: decode what the rbuffer holds, and read when that is       *)
(* nothing or not enough.                                                   *)

(* A VMess party decrypts what it has before it decodes it.                 *)
Plain(p, b) ==
    CASE pc[p] = "vmess_request" -> Opened(b, Window)
      [] pc[p] = "vmess_response" -> CfbDec(ClientAuth, b)
      [] OTHER -> b

Decoded(p, m) ==
    CASE pc[p] = "auth_sel" -> DecodeAuthSel(m)
      [] pc[p] = "auth_ack" -> DecodeAuthAck(m)
      [] pc[p] = "request5" -> DecodeRequest5(m)
      [] pc[p] = "response5" -> DecodeResponse5(m)
      [] pc[p] = "request4" -> DecodeRequest4(m)
      [] pc[p] = "response4" -> DecodeResponse4(m)
      [] pc[p] = "vmess_request" -> DecodeVmessRequest(m, Window)
      [] pc[p] = "vmess_response" -> DecodeVmessResponse(m, ClientAuth.nonce)

MustRead(p) == should_read[p] \/ rbuf[p] = <<>>

(* A read of n bytes, or none, and the decoding that follows it.            *)
Receive(p, n) ==
    /\ pc[p] \in Messages
    /\ n \in (IF MustRead(p) THEN 1 .. Len(in[p]) ELSE {0})
    /\ \E b \in {rbuf[p] \o Take(in[p], n)} : \E m \in {Plain(p, b)} :
       \E r \in {Decoded(p, m)} :
          \/ /\ r = 0
             /\ rbuf' = [rbuf EXCEPT ![p] = b]
             /\ in' = [in EXCEPT ![p] = Drop(@, n)]
             /\ should_read' = [should_read EXCEPT ![p] = TRUE]
             /\ UNCHANGED <<conn, asked, pc, cut, target, sent, clock>>
          \/ r < 0 /\ Fail(p)
          \/ r > 0 /\ Handle(p, Take(m, r), Drop(b, r), n)

(* Faulty variant: a reset is taken for a pause.                            *)
StarveFinOnly(p) ==
    /\ pc[p] \in Messages /\ MustRead(p)
    /\ in[p] = <<>> /\ cut[p] = "fin"
    /\ Fail(p)

(* The stream ends, or is reset, inside a message.                          *)
Starve(p) ==
    /\ pc[p] \in Messages /\ MustRead(p)
    /\ in[p] = <<>> /\ cut[p] # "no"
    /\ Fail(p)

-----------------------------------------------------------------------------
(* The program is stopped, or its host is lost, in the middle of it all.    *)
Die(p) == pc[p] \notin Ended /\ Ends(p, "dead", <<>>)

(* After its handshake a party sends data; the bytes are cells of their own.*)
Byte(p, i) == (IF p = "client" THEN 30000 ELSE 40000) + i
Data(p) == [i \in 1 .. sent[p] |-> Byte(p, i)]

SendData(p) ==
    /\ pc[p] = "done" /\ cut[p] = "no" /\ sent[p] < MaxData
    /\ sent' = [sent EXCEPT ![p] = @ + 1]
    /\ in' = [in EXCEPT ![Other(p)] = Append(@, Byte(p, sent[p] + 1))]
    /\ UNCHANGED <<conn, asked, pc, rbuf, should_read, cut, target, clock>>

Tick ==
    /\ pc["server"] = "vmess_request" /\ clock < MaxClock
    /\ clock' = clock + 1
    /\ UNCHANGED <<conn, asked, pc, rbuf, should_read, in, cut, target, sent>>

Receives(p) == \E n \in 0 .. Len(in[p]) : Receive(p, n)

(* What a party's own program does.                                         *)
Step(p) == Receives(p) \/ Starve(p)
Starts == StartSocks5 \/ StartSocks4 \/ StartVmess

Next ==
    \/ Starts \/ ReadVersion \/ Tick
    \/ \E p \in Parties : Step(p) \/ Die(p) \/ SendData(p)

(* Programs go on while they can, and TCP delivers what it has accepted.    *)
Fairness ==
    /\ WF_vars(Starts) /\ WF_vars(ReadVersion)
    /\ \A p \in Parties : WF_vars(Step(p))

Spec == Init /\ [][Next]_vars
FairSpec == Spec /\ Fairness

-----------------------------------------------------------------------------
(* Properties.                                                              *)

(* A request for u is what a client that was given t should send.           *)
Means(t, u) ==
    /\ u.port = t.port
    /\ \/ u = t
       \/ /\ t.type = Domain
          /\ \/ Node(u) = t.host
             \/ conn.proto = "socks4" /\ u.type = Ipv4 /\ u.host = Resolved

(* When either party takes the tunnel for open, the server does, and the    *)
(* target it connects to is the one its client was given, through text, the *)
(* three encodings, the two numberings of the address types, the            *)
(* encryption, and however the request was cut on its way.                  *)
TargetKept ==
    (\E p \in Parties : pc[p] = "done") =>
        pc["server"] = "done" /\ target = asked /\ Means(conn.target, target)

(* No byte of data is taken for a part of the handshake, lost with it, or   *)
(* preceded by a byte of it: a party that is done finds just the data.  Only *)
(* the client of a SOCKS server may have lost some to its rbuffer.          *)
InStep ==
    \A p \in Parties :
        pc[p] = "done" /\ cut[p] = "no" =>
            LET unread == rbuf[p] \o in[p]
                data == Data(Other(p))
            IN  IF p = "client" /\ conn.proto # "vmess"
                THEN IsSuffix(unread, data) ELSE unread = data

(* What a server of vmecs must accept.                                      *)
Acceptable ==
    CASE conn.proto = "vmess" -> conn.gen \in Window /\ Head(conn.user) = OwnUser
      [] conn.proto = "socks4" -> conn.cmd = Connect /\ asked.type = Ipv4
      [] conn.proto = "socks5" -> conn.cmd = Connect
                                  /\ \E i \in DOMAIN conn.methods :
                                        conn.methods[i] = NoAuth

(* A handshake fails only when the other side has gone, or when it asked    *)
(* for something the server does not do or at another time than now; never  *)
(* because of where TCP cut a message or of what the message contains.      *)
NoSpuriousReject ==
    [][\A p \in Parties :
          pc[p] # "failed" /\ pc'[p] = "failed" =>
              cut[p] # "no" \/ ~Acceptable]_vars

(* Every handshake comes to an end: no two parties wait for each other.     *)
EventuallySettled == <>(\A p \in Parties : pc[p] \in Ended)
=============================================================================

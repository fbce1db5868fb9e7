------------------------------- MODULE Codecs -------------------------------
(***************************************************************************)
(* The handshake messages of SOCKS 4, SOCKS 5 and VMess: what the encoders  *)
(* of proto/socks and proto/vmess write, and what the decoders return for   *)
(* a buffer that holds any part of a message and whatever follows it.       *)
(*                                                                          *)
(* A message is a sequence of bytes.  Hash values stand for what they are   *)
(* computed from, in cells that no byte equals, and so do encrypted bytes.  *)
(* Domains hold no zero byte.                                               *)
(***************************************************************************)
EXTENDS Integers, SequencesExt

(* The validation code, the key, the iv and an IPv6 address have 16 bytes    *)
(* each in the code.  Nothing looks inside them, so a few cells show what a *)
(* cut in their midst does.                                                 *)
CONSTANT Wide
ASSUME WideAssumption == Wide \in 1 .. 16

Ipv4 == 1
Domain == 2
Ipv6 == 3
Bytes == 0 .. 255
Ports == 0 .. 65535

Targets == [type : {Ipv4, Domain, Ipv6}, host : Seq(Bytes), port : Ports]
NoTarget == [type |-> 0, host |-> <<>>, port |-> 0]

Copies(v, n) == [i \in 1 .. n |-> v]
Take(s, n) == SubSeq(s, 1, n)
Drop(s, n) == SubSeq(s, n + 1, Len(s))

-----------------------------------------------------------------------------
(* A target on its way through tcp_socket_connect: target_id_node writes it *)
(* as text and target_id_parse reads it again.                              *)

Dot == 46

(* What inet_ntop writes is text that inet_pton knows for an address of     *)
(* that type; no name looks like it, or starts with a dot.                  *)
Node(t) == IF t.type = Domain THEN t.host ELSE <<Dot, t.type>> \o t.host
IsLiteral(node) == node # <<>> /\ Head(node) = Dot

Parse(node, port) ==
    IF IsLiteral(node)
    THEN [type |-> node[2], host |-> Drop(node, 2), port |-> port]
    ELSE [type |-> Domain, host |-> node, port |-> port]

(* socket_sockaddr_ipv4 of the sockaddr that target_id_resolve fills, or    *)
(* NoTarget if it fails or its family is not AF_INET.  A name is resolved   *)
(* by getaddrinfo, to v4, to an IPv6 address or not at all.  An IPv6 address *)
(* gets the family AF_INET; where sin_addr is, its flow label is zero.      *)
Resolve4(t, v4) ==
    LET at(host) == [type |-> Ipv4, host |-> host, port |-> t.port] IN
    CASE t.type = Ipv4 -> {t}
      [] t.type = Domain -> {at(v4), NoTarget}
      [] t.type = Ipv6 -> {at(<<0, 0, 0, 0>>)}

-----------------------------------------------------------------------------
(* Fields that several messages share.                                      *)

(* Faulty variant: the bytes are taken in the host's order.                 *)
FromLe16(b, i) == b[i + 1] * 256 + b[i]

(* serial_write_u16 of be16, and from_be16 of serial_read.                  *)
Be16(n) == <<n \div 256, n % 256>>
FromBe16(b, i) == b[i] * 256 + b[i + 1]

(* An address; a domain has its length, one byte, in front.                 *)
AddrBytes(t) == IF t.type = Domain
                THEN <<Len(t.host) % 256>> \o Take(t.host, Len(t.host) % 256)
                ELSE t.host

(* The bytes of an address of that type at b[i]; a domain's length byte may *)
(* not have come yet.                                                       *)
AddrSize(type, b, i) ==
    CASE type = Ipv4 -> 4
      [] type = Ipv6 -> Wide
      [] type = Domain -> 1 + (IF i <= Len(b) THEN b[i] ELSE 0)
      [] OTHER -> 0

HostAt(type, b, i) ==
    LET end == i + AddrSize(type, b, i) - 1 IN
    IF type = Domain THEN SubSeq(b, i + 1, end) ELSE SubSeq(b, i, end)

(* A decoder returns -1, or 0 while bytes are missing, or the number of     *)
(* bytes it takes.                                                          *)
Returns(bad, need, b) ==
    IF bad THEN -1 ELSE IF Len(b) < need THEN 0 ELSE need

-----------------------------------------------------------------------------
(* SOCKS 5.                                                                 *)

NoAuth == 0
Connect == 1
Success5 == 0

AuthSel(methods) == <<5, Len(methods)>> \o methods
AuthAck(method) == <<5, method>>

(* SOCKS 5 numbers the address types differently.                           *)
Socks5Type == [t \in {Ipv4, Domain, Ipv6} |-> CASE t = Ipv4 -> 1
                                              [] t = Domain -> 3
                                              [] t = Ipv6 -> 4]
FromSocks5Type(n) == CASE n = 1 -> Ipv4 [] n = 3 -> Domain [] n = 4 -> Ipv6
                       [] OTHER -> 0

Request5(cmd, t) ==
    <<5, cmd, 0, Socks5Type[t.type]>> \o AddrBytes(t) \o Be16(t.port)

(* The bound address of a response is always 0.0.0.0:0.                     *)
Response5(rep) == <<5, rep, 0, Socks5Type[Ipv4]>> \o Copies(0, 6)

DecodeAuthSel(b) ==
    Returns(Len(b) >= 2 /\ (b[1] # 5 \/ b[2] = 0),
            IF Len(b) < 2 THEN 2 ELSE 2 + b[2], b)

DecodeAuthAck(b) == Returns(Len(b) >= 2 /\ b[1] # 5, 2, b)

Socks5Size(b) ==
    IF Len(b) < 4 THEN 4 ELSE 4 + AddrSize(FromSocks5Type(b[4]), b, 5) + 2

DecodeRequest5(b) ==
    Returns(\/ Len(b) >= 1 /\ b[1] # 5
            \/ Len(b) >= 4 /\ FromSocks5Type(b[4]) = 0,
            Socks5Size(b), b)

(* A response has the layout of a request; its bound address is read off    *)
(* and forgotten.                                                           *)
DecodeResponse5(b) == DecodeRequest5(b)

(* The target of a complete request.                                        *)
Target5(b) ==
    LET type == FromSocks5Type(b[4]) IN
    [type |-> type, host |-> HostAt(type, b, 5),
     port |-> FromBe16(b, 5 + AddrSize(type, b, 5))]

-----------------------------------------------------------------------------
(* SOCKS 4: a request ends with a user id, which vmecs leaves empty.        *)

Success4 == 90

Request4(cmd, t, user) == <<4, cmd>> \o Be16(t.port) \o t.host \o user \o <<0>>
Response4(rep) == <<0, rep>> \o Copies(0, 6)

(* The user id ends at the first zero byte behind the address.              *)
UserEnds(b) == {i \in 9 .. Len(b) : b[i] = 0}

DecodeRequest4(b) ==
    Returns(Len(b) >= 9 /\ b[1] # 4,
            IF UserEnds(b) = {} THEN Len(b) + 1
            ELSE CHOOSE i \in UserEnds(b) : \A j \in UserEnds(b) : i <= j, b)

DecodeResponse4(b) == Returns(Len(b) >= 8 /\ b[1] # 0, 8, b)

Target4(b) == [type |-> Ipv4, host |-> SubSeq(b, 5, 8), port |-> FromBe16(b, 3)]

-----------------------------------------------------------------------------
(* VMess.                                                                   *)

(* Times are numbers, and user ids are OwnUser and the number behind it: no *)
(* two of them have the same code at any time.                              *)
OwnUser == 1
ValidationCode(user, time) == Copies(10000 + 2 * time + user, Wide)

GenKey(user) == 10000000 * user
GenIv(time) == 100000 * (1 + time)

AuthInit(user, time) ==
    [key |-> GenKey(user), iv |-> GenIv(time), nonce |-> 0]

(* AES-128-CFB, the iv being the same for every message.  A part of what was *)
(* encrypted decrypts to the same part of the text, which is what decoding  *)
(* in pieces rests on; under another key or iv no cell of it is a byte.     *)
CfbEnc(auth, b) == [i \in DOMAIN b |-> b[i] + auth.key + auth.iv]
CfbDec(auth, b) == [i \in DOMAIN b |-> b[i] - auth.key - auth.iv]

(* crypto_fnv1a adds where FNV-1a multiplies; of it only matters that both   *)
(* sides compute the same and that it depends on every byte.                *)
Fnv1a(b) ==
    LET hash[i \in 0 .. Len(b)] ==
            IF i = 0 THEN 7 ELSE (hash[i - 1] * 31 + b[i] + 1) % 9973
    IN  20000 + hash[Len(b)]

(* The padding's length goes into the upper half of a byte.                 *)
PaddingAndCrypt(p) == (p * 16) % 256
PaddingOf(byte) == byte \div 16

(* vers, iv, key, nonce, opt, p and crypt, resv, cmd, port, address, padding *)
Command(auth, t, p) ==
    <<1>> \o Copies(auth.iv, Wide) \o Copies(auth.key, Wide)
    \o <<auth.nonce, 1, PaddingAndCrypt(p), 0, Connect>>
    \o Be16(t.port) \o <<t.type>> \o AddrBytes(t) \o Copies(255, p)

VmessRequest(user, time, t, p) ==
    LET auth == AuthInit(user, time)
        c == Command(auth, t, p)
    IN  ValidationCode(user, time) \o CfbEnc(auth, c \o Copies(Fnv1a(c), 4))

(* The server answers with the nonce it was sent, option 1 and no command.  *)
VmessResponse(auth) == CfbEnc(auth, <<auth.nonce, 1, 0, 0>>)

(* Where the fields are; the code has Wide = 16.                            *)
AtNonce == 3 * Wide + 2
AtPadding == 3 * Wide + 4
AtPort == 3 * Wide + 7
AtType == 3 * Wide + 9

(* Faulty variant: the padding is not counted.                              *)
VmessSizeUnpadded(b) ==
    IF Len(b) < AtType THEN AtType
    ELSE AtType + AddrSize(b[AtType], b, AtType + 1) + 4

(* The size of a request that starts with b: 4 bytes of checksum end it.    *)
VmessSize(b) ==
    IF Len(b) < AtType THEN AtType
    ELSE AtType + AddrSize(b[AtType], b, AtType + 1) + PaddingOf(b[AtPadding]) + 4

(* vmess_lookup_auth: the time within the window that a code was made at.   *)
Matching(code, window) == {t \in window : ValidationCode(OwnUser, t) = code}

AuthOf(b, window) ==
    AuthInit(OwnUser, CHOOSE t \in Matching(Take(b, Wide), window) : TRUE)

Authentic(b, window) ==
    Len(b) >= Wide /\ Matching(Take(b, Wide), window) # {}

(* A request, or a part of one, with its command decrypted if it can be.    *)
Opened(b, window) ==
    IF Authentic(b, window)
    THEN Take(b, Wide) \o CfbDec(AuthOf(b, window), Drop(b, Wide))
    ELSE b

(* The checksum covers what lies between the validation code and itself.    *)
BadSum(b) ==
    LET n == VmessSize(b) IN
    {b[i] : i \in n - 3 .. n} # {Fnv1a(SubSeq(b, Wide + 1, n - 4))}

(* The window is that of the moment: a request that comes in pieces is      *)
(* decoded anew, from its validation code on, after every piece.            *)
DecodeVmessRequest(m, window) ==
    Returns(\/ Len(m) >= Wide /\ ~Authentic(m, window)
            \/ Len(m) >= AtType /\ m[AtType] \notin {Ipv4, Domain, Ipv6}
            \/ Len(m) >= VmessSize(m) /\ BadSum(m),
            VmessSize(m), m)

DecodeVmessResponse(m, nonce) ==
    Returns(Len(m) >= 4 /\ (m[1] # nonce \/ m[3] # 0 \/ m[4] # 0), 4, m)

(* What the server takes from an opened request.                            *)
TargetV(m) == [type |-> m[AtType], host |-> HostAt(m[AtType], m, AtType + 1),
               port |-> FromBe16(m, AtPort)]
WithNonce(auth, m) == [auth EXCEPT !.nonce = m[AtNonce]]
=============================================================================

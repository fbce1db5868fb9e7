-------------------------- MODULE TcpSocketProofs --------------------------
(***************************************************************************)
(* The operations of TcpSocket yield sockets, and reads yield blocks; what  *)
(* a handshake and a read leave in a socket is the rest of its stream.      *)
(***************************************************************************)
EXTENDS TcpSocket, SequenceTheorems, TLAPS

(* A socket that was just made is one.                                      *)
LEMMA NewSocketType == \A p \in Protos : NewSocket(p) \in Socket
BY DEF NewSocket, Socket

(* tcp_socket_close changes no type.                                        *)
LEMMA CloseWriteType == \A s \in Socket : CloseWrite(s) \in Socket
BY DEF CloseWrite, Socket

(* The first block of a sequence and the others.                            *)
LEMMA HeadTailType ==
  ASSUME NEW q \in Seq(Nat), q # <<>>
  PROVE  <<Head(q)>> \in Seq(Nat) /\ Tail(q) \in Seq(Nat)
BY HeadTailProperties

(* The first k blocks of a sequence and the others.                         *)
LEMMA SplitType ==
  ASSUME NEW q \in Seq(Nat), NEW k \in 0 .. Len(q)
  PROVE  SubSeq(q, 1, k) \in Seq(Nat) /\ SubSeq(q, k + 1, Len(q)) \in Seq(Nat)
<1>1. Len(q) \in Nat /\ \A i \in 1 .. Len(q) : q[i] \in Nat
  BY LenProperties, ElementOfSeq
<1>2. \A i \in 1 .. k : q[i] \in Nat
  BY <1>1
<1>3. SubSeq(q, 1, k) \in Seq(Nat)
  BY <1>1, <1>2, SubSeqProperties
<1> DEFINE m == k + 1
           n == Len(q)
<1>4. m \in Int /\ n \in Int /\ \A i \in m .. n : q[i] \in Nat
  BY <1>1
<1> HIDE DEF m, n
<1>5. SubSeq(q, m, n) \in Seq(Nat)
  BY <1>4, SubSeqProperties
<1> QED BY <1>3, <1>5 DEF m, n

(* rbuffer_try_read moves the kernel's blocks to raw_buf.                   *)
LEMMA HarvestType == \A s \in Socket : Harvest(s) \in Socket
<1> SUFFICES ASSUME NEW s \in Socket PROVE Harvest(s) \in Socket
  OBVIOUS
<1>1. s.raw \in Seq(Nat) /\ s.kbuf \in Seq(Nat) /\ s.rend \in BOOLEAN /\ s.kend \in BOOLEAN
  BY DEF Socket
<1>2. s.raw \o s.kbuf \in Seq(Nat)
  BY <1>1, ConcatProperties
<1>3. \A r \in Seq(Nat), b \in BOOLEAN :
         [s EXCEPT !.raw = r, !.rend = b, !.kbuf = <<>>, !.kend = FALSE] \in Socket
  <2>1. <<>> \in Seq(Nat)
    OBVIOUS
  <2> QED BY <2>1 DEF Socket
<1> QED BY <1>2, <1>3, Zenon DEF Harvest

ResultType == [res : Results, data : Seq(Nat), sock : Socket]

(* fd_try_read.                                                             *)
LEMMA PlainTryReadType == \A s \in Socket : PlainTryRead(s) \in ResultType
<1> SUFFICES ASSUME NEW s \in Socket PROVE PlainTryRead(s) \in ResultType
  OBVIOUS
<1>1. s.kbuf \in Seq(Nat) /\ s.rst \in BOOLEAN /\ s.fin \in BOOLEAN
  BY DEF Socket
<1>2. CASE s.kbuf # <<>>
  <2>1. <<Head(s.kbuf)>> \in Seq(Nat) /\ Tail(s.kbuf) \in Seq(Nat)
    BY <1>1, <1>2, HeadTailType
  <2>2. [s EXCEPT !.kbuf = Tail(@)] \in Socket
    BY <2>1 DEF Socket
  <2>3. PlainTryRead(s) = Result("data", <<Head(s.kbuf)>>, [s EXCEPT !.kbuf = Tail(@)])
    BY <1>2 DEF PlainTryRead
  <2> QED BY <2>1, <2>2, <2>3 DEF ResultType, Result, Results
<1>3. CASE s.kbuf = <<>>
  <2>1. \E r \in Results : PlainTryRead(s) = Result(r, <<>>, s)
    BY <1>1, <1>3 DEF PlainTryRead, Results
  <2>2. <<>> \in Seq(Nat)
    OBVIOUS
  <2> QED BY <2>1, <2>2 DEF ResultType, Result, Results
<1> QED BY <1>2, <1>3

(* vmess_decode_data on raw_buf.                                            *)
LEMMA DecodeTrunkType == \A s \in Socket : DecodeTrunk(s) \in ResultType
<1> SUFFICES ASSUME NEW s \in Socket PROVE DecodeTrunk(s) \in ResultType
  OBVIOUS
<1>1. s.raw \in Seq(Nat) /\ s.rend \in BOOLEAN
  BY DEF Socket
<1>2. CASE s.raw # <<>>
  <2>1. <<Head(s.raw)>> \in Seq(Nat) /\ Tail(s.raw) \in Seq(Nat)
    BY <1>1, <1>2, HeadTailType
  <2>2. [s EXCEPT !.raw = Tail(@)] \in Socket
    BY <2>1 DEF Socket
  <2>3. DecodeTrunk(s) = Result("data", <<Head(s.raw)>>, [s EXCEPT !.raw = Tail(@)])
    BY <1>2 DEF DecodeTrunk
  <2> QED BY <2>1, <2>2, <2>3 DEF ResultType, Result, Results
<1>3. CASE s.raw = <<>>
  <2>1. [s EXCEPT !.rend = FALSE, !.eof = TRUE] \in Socket
    BY DEF Socket
  <2>2. \E r \in Results, x \in Socket : DecodeTrunk(s) = Result(r, <<>>, x)
    BY <1>1, <1>3, <2>1 DEF DecodeTrunk, Results
  <2>3. <<>> \in Seq(Nat)
    OBVIOUS
  <2> QED BY <2>2, <2>3 DEF ResultType, Result, Results
<1> QED BY <1>2, <1>3

(* tcp_socket_try_read, of either kind of socket.                           *)
LEMMA TryReadType == \A s \in Socket : TryRead(s) \in ResultType
<1> SUFFICES ASSUME NEW s \in Socket PROVE TryRead(s) \in ResultType
  OBVIOUS
<1>1. Harvest(s) \in Socket /\ s.eof \in BOOLEAN /\ s.rst \in BOOLEAN
  BY HarvestType DEF Socket
<1>2. DecodeTrunk(Harvest(s)) \in ResultType
  BY <1>1, DecodeTrunkType
<1>3. \A r \in Results, x \in Socket : Result(r, <<>>, x) \in ResultType
  <2>1. <<>> \in Seq(Nat)
    OBVIOUS
  <2> QED BY <2>1 DEF ResultType, Result
<1>4. VmessTryRead(s) \in ResultType
  BY <1>1, <1>2, <1>3 DEF VmessTryRead, Results
<1> QED BY <1>4, PlainTryReadType DEF TryRead

(* tcp_socket_read, of either kind of socket.                               *)
LEMMA BlockingReadType == \A s \in Socket : BlockingRead(s) \in ResultType
<1> SUFFICES ASSUME NEW s \in Socket PROVE BlockingRead(s) \in ResultType
  OBVIOUS
<1>1. /\ s.eof \in BOOLEAN /\ s.rst \in BOOLEAN /\ s.rend \in BOOLEAN /\ s.kend \in BOOLEAN
      /\ Harvest(s) \in Socket
  BY HarvestType DEF Socket
<1>2. DecodeTrunk(Harvest(s)) \in ResultType /\ DecodeTrunk(s) \in ResultType
  BY <1>1, DecodeTrunkType
<1>3. Result("eof", <<>>, s) \in ResultType /\ Result("error", <<>>, s) \in ResultType
  <2>1. <<>> \in Seq(Nat)
    OBVIOUS
  <2> QED BY <2>1 DEF ResultType, Result, Results
<1>4. VmessRead(s) \in ResultType
  BY <1>1, <1>2, <1>3 DEF VmessRead
<1> QED BY <1>4, PlainTryReadType DEF BlockingRead

(* What the handshake's reads may take along: the end trunk is taken only   *)
(* behind the last block.                                                   *)
LEMMA OverreadFacts ==
  ASSUME NEW s \in Socket, NEW over \in Overread(s)
  PROVE  /\ over[1] \in 0 .. Len(s.kbuf) /\ over[2] \in BOOLEAN
         /\ over[2] => s.kend /\ over[1] = Len(s.kbuf)
         /\ s.proto = "native" => over[1] = 0 /\ ~over[2]
<1>1. s.kbuf \in Seq(Nat) /\ Len(s.kbuf) \in Nat
  BY LenProperties DEF Socket
<1>2. CASE s.proto = "native"
  <2>1. over = <<0, FALSE>>
    BY <1>2 DEF Overread
  <2>2. over[1] = 0 /\ over[2] = FALSE
    BY <2>1
  <2>3. over[2] \in BOOLEAN /\ ~over[2]
    BY <2>2, Zenon
  <2>4. over[1] \in 0 .. Len(s.kbuf)
    BY <1>1, <2>2
  <2> QED BY <2>2, <2>3, <2>4, Zenon
<1>3. CASE s.proto # "native"
  <2>1. /\ over \in (0 .. Len(s.kbuf)) \X BOOLEAN
        /\ over[2] => s.kend /\ over[1] = Len(s.kbuf)
    BY <1>3 DEF Overread
  <2>2. over[1] \in 0 .. Len(s.kbuf) /\ over[2] \in BOOLEAN
    BY <2>1
  <2> QED BY <1>3, <2>1, <2>2
<1> QED BY <1>2, <1>3

(* The handshake's reads.                                                   *)
LEMMA ReadHelloType ==
  ASSUME NEW s \in Socket, NEW over \in Overread(s)
  PROVE  ReadHello(s, over) \in Socket
<1>1. s.kbuf \in Seq(Nat) /\ s.raw \in Seq(Nat) /\ Len(s.kbuf) \in Nat
  BY LenProperties DEF Socket
<1>2. over[1] \in 0 .. Len(s.kbuf) /\ over[2] \in BOOLEAN
  BY OverreadFacts
<1>3. /\ SubSeq(s.kbuf, 1, over[1]) \in Seq(Nat)
      /\ SubSeq(s.kbuf, over[1] + 1, Len(s.kbuf)) \in Seq(Nat)
  BY <1>1, <1>2, SplitType
<1> QED BY <1>1, <1>2, <1>3 DEF ReadHello, Socket

-----------------------------------------------------------------------------
(* What the kernel and raw_buf hold of the stream, in its order.            *)
Inside(so) == so.raw \o so.kbuf

(* The end of a stream goes through a VMess socket in three stages and      *)
(* nothing follows it; the other sockets have neither end trunks nor a      *)
(* buffer of their own.                                                     *)
Shaped(so, ended) ==
    /\ so.proto = "vmess" => (ended <=> so.kend \/ so.rend \/ so.eof)
    /\ so.proto # "vmess" => ~so.kend /\ ~so.rend /\ ~so.eof /\ so.raw = <<>>
    /\ so.rend \/ so.eof => so.kbuf = <<>> /\ ~so.kend
    /\ so.eof => so.raw = <<>> /\ ~so.rend

(* A socket that has read nothing of its stream yet.                        *)
Untouched(so) == so.raw = <<>> /\ ~so.rend /\ ~so.eof

-----------------------------------------------------------------------------
(* What a blocking read does to the stream.                                 *)

LEMMA HeadConcat ==
  ASSUME NEW q \in Seq(Nat), q # <<>>
  PROVE  <<Head(q)>> \o Tail(q) = q /\ <<Head(q)>> # <<>>
<1>1. /\ Head(q) \in Nat /\ Tail(q) \in Seq(Nat) /\ Len(Tail(q)) = Len(q) - 1
      /\ \A i \in 1 .. Len(Tail(q)) : Tail(q)[i] = q[i + 1]
  BY HeadTailProperties
<1>2. <<Head(q)>> \in Seq(Nat) /\ Len(<<Head(q)>>) = 1 /\ <<Head(q)>>[1] = Head(q)
  BY <1>1
<1>3. Len(q) \in Nat \ {0} /\ Head(q) = q[1]
  BY EmptySeq, LenProperties
<1> DEFINE h == <<Head(q)>>
           t == Tail(q)
<1>4. /\ h \o t \in Seq(Nat) /\ Len(h \o t) = Len(h) + Len(t)
      /\ \A i \in 1 .. Len(h) + Len(t) : (h \o t)[i] = IF i <= Len(h) THEN h[i] ELSE t[i - Len(h)]
  BY <1>1, <1>2, ConcatProperties
<1>5. Len(h \o t) = Len(q)
  BY <1>1, <1>2, <1>3, <1>4
<1>6. \A i \in 1 .. Len(q) : (h \o t)[i] = q[i]
  BY <1>1, <1>2, <1>3, <1>4, <1>5
<1>7. h \o t = q
  BY <1>4, <1>5, <1>6, SeqEqual
<1> QED BY <1>2, <1>7

LEMMA Assoc ==
  \A a, b, c \in Seq(Nat) : (a \o b) \o c = a \o (b \o c)
BY ConcatAssociative

LEMMA NoConcat ==
  \A a \in Seq(Nat) : a \o <<>> = a /\ <<>> \o a = a
BY ConcatEmptySeq

LEMMA InsideType == \A so \in Socket : Inside(so) \in Seq(Nat)
BY ConcatProperties DEF Inside, Socket

(* What a read may not touch.                                               *)
SameOutside(so, x) ==
    /\ x.proto = so.proto /\ x.hello = so.hello
    /\ x.fin = so.fin /\ x.rst = so.rst /\ x.wshut = so.wshut

(* A read takes its data off the front of the stream, tells of the end only *)
(* when nothing is left of it, and of anything else only when it broke.     *)
Sound(so, ended, r) ==
    /\ r.data \o Inside(r.sock) = Inside(so)
    /\ Shaped(r.sock, ended) /\ SameOutside(so, r.sock)
    /\ r.res \in Results
    /\ r.res = "data" <=> r.data # <<>>
    /\ r.res = "eof" => Inside(r.sock) = <<>> /\ (so.fin \/ ended)
    /\ r.res = "error" => so.rst

LEMMA NothingRead ==
  ASSUME NEW so \in Socket, NEW e \in BOOLEAN, Shaped(so, e),
         NEW res \in Results \ {"data"},
         res = "eof" => Inside(so) = <<>> /\ (so.fin \/ e),
         res = "error" => so.rst
  PROVE  Sound(so, e, Result(res, <<>>, so))
<1>1. <<>> \o Inside(so) = Inside(so)
  BY InsideType, ConcatEmptySeq
<1> QED BY <1>1 DEF Sound, Result, SameOutside

LEMMA SomethingRead ==
  ASSUME NEW so, NEW e, NEW d, NEW x, d # <<>>, d \o Inside(x) = Inside(so),
         Shaped(x, e), SameOutside(so, x)
  PROVE  Sound(so, e, Result("data", d, x))
<1> DEFINE r == Result("data", d, x)
<1>1. r.res = "data" /\ r.data = d /\ r.sock = x
  BY DEF Result
<1> HIDE DEF r
<1>2. Sound(so, e, r)
  BY <1>1 DEF Sound, Results
<1> QED BY <1>2 DEF r

LEMMA EndRead ==
  ASSUME NEW so, NEW e, e \/ so.fin, NEW x, Inside(x) = <<>>, Inside(so) = <<>>,
         Shaped(x, e), SameOutside(so, x)
  PROVE  Sound(so, e, Result("eof", <<>>, x))
<1> DEFINE r == Result("eof", <<>>, x)
<1>1. r.res = "eof" /\ r.data = <<>> /\ r.sock = x
  BY DEF Result
<1>2. <<>> \o <<>> = <<>>
  BY EmptySeq, ConcatEmptySeq
<1> HIDE DEF r
<1>3. Sound(so, e, r)
  BY <1>1, <1>2 DEF Sound, Results
<1> QED BY <1>3 DEF r

LEMMA PlainReadSound ==
  ASSUME NEW so \in Socket, NEW e \in BOOLEAN, Shaped(so, e),
         so.proto # "vmess", ReadReturns(so)
  PROVE  LET r == PlainTryRead(so)
         IN  Sound(so, e, r) /\ r.res # "again"
<1>1. /\ so.kbuf \in Seq(Nat) /\ so.raw = <<>> /\ ~so.kend
      /\ so.fin \in BOOLEAN /\ so.rst \in BOOLEAN
  BY DEF Shaped, Socket
<1>2. Inside(so) = so.kbuf
  BY <1>1, ConcatEmptySeq DEF Inside
<1>3. CASE so.kbuf # <<>>
  <2> DEFINE x == [so EXCEPT !.kbuf = Tail(@)]
  <2>1. /\ <<Head(so.kbuf)>> \o Tail(so.kbuf) = so.kbuf /\ <<Head(so.kbuf)>> # <<>>
        /\ Tail(so.kbuf) \in Seq(Nat)
    BY <1>1, <1>3, HeadConcat, HeadTailProperties
  <2>2. /\ x.raw = <<>> /\ x.kbuf = Tail(so.kbuf) /\ SameOutside(so, x)
        /\ x.kend = so.kend /\ x.rend = so.rend /\ x.eof = so.eof
    BY <1>1 DEF Socket, SameOutside
  <2> HIDE DEF x
  <2>3. Inside(x) = Tail(so.kbuf)
    BY <2>1, <2>2, ConcatEmptySeq DEF Inside
  <2>4. Shaped(x, e)
    BY <1>1, <2>2 DEF Shaped, SameOutside
  <2>5. PlainTryRead(so) = Result("data", <<Head(so.kbuf)>>, x)
    BY <1>3 DEF PlainTryRead, x
  <2>6. Sound(so, e, Result("data", <<Head(so.kbuf)>>, x))
    BY <1>2, <2>1, <2>2, <2>3, <2>4, SomethingRead
  <2> QED BY <2>5, <2>6 DEF Result
<1>4. CASE so.kbuf = <<>> /\ so.rst
  <2>1. PlainTryRead(so) = Result("error", <<>>, so)
    BY <1>4 DEF PlainTryRead
  <2>2. Sound(so, e, Result("error", <<>>, so))
    BY <1>4, NothingRead DEF Results
  <2> QED BY <2>1, <2>2 DEF Result
<1>5. CASE so.kbuf = <<>> /\ ~so.rst
  <2>1. so.fin
    BY <1>1, <1>5 DEF ReadReturns
  <2>2. PlainTryRead(so) = Result("eof", <<>>, so)
    BY <1>5, <2>1 DEF PlainTryRead
  <2>3. Sound(so, e, Result("eof", <<>>, so))
    BY <1>2, <1>5, <2>1, NothingRead DEF Results
  <2> QED BY <2>2, <2>3 DEF Result
<1> QED BY <1>1, <1>3, <1>4, <1>5

LEMMA TrunkSound ==
  ASSUME NEW so \in Socket, NEW e \in BOOLEAN, Shaped(so, e),
         so.proto = "vmess", ~so.eof
  PROVE  LET r == DecodeTrunk(so)
         IN  Sound(so, e, r) /\ (r.res = "again" => so.raw = <<>> /\ ~so.rend)
<1>1. /\ so.kbuf \in Seq(Nat) /\ so.raw \in Seq(Nat)
      /\ so.rend \in BOOLEAN /\ so.kend \in BOOLEAN /\ so.eof \in BOOLEAN
  BY DEF Socket
<1>2. CASE so.raw # <<>>
  <2> DEFINE x == [so EXCEPT !.raw = Tail(@)]
             h == <<Head(so.raw)>>
             t == Tail(so.raw)
  <2>1. h \o t = so.raw /\ h # <<>> /\ t \in Seq(Nat) /\ h \in Seq(Nat)
    BY <1>1, <1>2, HeadConcat, HeadTailType
  <2>2. /\ x.raw = t /\ x.kbuf = so.kbuf /\ SameOutside(so, x)
        /\ x.kend = so.kend /\ x.rend = so.rend /\ x.eof = so.eof
    BY <1>1 DEF Socket, SameOutside
  <2>3. DecodeTrunk(so) = Result("data", h, x)
    BY <1>2 DEF DecodeTrunk
  <2> HIDE DEF x, h, t
  <2>4. h \o (t \o so.kbuf) = (h \o t) \o so.kbuf
    BY <1>1, <2>1, Assoc
  <2>5. h \o Inside(x) = Inside(so)
    BY <2>1, <2>2, <2>4 DEF Inside
  <2>6. Shaped(x, e)
    BY <1>1, <2>2 DEF Shaped, SameOutside
  <2>7. Sound(so, e, Result("data", h, x))
    BY <2>1, <2>2, <2>5, <2>6, SomethingRead
  <2> QED BY <2>3, <2>7 DEF Result
<1>3. CASE so.raw = <<>> /\ so.rend
  <2> DEFINE x == [so EXCEPT !.rend = FALSE, !.eof = TRUE]
  <2>1. so.kbuf = <<>> /\ ~so.kend /\ e
    BY <1>3 DEF Shaped
  <2>2. /\ x.raw = <<>> /\ x.kbuf = <<>> /\ SameOutside(so, x)
        /\ x.kend = so.kend /\ x.rend = FALSE /\ x.eof = TRUE
    BY <1>1, <1>3, <2>1 DEF Socket, SameOutside
  <2>3. DecodeTrunk(so) = Result("eof", <<>>, x)
    BY <1>3 DEF DecodeTrunk
  <2> HIDE DEF x
  <2>4. <<>> \o <<>> = <<>>
    BY ConcatEmptySeq, <1>1, <1>3
  <2>5. Inside(x) = <<>> /\ Inside(so) = <<>>
    BY <1>3, <2>1, <2>2, <2>4 DEF Inside
  <2>6. Shaped(x, e)
    BY <1>1, <2>1, <2>2 DEF Shaped, SameOutside
  <2>7. Sound(so, e, Result("eof", <<>>, x))
    BY <2>1, <2>2, <2>5, <2>6, EndRead
  <2> QED BY <2>3, <2>7 DEF Result
<1>4. CASE so.raw = <<>> /\ ~so.rend
  <2>1. DecodeTrunk(so) = Result("again", <<>>, so)
    BY <1>4 DEF DecodeTrunk
  <2>2. Sound(so, e, Result("again", <<>>, so))
    BY NothingRead DEF Results
  <2> QED BY <1>4, <2>1, <2>2 DEF Result
<1> QED BY <1>1, <1>2, <1>3, <1>4

(* rbuffer_try_read moves the stream from the kernel into raw_buf.          *)
LEMMA HarvestShape ==
  ASSUME NEW so \in Socket, NEW e \in BOOLEAN, Shaped(so, e),
         so.proto = "vmess", ~so.eof
  PROVE  /\ Harvest(so) \in Socket /\ Shaped(Harvest(so), e)
         /\ Inside(Harvest(so)) = Inside(so) /\ SameOutside(so, Harvest(so))
         /\ ~Harvest(so).eof
         /\ Harvest(so).raw = Inside(so) /\ Harvest(so).rend = (so.rend \/ so.kend)
<1> DEFINE x == Harvest(so)
<1>1. /\ so.kbuf \in Seq(Nat) /\ so.raw \in Seq(Nat)
      /\ so.rend \in BOOLEAN /\ so.kend \in BOOLEAN /\ so.eof \in BOOLEAN
  BY DEF Socket
<1>2. /\ x.raw = so.raw \o so.kbuf /\ x.kbuf = <<>> /\ x.kend = FALSE
      /\ x.rend = (so.rend \/ so.kend) /\ x.eof = so.eof /\ SameOutside(so, x)
  BY <1>1 DEF Harvest, Socket, SameOutside
<1>3. x \in Socket
  BY HarvestType
<1> HIDE DEF x
<1>4. Inside(x) = Inside(so)
  BY <1>1, <1>2, ConcatEmptySeq, ConcatProperties DEF Inside
<1>5. Shaped(x, e)
  BY <1>1, <1>2 DEF Shaped, SameOutside
<1>6. x.raw = Inside(so) /\ ~x.eof
  BY <1>2 DEF Inside
<1> QED BY <1>2, <1>3, <1>4, <1>5, <1>6 DEF x

(* A blocking read returns EAGAIN only from a stream that broke off.        *)
LEMMA VmessReadSound ==
  ASSUME NEW so \in Socket, NEW e \in BOOLEAN, Shaped(so, e),
         so.proto = "vmess", ReadReturns(so)
  PROVE  LET r == VmessRead(so)
         IN  Sound(so, e, r) /\ (r.res = "again" => so.fin /\ ~e)
<1>1. /\ so.kbuf \in Seq(Nat) /\ so.raw \in Seq(Nat) /\ so.rst \in BOOLEAN
      /\ so.rend \in BOOLEAN /\ so.kend \in BOOLEAN /\ so.eof \in BOOLEAN
  BY DEF Socket
<1>2. CASE so.eof
  <2>1. VmessRead(so) = Result("eof", <<>>, so)
    BY <1>2 DEF VmessRead
  <2>2. Inside(so) = <<>> /\ e
    <3>1. so.raw = <<>> /\ so.kbuf = <<>> /\ e
      BY <1>2 DEF Shaped
    <3> QED BY <1>1, <3>1, ConcatEmptySeq DEF Inside
  <2>3. Sound(so, e, Result("eof", <<>>, so))
    BY <2>2, NothingRead DEF Results
  <2> QED BY <2>1, <2>3 DEF Result
<1>3. CASE ~so.eof /\ (so.raw # <<>> \/ so.rend)
  <2>1. VmessRead(so) = DecodeTrunk(so)
    BY <1>3 DEF VmessRead
  <2> QED BY <1>3, <2>1, TrunkSound
<1>4. CASE ~so.eof /\ so.raw = <<>> /\ ~so.rend /\ so.rst /\ so.kbuf = <<>> /\ ~so.kend
  <2>1. VmessRead(so) = Result("error", <<>>, so)
    BY <1>4 DEF VmessRead
  <2>2. Sound(so, e, Result("error", <<>>, so))
    BY <1>4, NothingRead DEF Results
  <2> QED BY <2>1, <2>2 DEF Result
<1>5. CASE ~so.eof /\ so.raw = <<>> /\ ~so.rend /\ ~(so.rst /\ so.kbuf = <<>> /\ ~so.kend)
  <2> DEFINE x == Harvest(so)
             r == DecodeTrunk(x)
  <2>1. VmessRead(so) = r
    BY <1>5 DEF VmessRead
  <2>2. /\ x \in Socket /\ Shaped(x, e) /\ Inside(x) = Inside(so)
        /\ SameOutside(so, x) /\ ~x.eof
        /\ x.raw = Inside(so) /\ x.rend = (so.rend \/ so.kend)
    BY <1>5, HarvestShape
  <2> HIDE DEF x
  <2>3. Sound(x, e, r) /\ (r.res = "again" => x.raw = <<>> /\ ~x.rend)
    BY <2>2, TrunkSound DEF SameOutside
  <2>4. Sound(so, e, r)
    BY <2>2, <2>3 DEF Sound, SameOutside
  <2>5. ASSUME r.res = "again" PROVE so.fin /\ ~e
    <3>1. so.kbuf = <<>> /\ ~so.kend /\ ~so.rend
      BY <1>1, <2>2, <2>3, <2>5, ConcatEqualIffEmpty DEF Inside
    <3> QED BY <1>1, <1>5, <3>1 DEF ReadReturns, Shaped
  <2> QED BY <2>1, <2>4, <2>5
<1> QED BY <1>1, <1>2, <1>3, <1>4, <1>5

LEMMA BlockingReadSound ==
  ASSUME NEW so \in Socket, NEW e \in BOOLEAN, Shaped(so, e), ReadReturns(so)
  PROVE  LET r == BlockingRead(so)
         IN  Sound(so, e, r) /\ (r.res = "again" => so.fin /\ ~e)
<1>1. CASE so.proto = "vmess"
  BY <1>1, VmessReadSound DEF BlockingRead
<1>2. CASE so.proto # "vmess"
  BY <1>2, PlainReadSound DEF BlockingRead
<1> QED BY <1>1, <1>2

(* What the peers may not touch while no data arrives.                      *)
SameStream(so, x) ==
    /\ x.kbuf = so.kbuf /\ x.kend = so.kend
    /\ x.raw = so.raw /\ x.rend = so.rend /\ x.eof = so.eof

LEMMA ConcatAppend ==
  \A a, b \in Seq(Nat), d \in Nat : a \o Append(b, d) = Append(a \o b, d)
<1> SUFFICES ASSUME NEW a \in Seq(Nat), NEW b \in Seq(Nat), NEW d \in Nat
             PROVE  a \o Append(b, d) = Append(a \o b, d)
  OBVIOUS
<1>1. <<d>> \in Seq(Nat) /\ a \o b \in Seq(Nat)
  BY ConcatProperties
<1>2. Append(b, d) = b \o <<d>> /\ Append(a \o b, d) = (a \o b) \o <<d>>
  BY <1>1, AppendIsConcat
<1> QED BY <1>1, <1>2, Assoc

(* The first k blocks of a sequence and the others make up the sequence.    *)
LEMMA SplitConcat ==
  ASSUME NEW q \in Seq(Nat), NEW k \in 0 .. Len(q)
  PROVE  SubSeq(q, 1, k) \o SubSeq(q, k + 1, Len(q)) = q
<1>1. Len(q) \in Nat
  BY LenProperties
<1>2. SubSeq(q, 1, Len(q)) = q
  BY SubSeqFull
<1>3. SubSeq(q, 1, k) \o SubSeq(q, k + 1, Len(q)) = SubSeq(q, 1, Len(q))
  <2>1. 1 \in 1 .. Len(q) + 1 /\ k \in 1 - 1 .. Len(q) /\ Len(q) \in k .. Len(q)
    BY <1>1
  <2> QED BY <1>1, <2>1, ConcatAdjacentSubSeq
<1> QED BY <1>2, <1>3

(* Nothing follows the last block.                                          *)
LEMMA SplitNone ==
  ASSUME NEW q \in Seq(Nat)
  PROVE  SubSeq(q, Len(q) + 1, Len(q)) = <<>>
<1>1. Len(q) \in Nat
  BY LenProperties
<1>2. Len(q) + 1 \in Int /\ Len(q) \in Int /\ Len(q) < Len(q) + 1
  BY <1>1
<1> QED BY <1>2, SubSeqEmpty

(* Reading the header leaves the stream behind it as it was.                *)
LEMMA HelloSound ==
  ASSUME NEW so \in Socket, NEW e \in BOOLEAN, Shaped(so, e),
         so.proto # "native" => Untouched(so),
         so.proto = "socks" => so.kbuf = <<>>,
         NEW over \in Overread(so)
  PROVE  LET x == ReadHello(so, over)
         IN  /\ Shaped(x, e) /\ Inside(x) = Inside(so) /\ ~x.hello
             /\ x.proto = so.proto /\ x.fin = so.fin /\ x.rst = so.rst
             /\ x.wshut = so.wshut
<1> DEFINE k == over[1]
           x == ReadHello(so, over)
           a == SubSeq(so.kbuf, 1, k)
           b == SubSeq(so.kbuf, k + 1, Len(so.kbuf))
<1>1. so.kbuf \in Seq(Nat) /\ so.raw \in Seq(Nat) /\ Len(so.kbuf) \in Nat
  BY LenProperties DEF Socket
<1>2. /\ k \in 0 .. Len(so.kbuf) /\ over[2] \in BOOLEAN
      /\ so.proto = "native" => k = 0 /\ ~over[2]
      /\ over[2] => so.kend /\ k = Len(so.kbuf)
  BY OverreadFacts
<1>3. a \o b = so.kbuf /\ a \in Seq(Nat) /\ b \in Seq(Nat)
  BY <1>1, <1>2, SplitConcat, SplitType
<1>4. /\ x.hello = FALSE /\ x.kbuf = b
      /\ x.raw = (IF so.proto = "vmess" THEN a ELSE so.raw)
      /\ x.kend = (so.kend /\ ~over[2]) /\ x.rend = (so.rend \/ over[2])
      /\ x.eof = so.eof
      /\ x.proto = so.proto /\ x.fin = so.fin /\ x.rst = so.rst /\ x.wshut = so.wshut
  BY DEF ReadHello, Socket
<1>5. so.proto # "vmess" => b = so.kbuf
  <2>1. CASE so.proto = "native"
    <3>1. k + 1 = 1
      BY <1>2, <2>1
    <3> QED BY <1>1, <3>1, SubSeqFull
  <2>2. CASE so.proto = "socks"
    <3>1. Len(so.kbuf) = 0 /\ k + 1 = 1
      BY <1>1, <1>2, <2>2
    <3> QED BY <1>1, <3>1, SubSeqFull
  <2> QED BY <2>1, <2>2 DEF Socket, Protos
<1>6. over[2] => b = <<>>
  BY <1>1, <1>2, SplitNone
<1> HIDE DEF x, a, b, k
<1>7. CASE so.proto = "vmess"
  <2>1. so.raw = <<>> /\ ~so.rend /\ ~so.eof
    BY <1>7 DEF Untouched
  <2>2. Inside(x) = so.kbuf /\ Inside(so) = so.kbuf
    BY <1>1, <1>3, <1>4, <1>7, <2>1, NoConcat DEF Inside
  <2>3. Shaped(x, e)
    BY <1>2, <1>4, <1>6, <1>7, <2>1 DEF Shaped
  <2> QED BY <1>4, <2>2, <2>3 DEF x
<1>8. CASE so.proto # "vmess"
  <2>1. Inside(x) = Inside(so)
    BY <1>4, <1>5, <1>8 DEF Inside
  <2>2. ~so.kend
    BY <1>8 DEF Shaped
  <2>3. ~over[2]
    BY <1>2, <2>2
  <2>4. Shaped(x, e)
    BY <1>4, <1>5, <1>8, <2>3 DEF Shaped
  <2> QED BY <1>4, <2>1, <2>4 DEF x
<1> QED BY <1>7, <1>8

-----------------------------------------------------------------------------
(* What a read that does not block does to the stream.                      *)

(* Nothing is left in the kernel that a read would return.                  *)
Emptied(so) ==
    /\ so.kbuf = <<>> /\ ~so.kend
    /\ so.proto # "vmess" => ~so.rst

(* A decoded trunk is one block.                                            *)
LEMMA TrunkBlock ==
  ASSUME NEW so \in Socket, NEW r, r = DecodeTrunk(so)
  PROVE  /\ r.data = <<>> \/ \E d \in Nat : r.data = <<d>>
         /\ r.sock.kbuf = so.kbuf /\ r.sock.kend = so.kend
         /\ r.res = "again" => r.sock = so /\ so.raw = <<>> /\ ~so.rend
<1>1. so.raw \in Seq(Nat) /\ so.rend \in BOOLEAN
  BY DEF Socket
<1>2. CASE so.raw # <<>>
  <2> DEFINE h == <<Head(so.raw)>>
             x == [so EXCEPT !.raw = Tail(@)]
  <2>1. h = <<Head(so.raw)>> /\ Head(so.raw) \in Nat
    BY <1>1, <1>2, HeadTailProperties
  <2>2. r = Result("data", h, x)
    BY <1>2 DEF DecodeTrunk
  <2>3. x.kbuf = so.kbuf /\ x.kend = so.kend
    BY DEF Socket
  <2> HIDE DEF h, x
  <2>4. r.res = "data" /\ r.data = h /\ r.sock = x
    BY <2>2 DEF Result
  <2> QED BY <2>1, <2>3, <2>4
<1>3. CASE so.raw = <<>> /\ so.rend
  <2> DEFINE x == [so EXCEPT !.rend = FALSE, !.eof = TRUE]
  <2>1. r = Result("eof", <<>>, x)
    BY <1>3 DEF DecodeTrunk
  <2>2. x.kbuf = so.kbuf /\ x.kend = so.kend
    BY DEF Socket
  <2> HIDE DEF x
  <2>3. r.res = "eof" /\ r.data = <<>> /\ r.sock = x
    BY <2>1 DEF Result
  <2> QED BY <2>2, <2>3
<1>4. CASE so.raw = <<>> /\ ~so.rend
  BY <1>4 DEF DecodeTrunk, Result
<1> QED BY <1>1, <1>2, <1>3, <1>4

LEMMA PlainTryReadSound ==
  ASSUME NEW so \in Socket, NEW e \in BOOLEAN, Shaped(so, e), so.proto # "vmess",
         NEW r, r = PlainTryRead(so)
  PROVE  /\ Sound(so, e, r)
         /\ r.data = <<>> \/ \E d \in Nat : r.data = <<d>>
         /\ r.res \in {"again", "eof"} => Emptied(r.sock)
         /\ r.res = "again" => ~so.fin
         /\ r.res = "eof" => so.fin
<1>1. /\ so.kbuf \in Seq(Nat) /\ so.fin \in BOOLEAN /\ so.rst \in BOOLEAN /\ ~so.kend
  BY DEF Shaped, Socket
<1>2. CASE so.kbuf # <<>>
  <2>1. Head(so.kbuf) \in Nat
    BY <1>1, <1>2, HeadTailProperties
  <2>2. r.res = "data" /\ r.data = <<Head(so.kbuf)>>
    BY <1>2 DEF PlainTryRead, Result
  <2>3. Sound(so, e, r)
    BY <1>2, PlainReadSound DEF ReadReturns
  <2> QED BY <2>1, <2>2, <2>3
<1>3. CASE so.kbuf = <<>> /\ (so.rst \/ so.fin)
  <2>1. /\ r.res \in {"error", "eof"} /\ r.data = <<>> /\ r.sock = so
        /\ r.res = "eof" => so.fin /\ ~so.rst
    BY <1>1, <1>3 DEF PlainTryRead, Result
  <2>2. Sound(so, e, r)
    BY <1>3, PlainReadSound DEF ReadReturns
  <2> QED BY <1>1, <1>3, <2>1, <2>2 DEF Emptied
<1>4. CASE so.kbuf = <<>> /\ ~so.rst /\ ~so.fin
  <2>1. r = Result("again", <<>>, so)
    BY <1>4 DEF PlainTryRead
  <2>2. Sound(so, e, Result("again", <<>>, so))
    BY NothingRead DEF Results
  <2>3. r.res = "again" /\ r.data = <<>> /\ r.sock = so
    BY <2>1 DEF Result
  <2> QED BY <1>1, <1>4, <2>1, <2>2, <2>3 DEF Emptied
<1> QED BY <1>1, <1>2, <1>3, <1>4

LEMMA VmessTryReadSound ==
  ASSUME NEW so \in Socket, NEW e \in BOOLEAN, Shaped(so, e), so.proto = "vmess",
         NEW r, r = VmessTryRead(so)
  PROVE  /\ Sound(so, e, r)
         /\ r.data = <<>> \/ \E d \in Nat : r.data = <<d>>
         /\ r.res \in {"again", "eof"} => r.sock.kbuf = <<>> /\ ~r.sock.kend
         /\ r.res = "eof" => e
<1>1. /\ so.kbuf \in Seq(Nat) /\ so.raw \in Seq(Nat) /\ so.rst \in BOOLEAN
      /\ so.rend \in BOOLEAN /\ so.kend \in BOOLEAN /\ so.eof \in BOOLEAN
  BY DEF Socket
<1>2. CASE so.eof
  <2>1. r = Result("eof", <<>>, so)
    BY <1>2 DEF VmessTryRead
  <2>2. so.raw = <<>> /\ so.kbuf = <<>> /\ ~so.kend /\ e
    BY <1>2 DEF Shaped
  <2>3. Inside(so) = <<>>
    BY <1>1, <2>2, ConcatEmptySeq DEF Inside
  <2>4. Sound(so, e, Result("eof", <<>>, so))
    BY <2>2, <2>3, NothingRead DEF Results
  <2>5. r.res = "eof" /\ r.data = <<>> /\ r.sock = so
    BY <2>1 DEF Result
  <2> QED BY <2>1, <2>2, <2>4, <2>5
<1>3. CASE ~so.eof
  <2> DEFINE x == Harvest(so)
  <2>1. /\ x \in Socket /\ Shaped(x, e) /\ Inside(x) = Inside(so)
        /\ SameOutside(so, x) /\ ~x.eof
    BY <1>3, HarvestShape
  <2>2. x.kbuf = <<>> /\ ~x.kend
    BY DEF Harvest, Socket
  <2>3. CASE so.rst
    <3>1. r = Result("error", <<>>, x)
      BY <1>3, <2>3 DEF VmessTryRead
    <3> HIDE DEF x
    <3>2. r.res = "error" /\ r.data = <<>> /\ r.sock = x
      BY <3>1 DEF Result
    <3>3. <<>> \o Inside(x) = Inside(so)
      BY <2>1, InsideType, ConcatEmptySeq
    <3> QED BY <2>1, <2>3, <3>2, <3>3 DEF Sound, Results
  <2>4. CASE ~so.rst
    <3>1. r = DecodeTrunk(x)
      BY <1>3, <2>4 DEF VmessTryRead
    <3> HIDE DEF x
    <3>2. Sound(x, e, r)
      BY <2>1, <3>1, TrunkSound DEF SameOutside
    <3>3. /\ r.data = <<>> \/ \E d \in Nat : r.data = <<d>>
          /\ r.sock.kbuf = <<>> /\ ~r.sock.kend
      BY <2>1, <2>2, <3>1, TrunkBlock
    <3>4. r.res = "eof" => e
      <4>1. x.raw \in Seq(Nat) /\ x.rend \in BOOLEAN
        BY <2>1 DEF Socket
      <4>2. r.res = "eof" => x.rend
        BY <3>1, <4>1 DEF DecodeTrunk, Result
      <4> QED BY <2>1, <4>2 DEF Shaped, SameOutside
    <3>5. Sound(so, e, r)
      BY <2>1, <3>2 DEF Sound, SameOutside
    <3> QED BY <3>3, <3>4, <3>5
  <2> QED BY <1>1, <2>3, <2>4
<1> QED BY <1>1, <1>2, <1>3

(* tcp_socket_try_read, of either kind of socket: EAGAIN and the end of     *)
(* file leave nothing in the kernel, and the end is that of the stream or   *)
(* of a plain connection.                                                   *)
LEMMA TryReadSound ==
  ASSUME NEW so \in Socket, NEW e \in BOOLEAN, Shaped(so, e),
         so.proto # "vmess" /\ so.fin => e, NEW r, r = TryRead(so)
  PROVE  /\ Sound(so, e, r)
         /\ r.data = <<>> \/ \E d \in Nat : r.data = <<d>>
         /\ r.res \in {"again", "eof"} => Emptied(r.sock)
         /\ r.res = "again" /\ so.proto # "vmess" => ~so.fin
         /\ r.res = "eof" => e
<1>1. CASE so.proto # "vmess"
  BY <1>1, PlainTryReadSound DEF TryRead
<1>2. CASE so.proto = "vmess"
  <2>1. r = VmessTryRead(so)
    BY <1>2 DEF TryRead
  <2>2. Sound(so, e, r) => r.sock.proto = so.proto
    BY DEF Sound, SameOutside
  <2> QED BY <1>2, <2>1, <2>2, VmessTryReadSound DEF Emptied
<1> QED BY <1>1, <1>2

(* When it tells of EAGAIN or of the end, nothing stays behind in raw_buf   *)
(* and the connection is not broken; of the end it tells once more when     *)
(* read_buf is closed already.                                              *)
LEMMA TryReadDrained ==
  ASSUME NEW so \in Socket, NEW e \in BOOLEAN, Shaped(so, e),
         NEW r, r = TryRead(so), Sound(so, e, r)
  PROVE  /\ r.res \in {"again", "eof"} => r.sock.raw = <<>> /\ ~r.sock.rend
         /\ r.res = "again" => ~so.rst
         /\ r.res = "eof" => ~so.rst \/ so.eof
         /\ r.sock.eof => r.res = "eof"
<1>0. /\ so.raw \in Seq(Nat) /\ so.kbuf \in Seq(Nat)
      /\ so.rend \in BOOLEAN /\ so.eof \in BOOLEAN /\ so.rst \in BOOLEAN
  BY DEF Socket
<1>1. CASE so.proto # "vmess"
  <2>1. r = PlainTryRead(so)
    BY <1>1 DEF TryRead
  <2>2. r.sock.raw = <<>> /\ ~r.sock.rend /\ ~r.sock.eof
    <3>1. r.sock.proto # "vmess" /\ Shaped(r.sock, e)
      BY <1>1 DEF Sound, SameOutside
    <3> QED BY <3>1 DEF Shaped
  <2>3. r.res \in {"again", "eof"} => ~so.rst
    <3>1. CASE so.kbuf # <<>>
      BY <2>1, <3>1 DEF PlainTryRead, Result
    <3>2. CASE so.kbuf = <<>> /\ so.rst
      BY <2>1, <3>2 DEF PlainTryRead, Result
    <3> QED BY <1>0, <3>1, <3>2
  <2> QED BY <2>2, <2>3
<1>2. CASE so.proto = "vmess" /\ so.eof
  <2>1. r = Result("eof", <<>>, so)
    BY <1>2 DEF TryRead, VmessTryRead
  <2>2. r.res = "eof" /\ r.sock = so
    BY <2>1 DEF Result
  <2> QED BY <1>2, <2>2 DEF Shaped
<1>3. CASE so.proto = "vmess" /\ ~so.eof
  <2> DEFINE x == Harvest(so)
  <2>1. x \in Socket /\ Shaped(x, e) /\ ~x.eof
    BY <1>3, HarvestShape
  <2> HIDE DEF x
  <2>2. x.raw \in Seq(Nat) /\ x.rend \in BOOLEAN
    BY <2>1 DEF Socket
  <2>3. CASE so.rst
    <3>1. r = Result("error", <<>>, x)
      BY <1>3, <2>3 DEF TryRead, VmessTryRead, x
    <3> QED BY <2>1, <3>1 DEF Result
  <2>4. CASE ~so.rst
    <3>1. r = DecodeTrunk(x)
      BY <1>3, <2>4 DEF TryRead, VmessTryRead, x
    <3>2. CASE x.raw # <<>>
      <4>1. r = Result("data", <<Head(x.raw)>>, [x EXCEPT !.raw = Tail(@)])
        BY <3>1, <3>2 DEF DecodeTrunk
      <4>2. r.res = "data" /\ r.sock = [x EXCEPT !.raw = Tail(@)]
        BY <4>1 DEF Result
      <4>3. ~r.sock.eof
        BY <2>1, <4>2 DEF Socket
      <4> QED BY <4>2, <4>3
    <3>3. CASE x.raw = <<>> /\ x.rend
      <4>1. r = Result("eof", <<>>, [x EXCEPT !.rend = FALSE, !.eof = TRUE])
        BY <3>1, <3>3 DEF DecodeTrunk
      <4>2. r.res = "eof" /\ r.sock = [x EXCEPT !.rend = FALSE, !.eof = TRUE]
        BY <4>1 DEF Result
      <4>3. r.sock.raw = x.raw /\ r.sock.rend = FALSE
        BY <2>1, <4>2 DEF Socket
      <4> QED BY <2>4, <3>3, <4>2, <4>3
    <3>4. CASE x.raw = <<>> /\ ~x.rend
      <4>1. r.res = "again" /\ r.sock = x
        BY <3>1, <3>4 DEF DecodeTrunk, Result
      <4> QED BY <2>1, <2>4, <3>4, <4>1
    <3> QED BY <2>2, <3>2, <3>3, <3>4
  <2> QED BY <1>0, <2>3, <2>4
<1> QED BY <1>0, <1>1, <1>2, <1>3

(* Reading the header keeps the shape of any stream that has not begun.     *)
LEMMA HelloShape ==
  ASSUME NEW so \in Socket, NEW e \in BOOLEAN, Shaped(so, e), Untouched(so),
         NEW over \in Overread(so)
  PROVE  LET x == ReadHello(so, over)
         IN  /\ Shaped(x, e)
             /\ x.proto = so.proto /\ x.fin = so.fin /\ x.rst = so.rst
             /\ x.wshut = so.wshut
<1> DEFINE x == ReadHello(so, over)
           b == SubSeq(so.kbuf, over[1] + 1, Len(so.kbuf))
<1>1. /\ x.kbuf = b
      /\ so.proto # "vmess" => x.raw = so.raw
      /\ x.kend = (so.kend /\ ~over[2]) /\ x.rend = (so.rend \/ over[2])
      /\ x.eof = so.eof
      /\ x.proto = so.proto /\ x.fin = so.fin /\ x.rst = so.rst /\ x.wshut = so.wshut
  BY DEF ReadHello, Socket
<1>2. so.kbuf \in Seq(Nat) /\ Len(so.kbuf) \in Nat
  BY LenProperties DEF Socket
<1>3. over[2] \in BOOLEAN /\ (over[2] => so.kend /\ over[1] = Len(so.kbuf))
  BY OverreadFacts
<1>4. over[2] => b = <<>>
  BY <1>2, <1>3, SplitNone
<1> HIDE DEF x, b
<1>5. Shaped(x, e)
  <2>1. CASE so.proto = "vmess"
    <3>1. so.raw = <<>> /\ ~so.rend /\ ~so.eof
      BY DEF Untouched
    <3> QED BY <1>1, <1>3, <1>4, <2>1, <3>1 DEF Shaped
  <2>2. CASE so.proto # "vmess"
    <3>1. ~so.kend
      BY <2>2 DEF Shaped
    <3>2. ~over[2]
      BY <1>3, <3>1
    <3> QED BY <1>1, <2>2, <3>2 DEF Shaped
  <2> QED BY <2>1, <2>2
<1> QED BY <1>1, <1>5 DEF x

(* What is appended to a prefix is the block that follows it.               *)
LEMMA NextBlock ==
  ASSUME NEW q \in Seq(Nat), NEW d \in Nat, NEW t \in Seq(Nat),
         NEW w, w = (q \o <<d>>) \o t
  PROVE  /\ Len(q) + 1 <= Len(w) /\ w[Len(q) + 1] = d
         /\ q \o <<d>> = Append(q, d)
<1> DEFINE a == Append(q, d)
<1>1. /\ a \in Seq(Nat) /\ Len(a) = Len(q) + 1 /\ a[Len(q) + 1] = d
      /\ Len(q) \in Nat /\ Len(t) \in Nat
  BY AppendProperties, LenProperties
<1>2. q \o <<d>> = a
  BY AppendIsConcat
<1> HIDE DEF a
<1>3. /\ Len(a \o t) = Len(a) + Len(t)
      /\ \A i \in 1 .. Len(a) + Len(t) :
            (a \o t)[i] = IF i <= Len(a) THEN a[i] ELSE t[i - Len(a)]
  BY <1>1, ConcatProperties
<1>4. Len(q) + 1 <= Len(a \o t) /\ (a \o t)[Len(q) + 1] = d
  BY <1>1, <1>3
<1> QED BY <1>2, <1>4 DEF a
=============================================================================

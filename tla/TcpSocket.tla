----------------------------- MODULE TcpSocket -----------------------------
(***************************************************************************)
(* A tcp_socket_t of proto/tcp.h, seen from the relay that uses it: the     *)
(* bytes the kernel holds for it, the user-space buffers of the VMess       *)
(* socket, and what its read functions do.  The definitions are pure: a     *)
(* relay holds a socket in a variable and replaces it by the result.        *)
(*                                                                          *)
(* The unit of data is a block: at most one 8 KB read (DEFAULT_BUFFER) of a *)
(* plain socket, one data trunk of a VMess socket.  A peer numbers its      *)
(* blocks 1, 2, ...                                                         *)
(***************************************************************************)
EXTENDS Naturals, Sequences

(* "plain" stands for the native, dokodemo and SOCKS sockets, whose reads   *)
(* and writes are the same fd_try_read and fd_write; they differ in the     *)
(* handshake only, hence the value "socks".                                 *)
Protos == {"native", "socks", "vmess"}

Socket ==
    [proto : Protos,
     hello : BOOLEAN,    \* an unread handshake header is first in the stream
     kbuf  : Seq(Nat),   \* the blocks in the kernel's receive buffer
     kend  : BOOLEAN,    \* a VMess end trunk follows them
     fin   : BOOLEAN,    \* the peer has shut down its sending side
     rst   : BOOLEAN,    \* the peer has reset the connection
     raw   : Seq(Nat),   \* raw_buf: trunks read but not decoded
     rend  : BOOLEAN,    \* an end trunk follows them in raw_buf
     eof   : BOOLEAN,    \* read_buf is closed
     wshut : BOOLEAN]    \* tcp_socket_close was called

NewSocket(p) ==
    [proto |-> p, hello |-> FALSE, kbuf |-> <<>>, kend |-> FALSE,
     fin |-> FALSE, rst |-> FALSE, raw |-> <<>>, rend |-> FALSE,
     eof |-> FALSE, wshut |-> FALSE]

(* What epoll calls readable: data, a shutdown or an error.                 *)
Readable(s) == s.hello \/ s.kbuf # <<>> \/ s.kend \/ s.fin \/ s.rst

Results == {"data", "eof", "again", "error"}

Result(r, d, s) == [res |-> r, data |-> d, sock |-> s]

(* fd_try_read of a plain socket: one block, 0 at the end, -2 for EAGAIN.   *)
PlainTryRead(s) ==
    CASE s.kbuf # <<>> ->
            Result("data", <<Head(s.kbuf)>>, [s EXCEPT !.kbuf = Tail(@)])
      [] s.kbuf = <<>> /\ s.rst -> Result("error", <<>>, s)
      [] s.kbuf = <<>> /\ ~s.rst /\ s.fin -> Result("eof", <<>>, s)
      [] s.kbuf = <<>> /\ ~s.rst /\ ~s.fin -> Result("again", <<>>, s)

(* rbuffer_try_read empties the kernel buffer into raw_buf before it        *)
(* decodes anything.                                                        *)
Harvest(s) == [s EXCEPT !.raw = @ \o s.kbuf, !.rend = @ \/ s.kend,
                        !.kbuf = <<>>, !.kend = FALSE]

(* Decode the first trunk of raw_buf; an end trunk closes read_buf.  A FIN  *)
(* without an end trunk is an incomplete trunk, which reads as EAGAIN.      *)
DecodeTrunk(s) ==
    CASE s.raw # <<>> ->
            Result("data", <<Head(s.raw)>>, [s EXCEPT !.raw = Tail(@)])
      [] s.raw = <<>> /\ s.rend ->
            Result("eof", <<>>, [s EXCEPT !.rend = FALSE, !.eof = TRUE])
      [] s.raw = <<>> /\ ~s.rend -> Result("again", <<>>, s)

(* _vmess_tcp_socket_read_c with block = false.                             *)
VmessTryRead(s) ==
    CASE s.eof -> Result("eof", <<>>, s)
      [] ~s.eof /\ s.rst -> Result("error", <<>>, Harvest(s))
      [] ~s.eof /\ ~s.rst -> DecodeTrunk(Harvest(s))

TryRead(s) == IF s.proto = "vmess" THEN VmessTryRead(s) ELSE PlainTryRead(s)

(* The blocking reads: fd_read, and rbuffer_read, which decodes what raw_buf *)
(* holds before it asks the kernel for more.  A FIN inside a trunk makes     *)
(* rbuffer_read incomplete, hence the result "again" of a blocking read.    *)
VmessRead(s) ==
    CASE s.eof -> Result("eof", <<>>, s)
      [] ~s.eof /\ (s.raw # <<>> \/ s.rend) -> DecodeTrunk(s)
      [] ~s.eof /\ s.raw = <<>> /\ ~s.rend /\ s.rst /\ s.kbuf = <<>> /\ ~s.kend ->
            Result("error", <<>>, s)
      [] ~s.eof /\ s.raw = <<>> /\ ~s.rend /\ ~(s.rst /\ s.kbuf = <<>> /\ ~s.kend) ->
            DecodeTrunk(Harvest(s))

BlockingRead(s) == IF s.proto = "vmess" THEN VmessRead(s) ELSE PlainTryRead(s)

(* Otherwise a blocking read waits.                                         *)
ReadReturns(s) == \/ s.proto = "vmess" /\ (s.eof \/ s.raw # <<>> \/ s.rend)
                  \/ s.kbuf # <<>> \/ s.kend \/ s.fin \/ s.rst

(* Faulty variant: what was read behind the header is dropped.              *)
ReadHelloForgets(s, over) ==
    [s EXCEPT !.hello = FALSE, !.kbuf = SubSeq(@, over[1] + 1, Len(@)),
              !.kend = @ /\ ~over[2]]

(* The handshake reads a header of the stream together with what one read   *)
(* returned behind it: some blocks, and the end trunk if it was in reach.   *)
(* A VMess socket decodes through raw_buf and keeps them; a SOCKS socket    *)
(* decodes through a buffer of its own that it frees; native sockets have   *)
(* no handshake.                                                            *)
ReadHello(s, over) ==
    [s EXCEPT
       !.hello = FALSE,
       !.kbuf = SubSeq(@, over[1] + 1, Len(@)),
       !.kend = @ /\ ~over[2],
       !.raw = IF s.proto = "vmess" THEN SubSeq(s.kbuf, 1, over[1]) ELSE @,
       !.rend = @ \/ over[2]]

(* How many blocks the handshake's reads may take beyond the header, and    *)
(* whether an end trunk behind the last of them.                            *)
Overread(s) ==
    IF s.proto = "native" THEN {<<0, FALSE>>}
    ELSE {over \in (0 .. Len(s.kbuf)) \X BOOLEAN :
             over[2] => s.kend /\ over[1] = Len(s.kbuf)}

(* tcp_socket_close: an end trunk first when the protocol has one, then     *)
(* shutdown(SHUT_WR).                                                       *)
CloseWrite(s) == [s EXCEPT !.wshut = TRUE]
=============================================================================

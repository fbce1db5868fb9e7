---------------------------- MODULE VmessStream ----------------------------
(***************************************************************************)
(* One direction of an established VMess connection, byte by byte: the      *)
(* sending socket splits what it is given into trunks (proto/vmess/vmess.c),*)
(* TCP cuts the trunks anywhere, and the receiving socket puts them back    *)
(* together in raw_buf and hands out their bytes, keeping in read_buf what  *)
(* its caller had no room for (proto/vmess/tcp.c, proto/vmess/decoding.c,   *)
(* proto/buf.c).                                                            *)
(*                                                                          *)
(* A trunk on the wire is a length, a checksum and the data: each a cell,   *)
(* so that a cut inside it is a cut between cells.  Encryption is left out, *)
(* and a checksum always fits: TCP does not corrupt.                        *)
(***************************************************************************)
EXTENDS Naturals, Sequences

CONSTANTS
    TrunkMax,   \* AES_128_CFB_TRUNK: data bytes of one trunk
    RawSize,    \* what rbuffer_new is given
    MaxSend,    \* bound: bytes the sender writes
    MaxPiece    \* bound: bytes of one write or read

ASSUME SizeAssumption == TrunkMax \in Nat \ {0} /\ RawSize \in Nat
ASSUME BoundAssumption == MaxSend \in Nat /\ MaxPiece \in Nat

VARIABLES
    sent,   \* bytes given to the sender's write; they are 1, ..., sent
    ser,    \* the sender's serializer: bytes not yet on the wire
    out,    \* the sender: open, closed (with an end trunk) or broken off
    wire,   \* cells under way
    kern,   \* cells in the receiver's kernel buffer
    fin,    \* the FIN has arrived behind them
    raw,    \* raw_buf of the receiver
    size,   \* its allocated size
    left,   \* read_buf of the receiver
    eof,    \* read_buf is closed
    pc,     \* where the receiver's read is
    want,   \* the size of that read
    ret,    \* what the last read returned
    got     \* how many bytes reads have handed out, in ascending order

sender == <<sent, ser, out>>
network == <<wire, kern, fin>>
receiver == <<raw, size, left, eof, pc, want, ret, got>>
vars == <<sent, ser, out, wire, kern, fin, raw, size, left, eof, pc, want, ret, got>>

Cell(k, v) == [kind |-> k, val |-> v]
Cells == [kind : {"len", "sum", "byte"}, val : Nat]

Loc == {"idle", "pull", "decode", "fetch", "parse"}

(* raw_buf holds no more than was allocated.                                *)
TypeOK ==
    /\ sent \in Nat
    /\ ser \in Seq(Nat)
    /\ out \in {"open", "closed", "broken"}
    /\ wire \in Seq(Cells) /\ kern \in Seq(Cells)
    /\ fin \in BOOLEAN /\ eof \in BOOLEAN
    /\ size \in Nat \ {0}
    /\ raw \in Seq(Cells) /\ Len(raw) <= size
    /\ left \in Seq(Nat)
    /\ pc \in Loc
    /\ want \in Nat
    /\ ret \in {"none", "data", "eof", "again"}
    /\ got \in Seq(Nat)

(* rbuffer_new: doubling it must make it grow.                              *)
FirstSize(n) == IF n > 1 THEN n ELSE 1

Init ==
    /\ sent = 0 /\ ser = <<>> /\ out = "open"
    /\ wire = <<>> /\ kern = <<>> /\ fin = FALSE
    /\ raw = <<>> /\ size = FirstSize(RawSize)
    /\ left = <<>> /\ eof = FALSE
    /\ pc = "idle" /\ want = 0 /\ ret = "none" /\ got = <<>>

Smaller(m, n) == IF m < n THEN m ELSE n
Take(s, n) == SubSeq(s, 1, n)
Drop(s, n) == SubSeq(s, n + 1, Len(s))

-----------------------------------------------------------------------------
(* The sender.                                                              *)

(* vmess_serial_write: n more bytes.                                        *)
Write(n) ==
    /\ out = "open" /\ ser = <<>>
    /\ sent + n <= MaxSend
    /\ ser' = [i \in 1 .. n |-> sent + i]
    /\ sent' = sent + n
    /\ UNCHANGED <<out, network, receiver>>

(* A trunk's length covers its checksum; length 0 is the end trunk.         *)
Trunk(d) == <<Cell("len", Len(d) + 1), Cell("sum", 0)>>
            \o [i \in 1 .. Len(d) |-> Cell("byte", d[i])]
EndTrunk == <<Cell("len", 0)>>

(* vmess_serial_digest and fd_write, once round the loop of the write.      *)
Digest ==
    LET n == Smaller(TrunkMax, Len(ser)) IN
    /\ out = "open" /\ ser # <<>>
    /\ wire' = wire \o Trunk(Take(ser, n))
    /\ ser' = Drop(ser, n)
    /\ UNCHANGED <<sent, out, kern, fin, receiver>>

(* tcp_socket_close.                                                        *)
Close ==
    /\ out = "open" /\ ser = <<>>
    /\ wire' = wire \o EndTrunk
    /\ out' = "closed"
    /\ UNCHANGED <<sent, ser, kern, fin, receiver>>

(* The sending program dies, perhaps with its host: there is no end trunk   *)
(* and the last trunk may be cut short.                                     *)
Break ==
    /\ out = "open"
    /\ out' = "broken"
    /\ \E n \in 0 .. Len(wire) : wire' = Take(wire, n)
    /\ UNCHANGED <<sent, ser, kern, fin, receiver>>

(* TCP delivers some cells, and the FIN after the last of them.             *)
Transfer(n) ==
    /\ n \in 1 .. Len(wire)
    /\ kern' = kern \o Take(wire, n)
    /\ wire' = Drop(wire, n)
    /\ UNCHANGED <<sender, fin, receiver>>

TransferFin ==
    /\ out # "open" /\ wire = <<>> /\ ~fin
    /\ fin' = TRUE
    /\ UNCHANGED <<sender, wire, kern, receiver>>

-----------------------------------------------------------------------------
(* The receiver: tcp_socket_try_read and tcp_socket_read of n bytes.  A     *)
(* closed read_buf is an end of file, bytes left in it are handed out       *)
(* first, and only then is the descriptor read.                             *)

Return(r) == ret' = r /\ pc' = "idle"

ReadEof(n) ==
    /\ pc = "idle" /\ eof
    /\ Return("eof")
    /\ want' = n
    /\ UNCHANGED <<sender, network, raw, size, left, eof, got>>

ReadLeft(n) ==
    LET m == Smaller(n, Len(left)) IN
    /\ pc = "idle" /\ ~eof /\ left # <<>>
    /\ got' = got \o Take(left, m)
    /\ left' = Drop(left, m)
    /\ Return("data")
    /\ want' = n
    /\ UNCHANGED <<sender, network, raw, size, eof>>

(* Faulty variant: bytes left in read_buf are overtaken.                    *)
ReadCallOvertakes(n, block) ==
    /\ pc = "idle" /\ ~eof
    /\ pc' = IF ~block THEN "pull" ELSE IF raw = <<>> THEN "fetch" ELSE "parse"
    /\ want' = n
    /\ UNCHANGED <<sender, network, raw, size, left, eof, ret, got>>
(* rbuffer_try_read first empties the descriptor; rbuffer_read first        *)
(* decodes what raw_buf already holds.                                      *)
ReadCall(n, block) ==
    /\ pc = "idle" /\ ~eof /\ left = <<>>
    /\ pc' = IF ~block THEN "pull" ELSE IF raw = <<>> THEN "fetch" ELSE "parse"
    /\ want' = n
    /\ UNCHANGED <<sender, network, raw, size, left, eof, ret, got>>

(* Faulty variant: a full raw_buf is not enlarged.                          *)
ExpandedLate == IF Len(raw) > size THEN 2 * size ELSE size

(* _rbuffer_expand when raw_buf is full, then one read into the rest.       *)
Expanded == IF Len(raw) >= size THEN 2 * size ELSE size

(* Faulty variant: the read is given the whole size.                        *)
RoomWhole == Expanded

Room == Expanded - Len(raw)

Receive(n) ==
    /\ raw' = raw \o Take(kern, n)
    /\ kern' = Drop(kern, n)
    /\ size' = Expanded
    /\ UNCHANGED <<sender, wire, fin, left, eof, want, ret, got>>

(* rbuffer_try_read: read until EAGAIN or the end of file.                  *)
Pull ==
    /\ pc = "pull"
    /\ kern # <<>>
    /\ Receive(Smaller(Room, Len(kern)))
    /\ UNCHANGED pc

PullDone ==
    /\ pc = "pull"
    /\ kern = <<>>
    /\ size' = Expanded
    /\ pc' = "decode"
    /\ UNCHANGED <<sender, network, raw, left, eof, want, ret, got>>

(* rbuffer_read: one blocking read.                                         *)
Fetch ==
    /\ pc = "fetch"
    /\ kern # <<>>
    /\ Receive(Smaller(Room, Len(kern)))
    /\ pc' = "parse"

(* Faulty variant: a lost connection is reported as the end of the stream.  *)
FetchEofAsEnd ==
    /\ pc = "fetch"
    /\ kern = <<>> /\ fin
    /\ size' = Expanded
    /\ Return("eof")
    /\ UNCHANGED <<sender, network, raw, left, eof, want, got>>

FetchEof ==
    /\ pc = "fetch"
    /\ kern = <<>> /\ fin
    /\ size' = Expanded
    /\ Return("again")
    /\ UNCHANGED <<sender, network, raw, left, eof, want, got>>

(* vmess_decode_data: the whole first trunk is in raw_buf.                  *)
Complete == raw # <<>> /\ Len(raw) >= 1 + raw[1].val

(* The data bytes of that trunk, and raw_buf without it.                    *)
TrunkData == [i \in 1 .. raw[1].val - 1 |-> raw[i + 2].val]
Consume == raw' = Drop(raw, 1 + raw[1].val)

Parsing == pc \in {"decode", "parse"}

Incomplete ==
    /\ Parsing /\ ~Complete
    /\ IF pc = "decode" THEN Return("again") ELSE pc' = "fetch" /\ UNCHANGED ret
    /\ UNCHANGED <<sender, network, raw, size, left, eof, want, got>>

(* A length of 0 and a trunk without data both close read_buf.              *)
ParseEnd ==
    /\ Parsing /\ Complete
    /\ raw[1].val <= 1
    /\ Consume
    /\ eof' = TRUE
    /\ Return("eof")
    /\ UNCHANGED <<sender, network, size, left, want, got>>

ParseData ==
    /\ Parsing /\ Complete
    /\ raw[1].val > 1
    /\ Consume
    /\ got' = got \o Take(TrunkData, Smaller(want, Len(TrunkData)))
    /\ left' = Drop(TrunkData, Smaller(want, Len(TrunkData)))
    /\ Return("data")
    /\ UNCHANGED <<sender, network, size, eof, want>>

-----------------------------------------------------------------------------
Sender == (\E n \in 1 .. MaxPiece : Write(n)) \/ Digest \/ Close \/ Break
Network == (\E n \in 1 .. Len(wire) : Transfer(n)) \/ TransferFin
Call == \E n \in 1 .. MaxPiece :
           ReadEof(n) \/ ReadLeft(n) \/ \E b \in BOOLEAN : ReadCall(n, b)
Continue == \/ Pull \/ PullDone \/ Fetch \/ FetchEof
            \/ Incomplete \/ ParseEnd \/ ParseData

Next == Sender \/ Network \/ Call \/ Continue

Spec == Init /\ [][Next]_vars

(* What is written is put on the wire and delivered, and somebody reads.    *)
Fairness == /\ WF_vars(Digest) /\ WF_vars(Network)
            /\ WF_vars(Call) /\ WF_vars(Continue)

FairSpec == Spec /\ Fairness

-----------------------------------------------------------------------------
(* Properties.                                                              *)

(* However the trunks were cut and whatever sizes the reads asked for, the  *)
(* bytes handed out are those written, in order, none twice.                *)
InOrder == Len(got) <= sent /\ \A i \in 1 .. Len(got) : got[i] = i

(* A read reports the end of file only after the sender closed the stream   *)
(* properly and every byte was handed out; a broken stream never ends.      *)
EofMeansAll == ret = "eof" => out = "closed" /\ Len(got) = sent

(* Every byte of a stream and its end are read in the end: no trunk stays   *)
(* behind in a buffer while the caller keeps reading.                       *)
EventuallyRead ==
    /\ \A n \in 1 .. MaxSend : sent >= n ~> Len(got) >= n \/ out = "broken"
    /\ out = "closed" ~> ret = "eof"
=============================================================================

------------------------- MODULE VmessStreamProofs -------------------------
(***************************************************************************)
(* However TCP cuts the trunks of a VMess stream and whatever sizes the     *)
(* reads ask for, for every trunk size, first buffer size and bound: the    *)
(* bytes handed out are those written, in order, and the end of file is     *)
(* reported only behind the last of them.                                   *)
(***************************************************************************)
EXTENDS VmessStream, SequenceTheorems, TLAPS

-----------------------------------------------------------------------------
(* The inductive invariant.                                                 *)

(* The cells between the sender and the receiver's decoder, in order.       *)
Stream == (raw \o kern) \o wire

(* The positions at which a trunk starts.                                   *)
Heads(s) == {i \in 1 .. Len(s) : s[i].kind = "len"}

(* The number of the byte before the trunk at i, when b is the number of    *)
(* the byte before s: a trunk that another one follows ends in a byte.      *)
Before(s, i, b) == IF i = 1 THEN b ELSE s[i - 1].val

(* A sequence of trunks, the last perhaps cut short, whose bytes are the    *)
(* numbers after b, in order.                                               *)
Trunks(s, b) ==
    /\ s # <<>> => 1 \in Heads(s)
    /\ \A i \in Heads(s) :
          /\ s[i].val # 1
          /\ i + s[i].val < Len(s) => i + s[i].val + 1 \in Heads(s)
          /\ \A j \in 2 .. s[i].val :
                i + j <= Len(s) => s[i + j].val = Before(s, i, b) + (j - 1)

(* None of those numbers is greater than n.                                 *)
AtMost(s, b, n) ==
    /\ b <= n
    /\ \A i \in Heads(s) : \A j \in 2 .. s[i].val :
          i + j <= Len(s) => s[i + j].val <= n

(* No end trunk but perhaps the last cell.                                  *)
EndIsLast(s) == \A i \in Heads(s) : s[i].val = 0 => i = Len(s)
NoEnd(s) == \A i \in Heads(s) : s[i].val # 0

(* No trunk is cut short.                                                   *)
Whole(s) == \A i \in Heads(s) : i + s[i].val <= Len(s)

Handed == Len(got) + Len(left)
Put == sent - Len(ser)

(* The numbers from n + 1 on.                                               *)
Follow(d, n) == \A j \in 1 .. Len(d) : d[j] = n + j

(* The bytes at the two ends.                                               *)
Numbered ==
    /\ Put \in Nat
    /\ Follow(got, 0) /\ Follow(left, Len(got)) /\ Follow(ser, Put)

(* What is between them, up to byte p, by the state o of the sender;        *)
(* "ended" says that the receiver has taken the end trunk.                  *)
OpenStream(s, b, p) == NoEnd(s) /\ Whole(s) /\ Before(s, Len(s) + 1, b) = p
ClosedStream(s, b, p) == /\ EndIsLast(s) /\ Whole(s)
                         /\ s # <<>> /\ s[Len(s)] = Cell("len", 0)
                         /\ Before(s, Len(s), b) = p

Carries(s, b, p, o) ==
    /\ Trunks(s, b) /\ AtMost(s, b, p)
    /\ o = "open" => OpenStream(s, b, p)
    /\ o = "broken" => NoEnd(s)
    /\ o = "closed" => ClosedStream(s, b, p)
    /\ o = "ended" => s = <<>> /\ b = p

Between == /\ Carries(Stream, Handed, Put, IF eof THEN "ended" ELSE out)
           /\ out = "closed" => ser = <<>>

(* When read_buf is closed nothing is left in it; a descriptor is read only *)
(* when it is empty.                                                        *)
Drained ==
    /\ eof => out = "closed" /\ left = <<>> /\ pc = "idle"
    /\ pc # "idle" => left = <<>>
    /\ ret = "eof" => eof

IInv == TypeOK /\ Numbered /\ Between /\ Drained
-----------------------------------------------------------------------------
(* Sequences taken apart and put together.                                  *)

(* What is at the places of the first n elements, and of the others.        *)
LEMMA TakeProperties ==
  ASSUME NEW S, NEW s \in Seq(S), NEW n \in 0 .. Len(s)
  PROVE  /\ Take(s, n) \in Seq(S) /\ Len(Take(s, n)) = n
         /\ \A i \in 1 .. n : Take(s, n)[i] = s[i]
<1>1. \A i \in 1 .. n : s[i] \in S
  BY ElementOfSeq
<1>2. Len(s) \in Nat
  BY LenProperties
<1> QED
  BY <1>1, <1>2, SubSeqProperties DEF Take

LEMMA DropProperties ==
  ASSUME NEW S, NEW s \in Seq(S), NEW n \in 0 .. Len(s)
  PROVE  /\ Drop(s, n) \in Seq(S) /\ Len(Drop(s, n)) = Len(s) - n
         /\ \A i \in 1 .. Len(s) - n : Drop(s, n)[i] = s[n + i]
<1>1. \A i \in n + 1 .. Len(s) : s[i] \in S
  BY ElementOfSeq
<1>2. Len(s) \in Nat
  BY LenProperties
<1> QED
  BY <1>1, <1>2, SubSeqProperties DEF Drop

(* The two parts make up the sequence.                                      *)
LEMMA TakeThenDrop ==
  ASSUME NEW S, NEW s \in Seq(S), NEW n \in 0 .. Len(s)
  PROVE  Take(s, n) \o Drop(s, n) = s
<1>1. Len(s) \in Nat
  BY LenProperties
<1>2. /\ Take(s, n) \in Seq(S) /\ Len(Take(s, n)) = n
      /\ \A i \in 1 .. n : Take(s, n)[i] = s[i]
  BY TakeProperties
<1>3. /\ Drop(s, n) \in Seq(S) /\ Len(Drop(s, n)) = Len(s) - n
      /\ \A i \in 1 .. Len(s) - n : Drop(s, n)[i] = s[n + i]
  BY DropProperties
<1> DEFINE t == Take(s, n)
           u == Drop(s, n)
<1>4. /\ t \o u \in Seq(S) /\ Len(t \o u) = Len(t) + Len(u)
      /\ \A i \in 1 .. Len(t) + Len(u) :
            (t \o u)[i] = IF i <= Len(t) THEN t[i] ELSE u[i - Len(t)]
  BY <1>2, <1>3, ConcatProperties
<1> HIDE DEF t, u
<1>5. Len(t) = n /\ Len(u) = Len(s) - n /\ Len(t \o u) = Len(s)
  BY <1>1, <1>2, <1>3, <1>4 DEF t, u
<1>6. ASSUME NEW i \in 1 .. Len(s) PROVE (t \o u)[i] = s[i]
  <2>1. CASE i <= n
    BY <1>1, <1>2, <1>4, <1>5, <2>1 DEF t
  <2>2. CASE i > n
    <3>1. (t \o u)[i] = u[i - n] /\ i - n \in 1 .. Len(s) - n
      BY <1>1, <1>4, <1>5, <2>2
    <3>2. u[i - n] = s[n + (i - n)] /\ n + (i - n) = i
      BY <1>1, <1>3, <3>1 DEF u
    <3> QED
      BY <3>1, <3>2
  <2>3. i <= n \/ i > n
    BY <1>1
  <2> QED
    BY <2>1, <2>2, <2>3
<1>7. t \o u = s
  BY <1>4, <1>5, <1>6, SeqEqual
<1> QED
  BY <1>7 DEF t, u

(* A cut of the first of two sequences, and of the second.                  *)
LEMMA DropFirst ==
  ASSUME NEW S, NEW s \in Seq(S), NEW t \in Seq(S), NEW n \in 0 .. Len(s)
  PROVE  Drop(s, n) \o t = Drop(s \o t, n)
<1>1. Len(s) \in Nat /\ Len(t) \in Nat
  BY LenProperties
<1>2. s \o t \in Seq(S) /\ Len(s \o t) = Len(s) + Len(t)
      /\ \A i \in 1 .. Len(s) + Len(t) :
            (s \o t)[i] = IF i <= Len(s) THEN s[i] ELSE t[i - Len(s)]
  BY ConcatProperties
<1>3. /\ Drop(s, n) \in Seq(S) /\ Len(Drop(s, n)) = Len(s) - n
      /\ \A i \in 1 .. Len(s) - n : Drop(s, n)[i] = s[n + i]
  BY DropProperties
<1> DEFINE u == Drop(s, n)
           v == s \o t
           w == Drop(v, n)
<1>4. n \in 0 .. Len(v) /\ v \in Seq(S)
  BY <1>1, <1>2
<1>5. /\ w \in Seq(S) /\ Len(w) = Len(v) - n
      /\ \A i \in 1 .. Len(v) - n : w[i] = v[n + i]
  BY <1>4, DropProperties
<1>6. /\ u \o t \in Seq(S)
      /\ Len(u \o t) = Len(u) + Len(t)
      /\ \A i \in 1 .. Len(u) + Len(t) :
            (u \o t)[i] = IF i <= Len(u) THEN u[i] ELSE t[i - Len(u)]
  BY <1>3, ConcatProperties
<1>7. /\ Len(u) = Len(s) - n
      /\ \A i \in 1 .. Len(s) - n : u[i] = s[n + i]
      /\ Len(v) = Len(s) + Len(t)
      /\ \A i \in 1 .. Len(s) + Len(t) : v[i] = IF i <= Len(s) THEN s[i] ELSE t[i - Len(s)]
  BY <1>2, <1>3
<1> HIDE DEF u, v, w
<1>8. Len(u \o t) = Len(w)
  BY <1>1, <1>5, <1>6, <1>7
<1>9. ASSUME NEW i \in 1 .. Len(w)
      PROVE  (u \o t)[i] = w[i]
  <2>0. Len(w) = Len(v) - n /\ Len(v) = Len(s) + Len(t) /\ Len(u) = Len(s) - n
    BY <1>5, <1>7
  <2>6. i \in 1 .. (Len(s) + Len(t)) - n
    BY <2>0
  <2>4. i \in Nat /\ i \in 1 .. Len(v) - n /\ n + i \in 1 .. Len(v)
    BY <1>1, <2>0, <2>6
  <2>5. i \in 1 .. Len(u) + Len(t)
    BY <1>1, <2>0, <2>6
  <2>1. i \in Nat /\ n + i \in 1 .. Len(v) /\ w[i] = v[n + i] /\ i \in 1 .. Len(u) + Len(t)
    BY <1>5, <2>4, <2>5
  <2>2. CASE i <= Len(u)
    <3>1. (u \o t)[i] = u[i] /\ u[i] = s[n + i]
      BY <1>1, <1>6, <1>7, <2>1, <2>2
    <3>2. v[n + i] = s[n + i]
      BY <1>1, <1>7, <2>1, <2>2
    <3> QED
      BY <2>1, <3>1, <3>2
  <2>3. CASE i > Len(u)
    <3>1. (u \o t)[i] = t[i - Len(u)]
      BY <1>1, <1>6, <1>7, <2>1, <2>3, SMTT(30)
    <3>2. v[n + i] = t[n + i - Len(s)] /\ n + i - Len(s) = i - Len(u)
      BY <1>1, <1>7, <2>1, <2>3, SMTT(30)
    <3> QED
      BY <2>1, <3>1, <3>2
  <2> QED
    BY <1>1, <1>7, <2>1, <2>2, <2>3
<1>10. u \o t = w
  BY <1>5, <1>6, <1>8, <1>9, SeqEqual
<1> QED
  BY <1>10 DEF u, v, w

LEMMA TakeSecond ==
  ASSUME NEW S, NEW s \in Seq(S), NEW t \in Seq(S), NEW n \in 0 .. Len(t)
  PROVE  s \o Take(t, n) = Take(s \o t, Len(s) + n)
<1>1. Len(s) \in Nat /\ Len(t) \in Nat
  BY LenProperties
<1>2. s \o t \in Seq(S) /\ Len(s \o t) = Len(s) + Len(t)
      /\ \A i \in 1 .. Len(s) + Len(t) :
            (s \o t)[i] = IF i <= Len(s) THEN s[i] ELSE t[i - Len(s)]
  BY ConcatProperties
<1>3. /\ Take(t, n) \in Seq(S) /\ Len(Take(t, n)) = n
      /\ \A i \in 1 .. n : Take(t, n)[i] = t[i]
  BY TakeProperties
<1> DEFINE u == Take(t, n)
           v == s \o t
           w == Take(v, Len(s) + n)
<1>4. Len(s) + n \in 0 .. Len(v) /\ v \in Seq(S)
  BY <1>1, <1>2
<1>5. /\ w \in Seq(S) /\ Len(w) = Len(s) + n
      /\ \A i \in 1 .. Len(s) + n : w[i] = v[i]
  BY <1>4, TakeProperties
<1>6. /\ s \o u \in Seq(S)
      /\ Len(s \o u) = Len(s) + Len(u)
      /\ \A i \in 1 .. Len(s) + Len(u) :
            (s \o u)[i] = IF i <= Len(s) THEN s[i] ELSE u[i - Len(s)]
  BY <1>3, ConcatProperties
<1>7. /\ Len(u) = n /\ \A i \in 1 .. n : u[i] = t[i]
      /\ Len(v) = Len(s) + Len(t)
      /\ \A i \in 1 .. Len(s) + Len(t) : v[i] = IF i <= Len(s) THEN s[i] ELSE t[i - Len(s)]
  BY <1>2, <1>3
<1> HIDE DEF u, v, w
<1>8. ASSUME NEW i \in 1 .. Len(w)
      PROVE  (s \o u)[i] = w[i]
  BY <1>1, <1>5, <1>6, <1>7, SMTT(30)
<1>9. s \o u = w
  BY <1>5, <1>6, <1>7, <1>8, SeqEqual
<1> QED
  BY <1>9 DEF u, v, w

(* Three sequences put together in either order.                            *)
LEMMA Associative ==
  ASSUME NEW S, NEW s \in Seq(S), NEW t \in Seq(S), NEW u \in Seq(S)
  PROVE  s \o (t \o u) = (s \o t) \o u
BY ConcatAssociative

(* Moving the front of the second sequence to the end of the first.         *)
LEMMA Moved ==
  ASSUME NEW S, NEW s \in Seq(S), NEW t \in Seq(S), NEW n \in 0 .. Len(t)
  PROVE  (s \o Take(t, n)) \o Drop(t, n) = s \o t
<1>1. Take(t, n) \in Seq(S) /\ Drop(t, n) \in Seq(S)
  BY TakeProperties, DropProperties
<1>2. \A u, w \in Seq(S) : (s \o u) \o w = s \o (u \o w)
  BY Associative
<1>3. Take(t, n) \o Drop(t, n) = t
  BY TakeThenDrop
<1> DEFINE u == Take(t, n)
           w == Drop(t, n)
<1>4. u \in Seq(S) /\ w \in Seq(S) /\ u \o w = t
  BY <1>1, <1>3
<1> HIDE DEF u, w
<1>5. (s \o u) \o w = s \o t
  BY <1>2, <1>4
<1> QED
  BY <1>5 DEF u, w

-----------------------------------------------------------------------------
(* What the network, the decoder and the sender do to a stream of trunks.   *)

(* The numbers in a cell are natural numbers.                               *)
LEMMA CellValues ==
  ASSUME NEW s \in Seq(Cells)
  PROVE  /\ Len(s) \in Nat
         /\ \A i \in 1 .. Len(s) : s[i] \in Cells /\ s[i].val \in Nat
         /\ \A i \in Heads(s) : i \in 1 .. Len(s) /\ s[i].val \in Nat /\ s[i].kind = "len"
<1>1. Len(s) \in Nat /\ \A i \in 1 .. Len(s) : s[i] \in Cells
  BY LenProperties, ElementOfSeq
<1> QED
  BY <1>1 DEF Cells, Heads

(* A stream that breaks off keeps its trunks, but for the cut in the last.  *)
LEMMA TakeTrunks ==
  ASSUME NEW s \in Seq(Cells), NEW n \in 0 .. Len(s), NEW b \in Nat, NEW m \in Nat,
         Trunks(s, b), AtMost(s, b, m), NoEnd(s)
  PROVE  Trunks(Take(s, n), b) /\ AtMost(Take(s, n), b, m) /\ NoEnd(Take(s, n))
<1> DEFINE t == Take(s, n)
<1>1. /\ t \in Seq(Cells) /\ Len(t) = n /\ Len(s) \in Nat
      /\ \A i \in 1 .. n : t[i] = s[i]
  BY TakeProperties, LenProperties
<1>2. \A i \in 1 .. Len(s) : s[i].val \in Nat
  BY CellValues
<1> HIDE DEF t
<1>3. \A i \in 1 .. n : i \in Heads(t) <=> i \in Heads(s)
  BY <1>1 DEF Heads
<1>4. \A i \in Heads(t) : i \in 1 .. n /\ i \in Heads(s) /\ t[i].val = s[i].val
                          /\ Before(t, i, b) = Before(s, i, b) /\ t[i].val \in Nat
  BY <1>1, <1>2, <1>3 DEF Heads, Before
<1>5. t # <<>> => n # 0 /\ s # <<>>
  BY <1>1, EmptySeq
<1>6. t # <<>> => 1 \in Heads(t)
  BY <1>1, <1>3, <1>5 DEF Trunks
<1>7. ASSUME NEW i \in Heads(t)
      PROVE  /\ t[i].val # 1 /\ t[i].val # 0
             /\ i + t[i].val < Len(t) => i + t[i].val + 1 \in Heads(t)
             /\ \A j \in 2 .. t[i].val :
                   i + j <= Len(t) => /\ t[i + j].val = Before(t, i, b) + (j - 1)
                                      /\ t[i + j].val <= m
  <2>1. t[i].val # 1 /\ t[i].val # 0
    BY <1>4 DEF Trunks, NoEnd
  <2>2. i + t[i].val < Len(t) => i + t[i].val + 1 \in Heads(t)
    <3> SUFFICES ASSUME i + t[i].val < n PROVE i + t[i].val + 1 \in Heads(t)
      BY <1>1
    <3>1. i + t[i].val + 1 \in Heads(s) /\ i + t[i].val + 1 \in 1 .. n
      BY <1>1, <1>4 DEF Trunks
    <3> QED
      BY <1>3, <3>1
  <2>3. ASSUME NEW j \in 2 .. t[i].val, i + j <= Len(t)
        PROVE  t[i + j].val = Before(t, i, b) + (j - 1) /\ t[i + j].val <= m
    <3>1. i + j \in 1 .. n /\ i + j <= Len(s) /\ j \in 2 .. s[i].val
      BY <1>1, <1>4, <2>3
    <3>2. s[i + j].val = Before(s, i, b) + (j - 1) /\ s[i + j].val <= m
      BY <1>4, <3>1 DEF Trunks, AtMost
    <3> QED
      BY <1>1, <1>4, <3>1, <3>2
  <2> QED
    BY <2>1, <2>2, <2>3
<1>8. Trunks(t, b) /\ AtMost(t, b, m) /\ NoEnd(t)
  BY <1>6, <1>7 DEF Trunks, AtMost, NoEnd
<1> QED
  BY <1>8 DEF t

(* t is s without its first n cells.                                        *)
Rest(t, s, n) == /\ Len(s) = Len(t) + n
                 /\ \A i \in 1 .. Len(t) : t[i] = s[i + n]

Sum(i, j, k) == i + j = k

(* The decoder takes the first trunk, v cells behind its length, w of them  *)
(* data: these are the next w bytes, and the rest is a stream that goes on  *)
(* behind them.                                                             *)
LEMMA DataCarries ==
  ASSUME NEW s \in Seq(Cells), NEW b \in Nat, NEW m \in Nat, NEW o,
         o # "ended", Carries(s, b, m, o),
         NEW v \in Nat, s # <<>>, s[1].val = v, v > 1,
         NEW t \in Seq(Cells), NEW n \in Nat, Sum(1, v, n), Rest(t, s, n),
         NEW w \in Nat, Sum(1, w, v), NEW c \in Nat, Sum(b, w, c)
  PROVE  /\ \A j \in 1 .. w : s[1 + (j + 1)].val = b + j
         /\ Carries(t, c, m, o)
<1>1. n = 1 + v /\ w = v - 1 /\ c = b + (v - 1) /\ c > 0
  BY DEF Sum
<1>2. Trunks(s, b) /\ AtMost(s, b, m)
  BY DEF Carries
<1>3. Len(s) \in Nat /\ Len(t) \in Nat /\ Len(s) = Len(t) + n
  BY LenProperties DEF Rest
<1>4. \A i \in 1 .. Len(t) : t[i] = s[i + n]
  BY DEF Rest
<1>5. /\ \A i \in 1 .. Len(s) : s[i].val \in Nat
      /\ \A i \in Heads(s) : i \in 1 .. Len(s) /\ s[i].kind = "len"
  BY CellValues
<1>6. 1 \in Heads(s)
  BY <1>2 DEF Trunks
<1>7. \A j \in 2 .. v : s[1 + j].val = b + (j - 1) /\ s[1 + j].val <= m
  <2>1. ASSUME NEW j \in 2 .. v
        PROVE  s[1 + j].val = b + (j - 1) /\ s[1 + j].val <= m
    <3>1. 1 + j <= Len(s) /\ j \in 2 .. s[1].val
      BY <1>1, <1>3
    <3>2. /\ s[1 + j].val = Before(s, 1, b) + (j - 1)
          /\ s[1 + j].val <= m
      BY <1>2, <1>6, <3>1 DEF Trunks, AtMost
    <3> QED
      BY <3>2 DEF Before
  <2> QED
    BY <2>1
<1>8. s[1 + v].val = c /\ c <= m
  <2>1. v \in 2 .. v
    OBVIOUS
  <2> QED
    BY <1>1, <1>7, <2>1
<1>9. \A i \in 1 .. Len(t) : i \in Heads(t) <=> i + n \in Heads(s)
  BY <1>3, <1>4 DEF Heads
<1>10. \A i \in 1 .. Len(t) + 1 : Before(t, i, c) = Before(s, i + n, b)
  <2>1. ASSUME NEW i \in 1 .. Len(t) + 1
        PROVE  Before(t, i, c) = Before(s, i + n, b)
    <3>1. i + n # 1 /\ (i + n) - 1 = i + v
      BY <1>1, <1>3
    <3>2. Before(s, i + n, b) = s[i + v].val
      BY <3>1 DEF Before
    <3>3. CASE i = 1
      BY <1>8, <3>2, <3>3 DEF Before
    <3>4. CASE i # 1
      <4>1. i - 1 \in 1 .. Len(t) /\ (i - 1) + n = i + v
        <5>1. i - 1 \in 1 .. Len(t)
          BY <1>3, <3>4
        <5>2. (i - 1) + n = i + v
          BY <1>1
        <5> QED
          BY <5>1, <5>2
      <4>2. t[i - 1] = s[i + v]
        BY <1>4, <4>1
      <4> QED
        BY <3>2, <3>4, <4>2 DEF Before
    <3> QED
      BY <3>3, <3>4
  <2> QED
    BY <2>1
<1>11. \A i \in Heads(t) : /\ i \in 1 .. Len(t) /\ i + n \in Heads(s)
                          /\ t[i].val = s[i + n].val /\ t[i].val \in Nat
                          /\ Before(t, i, c) = Before(s, i + n, b)
  <2>1. ASSUME NEW i \in Heads(t)
        PROVE  /\ i \in 1 .. Len(t) /\ i + n \in Heads(s)
               /\ t[i].val = s[i + n].val /\ t[i].val \in Nat
    <3>1. i \in 1 .. Len(t)
      BY DEF Heads
    <3>2. i + n \in Heads(s)
      BY <1>9, <3>1
    <3>3. i + n \in 1 .. Len(s)
      BY <1>3, <3>1
    <3>4. s[i + n].val \in Nat
      BY <1>5, <3>3
    <3>5. t[i].val = s[i + n].val
      BY <1>4, <3>1
    <3> QED
      BY <3>1, <3>2, <3>4, <3>5
  <2>2. ASSUME NEW i \in Heads(t)
        PROVE  Before(t, i, c) = Before(s, i + n, b)
    <3>1. i \in 1 .. Len(t) + 1
      BY <1>3, <2>1
    <3> QED
      BY <1>10, <3>1
  <2> QED
    BY <2>1, <2>2
<1>12. Trunks(t, c) /\ AtMost(t, c, m)
  <2>1. t # <<>> => 1 \in Heads(t)
    <3> SUFFICES ASSUME t # <<>> PROVE 1 \in Heads(t)
      OBVIOUS
    <3>1. Len(t) >= 1 /\ 1 \in 1 .. Len(t)
      BY <1>3, EmptySeq
    <3>2. 1 + v < Len(s)
      BY <1>1, <1>3, <3>1
    <3>3. 1 + v + 1 \in Heads(s)
      BY <1>2, <1>6, <3>2 DEF Trunks
    <3>4. 1 + v + 1 = 1 + n
      BY <1>1
    <3> QED
      BY <1>9, <3>1, <3>3, <3>4
  <2>2. ASSUME NEW i \in Heads(t)
        PROVE  /\ t[i].val # 1
               /\ i + t[i].val < Len(t) => i + t[i].val + 1 \in Heads(t)
               /\ \A j \in 2 .. t[i].val :
                     i + j <= Len(t) => /\ t[i + j].val = Before(t, i, c) + (j - 1)
                                        /\ t[i + j].val <= m
    <3>1. /\ i \in 1 .. Len(t) /\ i + n \in Heads(s)
          /\ t[i].val = s[i + n].val /\ t[i].val \in Nat
          /\ Before(t, i, c) = Before(s, i + n, b)
      BY <1>11
    <3>2. PICK h \in Nat : t[i].val = h
      BY <3>1
    <3>3. PICK k \in Nat : k = i + n
      BY <1>3, <3>1
    <3>4. k \in Heads(s) /\ s[k].val = h /\ Before(t, i, c) = Before(s, k, b)
      BY <3>1, <3>2, <3>3
    <3>5. i \in Nat /\ i >= 1
      BY <1>3, <3>1
    <3>6. h # 1
      BY <1>2, <3>4 DEF Trunks
    <3>7. i + h < Len(t) => i + h + 1 \in Heads(t)
      <4> SUFFICES ASSUME i + h < Len(t) PROVE i + h + 1 \in Heads(t)
        OBVIOUS
      <4>1. k + h < Len(s)
        BY <1>3, <3>3, <3>5
      <4>2. k + h + 1 \in Heads(s)
        BY <1>2, <3>4, <4>1 DEF Trunks
      <4>3. k + h + 1 = (i + h + 1) + n
        BY <3>3, <3>5
      <4>4. i + h + 1 \in 1 .. Len(t)
        BY <1>3, <3>5
      <4> QED
        BY <1>9, <4>2, <4>3, <4>4
    <3>8. ASSUME NEW j \in 2 .. h, i + j <= Len(t)
          PROVE  t[i + j].val = Before(t, i, c) + (j - 1) /\ t[i + j].val <= m
      <4>1. k + j <= Len(s)
        BY <1>3, <3>3, <3>5, <3>8
      <4>2. s[k + j].val = Before(s, k, b) + (j - 1) /\ s[k + j].val <= m
        BY <1>2, <3>4, <4>1 DEF Trunks, AtMost
      <4>3. i + j \in 1 .. Len(t)
        BY <1>3, <3>5, <3>8
      <4>4. t[i + j] = s[(i + j) + n]
        BY <1>4, <4>3
      <4>5. (i + j) + n = k + j
        BY <3>3, <3>5
      <4> QED
        BY <3>4, <4>2, <4>4, <4>5
    <3> QED
      BY <3>2, <3>6, <3>7, <3>8
  <2> QED
    BY <1>8, <2>1, <2>2 DEF Trunks, AtMost
<1>13. NoEnd(s) => NoEnd(t)
  BY <1>11 DEF NoEnd
<1>14. Whole(s) => Whole(t)
  <2> SUFFICES ASSUME Whole(s), NEW i \in Heads(t) PROVE i + t[i].val <= Len(t)
    BY DEF Whole
  <2>1. /\ i \in 1 .. Len(t) /\ i + n \in Heads(s)
        /\ t[i].val = s[i + n].val /\ t[i].val \in Nat
    BY <1>11
  <2>2. PICK h \in Nat : t[i].val = h
    BY <2>1
  <2>3. (i + n) + h <= Len(s)
    BY <2>1, <2>2 DEF Whole
  <2>4. i \in Nat
    BY <1>3, <2>1
  <2>5. i + h <= Len(t)
    BY <1>3, <2>3, <2>4
  <2> QED
    BY <2>2, <2>5
<1>15. EndIsLast(s) => EndIsLast(t)
  <2> SUFFICES ASSUME EndIsLast(s), NEW i \in Heads(t), t[i].val = 0 PROVE i = Len(t)
    BY DEF EndIsLast
  <2>1. i \in 1 .. Len(t) /\ i + n \in Heads(s) /\ s[i + n].val = 0
    BY <1>11
  <2>2. i + n = Len(s)
    BY <2>1 DEF EndIsLast
  <2> QED
    BY <1>3, <2>1, <2>2
<1>16. Before(t, Len(t) + 1, c) = Before(s, Len(s) + 1, b)
  <2>1. Len(t) + 1 \in 1 .. Len(t) + 1 /\ Len(t) + 1 + n = Len(s) + 1
    BY <1>3
  <2> QED
    BY <1>10, <2>1
<1>17. t # <<>> => t[Len(t)] = s[Len(s)] /\ Before(t, Len(t), c) = Before(s, Len(s), b)
  <2> SUFFICES ASSUME t # <<>>
               PROVE  t[Len(t)] = s[Len(s)] /\ Before(t, Len(t), c) = Before(s, Len(s), b)
    OBVIOUS
  <2>1. Len(t) >= 1
    BY EmptySeq
  <2>2. Len(t) \in 1 .. Len(t) + 1 /\ Len(t) \in 1 .. Len(t)
        /\ Len(t) + n = Len(s)
    BY <1>3, <2>1
  <2>3. t[Len(t)] = s[Len(s)]
    BY <1>4, <2>2
  <2> QED
    BY <1>10, <2>2, <2>3
<1>18. t = <<>> => s[Len(s)].val = c
  <2> SUFFICES ASSUME t = <<>> PROVE s[Len(s)].val = c
    OBVIOUS
  <2>1. Len(t) = 0
    BY EmptySeq
  <2>2. 1 + v = Len(s)
    BY <1>1, <1>3, <2>1
  <2> QED
    BY <1>8, <2>2
<1>19. o = "open" => OpenStream(t, c, m)
  BY <1>13, <1>14, <1>16 DEF Carries, OpenStream
<1>20. o = "broken" => NoEnd(t)
  BY <1>13 DEF Carries
<1>21. o = "closed" => ClosedStream(t, c, m)
  <2> SUFFICES ASSUME o = "closed" PROVE ClosedStream(t, c, m)
    OBVIOUS
  <2>1. /\ EndIsLast(s) /\ Whole(s) /\ s[Len(s)] = Cell("len", 0)
        /\ Before(s, Len(s), b) = m
    BY DEF Carries, ClosedStream
  <2>2. s[Len(s)].val = 0
    BY <2>1 DEF Cell
  <2>3. t # <<>>
    BY <1>1, <1>18, <2>2
  <2> QED
    BY <1>14, <1>15, <1>17, <2>1, <2>3 DEF ClosedStream
<1>22. Carries(t, c, m, o)
  BY <1>12, <1>19, <1>20, <1>21 DEF Carries
<1>23. ASSUME NEW j \in 1 .. w
       PROVE  s[1 + (j + 1)].val = b + j
  <2>1. j + 1 \in 2 .. v /\ (j + 1) - 1 = j
    BY <1>1
  <2> QED
    BY <1>7, <2>1
<1> QED
  BY <1>22, <1>23

(* The cells of a trunk with data, and of the end trunk.                    *)
LEMMA TrunkCells ==
  ASSUME NEW d \in Seq(Nat)
  PROVE  /\ Trunk(d) \in Seq(Cells) /\ Len(Trunk(d)) = Len(d) + 2
         /\ Trunk(d)[1] = Cell("len", Len(d) + 1) /\ Trunk(d)[2] = Cell("sum", 0)
         /\ \A j \in 1 .. Len(d) : Trunk(d)[j + 2] = Cell("byte", d[j])
<1> DEFINE h == <<Cell("len", Len(d) + 1), Cell("sum", 0)>>
           c == [j \in 1 .. Len(d) |-> Cell("byte", d[j])]
<1>1. Len(d) \in Nat /\ \A j \in 1 .. Len(d) : d[j] \in Nat
  BY LenProperties, ElementOfSeq
<1>2. Cell("len", Len(d) + 1) \in Cells /\ Cell("sum", 0) \in Cells
  BY <1>1 DEF Cell, Cells
<1>3. /\ h \in Seq(Cells) /\ Len(h) = 2
      /\ h[1] = Cell("len", Len(d) + 1) /\ h[2] = Cell("sum", 0)
  BY <1>2
<1>4. \A j \in 1 .. Len(d) : Cell("byte", d[j]) \in Cells
  BY <1>1 DEF Cell, Cells
<1>5. c \in Seq(Cells) /\ Len(c) = Len(d) /\ \A j \in 1 .. Len(d) : c[j] = Cell("byte", d[j])
  BY <1>1, <1>4
<1>6. Trunk(d) = h \o c
  BY DEF Trunk
<1> HIDE DEF h, c
<1>7. /\ h \o c \in Seq(Cells) /\ Len(h \o c) = Len(h) + Len(c)
      /\ \A j \in 1 .. Len(h) + Len(c) :
            (h \o c)[j] = IF j <= Len(h) THEN h[j] ELSE c[j - Len(h)]
  BY <1>3, <1>5, ConcatProperties
<1>8. (h \o c)[1] = h[1] /\ (h \o c)[2] = h[2]
  BY <1>1, <1>3, <1>5, <1>7
<1>9. ASSUME NEW j \in 1 .. Len(d) PROVE (h \o c)[j + 2] = Cell("byte", d[j])
  <2>1. (h \o c)[j + 2] = c[(j + 2) - 2] /\ (j + 2) - 2 = j
    BY <1>1, <1>3, <1>5, <1>7
  <2> QED
    BY <1>5, <2>1
<1> QED
  BY <1>1, <1>3, <1>5, <1>6, <1>7, <1>8, <1>9

LEMMA EndTrunkCells ==
  EndTrunk \in Seq(Cells) /\ Len(EndTrunk) = 1 /\ EndTrunk[1] = Cell("len", 0)
<1>1. Cell("len", 0) \in Cells
  BY DEF Cell, Cells
<1> QED
  BY <1>1 DEF EndTrunk

(* v is s with t behind it.                                                 *)
Joined(v, s, t) == v = s \o t

(* The cells of v and what is before each.                                  *)
LEMMA InFront ==
  ASSUME NEW s \in Seq(Cells), NEW t \in Seq(Cells), NEW b \in Nat,
         NEW v \in Seq(Cells), Joined(v, s, t)
  PROVE  /\ Len(v) = Len(s) + Len(t)
         /\ \A i \in 1 .. Len(s) : v[i] = s[i] /\ (i \in Heads(v) <=> i \in Heads(s))
         /\ \A i \in 1 .. Len(t) : v[Len(s) + i] = t[i]
         /\ \A i \in 1 .. Len(s) + 1 : Before(v, i, b) = Before(s, i, b)
<1>1. Len(s) \in Nat /\ Len(t) \in Nat
  BY LenProperties
<1>2. /\ Len(v) = Len(s) + Len(t)
      /\ \A i \in 1 .. Len(s) + Len(t) :
            v[i] = IF i <= Len(s) THEN s[i] ELSE t[i - Len(s)]
  BY ConcatProperties DEF Joined
<1>3. \A i \in 1 .. Len(s) : v[i] = s[i] /\ i \in 1 .. Len(v)
  BY <1>1, <1>2
<1>4. ASSUME NEW i \in 1 .. Len(t)
      PROVE  v[Len(s) + i] = t[i]
  <2>1. Len(s) + i \in 1 .. Len(s) + Len(t) /\ ~(Len(s) + i <= Len(s)) /\ (Len(s) + i) - Len(s) = i
    BY <1>1
  <2> QED
    BY <1>2, <2>1
<1>5. \A i \in 1 .. Len(s) : i \in Heads(v) <=> i \in Heads(s)
  BY <1>3 DEF Heads
<1>6. ASSUME NEW i \in 1 .. Len(s) + 1 PROVE Before(v, i, b) = Before(s, i, b)
  <2>1. i = 1 \/ i - 1 \in 1 .. Len(s)
    BY <1>1
  <2> QED
    BY <1>3, <2>1 DEF Before
<1> QED
  BY <1>2, <1>3, <1>4, <1>5, <1>6

(* What stays true of the trunks of s in front of t.                        *)
LEMMA StillThere ==
  ASSUME NEW s \in Seq(Cells), NEW t \in Seq(Cells), NEW b \in Nat, NEW m \in Nat,
         Trunks(s, b), AtMost(s, b, m), NoEnd(s), Whole(s), 1 \in Heads(t),
         NEW v \in Seq(Cells), Joined(v, s, t)
  PROVE  /\ 1 \in Heads(v) /\ Len(s) + 1 \in Heads(v)
         /\ \A i \in Heads(s) :
               /\ v[i].val # 1 /\ v[i].val # 0
               /\ i + v[i].val <= Len(v)
               /\ i + v[i].val + 1 \in Heads(v)
               /\ \A j \in 2 .. v[i].val :
                     v[i + j].val = Before(v, i, b) + (j - 1) /\ v[i + j].val <= m
<1>1. Len(s) \in Nat /\ Len(t) \in Nat
  BY LenProperties
<1>2. Len(v) = Len(s) + Len(t)
  BY InFront
<1>3. \A i \in 1 .. Len(s) : v[i] = s[i] /\ (i \in Heads(v) <=> i \in Heads(s))
  BY InFront
<1>4. v[Len(s) + 1] = t[1] /\ Len(t) >= 1
  <2>1. 1 \in 1 .. Len(t)
    BY DEF Heads
  <2>2. \A i \in 1 .. Len(t) : v[Len(s) + i] = t[i]
    BY InFront
  <2> QED
    BY <1>1, <2>1, <2>2
<1>5. \A i \in 1 .. Len(s) + 1 : Before(v, i, b) = Before(s, i, b)
  BY InFront
<1>6. Len(s) + 1 \in Heads(v)
  <2>1. Len(s) + 1 \in 1 .. Len(v)
    BY <1>1, <1>2, <1>4
  <2> QED
    BY <1>4, <2>1 DEF Heads
<1>7. 1 \in Heads(v)
  <2>1. CASE s = <<>>
    <3>1. Len(s) = 0
      BY <2>1, EmptySeq
    <3> QED
      BY <1>6, <3>1
  <2>2. CASE s # <<>>
    <3>1. 1 \in Heads(s)
      BY <2>2 DEF Trunks
    <3>2. 1 \in 1 .. Len(s)
      BY <3>1 DEF Heads
    <3> QED
      BY <1>3, <3>1, <3>2
  <2> QED
    BY <2>1, <2>2
<1>8. ASSUME NEW i \in Heads(s)
      PROVE  /\ v[i].val # 1 /\ v[i].val # 0
             /\ i + v[i].val <= Len(v)
             /\ i + v[i].val + 1 \in Heads(v)
             /\ \A j \in 2 .. v[i].val :
                   v[i + j].val = Before(v, i, b) + (j - 1) /\ v[i + j].val <= m
  <2>1. i \in 1 .. Len(s) /\ s[i].val \in Nat
    BY CellValues
  <2>2. PICK h \in Nat : s[i].val = h
    BY <2>1
  <2>3. v[i].val = h
    BY <1>3, <2>1, <2>2
  <2>4. i \in Nat /\ i >= 1 /\ i <= Len(s) /\ i \in 1 .. Len(s) + 1
    BY <1>1, <2>1
  <2>5. i + h <= Len(s)
    BY <2>2 DEF Whole
  <2>6. h # 1 /\ h # 0
    BY <2>2 DEF Trunks, NoEnd
  <2>7. i + h + 1 \in Heads(v)
    <3>1. CASE i + h < Len(s)
      <4>1. i + h + 1 \in Heads(s)
        BY <2>2, <3>1 DEF Trunks
      <4>2. i + h + 1 \in 1 .. Len(s)
        BY <4>1 DEF Heads
      <4> QED
        BY <1>3, <4>1, <4>2
    <3>2. CASE i + h = Len(s)
      BY <1>6, <3>2
    <3>3. i + h < Len(s) \/ i + h = Len(s)
      BY <1>1, <2>4, <2>5
    <3> QED
      BY <3>1, <3>2, <3>3
  <2>8. Before(v, i, b) = Before(s, i, b)
    BY <1>5, <2>4
  <2>9. ASSUME NEW j \in 2 .. h
        PROVE  v[i + j].val = Before(v, i, b) + (j - 1) /\ v[i + j].val <= m
    <3>1. i + j \in 1 .. Len(s) /\ i + j <= Len(s)
      BY <1>1, <2>4, <2>5
    <3>2. s[i + j].val = Before(s, i, b) + (j - 1) /\ s[i + j].val <= m
      BY <2>2, <3>1 DEF Trunks, AtMost
    <3>3. v[i + j] = s[i + j]
      BY <1>3, <3>1
    <3> QED
      BY <2>8, <3>2, <3>3
  <2>10. i + h <= Len(v)
    BY <1>1, <1>2, <2>4, <2>5
  <2> QED
    BY <2>3, <2>6, <2>7, <2>9, <2>10
<1> QED
  BY <1>6, <1>7, <1>8

(* The trunk put behind starts where s ended.                               *)
LEMMA OneMore ==
  ASSUME NEW s \in Seq(Cells), NEW t \in Seq(Cells), NEW b \in Nat,
         Heads(t) = {1},
         NEW v \in Seq(Cells), Joined(v, s, t), NEW i \in Heads(v)
  PROVE  i \in Heads(s) \/ i = Len(s) + 1
<1>1. Len(s) \in Nat /\ Len(t) \in Nat
  BY LenProperties
<1>2. Len(v) = Len(s) + Len(t)
  BY InFront
<1>3. \A k \in 1 .. Len(s) : k \in Heads(v) <=> k \in Heads(s)
  BY InFront
<1>4. i \in 1 .. Len(v) /\ v[i].kind = "len"
  BY DEF Heads
<1>5. CASE i <= Len(s)
  BY <1>1, <1>3, <1>4, <1>5
<1>6. CASE i > Len(s) + 1
  <2>1. PICK k \in Nat : i = Len(s) + k
    BY <1>1, <1>4, <1>6
  <2>2. k # 1 /\ k \in 1 .. Len(t)
    BY <1>1, <1>2, <1>4, <1>6, <2>1
  <2>3. v[Len(s) + k] = t[k]
    BY <2>2, InFront
  <2>4. k \in Heads(t)
    BY <1>4, <2>1, <2>2, <2>3 DEF Heads
  <2> QED
    BY <2>2, <2>4
<1>7. i <= Len(s) \/ i > Len(s) + 1 \/ i = Len(s) + 1
  BY <1>1, <1>4
<1> QED
  BY <1>5, <1>6, <1>7

(* The sender puts one more trunk with data behind an open stream.          *)
LEMMA DigestCarries ==
  ASSUME NEW s \in Seq(Cells), NEW b \in Nat, NEW m \in Nat,
         Carries(s, b, m, "open"),
         NEW d \in Seq(Nat), NEW n \in Nat, n > 0, Len(d) = n, Follow(d, m),
         NEW q \in Nat, Sum(m, n, q),
         NEW v \in Seq(Cells), Joined(v, s, Trunk(d))
  PROVE  Carries(v, b, q, "open")
<1>1. q = m + n
  BY DEF Sum
<1>2. /\ Trunks(s, b) /\ AtMost(s, b, m) /\ NoEnd(s) /\ Whole(s)
       /\ Before(s, Len(s) + 1, b) = m
  BY DEF Carries, OpenStream
<1>3. PICK t \in Seq(Cells) : Trunk(d) = t
  BY TrunkCells
<1>4. Joined(v, s, t)
  BY <1>3
<1>5. /\ t[1] = Cell("len", n + 1) /\ t[2] = Cell("sum", 0)
      /\ \A j \in 1 .. n : t[j + 2] = Cell("byte", d[j])
  BY <1>3, TrunkCells
<1>6. Len(t) = n + 2
  BY <1>3, TrunkCells
<1>7. PICK p \in Nat : p = Len(s) + 1
  BY LenProperties
<1>8. Len(v) = p + (n + 1) /\ Len(v) \in Nat
  <2>1. Len(v) = Len(s) + Len(t) /\ Len(s) \in Nat
    BY <1>4, InFront, LenProperties
  <2> QED
    BY <1>6, <1>7, <2>1
<1>9. Heads(t) = {1}
  <2>1. 1 \in Heads(t)
    BY <1>5, <1>6 DEF Cell, Heads
  <2>2. 2 \notin Heads(t)
    BY <1>5 DEF Cell, Heads
  <2>3. ASSUME NEW i \in 3 .. n + 2 PROVE i \notin Heads(t)
    <3>1. i - 2 \in 1 .. n /\ (i - 2) + 2 = i
      OBVIOUS
    <3>2. t[i] = Cell("byte", d[i - 2])
      BY <1>5, <3>1
    <3> QED
      BY <3>2 DEF Cell, Heads
  <2>4. \A i \in 1 .. n + 2 : i = 1 \/ i = 2 \/ i \in 3 .. n + 2
    OBVIOUS
  <2>5. \A i \in Heads(t) : i \in 1 .. n + 2
    BY <1>6 DEF Heads
  <2> QED
    BY <2>1, <2>2, <2>3, <2>4, <2>5
<1>10. \A i \in Heads(v) : i \in Heads(s) \/ i = p
  BY <1>7, <1>9, <1>4, OneMore
<1>11. /\ 1 \in Heads(v) /\ p \in Heads(v)
      /\ \A i \in Heads(s) :
            /\ v[i].val # 1 /\ v[i].val # 0
            /\ i + v[i].val <= Len(v)
            /\ i + v[i].val + 1 \in Heads(v)
            /\ \A j \in 2 .. v[i].val :
                  v[i + j].val = Before(v, i, b) + (j - 1) /\ v[i + j].val <= m
  <2>1. 1 \in Heads(t)
    BY <1>9
  <2> QED
    BY <1>2, <1>7, <1>4, <2>1, StillThere
<1>12. \A i \in 1 .. n + 2 : v[Len(s) + i] = t[i]
  <2>1. \A i \in 1 .. Len(t) : v[Len(s) + i] = t[i]
    BY <1>4, InFront
  <2> QED
    BY <1>6, <2>1
<1>13. v[p].val = n + 1
  <2>1. v[p] = t[1]
    <3>1. 1 \in 1 .. n + 2
      OBVIOUS
    <3>2. v[Len(s) + 1] = t[1]
      BY <1>12, <3>1
    <3> QED
      BY <1>7, <3>2
  <2> QED
    BY <1>5, <2>1 DEF Cell
<1>14. Before(v, p, b) = m
  <2>1. p \in 1 .. Len(s) + 1
    BY <1>7, LenProperties
  <2> QED
    BY <1>2, <1>7, <2>1, <1>4, InFront
<1>15. ASSUME NEW j \in 2 .. n + 1
       PROVE  v[p + j].val = m + (j - 1) /\ v[p + j].val <= q
  <2>1. j - 1 \in 1 .. n /\ (j - 1) + 2 = j + 1 /\ j + 1 \in 1 .. n + 2 /\ m + (j - 1) <= q
    BY <1>1
  <2>2. Len(s) + (j + 1) = p + j
    BY <1>7, LenProperties
  <2>3. v[p + j] = t[j + 1]
    BY <1>12, <2>1, <2>2
  <2>4. t[j + 1] = Cell("byte", d[j - 1])
    BY <1>5, <2>1
  <2>5. d[j - 1] = m + (j - 1)
    BY <2>1 DEF Follow
  <2> QED
    BY <2>1, <2>3, <2>4, <2>5 DEF Cell
<1>16. ASSUME NEW i \in Heads(v)
       PROVE  /\ v[i].val # 1 /\ v[i].val # 0
              /\ i + v[i].val <= Len(v)
              /\ i + v[i].val < Len(v) => i + v[i].val + 1 \in Heads(v)
              /\ \A j \in 2 .. v[i].val :
                    v[i + j].val = Before(v, i, b) + (j - 1) /\ v[i + j].val <= q
  <2>1. CASE i = p
    <3>1. n + 1 # 1 /\ n + 1 # 0 /\ p + (n + 1) <= Len(v) /\ ~(p + (n + 1) < Len(v))
      BY <1>8
    <3> QED
      BY <1>13, <1>14, <1>15, <2>1, <3>1
  <2>2. CASE i \in Heads(s)
    <3>1. \A j \in 2 .. v[i].val : v[i + j].val <= q
      <4> SUFFICES ASSUME NEW j \in 2 .. v[i].val PROVE v[i + j].val <= q
        OBVIOUS
      <4>1. v[i + j].val <= m /\ v[i + j].val = Before(v, i, b) + (j - 1)
        BY <1>11, <2>2
      <4>2. i \in 1 .. Len(v) /\ v[i].val \in Nat
        BY CellValues
      <4>3. PICK h \in Nat : v[i].val = h
        BY <4>2
      <4>4. i + h <= Len(v) /\ i \in Nat /\ i >= 1 /\ j \in 2 .. h
        BY <1>8, <1>11, <2>2, <4>2, <4>3
      <4>5. i + j \in 1 .. Len(v)
        BY <1>8, <4>4
      <4>6. v[i + j].val \in Nat
        BY <4>5, CellValues
      <4> QED
        BY <1>1, <4>1, <4>6
    <3> QED
      BY <1>11, <2>2, <3>1
  <2> QED
    BY <1>10, <2>1, <2>2
<1>17. Before(v, Len(v) + 1, b) = q
  <2>1. n + 1 \in 2 .. n + 1 /\ (n + 1) - 1 = n
    OBVIOUS
  <2>2. v[Len(v)].val = q
    BY <1>1, <1>8, <1>15, <2>1
  <2>3. Len(v) + 1 # 1 /\ (Len(v) + 1) - 1 = Len(v)
    BY <1>8
  <2> QED
    BY <2>2, <2>3 DEF Before
<1>18. b <= q
  BY <1>1, <1>2 DEF AtMost
<1>19. Trunks(v, b)
  BY <1>11, <1>16 DEF Trunks
<1>20. AtMost(v, b, q) /\ NoEnd(v) /\ Whole(v)
  BY <1>16, <1>18 DEF AtMost, NoEnd, Whole
<1> QED
  BY <1>17, <1>19, <1>20 DEF Carries, OpenStream

(* The sender puts the end trunk behind an open stream.                     *)
LEMMA AppendEnd ==
  ASSUME NEW s \in Seq(Cells), NEW b \in Nat, NEW m \in Nat,
         Trunks(s, b), AtMost(s, b, m), NoEnd(s), Whole(s),
         NEW v \in Seq(Cells), Joined(v, s, EndTrunk)
  PROVE  /\ v # <<>>
         /\ Trunks(v, b) /\ AtMost(v, b, m) /\ EndIsLast(v) /\ Whole(v)
         /\ v[Len(v)] = Cell("len", 0)
         /\ Before(v, Len(v), b) = Before(s, Len(s) + 1, b)
<1>1. PICK t \in Seq(Cells) : EndTrunk = t
  BY EndTrunkCells
<1>2. Joined(v, s, t)
  BY <1>1
<1>3. Len(t) = 1 /\ t[1] = Cell("len", 0)
  BY <1>1, EndTrunkCells
<1>4. PICK p \in Nat : p = Len(s) + 1
  BY LenProperties
<1>5. Len(v) = p
  <2>1. Len(v) = Len(s) + Len(t) /\ Len(s) \in Nat
    BY <1>2, InFront, LenProperties
  <2> QED
    BY <1>3, <1>4, <2>1
<1>6. Heads(t) = {1}
  BY <1>3 DEF Cell, Heads
<1>7. \A i \in Heads(v) : i \in Heads(s) \/ i = p
  BY <1>4, <1>6, <1>2, OneMore
<1>8. /\ 1 \in Heads(v) /\ p \in Heads(v)
      /\ \A i \in Heads(s) :
            /\ v[i].val # 1 /\ v[i].val # 0
            /\ i + v[i].val <= Len(v)
            /\ i + v[i].val + 1 \in Heads(v)
            /\ \A j \in 2 .. v[i].val :
                  v[i + j].val = Before(v, i, b) + (j - 1) /\ v[i + j].val <= m
  BY <1>4, <1>6, <1>2, StillThere
<1>9. v[p] = Cell("len", 0)
  <2>1. \A i \in 1 .. Len(t) : v[Len(s) + i] = t[i]
    BY <1>2, InFront
  <2> QED
    BY <1>3, <1>4, <2>1
<1>10. v[p].val = 0
  BY <1>9 DEF Cell
<1>11. Before(v, p, b) = Before(s, p, b)
  <2>1. p \in 1 .. Len(s) + 1
    BY <1>4, LenProperties
  <2> QED
    BY <2>1, <1>2, InFront
<1>12. ASSUME NEW i \in Heads(v)
       PROVE  /\ v[i].val # 1 /\ (v[i].val = 0 => i = p)
              /\ i + v[i].val <= Len(v)
              /\ i + v[i].val < Len(v) => i + v[i].val + 1 \in Heads(v)
              /\ \A j \in 2 .. v[i].val :
                    v[i + j].val = Before(v, i, b) + (j - 1) /\ v[i + j].val <= m
  <2>1. CASE i = p
    <3>1. p + 0 <= Len(v) /\ ~(p + 0 < Len(v)) /\ \A j \in 2 .. 0 : FALSE
      BY <1>5
    <3> QED
      BY <1>10, <2>1, <3>1
  <2>2. CASE i \in Heads(s)
    BY <1>8, <2>2
  <2> QED
    BY <1>7, <2>1, <2>2
<1>13. v # <<>>
  <2>1. Len(v) # 0
    BY <1>4, <1>5, LenProperties
  <2> QED
    BY <2>1, EmptySeq
<1>14. Trunks(v, b)
  BY <1>8, <1>12 DEF Trunks
<1>15. AtMost(v, b, m)
  BY <1>12 DEF AtMost
<1>16. EndIsLast(v) /\ Whole(v)
  BY <1>5, <1>12 DEF EndIsLast, Whole
<1> QED
  BY <1>4, <1>5, <1>9, <1>11, <1>13, <1>14, <1>15, <1>16

(* With it the stream is a closed one.                                      *)
LEMMA CloseCarries ==
  ASSUME NEW s \in Seq(Cells), NEW b \in Nat, NEW p \in Nat,
         Carries(s, b, p, "open"),
         NEW v \in Seq(Cells), Joined(v, s, EndTrunk)
  PROVE  Carries(v, b, p, "closed")
<1>1. /\ Trunks(s, b) /\ AtMost(s, b, p) /\ NoEnd(s) /\ Whole(s)
      /\ Before(s, Len(s) + 1, b) = p
  BY DEF Carries, OpenStream
<1>2. /\ v # <<>>
      /\ Trunks(v, b) /\ AtMost(v, b, p) /\ EndIsLast(v) /\ Whole(v)
      /\ v[Len(v)] = Cell("len", 0)
      /\ Before(v, Len(v), b) = p
  BY <1>1, AppendEnd
<1> QED
  BY <1>2 DEF Carries, ClosedStream

(* The sender breaks off, with what is still on its way.                    *)
LEMMA BreakCarries ==
  ASSUME NEW s \in Seq(Cells), NEW b \in Nat, NEW p \in Nat,
         Carries(s, b, p, "open"), NEW n \in 0 .. Len(s)
  PROVE  Carries(Take(s, n), b, p, "broken")
<1>1. Trunks(s, b) /\ AtMost(s, b, p) /\ NoEnd(s)
  BY DEF Carries, OpenStream
<1>2. /\ Trunks(Take(s, n), b) /\ AtMost(Take(s, n), b, p) /\ NoEnd(Take(s, n))
  BY <1>1, TakeTrunks
<1> QED
  BY <1>2 DEF Carries

(* The decoder finds no data in the first trunk only at the end of a closed *)
(* stream.                                                                  *)
LEMMA EndCarries ==
  ASSUME NEW s \in Seq(Cells), NEW b \in Nat, NEW p \in Nat,
         NEW o \in {"open", "closed", "broken"},
         Carries(s, b, p, o), s # <<>>, s[1].val <= 1
  PROVE  o = "closed" /\ s[1].val = 0 /\ Len(s) = 1 /\ b = p /\ Carries(<<>>, b, p, "ended")
<1>1. /\ Len(s) \in Nat /\ 1 \in Heads(s) /\ s[1].val \in Nat /\ s[1].val # 1
  BY CellValues DEF Carries, Trunks
<1>2. s[1].val = 0
  BY <1>1
<1>3. o = "closed"
  BY <1>1, <1>2 DEF Carries, OpenStream, NoEnd
<1>4. Len(s) = 1 /\ Before(s, 1, b) = p /\ b <= p
  BY <1>1, <1>2, <1>3 DEF Carries, ClosedStream, EndIsLast, AtMost
<1>5. b = p
  BY <1>4 DEF Before
<1>6. Heads(<<>>) = {}
  BY DEF Heads
<1>7. Carries(<<>>, b, p, "ended")
  BY <1>4, <1>5, <1>6 DEF Carries, Trunks, AtMost
<1> QED
  BY <1>2, <1>3, <1>4, <1>5, <1>7
-----------------------------------------------------------------------------
(* Type correctness.                                                        *)

LEMMA SmallerIn ==
  ASSUME NEW m \in Nat, NEW n \in Nat
  PROVE  /\ Smaller(m, n) \in 0 .. n /\ Smaller(m, n) <= m
         /\ m > 0 /\ n > 0 => Smaller(m, n) > 0
BY DEF Smaller

(* _rbuffer_expand always leaves room for at least one more cell.           *)
LEMMA RoomLeft ==
  ASSUME TypeOK
  PROVE  /\ Expanded \in Nat \ {0} /\ Room \in Nat \ {0}
         /\ Len(raw) \in Nat /\ Len(raw) + Room = Expanded
<1>1. size \in Nat \ {0} /\ Len(raw) \in Nat /\ Len(raw) <= size
  BY LenProperties DEF TypeOK
<1> QED
  BY <1>1 DEF Expanded, Room

(* What a read takes from the descriptor fits into raw_buf.                 *)
LEMMA ReceiveType ==
  ASSUME TypeOK, kern # <<>>, Receive(Smaller(Room, Len(kern)))
  PROVE  /\ raw' \in Seq(Cells) /\ Len(raw') <= size'
         /\ kern' \in Seq(Cells) /\ size' \in Nat \ {0}
         /\ Stream' = Stream
<1> DEFINE n == Smaller(Room, Len(kern))
<1>1. raw \in Seq(Cells) /\ kern \in Seq(Cells) /\ wire \in Seq(Cells)
  BY DEF TypeOK
<1>2. Len(kern) \in Nat /\ Len(raw) \in Nat /\ Room \in Nat /\ Len(raw) + Room = Expanded
      /\ Expanded \in Nat \ {0}
  BY <1>1, LenProperties, RoomLeft
<1>3. n \in 0 .. Len(kern) /\ n <= Room
  BY <1>2, SmallerIn
<1>4. /\ raw' = raw \o Take(kern, n) /\ kern' = Drop(kern, n)
      /\ size' = Expanded /\ wire' = wire
  BY DEF Receive, sender
<1> HIDE DEF n
<1>5. /\ Take(kern, n) \in Seq(Cells) /\ Len(Take(kern, n)) = n
      /\ Drop(kern, n) \in Seq(Cells)
  BY <1>1, <1>3, TakeProperties, DropProperties
<1>6. raw' \in Seq(Cells) /\ Len(raw') = Len(raw) + n
  BY <1>1, <1>4, <1>5, ConcatProperties
<1>7. Len(raw') <= size'
  BY <1>2, <1>3, <1>4, <1>6
<1>8. (raw \o Take(kern, n)) \o Drop(kern, n) = raw \o kern
  BY <1>1, <1>3, Moved
<1>9. Stream' = Stream
  BY <1>4, <1>8 DEF Stream
<1> QED
  BY <1>2, <1>4, <1>5, <1>6, <1>7, <1>9

(* The trunk the decoder takes: its data, and what is behind it.            *)
LEMMA DecodeType ==
  ASSUME TypeOK, Complete, Consume
  PROVE  /\ raw # <<>> /\ raw[1].val \in Nat
         /\ 1 + raw[1].val \in 0 .. Len(raw) /\ raw' = Drop(raw, 1 + raw[1].val)
         /\ raw' \in Seq(Cells) /\ Len(raw') <= Len(raw) /\ Len(raw') \in Nat
<1>1. raw \in Seq(Cells) /\ raw # <<>> /\ Len(raw) >= 1 + raw[1].val
  BY DEF TypeOK, Complete
<1>2. Len(raw) \in Nat /\ Len(raw) # 0
  BY <1>1, LenProperties, EmptySeq
<1>3. 1 \in 1 .. Len(raw)
  BY <1>2
<1>4. raw[1].val \in Nat
  BY <1>1, <1>3, CellValues
<1>5. PICK v \in Nat : raw[1].val = v
  BY <1>4
<1>6. 1 + v \in 0 .. Len(raw)
  BY <1>1, <1>2, <1>5
<1>7. Drop(raw, 1 + v) \in Seq(Cells) /\ Len(Drop(raw, 1 + v)) = Len(raw) - (1 + v)
  BY <1>1, <1>6, DropProperties
<1>8. raw' = Drop(raw, 1 + v)
  BY <1>5 DEF Consume
<1>9. raw' \in Seq(Cells) /\ Len(raw') = Len(raw) - (1 + v)
  BY <1>7, <1>8
<1>10. Len(raw') \in Nat /\ Len(raw') <= Len(raw)
  BY <1>2, <1>6, <1>9
<1> QED
  BY <1>1, <1>5, <1>6, <1>8, <1>9, <1>10

(* The data of a trunk with v - 1 = w > 0 bytes.                            *)
LEMMA DataType ==
  ASSUME TypeOK, Complete, NEW w \in Nat, raw[1].val = w + 1
  PROVE  /\ TrunkData \in Seq(Nat) /\ Len(TrunkData) = w
         /\ \A j \in 1 .. w : TrunkData[j] = raw[1 + (j + 1)].val
<1>1. raw \in Seq(Cells) /\ Len(raw) >= 1 + (w + 1)
  BY DEF TypeOK, Complete
<1>2. Len(raw) \in Nat
  BY <1>1, LenProperties
<1>3. TrunkData = [j \in 1 .. w |-> raw[j + 2].val]
  <2>1. (w + 1) - 1 = w
    OBVIOUS
  <2> QED
    BY <2>1 DEF TrunkData
<1>4. ASSUME NEW j \in 1 .. w
      PROVE  raw[j + 2].val \in Nat /\ raw[j + 2].val = raw[1 + (j + 1)].val
  <2>1. j + 2 \in 1 .. Len(raw) /\ j + 2 = 1 + (j + 1)
    BY <1>1, <1>2
  <2> QED
    BY <1>1, <2>1, CellValues
<1>5. [j \in 1 .. w |-> raw[j + 2].val] \in Seq(Nat)
  BY <1>4
<1> QED
  BY <1>3, <1>4, <1>5

(* The types at the start, and at every step.                               *)
LEMMA InitType == Init => TypeOK
<1> SUFFICES ASSUME Init PROVE TypeOK
  OBVIOUS
<1>1. FirstSize(RawSize) \in Nat \ {0}
  BY SizeAssumption DEF FirstSize
<1>2. Len(<<>>) = 0
  OBVIOUS
<1>3. <<>> \in Seq(Nat) /\ <<>> \in Seq(Cells)
  OBVIOUS
<1>4. size \in Nat \ {0} /\ raw = <<>>
  BY <1>1 DEF Init
<1>5. Len(raw) <= size
  BY <1>2, <1>4
<1> QED
  BY <1>3, <1>4, <1>5 DEF Init, TypeOK, Loc

LEMMA TypeStep == TypeOK /\ [Next]_vars => TypeOK'
<1> SUFFICES ASSUME TypeOK, [Next]_vars PROVE TypeOK'
  OBVIOUS
<1>1. /\ sent \in Nat /\ ser \in Seq(Nat)
      /\ wire \in Seq(Cells) /\ kern \in Seq(Cells) /\ left \in Seq(Nat)
      /\ Len(ser) \in Nat /\ Len(wire) \in Nat /\ Len(left) \in Nat /\ got \in Seq(Nat)
  BY LenProperties DEF TypeOK
<1>2. ASSUME NEW n \in 1 .. MaxPiece, Write(n) PROVE TypeOK'
  <2>1. n \in Nat
    BY BoundAssumption
  <2>2. [i \in 1 .. n |-> sent + i] \in Seq(Nat) /\ sent + n \in Nat
    BY <1>1, <2>1
  <2>3. ser' \in Seq(Nat) /\ sent' \in Nat
    BY <1>2, <2>2 DEF Write
  <2> QED
    BY <1>2, <2>3 DEF Write, TypeOK, network, receiver
<1>3. CASE Digest
  <2> DEFINE n == Smaller(TrunkMax, Len(ser))
             t == Trunk(Take(ser, n))
  <2>1. n \in 0 .. Len(ser)
    BY <1>1, SizeAssumption, SmallerIn
  <2>2. wire' = wire \o t /\ ser' = Drop(ser, n)
    BY <1>3 DEF Digest
  <2>3. Take(ser, n) \in Seq(Nat) /\ ser' \in Seq(Nat)
    BY <1>1, <2>1, <2>2, TakeProperties, DropProperties
  <2>4. t \in Seq(Cells)
    BY <2>3, TrunkCells
  <2> HIDE DEF t
  <2>5. wire' \in Seq(Cells)
    BY <1>1, <2>2, <2>4, ConcatProperties
  <2> QED
    BY <1>3, <2>3, <2>5 DEF Digest, TypeOK, receiver
<1>4. CASE Close
  <2>1. wire' \in Seq(Cells)
    BY <1>1, <1>4, EndTrunkCells, ConcatProperties DEF Close
  <2> QED
    BY <1>4, <2>1 DEF Close, TypeOK, receiver
<1>5. CASE Break
  <2>1. wire' \in Seq(Cells)
    BY <1>1, <1>5, TakeProperties DEF Break
  <2> QED
    BY <1>5, <2>1 DEF Break, TypeOK, receiver
<1>6. ASSUME NEW n \in 1 .. Len(wire), Transfer(n) PROVE TypeOK'
  <2>1. n \in 0 .. Len(wire) /\ kern' = kern \o Take(wire, n) /\ wire' = Drop(wire, n)
    BY <1>1, <1>6 DEF Transfer
  <2>2. Take(wire, n) \in Seq(Cells) /\ wire' \in Seq(Cells)
    BY <1>1, <2>1, TakeProperties, DropProperties
  <2>3. kern' \in Seq(Cells)
    BY <1>1, <2>1, <2>2, ConcatProperties
  <2> QED
    BY <1>6, <2>2, <2>3 DEF Transfer, TypeOK, sender, receiver
<1>7. CASE TransferFin
  BY <1>7 DEF TransferFin, TypeOK, sender, receiver
<1>8. ASSUME NEW n \in 1 .. MaxPiece, ReadEof(n) PROVE TypeOK'
  <2>1. n \in Nat
    BY BoundAssumption
  <2> QED
    BY <1>8, <2>1 DEF ReadEof, Return, TypeOK, Loc, sender, network
<1>9. ASSUME NEW n \in 1 .. MaxPiece, ReadLeft(n) PROVE TypeOK'
  <2>1. n \in Nat
    BY BoundAssumption
  <2> DEFINE m == Smaller(n, Len(left))
  <2>2. m \in 0 .. Len(left)
    BY <1>1, <2>1, SmallerIn
  <2>3. got' = got \o Take(left, m) /\ left' = Drop(left, m)
    BY <1>9 DEF ReadLeft
  <2>4. Take(left, m) \in Seq(Nat) /\ left' \in Seq(Nat)
    BY <1>1, <2>2, <2>3, TakeProperties, DropProperties
  <2> HIDE DEF m
  <2>5. got' \in Seq(Nat)
    BY <1>1, <2>3, <2>4, ConcatProperties
  <2> QED
    BY <1>9, <2>1, <2>4, <2>5 DEF ReadLeft, Return, TypeOK, Loc, sender, network
<1>10. ASSUME NEW n \in 1 .. MaxPiece, NEW b \in BOOLEAN, ReadCall(n, b) PROVE TypeOK'
  <2>1. n \in Nat
    BY BoundAssumption
  <2> QED
    BY <1>10, <2>1 DEF ReadCall, TypeOK, Loc, sender, network
<1>11. CASE Pull
  <2>1. kern # <<>> /\ Receive(Smaller(Room, Len(kern))) /\ pc' = pc
    BY <1>11 DEF Pull
  <2>2. /\ raw' \in Seq(Cells) /\ Len(raw') <= size'
        /\ kern' \in Seq(Cells) /\ size' \in Nat \ {0}
    BY <2>1, ReceiveType
  <2> QED
    BY <2>1, <2>2 DEF Receive, TypeOK, sender
<1>12. CASE PullDone
  <2>1. Expanded \in Nat \ {0} /\ Len(raw) <= Expanded
    BY RoomLeft
  <2> QED
    BY <1>12, <2>1 DEF PullDone, TypeOK, Loc, sender, network
<1>13. CASE Fetch
  <2>1. kern # <<>> /\ Receive(Smaller(Room, Len(kern))) /\ pc' = "parse"
    BY <1>13 DEF Fetch
  <2>2. /\ raw' \in Seq(Cells) /\ Len(raw') <= size'
        /\ kern' \in Seq(Cells) /\ size' \in Nat \ {0}
    BY <2>1, ReceiveType
  <2> QED
    BY <2>1, <2>2 DEF Receive, TypeOK, Loc, sender
<1>14. CASE FetchEof
  <2>1. Expanded \in Nat \ {0} /\ Len(raw) <= Expanded
    BY RoomLeft
  <2> QED
    BY <1>14, <2>1 DEF FetchEof, Return, TypeOK, Loc, sender, network
<1>15. CASE Incomplete
  BY <1>15 DEF Incomplete, Return, TypeOK, Loc, sender, network
<1>16. CASE ParseEnd
  <2>1. raw' \in Seq(Cells) /\ Len(raw') <= size'
    <3>1. raw' \in Seq(Cells) /\ Len(raw') \in Nat /\ Len(raw') <= Len(raw)
      BY <1>16, DecodeType DEF ParseEnd
    <3>2. size' \in Nat /\ size' = size /\ Len(raw) <= size /\ Len(raw) \in Nat
      BY <1>16, LenProperties DEF ParseEnd, TypeOK
    <3> QED
      BY <3>1, <3>2
  <2> QED
    BY <1>16, <2>1 DEF ParseEnd, Return, TypeOK, Loc, sender, network
<1>17. CASE ParseData
  <2>1. Complete /\ Consume /\ raw[1].val > 1
    BY <1>17 DEF ParseData
  <2>2. raw' \in Seq(Cells) /\ Len(raw') <= size'
    <3>1. raw' \in Seq(Cells) /\ Len(raw') \in Nat /\ Len(raw') <= Len(raw)
      BY <2>1, DecodeType
    <3>2. size' \in Nat /\ size' = size /\ Len(raw) <= size /\ Len(raw) \in Nat
      BY <1>17, LenProperties DEF ParseData, TypeOK
    <3> QED
      BY <3>1, <3>2
  <2>3. raw[1].val \in Nat
    BY <2>1, DecodeType
  <2>4. PICK w \in Nat : raw[1].val = w + 1
    <3>1. raw[1].val - 1 \in Nat /\ raw[1].val = (raw[1].val - 1) + 1
      BY <2>1, <2>3
    <3> QED
      BY <3>1
  <2>5. TrunkData \in Seq(Nat)
    BY <2>1, <2>4, DataType
  <2> DEFINE d == TrunkData
             m == Smaller(want, Len(d))
  <2>6. got' = got \o Take(d, m) /\ left' = Drop(d, m)
    BY <1>17 DEF ParseData
  <2> HIDE DEF d
  <2>7. Len(d) \in Nat /\ want \in Nat /\ d \in Seq(Nat)
    BY <2>5, LenProperties DEF TypeOK, d
  <2>8. m \in 0 .. Len(d)
    BY <2>7, SmallerIn
  <2> HIDE DEF m
  <2>9. Take(d, m) \in Seq(Nat) /\ left' \in Seq(Nat)
    BY <2>6, <2>7, <2>8, TakeProperties, DropProperties
  <2>10. got' \in Seq(Nat)
    BY <1>1, <2>6, <2>9, ConcatProperties
  <2> QED
    BY <1>17, <2>2, <2>9, <2>10 DEF ParseData, Return, TypeOK, Loc, sender, network
<1>18. CASE UNCHANGED vars
  BY <1>18 DEF vars, TypeOK
<1> QED
  BY <1>2, <1>3, <1>4, <1>5, <1>6, <1>7, <1>8, <1>9, <1>10, <1>11, <1>12, <1>13,
     <1>14, <1>15, <1>16, <1>17, <1>18 DEF Next, Sender, Network, Call, Continue

(* What raw_buf, the kernel and the wire hold are cells, and raw_buf never  *)
(* holds more than was allocated for it.                                    *)
THEOREM TypeCorrect == Spec => []TypeOK
<1> QED
  BY InitType, TypeStep, PTL DEF Spec

-----------------------------------------------------------------------------
(* The invariant holds at the start and at every step.                      *)

LEMMA Lengths ==
  ASSUME TypeOK
  PROVE  /\ Len(raw) \in Nat /\ Len(kern) \in Nat /\ Len(wire) \in Nat
         /\ Len(ser) \in Nat /\ Len(left) \in Nat /\ Len(got) \in Nat /\ sent \in Nat
         /\ Handed \in Nat
<1>1. /\ Len(raw) \in Nat /\ Len(kern) \in Nat /\ Len(wire) \in Nat
      /\ Len(ser) \in Nat /\ Len(left) \in Nat /\ Len(got) \in Nat /\ sent \in Nat
  BY LenProperties DEF TypeOK
<1> QED
  BY <1>1 DEF Handed

(* The stream begins with raw_buf.                                          *)
LEMMA StreamFront ==
  ASSUME TypeOK
  PROVE  /\ raw \o kern \in Seq(Cells) /\ Len(raw \o kern) \in Nat
         /\ Stream \in Seq(Cells) /\ Len(Stream) \in Nat /\ Len(raw) <= Len(Stream)
         /\ \A i \in 1 .. Len(raw) : Stream[i] = raw[i]
<1>1. raw \in Seq(Cells) /\ kern \in Seq(Cells) /\ wire \in Seq(Cells)
  BY DEF TypeOK
<1>2. Len(raw) \in Nat /\ Len(kern) \in Nat /\ Len(wire) \in Nat
  BY Lengths
<1> DEFINE s == raw \o kern
           t == s \o wire
<1>3. /\ s \in Seq(Cells) /\ Len(s) = Len(raw) + Len(kern)
      /\ \A i \in 1 .. Len(raw) + Len(kern) :
            s[i] = IF i <= Len(raw) THEN raw[i] ELSE kern[i - Len(raw)]
  BY <1>1, ConcatProperties
<1> HIDE DEF s
<1>4. /\ t \in Seq(Cells) /\ Len(t) = Len(s) + Len(wire)
      /\ \A i \in 1 .. Len(s) + Len(wire) :
            t[i] = IF i <= Len(s) THEN s[i] ELSE wire[i - Len(s)]
  <2>1. s \in Seq(Cells) /\ wire \in Seq(Cells)
    BY <1>1, <1>3
  <2> QED
    BY <2>1, ConcatProperties
<1>5. Stream = t
  BY DEF Stream, s
<1> HIDE DEF t
<1>6. \A i \in 1 .. Len(raw) : s[i] = raw[i]
  BY <1>2, <1>3
<1>7. \A i \in 1 .. Len(raw) : t[i] = raw[i]
  BY <1>2, <1>3, <1>4, <1>6
<1>8. Len(s) \in Nat /\ Len(t) \in Nat /\ Len(raw) <= Len(t)
  BY <1>2, <1>3, <1>4
<1> QED
  BY <1>3, <1>4, <1>5, <1>7, <1>8 DEF s

(* What is taken off raw_buf is taken off the stream.                       *)
LEMMA DropStream ==
  ASSUME TypeOK, NEW n \in 0 .. Len(raw),
         raw' = Drop(raw, n), kern' = kern, wire' = wire
  PROVE  Stream' = Drop(Stream, n)
<1>1. raw \in Seq(Cells) /\ kern \in Seq(Cells) /\ wire \in Seq(Cells)
  BY DEF TypeOK
<1>2. raw \o kern \in Seq(Cells) /\ n \in 0 .. Len(raw \o kern)
  <2>1. Len(raw) \in Nat /\ Len(kern) \in Nat
    BY Lengths
  <2>2. Len(raw \o kern) = Len(raw) + Len(kern) /\ raw \o kern \in Seq(Cells)
    BY <1>1, ConcatProperties
  <2> QED
    BY <2>1, <2>2
<1>3. Drop(raw, n) \o kern = Drop(raw \o kern, n)
  BY <1>1, DropFirst
<1>4. Drop(raw \o kern, n) \o wire = Drop((raw \o kern) \o wire, n)
  BY <1>1, <1>2, DropFirst
<1> QED
  BY <1>3, <1>4 DEF Stream

(* What the sender puts on the wire is behind everything else.              *)
LEMMA BehindStream ==
  ASSUME TypeOK, NEW t \in Seq(Cells), raw' = raw, kern' = kern, wire' = wire \o t
  PROVE  Stream' \in Seq(Cells) /\ Joined(Stream', Stream, t)
<1> DEFINE s == raw \o kern
<1>1. s \in Seq(Cells) /\ wire \in Seq(Cells) /\ Stream \in Seq(Cells)
  BY StreamFront DEF TypeOK
<1>2. Stream' = s \o (wire \o t) /\ Stream = s \o wire
  BY DEF Stream
<1> HIDE DEF s
<1>3. s \o (wire \o t) = (s \o wire) \o t
  BY <1>1, Associative
<1>4. Stream' = Stream \o t
  BY <1>2, <1>3
<1>5. Stream \o t \in Seq(Cells)
  BY <1>1, ConcatProperties
<1> QED
  BY <1>4, <1>5 DEF Joined

(* Bytes in ascending order that go on where others end.                    *)
LEMMA FollowParts ==
  ASSUME NEW d \in Seq(Nat), NEW p \in Nat, Follow(d, p),
         NEW n \in 0 .. Len(d), NEW q \in Nat, Sum(p, n, q)
  PROVE  Follow(Take(d, n), p) /\ Follow(Drop(d, n), q)
<1>1. Len(d) \in Nat /\ n \in Nat /\ p + n = q
  BY LenProperties DEF Sum
<1>2. /\ Len(Take(d, n)) = n /\ \A i \in 1 .. n : Take(d, n)[i] = d[i]
      /\ Len(Drop(d, n)) = Len(d) - n /\ \A i \in 1 .. Len(d) - n : Drop(d, n)[i] = d[n + i]
  BY TakeProperties, DropProperties
<1>3. \A j \in 1 .. Len(d) : d[j] = p + j
  BY DEF Follow
<1> DEFINE t == Take(d, n)
           u == Drop(d, n)
<1> HIDE DEF t, u
<1>4. Follow(t, p)
  <2>1. \A i \in 1 .. n : i \in 1 .. Len(d)
    BY <1>1
  <2>2. Len(t) = n /\ \A i \in 1 .. n : t[i] = p + i
    BY <1>2, <1>3, <2>1 DEF t
  <2> QED
    BY <2>2 DEF Follow
<1>5. ASSUME NEW i \in 1 .. Len(d) - n PROVE u[i] = q + i
  <2>1. n + i \in 1 .. Len(d) /\ p + (n + i) = q + i
    BY <1>1
  <2> QED
    BY <1>2, <1>3, <2>1 DEF u
<1>6. Follow(u, q)
  BY <1>2, <1>5 DEF Follow, u
<1> QED
  BY <1>4, <1>6 DEF t, u

(* The same, when the first n of them are put behind others.                *)
LEMMA FollowOn ==
  ASSUME NEW s \in Seq(Nat), NEW t \in Seq(Nat),
         Follow(s, 0), Follow(t, Len(s)), NEW n \in 0 .. Len(t)
  PROVE  /\ Follow(s \o Take(t, n), 0)
         /\ Follow(Drop(t, n), Len(s \o Take(t, n)))
         /\ Len(s \o Take(t, n)) + Len(Drop(t, n)) = Len(s) + Len(t)
<1>1. Len(s) \in Nat /\ Len(t) \in Nat /\ n \in Nat
  BY LenProperties
<1>2. PICK k \in Nat : Len(s) = k
  BY <1>1
<1>3. PICK q \in Nat : k + n = q
  BY <1>1
<1>4. Follow(t, k) /\ Sum(k, n, q)
  BY <1>2, <1>3 DEF Sum
<1>5. Follow(Take(t, n), k) /\ Follow(Drop(t, n), q)
  BY <1>4, FollowParts
<1>6. Take(t, n) \in Seq(Nat) /\ Len(Take(t, n)) = n /\ Len(Drop(t, n)) = Len(t) - n
  BY TakeProperties, DropProperties
<1> DEFINE u == Take(t, n)
           v == s \o u
<1>7. u \in Seq(Nat) /\ Len(u) = n /\ Follow(u, k)
  BY <1>5, <1>6
<1> HIDE DEF u
<1>8. /\ Len(v) = Len(s) + Len(u)
      /\ \A i \in 1 .. Len(s) + Len(u) : v[i] = IF i <= Len(s) THEN s[i] ELSE u[i - Len(s)]
  BY <1>7, ConcatProperties
<1> HIDE DEF v
<1>9. Len(v) = q
  BY <1>2, <1>3, <1>7, <1>8
<1>10. ASSUME NEW i \in 1 .. q PROVE v[i] = 0 + i
  <2>1. CASE i <= k
    <3>1. i \in 1 .. Len(s) /\ v[i] = s[i]
      BY <1>1, <1>2, <1>3, <1>7, <1>8, <2>1
    <3> QED
      BY <3>1 DEF Follow
  <2>2. CASE i > k
    <3>1. i - k \in 1 .. n /\ v[i] = u[i - k] /\ k + (i - k) = i /\ 0 + i = i
      BY <1>1, <1>2, <1>3, <1>7, <1>8, <2>2
    <3>2. u[i - k] = k + (i - k)
      BY <1>7, <3>1 DEF Follow
    <3> QED
      BY <3>1, <3>2
  <2> QED
    BY <2>1, <2>2
<1>11. Follow(v, 0)
  BY <1>9, <1>10 DEF Follow
<1> HIDE DEF Follow
<1>12. Follow(Drop(t, n), Len(v))
  BY <1>5, <1>9, SMTT(30)
<1>13. Len(v) + Len(Drop(t, n)) = Len(s) + Len(t)
  <2>1. Len(Drop(t, n)) = Len(t) - n
    BY <1>6
  <2> QED
    BY <1>1, <1>2, <1>3, <1>9, <2>1, SMTT(30)
<1> QED
  BY <1>11, <1>12, <1>13 DEF u, v

LEMMA InitInv == Init => IInv
<1> SUFFICES ASSUME Init PROVE IInv
  OBVIOUS
<1>1. TypeOK
  BY InitType
<1>2. sent = 0 /\ ser = <<>> /\ got = <<>> /\ left = <<>> /\ ~eof /\ out = "open"
      /\ raw = <<>> /\ kern = <<>> /\ wire = <<>> /\ pc = "idle" /\ ret = "none"
  BY DEF Init
<1>3. Len(<<>>) = 0 /\ <<>> \o <<>> = <<>>
  OBVIOUS
<1>4. Put = 0 /\ Handed = 0 /\ Stream = <<>>
  <2>1. Put = 0 /\ Handed = 0
    <3>1. Len(ser) = 0 /\ Len(got) = 0 /\ Len(left) = 0 /\ sent = 0
      BY <1>2, <1>3
    <3>2. 0 - 0 = 0 /\ 0 + 0 = 0
      OBVIOUS
    <3> QED
      BY <3>1, <3>2, Zenon DEF Put, Handed
  <2>2. Stream = <<>>
    BY <1>2, <1>3 DEF Stream
  <2> QED
    BY <2>1, <2>2
<1>5. Follow(<<>>, 0)
  BY DEF Follow
<1>6. Heads(<<>>) = {}
  BY DEF Heads
<1>7. Carries(<<>>, 0, 0, "open")
  <2>1. Trunks(<<>>, 0) /\ AtMost(<<>>, 0, 0) /\ NoEnd(<<>>) /\ Whole(<<>>)
    BY <1>6 DEF Trunks, AtMost, NoEnd, Whole
  <2>2. Before(<<>>, Len(<<>>) + 1, 0) = 0
    BY <1>3 DEF Before
  <2> QED
    BY <2>1, <2>2 DEF Carries, OpenStream
<1>8. Numbered
  BY <1>2, <1>3, <1>4, <1>5 DEF Numbered
<1>9. Between
  BY <1>2, <1>4, <1>7 DEF Between
<1>10. Drained
  BY <1>2 DEF Drained
<1> QED
  BY <1>1, <1>8, <1>9, <1>10 DEF IInv

(* A step that changes nothing of what is between the two programs.         *)
LEMMA Kept ==
  ASSUME Between, Stream' = Stream, Handed' = Handed, Put' = Put,
         eof' = eof, out' = out, out' = "closed" => ser' = <<>>
  PROVE  Between'
BY DEF Between

(* The sender: what it writes follows what it wrote before.                 *)
LEMMA SenderStep ==
  ASSUME IInv, TypeOK', Sender
  PROVE  Numbered' /\ Between' /\ Drained'
<1>1. TypeOK /\ Numbered /\ Between /\ Drained
  BY DEF IInv
<1>2. /\ Len(ser) \in Nat /\ Len(wire) \in Nat /\ sent \in Nat /\ Handed \in Nat
      /\ Put \in Nat /\ ser \in Seq(Nat) /\ wire \in Seq(Cells) /\ Stream \in Seq(Cells)
  BY <1>1, Lengths, StreamFront DEF TypeOK, Numbered
<1>3. /\ UNCHANGED <<kern, raw, left, eof, pc, ret, got>> /\ out = "open"
  BY DEF Sender, Write, Digest, Close, Break, network, receiver
<1>4. ~eof
  BY <1>1, <1>3 DEF Drained
<1>5. Carries(Stream, Handed, Put, "open")
  BY <1>1, <1>3, <1>4 DEF Between
<1>6. Handed' = Handed
  BY <1>3 DEF Handed
<1>7. Drained'
  BY <1>1, <1>3, <1>4 DEF Drained
<1>8. Follow(got', 0) /\ Follow(left', Len(got'))
  BY <1>1, <1>3 DEF Numbered
<1>9. ASSUME NEW n \in 1 .. MaxPiece, Write(n)
      PROVE  Numbered' /\ Between'
  <2>1. n \in Nat /\ ser = <<>> /\ Len(ser) = 0
    BY <1>9, BoundAssumption DEF Write
  <2>2. ser' = [i \in 1 .. n |-> sent + i] /\ sent' = sent + n /\ out' = out /\ wire' = wire
    BY <1>9 DEF Write, network
  <2>3. Len(ser') = n /\ \A j \in 1 .. n : ser'[j] = sent + j
    BY <2>1, <2>2
  <2>4. Put = sent /\ Put' = sent
    BY <1>2, <2>1, <2>2, <2>3 DEF Put
  <2>5. Follow(ser', sent)
    BY <2>3 DEF Follow
  <2>6. Numbered'
    BY <1>2, <1>8, <2>4, <2>5 DEF Numbered
  <2>7. Stream' = Stream
    BY <1>3, <2>2 DEF Stream
  <2>8. Between'
    BY <1>1, <1>3, <1>6, <2>2, <2>4, <2>7, Kept
  <2> QED
    BY <2>6, <2>8
<1>10. ASSUME Digest
      PROVE  Numbered' /\ Between'
  <2>1. PICK n \in 0 .. Len(ser) : n = Smaller(TrunkMax, Len(ser)) /\ n > 0
    <3>1. Len(ser) # 0
      BY <1>2, <1>10, EmptySeq DEF Digest
    <3> QED
      <4>1. TrunkMax \in Nat /\ TrunkMax > 0 /\ Len(ser) \in Nat /\ Len(ser) > 0
        BY <1>2, <3>1, SizeAssumption
      <4>2. /\ Smaller(TrunkMax, Len(ser)) \in 0 .. Len(ser)
            /\ Smaller(TrunkMax, Len(ser)) > 0
        BY <4>1, SmallerIn
      <4> QED
        BY <4>2
  <2>2. wire' = wire \o Trunk(Take(ser, n)) /\ ser' = Drop(ser, n) /\ sent' = sent /\ out' = out
    BY <1>10, <2>1 DEF Digest
  <2>3. PICK q \in Nat : Put + n = q
    BY <1>2, <2>1
  <2>4. Sum(Put, n, q)
    BY <2>3 DEF Sum
  <2>5. PICK d \in Seq(Nat) : d = Take(ser, n) /\ Len(d) = n
    BY <1>2, <2>1, TakeProperties
  <2>6. Follow(d, Put) /\ Follow(ser', q)
    BY <1>1, <1>2, <2>1, <2>2, <2>4, <2>5, FollowParts DEF Numbered
  <2>7. Put' = q
    <3>1. Len(ser') = Len(ser) - n
      BY <1>2, <2>1, <2>2, DropProperties
    <3> QED
      BY <1>2, <2>1, <2>2, <2>3, <3>1 DEF Put
  <2>8. Numbered'
    BY <1>8, <2>6, <2>7 DEF Numbered
  <2>9. Trunk(d) \in Seq(Cells) /\ wire' = wire \o Trunk(d)
    BY <2>2, <2>5, TrunkCells
  <2>10. Stream' \in Seq(Cells) /\ Joined(Stream', Stream, Trunk(d))
    BY <1>1, <1>3, <2>9, BehindStream
  <2>11. n \in Nat /\ n > 0
    BY <1>2, <2>1
  <2>12. Carries(Stream', Handed, q, "open")
    BY <1>2, <1>5, <2>4, <2>5, <2>6, <2>10, <2>11, DigestCarries
  <2>13. Between'
    BY <1>3, <1>4, <1>6, <2>2, <2>7, <2>12 DEF Between
  <2> QED
    BY <2>8, <2>13
<1>11. ASSUME Close
       PROVE  Numbered' /\ Between'
  <2>1. /\ ser = <<>> /\ wire' = wire \o EndTrunk /\ out' = "closed" /\ ser' = ser /\ sent' = sent
    BY <1>11 DEF Close
  <2>2. Put' = Put
    BY <2>1 DEF Put
  <2>3. Numbered'
    BY <1>1, <1>8, <2>1, <2>2 DEF Numbered
  <2>4. Stream' \in Seq(Cells) /\ Joined(Stream', Stream, EndTrunk)
    BY <1>1, <1>3, <2>1, EndTrunkCells, BehindStream
  <2>5. Carries(Stream', Handed, Put, "closed")
    BY <1>2, <1>5, <2>4, CloseCarries
  <2>6. Between'
    BY <1>3, <1>4, <1>6, <2>1, <2>2, <2>5 DEF Between
  <2> QED
    BY <2>3, <2>6
<1>12. ASSUME Break
       PROVE  Numbered' /\ Between'
  <2>1. PICK n \in 0 .. Len(wire) : wire' = Take(wire, n)
    BY <1>12 DEF Break
  <2>2. out' = "broken" /\ ser' = ser /\ sent' = sent
    BY <1>12 DEF Break
  <2>3. Put' = Put
    BY <2>2 DEF Put
  <2>4. Numbered'
    BY <1>1, <1>8, <2>2, <2>3 DEF Numbered
  <2>5. PICK s \in Seq(Cells) : raw \o kern = s /\ Len(s) \in Nat
    BY <1>1, StreamFront
  <2>6. s \o Take(wire, n) = Take(s \o wire, Len(s) + n)
    BY <1>2, TakeSecond
  <2>7. Stream' = Take(Stream, Len(s) + n)
    BY <1>3, <2>1, <2>5, <2>6 DEF Stream
  <2>8. Len(s) + n \in 0 .. Len(Stream)
    <3>1. Len(s \o wire) = Len(s) + Len(wire)
      BY <1>2, ConcatProperties
    <3>2. Stream = s \o wire
      BY <2>5 DEF Stream
    <3>3. Len(Stream) = Len(s) + Len(wire)
      BY <3>1, <3>2
    <3> QED
      BY <1>2, <2>5, <3>3
  <2>9. Carries(Take(Stream, Len(s) + n), Handed, Put, "broken")
    BY <1>2, <1>5, <2>8, BreakCarries
  <2>10. Between'
    BY <1>3, <1>4, <1>6, <2>2, <2>3, <2>7, <2>9 DEF Between
  <2> QED
    BY <2>4, <2>10
<1> QED
  BY <1>7, <1>9, <1>10, <1>11, <1>12 DEF Sender

(* The network: nothing is reordered.                                       *)
LEMMA NetworkStep ==
  ASSUME IInv, TypeOK', Network
  PROVE  Numbered' /\ Between' /\ Drained'
<1>1. TypeOK /\ Numbered /\ Between /\ Drained
  BY DEF IInv
<1>2. UNCHANGED <<sent, ser, out, raw, left, eof, pc, ret, got>>
  BY DEF Network, Transfer, TransferFin, sender, receiver
<1>3. Put' = Put /\ Handed' = Handed
  BY <1>2 DEF Put, Handed
<1>4. Stream' = Stream
  <2>1. ASSUME NEW n \in 1 .. Len(wire), Transfer(n) PROVE Stream' = Stream
    <3>1. kern' = kern \o Take(wire, n) /\ wire' = Drop(wire, n)
      BY <2>1 DEF Transfer
    <3>2. /\ raw \in Seq(Cells) /\ kern \in Seq(Cells) /\ wire \in Seq(Cells)
          /\ raw \o kern \in Seq(Cells)
      BY <1>1, StreamFront DEF TypeOK
    <3>3. n \in 0 .. Len(wire)
      BY <1>1, Lengths
    <3>4. Take(wire, n) \in Seq(Cells)
      BY <3>2, <3>3, TakeProperties
    <3>5. PICK u \in Seq(Cells) : Take(wire, n) = u
      BY <3>4
    <3>6. raw \o (kern \o u) = (raw \o kern) \o u
      BY <3>2, Associative
    <3>7. ((raw \o kern) \o Take(wire, n)) \o Drop(wire, n) = (raw \o kern) \o wire
      BY <3>2, <3>3, Moved
    <3> QED
      BY <1>2, <3>1, <3>5, <3>6, <3>7 DEF Stream
  <2>2. ASSUME TransferFin PROVE Stream' = Stream
    BY <1>2, <2>2 DEF TransferFin, Stream
  <2> QED
    BY <2>1, <2>2 DEF Network
<1>5. Between'
  BY <1>1, <1>2, <1>3, <1>4, Kept DEF Between
<1>6. Numbered' /\ Drained'
  BY <1>1, <1>2, <1>3 DEF Numbered, Drained
<1> QED
  BY <1>5, <1>6

(* A read that starts: what read_buf holds is handed out.                   *)
LEMMA CallStep ==
  ASSUME IInv, TypeOK', Call
  PROVE  Numbered' /\ Between' /\ Drained'
<1>1. TypeOK /\ Numbered /\ Between /\ Drained
  BY DEF IInv
<1>2. UNCHANGED <<sent, ser, out, wire, kern, raw, eof>>
  BY DEF Call, ReadEof, ReadLeft, ReadCall, sender, network
<1>3. Put' = Put /\ Stream' = Stream
  BY <1>2 DEF Put, Stream
<1>4. ASSUME NEW n \in 1 .. MaxPiece, ReadEof(n)
      PROVE  Numbered' /\ Between' /\ Drained'
  <2>1. UNCHANGED <<left, got>> /\ eof /\ pc' = "idle"
    BY <1>4 DEF ReadEof, Return
  <2>2. Handed' = Handed
    BY <2>1 DEF Handed
  <2>3. Between'
    BY <1>1, <1>2, <1>3, <2>2, Kept DEF Between
  <2> QED
    BY <1>1, <1>2, <1>3, <2>1, <2>3 DEF Numbered, Drained
<1>5. ASSUME NEW n \in 1 .. MaxPiece, ReadLeft(n)
      PROVE  Numbered' /\ Between' /\ Drained'
  <2>1. PICK m \in 0 .. Len(left) : got' = got \o Take(left, m) /\ left' = Drop(left, m)
    <3>1. n \in Nat /\ Len(left) \in Nat
      BY <1>1, BoundAssumption, Lengths
    <3> QED
      BY <1>5, <3>1, SmallerIn DEF ReadLeft
  <2>2. pc' = "idle" /\ ret' = "data" /\ ~eof
    BY <1>5 DEF ReadLeft, Return
  <2>3. got \in Seq(Nat) /\ left \in Seq(Nat) /\ Follow(got, 0) /\ Follow(left, Len(got))
    BY <1>1 DEF TypeOK, Numbered
  <2>4. /\ Follow(got', 0) /\ Follow(left', Len(got'))
        /\ Len(got') + Len(left') = Len(got) + Len(left)
    BY <2>1, <2>3, FollowOn
  <2>5. Handed' = Handed
    BY <2>4 DEF Handed
  <2>6. Between'
    BY <1>1, <1>2, <1>3, <2>5, Kept DEF Between
  <2> QED
    BY <1>1, <1>2, <1>3, <2>2, <2>4, <2>6 DEF Numbered, Drained
<1>6. ASSUME NEW n \in 1 .. MaxPiece, NEW b \in BOOLEAN, ReadCall(n, b)
      PROVE  Numbered' /\ Between' /\ Drained'
  <2>1. UNCHANGED <<left, ret, got>> /\ ~eof /\ left = <<>>
    BY <1>6 DEF ReadCall
  <2>2. Handed' = Handed
    BY <2>1 DEF Handed
  <2>3. Between'
    BY <1>1, <1>2, <1>3, <2>2, Kept DEF Between
  <2> QED
    BY <1>1, <1>2, <1>3, <2>1, <2>3 DEF Numbered, Drained
<1> QED
  BY <1>4, <1>5, <1>6 DEF Call

(* The reading of the descriptor, and the decoding of a trunk.              *)
LEMMA ContinueStep ==
  ASSUME IInv, TypeOK', Continue
  PROVE  Numbered' /\ Between' /\ Drained'
<1>1. TypeOK /\ Numbered /\ Between /\ Drained
  BY DEF IInv
<1>2. UNCHANGED <<sent, ser, out, wire>> /\ pc # "idle"
  BY DEF Continue, Pull, PullDone, Fetch, FetchEof, Incomplete, ParseEnd, ParseData,
         Receive, Parsing, sender, network
<1>3. Put' = Put
  BY <1>2 DEF Put
<1>4. ~eof /\ left = <<>>
  BY <1>1, <1>2 DEF Drained
<1>5. ASSUME UNCHANGED <<left, eof, got>>, Stream' = Stream, ret' = "again" \/ ret' = ret
      PROVE  Numbered' /\ Between' /\ Drained'
  <2>1. Handed' = Handed
    BY <1>5 DEF Handed
  <2>2. Between'
    BY <1>1, <1>2, <1>3, <1>5, <2>1, Kept DEF Between
  <2> QED
    BY <1>1, <1>2, <1>3, <1>4, <1>5, <2>2 DEF Numbered, Drained
<1>6. ASSUME Pull \/ Fetch
      PROVE  UNCHANGED <<left, eof, got>> /\ Stream' = Stream /\ ret' = ret
  <2>1. kern # <<>> /\ Receive(Smaller(Room, Len(kern)))
    BY <1>6 DEF Pull, Fetch
  <2>2. Stream' = Stream
    BY <1>1, <2>1, ReceiveType
  <2> QED
    BY <2>1, <2>2 DEF Receive
<1>7. ASSUME PullDone \/ FetchEof \/ Incomplete
      PROVE  /\ UNCHANGED <<left, eof, got>> /\ Stream' = Stream
             /\ ret' = "again" \/ ret' = ret
  <2>1. UNCHANGED <<left, eof, got, raw, kern>> /\ (ret' = "again" \/ ret' = ret)
    BY <1>7 DEF PullDone, FetchEof, Incomplete, Return, network
  <2> QED
    BY <1>2, <2>1 DEF Stream
<1>8. ASSUME ParseEnd \/ ParseData
      PROVE  /\ Stream # <<>> /\ Stream[1] = raw[1] /\ raw[1].val \in Nat
             /\ Stream \in Seq(Cells)
             /\ Stream' = Drop(Stream, 1 + raw[1].val)
             /\ 1 + raw[1].val \in 0 .. Len(Stream)
  <2>1. Complete /\ Consume /\ kern' = kern
    BY <1>8 DEF ParseEnd, ParseData, network
  <2>2. raw # <<>> /\ raw[1].val \in Nat /\ raw' = Drop(raw, 1 + raw[1].val)
        /\ 1 + raw[1].val \in 0 .. Len(raw)
    BY <1>1, <2>1, DecodeType
  <2>3. PICK n \in 0 .. Len(raw) : 1 + raw[1].val = n
    BY <2>2
  <2>4. Stream' = Drop(Stream, n)
    BY <1>1, <1>2, <2>1, <2>2, <2>3, DropStream
  <2>5. Stream \in Seq(Cells) /\ Len(raw) \in Nat /\ Len(Stream) \in Nat
        /\ Len(raw) <= Len(Stream) /\ \A i \in 1 .. Len(raw) : Stream[i] = raw[i]
    BY <1>1, StreamFront, Lengths
  <2>6. Len(raw) # 0
    BY <1>1, <2>2, EmptySeq DEF TypeOK
  <2>7. 1 \in 1 .. Len(raw) /\ Len(Stream) # 0 /\ n \in 0 .. Len(Stream)
    BY <2>5, <2>6
  <2>8. Stream # <<>>
    BY <2>5, <2>7, EmptySeq
  <2> QED
    BY <2>2, <2>3, <2>4, <2>5, <2>7, <2>8
<1>9. Carries(Stream, Handed, Put, out) /\ Handed \in Nat /\ Put \in Nat
  BY <1>1, <1>4, Lengths DEF Between, Numbered
<1>10. ASSUME ParseEnd
      PROVE  Numbered' /\ Between' /\ Drained'
  <2>1. UNCHANGED <<left, got>> /\ eof' /\ pc' = "idle" /\ raw[1].val <= 1
    BY <1>10 DEF ParseEnd, Return
  <2>2. /\ Stream # <<>> /\ Stream[1] = raw[1] /\ raw[1].val \in Nat
        /\ Stream \in Seq(Cells)
        /\ Stream' = Drop(Stream, 1 + raw[1].val)
        /\ 1 + raw[1].val \in 0 .. Len(Stream)
    BY <1>8, <1>10
  <2>3. out \in {"open", "closed", "broken"} /\ Stream[1].val <= 1
    BY <1>1, <2>1, <2>2 DEF TypeOK
  <2>4. /\ out = "closed" /\ Stream[1].val = 0 /\ Len(Stream) = 1
        /\ Carries(<<>>, Handed, Put, "ended")
    BY <1>9, <2>2, <2>3, EndCarries
  <2>5. Stream' = <<>>
    <3>1. Stream' = Drop(Stream, 1) /\ 1 \in 0 .. Len(Stream)
      BY <2>2, <2>4
    <3>2. Drop(Stream, 1) \in Seq(Cells) /\ Len(Drop(Stream, 1)) = Len(Stream) - 1
      BY <2>2, <3>1, DropProperties
    <3>3. Len(Drop(Stream, 1)) = 0
      BY <2>4, <3>2
    <3> QED
      BY <3>1, <3>2, <3>3, EmptySeq
  <2>6. Handed' = Handed
    BY <2>1 DEF Handed
  <2>7. Between'
    BY <1>1, <1>2, <1>3, <2>1, <2>4, <2>5, <2>6 DEF Between
  <2>8. Drained'
    BY <1>2, <1>4, <2>1, <2>4 DEF Drained
  <2>9. Numbered'
    BY <1>1, <1>2, <1>3, <2>1 DEF Numbered
  <2> QED
    BY <2>7, <2>8, <2>9
<1>11. ASSUME ParseData
       PROVE  Numbered' /\ Between' /\ Drained'
  <2>1. Complete /\ raw[1].val > 1 /\ pc' = "idle" /\ ret' = "data" /\ eof' = eof
    BY <1>11 DEF ParseData, Return
  <2>2. /\ Stream # <<>> /\ Stream[1] = raw[1] /\ raw[1].val \in Nat
        /\ Stream \in Seq(Cells)
        /\ Stream' = Drop(Stream, 1 + raw[1].val)
        /\ 1 + raw[1].val \in 0 .. Len(Stream)
    BY <1>8, <1>11
  <2>3. PICK v \in Nat : raw[1].val = v /\ Stream[1].val = v /\ v > 1
    BY <2>1, <2>2
  <2>4. PICK n \in 0 .. Len(Stream) : 1 + v = n /\ n \in Nat /\ Sum(1, v, n)
    BY <2>2, <2>3 DEF Sum
  <2>5. PICK w \in Nat : v = w + 1 /\ Sum(1, w, v)
    <3>1. v - 1 \in Nat /\ v = (v - 1) + 1 /\ 1 + (v - 1) = v
      BY <2>3
    <3> QED
      BY <3>1 DEF Sum
  <2>6. PICK c \in Nat : Handed + w = c /\ Sum(Handed, w, c)
    BY <1>9 DEF Sum
  <2>7. Stream' \in Seq(Cells) /\ Rest(Stream', Stream, n)
    <3>1. PICK s \in Seq(Cells) : Stream = s /\ Len(s) \in Nat
      BY <2>2, LenProperties
    <3>2. n \in 0 .. Len(s) /\ Stream' = Drop(s, n)
      BY <2>2, <2>3, <2>4, <3>1
    <3>3. /\ Drop(s, n) \in Seq(Cells) /\ Len(Drop(s, n)) = Len(s) - n
          /\ \A i \in 1 .. Len(s) - n : Drop(s, n)[i] = s[n + i]
      BY <3>2, DropProperties
    <3>4. PICK t \in Seq(Cells) : Drop(s, n) = t
      BY <3>3
    <3>5. Len(s) = Len(t) + n /\ \A i \in 1 .. Len(t) : t[i] = s[i + n]
      BY <3>1, <3>2, <3>3, <3>4
    <3>6. Rest(t, s, n)
      BY <3>5 DEF Rest
    <3> QED
      BY <3>1, <3>2, <3>4, <3>6
  <2>8. out # "ended"
    BY <1>1 DEF TypeOK
  <2>9. /\ \A j \in 1 .. w : Stream[1 + (j + 1)].val = Handed + j
        /\ Carries(Stream', c, Put, out)
    <3>1. Carries(Stream, Handed, Put, out) /\ Handed \in Nat /\ Put \in Nat
      BY <1>9
    <3>2. Stream \in Seq(Cells) /\ Stream # <<>> /\ Stream[1].val = v /\ v > 1
      BY <2>2, <2>3
    <3>3. n \in Nat /\ Sum(1, v, n) /\ Sum(1, w, v) /\ Sum(Handed, w, c)
      BY <2>4, <2>5, <2>6
    <3> QED
      BY <2>7, <2>8, <3>1, <3>2, <3>3, DataCarries
  <2>10. PICK d \in Seq(Nat) : /\ TrunkData = d /\ Len(d) = w
                               /\ \A j \in 1 .. w : d[j] = raw[1 + (j + 1)].val
    BY <1>1, <2>1, <2>3, <2>5, DataType
  <2>11. Handed = Len(got) /\ Len(got) \in Nat
    <3>1. Len(left) = 0 /\ Len(got) \in Nat
      BY <1>1, <1>4, EmptySeq, Lengths DEF TypeOK
    <3> QED
      BY <3>1 DEF Handed
  <2>12. Follow(d, Len(got))
    <3>1. ASSUME NEW j \in 1 .. w PROVE d[j] = Len(got) + j
      <4>1. /\ Len(raw) \in Nat /\ \A i \in 1 .. Len(raw) : Stream[i] = raw[i]
            /\ Len(raw) >= 1 + v
        BY <1>1, <2>1, <2>3, StreamFront, Lengths DEF Complete
      <4>2. 1 + (j + 1) \in 1 .. Len(raw)
        BY <2>5, <4>1
      <4>3. Stream[1 + (j + 1)] = raw[1 + (j + 1)]
        BY <4>1, <4>2
      <4> QED
        BY <2>9, <2>10, <2>11, <4>3
    <3> QED
      BY <2>10, <3>1 DEF Follow
  <2>13. PICK m \in 0 .. Len(d) : got' = got \o Take(d, m) /\ left' = Drop(d, m)
    <3>1. want \in Nat /\ Len(d) \in Nat
      BY <1>1, LenProperties DEF TypeOK
    <3>2. /\ got' = got \o Take(d, Smaller(want, Len(d)))
          /\ left' = Drop(d, Smaller(want, Len(d)))
      BY <1>11, <2>10 DEF ParseData
    <3> QED
      BY <3>1, <3>2, SmallerIn
  <2>14. got \in Seq(Nat) /\ Follow(got, 0)
    BY <1>1 DEF TypeOK, Numbered
  <2>15. /\ Follow(got', 0) /\ Follow(left', Len(got'))
         /\ Len(got') + Len(left') = Len(got) + Len(d)
    BY <2>12, <2>13, <2>14, FollowOn
  <2>16. Handed' = c
    BY <2>6, <2>10, <2>11, <2>15 DEF Handed
  <2>17. Between'
    BY <1>1, <1>2, <1>3, <1>4, <2>1, <2>9, <2>16 DEF Between
  <2>18. Numbered'
    BY <1>1, <1>2, <1>3, <2>15 DEF Numbered
  <2>19. Drained'
    BY <1>4, <2>1 DEF Drained
  <2> QED
    BY <2>17, <2>18, <2>19
<1> QED
  BY <1>5, <1>6, <1>7, <1>10, <1>11 DEF Continue

LEMMA InvStep == IInv /\ [Next]_vars => IInv'
<1> SUFFICES ASSUME IInv, [Next]_vars PROVE IInv'
  OBVIOUS
<1>1. TypeOK'
  BY TypeStep DEF IInv
<1>2. CASE Next
  BY <1>1, <1>2, SenderStep, NetworkStep, CallStep, ContinueStep DEF Next, IInv
<1>3. CASE UNCHANGED vars
  <2>1. Stream' = Stream /\ Handed' = Handed /\ Put' = Put
    BY <1>3 DEF vars, Stream, Handed, Put
  <2>2. Between'
    BY <1>3, <2>1, Kept DEF IInv, Between, vars
  <2>3. Numbered' /\ Drained'
    BY <1>3, <2>1 DEF IInv, Numbered, Drained, vars
  <2> QED
    BY <1>1, <2>2, <2>3 DEF IInv
<1> QED
  BY <1>2, <1>3

LEMMA Invariant == Spec => []IInv
BY InitInv, InvStep, PTL DEF Spec

-----------------------------------------------------------------------------
(* What is between the two programs is put together in the order in which   *)
(* it was written: the bytes the reads hand out are 1, 2, 3 and so on, and  *)
(* none that was not written.                                               *)
THEOREM BytesInOrder == Spec => []InOrder
<1>1. ASSUME IInv PROVE InOrder
  <2>1. TypeOK /\ Numbered /\ Between
    BY <1>1 DEF IInv
  <2>2. Len(ser) \in Nat /\ Len(left) \in Nat /\ Len(got) \in Nat /\ sent \in Nat
    BY <2>1, Lengths
  <2>3. Handed <= Put
    BY <2>1 DEF Between, Carries, AtMost
  <2>4. Len(got) <= sent
    BY <2>2, <2>3 DEF Handed, Put
  <2>5. \A i \in 1 .. Len(got) : got[i] = 0 + i /\ 0 + i = i
    BY <2>1 DEF Numbered, Follow
  <2> QED
    BY <2>4, <2>5 DEF InOrder
<1> QED
  BY <1>1, Invariant, PTL

(* A read reports the end of the stream only when the sender has closed it  *)
(* and all it wrote was handed out: a connection that broke is never taken  *)
(* for one that ended, and the end never overtakes a byte.                  *)
THEOREM EndIsTheEnd == Spec => []EofMeansAll
<1>1. ASSUME IInv PROVE EofMeansAll
  <2> SUFFICES ASSUME ret = "eof" PROVE out = "closed" /\ Len(got) = sent
    BY DEF EofMeansAll
  <2>1. TypeOK /\ Numbered /\ Between /\ Drained
    BY <1>1 DEF IInv
  <2>2. Len(got) \in Nat /\ sent \in Nat
    BY <2>1, Lengths
  <2>3. eof /\ out = "closed" /\ left = <<>>
    BY <2>1 DEF Drained
  <2>4. Handed = Put /\ ser = <<>>
    BY <2>1, <2>3 DEF Between, Carries
  <2>5. Len(left) = 0 /\ Len(ser) = 0
    BY <2>3, <2>4
  <2>6. Len(got) = sent
    BY <2>2, <2>4, <2>5 DEF Handed, Put
  <2> QED
    BY <2>3, <2>6
<1> QED
  BY <1>1, Invariant, PTL

=============================================================================

--------------------------- MODULE VBufferProofs ---------------------------
(***************************************************************************)
(* VBuffer is correct for every number of threads, every initial size and   *)
(* every bound: type correctness, the order and completeness of what the    *)
(* readers get, the bounds of the copy, and the absence of lost wake-ups.   *)
(***************************************************************************)
EXTENDS VBuffer, SequenceTheorems, TLAPS

(* Only a thread that extends the buffer holds the mutex across steps; it   *)
(* found the buffer open, and nobody closes it meanwhile.                   *)
Locking == \A t \in Threads : (mut = t <=> pc[t] = "grow")
Growing == \A t \in Threads : pc[t] = "grow" => ~eof /\ arg[t] # 0

(* Bytes are thrown away only once the buffer is closed.                    *)
Dropping == /\ lossy => eof
            /\ \A t \in Threads : pc[t] = "flush" => eof

(* The inductive invariant.                                                 *)
IInv == /\ Typed /\ Locking /\ Growing /\ Dropping
        /\ Fifo /\ Fits /\ NoLostData /\ NoLostDrain

-----------------------------------------------------------------------------
(* What taking m bytes from the front of a sequence yields and leaves.      *)
LEMMA FrontAndRest ==
  ASSUME NEW s \in Seq(Nat), NEW m \in 0 .. Len(s)
  PROVE  /\ SubSeq(s, 1, m) \in Seq(Nat)
         /\ Len(SubSeq(s, 1, m)) = m
         /\ \A i \in 1 .. m : SubSeq(s, 1, m)[i] = s[i]
         /\ SubSeq(s, m + 1, Len(s)) \in Seq(Nat)
         /\ Len(SubSeq(s, m + 1, Len(s))) = Len(s) - m
         /\ \A i \in 1 .. Len(s) - m : SubSeq(s, m + 1, Len(s))[i] = s[m + i]
<1>1. Len(s) \in Nat /\ \A i \in 1 .. Len(s) : s[i] \in Nat
  BY LenProperties, ElementOfSeq
<1>2. m \in 0 .. Len(s)
  OBVIOUS
<1>3. /\ SubSeq(s, 1, m) \in Seq(Nat)
      /\ Len(SubSeq(s, 1, m)) = m
      /\ \A i \in 1 .. m : SubSeq(s, 1, m)[i] = s[i]
  <2>1. \A i \in 1 .. m : s[i] \in Nat
    BY <1>1, <1>2
  <2>2. /\ SubSeq(s, 1, m) \in Seq(Nat)
        /\ Len(SubSeq(s, 1, m)) = IF 1 <= m THEN m - 1 + 1 ELSE 0
        /\ \A i \in 1 .. m - 1 + 1 : SubSeq(s, 1, m)[i] = s[1 + i - 1]
    BY <2>1, <1>1, <1>2, SubSeqProperties
  <2> QED BY <2>2, <1>1, <1>2
<1>4. /\ SubSeq(s, m + 1, Len(s)) \in Seq(Nat)
      /\ Len(SubSeq(s, m + 1, Len(s))) = Len(s) - m
      /\ \A i \in 1 .. Len(s) - m : SubSeq(s, m + 1, Len(s))[i] = s[m + i]
  <2> DEFINE k == m + 1
             l == Len(s)
  <2>1. k \in Int /\ l \in Int /\ \A i \in k .. l : s[i] \in Nat
    BY <1>1, <1>2
  <2> HIDE DEF k, l
  <2>2. /\ SubSeq(s, k, l) \in Seq(Nat)
        /\ Len(SubSeq(s, k, l)) = IF k <= l THEN l - k + 1 ELSE 0
        /\ \A i \in 1 .. l - k + 1 : SubSeq(s, k, l)[i] = s[k + i - 1]
    BY <2>1, SubSeqProperties
  <2>3. /\ l - k + 1 = Len(s) - m
        /\ (IF k <= l THEN l - k + 1 ELSE 0) = Len(s) - m
        /\ \A i \in 1 .. Len(s) - m : k + i - 1 = m + i
    BY <1>1, <1>2 DEF k, l
  <2>4. /\ SubSeq(s, k, l) \in Seq(Nat)
        /\ Len(SubSeq(s, k, l)) = Len(s) - m
        /\ \A i \in 1 .. Len(s) - m : SubSeq(s, k, l)[i] = s[m + i]
    BY <2>2, <2>3
  <2> QED BY <2>4 DEF k, l
<1> QED BY <1>3, <1>4

(* Handing out the front of the buffer keeps the order.                     *)
LEMMA TakeKeepsFifo ==
  ASSUME Typed, Fifo, NEW n \in Nat, Take(Smaller(n, Len(buf))),
         UNCHANGED <<wrote, lossy>>
  PROVE  /\ Fifo'
         /\ buf' \in Seq(Nat) /\ took' \in Seq(Nat)
         /\ Len(buf') <= Len(buf)
         /\ buf = <<>> => buf' = <<>>
<1> DEFINE m == Smaller(n, Len(buf))
           front == SubSeq(buf, 1, m)
           rest == SubSeq(buf, m + 1, Len(buf))
<1>1. Len(buf) \in Nat /\ Len(took) \in Nat /\ took \in Seq(Nat) /\ buf \in Seq(Nat)
  BY LenProperties DEF Typed
<1>2. took' = took \o front /\ buf' = rest
  BY DEF Take
<1>3. /\ m \in 0 .. Len(buf)
      /\ front \in Seq(Nat)
      /\ Len(front) = m
      /\ \A i \in 1 .. m : front[i] = buf[i]
      /\ rest \in Seq(Nat)
      /\ Len(rest) = Len(buf) - m
      /\ \A i \in 1 .. Len(buf) - m : rest[i] = buf[m + i]
  <2>1. m \in 0 .. Len(buf)
    BY <1>1 DEF Smaller
  <2> HIDE DEF m
  <2>2. /\ SubSeq(buf, 1, m) \in Seq(Nat)
        /\ Len(SubSeq(buf, 1, m)) = m
        /\ \A i \in 1 .. m : SubSeq(buf, 1, m)[i] = buf[i]
        /\ SubSeq(buf, m + 1, Len(buf)) \in Seq(Nat)
        /\ Len(SubSeq(buf, m + 1, Len(buf))) = Len(buf) - m
        /\ \A i \in 1 .. Len(buf) - m : SubSeq(buf, m + 1, Len(buf))[i] = buf[m + i]
    BY <2>1, <1>1, FrontAndRest
  <2> QED BY <2>1, <2>2
<1> HIDE DEF m, front, rest
<1>4. /\ took \o front \in Seq(Nat)
      /\ Len(took \o front) = Len(took) + m
      /\ \A i \in 1 .. Len(took) + m : (took \o front)[i] =
            IF i <= Len(took) THEN took[i] ELSE front[i - Len(took)]
  BY <1>1, <1>3, ConcatProperties
<1>5. Len(took') = Len(took) + m /\ Len(buf') = Len(buf) - m
  BY <1>2, <1>3, <1>4
<1>6. \A i \in 1 .. Len(took') : took'[i] = i
  <2> SUFFICES ASSUME NEW i \in 1 .. Len(took) + m PROVE (took \o front)[i] = i
    BY <1>2, <1>4
  <2>1. CASE i <= Len(took)
    <3>1. i \in 1 .. Len(took)
      BY <2>1, <1>1, <1>3
    <3>2. took[i] = i
      BY <3>1 DEF Fifo
    <3> QED BY <2>1, <3>2, <1>4
  <2>2. CASE ~(i <= Len(took))
    <3> DEFINE j == i - Len(took)
    <3>1. j \in 1 .. m /\ Len(took) + j = i
      BY <2>2, <1>1, <1>3
    <3>2. (took \o front)[i] = buf[j]
      BY <3>1, <2>2, <1>4, <1>3
    <3> HIDE DEF j
    <3>3. j \in 1 .. Len(buf)
      BY <3>1, <1>1, <1>3
    <3>4. buf[j] = Len(took) + j
      BY <3>3 DEF Fifo
    <3> QED BY <3>1, <3>2, <3>4
  <2> QED BY <2>1, <2>2
<1>7. \A i \in 1 .. Len(buf') : buf'[i] = Len(took') + i
  <2> SUFFICES ASSUME NEW i \in 1 .. Len(buf) - m
               PROVE  rest[i] = Len(took) + m + i
    BY <1>2, <1>3, <1>5
  <2>1. m + i \in 1 .. Len(buf)
    BY <1>1, <1>3
  <2>2. buf[m + i] = Len(took) + (m + i)
    BY <2>1 DEF Fifo
  <2> QED BY <2>2, <1>1, <1>3
<1>8. Len(took') + Len(buf') = Len(took) + Len(buf) /\ Len(buf') <= Len(buf)
  BY <1>1, <1>3, <1>5
<1>9. buf = <<>> => buf' = <<>>
  <2> SUFFICES ASSUME buf = <<>> PROVE rest = <<>>
    BY <1>2
  <2>1. Len(rest) = 0
    BY <1>1, <1>3, EmptySeq
  <2> QED BY <2>1, <1>3, EmptySeq
<1>10. Fifo'
  BY <1>6, <1>7, <1>8 DEF Fifo
<1>11. buf' \in Seq(Nat) /\ took' \in Seq(Nat)
  BY <1>2, <1>3, <1>4
<1> QED BY <1>8, <1>9, <1>10, <1>11

(* Appending the next n bytes keeps it too.                                 *)
LEMMA AppendKeepsFifo ==
  ASSUME Typed, Fifo, ~lossy, NEW n \in Nat, n # 0, Put(n),
         UNCHANGED <<took, lossy>>
  PROVE  /\ Fifo'
         /\ buf' \in Seq(Nat) /\ buf' # <<>>
         /\ Len(buf') = Len(buf) + n
         /\ wrote' \in Nat
<1> DEFINE new == Numbered(wrote, n)
<1>1. /\ Len(buf) \in Nat /\ Len(took) \in Nat /\ wrote \in Nat
      /\ took \in Seq(Nat) /\ buf \in Seq(Nat) 
  BY LenProperties DEF Typed
<1>2. new \in Seq(Nat) /\ Len(new) = n /\ \A i \in 1 .. n : new[i] = wrote + i
  BY <1>1, SMT DEF Numbered
<1> HIDE DEF new
<1>3. /\ buf \o new \in Seq(Nat)
      /\ Len(buf \o new) = Len(buf) + n
      /\ \A i \in 1 .. Len(buf) + n : (buf \o new)[i] =
            IF i <= Len(buf) THEN buf[i] ELSE new[i - Len(buf)]
  BY <1>1, <1>2, ConcatProperties
<1>4. buf' = buf \o new
  BY DEF new, Put
<1>5. wrote = Len(took) + Len(buf) /\ wrote' = wrote + n
  BY DEF Fifo, Put
<1>6. Len(buf') = Len(buf) + n
  BY <1>3, <1>4
<1>7. \A i \in 1 .. Len(buf') : buf'[i] = Len(took) + i
  <2> SUFFICES ASSUME NEW i \in 1 .. Len(buf) + n
               PROVE  (buf \o new)[i] = Len(took) + i
    BY <1>4, <1>6
  <2>1. CASE i <= Len(buf)
    <3>1. i \in 1 .. Len(buf)
      BY <2>1, <1>1
    <3>2. buf[i] = Len(took) + i
      BY <3>1 DEF Fifo
    <3> QED BY <2>1, <3>2, <1>3
  <2>2. CASE ~(i <= Len(buf))
    <3> DEFINE j == i - Len(buf)
    <3>1. j \in 1 .. n /\ wrote + j = Len(took) + i
      BY <2>2, <1>1, <1>5
    <3>2. (buf \o new)[i] = new[j]
      BY <2>2, <1>3
    <3> HIDE DEF j
    <3> QED BY <3>1, <3>2, <1>2
  <2> QED BY <2>1, <2>2
<1>8. Len(took) + Len(buf') = wrote' /\ wrote' \in Nat
  BY <1>1, <1>5, <1>6
<1>9. Fifo'
  <2>1. \A i \in 1 .. Len(took) : took[i] = i
    BY DEF Fifo
  <2>2. Len(took) + Len(buf') <= wrote'
    BY <1>8, <1>1
  <2> QED BY <2>1, <2>2, <1>7, <1>8 DEF Fifo
<1>10. buf' # <<>>
  <2>1. Len(buf') # 0
    BY <1>6, <1>1
  <2> QED BY <2>1, EmptySeq
<1> QED BY <1>3, <1>4, <1>6, <1>8, <1>9, <1>10

-----------------------------------------------------------------------------
LEMMA InitIInv == Init => IInv
<1> SUFFICES ASSUME Init PROVE IInv
  OBVIOUS
<1> USE SizeAssumption, ThreadAssumption DEF Init
<1>1. Typed
  <2>1. size \in Nat \ {0}
    BY DEF FirstSize
  <2>2. <<>> \in Seq(Nat)
    OBVIOUS
  <2> QED BY <2>1, <2>2 DEF Typed, Loc
<1>2. Locking /\ Growing /\ Dropping
  BY DEF Locking, Growing, Dropping
<1>3. Len(took) = 0 /\ Len(buf) = 0
  BY EmptySeq
<1>4. Fifo
  BY <1>3 DEF Fifo
<1>5. Fits
  BY <1>1, <1>3 DEF Fits, Typed
<1>6. NoLostData /\ NoLostDrain
  BY DEF NoLostData, NoLostDrain
<1> QED BY <1>1, <1>2, <1>4, <1>5, <1>6 DEF IInv

(* A step that leaves the bytes alone keeps what is said of them.           *)
LEMMA BytesUntouched ==
  ASSUME Fifo, Fits, size' = size, UNCHANGED <<buf, took, wrote, lossy>>
  PROVE  Fifo' /\ Fits'
BY DEF Fifo, Fits

(* Every step keeps the invariant.                                          *)
LEMMA StepIInv == IInv /\ [Next]_vars => IInv'
<1> SUFFICES ASSUME IInv, [Next]_vars PROVE IInv'
  OBVIOUS
<1> USE ThreadAssumption
<1>0. Typed /\ Locking /\ Growing /\ Dropping /\ Fifo /\ Fits /\ NoLostData /\ NoLostDrain
  BY DEF IInv
<1>1. ASSUME NEW t \in Threads, NEW n \in 1 .. MaxPiece, WriteBegin(t, n) PROVE IInv'
  <2>1. Typed'
    BY <1>0, <1>1 DEF Typed, Loc, WriteBegin, Goto
  <2>2. Locking' /\ Growing' /\ Dropping'
    BY <1>0, <1>1 DEF Typed, Locking, Growing, Dropping, WriteBegin, Goto
  <2>3. Fifo' /\ Fits'
    BY <1>0, <1>1, BytesUntouched DEF WriteBegin, Goto
  <2>4. NoLostData' /\ NoLostDrain'
    BY <1>0, <1>1 DEF Typed, NoLostData, NoLostDrain, WriteBegin, Goto
  <2> QED BY <2>1, <2>2, <2>3, <2>4 DEF IInv
<1>2. ASSUME NEW t \in Threads, Extend(t) PROVE IInv'
  <2>1. size' \in Nat /\ size' > size
    BY <1>0, <1>2 DEF Typed, Extend
  <2>2. Typed'
    BY <1>0, <1>2, <2>1 DEF Typed, Extend
  <2>3. Locking' /\ Growing' /\ Dropping'
    BY <1>0, <1>2 DEF Locking, Growing, Dropping, Extend
  <2>4. Fifo'
    BY <1>0, <1>2 DEF Fifo, Extend
  <2>5. Fits'
    BY <1>0, <1>2, <2>1, LenProperties DEF Typed, Fits, Extend
  <2>6. NoLostData' /\ NoLostDrain'
    BY <1>0, <1>2 DEF NoLostData, NoLostDrain, Extend
  <2> QED BY <2>1, <2>2, <2>3, <2>4, <2>5, <2>6 DEF IInv
<1>3. ASSUME NEW t \in Threads, WriteEnd(t) PROVE IInv'
  <2>1. /\ arg[t] \in Nat /\ arg[t] # 0 /\ ~eof /\ ~lossy
          /\ Put(arg[t]) /\ UNCHANGED <<took, lossy>>
    BY <1>0, <1>3 DEF Typed, Growing, Dropping, WriteEnd
  <2>2. /\ Fifo' /\ buf' \in Seq(Nat) /\ buf' # <<>>
          /\ Len(buf') = Len(buf) + arg[t] /\ wrote' \in Nat
    BY <1>0, <2>1, AppendKeepsFifo
  <2>3. pc' = [u \in Threads |-> IF u = t THEN "idle"
                                ELSE IF pc[u] = "data" THEN "read" ELSE pc[u]]
    BY <1>0, <1>3 DEF Typed, WriteEnd, WakeReaders, Broadcast, Goto
  <2>4. Typed'
    BY <1>0, <1>3, <2>2, <2>3 DEF Typed, Loc, WriteEnd
  <2>5. Locking' /\ Growing' /\ Dropping'
    BY <1>0, <1>3, <2>3 DEF Typed, Locking, Growing, Dropping, WriteEnd
  <2>6. Fits'
    BY <1>0, <1>3, <2>2, LenProperties DEF Typed, Fits, Full, WriteEnd
  <2>7. NoLostData' /\ NoLostDrain'
    BY <1>0, <1>3, <2>2, <2>3 DEF Typed, NoLostData, NoLostDrain, WriteEnd
  <2> QED BY <2>1, <2>2, <2>3, <2>4, <2>5, <2>6, <2>7 DEF IInv
<1>4. ASSUME NEW t \in Threads, NEW n \in 1 .. MaxPiece, TryRead(t, n) PROVE IInv'
  <2>1. Take(Smaller(n, Len(buf))) /\ UNCHANGED <<wrote, lossy>> /\ n \in Nat
    BY <1>4, BoundAssumption DEF TryRead
  <2>2. /\ Fifo' /\ buf' \in Seq(Nat) /\ took' \in Seq(Nat)
          /\ Len(buf') <= Len(buf) /\ (buf = <<>> => buf' = <<>>)
    BY <1>0, <2>1, TakeKeepsFifo
  <2>3. Typed'
    BY <1>0, <1>4, <2>2 DEF Typed, TryRead
  <2>4. Locking' /\ Growing' /\ Dropping'
    BY <1>0, <1>4 DEF Locking, Growing, Dropping, TryRead
  <2>5. Fits'
    BY <1>0, <1>4, <2>2, LenProperties DEF Typed, Fits, TryRead
  <2>6. NoLostData' /\ NoLostDrain'
    BY <1>0, <1>4, <2>2 DEF Typed, NoLostData, NoLostDrain, TryRead
  <2> QED BY <2>1, <2>2, <2>3, <2>4, <2>5, <2>6 DEF IInv
<1>5. ASSUME NEW t \in Threads, NEW n \in 1 .. MaxPiece, ReadCall(t, n) PROVE IInv'
  <2>1. Typed'
    BY <1>0, <1>5 DEF Typed, Loc, ReadCall, Goto
  <2>2. Locking' /\ Growing' /\ Dropping'
    BY <1>0, <1>5 DEF Typed, Locking, Growing, Dropping, ReadCall, Goto
  <2>3. Fifo' /\ Fits'
    BY <1>0, <1>5, BytesUntouched DEF ReadCall, Goto
  <2>4. NoLostData' /\ NoLostDrain'
    BY <1>0, <1>5 DEF Typed, NoLostData, NoLostDrain, ReadCall, Goto
  <2> QED BY <2>1, <2>2, <2>3, <2>4 DEF IInv
<1>6. ASSUME NEW t \in Threads, ReadWait(t) PROVE IInv'
  <2>1. Typed'
    BY <1>0, <1>6 DEF Typed, Loc, ReadWait, Goto
  <2>2. Locking' /\ Growing' /\ Dropping'
    BY <1>0, <1>6 DEF Typed, Locking, Growing, Dropping, ReadWait, Goto
  <2>3. Fifo' /\ Fits'
    BY <1>0, <1>6, BytesUntouched DEF ReadWait, Goto
  <2>4. NoLostData' /\ NoLostDrain'
    BY <1>0, <1>6 DEF Typed, NoLostData, NoLostDrain, ReadWait, Goto
  <2> QED BY <2>1, <2>2, <2>3, <2>4 DEF IInv
<1>7. ASSUME NEW t \in Threads, ReadEof(t) PROVE IInv'
  <2>1. Typed'
    BY <1>0, <1>7 DEF Typed, Loc, ReadEof, Goto
  <2>2. Locking' /\ Growing' /\ Dropping'
    BY <1>0, <1>7 DEF Typed, Locking, Growing, Dropping, ReadEof, Goto
  <2>3. Fifo' /\ Fits'
    BY <1>0, <1>7, BytesUntouched DEF ReadEof, Goto
  <2>4. NoLostData' /\ NoLostDrain'
    BY <1>0, <1>7 DEF Typed, NoLostData, NoLostDrain, ReadEof, Goto
  <2> QED BY <2>1, <2>2, <2>3, <2>4 DEF IInv
<1>8. ASSUME NEW t \in Threads, ReadData(t) PROVE IInv'
  <2>1. Take(Smaller(arg[t], Len(buf))) /\ UNCHANGED <<wrote, lossy>> /\ arg[t] \in Nat
    BY <1>0, <1>8 DEF Typed, ReadData
  <2>2. /\ Fifo' /\ buf' \in Seq(Nat) /\ took' \in Seq(Nat)
          /\ Len(buf') <= Len(buf) /\ (buf = <<>> => buf' = <<>>)
    BY <1>0, <2>1, TakeKeepsFifo
  <2>3. /\ pc' \in [Threads -> Loc]
          /\ \A u \in Threads : pc'[u] = IF u = t THEN "idle"
                 ELSE IF buf' = <<>> /\ pc[u] = "drained" THEN "drain" ELSE pc[u]
    BY <1>0, <1>8 DEF Typed, Loc, ReadData, WakeDrained, Broadcast, Goto
  <2>4. Typed'
    BY <1>0, <1>8, <2>2, <2>3 DEF Typed, ReadData
  <2>5. Locking' /\ Growing' /\ Dropping'
    BY <1>0, <1>8, <2>3 DEF Typed, Locking, Growing, Dropping, ReadData
  <2>6. Fits'
    BY <1>0, <1>8, <2>2, LenProperties DEF Typed, Fits, ReadData
  <2>7. NoLostData' /\ NoLostDrain'
    BY <1>0, <1>8, <2>2, <2>3 DEF Typed, NoLostData, NoLostDrain, ReadData
  <2> QED BY <2>1, <2>2, <2>3, <2>4, <2>5, <2>6, <2>7 DEF IInv
<1>9. ASSUME NEW t \in Threads, Close(t) PROVE IInv'
  <2>1. Typed'
    BY <1>0, <1>9 DEF Typed, Loc, Close, WakeReaders, Broadcast
  <2>2. Locking' /\ Growing' /\ Dropping'
    BY <1>0, <1>9 DEF Typed, Locking, Growing, Dropping, Close, WakeReaders, Broadcast
  <2>3. Fifo' /\ Fits'
    BY <1>0, <1>9, BytesUntouched DEF Close, WakeReaders, Broadcast
  <2>4. NoLostData' /\ NoLostDrain'
    BY <1>0, <1>9 DEF Typed, NoLostData, NoLostDrain, Close, WakeReaders, Broadcast
  <2> QED BY <2>1, <2>2, <2>3, <2>4 DEF IInv
<1>10. ASSUME NEW t \in Threads, DrainClose(t) PROVE IInv'
  <2>1. Typed'
    BY <1>0, <1>10 DEF Typed, Loc, DrainClose, WakeReaders, Broadcast
  <2>2. Locking' /\ Growing' /\ Dropping'
    BY <1>0, <1>10 DEF Typed, Locking, Growing, Dropping, DrainClose, WakeReaders, Broadcast
  <2>3. Fifo' /\ Fits'
    BY <1>0, <1>10, BytesUntouched DEF DrainClose, WakeReaders, Broadcast
  <2>4. NoLostData' /\ NoLostDrain'
    BY <1>0, <1>10 DEF Typed, NoLostData, NoLostDrain, DrainClose, WakeReaders, Broadcast
  <2> QED BY <2>1, <2>2, <2>3, <2>4 DEF IInv
<1>11. ASSUME NEW t \in Threads, DrainFlush(t) PROVE IInv'
  <2>1. buf' = <<>> /\ Len(buf') = 0 /\ buf' \in Seq(Nat)
    BY <1>11, EmptySeq DEF DrainFlush
  <2>2. /\ pc' \in [Threads -> Loc]
          /\ \A u \in Threads : pc'[u] = IF u = t THEN "idle"
                 ELSE IF pc[u] = "drained" THEN "drain" ELSE pc[u]
    BY <1>0, <1>11 DEF Typed, Loc, DrainFlush, WakeDrained, Broadcast, Goto
  <2>3. Typed'
    BY <1>0, <1>11, <2>1, <2>2 DEF Typed, DrainFlush
  <2>4. Locking' /\ Growing' /\ Dropping'
    BY <1>0, <1>11, <2>2 DEF Typed, Locking, Growing, Dropping, DrainFlush
  <2>5. Fifo'
    <3>1. /\ Len(took) \in Nat /\ Len(buf) \in Nat /\ wrote \in Nat
          /\ took' = took /\ wrote' = wrote /\ (~lossy' => ~lossy /\ buf = <<>>)
      BY <1>0, <1>11, LenProperties DEF Typed, DrainFlush
    <3>2. Len(took) <= wrote
      BY <1>0, <3>1 DEF Fifo
    <3>3. ~lossy' => wrote = Len(took)
      <4> SUFFICES ASSUME ~lossy' PROVE wrote = Len(took)
        OBVIOUS
      <4>1. Len(buf) = 0
        BY <3>1, EmptySeq
      <4>2. wrote = Len(took) + Len(buf)
        BY <1>0, <3>1 DEF Fifo
      <4> QED BY <3>1, <4>1, <4>2
    <3>4. \A i \in 1 .. Len(took) : took[i] = i
      BY <1>0 DEF Fifo
    <3> QED BY <2>1, <3>1, <3>2, <3>3, <3>4 DEF Fifo
  <2>6. Fits'
    BY <1>0, <1>11, <2>1 DEF Typed, Fits, DrainFlush
  <2>7. NoLostData' /\ NoLostDrain'
    BY <1>0, <1>11, <2>1, <2>2 DEF Typed, NoLostData, NoLostDrain, DrainFlush
  <2> QED BY <2>1, <2>2, <2>3, <2>4, <2>5, <2>6, <2>7 DEF IInv
<1>12. ASSUME NEW t \in Threads, WaitDrainCall(t) PROVE IInv'
  <2>1. Typed'
    BY <1>0, <1>12 DEF Typed, Loc, WaitDrainCall, Goto
  <2>2. Locking' /\ Growing' /\ Dropping'
    BY <1>0, <1>12 DEF Typed, Locking, Growing, Dropping, WaitDrainCall, Goto
  <2>3. Fifo' /\ Fits'
    BY <1>0, <1>12, BytesUntouched DEF WaitDrainCall, Goto
  <2>4. NoLostData' /\ NoLostDrain'
    BY <1>0, <1>12 DEF Typed, NoLostData, NoLostDrain, WaitDrainCall, Goto
  <2> QED BY <2>1, <2>2, <2>3, <2>4 DEF IInv
<1>13. ASSUME NEW t \in Threads, WaitDrainSleep(t) PROVE IInv'
  <2>1. Typed'
    BY <1>0, <1>13 DEF Typed, Loc, WaitDrainSleep, Goto
  <2>2. Locking' /\ Growing' /\ Dropping'
    BY <1>0, <1>13 DEF Typed, Locking, Growing, Dropping, WaitDrainSleep, Goto
  <2>3. Fifo' /\ Fits'
    BY <1>0, <1>13, BytesUntouched DEF WaitDrainSleep, Goto
  <2>4. NoLostData' /\ NoLostDrain'
    BY <1>0, <1>13 DEF Typed, NoLostData, NoLostDrain, WaitDrainSleep, Goto
  <2> QED BY <2>1, <2>2, <2>3, <2>4 DEF IInv
<1>14. ASSUME NEW t \in Threads, WaitDrainDone(t) PROVE IInv'
  <2>1. Typed'
    BY <1>0, <1>14 DEF Typed, Loc, WaitDrainDone, Goto
  <2>2. Locking' /\ Growing' /\ Dropping'
    BY <1>0, <1>14 DEF Typed, Locking, Growing, Dropping, WaitDrainDone, Goto
  <2>3. Fifo' /\ Fits'
    BY <1>0, <1>14, BytesUntouched DEF WaitDrainDone, Goto
  <2>4. NoLostData' /\ NoLostDrain'
    BY <1>0, <1>14 DEF Typed, NoLostData, NoLostDrain, WaitDrainDone, Goto
  <2> QED BY <2>1, <2>2, <2>3, <2>4 DEF IInv
<1>15. ASSUME NEW t \in Threads, Spurious(t) PROVE IInv'
  <2>1. Typed'
    BY <1>0, <1>15 DEF Typed, Loc, Spurious, Goto
  <2>2. Locking' /\ Growing' /\ Dropping'
    BY <1>0, <1>15 DEF Typed, Locking, Growing, Dropping, Spurious, Goto
  <2>3. Fifo' /\ Fits'
    BY <1>0, <1>15, BytesUntouched DEF Spurious, Goto
  <2>4. NoLostData' /\ NoLostDrain'
    BY <1>0, <1>15 DEF Typed, NoLostData, NoLostDrain, Spurious, Goto
  <2> QED BY <2>1, <2>2, <2>3, <2>4 DEF IInv
<1>16. ASSUME UNCHANGED vars PROVE IInv'
  BY <1>0, <1>16 DEF vars, IInv, Typed, Locking, Growing, Dropping, Fifo, Fits, NoLostData, NoLostDrain
<1> QED
  BY <1>1, <1>2, <1>3, <1>4, <1>5, <1>6, <1>7, <1>8, <1>9, <1>10, <1>11, <1>12, <1>13, <1>14, <1>15, <1>16 DEF Next, Call, Continue, WriteClosed, TryReadClosed

-----------------------------------------------------------------------------
(* The inductive invariant holds in every reachable state.                  *)
THEOREM Invariance == Spec => []IInv
<1>1. Init => IInv
  BY InitIInv
<1>2. IInv /\ [Next]_vars => IInv'
  BY StepIInv
<1> QED BY <1>1, <1>2, PTL DEF Spec

(* vbuffer_t keeps its types, and the memcpy of vbuffer_write stays inside  *)
(* the allocation; the size is never 0, so that doubling it makes progress. *)
THEOREM Types == Spec => []TypeOK
<1>1. IInv => TypeOK
  BY DEF IInv, TypeOK
<1> QED BY <1>1, Invariance, PTL

(* Any number of threads reading and writing a vbuffer_t get its bytes in   *)
(* order, none twice, none lost before vbuffer_drain.                       *)
THEOREM Order == Spec => []Fifo
<1>1. IInv => Fifo
  BY DEF IInv
<1> QED BY <1>1, Invariance, PTL

(* No wake-up for data or the end of file is lost, whatever the threads do  *)
(* between the broadcast and the return of cv_wait.                         *)
THEOREM DataWakeUps == Spec => []NoLostData
<1>1. IInv => NoLostData
  BY DEF IInv
<1> QED BY <1>1, Invariance, PTL

(* Nor is a wake-up of vbuffer_wait_drain, unless vbuffer_try_read did the  *)
(* draining.                                                                *)
THEOREM DrainWakeUps == Spec => []NoLostDrain
<1>1. IInv => NoLostDrain
  BY DEF IInv
<1> QED BY <1>1, Invariance, PTL

(* A closed vbuffer_t stays closed and accepts nothing more, although a     *)
(* vbuffer_write checks eof long before it copies.                          *)
THEOREM Closed == Spec => ClosedForGood
<1>1. IInv /\ [Next]_vars => [eof => eof' /\ wrote' = wrote]_vars
  <2> SUFFICES ASSUME IInv, Next, eof PROVE eof' /\ wrote' = wrote
    OBVIOUS
  <2>1. PICK t \in Threads : Call(t) \/ Continue(t) \/ Spurious(t)
    BY DEF Next
  <2>2. CASE Call(t)
    BY <2>2 DEF Call, WriteBegin, TryRead, ReadCall, WriteClosed, TryReadClosed,
                Close, DrainClose, WaitDrainCall, vars
  <2>3. CASE Continue(t)
    <3>1. ~WriteEnd(t)
      BY DEF IInv, Growing, WriteEnd
    <3> QED BY <2>3, <3>1 DEF Continue, Extend, ReadWait, ReadEof, ReadData,
                              DrainFlush, WaitDrainSleep, WaitDrainDone
  <2>4. CASE Spurious(t)
    BY <2>4 DEF Spurious
  <2> QED BY <2>1, <2>2, <2>3, <2>4
<1> QED BY <1>1, Invariance, PTL DEF Spec, ClosedForGood
=============================================================================

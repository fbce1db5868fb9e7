------------------------------ MODULE VBuffer ------------------------------
(***************************************************************************)
(* vbuffer_t of proto/buf.c: a growing buffer behind a mutex, with one      *)
(* condition variable for "there is data" and one for "it is drained".      *)
(* Any thread may call any of its functions at any time.                    *)
(*                                                                          *)
(* A section between lock and unlock is one action, except where it loops:  *)
(* vbuffer_write keeps the mutex while it extends the buffer, and a call    *)
(* that waits on a condition variable gives the mutex up.  Bytes are        *)
(* numbered in the order they are accepted.                                 *)
(***************************************************************************)
EXTENDS Naturals, Sequences

CONSTANTS
    Threads,
    NoThread,
    InitSize,   \* what vbuffer_new is given
    MaxBytes,   \* bound: bytes ever accepted
    MaxPiece    \* bound: bytes of one call

ASSUME ThreadAssumption == NoThread \notin Threads
ASSUME SizeAssumption == InitSize \in Nat
ASSUME BoundAssumption == MaxBytes \in Nat /\ MaxPiece \in Nat

VARIABLES
    mut,    \* the thread that holds the mutex, or NoThread
    buf,    \* the bytes held; w_idx is its length
    size,   \* the bytes allocated
    eof,
    pc,     \* thread -> the point its call has reached
    arg,    \* thread -> bytes to read, or to write
    wrote,  \* history: how many bytes were accepted
    took,   \* history: the bytes handed to readers
    lossy,  \* history: vbuffer_drain has thrown bytes away
    quiet   \* history: vbuffer_try_read emptied the buffer, which is empty since

vars == <<mut, buf, size, eof, pc, arg, wrote, took, lossy, quiet>>

(* "data" and "drained" are the wait sets of the two condition variables.   *)
Loc == {"idle", "grow", "read", "data", "drain", "drained", "flush"}
Blocked == {"read", "data"}

Typed ==
    /\ mut \in Threads \cup {NoThread}
    /\ buf \in Seq(Nat)
    /\ size \in Nat \ {0}
    /\ eof \in BOOLEAN
    /\ pc \in [Threads -> Loc]
    /\ arg \in [Threads -> Nat]
    /\ wrote \in Nat
    /\ took \in Seq(Nat)
    /\ lossy \in BOOLEAN
    /\ quiet \in BOOLEAN

(* Doubling it must make it grow.                                           *)
FirstSize(n) == IF n > 1 THEN n ELSE 1

Init ==
    /\ mut = NoThread
    /\ buf = <<>>
    /\ size = FirstSize(InitSize)
    /\ eof = FALSE
    /\ pc = [t \in Threads |-> "idle"]
    /\ arg = [t \in Threads |-> 0]
    /\ wrote = 0
    /\ took = <<>>
    /\ lossy = FALSE
    /\ quiet = FALSE

(* cv_broadcast: everybody who sleeps at q goes back to l for the mutex.    *)
Broadcast(f, q, l) == [t \in Threads |-> IF f[t] = q THEN l ELSE f[t]]

(* Faulty variants: nobody is woken.                                        *)
WakeReadersNot(f) == f
WakeDrainedNot(f) == f

WakeReaders(f) == Broadcast(f, "data", "read")
WakeDrained(f) == Broadcast(f, "drained", "drain")

Goto(t, l) == [pc EXCEPT ![t] = l]

(* Bytes a + 1, ..., a + n.                                                 *)
Numbered(a, n) == [i \in 1 .. n |-> a + i]

Smaller(m, n) == IF m < n THEN m ELSE n

-----------------------------------------------------------------------------
(* vbuffer_write.  A closed buffer drops what it is given.                  *)

WriteClosed(t) ==
    /\ pc[t] = "idle" /\ mut = NoThread
    /\ eof
    /\ UNCHANGED vars

WriteBegin(t, n) ==
    /\ pc[t] = "idle" /\ mut = NoThread
    /\ ~eof
    /\ wrote + n <= MaxBytes
    /\ mut' = t
    /\ pc' = Goto(t, "grow")
    /\ arg' = [arg EXCEPT ![t] = n]
    /\ UNCHANGED <<buf, size, eof, wrote, took, lossy, quiet>>

(* Faulty variant: one byte too few is made room for.                       *)
FullLate(t) == Len(buf) + arg[t] > size + 1

Full(t) == Len(buf) + arg[t] > size

Extend(t) ==
    /\ pc[t] = "grow"
    /\ Full(t)
    /\ size' = 2 * size
    /\ UNCHANGED <<mut, buf, eof, pc, arg, wrote, took, lossy, quiet>>

Put(n) ==
    /\ buf' = buf \o Numbered(wrote, n)
    /\ wrote' = wrote + n

WriteEnd(t) ==
    /\ pc[t] = "grow"
    /\ ~Full(t)
    /\ Put(arg[t])
    /\ pc' = WakeReaders(Goto(t, "idle"))
    /\ mut' = NoThread
    /\ quiet' = FALSE
    /\ UNCHANGED <<size, eof, arg, took, lossy>>

-----------------------------------------------------------------------------
(* The readers.                                                             *)

(* Faulty variant: the rest is not moved to the front.                      *)
TakeNoMove(n) ==
    /\ took' = took \o SubSeq(buf, 1, n)
    /\ buf' = SubSeq(buf, 1, Len(buf) - n)

Take(n) ==
    /\ took' = took \o SubSeq(buf, 1, n)
    /\ buf' = SubSeq(buf, n + 1, Len(buf))

(* vbuffer_try_read: -1 when closed, else what there is.  It signals nobody.*)
TryRead(t, n) ==
    /\ pc[t] = "idle" /\ mut = NoThread
    /\ ~eof
    /\ Take(Smaller(n, Len(buf)))
    /\ quiet' = (quiet \/ (buf # <<>> /\ buf' = <<>>))
    /\ UNCHANGED <<mut, size, eof, pc, arg, wrote, lossy>>

TryReadClosed(t) ==
    /\ pc[t] = "idle" /\ mut = NoThread
    /\ eof
    /\ UNCHANGED vars

(* vbuffer_read.                                                            *)
ReadCall(t, n) ==
    /\ pc[t] = "idle"
    /\ pc' = Goto(t, "read")
    /\ arg' = [arg EXCEPT ![t] = n]
    /\ UNCHANGED <<mut, buf, size, eof, wrote, took, lossy, quiet>>

ReadWait(t) ==
    /\ pc[t] = "read" /\ mut = NoThread
    /\ buf = <<>> /\ ~eof
    /\ pc' = Goto(t, "data")
    /\ UNCHANGED <<mut, buf, size, eof, arg, wrote, took, lossy, quiet>>

ReadEof(t) ==
    /\ pc[t] = "read" /\ mut = NoThread
    /\ buf = <<>> /\ eof
    /\ pc' = Goto(t, "idle")
    /\ UNCHANGED <<mut, buf, size, eof, arg, wrote, took, lossy, quiet>>

ReadData(t) ==
    /\ pc[t] = "read" /\ mut = NoThread
    /\ buf # <<>>
    /\ Take(Smaller(arg[t], Len(buf)))
    /\ pc' = LET f == Goto(t, "idle") IN
             IF buf' = <<>> THEN WakeDrained(f) ELSE f
    /\ quiet' = FALSE
    /\ UNCHANGED <<mut, size, eof, arg, wrote, lossy>>

-----------------------------------------------------------------------------
(* Faulty variant: closing wakes nobody.                                    *)
CloseSilently(t) ==
    /\ pc[t] = "idle" /\ mut = NoThread
    /\ eof' = TRUE
    /\ UNCHANGED <<mut, buf, size, pc, arg, wrote, took, lossy, quiet>>

(* vbuffer_close.                                                           *)
Close(t) ==
    /\ pc[t] = "idle" /\ mut = NoThread
    /\ eof' = TRUE
    /\ pc' = IF eof THEN pc ELSE WakeReaders(pc)
    /\ UNCHANGED <<mut, buf, size, arg, wrote, took, lossy, quiet>>

(* vbuffer_drain: vbuffer_close, and in a second locked section the bytes   *)
(* that are left are dropped.                                               *)
DrainClose(t) ==
    /\ pc[t] = "idle" /\ mut = NoThread
    /\ eof' = TRUE
    /\ pc' = [IF eof THEN pc ELSE WakeReaders(pc) EXCEPT ![t] = "flush"]
    /\ UNCHANGED <<mut, buf, size, arg, wrote, took, lossy, quiet>>

DrainFlush(t) ==
    /\ pc[t] = "flush" /\ mut = NoThread
    /\ buf' = <<>>
    /\ lossy' = (lossy \/ buf # <<>>)
    /\ quiet' = FALSE
    /\ pc' = WakeDrained(Goto(t, "idle"))
    /\ UNCHANGED <<mut, size, eof, arg, wrote, took>>

(* vbuffer_wait_drain.                                                      *)
WaitDrainCall(t) ==
    /\ pc[t] = "idle"
    /\ pc' = Goto(t, "drain")
    /\ UNCHANGED <<mut, buf, size, eof, arg, wrote, took, lossy, quiet>>

WaitDrainSleep(t) ==
    /\ pc[t] = "drain" /\ mut = NoThread
    /\ buf # <<>>
    /\ pc' = Goto(t, "drained")
    /\ UNCHANGED <<mut, buf, size, eof, arg, wrote, took, lossy, quiet>>

WaitDrainDone(t) ==
    /\ pc[t] = "drain" /\ mut = NoThread
    /\ buf = <<>>
    /\ pc' = Goto(t, "idle")
    /\ UNCHANGED <<mut, buf, size, eof, arg, wrote, took, lossy, quiet>>

(* pthread_cond_wait may return without a broadcast.                        *)
Spurious(t) ==
    /\ pc[t] \in {"data", "drained"}
    /\ pc' = Goto(t, IF pc[t] = "data" THEN "read" ELSE "drain")
    /\ UNCHANGED <<mut, buf, size, eof, arg, wrote, took, lossy, quiet>>

-----------------------------------------------------------------------------
Call(t) ==
    \/ \E n \in 1 .. MaxPiece : WriteBegin(t, n) \/ TryRead(t, n) \/ ReadCall(t, n)
    \/ WriteClosed(t) \/ TryReadClosed(t)
    \/ Close(t) \/ DrainClose(t) \/ WaitDrainCall(t)

(* The steps that finish a call once it is under way.                       *)
Continue(t) ==
    \/ Extend(t) \/ WriteEnd(t)
    \/ ReadWait(t) \/ ReadEof(t) \/ ReadData(t)
    \/ DrainFlush(t) \/ WaitDrainSleep(t) \/ WaitDrainDone(t)

Next == \E t \in Threads : Call(t) \/ Continue(t) \/ Spurious(t)

Spec == Init /\ [][Next]_vars

(* A running thread runs on and gets the mutex; nobody has to make a call.  *)
Fairness == \A t \in Threads : SF_vars(Continue(t))

FairSpec == Spec /\ Fairness

-----------------------------------------------------------------------------
(* Properties.                                                              *)

(* Readers are handed the accepted bytes in order, each once and none       *)
(* skipped; until vbuffer_drain threw some away, the rest is still held.    *)
Fifo ==
    /\ \A i \in 1 .. Len(took) : took[i] = i
    /\ \A i \in 1 .. Len(buf) : buf[i] = Len(took) + i
    /\ Len(took) + Len(buf) <= wrote
    /\ ~lossy => Len(took) + Len(buf) = wrote

(* Types; and the copy of a write stays inside the allocation.              *)
Fits == Len(buf) <= size
TypeOK == Typed /\ Fits

(* No thread sleeps in vbuffer_read while there are bytes or an end of file *)
(* for it to return.                                                        *)
NoLostData == \A t \in Threads : pc[t] = "data" => buf = <<>> /\ ~eof

(* No thread sleeps in vbuffer_wait_drain while the buffer is empty, except *)
(* that vbuffer_try_read empties it without a broadcast.                    *)
NoLostDrain == \A t \in Threads : pc[t] = "drained" => buf # <<>> \/ quiet

(* Once closed, the buffer takes no more bytes and never reopens, even with *)
(* a write that overlaps the close.                                         *)
ClosedForGood == [][eof => eof' /\ wrote' = wrote]_vars

(* Every blocked reader returns once the buffer is closed.                  *)
CloseReleases ==
    \A t \in Threads : eof /\ pc[t] \in Blocked ~> pc[t] \notin Blocked
=============================================================================

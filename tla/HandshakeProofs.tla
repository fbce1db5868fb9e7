-------------------------- MODULE HandshakeProofs --------------------------
(***************************************************************************)
(* What every handshake of Handshake keeps, for every set of targets, every *)
(* offer, padding below 16, window and way of the bytes: the two sides      *)
(* agree on the target, and on where the handshake ends in the stream.      *)
(***************************************************************************)
EXTENDS Handshake, SequenceTheorems, FiniteSetTheorems, TLAPS

(* A set of natural numbers that is not empty has a smallest: the smallest  *)
(* of the intervals that start from 0.                                      *)
LEMMA Smallest ==
  ASSUME NEW T \in SUBSET Nat, T # {}
  PROVE  \E m \in T : \A k \in T : m <= k
<1> DEFINE R == StrictSubsetOrdering(Nat)
           F == FiniteSubsetsOf(Nat)
           I == {0 .. n : n \in T}
<1>1. IsWellFoundedOn(R, F)
  BY FS_StrictSubsetOrderingWellFounded
<1>2. I \subseteq F
  <2>1. \A n \in T : IsFiniteSet(0 .. n) /\ 0 .. n \in SUBSET Nat
    BY FS_Interval
  <2> QED BY <2>1 DEF FiniteSubsetsOf
<1>3. I # {}
  OBVIOUS
<1> HIDE DEF R, F, I
<1>4. PICK x \in I : \A y \in I : ~ (<<y, x>> \in R)
  BY <1>1, <1>2, <1>3, WFMin
<1>5. PICK m \in T : x = 0 .. m
  BY <1>4 DEF I
<1>6. ASSUME NEW k \in T, k < m PROVE FALSE
  <2>1. 0 .. k \in I
    BY DEF I
  <2>2. 0 .. k \subseteq 0 .. m /\ 0 .. k # 0 .. m
    BY <1>6
  <2>3. <<0 .. k, 0 .. m>> \in R
    BY <2>2 DEF R, StrictSubsetOrdering
  <2> QED BY <2>1, <2>3, <1>4, <1>5
<1> QED BY <1>6

(* The hash of the first n bytes of b, as crypto_fnv1a computes it.         *)
Up(b, h, i) == IF i = 0 THEN 7 ELSE (h[i - 1] * 31 + b[i] + 1) % 9973
Fills(b, h, n) == h = [i \in 0 .. n |-> Up(b, h, i)]

(* One more byte.                                                           *)
LEMMA FillsOn ==
  ASSUME NEW b \in Seq(Nat), NEW n \in 1 .. Len(b),
         NEW h \in [0 .. n - 1 -> Nat], Fills(b, h, n - 1)
  PROVE  \E g \in [0 .. n -> Nat] : Fills(b, g, n)
<1>1. n \in Nat /\ b[n] \in Nat /\ n # 0
  BY LenProperties, ElementOfSeq
<1>2. h[n - 1] \in Nat
  BY <1>1
<1>3. Up(b, h, n) \in Nat
  BY <1>1, <1>2 DEF Up
<1> DEFINE g == [i \in 0 .. n |-> IF i < n THEN h[i] ELSE Up(b, h, n)]
<1>4. g \in [0 .. n -> Nat]
  BY <1>1, <1>3
<1>5. ASSUME NEW i \in 0 .. n PROVE g[i] = Up(b, g, i)
  <2>1. CASE i < n
    <3>1. g[i] = h[i] /\ i \in 0 .. n - 1
      BY <1>1, <2>1
    <3>2. h[i] = Up(b, h, i)
      BY <3>1 DEF Fills
    <3>3. i # 0 => g[i - 1] = h[i - 1]
      BY <1>1, <2>1
    <3>4. Up(b, g, i) = Up(b, h, i)
      BY <3>3 DEF Up
    <3> QED BY <3>1, <3>2, <3>4
  <2>2. CASE i = n
    <3>1. g[n] = Up(b, h, n) /\ g[n - 1] = h[n - 1]
      BY <1>1
    <3>2. Up(b, g, n) = Up(b, h, n)
      BY <3>1 DEF Up
    <3> QED BY <3>1, <3>2, <2>2
  <2> QED BY <1>1, <2>1, <2>2
<1>6. g = [i \in 0 .. n |-> g[i]]
  OBVIOUS
<1> HIDE DEF g
<1>7. Fills(b, g, n)
  BY <1>5, <1>6 DEF Fills
<1> QED BY <1>4, <1>7

(* The checksum is a number, by induction on the number of bytes.           *)
LEMMA FnvNat == ASSUME NEW b \in Seq(Nat) PROVE Fnv1a(b) \in Nat
<1> DEFINE Bad == {n \in 0 .. Len(b) : ~ \E h \in [0 .. n -> Nat] : Fills(b, h, n)}
<1>0. Len(b) \in Nat
  BY LenProperties
<1>1. ASSUME NEW n \in Bad, \A k \in Bad : n <= k PROVE FALSE
  <2>1. n \in 0 .. Len(b) /\ ~ \E h \in [0 .. n -> Nat] : Fills(b, h, n)
    OBVIOUS
  <2>2. CASE n = 0
    <3> DEFINE g == [i \in 0 .. 0 |-> 7]
    <3>1. g \in [0 .. 0 -> Nat] /\ \A i \in 0 .. 0 : Up(b, g, i) = 7
      BY DEF Up
    <3>2. Fills(b, g, 0)
      BY <3>1 DEF Fills
    <3> QED BY <2>1, <2>2, <3>1, <3>2
  <2>3. CASE n # 0
    <3>1. n \in 1 .. Len(b) /\ n - 1 \in 0 .. Len(b) /\ ~(n <= n - 1)
      BY <1>0, <2>1, <2>3
    <3>2. n - 1 \notin Bad
      BY <1>1, <3>1
    <3>3. PICK h \in [0 .. n - 1 -> Nat] : Fills(b, h, n - 1)
      BY <3>1, <3>2
    <3> QED BY <2>1, <3>1, <3>3, FillsOn
  <2> QED BY <2>2, <2>3
<1>2. Bad \in SUBSET Nat
  BY <1>0
<1>3. Len(b) \notin Bad
  <2> HIDE DEF Bad
  <2> QED BY <1>1, <1>2, Smallest
<1>4. PICK h \in [0 .. Len(b) -> Nat] : Fills(b, h, Len(b))
  BY <1>0, <1>3
<1> DEFINE Is(f) == f = [i \in 0 .. Len(b) |->
                      IF i = 0 THEN 7 ELSE (f[i - 1] * 31 + b[i] + 1) % 9973]
           hash == CHOOSE f : Is(f)
<1>5. Is(h)
  <2>1. \A i \in 0 .. Len(b) :
           h[i] = IF i = 0 THEN 7 ELSE (h[i - 1] * 31 + b[i] + 1) % 9973
    <3>1. \A i \in 0 .. Len(b) : h[i] = Up(b, h, i)
      BY <1>4 DEF Fills
    <3> QED BY <3>1 DEF Up
  <2>2. h = [i \in 0 .. Len(b) |-> h[i]]
    OBVIOUS
  <2> QED BY <2>1, <2>2
<1>6. Is(hash)
  <2> HIDE DEF Is
  <2> QED BY <1>5
<1> HIDE DEF hash
<1>7. \A i \in 0 .. Len(b) : hash[i] = (IF i = 0 THEN 7 ELSE (hash[i - 1] * 31 + b[i] + 1) % 9973)
  BY <1>6
<1> DEFINE Odd == {i \in 0 .. Len(b) : hash[i] \notin Nat}
<1>8. ASSUME NEW i \in Odd, \A k \in Odd : i <= k PROVE FALSE
  <2>1. i \in 0 .. Len(b) /\ hash[i] \notin Nat
    OBVIOUS
  <2>2. i # 0
    BY <1>7, <2>1
  <2>3. i \in 1 .. Len(b) /\ i - 1 \in 0 .. Len(b) /\ ~(i <= i - 1)
    BY <1>0, <2>1, <2>2
  <2>4. hash[i - 1] \in Nat /\ b[i] \in Nat
    BY <1>8, <2>3, ElementOfSeq
  <2>5. hash[i] = (hash[i - 1] * 31 + b[i] + 1) % 9973
    BY <1>7, <2>1, <2>2
  <2> QED BY <2>1, <2>4, <2>5
<1>9. Odd \in SUBSET Nat
  BY <1>0
<1>10. Len(b) \notin Odd
  <2> HIDE DEF Odd
  <2> QED BY <1>8, <1>9, Smallest
<1>11. hash[Len(b)] \in Nat
  BY <1>0, <1>10
<1> QED BY <1>11 DEF Fnv1a, hash
-----------------------------------------------------------------------------
(* Sequences taken apart and put together.                                  *)

(* What is at the places of the first n elements, and of the others.        *)
LEMMA TakeProperties ==
  ASSUME NEW S, NEW s \in Seq(S), NEW n \in 0 .. Len(s)
  PROVE  /\ Take(s, n) \in Seq(S) /\ Len(Take(s, n)) = n
         /\ \A i \in 1 .. n : Take(s, n)[i] = s[i]
<1>1. \A i \in 1 .. n : s[i] \in S
  BY ElementOfSeq
<1>2. Len(s) \in Nat
  BY LenProperties
<1> QED BY <1>1, <1>2, SubSeqProperties DEF Take

(* What is behind the first n elements.                                     *)
LEMMA DropProperties ==
  ASSUME NEW S, NEW s \in Seq(S), NEW n \in 0 .. Len(s)
  PROVE  /\ Drop(s, n) \in Seq(S) /\ Len(Drop(s, n)) = Len(s) - n
         /\ \A i \in 1 .. Len(s) - n : Drop(s, n)[i] = s[n + i]
<1>1. \A i \in n + 1 .. Len(s) : s[i] \in S
  BY ElementOfSeq
<1>2. Len(s) \in Nat
  BY LenProperties
<1> QED BY <1>1, <1>2, SubSeqProperties DEF Drop

(* What is where in two sequences put together.                             *)
LEMMA Joined ==
  ASSUME NEW S, NEW s \in Seq(S), NEW t \in Seq(S)
  PROVE  /\ s \o t \in Seq(S) /\ Len(s \o t) = Len(s) + Len(t)
         /\ Len(s) \in Nat /\ Len(t) \in Nat
         /\ \A i \in 1 .. Len(s) : (s \o t)[i] = s[i]
         /\ \A i \in 1 .. Len(t) : (s \o t)[Len(s) + i] = t[i]
<1>1. Len(s) \in Nat /\ Len(t) \in Nat
  BY LenProperties
<1>2. s \o t \in Seq(S) /\ Len(s \o t) = Len(s) + Len(t)
  BY ConcatProperties
<1>3. \A i \in 1 .. Len(s) + Len(t) :
         (s \o t)[i] = IF i <= Len(s) THEN s[i] ELSE t[i - Len(s)]
  BY ConcatProperties
<1>4. ASSUME NEW i \in 1 .. Len(s) PROVE (s \o t)[i] = s[i]
  <2>1. i \in 1 .. Len(s) + Len(t) /\ i <= Len(s)
    BY <1>1
  <2> QED BY <1>3, <2>1
<1>5. ASSUME NEW i \in 1 .. Len(t) PROVE (s \o t)[Len(s) + i] = t[i]
  <2> DEFINE j == Len(s) + i
  <2>1. j \in 1 .. Len(s) + Len(t) /\ ~(j <= Len(s)) /\ j - Len(s) = i
    BY <1>1
  <2> HIDE DEF j
  <2>2. (s \o t)[j] = t[i]
    BY <1>3, <2>1
  <2> QED BY <2>2 DEF j
<1> QED BY <1>1, <1>2, <1>4, <1>5

(* The two parts make up the sequence.                                      *)
LEMMA TakeThenDrop ==
  ASSUME NEW S, NEW s \in Seq(S), NEW n \in 0 .. Len(s)
  PROVE  Take(s, n) \o Drop(s, n) = s
<1> DEFINE t == Take(s, n)
           u == Drop(s, n)
<1>1. Len(s) \in Nat
  BY LenProperties
<1>2. t \in Seq(S) /\ Len(t) = n /\ \A i \in 1 .. n : t[i] = s[i]
  BY TakeProperties
<1>3. /\ u \in Seq(S) /\ Len(u) = Len(s) - n
      /\ \A i \in 1 .. Len(s) - n : u[i] = s[n + i]
  BY DropProperties
<1> HIDE DEF t, u
<1>4. /\ t \o u \in Seq(S) /\ Len(t \o u) = n + Len(u)
      /\ \A i \in 1 .. n : (t \o u)[i] = t[i]
      /\ \A i \in 1 .. Len(u) : (t \o u)[n + i] = u[i]
  BY <1>2, <1>3, Joined
<1>5. Len(t \o u) = Len(s)
  BY <1>1, <1>3, <1>4
<1>6. ASSUME NEW i \in 1 .. Len(s) PROVE (t \o u)[i] = s[i]
  <2>1. CASE i <= n
    <3>1. i \in 1 .. n
      BY <1>1, <2>1
    <3> QED BY <1>2, <1>4, <3>1
  <2>2. CASE ~(i <= n)
    <3>1. PICK k \in 1 .. Len(s) - n : i = n + k
      BY <1>1, <2>2
    <3>2. (t \o u)[n + k] = u[k] /\ u[k] = s[n + k]
      BY <1>3, <1>4, <3>1
    <3> QED BY <3>1, <3>2
  <2> QED BY <2>1, <2>2
<1>7. t \o u = s
  BY <1>4, <1>5, <1>6, SeqEqual
<1> QED BY <1>7 DEF t, u

(* What is left when the first of two sequences is gone.                    *)
LEMMA DropFront ==
  ASSUME NEW S, NEW s \in Seq(S), NEW t \in Seq(S)
  PROVE  Drop(s \o t, Len(s)) = t
<1> DEFINE v == s \o t
           k == Len(s)
           w == Drop(v, k)
<1>1. /\ v \in Seq(S) /\ Len(v) = k + Len(t) /\ k \in Nat /\ Len(t) \in Nat
      /\ \A i \in 1 .. Len(t) : v[k + i] = t[i]
  BY Joined
<1> HIDE DEF v, k
<1>2. k \in 0 .. Len(v) /\ Len(v) - k = Len(t)
  BY <1>1
<1>3. /\ w \in Seq(S) /\ Len(w) = Len(v) - k
      /\ \A i \in 1 .. Len(v) - k : w[i] = v[k + i]
  BY <1>1, <1>2, DropProperties
<1> HIDE DEF w
<1>4. \A i \in 1 .. Len(t) : w[i] = t[i]
  BY <1>1, <1>2, <1>3
<1>5. w = t
  BY <1>2, <1>3, <1>4, SeqEqual
<1> QED BY <1>5 DEF v, k, w

(* Three sequences put together in either order.                            *)
LEMMA Associative ==
  ASSUME NEW S, NEW s \in Seq(S), NEW t \in Seq(S), NEW u \in Seq(S)
  PROVE  (s \o t) \o u = s \o (t \o u)
BY ConcatAssociative

(* A cut in the first of two sequences.                                     *)
LEMMA DropFirst ==
  ASSUME NEW S, NEW s \in Seq(S), NEW t \in Seq(S), NEW n \in 0 .. Len(s)
  PROVE  Drop(s, n) \o t = Drop(s \o t, n)
<1> DEFINE u == Take(s, n)
           w == Drop(s, n)
<1>1. u \in Seq(S) /\ w \in Seq(S) /\ Len(u) = n /\ u \o w = s
  BY TakeProperties, DropProperties, TakeThenDrop
<1> HIDE DEF u, w
<1>2. s \o t = u \o (w \o t) /\ w \o t \in Seq(S)
  <2>0. u \in Seq(S) /\ w \in Seq(S)
    BY <1>1
  <2>1. (u \o w) \o t = u \o (w \o t)
    BY <2>0, Associative
  <2> QED BY <1>1, <2>1, ConcatProperties
<1>3. Drop(u \o (w \o t), Len(u)) = w \o t
  BY <1>1, <1>2, DropFront
<1>4. Drop(s \o t, n) = w \o t
  BY <1>1, <1>2, <1>3
<1> QED BY <1>4 DEF w

(* Moving the front of the second sequence to the end of the first.         *)
LEMMA Moved ==
  ASSUME NEW S, NEW s \in Seq(S), NEW t \in Seq(S), NEW n \in 0 .. Len(t)
  PROVE  (s \o Take(t, n)) \o Drop(t, n) = s \o t
<1> DEFINE u == Take(t, n)
           w == Drop(t, n)
<1>1. u \in Seq(S) /\ w \in Seq(S) /\ u \o w = t
  BY TakeProperties, DropProperties, TakeThenDrop
<1> HIDE DEF u, w
<1>2. (s \o u) \o w = s \o t
  <2>0. u \in Seq(S) /\ w \in Seq(S)
    BY <1>1
  <2>1. (s \o u) \o w = s \o (u \o w)
    BY <2>0, Associative
  <2> QED BY <1>1, <2>1
<1> QED BY <1>2 DEF u, w

(* b and m are the same as far as both of them go.                          *)
Agrees(b, m) == \A i \in 1 .. Len(b) : i <= Len(m) => b[i] = m[i]

(* b is a part of m, from its beginning.                                    *)
Begins(b, m) == Len(b) <= Len(m) /\ Agrees(b, m)

(* A part that is as long as the whole, and more than it.                   *)
LEMMA AgreesWhole ==
  ASSUME NEW S, NEW b \in Seq(S), NEW m \in Seq(S), Agrees(b, m), Len(m) <= Len(b)
  PROVE  Take(b, Len(m)) = m
<1> DEFINE k == Len(m)
           t == Take(b, k)
<1>1. k \in Nat /\ Len(b) \in Nat
  BY LenProperties
<1>2. k \in 0 .. Len(b) /\ \A i \in 1 .. k : b[i] = m[i]
  BY <1>1 DEF Agrees
<1>3. t \in Seq(S) /\ Len(t) = k /\ \A i \in 1 .. k : t[i] = b[i]
  BY <1>2, TakeProperties
<1> HIDE DEF t
<1>4. t = m
  BY <1>2, <1>3, SeqEqual
<1> QED BY <1>4 DEF t

(* A part that is as long as the whole is the whole.                        *)
LEMMA BeginsWhole ==
  ASSUME NEW S, NEW b \in Seq(S), NEW m \in Seq(S), Begins(b, m), Len(m) <= Len(b)
  PROVE  b = m
<1>1. Len(b) = Len(m)
  BY LenProperties DEF Begins
<1>2. \A i \in 1 .. Len(b) : b[i] = m[i]
  BY <1>1, LenProperties DEF Begins, Agrees
<1> QED BY <1>1, <1>2, SeqEqual

(* A part of what agrees with m.                                            *)
LEMMA AgreesFront ==
  ASSUME NEW S, NEW b \in Seq(S), NEW r \in Seq(S), NEW m \in Seq(S),
         Agrees(b \o r, m)
  PROVE  Agrees(b, m)
<1>1. Len(b) \in Nat /\ Len(r) \in Nat /\ Len(b \o r) = Len(b) + Len(r)
      /\ \A i \in 1 .. Len(b) : (b \o r)[i] = b[i]
  BY Joined
<1>2. \A i \in 1 .. Len(b) : i \in 1 .. Len(b \o r)
  BY <1>1
<1> QED BY <1>1, <1>2 DEF Agrees

(* A part of what begins m; if it is all of m, nothing is behind it.        *)
LEMMA BeginsFront ==
  ASSUME NEW S, NEW b \in Seq(S), NEW r \in Seq(S), NEW m \in Seq(S),
         Begins(b \o r, m)
  PROVE  /\ Begins(b, m)
         /\ Len(m) <= Len(b) => r = <<>>
<1>1. Len(b) \in Nat /\ Len(r) \in Nat /\ Len(b \o r) = Len(b) + Len(r) /\ Len(m) \in Nat
  BY Joined, LenProperties
<1>2. Agrees(b, m)
  BY AgreesFront DEF Begins
<1>3. Len(b) <= Len(m)
  BY <1>1 DEF Begins
<1>4. ASSUME Len(m) <= Len(b) PROVE r = <<>>
  <2>1. Len(r) = 0
    BY <1>1, <1>4 DEF Begins
  <2> QED BY <2>1, EmptySeq
<1> QED BY <1>2, <1>3, <1>4 DEF Begins

(* What starts with m agrees with it.                                       *)
LEMMA StartsWith ==
  ASSUME NEW S, NEW m \in Seq(S), NEW r \in Seq(S)
  PROVE  Agrees(m \o r, m) /\ Begins(m, m) /\ Begins(m, m \o r)
<1>1. Len(m) \in Nat /\ Len(r) \in Nat /\ Len(m \o r) = Len(m) + Len(r)
      /\ \A i \in 1 .. Len(m) : (m \o r)[i] = m[i]
  BY Joined
<1> QED BY <1>1 DEF Agrees, Begins

(* The first n elements.                                                    *)
LEMMA TakeBegins ==
  ASSUME NEW S, NEW s \in Seq(S), NEW n \in 0 .. Len(s), NEW m \in Seq(S), Begins(s, m)
  PROVE  Begins(Take(s, n), m)
<1> DEFINE t == Take(s, n)
           u == Drop(s, n)
<1>1. t \in Seq(S) /\ u \in Seq(S) /\ t \o u = s
  BY TakeProperties, DropProperties, TakeThenDrop
<1> HIDE DEF t, u
<1>2. Begins(t \o u, m)
  BY <1>1
<1>3. Begins(t, m)
  BY <1>1, <1>2, BeginsFront
<1> QED BY <1>3 DEF t

(* A suffix, element by element.                                            *)
LEMMA SuffixIs ==
  ASSUME NEW S, NEW s \in Seq(S), NEW t \in Seq(S)
  PROVE  IsSuffix(s, t) <=> /\ Len(s) <= Len(t)
                            /\ \A i \in 1 .. Len(s) : s[i] = t[Len(t) - Len(s) + i]
<1> DEFINE m == Len(s)
           n == Len(t)
           u == Reverse(s)
           v == Reverse(t)
<1>1. m \in Nat /\ n \in Nat
  BY LenProperties
<1>2. \A i \in 1 .. m : s[m - i + 1] \in S
  BY <1>1, ElementOfSeq
<1>3. \A i \in 1 .. n : t[n - i + 1] \in S
  BY <1>1, ElementOfSeq
<1>4. u \in Seq(S) /\ Len(u) = m /\ \A i \in 1 .. m : u[i] = s[m - i + 1]
  BY <1>1, <1>2, IsASeq DEF Reverse
<1>5. v \in Seq(S) /\ Len(v) = n /\ \A i \in 1 .. n : v[i] = t[n - i + 1]
  BY <1>1, <1>3, IsASeq DEF Reverse
<1> HIDE DEF m, n, u, v
<1>6. IsSuffix(s, t) <=> m <= n /\ SubSeq(u, 1, m) = SubSeq(v, 1, m)
  BY <1>4, <1>5 DEF IsSuffix, IsPrefix, u, v
<1>7. ASSUME m <= n
      PROVE  SubSeq(u, 1, m) = SubSeq(v, 1, m) <=> \A i \in 1 .. m : u[i] = v[i]
  <2>1. m \in 0 .. Len(u) /\ m \in 0 .. Len(v)
    BY <1>1, <1>4, <1>5, <1>7
  <2>2. Take(u, m) \in Seq(S) /\ Len(Take(u, m)) = m /\ \A i \in 1 .. m : Take(u, m)[i] = u[i]
    BY <1>4, <2>1, TakeProperties
  <2>3. Take(v, m) \in Seq(S) /\ Len(Take(v, m)) = m /\ \A i \in 1 .. m : Take(v, m)[i] = v[i]
    BY <1>5, <2>1, TakeProperties
  <2>4. ASSUME \A i \in 1 .. m : u[i] = v[i] PROVE Take(u, m) = Take(v, m)
    BY <2>2, <2>3, <2>4, SeqEqual
  <2> QED BY <2>2, <2>3, <2>4 DEF Take
<1>8. ASSUME m <= n
      PROVE  (\A i \in 1 .. m : u[i] = v[i]) <=> \A i \in 1 .. m : s[i] = t[n - m + i]
  <2>1. ASSUME \A i \in 1 .. m : u[i] = v[i], NEW i \in 1 .. m PROVE s[i] = t[n - m + i]
    <3>1. PICK j \in 1 .. m : j = m - i + 1
      BY <1>1
    <3>2. m - j + 1 = i /\ j \in 1 .. n /\ n - j + 1 = n - m + i
      BY <1>1, <1>8, <3>1
    <3>3. u[j] = s[i] /\ v[j] = t[n - m + i]
      BY <1>4, <1>5, <3>2
    <3> QED BY <2>1, <3>3
  <2>2. ASSUME \A i \in 1 .. m : s[i] = t[n - m + i], NEW i \in 1 .. m PROVE u[i] = v[i]
    <3>1. PICK j \in 1 .. m : j = m - i + 1
      BY <1>1
    <3>2. i \in 1 .. n /\ n - i + 1 = n - m + j
      BY <1>1, <1>8, <3>1
    <3>3. u[i] = s[j] /\ v[i] = t[n - m + j]
      BY <1>4, <1>5, <3>1, <3>2
    <3> QED BY <2>2, <3>3
  <2> QED BY <2>1, <2>2
<1> QED BY <1>6, <1>7, <1>8 DEF m, n

(* A sequence that has lost its beginning.                                  *)
LEMMA DropSuffix ==
  ASSUME NEW S, NEW s \in Seq(S), NEW n \in 0 .. Len(s)
  PROVE  IsSuffix(Drop(s, n), s)
<1> DEFINE t == Drop(s, n)
           k == Len(s)
<1>1. k \in Nat
  BY LenProperties
<1>2. t \in Seq(S) /\ Len(t) = k - n /\ \A i \in 1 .. k - n : t[i] = s[n + i]
  BY DropProperties
<1> HIDE DEF t, k
<1>3. n \in Nat /\ n <= k /\ k - (k - n) = n
  BY <1>1 DEF k
<1>4. Len(t) <= k /\ \A i \in 1 .. Len(t) : t[i] = s[k - Len(t) + i]
  BY <1>1, <1>2, <1>3
<1>5. IsSuffix(t, s)
  BY <1>2, <1>4, SuffixIs DEF k
<1> QED BY <1>5 DEF t

(* An element behind a suffix and behind the whole.                         *)
LEMMA SuffixGrows ==
  ASSUME NEW S, NEW s \in Seq(S), NEW t \in Seq(S), NEW e \in S, IsSuffix(s, t)
  PROVE  IsSuffix(Append(s, e), Append(t, e))
<1> DEFINE u == Append(s, e)
           v == Append(t, e)
           m == Len(s)
           n == Len(t)
<1>1. m \in Nat /\ n \in Nat
  BY LenProperties
<1>2. u \in Seq(S) /\ Len(u) = m + 1 /\ u[m + 1] = e /\ \A i \in 1 .. m : u[i] = s[i]
  BY AppendProperties
<1>3. v \in Seq(S) /\ Len(v) = n + 1 /\ v[n + 1] = e /\ \A i \in 1 .. n : v[i] = t[i]
  BY AppendProperties
<1>4. m <= n /\ \A i \in 1 .. m : s[i] = t[n - m + i]
  BY SuffixIs
<1> HIDE DEF u, v, m, n
<1>5. ASSUME NEW i \in 1 .. m + 1 PROVE u[i] = v[(n + 1) - (m + 1) + i]
  <2>1. CASE i = m + 1
    <3>1. (n + 1) - (m + 1) + i = n + 1
      BY <1>1, <2>1
    <3> QED BY <1>2, <1>3, <2>1, <3>1
  <2>2. CASE i # m + 1
    <3>1. i \in 1 .. m
      BY <1>1, <2>2
    <3>2. (n + 1) - (m + 1) + i = n - m + i /\ n - m + i \in 1 .. n
      BY <1>1, <1>4, <3>1
    <3> QED BY <1>2, <1>3, <1>4, <3>1, <3>2
  <2> QED BY <2>1, <2>2
<1>6. IsSuffix(u, v)
  <2>1. Len(u) <= Len(v)
    BY <1>1, <1>2, <1>3, <1>4
  <2>2. \A i \in 1 .. Len(u) : u[i] = v[Len(v) - Len(u) + i]
    BY <1>2, <1>3, <1>5
  <2> QED BY <1>2, <1>3, <2>1, <2>2, SuffixIs
<1> QED BY <1>6 DEF u, v

(* Three sequences one behind the other.                                    *)
LEMMA Joined3 ==
  ASSUME NEW S, NEW s \in Seq(S), NEW t \in Seq(S), NEW u \in Seq(S)
  PROVE  /\ s \o t \o u \in Seq(S) /\ Len(s \o t \o u) = Len(s) + Len(t) + Len(u)
         /\ Len(s) \in Nat /\ Len(t) \in Nat /\ Len(u) \in Nat
         /\ \A i \in 1 .. Len(s) : (s \o t \o u)[i] = s[i]
         /\ \A i \in 1 .. Len(t) : (s \o t \o u)[Len(s) + i] = t[i]
         /\ \A i \in 1 .. Len(u) : (s \o t \o u)[Len(s) + Len(t) + i] = u[i]
<1> DEFINE v == s \o t
           m == Len(s)
           n == Len(t)
<1>1. /\ v \in Seq(S) /\ Len(v) = m + n /\ m \in Nat /\ n \in Nat
      /\ \A i \in 1 .. m : v[i] = s[i]
      /\ \A i \in 1 .. n : v[m + i] = t[i]
  BY Joined
<1> HIDE DEF v, m, n
<1>2. /\ v \o u \in Seq(S) /\ Len(v \o u) = (m + n) + Len(u) /\ Len(u) \in Nat
      /\ \A i \in 1 .. m + n : (v \o u)[i] = v[i]
      /\ \A i \in 1 .. Len(u) : (v \o u)[(m + n) + i] = u[i]
  <2>1. /\ v \o u \in Seq(S) /\ Len(v \o u) = Len(v) + Len(u) /\ Len(u) \in Nat
        /\ \A i \in 1 .. Len(v) : (v \o u)[i] = v[i]
        /\ \A i \in 1 .. Len(u) : (v \o u)[Len(v) + i] = u[i]
    <3>1. v \in Seq(S)
      BY <1>1
    <3> QED BY <3>1, Joined
  <2> QED BY <1>1, <2>1
<1>3. \A i \in 1 .. m : (v \o u)[i] = s[i]
  <2>1. \A i \in 1 .. m : i \in 1 .. m + n
    BY <1>1
  <2> QED BY <1>1, <1>2, <2>1
<1>4. \A i \in 1 .. n : (v \o u)[m + i] = t[i]
  <2>1. \A i \in 1 .. n : m + i \in 1 .. m + n
    BY <1>1
  <2> QED BY <1>1, <1>2, <2>1
<1> QED BY <1>1, <1>2, <1>3, <1>4 DEF v, m, n

-----------------------------------------------------------------------------
(* What the encoders write.                                                 *)

Complete(b, m) == IF Len(b) < Len(m) THEN 0 ELSE Len(m)

(* The same number n times.                                                 *)
LEMMA CopiesProperties ==
  ASSUME NEW v \in Nat, NEW n \in Nat
  PROVE  /\ Copies(v, n) \in Seq(Nat) /\ Len(Copies(v, n)) = n
         /\ \A i \in 1 .. n : Copies(v, n)[i] = v
BY IsASeq DEF Copies

(* A port, in two bytes and back.                                           *)
LEMMA Port ==
  ASSUME NEW n \in Ports
  PROVE  /\ Be16(n) \in Seq(Nat) /\ Len(Be16(n)) = 2
         /\ \A b \in Seq(Nat), i \in Nat :
               b[i] = Be16(n)[1] /\ b[i + 1] = Be16(n)[2] => FromBe16(b, i) = n
<1>0. n \in Nat
  BY DEF Ports
<1> DEFINE c == 256
<1>1. n \div c \in Nat /\ n % c \in Nat /\ n = c * (n \div c) + (n % c)
  <2>1. c \in Nat \ {0}
    OBVIOUS
  <2> HIDE DEF c
  <2> QED BY <1>0, <2>1
<1>2. PICK h, l \in Nat : h = n \div 256 /\ l = n % 256
  BY <1>1
<1>3. Be16(n) = <<h, l>> /\ h * 256 + l = n
  BY <1>1, <1>2 DEF Be16
<1> DEFINE w == <<h, l>>
<1>4. w \in Seq(Nat) /\ Len(w) = 2 /\ w[1] = h /\ w[2] = l
  OBVIOUS
<1> HIDE DEF w
<1>5. ASSUME NEW b \in Seq(Nat), NEW i \in Nat, b[i] = w[1], b[i + 1] = w[2]
      PROVE  FromBe16(b, i) = n
  BY <1>3, <1>4, <1>5 DEF FromBe16
<1>6. Be16(n) = w
  BY <1>3 DEF w
<1>7. \A b \in Seq(Nat), i \in Nat : b[i] = w[1] /\ b[i + 1] = w[2] => FromBe16(b, i) = n
  BY <1>5
<1> QED BY <1>4, <1>6, <1>7

(* A target is a record of its fields.                                      *)
LEMMA TargetFields ==
  ASSUME NEW X, NEW Y, NEW Z, NEW t \in [type : X, host : Y, port : Z]
  PROVE  /\ t.type \in X /\ t.host \in Y /\ t.port \in Z
         /\ t = [type |-> t.type, host |-> t.host, port |-> t.port]
OBVIOUS

(* What a target that can be sent is made of.                               *)
LEMMA SendableTarget ==
  ASSUME NEW t, Sendable(t)
  PROVE  /\ t.type \in {Ipv4, Domain, Ipv6} /\ t.host \in Seq(Bytes) /\ t.port \in Ports
         /\ t = [type |-> t.type, host |-> t.host, port |-> t.port]
<1>1. t \in [type : {Ipv4, Domain, Ipv6}, host : Seq(Bytes), port : Ports]
  BY Zenon DEF Sendable, Targets
<1> QED BY <1>1, TargetFields, Zenon

(* Its type is one of the three, and its host a sequence of numbers.        *)
LEMMA SendableFields ==
  ASSUME NEW t, Sendable(t)
  PROVE  t.type \in {Ipv4, Domain, Ipv6} /\ t.host \in Seq(Nat) /\ Len(t.host) \in Nat
<1>1. t.type \in {Ipv4, Domain, Ipv6} /\ t.host \in Seq(Bytes)
  BY SendableTarget, Zenon
<1>2. Bytes \subseteq Nat
  BY DEF Bytes
<1> DEFINE h == t.host
           B == Bytes
<1>3. h \in Seq(B) /\ B \subseteq Nat
  BY <1>1, <1>2
<1> HIDE DEF h, B
<1>4. h \in Seq(Nat)
  BY <1>3, SeqMonotonic
<1>5. Len(h) \in Nat
  BY <1>4, LenProperties
<1> QED BY <1>1, <1>4, <1>5 DEF h

(* Its port fits in two bytes.                                              *)
LEMMA SendablePort ==
  ASSUME NEW t, Sendable(t)
  PROVE  t.port \in Ports
BY SendableTarget, Zenon

(* It has no other field.                                                   *)
LEMMA SendableRecord ==
  ASSUME NEW t, Sendable(t)
  PROVE  t = [type |-> t.type, host |-> t.host, port |-> t.port]
BY SendableTarget, Zenon

(* An address, and where a domain has its length.                           *)
LEMMA Address ==
  ASSUME NEW t, Sendable(t)
  PROVE  /\ AddrBytes(t) \in Seq(Nat) /\ Len(AddrBytes(t)) \in Nat \ {0}
         /\ t.type # Domain => /\ AddrBytes(t) = t.host
                               /\ Len(t.host) = IF t.type = Ipv4 THEN 4 ELSE Wide
         /\ t.type = Domain => /\ AddrBytes(t) = <<Len(t.host)>> \o t.host
                               /\ AddrBytes(t)[1] = Len(t.host)
                               /\ Len(AddrBytes(t)) = 1 + Len(t.host)
                               /\ \A i \in 1 .. Len(t.host) : AddrBytes(t)[1 + i] = t.host[i]
<1>1. t.type \in {Ipv4, Domain, Ipv6} /\ t.host \in Seq(Nat) /\ Len(t.host) \in Nat
  BY SendableFields
<1>2. CASE t.type # Domain
  <2>1. Len(t.host) = IF t.type = Ipv4 THEN 4 ELSE Wide
    BY <1>1, <1>2 DEF Sendable
  <2>2. Len(t.host) \in Nat \ {0}
    BY <2>1, WideAssumption
  <2> QED BY <1>1, <1>2, <2>1, <2>2 DEF AddrBytes
<1>3. CASE t.type = Domain
  <2> DEFINE h == t.host
             k == Len(t.host)
  <2>1. k < 256 /\ k \in Nat
    BY <1>1, <1>3 DEF Sendable
  <2> HIDE DEF k
  <2>2. k % 256 = k
    BY <2>1
  <2> USE DEF k
  <2>3. Take(h, k) = h
    BY <1>1, SubSeqFull DEF Take
  <2>4. AddrBytes(t) = <<k>> \o h
    BY <1>3, <2>2, <2>3 DEF AddrBytes
  <2> HIDE DEF k, h
  <2>5. <<k>> \in Seq(Nat) /\ Len(<<k>>) = 1 /\ <<k>>[1] = k
    BY <2>1
  <2> DEFINE w == <<k>>
  <2>6. w \in Seq(Nat) /\ Len(w) = 1 /\ w[1] = k /\ h \in Seq(Nat) /\ Len(h) = k
    BY <2>5, <1>1 DEF h, k
  <2> HIDE DEF w
  <2>7. /\ w \o h \in Seq(Nat) /\ Len(w \o h) = 1 + k /\ (w \o h)[1] = k
        /\ \A i \in 1 .. k : (w \o h)[1 + i] = h[i]
    <3>0. w \in Seq(Nat) /\ h \in Seq(Nat)
      BY <2>6
    <3> HIDE DEF h
    <3>1. /\ w \o h \in Seq(Nat) /\ Len(w \o h) = Len(w) + Len(h)
          /\ \A i \in 1 .. Len(w) : (w \o h)[i] = w[i]
          /\ \A i \in 1 .. Len(h) : (w \o h)[Len(w) + i] = h[i]
      BY <3>0, Joined
    <3> QED BY <2>1, <2>6, <3>1
  <2> QED BY <1>3, <2>1, <2>4, <2>7 DEF w, h, k
<1> QED BY <1>1, <1>2, <1>3

(* m has the address of t behind its first k bytes.                         *)
Holds(m, t, k) ==
    /\ k + Len(AddrBytes(t)) <= Len(m)
    /\ \A i \in 1 .. Len(AddrBytes(t)) : m[k + i] = AddrBytes(t)[i]

(* A decoder that has k bytes and one more knows the size of the address.   *)
LEMMA SizeKnown ==
  ASSUME NEW t, Sendable(t), NEW k \in Nat, NEW m \in Seq(Nat), Holds(m, t, k),
         NEW b \in Seq(Nat), Agrees(b, m)
  PROVE  /\ k < Len(b) => AddrSize(t.type, b, k + 1) = Len(AddrBytes(t))
         /\ AddrSize(t.type, b, k + 1) \in Nat \ {0}
<1>1. t.type \in {Ipv4, Domain, Ipv6} /\ Len(b) \in Nat /\ Len(m) \in Nat
  BY SendableFields, LenProperties
<1>2. CASE t.type # Domain
  <2>1. AddrSize(t.type, b, k + 1) = IF t.type = Ipv4 THEN 4 ELSE Wide
    BY <1>1, <1>2 DEF AddrSize, Ipv4, Ipv6, Domain
  <2> QED BY <1>2, <2>1, Address, WideAssumption
<1>3. CASE t.type = Domain
  <2>1. AddrSize(t.type, b, k + 1) = 1 + (IF k + 1 <= Len(b) THEN b[k + 1] ELSE 0)
    BY <1>3 DEF AddrSize, Ipv4, Ipv6, Domain
  <2>2. ASSUME k < Len(b)
        PROVE  b[k + 1] = Len(t.host) /\ k + 1 <= Len(b) /\ b[k + 1] \in Nat
    <3>0. Len(AddrBytes(t)) \in Nat \ {0}
      BY Address
    <3>1. k + 1 \in 1 .. Len(b) /\ k + 1 <= Len(m) /\ 1 \in 1 .. Len(AddrBytes(t))
      BY <1>1, <2>2, <3>0 DEF Holds
    <3>2. b[k + 1] = m[k + 1] /\ m[k + 1] = AddrBytes(t)[1]
      BY <3>1 DEF Holds, Agrees
    <3>3. AddrBytes(t)[1] = Len(t.host)
      BY <1>3, Address
    <3> QED BY <3>1, <3>2, <3>3, ElementOfSeq
  <2>3. ASSUME k < Len(b)
        PROVE  AddrSize(t.type, b, k + 1) = Len(AddrBytes(t))
    BY <1>3, <2>1, <2>2, <2>3, Address
  <2>4. ASSUME ~(k < Len(b)) PROVE AddrSize(t.type, b, k + 1) = 1
    BY <1>1, <2>1, <2>4
  <2>5. Len(AddrBytes(t)) \in Nat \ {0}
    BY Address
  <2> QED BY <2>3, <2>4, <2>5
<1> QED BY <1>2, <1>3

(* And the whole message gives the host back.                               *)
LEMMA HostKnown ==
  ASSUME NEW t, Sendable(t), NEW k \in Nat, NEW m \in Seq(Nat), Holds(m, t, k)
  PROVE  HostAt(t.type, m, k + 1) = t.host
<1> DEFINE a == AddrBytes(t)
           h == t.host
<1>1. /\ t.type \in {Ipv4, Domain, Ipv6} /\ Len(m) \in Nat /\ h \in Seq(Nat)
      /\ a \in Seq(Nat) /\ Len(a) \in Nat \ {0} /\ Len(h) \in Nat
  BY SendableFields, LenProperties, Address
<1>2. AddrSize(t.type, m, k + 1) = Len(a)
  <2>1. Agrees(m, m) /\ k < Len(m)
    BY <1>1 DEF Agrees, Holds
  <2> QED BY <2>1, SizeKnown
<1>3. \A i \in 1 .. Len(a) : m[k + i] = a[i]
  BY DEF Holds
<1> DEFINE end == k + Len(a)
<1>4. end = k + 1 + Len(a) - 1 /\ end \in Nat
  BY <1>1
<1>5. CASE t.type # Domain
  <2>1. HostAt(t.type, m, k + 1) = SubSeq(m, k + 1, end)
    BY <1>2, <1>4, <1>5 DEF HostAt
  <2>2. a = h
    BY <1>5, Address
  <2> HIDE DEF a, h
  <2>3. \A i \in k + 1 .. end : m[i] \in Nat
    BY <1>1, ElementOfSeq DEF Holds, a
  <2> DEFINE x == k + 1
             s == SubSeq(m, x, end)
  <2>4. x \in Int /\ end \in Int /\ \A i \in x .. end : m[i] \in Nat
    BY <2>3, <1>4
  <2>5. x <= end /\ end - x + 1 = Len(a) /\ \A i \in 1 .. Len(a) : x + i - 1 = k + i
    BY <1>1
  <2> HIDE DEF x, end
  <2>6. /\ s \in Seq(Nat) /\ Len(s) = end - x + 1
        /\ \A i \in 1 .. end - x + 1 : s[i] = m[x + i - 1]
    BY <2>4, <2>5, SubSeqProperties
  <2> HIDE DEF s
  <2>7. s = a
    <3>1. \A i \in 1 .. Len(a) : s[i] = a[i]
      BY <1>3, <2>5, <2>6
    <3> QED BY <1>1, <2>5, <2>6, <3>1, SeqEqual
  <2> QED BY <2>1, <2>2, <2>7 DEF s, x, h
<1>6. CASE t.type = Domain
  <2>1. HostAt(t.type, m, k + 1) = SubSeq(m, k + 1 + 1, end)
    BY <1>2, <1>4, <1>6 DEF HostAt
  <2>2. Len(a) = 1 + Len(h) /\ \A i \in 1 .. Len(h) : a[1 + i] = h[i]
    BY <1>6, Address
  <2> HIDE DEF a, h
  <2>3. \A i \in k + 1 .. end : m[i] \in Nat
    BY <1>1, ElementOfSeq DEF Holds, a
  <2> DEFINE x == k + 1 + 1
             s == SubSeq(m, x, end)
             n == Len(h)
  <2>4. x \in Int /\ end \in Int /\ \A i \in x .. end : m[i] \in Nat
    BY <2>3, <1>4
  <2>5. (IF x <= end THEN end - x + 1 ELSE 0) = n /\ end - x + 1 = n
    BY <1>1, <2>2
  <2>8. \A i \in 1 .. n : x + i - 1 = k + (1 + i) /\ 1 + i \in 1 .. Len(a)
    BY <1>1, <2>2
  <2> HIDE DEF x, end, n
  <2>6. /\ s \in Seq(Nat) /\ Len(s) = n
        /\ \A i \in 1 .. n : s[i] = m[x + i - 1]
    BY <2>4, <2>5, SubSeqProperties
  <2> HIDE DEF s
  <2>7. s = h
    <3>1. \A i \in 1 .. n : s[i] = h[i]
      BY <1>3, <2>2, <2>8, <2>6 DEF n
    <3> QED BY <1>1, <2>6, <3>1, SeqEqual DEF n
  <2> QED BY <2>1, <2>7 DEF s, x, h
<1> QED BY <1>5, <1>6

-----------------------------------------------------------------------------
(* What the decoders of SOCKS make of any part of a message, and of what is *)
(* behind it.                                                               *)

(* Short messages, cell by cell.                                            *)
LEMMA Two ==
  ASSUME NEW x \in Nat, NEW y \in Nat
  PROVE  <<x, y>> \in Seq(Nat) /\ Len(<<x, y>>) = 2 /\ <<x, y>>[1] = x /\ <<x, y>>[2] = y
OBVIOUS

(* Four numbers, as a sequence.                                             *)
LEMMA Four ==
  ASSUME NEW x \in Nat, NEW y \in Nat, NEW z \in Nat, NEW w \in Nat
  PROVE  /\ <<x, y, z, w>> \in Seq(Nat) /\ Len(<<x, y, z, w>>) = 4
         /\ <<x, y, z, w>>[1] = x /\ <<x, y, z, w>>[2] = y
         /\ <<x, y, z, w>>[3] = z /\ <<x, y, z, w>>[4] = w
OBVIOUS

(* A client's offer, which is refused at once when it is empty.             *)
LEMMA AuthSelLayout ==
  ASSUME NEW methods \in Seq(Nat)
  PROVE  /\ AuthSel(methods) \in Seq(Nat) /\ Len(AuthSel(methods)) = 2 + Len(methods)
         /\ Len(methods) \in Nat
         /\ AuthSel(methods)[1] = 5 /\ AuthSel(methods)[2] = Len(methods)
         /\ \A i \in 1 .. Len(methods) : AuthSel(methods)[2 + i] = methods[i]
<1> DEFINE n == Len(methods)
           h == <<5, n>>
           m == h \o methods
<1>1. n \in Nat
  BY LenProperties
<1> HIDE DEF n
<1>2. h \in Seq(Nat) /\ Len(h) = 2 /\ h[1] = 5 /\ h[2] = n
  BY <1>1, Two
<1> HIDE DEF h
<1>3. /\ m \in Seq(Nat) /\ Len(m) = Len(h) + Len(methods)
      /\ \A i \in 1 .. Len(h) : m[i] = h[i]
      /\ \A i \in 1 .. Len(methods) : m[Len(h) + i] = methods[i]
  <2>1. h \in Seq(Nat)
    BY <1>2
  <2> QED BY <2>1, Joined
<1> HIDE DEF m
<1>4. m[1] = 5 /\ m[2] = n
  BY <1>2, <1>3
<1>5. AuthSel(methods) = m
  BY DEF AuthSel, m, h, n
<1> QED BY <1>1, <1>2, <1>3, <1>4, <1>5 DEF n

(* The server takes the offer when all of it has come.                      *)
LEMMA ReadAuthSel ==
  ASSUME NEW methods \in Seq(Nat), NEW b \in Seq(Nat), Agrees(b, AuthSel(methods))
  PROVE  /\ methods # <<>> => DecodeAuthSel(b) = Complete(b, AuthSel(methods))
         /\ methods = <<>> => DecodeAuthSel(b) \in {-1, 0}
<1> DEFINE m == AuthSel(methods)
           n == Len(methods)
<1>1. Len(b) \in Nat /\ n \in Nat /\ Len(m) = 2 + n /\ m[1] = 5 /\ m[2] = n
  BY LenProperties, AuthSelLayout
<1>2. methods = <<>> <=> n = 0
  BY EmptySeq
<1> HIDE DEF m, n
<1>3. Len(b) >= 2 => b[1] = 5 /\ b[2] = n
  BY <1>1 DEF Agrees, m
<1>4. CASE Len(b) < 2
  <2>1. DecodeAuthSel(b) = 0
    BY <1>1, <1>4 DEF DecodeAuthSel, Returns
  <2>2. Complete(b, m) = 0
    BY <1>1, <1>4 DEF Complete
  <2> QED BY <2>1, <2>2 DEF m
<1>5. CASE Len(b) >= 2 /\ n # 0
  <2>1. DecodeAuthSel(b) = IF Len(b) < 2 + n THEN 0 ELSE 2 + n
    BY <1>1, <1>3, <1>5 DEF DecodeAuthSel, Returns
  <2> QED BY <1>1, <1>2, <1>5, <2>1 DEF Complete, m
<1>6. CASE Len(b) >= 2 /\ n = 0
  <2>1. DecodeAuthSel(b) = -1
    BY <1>1, <1>3, <1>6 DEF DecodeAuthSel, Returns
  <2> QED BY <1>2, <1>6, <2>1
<1> QED BY <1>1, <1>4, <1>5, <1>6

(* The answer to it.                                                        *)
LEMMA ReadAuthAck ==
  /\ AuthAck(NoAuth) \in Seq(Nat) /\ Len(AuthAck(NoAuth)) = 2 /\ AuthAck(NoAuth)[2] = NoAuth
  /\ \A b \in Seq(Nat) :
        Agrees(b, AuthAck(NoAuth)) => DecodeAuthAck(b) = Complete(b, AuthAck(NoAuth))
<1> DEFINE m == AuthAck(NoAuth)
<1>1. m \in Seq(Nat) /\ Len(m) = 2 /\ m[1] = 5 /\ m[2] = NoAuth
  BY Two DEF AuthAck, NoAuth
<1> HIDE DEF m
<1>2. ASSUME NEW b \in Seq(Nat), Agrees(b, m) PROVE DecodeAuthAck(b) = Complete(b, m)
  <2>1. Len(b) \in Nat
    BY LenProperties
  <2>2. Len(b) >= 2 => b[1] = 5
    BY <1>1, <1>2, <2>1 DEF Agrees
  <2> QED BY <1>1, <2>1, <2>2 DEF DecodeAuthAck, Returns, Complete
<1> QED BY <1>1, <1>2 DEF m

(* The two numberings of the address types.                                 *)
LEMMA TypeBack ==
  ASSUME NEW type \in {Ipv4, Domain, Ipv6}
  PROVE  Socks5Type[type] \in Nat /\ FromSocks5Type(Socks5Type[type]) = type /\ type # 0
BY DEF Socks5Type, FromSocks5Type, Ipv4, Domain, Ipv6

(* A SOCKS 5 request.                                                       *)
LEMMA Request5Layout ==
  ASSUME NEW cmd \in Nat, NEW t, Sendable(t)
  PROVE  /\ Request5(cmd, t) \in Seq(Nat)
         /\ Len(Request5(cmd, t)) = 4 + Len(AddrBytes(t)) + 2
         /\ Request5(cmd, t)[1] = 5 /\ Request5(cmd, t)[2] = cmd
         /\ Request5(cmd, t)[4] = Socks5Type[t.type]
         /\ Holds(Request5(cmd, t), t, 4)
         /\ Request5(cmd, t)[4 + Len(AddrBytes(t)) + 1] = Be16(t.port)[1]
         /\ Request5(cmd, t)[4 + Len(AddrBytes(t)) + 2] = Be16(t.port)[2]
<1> DEFINE y == Socks5Type[t.type]
           h == <<5, cmd, 0, y>>
           a == AddrBytes(t)
           p == Be16(t.port)
           m == h \o a \o p
<1>1. y \in Nat
  BY SendableFields, TypeBack
<1> HIDE DEF y
<1>2. h \in Seq(Nat) /\ Len(h) = 4 /\ h[1] = 5 /\ h[2] = cmd /\ h[4] = y
  BY <1>1, Four
<1> HIDE DEF h
<1>3. a \in Seq(Nat) /\ Len(a) \in Nat
  BY Address
<1>4. p \in Seq(Nat) /\ Len(p) = 2
  BY SendablePort, Port
<1> HIDE DEF a, p
<1>5. /\ m \in Seq(Nat) /\ Len(m) = Len(h) + Len(a) + Len(p)
      /\ \A i \in 1 .. Len(h) : m[i] = h[i]
      /\ \A i \in 1 .. Len(a) : m[Len(h) + i] = a[i]
      /\ \A i \in 1 .. Len(p) : m[Len(h) + Len(a) + i] = p[i]
  <2>1. h \in Seq(Nat) /\ a \in Seq(Nat) /\ p \in Seq(Nat)
    BY <1>2, <1>3, <1>4
  <2> QED BY <2>1, Joined3
<1> HIDE DEF m
<1>6. m[1] = 5 /\ m[2] = cmd /\ m[4] = y
  BY <1>2, <1>5
<1>7. m[4 + Len(a) + 1] = p[1] /\ m[4 + Len(a) + 2] = p[2]
  BY <1>2, <1>4, <1>5
<1>8. Len(m) = 4 + Len(a) + 2
  BY <1>2, <1>4, <1>5
<1>9. 4 + Len(a) <= Len(m) /\ \A i \in 1 .. Len(a) : m[4 + i] = a[i]
  BY <1>2, <1>3, <1>5, <1>8
<1>10. Holds(m, t, 4)
  BY <1>9 DEF Holds, a
<1>11. Request5(cmd, t) = m
  BY DEF Request5, m, h, a, p, y
<1> QED BY <1>5, <1>6, <1>7, <1>8, <1>10, <1>11 DEF y, a, p

(* The server takes a request when all of it has come, and never before.    *)
LEMMA ReadRequest5 ==
  ASSUME NEW cmd \in Nat, NEW t, Sendable(t), NEW b \in Seq(Nat), Agrees(b, Request5(cmd, t))
  PROVE  DecodeRequest5(b) = Complete(b, Request5(cmd, t))
<1> DEFINE m == Request5(cmd, t)
           n == Len(AddrBytes(t))
           k == AddrSize(t.type, b, 5)
<1>1. /\ m \in Seq(Nat) /\ Len(m) = 4 + n + 2 /\ m[1] = 5 /\ m[4] = Socks5Type[t.type]
      /\ Holds(m, t, 4)
  BY Request5Layout
<1>2. Len(b) \in Nat /\ n \in Nat \ {0}
  BY LenProperties, Address
<1>3. FromSocks5Type(Socks5Type[t.type]) = t.type /\ t.type # 0
  BY SendableFields, TypeBack
<1> HIDE DEF m
<1>4. (4 < Len(b) => k = n) /\ k \in Nat \ {0}
  <2>1. Agrees(b, m)
    BY DEF m
  <2>2. /\ 4 < Len(b) => AddrSize(t.type, b, 4 + 1) = n
        /\ AddrSize(t.type, b, 4 + 1) \in Nat \ {0}
    BY <1>1, <2>1, SizeKnown
  <2>3. 4 + 1 = 5
    OBVIOUS
  <2> QED BY <2>2, <2>3
<1> HIDE DEF n, k
<1>5. (Len(b) >= 1 => b[1] = 5) /\ (Len(b) >= 4 => b[4] = Socks5Type[t.type])
  <2>1. \A i \in 1 .. Len(b) : i <= Len(m) => b[i] = m[i]
    BY DEF Agrees, m
  <2> QED BY <1>1, <1>2, <2>1
<1>6. CASE Len(b) < 4
  <2>1. DecodeRequest5(b) = 0
    BY <1>2, <1>5, <1>6 DEF DecodeRequest5, Returns, Socks5Size
  <2> QED BY <1>1, <1>2, <1>6, <2>1 DEF Complete, m
<1>7. CASE Len(b) >= 4
  <2>1. FromSocks5Type(b[4]) = t.type
    BY <1>3, <1>5, <1>7
  <2>2. Socks5Size(b) = 4 + k + 2
    BY <1>2, <1>7, <2>1 DEF Socks5Size, k
  <2>3. DecodeRequest5(b) = IF Len(b) < 4 + k + 2 THEN 0 ELSE 4 + k + 2
    BY <1>2, <1>3, <1>5, <1>7, <2>1, <2>2 DEF DecodeRequest5, Returns
  <2> QED BY <1>1, <1>2, <1>4, <1>7, <2>3 DEF Complete, m
<1> QED BY <1>2, <1>6, <1>7

(* The server has the target that was asked for.                            *)
LEMMA Request5Target ==
  ASSUME NEW cmd \in Nat, NEW t, Sendable(t)
  PROVE  Target5(Request5(cmd, t)) = t /\ Request5(cmd, t)[2] = cmd
<1> DEFINE m == Request5(cmd, t)
           n == Len(AddrBytes(t))
<1>0. m \in Seq(Nat) /\ m[2] = cmd /\ m[4] = Socks5Type[t.type] /\ Holds(m, t, 4)
  BY Request5Layout
<1>8. Len(m) = 4 + n + 2 /\ m[4 + n + 1] = Be16(t.port)[1] /\ m[4 + n + 2] = Be16(t.port)[2]
  BY Request5Layout
<1>1. /\ m \in Seq(Nat) /\ m[2] = cmd /\ m[4] = Socks5Type[t.type] /\ Holds(m, t, 4)
      /\ Len(m) = 4 + n + 2 /\ m[4 + n + 1] = Be16(t.port)[1] /\ m[4 + n + 2] = Be16(t.port)[2]
  BY <1>0, <1>8, Zenon
<1>2. n \in Nat \ {0}
  BY Address
<1>3. FromSocks5Type(m[4]) = t.type
  BY <1>1, SendableFields, TypeBack
<1> HIDE DEF m
<1>4. HostAt(t.type, m, 5) = t.host
  <2>1. HostAt(t.type, m, 4 + 1) = t.host
    BY <1>1, HostKnown
  <2> QED BY <2>1
<1>5. AddrSize(t.type, m, 5) = n
  <2>1. Agrees(m, m) /\ 4 < Len(m)
    BY <1>1, <1>2 DEF Agrees
  <2>2. AddrSize(t.type, m, 4 + 1) = n
    BY <1>1, <2>1, SizeKnown
  <2> QED BY <2>2
<1> HIDE DEF n
<1>6. FromBe16(m, 5 + n) = t.port
  <2>1. 4 + n + 1 = 5 + n /\ 4 + n + 2 = (5 + n) + 1 /\ 5 + n \in Nat
    BY <1>2
  <2>2. m[5 + n] = Be16(t.port)[1] /\ m[(5 + n) + 1] = Be16(t.port)[2]
    BY <1>1, <2>1
  <2> QED BY <1>1, <2>1, <2>2, SendablePort, Port
<1>7. Target5(m) = [type |-> t.type, host |-> t.host, port |-> t.port]
  BY <1>3, <1>4, <1>5, <1>6 DEF Target5
<1> QED BY <1>1, <1>7, SendableRecord DEF m

(* The two answers that end a SOCKS handshake.                              *)
LEMMA ReadResponse5 ==
  /\ Response5(Success5) \in Seq(Nat) /\ Len(Response5(Success5)) = 10
  /\ Response5(Success5)[2] = Success5
  /\ \A b \in Seq(Nat) : Agrees(b, Response5(Success5)) =>
        DecodeResponse5(b) = Complete(b, Response5(Success5))
<1> DEFINE y == Socks5Type[Ipv4]
           h == <<5, Success5, 0, y>>
           z == Copies(0, 6)
           m == h \o z
<1>1. y = 1 /\ Success5 = 0
  BY DEF Socks5Type, Ipv4, Domain, Ipv6, Success5
<1> HIDE DEF y
<1>2. h \in Seq(Nat) /\ Len(h) = 4 /\ h[1] = 5 /\ h[2] = Success5 /\ h[4] = 1
  BY <1>1, Four
<1> HIDE DEF h
<1>3. z \in Seq(Nat) /\ Len(z) = 6
  BY CopiesProperties
<1> HIDE DEF z
<1>4. m \in Seq(Nat) /\ Len(m) = Len(h) + Len(z) /\ \A i \in 1 .. Len(h) : m[i] = h[i]
  <2>1. h \in Seq(Nat) /\ z \in Seq(Nat)
    BY <1>2, <1>3
  <2> QED BY <2>1, Joined
<1> HIDE DEF m
<1>5. Len(m) = 10 /\ m[1] = 5 /\ m[2] = Success5 /\ m[4] = 1
  BY <1>2, <1>3, <1>4
<1>6. ASSUME NEW b \in Seq(Nat), Agrees(b, m) PROVE DecodeResponse5(b) = Complete(b, m)
  <2>1. Len(b) \in Nat
    BY LenProperties
  <2>2. (Len(b) >= 1 => b[1] = 5) /\ (Len(b) >= 4 => b[4] = 1)
    BY <1>5, <1>6, <2>1 DEF Agrees
  <2>3. FromSocks5Type(1) = Ipv4 /\ Ipv4 # 0
    BY DEF FromSocks5Type, Ipv4
  <2>4. AddrSize(Ipv4, b, 5) = 4
    BY DEF AddrSize, Ipv4, Domain, Ipv6
  <2>5. CASE Len(b) < 4
    <3>1. DecodeRequest5(b) = 0
      BY <2>1, <2>2, <2>5 DEF DecodeRequest5, Returns, Socks5Size
    <3> QED BY <1>5, <2>1, <2>5, <3>1 DEF Complete, DecodeResponse5
  <2>6. CASE Len(b) >= 4
    <3>1. Socks5Size(b) = 10
      BY <2>1, <2>2, <2>3, <2>4, <2>6 DEF Socks5Size
    <3>2. DecodeRequest5(b) = IF Len(b) < 10 THEN 0 ELSE 10
      BY <2>1, <2>2, <2>3, <2>6, <3>1 DEF DecodeRequest5, Returns
    <3> QED BY <1>5, <3>2 DEF Complete, DecodeResponse5
  <2> QED BY <2>1, <2>5, <2>6
<1>7. Response5(Success5) = m
  BY DEF Response5, m, h, z, y
<1> QED BY <1>4, <1>5, <1>6, <1>7

(* The client of a SOCKS 4 server waits for all of the answer.              *)
LEMMA ReadResponse4 ==
  /\ Response4(Success4) \in Seq(Nat) /\ Len(Response4(Success4)) = 8
  /\ Response4(Success4)[2] = Success4
  /\ \A b \in Seq(Nat) : Agrees(b, Response4(Success4)) =>
        DecodeResponse4(b) = Complete(b, Response4(Success4))
<1> DEFINE h == <<0, Success4>>
           z == Copies(0, 6)
           m == h \o z
<1>1. Success4 \in Nat
  BY DEF Success4
<1>2. h \in Seq(Nat) /\ Len(h) = 2 /\ h[1] = 0 /\ h[2] = Success4
  BY <1>1, Two
<1> HIDE DEF h
<1>3. z \in Seq(Nat) /\ Len(z) = 6
  BY CopiesProperties
<1> HIDE DEF z
<1>4. m \in Seq(Nat) /\ Len(m) = Len(h) + Len(z) /\ \A i \in 1 .. Len(h) : m[i] = h[i]
  <2>1. h \in Seq(Nat) /\ z \in Seq(Nat)
    BY <1>2, <1>3
  <2> QED BY <2>1, Joined
<1> HIDE DEF m
<1>5. Len(m) = 8 /\ m[1] = 0 /\ m[2] = Success4
  BY <1>2, <1>3, <1>4
<1>6. ASSUME NEW b \in Seq(Nat), Agrees(b, m) PROVE DecodeResponse4(b) = Complete(b, m)
  <2>1. Len(b) \in Nat
    BY LenProperties
  <2>2. Len(b) >= 1 => b[1] = 0
    BY <1>5, <1>6, <2>1 DEF Agrees
  <2> QED BY <1>5, <2>1, <2>2 DEF DecodeResponse4, Returns, Complete
<1>7. Response4(Success4) = m
  BY DEF Response4, m, h, z
<1> QED BY <1>4, <1>5, <1>6, <1>7

(* A SOCKS 4 request, whose user id, if there is one, is a byte that is not *)
(* zero.                                                                    *)
Users4 == {<<>>, <<7>>}

Request4Fields(m, cmd, t, user) ==
    /\ m \in Seq(Nat) /\ Len(m) = 9 + Len(user) /\ Len(user) \in Nat
    /\ m[1] = 4 /\ m[2] = cmd
    /\ m[3] = Be16(t.port)[1] /\ m[4] = Be16(t.port)[2]
    /\ \A i \in 1 .. 4 : m[4 + i] = t.host[i]
    /\ \A i \in 1 .. Len(user) : m[8 + i] # 0
    /\ m[9 + Len(user)] = 0

(* Where the fields of a SOCKS 4 request are.                               *)
LEMMA Request4Layout ==
  ASSUME NEW cmd \in Nat, NEW t, Sendable(t), t.type = Ipv4, NEW user \in Users4
  PROVE  Request4Fields(Request4(cmd, t, user), cmd, t, user)
<1> DEFINE h == <<4, cmd>>
           p == Be16(t.port)
           a == t.host
           g == h \o p \o a
           e == <<0>>
           m == g \o user \o e
<1>1. h \in Seq(Nat) /\ Len(h) = 2 /\ h[1] = 4 /\ h[2] = cmd
  BY Two
<1>2. p \in Seq(Nat) /\ Len(p) = 2
  BY SendablePort, Port
<1>3. a \in Seq(Nat) /\ Len(a) = 4
  BY SendableFields DEF Sendable
<1>4. e \in Seq(Nat) /\ Len(e) = 1 /\ e[1] = 0
  OBVIOUS
<1>5. user \in Seq(Nat) /\ Len(user) \in Nat /\ \A i \in 1 .. Len(user) : user[i] # 0
  <2>1. CASE user = <<>>
    BY <2>1
  <2>2. CASE user = <<7>>
    BY <2>2
  <2> QED BY <2>1, <2>2 DEF Users4
<1> HIDE DEF h, p, a, e
<1>6. /\ g \in Seq(Nat) /\ Len(g) = Len(h) + Len(p) + Len(a)
      /\ \A i \in 1 .. Len(h) : g[i] = h[i]
      /\ \A i \in 1 .. Len(p) : g[Len(h) + i] = p[i]
      /\ \A i \in 1 .. Len(a) : g[Len(h) + Len(p) + i] = a[i]
  <2>1. h \in Seq(Nat) /\ p \in Seq(Nat) /\ a \in Seq(Nat)
    BY <1>1, <1>2, <1>3
  <2> QED BY <2>1, Joined3
<1> HIDE DEF g
<1>7. /\ g \in Seq(Nat) /\ Len(g) = 8 /\ g[1] = 4 /\ g[2] = cmd /\ g[3] = p[1] /\ g[4] = p[2]
      /\ \A i \in 1 .. 4 : g[4 + i] = a[i]
  <2>1. Len(g) = 8 /\ g[1] = 4 /\ g[2] = cmd
    BY <1>1, <1>2, <1>3, <1>6
  <2>2. g[2 + 1] = p[1] /\ g[2 + 2] = p[2]
    BY <1>1, <1>2, <1>6
  <2>3. \A i \in 1 .. 4 : g[4 + i] = a[i]
    BY <1>1, <1>2, <1>3, <1>6
  <2>4. 2 + 1 = 3 /\ 2 + 2 = 4
    OBVIOUS
  <2>5. g[3] = p[1] /\ g[4] = p[2]
    BY <2>2, <2>4
  <2>6. g \in Seq(Nat)
    BY <1>6
  <2> QED BY <2>1, <2>3, <2>5, <2>6
<1>8. /\ m \in Seq(Nat) /\ Len(m) = Len(g) + Len(user) + Len(e)
      /\ \A i \in 1 .. Len(g) : m[i] = g[i]
      /\ \A i \in 1 .. Len(user) : m[Len(g) + i] = user[i]
      /\ \A i \in 1 .. Len(e) : m[Len(g) + Len(user) + i] = e[i]
  <2>1. g \in Seq(Nat) /\ user \in Seq(Nat) /\ e \in Seq(Nat)
    BY <1>4, <1>5, <1>7
  <2> QED BY <2>1, Joined3
<1> HIDE DEF m
<1>9. Len(m) = 9 + Len(user)
  BY <1>4, <1>5, <1>7, <1>8
<1>15. \A i \in 1 .. 8 : m[i] = g[i]
  BY <1>7, <1>8
<1>10. m[1] = 4 /\ m[2] = cmd /\ m[3] = p[1] /\ m[4] = p[2]
  <2>1. m[1] = g[1] /\ m[2] = g[2] /\ m[3] = g[3] /\ m[4] = g[4]
    BY <1>15
  <2> QED BY <1>7, <2>1
<1>11. \A i \in 1 .. 4 : m[4 + i] = a[i]
  <2>1. \A i \in 1 .. 4 : m[4 + i] = g[4 + i]
    BY <1>15
  <2> QED BY <1>7, <2>1
<1>12. \A i \in 1 .. Len(user) : m[8 + i] # 0
  <2>1. Len(g) = 8
    BY <1>7
  <2>2. \A i \in 1 .. Len(user) : m[8 + i] = user[i]
    BY <1>8, <2>1
  <2> QED BY <1>5, <2>2
<1>13. m[9 + Len(user)] = 0
  <2>1. m[8 + Len(user) + 1] = 0
    BY <1>4, <1>7, <1>8
  <2>2. 8 + Len(user) + 1 = 9 + Len(user)
    BY <1>5
  <2> QED BY <2>1, <2>2
<1>14. Request4(cmd, t, user) = m
  BY DEF Request4, m, g, h, p, a, e
<1>16. Request4Fields(m, cmd, t, user)
  BY <1>5, <1>8, <1>9, <1>10, <1>11, <1>12, <1>13 DEF Request4Fields, p, a
<1> QED BY <1>14, <1>16

(* The server takes it at the zero byte that ends the user id.              *)
LEMMA ReadRequest4 ==
  ASSUME NEW cmd \in Nat, NEW t, Sendable(t), t.type = Ipv4, NEW user \in Users4,
         NEW b \in Seq(Nat), Agrees(b, Request4(cmd, t, user))
  PROVE  DecodeRequest4(b) = Complete(b, Request4(cmd, t, user))
<1> DEFINE m == Request4(cmd, t, user)
           n == Len(user)
<1>1. /\ m \in Seq(Nat) /\ Len(m) = 9 + n /\ n \in Nat /\ m[1] = 4
      /\ \A i \in 1 .. n : m[8 + i] # 0
      /\ m[9 + n] = 0
  BY Request4Layout DEF Request4Fields
<1>2. \A i \in 1 .. Len(b) : i <= Len(m) => b[i] = m[i]
  BY DEF Agrees
<1>3. Len(b) \in Nat
  BY LenProperties
<1> HIDE DEF m, n
<1>4. Len(b) >= 1 => b[1] = 4
  BY <1>1, <1>2, <1>3
<1>5. \A i \in UserEnds(b) : 9 + n <= i
  <2>1. ASSUME NEW i \in 9 .. Len(b), b[i] = 0, i < 9 + n PROVE FALSE
    <3>1. PICK j \in 1 .. n : i = 8 + j
      BY <1>1, <2>1
    <3>2. b[i] = m[8 + j]
      BY <1>1, <1>2, <1>3, <2>1, <3>1
    <3> QED BY <1>1, <2>1, <3>2
  <2> QED BY <1>1, <1>3, <2>1 DEF UserEnds
<1>6. CASE Len(b) < 9 + n
  <2>1. UserEnds(b) = {}
    BY <1>1, <1>3, <1>5, <1>6 DEF UserEnds
  <2>2. DecodeRequest4(b) = 0
    BY <1>3, <1>4, <2>1 DEF DecodeRequest4, Returns
  <2> QED BY <1>1, <1>6, <2>2 DEF Complete, m
<1>7. CASE Len(b) >= 9 + n
  <2>1. 9 + n \in UserEnds(b)
    BY <1>1, <1>2, <1>3, <1>7 DEF UserEnds
  <2> DEFINE Least(i) == \A j \in UserEnds(b) : i <= j
             k == CHOOSE i \in UserEnds(b) : Least(i)
  <2>2. Least(9 + n)
    BY <1>5
  <2> HIDE DEF Least
  <2>3. k \in UserEnds(b) /\ Least(k)
    BY <2>1, <2>2
  <2> HIDE DEF k
  <2>4. k = 9 + n
    <3>1. k <= 9 + n /\ 9 + n <= k /\ k \in Nat
      BY <1>5, <2>1, <2>3 DEF Least, UserEnds
    <3> QED BY <1>1, <3>1
  <2>5. DecodeRequest4(b) = Returns(Len(b) >= 9 /\ b[1] # 4, k, b)
    BY <2>1 DEF DecodeRequest4, k, Least
  <2>6. DecodeRequest4(b) = 9 + n
    BY <1>1, <1>3, <1>4, <1>7, <2>4, <2>5 DEF Returns
  <2> QED BY <1>1, <1>3, <1>7, <2>6 DEF Complete, m
<1> QED BY <1>1, <1>3, <1>6, <1>7

(* The server has the target that was asked for.                            *)
LEMMA Request4Target ==
  ASSUME NEW cmd \in Nat, NEW t, Sendable(t), t.type = Ipv4, NEW user \in Users4
  PROVE  Target4(Request4(cmd, t, user)) = t /\ Request4(cmd, t, user)[2] = cmd
<1> DEFINE m == Request4(cmd, t, user)
           h == t.host
<1>1. /\ m \in Seq(Nat) /\ Len(m) = 9 + Len(user) /\ Len(user) \in Nat /\ m[2] = cmd
      /\ m[3] = Be16(t.port)[1] /\ m[4] = Be16(t.port)[2]
      /\ \A i \in 1 .. 4 : m[4 + i] = h[i]
  BY Request4Layout DEF Request4Fields
<1>2. h \in Seq(Nat) /\ Len(h) = 4
  BY SendableFields DEF Sendable
<1> HIDE DEF m, h
<1>3. FromBe16(m, 3) = t.port
  <2>1. m[3 + 1] = Be16(t.port)[2]
    BY <1>1
  <2> QED BY <1>1, <2>1, SendablePort, Port
<1>4. SubSeq(m, 5, 8) = h
  <2> DEFINE s == SubSeq(m, 5, 8)
  <2>5. \A i \in 5 .. 8 : i \in 1 .. Len(m)
    <3> DEFINE k == Len(m)
    <3>1. k \in Nat /\ k >= 9
      BY <1>1
    <3> HIDE DEF k
    <3>2. \A i \in 5 .. 8 : i \in 1 .. k
      BY <3>1
    <3> QED BY <3>2 DEF k
  <2>6. m \in Seq(Nat)
    BY <1>1
  <2>1. \A i \in 5 .. 8 : m[i] \in Nat
    BY <2>5, <2>6, ElementOfSeq
  <2>2. s \in Seq(Nat) /\ Len(s) = 4 /\ \A i \in 1 .. 4 : s[i] = m[5 + i - 1]
    BY <2>1, SubSeqProperties
  <2> HIDE DEF s
  <2>7. \A i \in 1 .. 4 : 5 + i - 1 = 4 + i
    OBVIOUS
  <2>3. \A i \in 1 .. 4 : s[i] = h[i]
    BY <1>1, <2>2, <2>7
  <2>4. s = h
    BY <1>2, <2>2, <2>3, SeqEqual
  <2> QED BY <2>4 DEF s
<1>5. Target4(m) = [type |-> t.type, host |-> t.host, port |-> t.port]
  BY <1>3, <1>4 DEF Target4, h
<1> QED BY <1>1, <1>5, SendableRecord DEF m

-----------------------------------------------------------------------------
(* The VMess request and its answer.                                        *)

(* Up to 15 bytes of padding survive the upper half of a byte.              *)
LEMMA PaddingBack ==
  ASSUME NEW p \in 0 .. 15
  PROVE  PaddingAndCrypt(p) \in Nat /\ PaddingOf(PaddingAndCrypt(p)) = p
<1> DEFINE q == p * 16
<1>1. q \in Nat /\ q < 256
  OBVIOUS
<1>2. q \div 16 = p
  OBVIOUS
<1> HIDE DEF q
<1>3. q % 256 = q
  BY <1>1
<1> QED BY <1>1, <1>2, <1>3 DEF PaddingAndCrypt, PaddingOf, q

(* Keys and ivs are numbers.                                                *)
LEMMA AuthFields ==
  ASSUME NEW user \in Nat, NEW time \in Nat
  PROVE  /\ AuthInit(user, time).key \in Nat /\ AuthInit(user, time).iv \in Nat
         /\ AuthInit(user, time).nonce = 0
BY DEF AuthInit, GenKey, GenIv

(* A validation code names its user and its time.                           *)
LEMMA CodeProperties ==
  ASSUME NEW user \in {OwnUser, OwnUser + 1}, NEW time \in Nat
  PROVE  /\ ValidationCode(user, time) \in Seq(Nat)
         /\ Len(ValidationCode(user, time)) = Wide
         /\ \A t \in Int : ValidationCode(OwnUser, t) = ValidationCode(user, time)
                           <=> user = OwnUser /\ t = time
<1> DEFINE v(u, t) == 10000 + 2 * t + u
<1>1. v(user, time) \in Nat /\ Wide \in Nat /\ 1 \in 1 .. Wide
  BY WideAssumption DEF OwnUser
<1>2. ASSUME NEW t \in Int, v(OwnUser, t) = v(user, time) PROVE user = OwnUser /\ t = time
  BY <1>2 DEF OwnUser
<1>3. \A u, t : ValidationCode(u, t) = Copies(v(u, t), Wide)
  BY DEF ValidationCode
<1> HIDE DEF v
<1>4. Copies(v(user, time), Wide) \in Seq(Nat) /\ Len(Copies(v(user, time), Wide)) = Wide
  BY <1>1, CopiesProperties
<1>5. ASSUME NEW t \in Int, ValidationCode(OwnUser, t) = ValidationCode(user, time)
      PROVE  v(OwnUser, t) = v(user, time)
  <2>1. \A x : Copies(x, Wide)[1] = x
    BY <1>1 DEF Copies
  <2>2. Copies(v(OwnUser, t), Wide) = Copies(v(user, time), Wide)
    BY <1>3, <1>5
  <2> QED BY <2>1, <2>2
<1> QED BY <1>2, <1>3, <1>4, <1>5

(* The command of a request.                                                *)
CommandFields(c, nonce, t, p) ==
    /\ c \in Seq(Nat) /\ Len(c) = 2 * Wide + 9 + Len(AddrBytes(t)) + p
    /\ c[2 * Wide + 2] = nonce /\ c[2 * Wide + 4] = PaddingAndCrypt(p)
    /\ c[2 * Wide + 7] = Be16(t.port)[1] /\ c[2 * Wide + 8] = Be16(t.port)[2]
    /\ c[2 * Wide + 9] = t.type
    /\ \A i \in 1 .. Len(AddrBytes(t)) : c[2 * Wide + 9 + i] = AddrBytes(t)[i]

(* Where the fields of a command are.                                       *)
LEMMA CommandLayout ==
  ASSUME NEW auth, auth.key \in Nat, auth.iv \in Nat, auth.nonce \in Nat,
         NEW t, Sendable(t), NEW p \in 0 .. 15
  PROVE  CommandFields(Command(auth, t, p), auth.nonce, t, p)
<1> DEFINE f == <<1>>
           iv == Copies(auth.iv, Wide)
           key == Copies(auth.key, Wide)
           g == f \o iv \o key
           n == <<auth.nonce, 1, PaddingAndCrypt(p), 0, Connect>>
           q == Be16(t.port)
           h == g \o n \o q
           y == <<t.type>>
           a == AddrBytes(t)
           m == h \o y \o a
           d == Copies(255, p)
           c == m \o d
<1>1. Wide \in Nat
  BY WideAssumption
<1>2. f \in Seq(Nat) /\ Len(f) = 1
  OBVIOUS
<1>3. iv \in Seq(Nat) /\ Len(iv) = Wide /\ key \in Seq(Nat) /\ Len(key) = Wide
  BY <1>1, CopiesProperties
<1>4. n \in Seq(Nat) /\ Len(n) = 5 /\ n[1] = auth.nonce /\ n[3] = PaddingAndCrypt(p)
  <2>1. PaddingAndCrypt(p) \in Nat /\ Connect \in Nat
    BY PaddingBack DEF Connect
  <2> QED BY <2>1
<1>5. q \in Seq(Nat) /\ Len(q) = 2
  BY SendablePort, Port
<1>6. y \in Seq(Nat) /\ Len(y) = 1 /\ y[1] = t.type
  <2>1. t.type \in Nat
    BY SendableFields DEF Ipv4, Domain, Ipv6
  <2> QED BY <2>1
<1>7. a \in Seq(Nat) /\ Len(a) \in Nat
  BY Address
<1>8. d \in Seq(Nat) /\ Len(d) = p
  <2> DEFINE e == 255
  <2>1. p \in Nat /\ e \in Nat
    OBVIOUS
  <2> HIDE DEF e
  <2>2. Copies(e, p) \in Seq(Nat) /\ Len(Copies(e, p)) = p
    BY <2>1, CopiesProperties
  <2> QED BY <2>2 DEF d, e
<1> HIDE DEF f, iv, key, n, q, y, a, d
<1>9. g \in Seq(Nat) /\ Len(g) = 2 * Wide + 1
  <2>1. f \in Seq(Nat) /\ iv \in Seq(Nat) /\ key \in Seq(Nat)
    BY <1>2, <1>3
  <2>2. g \in Seq(Nat) /\ Len(g) = Len(f) + Len(iv) + Len(key)
    BY <2>1, Joined3
  <2> HIDE DEF g
  <2> QED BY <1>1, <1>2, <1>3, <2>2
<1> HIDE DEF g
<1>10. /\ h \in Seq(Nat) /\ Len(h) = 2 * Wide + 8
       /\ h[2 * Wide + 2] = auth.nonce /\ h[2 * Wide + 4] = PaddingAndCrypt(p)
       /\ h[2 * Wide + 7] = q[1] /\ h[2 * Wide + 8] = q[2]
  <2>1. g \in Seq(Nat) /\ n \in Seq(Nat) /\ q \in Seq(Nat)
    BY <1>4, <1>5, <1>9
  <2>2. /\ h \in Seq(Nat) /\ Len(h) = Len(g) + Len(n) + Len(q)
        /\ \A i \in 1 .. Len(n) : h[Len(g) + i] = n[i]
        /\ \A i \in 1 .. Len(q) : h[Len(g) + Len(n) + i] = q[i]
    BY <2>1, Joined3
  <2> HIDE DEF h
  <2>3. h[Len(g) + 1] = n[1] /\ h[Len(g) + 3] = n[3]
    BY <1>4, <2>2
  <2>4. h[Len(g) + Len(n) + 1] = q[1] /\ h[Len(g) + Len(n) + 2] = q[2]
    BY <1>5, <2>2
  <2>5. /\ Len(g) + 1 = 2 * Wide + 2 /\ Len(g) + 3 = 2 * Wide + 4
        /\ Len(g) + Len(n) + 1 = 2 * Wide + 7 /\ Len(g) + Len(n) + 2 = 2 * Wide + 8
        /\ Len(g) + Len(n) + Len(q) = 2 * Wide + 8
    BY <1>1, <1>4, <1>5, <1>9
  <2> QED BY <1>4, <2>2, <2>3, <2>4, <2>5
<1> HIDE DEF h
<1>11. /\ m \in Seq(Nat) /\ Len(m) = 2 * Wide + 9 + Len(a)
       /\ \A i \in 1 .. 2 * Wide + 8 : m[i] = h[i]
       /\ m[2 * Wide + 9] = t.type
       /\ \A i \in 1 .. Len(a) : m[2 * Wide + 9 + i] = a[i]
  <2>1. h \in Seq(Nat) /\ y \in Seq(Nat) /\ a \in Seq(Nat)
    BY <1>6, <1>7, <1>10
  <2>2. /\ m \in Seq(Nat) /\ Len(m) = Len(h) + Len(y) + Len(a)
        /\ \A i \in 1 .. Len(h) : m[i] = h[i]
        /\ \A i \in 1 .. Len(y) : m[Len(h) + i] = y[i]
        /\ \A i \in 1 .. Len(a) : m[Len(h) + Len(y) + i] = a[i]
    BY <2>1, Joined3
  <2> HIDE DEF m
  <2>3. m[Len(h) + 1] = t.type
    BY <1>6, <2>2
  <2>4. Len(h) + 1 = 2 * Wide + 9 /\ Len(h) + Len(y) = 2 * Wide + 9 /\ Len(h) = 2 * Wide + 8
    BY <1>1, <1>6, <1>10
  <2> QED BY <2>2, <2>3, <2>4
<1> HIDE DEF m
<1>12. c \in Seq(Nat) /\ Len(c) = Len(m) + Len(d) /\ \A i \in 1 .. Len(m) : c[i] = m[i]
  <2>1. m \in Seq(Nat) /\ d \in Seq(Nat)
    BY <1>8, <1>11
  <2> QED BY <2>1, Joined
<1> HIDE DEF c
<1>13. /\ c[2 * Wide + 2] = h[2 * Wide + 2] /\ c[2 * Wide + 4] = h[2 * Wide + 4]
       /\ c[2 * Wide + 7] = h[2 * Wide + 7] /\ c[2 * Wide + 8] = h[2 * Wide + 8]
       /\ c[2 * Wide + 9] = t.type
  <2>1. \A i \in 1 .. 2 * Wide + 8 : i \in 1 .. Len(m)
    BY <1>1, <1>7, <1>11
  <2>2. \A i \in 1 .. 2 * Wide + 8 : c[i] = h[i]
    BY <1>11, <1>12, <2>1
  <2>3. 2 * Wide + 9 \in 1 .. Len(m)
    BY <1>1, <1>7, <1>11
  <2>4. c[2 * Wide + 9] = t.type
    BY <1>11, <1>12, <2>3
  <2>5. 2 * Wide + 2 \in 1 .. 2 * Wide + 8 /\ 2 * Wide + 4 \in 1 .. 2 * Wide + 8
        /\ 2 * Wide + 7 \in 1 .. 2 * Wide + 8 /\ 2 * Wide + 8 \in 1 .. 2 * Wide + 8
    BY <1>1
  <2> QED BY <2>2, <2>4, <2>5
<1>14. \A i \in 1 .. Len(a) : c[2 * Wide + 9 + i] = a[i]
  <2>1. \A i \in 1 .. Len(a) : 2 * Wide + 9 + i \in 1 .. Len(m)
    BY <1>1, <1>7, <1>11
  <2> QED BY <1>11, <1>12, <2>1
<1>15. Len(c) = 2 * Wide + 9 + Len(a) + p
  BY <1>8, <1>11, <1>12
<1>16. Command(auth, t, p) = c
  BY DEF Command, c, m, h, g, f, iv, key, n, q, y, a, d
<1> QED BY <1>10, <1>12, <1>13, <1>14, <1>15, <1>16 DEF CommandFields, a, q

(* A request before its encryption.                                         *)
PlainRequest(user, time, t, p) ==
    LET c == Command(AuthInit(user, time), t, p)
    IN  ValidationCode(user, time) \o (c \o Copies(Fnv1a(c), 4))

(* A command c of such a request m, for t and with p bytes of padding.      *)
PlainFields(m, c, t, p) ==
    /\ m \in Seq(Nat) /\ c \in Seq(Nat) /\ Len(m) = Wide + Len(c) + 4
    /\ Len(m) = AtType + Len(AddrBytes(t)) + p + 4
    /\ m[AtNonce] = 0 /\ m[AtPadding] = PaddingAndCrypt(p)
    /\ m[AtPort] = Be16(t.port)[1] /\ m[AtPort + 1] = Be16(t.port)[2]
    /\ m[AtType] = t.type
    /\ Holds(m, t, AtType)
    /\ \A i \in 1 .. Len(c) : m[Wide + i] = c[i]
    /\ \A i \in 1 .. 4 : m[Wide + Len(c) + i] = Fnv1a(c)

(* Where they are behind the validation code.                               *)
LEMMA PlainLayout ==
  ASSUME NEW user \in {OwnUser, OwnUser + 1}, NEW time \in Nat,
         NEW t, Sendable(t), NEW p \in 0 .. 15
  PROVE  /\ PlainFields(PlainRequest(user, time, t, p),
                        Command(AuthInit(user, time), t, p), t, p)
         /\ Take(PlainRequest(user, time, t, p), Wide) = ValidationCode(user, time)
         /\ Wide < Len(PlainRequest(user, time, t, p))
<1> DEFINE auth == AuthInit(user, time)
           c == Command(auth, t, p)
           v == ValidationCode(user, time)
           f == Fnv1a(c)
           z == Copies(f, 4)
           w == c \o z
           m == v \o w
           a == AddrBytes(t)
<1>1. Wide \in Nat
  BY WideAssumption
<1>2. user \in Nat
  BY DEF OwnUser
<1>3. auth.key \in Nat /\ auth.iv \in Nat /\ auth.nonce = 0
  BY <1>2, AuthFields
<1> HIDE DEF auth
<1>4. v \in Seq(Nat) /\ Len(v) = Wide
  BY CodeProperties
<1>5. a \in Seq(Nat) /\ Len(a) \in Nat \ {0}
  BY Address
<1>6. /\ c \in Seq(Nat) /\ Len(c) = 2 * Wide + 9 + Len(a) + p
      /\ c[2 * Wide + 2] = 0 /\ c[2 * Wide + 4] = PaddingAndCrypt(p)
      /\ c[2 * Wide + 7] = Be16(t.port)[1] /\ c[2 * Wide + 8] = Be16(t.port)[2]
      /\ c[2 * Wide + 9] = t.type
      /\ \A i \in 1 .. Len(a) : c[2 * Wide + 9 + i] = a[i]
  <2>1. auth.key \in Nat /\ auth.iv \in Nat /\ auth.nonce \in Nat
    BY <1>3
  <2>2. /\ c \in Seq(Nat) /\ Len(c) = 2 * Wide + 9 + Len(a) + p
        /\ c[2 * Wide + 2] = auth.nonce /\ c[2 * Wide + 4] = PaddingAndCrypt(p)
        /\ c[2 * Wide + 7] = Be16(t.port)[1] /\ c[2 * Wide + 8] = Be16(t.port)[2]
        /\ c[2 * Wide + 9] = t.type
        /\ \A i \in 1 .. Len(a) : c[2 * Wide + 9 + i] = a[i]
    <3>1. CommandFields(Command(auth, t, p), auth.nonce, t, p)
      BY <2>1, CommandLayout
    <3> QED BY <3>1 DEF CommandFields
  <2> QED BY <1>3, <2>2
<1> HIDE DEF c
<1>7. f \in Nat
  BY <1>6, FnvNat
<1> HIDE DEF f
<1>8. z \in Seq(Nat) /\ Len(z) = 4 /\ \A i \in 1 .. 4 : z[i] = f
  BY <1>7, CopiesProperties
<1> HIDE DEF v, a, z
<1>9. /\ w \in Seq(Nat) /\ Len(w) = Len(c) + 4 /\ Len(c) \in Nat
      /\ \A i \in 1 .. Len(c) : w[i] = c[i]
      /\ \A i \in 1 .. 4 : w[Len(c) + i] = f
  <2>1. c \in Seq(Nat) /\ z \in Seq(Nat)
    BY <1>6, <1>8
  <2>2. /\ w \in Seq(Nat) /\ Len(w) = Len(c) + Len(z) /\ Len(c) \in Nat
        /\ \A i \in 1 .. Len(c) : w[i] = c[i]
        /\ \A i \in 1 .. Len(z) : w[Len(c) + i] = z[i]
    BY <2>1, Joined
  <2> HIDE DEF w
  <2> QED BY <1>8, <2>2
<1> HIDE DEF w
<1>10. /\ m \in Seq(Nat) /\ Len(m) = Wide + Len(c) + 4
       /\ \A i \in 1 .. Wide : m[i] = v[i]
       /\ \A i \in 1 .. Len(c) + 4 : m[Wide + i] = w[i]
  <2>1. v \in Seq(Nat) /\ w \in Seq(Nat)
    BY <1>4, <1>9
  <2>2. /\ m \in Seq(Nat) /\ Len(m) = Len(v) + Len(w)
        /\ \A i \in 1 .. Len(v) : m[i] = v[i]
        /\ \A i \in 1 .. Len(w) : m[Len(v) + i] = w[i]
    BY <2>1, Joined
  <2> HIDE DEF m
  <2> QED BY <1>1, <1>4, <1>9, <2>2
<1> HIDE DEF m
<1>11. \A i \in 1 .. Len(c) : m[Wide + i] = c[i]
  <2>1. \A i \in 1 .. Len(c) : i \in 1 .. Len(c) + 4
    BY <1>9
  <2> QED BY <1>9, <1>10, <2>1
<1>12. \A i \in 1 .. 4 : m[Wide + Len(c) + i] = f
  <2>1. \A i \in 1 .. 4 : Len(c) + i \in 1 .. Len(c) + 4 /\ Wide + Len(c) + i = Wide + (Len(c) + i)
    BY <1>1, <1>9
  <2> QED BY <1>9, <1>10, <2>1
<1>13. /\ m[AtNonce] = 0 /\ m[AtPadding] = PaddingAndCrypt(p)
       /\ m[AtPort] = Be16(t.port)[1] /\ m[AtPort + 1] = Be16(t.port)[2]
       /\ m[AtType] = t.type
  <2>1. /\ AtNonce = Wide + (2 * Wide + 2) /\ AtPadding = Wide + (2 * Wide + 4)
        /\ AtPort = Wide + (2 * Wide + 7) /\ AtPort + 1 = Wide + (2 * Wide + 8)
        /\ AtType = Wide + (2 * Wide + 9)
    BY <1>1 DEF AtNonce, AtPadding, AtPort, AtType
  <2>2. \A i \in 1 .. 2 * Wide + 9 : i \in 1 .. Len(c)
    BY <1>1, <1>5, <1>6
  <2>3. \A i \in 1 .. 2 * Wide + 9 : m[Wide + i] = c[i]
    BY <1>11, <2>2
  <2>4. /\ 2 * Wide + 2 \in 1 .. 2 * Wide + 9 /\ 2 * Wide + 4 \in 1 .. 2 * Wide + 9
        /\ 2 * Wide + 7 \in 1 .. 2 * Wide + 9 /\ 2 * Wide + 8 \in 1 .. 2 * Wide + 9
        /\ 2 * Wide + 9 \in 1 .. 2 * Wide + 9
    BY <1>1
  <2> QED BY <1>6, <2>1, <2>3, <2>4
<1>14. Len(m) = AtType + Len(a) + p + 4
  BY <1>1, <1>5, <1>6, <1>10 DEF AtType
<1>15. Holds(m, t, AtType)
  <2>1. \A i \in 1 .. Len(a) : m[AtType + i] = a[i]
    <3>1. \A i \in 1 .. Len(a) : /\ 2 * Wide + 9 + i \in 1 .. Len(c)
                                 /\ AtType + i = Wide + (2 * Wide + 9 + i)
      BY <1>1, <1>5, <1>6 DEF AtType
    <3> QED BY <1>6, <1>11, <3>1
  <2>2. AtType + Len(a) <= Len(m)
    BY <1>1, <1>5, <1>14 DEF AtType
  <2> QED BY <2>1, <2>2 DEF Holds, a
<1>16. PlainRequest(user, time, t, p) = m
  BY DEF PlainRequest, m, w, z, f, v, c, auth
<1>17. Take(m, Wide) = v
  <2>1. Wide \in 0 .. Len(m) /\ m \in Seq(Nat)
    BY <1>1, <1>9, <1>10
  <2>2. Take(m, Wide) \in Seq(Nat) /\ Len(Take(m, Wide)) = Wide
        /\ \A i \in 1 .. Wide : Take(m, Wide)[i] = m[i]
    BY <2>1, TakeProperties
  <2> QED BY <1>4, <1>10, <2>2, SeqEqual
<1>18. PlainFields(m, c, t, p)
  BY <1>6, <1>10, <1>11, <1>12, <1>13, <1>14, <1>15 DEF PlainFields, a, f
<1>19. Wide < Len(m)
  BY <1>1, <1>9, <1>10
<1> QED BY <1>16, <1>17, <1>18, <1>19 DEF c, auth, v

(* A decoder that has a part of m, and the command of m.                    *)
LEMMA ReadPlain ==
  ASSUME NEW m, NEW c, NEW t, Sendable(t), NEW p \in 0 .. 15, PlainFields(m, c, t, p),
         NEW b \in Seq(Nat), Agrees(b, m), NEW window,
         Len(b) >= Wide => Authentic(b, window)
  PROVE  DecodeVmessRequest(b, window) = Complete(b, m)
<1> DEFINE a == AddrBytes(t)
           n == Len(m)
<1>1. /\ m \in Seq(Nat) /\ c \in Seq(Nat) /\ n = Wide + Len(c) + 4
      /\ n = AtType + Len(a) + p + 4
      /\ m[AtPadding] = PaddingAndCrypt(p) /\ m[AtType] = t.type
      /\ Holds(m, t, AtType)
  BY DEF PlainFields
<1>2. /\ \A i \in 1 .. Len(c) : m[Wide + i] = c[i]
      /\ \A i \in 1 .. 4 : m[Wide + Len(c) + i] = Fnv1a(c)
  BY DEF PlainFields
<1>3. Wide \in Nat /\ AtType \in Nat /\ AtType > Wide /\ AtPadding \in Nat /\ AtPadding < AtType
      /\ AtPadding > 0
  BY WideAssumption DEF AtType, AtPadding
<1>4. Len(b) \in Nat /\ Len(c) \in Nat
  BY <1>1, LenProperties
<1>5. Len(a) \in Nat \ {0}
  BY Address
<1>6. PaddingOf(PaddingAndCrypt(p)) = p /\ p \in Nat
  <2>1. p \in Nat
    OBVIOUS
  <2> QED BY <2>1, PaddingBack
<1>7. t.type \in {Ipv4, Domain, Ipv6}
  BY SendableFields
<1> HIDE DEF a, n
<1>10. n \in Nat /\ n = AtType + Len(a) + p + 4
  <2>1. n = AtType + Len(a) + p + 4
    BY <1>1
  <2> QED BY <1>3, <1>5, <1>6, <2>1
<1>11. n = Wide + Len(c) + 4
  BY <1>1
<1>8. CASE Len(b) < AtType
  <2>1. VmessSize(b) = AtType
    BY <1>8 DEF VmessSize
  <2>2. Len(b) < n
    BY <1>1, <1>3, <1>4, <1>5, <1>6, <1>8
  <2>3. DecodeVmessRequest(b, window) = 0
    BY <1>3, <1>4, <1>8, <2>1 DEF DecodeVmessRequest, Returns
  <2> QED BY <2>2, <2>3 DEF Complete, n
<1>9. CASE AtType <= Len(b)
  <2> DEFINE k == AddrSize(t.type, b, AtType + 1)
             s == VmessSize(b)
  <2>1. b[AtType] = t.type /\ b[AtPadding] = PaddingAndCrypt(p)
    <3>1. AtType \in 1 .. Len(b) /\ AtType <= n /\ AtPadding \in 1 .. Len(b) /\ AtPadding <= n
      BY <1>3, <1>4, <1>5, <1>6, <1>9, <1>10
    <3> QED BY <1>1, <3>1 DEF Agrees, n
  <2>2. k \in Nat \ {0} /\ (AtType < Len(b) => k = Len(a))
    <3>1. /\ AtType < Len(b) => AddrSize(t.type, b, AtType + 1) = Len(AddrBytes(t))
          /\ AddrSize(t.type, b, AtType + 1) \in Nat \ {0}
      BY <1>1, <1>3, SizeKnown
    <3> QED BY <3>1 DEF a
  <2> HIDE DEF k
  <2>3. s = AtType + k + p + 4
    BY <1>3, <1>4, <1>6, <1>9, <2>1 DEF VmessSize, k
  <2> HIDE DEF s
  <2>4. ~(Len(b) >= Wide /\ ~Authentic(b, window))
    OBVIOUS
  <2>5. ~(Len(b) >= AtType /\ b[AtType] \notin {Ipv4, Domain, Ipv6})
    BY <1>7, <2>1
  <2>6. CASE Len(b) < s
    <3>1. ~(Len(b) >= s)
      BY <1>3, <1>4, <1>6, <2>2, <2>3, <2>6
    <3>2. DecodeVmessRequest(b, window) = 0
      BY <2>4, <2>5, <2>6, <3>1 DEF DecodeVmessRequest, Returns, s
    <3>3. Len(b) < n
      BY <1>1, <1>3, <1>4, <1>5, <1>6, <1>9, <2>2, <2>3, <2>6
    <3> QED BY <3>2, <3>3 DEF Complete, n
  <2>7. CASE Len(b) >= s
    <3>1. s = n
      BY <1>3, <1>4, <1>5, <1>6, <1>9, <1>10, <2>2, <2>3, <2>7
    <3>2. ~BadSum(b)
      <4> DEFINE d == SubSeq(b, Wide + 1, n - 4)
      <4>1. n - 4 = Wide + Len(c) /\ n - 3 = Wide + Len(c) + 1 /\ n <= Len(b)
        BY <1>1, <1>3, <1>4, <2>7, <3>1
      <4>2. \A i \in 1 .. n : b[i] = m[i]
        <5>1. \A i \in 1 .. n : i \in 1 .. Len(b) /\ i <= n
          BY <1>1, <1>3, <1>4, <4>1
        <5> QED BY <5>1 DEF Agrees, n
      <4>3. {b[i] : i \in n - 3 .. n} = {Fnv1a(c)}
        <5> DEFINE k2 == Wide + Len(c)
        <5>4. k2 \in Nat /\ n = k2 + 4 /\ \A j \in 1 .. 4 : m[k2 + j] = Fnv1a(c)
          BY <1>2, <1>3, <1>4, <1>11
        <5> HIDE DEF k2
        <5>1. \A i \in n - 3 .. n : i \in 1 .. n /\ i - k2 \in 1 .. 4 /\ i = k2 + (i - k2)
          BY <5>4
        <5>2. \A i \in n - 3 .. n : b[i] = Fnv1a(c)
          BY <4>2, <5>1, <5>4
        <5>3. n \in n - 3 .. n
          BY <1>1, <1>3, <1>4
        <5> QED BY <5>2, <5>3
      <4>4. d = c
        <5>1. \A i \in Wide + 1 .. n - 4 : i \in 1 .. Len(b)
          BY <1>3, <1>4, <1>10, <1>11, <4>1
        <5>2. \A i \in Wide + 1 .. n - 4 : b[i] \in Nat
          BY <5>1, ElementOfSeq
        <5>3. Wide + 1 \in Int /\ n - 4 \in Int
          BY <1>3, <1>4, <4>1
        <5>4. /\ d \in Seq(Nat) /\ Len(d) = IF Wide + 1 <= n - 4 THEN n - 4 - (Wide + 1) + 1 ELSE 0
              /\ \A i \in 1 .. n - 4 - (Wide + 1) + 1 : d[i] = b[Wide + 1 + i - 1]
          BY <5>2, <5>3, SubSeqProperties
        <5> HIDE DEF d
        <5>5. Len(d) = Len(c)
          BY <1>3, <1>4, <4>1, <5>4
        <5>6. \A i \in 1 .. Len(c) : i \in 1 .. n - 4 - (Wide + 1) + 1 /\ Wide + 1 + i - 1 = Wide + i
                                    /\ Wide + i \in 1 .. n
          BY <1>1, <1>3, <1>4, <4>1
        <5>7. \A i \in 1 .. Len(c) : d[i] = c[i]
          BY <1>2, <4>2, <5>4, <5>6
        <5>8. c \in Seq(Nat) /\ d \in Seq(Nat)
          BY <1>1, <5>4
        <5> QED BY <5>5, <5>7, <5>8, SeqEqual
      <4> QED BY <3>1, <4>3, <4>4 DEF BadSum, s
    <3>3. DecodeVmessRequest(b, window) = n
      <4>1. ~(Len(b) < n)
        BY <1>1, <1>3, <1>4, <2>7, <3>1
      <4> QED BY <2>4, <2>5, <3>1, <3>2, <4>1 DEF DecodeVmessRequest, Returns, s
    <3>4. ~(Len(b) < n)
      BY <1>1, <1>3, <1>4, <2>7, <3>1
    <3> QED BY <3>3, <3>4 DEF Complete, n
  <2> QED BY <1>3, <1>4, <1>6, <2>2, <2>3, <2>6, <2>7
<1> QED BY <1>3, <1>4, <1>8, <1>9

(* Only a request of its own user, made within the window, is authentic.    *)
LEMMA Known ==
  ASSUME NEW user \in {OwnUser, OwnUser + 1}, NEW time \in Nat, NEW window \in SUBSET Int,
         NEW b, Len(b) >= Wide, Take(b, Wide) = ValidationCode(user, time)
  PROVE  /\ Authentic(b, window) <=> user = OwnUser /\ time \in window
         /\ Authentic(b, window) => AuthOf(b, window) = AuthInit(user, time)
<1> DEFINE v == ValidationCode(user, time)
<1>1. \A s \in window : ValidationCode(OwnUser, s) = v <=> user = OwnUser /\ s = time
  BY CodeProperties
<1>2. Authentic(b, window) <=> \E s \in window : ValidationCode(OwnUser, s) = v
  BY DEF Authentic, Matching
<1>3. Authentic(b, window) <=> user = OwnUser /\ time \in window
  BY <1>1, <1>2
<1>4. ASSUME Authentic(b, window) PROVE AuthOf(b, window) = AuthInit(user, time)
  <2>1. Matching(Take(b, Wide), window) = {time}
    BY <1>1, <1>3, <1>4 DEF Matching
  <2>2. (CHOOSE s \in {time} : TRUE) = time
    OBVIOUS
  <2> QED BY <1>3, <1>4, <2>1, <2>2 DEF AuthOf
<1> QED BY <1>3, <1>4

(* Encrypting adds to every cell what decrypting takes away.                *)
LEMMA Encrypted ==
  ASSUME NEW auth, auth.key \in Nat, auth.iv \in Nat, NEW m \in Seq(Nat)
  PROVE  /\ CfbEnc(auth, m) \in Seq(Nat) /\ Len(CfbEnc(auth, m)) = Len(m) /\ Len(m) \in Nat
         /\ \A i \in 1 .. Len(m) : CfbEnc(auth, m)[i] = m[i] + auth.key + auth.iv
<1> DEFINE e(i) == m[i] + auth.key + auth.iv
           n == Len(m)
<1>1. n \in Nat /\ DOMAIN m = 1 .. n /\ \A i \in 1 .. n : m[i] \in Nat
  BY LenProperties, ElementOfSeq
<1>2. \A i \in 1 .. n : e(i) \in Nat
  BY <1>1
<1>3. CfbEnc(auth, m) = [i \in 1 .. n |-> e(i)]
  BY <1>1 DEF CfbEnc
<1> HIDE DEF e, n
<1>4. /\ [i \in 1 .. n |-> e(i)] \in Seq(Nat) /\ Len([i \in 1 .. n |-> e(i)]) = n
      /\ \A i \in 1 .. n : [j \in 1 .. n |-> e(j)][i] = e(i)
  BY <1>1, <1>2, IsASeq
<1> QED BY <1>1, <1>3, <1>4 DEF e, n

(* A part of what was encrypted decrypts to the same part of the text.      *)
LEMMA Decrypted ==
  ASSUME NEW auth, auth.key \in Nat, auth.iv \in Nat, NEW m \in Seq(Nat),
         NEW b \in Seq(Nat), Agrees(b, CfbEnc(auth, m))
  PROVE  /\ CfbDec(auth, b) \in Seq(Int) /\ Len(CfbDec(auth, b)) = Len(b) /\ Len(b) \in Nat
         /\ Agrees(CfbDec(auth, b), m)
<1> DEFINE e(i) == b[i] - auth.key - auth.iv
           n == Len(b)
<1>1. n \in Nat /\ DOMAIN b = 1 .. n /\ \A i \in 1 .. n : b[i] \in Nat
  BY LenProperties, ElementOfSeq
<1>2. \A i \in 1 .. n : e(i) \in Int
  BY <1>1
<1>3. CfbDec(auth, b) = [i \in 1 .. n |-> e(i)]
  BY <1>1 DEF CfbDec
<1>4. Len(m) \in Nat /\ \A i \in 1 .. Len(m) : m[i] \in Nat
  BY LenProperties, ElementOfSeq
<1>5. ASSUME NEW i \in 1 .. n, i <= Len(m) PROVE e(i) = m[i]
  <2>1. i \in 1 .. Len(m) /\ m[i] \in Nat /\ b[i] \in Nat
    BY <1>1, <1>4, <1>5
  <2>2. CfbEnc(auth, m)[i] = m[i] + auth.key + auth.iv /\ Len(CfbEnc(auth, m)) = Len(m)
    BY <2>1, Encrypted
  <2>3. b[i] = m[i] + auth.key + auth.iv
    BY <1>5, <2>2 DEF Agrees
  <2> QED BY <2>1, <2>3
<1> HIDE DEF e, n
<1>6. /\ [i \in 1 .. n |-> e(i)] \in Seq(Int) /\ Len([i \in 1 .. n |-> e(i)]) = n
      /\ \A i \in 1 .. n : [j \in 1 .. n |-> e(j)][i] = e(i)
  BY <1>1, <1>2, IsASeq
<1>7. Agrees(CfbDec(auth, b), m)
  BY <1>3, <1>5, <1>6 DEF Agrees
<1> QED BY <1>1, <1>3, <1>6, <1>7 DEF n

(* r is the request m with all but its validation code v encrypted.         *)
Encloses(r, m, v, auth) ==
    /\ Drop(m, Wide) \in Seq(Nat) /\ r = v \o CfbEnc(auth, Drop(m, Wide))
    /\ r \in Seq(Nat) /\ Len(r) = Len(m)

(* A request is its validation code and the rest, encrypted.                *)
LEMMA RequestParts ==
  ASSUME NEW user \in {OwnUser, OwnUser + 1}, NEW time \in Nat,
         NEW t, Sendable(t), NEW p \in 0 .. 15
  PROVE  Encloses(VmessRequest(user, time, t, p), PlainRequest(user, time, t, p),
                  ValidationCode(user, time), AuthInit(user, time))
<1> DEFINE auth == AuthInit(user, time)
           c == Command(auth, t, p)
           v == ValidationCode(user, time)
           z == Copies(Fnv1a(c), 4)
           w == c \o z
           e == CfbEnc(auth, w)
<1>1. auth.key \in Nat /\ auth.iv \in Nat
  <2>1. user \in Nat
    BY DEF OwnUser
  <2> QED BY <2>1, AuthFields
<1>2. c \in Seq(Nat)
  BY PlainLayout DEF PlainFields
<1>3. Fnv1a(c) \in Nat
  BY <1>2, FnvNat
<1>4. z \in Seq(Nat)
  BY <1>3, CopiesProperties
<1>5. v \in Seq(Nat) /\ Len(v) = Wide
  BY CodeProperties
<1>6. PlainRequest(user, time, t, p) = v \o w /\ VmessRequest(user, time, t, p) = v \o e
  BY DEF PlainRequest, VmessRequest
<1> HIDE DEF auth, c, z, v
<1>7. w \in Seq(Nat)
  BY <1>2, <1>4, Joined
<1> HIDE DEF w
<1>8. e \in Seq(Nat) /\ Len(e) = Len(w)
  BY <1>1, <1>7, Encrypted
<1>9. Drop(v \o w, Wide) = w
  BY <1>5, <1>7, DropFront
<1>10. v \o e \in Seq(Nat) /\ Len(v \o e) = Len(v \o w)
  <2> HIDE DEF e
  <2>1. v \o e \in Seq(Nat) /\ Len(v \o e) = Len(v) + Len(e)
    BY <1>5, <1>8, Joined
  <2>2. Len(v \o w) = Len(v) + Len(w)
    BY <1>5, <1>7, Joined
  <2> QED BY <1>8, <2>1, <2>2
<1>11. Encloses(v \o e, v \o w, v, auth)
  BY <1>7, <1>9, <1>10 DEF Encloses
<1> QED BY <1>6, <1>11 DEF v, auth

(* What has come of a request, opened, is as much of it in plain, m.        *)
PartOf(b, window, user, time, m) ==
    /\ Len(b) >= Wide => Take(b, Wide) = ValidationCode(user, time)
    /\ Len(b) >= Wide => (Authentic(b, window) <=> user = OwnUser /\ time \in window)
    /\ Authentic(b, window) \/ Len(b) < Wide =>
          /\ Opened(b, window) \in Seq(Nat)
          /\ Begins(Opened(b, window), m)
          /\ Len(Opened(b, window)) = Len(b)

(* A part of a request, opened, is a part of the plain request.             *)
LEMMA OpenedPart ==
  ASSUME NEW user \in {OwnUser, OwnUser + 1}, NEW time \in Nat,
         NEW t, Sendable(t), NEW p \in 0 .. 15, NEW window \in SUBSET Int,
         NEW b \in Seq(Nat), Begins(b, VmessRequest(user, time, t, p))
  PROVE  PartOf(b, window, user, time, PlainRequest(user, time, t, p))
<1> DEFINE m == PlainRequest(user, time, t, p)
           r == VmessRequest(user, time, t, p)
           v == ValidationCode(user, time)
           auth == AuthInit(user, time)
           w == Drop(m, Wide)
           e == CfbEnc(auth, w)
<1>1. w \in Seq(Nat) /\ r = v \o e /\ r \in Seq(Nat) /\ Len(r) = Len(m)
  BY RequestParts DEF Encloses
<1>2. m \in Seq(Nat) /\ Take(m, Wide) = v /\ Wide < Len(m)
  <2>1. PlainFields(m, Command(auth, t, p), t, p) /\ Take(m, Wide) = v /\ Wide < Len(m)
    BY PlainLayout
  <2> QED BY <2>1 DEF PlainFields
<1>3. v \in Seq(Nat) /\ Len(v) = Wide
  BY CodeProperties
<1>4. auth.key \in Nat /\ auth.iv \in Nat
  <2>1. user \in Nat
    BY DEF OwnUser
  <2> QED BY <2>1, AuthFields
<1>5. Wide \in Nat /\ Len(b) \in Nat /\ Len(m) \in Nat
  BY <1>2, WideAssumption, LenProperties
<1>6. Len(b) <= Len(r) /\ Agrees(b, r)
  BY DEF Begins
<1>7. ASSUME Len(b) >= Wide
      PROVE  Take(b, Wide) = v /\ (Authentic(b, window) <=> user = OwnUser /\ time \in window)
  <2> HIDE DEF v, e, r
  <2>1. e \in Seq(Nat)
    BY <1>1, <1>4, Encrypted DEF e
  <2>2. \A i \in 1 .. Wide : r[i] = v[i]
    BY <1>1, <1>3, <2>1, Joined
  <2>3. \A i \in 1 .. Wide : i \in 1 .. Len(b) /\ i <= Len(r)
    BY <1>1, <1>2, <1>5, <1>7
  <2>4. \A i \in 1 .. Wide : b[i] = v[i]
    BY <1>6, <2>2, <2>3 DEF Agrees
  <2>5. Wide \in 0 .. Len(b)
    BY <1>5, <1>7
  <2>6. /\ Take(b, Wide) \in Seq(Nat) /\ Len(Take(b, Wide)) = Wide
        /\ \A i \in 1 .. Wide : Take(b, Wide)[i] = b[i]
    BY <2>5, TakeProperties
  <2>7. Take(b, Wide) = v
    BY <1>3, <2>4, <2>6, SeqEqual
  <2> QED BY <1>7, <2>7, Known DEF v
<1>8. ASSUME Len(b) < Wide
      PROVE  Opened(b, window) = b /\ Begins(b, m)
  <2>1. Opened(b, window) = b
    BY <1>5, <1>8 DEF Opened, Authentic
  <2> HIDE DEF m, e, r
  <2>2. e \in Seq(Nat) /\ v \in Seq(Nat)
    BY <1>1, <1>3, <1>4, Encrypted DEF e
  <2>3. \A i \in 1 .. Wide : r[i] = v[i]
    BY <1>1, <1>3, <2>2, Joined
  <2>4. Wide \in 0 .. Len(m)
    BY <1>2, <1>5
  <2>5. \A i \in 1 .. Wide : Take(m, Wide)[i] = m[i]
    BY <1>2, <2>4, TakeProperties
  <2>6. \A i \in 1 .. Len(b) : i \in 1 .. Wide /\ i <= Len(r)
    BY <1>1, <1>2, <1>5, <1>8
  <2>7. \A i \in 1 .. Len(b) : b[i] = m[i]
    BY <1>2, <1>6, <2>3, <2>5, <2>6 DEF Agrees
  <2> QED BY <1>1, <1>6, <2>1, <2>7 DEF Begins, Agrees
<1>9. ASSUME Authentic(b, window)
      PROVE  /\ Opened(b, window) \in Seq(Nat) /\ Begins(Opened(b, window), m)
             /\ Len(Opened(b, window)) = Len(b)
  <2> DEFINE y == Drop(b, Wide)
             x == CfbDec(auth, y)
  <2>1. Len(b) >= Wide /\ Wide \in 0 .. Len(b)
    BY <1>5, <1>9 DEF Authentic
  <2>2. Take(b, Wide) = v
    BY <1>7, <2>1
  <2>3. AuthOf(b, window) = auth
    <3>1. Authentic(b, window) => AuthOf(b, window) = AuthInit(user, time)
      BY <2>1, <2>2, Known
    <3> QED BY <1>9, <3>1
  <2>4. Opened(b, window) = v \o x
    BY <1>9, <2>2, <2>3 DEF Opened
  <2>5. y \in Seq(Nat) /\ Len(y) = Len(b) - Wide /\ \A i \in 1 .. Len(b) - Wide : y[i] = b[Wide + i]
    BY <2>1, DropProperties
  <2>6. Len(w) = Len(m) - Wide /\ \A i \in 1 .. Len(m) - Wide : w[i] = m[Wide + i]
    <3>1. Wide \in 0 .. Len(m) /\ m \in Seq(Nat)
      BY <1>2, <1>5
    <3> QED BY <3>1, DropProperties
  <2>7. e \in Seq(Nat) /\ Len(e) = Len(w)
    BY <1>1, <1>4, Encrypted
  <2>8. Agrees(y, e)
    <3> HIDE DEF e, v, r, w, y
    <3>1. \A i \in 1 .. Len(e) : r[Wide + i] = e[i]
      <4>1. \A i \in 1 .. Len(e) : (v \o e)[Len(v) + i] = e[i]
        BY <1>3, <2>7, Joined
      <4> QED BY <1>1, <1>3, <4>1
    <3>2. \A i \in 1 .. Len(y) : i <= Len(e) =>
             /\ i \in 1 .. Len(e) /\ i \in 1 .. Len(b) - Wide
             /\ Wide + i \in 1 .. Len(b) /\ Wide + i <= Len(r)
      BY <1>1, <1>2, <1>5, <1>6, <2>1, <2>5, <2>6, <2>7
    <3>3. \A i \in 1 .. Len(y) : i <= Len(e) => y[i] = e[i]
      BY <1>6, <2>5, <3>1, <3>2 DEF Agrees
    <3> QED BY <3>3 DEF Agrees
  <2>9. x \in Seq(Int) /\ Len(x) = Len(y) /\ Agrees(x, w)
    BY <1>1, <1>4, <2>5, <2>8, Decrypted
  <2> HIDE DEF x, y, v, w, m, e, r
  <2>10. \A i \in 1 .. Len(x) : i \in 1 .. Len(w) /\ i \in 1 .. Len(m) - Wide
    BY <1>1, <1>5, <1>6, <2>1, <2>5, <2>6, <2>9
  <2>11. \A i \in 1 .. Len(x) : x[i] = m[Wide + i] /\ x[i] = w[i] /\ w[i] \in Nat
    BY <1>1, <2>6, <2>9, <2>10, ElementOfSeq DEF Agrees
  <2>12. x \in Seq(Nat)
    <3>1. \A i \in 1 .. Len(x) : x[i] \in Nat
      BY <2>11
    <3>2. Len(x) \in Nat /\ DOMAIN x = 1 .. Len(x) /\ x = [i \in 1 .. Len(x) |-> x[i]]
      BY <2>9, LenProperties
    <3>3. [i \in 1 .. Len(x) |-> x[i]] \in Seq(Nat)
      BY <3>1, <3>2, IsASeq
    <3> QED BY <3>2, <3>3
  <2>13. /\ v \o x \in Seq(Nat) /\ Len(v \o x) = Wide + Len(x)
         /\ \A i \in 1 .. Wide : (v \o x)[i] = v[i]
         /\ \A i \in 1 .. Len(x) : (v \o x)[Wide + i] = x[i]
    BY <1>3, <2>12, Joined
  <2> DEFINE z == v \o x
  <2>14. Len(z) = Len(b) /\ Len(z) <= Len(m)
    BY <1>1, <1>5, <1>6, <2>1, <2>5, <2>9, <2>13
  <2>15. \A i \in 1 .. Wide : v[i] = m[i]
    <3>1. Wide \in 0 .. Len(m) /\ m \in Seq(Nat)
      BY <1>2, <1>5
    <3> QED BY <1>2, <3>1, TakeProperties
  <2>16. ASSUME NEW i \in 1 .. Len(z) PROVE z[i] = m[i]
    <3> HIDE DEF z
    <3>1. CASE i <= Wide
      <4>1. i \in 1 .. Wide
        BY <1>5, <3>1
      <4> QED BY <2>13, <2>15, <4>1 DEF z
    <3>2. CASE ~(i <= Wide)
      <4> DEFINE j == i - Wide
      <4>1. j \in 1 .. Len(x) /\ i = Wide + j
        BY <1>5, <2>1, <2>5, <2>9, <2>14, <3>2
      <4>2. z[Wide + j] = x[j] /\ x[j] = m[Wide + j]
        BY <2>11, <2>13, <4>1 DEF z
      <4> QED BY <4>1, <4>2
    <3> QED BY <3>1, <3>2
  <2> QED BY <2>4, <2>13, <2>14, <2>16 DEF Begins, Agrees
<1>10. Authentic(b, window) \/ Len(b) < Wide =>
          Opened(b, window) \in Seq(Nat) /\ Begins(Opened(b, window), m)
          /\ Len(Opened(b, window)) = Len(b)
  BY <1>8, <1>9
<1> QED BY <1>7, <1>10 DEF PartOf

(* The server's decoder: it takes a request of its user within the window   *)
(* when all of it has come, and never another one.                          *)
VmessVerdict(b, window, user, time, r) ==
    /\ user = OwnUser /\ time \in window =>
          DecodeVmessRequest(Opened(b, window), window) = Complete(b, r)
    /\ ~(user = OwnUser /\ time \in window) =>
          DecodeVmessRequest(Opened(b, window), window) \in {-1, 0}

LEMMA ReadVmess ==
  ASSUME NEW user \in {OwnUser, OwnUser + 1}, NEW time \in Nat,
         NEW t, Sendable(t), NEW p \in 0 .. 15, NEW window \in SUBSET Int,
         NEW b \in Seq(Nat), Begins(b, VmessRequest(user, time, t, p))
  PROVE  VmessVerdict(b, window, user, time, VmessRequest(user, time, t, p))
<1> DEFINE m == PlainRequest(user, time, t, p)
           c == Command(AuthInit(user, time), t, p)
           x == Opened(b, window)
           r == VmessRequest(user, time, t, p)
<1>1. PlainFields(m, c, t, p) /\ Take(m, Wide) = ValidationCode(user, time) /\ Wide < Len(m)
  BY PlainLayout
<1>2. Encloses(r, m, ValidationCode(user, time), AuthInit(user, time))
  BY RequestParts
<1>3. m \in Seq(Nat) /\ Len(r) = Len(m) /\ r \in Seq(Nat)
  BY <1>1, <1>2 DEF PlainFields, Encloses
<1>4. Len(b) \in Nat /\ Len(m) \in Nat /\ Wide \in Nat /\ AtType \in Nat /\ AtType > Wide
  BY <1>3, LenProperties, WideAssumption DEF AtType
<1>5. /\ Len(b) >= Wide => /\ Take(b, Wide) = ValidationCode(user, time)
                           /\ Authentic(b, window) <=> user = OwnUser /\ time \in window
      /\ Authentic(b, window) \/ Len(b) < Wide =>
               x \in Seq(Nat) /\ Begins(x, m) /\ Len(x) = Len(b)
  <2>1. PartOf(b, window, user, time, PlainRequest(user, time, t, p))
    BY OpenedPart
  <2> QED BY <2>1 DEF PartOf
<1>6. ASSUME Authentic(b, window) \/ Len(b) < Wide
      PROVE  DecodeVmessRequest(x, window) = Complete(b, r)
  <2>1. x \in Seq(Nat) /\ Begins(x, m) /\ Len(x) = Len(b)
    BY <1>5, <1>6
  <2>2. ASSUME Len(x) >= Wide PROVE Authentic(x, window)
    <3>0. Len(b) >= Wide /\ Authentic(b, window)
      BY <1>4, <1>6, <2>1, <2>2
    <3>1. Take(b, Wide) = ValidationCode(user, time) /\ user = OwnUser /\ time \in window
      BY <1>5, <3>0
    <3>2. Take(x, Wide) = Take(m, Wide)
      <4> HIDE DEF x, m
      <4>1. Wide \in 0 .. Len(x) /\ Wide \in 0 .. Len(m)
        BY <1>1, <1>4, <2>1, <3>0
      <4>2. /\ Take(x, Wide) \in Seq(Nat) /\ Len(Take(x, Wide)) = Wide
            /\ \A i \in 1 .. Wide : Take(x, Wide)[i] = x[i]
        BY <2>1, <4>1, TakeProperties
      <4>3. /\ Take(m, Wide) \in Seq(Nat) /\ Len(Take(m, Wide)) = Wide
            /\ \A i \in 1 .. Wide : Take(m, Wide)[i] = m[i]
        BY <1>3, <4>1, TakeProperties
      <4>4. \A i \in 1 .. Wide : i \in 1 .. Len(x) /\ i <= Len(m)
        BY <1>1, <1>4, <2>1, <3>0
      <4>5. \A i \in 1 .. Wide : x[i] = m[i]
        BY <2>1, <4>4 DEF Begins, Agrees
      <4> QED BY <4>2, <4>3, <4>5, SeqEqual
    <3>3. Take(x, Wide) = ValidationCode(user, time)
      BY <1>1, <3>2
    <3> HIDE DEF x
    <3> QED BY <2>2, <3>1, <3>3, Known
  <2>3. Agrees(x, m)
    BY <2>1 DEF Begins
  <2> HIDE DEF x, m, c, r
  <2>4. DecodeVmessRequest(x, window) = Complete(x, m)
    BY <1>1, <2>1, <2>2, <2>3, ReadPlain
  <2> QED BY <1>3, <2>1, <2>4 DEF Complete
<1>7. ASSUME ~Authentic(b, window), Len(b) >= Wide
      PROVE  DecodeVmessRequest(x, window) = -1
  <2>1. x = b
    BY <1>7 DEF Opened
  <2> QED BY <1>7, <2>1 DEF DecodeVmessRequest, Returns
<1>8. CASE Len(b) < Wide
  <2>1. DecodeVmessRequest(x, window) = Complete(b, r)
    BY <1>6, <1>8
  <2>2. Complete(b, r) = 0
    BY <1>1, <1>3, <1>4, <1>8 DEF Complete
  <2> HIDE DEF x, r
  <2>3. DecodeVmessRequest(x, window) = Complete(b, r)
        /\ DecodeVmessRequest(x, window) \in {-1, 0}
    BY <2>1, <2>2
  <2> QED BY <2>3, Zenon DEF VmessVerdict, x, r
<1>9. CASE ~(Len(b) < Wide)
  <2>1. Len(b) >= Wide
    BY <1>4, <1>9
  <2>2. Authentic(b, window) <=> user = OwnUser /\ time \in window
    BY <1>5, <2>1
  <2> HIDE DEF x, r
  <2>3. CASE user = OwnUser /\ time \in window
    <3>1. DecodeVmessRequest(x, window) = Complete(b, r)
      BY <1>6, <2>2, <2>3
    <3> QED BY <2>3, <3>1, Zenon DEF VmessVerdict, x, r
  <2>4. CASE ~(user = OwnUser /\ time \in window)
    <3>1. DecodeVmessRequest(x, window) \in {-1, 0}
      BY <1>7, <2>1, <2>2, <2>4
    <3> QED BY <2>4, <3>1, Zenon DEF VmessVerdict, x, r
  <2> QED BY <2>3, <2>4
<1> QED BY <1>8, <1>9

(* What the server takes from a complete request of its user.               *)
Taken(m, k, window, t, auth) ==
    Take(m, k) = m /\ TargetV(m) = t /\ WithNonce(AuthOf(m, window), m) = auth

LEMMA VmessTaken ==
  ASSUME NEW time \in Nat, NEW t, Sendable(t), NEW p \in 0 .. 15,
         NEW window \in SUBSET Int, time \in window,
         NEW b \in Seq(Nat), b = VmessRequest(OwnUser, time, t, p)
  PROVE  Taken(Opened(b, window), Len(b), window, t, AuthInit(OwnUser, time))
<1> DEFINE m == PlainRequest(OwnUser, time, t, p)
           c == Command(AuthInit(OwnUser, time), t, p)
           x == Opened(b, window)
           r == VmessRequest(OwnUser, time, t, p)
           v == ValidationCode(OwnUser, time)
           auth == AuthInit(OwnUser, time)
<1>1. PlainFields(m, c, t, p) /\ Take(m, Wide) = v /\ Wide < Len(m)
  BY PlainLayout
<1>2. Encloses(r, m, v, auth)
  BY RequestParts
<1>3. m \in Seq(Nat) /\ Len(r) = Len(m) /\ r \in Seq(Nat)
  BY <1>1, <1>2 DEF PlainFields, Encloses
<1>4. Len(b) \in Nat /\ Len(b) = Len(m) /\ Len(m) \in Nat /\ Wide \in Nat /\ AtType \in Nat
      /\ AtPort \in Nat
  BY <1>3, LenProperties, WideAssumption DEF AtType, AtPort
<1>5. Begins(b, r)
  BY <1>3, StartsWith DEF Begins, Agrees
<1>6. x = m
  <2>0. Len(b) >= Wide
    BY <1>1, <1>4
  <2>1. Authentic(b, window)
    <3>1. OwnUser \in {OwnUser, OwnUser + 1}
      OBVIOUS
    <3>2. PartOf(b, window, OwnUser, time, PlainRequest(OwnUser, time, t, p))
      BY <1>5, <3>1, OpenedPart
    <3> QED BY <2>0, <3>2 DEF PartOf
  <2>2. x \in Seq(Nat) /\ Begins(x, m) /\ Len(x) = Len(b)
    <3>1. OwnUser \in {OwnUser, OwnUser + 1}
      OBVIOUS
    <3>2. PartOf(b, window, OwnUser, time, PlainRequest(OwnUser, time, t, p))
      BY <1>5, <3>1, OpenedPart
    <3> QED BY <2>1, <3>2 DEF PartOf
  <2> HIDE DEF x, m
  <2> QED BY <1>3, <1>4, <2>2, BeginsWhole
<1> HIDE DEF x, m, c, r
<1>7. Take(m, Len(b)) = m
  <2>1. Len(b) \in 0 .. Len(m)
    BY <1>4
  <2>2. /\ Take(m, Len(b)) \in Seq(Nat) /\ Len(Take(m, Len(b))) = Len(b)
        /\ \A i \in 1 .. Len(b) : Take(m, Len(b))[i] = m[i]
    BY <1>3, <2>1, TakeProperties
  <2> QED BY <1>3, <1>4, <2>2, SeqEqual
<1>8. TargetV(m) = t
  <2>1. m[AtType] = t.type /\ Holds(m, t, AtType)
    BY <1>1 DEF PlainFields
  <2>2. HostAt(t.type, m, AtType + 1) = t.host
    BY <1>3, <1>4, <2>1, HostKnown
  <2>3. m[AtPort] = Be16(t.port)[1] /\ m[AtPort + 1] = Be16(t.port)[2]
    BY <1>1 DEF PlainFields
  <2>4. FromBe16(m, AtPort) = t.port
    BY <1>3, <1>4, <2>3, SendablePort, Port
  <2>5. TargetV(m) = [type |-> t.type, host |-> t.host, port |-> t.port]
    BY <2>1, <2>2, <2>4 DEF TargetV
  <2> QED BY <2>5, SendableRecord
<1>9. WithNonce(AuthOf(m, window), m) = auth
  <2>1. Len(m) >= Wide /\ Take(m, Wide) = v
    BY <1>1, <1>4
  <2>2. AuthOf(m, window) = auth
    BY <2>1, Known
  <2>3. m[AtNonce] = 0
    BY <1>1 DEF PlainFields
  <2>4. [auth EXCEPT !.nonce = 0] = auth
    BY DEF AuthInit
  <2> QED BY <2>2, <2>3, <2>4 DEF WithNonce
<1> QED BY <1>6, <1>7, <1>8, <1>9 DEF Taken, x

(* The server's answer to it.                                               *)
LEMMA ReadVmessResponse ==
  ASSUME NEW user \in Nat, NEW time \in Nat
  PROVE  LET auth == AuthInit(user, time)
             r == VmessResponse(auth)
         IN  /\ r \in Seq(Nat) /\ Len(r) = 4
             /\ \A b \in Seq(Nat) :
                   Agrees(b, r) => DecodeVmessResponse(CfbDec(auth, b), auth.nonce) = Complete(b, r)
<1> DEFINE auth == AuthInit(user, time)
           m == <<0, 1, 0, 0>>
           r == CfbEnc(auth, m)
<1>1. auth.key \in Nat /\ auth.iv \in Nat /\ auth.nonce = 0
  BY AuthFields
<1>2. m \in Seq(Nat) /\ Len(m) = 4 /\ m[1] = 0 /\ m[3] = 0 /\ m[4] = 0
  BY Four
<1>3. VmessResponse(auth) = r
  BY <1>1 DEF VmessResponse
<1> HIDE DEF auth, m
<1>4. r \in Seq(Nat) /\ Len(r) = 4
  BY <1>1, <1>2, Encrypted
<1> HIDE DEF r
<1>5. ASSUME NEW b \in Seq(Nat), Agrees(b, r)
      PROVE  DecodeVmessResponse(CfbDec(auth, b), auth.nonce) = Complete(b, r)
  <2> DEFINE x == CfbDec(auth, b)
  <2>1. Len(x) = Len(b) /\ Len(b) \in Nat /\ Agrees(x, m)
    BY <1>1, <1>2, <1>5, Decrypted DEF r
  <2> HIDE DEF x
  <2>2. Len(x) >= 4 => x[1] = 0 /\ x[3] = 0 /\ x[4] = 0
    BY <1>2, <2>1 DEF Agrees
  <2> QED BY <1>1, <1>4, <2>1, <2>2 DEF DecodeVmessResponse, Returns, Complete, x
<1> QED BY <1>3, <1>4, <1>5 DEF auth

(* Fewer bytes than an answer has decide nothing.                           *)
LEMMA TooShort ==
  ASSUME NEW user \in Nat, NEW time \in Nat, NEW b \in Seq(Nat), Len(b) < 4
  PROVE  DecodeVmessResponse(CfbDec(AuthInit(user, time), b), AuthInit(user, time).nonce) = 0
<1> DEFINE auth == AuthInit(user, time)
           x == CfbDec(auth, b)
<1>1. auth.key \in Nat /\ auth.iv \in Nat
  BY AuthFields
<1>2. CfbEnc(auth, <<>>) = <<>> /\ <<>> \in Seq(Nat) /\ Len(<<>>) = 0
  BY DEF CfbEnc
<1>3. Agrees(b, CfbEnc(auth, <<>>))
  BY <1>2 DEF Agrees
<1> HIDE DEF auth
<1>4. Len(x) = Len(b) /\ Len(b) \in Nat
  BY <1>1, <1>2, <1>3, Decrypted
<1> HIDE DEF x
<1>5. DecodeVmessResponse(x, auth.nonce) = 0
  BY <1>4 DEF DecodeVmessResponse, Returns
<1> QED BY <1>5 DEF auth, x

-----------------------------------------------------------------------------
(* The inductive invariant: what the bytes on their way are, seen from what *)
(* the two parties wait for.                                                *)
Unread(p) == rbuf[p] \o in[p]
Gone == {"failed", "dead"}

(* The request4 client that found no IPv4 address has sent nothing.         *)
FirstMessage ==
    CASE conn.proto = "socks5" -> AuthSel(conn.methods)
      [] conn.proto = "socks4" -> IF asked.type = Ipv4
                                  THEN Request4(conn.cmd, asked, conn.user) ELSE <<>>
      [] conn.proto = "vmess" -> VmessRequest(Head(conn.user), conn.gen, asked, conn.pad)

FirstWait ==
    CASE conn.proto = "socks5" -> "auth_ack"
      [] conn.proto = "socks4" -> "response4"
      [] conn.proto = "vmess" -> "vmess_response"

LastWait ==
    CASE conn.proto = "socks5" -> "response5"
      [] conn.proto = "socks4" -> "response4"
      [] conn.proto = "vmess" -> "vmess_response"

Answer ==
    CASE conn.proto = "socks5" -> Response5(Success5)
      [] conn.proto = "socks4" -> Response4(Success4)
      [] conn.proto = "vmess" -> VmessResponse(ClientAuth)

(* What a server that is gone may have left.                                *)
Leftover ==
    CASE pc["client"] = "auth_ack" -> AuthAck(NoAuth)
      [] conn.proto = "vmess" -> <<0, 0>>
      [] OTHER -> <<>>

AskedRight ==
    /\ Sendable(asked)
    /\ pc["client"] = "start" => asked = conn.target
    /\ \/ asked \in {conn.target, Handed(conn.target)}
       \/ conn.proto = "socks4" /\ asked \in Resolved4 \ {NoTarget}

Protocol ==
    /\ pc["client"] \in {"start", FirstWait, LastWait} \cup Ended
    /\ pc["server"] \in (IF conn.proto = "vmess" THEN {"vmess_request"}
                         ELSE {"vers", "auth_sel", "request5", "request4"}) \cup Ended
    /\ pc["server"] = "request5" => conn.proto = "socks5"
    /\ pc["client"] = "start" => rbuf["client"] = <<>>

CutRight == \A p \in Parties : cut[p] = "no" <=> pc[Other(p)] \notin Gone

SentRight == \A p \in Parties : pc[p] # "done" => sent[p] = 0

Garbled ==
    /\ pc["server"] \in {"auth_sel", "request4"} /\ cut["server"] = "reset"
    /\ in["server"] = <<>> /\ Len(rbuf["server"]) = 1

Understood ==
    /\ pc["server"] = "auth_sel" => conn.proto = "socks5"
    /\ pc["server"] = "request4" => conn.proto = "socks4"
    /\ pc["server"] = "vers" => rbuf["server"] = <<>>
    /\ pc["client"] = "start" => Unread("server") = <<>>
    /\ Begins(Unread("server"), FirstMessage)

Opening ==
    pc["server"] \in {"vers", "auth_sel", "request4", "vmess_request"} =>
        /\ pc["client"] \in {"start", FirstWait} \cup Gone
        /\ Unread("client") = <<>>
        /\ Understood \/ Garbled

Agreeing ==
    pc["server"] = "request5" =>
        /\ pc["client"] \in {"auth_ack", "response5"} \cup Gone
        /\ Begins(Unread("server"), Request5(conn.cmd, asked))
        /\ pc["client"] = "auth_ack" =>
              Unread("server") = <<>> /\ Begins(Unread("client"), AuthAck(NoAuth))
        /\ pc["client"] = "response5" => Unread("client") = <<>>

Open ==
    pc["server"] = "done" =>
        /\ target = asked
        /\ pc["client"] \in {LastWait, "done"} \cup Gone
        /\ pc["client"] = LastWait => Unread("client") = Answer \o Data("server")
        /\ pc["client"] = "done" => IF conn.proto = "vmess"
                                    THEN Unread("client") = Data("server")
                                    ELSE IsSuffix(Unread("client"), Data("server"))
        /\ pc["client"] \notin Gone => Unread("server") = Data("client")

Over ==
    pc["server"] \in Gone =>
        /\ pc["client"] # "done"
        /\ pc["client"] \notin Gone => Begins(Unread("client"), Leftover)

IInv == TypeOK /\ AskedRight /\ Protocol /\ CutRight /\ SentRight
        /\ Opening /\ Agreeing /\ Open /\ Over

-----------------------------------------------------------------------------
(* The bounds are numbers.                                                  *)
LEMMA BoundsNat ==
  PMax \in Nat /\ Delta \in Nat /\ MaxClock \in Nat /\ MaxData \in Nat
BY BoundsAssumption

(* A record has its fields.                                                 *)
LEMMA ConnRecord ==
  ASSUME NEW A, NEW B, NEW C, NEW D, NEW E, NEW F, NEW G,
         NEW c \in [proto : A, target : B, methods : C, cmd : D, user : E, pad : F, gen : G]
  PROVE  /\ c.proto \in A /\ c.target \in B /\ c.methods \in C /\ c.cmd \in D
         /\ c.user \in E /\ c.pad \in F /\ c.gen \in G
OBVIOUS

(* What a connection may be for.                                            *)
LEMMA ConnFields ==
  ASSUME conn \in Conns, PMax < 16
  PROVE  /\ conn.proto \in {"socks4", "socks5", "vmess"}
         /\ conn.target \in AskedTargets[conn.proto]
         /\ conn.cmd \in Nat /\ conn.methods \in Seq(Nat)
         /\ conn.proto = "socks4" => conn.user \in Users4
         /\ conn.proto = "vmess" =>
               /\ Head(conn.user) \in {OwnUser, OwnUser + 1}
               /\ conn.gen \in 0 .. MaxClock /\ conn.gen \in Nat /\ conn.pad \in 0 .. 15
<1> DEFINE S5 == [proto : {"socks5"}, target : AskedTargets["socks5"], methods : Offers,
                  cmd : {Connect, 2}, user : {<<>>}, pad : {0}, gen : {0}]
           S4 == [proto : {"socks4"}, target : AskedTargets["socks4"], methods : {<<NoAuth>>},
                  cmd : {Connect, 2}, user : {<<>>, <<7>>}, pad : {0}, gen : {0}]
           V == [proto : {"vmess"}, target : AskedTargets["vmess"], methods : {<<NoAuth>>},
                 cmd : {Connect}, user : {<<OwnUser>>, <<OwnUser + 1>>},
                 pad : 0 .. PMax, gen : 0 .. MaxClock]
<1>1. conn \in S5 \/ conn \in S4 \/ conn \in V
  BY DEF Conns
<1>2. Connect \in Nat /\ 2 \in Nat /\ <<NoAuth>> \in Seq(Nat)
  BY DEF Connect, NoAuth
<1>3. Offers \subseteq Seq(Nat)
  <2>1. Bytes \subseteq Nat
    BY DEF Bytes
  <2>2. Seq(Bytes) \subseteq Seq(Nat)
    <3> DEFINE B == Bytes
               N == Nat
    <3> HIDE DEF B, N
    <3>1. ASSUME B \subseteq N, NEW s \in Seq(B) PROVE s \in Seq(N)
      <4>1. Len(s) \in Nat /\ s = [i \in 1 .. Len(s) |-> s[i]] /\ \A i \in 1 .. Len(s) : s[i] \in N
        BY <3>1, LenProperties, ElementOfSeq
      <4>2. [i \in 1 .. Len(s) |-> s[i]] \in Seq(N)
        BY <4>1, IsASeq
      <4> QED BY <4>1, <4>2
    <3> QED BY <2>1, <3>1 DEF B, N
  <2> QED BY <2>2, OffersAssumption
<1>4. CASE conn \in S5
  <2> HIDE <1>1
  <2>1. /\ conn.proto \in {"socks5"} /\ conn.target \in AskedTargets["socks5"]
        /\ conn.methods \in Offers /\ conn.cmd \in {Connect, 2}
    BY <1>4, ConnRecord, ZenonT(20)
  <2> QED BY <1>2, <1>3, <2>1
<1>5. CASE conn \in S4
  <2>1. /\ conn.proto \in {"socks4"} /\ conn.target \in AskedTargets["socks4"]
        /\ conn.methods \in {<<NoAuth>>} /\ conn.cmd \in {Connect, 2}
        /\ conn.user \in {<<>>, <<7>>}
    BY <1>5, ConnRecord, ZenonT(20)
  <2> QED BY <1>2, <2>1 DEF Users4
<1>6. CASE conn \in V
  <2>1. /\ conn.proto \in {"vmess"} /\ conn.target \in AskedTargets["vmess"]
        /\ conn.methods \in {<<NoAuth>>} /\ conn.cmd \in {Connect}
        /\ conn.user \in {<<OwnUser>>, <<OwnUser + 1>>}
        /\ conn.pad \in 0 .. PMax /\ conn.gen \in 0 .. MaxClock
    BY <1>6, ConnRecord, ZenonT(20)
  <2>2. Head(conn.user) \in {OwnUser, OwnUser + 1}
    <3>1. Head(<<OwnUser>>) = OwnUser /\ Head(<<OwnUser + 1>>) = OwnUser + 1
      OBVIOUS
    <3> QED BY <2>1, <3>1
  <2>3. conn.gen \in Nat /\ conn.pad \in 0 .. 15
    BY <2>1, BoundsNat
  <2> QED BY <1>2, <2>1, <2>2, <2>3
<1> QED BY <1>1, <1>4, <1>5, <1>6

(* What TargetsAssumption says of one target.                               *)
LEMMA GivenTarget ==
  ASSUME NEW protocol \in {"socks4", "socks5", "vmess"}, NEW t \in AskedTargets[protocol]
  PROVE  /\ Sendable(t) /\ Sendable(Handed(t))
         /\ t.type = Domain /\ IsLiteral(t.host) =>
               Len(t.host) >= 2 /\ t.host[2] \in {Ipv4, Ipv6}
<1>1. protocol \in DOMAIN AskedTargets
  BY TargetsAssumption
<1> QED BY <1>1, TargetsAssumption, Zenon

-----------------------------------------------------------------------------
(* Targets.                                                                 *)

(* A target that has become text and is read again has the same text.       *)
LEMMA TextBack ==
  ASSUME NEW t, Sendable(t), Sendable(Handed(t)),
         t.type = Domain /\ IsLiteral(t.host) =>
            Len(t.host) >= 2 /\ t.host[2] \in {Ipv4, Ipv6}
  PROVE  /\ Handed(t).port = t.port
         /\ t.type # Domain => Handed(t) = t
         /\ t.type = Domain => Node(Handed(t)) = t.host
<1> DEFINE h == t.host
           u == Handed(t)
<1>1. h \in Seq(Nat) /\ Len(h) \in Nat /\ t.type \in {Ipv4, Domain, Ipv6}
  BY SendableFields
<1>2. CASE t.type # Domain
  <2> DEFINE y == <<Dot, t.type>>
             n == y \o h
  <2>1. Dot \in Nat /\ t.type \in Nat
    BY <1>1 DEF Dot, Ipv4, Domain, Ipv6
  <2>2. y \in Seq(Nat) /\ Len(y) = 2 /\ y[1] = Dot /\ y[2] = t.type
    BY <2>1, Two
  <2> HIDE DEF y
  <2>3. n \in Seq(Nat) /\ Len(n) = 2 + Len(h) /\ n[1] = Dot /\ n[2] = t.type
    <3>1. /\ n \in Seq(Nat) /\ Len(n) = Len(y) + Len(h)
          /\ \A i \in 1 .. Len(y) : n[i] = y[i]
      <4>1. y \in Seq(Nat) /\ h \in Seq(Nat)
        BY <1>1, <2>2
      <4> HIDE DEF h
      <4> QED BY <4>1, Joined
    <3>2. 1 \in 1 .. Len(y) /\ 2 \in 1 .. Len(y)
      BY <2>2
    <3> HIDE DEF n
    <3> QED BY <2>2, <3>1, <3>2
  <2>4. Drop(n, 2) = h
    BY <1>1, <2>2, DropFront
  <2> HIDE DEF n
  <2>5. Node(t) = n
    BY <1>2 DEF Node, n, y
  <2>6. IsLiteral(n)
    <3>1. n # <<>> /\ Head(n) = n[1]
      BY <1>1, <2>3
    <3> QED BY <2>3, <3>1 DEF IsLiteral
  <2>7. Handed(t) = [type |-> t.type, host |-> t.host, port |-> t.port]
    BY <2>3, <2>4, <2>5, <2>6 DEF Handed, Parse
  <2> QED BY <1>2, <2>7, SendableRecord
<1>3. CASE t.type = Domain
  <2>1. Handed(t) = Parse(h, t.port)
    BY <1>3 DEF Handed, Node
  <2>2. CASE ~IsLiteral(h)
    <3>1. u = [type |-> Domain, host |-> h, port |-> t.port]
      BY <2>1, <2>2 DEF Parse
    <3> QED BY <1>3, <3>1 DEF Node
  <2>3. CASE IsLiteral(h)
    <3> DEFINE d == Drop(h, 2)
    <3>1. u = [type |-> h[2], host |-> d, port |-> t.port]
      BY <2>1, <2>3 DEF Parse
    <3>2. Len(h) >= 2 /\ h[2] # Domain
      BY <1>3, <2>3 DEF Ipv4, Domain, Ipv6
    <3>3. Node(u) = <<Dot, h[2]>> \o d
      BY <3>1, <3>2 DEF Node
    <3>4. Take(h, 2) = <<Dot, h[2]>>
      <4>1. 2 \in 0 .. Len(h)
        BY <1>1, <3>2
      <4>2. /\ Take(h, 2) \in Seq(Nat) /\ Len(Take(h, 2)) = 2
            /\ \A i \in 1 .. 2 : Take(h, 2)[i] = h[i]
        BY <1>1, <4>1, TakeProperties
      <4>3. h[1] = Dot
        BY <1>1, <2>3, <3>2 DEF IsLiteral
      <4>4. Dot \in Nat /\ h[2] \in Nat
        BY <1>1, <3>2, ElementOfSeq DEF Dot
      <4>5. /\ <<Dot, h[2]>> \in Seq(Nat) /\ Len(<<Dot, h[2]>>) = 2
            /\ <<Dot, h[2]>>[1] = Dot /\ <<Dot, h[2]>>[2] = h[2]
        BY <4>4, Two
      <4>6. \A i \in 1 .. 2 : Take(h, 2)[i] = <<Dot, h[2]>>[i]
        BY <4>2, <4>3, <4>5
      <4> QED BY <4>2, <4>5, <4>6, SeqEqual
    <3>5. Take(h, 2) \o d = h
      <4>1. 2 \in 0 .. Len(h)
        BY <1>1, <3>2
      <4> QED BY <1>1, <4>1, TakeThenDrop
    <3>6. Node(u) = h
      BY <3>3, <3>4, <3>5
    <3>7. u.port = t.port
      BY <3>1
    <3> QED BY <1>3, <3>6, <3>7
  <2> QED BY <2>2, <2>3
<1> QED BY <1>2, <1>3

(* What a SOCKS 4 client resolves its target to.                            *)
LEMMA ResolvedTo ==
  ASSUME NEW u, Sendable(u), NEW v \in Resolve4(u, Resolved), v # NoTarget
  PROVE  /\ Sendable(v) /\ v.type = Ipv4 /\ v.port = u.port
         /\ u.type = Ipv4 => v = u
         /\ u.type = Domain => v.host = Resolved
<1> DEFINE at(host) == [type |-> Ipv4, host |-> host, port |-> u.port]
           z == <<0, 0, 0, 0>>
<1>1. u.type \in {Ipv4, Domain, Ipv6} /\ u.port \in Ports
  BY SendableFields, SendablePort
<1>2. ASSUME NEW host \in Seq(Bytes), Len(host) = 4
      PROVE  Sendable(at(host)) /\ at(host).type = Ipv4 /\ at(host).port = u.port
             /\ at(host).host = host
  <2> DEFINE x == at(host)
             P == Ports
             B == Seq(Bytes)
  <2>1. x.type = Ipv4 /\ x.port = u.port /\ x.host = host
    OBVIOUS
  <2>2. Ipv4 # Ipv6 /\ Ipv4 # Domain
    BY DEF Ipv4, Ipv6, Domain
  <2>3. x \in Targets
    <3> HIDE DEF P, B
    <3>1. u.port \in P /\ host \in B
      BY <1>1, <1>2 DEF P, B
    <3>2. x \in [type : {Ipv4, Domain, Ipv6}, host : B, port : P]
      BY <3>1
    <3> QED BY <3>2 DEF Targets, P, B
  <2> HIDE DEF x
  <2> QED BY <1>2, <2>1, <2>2, <2>3 DEF Sendable, x
<1>3. CASE u.type = Ipv4
  <2>1. v = u
    BY <1>3 DEF Resolve4, Ipv4, Domain, Ipv6
  <2>2. u.type # Domain
    BY <1>3 DEF Ipv4, Domain
  <2> QED BY <1>3, <2>1, <2>2
<1>4. CASE u.type = Domain
  <2>1. v = at(Resolved)
    BY <1>4 DEF Resolve4, Ipv4, Domain, Ipv6
  <2>2. u.type # Ipv4
    BY <1>4 DEF Ipv4, Domain
  <2>3. Sendable(at(Resolved)) /\ at(Resolved).type = Ipv4 /\ at(Resolved).port = u.port
        /\ at(Resolved).host = Resolved
    BY <1>2, ResolvedAssumption
  <2> QED BY <2>1, <2>2, <2>3
<1>5. CASE u.type = Ipv6
  <2>1. v = at(z) /\ u.type # Ipv4 /\ u.type # Domain
    BY <1>5 DEF Resolve4, Ipv4, Domain, Ipv6
  <2>2. z \in Seq(Bytes) /\ Len(z) = 4
    BY DEF Bytes
  <2> QED BY <1>2, <2>1, <2>2
<1> QED BY <1>1, <1>3, <1>4, <1>5

(* The target that a client asks for is the one it was given.               *)
LEMMA AskedMeans ==
  ASSUME conn \in Conns, PMax < 16, AskedRight,
         \A t \in AskedTargets["socks4"] : Handed(t).type # Ipv6
  PROVE  Means(conn.target, asked)
<1> DEFINE t == conn.target
           u == Handed(t)
<1>0. conn.proto \in {"socks4", "socks5", "vmess"} /\ t \in AskedTargets[conn.proto]
  BY ConnFields
<1>1. /\ Sendable(t) /\ Sendable(u)
      /\ t.type = Domain /\ IsLiteral(t.host) =>
            Len(t.host) >= 2 /\ t.host[2] \in {Ipv4, Ipv6}
  BY <1>0, GivenTarget
<1> HIDE DEF t
<1>2. u.port = t.port /\ (t.type # Domain => u = t) /\ (t.type = Domain => Node(u) = t.host)
  BY <1>1, TextBack
<1>3. CASE asked = t
  BY <1>3 DEF Means, t
<1>4. CASE asked = u
  BY <1>2, <1>4 DEF Means, t
<1>5. CASE conn.proto = "socks4" /\ asked \in Resolved4 \ {NoTarget}
  <2> HIDE DEF u
  <2>1. asked \in Resolve4(u, Resolved) /\ asked # NoTarget
    BY <1>5 DEF Resolved4, u, t
  <2>2. /\ asked.type = Ipv4 /\ asked.port = u.port
        /\ u.type = Ipv4 => asked = u
        /\ u.type = Domain => asked.host = Resolved
    BY <1>1, <2>1, ResolvedTo
  <2>3. u.type \in {Ipv4, Domain, Ipv6} /\ u.type # Ipv6
    BY <1>0, <1>1, <1>5, SendableFields DEF u
  <2>4. CASE u.type = Ipv4
    BY <1>2, <1>4, <2>2, <2>4 DEF Means, t
  <2>5. CASE u.type = Domain
    <3>1. t.type = Domain
      BY <1>2, <2>5
    <3> QED BY <1>2, <1>5, <2>2, <2>5, <3>1 DEF Means, t
  <2> QED BY <2>3, <2>4, <2>5
<1> QED BY <1>3, <1>4, <1>5 DEF AskedRight, u, t

(* A client can send for what it asks.                                      *)
LEMMA Asking ==
  ASSUME conn \in Conns, PMax < 16
  PROVE  /\ Sendable(conn.target) /\ Sendable(Handed(conn.target))
         /\ \A t \in Resolved4 \ {NoTarget} : Sendable(t) /\ t.type = Ipv4
         /\ NoTarget \in Resolved4 => conn.target.type # Ipv4
<1> DEFINE t == conn.target
           u == Handed(t)
<1>1. t \in AskedTargets[conn.proto] /\ conn.proto \in {"socks4", "socks5", "vmess"}
  BY ConnFields
<1>2. /\ Sendable(t) /\ Sendable(u)
      /\ t.type = Domain /\ IsLiteral(t.host) =>
            Len(t.host) >= 2 /\ t.host[2] \in {Ipv4, Ipv6}
  BY <1>1, GivenTarget
<1> HIDE DEF t
<1>3. t.type # Domain => u = t
  BY <1>2, TextBack
<1> HIDE DEF u
<1>4. ASSUME NEW v \in Resolved4 \ {NoTarget} PROVE Sendable(v) /\ v.type = Ipv4
  BY <1>2, ResolvedTo DEF Resolved4, u, t
<1>5. ASSUME NoTarget \in Resolved4, t.type = Ipv4 PROVE FALSE
  <2>1. u = t /\ u.type = Ipv4
    BY <1>3, <1>5 DEF Ipv4, Domain
  <2>2. Resolve4(u, Resolved) = {u}
    BY <2>1 DEF Resolve4, Ipv4, Domain, Ipv6
  <2>3. u = NoTarget
    BY <1>5, <2>2 DEF Resolved4, u, t
  <2>4. NoTarget.type = 0
    BY DEF NoTarget
  <2> QED BY <2>1, <2>3, <2>4 DEF Ipv4
<1> QED BY <1>2, <1>4, <1>5 DEF u, t

-----------------------------------------------------------------------------
(* The messages of a connection.                                            *)

(* The messages of a connection are sequences of numbers.                   *)
LEMMA Spoken ==
  ASSUME conn \in Conns, PMax < 16, Sendable(asked)
  PROVE  /\ FirstMessage \in Seq(Nat) /\ Answer \in Seq(Nat)
         /\ Request5(conn.cmd, asked) \in Seq(Nat) /\ AuthAck(NoAuth) \in Seq(Nat)
         /\ Leftover \in Seq(Nat) /\ <<0, 0>> \in Seq(Nat) /\ <<>> \in Seq(Nat)
<1>1. /\ conn.proto \in {"socks4", "socks5", "vmess"}
      /\ conn.cmd \in Nat /\ conn.methods \in Seq(Nat)
      /\ conn.proto = "socks4" => conn.user \in Users4
      /\ conn.proto = "vmess" => /\ Head(conn.user) \in {OwnUser, OwnUser + 1}
                                 /\ conn.gen \in Nat /\ conn.pad \in 0 .. 15
  BY ConnFields
<1>2. Request5(conn.cmd, asked) \in Seq(Nat) /\ AuthAck(NoAuth) \in Seq(Nat)
  BY <1>1, Request5Layout, ReadAuthAck
<1>3. <<0, 0>> \in Seq(Nat) /\ <<>> \in Seq(Nat)
  OBVIOUS
<1>4. Leftover \in Seq(Nat)
  <2>1. Leftover \in {AuthAck(NoAuth), <<0, 0>>, <<>>}
    BY DEF Leftover
  <2> QED BY <1>2, <1>3, <2>1
<1>5. CASE conn.proto = "socks5"
  <2>1. FirstMessage = AuthSel(conn.methods) /\ Answer = Response5(Success5)
    BY <1>5 DEF FirstMessage, Answer
  <2> QED BY <1>1, <1>2, <1>3, <1>4, <2>1, AuthSelLayout, ReadResponse5
<1>6. CASE conn.proto = "socks4"
  <2>1. FirstMessage = IF asked.type = Ipv4
                       THEN Request4(conn.cmd, asked, conn.user) ELSE <<>>
    BY <1>6 DEF FirstMessage
  <2>2. asked.type = Ipv4 => Request4(conn.cmd, asked, conn.user) \in Seq(Nat)
    BY <1>1, <1>6, Request4Layout DEF Request4Fields
  <2>3. Answer = Response4(Success4) /\ Response4(Success4) \in Seq(Nat)
    BY <1>6, ReadResponse4 DEF Answer
  <2> QED BY <1>2, <1>3, <1>4, <2>1, <2>2, <2>3
<1>7. CASE conn.proto = "vmess"
  <2> DEFINE user == Head(conn.user)
             time == conn.gen
             p == conn.pad
  <2>1. user \in {OwnUser, OwnUser + 1} /\ time \in Nat /\ p \in 0 .. 15 /\ user \in Nat
    BY <1>1, <1>7 DEF OwnUser
  <2>2. FirstMessage = VmessRequest(user, time, asked, p)
        /\ Answer = VmessResponse(AuthInit(user, time))
    BY <1>7 DEF FirstMessage, Answer, ClientAuth
  <2> HIDE DEF user, time, p
  <2>3. Encloses(VmessRequest(user, time, asked, p), PlainRequest(user, time, asked, p),
                 ValidationCode(user, time), AuthInit(user, time))
    BY <2>1, RequestParts
  <2>4. VmessRequest(user, time, asked, p) \in Seq(Nat)
    BY <2>3 DEF Encloses
  <2>5. VmessResponse(AuthInit(user, time)) \in Seq(Nat)
    BY <2>1, ReadVmessResponse
  <2> QED BY <1>2, <1>3, <1>4, <2>2, <2>4, <2>5
<1> QED BY <1>1, <1>5, <1>6, <1>7

(* The messages do not depend on what a step changes.                       *)
LEMMA SameMessages ==
  ASSUME conn' = conn, asked' = asked
  PROVE  /\ FirstMessage' = FirstMessage /\ Answer' = Answer
         /\ FirstWait' = FirstWait /\ LastWait' = LastWait
         /\ Request5(conn.cmd, asked)' = Request5(conn.cmd, asked)
BY DEF FirstMessage, Answer, FirstWait, LastWait, ClientAuth

-----------------------------------------------------------------------------
(* What a step does to each party.                                          *)

(* There are two parties.                                                   *)
LEMMA Others ==
  /\ Parties = {"client", "server"} /\ Other("client") = "server" /\ Other("server") = "client"
  /\ "client" # "server"
  /\ \A p \in Parties : Other(p) \in Parties /\ Other(p) # p /\ Other(Other(p)) = p
BY DEF Parties, Other

(* What a party has read and what it has not are sequences of numbers.      *)
LEMMA Streams ==
  ASSUME TypeOK, NEW p \in Parties
  PROVE  /\ rbuf[p] \in Seq(Nat) /\ in[p] \in Seq(Nat) /\ Unread(p) \in Seq(Nat)
         /\ Len(in[p]) \in Nat
<1>1. rbuf[p] \in Seq(Nat) /\ in[p] \in Seq(Nat)
  BY DEF TypeOK
<1> QED BY <1>1, Joined DEF Unread

(* What arrives is behind what has not been read.                           *)
LEMMA UnreadGrows ==
  ASSUME TypeOK, NEW p \in Parties, NEW reply \in Seq(Nat)
  PROVE  rbuf[p] \o (in[p] \o reply) = Unread(p) \o reply
<1> DEFINE a == rbuf[p]
           c == in[p]
<1>1. a \in Seq(Nat) /\ c \in Seq(Nat)
  BY Streams
<1> HIDE DEF a, c
<1>2. (a \o c) \o reply = a \o (c \o reply)
  BY <1>1, Associative
<1> QED BY <1>2 DEF a, c, Unread

(* Nothing dropped, nothing taken, nothing joined.                          *)
LEMMA DropNone ==
  ASSUME NEW s \in Seq(Nat)
  PROVE  Drop(s, 0) = s /\ Take(s, 0) = <<>> /\ s \o <<>> = s /\ <<>> \o s = s
<1>1. Len(s) \in Nat /\ 0 \in 0 .. Len(s)
  BY LenProperties
<1>2. Drop(s, 0) \in Seq(Nat) /\ Len(Drop(s, 0)) = Len(s) - 0
      /\ \A i \in 1 .. Len(s) - 0 : Drop(s, 0)[i] = s[0 + i]
  BY <1>1, DropProperties
<1>3. \A i \in 1 .. Len(s) : i \in 1 .. Len(s) - 0 /\ 0 + i = i
  BY <1>1
<1>4. Drop(s, 0) = s
  <2>1. \A i \in 1 .. Len(s) : Drop(s, 0)[i] = s[i]
    BY <1>2, <1>3
  <2> QED BY <1>1, <1>2, <2>1, SeqEqual
<1>5. Take(s, 0) = <<>>
  <2>1. Take(s, 0) \in Seq(Nat) /\ Len(Take(s, 0)) = 0
    BY <1>1, TakeProperties
  <2> QED BY <2>1, EmptySeq
<1>6. s \o <<>> = s /\ <<>> \o s = s
  BY ConcatEmptySeq
<1> QED BY <1>4, <1>5, <1>6

(* p has moved on, and q is the other party.                                *)
Moved2(p, q, n, reply, rest, next) ==
    /\ pc'[p] = next /\ pc'[q] = pc[q]
    /\ in'[p] = Drop(in[p], n) /\ in'[q] = in[q] \o reply
    /\ rbuf'[p] = rest /\ rbuf'[q] = rbuf[q]
    /\ conn' = conn /\ cut' = cut /\ sent' = sent /\ clock' = clock

(* A party that goes on disturbs neither types nor streams.                 *)
LEMMA MovesKeep ==
  ASSUME TypeOK, CutRight, SentRight, NEW p \in Parties, pc[p] \notin Ended,
         NEW reply \in Seq(Nat), NEW rest \in Seq(Nat),
         NEW n, Drop(in[p], n) \in Seq(Nat), NEW next \in Messages \cup {"done"},
         Moves(p, n, reply, rest, next),
         asked' \in Targets, target' \in Targets \cup {NoTarget}
  PROVE  /\ Moved2(p, Other(p), n, reply, rest, next)
         /\ TypeOK' /\ CutRight' /\ SentRight'
<1> DEFINE q == Other(p)
<1>1. q \in Parties /\ q # p
  BY Others
<1>2. in[p] \in Seq(Nat) /\ in[q] \in Seq(Nat)
  BY <1>1, Streams
<1>3. Drop(in[p], n) \in Seq(Nat) /\ in[q] \o reply \in Seq(Nat)
  BY <1>2, Joined
<1>4. next \in Messages \cup Ended \cup {"start", "vers"}
  BY DEF Ended
<1> HIDE DEF q
<1>5. /\ pc' = [pc EXCEPT ![p] = next]
      /\ in' = [in EXCEPT ![p] = Drop(in[p], n), ![q] = in[q] \o reply]
      /\ rbuf' = [rbuf EXCEPT ![p] = rest]
      /\ should_read' = [should_read EXCEPT ![p] = FALSE]
      /\ conn' = conn /\ cut' = cut /\ sent' = sent /\ clock' = clock
  BY <1>1 DEF Moves, Goes, q, TypeOK
<1>6. Moved2(p, q, n, reply, rest, next)
  BY <1>1, <1>5 DEF Moved2, TypeOK
<1>7. TypeOK'
  <2>1. pc' \in [Parties -> Messages \cup Ended \cup {"start", "vers"}]
    BY <1>4, <1>5 DEF TypeOK
  <2>2. in' \in [Parties -> Seq(Nat)]
    <3> DEFINE S == Seq(Nat)
               d == Drop(in[p], n)
               e == in[q] \o reply
    <3>1. in \in [Parties -> S] /\ d \in S /\ e \in S /\ in' = [in EXCEPT ![p] = d, ![q] = e]
      BY <1>3, <1>5 DEF TypeOK
    <3> HIDE DEF S, d, e
    <3>2. in' \in [Parties -> S]
      BY <1>1, <3>1
    <3> QED BY <3>2 DEF S
  <2>3. rbuf' \in [Parties -> Seq(Nat)]
    <3> DEFINE S == Seq(Nat)
    <3>1. rbuf \in [Parties -> S] /\ rest \in S
      BY DEF TypeOK
    <3> HIDE DEF S
    <3>2. rbuf' \in [Parties -> S]
      BY <1>5, <3>1
    <3> QED BY <3>2 DEF S
  <2>4. should_read' \in [Parties -> BOOLEAN]
    BY <1>5 DEF TypeOK
  <2>5. conn' \in Conns
    BY <1>5 DEF TypeOK
  <2>6. cut' \in [Parties -> {"no", "fin", "reset"}] /\ sent' \in [Parties -> 0 .. MaxData]
        /\ clock' \in 0 .. MaxClock
    BY <1>5 DEF TypeOK
  <2> QED BY <2>1, <2>2, <2>3, <2>4, <2>5, <2>6 DEF TypeOK
<1>8. CutRight' /\ SentRight'
  <2>1. next \notin Gone /\ pc[p] \notin Gone /\ pc[p] # "done"
    BY DEF Messages, Ended, Gone
  <2>2. \A x \in Parties : pc'[x] = IF x = p THEN next ELSE pc[x]
    BY <1>5 DEF TypeOK
  <2>3. \A x \in Parties : Other(x) \in Parties
    BY Others
  <2>4. \A x \in Parties : pc'[x] \in Gone <=> pc[x] \in Gone
    BY <2>1, <2>2
  <2>5. CutRight'
    BY <1>5, <2>3, <2>4 DEF CutRight, Gone
  <2>6. SentRight'
    BY <1>5, <2>1, <2>2 DEF SentRight
  <2> QED BY <2>5, <2>6
<1> QED BY <1>6, <1>7, <1>8 DEF q

(* p has ended, and q is the other party.                                   *)
Ended2(p, q, how, last) ==
    /\ pc'[p] = how /\ pc'[q] = pc[q]
    /\ in'[p] = <<>>
    /\ \/ in'[q] = in[q] \o last
       \/ \E n \in 0 .. Len(in[q]) : in'[q] = Take(in[q], n)
    /\ rbuf'[p] = <<>> /\ rbuf'[q] = rbuf[q]
    /\ cut'[q] # "no" /\ cut'[p] = cut[p]
    /\ conn' = conn /\ asked' = asked /\ target' = target /\ sent' = sent /\ clock' = clock

(* Nor does one that ends.                                                  *)
LEMMA EndsKeep ==
  ASSUME TypeOK, CutRight, SentRight, NEW p \in Parties, pc[p] \notin Ended,
         NEW how \in Gone, NEW last \in Seq(Nat), Ends(p, how, last)
  PROVE  /\ Ended2(p, Other(p), how, last)
         /\ TypeOK' /\ CutRight' /\ SentRight'
<1> DEFINE q == Other(p)
<1>1. q \in Parties /\ q # p
  BY Others
<1>2. in[q] \in Seq(Nat)
  BY <1>1, Streams
<1>3. in[q] \o last \in Seq(Nat) /\ \A n \in 0 .. Len(in[q]) : Take(in[q], n) \in Seq(Nat)
  BY <1>2, TakeProperties, Joined
<1> HIDE DEF q
<1>4. /\ pc' = [pc EXCEPT ![p] = how]
      /\ rbuf' = [rbuf EXCEPT ![p] = <<>>]
      /\ should_read' = [should_read EXCEPT ![p] = FALSE]
      /\ conn' = conn /\ asked' = asked /\ target' = target /\ sent' = sent /\ clock' = clock
  BY DEF Ends, Goes
<1>5. \E c \in {"fin", "reset"}, s \in Seq(Nat) :
         /\ cut' = [cut EXCEPT ![q] = c]
         /\ in' = [in EXCEPT ![p] = <<>>, ![q] = s]
         /\ s = in[q] \o last \/ \E n \in 0 .. Len(in[q]) : s = Take(in[q], n)
  <2>1. CASE /\ cut' = [cut EXCEPT ![q] = "fin"]
             /\ in' = [in EXCEPT ![p] = <<>>, ![q] = @ \o last]
    <3>1. in' = [in EXCEPT ![p] = <<>>, ![q] = in[q] \o last]
      BY <1>1, <2>1 DEF TypeOK
    <3> QED BY <1>3, <2>1, <3>1
  <2>2. CASE /\ cut' = [cut EXCEPT ![q] = "reset"]
             /\ \E n \in 0 .. Len(in[q]) :
                   in' = [in EXCEPT ![p] = <<>>, ![q] = Take(@, n)]
    <3>1. PICK n \in 0 .. Len(in[q]) : in' = [in EXCEPT ![p] = <<>>, ![q] = Take(@, n)]
      BY <2>2
    <3>2. in' = [in EXCEPT ![p] = <<>>, ![q] = Take(in[q], n)]
      BY <1>1, <3>1 DEF TypeOK
    <3>3. Take(in[q], n) \in Seq(Nat)
      BY <1>3
    <3> QED BY <2>2, <3>2, <3>3
  <2> QED BY <2>1, <2>2 DEF Ends, q
<1>6. PICK c \in {"fin", "reset"}, s \in Seq(Nat) :
         /\ cut' = [cut EXCEPT ![q] = c]
         /\ in' = [in EXCEPT ![p] = <<>>, ![q] = s]
         /\ s = in[q] \o last \/ \E n \in 0 .. Len(in[q]) : s = Take(in[q], n)
  BY <1>5
<1>7. in'[p] = <<>> /\ in'[q] = s /\ cut'[q] = c /\ cut'[p] = cut[p] /\ c # "no"
  BY <1>1, <1>6 DEF TypeOK
<1>8. pc'[p] = how /\ pc'[q] = pc[q] /\ rbuf'[p] = <<>> /\ rbuf'[q] = rbuf[q]
  BY <1>1, <1>4 DEF TypeOK
<1>9. Ended2(p, q, how, last)
  BY <1>4, <1>6, <1>7, <1>8 DEF Ended2
<1>10. TypeOK'
  <2>1. pc' \in [Parties -> Messages \cup Ended \cup {"start", "vers"}]
    <3>1. how \in Messages \cup Ended \cup {"start", "vers"}
      BY DEF Gone, Ended
    <3> QED BY <1>4, <3>1 DEF TypeOK
  <2>2. in' \in [Parties -> Seq(Nat)] /\ rbuf' \in [Parties -> Seq(Nat)]
    <3> DEFINE S == Seq(Nat)
               e == <<>>
    <3>1. in \in [Parties -> S] /\ rbuf \in [Parties -> S] /\ s \in S /\ e \in S
      BY DEF TypeOK
    <3>2. in' = [in EXCEPT ![p] = e, ![q] = s] /\ rbuf' = [rbuf EXCEPT ![p] = e]
      BY <1>4, <1>6
    <3> HIDE DEF S, e
    <3>3. in' \in [Parties -> S] /\ rbuf' \in [Parties -> S]
      BY <1>1, <3>1, <3>2
    <3> QED BY <3>3 DEF S
  <2>3. should_read' \in [Parties -> BOOLEAN]
    BY <1>4 DEF TypeOK
  <2>4. cut' \in [Parties -> {"no", "fin", "reset"}]
    BY <1>1, <1>6 DEF TypeOK
  <2>5. conn' \in Conns /\ sent' \in [Parties -> 0 .. MaxData] /\ clock' \in 0 .. MaxClock
        /\ asked' \in Targets /\ target' \in Targets \cup {NoTarget}
    BY <1>4 DEF TypeOK
  <2> QED BY <2>1, <2>2, <2>3, <2>4, <2>5 DEF TypeOK
<1>11. CutRight' /\ SentRight'
  <2>1. pc[p] \notin Gone /\ pc[p] # "done" /\ how # "done"
    BY DEF Ended, Gone
  <2>2. \A x \in Parties : pc'[x] = IF x = p THEN how ELSE pc[x]
    BY <1>4 DEF TypeOK
  <2>3. \A x \in Parties : cut'[x] = IF x = q THEN c ELSE cut[x]
    BY <1>6 DEF TypeOK
  <2>4. \A x \in Parties : x \in {p, q}
    BY <1>1, Others
  <2>5. Other(p) = q /\ Other(q) = p
    BY Others DEF q
  <2>6. cut'[q] = "no" <=> pc'[Other(q)] \notin Gone
    BY <1>7, <2>2, <2>5, <1>1
  <2>7. cut'[p] = "no" <=> pc'[Other(p)] \notin Gone
    <3>1. cut[p] = "no" <=> pc[Other(p)] \notin Gone
      BY DEF CutRight
    <3> QED BY <1>7, <1>8, <2>5, <3>1
  <2>8. CutRight'
    BY <2>4, <2>6, <2>7 DEF CutRight, Gone
  <2>9. SentRight'
    BY <1>4, <2>1, <2>2 DEF SentRight
  <2> QED BY <2>8, <2>9
<1> QED BY <1>9, <1>10, <1>11 DEF q

-----------------------------------------------------------------------------
(* A party ends.                                                            *)

Phases == AskedRight /\ Protocol /\ Opening /\ Agreeing /\ Open /\ Over

(* A reset that cuts what begins a message leaves a beginning of it.        *)
LEMMA Shorter ==
  ASSUME NEW a \in Seq(Nat), NEW s \in Seq(Nat), NEW n \in 0 .. Len(s), NEW m \in Seq(Nat),
         Begins(a \o s, m)
  PROVE  Begins(a \o Take(s, n), m)
<1> DEFINE u == Take(s, n)
           w == Drop(s, n)
<1>1. u \in Seq(Nat) /\ w \in Seq(Nat)
  BY TakeProperties, DropProperties
<1>2. (a \o u) \o w = a \o s
  BY Moved
<1> HIDE DEF u, w
<1>3. a \o u \in Seq(Nat)
  BY <1>1, Joined
<1>4. Begins((a \o u) \o w, m)
  BY <1>2
<1>5. Begins(a \o u, m)
  BY <1>1, <1>3, <1>4, BeginsFront
<1> QED BY <1>5 DEF u

(* Two sequences that make nothing are nothing.                             *)
LEMMA BothEmpty ==
  ASSUME NEW a \in Seq(Nat), NEW s \in Seq(Nat), a \o s = <<>>
  PROVE  a = <<>> /\ s = <<>>
<1>1. Len(a \o s) = Len(a) + Len(s) /\ Len(a) \in Nat /\ Len(s) \in Nat
  BY Joined
<1>2. Len(a) = 0 /\ Len(s) = 0
  BY <1>1
<1> QED BY <1>2, EmptySeq

(* Nothing is a beginning of any message, and so is all of it.              *)
LEMMA NothingBegins ==
  ASSUME NEW m \in Seq(Nat)
  PROVE  Begins(<<>>, m) /\ Begins(m, m)
<1>1. Len(m) \in Nat
  BY LenProperties
<1> QED BY <1>1 DEF Begins, Agrees

(* What the other party ends with leaves a stream begun.                    *)
LEMMA EndedStream ==
  ASSUME TypeOK, NEW p \in Parties, NEW q \in Parties, NEW how, Ended2(q, p, how, <<>>),
         NEW m \in Seq(Nat), Begins(Unread(p), m)
  PROVE  Begins(Unread(p)', m)
<1>1. rbuf[p] \in Seq(Nat) /\ in[p] \in Seq(Nat) /\ in[p] \o <<>> = in[p]
  BY Streams, DropNone
<1>2. rbuf'[p] = rbuf[p] /\ (in'[p] = in[p] \/ \E n \in 0 .. Len(in[p]) : in'[p] = Take(in[p], n))
  BY <1>1 DEF Ended2
<1>3. Begins(rbuf[p] \o in[p], m)
  BY DEF Unread
<1>4. Unread(p)' = rbuf[p] \o in'[p]
  BY <1>2 DEF Unread
<1>5. CASE in'[p] = in[p]
  BY <1>3, <1>4, <1>5
<1>6. CASE \E n \in 0 .. Len(in[p]) : in'[p] = Take(in[p], n)
  <2>1. PICK n \in 0 .. Len(in[p]) : in'[p] = Take(in[p], n)
    BY <1>6
  <2>2. Begins(rbuf[p] \o Take(in[p], n), m)
    BY <1>1, <1>3, Shorter
  <2> QED BY <1>4, <2>1, <2>2
<1> QED BY <1>2, <1>5, <1>6

(* The server ends in any phase: its client is left with a beginning.       *)
LEMMA ServerEnds ==
  ASSUME IInv, PMax < 16, pc["server"] \notin Ended, NEW how \in Gone,
         NEW last, last = <<>> \/ (conn.proto = "vmess" /\ last = <<0, 0>>),
         Ended2("server", "client", how, last)
  PROVE  Phases'
<1>1. TypeOK /\ conn \in Conns /\ Sendable(asked) /\ AskedRight /\ Protocol /\ Opening /\ Agreeing
  BY DEF IInv, TypeOK, AskedRight
<1>2. /\ pc'["server"] = how /\ pc'["client"] = pc["client"]
      /\ conn' = conn /\ asked' = asked /\ rbuf'["client"] = rbuf["client"]
  BY DEF Ended2
<1>3. conn.proto \in {"socks4", "socks5", "vmess"}
  BY <1>1, ConnFields
<1>4. AskedRight'
  BY <1>1, <1>2 DEF AskedRight, Resolved4
<1>5. FirstWait' = FirstWait /\ LastWait' = LastWait /\ Leftover' = Leftover
  BY <1>2 DEF FirstWait, LastWait, Leftover
<1>6. Protocol'
  <2>1. how \in Ended /\ how # "request5"
    BY DEF Gone, Ended
  <2> QED BY <1>1, <1>2, <1>5, <2>1 DEF Protocol
<1>7. Opening' /\ Agreeing' /\ Open'
  <2>1. how \notin {"vers", "auth_sel", "request4", "vmess_request", "request5", "done"}
    BY DEF Gone
  <2> QED BY <1>2, <2>1 DEF Opening, Agreeing, Open
<1>8. \/ pc["server"] \in {"vers", "auth_sel", "request4", "vmess_request"}
      \/ pc["server"] = "request5"
  BY <1>1 DEF Protocol
<1>9. pc["client"] # "done"
  BY <1>1, <1>3, <1>8 DEF Opening, Agreeing, Gone, FirstWait
<1>10. /\ rbuf["client"] \in Seq(Nat) /\ in["client"] \in Seq(Nat) /\ Leftover \in Seq(Nat)
       /\ <<0, 0>> \in Seq(Nat) /\ <<>> \in Seq(Nat) /\ AuthAck(NoAuth) \in Seq(Nat)
  BY <1>1, Streams, Spoken, Others
<1>11. ASSUME Unread("client") = <<>> PROVE Unread("client")' \in {last, <<>>}
  <2>1. rbuf["client"] = <<>> /\ in["client"] = <<>>
    BY <1>10, <1>11, BothEmpty DEF Unread
  <2>2. last \in Seq(Nat)
    BY <1>10
  <2>3. <<>> \o last = last
    BY <2>2, DropNone
  <2>4. \A n \in 0 .. Len(<<>>) : Take(<<>>, n) = <<>>
    BY DEF Take
  <2>5. in'["client"] \in {last, <<>>}
    BY <2>1, <2>3, <2>4 DEF Ended2
  <2>6. <<>> \o in'["client"] = in'["client"]
    BY <2>3, <2>5, <1>10, DropNone
  <2> QED BY <1>2, <2>1, <2>5, <2>6 DEF Unread
<1>12. CASE pc["server"] \in {"vers", "auth_sel", "request4", "vmess_request"}
  <2>1. Unread("client")' \in {last, <<>>} /\ pc["client"] \in {"start", FirstWait} \cup Gone
    BY <1>1, <1>11, <1>12 DEF Opening
  <2>2. Begins(<<>>, Leftover) /\ Begins(<<0, 0>>, <<0, 0>>)
    BY <1>10, NothingBegins
  <2>3. conn.proto = "vmess" => pc["client"] # "auth_ack"
    BY <2>1 DEF FirstWait, Gone
  <2>4. conn.proto = "vmess" => Leftover = <<0, 0>>
    BY <2>3 DEF Leftover
  <2>5. Begins(Unread("client")', Leftover)
    BY <2>1, <2>2, <2>4
  <2> QED BY <1>2, <1>4, <1>5, <1>6, <1>7, <1>9, <2>5 DEF Phases, Over
<1>13. CASE pc["server"] = "request5"
  <2>1. conn.proto = "socks5" /\ last = <<>>
    BY <1>1, <1>13 DEF Protocol
  <2>2. CASE pc["client"] = "auth_ack"
    <3>1. Begins(Unread("client"), AuthAck(NoAuth)) /\ Leftover = AuthAck(NoAuth)
      BY <1>1, <1>13, <2>1, <2>2 DEF Agreeing, Leftover
    <3>2. Begins(Unread("client")', Leftover)
      BY <1>1, <1>10, <2>1, <3>1, EndedStream, Others
    <3> QED BY <1>2, <1>4, <1>5, <1>6, <1>7, <1>9, <3>2 DEF Phases, Over
  <2>3. CASE pc["client"] = "response5"
    <3>1. Unread("client") = <<>>
      BY <1>1, <1>13, <2>3 DEF Agreeing
    <3>2. Begins(Unread("client")', Leftover)
      BY <1>10, <1>11, <2>1, <3>1, NothingBegins
    <3> QED BY <1>2, <1>4, <1>5, <1>6, <1>7, <1>9, <3>2 DEF Phases, Over
  <2>4. CASE pc["client"] \in Gone
    BY <1>2, <1>4, <1>6, <1>7, <1>9, <2>4 DEF Phases, Over, Gone
  <2> QED BY <1>1, <1>13, <2>2, <2>3, <2>4 DEF Agreeing
<1> QED BY <1>8, <1>12, <1>13

(* The client ends, at a time when nothing is written behind its request.   *)
LEMMA ClientEnds ==
  ASSUME IInv, PMax < 16, pc["client"] \notin Ended, NEW how \in Gone,
         NEW last, last = <<>> \/ pc["server"] \in Gone \cup {"done"},
         Ended2("client", "server", how, last)
  PROVE  Phases'
<1>1. /\ TypeOK /\ conn \in Conns /\ Sendable(asked) /\ AskedRight /\ Protocol /\ CutRight
      /\ Opening /\ Agreeing /\ Open
  BY DEF IInv, TypeOK, AskedRight
<1>2. /\ pc'["client"] = how /\ pc'["server"] = pc["server"] /\ in'["client"] = <<>>
      /\ conn' = conn /\ asked' = asked /\ target' = target /\ rbuf'["client"] = <<>>
      /\ rbuf'["server"] = rbuf["server"]
  BY DEF Ended2
<1>3. how \in Ended /\ how \notin {"start", "done", "auth_ack", "response5", "response4",
                                   "vmess_response"}
  BY DEF Gone, Ended
<1>4. AskedRight'
  BY <1>1, <1>2, <1>3 DEF AskedRight, Resolved4
<1>5. FirstMessage' = FirstMessage /\ FirstWait' = FirstWait /\ LastWait' = LastWait
      /\ Request5(conn.cmd, asked)' = Request5(conn.cmd, asked)
  BY <1>2, SameMessages
<1>6. Protocol'
  BY <1>1, <1>2, <1>3 DEF Protocol
<1>7. conn.proto \in {"socks4", "socks5", "vmess"}
  BY <1>1, ConnFields
<1>8. Open' /\ Over'
  <2>1. LastWait' \in {"response5", "response4", "vmess_response"}
    BY <1>2, <1>7 DEF LastWait
  <2> QED BY <1>1, <1>2, <1>3, <2>1 DEF Open, Over
<1>9. FirstMessage \in Seq(Nat) /\ Request5(conn.cmd, asked) \in Seq(Nat)
  BY <1>1, Spoken
<1>10. Opening'
  <2> SUFFICES ASSUME pc["server"] \in {"vers", "auth_sel", "request4", "vmess_request"}
               PROVE  Opening'
    BY <1>2 DEF Opening
  <2>1. last = <<>>
    BY DEF Gone
  <2>2. ~Garbled
    <3>1. cut["server"] = "no"
      BY <1>1, Others DEF CutRight, Gone, Ended
    <3> QED BY <3>1 DEF Garbled
  <2>3. Understood
    BY <1>1, <2>2 DEF Opening
  <2>4. Begins(Unread("server")', FirstMessage)
    BY <1>1, <1>9, <2>1, <2>3, EndedStream, Others DEF Understood
  <2>5. Understood'
    BY <1>2, <1>3, <1>5, <2>3, <2>4 DEF Understood
  <2>6. Unread("client")' = <<>>
    <3>1. <<>> \o <<>> = <<>>
      OBVIOUS
    <3> QED BY <1>2, <3>1 DEF Unread
  <2> QED BY <1>2, <2>5, <2>6 DEF Opening
<1>11. Agreeing'
  <2> SUFFICES ASSUME pc["server"] = "request5" PROVE Agreeing'
    BY <1>2 DEF Agreeing
  <2>1. last = <<>> /\ Begins(Unread("server"), Request5(conn.cmd, asked))
    BY <1>1 DEF Agreeing, Gone
  <2>2. Begins(Unread("server")', Request5(conn.cmd, asked))
    BY <1>1, <1>9, <2>1, EndedStream, Others
  <2> QED BY <1>2, <1>3, <1>5, <2>2 DEF Agreeing
<1> QED BY <1>4, <1>6, <1>8, <1>10, <1>11 DEF Phases

-----------------------------------------------------------------------------
(* A client starts.                                                         *)

(* The first message is all that the server may read.                       *)
LEMMA ClientStarts ==
  ASSUME IInv, PMax < 16, pc["client"] = "start", Sendable(asked'),
         \/ asked' \in {conn.target, Handed(conn.target)}
         \/ conn.proto = "socks4" /\ asked' \in Resolved4 \ {NoTarget},
         target' = target, Moves("client", 0, FirstMessage', <<>>, FirstWait)
  PROVE  IInv'
<1>1. /\ TypeOK /\ conn \in Conns /\ AskedRight /\ Protocol /\ CutRight /\ SentRight
      /\ Opening /\ Agreeing /\ Open /\ Over
  BY DEF IInv, TypeOK
<1>2. conn.proto \in {"socks4", "socks5", "vmess"}
  BY <1>1, ConnFields
<1>3. /\ FirstWait \in Messages \cup {"done"} /\ FirstWait # "start" /\ LastWait # "start"
      /\ FirstWait \notin Ended
  BY <1>2 DEF FirstWait, LastWait, Messages, Ended
<1>4. conn' = conn /\ FirstWait' = FirstWait /\ LastWait' = LastWait
  <2>1. conn' = conn
    BY DEF Moves
  <2> QED BY <2>1 DEF FirstWait, LastWait
<1>5. FirstMessage' \in Seq(Nat)
  <2>1. PICK m : m = FirstMessage'
    OBVIOUS
  <2>2. (conn \in Conns)' /\ Sendable(asked)'
    BY <1>1, <1>4 DEF Conns, Sendable
  <2>3. (conn \in Conns /\ PMax < 16 /\ Sendable(asked) => FirstMessage \in Seq(Nat))'
    BY Spoken, PTL
  <2> QED BY <2>2, <2>3
<1> DEFINE first == FirstMessage
<1>6. PICK m \in Seq(Nat) : m = FirstMessage'
  BY <1>5
<1>7. /\ Moved2("client", "server", 0, m, <<>>, FirstWait)
      /\ TypeOK' /\ CutRight' /\ SentRight'
  <2>1. "client" \in Parties /\ Other("client") = "server" /\ pc["client"] \notin Ended
    BY Others DEF Ended
  <2>2. <<>> \in Seq(Nat)
    OBVIOUS
  <2>3. Drop(in["client"], 0) \in Seq(Nat)
    BY <1>1, <2>1, Streams, DropNone
  <2>4. asked' \in Targets /\ target' \in Targets \cup {NoTarget}
    BY <1>1 DEF Sendable, TypeOK
  <2>5. Moves("client", 0, m, <<>>, FirstWait)
    BY <1>6
  <2>6. TypeOK /\ CutRight /\ SentRight /\ FirstWait \in Messages \cup {"done"}
    BY <1>1, <1>3
  <2>7. /\ Moved2("client", Other("client"), 0, m, <<>>, FirstWait)
        /\ TypeOK' /\ CutRight' /\ SentRight'
    BY <2>1, <2>2, <2>3, <2>4, <2>5, <2>6, MovesKeep
  <2> QED BY <2>1, <2>7
<1>8. /\ pc'["client"] = FirstWait /\ pc'["server"] = pc["server"]
      /\ in'["client"] = in["client"] /\ in'["server"] = in["server"] \o m
      /\ rbuf'["client"] = <<>> /\ rbuf'["server"] = rbuf["server"]
  <2>1. in["client"] \in Seq(Nat)
    BY <1>1, Streams, Others
  <2> QED BY <1>7, <2>1, DropNone DEF Moved2
<1>9. /\ in["client"] \in Seq(Nat) /\ in["server"] \in Seq(Nat)
      /\ rbuf["server"] \in Seq(Nat) /\ rbuf["client"] = <<>>
  BY <1>1, Streams, Others DEF Protocol
<1>10. Unread("client")' = Unread("client") /\ Unread("client") = in["client"]
  BY <1>8, <1>9, DropNone DEF Unread
<1>11. AskedRight'
  BY <1>3, <1>4, <1>8 DEF AskedRight, Resolved4, Sendable
<1>12. Protocol'
  BY <1>1, <1>3, <1>4, <1>8 DEF Protocol
<1>13. Agreeing' /\ Open'
  <2>1. pc["server"] # "request5" /\ pc["server"] # "done"
    BY <1>1, <1>3 DEF Agreeing, Open, Gone
  <2> QED BY <1>8, <2>1 DEF Agreeing, Open
<1>14. Opening'
  <2> SUFFICES ASSUME pc["server"] \in {"vers", "auth_sel", "request4", "vmess_request"}
               PROVE  Opening'
    BY <1>8 DEF Opening
  <2>1. ~Garbled
    <3>1. cut["server"] = "no"
      BY <1>1, Others DEF CutRight, Gone
    <3> QED BY <3>1 DEF Garbled
  <2>2. Understood /\ Unread("client") = <<>>
    BY <1>1, <2>1 DEF Opening
  <2>3. rbuf["server"] = <<>> /\ in["server"] = <<>>
    <3>1. rbuf["server"] \o in["server"] = <<>>
      BY <2>2 DEF Understood, Unread
    <3> QED BY <1>9, <3>1, BothEmpty
  <2>4. Unread("server")' = m
    <3>1. <<>> \o m = m
      BY DropNone
    <3> QED BY <1>8, <2>3, <3>1 DEF Unread
  <2>5. Begins(Unread("server"), FirstMessage)'
    <3>1. Begins(m, m)
      BY NothingBegins
    <3> QED BY <1>6, <2>4, <3>1
  <2>6. Understood'
    BY <1>3, <1>4, <1>8, <2>2, <2>5 DEF Understood
  <2> QED BY <1>4, <1>8, <1>10, <2>2, <2>6 DEF Opening
<1>15. Over'
  <2> SUFFICES ASSUME pc["server"] \in Gone PROVE Over'
    BY <1>8 DEF Over
  <2>1. Begins(Unread("client"), Leftover)
    BY <1>1 DEF Over, Gone
  <2>2. CASE conn.proto = "vmess"
    <3>1. Leftover' = Leftover
      BY <1>4, <1>8, <2>2 DEF Leftover, FirstWait
    <3> QED BY <1>3, <1>8, <1>10, <2>1, <3>1 DEF Over, Ended
  <2>3. CASE conn.proto # "vmess"
    <3>1. Leftover = <<>>
      BY <2>3 DEF Leftover
    <3>2. in["client"] = <<>>
      <4>1. Len(in["client"]) <= Len(<<>>) /\ Len(<<>>) = 0 /\ Len(in["client"]) \in Nat
        BY <1>9, <1>10, <2>1, <3>1, LenProperties DEF Begins
      <4> QED BY <1>9, <4>1, EmptySeq
    <3>3. Leftover' \in {AuthAck(NoAuth), <<>>}
      BY <1>4, <2>3 DEF Leftover
    <3>4. AuthAck(NoAuth) \in Seq(Nat) /\ <<>> \in Seq(Nat)
      BY ReadAuthAck
    <3>5. Begins(<<>>, AuthAck(NoAuth)) /\ Begins(<<>>, <<>>)
      BY <3>4, NothingBegins
    <3>6. Begins(Unread("client"), Leftover)'
      BY <1>10, <3>2, <3>3, <3>5
    <3> QED BY <1>3, <1>8, <3>6 DEF Over, Ended
  <2> QED BY <2>2, <2>3
<1> QED BY <1>7, <1>11, <1>12, <1>13, <1>14, <1>15 DEF IInv

(* So for each of the protocols.                                            *)
LEMMA StartsKeep ==
  ASSUME IInv, PMax < 16, Starts
  PROVE  IInv'
<1>1. TypeOK /\ conn \in Conns /\ CutRight /\ SentRight
  BY DEF IInv, TypeOK
<1>2. /\ Sendable(conn.target) /\ Sendable(Handed(conn.target))
      /\ \A t \in Resolved4 \ {NoTarget} : Sendable(t) /\ t.type = Ipv4
  BY <1>1, Asking
<1>3. ASSUME StartSocks5 PROVE IInv'
  <2>1. /\ conn.proto = "socks5" /\ pc["client"] = "start" /\ conn' = conn /\ target' = target
        /\ asked' \in {conn.target, Handed(conn.target)}
        /\ Moves("client", 0, AuthSel(conn.methods), <<>>, "auth_ack")
    BY <1>3 DEF StartSocks5, Asks, Moves
  <2>2. FirstMessage' = AuthSel(conn.methods) /\ FirstWait = "auth_ack"
    BY <2>1 DEF FirstMessage, FirstWait
  <2>3. Moves("client", 0, FirstMessage', <<>>, FirstWait) /\ Sendable(asked')
    BY <1>2, <2>1, <2>2
  <2> QED BY <2>1, <2>3, ClientStarts
<1>4. ASSUME StartVmess PROVE IInv'
  <2>1. /\ conn.proto = "vmess" /\ pc["client"] = "start" /\ conn' = conn /\ target' = target
        /\ asked' \in {conn.target, Handed(conn.target)}
        /\ Moves("client", 0, VmessRequest(Head(conn.user), conn.gen, asked', conn.pad),
                 <<>>, "vmess_response")
    BY <1>4 DEF StartVmess, Asks, Moves
  <2>2. /\ FirstMessage' = VmessRequest(Head(conn.user), conn.gen, asked', conn.pad)
        /\ FirstWait = "vmess_response"
    BY <2>1 DEF FirstMessage, FirstWait
  <2>3. Moves("client", 0, FirstMessage', <<>>, FirstWait) /\ Sendable(asked')
    BY <1>2, <2>1, <2>2
  <2> QED BY <2>1, <2>3, ClientStarts
<1>5. ASSUME conn.proto = "socks4", pc["client"] = "start",
             NEW t \in Resolved4 \ {NoTarget}, Request4To(t)
      PROVE  IInv'
  <2>1. /\ conn' = conn /\ target' = target /\ asked' = t
        /\ Moves("client", 0, Request4(conn.cmd, t, conn.user), <<>>, "response4")
    BY <1>5 DEF Request4To, Moves
  <2>2. Sendable(t) /\ t.type = Ipv4
    BY <1>2
  <2>3. FirstMessage' = Request4(conn.cmd, t, conn.user) /\ FirstWait = "response4"
    BY <1>5, <2>1, <2>2 DEF FirstMessage, FirstWait
  <2>4. Moves("client", 0, FirstMessage', <<>>, FirstWait) /\ Sendable(asked')
    BY <2>1, <2>2, <2>3
  <2>5. asked' \in Resolved4 \ {NoTarget}
    BY <2>1
  <2> QED BY <1>5, <2>1, <2>4, <2>5, ClientStarts
<1>6. ASSUME conn.proto = "socks4", pc["client"] = "start", Fail("client") PROVE IInv'
  <2>1. Ends("client", "failed", <<>>) /\ "client" \in Parties /\ "failed" \in Gone
        /\ pc["client"] \notin Ended /\ <<>> \in Seq(Nat) /\ Other("client") = "server"
    BY <1>6, Others DEF Fail, Gone, Ended
  <2>2. Ended2("client", "server", "failed", <<>>) /\ TypeOK' /\ CutRight' /\ SentRight'
    BY <1>1, <2>1, EndsKeep
  <2>3. Phases'
    BY <2>1, <2>2, ClientEnds
  <2> QED BY <2>2, <2>3 DEF Phases, IInv
<1>7. ASSUME StartSocks4 PROVE IInv'
  BY <1>5, <1>6, <1>7 DEF StartSocks4
<1> QED BY <1>3, <1>4, <1>7 DEF Starts

-----------------------------------------------------------------------------
(* The reason for a failure is not where TCP cut a message, nor what it      *)
(* contains.                                                                *)
Justified(p) == cut[p] # "no" \/ ~Acceptable

(* A party that goes on does not fail.                                      *)
LEMMA Moved1 ==
  ASSUME TypeOK, NEW p \in Parties, NEW n, NEW reply, NEW rest, NEW next, next # "failed",
         Moves(p, n, reply, rest, next)
  PROVE  pc'[p] # "failed"
BY DEF Moves, Goes, TypeOK

-----------------------------------------------------------------------------
(* The server reads the version.                                            *)

(* A sequence and its first element.                                        *)
LEMMA FirstByte ==
  ASSUME NEW s \in Seq(Nat), s # <<>>
  PROVE  /\ Head(s) = s[1] /\ s[1] \in Nat /\ Len(s) >= 1 /\ Len(s) \in Nat
         /\ Drop(s, 1) \in Seq(Nat) /\ <<s[1]>> \in Seq(Nat) /\ <<s[1]>> \o Drop(s, 1) = s
<1>1. Len(s) \in Nat /\ Len(s) # 0
  BY LenProperties, EmptySeq
<1>2. 1 \in 0 .. Len(s) /\ 1 \in 1 .. Len(s)
  BY <1>1
<1>3. s[1] \in Nat
  BY <1>2, ElementOfSeq
<1>4. Drop(s, 1) \in Seq(Nat)
  BY <1>2, DropProperties
<1>5. Take(s, 1) \in Seq(Nat) /\ Len(Take(s, 1)) = 1 /\ \A i \in 1 .. 1 : Take(s, 1)[i] = s[i]
  BY <1>2, TakeProperties
<1>6. <<s[1]>> \in Seq(Nat) /\ Len(<<s[1]>>) = 1 /\ <<s[1]>>[1] = s[1]
  BY <1>3
<1>7. Take(s, 1) = <<s[1]>>
  <2>1. \A i \in 1 .. 1 : Take(s, 1)[i] = <<s[1]>>[i]
    BY <1>5, <1>6
  <2> QED BY <1>5, <1>6, <2>1, SeqEqual
<1>8. <<s[1]>> \o Drop(s, 1) = s
  <2>1. Take(s, 1) \o Drop(s, 1) = s
    BY <1>2, TakeThenDrop
  <2> QED BY <1>7, <2>1
<1> QED BY <1>1, <1>3, <1>4, <1>6, <1>8

(* What comes first tells the protocol.                                     *)
LEMMA FirstTells ==
  ASSUME TypeOK, AskedRight, PMax < 16, NEW s \in Seq(Nat), s # <<>>, Begins(s, FirstMessage),
         conn.proto # "vmess"
  PROVE  /\ conn.proto = "socks5" => s[1] = 5
         /\ conn.proto = "socks4" => s[1] = 4
         /\ conn.proto \in {"socks4", "socks5"}
<1>1. conn \in Conns /\ Sendable(asked)
  BY DEF TypeOK, AskedRight
<1>2. /\ conn.proto \in {"socks4", "socks5"} /\ conn.cmd \in Nat /\ conn.methods \in Seq(Nat)
      /\ conn.proto = "socks4" => conn.user \in Users4
  BY <1>1, ConnFields
<1>3. Len(s) \in Nat /\ Len(s) >= 1 /\ FirstMessage \in Seq(Nat)
  BY <1>1, FirstByte, Spoken
<1>4. s[1] = FirstMessage[1] /\ FirstMessage # <<>>
  <2>1. Len(FirstMessage) \in Nat /\ Len(FirstMessage) >= 1
    BY <1>3, LenProperties DEF Begins
  <2>2. 1 \in 1 .. Len(s)
    BY <1>3
  <2> QED BY <2>1, <2>2 DEF Begins, Agrees
<1>5. CASE conn.proto = "socks5"
  <2>1. FirstMessage = AuthSel(conn.methods)
    BY <1>5 DEF FirstMessage
  <2> QED BY <1>2, <1>4, <1>5, <2>1, AuthSelLayout
<1>6. CASE conn.proto = "socks4"
  <2>1. asked.type = Ipv4 /\ FirstMessage = Request4(conn.cmd, asked, conn.user)
    BY <1>4, <1>6 DEF FirstMessage
  <2>2. Request4(conn.cmd, asked, conn.user)[1] = 4
    <3>1. conn.cmd \in Nat /\ Sendable(asked) /\ asked.type = Ipv4 /\ conn.user \in Users4
      BY <1>1, <1>2, <1>6, <2>1
    <3>2. Request4Fields(Request4(conn.cmd, asked, conn.user), conn.cmd, asked, conn.user)
      BY <3>1, Request4Layout
    <3> QED BY <3>2 DEF Request4Fields
  <2> QED BY <1>4, <1>6, <2>1, <2>2
<1> QED BY <1>2, <1>5, <1>6

(* The version goes into the rbuffer, in front of what follows it.          *)
LEMMA VersionTaken ==
  ASSUME IInv, PMax < 16, pc["server"] = "vers", NEW v \in Nat,
         NEW next \in {"auth_sel", "request4"}, MovesOn("server", 1, <<>>, <<v>>, next),
         \/ /\ in["server"] # <<>> /\ v = Head(in["server"])
            /\ next = "auth_sel" => conn.proto = "socks5"
            /\ next = "request4" => conn.proto = "socks4"
         \/ in["server"] = <<>> /\ cut["server"] = "reset"
  PROVE  IInv'
<1>1. /\ TypeOK /\ conn \in Conns /\ AskedRight /\ Protocol /\ CutRight /\ SentRight /\ Opening
  BY DEF IInv, TypeOK
<1>2. /\ in["server"] \in Seq(Nat) /\ in["client"] \in Seq(Nat) /\ rbuf["client"] \in Seq(Nat)
      /\ <<>> \in Seq(Nat) /\ <<v>> \in Seq(Nat)
      /\ "server" \in Parties /\ Other("server") = "client"
  BY <1>1, Streams, Others
<1>3. Unread("client") = <<>> /\ (Understood \/ Garbled)
      /\ pc["client"] \in {"start", FirstWait} \cup Gone
  BY <1>1 DEF Opening
<1>4. Understood
  BY <1>3 DEF Garbled
<1>5. Drop(in["server"], 1) \in Seq(Nat) /\ (in["server"] = <<>> => Drop(in["server"], 1) = <<>>)
  <2>1. CASE in["server"] = <<>>
    <3>1. Drop(<<>>, 1) = <<>>
      BY DEF Drop
    <3> QED BY <1>2, <2>1, <3>1
  <2>2. CASE in["server"] # <<>>
    BY <1>2, <2>2, FirstByte
  <2> QED BY <2>1, <2>2
<1>6. /\ Moved2("server", "client", 1, <<>>, <<v>>, next)
      /\ TypeOK' /\ CutRight' /\ SentRight'
  <2>1. Moves("server", 1, <<>>, <<v>>, next) /\ asked' = asked /\ target' = target
    BY DEF MovesOn
  <2>2. next \in Messages \cup {"done"} /\ pc["server"] \notin Ended
    BY DEF Messages, Ended
  <2>3. asked' \in Targets /\ target' \in Targets \cup {NoTarget}
    BY <1>1, <2>1 DEF TypeOK
  <2>4. TypeOK /\ CutRight /\ SentRight
    BY <1>1
  <2>5. /\ Moved2("server", Other("server"), 1, <<>>, <<v>>, next)
        /\ TypeOK' /\ CutRight' /\ SentRight'
    BY <1>2, <1>5, <2>1, <2>2, <2>3, <2>4, MovesKeep
  <2> QED BY <1>2, <2>5
<1>7. /\ pc'["server"] = next /\ pc'["client"] = pc["client"] /\ conn' = conn /\ cut' = cut
      /\ in'["server"] = Drop(in["server"], 1) /\ in'["client"] = in["client"]
      /\ rbuf'["server"] = <<v>> /\ rbuf'["client"] = rbuf["client"]
      /\ asked' = asked /\ target' = target
  <2>1. in["client"] \o <<>> = in["client"]
    BY <1>2, DropNone
  <2> QED BY <1>6, <2>1 DEF Moved2, MovesOn
<1>8. /\ FirstMessage' = FirstMessage /\ FirstWait' = FirstWait /\ LastWait' = LastWait
  BY <1>7, SameMessages
<1>9. AskedRight'
  BY <1>1, <1>7 DEF AskedRight, Resolved4
<1>10. Protocol'
  <2>1. conn.proto # "vmess"
    BY <1>1 DEF Protocol, Ended
  <2> QED BY <1>1, <1>7, <1>8, <2>1 DEF Protocol
<1>11. Agreeing' /\ Open' /\ Over'
  BY <1>7 DEF Agreeing, Open, Over, Gone
<1>12. CASE in["server"] # <<>> /\ v = Head(in["server"])
            /\ (next = "auth_sel" => conn.proto = "socks5")
            /\ (next = "request4" => conn.proto = "socks4")
  <2>1. Unread("server")' = in["server"]
    <3>1. Head(in["server"]) = in["server"][1]
          /\ <<in["server"][1]>> \o Drop(in["server"], 1) = in["server"]
      BY <1>2, <1>12, FirstByte
    <3>2. <<v>> \o Drop(in["server"], 1) = in["server"]
      BY <1>12, <3>1
    <3> QED BY <1>7, <3>2 DEF Unread
  <2>2. Unread("server") = in["server"]
    BY <1>2, <1>4, DropNone DEF Unread, Understood
  <2>3. pc["client"] # "start"
    BY <1>4, <1>12, <2>2 DEF Understood
  <2>4. Understood'
    BY <1>4, <1>7, <1>8, <1>12, <2>1, <2>2, <2>3 DEF Understood
  <2>5. Opening'
    BY <1>3, <1>7, <1>8, <2>4 DEF Opening, Unread
  <2> QED BY <1>6, <1>9, <1>10, <1>11, <2>5 DEF IInv
<1>13. CASE in["server"] = <<>> /\ cut["server"] = "reset"
  <2>1. Garbled'
    <3>1. Len(<<v>>) = 1
      OBVIOUS
    <3> QED BY <1>5, <1>7, <1>13, <3>1 DEF Garbled
  <2>2. Opening'
    BY <1>3, <1>7, <1>8, <2>1 DEF Opening, Unread
  <2> QED BY <1>6, <1>9, <1>10, <1>11, <2>2 DEF IInv
<1> QED BY <1>12, <1>13

(* A server that fails, whatever the reason.                                *)
LEMMA ServerFails ==
  ASSUME IInv, PMax < 16, pc["server"] \notin Ended, Fail("server")
  PROVE  IInv'
<1> DEFINE last == IF conn.proto = "vmess" THEN <<0, 0>> ELSE <<>>
<1>1. TypeOK /\ CutRight /\ SentRight
  BY DEF IInv
<1>2. Ends("server", "failed", last) /\ "server" \in Parties /\ "failed" \in Gone
      /\ last \in Seq(Nat) /\ Other("server") = "client"
  BY Others DEF Fail, Gone
<1>3. last = <<>> \/ (conn.proto = "vmess" /\ last = <<0, 0>>)
  <2>1. CASE conn.proto = "vmess"
    BY <2>1
  <2>2. CASE ~(conn.proto = "vmess")
    <3>1. last = <<>>
      BY <2>2
    <3> QED BY <3>1
  <2> QED BY <2>1, <2>2
<1> HIDE DEF last
<1>4. Ended2("server", "client", "failed", last) /\ TypeOK' /\ CutRight' /\ SentRight'
  BY <1>1, <1>2, EndsKeep
<1>5. Phases'
  BY <1>2, <1>3, <1>4, ServerEnds
<1> QED BY <1>4, <1>5 DEF Phases, IInv

(* A client that fails before its VMess server does not.                    *)
LEMMA ClientFails ==
  ASSUME IInv, PMax < 16, pc["client"] \notin Ended, Fail("client"),
         conn.proto = "vmess" => pc["server"] \in Gone \cup {"done"}
  PROVE  IInv'
<1> DEFINE last == IF conn.proto = "vmess" THEN <<0, 0>> ELSE <<>>
<1>1. TypeOK /\ CutRight /\ SentRight
  BY DEF IInv
<1>2. Ends("client", "failed", last) /\ "client" \in Parties /\ "failed" \in Gone
      /\ last \in Seq(Nat) /\ Other("client") = "server"
  BY Others DEF Fail, Gone
<1>3. last = <<>> \/ pc["server"] \in Gone \cup {"done"}
  OBVIOUS
<1> HIDE DEF last
<1>4. Ended2("client", "server", "failed", last) /\ TypeOK' /\ CutRight' /\ SentRight'
  BY <1>1, <1>2, EndsKeep
<1>5. Phases'
  BY <1>2, <1>3, <1>4, ClientEnds
<1> QED BY <1>4, <1>5 DEF Phases, IInv

(* The server reads a version it knows, unless the stream is cut.           *)
LEMMA ReadVersionKeeps ==
  ASSUME IInv, PMax < 16, ReadVersion
  PROVE  IInv' /\ (pc'["server"] = "failed" => Justified("server"))
<1>1. pc["server"] = "vers" /\ pc["server"] \notin Ended
  BY DEF ReadVersion, Ended
<1>2. /\ TypeOK /\ AskedRight /\ Protocol /\ Opening
      /\ in["server"] \in Seq(Nat) /\ conn.proto # "vmess"
  <2>1. TypeOK /\ AskedRight /\ Protocol /\ Opening
    BY DEF IInv
  <2>2. "server" \in Parties
    BY Others
  <2>3. conn.proto # "vmess"
    BY <1>1, <2>1 DEF Protocol, Ended
  <2> QED BY <2>1, <2>2, <2>3, Streams
<1>3. Begins(in["server"], FirstMessage)
  <2>1. Understood
    BY <1>1, <1>2 DEF Opening, Garbled
  <2>2. Unread("server") = in["server"]
    BY <1>1, <1>2, <2>1, DropNone DEF Understood, Unread
  <2> QED BY <2>1, <2>2 DEF Understood
<1>0. ASSUME NEW v, NEW next \in {"auth_sel", "request4"},
             MovesOn("server", 1, <<>>, <<v>>, next)
      PROVE  pc'["server"] # "failed"
  <2>1. "server" \in Parties /\ next # "failed"
    BY Others
  <2> QED BY <1>0, <1>2, <2>1, Moved1 DEF MovesOn
<1>4. ASSUME in["server"] # <<>>, Version(Head(in["server"]))
      PROVE  IInv' /\ pc'["server"] # "failed"
  <2> DEFINE v == Head(in["server"])
  <2>1. /\ conn.proto = "socks5" => v = 5
        /\ conn.proto = "socks4" => v = 4
        /\ conn.proto \in {"socks4", "socks5"} /\ v \in Nat
    BY <1>2, <1>3, <1>4, FirstTells, FirstByte
  <2> HIDE DEF v
  <2>2. CASE conn.proto = "socks5"
    <3>1. v = 5 /\ Version(v)
      BY <1>4, <2>1, <2>2 DEF v
    <3>2. MovesOn("server", 1, <<>>, <<v>>, "auth_sel")
      BY <3>1 DEF Version
    <3> QED BY <1>0, <1>1, <1>4, <2>1, <2>2, <3>2, VersionTaken DEF v
  <2>3. CASE conn.proto = "socks4"
    <3>1. v = 4 /\ Version(v)
      BY <1>4, <2>1, <2>3 DEF v
    <3>2. MovesOn("server", 1, <<>>, <<v>>, "request4")
      BY <3>1 DEF Version
    <3> QED BY <1>0, <1>1, <1>4, <2>1, <2>3, <3>2, VersionTaken DEF v
  <2> QED BY <2>1, <2>2, <2>3
<1>5. ASSUME Fail("server") PROVE IInv'
  BY <1>1, <1>5, ServerFails
<1>6. ASSUME in["server"] = <<>>, cut["server"] = "reset", NEW v \in {0, 4, 5}, Version(v)
      PROVE  IInv'
  <2>1. CASE v = 5
    <3>1. MovesOn("server", 1, <<>>, <<v>>, "auth_sel") /\ v \in Nat
      BY <1>6, <2>1 DEF Version
    <3> QED BY <1>1, <1>6, <3>1, VersionTaken
  <2>2. CASE v = 4
    <3>1. MovesOn("server", 1, <<>>, <<v>>, "request4") /\ v \in Nat
      BY <1>6, <2>2 DEF Version
    <3> QED BY <1>1, <1>6, <3>1, VersionTaken
  <2>3. CASE v = 0
    <3>1. Fail("server")
      BY <1>6, <2>3 DEF Version
    <3> QED BY <1>5, <3>1
  <2> QED BY <2>1, <2>2, <2>3
<1> QED BY <1>4, <1>5, <1>6 DEF ReadVersion, Justified

-----------------------------------------------------------------------------
(* Time passes, and a party that is done sends data.                        *)

(* Time is in no part of the invariant but the types.                       *)
LEMMA Passes ==
  ASSUME IInv, clock' \in 0 .. MaxClock,
         UNCHANGED <<conn, asked, pc, rbuf, should_read, in, cut, target, sent>>
  PROVE  IInv'
<1>1. /\ conn' = conn /\ asked' = asked /\ pc' = pc /\ rbuf' = rbuf /\ should_read' = should_read
      /\ in' = in /\ cut' = cut /\ target' = target /\ sent' = sent
  OBVIOUS
<1>2. clock' \in 0 .. MaxClock
  OBVIOUS
<1>3. TypeOK'
  <2>1. TypeOK
    BY DEF IInv
  <2> QED BY <1>1, <1>2, <2>1 DEF TypeOK
<1>4. /\ FirstMessage' = FirstMessage /\ Answer' = Answer
      /\ FirstWait' = FirstWait /\ LastWait' = LastWait
      /\ Request5(conn.cmd, asked)' = Request5(conn.cmd, asked)
  BY <1>1, SameMessages
<1>5. /\ Leftover' = Leftover /\ Data("client")' = Data("client") /\ Data("server")' = Data("server")
      /\ Unread("client")' = Unread("client") /\ Unread("server")' = Unread("server")
  BY <1>1 DEF Leftover, Data, Unread
<1>6. AskedRight' /\ CutRight' /\ SentRight'
  BY <1>1 DEF IInv, AskedRight, Resolved4, CutRight, SentRight
<1>7. Protocol'
  BY <1>1, <1>4 DEF IInv, Protocol
<1>8. Opening'
  <2>1. Understood' = Understood /\ Garbled' = Garbled
    BY <1>1, <1>4, <1>5 DEF Understood, Garbled
  <2> QED BY <1>1, <1>4, <1>5, <2>1 DEF IInv, Opening
<1>9. Agreeing'
  BY <1>1, <1>4, <1>5 DEF IInv, Agreeing
<1>10. Open' /\ Over'
  BY <1>1, <1>4, <1>5 DEF IInv, Open, Over
<1> QED BY <1>3, <1>6, <1>7, <1>8, <1>9, <1>10 DEF IInv

(* Data are numbers, and those that are sent are at the end.                *)
LEMMA DataSent ==
  ASSUME TypeOK, NEW p \in Parties
  PROVE  /\ Data(p) \in Seq(Nat) /\ Byte(p, sent[p] + 1) \in Nat
         /\ sent[p] = 0 => Data(p) = <<>>
         /\ sent'[p] = sent[p] + 1 => Data(p)' = Append(Data(p), Byte(p, sent[p] + 1))
<1> DEFINE n == sent[p]
           e(i) == Byte(p, i)
<1>1. n \in Nat
  BY BoundsNat DEF TypeOK
<1>2. \A i \in Nat : e(i) \in Nat
  BY DEF Byte
<1> HIDE DEF e
<1>3. \A k \in Nat : /\ [i \in 1 .. k |-> e(i)] \in Seq(Nat)
                     /\ Len([i \in 1 .. k |-> e(i)]) = k
                     /\ \A j \in 1 .. k : [i \in 1 .. k |-> e(i)][j] = e(j)
  BY <1>2, IsASeq
<1>4. Data(p) = [i \in 1 .. n |-> e(i)]
  BY DEF Data, e
<1>5. n = 0 => Data(p) = <<>>
  <2>1. n = 0 => Len(Data(p)) = 0 /\ Data(p) \in Seq(Nat)
    BY <1>1, <1>3, <1>4
  <2> QED BY <2>1, EmptySeq
<1>6. ASSUME sent'[p] = n + 1 PROVE Data(p)' = Append(Data(p), e(n + 1))
  <2> DEFINE d == Data(p)
             g == [i \in 1 .. n + 1 |-> e(i)]
  <2>1. Data(p)' = g
    BY <1>6 DEF Data, e
  <2>2. g \in Seq(Nat) /\ Len(g) = n + 1 /\ \A j \in 1 .. n + 1 : g[j] = e(j)
    BY <1>1, <1>3
  <2>3. d \in Seq(Nat) /\ Len(d) = n /\ \A j \in 1 .. n : d[j] = e(j)
    BY <1>1, <1>3, <1>4
  <2>4. e(n + 1) \in Nat
    BY <1>1, <1>2
  <2> HIDE DEF d, g, n
  <2>5. /\ Append(d, e(n + 1)) \in Seq(Nat) /\ Len(Append(d, e(n + 1))) = Len(d) + 1
        /\ \A i \in 1 .. Len(d) : Append(d, e(n + 1))[i] = d[i]
        /\ Append(d, e(n + 1))[Len(d) + 1] = e(n + 1)
    BY <2>3, <2>4, AppendProperties
  <2>6. \A i \in 1 .. n + 1 : Append(d, e(n + 1))[i] = g[i]
    <3>1. \A i \in 1 .. n + 1 : i \in 1 .. n \/ i = n + 1
      BY <1>1
    <3> QED BY <2>2, <2>3, <2>5, <3>1
  <2>7. g = Append(d, e(n + 1))
    BY <2>2, <2>3, <2>5, <2>6, SeqEqual
  <2> QED BY <2>1, <2>7 DEF d
<1>7. Data(p) \in Seq(Nat)
  BY <1>1, <1>3, <1>4
<1>8. e(n + 1) \in Nat
  BY <1>1, <1>2
<1> QED BY <1>5, <1>6, <1>7, <1>8 DEF e

(* An element behind two sequences is behind the second.                    *)
LEMMA AppendJoined ==
  ASSUME NEW s \in Seq(Nat), NEW t \in Seq(Nat), NEW e \in Nat
  PROVE  s \o Append(t, e) = Append(s \o t, e)
<1>1. <<e>> \in Seq(Nat) /\ s \o t \in Seq(Nat)
  BY Joined
<1>2. Append(t, e) = t \o <<e>> /\ Append(s \o t, e) = (s \o t) \o <<e>>
  BY <1>1, AppendIsConcat
<1>3. (s \o t) \o <<e>> = s \o (t \o <<e>>)
  BY <1>1, Associative
<1> QED BY <1>2, <1>3

(* Data are sent behind everything that was sent before.                    *)
LEMMA SendKeeps ==
  ASSUME IInv, PMax < 16, NEW p \in Parties, SendData(p)
  PROVE  IInv'
<1> DEFINE q == Other(p)
           e == Byte(p, sent[p] + 1)
<1>1. /\ TypeOK /\ conn \in Conns /\ AskedRight /\ Protocol /\ CutRight /\ SentRight
      /\ Opening /\ Agreeing /\ Open /\ Over /\ Sendable(asked)
  BY DEF IInv, TypeOK, AskedRight
<1>2. q \in Parties /\ q # p
  BY Others
<1>3. /\ in[q] \in Seq(Nat) /\ rbuf[q] \in Seq(Nat) /\ e \in Nat /\ Data(p) \in Seq(Nat)
  BY <1>1, <1>2, Streams, DataSent
<1> HIDE DEF e, q
<1>4. /\ conn' = conn /\ asked' = asked /\ pc' = pc /\ rbuf' = rbuf /\ should_read' = should_read
      /\ cut' = cut /\ target' = target /\ clock' = clock
      /\ sent' = [sent EXCEPT ![p] = sent[p] + 1]
      /\ in' = [in EXCEPT ![q] = Append(in[q], e)]
      /\ pc[p] = "done" /\ cut[p] = "no" /\ sent[p] < MaxData
  BY <1>1, <1>2 DEF SendData, TypeOK, e, q
<1>5. sent'[p] = sent[p] + 1 /\ sent'[q] = sent[q] /\ in'[q] = Append(in[q], e) /\ in'[p] = in[p]
  BY <1>1, <1>2, <1>4 DEF TypeOK
<1>6. Data(p)' = Append(Data(p), e) /\ Data(q)' = Data(q)
  <2>1. Data(p)' = Append(Data(p), e)
    BY <1>1, <1>5, DataSent DEF e
  <2>2. Data(q)' = Data(q)
    BY <1>5 DEF Data
  <2> QED BY <2>1, <2>2
<1>7. Unread(p)' = Unread(p) /\ Unread(q)' = Append(Unread(q), e)
  <2>1. rbuf[q] \o Append(in[q], e) = Append(rbuf[q] \o in[q], e)
    BY <1>3, AppendJoined
  <2> QED BY <1>4, <1>5, <2>1 DEF Unread
<1>8. TypeOK'
  <2> DEFINE S == Seq(Nat)
             a == Append(in[q], e)
  <2>1. a \in S /\ in \in [Parties -> S] /\ in' = [in EXCEPT ![q] = a]
    BY <1>1, <1>3, <1>4, AppendProperties DEF TypeOK
  <2> HIDE DEF S, a
  <2>2. in' \in [Parties -> S]
    BY <1>2, <2>1
  <2>3. sent[p] + 1 \in 0 .. MaxData
    BY <1>1, <1>4, BoundsNat DEF TypeOK
  <2>4. sent' \in [Parties -> 0 .. MaxData]
    BY <1>1, <1>4, <2>3 DEF TypeOK
  <2> QED BY <1>1, <1>4, <2>2, <2>4 DEF TypeOK, S
<1>9. /\ FirstMessage' = FirstMessage /\ Answer' = Answer
      /\ FirstWait' = FirstWait /\ LastWait' = LastWait
      /\ Request5(conn.cmd, asked)' = Request5(conn.cmd, asked)
  BY <1>4, SameMessages
<1>10. AskedRight' /\ CutRight' /\ SentRight'
  <2>1. \A x \in Parties : x = p \/ x = q
    BY <1>2, Others
  <2>2. SentRight'
    BY <1>1, <1>4, <1>5, <2>1 DEF SentRight
  <2> QED BY <1>1, <1>4, <2>2 DEF AskedRight, Resolved4, CutRight
<1>11. Protocol'
  BY <1>1, <1>4, <1>9 DEF Protocol
<1>12. pc[q] \notin Gone /\ pc["server"] = "done"
  <2>1. pc[q] \notin Gone
    BY <1>1, <1>4 DEF CutRight, q
  <2>2. CASE p = "server"
    BY <1>4, <2>1, <2>2
  <2>3. CASE p = "client"
    <3>1. pc["client"] = "done" /\ q = "server"
      BY <1>4, <2>3, Others DEF q
    <3>2. conn.proto \in {"socks4", "socks5", "vmess"}
      BY <1>1, ConnFields
    <3>3. pc["server"] \notin {"vers", "auth_sel", "request4", "vmess_request"}
      BY <1>1, <3>1, <3>2 DEF Opening, FirstWait, Gone
    <3>4. pc["server"] # "request5"
      BY <1>1, <3>1 DEF Agreeing, Gone
    <3> QED BY <1>1, <2>1, <3>1, <3>3, <3>4 DEF Protocol, Ended, Gone
  <2> QED BY <2>1, <2>2, <2>3, Others
<1>13. Opening' /\ Agreeing' /\ Over'
  BY <1>4, <1>12 DEF Opening, Agreeing, Over, Gone
<1>14. Open'
  <2>1. CASE p = "server"
    <3>1. q = "client" /\ Data("client")' = Data("client") /\ Unread("server")' = Unread("server")
          /\ Data("server")' = Append(Data("server"), e)
          /\ Unread("client")' = Append(Unread("client"), e)
      BY <1>6, <1>7, <2>1, Others DEF q
    <3>2. pc["client"] = LastWait => Unread("client")' = Answer \o Data("server")'
      <4>1. Answer \in Seq(Nat) /\ Data("server") \in Seq(Nat)
        BY <1>1, <1>3, <2>1, Spoken
      <4>2. Answer \o Append(Data("server"), e) = Append(Answer \o Data("server"), e)
        BY <1>3, <4>1, AppendJoined
      <4> QED BY <1>1, <1>12, <3>1, <4>2 DEF Open
    <3>3. pc["client"] = "done" /\ conn.proto = "vmess" => Unread("client")' = Data("server")'
      BY <1>1, <1>12, <3>1 DEF Open
    <3>4. pc["client"] = "done" /\ conn.proto # "vmess" =>
             IsSuffix(Unread("client")', Data("server")')
      <4>1. Unread("client") \in Seq(Nat) /\ Data("server") \in Seq(Nat)
        BY <1>1, <1>3, <2>1, Streams, Others
      <4>2. IsSuffix(Unread("client"), Data("server")) =>
               IsSuffix(Append(Unread("client"), e), Append(Data("server"), e))
        BY <1>3, <4>1, SuffixGrows
      <4> QED BY <1>1, <1>12, <3>1, <4>2 DEF Open
    <3> QED BY <1>1, <1>4, <1>9, <1>12, <3>1, <3>2, <3>3, <3>4 DEF Open
  <2>2. CASE p = "client"
    <3>1. q = "server" /\ Data("server")' = Data("server") /\ Unread("client")' = Unread("client")
          /\ Data("client")' = Append(Data("client"), e)
          /\ Unread("server")' = Append(Unread("server"), e)
      BY <1>6, <1>7, <2>2, Others DEF q
    <3> QED BY <1>1, <1>4, <1>9, <1>12, <3>1 DEF Open
  <2> QED BY <2>1, <2>2, Others
<1> QED BY <1>8, <1>10, <1>11, <1>13, <1>14 DEF IInv

-----------------------------------------------------------------------------
(* A party receives.                                                        *)

(* What has been read, b, and what has not.                                 *)
LEMMA ReadPart ==
  ASSUME TypeOK, NEW p \in Parties, NEW n \in 0 .. Len(in[p]), NEW b,
         b = rbuf[p] \o Take(in[p], n)
  PROVE  /\ b \in Seq(Nat) /\ Drop(in[p], n) \in Seq(Nat)
         /\ b \o Drop(in[p], n) = Unread(p)
         /\ in[p] = <<>> => b = rbuf[p] /\ Drop(in[p], n) = <<>>
         /\ Unread(p) = <<>> => b = <<>> /\ Drop(in[p], n) = <<>>
<1>1. rbuf[p] \in Seq(Nat) /\ in[p] \in Seq(Nat)
  BY Streams
<1>2. Take(in[p], n) \in Seq(Nat) /\ Drop(in[p], n) \in Seq(Nat)
  BY <1>1, TakeProperties, DropProperties
<1>3. b \in Seq(Nat)
  BY <1>1, <1>2, Joined
<1>4. b \o Drop(in[p], n) = Unread(p)
  BY <1>1, Moved DEF Unread
<1>5. ASSUME in[p] = <<>> PROVE b = rbuf[p] /\ Drop(in[p], n) = <<>>
  <2>1. n = 0
    BY <1>5
  <2> QED BY <1>1, <1>5, <2>1, DropNone
<1>6. Unread(p) = <<>> => b = <<>> /\ Drop(in[p], n) = <<>>
  BY <1>2, <1>3, <1>4, BothEmpty
<1> QED BY <1>2, <1>3, <1>4, <1>5, <1>6

(* A decoder of a message m that has a part of it and the rest s to come.   *)
LEMMA WholeCame ==
  ASSUME NEW b \in Seq(Nat), NEW s \in Seq(Nat), NEW m \in Seq(Nat), Begins(b \o s, m)
  PROVE  /\ Begins(b, m) /\ Agrees(b, m)
         /\ Complete(b, m) > 0 => b = m /\ s = <<>> /\ Complete(b, m) = Len(m)
<1>1. Begins(b, m) /\ (Len(m) <= Len(b) => s = <<>>)
  BY BeginsFront
<1>2. Agrees(b, m)
  BY <1>1 DEF Begins
<1>3. Len(b) \in Nat /\ Len(m) \in Nat
  BY LenProperties
<1>4. ASSUME Complete(b, m) > 0 PROVE b = m /\ s = <<>> /\ Complete(b, m) = Len(m)
  <2>1. ~(Len(b) < Len(m)) /\ Complete(b, m) = Len(m)
    BY <1>4 DEF Complete
  <2>2. Len(m) <= Len(b)
    BY <1>3, <2>1
  <2> QED BY <1>1, <2>1, <2>2, BeginsWhole
<1> QED BY <1>1, <1>2, <1>4

(* A message is all of itself.                                              *)
LEMMA AllOf ==
  ASSUME NEW m \in Seq(Nat)
  PROVE  Take(m, Len(m)) = m /\ Drop(m, Len(m)) = <<>> /\ Complete(m, m) = Len(m)
         /\ Len(m) \in Nat
<1>1. Len(m) \in Nat /\ Len(m) \in 0 .. Len(m)
  BY LenProperties
<1>2. Begins(m, m)
  BY NothingBegins
<1>3. Take(m, Len(m)) = m
  BY <1>1, <1>2, AgreesWhole DEF Begins
<1>4. Drop(m, Len(m)) \in Seq(Nat) /\ Len(Drop(m, Len(m))) = Len(m) - Len(m)
  BY <1>1, DropProperties
<1>5. Drop(m, Len(m)) = <<>>
  <2>1. Len(Drop(m, Len(m))) = 0
    BY <1>1, <1>4
  <2> QED BY <1>4, <2>1, EmptySeq
<1>6. Complete(m, m) = Len(m)
  BY <1>1 DEF Complete
<1> QED BY <1>1, <1>3, <1>5, <1>6

(* Nothing is decoded, and p goes on reading.                               *)
LEMMA ReadsOn ==
  ASSUME IInv, NEW p \in Parties, pc[p] \in Messages, NEW n \in 0 .. Len(in[p]), NEW b,
         b = rbuf[p] \o Take(in[p], n),
         rbuf' = [rbuf EXCEPT ![p] = b],
         in' = [in EXCEPT ![p] = Drop(in[p], n)],
         should_read' = [should_read EXCEPT ![p] = TRUE],
         UNCHANGED <<conn, asked, pc, cut, target, sent, clock>>
  PROVE  IInv'
<1>1. /\ TypeOK /\ conn \in Conns /\ AskedRight /\ Protocol /\ CutRight /\ SentRight
      /\ Opening /\ Agreeing /\ Open /\ Over
  BY DEF IInv, TypeOK
<1> DEFINE w == Drop(in[p], n)
           q == Other(p)
<1>2. /\ b \in Seq(Nat) /\ w \in Seq(Nat) /\ b \o w = Unread(p)
      /\ in[p] = <<>> => b = rbuf[p] /\ w = <<>>
  BY <1>1, ReadPart
<1>3. q \in Parties /\ q # p
  BY Others
<1> HIDE DEF w, q
<1>4. rbuf'[p] = b /\ in'[p] = w /\ rbuf'[q] = rbuf[q] /\ in'[q] = in[q]
  BY <1>1, <1>3 DEF TypeOK, w
<1>5. Unread(p)' = Unread(p) /\ Unread(q)' = Unread(q)
  BY <1>2, <1>4 DEF Unread
<1>6. Unread("client")' = Unread("client") /\ Unread("server")' = Unread("server")
  <2>1. p = "client" \/ p = "server"
    BY Others
  <2>2. p = "client" => q = "server"
    BY Others DEF q
  <2>3. p = "server" => q = "client"
    BY Others DEF q
  <2> QED BY <1>5, <2>1, <2>2, <2>3
<1>7. /\ conn' = conn /\ asked' = asked /\ pc' = pc /\ cut' = cut /\ target' = target
      /\ sent' = sent /\ clock' = clock
  OBVIOUS
<1>8. TypeOK'
  <2> DEFINE S == Seq(Nat)
  <2>1. /\ in \in [Parties -> S] /\ rbuf \in [Parties -> S] /\ w \in S /\ b \in S
        /\ in' = [in EXCEPT ![p] = w] /\ rbuf' = [rbuf EXCEPT ![p] = b]
    BY <1>1, <1>2 DEF TypeOK, w
  <2> HIDE DEF S
  <2>2. in' \in [Parties -> S] /\ rbuf' \in [Parties -> S]
    BY <2>1
  <2>3. should_read' \in [Parties -> BOOLEAN]
    BY <1>1 DEF TypeOK
  <2> QED BY <1>1, <1>7, <2>2, <2>3 DEF TypeOK, S
<1>9. /\ FirstMessage' = FirstMessage /\ Answer' = Answer
      /\ FirstWait' = FirstWait /\ LastWait' = LastWait
      /\ Request5(conn.cmd, asked)' = Request5(conn.cmd, asked)
  BY <1>7, SameMessages
<1>10. Leftover' = Leftover /\ Data("client")' = Data("client") /\ Data("server")' = Data("server")
  BY <1>7 DEF Leftover, Data
<1>11. AskedRight' /\ CutRight' /\ SentRight'
  BY <1>1, <1>7 DEF AskedRight, Resolved4, CutRight, SentRight
<1>12. Protocol'
  <2>1. pc["client"] = "start" => p # "client"
    BY DEF Messages
  <2>2. pc["client"] = "start" => rbuf'["client"] = rbuf["client"]
    BY <1>1, <2>1, Others DEF TypeOK
  <2> QED BY <1>1, <1>7, <1>9, <2>2 DEF Protocol
<1>13. Opening'
  <2> SUFFICES ASSUME pc["server"] \in {"vers", "auth_sel", "request4", "vmess_request"}
               PROVE  Opening'
    BY <1>7 DEF Opening
  <2>1. CASE Understood
    <3>1. pc["server"] = "vers" => rbuf'["server"] = rbuf["server"]
      <4>1. pc["server"] = "vers" => p # "server"
        BY DEF Messages
      <4> QED BY <1>1, <4>1, Others DEF TypeOK
    <3>2. Understood'
      BY <1>6, <1>7, <1>9, <2>1, <3>1 DEF Understood
    <3> QED BY <1>1, <1>6, <1>7, <1>9, <3>2 DEF Opening
  <2>2. CASE Garbled
    <3>1. rbuf'["server"] = rbuf["server"] /\ in'["server"] = in["server"]
      <4>1. in["server"] = <<>>
        BY <2>2 DEF Garbled
      <4>2. p = "server" \/ q = "server"
        BY Others DEF q
      <4> QED BY <1>2, <1>4, <4>1, <4>2
    <3>2. Garbled'
      BY <1>7, <2>2, <3>1 DEF Garbled
    <3> QED BY <1>1, <1>6, <1>7, <1>9, <3>2 DEF Opening
  <2> QED BY <1>1, <2>1, <2>2 DEF Opening
<1>14. Agreeing'
  BY <1>1, <1>6, <1>7, <1>9 DEF Agreeing
<1>15. Open' /\ Over'
  BY <1>1, <1>6, <1>7, <1>9, <1>10 DEF Open, Over
<1> QED BY <1>8, <1>11, <1>12, <1>13, <1>14, <1>15 DEF IInv

(* p has read a message m: r bytes of b, and nothing is behind them.        *)
Heard(p, n, b, r, m) ==
    b = m /\ r = Len(m) /\ Take(b, r) = m /\ Drop(b, r) = <<>> /\ Drop(in[p], n) = <<>>

(* So it is when all that a party has begins with a message.                *)
LEMMA HeardIs ==
  ASSUME TypeOK, NEW p \in Parties, NEW n \in 0 .. Len(in[p]), NEW b,
         b = rbuf[p] \o Take(in[p], n), NEW m \in Seq(Nat), Begins(Unread(p), m)
  PROVE  /\ b \in Seq(Nat) /\ Begins(b, m) /\ Agrees(b, m)
         /\ Complete(b, m) > 0 => Heard(p, n, b, Complete(b, m), m) /\ m # <<>>
         /\ Complete(b, m) \in Nat
<1> DEFINE w == Drop(in[p], n)
<1>1. b \in Seq(Nat) /\ w \in Seq(Nat) /\ b \o w = Unread(p)
  BY ReadPart
<1> HIDE DEF w
<1>2. /\ Begins(b, m) /\ Agrees(b, m)
      /\ Complete(b, m) > 0 => b = m /\ w = <<>> /\ Complete(b, m) = Len(m)
  <2>1. Begins(b \o w, m)
    BY <1>1
  <2> QED BY <1>1, <2>1, WholeCame, Zenon
<1>3. Len(m) \in Nat
  BY LenProperties
<1>4. Complete(b, m) \in Nat
  BY <1>3 DEF Complete
<1>5. ASSUME Complete(b, m) > 0 PROVE Heard(p, n, b, Complete(b, m), m) /\ m # <<>>
  <2>1. b = m /\ w = <<>> /\ Complete(b, m) = Len(m) /\ Len(m) > 0
    BY <1>2, <1>5
  <2>2. Take(m, Len(m)) = m /\ Drop(m, Len(m)) = <<>>
    BY AllOf
  <2>3. m # <<>>
    BY <2>1
  <2> QED BY <2>1, <2>2, <2>3 DEF Heard, w
<1> QED BY <1>1, <1>2, <1>4, <1>5

(* In the opening phase the server has a part of the first message, unless  *)
(* a reset has cut it off.                                                  *)
LEMMA HeardFirst ==
  ASSUME IInv, PMax < 16, pc["server"] \in {"auth_sel", "request4", "vmess_request"},
         NEW n \in 0 .. Len(in["server"]), NEW b,
         b = rbuf["server"] \o Take(in["server"], n)
  PROVE  \/ /\ Garbled /\ b \in Seq(Nat) /\ Len(b) = 1
         \/ /\ Understood /\ b \in Seq(Nat) /\ FirstMessage \in Seq(Nat)
            /\ Begins(b, FirstMessage) /\ Agrees(b, FirstMessage)
            /\ Complete(b, FirstMessage) \in Nat
            /\ Complete(b, FirstMessage) > 0 =>
                  /\ Heard("server", n, b, Complete(b, FirstMessage), FirstMessage)
                  /\ pc["client"] \in {FirstWait} \cup Gone
<1>1. TypeOK /\ conn \in Conns /\ Sendable(asked) /\ Opening /\ "server" \in Parties
  BY Others DEF IInv, TypeOK, AskedRight
<1>2. Understood \/ Garbled
  BY <1>1 DEF Opening
<1>3. FirstMessage \in Seq(Nat)
  BY <1>1, Spoken
<1>4. CASE Garbled
  <2>1. b \in Seq(Nat) /\ b = rbuf["server"] /\ Len(b) = 1
    BY <1>1, <1>4, ReadPart DEF Garbled
  <2> QED BY <1>4, <2>1
<1>5. CASE Understood
  <2>1. Begins(Unread("server"), FirstMessage)
    BY <1>5 DEF Understood
  <2>2. /\ b \in Seq(Nat) /\ Begins(b, FirstMessage) /\ Agrees(b, FirstMessage)
        /\ Complete(b, FirstMessage) > 0 =>
              /\ Heard("server", n, b, Complete(b, FirstMessage), FirstMessage)
              /\ FirstMessage # <<>>
        /\ Complete(b, FirstMessage) \in Nat
    BY <1>1, <1>3, <2>1, HeardIs
  <2>3. ASSUME Complete(b, FirstMessage) > 0 PROVE pc["client"] # "start"
    <3>1. b # <<>>
      BY <2>2, <2>3 DEF Heard
    <3>2. Unread("server") # <<>>
      BY <1>1, <3>1, ReadPart
    <3> QED BY <1>5, <3>2 DEF Understood
  <2>4. pc["client"] \in {"start", FirstWait} \cup Gone
    BY <1>1 DEF Opening
  <2> QED BY <1>3, <1>5, <2>2, <2>3, <2>4
<1> QED BY <1>2, <1>4, <1>5

(* Only nothing is a beginning of nothing.                                  *)
LEMMA BeginsNothing ==
  ASSUME NEW b \in Seq(Nat), Begins(b, <<>>)
  PROVE  b = <<>>
<1> DEFINE k == Len(b)
<1>1. k \in Nat
  BY LenProperties
<1>2. k <= 0
  <2>1. Len(<<>>) = 0
    OBVIOUS
  <2> QED BY <2>1 DEF Begins
<1> HIDE DEF k
<1>3. k = 0
  BY <1>1, <1>2
<1> QED BY <1>3, EmptySeq DEF k

(* A SOCKS 4 request has at least nine bytes.                               *)
LEMMA Incomplete4 ==
  ASSUME NEW b \in Seq(Nat), Len(b) < 9
  PROVE  DecodeRequest4(b) = 0
<1> DEFINE k == Len(b)
<1>1. k \in Nat /\ k < 9
  BY LenProperties
<1> HIDE DEF k
<1>2. ~(k >= 9) /\ k < k + 1
  BY <1>1
<1>3. \A i \in 9 .. k : FALSE
  BY <1>1
<1>4. UserEnds(b) = {}
  BY <1>3 DEF UserEnds, k
<1>5. DecodeRequest4(b) = Returns(Len(b) >= 9 /\ b[1] # 4, Len(b) + 1, b)
  BY <1>4, Zenon DEF DecodeRequest4
<1>6. DecodeRequest4(b) = IF Len(b) >= 9 /\ b[1] # 4 THEN -1
                          ELSE IF Len(b) < Len(b) + 1 THEN 0 ELSE Len(b) + 1
  BY <1>5, Zenon DEF Returns
<1>7. ~(Len(b) >= 9) /\ Len(b) < Len(b) + 1
  BY <1>2 DEF k
<1> QED BY <1>6, <1>7, Zenon

(* What the server hears: the offer of a SOCKS 5 client,                    *)
LEMMA HeardAuthSel ==
  ASSUME IInv, PMax < 16, pc["server"] = "auth_sel",
         NEW n \in 0 .. Len(in["server"]), NEW b,
         b = rbuf["server"] \o Take(in["server"], n)
  PROVE  /\ DecodeAuthSel(b) < 0 => Justified("server")
         /\ DecodeAuthSel(b) > 0 =>
               /\ conn.proto = "socks5" /\ pc["client"] \in {"auth_ack"} \cup Gone
               /\ Heard("server", n, b, DecodeAuthSel(b), AuthSel(conn.methods))
<1>0. conn.methods \in Seq(Nat)
  BY ConnFields DEF IInv, TypeOK
<1>1. CASE Garbled /\ b \in Seq(Nat) /\ Len(b) = 1
  <2>1. DecodeAuthSel(b) = 0
    BY <1>1 DEF DecodeAuthSel, Returns
  <2> QED BY <2>1
<1>2. CASE /\ Understood /\ b \in Seq(Nat) /\ FirstMessage \in Seq(Nat)
           /\ Begins(b, FirstMessage) /\ Agrees(b, FirstMessage)
           /\ Complete(b, FirstMessage) \in Nat
           /\ Complete(b, FirstMessage) > 0 =>
                 /\ Heard("server", n, b, Complete(b, FirstMessage), FirstMessage)
                 /\ pc["client"] \in {FirstWait} \cup Gone
  <2>1. conn.proto = "socks5"
    BY <1>2 DEF Understood
  <2>2. FirstMessage = AuthSel(conn.methods) /\ FirstWait = "auth_ack"
    BY <2>1 DEF FirstMessage, FirstWait
  <2>3. /\ conn.methods # <<>> => DecodeAuthSel(b) = Complete(b, AuthSel(conn.methods))
        /\ conn.methods = <<>> => DecodeAuthSel(b) \in {-1, 0}
    BY <1>0, <1>2, <2>2, ReadAuthSel
  <2>4. CASE conn.methods = <<>>
    <3>1. ~Acceptable
      <4>1. DOMAIN <<>> = {}
        OBVIOUS
      <4> QED BY <2>1, <2>4, <4>1 DEF Acceptable
    <3> QED BY <2>3, <2>4, <3>1 DEF Justified
  <2>5. CASE conn.methods # <<>>
    BY <1>2, <2>1, <2>2, <2>3, <2>5
  <2> QED BY <2>4, <2>5
<1> QED BY <1>1, <1>2, HeardFirst

(* the request of a SOCKS 4 client,                                         *)
LEMMA HeardRequest4 ==
  ASSUME IInv, PMax < 16, pc["server"] = "request4",
         NEW n \in 0 .. Len(in["server"]), NEW b,
         b = rbuf["server"] \o Take(in["server"], n)
  PROVE  /\ DecodeRequest4(b) < 0 => Justified("server")
         /\ DecodeRequest4(b) > 0 =>
               /\ conn.proto = "socks4" /\ pc["client"] \in {"response4"} \cup Gone
               /\ asked.type = Ipv4
               /\ Heard("server", n, b, DecodeRequest4(b),
                        Request4(conn.cmd, asked, conn.user))
<1>0. /\ conn.cmd \in Nat /\ Sendable(asked)
      /\ conn.proto = "socks4" => conn.user \in Users4
  BY ConnFields DEF IInv, TypeOK, AskedRight
<1>2. CASE Garbled /\ b \in Seq(Nat) /\ Len(b) = 1
  <2>1. Len(b) < 9
    BY <1>2
  <2>2. DecodeRequest4(b) = 0
    BY <1>2, <2>1, Incomplete4
  <2> QED BY <2>2
<1>3. CASE /\ Understood /\ b \in Seq(Nat) /\ FirstMessage \in Seq(Nat)
           /\ Begins(b, FirstMessage) /\ Agrees(b, FirstMessage)
           /\ Complete(b, FirstMessage) \in Nat
           /\ Complete(b, FirstMessage) > 0 =>
                 /\ Heard("server", n, b, Complete(b, FirstMessage), FirstMessage)
                 /\ pc["client"] \in {FirstWait} \cup Gone
  <2>1. conn.proto = "socks4"
    BY <1>3 DEF Understood
  <2>2. CASE asked.type # Ipv4
    <3>1. FirstMessage = <<>>
      BY <2>1, <2>2 DEF FirstMessage
    <3>2. b \in Seq(Nat) /\ Begins(b, <<>>)
      BY <1>3, <3>1
    <3>3. b = <<>>
      BY <3>2, BeginsNothing
    <3>4. Len(<<>>) = 0 /\ <<>> \in Seq(Nat) /\ 0 < 9
      OBVIOUS
    <3>5. DecodeRequest4(<<>>) = 0
      BY <3>4, Incomplete4
    <3> QED BY <3>3, <3>5
  <2>3. CASE asked.type = Ipv4
    <3>1. FirstMessage = Request4(conn.cmd, asked, conn.user) /\ FirstWait = "response4"
      BY <2>1, <2>3 DEF FirstMessage, FirstWait
    <3>2. DecodeRequest4(b) = Complete(b, Request4(conn.cmd, asked, conn.user))
      BY <1>0, <1>3, <2>1, <2>3, <3>1, ReadRequest4
    <3> QED BY <1>3, <2>1, <2>3, <3>1, <3>2
  <2> QED BY <2>2, <2>3
<1> QED BY <1>2, <1>3, HeardFirst

(* and that of a VMess client.                                              *)
LEMMA HeardVmess ==
  ASSUME IInv, PMax < 16, pc["server"] = "vmess_request",
         NEW n \in 0 .. Len(in["server"]), NEW b,
         b = rbuf["server"] \o Take(in["server"], n), NEW r,
         r = DecodeVmessRequest(Opened(b, Window), Window)
  PROVE  /\ r < 0 => Justified("server")
         /\ r > 0 =>
               /\ conn.proto = "vmess" /\ pc["client"] \in {"vmess_response"} \cup Gone
               /\ Head(conn.user) = OwnUser /\ conn.gen \in Window
               /\ Heard("server", n, b, r,
                        VmessRequest(OwnUser, conn.gen, asked, conn.pad))
<1> DEFINE user == Head(conn.user)
           time == conn.gen
           pad == conn.pad
           m == VmessRequest(user, time, asked, pad)
<1>1. conn \in Conns /\ Protocol /\ Sendable(asked) /\ TypeOK
  BY DEF IInv, TypeOK, AskedRight
<1>2. conn.proto = "vmess"
  BY <1>1 DEF Protocol, Ended
<1>3. user \in {OwnUser, OwnUser + 1} /\ time \in Nat /\ pad \in 0 .. 15
  BY <1>1, <1>2, ConnFields
<1>4. Window \in SUBSET Int
  <2>1. clock \in Int /\ Delta \in Int
    BY <1>1, BoundsNat DEF TypeOK
  <2> QED BY <2>1 DEF Window
<1>5. FirstMessage = m /\ FirstWait = "vmess_response"
  BY <1>2 DEF FirstMessage, FirstWait
<1>6. ~Garbled
  BY DEF Garbled
<1> HIDE DEF user, time, pad
<1>7. /\ b \in Seq(Nat) /\ Begins(b, m) /\ Complete(b, m) \in Nat
      /\ Complete(b, m) > 0 => /\ Heard("server", n, b, Complete(b, m), m)
                               /\ pc["client"] \in {"vmess_response"} \cup Gone
  BY <1>5, <1>6, HeardFirst
<1>10. VmessVerdict(b, Window, user, time, m)
  <2>1. b \in Seq(Nat) /\ Begins(b, VmessRequest(user, time, asked, pad)) /\ Sendable(asked)
    BY <1>1, <1>7
  <2>2. VmessVerdict(b, Window, user, time, VmessRequest(user, time, asked, pad))
    BY <1>3, <1>4, <2>1, ReadVmess
  <2> QED BY <2>2
<1>8. CASE user = OwnUser /\ time \in Window
  <2> HIDE DEF m
  <2>1. r = Complete(b, m)
    BY <1>8, <1>10 DEF VmessVerdict
  <2>2. r > 0 => /\ Heard("server", n, b, r, m)
                 /\ pc["client"] \in {"vmess_response"} \cup Gone
    BY <1>7, <2>1
  <2>3. ~(r < 0)
    BY <1>7, <2>1
  <2>4. m = VmessRequest(OwnUser, conn.gen, asked, conn.pad)
    BY <1>8 DEF m, time, pad
  <2> QED BY <1>2, <1>8, <2>2, <2>3, <2>4 DEF user, time
<1>9. CASE ~(user = OwnUser /\ time \in Window)
  <2>1. r \in {-1, 0}
    BY <1>9, <1>10, Zenon DEF VmessVerdict
  <2>2. ~Acceptable
    BY <1>2, <1>9 DEF Acceptable, user, time
  <2> QED BY <2>1, <2>2 DEF Justified
<1> QED BY <1>8, <1>9
(* What the server hears of a SOCKS 5 request.                              *)
LEMMA HeardRequest5 ==
  ASSUME IInv, PMax < 16, pc["server"] = "request5",
         NEW n \in 0 .. Len(in["server"]), NEW b,
         b = rbuf["server"] \o Take(in["server"], n)
  PROVE  /\ ~(DecodeRequest5(b) < 0)
         /\ DecodeRequest5(b) > 0 =>
               /\ conn.proto = "socks5" /\ pc["client"] \in {"response5"} \cup Gone
               /\ Heard("server", n, b, DecodeRequest5(b), Request5(conn.cmd, asked))
<1> DEFINE cmd == conn.cmd
           m == Request5(cmd, asked)
<1>1. conn \in Conns /\ Protocol /\ Agreeing /\ Sendable(asked) /\ TypeOK /\ "server" \in Parties
  BY Others DEF IInv, TypeOK, AskedRight
<1>2. cmd \in Nat /\ m \in Seq(Nat)
  BY <1>1, ConnFields, Spoken
<1>3. Begins(Unread("server"), m)
  BY <1>1 DEF Agreeing
<1> HIDE DEF cmd
<1>4. /\ b \in Seq(Nat) /\ Agrees(b, m)
      /\ Complete(b, m) > 0 => Heard("server", n, b, Complete(b, m), m) /\ m # <<>>
      /\ Complete(b, m) \in Nat
  <2> HIDE DEF m
  <2> QED BY <1>1, <1>2, <1>3, HeardIs
<1>5. DecodeRequest5(b) = Complete(b, m)
  BY <1>1, <1>2, <1>4, ReadRequest5
<1>6. ~(DecodeRequest5(b) < 0)
  <2> HIDE DEF m
  <2> QED BY <1>4, <1>5
<1>7. ASSUME DecodeRequest5(b) > 0
      PROVE  pc["client"] \in {"response5"} \cup Gone
  <2>1. b # <<>>
    <3> HIDE DEF m
    <3> QED BY <1>4, <1>5, <1>7 DEF Heard
  <2>2. Unread("server") # <<>>
    BY <1>1, <2>1, ReadPart
  <2> QED BY <1>1, <2>2 DEF Agreeing
<1> QED BY <1>1, <1>4, <1>5, <1>6, <1>7 DEF Protocol, cmd

-----------------------------------------------------------------------------
(* The server has read a whole message, nothing is behind it, and it        *)
(* answers.                                                                 *)
Answers(reply, next) ==
    /\ pc'["server"] = next /\ pc'["client"] = pc["client"]
    /\ Unread("server")' = <<>> /\ Unread("client")' = Unread("client") \o reply
    /\ rbuf'["client"] = rbuf["client"]
    /\ conn' = conn /\ asked' = asked /\ sent' = sent
    /\ TypeOK' /\ CutRight' /\ SentRight' /\ AskedRight'

(* What such a step changes.                                                *)
LEMMA ServerAnswers ==
  ASSUME IInv, pc["server"] \notin Ended,
         NEW n, Drop(in["server"], n) = <<>>, NEW reply \in Seq(Nat),
         NEW next \in Messages \cup {"done"}, Moves("server", n, reply, <<>>, next),
         asked' = asked, target' \in Targets \cup {NoTarget}
  PROVE  Answers(reply, next)
<1>1. TypeOK /\ CutRight /\ SentRight /\ AskedRight
  BY DEF IInv
<1>2. /\ "server" \in Parties /\ Other("server") = "client" /\ "client" \in Parties
      /\ <<>> \in Seq(Nat)
  BY Others
<1>3. asked' \in Targets
  BY <1>1 DEF TypeOK
<1>4. /\ Moved2("server", "client", n, reply, <<>>, next)
      /\ TypeOK' /\ CutRight' /\ SentRight'
  <2>1. /\ Moved2("server", Other("server"), n, reply, <<>>, next)
        /\ TypeOK' /\ CutRight' /\ SentRight'
    BY <1>1, <1>2, <1>3, MovesKeep
  <2> QED BY <1>2, <2>1
<1>5. Unread("server")' = <<>>
  BY <1>4 DEF Moved2, Unread
<1>6. Unread("client")' = Unread("client") \o reply
  <2>1. rbuf["client"] \o (in["client"] \o reply) = Unread("client") \o reply
    BY <1>1, <1>2, UnreadGrows
  <2> QED BY <1>4, <2>1 DEF Moved2, Unread
<1>7. AskedRight'
  BY <1>1, <1>4 DEF Moved2, AskedRight, Resolved4
<1> QED BY <1>4, <1>5, <1>6, <1>7 DEF Moved2, Answers

(* It agrees to the method.                                                 *)
LEMMA ServerAgrees ==
  ASSUME IInv, PMax < 16, pc["server"] = "auth_sel", NEW n, Drop(in["server"], n) = <<>>,
         conn.proto = "socks5", pc["client"] \in {"auth_ack"} \cup Gone,
         MovesOn("server", n, AuthAck(NoAuth), <<>>, "request5")
  PROVE  IInv'
<1>1. /\ TypeOK /\ conn \in Conns /\ Sendable(asked) /\ Protocol /\ Opening
  BY DEF IInv, TypeOK, AskedRight
<1>2. AuthAck(NoAuth) \in Seq(Nat) /\ Request5(conn.cmd, asked) \in Seq(Nat)
  BY <1>1, Spoken
<1>3. Answers(AuthAck(NoAuth), "request5")
  <2>1. /\ Moves("server", n, AuthAck(NoAuth), <<>>, "request5")
        /\ asked' = asked /\ target' \in Targets \cup {NoTarget}
    BY <1>1 DEF MovesOn, TypeOK
  <2>2. pc["server"] \notin Ended /\ "request5" \in Messages \cup {"done"}
    BY DEF Ended, Messages
  <2> QED BY <1>2, <2>1, <2>2, ServerAnswers
<1>4. Unread("client") = <<>>
  BY <1>1 DEF Opening
<1>5. Unread("client")' = AuthAck(NoAuth) /\ Unread("server")' = <<>>
  BY <1>2, <1>3, <1>4, DropNone DEF Answers
<1>6. /\ Begins(<<>>, Request5(conn.cmd, asked))
      /\ Begins(AuthAck(NoAuth), AuthAck(NoAuth))
  BY <1>2, NothingBegins
<1>7. /\ pc'["server"] = "request5" /\ pc'["client"] = pc["client"]
      /\ conn' = conn /\ asked' = asked /\ rbuf'["client"] = rbuf["client"]
  BY <1>3 DEF Answers
<1>8. Agreeing'
  BY <1>5, <1>6, <1>7 DEF Agreeing, Gone
<1>9. Protocol'
  <2>1. FirstWait' = FirstWait /\ LastWait' = LastWait
    BY <1>7, SameMessages
  <2> QED BY <1>1, <1>7, <2>1 DEF Protocol
<1>10. Opening' /\ Open' /\ Over'
  BY <1>7 DEF Opening, Open, Over, Gone
<1> QED BY <1>3, <1>8, <1>9, <1>10 DEF Answers, IInv

(* It takes the request: the tunnel is open.                                *)
LEMMA ServerServes ==
  ASSUME IInv, PMax < 16, pc["server"] \notin Ended, NEW n, Drop(in["server"], n) = <<>>,
         pc["client"] \in {LastWait} \cup Gone,
         pc["client"] = LastWait => Unread("client") = <<>>,
         target' = asked, asked' = asked, Moves("server", n, Answer, <<>>, "done")
  PROVE  IInv'
<1>1. /\ TypeOK /\ conn \in Conns /\ Sendable(asked) /\ Protocol /\ SentRight
  BY DEF IInv, TypeOK, AskedRight
<1>2. Answer \in Seq(Nat)
  BY <1>1, Spoken
<1>3. Answers(Answer, "done")
  <2>1. target' \in Targets \cup {NoTarget}
    BY <1>1 DEF TypeOK
  <2>2. "done" \in Messages \cup {"done"}
    OBVIOUS
  <2> QED BY <1>2, <2>1, <2>2, ServerAnswers
<1>4. /\ pc'["server"] = "done" /\ pc'["client"] = pc["client"]
      /\ conn' = conn /\ asked' = asked /\ sent' = sent /\ rbuf'["client"] = rbuf["client"]
  BY <1>3 DEF Answers
<1>5. /\ FirstWait' = FirstWait /\ LastWait' = LastWait /\ Answer' = Answer
  BY <1>4, SameMessages
<1>6. LastWait \notin Ended
  <2>1. conn.proto \in {"socks4", "socks5", "vmess"}
    BY <1>1, ConnFields
  <2> QED BY <2>1 DEF LastWait, Ended
<1>7. Data("server")' = <<>> /\ Data("client")' = <<>>
  <2>1. "server" \in Parties /\ "client" \in Parties
    BY Others
  <2>2. sent["server"] = 0 /\ sent["client"] = 0
    BY <1>1, <1>6, <2>1 DEF SentRight, Gone, Ended
  <2>3. Data("server") = <<>> /\ Data("client") = <<>>
    BY <1>1, <2>1, <2>2, DataSent
  <2> QED BY <1>4, <2>3 DEF Data
<1>8. Open'
  <2>1. Unread("server")' = <<>>
    BY <1>3 DEF Answers
  <2>2. pc["client"] = LastWait => Unread("client")' = Answer
    BY <1>2, <1>3, DropNone DEF Answers
  <2>3. Answer \o <<>> = Answer
    BY <1>2, DropNone
  <2>4. (pc["client"] = LastWait => Unread("client") = Answer \o Data("server"))'
    BY <1>4, <1>5, <1>7, <2>2, <2>3
  <2>5. (pc["client"] # "done")'
    BY <1>4, <1>6 DEF Ended, Gone
  <2> QED BY <1>4, <1>5, <1>7, <2>1, <2>4, <2>5 DEF Open
<1>9. Protocol'
  BY <1>1, <1>4, <1>5 DEF Protocol, Ended
<1>10. Opening' /\ Agreeing' /\ Over'
  BY <1>4 DEF Opening, Agreeing, Over, Gone
<1> QED BY <1>3, <1>8, <1>9, <1>10 DEF Answers, IInv

-----------------------------------------------------------------------------
(* What the server does with the messages: every handler keeps the          *)
(* invariant, and one that fails has a reason.                              *)
LEMMA TakesAuthSel ==
  ASSUME IInv, PMax < 16, pc["server"] = "auth_sel",
         NEW n \in 0 .. Len(in["server"]), NEW b,
         b = rbuf["server"] \o Take(in["server"], n), NEW r, r = DecodeAuthSel(b), r > 0,
         ServerAuthSel(Take(b, r), Drop(b, r), n)
  PROVE  IInv' /\ (pc'["server"] = "failed" => Justified("server"))
<1> DEFINE methods == conn.methods
           m == AuthSel(methods)
<1>1. /\ conn.proto = "socks5" /\ pc["client"] \in {"auth_ack"} \cup Gone
      /\ Heard("server", n, b, r, m)
  BY HeardAuthSel
<1>2. TypeOK /\ conn \in Conns /\ "server" \in Parties /\ pc["server"] \notin Ended
  BY Others DEF IInv, TypeOK, Ended
<1>3. methods \in Seq(Nat)
  BY <1>2, ConnFields
<1>4. /\ Len(m) = 2 + Len(methods) /\ Len(methods) \in Nat
      /\ \A i \in 1 .. Len(methods) : m[2 + i] = methods[i]
  BY <1>3, AuthSelLayout
<1> HIDE DEF methods, m
<1>5. Take(b, r) = m /\ Drop(b, r) = <<>> /\ Drop(in["server"], n) = <<>>
  BY <1>1 DEF Heard
<1>6. CASE NoAuth \in {m[i] : i \in 3 .. Len(m)}
  <2>1. MovesOn("server", n, AuthAck(NoAuth), <<>>, "request5")
    BY <1>5, <1>6 DEF ServerAuthSel
  <2>2. IInv'
    BY <1>1, <1>5, <2>1, ServerAgrees
  <2>3. pc'["server"] # "failed"
    BY <1>2, <2>1, Moved1 DEF MovesOn
  <2> QED BY <2>2, <2>3
<1>7. CASE ~(NoAuth \in {m[i] : i \in 3 .. Len(m)})
  <2>1. Fail("server")
    BY <1>5, <1>7 DEF ServerAuthSel
  <2>2. IInv'
    BY <1>2, <2>1, ServerFails
  <2>3. ASSUME NEW i \in DOMAIN methods PROVE methods[i] # NoAuth
    <3>1. i \in 1 .. Len(methods)
      BY <1>3, <2>3
    <3>2. 2 + i \in 3 .. Len(m) /\ m[2 + i] = methods[i]
      BY <1>4, <3>1
    <3> QED BY <1>7, <3>2
  <2>4. ~Acceptable
    BY <1>1, <2>3 DEF Acceptable, methods
  <2> QED BY <2>2, <2>4 DEF Justified
<1> QED BY <1>6, <1>7

(* The command of a SOCKS 5 request is looked at,                           *)
LEMMA TakesRequest5 ==
  ASSUME IInv, PMax < 16, pc["server"] = "request5",
         NEW n \in 0 .. Len(in["server"]), NEW b,
         b = rbuf["server"] \o Take(in["server"], n), NEW r, r = DecodeRequest5(b), r > 0,
         ServerRequest5(Take(b, r), n)
  PROVE  IInv' /\ (pc'["server"] = "failed" => Justified("server"))
<1> DEFINE cmd == conn.cmd
           m == Request5(cmd, asked)
<1>1. /\ conn.proto = "socks5" /\ pc["client"] \in {"response5"} \cup Gone
      /\ Heard("server", n, b, r, m)
  BY HeardRequest5
<1>2. /\ TypeOK /\ conn \in Conns /\ Sendable(asked) /\ Agreeing /\ "server" \in Parties
      /\ pc["server"] \notin Ended
  BY Others DEF IInv, TypeOK, AskedRight, Ended
<1>3. cmd \in Nat
  BY <1>2, ConnFields
<1>4. Target5(m) = asked /\ m[2] = cmd
  BY <1>2, <1>3, Request5Target
<1>5. LastWait = "response5" /\ Answer = Response5(Success5)
  BY <1>1 DEF LastWait, Answer
<1>6. pc["client"] = LastWait => Unread("client") = <<>>
  BY <1>2, <1>5 DEF Agreeing
<1> HIDE DEF cmd, m
<1>7. Take(b, r) = m /\ Drop(in["server"], n) = <<>>
  BY <1>1 DEF Heard
<1>8. CASE cmd = Connect
  <2>1. Serve(asked, n, Answer)
    BY <1>4, <1>5, <1>7, <1>8 DEF ServerRequest5
  <2>2. Moves("server", n, Answer, <<>>, "done") /\ target' = asked /\ asked' = asked
    BY <2>1 DEF Serve
  <2>3. IInv'
    BY <1>1, <1>2, <1>5, <1>6, <1>7, <2>2, ServerServes
  <2>4. pc'["server"] # "failed"
    BY <1>2, <2>2, Moved1
  <2> QED BY <2>3, <2>4
<1>9. CASE cmd # Connect
  <2>1. Fail("server")
    BY <1>4, <1>7, <1>9 DEF ServerRequest5
  <2>2. IInv'
    BY <1>2, <2>1, ServerFails
  <2>3. ~Acceptable
    BY <1>1, <1>9 DEF Acceptable, cmd
  <2> QED BY <2>2, <2>3 DEF Justified
<1> QED BY <1>8, <1>9

(* and that of a SOCKS 4 request;                                           *)
LEMMA TakesRequest4 ==
  ASSUME IInv, PMax < 16, pc["server"] = "request4",
         NEW n \in 0 .. Len(in["server"]), NEW b,
         b = rbuf["server"] \o Take(in["server"], n), NEW r, r = DecodeRequest4(b), r > 0,
         ServerRequest4(Take(b, r), n)
  PROVE  IInv' /\ (pc'["server"] = "failed" => Justified("server"))
<1> DEFINE cmd == conn.cmd
           user == conn.user
           m == Request4(cmd, asked, user)
<1>1. /\ conn.proto = "socks4" /\ pc["client"] \in {"response4"} \cup Gone
      /\ asked.type = Ipv4 /\ Heard("server", n, b, r, m)
  BY HeardRequest4
<1>2. /\ TypeOK /\ conn \in Conns /\ Sendable(asked) /\ Opening /\ "server" \in Parties
      /\ pc["server"] \notin Ended
  BY Others DEF IInv, TypeOK, AskedRight, Ended
<1>3. cmd \in Nat /\ user \in Users4
  BY <1>1, <1>2, ConnFields
<1>4. Target4(m) = asked /\ m[2] = cmd
  BY <1>1, <1>2, <1>3, Request4Target
<1>5. LastWait = "response4" /\ Answer = Response4(Success4)
  BY <1>1 DEF LastWait, Answer
<1>6. pc["client"] = LastWait => Unread("client") = <<>>
  BY <1>2, <1>5 DEF Opening
<1> HIDE DEF cmd, m, user
<1>7. Take(b, r) = m /\ Drop(in["server"], n) = <<>>
  BY <1>1 DEF Heard
<1>8. CASE cmd = Connect
  <2>1. Serve(asked, n, Answer)
    BY <1>4, <1>5, <1>7, <1>8 DEF ServerRequest4
  <2>2. Moves("server", n, Answer, <<>>, "done") /\ target' = asked /\ asked' = asked
    BY <2>1 DEF Serve
  <2>3. IInv'
    BY <1>1, <1>2, <1>5, <1>6, <1>7, <2>2, ServerServes
  <2>4. pc'["server"] # "failed"
    BY <1>2, <2>2, Moved1
  <2> QED BY <2>3, <2>4
<1>9. CASE cmd # Connect
  <2>1. Fail("server")
    BY <1>4, <1>7, <1>9 DEF ServerRequest4
  <2>2. IInv'
    BY <1>2, <2>1, ServerFails
  <2>3. ~Acceptable
    BY <1>1, <1>9 DEF Acceptable, cmd
  <2> QED BY <2>2, <2>3 DEF Justified
<1> QED BY <1>8, <1>9

(* a VMess request is served as it is.                                      *)
LEMMA TakesVmess ==
  ASSUME IInv, PMax < 16, pc["server"] = "vmess_request",
         NEW n \in 0 .. Len(in["server"]), NEW b,
         b = rbuf["server"] \o Take(in["server"], n),
         NEW m, m = Opened(b, Window), NEW r, r = DecodeVmessRequest(m, Window), r > 0,
         ServerVmessRequest(Take(m, r), Drop(b, r), n)
  PROVE  IInv' /\ pc'["server"] # "failed"
<1> DEFINE time == conn.gen
           pad == conn.pad
           w == VmessRequest(OwnUser, time, asked, pad)
<1>1. /\ conn.proto = "vmess" /\ pc["client"] \in {"vmess_response"} \cup Gone
      /\ Head(conn.user) = OwnUser /\ time \in Window /\ Heard("server", n, b, r, w)
  BY HeardVmess
<1>2. /\ TypeOK /\ conn \in Conns /\ Sendable(asked) /\ Opening /\ "server" \in Parties
      /\ pc["server"] \notin Ended
  BY Others DEF IInv, TypeOK, AskedRight, Ended
<1>3. time \in Nat /\ pad \in 0 .. 15
  BY <1>1, <1>2, ConnFields
<1>4. Window \in SUBSET Int
  <2>1. clock \in Int /\ Delta \in Int
    BY <1>2, BoundsNat DEF TypeOK
  <2> QED BY <2>1 DEF Window
<1>5. LastWait = "vmess_response" /\ Answer = VmessResponse(AuthInit(OwnUser, time))
  BY <1>1 DEF LastWait, Answer, ClientAuth
<1>6. pc["client"] = LastWait => Unread("client") = <<>>
  BY <1>2, <1>5 DEF Opening
<1>7. b \in Seq(Nat)
  BY <1>2, ReadPart
<1> HIDE DEF time, pad
<1>8. b = w /\ r = Len(b) /\ Drop(b, r) = <<>> /\ Drop(in["server"], n) = <<>>
  BY <1>1 DEF Heard
<1>9. /\ Take(m, Len(b)) = m /\ TargetV(m) = asked
      /\ WithNonce(AuthOf(m, Window), m) = AuthInit(OwnUser, time)
  <2>1. Taken(Opened(b, Window), Len(b), Window, asked, AuthInit(OwnUser, time))
    <3>1. b = VmessRequest(OwnUser, time, asked, pad) /\ Sendable(asked) /\ time \in Window
      BY <1>1, <1>2, <1>8
    <3> HIDE DEF w
    <3> QED BY <1>3, <1>4, <1>7, <3>1, VmessTaken
  <2> QED BY <2>1 DEF Taken
<1> HIDE DEF w
<1>10. /\ target' = asked /\ asked' = asked /\ Moves("server", n, Answer, <<>>, "done")
  BY <1>5, <1>8, <1>9 DEF ServerVmessRequest
<1>11. IInv'
  BY <1>1, <1>2, <1>5, <1>6, <1>8, <1>10, ServerServes
<1>12. pc'["server"] # "failed"
  BY <1>2, <1>10, Moved1
<1> QED BY <1>11, <1>12

-----------------------------------------------------------------------------
(* What the client hears: the server's choice of a method,                  *)
LEMMA HeardAck ==
  ASSUME IInv, PMax < 16, pc["client"] = "auth_ack",
         NEW n \in 0 .. Len(in["client"]), NEW b,
         b = rbuf["client"] \o Take(in["client"], n)
  PROVE  /\ ~(DecodeAuthAck(b) < 0)
         /\ DecodeAuthAck(b) > 0 =>
               /\ conn.proto = "socks5" /\ pc["server"] \in {"request5"} \cup Gone
               /\ pc["server"] = "request5" => Unread("server") = <<>>
               /\ Heard("client", n, b, DecodeAuthAck(b), AuthAck(NoAuth))
<1> DEFINE m == AuthAck(NoAuth)
<1>1. /\ TypeOK /\ conn \in Conns /\ Sendable(asked) /\ Protocol /\ Opening /\ Agreeing
      /\ Open /\ Over /\ "client" \in Parties
  BY Others DEF IInv, TypeOK, AskedRight
<1>2. conn.proto = "socks5" /\ LastWait # "auth_ack"
  <2>1. conn.proto \in {"socks4", "socks5", "vmess"}
    BY <1>1, ConnFields
  <2> QED BY <1>1, <2>1 DEF Protocol, FirstWait, LastWait, Ended
<1>3. m \in Seq(Nat)
  BY <1>1, Spoken
<1>4. pc["server"] \in {"vers", "auth_sel", "request4", "vmess_request", "request5"} \cup Gone
  <2>1. pc["server"] # "done"
    BY <1>1, <1>2 DEF Open, Gone
  <2> QED BY <1>1, <2>1 DEF Protocol, Ended, Gone
<1>5. Unread("client") = <<>> \/ Begins(Unread("client"), m)
  <2>1. CASE pc["server"] \in {"vers", "auth_sel", "request4", "vmess_request"}
    BY <1>1, <2>1 DEF Opening
  <2>2. CASE pc["server"] = "request5"
    BY <1>1, <2>2 DEF Agreeing
  <2>3. CASE pc["server"] \in Gone
    <3>1. Leftover = m
      BY <1>2 DEF Leftover
    <3> QED BY <1>1, <2>3, <3>1 DEF Over, Gone
  <2> QED BY <1>4, <2>1, <2>2, <2>3
<1> HIDE DEF m
<1>6. Begins(Unread("client"), m)
  BY <1>3, <1>5, NothingBegins
<1>7. /\ b \in Seq(Nat) /\ Agrees(b, m)
      /\ Complete(b, m) > 0 => Heard("client", n, b, Complete(b, m), m) /\ m # <<>>
      /\ Complete(b, m) \in Nat
  BY <1>1, <1>3, <1>6, HeardIs
<1>8. DecodeAuthAck(b) = Complete(b, m)
  BY <1>7, ReadAuthAck DEF m
<1>9. ASSUME DecodeAuthAck(b) > 0
      PROVE  /\ pc["server"] \in {"request5"} \cup Gone
             /\ pc["server"] = "request5" => Unread("server") = <<>>
  <2>1. b # <<>>
    BY <1>7, <1>8, <1>9 DEF Heard
  <2>2. Unread("client") # <<>>
    BY <1>1, <2>1, ReadPart
  <2>3. pc["server"] \notin {"vers", "auth_sel", "request4", "vmess_request"}
    BY <1>1, <2>2 DEF Opening
  <2> QED BY <1>1, <1>4, <2>3 DEF Agreeing
<1>10. ~(DecodeAuthAck(b) < 0)
  BY <1>7, <1>8
<1> QED BY <1>2, <1>7, <1>8, <1>9, <1>10 DEF m

(* and its answer, with data behind it.                                     *)
Answered(n, b, r) ==
    /\ pc["server"] = "done" /\ r = Len(Answer) /\ r <= Len(b)
    /\ Agrees(b, Answer)
    /\ b \o Drop(in["client"], n) = Answer \o Data("server")

PartOfAnswer(n, b) ==
    /\ b \in Seq(Nat) /\ Drop(in["client"], n) \in Seq(Nat)
    /\ \/ /\ pc["server"] = "done" /\ Agrees(b, Answer)
          /\ b \o Drop(in["client"], n) = Answer \o Data("server")
       \/ b = <<>>
       \/ conn.proto = "vmess" /\ Len(b) < 4

(* Before the tunnel is open for the server its client cannot decode an     *)
(* answer.                                                                  *)
LEMMA HeardPart ==
  ASSUME IInv, PMax < 16, pc["client"] = LastWait,
         NEW n \in 0 .. Len(in["client"]), NEW b,
         b = rbuf["client"] \o Take(in["client"], n)
  PROVE  PartOfAnswer(n, b)
<1>1. /\ TypeOK /\ conn \in Conns /\ Sendable(asked) /\ Protocol /\ Opening /\ Agreeing
      /\ Open /\ Over /\ "client" \in Parties
  BY Others DEF IInv, TypeOK, AskedRight
<1>2. conn.proto \in {"socks4", "socks5", "vmess"}
  BY <1>1, ConnFields
<1>3. LastWait \notin {"start", "auth_ack"} \cup Ended
  BY <1>2 DEF LastWait, Ended
<1> DEFINE w == Drop(in["client"], n)
<1>4. b \in Seq(Nat) /\ w \in Seq(Nat) /\ b \o w = Unread("client")
      /\ (Unread("client") = <<>> => b = <<>>)
  BY <1>1, ReadPart
<1> HIDE DEF w
<1>5. CASE pc["server"] \in {"vers", "auth_sel", "request4", "vmess_request"}
  <2>1. Unread("client") = <<>>
    BY <1>1, <1>5 DEF Opening
  <2> QED BY <1>4, <2>1 DEF PartOfAnswer, w
<1>6. CASE pc["server"] = "request5"
  <2>1. pc["client"] = "response5"
    BY <1>1, <1>3, <1>6 DEF Agreeing, Gone, Ended
  <2>2. Unread("client") = <<>>
    BY <1>1, <1>6, <2>1 DEF Agreeing
  <2> QED BY <1>4, <2>2 DEF PartOfAnswer, w
<1>7. CASE pc["server"] = "done"
  <2>1. Unread("client") = Answer \o Data("server")
    BY <1>1, <1>7 DEF Open
  <2>2. Answer \in Seq(Nat) /\ Data("server") \in Seq(Nat)
    BY <1>1, Spoken, Others, DataSent
  <2>3. Agrees(b \o w, Answer)
    BY <1>4, <2>1, <2>2, StartsWith
  <2>4. Agrees(b, Answer)
    BY <1>4, <2>2, <2>3, AgreesFront
  <2> QED BY <1>4, <1>7, <2>1, <2>4 DEF PartOfAnswer, w
<1>8. CASE pc["server"] \in Gone
  <2>1. Begins(Unread("client"), Leftover) /\ Leftover \in Seq(Nat)
    BY <1>1, <1>3, <1>8, Spoken DEF Over, Gone, Ended
  <2>2. Begins(b \o w, Leftover)
    BY <1>4, <2>1
  <2>3. Begins(b, Leftover)
    BY <1>4, <2>1, <2>2, WholeCame
  <2>4. CASE conn.proto = "vmess"
    <3>1. Leftover = <<0, 0>>
      BY <1>3, <2>4 DEF Leftover
    <3>2. Len(<<0, 0>>) = 2
      OBVIOUS
    <3>3. Len(b) <= 2
      BY <2>3, <3>1, <3>2 DEF Begins
    <3>4. Len(b) \in Nat
      BY <1>4, LenProperties
    <3>5. Len(b) < 4
      <4> DEFINE k == Len(b)
      <4>1. k \in Nat /\ k <= 2
        BY <3>3, <3>4
      <4> HIDE DEF k
      <4>2. k < 4
        BY <4>1
      <4> QED BY <4>2 DEF k
    <3> QED BY <1>4, <2>4, <3>5 DEF PartOfAnswer, w
  <2>5. CASE conn.proto # "vmess"
    <3>1. Leftover = <<>>
      BY <1>3, <2>5 DEF Leftover
    <3>2. b = <<>>
      BY <1>4, <2>3, <3>1, BeginsNothing
    <3> QED BY <1>4, <3>2 DEF PartOfAnswer, w
  <2> QED BY <2>4, <2>5
<1> QED BY <1>1, <1>5, <1>6, <1>7, <1>8 DEF Protocol, Ended, Gone

(* Nothing agrees with every message and completes none.                    *)
LEMMA NoneOf ==
  ASSUME NEW m \in Seq(Nat), Len(m) > 0
  PROVE  Agrees(<<>>, m) /\ Complete(<<>>, m) = 0
<1>1. Len(<<>>) = 0
  OBVIOUS
<1>2. Begins(<<>>, m)
  BY NothingBegins
<1> QED BY <1>1, <1>2 DEF Begins, Complete

AnswerDecoded(b) ==
    CASE conn.proto = "socks5" -> DecodeResponse5(b)
      [] conn.proto = "socks4" -> DecodeResponse4(b)
      [] conn.proto = "vmess" -> DecodeVmessResponse(CfbDec(ClientAuth, b), ClientAuth.nonce)

(* The decoders take the answer and leave the data behind it.               *)
LEMMA HeardAnswer ==
  ASSUME IInv, PMax < 16, pc["client"] = LastWait,
         NEW n \in 0 .. Len(in["client"]), NEW b,
         b = rbuf["client"] \o Take(in["client"], n), NEW r,
         r = AnswerDecoded(b)
  PROVE  ~(r < 0) /\ (r > 0 => Answered(n, b, r))
<1> DEFINE m == Answer
           w == Drop(in["client"], n)
<1>1. /\ TypeOK /\ conn \in Conns /\ Sendable(asked)
  BY DEF IInv, TypeOK, AskedRight
<1>2. conn.proto \in {"socks4", "socks5", "vmess"}
  BY <1>1, ConnFields
<1>3. /\ b \in Seq(Nat) /\ w \in Seq(Nat)
      /\ \/ /\ pc["server"] = "done" /\ Agrees(b, m) /\ b \o w = m \o Data("server")
         \/ b = <<>>
         \/ conn.proto = "vmess" /\ Len(b) < 4
  <2>1. PartOfAnswer(n, b)
    BY HeardPart
  <2> QED BY <2>1, Zenon DEF PartOfAnswer
<1>0. Len(b) \in Nat
  BY <1>3, LenProperties
<1> HIDE DEF w
<1>4. m \in Seq(Nat) /\ Len(m) > 0 /\ Len(m) \in Nat /\ (Agrees(b, m) => r = Complete(b, m))
  <2>1. CASE conn.proto = "socks5"
    <3> DEFINE y == Response5(Success5)
    <3>1. m = y /\ r = DecodeResponse5(b)
      BY <2>1 DEF Answer, AnswerDecoded
    <3>2. y \in Seq(Nat) /\ Len(y) = 10 /\ (Agrees(b, y) => DecodeResponse5(b) = Complete(b, y))
      BY <1>3, ReadResponse5
    <3> HIDE DEF m, y
    <3> QED BY <3>1, <3>2
  <2>2. CASE conn.proto = "socks4"
    <3> DEFINE y == Response4(Success4)
    <3>1. m = y /\ r = DecodeResponse4(b)
      BY <2>2 DEF Answer, AnswerDecoded
    <3>2. y \in Seq(Nat) /\ Len(y) = 8 /\ (Agrees(b, y) => DecodeResponse4(b) = Complete(b, y))
      BY <1>3, ReadResponse4
    <3> HIDE DEF m, y
    <3> QED BY <3>1, <3>2
  <2>3. CASE conn.proto = "vmess"
    <3> DEFINE user == Head(conn.user)
               time == conn.gen
               auth == AuthInit(user, time)
    <3>1. m = VmessResponse(auth) /\ r = DecodeVmessResponse(CfbDec(auth, b), auth.nonce)
      BY <2>3 DEF Answer, AnswerDecoded, ClientAuth
    <3>2. user \in Nat /\ time \in Nat
      BY <1>1, <2>3, ConnFields DEF OwnUser
    <3> HIDE DEF m, user, time
    <3>3. VmessResponse(auth) \in Seq(Nat) /\ Len(VmessResponse(auth)) = 4
          /\ \A x \in Seq(Nat) : Agrees(x, VmessResponse(auth)) =>
                DecodeVmessResponse(CfbDec(auth, x), auth.nonce)
                    = Complete(x, VmessResponse(auth))
      BY <3>2, ReadVmessResponse
    <3> DEFINE y == VmessResponse(auth)
    <3>4. y \in Seq(Nat) /\ Len(y) = 4
          /\ (Agrees(b, y) => DecodeVmessResponse(CfbDec(auth, b), auth.nonce) = Complete(b, y))
      BY <1>3, <3>3
    <3>5. m = y /\ r = DecodeVmessResponse(CfbDec(auth, b), auth.nonce)
      BY <3>1
    <3> HIDE DEF auth, y
    <3> HIDE DEF m
    <3>6. y \in Seq(Nat) /\ Len(y) > 0 /\ Len(y) \in Nat
      BY <3>4
    <3>7. Agrees(b, y) => r = Complete(b, y)
      BY <3>4, <3>5
    <3> QED BY <3>5, <3>6, <3>7, Zenon
  <2> QED BY <1>2, <2>1, <2>2, <2>3
<1>5. CASE pc["server"] = "done" /\ Agrees(b, m) /\ b \o w = m \o Data("server")
  <2>1. r = Complete(b, m)
    BY <1>4, <1>5
  <2> HIDE DEF m
  <2>2. ~(r < 0) /\ (r > 0 => r = Len(m) /\ r <= Len(b))
    <3> DEFINE k == Len(b)
               l == Len(m)
    <3>1. k \in Nat /\ l \in Nat /\ r = IF k < l THEN 0 ELSE l
      BY <1>0, <1>4, <2>1 DEF Complete
    <3> HIDE DEF k, l
    <3>2. ~(r < 0) /\ (r > 0 => r = l /\ r <= k)
      BY <3>1
    <3> QED BY <3>2 DEF k, l
  <2> QED BY <1>5, <2>2 DEF Answered, m, w
<1>6. CASE b = <<>>
  <2> HIDE DEF m
  <2>1. Agrees(b, m) /\ Complete(b, m) = 0
    BY <1>4, <1>6, NoneOf
  <2>2. r = 0
    BY <1>4, <2>1
  <2> QED BY <2>2
<1>7. CASE conn.proto = "vmess" /\ Len(b) < 4
  <2> DEFINE user == Head(conn.user)
             time == conn.gen
  <2>1. r = DecodeVmessResponse(CfbDec(AuthInit(user, time), b), AuthInit(user, time).nonce)
    BY <1>7 DEF ClientAuth, AnswerDecoded
  <2>2. user \in Nat /\ time \in Nat
    BY <1>1, <1>7, ConnFields DEF OwnUser
  <2> HIDE DEF user, time
  <2>3. r = 0
    BY <1>3, <1>7, <2>1, <2>2, TooShort
  <2> QED BY <2>3
<1> QED BY <1>3, <1>5, <1>6, <1>7

(* The answer is taken, and just the data are left of it.                   *)
LEMMA AnswerTaken ==
  ASSUME TypeOK, PMax < 16, Sendable(asked),
         NEW n \in 0 .. Len(in["client"]), NEW b,
         b = rbuf["client"] \o Take(in["client"], n), NEW r, Answered(n, b, r)
  PROVE  /\ Take(b, r) = Answer
         /\ Drop(b, r) \in Seq(Nat) /\ Drop(in["client"], n) \in Seq(Nat)
         /\ Drop(b, r) \o Drop(in["client"], n) = Data("server")
         /\ IsSuffix(Drop(in["client"], n), Data("server"))
<1> DEFINE w == Drop(in["client"], n)
           m == Answer
           d == Data("server")
<1>1. "client" \in Parties /\ "server" \in Parties
  BY Others
<1>2. b \in Seq(Nat) /\ w \in Seq(Nat)
  BY <1>1, ReadPart
<1>3. m \in Seq(Nat) /\ d \in Seq(Nat)
  BY <1>1, Spoken, DataSent DEF TypeOK
<1>4. r = Len(m) /\ Len(m) <= Len(b) /\ Agrees(b, m) /\ b \o w = m \o d
  BY DEF Answered
<1> HIDE DEF w, m, d
<1>5. r \in 0 .. Len(b)
  <2> DEFINE k == Len(b)
  <2>1. k \in Nat /\ r \in Nat /\ r <= k
    BY <1>2, <1>3, <1>4, LenProperties
  <2> HIDE DEF k
  <2>2. r \in 0 .. k
    BY <2>1
  <2> QED BY <2>2 DEF k
<1>6. Take(b, r) = m
  BY <1>2, <1>3, <1>4, AgreesWhole
<1> DEFINE x == Drop(b, r)
<1>7. x \in Seq(Nat)
  BY <1>2, <1>5, DropProperties
<1>8. x \o w = d
  <2>1. x \o w = Drop(b \o w, r)
    BY <1>2, <1>5, DropFirst
  <2>2. Drop(m \o d, Len(m)) = d
    BY <1>3, DropFront
  <2> QED BY <1>4, <2>1, <2>2
<1> HIDE DEF x
<1>9. IsSuffix(w, d)
  <2>1. Drop(x \o w, Len(x)) = w
    BY <1>2, <1>7, DropFront
  <2>2. Len(x) \in 0 .. Len(x \o w)
    BY <1>2, <1>7, Joined
  <2>3. IsSuffix(Drop(d, Len(x)), d)
    BY <1>3, <1>8, <2>2, DropSuffix
  <2> QED BY <1>8, <2>1, <2>3
<1> QED BY <1>2, <1>6, <1>7, <1>8, <1>9 DEF w, m, d, x

-----------------------------------------------------------------------------
(* The client's handlers never fail.                                        *)
Replies(n, reply, rest, next) ==
    /\ pc'["client"] = next /\ pc'["server"] = pc["server"]
    /\ Unread("server")' = Unread("server") \o reply
    /\ Unread("client")' = rest \o Drop(in["client"], n)
    /\ rbuf'["client"] = rest
    /\ conn' = conn /\ asked' = asked /\ sent' = sent /\ target' = target
    /\ TypeOK' /\ CutRight' /\ SentRight' /\ AskedRight'

(* What such a step changes.                                                *)
LEMMA ClientReplies ==
  ASSUME IInv, pc["client"] \notin Ended, pc["client"] # "start",
         NEW n, Drop(in["client"], n) \in Seq(Nat),
         NEW reply \in Seq(Nat), NEW rest \in Seq(Nat),
         NEW next \in Messages \cup {"done"}, MovesOn("client", n, reply, rest, next)
  PROVE  Replies(n, reply, rest, next)
<1>1. TypeOK /\ CutRight /\ SentRight /\ AskedRight
  BY DEF IInv
<1>2. "client" \in Parties /\ Other("client") = "server" /\ "server" \in Parties
  BY Others
<1>3. /\ Moves("client", n, reply, rest, next) /\ asked' = asked /\ target' = target
      /\ asked' \in Targets /\ target' \in Targets \cup {NoTarget}
  BY <1>1 DEF MovesOn, TypeOK
<1>4. /\ Moved2("client", "server", n, reply, rest, next)
      /\ TypeOK' /\ CutRight' /\ SentRight'
  <2>1. /\ Moved2("client", Other("client"), n, reply, rest, next)
        /\ TypeOK' /\ CutRight' /\ SentRight'
    BY <1>1, <1>2, <1>3, MovesKeep
  <2> QED BY <1>2, <2>1
<1>5. Unread("client")' = rest \o Drop(in["client"], n)
  BY <1>4 DEF Moved2, Unread
<1>6. Unread("server")' = Unread("server") \o reply
  <2>1. rbuf["server"] \o (in["server"] \o reply) = Unread("server") \o reply
    BY <1>1, <1>2, UnreadGrows
  <2> QED BY <1>4, <2>1 DEF Moved2, Unread
<1>7. AskedRight'
  <2>1. next # "start"
    BY DEF Messages
  <2> QED BY <1>1, <1>3, <1>4, <2>1 DEF Moved2, AskedRight, Resolved4
<1> QED BY <1>3, <1>4, <1>5, <1>6, <1>7 DEF Moved2, Replies

(* The client sends its request.                                            *)
LEMMA TakesAck ==
  ASSUME IInv, PMax < 16, pc["client"] = "auth_ack",
         NEW n \in 0 .. Len(in["client"]), NEW b,
         b = rbuf["client"] \o Take(in["client"], n), NEW r, r = DecodeAuthAck(b), r > 0,
         ClientAuthAck(Take(b, r), Drop(b, r), n)
  PROVE  IInv' /\ pc'["client"] # "failed"
<1> DEFINE m == AuthAck(NoAuth)
           q == Request5(conn.cmd, asked)
<1>1. /\ conn.proto = "socks5" /\ pc["server"] \in {"request5"} \cup Gone
      /\ pc["server"] = "request5" => Unread("server") = <<>>
      /\ Heard("client", n, b, r, m)
  BY HeardAck
<1>2. /\ TypeOK /\ conn \in Conns /\ Sendable(asked) /\ Protocol
      /\ "client" \in Parties /\ pc["client"] \notin Ended
  BY Others DEF IInv, TypeOK, AskedRight, Ended
<1>3. q \in Seq(Nat) /\ <<>> \in Seq(Nat)
  BY <1>2, Spoken
<1>4. m[2] = NoAuth
  BY ReadAuthAck
<1>5. Take(b, r) = m /\ Drop(b, r) = <<>> /\ Drop(in["client"], n) = <<>>
  BY <1>1 DEF Heard
<1> HIDE DEF m, q
<1>6. MovesOn("client", n, q, <<>>, "response5")
  BY <1>4, <1>5 DEF ClientAuthAck, q
<1>7. Replies(n, q, <<>>, "response5")
  <2>1. pc["client"] # "start" /\ "response5" \in Messages \cup {"done"}
    BY DEF Messages
  <2>2. Drop(in["client"], n) \in Seq(Nat)
    BY <1>3, <1>5
  <2> QED BY <1>2, <1>3, <1>6, <2>1, <2>2, ClientReplies
<1>8. /\ pc'["client"] = "response5" /\ pc'["server"] = pc["server"]
      /\ conn' = conn /\ asked' = asked
      /\ Unread("client")' = <<>> \o Drop(in["client"], n)
      /\ Unread("server")' = Unread("server") \o q
  BY <1>7 DEF Replies
<1>9. Unread("client")' = <<>>
  <2>1. <<>> \o <<>> = <<>>
    OBVIOUS
  <2> QED BY <1>5, <1>8, <2>1
<1>10. Protocol'
  <2>1. FirstWait' = FirstWait /\ LastWait' = LastWait
    BY <1>8, SameMessages
  <2>2. LastWait = "response5"
    BY <1>1 DEF LastWait
  <2> QED BY <1>2, <1>8, <2>1, <2>2 DEF Protocol
<1>11. Agreeing'
  <2> SUFFICES ASSUME pc["server"] = "request5" PROVE Agreeing'
    BY <1>8 DEF Agreeing
  <2>1. Unread("server")' = q
    BY <1>1, <1>3, <1>8, DropNone
  <2>2. Begins(q, q)
    BY <1>3, NothingBegins
  <2> QED BY <1>8, <1>9, <2>1, <2>2 DEF Agreeing, q
<1>12. Over'
  <2>1. Leftover' = <<>>
    BY <1>1, <1>8 DEF Leftover
  <2>2. Begins(<<>>, <<>>)
    BY <1>3, NothingBegins
  <2> QED BY <1>8, <1>9, <2>1, <2>2 DEF Over, Gone
<1>13. Opening' /\ Open'
  BY <1>1, <1>8 DEF Opening, Open, Gone
<1> QED BY <1>7, <1>8, <1>10, <1>11, <1>12, <1>13 DEF Replies, IInv

(* The client has its answer: it finds the data, or a part of them.         *)
LEMMA ClientOpens ==
  ASSUME IInv, PMax < 16, pc["client"] = LastWait, pc["server"] = "done",
         NEW n, Drop(in["client"], n) \in Seq(Nat), NEW rest \in Seq(Nat),
         IF conn.proto = "vmess" THEN rest \o Drop(in["client"], n) = Data("server")
         ELSE IsSuffix(rest \o Drop(in["client"], n), Data("server")),
         MovesOn("client", n, <<>>, rest, "done")
  PROVE  IInv' /\ pc'["client"] # "failed"
<1>1. /\ TypeOK /\ conn \in Conns /\ Protocol /\ Open /\ "server" \in Parties
  BY Others DEF IInv, TypeOK
<1>2. LastWait \notin Ended /\ LastWait # "start"
  <2>1. conn.proto \in {"socks4", "socks5", "vmess"}
    BY <1>1, ConnFields
  <2> QED BY <2>1 DEF LastWait, Ended
<1>3. Replies(n, <<>>, rest, "done")
  <2>1. <<>> \in Seq(Nat) /\ "done" \in Messages \cup {"done"}
    OBVIOUS
  <2> QED BY <1>2, <2>1, ClientReplies
<1>4. /\ pc'["client"] = "done" /\ pc'["server"] = pc["server"]
      /\ conn' = conn /\ asked' = asked /\ sent' = sent /\ target' = target
      /\ Unread("client")' = rest \o Drop(in["client"], n)
      /\ Unread("server")' = Unread("server") \o <<>>
  BY <1>3 DEF Replies
<1>5. Unread("server")' = Unread("server")
  <2>1. Unread("server") \in Seq(Nat)
    BY <1>1, Streams
  <2> QED BY <1>4, <2>1, DropNone
<1>6. Data("server")' = Data("server") /\ Data("client")' = Data("client")
  BY <1>4 DEF Data
<1>7. FirstWait' = FirstWait /\ LastWait' = LastWait
  BY <1>4, SameMessages
<1>8. Protocol'
  BY <1>1, <1>4, <1>7 DEF Protocol, Ended
<1>9. Open'
  <2>1. target = asked /\ Unread("server") = Data("client")
    BY <1>1, <1>2 DEF Open, Gone, Ended
  <2>2. (pc["client"] # LastWait)'
    BY <1>2, <1>4, <1>7 DEF Ended
  <2>3. (IF conn.proto = "vmess" THEN Unread("client") = Data("server")
         ELSE IsSuffix(Unread("client"), Data("server")))'
    BY <1>4, <1>6
  <2> QED BY <1>4, <1>5, <1>6, <2>1, <2>2, <2>3 DEF Open
<1>10. Opening' /\ Agreeing' /\ Over'
  BY <1>4 DEF Opening, Agreeing, Over, Gone
<1> QED BY <1>3, <1>4, <1>8, <1>9, <1>10 DEF Replies, IInv

(* A SOCKS client loses with its rbuffer what it has read of the data.      *)
LEMMA TakesResponse ==
  ASSUME IInv, PMax < 16, pc["client"] \in {"response4", "response5"},
         NEW n \in 0 .. Len(in["client"]), NEW b,
         b = rbuf["client"] \o Take(in["client"], n), NEW r,
         r = IF pc["client"] = "response4" THEN DecodeResponse4(b) ELSE DecodeResponse5(b)
  PROVE  /\ ~(r < 0)
         /\ r > 0 /\ ClientResponse(Take(b, r), n) => IInv' /\ pc'["client"] # "failed"
<1>1. /\ TypeOK /\ conn \in Conns /\ Sendable(asked) /\ Protocol
  BY DEF IInv, TypeOK, AskedRight
<1>2. /\ pc["client"] = LastWait /\ conn.proto \in {"socks4", "socks5"}
      /\ pc["client"] = "response4" <=> conn.proto = "socks4"
  <2>1. conn.proto \in {"socks4", "socks5", "vmess"}
    BY <1>1, ConnFields
  <2> QED BY <1>1, <2>1 DEF Protocol, FirstWait, LastWait, Ended
<1>3. r = AnswerDecoded(b)
  BY <1>2 DEF AnswerDecoded
<1> DEFINE code == IF pc["client"] = "response4" THEN Success4 ELSE Success5
<1>4. Answer[2] = code
  <2>1. Response4(Success4)[2] = Success4 /\ Response5(Success5)[2] = Success5
    BY ReadResponse4, ReadResponse5
  <2> QED BY <1>2, <2>1 DEF Answer
<1>5. ~(r < 0) /\ (r > 0 => Answered(n, b, r))
  BY <1>2, <1>3, HeardAnswer
<1>6. ASSUME r > 0, ClientResponse(Take(b, r), n)
      PROVE  IInv' /\ pc'["client"] # "failed"
  <2>1. Answered(n, b, r)
    BY <1>5, <1>6
  <2>2. /\ Take(b, r) = Answer /\ Drop(in["client"], n) \in Seq(Nat)
        /\ IsSuffix(Drop(in["client"], n), Data("server"))
    BY <1>1, <2>1, AnswerTaken
  <2>3. MovesOn("client", n, <<>>, <<>>, "done")
    BY <1>4, <1>6, <2>2 DEF ClientResponse
  <2>4. <<>> \o Drop(in["client"], n) = Drop(in["client"], n) /\ <<>> \in Seq(Nat)
    BY <2>2, DropNone
  <2>5. IsSuffix(<<>> \o Drop(in["client"], n), Data("server"))
    BY <2>2, <2>4
  <2>6. pc["server"] = "done" /\ conn.proto # "vmess"
    BY <1>2, <2>1 DEF Answered
  <2> QED BY <1>2, <2>2, <2>3, <2>4, <2>5, <2>6, ClientOpens
<1> QED BY <1>5, <1>6

(* A VMess client keeps it.                                                 *)
LEMMA TakesVmessResponse ==
  ASSUME IInv, PMax < 16, pc["client"] = "vmess_response",
         NEW n \in 0 .. Len(in["client"]), NEW b,
         b = rbuf["client"] \o Take(in["client"], n), NEW r,
         r = DecodeVmessResponse(CfbDec(ClientAuth, b), ClientAuth.nonce)
  PROVE  /\ ~(r < 0)
         /\ r > 0 /\ ClientVmessResponse(Drop(b, r), n) => IInv' /\ pc'["client"] # "failed"
<1>1. /\ TypeOK /\ conn \in Conns /\ Sendable(asked) /\ Protocol
  BY DEF IInv, TypeOK, AskedRight
<1>2. pc["client"] = LastWait /\ conn.proto = "vmess"
  <2>1. conn.proto \in {"socks4", "socks5", "vmess"}
    BY <1>1, ConnFields
  <2> QED BY <1>1, <2>1 DEF Protocol, FirstWait, LastWait, Ended
<1>3. r = AnswerDecoded(b)
  BY <1>2 DEF AnswerDecoded
<1>5. ~(r < 0) /\ (r > 0 => Answered(n, b, r))
  BY <1>2, <1>3, HeardAnswer
<1>6. ASSUME r > 0, ClientVmessResponse(Drop(b, r), n)
      PROVE  IInv' /\ pc'["client"] # "failed"
  <2>1. Answered(n, b, r)
    BY <1>5, <1>6
  <2>2. /\ Drop(b, r) \in Seq(Nat) /\ Drop(in["client"], n) \in Seq(Nat)
        /\ Drop(b, r) \o Drop(in["client"], n) = Data("server")
    BY <1>1, <2>1, AnswerTaken
  <2>3. MovesOn("client", n, <<>>, Drop(b, r), "done")
    BY <1>6 DEF ClientVmessResponse
  <2>4. pc["server"] = "done"
    BY <2>1 DEF Answered
  <2> QED BY <1>2, <2>2, <2>3, <2>4, ClientOpens
<1> QED BY <1>5, <1>6

-----------------------------------------------------------------------------
(* Steps.  Every one keeps the invariant, and none fails without a reason.  *)
Sound(p) ==
    /\ IInv'
    /\ pc'[p] = "failed" => Justified(p)
    /\ pc'[Other(p)] = pc[Other(p)]

(* Only the party that acts changes its state.                              *)
LEMMA OthersWait ==
  ASSUME TypeOK, NEW p \in Parties, NEW n \in Nat, Receive(p, n)
  PROVE  pc'[Other(p)] = pc[Other(p)]
<1>1. Other(p) # p /\ pc \in [Parties -> Messages \cup Ended \cup {"start", "vers"}]
  BY Others DEF TypeOK
<1>2. pc' = pc \/ \E m : Goes(p, m)
  <2>1. ASSUME NEW how, NEW last, Ends(p, how, last) PROVE \E m : Goes(p, m)
    BY <2>1 DEF Ends
  <2>2. Fail(p) => \E m : Goes(p, m)
    BY <2>1 DEF Fail
  <2>3. ASSUME NEW k, NEW reply, NEW rest, NEW next, Moves(p, k, reply, rest, next)
        PROVE  \E m : Goes(p, m)
    BY <2>3 DEF Moves
  <2>4. ASSUME NEW k, NEW reply, NEW rest, NEW next, MovesOn(p, k, reply, rest, next)
        PROVE  \E m : Goes(p, m)
    BY <2>3, <2>4 DEF MovesOn
  <2>5. ASSUME NEW t, NEW k, NEW reply, Serve(t, k, reply), p = "server"
        PROVE  \E m : Goes(p, m)
    BY <2>3, <2>5 DEF Serve
  <2>6. ASSUME NEW m, NEW rest, Handle(p, m, rest, n)
        PROVE  \E x : Goes(p, x)
    <3>1. CASE p = "server" /\ ServerAuthSel(m, rest, n)
      BY <2>2, <2>4, <3>1 DEF ServerAuthSel
    <3>2. CASE p = "server" /\ ServerRequest5(m, n)
      BY <2>2, <2>5, <3>2 DEF ServerRequest5
    <3>3. CASE p = "server" /\ ServerRequest4(m, n)
      BY <2>2, <2>5, <3>3 DEF ServerRequest4
    <3>4. CASE p = "server" /\ ServerVmessRequest(m, rest, n)
      BY <2>3, <3>4 DEF ServerVmessRequest
    <3>5. CASE p = "client" /\ ClientAuthAck(m, rest, n)
      BY <2>2, <2>4, <3>5 DEF ClientAuthAck
    <3>6. CASE p = "client" /\ ClientResponse(m, n)
      BY <2>2, <2>4, <3>6 DEF ClientResponse
    <3>7. CASE p = "client" /\ ClientVmessResponse(rest, n)
      BY <2>4, <3>7 DEF ClientVmessResponse
    <3> QED BY <2>6, <3>1, <3>2, <3>3, <3>4, <3>5, <3>6, <3>7 DEF Handle
  <2> QED BY <2>2, <2>6 DEF Receive
<1>3. ASSUME NEW m, Goes(p, m) PROVE pc'[Other(p)] = pc[Other(p)]
  <2> DEFINE q == Other(p)
  <2>1. pc' = [pc EXCEPT ![p] = m] /\ q # p
    BY <1>1, <1>3 DEF Goes
  <2> HIDE DEF q
  <2>2. pc'[q] = pc[q]
    BY <2>1
  <2> QED BY <2>2 DEF q
<1> QED BY <1>2, <1>3

(* The server receives a part of a message,                                 *)
LEMMA ServerReceives ==
  ASSUME IInv, PMax < 16, NEW n \in 0 .. Len(in["server"]), Receive("server", n)
  PROVE  Sound("server")
<1>1. /\ TypeOK /\ "server" \in Parties /\ n \in Nat /\ Protocol
      /\ pc["server"] \in Messages /\ pc["server"] \notin Ended
  BY Others DEF IInv, Receive, Messages, Ended
<1>2. pc'[Other("server")] = pc[Other("server")]
  BY <1>1, OthersWait
<1>3. PICK b, m, r :
         /\ b = rbuf["server"] \o Take(in["server"], n)
         /\ m = Plain("server", b) /\ r = Decoded("server", m)
         /\ \/ /\ r = 0
               /\ rbuf' = [rbuf EXCEPT !["server"] = b]
               /\ in' = [in EXCEPT !["server"] = Drop(in["server"], n)]
               /\ should_read' = [should_read EXCEPT !["server"] = TRUE]
               /\ UNCHANGED <<conn, asked, pc, cut, target, sent, clock>>
            \/ r < 0 /\ Fail("server")
            \/ r > 0 /\ Handle("server", Take(m, r), Drop(b, r), n)
  BY DEF Receive
<1>4. pc["server"] \in {"auth_sel", "request5", "request4", "vmess_request"}
  BY <1>1 DEF Protocol, Messages, Ended
<1>5. CASE r = 0 /\ rbuf' = [rbuf EXCEPT !["server"] = b]
  <2>1. /\ in' = [in EXCEPT !["server"] = Drop(in["server"], n)]
        /\ should_read' = [should_read EXCEPT !["server"] = TRUE]
        /\ UNCHANGED <<conn, asked, pc, cut, target, sent, clock>>
    BY <1>3, <1>5
  <2>2. IInv'
    BY <1>1, <1>3, <1>5, <2>1, ReadsOn
  <2>3. pc'["server"] # "failed"
    BY <1>1, <2>1 DEF Ended
  <2> QED BY <1>2, <2>2, <2>3 DEF Sound
<1>6. CASE r < 0 /\ Fail("server")
  <2>1. IInv'
    BY <1>1, <1>6, ServerFails
  <2>2. Justified("server")
    <3>1. CASE pc["server"] = "auth_sel"
      <4>1. r = DecodeAuthSel(b)
        BY <1>3, <3>1 DEF Plain, Decoded
      <4> QED BY <1>3, <1>6, <3>1, <4>1, HeardAuthSel
    <3>2. CASE pc["server"] = "request5"
      <4>1. r = DecodeRequest5(b)
        BY <1>3, <3>2 DEF Plain, Decoded
      <4> QED BY <1>3, <1>6, <3>2, <4>1, HeardRequest5
    <3>3. CASE pc["server"] = "request4"
      <4>1. r = DecodeRequest4(b)
        BY <1>3, <3>3 DEF Plain, Decoded
      <4> QED BY <1>3, <1>6, <3>3, <4>1, HeardRequest4
    <3>4. CASE pc["server"] = "vmess_request"
      <4>1. r = DecodeVmessRequest(Opened(b, Window), Window)
        BY <1>3, <3>4 DEF Plain, Decoded
      <4> QED BY <1>3, <1>6, <3>4, <4>1, HeardVmess
    <3> QED BY <1>4, <3>1, <3>2, <3>3, <3>4
  <2> QED BY <1>2, <2>1, <2>2 DEF Sound
<1>7. CASE r > 0 /\ Handle("server", Take(m, r), Drop(b, r), n)
  <2>1. \/ ServerAuthSel(Take(m, r), Drop(b, r), n)
        \/ ServerRequest5(Take(m, r), n)
        \/ ServerRequest4(Take(m, r), n)
        \/ ServerVmessRequest(Take(m, r), Drop(b, r), n)
    BY <1>7 DEF Handle
  <2>2. IInv' /\ (pc'["server"] = "failed" => Justified("server"))
    <3>1. CASE ServerAuthSel(Take(m, r), Drop(b, r), n)
      <4>1. pc["server"] = "auth_sel"
        BY <3>1 DEF ServerAuthSel
      <4>2. m = b /\ r = DecodeAuthSel(b)
        BY <1>3, <4>1 DEF Plain, Decoded
      <4>3. ServerAuthSel(Take(b, r), Drop(b, r), n)
        BY <3>1, <4>2
      <4> QED BY <1>3, <1>7, <4>1, <4>2, <4>3, TakesAuthSel
    <3>2. CASE ServerRequest5(Take(m, r), n)
      <4>1. pc["server"] = "request5"
        BY <3>2 DEF ServerRequest5
      <4>2. m = b /\ r = DecodeRequest5(b)
        BY <1>3, <4>1 DEF Plain, Decoded
      <4>3. ServerRequest5(Take(b, r), n)
        BY <3>2, <4>2
      <4> QED BY <1>3, <1>7, <4>1, <4>2, <4>3, TakesRequest5
    <3>3. CASE ServerRequest4(Take(m, r), n)
      <4>1. pc["server"] = "request4"
        BY <3>3 DEF ServerRequest4
      <4>2. m = b /\ r = DecodeRequest4(b)
        BY <1>3, <4>1 DEF Plain, Decoded
      <4>3. ServerRequest4(Take(b, r), n)
        BY <3>3, <4>2
      <4> QED BY <1>3, <1>7, <4>1, <4>2, <4>3, TakesRequest4
    <3>4. CASE ServerVmessRequest(Take(m, r), Drop(b, r), n)
      <4>1. pc["server"] = "vmess_request"
        BY <3>4 DEF ServerVmessRequest
      <4>2. m = Opened(b, Window) /\ r = DecodeVmessRequest(m, Window)
        BY <1>3, <4>1 DEF Plain, Decoded
      <4> QED BY <1>3, <1>7, <3>4, <4>1, <4>2, TakesVmess
    <3> QED BY <2>1, <3>1, <3>2, <3>3, <3>4
  <2> QED BY <1>2, <2>2 DEF Sound
<1> QED BY <1>3, <1>5, <1>6, <1>7

(* and so does the client.                                                  *)
LEMMA ClientReceives ==
  ASSUME IInv, PMax < 16, NEW n \in 0 .. Len(in["client"]), Receive("client", n)
  PROVE  Sound("client")
<1>1. /\ TypeOK /\ conn \in Conns /\ "client" \in Parties /\ n \in Nat /\ Protocol
      /\ pc["client"] \in Messages /\ pc["client"] \notin Ended
  BY Others DEF IInv, TypeOK, Receive, Messages, Ended
<1>2. pc'[Other("client")] = pc[Other("client")]
  BY <1>1, OthersWait
<1>3. PICK b, m, r :
         /\ b = rbuf["client"] \o Take(in["client"], n)
         /\ m = Plain("client", b) /\ r = Decoded("client", m)
         /\ \/ /\ r = 0
               /\ rbuf' = [rbuf EXCEPT !["client"] = b]
               /\ in' = [in EXCEPT !["client"] = Drop(in["client"], n)]
               /\ should_read' = [should_read EXCEPT !["client"] = TRUE]
               /\ UNCHANGED <<conn, asked, pc, cut, target, sent, clock>>
            \/ r < 0 /\ Fail("client")
            \/ r > 0 /\ Handle("client", Take(m, r), Drop(b, r), n)
  BY DEF Receive
<1>4. pc["client"] \in {"auth_ack", "response4", "response5", "vmess_response"}
  <2>1. conn.proto \in {"socks4", "socks5", "vmess"}
    BY <1>1, ConnFields
  <2> QED BY <1>1, <2>1 DEF Protocol, FirstWait, LastWait, Messages, Ended
<1>5. /\ ~(r < 0)
      /\ r > 0 /\ Handle("client", Take(m, r), Drop(b, r), n) =>
            IInv' /\ pc'["client"] # "failed"
  <2>1. CASE pc["client"] = "auth_ack"
    <3>1. m = b /\ r = DecodeAuthAck(b)
      BY <1>3, <2>1 DEF Plain, Decoded
    <3>2. ~(r < 0)
      BY <1>3, <2>1, <3>1, HeardAck
    <3>3. ASSUME r > 0, Handle("client", Take(m, r), Drop(b, r), n)
          PROVE  IInv' /\ pc'["client"] # "failed"
      <4>1. ClientAuthAck(Take(b, r), Drop(b, r), n)
        BY <2>1, <3>1, <3>3 DEF Handle, ClientResponse, ClientVmessResponse
      <4> QED BY <1>3, <2>1, <3>1, <3>3, <4>1, TakesAck
    <3> QED BY <3>2, <3>3
  <2>2. CASE pc["client"] \in {"response4", "response5"}
    <3>1. m = b
          /\ r = IF pc["client"] = "response4" THEN DecodeResponse4(b) ELSE DecodeResponse5(b)
      BY <1>3, <2>2 DEF Plain, Decoded
    <3>2. /\ ~(r < 0)
          /\ r > 0 /\ ClientResponse(Take(b, r), n) => IInv' /\ pc'["client"] # "failed"
      BY <1>3, <2>2, <3>1, TakesResponse
    <3>3. Handle("client", Take(m, r), Drop(b, r), n) => ClientResponse(Take(b, r), n)
      BY <2>2, <3>1 DEF Handle, ClientAuthAck, ClientVmessResponse
    <3> QED BY <3>2, <3>3
  <2>3. CASE pc["client"] = "vmess_response"
    <3>1. r = DecodeVmessResponse(CfbDec(ClientAuth, b), ClientAuth.nonce)
      BY <1>3, <2>3 DEF Plain, Decoded
    <3>2. /\ ~(r < 0)
          /\ r > 0 /\ ClientVmessResponse(Drop(b, r), n) =>
                IInv' /\ pc'["client"] # "failed"
      BY <1>3, <2>3, <3>1, TakesVmessResponse
    <3>3. Handle("client", Take(m, r), Drop(b, r), n) => ClientVmessResponse(Drop(b, r), n)
      BY <2>3 DEF Handle, ClientAuthAck, ClientResponse
    <3> QED BY <3>2, <3>3
  <2> QED BY <1>4, <2>1, <2>2, <2>3
<1>6. CASE r = 0 /\ rbuf' = [rbuf EXCEPT !["client"] = b]
  <2>1. /\ in' = [in EXCEPT !["client"] = Drop(in["client"], n)]
        /\ should_read' = [should_read EXCEPT !["client"] = TRUE]
        /\ UNCHANGED <<conn, asked, pc, cut, target, sent, clock>>
    BY <1>3, <1>6
  <2>2. IInv'
    BY <1>1, <1>3, <1>6, <2>1, ReadsOn
  <2>3. pc'["client"] # "failed"
    BY <1>1, <2>1 DEF Ended
  <2> QED BY <1>2, <2>2, <2>3 DEF Sound
<1>7. CASE r > 0 /\ Handle("client", Take(m, r), Drop(b, r), n)
  BY <1>2, <1>5, <1>7 DEF Sound
<1> QED BY <1>3, <1>5, <1>6, <1>7

(* Only the party that acts changes its state.                              *)
LEMMA GoesOnly ==
  ASSUME TypeOK, NEW p \in Parties, NEW m, Goes(p, m)
  PROVE  pc'[p] = m /\ pc'[Other(p)] = pc[Other(p)]
<1> DEFINE q == Other(p)
<1>1. pc' = [pc EXCEPT ![p] = m] /\ q # p /\ q \in Parties
      /\ pc \in [Parties -> Messages \cup Ended \cup {"start", "vers"}]
  BY Others DEF Goes, TypeOK
<1> HIDE DEF q
<1>2. pc'[p] = m /\ pc'[q] = pc[q]
  BY <1>1
<1> QED BY <1>2 DEF q

(* What NoSpuriousReject says of one step.                                  *)
Fair(p) == pc[p] # "failed" /\ pc'[p] = "failed" => Justified(p)

(* The other party has not failed.                                          *)
LEMMA SoundIsFair ==
  ASSUME NEW p \in Parties, Sound(p)
  PROVE  IInv' /\ Fair("client") /\ Fair("server")
BY Others DEF Sound, Fair

(* The stream ends inside a message.                                        *)
LEMMA StarveSound ==
  ASSUME IInv, PMax < 16, NEW p \in Parties, Starve(p)
  PROVE  Sound(p)
<1>1. TypeOK /\ CutRight /\ pc[p] \notin Ended /\ cut[p] # "no" /\ Fail(p)
  BY DEF IInv, Starve, Messages, Ended
<1>2. pc'[Other(p)] = pc[Other(p)]
  <2>1. Goes(p, "failed")
    BY <1>1 DEF Fail, Ends
  <2> QED BY <1>1, <2>1, GoesOnly
<1>3. IInv'
  <2>1. CASE p = "server"
    BY <1>1, <2>1, ServerFails
  <2>2. CASE p = "client"
    <3>1. pc["server"] \in Gone
      BY <1>1, <2>2, Others DEF CutRight
    <3> QED BY <1>1, <2>2, <3>1, ClientFails
  <2> QED BY <2>1, <2>2, Others
<1> QED BY <1>1, <1>2, <1>3 DEF Sound, Justified

(* A party dies.                                                            *)
LEMMA DieSound ==
  ASSUME IInv, PMax < 16, NEW p \in Parties, Die(p)
  PROVE  Sound(p)
<1>1. /\ TypeOK /\ CutRight /\ SentRight /\ pc[p] \notin Ended /\ Ends(p, "dead", <<>>)
      /\ "dead" \in Gone /\ <<>> \in Seq(Nat)
  BY DEF IInv, Die, Gone
<1>2. pc'[p] = "dead" /\ pc'[Other(p)] = pc[Other(p)]
  <2>1. Goes(p, "dead")
    BY <1>1 DEF Ends
  <2> QED BY <1>1, <2>1, GoesOnly
<1>3. Ended2(p, Other(p), "dead", <<>>) /\ TypeOK' /\ CutRight' /\ SentRight'
  BY <1>1, EndsKeep
<1>4. Phases'
  <2>1. CASE p = "server"
    <3>1. Ended2("server", "client", "dead", <<>>)
      BY <1>3, <2>1, Others
    <3> QED BY <1>1, <2>1, <3>1, ServerEnds
  <2>2. CASE p = "client"
    <3>1. Ended2("client", "server", "dead", <<>>)
      BY <1>3, <2>2, Others
    <3> QED BY <1>1, <2>2, <3>1, ClientEnds
  <2> QED BY <2>1, <2>2, Others
<1> QED BY <1>2, <1>3, <1>4 DEF Sound, Phases, IInv

(* A client starts, or finds no IPv4 address for a SOCKS 4 request.         *)
LEMMA StartsSound ==
  ASSUME IInv, PMax < 16, Starts
  PROVE  Sound("client")
<1>1. TypeOK /\ conn \in Conns /\ AskedRight /\ "client" \in Parties
  BY Others DEF IInv, TypeOK
<1>2. IInv'
  BY StartsKeep
<1>3. ASSUME NEW reply, NEW next, next # "failed", Moves("client", 0, reply, <<>>, next)
      PROVE  pc'["client"] # "failed" /\ pc'[Other("client")] = pc[Other("client")]
  <2>1. Goes("client", next)
    BY <1>3 DEF Moves
  <2> QED BY <1>1, <1>3, <2>1, GoesOnly
<1>4. CASE StartSocks5
  BY <1>2, <1>3, <1>4 DEF StartSocks5, Sound
<1>5. CASE StartVmess
  BY <1>2, <1>3, <1>5 DEF StartVmess, Sound
<1>6. CASE StartSocks4
  <2>1. ASSUME NEW t, Request4To(t) PROVE Sound("client")
    BY <1>2, <1>3, <2>1 DEF Request4To, Sound
  <2>2. ASSUME NoTarget \in Resolved4, Fail("client"), conn.proto = "socks4",
               pc["client"] = "start"
        PROVE  Sound("client")
    <3>1. asked = conn.target /\ conn.target.type # Ipv4
      BY <1>1, <2>2, Asking DEF AskedRight
    <3>2. ~Acceptable
      BY <2>2, <3>1 DEF Acceptable
    <3>3. Goes("client", "failed")
      BY <2>2 DEF Fail, Ends
    <3>4. pc'[Other("client")] = pc[Other("client")]
      BY <1>1, <3>3, GoesOnly
    <3> QED BY <1>2, <3>2, <3>4 DEF Sound, Justified
  <2> QED BY <1>6, <2>1, <2>2 DEF StartSocks4
<1> QED BY <1>4, <1>5, <1>6 DEF Starts

(* The server reads the version.                                            *)
LEMMA ReadVersionSound ==
  ASSUME IInv, PMax < 16, ReadVersion
  PROVE  Sound("server")
<1>1. TypeOK /\ "server" \in Parties
  BY Others DEF IInv
<1>2. \E m : Goes("server", m)
  <2>1. ASSUME NEW v, Version(v) PROVE \E m : Goes("server", m)
    <3>1. \/ MovesOn("server", 1, <<>>, <<v>>, "auth_sel")
          \/ MovesOn("server", 1, <<>>, <<v>>, "request4")
          \/ Fail("server")
      <4>1. CASE v = 5
        BY <2>1, <4>1 DEF Version
      <4>2. CASE v = 4
        BY <2>1, <4>2 DEF Version
      <4>3. CASE v # 4 /\ v # 5
        BY <2>1, <4>3 DEF Version
      <4> QED BY <4>1, <4>2, <4>3
    <3> QED BY <3>1 DEF MovesOn, Moves, Fail, Ends
  <2>2. Fail("server") => \E m : Goes("server", m)
    BY DEF Fail, Ends
  <2> QED BY <2>1, <2>2 DEF ReadVersion
<1>3. pc'[Other("server")] = pc[Other("server")]
  BY <1>1, <1>2, GoesOnly
<1> QED BY <1>3, ReadVersionKeeps DEF Sound

(* Every step.                                                              *)
LEMMA StepFair ==
  ASSUME IInv, PMax < 16, [Next]_vars
  PROVE  IInv' /\ Fair("client") /\ Fair("server")
<1>1. "client" \in Parties /\ "server" \in Parties
  BY Others
<1>2. CASE Starts
  BY <1>1, <1>2, StartsSound, SoundIsFair
<1>3. CASE ReadVersion
  BY <1>1, <1>3, ReadVersionSound, SoundIsFair
<1>4. ASSUME clock' \in 0 .. MaxClock,
             UNCHANGED <<conn, asked, pc, rbuf, should_read, in, cut, target, sent>>
      PROVE  IInv' /\ Fair("client") /\ Fair("server")
  <2>1. IInv'
    BY <1>4, Passes
  <2>2. pc' = pc
    BY <1>4
  <2> QED BY <2>1, <2>2 DEF Fair
<1>5. CASE Tick
  <2>1. clock' \in 0 .. MaxClock
    <3>1. clock \in 0 .. MaxClock /\ MaxClock \in Nat
      BY BoundsNat DEF IInv, TypeOK
    <3> QED BY <1>5, <3>1 DEF Tick
  <2>2. UNCHANGED <<conn, asked, pc, rbuf, should_read, in, cut, target, sent>>
    BY <1>5 DEF Tick
  <2> QED BY <1>4, <2>1, <2>2
<1>6. CASE UNCHANGED vars
  <2>1. clock' \in 0 .. MaxClock
    BY <1>6 DEF vars, IInv, TypeOK
  <2>2. UNCHANGED <<conn, asked, pc, rbuf, should_read, in, cut, target, sent>>
    BY <1>6 DEF vars
  <2> QED BY <1>4, <2>1, <2>2
<1>7. ASSUME NEW p \in Parties, Receives(p)
      PROVE  IInv' /\ Fair("client") /\ Fair("server")
  <2>1. PICK n \in 0 .. Len(in[p]) : Receive(p, n)
    BY <1>7 DEF Receives
  <2>2. Sound(p)
    <3>1. CASE p = "client"
      BY <2>1, <3>1, ClientReceives
    <3>2. CASE p = "server"
      BY <2>1, <3>2, ServerReceives
    <3> QED BY <3>1, <3>2, Others
  <2> QED BY <2>2, SoundIsFair
<1>8. ASSUME NEW p \in Parties, SendData(p)
      PROVE  IInv' /\ Fair("client") /\ Fair("server")
  <2>1. IInv'
    BY <1>8, SendKeeps
  <2>2. pc' = pc
    BY <1>8 DEF SendData
  <2> QED BY <2>1, <2>2 DEF Fair
<1>9. ASSUME NEW p \in Parties, Starve(p) \/ Die(p)
      PROVE  IInv' /\ Fair("client") /\ Fair("server")
  <2>1. Sound(p)
    BY <1>9, StarveSound, DieSound
  <2> QED BY <2>1, SoundIsFair
<1> QED BY <1>2, <1>3, <1>5, <1>6, <1>7, <1>8, <1>9 DEF Next, Step

(* The invariant holds when the connection has been accepted.               *)
LEMMA Starting ==
  ASSUME Init, PMax < 16
  PROVE  IInv
<1>1. /\ conn \in Conns /\ asked = conn.target /\ target = NoTarget
      /\ pc = [client |-> "start",
               server |-> IF conn.proto = "vmess" THEN "vmess_request" ELSE "vers"]
      /\ rbuf = [p \in Parties |-> <<>>] /\ should_read = [p \in Parties |-> FALSE]
      /\ in = [p \in Parties |-> <<>>] /\ cut = [p \in Parties |-> "no"]
      /\ sent = [p \in Parties |-> 0]
  BY DEF Init
<1>2. Sendable(asked)
  BY <1>1, Asking
<1>3. FirstMessage \in Seq(Nat)
  BY <1>1, <1>2, Spoken
<1>4. "client" \in Parties /\ "server" \in Parties /\ Parties = {"client", "server"}
  BY Others
<1>5. pc["client"] = "start" /\ pc["server"] \in {"vers", "vmess_request"}
      /\ pc["server"] = (IF conn.proto = "vmess" THEN "vmess_request" ELSE "vers")
  BY <1>1
<1>6. TypeOK
  <2>1. clock \in 0 .. MaxClock
    <3>1. 0 \in 0 .. MaxClock
      BY BoundsNat
    <3> QED BY <3>1 DEF Init
  <2>2. pc \in [Parties -> Messages \cup Ended \cup {"start", "vers"}]
    BY <1>1, <1>4 DEF Messages
  <2>3. rbuf \in [Parties -> Seq(Nat)] /\ in \in [Parties -> Seq(Nat)]
    BY <1>1
  <2>4. sent \in [Parties -> 0 .. MaxData]
    <3>1. 0 \in 0 .. MaxData
      BY BoundsNat
    <3> QED BY <1>1, <3>1
  <2>5. should_read \in [Parties -> BOOLEAN] /\ cut \in [Parties -> {"no", "fin", "reset"}]
    BY <1>1
  <2>6. asked \in Targets
    BY <1>2 DEF Sendable
  <2> QED BY <1>1, <2>1, <2>2, <2>3, <2>4, <2>5, <2>6 DEF TypeOK
<1>7. rbuf["client"] = <<>> /\ rbuf["server"] = <<>> /\ in["client"] = <<>> /\ in["server"] = <<>>
  BY <1>1, <1>4
<1>8. Unread("client") = <<>> /\ Unread("server") = <<>>
  <2>1. <<>> \o <<>> = <<>>
    OBVIOUS
  <2> QED BY <1>7, <2>1 DEF Unread
<1>9. AskedRight
  BY <1>1, <1>2 DEF AskedRight
<1>10. Protocol
  BY <1>5, <1>7 DEF Protocol
<1>11. CutRight /\ SentRight
  <2>1. CutRight
    BY <1>1, <1>4, <1>5, Others DEF CutRight, Gone
  <2>2. SentRight
    BY <1>1, <1>4 DEF SentRight
  <2> QED BY <2>1, <2>2
<1>12. Opening
  <2>1. Begins(<<>>, FirstMessage)
    BY <1>3, NothingBegins
  <2>2. Understood
    BY <1>5, <1>7, <1>8, <2>1 DEF Understood
  <2> QED BY <1>5, <1>8, <2>2 DEF Opening
<1>13. Agreeing /\ Open /\ Over
  BY <1>5 DEF Agreeing, Open, Over, Gone
<1> QED BY <1>6, <1>9, <1>10, <1>11, <1>12, <1>13 DEF IInv

-----------------------------------------------------------------------------
(* Theorems.  PMax < 16 is what the padding's half of a byte can hold.      *)
LEMMA Always ==
  ASSUME PMax < 16
  PROVE  Spec => []IInv
<1>1. Init => IInv
  BY Starting
<1>2. IInv /\ [Next]_vars => IInv'
  BY StepFair
<1> QED BY <1>1, <1>2, PTL DEF Spec

(* Every variable keeps its type: what arrives in a buffer is numbers, and  *)
(* what the server connects to is a target.                                 *)
THEOREM TypeCorrect ==
  ASSUME PMax < 16
  PROVE  Spec => []TypeOK
<1>1. IInv => TypeOK
  BY DEF IInv
<1> QED BY <1>1, Always, PTL

(* A tunnel is open for a client only if it is for its server.              *)
LEMMA BothOpen ==
  ASSUME IInv, PMax < 16, pc["client"] = "done"
  PROVE  pc["server"] = "done"
<1>1. conn \in Conns /\ Protocol /\ Opening /\ Agreeing /\ Over
  BY DEF IInv, TypeOK
<1>2. FirstWait # "done"
  <2>1. conn.proto \in {"socks4", "socks5", "vmess"}
    BY <1>1, ConnFields
  <2> QED BY <2>1 DEF FirstWait
<1>3. pc["server"] \notin {"vers", "auth_sel", "request4", "vmess_request"}
  BY <1>1, <1>2 DEF Opening, Gone
<1>4. pc["server"] # "request5" /\ pc["server"] \notin Gone
  BY <1>1 DEF Agreeing, Over, Gone
<1> QED BY <1>1, <1>3, <1>4 DEF Protocol, Ended, Gone

(* No byte of data is lost with the handshake or taken for a part of it,    *)
(* wherever TCP cuts the stream: what the rbuffer and the socket hold for a *)
(* party that is done is just the data of the other one.                    *)
THEOREM StaysInStep ==
  ASSUME PMax < 16
  PROVE  Spec => []InStep
<1>1. ASSUME IInv PROVE InStep
  <2>1. Open /\ CutRight
    BY <1>1 DEF IInv
  <2>2. ASSUME pc["client"] = "done"
        PROVE  IF conn.proto # "vmess" THEN IsSuffix(Unread("client"), Data("server"))
               ELSE Unread("client") = Data("server")
    <3>1. pc["server"] = "done"
      BY <1>1, <2>2, BothOpen
    <3> QED BY <2>1, <2>2, <3>1 DEF Open
  <2>3. ASSUME pc["server"] = "done", cut["server"] = "no"
        PROVE  Unread("server") = Data("client")
    <3>1. pc["client"] \notin Gone
      BY <2>1, <2>3, Others DEF CutRight
    <3> QED BY <2>1, <2>3, <3>1 DEF Open
  <2> QED BY <2>2, <2>3, Others DEF InStep, Unread
<1> QED BY <1>1, Always, PTL

(* The server connects to the target that the client was given: it survives *)
(* text, the encodings and the encryption, and any cut of the request.  The *)
(* text of an IPv6 address does not survive SOCKS 4, which has none.        *)
THEOREM TargetIsKept ==
  ASSUME PMax < 16, \A t \in AskedTargets["socks4"] : Handed(t).type # Ipv6
  PROVE  Spec => []TargetKept
<1>1. ASSUME IInv PROVE TargetKept
  <2>1. Open /\ conn \in Conns /\ AskedRight
    BY <1>1 DEF IInv, TypeOK
  <2>2. Means(conn.target, asked)
    BY <2>1, AskedMeans
  <2>3. (\E p \in Parties : pc[p] = "done") => pc["server"] = "done"
    BY <1>1, BothOpen, Others
  <2>4. pc["server"] = "done" => target = asked
    BY <2>1 DEF Open
  <2> QED BY <2>2, <2>3, <2>4 DEF TargetKept
<1> QED BY <1>1, Always, PTL

(* A handshake fails only because the other side has gone or because it     *)
(* asked for what the server does not do: wherever TCP cuts a message, no   *)
(* decoder takes a part of it for a malformed one.                          *)
THEOREM NothingRefused ==
  ASSUME PMax < 16
  PROVE  Spec => NoSpuriousReject
<1>1. IInv /\ [Next]_vars =>
        [\A p \in Parties : pc[p] # "failed" /\ pc'[p] = "failed" =>
            cut[p] # "no" \/ ~Acceptable]_vars
  BY StepFair, Others DEF Fair, Justified
<1> QED BY <1>1, Always, PTL DEF Spec, NoSpuriousReject
=============================================================================

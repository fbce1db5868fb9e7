---------------------------- MODULE VHookProofs ----------------------------
(***************************************************************************)
(* Safety of the connect hook for any threads and any hosts.  The invariant *)
(* says of every call on a stack, not only of the innermost one, what is    *)
(* known of its route where it is; a call that replaces the innermost one   *)
(* has to keep that, and the rest of the stack stays as it is.              *)
(***************************************************************************)
EXTENDS VHook, SequenceTheorems, TLAPS

Way == Seq(Hosts \cup {Proxy})

(* What is known of a call where it is.                                     *)
Sound(c) ==
    /\ c.blocks <=> c.fd # "nonblocking"
    /\ c.at # "back" => ~c.ok
    /\ c.at = "greet" => c.tunnel # <<>> /\ Head(c.tunnel) = Proxy
    /\ c.at \in {"on", "splice"} =>
          c.tunnel # <<>> /\ Head(c.tunnel) = Proxy /\ Last(c.tunnel) = c.to
    /\ c.at = "back" /\ c.ok =>
          /\ c.route # <<>> /\ Last(c.route) = c.to
          /\ c.route = <<c.to>> \/ Head(c.route) = Proxy

Nested(s) ==
    \A n \in 1 .. Len(s) :
        /\ s[n].at = "dialling" <=> n < Len(s)
        /\ n > 1 => s[n].to = Proxy
        /\ Sound(s[n])

Typed ==
    /\ phase \in {"launch", "init", "hooked", "unhooked", "exit"}
    /\ proxy_on \in BOOLEAN
    /\ stack \in [Threads -> Seq(Calls)]
    /\ calls \in [Threads -> 0 .. MaxCalls]

IInv == Typed /\ (\A t \in Threads : Nested(stack[t])) /\ OffOnlyInSection

-----------------------------------------------------------------------------
(* Sequences.                                                               *)

LEMMA Fronted ==
    ASSUME NEW S, NEW s \in Seq(S), s # <<>>
    PROVE  /\ Front(s) \in Seq(S)
           /\ Len(Front(s)) = Len(s) - 1
           /\ \A n \in 1 .. Len(s) - 1 : Front(s)[n] = s[n]
<1>1. Len(s) \in Nat \ {0}
  BY EmptySeq
<1>2. PICK m \in Nat : m = Len(s) - 1
  BY <1>1
<1>3. \A i \in 1 .. m : s[i] \in S
  BY <1>1, <1>2
<1>4. /\ SubSeq(s, 1, m) \in Seq(S)
      /\ Len(SubSeq(s, 1, m)) = IF 1 <= m THEN m - 1 + 1 ELSE 0
      /\ \A i \in 1 .. m - 1 + 1 : SubSeq(s, 1, m)[i] = s[1 + i - 1]
  BY <1>2, <1>3, SubSeqProperties
<1>5. Len(SubSeq(s, 1, m)) = m /\ \A i \in 1 .. m : SubSeq(s, 1, m)[i] = s[i]
  BY <1>4
<1> QED
  BY <1>2, <1>4, <1>5 DEF Front

(* The innermost call is replaced.                                          *)
LEMMA Replaced ==
    ASSUME NEW S, NEW s \in Seq(S), s # <<>>, NEW c \in S
    PROVE  /\ Front(s) \o <<c>> \in Seq(S)
           /\ Len(Front(s) \o <<c>>) = Len(s)
           /\ (Front(s) \o <<c>>)[Len(s)] = c
           /\ \A n \in 1 .. Len(s) - 1 : (Front(s) \o <<c>>)[n] = s[n]
<1>1. Len(s) \in Nat \ {0}
  BY EmptySeq
<1>2. <<c>> \in Seq(S) /\ Len(<<c>>) = 1 /\ <<c>>[1] = c
  OBVIOUS
<1>3. /\ Front(s) \o <<c>> \in Seq(S)
      /\ Len(Front(s) \o <<c>>) = Len(Front(s)) + Len(<<c>>)
      /\ \A i \in 1 .. Len(Front(s)) + Len(<<c>>) :
            (Front(s) \o <<c>>)[i] =
                IF i <= Len(Front(s)) THEN Front(s)[i] ELSE <<c>>[i - Len(Front(s))]
  BY <1>2, Fronted, ConcatProperties
<1> QED
  BY <1>1, <1>2, <1>3, Fronted

(* The innermost call is replaced, and another made in it.                  *)
LEMMA Pushed ==
    ASSUME NEW S, NEW s \in Seq(S), s # <<>>, NEW c \in S, NEW d \in S
    PROVE  /\ Front(s) \o <<c, d>> \in Seq(S)
           /\ Len(Front(s) \o <<c, d>>) = Len(s) + 1
           /\ (Front(s) \o <<c, d>>)[Len(s)] = c
           /\ (Front(s) \o <<c, d>>)[Len(s) + 1] = d
           /\ \A n \in 1 .. Len(s) - 1 : (Front(s) \o <<c, d>>)[n] = s[n]
<1>1. Len(s) \in Nat \ {0}
  BY EmptySeq
<1>2. <<c, d>> \in Seq(S) /\ Len(<<c, d>>) = 2 /\ <<c, d>>[1] = c /\ <<c, d>>[2] = d
  OBVIOUS
<1>3. /\ Front(s) \o <<c, d>> \in Seq(S)
      /\ Len(Front(s) \o <<c, d>>) = Len(Front(s)) + Len(<<c, d>>)
      /\ \A i \in 1 .. Len(Front(s)) + Len(<<c, d>>) :
            (Front(s) \o <<c, d>>)[i] =
                IF i <= Len(Front(s)) THEN Front(s)[i] ELSE <<c, d>>[i - Len(Front(s))]
  BY <1>2, Fronted, ConcatProperties
<1> QED
  BY <1>1, <1>2, <1>3, Fronted

LEMMA TopIn ==
    ASSUME NEW t \in Threads, stack \in [Threads -> Seq(Calls)], stack[t] # <<>>
    PROVE  Len(stack[t]) \in Nat \ {0} /\ Top(t) \in Calls
BY DEF Top

(* The route of a SOCKS connection goes on to the host that is asked for.   *)
LEMMA Extended ==
    ASSUME NEW w \in Way, w # <<>>, NEW h \in Hosts \cup {Proxy}
    PROVE  /\ Append(w, h) \in Way /\ Append(w, h) # <<>>
           /\ Head(Append(w, h)) = Head(w) /\ Last(Append(w, h)) = h
<1>1. /\ Append(w, h) \in Seq(Hosts \cup {Proxy})
      /\ Len(w) \in Nat \ {0} /\ Len(Append(w, h)) = Len(w) + 1
      /\ Append(w, h)[1] = w[1] /\ Append(w, h)[Len(w) + 1] = h
  BY EmptySeq, AppendProperties DEF Way
<1>2. Append(w, h) # <<>>
  BY <1>1
<1> QED
  BY <1>1, <1>2 DEF Way, Last

(* The calls that the steps of a call make of it.                           *)
LEMMA Fields ==
    ASSUME NEW c \in Calls
    PROVE  /\ c.to \in Hosts \cup {Proxy} /\ c.tunnel \in Way /\ c.route \in Way
           /\ c.blocks \in BOOLEAN /\ c.ok \in BOOLEAN /\ c.fd \in Descriptors
           /\ c.at \in Locations
           /\ \A l \in Locations : [c EXCEPT !.at = l] \in Calls
           /\ \A l \in Locations, w \in Way : [c EXCEPT !.at = l, !.tunnel = w] \in Calls
           /\ \A w \in Way, ok \in BOOLEAN :
                 [c EXCEPT !.route = w, !.ok = ok] \in Calls
           /\ \A w \in Way, ok \in BOOLEAN, b \in BOOLEAN :
                 [c EXCEPT !.route = w, !.ok = ok, !.blocks = b] \in Calls
<1> DEFINE Shape == [at : Locations, to : Hosts \cup {Proxy}, fd : Descriptors,
                     blocks : BOOLEAN, route : Way, tunnel : Way, ok : BOOLEAN]
<1>1. Calls = Shape
  BY DEF Calls, Way
<1>2. c \in Shape
  BY <1>1
<1>3. /\ c.to \in Hosts \cup {Proxy} /\ c.tunnel \in Way /\ c.route \in Way
      /\ c.blocks \in BOOLEAN /\ c.ok \in BOOLEAN /\ c.fd \in Descriptors
      /\ c.at \in Locations
  BY <1>2
<1>4. /\ \A l \in Locations : [c EXCEPT !.at = l] \in Shape
      /\ \A l \in Locations, w \in Way : [c EXCEPT !.at = l, !.tunnel = w] \in Shape
  BY <1>2
<1>5. /\ \A w \in Way, ok \in BOOLEAN : [c EXCEPT !.route = w, !.ok = ok] \in Shape
      /\ \A w \in Way, ok \in BOOLEAN, b \in BOOLEAN :
            [c EXCEPT !.route = w, !.ok = ok, !.blocks = b] \in Shape
  BY <1>2
<1> QED
  BY <1>1, <1>3, <1>4, <1>5

-----------------------------------------------------------------------------
(* Stacks.                                                                  *)

(* The calls below the innermost one.                                       *)
Under(s) ==
    \A n \in 1 .. Len(s) - 1 :
        /\ s[n].at = "dialling"
        /\ n > 1 => s[n].to = Proxy
        /\ Sound(s[n])

LEMMA Renewed ==
    ASSUME NEW s \in Seq(Calls), s # <<>>, Under(s),
           NEW c \in Calls, c.at # "dialling", Sound(c), Len(s) > 1 => c.to = Proxy
    PROVE  /\ Front(s) \o <<c>> \in Seq(Calls)
           /\ Nested(Front(s) \o <<c>>)
           /\ Len(Front(s) \o <<c>>) = Len(s)
           /\ (Front(s) \o <<c>>)[Len(s)] = c
<1> DEFINE r == Front(s) \o <<c>>
<1>1. /\ r \in Seq(Calls) /\ Len(r) = Len(s) /\ r[Len(s)] = c
      /\ \A n \in 1 .. Len(s) - 1 : r[n] = s[n]
  BY Replaced
<1>2. Len(s) \in Nat \ {0}
  BY EmptySeq
<1> HIDE DEF r
<1>3. ASSUME NEW n \in 1 .. Len(r)
      PROVE  /\ r[n].at = "dialling" <=> n < Len(r)
             /\ n > 1 => r[n].to = Proxy
             /\ Sound(r[n])
  <2>1. CASE n = Len(s)
    BY <1>1, <1>2, <2>1
  <2>2. CASE n # Len(s)
    <3>1. n \in 1 .. Len(s) - 1
      BY <1>1, <1>2, <2>2
    <3>2. r[n] = s[n] /\ n < Len(r)
      BY <1>1, <1>2, <3>1
    <3> QED
      BY <3>1, <3>2 DEF Under
  <2> QED
    BY <2>1, <2>2
<1>4. Nested(r)
  BY <1>3 DEF Nested
<1> QED
  BY <1>1, <1>4 DEF r

LEMMA NestedUnder ==
    ASSUME NEW s \in Seq(Calls), s # <<>>, Nested(s)
    PROVE  /\ Under(s) /\ Sound(s[Len(s)]) /\ s[Len(s)].at # "dialling"
           /\ Len(s) > 1 => s[Len(s)].to = Proxy
<1>1. Len(s) \in Nat \ {0}
  BY EmptySeq
<1>2. \A n \in 1 .. Len(s) - 1 : n \in 1 .. Len(s) /\ n < Len(s)
  BY <1>1
<1>3. Len(s) \in 1 .. Len(s) /\ ~(Len(s) < Len(s))
  BY <1>1
<1> QED
  BY <1>1, <1>2, <1>3 DEF Nested, Under

(* A thread is in the section when it is inside a call of the library, or   *)
(* its innermost call is.                                                   *)
LEMMA SectionOf ==
    ASSUME NEW s \in Seq(Calls), s # <<>>, Nested(s)
    PROVE  (\E n \in DOMAIN s : s[n].at \in Section)
               <=> Len(s) > 1 \/ s[Len(s)].at \in Section
<1>1. Len(s) \in Nat \ {0} /\ DOMAIN s = 1 .. Len(s)
  BY EmptySeq, LenProperties
<1>2. ASSUME NEW n \in DOMAIN s, s[n].at \in Section, ~(Len(s) > 1)
      PROVE  s[Len(s)].at \in Section
  <2>1. n = Len(s)
    BY <1>1, <1>2
  <2> QED
    BY <1>2, <2>1
<1>3. ASSUME Len(s) > 1
      PROVE  1 \in DOMAIN s /\ s[1].at \in Section
  <2>1. 1 \in 1 .. Len(s) - 1
    BY <1>1, <1>3
  <2>2. s[1].at = "dialling"
    BY <2>1, NestedUnder DEF Under
  <2> QED
    BY <1>1, <1>3, <2>2 DEF Section
<1>4. Len(s) \in DOMAIN s
  BY <1>1
<1> QED
  BY <1>2, <1>3, <1>4

(* One stack changes.                                                       *)
LEMMA OneStack ==
    ASSUME IInv, NEW t \in Threads, NEW r \in Seq(Calls), Nested(r),
           stack' = [stack EXCEPT ![t] = r]
    PROVE  /\ stack' \in [Threads -> Seq(Calls)]
           /\ stack'[t] = r
           /\ \A u \in Threads : Nested(stack'[u])
           /\ \A u \in Threads \ {t} : InSection(u) => InSection(u)'
<1>1. stack \in [Threads -> Seq(Calls)]
  BY DEF IInv, Typed
<1>2. stack' \in [Threads -> Seq(Calls)] /\ stack'[t] = r
  BY <1>1
<1>3. \A u \in Threads \ {t} : stack'[u] = stack[u]
  BY <1>1
<1>4. \A u \in Threads : Nested(stack'[u])
  BY <1>2, <1>3 DEF IInv
<1>5. \A u \in Threads \ {t} : InSection(u) => InSection(u)'
  BY <1>3 DEF InSection
<1> QED
  BY <1>2, <1>4, <1>5

(* The innermost call of a thread is replaced.                              *)
LEMMA Progress ==
    ASSUME IInv, NEW t \in Threads, stack[t] # <<>>,
           NEW c \in Calls, c.at # "dialling", c.to = Top(t).to, Sound(c), Now(t, c),
           UNCHANGED <<phase, calls>>, proxy_on' \in BOOLEAN,
           \/ proxy_on'
           \/ c.at \in Section
           \/ Top(t).at \notin Section /\ proxy_on' = proxy_on
    PROVE  IInv'
<1> DEFINE s == stack[t]
           r == Front(s) \o <<c>>
<1>1. s \in Seq(Calls) /\ s # <<>> /\ Nested(s) /\ Top(t) = s[Len(s)]
  BY DEF IInv, Typed, Top
<1>2. /\ Under(s) /\ (Len(s) > 1 => c.to = Proxy)
  BY <1>1, NestedUnder
<1>3. /\ r \in Seq(Calls) /\ Nested(r) /\ Len(r) = Len(s) /\ r[Len(s)] = c
  BY <1>1, <1>2, Renewed
<1>4. stack' = [stack EXCEPT ![t] = r]
  BY DEF Now
<1>5. Len(s) \in Nat \ {0}
  BY <1>1, EmptySeq
<1> HIDE DEF r
<1>6. /\ stack' \in [Threads -> Seq(Calls)] /\ stack'[t] = r
      /\ \A u \in Threads : Nested(stack'[u])
      /\ \A u \in Threads \ {t} : InSection(u) => InSection(u)'
  BY <1>3, <1>4, OneStack
<1>7. Typed'
  BY <1>6 DEF IInv, Typed
<1>8. ASSUME Len(s) > 1 \/ c.at \in Section
      PROVE  InSection(t)'
  <2>1. r # <<>>
    BY <1>3, <1>5
  <2>2. \E n \in DOMAIN r : r[n].at \in Section
    BY <1>3, <1>8, <2>1, SectionOf
  <2> QED
    BY <1>6, <2>2 DEF InSection
<1>9. OffOnlyInSection'
  <2>1. CASE proxy_on'
    BY <2>1 DEF OffOnlyInSection
  <2>2. CASE c.at \in Section
    BY <1>8, <2>2 DEF OffOnlyInSection
  <2>3. CASE ~proxy_on' /\ Top(t).at \notin Section /\ proxy_on' = proxy_on
    <3>1. PICK u \in Threads : InSection(u)
      BY <2>3 DEF IInv, OffOnlyInSection
    <3>2. CASE u = t
      <4>1. Len(s) > 1
        BY <1>1, <2>3, <3>1, <3>2, SectionOf DEF InSection
      <4> QED
        BY <1>8, <4>1 DEF OffOnlyInSection
    <3>3. CASE u # t
      BY <1>6, <3>1, <3>3 DEF OffOnlyInSection
    <3> QED
      BY <3>2, <3>3
  <2> QED
    BY <2>1, <2>2, <2>3
<1> QED
  BY <1>6, <1>7, <1>9 DEF IInv

-----------------------------------------------------------------------------
(* Steps.                                                                   *)

(* What the invariant says of the innermost call.                           *)
LEMMA Innermost ==
    ASSUME IInv, NEW t \in Threads, stack[t] # <<>>
    PROVE  /\ Top(t) \in Calls /\ Sound(Top(t)) /\ proxy_on \in BOOLEAN
           /\ stack[t] \in Seq(Calls) /\ Nested(stack[t])
           /\ Len(stack[t]) \in Nat \ {0} /\ Top(t) = stack[t][Len(stack[t])]
<1>1. /\ stack \in [Threads -> Seq(Calls)] /\ stack[t] \in Seq(Calls)
      /\ Nested(stack[t]) /\ proxy_on \in BOOLEAN
  BY DEF IInv, Typed
<1>2. Top(t) \in Calls /\ Len(stack[t]) \in Nat \ {0}
  BY <1>1, TopIn
<1>3. Top(t) = stack[t][Len(stack[t])]
  BY DEF Top
<1>4. Sound(Top(t))
  BY <1>1, <1>3, NestedUnder
<1> QED
  BY <1>1, <1>2, <1>3, <1>4

(* A call that only goes on to a place of which less is known.              *)
LEMMA Moved ==
    ASSUME IInv, NEW t \in Threads, stack[t] # <<>>, Top(t).at # "back",
           NEW l \in {"direct", "off", "dial", "refuse"}, To(t, l),
           UNCHANGED <<phase, calls>>, proxy_on' \in BOOLEAN,
           \/ proxy_on' \/ l \in Section
           \/ Top(t).at \notin Section /\ proxy_on' = proxy_on
    PROVE  IInv'
<1> DEFINE c == [Top(t) EXCEPT !.at = l]
<1>1. Top(t) \in Calls /\ Sound(Top(t))
  BY Innermost
<1>2. l \in Locations
  BY DEF Locations
<1>3. c \in Calls
  BY <1>1, <1>2, Fields
<1>4. /\ c.at = l /\ c.to = Top(t).to /\ c.fd = Top(t).fd /\ c.blocks = Top(t).blocks
      /\ c.ok = Top(t).ok
  BY <1>1 DEF Calls
<1>5. Sound(c)
  BY <1>1, <1>4 DEF Sound
<1>6. Now(t, c)
  BY DEF To
<1> HIDE DEF c
<1> QED
  BY <1>3, <1>4, <1>5, <1>6, Progress

(* A call that is over: it failed, or its socket has a route to its host.   *)
LEMMA Over ==
    ASSUME IInv, NEW t \in Threads, stack[t] # <<>>, NEW c \in Calls,
           c.to = Top(t).to, c.fd = Top(t).fd, c.blocks = Top(t).blocks,
           c.ok => /\ c.route # <<>> /\ Last(c.route) = c.to
                   /\ c.route = <<c.to>> \/ Head(c.route) = Proxy,
           Return(t, c), UNCHANGED <<phase, calls>>, proxy_on' \in BOOLEAN,
           \/ proxy_on'
           \/ Top(t).at \notin Section /\ proxy_on' = proxy_on
    PROVE  IInv'
<1> DEFINE d == [c EXCEPT !.at = "back"]
<1>1. Top(t) \in Calls /\ Sound(Top(t))
  BY Innermost
<1>2. d \in Calls
  BY Fields DEF Locations
<1>3. /\ d.at = "back" /\ d.to = c.to /\ d.fd = c.fd /\ d.blocks = c.blocks
      /\ d.ok = c.ok /\ d.route = c.route
  BY DEF Calls
<1>4. Sound(d)
  BY <1>1, <1>3 DEF Sound
<1>5. Now(t, d)
  BY DEF Return
<1> HIDE DEF d
<1> QED
  BY <1>1, <1>2, <1>3, <1>4, <1>5, Progress

LEMMA EnterKeeps == ASSUME IInv, NEW t \in Threads, Enter(t) PROVE IInv'
<1>1. stack[t] # <<>> /\ Top(t).at = "enter" /\ UNCHANGED <<phase, calls, proxy_on>>
  BY DEF Enter, At, Inside
<1>2. proxy_on \in BOOLEAN
  BY DEF IInv, Typed
<1>3. PICK l \in {"direct", "off"} : To(t, l)
  BY DEF Enter
<1>4. Top(t).at \notin Section
  BY <1>1 DEF Section
<1> QED
  BY <1>1, <1>2, <1>3, <1>4, Moved

LEMMA DirectKeeps == ASSUME IInv, NEW t \in Threads, Direct(t) PROVE IInv'
<1>1. stack[t] # <<>> /\ Top(t).at = "direct" /\ UNCHANGED <<phase, calls, proxy_on>>
  BY DEF Direct, At, Inside
<1>2. Top(t) \in Calls /\ Sound(Top(t)) /\ proxy_on \in BOOLEAN
  BY <1>1, Innermost
<1>3. Top(t).at \notin Section /\ ~Top(t).ok
  BY <1>1, <1>2 DEF Section, Sound
<1>4. CASE Return(t, Top(t))
  BY <1>1, <1>2, <1>3, <1>4, Over
<1>5. CASE Return(t, [Top(t) EXCEPT !.route = <<Top(t).to>>, !.ok = TRUE])
  <2> DEFINE c == [Top(t) EXCEPT !.route = <<Top(t).to>>, !.ok = TRUE]
  <2>1. <<Top(t).to>> \in Way
    <3>1. Top(t).to \in Hosts \cup {Proxy}
      BY <1>2, Fields
    <3> QED
      BY <3>1 DEF Way
  <2>2. c \in Calls
    BY <1>2, <2>1, Fields
  <2>3. /\ c.to = Top(t).to /\ c.fd = Top(t).fd /\ c.blocks = Top(t).blocks
        /\ c.route = <<Top(t).to>>
    BY <1>2 DEF Calls
  <2>4. c.route # <<>> /\ Last(c.route) = c.to
    BY <2>3 DEF Last
  <2> HIDE DEF c
  <2>5. Return(t, c)
    BY <1>5 DEF c
  <2> QED
    BY <1>1, <1>2, <1>3, <2>2, <2>3, <2>4, <2>5, Over
<1> QED
  BY <1>4, <1>5 DEF Direct

LEMMA SwitchOffKeeps == ASSUME IInv, NEW t \in Threads, SwitchOff(t) PROVE IInv'
<1>1. /\ stack[t] # <<>> /\ Top(t).at = "off" /\ UNCHANGED <<phase, calls>>
      /\ proxy_on' = FALSE /\ To(t, "dial")
  BY DEF SwitchOff, At, Inside
<1>2. "dial" \in Section
  BY DEF Section
<1> QED
  BY <1>1, <1>2, Moved

LEMMA DialKeeps == ASSUME IInv, NEW t \in Threads, Dial(t) PROVE IInv'
<1>1. /\ stack[t] # <<>> /\ Top(t).at = "dial" /\ UNCHANGED <<phase, calls, proxy_on>>
  BY DEF Dial, At, Inside
<1>2. /\ Top(t) \in Calls /\ Sound(Top(t)) /\ proxy_on \in BOOLEAN
      /\ stack[t] \in Seq(Calls) /\ Nested(stack[t])
      /\ Len(stack[t]) \in Nat \ {0} /\ Top(t) = stack[t][Len(stack[t])]
  BY <1>1, Innermost
<1>3. CASE To(t, "refuse")
  <2>1. "refuse" \in Section
    BY DEF Section
  <2> QED
    BY <1>1, <1>2, <1>3, <2>1, Moved
<1>4. CASE stack' = [stack EXCEPT ![t] =
                       Front(@) \o <<[Top(t) EXCEPT !.at = "dialling"],
                                     Call(Dials(Top(t)), "stream")>>]
  <2> DEFINE s == stack[t]
             c == [Top(t) EXCEPT !.at = "dialling"]
             d == Call(Proxy, "stream")
             r == Front(s) \o <<c, d>>
  <2>1. c \in Calls
    BY <1>2, Fields DEF Locations
  <2>2. /\ c.at = "dialling" /\ c.to = Top(t).to /\ c.fd = Top(t).fd
        /\ c.blocks = Top(t).blocks /\ c.ok = Top(t).ok
    BY <1>2 DEF Calls
  <2>3. /\ Sound(c) /\ (Len(s) > 1 => c.to = Proxy)
    BY <1>1, <1>2, <2>2, NestedUnder DEF Sound
  <2>4. d \in Calls
    <3>1. <<>> \in Seq(Hosts \cup {Proxy})
      BY EmptySeq
    <3> QED
      BY <3>1 DEF Calls, Call, Locations, Descriptors
  <2>5. d.at = "enter" /\ d.to = Proxy /\ d.blocks = TRUE /\ d.fd = "stream" /\ d.ok = FALSE
    BY DEF Call
  <2>6. Sound(d)
    BY <2>5 DEF Sound
  <2>7. stack' = [stack EXCEPT ![t] = r]
    BY <1>4 DEF Dials
  <2> HIDE DEF c, d
  <2>8. /\ r \in Seq(Calls) /\ Len(r) = Len(s) + 1
        /\ r[Len(s)] = c /\ r[Len(s) + 1] = d
        /\ \A n \in 1 .. Len(s) - 1 : r[n] = s[n]
    <3>1. s \in Seq(Calls) /\ s # <<>>
      BY <1>1, <1>2
    <3> HIDE DEF s
    <3> QED
      BY <2>1, <2>4, <3>1, Pushed
  <2> HIDE DEF r
  <2>9. ASSUME NEW n \in 1 .. Len(r)
        PROVE  /\ r[n].at = "dialling" <=> n < Len(r)
               /\ n > 1 => r[n].to = Proxy
               /\ Sound(r[n])
    <3>1. CASE n = Len(s) + 1
      BY <1>2, <2>5, <2>6, <2>8, <3>1
    <3>2. CASE n = Len(s)
      BY <1>2, <2>2, <2>3, <2>8, <3>2
    <3>3. CASE n \in 1 .. Len(s) - 1
      <4>1. r[n] = s[n] /\ n < Len(r)
        BY <1>2, <2>8, <3>3
      <4>2. Under(s)
        BY <1>1, <1>2, NestedUnder
      <4> QED
        BY <3>3, <4>1, <4>2 DEF Under
    <3> QED
      BY <1>2, <2>8, <3>1, <3>2, <3>3
  <2>10. Nested(r)
    BY <2>9 DEF Nested
  <2>11. /\ stack' \in [Threads -> Seq(Calls)] /\ stack'[t] = r
         /\ \A u \in Threads : Nested(stack'[u])
    BY <2>7, <2>8, <2>10, OneStack
  <2>12. Typed'
    BY <1>1, <2>11 DEF IInv, Typed
  <2>13. Len(s) \in DOMAIN r /\ r[Len(s)].at \in Section
    BY <1>2, <2>2, <2>8, LenProperties DEF Section
  <2>14. InSection(t)'
    BY <2>11, <2>13 DEF InSection
  <2> QED
    BY <2>11, <2>12, <2>14 DEF IInv, OffOnlyInSection
<1> QED
  BY <1>3, <1>4 DEF Dial

LEMMA DialledKeeps == ASSUME IInv, NEW t \in Threads, Dialled(t) PROVE IInv'
<1> DEFINE s == stack[t]
           inner == Top(t)
           rest == Front(s)
           next == IF inner.ok THEN "greet" ELSE "refuse"
           outer == [Last(rest) EXCEPT !.at = next, !.tunnel = inner.route]
           r == Front(rest) \o <<outer>>
<1>1. /\ s # <<>> /\ inner.at = "back" /\ Len(s) > 1
      /\ UNCHANGED <<phase, calls, proxy_on>>
      /\ stack' = [stack EXCEPT ![t] = r]
  BY DEF Dialled, At, Inside
<1>2. /\ inner \in Calls /\ Sound(inner) /\ proxy_on \in BOOLEAN
      /\ s \in Seq(Calls) /\ Nested(s)
      /\ Len(s) \in Nat \ {0} /\ inner = s[Len(s)]
  BY <1>1, Innermost
<1>3. Under(s) /\ inner.to = Proxy
  BY <1>1, <1>2, NestedUnder
<1>4. /\ rest \in Seq(Calls) /\ Len(rest) = Len(s) - 1
      /\ \A n \in 1 .. Len(s) - 1 : rest[n] = s[n]
  BY <1>1, <1>2, Fronted
<1> HIDE DEF inner, rest
<1>5. rest # <<>> /\ Len(rest) \in Nat \ {0}
  BY <1>1, <1>2, <1>4
<1>6. Last(rest) = s[Len(s) - 1] /\ Last(rest) \in Calls
  BY <1>1, <1>2, <1>4, <1>5 DEF Last
<1>7. Sound(Last(rest)) /\ Last(rest).at = "dialling" /\ (Len(rest) > 1 => Last(rest).to = Proxy)
  BY <1>1, <1>2, <1>3, <1>4, <1>6 DEF Under
<1>8. Under(rest)
  BY <1>2, <1>3, <1>4 DEF Under
<1>9. outer \in Calls
  <2>1. inner.route \in Way /\ next \in Locations
    BY <1>2, Fields DEF Locations
  <2> QED
    BY <1>6, <2>1, Fields
<1>10. /\ outer.at = next /\ outer.to = Last(rest).to /\ outer.tunnel = inner.route
       /\ outer.fd = Last(rest).fd /\ outer.blocks = Last(rest).blocks
       /\ outer.ok = Last(rest).ok
  BY <1>6 DEF Calls
<1>11. inner.ok => inner.route # <<>> /\ Head(inner.route) = Proxy
  <2>1. ASSUME inner.ok
        PROVE  inner.route # <<>> /\ (inner.route = <<Proxy>> \/ Head(inner.route) = Proxy)
    BY <1>1, <1>2, <1>3, <2>1 DEF Sound
  <2>2. Head(<<Proxy>>) = Proxy
    OBVIOUS
  <2> QED
    BY <2>1, <2>2
<1> HIDE DEF outer
<1>12. Sound(outer)
  BY <1>7, <1>10, <1>11 DEF Sound
<1>13. outer.at # "dialling" /\ outer.at \in Section
  BY <1>10 DEF Section
<1>14. /\ r \in Seq(Calls) /\ Nested(r) /\ Len(r) = Len(rest) /\ r[Len(rest)] = outer
  BY <1>4, <1>5, <1>7, <1>8, <1>9, <1>10, <1>12, <1>13, Renewed
<1> HIDE DEF r
<1>15. /\ stack' \in [Threads -> Seq(Calls)] /\ stack'[t] = r
       /\ \A u \in Threads : Nested(stack'[u])
  BY <1>1, <1>14, OneStack
<1>16. Typed'
  BY <1>1, <1>15 DEF IInv, Typed
<1>17. InSection(t)'
  <2>1. Len(rest) \in DOMAIN r
    BY <1>5, <1>14, LenProperties
  <2> QED
    BY <1>13, <1>14, <1>15, <2>1 DEF InSection
<1> QED
  BY <1>15, <1>16, <1>17 DEF IInv, OffOnlyInSection

LEMMA GreetKeeps == ASSUME IInv, NEW t \in Threads, Greet(t) PROVE IInv'
<1>1. /\ stack[t] # <<>> /\ Top(t).at = "greet" /\ UNCHANGED <<phase, calls, proxy_on>>
  BY DEF Greet, At, Inside
<1>2. Top(t) \in Calls /\ Sound(Top(t)) /\ proxy_on \in BOOLEAN
  BY <1>1, Innermost
<1>3. CASE To(t, "refuse")
  <2>1. "refuse" \in Section
    BY DEF Section
  <2> QED
    BY <1>1, <1>2, <1>3, <2>1, Moved
<1>4. CASE Now(t, [Top(t) EXCEPT !.at = "on", !.tunnel = Append(@, Asked(Top(t)))])
  <2> DEFINE w == Append(Top(t).tunnel, Top(t).to)
             c == [Top(t) EXCEPT !.at = "on", !.tunnel = w]
  <2>1. /\ Top(t).tunnel \in Way /\ Top(t).tunnel # <<>> /\ Head(Top(t).tunnel) = Proxy
        /\ Top(t).to \in Hosts \cup {Proxy}
    BY <1>1, <1>2, Fields DEF Sound
  <2>2. w \in Way /\ w # <<>> /\ Head(w) = Proxy /\ Last(w) = Top(t).to
    BY <2>1, Extended
  <2>3. Now(t, c)
    BY <1>4 DEF Asked
  <2> HIDE DEF w
  <2>4. c \in Calls
    BY <1>2, <2>2, Fields DEF Locations
  <2>5. /\ c.at = "on" /\ c.to = Top(t).to /\ c.tunnel = w /\ c.fd = Top(t).fd
        /\ c.blocks = Top(t).blocks /\ c.ok = Top(t).ok
    BY <1>2 DEF Calls
  <2> HIDE DEF c
  <2>6. Sound(c)
    BY <1>1, <1>2, <2>2, <2>5 DEF Sound
  <2>7. c.at # "dialling" /\ c.at \in Section
    BY <2>5 DEF Section
  <2> QED
    BY <1>1, <1>2, <2>3, <2>4, <2>5, <2>6, <2>7, Progress
<1> QED
  BY <1>3, <1>4 DEF Greet

LEMMA RefuseKeeps == ASSUME IInv, NEW t \in Threads, Refuse(t) PROVE IInv'
<1>1. /\ stack[t] # <<>> /\ Top(t).at = "refuse" /\ UNCHANGED <<phase, calls>>
      /\ proxy_on' = TRUE /\ Return(t, Top(t))
  BY DEF Refuse, At, Inside
<1>2. Top(t) \in Calls /\ ~Top(t).ok
  BY <1>1, Innermost DEF Sound
<1> QED
  BY <1>1, <1>2, Over

LEMMA SwitchOnKeeps == ASSUME IInv, NEW t \in Threads, SwitchOn(t) PROVE IInv'
<1> DEFINE c == [Top(t) EXCEPT !.at = "splice"]
<1>1. /\ stack[t] # <<>> /\ Top(t).at = "on" /\ UNCHANGED <<phase, calls>>
      /\ proxy_on' = TRUE /\ Now(t, c)
  BY DEF SwitchOn, At, Inside, To
<1>2. Top(t) \in Calls /\ Sound(Top(t))
  BY <1>1, Innermost
<1>3. c \in Calls
  BY <1>2, Fields DEF Locations
<1>4. /\ c.at = "splice" /\ c.to = Top(t).to /\ c.tunnel = Top(t).tunnel
      /\ c.fd = Top(t).fd /\ c.blocks = Top(t).blocks /\ c.ok = Top(t).ok
  BY <1>2 DEF Calls
<1> HIDE DEF c
<1>5. Sound(c)
  BY <1>1, <1>2, <1>4 DEF Sound
<1> QED
  BY <1>1, <1>3, <1>4, <1>5, Progress

LEMMA SpliceKeeps == ASSUME IInv, NEW t \in Threads, Splice(t) PROVE IInv'
<1>1. stack[t] # <<>> /\ Top(t).at = "splice" /\ UNCHANGED <<phase, calls, proxy_on>>
  BY DEF Splice, At, Inside
<1>2. Top(t) \in Calls /\ Sound(Top(t)) /\ proxy_on \in BOOLEAN
  BY <1>1, Innermost
<1>3. Top(t).at \notin Section /\ ~Top(t).ok
  BY <1>1, <1>2 DEF Section, Sound
<1>4. CASE Return(t, Top(t))
  BY <1>1, <1>2, <1>3, <1>4, Over
<1>5. CASE Return(t, [Top(t) EXCEPT !.route = Top(t).tunnel, !.ok = TRUE,
                                    !.blocks = Blocks(Top(t))])
  <2> DEFINE b == Top(t).blocks
             c == [Top(t) EXCEPT !.route = Top(t).tunnel, !.ok = TRUE, !.blocks = b]
  <2>1. Top(t).tunnel \in Way /\ b \in BOOLEAN
    BY <1>2, Fields
  <2>2. c \in Calls
    BY <1>2, <2>1, Fields
  <2>3. /\ c.to = Top(t).to /\ c.fd = Top(t).fd /\ c.blocks = Top(t).blocks
        /\ c.route = Top(t).tunnel
    BY <1>2 DEF Calls
  <2>4. c.route # <<>> /\ Last(c.route) = c.to /\ Head(c.route) = Proxy
    BY <1>1, <1>2, <2>3 DEF Sound
  <2>5. Return(t, c)
    BY <1>5 DEF Blocks
  <2> HIDE DEF c
  <2> QED
    BY <1>1, <1>2, <1>3, <2>2, <2>3, <2>4, <2>5, Over
<1> QED
  BY <1>4, <1>5 DEF Splice

LEMMA ReturnedKeeps == ASSUME IInv, NEW t \in Threads, Returned(t) PROVE IInv'
<1>1. /\ stack[t] # <<>> /\ Top(t).at = "back" /\ Len(stack[t]) = 1
      /\ UNCHANGED <<phase, calls, proxy_on>> /\ stack' = [stack EXCEPT ![t] = <<>>]
  BY DEF Returned, At, Inside
<1>2. <<>> \in Seq(Calls) /\ Nested(<<>>)
  BY EmptySeq DEF Nested
<1>3. /\ stack' \in [Threads -> Seq(Calls)]
      /\ \A u \in Threads : Nested(stack'[u])
      /\ \A u \in Threads \ {t} : InSection(u) => InSection(u)'
  BY <1>1, <1>2, OneStack
<1>4. Typed'
  BY <1>1, <1>3 DEF IInv, Typed
<1>5. ~InSection(t)
  <2>1. /\ stack[t] \in Seq(Calls) /\ Nested(stack[t])
        /\ Top(t) = stack[t][Len(stack[t])]
    BY <1>1, Innermost
  <2>2. Top(t).at \notin Section
    BY <1>1 DEF Section
  <2> QED
    BY <1>1, <2>1, <2>2, SectionOf DEF InSection
<1>6. OffOnlyInSection'
  BY <1>1, <1>3, <1>5 DEF IInv, OffOnlyInSection
<1> QED
  BY <1>3, <1>4, <1>6 DEF IInv

(* The program's own step, and those before it runs.                        *)
LEMMA ConnectKeeps == ASSUME IInv, NEW t \in Threads, Connect(t) PROVE IInv'
<1>1. PICK to \in Hosts, fd \in Descriptors :
          stack' = [stack EXCEPT ![t] = <<Call(to, fd)>>]
  BY DEF Connect
<1>2. /\ stack[t] = <<>> /\ calls[t] < MaxCalls /\ UNCHANGED <<phase, proxy_on>>
      /\ calls' = [calls EXCEPT ![t] = @ + 1]
  BY DEF Connect
<1> DEFINE c == Call(to, fd)
<1>3. c \in Calls
  <2>1. <<>> \in Seq(Hosts \cup {Proxy})
    BY EmptySeq
  <2> QED
    BY <2>1 DEF Calls, Call, Locations, Descriptors
<1>4. c.at = "enter" /\ c.blocks = (c.fd # "nonblocking") /\ c.ok = FALSE
  BY DEF Call
<1>5. Sound(c)
  BY <1>4 DEF Sound
<1> HIDE DEF c
<1>6. <<c>> \in Seq(Calls) /\ Nested(<<c>>)
  <2>1. <<c>> \in Seq(Calls) /\ Len(<<c>>) = 1 /\ <<c>>[1] = c
    BY <1>3
  <2> QED
    BY <1>4, <1>5, <2>1 DEF Nested
<1>7. /\ stack' \in [Threads -> Seq(Calls)]
      /\ \A u \in Threads : Nested(stack'[u])
      /\ \A u \in Threads \ {t} : InSection(u) => InSection(u)'
  BY <1>1, <1>6, OneStack DEF c
<1>8. calls' \in [Threads -> 0 .. MaxCalls]
  BY <1>2, SomeCalls DEF IInv, Typed
<1>9. Typed'
  BY <1>2, <1>7, <1>8 DEF IInv, Typed
<1>10. ~InSection(t)
  BY <1>2 DEF InSection
<1>11. OffOnlyInSection'
  BY <1>2, <1>7, <1>10 DEF IInv, OffOnlyInSection
<1> QED
  BY <1>7, <1>9, <1>11 DEF IInv

-----------------------------------------------------------------------------

LEMMA Initial == Init => IInv
<1> SUFFICES ASSUME Init PROVE IInv
  OBVIOUS
<1>1. <<>> \in Seq(Calls) /\ Nested(<<>>)
  BY EmptySeq DEF Nested
<1>2. Typed
  BY <1>1, SomeCalls DEF Init, Typed
<1> QED
  BY <1>1, <1>2 DEF Init, IInv, OffOnlyInSection

LEMMA Step == IInv /\ [Next]_vars => IInv'
<1> SUFFICES ASSUME IInv, [Next]_vars PROVE IInv'
  OBVIOUS
<1>1. CASE Usage \/ Exec \/ InitHook
  <2>1. UNCHANGED <<proxy_on, stack, calls>>
    BY <1>1 DEF Usage, Exec, InitHook, Outside
  <2>2. phase' \in {"launch", "init", "hooked", "unhooked", "exit"}
    BY <1>1 DEF Usage, Exec, InitHook
  <2>3. Typed'
    BY <2>1, <2>2 DEF IInv, Typed
  <2>4. OffOnlyInSection'
    BY <2>1 DEF IInv, OffOnlyInSection, InSection
  <2> QED
    BY <2>1, <2>3, <2>4 DEF IInv
<1>2. ASSUME NEW t \in Threads, Connect(t) \/ Hook(t)
      PROVE  IInv'
  BY <1>2, ConnectKeeps, EnterKeeps, DirectKeeps, SwitchOffKeeps, DialKeeps,
     DialledKeeps, GreetKeeps, RefuseKeeps, SwitchOnKeeps, SpliceKeeps, ReturnedKeeps
     DEF Hook
<1>3. CASE UNCHANGED vars
  <2>1. Typed'
    BY <1>3 DEF IInv, Typed, vars
  <2>2. OffOnlyInSection'
    BY <1>3 DEF IInv, OffOnlyInSection, InSection, vars
  <2> QED
    BY <1>3, <2>1, <2>2 DEF IInv, vars
<1> QED
  BY <1>1, <1>2, <1>3 DEF Next

(* The invariant of the hook: the types, what is known of every call, and   *)
(* that the flag is off only while some thread dials.                       *)
THEOREM Invariance == Spec => []IInv
<1> QED
  BY Initial, Step, PTL DEF Spec

(* Every variable keeps its type, and the stacks their shape, however the   *)
(* connects of any number of threads interleave.                            *)
THEOREM Types == Spec => []TypeOK
<1>1. IInv => TypeOK
  BY DEF IInv, Typed, Nested, TypeOK
<1> QED
  BY <1>1, Invariance, PTL

(* The flag is off only while a thread dials the proxy: hook.def puts it    *)
(* back on both of its ways out.                                            *)
THEOREM FlagRestored == Spec => []OffOnlyInSection
<1>1. IInv => OffOnlyInSection
  BY DEF IInv
<1> QED
  BY <1>1, Invariance, PTL

(* A connect that succeeds leaves the program with a socket that reaches    *)
(* the host it asked for, in the mode it had, whatever other threads do.    *)
THEOREM Reaches == Spec => []ReachesHost
<1>1. IInv => ReachesHost
  <2> SUFFICES ASSUME IInv, NEW t \in Threads, At(t, "back"), Top(t).ok
               PROVE  /\ Last(Top(t).route) = Top(t).to
                      /\ Top(t).route = <<Top(t).to>> \/ Head(Top(t).route) = Proxy
                      /\ Top(t).blocks <=> Top(t).fd # "nonblocking"
    BY DEF ReachesHost
  <2>1. Sound(Top(t)) /\ Top(t).at = "back"
    BY Innermost DEF At
  <2> QED
    BY <2>1 DEF Sound
<1> QED
  BY <1>1, Invariance, PTL

(* Only another thread's dial lets a stream of a hooked program pass by the *)
(* proxy: no sequence of calls and failures in one thread does.             *)
THEOREM NoOtherBypass == Spec => BypassOnlyInRace
<1> DEFINE Bypass ==
        \A t \in Threads :
            /\ At(t, "enter") /\ Len(stack[t]) = 1 /\ phase = "hooked"
            /\ Top(t).fd \in {"stream", "nonblocking"}
            /\ At(t, "direct")'
            => \E u \in Threads \ {t} : InSection(u)
<1>1. IInv /\ [Next]_vars => Bypass
  <2> SUFFICES ASSUME IInv, [Next]_vars, NEW t \in Threads,
                      At(t, "enter"), Len(stack[t]) = 1, phase = "hooked",
                      Top(t).fd \in {"stream", "nonblocking"}, At(t, "direct")'
               PROVE  \E u \in Threads \ {t} : InSection(u)
    OBVIOUS
  <2>1. /\ stack[t] # <<>> /\ Top(t).at = "enter"
        /\ stack \in [Threads -> Seq(Calls)] /\ Nested(stack[t])
        /\ Top(t) = stack[t][Len(stack[t])] /\ Top(t) \in Calls
    BY Innermost DEF At, IInv, Typed
  <2>2. stack'[t] # stack[t]
    BY <2>1 DEF At, Top
  <2>3. ~InSection(t)
    <3>1. Top(t).at \notin Section
      BY <2>1 DEF Section
    <3>2. stack[t] \in Seq(Calls)
      BY <2>1
    <3> QED
      BY <2>1, <3>1, <3>2, SectionOf DEF InSection
  <2>4. Enter(t)
    <3>1. PICK v \in Threads : Connect(v) \/ Hook(v)
      BY <2>2 DEF Next, vars, Usage, Exec, InitHook, Outside
    <3>2. v = t
      <4>1. \E r : stack' = [stack EXCEPT ![v] = r]
        BY <3>1 DEF Connect, Hook, Enter, Direct, SwitchOff, Dial, Dialled, Greet, Refuse,
                    SwitchOn, Splice, Returned, To, Now, Return
      <4> QED
        BY <2>1, <2>2, <4>1
    <3> QED
      BY <2>1, <3>1, <3>2 DEF Connect, Hook, Direct, SwitchOff, Dial, Dialled, Greet, Refuse,
                    SwitchOn, Splice, Returned, At
  <2>5. ~proxy_on
    <3>1. SUFFICES ASSUME proxy_on PROVE FALSE
      OBVIOUS
    <3>2. To(t, "off")
      <4>1. PICK stream \in Streams(Top(t)) :
                To(t, IF phase = "hooked" /\ proxy_on /\ stream THEN "off" ELSE "direct")
        BY <2>4 DEF Enter
      <4>2. Top(t).fd # "none"
        OBVIOUS
      <4>3. stream = (Top(t).fd \in {"stream", "nonblocking"})
        BY <4>1, <4>2, Zenon DEF Streams
      <4>4. stream = TRUE
        BY <4>3
      <4> QED
        BY <3>1, <4>1, <4>4
    <3> DEFINE c == [Top(t) EXCEPT !.at = "off"]
    <3>3. c \in Calls /\ c.at = "off"
      <4>1. c \in Calls
        BY <2>1, Fields DEF Locations
      <4>2. c.at = "off"
        BY <2>1 DEF Calls
      <4> QED
        BY <4>1, <4>2
    <3> HIDE DEF c
    <3>4. stack'[t] = Front(stack[t]) \o <<c>>
      BY <2>1, <3>2 DEF To, Now, c
    <3>5. stack[t] \in Seq(Calls)
      BY <2>1
    <3>6. Len(stack'[t]) = Len(stack[t]) /\ stack'[t][Len(stack[t])] = c
      BY <2>1, <3>3, <3>4, <3>5, Replaced
    <3>7. stack'[t][Len(stack'[t])].at = "direct"
      BY DEF At, Top
    <3> QED
      BY <3>3, <3>6, <3>7
  <2> QED
    BY <2>3, <2>5 DEF IInv, OffOnlyInSection
<1> QED
  BY <1>1, Invariance, PTL DEF Spec, BypassOnlyInRace
=============================================================================

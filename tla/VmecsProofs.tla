---------------------------- MODULE VmecsProofs ----------------------------
(***************************************************************************)
(* The configuration of vmecs, for any documents, any number of workers,    *)
(* and any hash function.  The hash table is a map: linear probing neither  *)
(* hides a key nor stores one twice, and the assertion of an insertion      *)
(* fails exactly when all slots hold other keys.  The tokens of lexer()     *)
(* tile the text.  The objects are a tree whose paths are all different,    *)
(* kept by every entry until all of them are freed, and what lookups find   *)
(* in it is the dictionary that the entries mean.                           *)
(***************************************************************************)
EXTENDS Vmecs, SequenceTheorems, FiniteSetTheorems, WellFoundedInduction, TLAPS

(* A table as insertions make it: size never reaches the number of slots.   *)
IsHashTable(t) ==
    /\ t = [tab |-> t.tab, size |-> t.size, cap |-> t.cap]
    /\ t.cap \in Nat \ {0} /\ t.size \in Nat /\ t.size < t.cap
    /\ DOMAIN t.tab \subseteq Slots(t)

-----------------------------------------------------------------------------
(* The first place where a search may stop.                                 *)

Less == {p \in Nat \X Nat : p[1] < p[2]}

LEMMA LessIn == \A x, y \in Nat : <<y, x>> \in Less <=> y < x
BY DEF Less

LEMMA LessWellFounded == IsWellFoundedOn(Less, Nat)
<1>1. OpToRel(<, Nat) = Less
  BY DEF OpToRel, Less
<1> QED
  BY <1>1, NatLessThanWellFounded

LEMMA Least ==
    ASSUME NEW S \in SUBSET Nat, S # {}
    PROVE  \E j \in S : \A n \in S : j <= n
<1>1. PICK j \in S : \A n \in S : ~(<<n, j>> \in Less)
  BY LessWellFounded, WFMin
<1>2. \A n \in S : ~(n < j)
  BY <1>1, LessIn
<1> QED
  BY <1>2

LEMMA FirstStop ==
    ASSUME NEW t, t.cap \in Nat, NEW k, Found(t, k)
    PROVE  \E j \in Stops(t, k) : /\ \A n \in Stops(t, k) : j <= n
                                  /\ Find(t, k) = Probe(t, k, j)
<1>1. Stops(t, k) \in SUBSET Nat /\ Stops(t, k) # {}
  BY DEF Stops, Slots, Found
<1>2. \E j \in Stops(t, k) : \A n \in Stops(t, k) : j <= n
  BY <1>1, Least
<1> DEFINE j == CHOOSE j \in Stops(t, k) : \A n \in Stops(t, k) : j <= n
<1>3. j \in Stops(t, k) /\ \A n \in Stops(t, k) : j <= n
  BY <1>2
<1>4. Find(t, k) = Probe(t, k, j)
  BY DEF Find
<1> QED
  BY <1>3, <1>4

(* A place that stops a search and has no other before it is the first one. *)
LEMMA FirstStopIs ==
    ASSUME NEW t, t.cap \in Nat, NEW k, NEW j \in Stops(t, k),
           \A n \in Stops(t, k) : j <= n
    PROVE  Found(t, k) /\ Find(t, k) = Probe(t, k, j)
<1>1. Found(t, k)
  BY DEF Found
<1>2. PICK m \in Stops(t, k) : /\ \A n \in Stops(t, k) : m <= n
                               /\ Find(t, k) = Probe(t, k, m)
  BY <1>1, FirstStop
<1>3. j <= m /\ m <= j /\ j \in Nat /\ m \in Nat
  BY <1>2 DEF Stops, Slots
<1> QED
  BY <1>1, <1>2, <1>3

-----------------------------------------------------------------------------
(* Every slot is on the way of every key.                                   *)

LEMMA ModRange ==
    ASSUME NEW h \in Nat, NEW c \in Nat \ {0}
    PROVE  h % c \in 0 .. c - 1 /\ h \div c \in Nat /\ h = c * (h \div c) + (h % c)
OBVIOUS

LEMMA ModUnique ==
    ASSUME NEW c \in Nat \ {0}, NEW q \in Nat, NEW i \in 0 .. c - 1
    PROVE  (c * q + i) % c = i
<1> DEFINE x == c * q + i
<1>1. x \in Nat /\ c * q \in Nat
  OBVIOUS
<1>2. PICK p \in Nat, r \in 0 .. c - 1 : x = c * p + r /\ r = x % c
  BY <1>1, ModRange
<1>3. p = q
  <2>1. CASE p < q
    <3>1. c * (p + 1) <= c * q
      BY <2>1
    <3>2. c * (p + 1) = c * p + c
      OBVIOUS
    <3> QED
      BY <1>2, <3>1, <3>2
  <2>2. CASE q < p
    <3>1. c * (q + 1) <= c * p
      BY <2>2
    <3>2. c * (q + 1) = c * q + c
      OBVIOUS
    <3> QED
      BY <1>2, <3>1, <3>2
  <2> QED
    BY <2>1, <2>2
<1> QED
  BY <1>2, <1>3

LEMMA ProbesAll ==
    ASSUME NEW t, t.cap \in Nat \ {0}, NEW k, Hash(k) \in Nat, NEW i \in Slots(t)
    PROVE  \E j \in Slots(t) : Probe(t, k, j) = i
<1> DEFINE c == t.cap
           h == Hash(k)
<1>1. PICK q \in Nat, r \in 0 .. c - 1 : h = c * q + r
  BY ModRange
<1>2. i \in 0 .. c - 1 /\ c * q \in Nat
  BY <1>1 DEF Slots
<1>3. CASE r <= i
  <2>1. h + (i - r) = c * q + i
    BY <1>1, <1>2
  <2>2. (h + (i - r)) % c = i
    BY <1>2, <2>1, ModUnique
  <2>3. i - r \in Slots(t)
    BY <1>2, <1>3 DEF Slots
  <2> QED
    BY <2>2, <2>3 DEF Probe
<1>4. CASE i < r
  <2>1. c * (q + 1) = c * q + c
    OBVIOUS
  <2>2. h + (i + c - r) = c * (q + 1) + i
    BY <1>1, <1>2, <2>1
  <2>3. (h + (i + c - r)) % c = i
    BY SMTT(30), <1>2, <2>2, ModUnique
  <2>4. i + c - r \in Slots(t)
    BY <1>2, <1>4 DEF Slots
  <2> QED
    BY <2>3, <2>4 DEF Probe
<1> QED
  BY <1>2, <1>3, <1>4

-----------------------------------------------------------------------------
(* Insertions.                                                              *)

(* An insertion changes one slot, which was free or held the key.           *)
LEMMA Inserted ==
    ASSUME NEW t, IsHashTable(t), NEW k, Hash(k) \in Nat, NEW v, Insertable(t, k)
    PROVE  LET u == Insert(t, k, v)
               i == Find(t, k)
           IN  /\ u = [tab |-> u.tab, size |-> u.size, cap |-> u.cap]
               /\ u.size = t.size /\ u.cap = t.cap
               /\ DOMAIN u.tab = DOMAIN t.tab \cup {i}
               /\ u.tab[i] = [key |-> k, val |-> v]
               /\ \A n \in DOMAIN t.tab \ {i} : u.tab[n] = t.tab[n]
               /\ i \in Slots(t) /\ Found(t, k)
               /\ i \in DOMAIN t.tab => t.tab[i].key = k
<1> DEFINE u == Insert(t, k, v)
           i == Find(t, k)
<1>1. t.size # t.cap
  BY DEF IsHashTable
<1>2. Grown(t) = t
  BY <1>1 DEF Grown
<1>3. Found(t, k) /\ u = Put(t, k, v)
  BY <1>2 DEF Insertable, Insert
<1>4. PICK j \in Stops(t, k) : i = Probe(t, k, j)
  BY <1>3, FirstStop DEF IsHashTable
<1>5. i \in DOMAIN t.tab => t.tab[i].key = k
  BY <1>4 DEF Stops
<1>6. i \in Slots(t)
  <2>1. Hash(k) + j \in Nat
    BY <1>4 DEF Stops, Slots
  <2> QED
    BY <1>4, <2>1, ModRange DEF Probe, Slots, IsHashTable
<1> HIDE DEF i, u
<1>7. u = [t EXCEPT !.tab = [n \in DOMAIN t.tab \cup {i} |->
                               IF n = i THEN [key |-> k, val |-> v] ELSE t.tab[n]]]
  BY <1>3 DEF Put, i
<1>8. u = [tab |-> [n \in DOMAIN t.tab \cup {i} |->
                      IF n = i THEN [key |-> k, val |-> v] ELSE t.tab[n]],
           size |-> t.size, cap |-> t.cap]
  BY <1>7 DEF IsHashTable
<1>9. /\ u = [tab |-> u.tab, size |-> u.size, cap |-> u.cap]
      /\ u.size = t.size /\ u.cap = t.cap
      /\ DOMAIN u.tab = DOMAIN t.tab \cup {i}
      /\ u.tab[i] = [key |-> k, val |-> v]
      /\ \A n \in DOMAIN t.tab \ {i} : u.tab[n] = t.tab[n]
  BY <1>8
<1> QED
  BY <1>3, <1>5, <1>6, <1>9 DEF i, u

-----------------------------------------------------------------------------

(* A new table has no key, and is where the insertions start.               *)
THEOREM EmptyTable ==
    /\ IsHashTable(NewTable) /\ Reachable(NewTable)
    /\ \A k : Lookup(NewTable, k) = NULL
<1>1. NewTable.tab = [i \in {} |-> NULL] /\ NewTable.size = 0 /\ NewTable.cap = TABLE_INIT_BUF
  BY DEF NewTable
<1>2. DOMAIN NewTable.tab = {}
  BY <1>1
<1>3. NewTable = [tab |-> NewTable.tab, size |-> NewTable.size, cap |-> NewTable.cap]
  BY DEF NewTable
<1>4. IsHashTable(NewTable)
  BY <1>1, <1>2, <1>3, PowerOfTwo DEF IsHashTable
<1> QED
  BY <1>2, <1>4 DEF Reachable, Lookup

(* An insertion keeps the table from growing: nothing raises size, so a     *)
(* table has the slots it was made with, whatever the number of its keys.   *)
THEOREM NeverGrows ==
    ASSUME NEW t, IsHashTable(t), NEW k, Hash(k) \in Nat, NEW v, Insertable(t, k)
    PROVE  /\ IsHashTable(Insert(t, k, v))
           /\ Insert(t, k, v).cap = t.cap /\ Insert(t, k, v).size = t.size
<1> DEFINE u == Insert(t, k, v)
           i == Find(t, k)
<1>1. /\ u = [tab |-> u.tab, size |-> u.size, cap |-> u.cap]
      /\ u.size = t.size /\ u.cap = t.cap
      /\ DOMAIN u.tab = DOMAIN t.tab \cup {i}
      /\ u.tab[i] = [key |-> k, val |-> v]
      /\ \A n \in DOMAIN t.tab \ {i} : u.tab[n] = t.tab[n]
      /\ i \in Slots(t) /\ Found(t, k)
      /\ i \in DOMAIN t.tab => t.tab[i].key = k
  BY Inserted
<1> HIDE DEF u, i
<1>2. u.cap = t.cap /\ u.size = t.size
  BY <1>1
<1>3. Slots(u) = Slots(t)
  BY <1>2 DEF Slots
<1>4. IsHashTable(u)
  BY <1>1, <1>2, <1>3 DEF IsHashTable
<1> QED
  BY <1>2, <1>4 DEF u

(* After an insertion every key is still where a search for it ends, in     *)
(* particular those whose search passes the slot that was filled.           *)
THEOREM InsertKeepsReachable ==
    ASSUME NEW t, IsHashTable(t), Reachable(t),
           NEW k, Hash(k) \in Nat, NEW v, Insertable(t, k)
    PROVE  Reachable(Insert(t, k, v))
<1> DEFINE u == Insert(t, k, v)
           i == Find(t, k)
<1>1. /\ DOMAIN u.tab = DOMAIN t.tab \cup {i}
      /\ u.tab[i] = [key |-> k, val |-> v]
      /\ \A n \in DOMAIN t.tab \ {i} : u.tab[n] = t.tab[n]
      /\ i \in Slots(t) /\ Found(t, k)
      /\ i \in DOMAIN t.tab => t.tab[i].key = k
  BY Inserted
<1>2. u.cap = t.cap /\ t.cap \in Nat
  BY NeverGrows DEF IsHashTable
<1> HIDE DEF u
<1>3. Slots(u) = Slots(t) /\ \A m, j : Probe(u, m, j) = Probe(t, m, j)
  BY <1>2 DEF Slots, Probe
<1>4. u.tab[i].key = k
  BY <1>1
<1>5. Found(u, k) /\ Find(u, k) = i
  <2>1. PICK j \in Stops(t, k) : /\ \A n \in Stops(t, k) : j <= n
                                 /\ i = Probe(t, k, j)
    BY <1>1, <1>2, FirstStop
  <2> HIDE DEF i
  <2>2. Stops(u, k) = Stops(t, k)
    BY <1>1, <1>3, <1>4 DEF Stops
  <2> QED
    BY <1>2, <1>3, <2>1, <2>2, FirstStopIs
<1>6. ASSUME NEW n \in DOMAIN t.tab \ {i}
      PROVE  Found(u, u.tab[n].key) /\ Find(u, u.tab[n].key) = n
  <2> DEFINE m == t.tab[n].key
  <2>1. u.tab[n].key = m
    BY <1>1
  <2>2. Found(t, m) /\ Find(t, m) = n
    BY DEF Reachable
  <2>3. m # k
    BY <2>2
  <2>4. PICK j \in Stops(t, m) : /\ \A p \in Stops(t, m) : j <= p
                                 /\ n = Probe(t, m, j)
    BY <1>2, <2>2, FirstStop
  <2> HIDE DEF i, m
  <2>5. Stops(u, m) = {p \in Stops(t, m) : Probe(t, m, p) # i}
    BY <1>1, <1>3, <1>4, <2>3 DEF Stops
  <2>6. j \in Stops(u, m) /\ \A p \in Stops(u, m) : j <= p
    BY <2>4, <2>5
  <2>7. Found(u, m) /\ Find(u, m) = n
    BY <1>2, <1>3, <2>4, <2>6, FirstStopIs
  <2> QED
    BY <2>1, <2>7
<1>7. Reachable(u)
  BY <1>1, <1>4, <1>5, <1>6 DEF Reachable
<1> QED
  BY <1>7 DEF u

(* A lookup returns what was inserted last under its key, and NULL for a    *)
(* key that was not, however the keys collide.                              *)
THEOREM LookupInserted ==
    ASSUME NEW t, IsHashTable(t), Reachable(t),
           NEW k, Hash(k) \in Nat, NEW v, Insertable(t, k), NEW m
    PROVE  Lookup(Insert(t, k, v), m) = IF m = k THEN v ELSE Lookup(t, m)
<1> DEFINE u == Insert(t, k, v)
           i == Find(t, k)
<1>1. /\ DOMAIN u.tab = DOMAIN t.tab \cup {i}
      /\ u.tab[i] = [key |-> k, val |-> v]
      /\ \A n \in DOMAIN t.tab \ {i} : u.tab[n] = t.tab[n]
      /\ i \in DOMAIN t.tab => t.tab[i].key = k
  BY Inserted
<1>2. u.cap = t.cap /\ t.cap \in Nat
  BY NeverGrows DEF IsHashTable
<1>3. Reachable(u)
  BY InsertKeepsReachable
<1> HIDE DEF u, i
<1>4. u.tab[i].key = k /\ u.tab[i].val = v
  BY <1>1
<1>5. CASE m = k
  <2>1. Found(u, k) /\ Find(u, k) = i
    BY <1>1, <1>3, <1>4 DEF Reachable
  <2> QED
    BY <1>1, <1>4, <1>5, <2>1 DEF Lookup, u
<1>6. CASE m # k
  <2>1. ASSUME NEW s, s.cap \in Nat, Found(s, m), Find(s, m) \in DOMAIN s.tab
        PROVE  s.tab[Find(s, m)].key = m
    BY <2>1, FirstStop DEF Stops
  <2>2. CASE Found(u, m) /\ Find(u, m) \in DOMAIN u.tab
    <3> DEFINE n == Find(u, m)
    <3>1. u.tab[n].key = m
      BY <1>2, <2>1, <2>2
    <3>2. n \in DOMAIN t.tab \ {i}
      BY <1>1, <1>4, <1>6, <2>2, <3>1
    <3>3. u.tab[n] = t.tab[n]
      BY <1>1, <3>2
    <3>4. Found(t, m) /\ Find(t, m) = n
      BY <3>1, <3>2, <3>3 DEF Reachable
    <3>5. Lookup(u, m) = u.tab[n].val
      BY <2>2 DEF Lookup
    <3>6. Lookup(t, m) = t.tab[n].val
      BY <3>2, <3>4 DEF Lookup
    <3> QED
      BY <1>6, <3>3, <3>5, <3>6 DEF u
  <2>3. CASE ~(Found(u, m) /\ Find(u, m) \in DOMAIN u.tab)
    <3>1. ASSUME Found(t, m), Find(t, m) \in DOMAIN t.tab
          PROVE  FALSE
      <4> DEFINE n == Find(t, m)
      <4>1. t.tab[n].key = m
        BY <1>2, <2>1, <3>1
      <4>2. n # i
        BY <1>1, <1>6, <3>1, <4>1
      <4>3. n \in DOMAIN u.tab /\ u.tab[n].key = m
        BY <1>1, <3>1, <4>1, <4>2
      <4> QED
        BY <1>3, <2>3, <4>3 DEF Reachable
    <3>2. Lookup(u, m) = NULL
      BY <2>3 DEF Lookup
    <3>3. Lookup(t, m) = NULL
      BY <3>1 DEF Lookup
    <3> QED
      BY <1>6, <3>2, <3>3 DEF u
  <2> QED
    BY <2>2, <2>3
<1> QED
  BY <1>5, <1>6

(* The assertion of an insertion fails exactly for a new key in a table     *)
(* whose slots are all in use, as table.c:104 says: the ninth name.         *)
THEOREM FullTable ==
    ASSUME NEW t, IsHashTable(t), Reachable(t), NEW k, Hash(k) \in Nat
    PROVE  ~Insertable(t, k) <=> DOMAIN t.tab = Slots(t) /\ k \notin Keys(t)
<1>1. t.size # t.cap /\ t.cap \in Nat \ {0} /\ DOMAIN t.tab \subseteq Slots(t)
  BY DEF IsHashTable
<1>2. Insertable(t, k) <=> Found(t, k)
  BY <1>1 DEF Insertable, Grown
<1>3. ASSUME NEW i \in Slots(t), i \in DOMAIN t.tab => t.tab[i].key = k
      PROVE  Found(t, k)
  <2>1. PICK j \in Slots(t) : Probe(t, k, j) = i
    BY <1>1, ProbesAll
  <2>2. j \in Stops(t, k)
    BY <1>3, <2>1 DEF Stops
  <2> QED
    BY <2>2 DEF Found
<1>4. ASSUME Found(t, k), DOMAIN t.tab = Slots(t)
      PROVE  k \in Keys(t)
  <2>1. PICK j \in Stops(t, k) : TRUE
    BY <1>4 DEF Found
  <2>2. Probe(t, k, j) \in Slots(t)
    <3>1. Hash(k) + j \in Nat
      BY <1>1, <2>1 DEF Stops, Slots
    <3> QED
      BY <1>1, <3>1, ModRange DEF Probe, Slots
  <2>3. t.tab[Probe(t, k, j)].key = k
    BY <1>4, <2>1, <2>2 DEF Stops
  <2> QED
    BY <1>4, <2>2, <2>3 DEF Keys
<1>5. ASSUME ~Found(t, k)
      PROVE  DOMAIN t.tab = Slots(t) /\ k \notin Keys(t)
  <2>1. \A i \in Slots(t) : i \in DOMAIN t.tab /\ t.tab[i].key # k
    BY <1>3, <1>5
  <2> QED
    BY <1>1, <2>1 DEF Keys
<1> QED
  BY <1>2, <1>4, <1>5

(* Counting up from 0.                                                      *)
LEMMA UpTo ==
  ASSUME NEW n \in Nat, NEW Up, 0 \in Up, \A i \in 1 .. n : i - 1 \in Up => i \in Up
  PROVE  \A i \in 0 .. n : i \in Up
<1> DEFINE Bad == {i \in 0 .. n : i \notin Up}
<1>1. ASSUME NEW m \in Bad, \A k \in Bad : m <= k PROVE FALSE
  <2>1. m \in 0 .. n /\ m \notin Up
    OBVIOUS
  <2>2. m # 0
    BY <2>1
  <2>3. m \in 1 .. n /\ m - 1 \in 0 .. n /\ ~(m <= m - 1)
    BY <2>1, <2>2
  <2>4. m - 1 \notin Bad
    BY <1>1, <2>3
  <2>5. m - 1 \in Up
    BY <2>3, <2>4
  <2> QED BY <2>1, <2>3, <2>5
<1>2. Bad \in SUBSET Nat
  OBVIOUS
<1>3. Bad = {}
  <2> HIDE DEF Bad
  <2> QED BY <1>1, <1>2, Least
<1> QED BY <1>3

(* A function defined by what the i-th step makes of the value before it.   *)
Built(f, base, step, m) ==
    f[0] = base /\ \A i \in 1 .. m : f[i] = step[i][f[i - 1]]

(* A function that each step extends by one value.                          *)
LEMMA StepByStep ==
  ASSUME NEW S, NEW n \in Nat, NEW base \in S, NEW step \in [1 .. n -> [S -> S]]
  PROVE  \E f \in [0 .. n -> S] : Built(f, base, step, n)
<1> DEFINE Up == {m \in 0 .. n : \E f \in [0 .. m -> S] : Built(f, base, step, m)}
<1>1. 0 \in Up
  <2> DEFINE g == [i \in 0 .. 0 |-> base]
  <2>1. g \in [0 .. 0 -> S] /\ Built(g, base, step, 0)
    BY DEF Built
  <2>2. \E f \in [0 .. 0 -> S] : Built(f, base, step, 0)
    BY <2>1
  <2> QED BY <2>2
<1>2. ASSUME NEW i \in 1 .. n, i - 1 \in Up PROVE i \in Up
  <2>1. PICK f \in [0 .. i - 1 -> S] : Built(f, base, step, i - 1)
    BY <1>2
  <2> DEFINE g == [k \in 0 .. i |-> IF k < i THEN f[k] ELSE step[i][f[i - 1]]]
  <2>2. i - 1 \in 0 .. i - 1
    OBVIOUS
  <2>3. step[i][f[i - 1]] \in S
    BY <2>2
  <2>4. g \in [0 .. i -> S]
    BY <2>3
  <2>5. g[0] = base
    BY <2>1 DEF Built
  <2>6. ASSUME NEW k \in 1 .. i PROVE g[k] = step[k][g[k - 1]]
    <3>1. g[k - 1] = f[k - 1]
      OBVIOUS
    <3>2. CASE k < i
      <4>1. f[k] = step[k][f[k - 1]]
        BY <2>1, <3>2 DEF Built
      <4> QED BY <3>1, <3>2, <4>1
    <3>3. CASE k = i
      BY <3>1, <3>3
    <3> QED BY <3>2, <3>3
  <2> HIDE DEF g
  <2>7. Built(g, base, step, i)
    BY <2>5, <2>6 DEF Built
  <2>8. \E f2 \in [0 .. i -> S] : Built(f2, base, step, i)
    BY <2>4, <2>7
  <2>9. i \in 0 .. n
    OBVIOUS
  <2> QED BY <2>8, <2>9
<1>3. \A i \in 0 .. n : i \in Up
  <2> HIDE DEF Up
  <2> QED BY <1>1, <1>2, UpTo
<1> QED BY <1>3

-----------------------------------------------------------------------------
(* What the parsers of the rules return.                                    *)

Str == Seq(Chars)

Rules == DOMAIN Grammar

NoToken == [kind |-> "none"]
ValuesIn(list) == {TokenValue(list[i]) : i \in 1 .. Len(list)} \cup {TokenValue(NoToken), NoValue}
EntriesIn(list) == {Entry(k, v) : k \in Seq(Str), v \in ValuesIn(list)}

Nodes(rule, list) ==
    CASE rule \in {"bool", "string", "int", "value"} -> ValuesIn(list)
      [] rule = "id" -> Str
      [] rule \in {"key_tail", "key"} -> Seq(Str)
      [] rule = "entry" -> EntriesIn(list)
      [] rule \in {"entry_list_tail", "entry_list", "parse_unit"} -> Seq(EntriesIn(list))
      [] OTHER -> {<<>>}

AllNodes(list) == UNION {Nodes(r, list) : r \in Rules}

Results(list) == [ok : BOOLEAN, n : Nat, node : AllNodes(list)]

ParsersOf(list) ==
    {f \in [Rules -> [Nat -> Results(list)]] :
        \A r \in Rules, c \in Nat : f[r][c].ok => f[r][c].node \in Nodes(r, list)}

MatchesIn(list) == [ok : BOOLEAN, n : Nat, node : Seq(AllNodes(list))]

(* The symbols of the rules.                                                *)
TokenKinds == {"space", "false", "true", "string", "int", "id", "dot", "eq", "lbrack", "rbrack",
          "newline", "semicolon", "float", "comment"}

Symbols == {s \in [term : BOOLEAN, name : TokenKinds \cup Rules] : ~s.term => s.name \in Rules}

(* One more symbol of an alternative.                                       *)
Step(m, s, list, cur, parsers) ==
    LET at == cur + m.n
    IN  IF s.term
        THEN IF at < Len(list) /\ list[at + 1].kind = s.name
             THEN Match(m.n + 1, m.node) ELSE NoMatch
        ELSE LET r == parsers[s.name][at]
             IN  IF r.ok THEN Match(m.n + r.n, Append(m.node, r.node)) ELSE NoMatch

OneMore(m, s, list, cur, parsers) == IF m.ok THEN Step(m, s, list, cur, parsers) ELSE NoMatch

(* What a parser of a rule may return, field by field.                      *)
LEMMA ParserFields ==
  ASSUME NEW list, NEW parsers \in ParsersOf(list), NEW r \in Rules, NEW c \in Nat
  PROVE  /\ parsers[r][c].ok \in BOOLEAN /\ parsers[r][c].n \in Nat
         /\ parsers[r][c].node \in AllNodes(list)
         /\ parsers[r][c].ok => parsers[r][c].node \in Nodes(r, list)
<1>0. parsers \in [Rules -> [Nat -> Results(list)]]
  BY DEF ParsersOf
<1>1. parsers[r][c] \in Results(list)
  BY <1>0
<1> QED BY <1>1 DEF ParsersOf, Results

(* One more symbol keeps a match a match.                                   *)
LEMMA StepType ==
  ASSUME NEW list, Len(list) \in Nat, NEW parsers \in ParsersOf(list), NEW cur \in Nat,
         NEW s \in Symbols, NEW m \in MatchesIn(list)
  PROVE  OneMore(m, s, list, cur, parsers) \in MatchesIn(list)
<1>1. m.n \in Nat /\ m.node \in Seq(AllNodes(list)) /\ s.term \in BOOLEAN
  BY DEF MatchesIn, Symbols
<1>2. NoMatch \in MatchesIn(list)
  <2>1. <<>> \in Seq(AllNodes(list))
    OBVIOUS
  <2> QED BY <2>1 DEF NoMatch, MatchesIn
<1>3. \A n \in Nat, c \in Seq(AllNodes(list)) : Match(n, c) \in MatchesIn(list)
  BY DEF Match, MatchesIn
<1>4. CASE s.term
  <2>1. Match(m.n + 1, m.node) \in MatchesIn(list)
    BY <1>1, <1>3
  <2> QED BY <1>2, <1>4, <2>1 DEF OneMore, Step
<1>5. CASE ~s.term
  <2> DEFINE r == parsers[s.name][cur + m.n]
  <2>1. cur + m.n \in Nat
    BY <1>1
  <2>0. s.name \in Rules
    BY <1>5 DEF Symbols
  <2>2. r.n \in Nat /\ r.node \in AllNodes(list)
    BY <2>0, <2>1, ParserFields
  <2>3. Append(m.node, r.node) \in Seq(AllNodes(list))
    BY <1>1, <2>2, AppendProperties
  <2> HIDE DEF r
  <2>4. Match(m.n + r.n, Append(m.node, r.node)) \in MatchesIn(list)
    <3>1. m.n + r.n \in Nat
      BY <1>1, <2>2
    <3> QED BY <1>3, <2>3, <3>1
  <2>5. Step(m, s, list, cur, parsers)
          = IF r.ok THEN Match(m.n + r.n, Append(m.node, r.node)) ELSE NoMatch
    BY <1>5 DEF Step, r
  <2>6. Step(m, s, list, cur, parsers) \in MatchesIn(list)
    BY <1>2, <2>4, <2>5
  <2> QED BY <1>2, <2>6 DEF OneMore
<1> QED BY <1>1, <1>4, <1>5

(* The matcher goes from symbol to symbol.                                  *)
Goes(f, symbols, list, cur, parsers) ==
    /\ f[0] = Match(0, <<>>)
    /\ \A i \in 1 .. Len(symbols) : f[i] = OneMore(f[i - 1], symbols[i], list, cur, parsers)

(* match_rule is the last of the matches that its symbols give in turn.     *)
LEMMA MatchGoes ==
  ASSUME NEW list, Len(list) \in Nat, NEW parsers \in ParsersOf(list), NEW cur \in Nat,
         NEW symbols \in Seq(Symbols)
  PROVE  \E f \in [0 .. Len(symbols) -> MatchesIn(list)] :
            /\ Goes(f, symbols, list, cur, parsers)
            /\ match_rule(symbols, list, cur, parsers) = f[Len(symbols)]
<1> DEFINE L == Len(symbols)
           S == MatchesIn(list)
           Body(m, i) == OneMore(m, symbols[i], list, cur, parsers)
           base == Match(0, <<>>)
           Is(f) == f = [i \in 0 .. L |-> IF i = 0 THEN base ELSE Body(f[i - 1], i)]
           made == CHOOSE f : Is(f)
           step == [i \in 1 .. L |-> [m \in S |-> Body(m, i)]]
<1>1. L \in Nat /\ \A i \in 1 .. L : symbols[i] \in Symbols
  BY LenProperties, ElementOfSeq
<1>2. base \in S
  BY DEF Match, MatchesIn
<1>3. \A i \in 1 .. L, m \in S : Body(m, i) \in S
  BY <1>1, StepType
<1>4. match_rule(symbols, list, cur, parsers) = made[L]
  BY Zenon DEF match_rule, OneMore, Step
<1> HIDE DEF S, Body, base, L
<1>5. step \in [1 .. L -> [S -> S]]
  BY <1>3
<1>6. PICK h \in [0 .. L -> S] : Built(h, base, step, L)
  BY <1>1, <1>2, <1>5, StepByStep
<1>7. Is(h)
  <2>1. \A i \in 1 .. L : h[i - 1] \in S
    BY <1>1
  <2>2. \A i \in 1 .. L : h[i] = Body(h[i - 1], i)
    BY <1>6, <2>1 DEF Built
  <2>3. \A i \in 0 .. L : h[i] = IF i = 0 THEN base ELSE Body(h[i - 1], i)
    BY <1>1, <1>6, <2>2 DEF Built
  <2>4. h = [i \in 0 .. L |-> h[i]]
    OBVIOUS
  <2> QED BY <2>3, <2>4
<1>8. Is(made)
  <2> HIDE DEF Is
  <2> QED BY <1>7
<1> HIDE DEF made
<1>9. DOMAIN made = 0 .. L /\ made[0] = base /\ \A i \in 1 .. L : made[i] = Body(made[i - 1], i)
  BY <1>1, <1>8
<1>10. \A i \in 0 .. L : i \in {k \in 0 .. L : made[k] \in S}
  <2> DEFINE Up == {k \in 0 .. L : made[k] \in S}
  <2>1. 0 \in Up
    BY <1>1, <1>2, <1>9
  <2>2. \A i \in 1 .. L : i - 1 \in Up => i \in Up
    BY <1>1, <1>3, <1>9
  <2> HIDE DEF Up
  <2>3. \A i \in 0 .. L : i \in Up
    BY <1>1, <2>1, <2>2, UpTo
  <2> QED BY <2>3 DEF Up
<1>11. made = [i \in 0 .. L |-> made[i]]
  BY <1>8
<1>12. made \in [0 .. L -> S]
  BY <1>10, <1>11
<1>13. Goes(made, symbols, list, cur, parsers)
  BY <1>9 DEF Goes, Body, base, L
<1> QED BY <1>4, <1>12, <1>13 DEF S, L

RuleNames ==
    {"space_opt", "bool", "string", "int", "value", "id", "key_tail", "key", "entry",
     "newline_list_opt", "newline_list", "separator", "entry_list_tail", "entry_list",
     "parse_unit"}

(* The rules of the grammar.                                                *)
LEMMA RulesAre == Rules = RuleNames
BY DEF Rules, RuleNames, Grammar

(* The symbol of a token.                                                   *)
LEMMA TermSymbol ==
  ASSUME NEW x \in TokenKinds PROVE T(x) \in Symbols /\ T(x).term /\ T(x).name = x
<1>1. T(x) \in [term : BOOLEAN, name : TokenKinds \cup Rules] /\ T(x).term /\ T(x).name = x
  BY DEF T
<1> QED BY <1>1 DEF Symbols

(* The symbol of a rule.                                                    *)
LEMMA RuleSymbol ==
  ASSUME NEW x \in Rules PROVE N(x) \in Symbols /\ ~N(x).term /\ N(x).name = x
<1>2. N(x) \in [term : BOOLEAN, name : TokenKinds \cup Rules] /\ ~N(x).term /\ N(x).name = x
  BY DEF N
<1> QED BY <1>2 DEF Symbols

(* Their first alternatives have symbols.                                   *)
LEMMA Alternatives ==
  ASSUME NEW rule \in Rules
  PROVE  Grammar[rule] \in Seq(Seq(Symbols))
<1>0. {"space_opt", "id", "key_tail", "key", "value", "newline_list_opt", "newline_list", "entry",
       "separator", "entry_list_tail", "entry_list", "bool", "string", "int"} \subseteq Rules
  BY RulesAre DEF RuleNames
<1>a. /\ N("space_opt") \in Symbols /\ N("id") \in Symbols /\ N("key_tail") \in Symbols
      /\ N("key") \in Symbols /\ N("value") \in Symbols /\ N("newline_list_opt") \in Symbols
      /\ N("newline_list") \in Symbols /\ N("entry") \in Symbols /\ N("separator") \in Symbols
      /\ N("entry_list_tail") \in Symbols /\ N("entry_list") \in Symbols
      /\ N("bool") \in Symbols /\ N("string") \in Symbols /\ N("int") \in Symbols
  BY <1>0, RuleSymbol
<1>b. /\ T("space") \in Symbols /\ T("false") \in Symbols /\ T("true") \in Symbols
      /\ T("string") \in Symbols /\ T("int") \in Symbols /\ T("id") \in Symbols
      /\ T("dot") \in Symbols /\ T("eq") \in Symbols /\ T("lbrack") \in Symbols
      /\ T("rbrack") \in Symbols /\ T("newline") \in Symbols /\ T("semicolon") \in Symbols
  BY TermSymbol DEF TokenKinds
<1>c. Sp \in Symbols
  BY <1>a DEF Sp
<1>d. Newlines \in Seq(Symbols)
  BY <1>a, <1>b, <1>c DEF Newlines
<1>1. CASE rule = "space_opt"
  BY <1>b, <1>1 DEF Grammar
<1>2. CASE rule = "bool"
  BY <1>b, <1>2 DEF Grammar
<1>3. CASE rule = "string"
  BY <1>b, <1>3 DEF Grammar
<1>4. CASE rule = "int"
  BY <1>b, <1>4 DEF Grammar
<1>5. CASE rule = "value"
  BY <1>a, <1>5 DEF Grammar
<1>6. CASE rule = "id"
  BY <1>b, <1>6 DEF Grammar
<1>7. CASE rule = "key_tail"
  BY <1>a, <1>b, <1>c, <1>7 DEF Grammar
<1>8. CASE rule = "key"
  BY <1>a, <1>8 DEF Grammar
<1>9. CASE rule = "entry"
  <2>1. <<Sp, N("key"), Sp, T("eq"), Sp, N("value"), Sp>> \in Seq(Symbols)
    BY <1>a, <1>b, <1>c
  <2>2. <<Sp, T("lbrack"), Sp, N("key"), Sp, T("rbrack"), Sp>> \in Seq(Symbols)
    BY <1>a, <1>b, <1>c
  <2>3. <<Sp, T("lbrack"), Sp, T("rbrack"), Sp>> \in Seq(Symbols)
    BY <1>a, <1>b, <1>c
  <2> QED BY <2>1, <2>2, <2>3, <1>9 DEF Grammar
<1>10. CASE rule = "newline_list_opt"
  BY <1>d, <1>10 DEF Grammar
<1>11. CASE rule = "newline_list"
  BY <1>d, <1>11 DEF Grammar
<1>12. CASE rule = "separator"
  BY <1>a, <1>b, <1>12 DEF Grammar
<1>13. CASE rule = "entry_list_tail"
  BY <1>a, <1>13 DEF Grammar
<1>14. CASE rule = "entry_list"
  BY <1>a, <1>14 DEF Grammar
<1>15. CASE rule = "parse_unit"
  BY <1>a, <1>15 DEF Grammar
<1> QED BY <1>1, <1>2, <1>3, <1>4, <1>5, <1>6, <1>7, <1>8, <1>9, <1>10, <1>11, <1>12, <1>13,
           <1>14, <1>15, RulesAre DEF RuleNames

(* What one more symbol adds to a match.                                    *)
Adds(m, s, k, list) ==
    /\ m.ok
    /\ s.term => k.node = m.node
    /\ ~s.term => \E x \in Nodes(s.name, list) : k.node = Append(m.node, x)

(* A symbol that matches adds what the rule or the token gives.             *)
LEMMA OneMoreAdds ==
  ASSUME NEW list, Len(list) \in Nat, NEW parsers \in ParsersOf(list), NEW cur \in Nat,
         NEW s \in Symbols, NEW m \in MatchesIn(list), NEW k, k = OneMore(m, s, list, cur, parsers),
         k.ok
  PROVE  Adds(m, s, k, list) /\ (s.term => cur + m.n < Len(list))
<1>1. m.n \in Nat
  BY DEF MatchesIn
<1>2. ~NoMatch.ok
  BY DEF NoMatch
<1>3. m.ok /\ k = Step(m, s, list, cur, parsers)
  BY <1>2 DEF OneMore
<1>4. CASE s.term
  BY <1>2, <1>3, <1>4 DEF Step, Match, Adds
<1>5. CASE ~s.term
  <2> DEFINE r == parsers[s.name][cur + m.n]
  <2>1. cur + m.n \in Nat /\ s.name \in Rules
    BY <1>1, <1>5 DEF Symbols
  <2>2. r.ok => r.node \in Nodes(s.name, list)
    BY <2>1, ParserFields
  <2>3. k = IF r.ok THEN Match(m.n + r.n, Append(m.node, r.node)) ELSE NoMatch
    BY <1>3, <1>5 DEF Step
  <2> HIDE DEF r
  <2>4. r.ok /\ k.node = Append(m.node, r.node)
    BY <1>2, <2>3 DEF Match
  <2> QED BY <1>3, <1>5, <2>2, <2>4 DEF Adds
<1> QED BY <1>4, <1>5

(* The nodes of an alternative that matches: one for each rule in it, and   *)
(* made by that rule.                                                       *)
Counts(symbols, count, names) ==
    /\ count[1] = 0
    /\ \A i \in 1 .. Len(symbols) :
          /\ symbols[i].term => count[i + 1] = count[i]
          /\ ~symbols[i].term => /\ count[i + 1] = count[i] + 1
                                 /\ names[count[i + 1]] = symbols[i].name

MadeBy(nodes, names, list) == \A j \in 1 .. Len(nodes) : nodes[j] \in Nodes(names[j], list)

(* A match has a node for each rule among the symbols, made by it.          *)
LEMMA Children ==
  ASSUME NEW list, Len(list) \in Nat, NEW parsers \in ParsersOf(list), NEW cur \in Nat,
         NEW symbols \in Seq(Symbols), NEW count, NEW names, Counts(symbols, count, names),
         NEW m, m = match_rule(symbols, list, cur, parsers), m.ok
  PROVE  /\ m.node \in Seq(AllNodes(list)) /\ Len(m.node) = count[Len(symbols) + 1]
         /\ MadeBy(m.node, names, list)
<1> DEFINE L == Len(symbols)
<1>1. L \in Nat /\ \A i \in 1 .. L : symbols[i] \in Symbols
  BY LenProperties, ElementOfSeq
<1>2. PICK f \in [0 .. L -> MatchesIn(list)] :
         Goes(f, symbols, list, cur, parsers) /\ m = f[L]
  BY MatchGoes
<1> HIDE DEF L
<1> DEFINE Good(i) == f[i].ok => Len(f[i].node) = count[i + 1] /\ MadeBy(f[i].node, names, list)
           Good0 == {i \in 0 .. L : Good(i)}
<1>3. \A i \in 0 .. L : f[i] \in MatchesIn(list) /\ f[i].node \in Seq(AllNodes(list))
  BY <1>2 DEF MatchesIn
<1>4. 0 \in Good0
  <2>1. f[0].node = <<>>
    BY <1>2 DEF Goes, Match
  <2>2. Len(<<>>) = 0 /\ MadeBy(<<>>, names, list)
    BY DEF MadeBy
  <2> QED BY <1>1, <2>1, <2>2 DEF Counts
<1>5. ASSUME NEW i \in 1 .. L, Good(i - 1) PROVE Good(i)
  <2> SUFFICES ASSUME f[i].ok PROVE Len(f[i].node) = count[i + 1] /\ MadeBy(f[i].node, names, list)
    OBVIOUS
  <2>1. i - 1 \in 0 .. L /\ i \in 0 .. L /\ symbols[i] \in Symbols /\ (i - 1) + 1 = i
    BY <1>1
  <2>2. f[i] = OneMore(f[i - 1], symbols[i], list, cur, parsers)
    BY <1>2 DEF Goes, L
  <2>3. f[i - 1] \in MatchesIn(list) /\ f[i - 1].node \in Seq(AllNodes(list))
    BY <1>3, <2>1
  <2>4. /\ f[i - 1].ok
        /\ symbols[i].term => f[i].node = f[i - 1].node
        /\ ~symbols[i].term =>
              \E x \in Nodes(symbols[i].name, list) : f[i].node = Append(f[i - 1].node, x)
    <3> DEFINE x == f[i]
               y == f[i - 1]
               z == symbols[i]
    <3>1. x.ok /\ y \in MatchesIn(list) /\ z \in Symbols /\ x = OneMore(y, z, list, cur, parsers)
      BY <2>1, <2>2, <2>3
    <3> HIDE DEF x, y, z
    <3>2. Adds(y, z, x, list)
      BY <3>1, OneMoreAdds
    <3> QED BY <3>2 DEF x, y, z, Adds
  <2>5. Len(f[i - 1].node) = count[i] /\ MadeBy(f[i - 1].node, names, list)
    BY <1>5, <2>1, <2>4
  <2>6. /\ symbols[i].term => count[i + 1] = count[i]
        /\ ~symbols[i].term => count[i + 1] = count[i] + 1 /\ names[count[i + 1]] = symbols[i].name
    BY DEF Counts, L
  <2>7. CASE symbols[i].term
    BY <2>4, <2>5, <2>6, <2>7
  <2>8. CASE ~symbols[i].term
    <3>1. PICK x \in Nodes(symbols[i].name, list) : f[i].node = Append(f[i - 1].node, x)
      BY <2>4, <2>8
    <3> DEFINE a == f[i - 1].node
               k == Len(a)
    <3>2. k \in Nat /\ k = count[i]
      BY <2>3, <2>5, LenProperties
    <3>3. /\ Len(f[i].node) = k + 1 /\ f[i].node[k + 1] = x
          /\ \A j \in 1 .. k : f[i].node[j] = a[j]
      <4>1. a \in Seq(AllNodes(list) \cup {x})
        BY <2>3
      <4> HIDE DEF a
      <4> QED BY <3>1, <4>1, AppendProperties DEF a
    <3>4. \A j \in 1 .. k : a[j] \in Nodes(names[j], list)
      BY <2>5 DEF MadeBy
    <3> HIDE DEF a, k
    <3>5. x \in Nodes(names[k + 1], list)
      BY <2>6, <2>8, <3>2
    <3>6. MadeBy(f[i].node, names, list)
      BY <3>2, <3>3, <3>4, <3>5 DEF MadeBy
    <3> QED BY <2>6, <2>8, <3>2, <3>3, <3>6
  <2> QED BY <2>7, <2>8
<1>6. \A i \in 1 .. L : i - 1 \in Good0 => i \in Good0
  BY <1>1, <1>5
<1>7. L \in Good0
  <2> HIDE DEF Good0
  <2>1. \A i \in 0 .. L : i \in Good0
    BY <1>1, <1>4, <1>6, UpTo
  <2> QED BY <1>1, <2>1
<1> QED BY <1>1, <1>2, <1>3, <1>7 DEF L

(* A match of a single token takes one.                                     *)
LEMMA OneToken ==
  ASSUME NEW list, Len(list) \in Nat, NEW parsers \in ParsersOf(list), NEW cur \in Nat,
         NEW k \in TokenKinds, NEW m, m = match_rule(<<T(k)>>, list, cur, parsers), m.ok
  PROVE  cur < Len(list)
<1> DEFINE s == <<T(k)>>
<1>1. s \in Seq(Symbols) /\ Len(s) = 1 /\ s[1] \in Symbols /\ s[1].term
  BY TermSymbol
<1>2. m = match_rule(s, list, cur, parsers)
  OBVIOUS
<1> HIDE DEF s
<1>a. \E f \in [0 .. Len(s) -> MatchesIn(list)] :
         /\ Goes(f, s, list, cur, parsers)
         /\ match_rule(s, list, cur, parsers) = f[Len(s)]
  BY <1>1, MatchGoes
<1>3. PICK f \in [0 .. Len(s) -> MatchesIn(list)] :
         Goes(f, s, list, cur, parsers) /\ m = f[Len(s)]
  BY <1>2, <1>a
<1>4. m = OneMore(f[0], s[1], list, cur, parsers) /\ f[0] = Match(0, <<>>) /\ f[0] \in MatchesIn(list)
  BY <1>1, <1>3 DEF Goes
<1>5. cur + f[0].n < Len(list)
  BY <1>1, <1>4, OneMoreAdds
<1> QED BY <1>4, <1>5 DEF Match

-----------------------------------------------------------------------------
(* Each alternative makes a node of its rule.                               *)

Texts(list) == \A i \in 1 .. Len(list) : list[i].text \in Str

TokenAt(list, cur) == IF cur < Len(list) THEN list[cur + 1] ELSE NoToken

(* The same, with how many nodes there are.                                 *)
Makes(nodes, n, names, list) == Len(nodes) = n /\ MadeBy(nodes, names, list)

(* The same for a given number of symbols.                                  *)
LEMMA ChildrenOf ==
  ASSUME NEW list, Len(list) \in Nat, NEW parsers \in ParsersOf(list), NEW cur \in Nat,
         NEW symbols \in Seq(Symbols), NEW m, m = match_rule(symbols, list, cur, parsers), m.ok,
         NEW L \in Nat, NEW n, NEW count, NEW names,
         Len(symbols) = L /\ Counts(symbols, count, names) /\ count[L + 1] = n
  PROVE  Makes(m.node, n, names, list)
<1>1. /\ m.node \in Seq(AllNodes(list)) /\ Len(m.node) = count[Len(symbols) + 1]
      /\ MadeBy(m.node, names, list)
  BY Children
<1> QED BY <1>1 DEF Makes

(* The name that an identifier or a string stands for is a string.          *)
LEMMA NamesAreStrings ==
  ASSUME NEW list, Texts(list), Len(list) \in Nat, NEW i \in 1 .. Len(list)
  PROVE  TokenName(list[i]) \in Str
<1> DEFINE text == list[i].text
<1>1. text \in Seq(Chars)
  BY DEF Texts, Str
<1>2. SubSeq(text, 2, Len(text) - 1) \in Seq(Chars)
  <2> HIDE DEF text
  <2>1. Len(text) \in Nat
    BY <1>1, LenProperties
  <2>2. \A j \in 2 .. Len(text) - 1 : text[j] \in Chars
    BY <1>1, <2>1, ElementOfSeq
  <2> QED BY <2>1, <2>2, SubSeqProperties
<1> QED BY <1>1, <1>2 DEF TokenName, Unquoted, Str

(* The nodes of every rule.                                                 *)
LEMMA NodesAre ==
  ASSUME NEW list
  PROVE  /\ \A r \in {"bool", "string", "int", "value"} : Nodes(r, list) = ValuesIn(list)
         /\ Nodes("id", list) = Str
         /\ \A r \in {"key_tail", "key"} : Nodes(r, list) = Seq(Str)
         /\ Nodes("entry", list) = EntriesIn(list)
         /\ \A r \in {"entry_list_tail", "entry_list", "parse_unit"} :
               Nodes(r, list) = Seq(EntriesIn(list))
         /\ \A r \in {"space_opt", "newline_list_opt", "newline_list", "separator"} :
               Nodes(r, list) = {<<>>}
BY DEF Nodes

(* The nodes of the rules for values.                                       *)
LEMMA ValueNodes ==
  ASSUME NEW list, NEW r, r \in {"bool", "string", "int", "value"}
  PROVE  Nodes(r, list) = ValuesIn(list)
BY NodesAre

(* The value of the token that a match starts with.                         *)
LEMMA TokenValues ==
  ASSUME NEW list, Len(list) \in Nat, NEW cur \in Nat
  PROVE  TokenValue(TokenAt(list, cur)) \in ValuesIn(list)
<1>1. CASE cur < Len(list)
  <2>1. cur + 1 \in 1 .. Len(list) /\ TokenAt(list, cur) = list[cur + 1]
    BY <1>1 DEF TokenAt
  <2> QED BY <2>1 DEF ValuesIn
<1>2. CASE ~(cur < Len(list))
  BY <1>2 DEF TokenAt, ValuesIn
<1> QED BY <1>1, <1>2

(* The node that a rule makes of a match is one of its nodes.               *)
LEMMA NodeType ==
  ASSUME NEW list, Len(list) \in Nat, Texts(list), NEW parsers \in ParsersOf(list),
         NEW cur \in Nat, NEW rule \in Rules, NEW a \in 1 .. Len(Grammar[rule]),
         NEW m, m = match_rule(Grammar[rule][a], list, cur, parsers), m.ok
  PROVE  Node(rule, a, m.node, TokenAt(list, cur)) \in Nodes(rule, list)
<1> DEFINE c == m.node
           tok == TokenAt(list, cur)
           symbols == Grammar[rule][a]
<1>0. symbols \in Seq(Symbols) /\ m = match_rule(symbols, list, cur, parsers)
  BY Alternatives, ElementOfSeq
<1>1. CASE rule \in {"bool", "string", "int"}
  <2>1. Node(rule, a, c, tok) = TokenValue(tok)
    BY <1>1 DEF Node
  <2> QED BY <1>1, <2>1, TokenValues, NodesAre
<1>2. CASE rule = "value"
  <2>1. a \in 1 .. 3
    BY <1>2 DEF Grammar
  <2> DEFINE names == << <<"bool">>, <<"string">>, <<"int">> >>[a]
             count == <<0, 1>>
  <2>2. Len(symbols) = 1 /\ ~symbols[1].term /\ symbols[1].name = names[1]
    BY <1>2, <2>1 DEF Grammar, N
  <2>3. Counts(symbols, count, names) /\ count[1 + 1] = 1
    BY <2>2 DEF Counts
  <2>4. Makes(c, 1, names, list)
    <3> HIDE DEF symbols, names, count
    <3> QED BY <1>0, <2>2, <2>3, ChildrenOf
  <2>5. names[1] \in {"bool", "string", "int"}
    BY <2>1
  <2>6. c[1] \in Nodes(names[1], list)
    BY <2>4 DEF Makes, MadeBy
  <2>7. Node(rule, a, c, tok) = c[1]
    BY <1>2 DEF Node
  <2> HIDE DEF names
  <2>8. Nodes(names[1], list) = ValuesIn(list)
    BY <2>5, ValueNodes
  <2>9. Nodes(rule, list) = ValuesIn(list)
    BY <1>2, ValueNodes
  <2> QED BY <2>6, <2>7, <2>8, <2>9
<1>3. CASE rule = "id"
  <2>1. a \in 1 .. 2 /\ \E k \in TokenKinds : Grammar[rule][a] = <<T(k)>>
    BY <1>3 DEF Grammar, TokenKinds
  <2>2. cur < Len(list)
    BY <2>1, OneToken
  <2>3. cur + 1 \in 1 .. Len(list) /\ tok = list[cur + 1]
    BY <2>2 DEF TokenAt
  <2>4. TokenName(tok) \in Str
    BY <2>3, NamesAreStrings
  <2>5. Node(rule, a, c, tok) = TokenName(tok)
    BY <1>3 DEF Node
  <2> QED BY <1>3, <2>4, <2>5, NodesAre
<1>4. CASE rule = "key_tail"
  <2>0. CASE a = 1
    <3> DEFINE names == <<"space_opt", "space_opt", "id", "key_tail">>
               count == <<0, 1, 1, 2, 3, 4>>
    <3>1. symbols = <<Sp, T("dot"), Sp, N("id"), N("key_tail")>>
      BY <1>4, <2>0 DEF Grammar
    <3>2. Len(symbols) = 5 /\ Counts(symbols, count, names) /\ count[5 + 1] = 4
      BY <3>1 DEF Counts, Sp, T, N
    <3>3. Makes(c, 4, names, list)
      <4> HIDE DEF symbols, names, count
      <4> QED BY <1>0, <3>2, ChildrenOf
    <3>4. c[3] \in Nodes("id", list) /\ c[4] \in Nodes("key_tail", list)
      BY <3>3 DEF Makes, MadeBy
    <3>5. <<c[3]>> \o c[4] \in Seq(Str)
      <4>1. c[3] \in Str /\ c[4] \in Seq(Str)
        BY <3>4, NodesAre
      <4> HIDE DEF c
      <4> QED BY <4>1, ConcatProperties
    <3>6. Node(rule, a, c, tok) = <<c[3]>> \o c[4]
      BY <1>4, <2>0 DEF Node
    <3> QED BY <1>4, <3>5, <3>6, NodesAre
  <2>1. CASE a # 1
    <3>1. Node(rule, a, c, tok) = <<>>
      BY <1>4, <2>1 DEF Node
    <3>2. <<>> \in Seq(Str) /\ Nodes(rule, list) = Seq(Str)
      BY <1>4, NodesAre
    <3> QED BY <3>1, <3>2
  <2> QED BY <2>0, <2>1
<1>5. CASE rule = "key"
  <2> DEFINE names == <<"id", "key_tail">>
             count == <<0, 1, 2>>
  <2>1. symbols = <<N("id"), N("key_tail")>>
    BY <1>5 DEF Grammar
  <2>2. Len(symbols) = 2 /\ Counts(symbols, count, names) /\ count[2 + 1] = 2
    BY <2>1 DEF Counts, N
  <2>3. Makes(c, 2, names, list)
    <3> HIDE DEF symbols, names, count
    <3> QED BY <1>0, <2>2, ChildrenOf
  <2>4. c[1] \in Nodes("id", list) /\ c[2] \in Nodes("key_tail", list)
    BY <2>3 DEF Makes, MadeBy
  <2>5. <<c[1]>> \o c[2] \in Seq(Str)
    <3>1. c[1] \in Str /\ c[2] \in Seq(Str)
      BY <2>4, NodesAre
    <3> HIDE DEF c
    <3> QED BY <3>1, ConcatProperties
  <2>6. Node(rule, a, c, tok) = <<c[1]>> \o c[2]
    BY <1>5 DEF Node
  <2> QED BY <1>5, <2>5, <2>6, NodesAre
<1>6. CASE rule = "entry"
  <2>1. a \in 1 .. 3
    BY <1>6 DEF Grammar
  <2>2. \A k \in Seq(Str), v \in ValuesIn(list) : Entry(k, v) \in Nodes(rule, list)
    <3>1. Nodes(rule, list) = EntriesIn(list)
      BY <1>6, NodesAre
    <3> QED BY <3>1 DEF EntriesIn
  <2>3. NoValue \in ValuesIn(list)
    BY DEF ValuesIn
  <2>4. CASE a = 1
    <3> DEFINE names == <<"space_opt", "key", "space_opt", "space_opt", "value", "space_opt">>
               count == <<0, 1, 2, 3, 3, 4, 5, 6>>
    <3>1. symbols = <<Sp, N("key"), Sp, T("eq"), Sp, N("value"), Sp>>
      BY <1>6, <2>4 DEF Grammar
    <3>2. Len(symbols) = 7 /\ Counts(symbols, count, names) /\ count[7 + 1] = 6
      BY <3>1 DEF Counts, Sp, T, N
    <3>3. Makes(c, 6, names, list)
      <4> HIDE DEF symbols, names, count
      <4> QED BY <1>0, <3>2, ChildrenOf
    <3>4. c[2] \in Nodes("key", list) /\ c[5] \in Nodes("value", list)
      BY <3>3 DEF Makes, MadeBy
    <3>5. Node(rule, a, c, tok) = Entry(c[2], c[5])
      BY <1>6, <2>4 DEF Node
    <3> QED BY <2>2, <3>4, <3>5, NodesAre
  <2>5. CASE a = 2
    <3> DEFINE names == <<"space_opt", "space_opt", "key", "space_opt", "space_opt">>
               count == <<0, 1, 1, 2, 3, 4, 4, 5>>
    <3>1. symbols = <<Sp, T("lbrack"), Sp, N("key"), Sp, T("rbrack"), Sp>>
      BY <1>6, <2>5 DEF Grammar
    <3>2. Len(symbols) = 7 /\ Counts(symbols, count, names) /\ count[7 + 1] = 5
      BY <3>1 DEF Counts, Sp, T, N
    <3>3. Makes(c, 5, names, list)
      <4> HIDE DEF symbols, names, count
      <4> QED BY <1>0, <3>2, ChildrenOf
    <3>4. c[3] \in Nodes("key", list)
      BY <3>3 DEF Makes, MadeBy
    <3>5. Node(rule, a, c, tok) = Entry(c[3], NoValue)
      BY <1>6, <2>5 DEF Node
    <3> QED BY <2>2, <2>3, <3>4, <3>5, NodesAre
  <2>6. CASE a = 3
    <3>1. Node(rule, a, c, tok) = Entry(<<>>, NoValue)
      BY <1>6, <2>6 DEF Node
    <3>2. <<>> \in Seq(Str)
      OBVIOUS
    <3> QED BY <2>2, <2>3, <3>1, <3>2
  <2> QED BY <2>1, <2>4, <2>5, <2>6
<1>7. CASE rule = "entry_list_tail" \/ rule = "entry_list"
  <2> DEFINE E == EntriesIn(list)
  <2>0. \A x, y : x \in E /\ y \in Seq(E) => <<x>> \o y \in Seq(E)
    BY ConcatProperties
  <2>a. Nodes(rule, list) = Seq(E)
    BY <1>7, NodesAre
  <2>b. Nodes("entry", list) = E /\ Nodes("entry_list_tail", list) = Seq(E)
    BY NodesAre
  <2> HIDE DEF E
  <2>1. CASE rule = "entry_list_tail" /\ a = 1
    <3> DEFINE names == <<"separator", "entry", "entry_list_tail">>
               count == <<0, 1, 2, 3>>
    <3>1. symbols = <<N("separator"), N("entry"), N("entry_list_tail")>>
      BY <2>1 DEF Grammar
    <3>2. Len(symbols) = 3 /\ Counts(symbols, count, names) /\ count[3 + 1] = 3
      BY <3>1 DEF Counts, N
    <3>3. Makes(c, 3, names, list)
      <4> HIDE DEF symbols, names, count
      <4> QED BY <1>0, <3>2, ChildrenOf
    <3>4. c[2] \in Nodes("entry", list) /\ c[3] \in Nodes("entry_list_tail", list)
      BY <3>3 DEF Makes, MadeBy
    <3>5. Node(rule, a, c, tok) = <<c[2]>> \o c[3]
      BY <2>1 DEF Node
    <3>6. <<c[2]>> \o c[3] \in Seq(E)
      <4> HIDE DEF c
      <4> QED BY <2>0, <2>b, <3>4
    <3> QED BY <2>a, <3>5, <3>6
  <2>2. CASE rule = "entry_list_tail" /\ a # 1
    <3>1. Node(rule, a, c, tok) = <<>>
      BY <2>2 DEF Node
    <3>2. <<>> \in Seq(E)
      OBVIOUS
    <3> QED BY <2>a, <3>1, <3>2
  <2>3. CASE rule = "entry_list"
    <3> DEFINE names == <<"newline_list_opt", "entry", "entry_list_tail">>
               count == <<0, 1, 2, 3>>
    <3>0. a = 1
      BY <2>3 DEF Grammar
    <3>1. symbols = <<N("newline_list_opt"), N("entry"), N("entry_list_tail")>>
      BY <2>3, <3>0 DEF Grammar
    <3>2. Len(symbols) = 3 /\ Counts(symbols, count, names) /\ count[3 + 1] = 3
      BY <3>1 DEF Counts, N
    <3>3. Makes(c, 3, names, list)
      <4> HIDE DEF symbols, names, count
      <4> QED BY <1>0, <3>2, ChildrenOf
    <3>4. c[2] \in Nodes("entry", list) /\ c[3] \in Nodes("entry_list_tail", list)
      BY <3>3 DEF Makes, MadeBy
    <3>5. Node(rule, a, c, tok) = <<c[2]>> \o c[3]
      BY <2>3 DEF Node
    <3>6. <<c[2]>> \o c[3] \in Seq(E)
      <4> HIDE DEF c
      <4> QED BY <2>0, <2>b, <3>4
    <3> QED BY <2>a, <3>5, <3>6
  <2> QED BY <1>7, <2>1, <2>2, <2>3
<1>8. CASE rule = "parse_unit"
  <2> DEFINE names == <<"entry_list", "newline_list_opt">>
             count == <<0, 1, 2>>
  <2>0. a = 1
    BY <1>8 DEF Grammar
  <2>1. symbols = <<N("entry_list"), N("newline_list_opt")>>
    BY <1>8, <2>0 DEF Grammar
  <2>2. Len(symbols) = 2 /\ Counts(symbols, count, names) /\ count[2 + 1] = 2
    BY <2>1 DEF Counts, N
  <2>3. Makes(c, 2, names, list)
    <3> HIDE DEF symbols, names, count
    <3> QED BY <1>0, <2>2, ChildrenOf
  <2>4. c[1] \in Nodes("entry_list", list)
    BY <2>3 DEF Makes, MadeBy
  <2>5. Node(rule, a, c, tok) = c[1]
    BY <1>8 DEF Node
  <2> QED BY <1>8, <2>4, <2>5, NodesAre
<1>9. CASE rule \in {"space_opt", "newline_list_opt", "newline_list", "separator"}
  <2>1. Node(rule, a, c, tok) = <<>>
    BY <1>9 DEF Node
  <2> QED BY <1>9, <2>1, NodesAre
<1> QED BY <1>1, <1>2, <1>3, <1>4, <1>5, <1>6, <1>7, <1>8, <1>9, RulesAre DEF RuleNames

(* A rule returns a node of its own, when it matches.                       *)
RuleResults(rule, list) == {x \in Results(list) : x.ok => x.node \in Nodes(rule, list)}

(* A rule may fail to match.                                                *)
LEMMA NoMatchIsOne ==
  ASSUME NEW list, NEW rule \in Rules
  PROVE  NoMatch \in RuleResults(rule, list) /\ ~NoMatch.ok
<1>1. "separator" \in Rules
  BY RulesAre DEF RuleNames
<1>2. <<>> \in Nodes("separator", list)
  BY NodesAre
<1>3. <<>> \in AllNodes(list)
  BY <1>1, <1>2 DEF AllNodes
<1> QED BY <1>3 DEF NoMatch, RuleResults, Results

(* A match with a node of the rule is a result of the rule.                 *)
LEMMA MatchIsOne ==
  ASSUME NEW list, NEW rule \in Rules, NEW n \in Nat, NEW x \in Nodes(rule, list)
  PROVE  Match(n, x) \in RuleResults(rule, list)
<1>1. x \in AllNodes(list)
  BY DEF AllNodes
<1> QED BY <1>1 DEF Match, RuleResults, Results

(* The alternatives of a rule give a result of the rule.                    *)
LEMMA ParseRuleType ==
  ASSUME NEW list, Len(list) \in Nat, Texts(list), NEW parsers \in ParsersOf(list),
         NEW cur \in Nat, NEW rule \in Rules
  PROVE  ParseRule(rule, list, cur, parsers) \in RuleResults(rule, list)
<1> DEFINE L == Len(Grammar[rule])
           S == RuleResults(rule, list)
           tok == TokenAt(list, cur)
           M(a) == match_rule(Grammar[rule][a], list, cur, parsers)
           Body(x, a) == IF x.ok THEN x
                         ELSE IF M(a).ok THEN Match(M(a).n, Node(rule, a, M(a).node, tok))
                         ELSE NoMatch
           Is(f) == f = [a \in 0 .. L |-> IF a = 0 THEN NoMatch ELSE Body(f[a - 1], a)]
           made == CHOOSE f : Is(f)
           step == [a \in 1 .. L |-> [x \in S |-> Body(x, a)]]
<1>1. L \in Nat /\ \A a \in 1 .. L : Grammar[rule][a] \in Seq(Symbols)
  BY Alternatives, LenProperties, ElementOfSeq
<1>2. NoMatch \in S
  BY NoMatchIsOne
<1>3. \A a \in 1 .. L, x \in S : Body(x, a) \in S
  <2> TAKE a \in 1 .. L, x \in S
  <2>1. M(a) \in MatchesIn(list)
    <3>1. Grammar[rule][a] \in Seq(Symbols)
      BY <1>1
    <3>2. Len(Grammar[rule][a]) \in Nat
      BY <3>1, LenProperties
    <3> QED BY <3>1, <3>2, MatchGoes
  <2>2. M(a).n \in Nat
    BY <2>1 DEF MatchesIn
  <2>3. M(a).ok => Node(rule, a, M(a).node, tok) \in Nodes(rule, list)
    BY NodeType
  <2>4. M(a).ok => Match(M(a).n, Node(rule, a, M(a).node, tok)) \in S
    BY <2>2, <2>3, MatchIsOne
  <2> HIDE DEF S, M
  <2> QED BY <1>2, <2>4
<1>4. ParseRule(rule, list, cur, parsers) = made[L]
  BY Zenon DEF ParseRule, TokenAt, NoToken
<1> HIDE DEF S, Body, L
<1>5. step \in [1 .. L -> [S -> S]]
  BY <1>3
<1>6. PICK h \in [0 .. L -> S] : Built(h, NoMatch, step, L)
  BY <1>1, <1>2, <1>5, StepByStep
<1>7. Is(h)
  <2>1. \A i \in 1 .. L : h[i - 1] \in S
    BY <1>1
  <2>2. \A i \in 1 .. L : h[i] = Body(h[i - 1], i)
    BY <1>6, <2>1 DEF Built
  <2>3. \A i \in 0 .. L : h[i] = IF i = 0 THEN NoMatch ELSE Body(h[i - 1], i)
    BY <1>1, <1>6, <2>2 DEF Built
  <2>4. h = [i \in 0 .. L |-> h[i]]
    OBVIOUS
  <2> QED BY <2>3, <2>4
<1>8. Is(made)
  <2> HIDE DEF Is
  <2> QED BY <1>7
<1> HIDE DEF made
<1>9. made[0] = NoMatch /\ \A i \in 1 .. L : made[i] = Body(made[i - 1], i)
  BY <1>1, <1>8
<1> DEFINE Typed == {k \in 0 .. L : made[k] \in S}
<1>10. 0 \in Typed
  BY <1>1, <1>2, <1>9
<1>11. \A i \in 1 .. L : i - 1 \in Typed => i \in Typed
  BY <1>1, <1>3, <1>9
<1>12. L \in Typed
  <2> HIDE DEF Typed
  <2>1. \A i \in 0 .. L : i \in Typed
    BY <1>1, <1>10, <1>11, UpTo
  <2> QED BY <1>1, <2>1
<1> QED BY <1>4, <1>12 DEF S

(* So do the nested calls, however deep.                                    *)
LEMMA ParserType ==
  ASSUME NEW list, Len(list) \in Nat, Texts(list), NEW rule \in Rules
  PROVE  Parser(rule, list) \in RuleResults(rule, list)
<1> DEFINE L == Depth(list)
           S == ParsersOf(list)
           Body(p) == [r \in Rules |-> [cur \in Nat |-> ParseRule(r, list, cur, p)]]
           base == [r \in Rules |-> [cur \in Nat |-> NoMatch]]
           At(p, d) == [r \in Rules |-> [cur \in Nat |->
                           IF d = 0 THEN NoMatch ELSE ParseRule(r, list, cur, p)]]
           Is(f) == f = [d \in 0 .. L |-> At(f[d - 1], d)]
           made == CHOOSE f : Is(f)
           step == [d \in 1 .. L |-> [p \in S |-> Body(p)]]
<1>1. L \in Nat
  BY DEF Depth
<1>2. base \in S
  <2>1. \A r \in Rules : NoMatch \in Results(list) /\ ~NoMatch.ok
    BY NoMatchIsOne DEF RuleResults
  <2>2. base \in [Rules -> [Nat -> Results(list)]]
    BY <2>1
  <2>3. \A r \in Rules, c \in Nat : base[r][c] = NoMatch
    OBVIOUS
  <2> HIDE DEF base
  <2> QED BY <2>1, <2>2, <2>3 DEF ParsersOf
<1>3. \A p \in S : Body(p) \in S
  <2> TAKE p \in S
  <2>1. \A r \in Rules, c \in Nat : ParseRule(r, list, c, p) \in RuleResults(r, list)
    BY ParseRuleType
  <2>2. \A r \in Rules, c \in Nat : ParseRule(r, list, c, p) \in Results(list)
    BY <2>1 DEF RuleResults
  <2>3. Body(p) \in [Rules -> [Nat -> Results(list)]]
    BY <2>2
  <2>4. \A r \in Rules, c \in Nat : Body(p)[r][c] = ParseRule(r, list, c, p)
    OBVIOUS
  <2> HIDE DEF Body
  <2>5. \A r \in Rules, c \in Nat : Body(p)[r][c].ok => Body(p)[r][c].node \in Nodes(r, list)
    BY <2>1, <2>4 DEF RuleResults
  <2> QED BY <2>3, <2>5 DEF ParsersOf
<1>4. Parser(rule, list) = made[L][rule][0]
  BY Zenon DEF Parser, Rules
<1>a. \A p : At(p, 0) = base /\ \A d \in 1 .. L : At(p, d) = Body(p)
  OBVIOUS
<1> HIDE DEF S, Body, L, base, At
<1>5. step \in [1 .. L -> [S -> S]]
  BY <1>3
<1>6. PICK h \in [0 .. L -> S] : Built(h, base, step, L)
  BY <1>1, <1>2, <1>5, StepByStep
<1>7. Is(h)
  <2>1. \A i \in 1 .. L : h[i - 1] \in S
    BY <1>1
  <2>2. \A i \in 1 .. L : h[i] = Body(h[i - 1])
    BY <1>6, <2>1 DEF Built
  <2>3. \A i \in 0 .. L : h[i] = At(h[i - 1], i)
    BY <1>1, <1>6, <1>a, <2>2 DEF Built
  <2>4. h = [i \in 0 .. L |-> h[i]]
    OBVIOUS
  <2> QED BY <2>3, <2>4
<1>8. Is(made)
  <2> HIDE DEF Is
  <2> QED BY <1>7
<1> HIDE DEF made
<1>9. made[0] = base /\ \A i \in 1 .. L : made[i] = Body(made[i - 1])
  BY <1>1, <1>8, <1>a
<1> DEFINE Typed == {k \in 0 .. L : made[k] \in S}
<1>10. 0 \in Typed
  BY <1>1, <1>2, <1>9
<1>11. \A i \in 1 .. L : i - 1 \in Typed => i \in Typed
  BY <1>1, <1>3, <1>9
<1>12. L \in Typed
  <2> HIDE DEF Typed
  <2>1. \A i \in 0 .. L : i \in Typed
    BY <1>1, <1>10, <1>11, UpTo
  <2> QED BY <1>1, <2>1
<1>13. made[L] \in ParsersOf(list)
  BY <1>12 DEF S
<1>14. made[L][rule][0] \in Results(list)
  <2>1. made[L] \in [Rules -> [Nat -> Results(list)]]
    BY <1>13 DEF ParsersOf
  <2> QED BY <2>1
<1>15. made[L][rule][0].ok => made[L][rule][0].node \in Nodes(rule, list)
  BY <1>13 DEF ParsersOf
<1> QED BY <1>4, <1>14, <1>15 DEF RuleResults

(* What the parser returns is a sequence of entries.                        *)
LEMMA ParseType ==
  ASSUME NEW list, Len(list) \in Nat, Texts(list)
  PROVE  toml_parse(list) \in Seq(EntriesIn(list))
<1> DEFINE res == Parser("parse_unit", list)
<1>1. "parse_unit" \in Rules
  BY RulesAre DEF RuleNames
<1>2. res \in RuleResults("parse_unit", list)
  BY <1>1, ParserType
<1>3. Nodes("parse_unit", list) = Seq(EntriesIn(list))
  BY NodesAre
<1> HIDE DEF res
<1>4. res.ok => res.node \in Seq(EntriesIn(list))
  BY <1>2, <1>3 DEF RuleResults
<1>5. <<>> \in Seq(EntriesIn(list))
  OBVIOUS
<1>6. toml_parse(list) = IF Fully(res, list) THEN res.node ELSE <<>>
  BY DEF toml_parse, res
<1> QED BY <1>4, <1>5, <1>6 DEF Fully

States == {"init", "id", "space", "newline", "double", "double_escape", "single",
           "single_escape", "int", "float", "comment"}

(* An open string: the places of the characters that are escaped.           *)
Escaped(text, quote, escaped) ==
    /\ Len(text) >= 1 /\ text[1] = quote /\ escaped \subseteq 2 .. Len(text)
    /\ \A n \in 2 .. Len(text) :
          /\ n \in escaped <=> text[n - 1] = "bs" /\ n - 1 \notin escaped
          /\ text[n] = quote => n \in escaped

Hanging(text, escaped) == text[Len(text)] = "bs" /\ Len(text) \notin escaped

Open0(text, quote) == \E e \in SUBSET Nat : Escaped(text, quote, e) /\ ~Hanging(text, e)
OpenEsc(text, quote) == \E e \in SUBSET Nat : Escaped(text, quote, e) /\ Hanging(text, e)

Points(text) == {n \in 1 .. Len(text) : text[n] = "."}

(* What the lexer has taken of a token in each of its states, in front of   *)
(* the character ch.                                                        *)
Pending(state, text, ch) ==
    /\ state = "init" => text = <<>>
    /\ state = "id" => Word(text, Letters \cup {"us"}, Letters \cup Digits \cup {"us", "-"})
    /\ state = "space" => (text = <<>> /\ ch = "sp") \/ Word(text, {"sp"}, {"sp"})
    /\ state = "newline" => (text = <<>> /\ ch = "nl") \/ Word(text, {"nl"}, {"nl"})
    /\ state = "int" => Word(text, Digits \cup {"+", "-"}, Digits \cup {"us"})
    /\ state = "float" => /\ Word(text, Digits \cup {"+", "-"}, Digits \cup {"us", "."})
                          /\ \E n \in Points(text) : Points(text) = {n}
    /\ state = "comment" => Word(text, {"#"}, Chars \ {"nl"})
    /\ state = "double" => Open0(text, "dq")
    /\ state = "double_escape" => OpenEsc(text, "dq")
    /\ state = "single" => Open0(text, "sq")
    /\ state = "single_escape" => OpenEsc(text, "sq")

(* What makes a transition right for a text and the character behind it.    *)
Fits(r, text, ch) ==
  r.err \/
    /\ ~r.err /\ r.next \in States /\ r.token \in TokenKinds \cup {"none"} /\ r.unwind \in BOOLEAN
    /\ r.token # "none" => r.next = "init"
    /\ r.token = "none" /\ ~r.unwind /\ ch # "nul"
          => \A c : Pending(r.next, Append(text, ch), c)
    /\ r.token = "none" /\ ~r.unwind /\ ch = "nul" => Ignorable(text)
    /\ r.token = "none" /\ r.unwind => Pending(r.next, text, ch)
    /\ r.token # "none" /\ ~r.unwind
          => ch # "nul" /\ Lexeme([kind |-> r.token, text |-> Append(text, ch)])
    /\ r.token # "none" /\ r.unwind => Lexeme([kind |-> r.token, text |-> text])

(* The first transition that takes a character.                             *)
First(rules, n, ch) ==
    n \in DOMAIN rules /\ ch \in rules[n].on /\ \A m \in 1 .. n - 1 : ch \notin rules[m].on

(* Letters, digits and marks are different characters.                      *)
LEMMA Apart ==
  /\ \A x \in Letters : x \notin Digits /\ x \notin Marks
  /\ \A x \in Digits : x \notin Marks
BY NoMarkIsALetter

(* A word with another character of its kind is a word.                     *)
LEMMA WordGrows ==
  ASSUME NEW text \in Str, NEW ch \in Chars, NEW first, NEW others
  PROVE  /\ text = <<>> /\ ch \in first => Word(Append(text, ch), first, others)
         /\ Word(text, first, others) /\ ch \in others => Word(Append(text, ch), first, others)
<1> DEFINE t == Append(text, ch)
<1>1. /\ t \in Seq(Chars) /\ t # <<>> /\ Len(t) = Len(text) + 1 /\ t[Len(text) + 1] = ch
      /\ \A i \in 1 .. Len(text) : t[i] = text[i]
  BY AppendProperties DEF Str
<1>2. Len(text) \in Nat /\ (text # <<>> => Len(text) >= 1)
  BY LenProperties, EmptySeq DEF Str
<1> HIDE DEF t
<1>3. Head(t) = t[1] /\ (text # <<>> => Head(text) = text[1])
  BY DEF Str
<1>4. text = <<>> => Len(text) = 0
  OBVIOUS
<1> QED BY <1>1, <1>2, <1>3, <1>4 DEF Word, t

(* The transition taken is one for the character.                           *)
LEMMA OneRule ==
  ASSUME NEW rows, NEW n, NEW ch, First(rows, n, ch), NEW on
  PROVE  /\ \A next : rows[n] = Go(on, next) => ch \in on
         /\ \A next : rows[n] = Peek(on, next) => ch \in on
         /\ \A token : rows[n] = Emit(on, token) => ch \in on
BY DEF First, Go, Peek, Emit, Rule

(* A transition that rejects the text leaves no token.                      *)
LEMMA FailsFits == ASSUME NEW on, NEW text, NEW ch PROVE Fits(Fails(on), text, ch)
BY DEF Fits, Fails, Rule

(* A transition that goes on has a longer beginning of a token.             *)
LEMMA GoFits ==
  ASSUME NEW on, NEW next \in States, NEW text, NEW ch,
         ch # "nul" => \A c : Pending(next, Append(text, ch), c),
         ch = "nul" => Ignorable(text)
  PROVE  Fits(Go(on, next), text, ch)
BY DEF Fits, Go, Rule

(* A transition that takes nothing has the same beginning.                  *)
LEMMA PeekFits ==
  ASSUME NEW on, NEW next \in States, NEW text, NEW ch, Pending(next, text, ch)
  PROVE  Fits(Peek(on, next), text, ch)
BY DEF Fits, Peek, Rule

(* A transition that takes the last character of a token.                   *)
LEMMA EmitFits ==
  ASSUME NEW on, NEW token \in TokenKinds, NEW text, NEW ch, ch # "nul",
         Lexeme([kind |-> token, text |-> Append(text, ch)])
  PROVE  Fits(Emit(on, token), text, ch)
<1>1. token # "none" /\ "init" \in States
  BY DEF TokenKinds, States
<1> QED BY <1>1 DEF Fits, Emit, Rule

(* A transition at the character behind a token.                            *)
LEMMA EndsFits ==
  ASSUME NEW on, NEW token \in TokenKinds, NEW text, NEW ch,
         Lexeme([kind |-> token, text |-> text])
  PROVE  Fits(Rule(on, "init", token, TRUE, FALSE), text, ch)
<1>1. token # "none" /\ "init" \in States
  BY DEF TokenKinds, States
<1> QED BY <1>1 DEF Fits, Rule

(* The transitions of an identifier.                                        *)
LEMMA FitsId ==
  ASSUME NEW text \in Str, NEW ch \in Chars, Pending("id", text, ch),
         NEW row, row = Table["id"], NEW n, First(row, n, ch)
  PROVE  Fits(row[n], text, ch)
<1> DEFINE on == Letters \cup Digits \cup {"us", "-"}
<1>1. DOMAIN row = 1 .. 2 /\ row[1] = Go(on, "id") /\ row[2] = Ends("id")
  BY DEF Table
<1>2. Word(text, Letters \cup {"us"}, on)
  BY DEF Pending
<1>3. CASE n = 1
  <2>1. ch \in on
    BY <1>1, <1>3, OneRule
  <2>2. ch # "nul"
    BY <2>1, Apart DEF Marks
  <2>3. \A c : Pending("id", Append(text, ch), c)
    BY <1>2, <2>1, WordGrows DEF Pending
  <2> HIDE DEF on
  <2> QED BY <1>1, <1>3, <2>2, <2>3, GoFits DEF States
<1>4. CASE n = 2
  <2>1. Lexeme([kind |-> "id", text |-> text])
    BY <1>2 DEF Lexeme
  <2> HIDE DEF on
  <2> QED BY <1>1, <1>4, <2>1, EndsFits DEF Ends, TokenKinds
<1> QED BY <1>1, <1>3, <1>4 DEF First

(* The transitions of spaces and of line breaks.                            *)
LEMMA FitsBlank ==
  ASSUME NEW text \in Str, NEW ch \in Chars, NEW s, s \in {"space", "newline"},
         Pending(s, text, ch),
         NEW row, row = Table[s], NEW n, First(row, n, ch)
  PROVE  Fits(row[n], text, ch)
<1> DEFINE on == IF s = "space" THEN {"sp"} ELSE {"nl"}
<1>1. DOMAIN row = 1 .. 2 /\ row[1] = Go(on, s) /\ row[2] = Ends(s)
  <2>1. CASE s = "space"
    BY <2>1 DEF Table
  <2>2. CASE s = "newline"
    BY <2>2 DEF Table
  <2> QED BY <2>1, <2>2
<1>2. (text = <<>> /\ ch \in on) \/ Word(text, on, on)
  BY DEF Pending
<1>3. CASE n = 1
  <2>1. ch \in on
    BY <1>1, <1>3, OneRule
  <2>2. ch # "nul"
    BY <2>1
  <2>3. Word(Append(text, ch), on, on)
    <3> HIDE DEF on
    <3> QED BY <1>2, <2>1, WordGrows
  <2>4. \A c : Pending(s, Append(text, ch), c)
    BY <2>3 DEF Pending
  <2>5. s \in States
    BY DEF States
  <2> HIDE DEF on
  <2> QED BY <1>1, <1>3, <2>2, <2>4, <2>5, GoFits
<1>4. CASE n = 2
  <2>1. ch \notin on
    <3> HIDE DEF on
    <3> QED BY <1>1, <1>4 DEF First, Go, Rule
  <2>2. Lexeme([kind |-> s, text |-> text])
    BY <1>2, <2>1 DEF Lexeme
  <2>3. s \in TokenKinds
    BY DEF TokenKinds
  <2> HIDE DEF on
  <2> QED BY <1>1, <1>4, <2>2, <2>3, EndsFits DEF Ends
<1> QED BY <1>1, <1>3, <1>4 DEF First

(* The transitions of a comment.                                            *)
LEMMA FitsComment ==
  ASSUME NEW text \in Str, NEW ch \in Chars, Pending("comment", text, ch),
         NEW row, row = Table["comment"], NEW n, First(row, n, ch)
  PROVE  Fits(row[n], text, ch)
<1>1. /\ DOMAIN row = 1 .. 2 /\ row[1] = Rule({"nl"}, "init", "comment", TRUE, FALSE)
      /\ row[2] = Go(Chars, "comment")
  BY DEF Table
<1>2. Word(text, {"#"}, Chars \ {"nl"})
  BY DEF Pending
<1>3. CASE n = 1
  <2>1. Lexeme([kind |-> "comment", text |-> text])
    BY <1>2 DEF Lexeme
  <2> QED BY <1>1, <1>3, <2>1, EndsFits DEF TokenKinds
<1>4. CASE n = 2
  <2>1. ch \notin {"nl"}
    BY <1>1, <1>4 DEF First, Rule
  <2>2. \A c : Pending("comment", Append(text, ch), c)
    BY <1>2, <2>1, WordGrows DEF Pending
  <2>3. Ignorable(text)
    BY <1>2 DEF Ignorable
  <2> QED BY <1>1, <1>4, <2>2, <2>3, GoFits DEF States
<1> QED BY <1>1, <1>3, <1>4 DEF First
(* A point more, or none.                                                   *)
LEMMA PointsGrow ==
  ASSUME NEW text \in Str, NEW ch \in Chars
  PROVE  /\ ch = "." => Points(Append(text, ch)) = Points(text) \cup {Len(text) + 1}
         /\ ch # "." => Points(Append(text, ch)) = Points(text)
<1> DEFINE t == Append(text, ch)
<1>1. /\ Len(t) = Len(text) + 1 /\ t[Len(text) + 1] = ch
      /\ \A i \in 1 .. Len(text) : t[i] = text[i]
  BY AppendProperties DEF Str
<1>2. Len(text) \in Nat
  BY LenProperties DEF Str
<1> HIDE DEF t
<1>3. \A i : i \in 1 .. Len(t) <=> i \in 1 .. Len(text) \/ i = Len(text) + 1
  BY <1>1, <1>2
<1>4. \A i : i \in Points(t) <=> (i \in Points(text) \/ (i = Len(text) + 1 /\ ch = "."))
  <2>1. Len(text) + 1 \notin 1 .. Len(text)
    BY <1>2
  <2> QED BY <1>1, <1>3, <2>1 DEF Points
<1> QED BY <1>4 DEF t

(* The transitions of an integer.                                           *)
LEMMA FitsInt ==
  ASSUME NEW text \in Str, NEW ch \in Chars, Pending("int", text, ch),
         NEW row, row = Table["int"], NEW n, First(row, n, ch)
  PROVE  Fits(row[n], text, ch)
<1> DEFINE on == Digits \cup {"us"}
           sign == Digits \cup {"+", "-"}
<1>1. /\ DOMAIN row = 1 .. 3 /\ row[1] = Go(on, "int") /\ row[2] = Go({"."}, "float")
      /\ row[3] = Ends("int")
  BY DEF Table
<1>2. Word(text, sign, on)
  BY DEF Pending
<1>3. CASE n = 1
  <2>1. ch \in on
    BY <1>1, <1>3, OneRule
  <2>2. ch # "nul"
    BY <2>1, Apart DEF Marks
  <2>3. \A c : Pending("int", Append(text, ch), c)
    BY <1>2, <2>1, WordGrows DEF Pending
  <2> HIDE DEF on
  <2> QED BY <1>1, <1>3, <2>2, <2>3, GoFits DEF States
<1>4. CASE n = 2
  <2>1. ch = "."
    BY <1>1, <1>4, OneRule
  <2>2. Points(text) = {}
    <3>1. \A x \in Digits : x # "."
      BY Apart DEF Marks
    <3>2. text # <<>> /\ Head(text) \in sign /\ \A m \in 2 .. Len(text) : text[m] \in on
      BY <1>2 DEF Word
    <3>3. text[1] \in sign /\ Len(text) \in Nat
      BY <3>2, LenProperties DEF Str
    <3>4. \A m \in 1 .. Len(text) : m = 1 \/ m \in 2 .. Len(text)
      BY <3>3
    <3>5. \A m \in 1 .. Len(text) : text[m] # "."
      BY <3>1, <3>2, <3>3, <3>4
    <3> QED BY <3>5 DEF Points
  <2>3. Points(Append(text, ch)) = {Len(text) + 1}
    BY <2>1, <2>2, PointsGrow
  <2>4. Word(Append(text, ch), sign, on \cup {"."})
    <3>1. Word(text, sign, on \cup {"."})
      BY <1>2 DEF Word
    <3> QED BY <2>1, <3>1, WordGrows
  <2>5. \A c : Pending("float", Append(text, ch), c)
    BY <2>3, <2>4 DEF Pending
  <2> HIDE DEF on
  <2> QED BY <1>1, <1>4, <2>1, <2>5, GoFits DEF States
<1>5. CASE n = 3
  <2>1. Lexeme([kind |-> "int", text |-> text])
    BY <1>2 DEF Lexeme
  <2> HIDE DEF on
  <2> QED BY <1>1, <1>5, <2>1, EndsFits DEF Ends, TokenKinds
<1> QED BY <1>1, <1>3, <1>4, <1>5 DEF First

(* The transitions of a number with a point.                                *)
LEMMA FitsFloat ==
  ASSUME NEW text \in Str, NEW ch \in Chars, Pending("float", text, ch),
         NEW row, row = Table["float"], NEW n, First(row, n, ch)
  PROVE  Fits(row[n], text, ch)
<1> DEFINE on == Digits \cup {"us"}
           all == Digits \cup {"us", "."}
           sign == Digits \cup {"+", "-"}
<1>1. /\ DOMAIN row = 1 .. 3 /\ row[1] = Go(on, "float") /\ row[2] = Fails({"."})
      /\ row[3] = Ends("float")
  BY DEF Table
<1>2. Word(text, sign, all) /\ \E m \in Points(text) : Points(text) = {m}
  BY DEF Pending
<1>3. CASE n = 1
  <2>1. ch \in on
    BY <1>1, <1>3, OneRule
  <2>2. ch # "nul" /\ ch # "." /\ ch \in all
    BY <2>1, Apart DEF Marks
  <2>3. Word(Append(text, ch), sign, all)
    BY <1>2, <2>2, WordGrows
  <2>4. Points(Append(text, ch)) = Points(text)
    BY <2>2, PointsGrow
  <2>5. \A c : Pending("float", Append(text, ch), c)
    BY <1>2, <2>3, <2>4 DEF Pending
  <2> HIDE DEF on
  <2> QED BY <1>1, <1>3, <2>2, <2>5, GoFits DEF States
<1>4. CASE n = 2
  BY <1>1, <1>4, FailsFits
<1>5. CASE n = 3
  <2>1. Lexeme([kind |-> "float", text |-> text])
    <3>1. Points(text) = {m \in 1 .. Len(text) : text[m] = "."}
      BY DEF Points
    <3> QED BY <1>2, <3>1 DEF Lexeme
  <2> HIDE DEF on
  <2> QED BY <1>1, <1>5, <2>1, EndsFits DEF Ends, TokenKinds
<1> QED BY <1>1, <1>3, <1>4, <1>5 DEF First

-----------------------------------------------------------------------------
(* Strings.                                                                 *)

(* A quote opens a string.                                                  *)
LEMMA Opens ==
  ASSUME NEW quote \in {"dq", "sq"}
  PROVE  Open0(<<quote>>, quote)
<1> DEFINE t == <<quote>>
<1>1. Len(t) = 1 /\ t[1] = quote
  OBVIOUS
<1> HIDE DEF t
<1>2. Escaped(t, quote, {})
  BY <1>1 DEF Escaped
<1>3. ~Hanging(t, {})
  BY <1>1 DEF Hanging
<1> QED BY <1>2, <1>3 DEF Open0, t

(* A character behind a hanging backslash is escaped.                       *)
LEMMA EscapedGrows ==
  ASSUME NEW text \in Str, NEW ch \in Chars, NEW quote, NEW e, Escaped(text, quote, e)
  PROVE  /\ Hanging(text, e) => Escaped(Append(text, ch), quote, e \cup {Len(text) + 1})
         /\ ~Hanging(text, e) /\ ch # quote => Escaped(Append(text, ch), quote, e)
<1> DEFINE t == Append(text, ch)
           k == Len(text)
<1>1. /\ Len(t) = k + 1 /\ t[k + 1] = ch /\ \A i \in 1 .. k : t[i] = text[i]
  BY AppendProperties DEF Str
<1>2. k \in Nat /\ k >= 1 /\ text[1] = quote /\ e \subseteq 2 .. k
  BY LenProperties DEF Str, Escaped
<1> HIDE DEF t
<1>3. /\ \A n \in 2 .. k : n \in e <=> text[n - 1] = "bs" /\ n - 1 \notin e
      /\ \A n \in 2 .. k : text[n] = quote => n \in e
  BY DEF Escaped
<1> HIDE DEF k
<1>4. /\ \A n \in 2 .. k : n \in e <=> t[n - 1] = "bs" /\ n - 1 \notin e
      /\ \A n \in 2 .. k : t[n] = quote => n \in e
      /\ t[1] = quote /\ t[k] = text[k]
  <2>1. \A n \in 2 .. k : n - 1 \in 1 .. k /\ n \in 1 .. k
    BY <1>2
  <2> QED BY <1>1, <1>2, <1>3, <2>1
<1>5. CASE Hanging(text, e)
  <2> DEFINE f == e \cup {k + 1}
  <2>1. t[k] = "bs" /\ k \notin e
    BY <1>4, <1>5 DEF Hanging, k
  <2>2. \A n \in 2 .. k + 1 : n = k + 1 \/ (n \in 2 .. k /\ n # k + 1 /\ n - 1 # k + 1)
    BY <1>2
  <2>3. k + 1 - 1 = k /\ k # k + 1
    BY <1>2
  <2>4. \A n \in 2 .. k + 1 : /\ n \in f <=> t[n - 1] = "bs" /\ n - 1 \notin f
                              /\ t[n] = quote => n \in f
    <3> TAKE n \in 2 .. k + 1
    <3>1. CASE n = k + 1
      <4>1. n - 1 = k /\ n \in f /\ k \notin f
        BY <1>2, <2>1, <2>3, <3>1
      <4> HIDE DEF f
      <4> QED BY <2>1, <4>1
    <3>2. CASE n \in 2 .. k
      <4>1. (n \in f <=> n \in e) /\ (n - 1 \in f <=> n - 1 \in e)
        BY <1>2, <3>2
      <4> HIDE DEF f
      <4> QED BY <1>4, <3>2, <4>1
    <3> QED BY <2>2, <3>1, <3>2
  <2>5. f \subseteq 2 .. k + 1
    BY <1>2
  <2> HIDE DEF f
  <2>6. Escaped(t, quote, f)
    BY <1>1, <1>2, <1>4, <2>4, <2>5 DEF Escaped
  <2> QED BY <1>5, <2>6 DEF f, t, k
<1>6. CASE ~Hanging(text, e) /\ ch # quote
  <2>1. ~(t[k] = "bs" /\ k \notin e)
    BY <1>4, <1>6 DEF Hanging, k
  <2>2. \A n \in 2 .. k + 1 : n = k + 1 \/ n \in 2 .. k
    BY <1>2
  <2>3. k + 1 - 1 = k /\ k + 1 \notin e
    BY <1>2
  <2>4. \A n \in 2 .. k + 1 : /\ n \in e <=> t[n - 1] = "bs" /\ n - 1 \notin e
                              /\ t[n] = quote => n \in e
    <3> TAKE n \in 2 .. k + 1
    <3>1. CASE n = k + 1
      <4>1. n - 1 = k /\ n \notin e /\ t[n] = ch
        BY <1>1, <1>2, <2>3, <3>1
      <4> QED BY <1>6, <2>1, <4>1
    <3>2. CASE n \in 2 .. k
      BY <1>4, <3>2
    <3> QED BY <2>2, <3>1, <3>2
  <2>5. e \subseteq 2 .. k + 1
    BY <1>2
  <2>6. Escaped(t, quote, e)
    BY <1>1, <1>2, <1>4, <2>4, <2>5 DEF Escaped
  <2> QED BY <1>6, <2>6 DEF t
<1> QED BY <1>5, <1>6
(* What each character makes of an open string.                             *)
LEMMA StringGrows ==
  ASSUME NEW text \in Str, NEW ch \in Chars, NEW quote \in {"dq", "sq"}
  PROVE  /\ Open0(text, quote) /\ ch = quote => Quoted(Append(text, ch), quote)
         /\ Open0(text, quote) /\ ch = "bs" => OpenEsc(Append(text, ch), quote)
         /\ Open0(text, quote) /\ ch # quote /\ ch # "bs" => Open0(Append(text, ch), quote)
         /\ OpenEsc(text, quote) => Open0(Append(text, ch), quote)
<1> DEFINE t == Append(text, ch)
           k == Len(text)
<1>1. /\ t \in Seq(Chars) /\ Len(t) = k + 1 /\ t[k + 1] = ch /\ \A i \in 1 .. k : t[i] = text[i]
  BY AppendProperties DEF Str
<1>2. k \in Nat
  BY LenProperties DEF Str
<1> HIDE DEF t
<1>3. \A e : Escaped(text, quote, e) =>
               /\ k >= 1 /\ text[1] = quote /\ e \subseteq 2 .. k /\ k + 1 \notin e /\ e \in SUBSET Nat
  <2> SUFFICES ASSUME NEW e, Escaped(text, quote, e)
               PROVE  k >= 1 /\ text[1] = quote /\ e \subseteq 2 .. k /\ k + 1 \notin e
                      /\ e \in SUBSET Nat
    OBVIOUS
  <2>1. k >= 1 /\ text[1] = quote /\ e \subseteq 2 .. k
    BY DEF Escaped
  <2> HIDE DEF k
  <2> QED BY <1>2, <2>1
<1>4. ASSUME Open0(text, quote)
      PROVE  /\ ch = quote => Quoted(t, quote)
             /\ ch = "bs" => OpenEsc(t, quote)
             /\ ch # quote /\ ch # "bs" => Open0(t, quote)
  <2>1. PICK e \in SUBSET Nat : Escaped(text, quote, e) /\ ~Hanging(text, e)
    BY <1>4 DEF Open0
  <2>2. /\ k >= 1 /\ text[1] = quote /\ e \subseteq 2 .. k /\ k + 1 \notin e
    BY <1>3, <2>1
  <2>3. ch # quote => Escaped(t, quote, e)
    BY <2>1, EscapedGrows DEF t
  <2>4. CASE ch = quote
    <3>1. \A n \in 2 .. k : n \in 1 .. k /\ n - 1 \in 1 .. k
      BY <1>2
    <3>2. \A n \in 2 .. k : /\ n \in e <=> t[n - 1] = "bs" /\ n - 1 \notin e
                            /\ t[n] = quote => n \in e
      BY <1>1, <2>1, <3>1 DEF Escaped
    <3>3. ~(t[k] = "bs" /\ k \notin e)
      <4>1. k \in 1 .. k
        BY <1>2, <2>2
      <4> QED BY <1>1, <2>1, <4>1 DEF Hanging
    <3>4. \A n \in 2 .. k + 1 : n = k + 1 \/ n \in 2 .. k
      BY <1>2
    <3>5. \A n \in 2 .. k + 1 : /\ n \in e <=> t[n - 1] = "bs" /\ n - 1 \notin e
                                /\ t[n] = quote => n \in e \/ n = k + 1
      <4> TAKE n \in 2 .. k + 1
      <4>1. CASE n = k + 1
        <5>1. n - 1 = k /\ n \notin e
          BY <1>2, <2>2, <4>1
        <5> QED BY <3>3, <4>1, <5>1
      <4>2. CASE n \in 2 .. k
        BY <3>2, <4>2
      <4> QED BY <3>4, <4>1, <4>2
    <3>6. Len(t) >= 2 /\ e \in SUBSET (2 .. Len(t) - 1) /\ Len(t) = k + 1
      <4>1. k + 1 - 1 = k /\ k + 1 >= 2
        BY <1>2, <2>2
      <4> QED BY <1>1, <2>2, <4>1
    <3>7. Head(t) = quote /\ Last(t) = quote
      <4>1. 1 \in 1 .. k
        BY <1>2, <2>2
      <4>2. t[1] = quote /\ t[Len(t)] = quote
        BY <1>1, <2>2, <2>4, <4>1
      <4> QED BY <1>1, <4>2 DEF Last
    <3> HIDE DEF k
    <3>8. Quoted(t, quote)
      BY <3>5, <3>6, <3>7 DEF Quoted
    <3> QED BY <2>4, <3>8
  <2>5. CASE ch = "bs"
    <3>1. Escaped(t, quote, e)
      BY <2>3, <2>5
    <3>2. Hanging(t, e)
      BY <1>1, <2>2, <2>5 DEF Hanging
    <3> QED BY <2>1, <2>5, <3>1, <3>2 DEF OpenEsc
  <2>6. CASE ch # "bs" /\ ch # quote
    <3>1. Escaped(t, quote, e)
      BY <2>3, <2>6
    <3>2. ~Hanging(t, e)
      BY <1>1, <2>6 DEF Hanging
    <3> QED BY <2>1, <2>6, <3>1, <3>2 DEF Open0
  <2> QED BY <2>4, <2>5, <2>6
<1>5. ASSUME OpenEsc(text, quote) PROVE Open0(t, quote)
  <2>1. PICK f \in SUBSET Nat : Escaped(text, quote, f) /\ Hanging(text, f)
    BY <1>5 DEF OpenEsc
  <2> DEFINE g == f \cup {k + 1}
  <2>2. Escaped(t, quote, g)
    BY <2>1, EscapedGrows DEF t
  <2>3. Len(t) \in g /\ g \in SUBSET Nat
    <3>1. Len(t) = k + 1 /\ k + 1 \in Nat
      BY <1>1, <1>2
    <3> HIDE DEF k
    <3> QED BY <3>1
  <2> HIDE DEF g
  <2> QED BY <2>2, <2>3 DEF Open0, Hanging
<1> QED BY <1>4, <1>5 DEF t

(* The transitions of a string.                                             *)
LEMMA FitsString ==
  ASSUME NEW text \in Str, NEW ch \in Chars, NEW s, NEW quote, NEW esc,
         (s = "double" /\ quote = "dq" /\ esc = "double_escape")
         \/ (s = "single" /\ quote = "sq" /\ esc = "single_escape"),
         Pending(s, text, ch), NEW row, row = Table[s], NEW n, First(row, n, ch)
  PROVE  Fits(row[n], text, ch)
<1>0. quote \in {"dq", "sq"} /\ quote # "nul" /\ quote # "bs" /\ s \in States /\ esc \in States
  BY DEF States
<1>1. /\ DOMAIN row = 1 .. 4 /\ row[1] = Emit({quote}, "string") /\ row[2] = Go({"bs"}, esc)
      /\ row[3] = Fails({"nul"}) /\ row[4] = Go(Chars, s)
  <2>1. CASE s = "double"
    BY <2>1 DEF Table
  <2>2. CASE s = "single"
    BY <2>2 DEF Table
  <2> QED BY <2>1, <2>2
<1>2. Open0(text, quote)
  BY DEF Pending
<1>3. CASE n = 1
  <2>1. ch = quote
    BY <1>1, <1>3, OneRule
  <2>2. Quoted(Append(text, ch), quote)
    BY <1>0, <1>2, <2>1, StringGrows
  <2>3. Lexeme([kind |-> "string", text |-> Append(text, ch)])
    BY <1>0, <2>2 DEF Lexeme
  <2> QED BY <1>0, <1>1, <1>3, <2>1, <2>3, EmitFits DEF TokenKinds
<1>4. CASE n = 2
  <2>1. ch = "bs"
    BY <1>1, <1>4, OneRule
  <2>2. OpenEsc(Append(text, ch), quote)
    BY <1>0, <1>2, <2>1, StringGrows
  <2>3. \A c : Pending(esc, Append(text, ch), c)
    BY <2>2 DEF Pending
  <2> QED BY <1>0, <1>1, <1>4, <2>1, <2>3, GoFits
<1>5. CASE n = 3
  BY <1>1, <1>5, FailsFits
<1>6. CASE n = 4
  <2>1. ch # quote /\ ch # "bs" /\ ch # "nul"
    BY <1>1, <1>6 DEF First, Emit, Go, Fails, Rule
  <2>2. Open0(Append(text, ch), quote)
    BY <1>0, <1>2, <2>1, StringGrows
  <2>3. \A c : Pending(s, Append(text, ch), c)
    BY <2>2 DEF Pending
  <2> QED BY <1>0, <1>1, <1>6, <2>1, <2>3, GoFits
<1> QED BY <1>1, <1>3, <1>4, <1>5, <1>6 DEF First

(* The transitions behind a backslash.                                      *)
LEMMA FitsEscape ==
  ASSUME NEW text \in Str, NEW ch \in Chars, NEW s, NEW quote, NEW esc,
         (s = "double" /\ quote = "dq" /\ esc = "double_escape")
         \/ (s = "single" /\ quote = "sq" /\ esc = "single_escape"),
         Pending(esc, text, ch), NEW row, row = Table[esc], NEW n, First(row, n, ch)
  PROVE  Fits(row[n], text, ch)
<1>0. quote \in {"dq", "sq"} /\ s \in States
  BY DEF States
<1>1. DOMAIN row = 1 .. 1 /\ row[1] = Go(Chars, s)
  <2>1. CASE esc = "double_escape"
    <3>1. row = <<Go(Chars, "double")>>
      BY <2>1 DEF Table
    <3> QED BY <2>1, <3>1
  <2>2. CASE esc = "single_escape"
    <3>1. row = <<Go(Chars, "single")>>
      BY <2>2 DEF Table
    <3> QED BY <2>2, <3>1
  <2> QED BY <2>1, <2>2
<1>2. OpenEsc(text, quote)
  BY DEF Pending
<1>3. Open0(Append(text, ch), quote)
  BY <1>0, <1>2, StringGrows
<1>4. \A c : Pending(s, Append(text, ch), c)
  BY <1>3 DEF Pending
<1>5. Ignorable(text)
  <2>1. PICK f \in SUBSET Nat : Escaped(text, quote, f) /\ Hanging(text, f)
    BY <1>2 DEF OpenEsc
  <2>2. text[1] = quote /\ text[Len(text)] = "bs"
    BY <2>1 DEF Escaped, Hanging
  <2>3. Head(text) = quote /\ Last(text) = "bs"
    BY <2>2 DEF Str, Last
  <2> QED BY <1>0, <2>3 DEF Ignorable
<1>6. n = 1
  BY <1>1 DEF First
<1> QED BY <1>0, <1>1, <1>4, <1>5, <1>6, GoFits
-----------------------------------------------------------------------------
(* The first character of a token.                                          *)

(* The transitions at the start of a token.                                 *)
LEMMA FitsInit ==
  ASSUME NEW text \in Str, NEW ch \in Chars, Pending("init", text, ch),
         NEW row, row = Table["init"], NEW n, First(row, n, ch)
  PROVE  Fits(row[n], text, ch)
<1> DEFINE letters == Letters \cup {"us"}
           digits == Digits \cup {"-", "+"}
           t == Append(text, ch)
           r1 == Go(letters, "id")
           r2 == Go(digits, "int")
           r3 == Emit({"["}, "lbrack")
           r4 == Emit({"]"}, "rbrack")
           r5 == Emit({"="}, "eq")
           r6 == Emit({"."}, "dot")
           r7 == Emit({";"}, "semicolon")
           r8 == Go({"#"}, "comment")
           r9 == Peek({"nl"}, "newline")
           r10 == Peek({"sp"}, "space")
           r11 == Go({"dq"}, "double")
           r12 == Go({"sq"}, "single")
           r13 == Go({"nul"}, "init")
<1>a. row = <<r1, r2, r3, r4, r5, r6, r7, r8, r9, r10, r11, r12, r13>>
  BY DEF Table
<1> HIDE DEF letters, digits, r1, r2, r3, r4, r5, r6, r7, r8, r9, r10, r11, r12, r13
<1>b. DOMAIN row = 1 .. 13
  BY <1>a
<1>c. /\ row[1] = r1 /\ row[2] = r2 /\ row[3] = r3 /\ row[4] = r4 /\ row[5] = r5
      /\ row[6] = r6 /\ row[7] = r7 /\ row[8] = r8 /\ row[9] = r9 /\ row[10] = r10
      /\ row[11] = r11 /\ row[12] = r12 /\ row[13] = r13
  BY <1>a
<1>2. text = <<>>
  BY DEF Pending
<1>3. Ignorable(text) /\ t = <<ch>>
  BY <1>2 DEF Ignorable
<1>4. CASE n = 1
  <2>0. row[n] = Go(letters, "id")
    BY <1>c, <1>4 DEF r1
  <2>1. ch \in letters
    BY <2>0, OneRule
  <2>2. ch # "nul"
    BY <2>1, Apart DEF Marks, letters, digits
  <2>3. Word(t, letters, Letters \cup Digits \cup {"us", "-"})
    BY <1>2, <2>1, WordGrows
  <2>4. \A c : Pending("id", t, c)
    BY <2>3 DEF Pending, letters
  <2> QED BY <2>0, <2>2, <2>4, GoFits DEF States
<1>5. CASE n = 2
  <2>0. row[n] = Go(digits, "int")
    BY <1>c, <1>5 DEF r2
  <2>1. ch \in digits
    BY <2>0, OneRule
  <2>2. ch # "nul"
    BY <2>1, Apart DEF Marks, letters, digits
  <2>3. Word(t, digits, Digits \cup {"us"})
    BY <1>2, <2>1, WordGrows
  <2>4. digits = Digits \cup {"+", "-"}
    BY DEF digits
  <2>5. \A c : Pending("int", t, c)
    BY <2>3, <2>4 DEF Pending
  <2> QED BY <2>0, <2>2, <2>5, GoFits DEF States
<1>6. \A x \in {"[", "]", "=", ".", ";"}, k \in {"lbrack", "rbrack", "eq", "dot", "semicolon"} :
         row[n] = Emit({x}, k) => Fits(row[n], text, ch)
  <2> TAKE x \in {"[", "]", "=", ".", ";"}, k \in {"lbrack", "rbrack", "eq", "dot", "semicolon"}
  <2>0. HAVE row[n] = Emit({x}, k)
  <2>1. ch = x
    <3>1. ch \in {x}
      BY <2>0, OneRule
    <3> QED BY <3>1
  <2>2. t \in {<<"[">>, <<"]">>, <<"=">>, <<".">>, <<";">>}
    BY <1>3, <2>1
  <2>3. Lexeme([kind |-> k, text |-> t])
    <3> HIDE DEF t
    <3> QED BY <2>2 DEF Lexeme
  <2>4. k \in TokenKinds /\ ch # "nul"
    BY <2>1 DEF TokenKinds
  <2> QED BY <2>0, <2>3, <2>4, EmitFits
<1>7. CASE n \in 3 .. 7
  <2>3. CASE n = 3
    <3>1. row[n] = Emit({"["}, "lbrack")
      BY <1>c, <2>3 DEF r3
    <3> QED BY <1>6, <3>1
  <2>4. CASE n = 4
    <3>1. row[n] = Emit({"]"}, "rbrack")
      BY <1>c, <2>4 DEF r4
    <3> QED BY <1>6, <3>1
  <2>5. CASE n = 5
    <3>1. row[n] = Emit({"="}, "eq")
      BY <1>c, <2>5 DEF r5
    <3> QED BY <1>6, <3>1
  <2>6. CASE n = 6
    <3>1. row[n] = Emit({"."}, "dot")
      BY <1>c, <2>6 DEF r6
    <3> QED BY <1>6, <3>1
  <2>7. CASE n = 7
    <3>1. row[n] = Emit({";"}, "semicolon")
      BY <1>c, <2>7 DEF r7
    <3> QED BY <1>6, <3>1
  <2> QED BY <1>7, <2>3, <2>4, <2>5, <2>6, <2>7
<1>8. CASE n = 8
  <2>0. row[n] = Go({"#"}, "comment")
    BY <1>c, <1>8 DEF r8
  <2>1. ch = "#"
    BY <2>0, OneRule
  <2>2. Word(t, {"#"}, Chars \ {"nl"})
    BY <1>2, <2>1, WordGrows
  <2>3. \A c : Pending("comment", t, c)
    BY <2>2 DEF Pending
  <2> QED BY <2>0, <2>1, <2>3, GoFits DEF States
<1>9. CASE n = 9
  <2>0. row[n] = Peek({"nl"}, "newline")
    BY <1>c, <1>9 DEF r9
  <2>1. ch = "nl"
    BY <2>0, OneRule
  <2>2. Pending("newline", text, ch)
    BY <1>2, <2>1 DEF Pending
  <2> QED BY <2>0, <2>2, PeekFits DEF States
<1>10. CASE n = 10
  <2>0. row[n] = Peek({"sp"}, "space")
    BY <1>c, <1>10 DEF r10
  <2>1. ch = "sp"
    BY <2>0, OneRule
  <2>2. Pending("space", text, ch)
    BY <1>2, <2>1 DEF Pending
  <2> QED BY <2>0, <2>2, PeekFits DEF States
<1>11. CASE n = 11
  <2>0. row[n] = Go({"dq"}, "double")
    BY <1>c, <1>11 DEF r11
  <2>1. ch = "dq"
    BY <2>0, OneRule
  <2>2. Open0(t, "dq")
    BY <1>3, <2>1, Opens
  <2>3. \A c : Pending("double", t, c)
    BY <2>2 DEF Pending
  <2> QED BY <2>0, <2>1, <2>3, GoFits DEF States
<1>12. CASE n = 12
  <2>0. row[n] = Go({"sq"}, "single")
    BY <1>c, <1>12 DEF r12
  <2>1. ch = "sq"
    BY <2>0, OneRule
  <2>2. Open0(t, "sq")
    BY <1>3, <2>1, Opens
  <2>3. \A c : Pending("single", t, c)
    BY <2>2 DEF Pending
  <2> QED BY <2>0, <2>1, <2>3, GoFits DEF States
<1>13. CASE n = 13
  <2>0. row[n] = Go({"nul"}, "init")
    BY <1>c, <1>13 DEF r13
  <2>1. ch = "nul"
    BY <2>0, OneRule
  <2> QED BY <2>0, <1>3, <2>1, GoFits DEF States
<1>e. n \in 1 .. 13
  BY <1>b DEF First
<1> QED BY <1>e, <1>4, <1>5, <1>7, <1>8, <1>9, <1>10, <1>11, <1>12, <1>13

(* Every transition of the table is right for what it is taken at.          *)
LEMMA EveryRuleFits ==
  ASSUME NEW s \in States, NEW text \in Str, NEW ch \in Chars, Pending(s, text, ch),
         NEW n, First(Table[s], n, ch)
  PROVE  Fits(Table[s][n], text, ch)
<1>1. PICK row : row = Table[s]
  OBVIOUS
<1>2. First(row, n, ch)
  BY <1>1
<1>3. Fits(row[n], text, ch)
  <2>1. CASE s = "init"
    BY <1>1, <1>2, <2>1, FitsInit
  <2>2. CASE s = "id"
    BY <1>1, <1>2, <2>2, FitsId
  <2>3. CASE s \in {"space", "newline"}
    BY <1>1, <1>2, <2>3, FitsBlank
  <2>4. CASE s = "int"
    BY <1>1, <1>2, <2>4, FitsInt
  <2>5. CASE s = "float"
    BY <1>1, <1>2, <2>5, FitsFloat
  <2>6. CASE s = "comment"
    BY <1>1, <1>2, <2>6, FitsComment
  <2>7. CASE s = "double"
    BY <1>1, <1>2, <2>7, FitsString
  <2>8. CASE s = "single"
    BY <1>1, <1>2, <2>8, FitsString
  <2>9. CASE s = "double_escape"
    BY <1>1, <1>2, <2>9, FitsEscape
  <2>10. CASE s = "single_escape"
    BY <1>1, <1>2, <2>10, FitsEscape
  <2> QED BY <2>1, <2>2, <2>3, <2>4, <2>5, <2>6, <2>7, <2>8, <2>9, <2>10 DEF States
<1> QED BY <1>1, <1>3
-----------------------------------------------------------------------------
(* One step of the lexer.                                                   *)

(* The least transition for a character is the first one.                   *)
LEMMA FirstRule ==
  ASSUME NEW rows, Len(rows) \in Nat, DOMAIN rows = 1 .. Len(rows), NEW ch,
         NEW I, I = {i \in 1 .. Len(rows) : ch \in rows[i].on},
         NEW n, n = IF I # {} THEN Min(I) ELSE 0
  PROVE  n = 0 \/ First(rows, n, ch)
<1>1. n = IF I # {} THEN CHOOSE x \in I : \A y \in I : x <= y ELSE 0
  BY DEF Min
<1>2. I # {} => \E x \in I : \A y \in I : x <= y
  <2>1. I \in SUBSET Nat
    OBVIOUS
  <2> QED BY <2>1, Least
<1>3. n # 0 => n \in I /\ \A y \in I : n <= y
  BY <1>1, <1>2
<1>4. ASSUME n # 0, NEW m \in 1 .. n - 1, ch \in rows[m].on PROVE FALSE
  <2>1. n \in 1 .. Len(rows)
    BY <1>3, <1>4
  <2>2. m \in I /\ ~(n <= m)
    BY <1>4, <2>1
  <2> QED BY <1>3, <1>4, <2>2
<1> QED BY <1>3, <1>4 DEF First

Token == [kind : TokenKinds, text : Str]

Flat(tokens) == FlattenSeq([n \in DOMAIN tokens |-> tokens[n].text])

Lexings(S, Z) == [state : S, i : Nat, j : Nat, tokens : Z, failed : BOOLEAN]

LexInv(src, l) ==
    /\ l \in Lexings(States, Seq(Token))
    /\ l.j <= l.i /\ l.i <= Len(src) + 1 /\ l.j <= Len(src)
    /\ \A n \in DOMAIN l.tokens : Lexeme(l.tokens[n])
    /\ Flat(l.tokens) = SubSeq(src, 1, l.j)
    /\ l.i <= Len(src) => Pending(l.state, SubSeq(src, l.j + 1, l.i), CharAt(src, l.i))
    /\ l.i = Len(src) + 1 => Ignorable(SubSeq(src, l.j + 1, Len(src)))

(* What FlattenSeq goes through.                                            *)
Flattens(f, seqs) ==
    f[0] = <<>> /\ \A i \in 1 .. Len(seqs) : f[i] = f[i - 1] \o seqs[i]

(* FlattenSeq goes through a sequence from its beginning.                   *)
LEMMA FlattenIs ==
  ASSUME NEW seqs \in Seq(Str)
  PROVE  \E f \in [0 .. Len(seqs) -> Str] :
            Flattens(f, seqs) /\ FlattenSeq(seqs) = f[Len(seqs)]
<1> DEFINE L == Len(seqs)
           Is(f) == f = [i \in 1 .. L |-> IF i = 1 THEN seqs[i] ELSE f[i - 1] \o seqs[i]]
           made == CHOOSE f : Is(f)
           step == [i \in 1 .. L |-> [x \in Str |-> x \o seqs[i]]]
           first == <<>>
<1>1. L \in Nat /\ \A i \in 1 .. L : seqs[i] \in Str
  BY LenProperties, ElementOfSeq
<1>2. FlattenSeq(seqs) = IF L = 0 THEN seqs ELSE made[L]
  BY Zenon DEF FlattenSeq
<1>3. first \in Str /\ \A x \in Str : first \o x = x
  BY ConcatEmptySeq DEF Str
<1>4. \A i \in 1 .. L, x \in Str : x \o seqs[i] \in Str
  BY <1>1, ConcatProperties DEF Str
<1>a. L = 0 => seqs = first
  OBVIOUS
<1> HIDE DEF L, first
<1>5. step \in [1 .. L -> [Str -> Str]]
  BY <1>4
<1>6. PICK h \in [0 .. L -> Str] : Built(h, first, step, L)
  BY <1>1, <1>3, <1>5, StepByStep
<1>7. h[0] = first /\ \A i \in 1 .. L : h[i - 1] \in Str /\ h[i] = h[i - 1] \o seqs[i]
  <2>1. \A i \in 1 .. L : h[i - 1] \in Str
    BY <1>1
  <2> QED BY <1>6, <2>1 DEF Built
<1>b. 1 \in 1 .. L => h[1] = seqs[1]
  <2> SUFFICES ASSUME 1 \in 1 .. L PROVE h[1] = seqs[1]
    OBVIOUS
  <2>1. PICK i : i = 1
    OBVIOUS
  <2>a. i \in 1 .. L /\ i - 1 = 0
    BY <2>1
  <2>b. \A m \in 1 .. L : h[m] = h[m - 1] \o seqs[m]
    BY <1>7
  <2>2. h[i] = h[i - 1] \o seqs[i] /\ i - 1 = 0
    BY <2>a, <2>b, Zenon
  <2>3. h[1] = first \o seqs[1]
    BY <1>7, <2>1, <2>2
  <2> QED BY <1>1, <1>3, <2>3
<1>8. Is([i \in 1 .. L |-> h[i]])
  <2> DEFINE g == [i \in 1 .. L |-> h[i]]
  <2>1. \A i \in 1 .. L : i # 1 => i - 1 \in 1 .. L
    BY <1>1
  <2>2. \A i \in 1 .. L : g[i] = IF i = 1 THEN seqs[i] ELSE g[i - 1] \o seqs[i]
    <3> TAKE i \in 1 .. L
    <3>1. CASE i = 1
      BY <1>b, <3>1
    <3>2. CASE i # 1
      <4>1. g[i] = h[i] /\ g[i - 1] = h[i - 1]
        BY <2>1, <3>2
      <4> HIDE DEF g
      <4> QED BY <1>7, <3>2, <4>1
    <3> QED BY <3>1, <3>2
  <2>3. g = [i \in 1 .. L |-> g[i]]
    OBVIOUS
  <2> HIDE DEF g
  <2> QED BY <2>2, <2>3 DEF g
<1>9. Is(made)
  <2> HIDE DEF Is
  <2> QED BY <1>8
<1> HIDE DEF made
<1>10. \A i \in 1 .. L : made[i] = IF i = 1 THEN seqs[i] ELSE made[i - 1] \o seqs[i]
  BY <1>9
<1> DEFINE Same == {i \in 0 .. L : i = 0 \/ made[i] = h[i]}
<1>11. 0 \in Same
  BY <1>1
<1>12. ASSUME NEW i \in 1 .. L, i - 1 \in Same PROVE i \in Same
  <2>1. CASE i = 1
    BY <1>1, <1>b, <1>10, <2>1
  <2>2. CASE i # 1
    <3>1. made[i - 1] = h[i - 1] /\ i \in 0 .. L
      BY <1>1, <1>12, <2>2
    <3>2. made[i] = made[i - 1] \o seqs[i]
      BY <1>10, <2>2
    <3> QED BY <1>7, <3>1, <3>2
  <2> QED BY <2>1, <2>2
<1>13. L # 0 => made[L] = h[L]
  <2> HIDE DEF Same
  <2>1. \A i \in 0 .. L : i \in Same
    BY <1>1, <1>11, <1>12, UpTo
  <2>2. L \in Same
    BY <1>1, <2>1
  <2> QED BY <2>2 DEF Same
<1>14. FlattenSeq(seqs) = h[L]
  BY <1>2, <1>7, <1>13, <1>a
<1>15. Flattens(h, seqs)
  BY <1>7 DEF Flattens, L, first
<1> QED BY <1>14, <1>15 DEF L

(* The texts of tokens after another one.                                   *)
LEMMA FlatAppend ==
  ASSUME NEW tokens \in Seq(Token), NEW tok \in Token
  PROVE  Flat(Append(tokens, tok)) = Flat(tokens) \o tok.text
<1> DEFINE L == Len(tokens)
           more == Append(tokens, tok)
           a == [n \in DOMAIN tokens |-> tokens[n].text]
           b == [n \in DOMAIN more |-> more[n].text]
<1>1. L \in Nat /\ DOMAIN tokens = 1 .. L /\ \A n \in 1 .. L : tokens[n] \in Token
  BY LenProperties, ElementOfSeq
<1>2. /\ more \in Seq(Token) /\ Len(more) = L + 1 /\ more[L + 1] = tok
      /\ \A n \in 1 .. L : more[n] = tokens[n]
  BY AppendProperties
<1>3. DOMAIN more = 1 .. L + 1
  BY <1>2, LenProperties
<1> HIDE DEF more, L
<1>4. a \in Seq(Str) /\ Len(a) = L /\ \A n \in 1 .. L : a[n] = tokens[n].text
  <2>1. \A n \in 1 .. L : tokens[n].text \in Str
    BY <1>1 DEF Token
  <2>2. a = [n \in 1 .. L |-> tokens[n].text]
    BY <1>1
  <2>3. a \in [1 .. L -> Str]
    BY <2>1, <2>2
  <2> HIDE DEF a
  <2> QED BY <1>1, <2>2, <2>3
<1>5. b \in Seq(Str) /\ Len(b) = L + 1 /\ \A n \in 1 .. L + 1 : b[n] = more[n].text
  <2>1. \A n \in 1 .. L + 1 : more[n].text \in Str
    <3>1. \A n \in 1 .. L + 1 : more[n] \in Token
      BY <1>2, ElementOfSeq
    <3> QED BY <3>1 DEF Token
  <2>2. b = [n \in 1 .. L + 1 |-> more[n].text]
    BY <1>3
  <2>3. b \in [1 .. L + 1 -> Str]
    BY <2>1, <2>2
  <2> HIDE DEF b
  <2> QED BY <1>1, <2>2, <2>3
<1>6. Flat(tokens) = FlattenSeq(a) /\ Flat(more) = FlattenSeq(b)
  BY DEF Flat
<1> HIDE DEF a, b
<1>7. PICK f \in [0 .. L -> Str] : Flattens(f, a) /\ FlattenSeq(a) = f[L]
  BY <1>4, FlattenIs
<1>8. PICK g \in [0 .. L + 1 -> Str] : Flattens(g, b) /\ FlattenSeq(b) = g[L + 1]
  BY <1>5, FlattenIs
<1> DEFINE Same == {i \in 0 .. L : f[i] = g[i]}
<1>9. 0 \in Same
  BY <1>1, <1>7, <1>8 DEF Flattens
<1>10. ASSUME NEW i \in 1 .. L, i - 1 \in Same PROVE i \in Same
  <2>1. i \in 1 .. L + 1 /\ i \in 0 .. L
    BY <1>1
  <2>2. f[i] = f[i - 1] \o a[i] /\ g[i] = g[i - 1] \o b[i]
    BY <1>4, <1>5, <1>7, <1>8, <2>1 DEF Flattens
  <2>3. a[i] = b[i]
    BY <1>2, <1>4, <1>5, <2>1
  <2> QED BY <1>10, <2>1, <2>2, <2>3
<1>11. f[L] = g[L]
  <2> HIDE DEF Same
  <2>1. \A i \in 0 .. L : i \in Same
    BY <1>1, <1>9, <1>10, UpTo
  <2>2. L \in Same
    BY <1>1, <2>1
  <2> QED BY <2>2 DEF Same
<1>12. g[L + 1] = g[L] \o b[L + 1]
  <2>1. L + 1 \in 1 .. L + 1 /\ L + 1 - 1 = L
    BY <1>1
  <2>2. \A i \in 1 .. L + 1 : g[i] = g[i - 1] \o b[i]
    BY <1>5, <1>8 DEF Flattens
  <2>3. g[L + 1] = g[L + 1 - 1] \o b[L + 1]
    BY <2>1, <2>2
  <2> QED BY <2>1, <2>3
<1>13. b[L + 1] = tok.text
  <2>1. L + 1 \in 1 .. L + 1
    BY <1>1
  <2> QED BY <1>2, <1>5, <2>1
<1> QED BY <1>6, <1>7, <1>8, <1>11, <1>12, <1>13 DEF more
(* A token more.                                                            *)
TokensTile(src, tokens, j) ==
    /\ tokens \in Seq(Token) /\ \A n \in DOMAIN tokens : Lexeme(tokens[n])
    /\ Flat(tokens) = SubSeq(src, 1, j)

(* The tokens with the one just taken tile more of the text.                *)
LEMMA TokenTaken ==
  ASSUME NEW src \in Str, NEW tokens, NEW j \in 0 .. Len(src), TokensTile(src, tokens, j),
         NEW e \in j .. Len(src), NEW kind \in TokenKinds, NEW tok,
         tok = [kind |-> kind, text |-> SubSeq(src, j + 1, e)], Lexeme(tok)
  PROVE  TokensTile(src, Append(tokens, tok), e)
<1>0. /\ tokens \in Seq(Token) /\ \A n \in DOMAIN tokens : Lexeme(tokens[n])
      /\ Flat(tokens) = SubSeq(src, 1, j)
  BY DEF TokensTile
<1> DEFINE more == Append(tokens, tok)
           k == Len(src)
<1>1. src \in Seq(Chars) /\ k \in Nat /\ \A i \in 1 .. k : src[i] \in Chars
  BY LenProperties, ElementOfSeq DEF Str
<1>2. tok.text \in Str
  <2>1. \A i \in j + 1 .. e : src[i] \in Chars
    BY <1>1
  <2>2. SubSeq(src, j + 1, e) \in Seq(Chars)
    <3>1. j + 1 \in Int /\ e \in Int
      BY <1>1
    <3> QED BY <2>1, <3>1, SubSeqProperties
  <2> QED BY <2>2 DEF Str
<1>3. tok \in Token
  BY <1>2 DEF Token
<1>4. /\ more \in Seq(Token) /\ Len(more) = Len(tokens) + 1 /\ more[Len(tokens) + 1] = tok
      /\ \A n \in 1 .. Len(tokens) : more[n] = tokens[n]
  BY <1>0, <1>3, AppendProperties
<1>5. Len(tokens) \in Nat /\ DOMAIN tokens = 1 .. Len(tokens) /\ DOMAIN more = 1 .. Len(more)
  BY <1>0, <1>4, LenProperties
<1>6. Flat(more) = SubSeq(src, 1, j) \o SubSeq(src, j + 1, e)
  BY <1>0, <1>3, FlatAppend
<1>7. SubSeq(src, 1, j) \o SubSeq(src, j + 1, e) = SubSeq(src, 1, e)
  <2>1. 1 \in 1 .. Len(src) + 1 /\ j \in 1 - 1 .. Len(src)
    BY <1>1
  <2> QED BY <1>1, <2>1, ConcatAdjacentSubSeq
<1> HIDE DEF more
<1>8. \A n \in DOMAIN more : Lexeme(more[n])
  <2> TAKE n \in DOMAIN more
  <2>1. CASE n \in 1 .. Len(tokens)
    BY <1>0, <1>4, <1>5, <2>1
  <2>2. CASE n = Len(tokens) + 1
    BY <1>4, <2>2
  <2>3. n \in 1 .. Len(tokens) \/ n = Len(tokens) + 1
    BY <1>4, <1>5
  <2> QED BY <2>1, <2>2, <2>3
<1> QED BY <1>4, <1>6, <1>7, <1>8 DEF more, TokensTile

(* The character at hand, and the text up to and with it.                   *)
LEMMA NextChar ==
  ASSUME NEW src \in Seq(Chars \ {"nul"}), NEW i \in 0 .. Len(src), NEW j \in 0 .. i
  PROVE  /\ src \in Str /\ SubSeq(src, j + 1, i) \in Str /\ CharAt(src, i) \in Chars
         /\ CharAt(src, i) = "nul" <=> i = Len(src)
         /\ i < Len(src) => SubSeq(src, j + 1, i + 1) = Append(SubSeq(src, j + 1, i), CharAt(src, i))
<1> DEFINE k == Len(src)
<1>1. k \in Nat /\ \A n \in 1 .. k : src[n] \in Chars /\ src[n] # "nul"
  BY LenProperties, ElementOfSeq
<1>2. src \in Seq(Chars)
  BY <1>1
<1>3. SubSeq(src, j + 1, i) \in Seq(Chars)
  <2>1. \A n \in j + 1 .. i : src[n] \in Chars
    BY <1>1
  <2>2. j + 1 \in Int /\ i \in Int
    OBVIOUS
  <2> QED BY <2>1, <2>2, SubSeqProperties
<1>4. CASE i < k
  <2>1. CharAt(src, i) = src[i + 1] /\ i + 1 \in 1 .. k
    BY <1>1, <1>4 DEF CharAt
  <2>2. SubSeq(src, j + 1, i + 1) = Append(SubSeq(src, j + 1, i), src[i + 1])
    <3>1. j + 1 \in 1 .. Len(src) /\ i + 1 \in j + 1 .. Len(src) /\ i + 1 - 1 = i
      BY <1>1, <1>4
    <3>2. SubSeq(src, j + 1, i + 1) = SubSeq(src, j + 1, i + 1 - 1) \o <<src[i + 1]>>
      BY <1>2, <3>1, SubSeqRecursiveSecond
    <3>3. SubSeq(src, j + 1, i) \o <<src[i + 1]>> = Append(SubSeq(src, j + 1, i), src[i + 1])
      BY <1>1, <1>3, <2>1, AppendIsConcat
    <3> QED BY <3>1, <3>2, <3>3
  <2> QED BY <1>1, <1>2, <1>3, <1>4, <2>1, <2>2 DEF Str
<1>5. CASE i = k
  <2>1. ~(i < Len(src)) /\ i = Len(src)
    BY <1>1, <1>5
  <2>2. CharAt(src, i) = "nul"
    BY <2>1 DEF CharAt
  <2>3. "nul" \in Chars
    BY DEF Chars, Marks
  <2> QED BY <1>2, <1>3, <2>1, <2>2, <2>3 DEF Str
<1>6. i < k \/ i = k
  BY <1>1
<1> HIDE DEF k
<1> QED BY <1>4, <1>5, <1>6

(* The transitions of a state are a sequence.                               *)
LEMMA Rows ==
  ASSUME NEW s \in States, NEW rows, rows = Table[s]
  PROVE  Len(rows) \in Nat /\ DOMAIN rows = 1 .. Len(rows)
<1>1. CASE s = "init"
  <2> DEFINE r1 == Go(Letters \cup {"us"}, "id")
             r2 == Go(Digits \cup {"-", "+"}, "int")
             r3 == Emit({"["}, "lbrack")
             r4 == Emit({"]"}, "rbrack")
             r5 == Emit({"="}, "eq")
             r6 == Emit({"."}, "dot")
             r7 == Emit({";"}, "semicolon")
             r8 == Go({"#"}, "comment")
             r9 == Peek({"nl"}, "newline")
             r10 == Peek({"sp"}, "space")
             r11 == Go({"dq"}, "double")
             r12 == Go({"sq"}, "single")
             r13 == Go({"nul"}, "init")
  <2>1. rows = <<r1, r2, r3, r4, r5, r6, r7, r8, r9, r10, r11, r12, r13>>
    BY <1>1 DEF Table
  <2> HIDE DEF r1, r2, r3, r4, r5, r6, r7, r8, r9, r10, r11, r12, r13
  <2> QED BY <2>1
<1>2. CASE s = "id"
  <2>1. Len(rows) = 2 /\ DOMAIN rows = 1 .. 2
    BY <1>2 DEF Table
  <2> QED BY <2>1
<1>3. CASE s = "space"
  <2>1. Len(rows) = 2 /\ DOMAIN rows = 1 .. 2
    BY <1>3 DEF Table
  <2> QED BY <2>1
<1>4. CASE s = "newline"
  <2>1. Len(rows) = 2 /\ DOMAIN rows = 1 .. 2
    BY <1>4 DEF Table
  <2> QED BY <2>1
<1>5. CASE s = "comment"
  <2>1. Len(rows) = 2 /\ DOMAIN rows = 1 .. 2
    BY <1>5 DEF Table
  <2> QED BY <2>1
<1>6. CASE s = "int"
  <2>1. Len(rows) = 3 /\ DOMAIN rows = 1 .. 3
    BY <1>6 DEF Table
  <2> QED BY <2>1
<1>7. CASE s = "float"
  <2>1. Len(rows) = 3 /\ DOMAIN rows = 1 .. 3
    BY <1>7 DEF Table
  <2> QED BY <2>1
<1>8. CASE s = "double"
  <2>1. Len(rows) = 4 /\ DOMAIN rows = 1 .. 4
    BY <1>8 DEF Table
  <2> QED BY <2>1
<1>9. CASE s = "single"
  <2>1. Len(rows) = 4 /\ DOMAIN rows = 1 .. 4
    BY <1>9 DEF Table
  <2> QED BY <2>1
<1>10. CASE s = "double_escape"
  <2>1. rows = <<Go(Chars, "double")>>
    BY <1>10 DEF Table
  <2>2. Len(rows) = 1 /\ DOMAIN rows = 1 .. 1
    BY <2>1
  <2> QED BY <2>2
<1>11. CASE s = "single_escape"
  <2>1. rows = <<Go(Chars, "single")>>
    BY <1>11 DEF Table
  <2>2. Len(rows) = 1 /\ DOMAIN rows = 1 .. 1
    BY <2>1
  <2> QED BY <2>2
<1> QED BY <1>1, <1>2, <1>3, <1>4, <1>5, <1>6, <1>7, <1>8, <1>9, <1>10, <1>11 DEF States

Excepted(k, state, i, j, tokens) ==
    k.state = state /\ k.i = i /\ k.j = j /\ k.tokens = tokens

(* The fields after a step that takes no token.                             *)
LEMMA Excepts ==
  ASSUME NEW S, NEW Z, NEW l \in Lexings(S, Z), NEW w \in S, NEW x \in Nat, NEW k,
         k = [l EXCEPT !.state = w, !.i = x]
  PROVE  Excepted(k, w, x, l.j, l.tokens) /\ k \in Lexings(S, Z)
BY DEF Lexings, Excepted

(* The fields after a step that takes one.                                  *)
LEMMA MoreExcepts ==
  ASSUME NEW S, NEW Z, NEW l \in Lexings(S, Z), NEW w \in S, NEW x \in Nat, NEW y \in Nat,
         NEW z \in Z, NEW k, k = [l EXCEPT !.state = w, !.i = x, !.j = y, !.tokens = z]
  PROVE  Excepted(k, w, x, y, z) /\ k \in Lexings(S, Z)
BY DEF Lexings, Excepted

(* Each step of lexer() keeps the invariant.                                *)
LEMMA LexStepKeeps ==
  ASSUME NEW src \in Seq(Chars \ {"nul"}), NEW l, LexInv(src, l), ~LexDone(src, l)
  PROVE  LexInv(src, LexStep(src, l))
<1> DEFINE text == SubSeq(src, l.j + 1, l.i)
           ch == CharAt(src, l.i)
           rows == Table[l.state]
           n == SelectInSeq(rows, LAMBDA r : CharAt(src, l.i) \in r.on)
           r == rows[n]
           k == LexStep(src, l)
           L == Len(src)
<1>1. l \in Lexings(States, Seq(Token))
  BY DEF LexInv
<1>2. l.failed = FALSE
      /\ l.state \in States /\ l.i \in Nat /\ l.j \in Nat /\ l.tokens \in Seq(Token)
  BY <1>1 DEF LexDone, Lexings
<1>3. L \in Nat /\ l.i \in 0 .. L /\ l.j \in 0 .. l.i /\ l.j \in 0 .. L
  <2>1. L \in Nat
    BY LenProperties
  <2> HIDE DEF L
  <2>2. l.j <= l.i /\ l.i <= L + 1 /\ l.j <= L /\ l.i # L + 1
    BY DEF LexInv, LexDone, L
  <2> QED BY <1>2, <2>1, <2>2
<1>4. /\ src \in Str /\ text \in Str /\ ch \in Chars /\ (ch = "nul" <=> l.i = L)
      /\ l.i < L => SubSeq(src, l.j + 1, l.i + 1) = Append(text, ch)
  BY <1>3, NextChar
<1>5. Pending(l.state, text, ch)
  BY <1>3 DEF LexInv
<1>6. n = 0 \/ First(rows, n, ch)
  <2>1. Len(rows) \in Nat /\ DOMAIN rows = 1 .. Len(rows)
    BY <1>2, Rows
  <2>2. PICK p : p = n
    OBVIOUS
  <2>3. PICK c : c = ch
    OBVIOUS
  <2>4. PICK rs : rs = Table[l.state]
    OBVIOUS
  <2> DEFINE I == {i \in 1 .. Len(rs) : c \in rs[i].on}
  <2>a. p = SelectInSeq(rs, LAMBDA x : CharAt(src, l.i) \in x.on)
    BY <2>2, <2>4
  <2>b. I = {i \in 1 .. Len(rs) : CharAt(src, l.i) \in rs[i].on}
    BY <2>3
  <2>5. p = IF I # {} THEN Min(I) ELSE 0
    <3> HIDE DEF I, n, ch, rows
    <3> QED BY <2>a, <2>b, Zenon DEF SelectInSeq
  <2>6. c = CharAt(src, l.i) /\ Len(rs) \in Nat /\ DOMAIN rs = 1 .. Len(rs)
    BY <2>1, <2>3, <2>4
  <2> HIDE DEF n, ch, rows
  <2>7. p = 0 \/ First(rs, p, c)
    BY <2>4, <2>5, <2>6, FirstRule
  <2> QED BY <2>2, <2>3, <2>4, <2>7 DEF rows
<1>7. n # 0 => Fits(r, text, ch)
  BY <1>2, <1>4, <1>5, <1>6, EveryRuleFits
<1>8. k = IF n = 0 \/ r.err THEN [l EXCEPT !.failed = TRUE]
          ELSE IF r.token = "none"
          THEN [l EXCEPT !.state = r.next, !.i = IF r.unwind THEN @ ELSE @ + 1]
          ELSE [l EXCEPT !.state = r.next, !.i = IF r.unwind THEN @ ELSE @ + 1,
                         !.j = TokenEnd(l, r),
                         !.tokens = Append(@, [kind |-> r.token,
                                               text |-> SubSeq(src, l.j + 1, TokenEnd(l, r))])]
  BY Zenon DEF LexStep
<1> HIDE DEF k, n, r, rows
<1>a. /\ \A m \in DOMAIN l.tokens : Lexeme(l.tokens[m])
      /\ Flat(l.tokens) = SubSeq(src, 1, l.j)
  BY DEF LexInv
<1>9. CASE n = 0 \/ r.err
  <2>1. k = [l EXCEPT !.failed = TRUE]
    BY <1>8, <1>9
  <2>2. k.state = l.state /\ k.i = l.i /\ k.j = l.j /\ k.tokens = l.tokens
    BY <1>1, <2>1 DEF Lexings
  <2>3. k \in Lexings(States, Seq(Token))
    BY <1>1, <2>1 DEF Lexings
  <2> QED BY <2>2, <2>3 DEF LexInv, k
<1>10. CASE ~(n = 0 \/ r.err) /\ r.token = "none"
  <2> DEFINE i == IF r.unwind THEN l.i ELSE l.i + 1
  <2>0. Fits(r, text, ch) /\ r.next \in States /\ r.unwind \in BOOLEAN
    BY <1>7, <1>10 DEF Fits
  <2>a. i \in 0 .. L + 1 /\ l.j <= i /\ l.j <= L /\ i \in Nat
    BY <1>3
  <2>1. k = [l EXCEPT !.state = r.next, !.i = i]
    BY <1>8, <1>10
  <2>2. /\ k.state = r.next /\ k.i = i /\ k.j = l.j /\ k.tokens = l.tokens
        /\ k \in Lexings(States, Seq(Token))
    <3>1. PICK x : x = i
      OBVIOUS
    <3>2. k = [l EXCEPT !.state = r.next, !.i = x]
      BY <2>1, <3>1
    <3>3. x \in Nat
      BY <2>a, <3>1
    <3> HIDE DEF i
    <3>4. Excepted(k, r.next, x, l.j, l.tokens)
      BY <1>1, <2>0, <3>2, <3>3 DEF Lexings, Excepted
    <3>5. k \in Lexings(States, Seq(Token))
      BY <1>1, <2>0, <3>2, <3>3, Excepts
    <3> QED BY <3>1, <3>4, <3>5 DEF Excepted
  <2>3. k \in Lexings(States, Seq(Token))
    BY <2>2
  <2>4. ASSUME i <= L PROVE Pending(r.next, SubSeq(src, l.j + 1, i), CharAt(src, i))
    <3>1. CASE r.unwind
      BY <1>10, <2>0, <3>1 DEF Fits
    <3>2. CASE ~r.unwind
      <4>1. i = l.i + 1 /\ l.i < L
        BY <1>3, <2>4, <3>2
      <4>2. ch # "nul" /\ SubSeq(src, l.j + 1, l.i + 1) = Append(text, ch)
        <5>1. l.i < L /\ l.i # L
          BY <1>3, <4>1
        <5> HIDE DEF text, ch, i
        <5> QED BY <1>4, <5>1
      <4>3. \A c : Pending(r.next, Append(text, ch), c)
        BY <1>10, <2>0, <3>2, <4>2 DEF Fits
      <4> HIDE DEF i, text, ch
      <4> QED BY <4>1, <4>2, <4>3
    <3> QED BY <3>1, <3>2
  <2>5. ASSUME i = L + 1 PROVE Ignorable(SubSeq(src, l.j + 1, L))
    <3>1. ~r.unwind /\ l.i = L
      BY <1>3, <2>5
    <3>2. Ignorable(text)
      BY <1>4, <1>10, <2>0, <3>1 DEF Fits
    <3> QED BY <3>1, <3>2
  <2> HIDE DEF i
  <2>6. k.i <= Len(src) => Pending(k.state, SubSeq(src, k.j + 1, k.i), CharAt(src, k.i))
    BY <2>2, <2>4
  <2>7. k.i = Len(src) + 1 => Ignorable(SubSeq(src, k.j + 1, Len(src)))
    BY <2>2, <2>5
  <2>8. k.j <= k.i /\ k.i <= Len(src) + 1 /\ k.j <= Len(src)
    BY <2>2, <2>a
  <2> QED BY <1>a, <2>2, <2>3, <2>6, <2>7, <2>8 DEF LexInv, k
<1>11. CASE ~(n = 0 \/ r.err) /\ r.token # "none"
  <2> DEFINE e == IF r.unwind THEN l.i ELSE l.i + 1
             tok == [kind |-> r.token, text |-> SubSeq(src, l.j + 1, e)]
             more == Append(l.tokens, tok)
  <2>0. /\ Fits(r, text, ch) /\ r.next = "init" /\ "init" \in States /\ r.unwind \in BOOLEAN
        /\ r.token \in TokenKinds
    BY <1>7, <1>11 DEF Fits, States
  <2>1. k = [l EXCEPT !.state = "init", !.i = e, !.j = e, !.tokens = more]
    <3>1. TokenEnd(l, r) = e
      BY DEF TokenEnd
    <3>2. k = [l EXCEPT !.state = r.next, !.i = e, !.j = TokenEnd(l, r),
                        !.tokens = Append(l.tokens,
                                          [kind |-> r.token,
                                           text |-> SubSeq(src, l.j + 1, TokenEnd(l, r))])]
      BY <1>8, <1>11
    <3> HIDE DEF e
    <3> QED BY <2>0, <3>1, <3>2
  <2>2. e \in l.j .. L /\ e \in Nat /\ Lexeme(tok)
    <3>1. CASE r.unwind
      BY <1>3, <1>11, <2>0, <3>1 DEF Fits
    <3>2. CASE ~r.unwind
      <4>1. ch # "nul" /\ Lexeme([kind |-> r.token, text |-> Append(text, ch)])
        BY <1>11, <2>0, <3>2 DEF Fits
      <4>2. l.i < L /\ e = l.i + 1
        BY <1>3, <1>4, <3>2, <4>1
      <4>3. Append(text, ch) = SubSeq(src, l.j + 1, e)
        BY <1>4, <4>2
      <4>4. e \in l.j .. L /\ e \in Nat
        BY <1>3, <4>2
      <4> HIDE DEF text, ch, e
      <4> QED BY <4>1, <4>3, <4>4
    <3> QED BY <3>1, <3>2
  <2> HIDE DEF e
  <2>3. /\ more \in Seq(Token) /\ \A m \in DOMAIN more : Lexeme(more[m])
        /\ Flat(more) = SubSeq(src, 1, e)
    <3>1. tok = [kind |-> r.token, text |-> SubSeq(src, l.j + 1, e)]
      OBVIOUS
    <3>2. Lexeme(tok) /\ l.j \in 0 .. Len(src) /\ e \in l.j .. Len(src)
      BY <1>3, <2>2
    <3>3. TokensTile(src, l.tokens, l.j)
      BY <1>2, <1>a DEF TokensTile
    <3> HIDE DEF tok
    <3>4. TokensTile(src, Append(l.tokens, tok), e)
      BY <1>4, <2>0, <3>1, <3>2, <3>3, TokenTaken
    <3> QED BY <3>4 DEF TokensTile
  <2> HIDE DEF tok, more
  <2>c. Excepted(k, "init", e, e, more)
    BY <1>1, <2>0, <2>1, <2>2, <2>3 DEF Lexings, Excepted
  <2>4. k.state = "init" /\ k.i = e /\ k.j = e /\ k.tokens = more
    BY <2>c DEF Excepted
  <2>5. k \in Lexings(States, Seq(Token))
    BY <1>1, <2>0, <2>1, <2>2, <2>3, MoreExcepts
  <2>6. SubSeq(src, e + 1, e) = <<>>
    BY <2>2, SubSeqEmpty
  <2>7. Pending("init", <<>>, CharAt(src, e))
    BY DEF Pending
  <2>8. k.i <= Len(src) => Pending(k.state, SubSeq(src, k.j + 1, k.i), CharAt(src, k.i))
    BY <2>4, <2>6, <2>7
  <2>9. k.j <= k.i /\ k.i <= Len(src) + 1 /\ k.j <= Len(src) /\ k.i # Len(src) + 1
    BY <1>3, <2>2, <2>4
  <2> QED BY <2>3, <2>4, <2>5, <2>8, <2>9 DEF LexInv, k
<1> QED BY <1>9, <1>10, <1>11

(* It holds before the first step.                                          *)
LEMMA LexInvInit ==
  ASSUME NEW src \in Seq(Chars \ {"nul"})
  PROVE  LexInv(src, NewLexing)
<1>1. NewLexing \in Lexings(States, Seq(Token))
  BY DEF NewLexing, States, Lexings
<1>2. NewLexing.i = 0 /\ NewLexing.j = 0 /\ NewLexing.tokens = <<>> /\ NewLexing.state = "init"
  BY DEF NewLexing
<1>3. Len(src) \in Nat
  BY LenProperties
<1>4. SubSeq(src, 1, 0) = <<>>
  BY SubSeqEmpty
<1>5. Flat(<<>>) = <<>>
  <2>1. [n \in DOMAIN <<>> |-> <<>>[n].text] = <<>>
    OBVIOUS
  <2>2. FlattenSeq(<<>>) = <<>>
    BY Zenon DEF FlattenSeq
  <2> QED BY <2>1, <2>2 DEF Flat
<1>6. Pending("init", <<>>, CharAt(src, 0))
  BY DEF Pending
<1>7. \A m \in DOMAIN NewLexing.tokens : Lexeme(NewLexing.tokens[m])
  BY <1>2
<1>8. NewLexing.i # Len(src) + 1 /\ NewLexing.j + 1 = 1
  BY <1>2, <1>3
<1>9. NewLexing.j <= NewLexing.i /\ NewLexing.i <= Len(src) + 1 /\ NewLexing.j <= Len(src)
  BY <1>2, <1>3
<1>10. Flat(NewLexing.tokens) = SubSeq(src, 1, NewLexing.j)
  BY <1>2, <1>4, <1>5
<1>11. Pending(NewLexing.state, SubSeq(src, NewLexing.j + 1, NewLexing.i),
               CharAt(src, NewLexing.i))
  BY <1>2, <1>4, <1>6, <1>8
<1> QED BY <1>1, <1>7, <1>8, <1>9, <1>10, <1>11 DEF LexInv

-----------------------------------------------------------------------------
(* The tokens that the parser is given.                                     *)

Kept(tokens, tok) ==
    IF Keyword(tok) = "comment" THEN tokens ELSE Append(tokens, [tok EXCEPT !.kind = Keyword(tok)])

(* A keyword is a kind of token.                                            *)
LEMMA KeywordKinds ==
  ASSUME NEW tok \in Token
  PROVE  Keyword(tok) \in TokenKinds
<1>1. tok.kind \in TokenKinds
  BY DEF Token
<1>2. "false" \in TokenKinds /\ "true" \in TokenKinds
  BY DEF TokenKinds
<1>3. Keyword(tok) \in {"false", "true", tok.kind}
  BY DEF Keyword
<1> QED BY <1>1, <1>2, <1>3

(* The loop keeps tokens.                                                   *)
LEMMA KeptIsToken ==
  ASSUME NEW tok \in Token, NEW tokens \in Seq(Token)
  PROVE  Kept(tokens, tok) \in Seq(Token)
<1>1. [tok EXCEPT !.kind = Keyword(tok)] \in Token
  BY KeywordKinds DEF Token
<1>2. Append(tokens, [tok EXCEPT !.kind = Keyword(tok)]) \in Seq(Token)
  BY <1>1, AppendProperties
<1> QED BY <1>2 DEF Kept

(* What the parser is given is tokens.                                      *)
LEMMA TokensType ==
  ASSUME NEW l, l.tokens \in Seq(Token)
  PROVE  Tokens(l) \in Seq(Token)
<1> DEFINE L == Len(l.tokens)
           S == Seq(Token)
           Body(x, i) == LET tok == [l.tokens[i] EXCEPT !.kind = Keyword(l.tokens[i])]
                         IN  IF tok.kind = "comment" THEN x ELSE Append(x, tok)
           base == <<>>
           Is(f) == f = [i \in 0 .. L |-> IF i = 0 THEN base ELSE Body(f[i - 1], i)]
           made == CHOOSE f : Is(f)
           step == [i \in 1 .. L |-> [x \in S |-> Body(x, i)]]
<1>1. L \in Nat /\ \A i \in 1 .. L : l.tokens[i] \in Token
  BY LenProperties, ElementOfSeq
<1>2. base \in S
  OBVIOUS
<1>3. \A i \in 1 .. L, x \in S : Body(x, i) \in S
  <2> TAKE i \in 1 .. L, x \in S
  <2> DEFINE tok == l.tokens[i]
  <2>1. tok \in Token
    BY <1>1
  <2>2. Kept(x, tok) \in S
    BY <2>1, KeptIsToken
  <2>3. [tok EXCEPT !.kind = Keyword(tok)].kind = Keyword(tok)
    BY <2>1 DEF Token
  <2> QED BY <2>2, <2>3 DEF Kept
<1>4. Tokens(l) = made[L]
  BY Zenon DEF Tokens
<1> HIDE DEF S, Body, base, L
<1>5. step \in [1 .. L -> [S -> S]]
  BY <1>3
<1>6. PICK h \in [0 .. L -> S] : Built(h, base, step, L)
  BY <1>1, <1>2, <1>5, StepByStep
<1>7. Is(h)
  <2>1. \A i \in 1 .. L : h[i - 1] \in S
    BY <1>1
  <2>2. \A i \in 1 .. L : h[i] = Body(h[i - 1], i)
    BY <1>6, <2>1 DEF Built
  <2>3. \A i \in 0 .. L : h[i] = IF i = 0 THEN base ELSE Body(h[i - 1], i)
    BY <1>1, <1>6, <2>2 DEF Built
  <2>4. h = [i \in 0 .. L |-> h[i]]
    OBVIOUS
  <2> QED BY <2>3, <2>4
<1>8. Is(made)
  <2> HIDE DEF Is
  <2> QED BY <1>7
<1> HIDE DEF made
<1>9. made[0] = base /\ \A i \in 1 .. L : made[i] = Body(made[i - 1], i)
  BY <1>1, <1>8
<1> DEFINE Typed == {k \in 0 .. L : made[k] \in S}
<1>10. 0 \in Typed
  BY <1>1, <1>2, <1>9
<1>11. \A i \in 1 .. L : i - 1 \in Typed => i \in Typed
  BY <1>1, <1>3, <1>9
<1>12. L \in Typed
  <2> HIDE DEF Typed
  <2>1. \A i \in 0 .. L : i \in Typed
    BY <1>1, <1>10, <1>11, UpTo
  <2> QED BY <1>1, <2>1
<1> QED BY <1>4, <1>12 DEF S

-----------------------------------------------------------------------------
(* The lexer.                                                               *)

LexOK == doc \in Documents /\ LexInv(doc.text, lexing)

(* The lexer's invariant holds on every text.                               *)
LEMMA LexOKHolds == Spec => []LexOK
<1>1. Init => LexOK
  BY LexInvInit, DocumentsAssumption DEF Init, LexOK
<1>2. LexOK /\ [Next]_vars => LexOK'
  <2> SUFFICES ASSUME LexOK, [Next]_vars PROVE LexOK'
    OBVIOUS
  <2>1. CASE UNCHANGED <<doc, lexing>>
    BY <2>1 DEF LexOK
  <2>2. CASE Lex
    <3>1. doc' = doc /\ lexing' = LexStep(doc.text, lexing) /\ ~LexDone(doc.text, lexing)
      BY <2>2 DEF Lex, Unloaded
    <3>2. doc.text \in Seq(Chars \ {"nul"})
      BY DocumentsAssumption DEF LexOK
    <3>3. LexInv(doc.text, LexStep(doc.text, lexing))
      BY <3>1, <3>2, LexStepKeeps DEF LexOK
    <3> QED BY <3>1, <3>3 DEF LexOK
  <2>3. CASE Unreadable \/ Open \/ Lexed \/ Parse \/ Gen
    BY <2>1, <2>3 DEF Unreadable, Open, Lexed, Parse, Gen, Unloaded
  <2>4. CASE Load \/ Serve \/ OtherProgram \/ UNCHANGED vars
    BY <2>1, <2>4 DEF Load, Serve, OtherProgram, vars
  <2> QED BY <2>2, <2>3, <2>4 DEF Next, Steps
<1> QED BY <1>1, <1>2, PTL DEF Spec

(* The tokens tile the text, whatever the text is.                          *)
THEOREM TilesHolds == Spec => []Tiles
<1>1. LexOK => Tiles
  <2> SUFFICES ASSUME LexOK PROVE Tiles
    OBVIOUS
  <2>1. \A n \in DOMAIN lexing.tokens : Lexeme(lexing.tokens[n])
    BY DEF LexOK, LexInv
  <2>2. Flat(lexing.tokens) = SubSeq(doc.text, 1, lexing.j)
    BY DEF LexOK, LexInv
  <2>3. LexDone(doc.text, lexing) /\ ~lexing.failed => lexing.i = Len(doc.text) + 1
    BY DEF LexDone
  <2>4. LexDone(doc.text, lexing) /\ ~lexing.failed
           => Ignorable(SubSeq(doc.text, lexing.j + 1, Len(doc.text)))
    BY <2>3 DEF LexOK, LexInv
  <2> QED BY <2>1, <2>2, <2>4 DEF Tiles, Flat
<1> QED BY <1>1, LexOKHolds, PTL

-----------------------------------------------------------------------------
(* The objects form a tree in which every object has a path.                *)

HashNat == \A k \in Str : Hash(k) \in Nat

Tabs == UNION {[D -> [key : Str, val : Nat]] : D \in SUBSET (0 .. TABLE_INIT_BUF - 1)}
Tables == [tab : Tabs, size : {0}, cap : {TABLE_INIT_BUF}]

(* Objects with values in V.                                                *)
Objects(V) == [value : V, table : Tables]

Holds(heap, i, s, k) == s \in DOMAIN heap[i].table.tab /\ heap[i].table.tab[s].val = k

(* The paths of the objects.                                                *)
Named(heap, P) ==
    /\ P \in [1 .. Len(heap) -> Seq(Str)] /\ P[1] = <<>>
    /\ \A i \in 1 .. Len(heap) : \A s \in DOMAIN heap[i].table.tab :
          P[heap[i].table.tab[s].val] = Append(P[i], heap[i].table.tab[s].key)
    /\ \A i, j \in 1 .. Len(heap) : P[i] = P[j] => i = j

Tree(heap, P) ==
    /\ Len(heap) >= 1 /\ heap[1].value = TableValue
    /\ \A i \in 1 .. Len(heap) : Reachable(heap[i].table)
    /\ \A i \in 1 .. Len(heap) : DOMAIN heap[i].table.tab # {} => heap[i].value = TableValue
    /\ \A i \in 1 .. Len(heap) : \A s \in DOMAIN heap[i].table.tab :
          heap[i].table.tab[s].val \in i + 1 .. Len(heap)
    /\ \A k \in 2 .. Len(heap) : \E i \in 1 .. k - 1 : \E s : Holds(heap, i, s, k)
    /\ Named(heap, P)

(* Objects are added, and names to the tables there were.                   *)
Grows(heap, P, more, Q) ==
    /\ Len(heap) <= Len(more)
    /\ \A i \in 1 .. Len(heap) :
          /\ Q[i] = P[i] /\ more[i].value = heap[i].value
          /\ \A s \in DOMAIN heap[i].table.tab :
                /\ s \in DOMAIN more[i].table.tab
                /\ more[i].table.tab[s] = heap[i].table.tab[s]

(* A table of an object is a hash table with TABLE_INIT_BUF slots.          *)
LEMMA TablesAre ==
  ASSUME NEW t \in Tables
  PROVE  /\ IsHashTable(t) /\ t.tab \in [DOMAIN t.tab -> [key : Str, val : Nat]]
         /\ Slots(t) = 0 .. TABLE_INIT_BUF - 1 /\ DOMAIN t.tab \subseteq Slots(t)
<1>1. TABLE_INIT_BUF \in Nat \ {0}
  BY PowerOfTwo
<1>2. PICK D \in SUBSET (0 .. TABLE_INIT_BUF - 1) : t.tab \in [D -> [key : Str, val : Nat]]
  BY DEF Tables, Tabs
<1>3. DOMAIN t.tab = D
  BY <1>2
<1>4. t = [tab |-> t.tab, size |-> t.size, cap |-> t.cap] /\ t.size = 0 /\ t.cap = TABLE_INIT_BUF
  BY DEF Tables
<1> QED BY <1>1, <1>2, <1>3, <1>4 DEF IsHashTable, Slots

(* So is a new one, with nothing in it.                                     *)
LEMMA NewTableType == NewTable \in Tables /\ DOMAIN NewTable.tab = {}
<1>1. [i \in {} |-> NULL] \in Tabs
  <2>1. [i \in {} |-> NULL] \in [{} -> [key : Str, val : Nat]]
    OBVIOUS
  <2>2. {} \in SUBSET (0 .. TABLE_INIT_BUF - 1)
    OBVIOUS
  <2> QED BY <2>1, <2>2 DEF Tabs
<1> QED BY <1>1 DEF NewTable, Tables

(* What a lookup finds is stored under the name.                            *)
LEMMA LookupIs ==
  ASSUME NEW t \in Tables, Reachable(t), NEW name,
         \A s \in DOMAIN t.tab : t.tab[s].val # NULL
  PROVE  /\ Lookup(t, name) # NULL =>
               /\ Find(t, name) \in DOMAIN t.tab
               /\ t.tab[Find(t, name)] = [key |-> name, val |-> Lookup(t, name)]
         /\ \A s \in DOMAIN t.tab : t.tab[s].key = name => Lookup(t, name) = t.tab[s].val
         /\ Lookup(t, name) = NULL => \A s \in DOMAIN t.tab : t.tab[s].key # name
<1>1. \A s \in DOMAIN t.tab : t.tab[s] = [key |-> t.tab[s].key, val |-> t.tab[s].val]
  BY TablesAre
<1>2. ASSUME Lookup(t, name) # NULL
      PROVE  /\ Find(t, name) \in DOMAIN t.tab
             /\ t.tab[Find(t, name)] = [key |-> name, val |-> Lookup(t, name)]
  <2>1. Found(t, name) /\ Find(t, name) \in DOMAIN t.tab /\ Lookup(t, name) = t.tab[Find(t, name)].val
    BY <1>2 DEF Lookup
  <2>2. t.cap \in Nat
    BY TablesAre DEF IsHashTable
  <2>3. PICK j \in Stops(t, name) : Find(t, name) = Probe(t, name, j)
    BY <2>1, <2>2, FirstStop
  <2>4. t.tab[Find(t, name)].key = name
    BY <2>1, <2>3 DEF Stops
  <2> QED BY <1>1, <2>1, <2>4
<1>3. ASSUME NEW s \in DOMAIN t.tab, t.tab[s].key = name PROVE Lookup(t, name) = t.tab[s].val
  <2>1. Found(t, name) /\ Find(t, name) = s
    BY <1>3 DEF Reachable
  <2> QED BY <2>1 DEF Lookup
<1> QED BY <1>2, <1>3

(* A new name is stored in a slot of its own.                               *)
LEMMA InsertType ==
  ASSUME HashNat, NEW t \in Tables, Reachable(t), NEW name \in Str, NEW id \in Nat,
         \A s \in DOMAIN t.tab : t.tab[s].val # NULL,
         Insertable(t, name), Lookup(t, name) = NULL, NEW u, u = Insert(t, name, id)
  PROVE  /\ u \in Tables /\ Reachable(u)
         /\ \E f : /\ f \notin DOMAIN t.tab /\ DOMAIN u.tab = DOMAIN t.tab \cup {f}
                   /\ u.tab[f] = [key |-> name, val |-> id]
                   /\ \A s \in DOMAIN t.tab : u.tab[s] = t.tab[s]
<1> DEFINE f == Find(t, name)
<1>1. IsHashTable(t) /\ Hash(name) \in Nat
  BY TablesAre DEF HashNat
<1>2. /\ u = [tab |-> u.tab, size |-> u.size, cap |-> u.cap]
      /\ u.size = t.size /\ u.cap = t.cap
      /\ DOMAIN u.tab = DOMAIN t.tab \cup {f}
      /\ u.tab[f] = [key |-> name, val |-> id]
      /\ \A n \in DOMAIN t.tab \ {f} : u.tab[n] = t.tab[n]
  BY <1>1, Inserted
<1>3. Found(t, name)
  BY <1>1 DEF Insertable, Grown, IsHashTable
<1>4. f \notin DOMAIN t.tab
  BY <1>3 DEF Lookup
<1>5. Reachable(u)
  BY <1>1, InsertKeepsReachable
<1>6. IsHashTable(u)
  BY <1>1, NeverGrows
<1>7. u.tab \in Tabs
  <2>1. DOMAIN u.tab \in SUBSET (0 .. TABLE_INIT_BUF - 1)
    <3>1. DOMAIN u.tab \subseteq 0 .. u.cap - 1
      BY <1>6 DEF IsHashTable, Slots
    <3>2. u.cap = TABLE_INIT_BUF
      BY <1>2 DEF Tables
    <3> QED BY <3>1, <3>2
  <2>2. \A s \in DOMAIN u.tab : u.tab[s] \in [key : Str, val : Nat]
    <3>1. u.tab[f] \in [key : Str, val : Nat]
      BY <1>2
    <3>2. \A s \in DOMAIN t.tab : t.tab[s] \in [key : Str, val : Nat]
      BY TablesAre
    <3> HIDE DEF f
    <3> QED BY <1>2, <3>1, <3>2
  <2>3. PICK h : h = u.tab
    OBVIOUS
  <2>4. h = [s \in DOMAIN h |-> h[s]]
    <3>1. u = Put(Grown(t), name, id)
      BY DEF Insert
    <3>2. Grown(t) = t
      BY <1>1 DEF Grown, IsHashTable
    <3>3. u = [t EXCEPT !.tab = [i \in DOMAIN t.tab \cup {Find(t, name)} |->
                          IF i = Find(t, name) THEN [key |-> name, val |-> id]
                          ELSE t.tab[i]]]
      BY <3>1, <3>2 DEF Put
    <3>4. u.tab = [i \in DOMAIN t.tab \cup {Find(t, name)} |->
                          IF i = Find(t, name) THEN [key |-> name, val |-> id]
                          ELSE t.tab[i]]
      BY <3>3 DEF Tables
    <3> QED BY <2>3, <3>4
  <2>5. h \in [DOMAIN h -> [key : Str, val : Nat]]
    BY <2>2, <2>3, <2>4
  <2> QED BY <2>1, <2>3, <2>5 DEF Tabs
<1>8. u \in Tables
  <2>1. t.size = 0 /\ t.cap = TABLE_INIT_BUF
    BY DEF Tables
  <2>2. PICK h : h = u.tab
    OBVIOUS
  <2>3. u = [tab |-> h, size |-> 0, cap |-> TABLE_INIT_BUF]
    BY <1>2, <2>1, <2>2
  <2> QED BY <1>7, <2>2, <2>3 DEF Tables
<1> QED BY <1>2, <1>4, <1>5, <1>8

(* The objects with one more, stored under a name in a table.               *)
With(heap, at, name, value) ==
    Append([heap EXCEPT ![at].table = Insert(heap[at].table, name, Len(heap) + 1)], Object(value))

Further(P, n, path) == [i \in 1 .. n + 1 |-> IF i <= n THEN P[i] ELSE path]

(* What a tree is made of; no table leads to NULL.                          *)
LEMMA TreeFacts ==
  ASSUME NEW V, NEW heap \in Seq(Objects(V)), NEW P, Tree(heap, P)
  PROVE  /\ Len(heap) \in Nat /\ DOMAIN heap = 1 .. Len(heap)
         /\ \A i \in 1 .. Len(heap) :
               /\ heap[i] \in Objects(V) /\ heap[i].table \in Tables /\ heap[i].value \in V
               /\ \A s \in DOMAIN heap[i].table.tab : heap[i].table.tab[s].val # NULL
<1>1. Len(heap) \in Nat /\ DOMAIN heap = 1 .. Len(heap)
  BY LenProperties
<1>2. \A i \in 1 .. Len(heap) : heap[i] \in Objects(V)
  BY ElementOfSeq
<1>3. \A i \in 1 .. Len(heap) : heap[i].table \in Tables /\ heap[i].value \in V
  BY <1>2 DEF Objects
<1>4. ASSUME NEW i \in 1 .. Len(heap), NEW s \in DOMAIN heap[i].table.tab
      PROVE heap[i].table.tab[s].val # NULL
  <2>1. heap[i].table.tab[s].val \in i + 1 .. Len(heap)
    BY DEF Tree
  <2>2. heap[i].table.tab[s].val \in Nat \ {0}
    BY <1>1, <2>1
  <2> QED BY <2>2, NullAssumption
<1> QED BY <1>1, <1>2, <1>3, <1>4

(* What storing an object does to the heap.                                 *)
Stores(heap, at, name, value, more) ==
    /\ Len(more) = Len(heap) + 1
    /\ \A i \in 1 .. Len(heap) : i # at => more[i] = heap[i]
    /\ more[Len(heap) + 1] = Object(value)
    /\ more[at].value = heap[at].value
    /\ \E f : /\ f \notin DOMAIN heap[at].table.tab
              /\ DOMAIN more[at].table.tab = DOMAIN heap[at].table.tab \cup {f}
              /\ more[at].table.tab[f] = [key |-> name, val |-> Len(heap) + 1]
              /\ \A s \in DOMAIN heap[at].table.tab :
                    more[at].table.tab[s] = heap[at].table.tab[s]

(* Storing an object changes one slot of one table.                         *)
LEMMA WithIs ==
  ASSUME HashNat, NEW V, NEW heap \in Seq(Objects(V)), NEW P, Tree(heap, P),
         NEW at \in 1 .. Len(heap), NEW name \in Str, NEW value \in V,
         Lookup(heap[at].table, name) = NULL, Insertable(heap[at].table, name),
         NEW more, more = With(heap, at, name, value)
  PROVE  /\ more \in Seq(Objects(V)) /\ Stores(heap, at, name, value, more)
         /\ \A i \in 1 .. Len(more) : Reachable(more[i].table)
<1> DEFINE L == Len(heap)
           t == heap[at].table
           u == Insert(t, name, L + 1)
           mid == [heap EXCEPT ![at].table = u]
<1>1. /\ L \in Nat /\ DOMAIN heap = 1 .. L
      /\ \A i \in 1 .. L : heap[i] \in Objects(V)
      /\ t \in Tables /\ \A s \in DOMAIN t.tab : t.tab[s].val # NULL
  BY TreeFacts
<1>2. Reachable(t)
  BY DEF Tree
<1>3. L + 1 \in Nat
  BY <1>1
<1>4. /\ u \in Tables /\ Reachable(u)
      /\ \E f : /\ f \notin DOMAIN t.tab /\ DOMAIN u.tab = DOMAIN t.tab \cup {f}
                /\ u.tab[f] = [key |-> name, val |-> L + 1]
                /\ \A s \in DOMAIN t.tab : u.tab[s] = t.tab[s]
  BY <1>1, <1>2, <1>3, InsertType
<1> HIDE DEF u
<1>5. [heap[at] EXCEPT !.table = u] \in Objects(V)
  BY <1>1, <1>4 DEF Objects
<1>6. mid \in Seq(Objects(V)) /\ Len(mid) = L
  <2>1. heap \in [1 .. L -> Objects(V)]
    BY <1>1
  <2>2. mid = [heap EXCEPT ![at] = [heap[at] EXCEPT !.table = u]]
    OBVIOUS
  <2>3. mid \in [1 .. L -> Objects(V)]
    BY <1>5, <2>1, <2>2
  <2> HIDE DEF mid
  <2> QED BY <1>1, <2>3
<1>7. mid[at].table = u /\ mid[at].value = heap[at].value
  <2>1. heap[at] \in Objects(V)
    BY <1>1
  <2>2. mid[at] = [heap[at] EXCEPT !.table = u]
    BY <1>1
  <2> HIDE DEF mid
  <2> QED BY <2>1, <2>2 DEF Objects
<1>8. \A i \in 1 .. L : i # at => mid[i] = heap[i]
  BY <1>1
<1> HIDE DEF mid
<1>9. Object(value) \in Objects(V) /\ Object(value).table = NewTable
  BY NewTableType DEF Objects, Object
<1>10. more = Append(mid, Object(value))
  BY DEF With, mid, u
<1>11. /\ more \in Seq(Objects(V)) /\ Len(more) = L + 1 /\ more[L + 1] = Object(value)
       /\ \A i \in 1 .. L : more[i] = mid[i]
  BY <1>6, <1>9, <1>10, AppendProperties
<1>12. more[at] = mid[at]
  BY <1>11
<1>13. Stores(heap, at, name, value, more)
  BY <1>4, <1>7, <1>8, <1>11, <1>12 DEF Stores
<1>14. ASSUME NEW i \in 1 .. Len(more) PROVE Reachable(more[i].table)
  <2>1. CASE i = at
    BY <1>4, <1>7, <1>12, <2>1
  <2>2. CASE i = L + 1
    BY <1>9, <1>11, <2>2, EmptyTable
  <2>3. CASE i \in 1 .. L /\ i # at
    <3>1. more[i] = heap[i]
      BY <1>8, <1>11, <2>3
    <3> QED BY <2>3, <3>1 DEF Tree
  <2> QED BY <1>1, <1>11, <2>1, <2>2, <2>3
<1> QED BY <1>11, <1>13, <1>14

(* Every object of a tree is stored in one place.                           *)
LEMMA OnePlace ==
  ASSUME NEW V, NEW heap \in Seq(Objects(V)), NEW P, Tree(heap, P),
         NEW i \in 1 .. Len(heap), NEW s \in DOMAIN heap[i].table.tab,
         NEW j \in 1 .. Len(heap), NEW r \in DOMAIN heap[j].table.tab,
         heap[i].table.tab[s].val = heap[j].table.tab[r].val
  PROVE  i = j /\ s = r
<1>1. P \in [1 .. Len(heap) -> Seq(Str)]
  BY DEF Tree, Named
<1>2. /\ heap[i].table.tab[s].key \in Str /\ heap[j].table.tab[r].key \in Str
  <2>1. heap[i].table \in Tables /\ heap[j].table \in Tables
    BY TreeFacts
  <2>2. heap[i].table.tab[s] \in [key : Str, val : Nat] /\ heap[j].table.tab[r] \in [key : Str, val : Nat]
    BY Zenon, <2>1, TablesAre
  <2> QED BY <2>2
<1>3. Append(P[i], heap[i].table.tab[s].key) = Append(P[j], heap[j].table.tab[r].key)
  <2>1. P[heap[i].table.tab[s].val] = Append(P[i], heap[i].table.tab[s].key)
    BY Zenon DEF Tree, Named
  <2>2. P[heap[j].table.tab[r].val] = Append(P[j], heap[j].table.tab[r].key)
    BY Zenon DEF Tree, Named
  <2> QED BY Zenon, <2>1, <2>2
<1>4. P[i] = P[j] /\ heap[i].table.tab[s].key = heap[j].table.tab[r].key
  <2>1. P[i] \in Seq(Str) /\ P[j] \in Seq(Str)
    BY <1>1
  <2> DEFINE a == P[i]
             b == P[j]
             x == heap[i].table.tab[s].key
             y == heap[j].table.tab[r].key
  <2>2. a \in Seq(Str) /\ b \in Seq(Str) /\ x \in Str /\ y \in Str /\ Append(a, x) = Append(b, y)
    BY <1>2, <1>3, <2>1
  <2> SUFFICES a = b /\ x = y
    BY Zenon
  <2> HIDE DEF a, b, x, y
  <2> QED BY <2>2, AppendInjective
<1>5. i = j
  BY Zenon, <1>4 DEF Tree, Named
<1>6. Reachable(heap[i].table)
  BY DEF Tree
<1> QED BY <1>4, <1>5, <1>6 DEF Reachable

(* Storing an object under a new name leaves a tree, which has grown.       *)
LEMMA TreeGrows ==
  ASSUME HashNat, NEW V, NEW heap \in Seq(Objects(V)), NEW P, Tree(heap, P),
         NEW at \in 1 .. Len(heap), NEW name \in Str, NEW value \in V,
         heap[at].value = TableValue,
         Lookup(heap[at].table, name) = NULL, Insertable(heap[at].table, name),
         NEW more, more = With(heap, at, name, value),
         NEW Q, Q = Further(P, Len(heap), Append(P[at], name))
  PROVE  more \in Seq(Objects(V)) /\ Tree(more, Q) /\ Grows(heap, P, more, Q)
<1> DEFINE L == Len(heap)
           p == Append(P[at], name)
<1>1. /\ more \in Seq(Objects(V)) /\ Stores(heap, at, name, value, more)
      /\ \A i \in 1 .. Len(more) : Reachable(more[i].table)
  BY WithIs
<1>2. /\ Len(more) = L + 1 /\ L \in Nat /\ L >= 1
      /\ \A i \in 1 .. L : i # at => more[i] = heap[i]
      /\ more[L + 1] = Object(value) /\ more[at].value = heap[at].value
  BY <1>1, TreeFacts DEF Stores, Tree
<1>3. PICK f : /\ f \notin DOMAIN heap[at].table.tab
               /\ DOMAIN more[at].table.tab = DOMAIN heap[at].table.tab \cup {f}
               /\ more[at].table.tab[f] = [key |-> name, val |-> L + 1]
               /\ \A s \in DOMAIN heap[at].table.tab :
                     more[at].table.tab[s] = heap[at].table.tab[s]
  BY <1>1 DEF Stores
<1>4. P \in [1 .. L -> Seq(Str)] /\ P[1] = <<>>
  BY DEF Tree, Named
<1>5. p \in Seq(Str)
  <2>1. P[at] \in Seq(Str)
    BY <1>4
  <2> QED BY <2>1, AppendProperties
<1>6. /\ \A i \in 1 .. L : Q[i] = P[i]
      /\ Q[L + 1] = p /\ Q \in [1 .. L + 1 -> Seq(Str)]
  BY <1>2, <1>4, <1>5 DEF Further
<1>7. DOMAIN more[L + 1].table.tab = {}
  BY <1>2, NewTableType DEF Object
<1>8. ASSUME NEW i \in 1 .. L, NEW s \in DOMAIN heap[i].table.tab
      PROVE  /\ s \in DOMAIN more[i].table.tab
             /\ more[i].table.tab[s] = heap[i].table.tab[s]
  BY <1>2, <1>3
<1>9. ASSUME NEW i \in 1 .. L + 1, NEW s \in DOMAIN more[i].table.tab
      PROVE  \/ i = at /\ s = f
             \/ /\ i \in 1 .. L /\ s \in DOMAIN heap[i].table.tab
                /\ more[i].table.tab[s] = heap[i].table.tab[s]
  BY <1>2, <1>3, <1>7
<1>10. Grows(heap, P, more, Q)
  <2>1. \A i \in 1 .. L : more[i].value = heap[i].value
    BY <1>2
  <2> QED BY SMTT(30), <1>2, <1>6, <1>8, <2>1 DEF Grows
<1>11. \A i \in 1 .. L + 1 : \A s \in DOMAIN more[i].table.tab :
          /\ more[i].table.tab[s].val \in i + 1 .. L + 1
          /\ Q[more[i].table.tab[s].val] = Append(Q[i], more[i].table.tab[s].key)
  <2> TAKE i \in 1 .. L + 1
  <2> TAKE s \in DOMAIN more[i].table.tab
  <2>1. CASE i = at /\ s = f
    <3>1. more[i].table.tab[s] = [key |-> name, val |-> L + 1]
      BY <1>3, <2>1
    <3>2. at + 1 <= L + 1 /\ Q[at] = P[at]
      BY <1>2, <1>6
    <3> QED BY <1>2, <1>6, <2>1, <3>1, <3>2
  <2>2. CASE /\ i \in 1 .. L /\ s \in DOMAIN heap[i].table.tab
             /\ more[i].table.tab[s] = heap[i].table.tab[s]
    <3> DEFINE x == heap[i].table.tab[s]
    <3>1. x.val \in i + 1 .. L /\ P[x.val] = Append(P[i], x.key)
      BY Zenon, <2>2 DEF Tree, Named
    <3>3. more[i].table.tab[s] = x
      BY <2>2
    <3> HIDE DEF x
    <3>4. x.val \in 1 .. L
      BY <1>2, <2>2, <3>1
    <3>2. Q[i] = P[i] /\ Q[x.val] = P[x.val]
      BY <1>6, <2>2, <3>4
    <3> QED BY SMTT(30), <1>2, <3>1, <3>2, <3>3
  <2> QED BY Zenon, <1>9, <2>1, <2>2
<1>12. \A k \in 2 .. L + 1 : \E i \in 1 .. k - 1 : \E s : Holds(more, i, s, k)
  <2> TAKE k \in 2 .. L + 1
  <2>1. CASE k = L + 1
    <3>1. Holds(more, at, f, k)
      BY <1>3, <2>1 DEF Holds
    <3>2. at \in 1 .. k - 1
      BY <1>2, <2>1
    <3> QED BY <3>1, <3>2
  <2>2. CASE k \in 2 .. L
    <3>1. PICK i \in 1 .. k - 1 : \E s : Holds(heap, i, s, k)
      BY <2>2 DEF Tree
    <3>2. PICK s : Holds(heap, i, s, k)
      BY <3>1
    <3>3. i \in 1 .. L
      BY <1>2, <2>2
    <3>4. Holds(more, i, s, k)
      BY <1>8, <3>2, <3>3 DEF Holds
    <3> QED BY <3>4
  <2> QED BY <1>2, <2>1, <2>2
<1>13. \A i \in 1 .. L + 1 : DOMAIN more[i].table.tab # {} => more[i].value = TableValue
  <2> TAKE i \in 1 .. L + 1
  <2>1. CASE i = at
    BY <1>2, <2>1
  <2>2. CASE i = L + 1
    BY <1>7, <2>2
  <2>3. CASE i \in 1 .. L /\ i # at
    <3>1. more[i] = heap[i]
      BY <1>2, <2>3
    <3> QED BY <2>3, <3>1 DEF Tree
  <2> QED BY <1>2, <2>1, <2>2, <2>3
<1>14. ASSUME NEW k \in 1 .. L, P[k] = p PROVE FALSE
  <2>1. k # 1
    <3>1. p # <<>>
      <4>1. P[at] \in Seq(Str)
        BY <1>4
      <4> QED BY <4>1, AppendProperties
    <3> QED BY <1>4, <1>14, <3>1
  <2>2. k \in 2 .. L
    BY <1>2, <2>1
  <2>3. PICK i \in 1 .. k - 1 : \E s : Holds(heap, i, s, k)
    BY <2>2 DEF Tree
  <2>4. PICK s : Holds(heap, i, s, k)
    BY <2>3
  <2>5. i \in 1 .. L
    BY <1>2, <2>2
  <2> DEFINE x == heap[i].table.tab[s]
  <2>6. s \in DOMAIN heap[i].table.tab /\ x.val = k
    BY <2>4 DEF Holds
  <2>7. P[k] = Append(P[i], x.key)
    BY <2>5, <2>6 DEF Tree, Named
  <2>8. x.key \in Str
    <3>1. heap[i].table \in Tables
      BY <2>5, TreeFacts
    <3>2. heap[i].table.tab \in [DOMAIN heap[i].table.tab -> [key : Str, val : Nat]]
      BY <3>1, TablesAre
    <3> QED BY <2>6, <3>2
  <2>9. P[i] = P[at] /\ x.key = name
    <3> DEFINE a == P[i]
               b == P[at]
               y == x.key
    <3>1. a \in Seq(Str) /\ b \in Seq(Str) /\ y \in Str /\ Append(a, y) = Append(b, name)
      BY <1>4, <1>14, <2>5, <2>7, <2>8
    <3> SUFFICES a = b /\ y = name
      OBVIOUS
    <3> HIDE DEF a, b, y
    <3> QED BY <3>1, AppendInjective
  <2>10. i = at
    BY <2>5, <2>9 DEF Tree, Named
  <2>11. heap[at].table \in Tables /\ Reachable(heap[at].table)
         /\ \A r \in DOMAIN heap[at].table.tab : heap[at].table.tab[r].val # NULL
    BY TreeFacts DEF Tree
  <2>12. heap[at].table.tab[s].key # name
    BY Zenon, <2>6, <2>10, <2>11, LookupIs
  <2> QED BY <2>9, <2>10, <2>12
<1>15. \A i, j \in 1 .. L + 1 : Q[i] = Q[j] => i = j
  <2> TAKE i, j \in 1 .. L + 1
  <2>1. CASE i \in 1 .. L /\ j \in 1 .. L
    <3>1. Q[i] = P[i] /\ Q[j] = P[j]
      BY <1>6, <2>1
    <3> QED BY <2>1, <3>1 DEF Tree, Named
  <2>2. CASE i = L + 1 /\ j \in 1 .. L
    BY <1>6, <1>14, <2>2
  <2>3. CASE i \in 1 .. L /\ j = L + 1
    BY <1>6, <1>14, <2>3
  <2>4. CASE i = L + 1 /\ j = L + 1
    BY <2>4
  <2>5. (i \in 1 .. L \/ i = L + 1) /\ (j \in 1 .. L \/ j = L + 1)
    BY SMTT(30), <1>2
  <2> QED BY <2>1, <2>2, <2>3, <2>4, <2>5
<1>16. Named(more, Q)
  <2>1. Q[1] = <<>>
    BY <1>2, <1>4, <1>6
  <2>2. \A i \in 1 .. L + 1 : \A s \in DOMAIN more[i].table.tab :
           Q[more[i].table.tab[s].val] = Append(Q[i], more[i].table.tab[s].key)
    BY <1>11
  <2>3. Len(more) = L + 1
    BY <1>2
  <2> QED BY <1>6, <1>15, <2>1, <2>2, <2>3 DEF Named
<1>17. more[1].value = TableValue
  <2>1. heap[1].value = TableValue
    BY DEF Tree
  <2>2. 1 \in 1 .. L
    BY <1>2
  <2> QED BY <1>2, <2>1, <2>2
<1>18. Len(more) >= 1
  BY <1>2
<1>19. Tree(more, Q)
  BY <1>1, <1>2, <1>11, <1>12, <1>13, <1>16, <1>17, <1>18 DEF Tree
<1> QED BY <1>1, <1>10, <1>19

(* The same counting up, for values that stay in a set of their own.        *)
StaysIn(S, n, base, step, within) ==
    /\ base \in S /\ base \in within[0]
    /\ \A i \in 1 .. n : \A x \in S : x \in within[i - 1] => step[i][x] \in S \cap within[i]

(* The same, for values that each step keeps where they belong.             *)
LEMMA StepsWithin ==
  ASSUME NEW S, NEW n \in Nat, NEW base, NEW step, NEW within, StaysIn(S, n, base, step, within)
  PROVE  \E f \in [0 .. n -> S] : Built(f, base, step, n) /\ \A i \in 0 .. n : f[i] \in within[i]
<1>0. /\ base \in S /\ base \in within[0]
      /\ \A i \in 1 .. n : \A x \in S : x \in within[i - 1] => step[i][x] \in S \cap within[i]
  BY DEF StaysIn
<1> DEFINE s2 == [i \in 1 .. n |-> [x \in S |-> IF x \in within[i - 1] THEN step[i][x] ELSE base]]
<1>1. s2 \in [1 .. n -> [S -> S]]
  BY <1>0
<1>2. \A i \in 1 .. n, x \in S : x \in within[i - 1] => s2[i][x] = step[i][x]
  OBVIOUS
<1> HIDE DEF s2
<1>3. PICK f \in [0 .. n -> S] : Built(f, base, s2, n)
  BY <1>0, <1>1, StepByStep
<1>4. \A i \in 1 .. n : i - 1 \in 0 .. n /\ f[i] = s2[i][f[i - 1]]
  BY <1>3 DEF Built
<1> DEFINE Up == {i \in 0 .. n : f[i] \in within[i]}
<1>5. 0 \in Up
  BY <1>0, <1>3 DEF Built
<1>6. \A i \in 1 .. n : i - 1 \in Up => i \in Up
  <2> TAKE i \in 1 .. n
  <2> HAVE i - 1 \in Up
  <2>1. i - 1 \in 0 .. n /\ f[i - 1] \in S /\ f[i - 1] \in within[i - 1]
    BY <1>3
  <2>2. f[i] = step[i][f[i - 1]]
    BY <1>2, <1>4, <2>1
  <2>3. f[i] \in within[i]
    BY <1>0, <2>1, <2>2
  <2> QED BY <2>3
<1>7. \A i \in 0 .. n : i \in Up
  <2> HIDE DEF Up
  <2> QED BY <1>5, <1>6, UpTo
<1>8. \A i \in 0 .. n : f[i] \in within[i]
  BY <1>7
<1>9. Built(f, base, step, n)
  <2>1. \A i \in 1 .. n : f[i] = step[i][f[i - 1]]
    <3> TAKE i \in 1 .. n
    <3>1. i - 1 \in 0 .. n /\ f[i - 1] \in S /\ f[i - 1] \in within[i - 1]
      BY <1>3, <1>8
    <3> QED BY <1>2, <1>4, <3>1
  <2> QED BY <1>3, <2>1 DEF Built
<1> QED BY <1>8, <1>9

-----------------------------------------------------------------------------
(* A walk along a path p, which has come to its first d names.              *)

Graphs(V) ==
    [heap : Seq(Objects(V)), live : SUBSET Nat, env : Nat \cup {NULL}, at : Nat \cup {NULL},
     failed : BOOLEAN, aborted : BOOLEAN]

Begin(p, d) == SubSeq(p, 1, d)

(* The object at the end of the walk has the value; the tables on the way   *)
(* that were missing are made, each with nothing in it but the next.        *)
Walked(g, P, p, d, w, Q) ==
    /\ Tree(w.heap, Q) /\ Grows(g.heap, P, w.heap, Q) /\ Q[w.at] = Begin(p, d)
    /\ \A k \in Len(g.heap) + 1 .. Len(w.heap) :
          /\ k # w.at => w.heap[k].value = TableValue
          /\ \E m \in 1 .. d : Q[k] = Begin(p, m)
    /\ w.heap # g.heap => w.heap[w.at].table = NewTable

Reaches(g, P, p, d, w, value) ==
    /\ ~w.aborted /\ w.failed = g.failed /\ w.env = g.env
    /\ w.live = 1 .. Len(w.heap) /\ w.at \in 1 .. Len(w.heap)
    /\ w.heap[w.at].value = value
    /\ \E Q : Walked(g, P, p, d, w, Q)

(* An object on the way is no table.                                        *)
Obstructed(g, P, p, d) ==
    \E m \in 1 .. d : \E i \in 1 .. Len(g.heap) :
        P[i] = Begin(p, m) /\ g.heap[i].value # TableValue

(* A table on the way is full, and has not the next name.                   *)
Overflows(g, P, p, d) ==
    \E m \in 1 .. d : \E i \in 1 .. Len(g.heap) :
        /\ P[i] = Begin(p, m - 1)
        /\ DOMAIN g.heap[i].table.tab = 0 .. TABLE_INIT_BUF - 1
        /\ \A s \in DOMAIN g.heap[i].table.tab : g.heap[i].table.tab[s].key # p[m]

(* What a walk may come to.                                                 *)
Walks(g, P, p, d, w) ==
    \/ Reaches(g, P, p, d, w, TableValue)
    \/ w.aborted /\ Overflows(g, P, p, d)
    \/ /\ ~w.aborted /\ w.at = NULL /\ Obstructed(g, P, p, d)
       /\ w.heap = g.heap /\ w.live = 1 .. Len(w.heap) /\ w.env = g.env /\ w.failed = g.failed

(* A beginning of a path is a shorter one with the next name.               *)
LEMMA BeginGrows ==
  ASSUME NEW p \in Seq(Str), NEW d \in 1 .. Len(p)
  PROVE  /\ p[d] \in Str /\ Begin(p, d) \in Seq(Str) /\ Begin(p, d - 1) \in Seq(Str)
         /\ Begin(p, d) = Append(Begin(p, d - 1), p[d])
         /\ Len(Begin(p, d)) = d
<1>1. Len(p) \in Nat /\ \A i \in 1 .. Len(p) : p[i] \in Str
  BY LenProperties, ElementOfSeq
<1>2. Begin(p, d) \in Seq(Str) /\ Len(Begin(p, d)) = d
  <2>1. \A i \in 1 .. d : p[i] \in Str
    BY <1>1
  <2>2. 1 \in Int /\ d \in Int /\ 1 <= d /\ d - 1 + 1 = d
    BY <1>1
  <2> QED BY <2>1, <2>2, SubSeqProperties DEF Begin
<1>3. Begin(p, d - 1) \in Seq(Str)
  <2>1. \A i \in 1 .. d - 1 : p[i] \in Str
    BY <1>1
  <2>2. 1 \in Int /\ d - 1 \in Int
    BY <1>1
  <2> QED BY <2>1, <2>2, SubSeqProperties DEF Begin
<1>4. Begin(p, d) = Begin(p, d - 1) \o <<p[d]>>
  <2>1. 1 \in 1 .. Len(p) /\ d \in 1 .. Len(p)
    BY <1>1
  <2> QED BY <2>1, SubSeqRecursiveSecond DEF Begin
<1>5. Append(Begin(p, d - 1), p[d]) = Begin(p, d - 1) \o <<p[d]>>
  BY <1>1, <1>3, AppendIsConcat
<1> QED BY <1>1, <1>2, <1>3, <1>4, <1>5

(* What has grown twice has grown.                                          *)
LEMMA GrowsOn ==
  ASSUME NEW V, NEW a \in Seq(Objects(V)), NEW b \in Seq(Objects(V)), NEW c \in Seq(Objects(V)),
         NEW P, NEW Q, NEW R, Grows(a, P, b, Q), Grows(b, Q, c, R)
  PROVE  Grows(a, P, c, R)
<1>1. Len(a) \in Nat /\ Len(b) \in Nat /\ Len(c) \in Nat /\ Len(a) <= Len(b) /\ Len(b) <= Len(c)
  BY LenProperties DEF Grows
<1>2. \A i \in 1 .. Len(a) : i \in 1 .. Len(b)
  BY <1>1
<1>3. ASSUME NEW i \in 1 .. Len(a)
      PROVE  /\ R[i] = P[i] /\ c[i].value = a[i].value
             /\ \A s \in DOMAIN a[i].table.tab :
                   s \in DOMAIN c[i].table.tab /\ c[i].table.tab[s] = a[i].table.tab[s]
  <2>1. /\ Q[i] = P[i] /\ b[i].value = a[i].value
        /\ \A s \in DOMAIN a[i].table.tab :
              s \in DOMAIN b[i].table.tab /\ b[i].table.tab[s] = a[i].table.tab[s]
    BY DEF Grows
  <2>2. /\ R[i] = Q[i] /\ c[i].value = b[i].value
        /\ \A s \in DOMAIN b[i].table.tab :
              s \in DOMAIN c[i].table.tab /\ c[i].table.tab[s] = b[i].table.tab[s]
    BY <1>2 DEF Grows
  <2> QED BY <2>1, <2>2
<1> QED BY <1>1, <1>3 DEF Grows

(* Store aborts on a full table, or stores the object.                      *)
LEMMA StoreIs ==
  ASSUME NEW V, NEW w \in Graphs(V), NEW name, NEW value, NEW r, r = Store(w, name, value),
         w.at \in 1 .. Len(w.heap)
  PROVE  /\ ~Insertable(w.heap[w.at].table, name) => r = [w EXCEPT !.aborted = TRUE]
         /\ Insertable(w.heap[w.at].table, name) =>
               /\ r = [heap |-> With(w.heap, w.at, name, value), live |-> w.live \cup {Len(w.heap) + 1},
                       env |-> w.env, at |-> Len(w.heap) + 1, failed |-> w.failed,
                       aborted |-> w.aborted]
BY DEF Store, With, Graphs

(* Storing an object at the end of a walk takes the walk on to it.          *)
LEMMA StoreReaches ==
  ASSUME HashNat, NEW V, NEW g \in Graphs(V), NEW P, Tree(g.heap, P),
         NEW p \in Seq(Str), NEW d \in 1 .. Len(p), NEW w \in Graphs(V),
         Reaches(g, P, p, d - 1, w, TableValue), NEW value \in V,
         Lookup(w.heap[w.at].table, p[d]) = NULL, NEW r, r = Store(w, p[d], value)
  PROVE  /\ r \in Graphs(V)
         /\ Reaches(g, P, p, d, r, value) \/ (r.aborted /\ Overflows(g, P, p, d))
<1> DEFINE L == Len(w.heap)
           t == w.heap[w.at].table
<1>0. PICK name : name = p[d]
  OBVIOUS
<1>a. Lookup(t, name) = NULL /\ r = Store(w, name, value)
  BY <1>0
<1>1. /\ ~w.aborted /\ w.failed = g.failed /\ w.env = g.env /\ w.live = 1 .. L
      /\ w.at \in 1 .. L /\ w.heap[w.at].value = TableValue
  BY DEF Reaches
<1>2. PICK Q : Walked(g, P, p, d - 1, w, Q)
  BY DEF Reaches
<1>3. Tree(w.heap, Q) /\ Grows(g.heap, P, w.heap, Q) /\ Q[w.at] = Begin(p, d - 1)
  BY <1>2 DEF Walked
<1>4. w.heap \in Seq(Objects(V)) /\ g.heap \in Seq(Objects(V))
  BY DEF Graphs
<1>5. L \in Nat /\ t \in Tables /\ Reachable(t)
  BY <1>1, <1>3, <1>4, TreeFacts DEF Tree
<1>6. name \in Str /\ Hash(name) \in Nat /\ d - 1 \in Nat /\ d \in 1 .. d
  <2>1. name \in Str
    BY <1>0, BeginGrows
  <2>2. Hash(name) \in Nat
    BY <2>1 DEF HashNat
  <2>3. Len(p) \in Nat
    BY LenProperties
  <2> QED BY <2>1, <2>2, <2>3
<1>b. Len(g.heap) \in Nat
  BY <1>4, LenProperties
<1>7. CASE ~Insertable(t, name)
  <2>1. r = [w EXCEPT !.aborted = TRUE]
    BY <1>1, <1>7, <1>a, StoreIs
  <2>2. r \in Graphs(V) /\ r.aborted
    BY <2>1 DEF Graphs
  <2>3. IsHashTable(t) /\ Slots(t) = 0 .. TABLE_INIT_BUF - 1
    BY <1>5, TablesAre
  <2>4. DOMAIN t.tab = 0 .. TABLE_INIT_BUF - 1 /\ name \notin Keys(t)
    BY <1>5, <1>6, <1>7, <2>3, FullTable
  <2>5. w.heap = g.heap
    <3>1. 0 \in DOMAIN t.tab
      BY <2>4, PowerOfTwo
    <3>2. t # NewTable
      BY <3>1, NewTableType
    <3> QED BY <1>2, <3>2 DEF Walked
  <2>6. P[w.at] = Begin(p, d - 1)
    BY <1>1, <1>3, <2>5 DEF Grows
  <2>7. \A s \in DOMAIN t.tab : t.tab[s].key # name
    BY <2>4 DEF Keys
  <2>8. Overflows(g, P, p, d)
    <3>1. /\ w.at \in 1 .. Len(g.heap) /\ P[w.at] = Begin(p, d - 1)
          /\ DOMAIN g.heap[w.at].table.tab = 0 .. TABLE_INIT_BUF - 1
          /\ \A s \in DOMAIN g.heap[w.at].table.tab : g.heap[w.at].table.tab[s].key # p[d]
      BY <1>0, <1>1, <2>4, <2>5, <2>6, <2>7
    <3> QED BY Zenon, <1>6, <3>1 DEF Overflows
  <2> QED BY <2>2, <2>8
<1>8. CASE Insertable(t, name)
  <2>a. PICK more : more = With(w.heap, w.at, name, value)
    OBVIOUS
  <2>b. PICK R : R = Further(Q, L, Append(Q[w.at], name))
    OBVIOUS
  <2>1. r = [heap |-> more, live |-> w.live \cup {L + 1}, env |-> w.env, at |-> L + 1,
             failed |-> w.failed, aborted |-> w.aborted]
    BY <1>1, <1>8, <1>a, <2>a, StoreIs
  <2>2. more \in Seq(Objects(V)) /\ Tree(more, R) /\ Grows(w.heap, Q, more, R)
    <3>1. /\ w.heap \in Seq(Objects(V)) /\ Tree(w.heap, Q) /\ w.at \in 1 .. Len(w.heap)
          /\ name \in Str /\ w.heap[w.at].value = TableValue
          /\ Lookup(w.heap[w.at].table, name) = NULL /\ Insertable(w.heap[w.at].table, name)
      BY <1>1, <1>3, <1>4, <1>6, <1>8, <1>a
    <3>2. R = Further(Q, Len(w.heap), Append(Q[w.at], name))
      BY <2>b
    <3> QED BY <3>1, <3>2, <2>a, TreeGrows
  <2>3. Stores(w.heap, w.at, name, value, more)
    BY <1>1, <1>3, <1>4, <1>6, <1>8, <1>a, <2>a, WithIs
  <2>4. Len(more) = L + 1 /\ more[L + 1] = Object(value)
    BY <2>3 DEF Stores
  <2>5. r \in Graphs(V)
    <3>1. w.live \cup {L + 1} \in SUBSET Nat
      BY <1>5 DEF Graphs
    <3> QED BY <1>5, <2>1, <2>2, <3>1 DEF Graphs
  <2>6. R[L + 1] = Begin(p, d)
    <3>1. R[L + 1] = Append(Q[w.at], name)
      BY <1>5, <2>b DEF Further
    <3> QED BY <1>0, <1>3, <3>1, BeginGrows
  <2>7. \A k \in 1 .. L : R[k] = Q[k] /\ more[k].value = w.heap[k].value
    BY <2>2 DEF Grows
  <2>8. Grows(g.heap, P, more, R)
    BY <1>3, <1>4, <2>2, GrowsOn
  <2>9. ASSUME NEW k \in Len(g.heap) + 1 .. L + 1
        PROVE  /\ k # L + 1 => more[k].value = TableValue
               /\ \E m \in 1 .. d : R[k] = Begin(p, m)
    <3>1. CASE k = L + 1
      BY <1>6, <2>6, <3>1
    <3>2. CASE k # L + 1
      <4>1. k \in Len(g.heap) + 1 .. L /\ k \in 1 .. L
        BY <1>5, <1>b, <3>2
      <4>2. /\ k # w.at => w.heap[k].value = TableValue
            /\ \E m \in 1 .. d - 1 : Q[k] = Begin(p, m)
        BY <1>2, <4>1 DEF Walked
      <4>3. \E m \in 1 .. d : Q[k] = Begin(p, m)
        BY <1>6, <4>2
      <4> QED BY <1>1, <2>7, <4>1, <4>2, <4>3
    <3> QED BY <3>1, <3>2
  <2>10. r.heap = more /\ r.at = L + 1
    BY <2>1
  <2>11. Walked(g, P, p, d, r, R)
    <3>1. r.heap[r.at].table = NewTable
      BY <2>4, <2>10 DEF Object
    <3> QED BY <2>2, <2>4, <2>6, <2>8, <2>9, <2>10, <3>1 DEF Walked
  <2>12. r.heap[r.at].value = value
    BY <2>4, <2>10 DEF Object
  <2>13. r.live = 1 .. L + 1 /\ ~r.aborted /\ r.failed = g.failed /\ r.env = g.env
    BY <1>1, <1>5, <2>1
  <2>14. Reaches(g, P, p, d, r, value)
    <3>1. r.at \in 1 .. Len(r.heap)
      BY <1>5, <2>4, <2>10
    <3>2. r.live = 1 .. Len(r.heap)
      BY <2>4, <2>10, <2>13
    <3> QED BY <2>11, <2>12, <2>13, <3>1, <3>2 DEF Reaches
  <2> QED BY <2>5, <2>14
<1> QED BY <1>7, <1>8

(* One more name of the key: the walk comes to its table, makes it, or      *)
(* stops.                                                                   *)
LEMMA EnterWalks ==
  ASSUME HashNat, NEW V, TableValue \in V, \A v \in V : v.type = "table" => v = TableValue,
         NEW g \in Graphs(V), NEW P, Tree(g.heap, P),
         NEW p \in Seq(Str), NEW d \in 1 .. Len(p), NEW w \in Graphs(V),
         Walks(g, P, p, d - 1, w), NEW r, r = Enter(w, p[d])
  PROVE  r \in Graphs(V) /\ Walks(g, P, p, d, r)
<1>0. PICK name : name = p[d]
  OBVIOUS
<1>a. PICK tmp : tmp = table_object_lookup(w, w.at, name)
  OBVIOUS
<1>1. d \in Nat /\ d - 1 \in Nat /\ Len(p) \in Nat
  BY LenProperties
<1>2. \A m \in 1 .. d - 1 : m \in 1 .. d
  BY <1>1
<1>3. CASE w.aborted /\ Overflows(g, P, p, d - 1)
  <2>1. r = w
    BY <1>3 DEF Enter
  <2>2. Overflows(g, P, p, d)
    BY <1>2, <1>3 DEF Overflows
  <2> QED BY <1>3, <2>1, <2>2 DEF Walks
<1>4. CASE /\ ~w.aborted /\ w.at = NULL /\ Obstructed(g, P, p, d - 1)
           /\ w.heap = g.heap /\ w.live = 1 .. Len(w.heap) /\ w.env = g.env /\ w.failed = g.failed
  <2>1. r = w
    BY <1>4 DEF Enter
  <2>2. Obstructed(g, P, p, d)
    BY <1>2, <1>4 DEF Obstructed
  <2> QED BY <1>4, <2>1, <2>2 DEF Walks
<1>5. CASE Reaches(g, P, p, d - 1, w, TableValue)
  <2> DEFINE t == w.heap[w.at].table
  <2>1. /\ ~w.aborted /\ w.at \in 1 .. Len(w.heap) /\ tmp = Lookup(t, name)
        /\ w.heap[w.at].value = TableValue
    BY <1>5, <1>a DEF Reaches, table_object_lookup
  <2>2. PICK Q : Walked(g, P, p, d - 1, w, Q)
    BY <1>5 DEF Reaches
  <2>3. /\ Tree(w.heap, Q) /\ Grows(g.heap, P, w.heap, Q) /\ Q[w.at] = Begin(p, d - 1)
        /\ w.heap # g.heap => t = NewTable
    BY <2>2 DEF Walked
  <2>4. w.heap \in Seq(Objects(V)) /\ g.heap \in Seq(Objects(V))
    BY DEF Graphs
  <2>5. /\ Len(w.heap) \in Nat /\ t \in Tables /\ Reachable(t)
        /\ \A s \in DOMAIN t.tab : t.tab[s].val # NULL
        /\ \A i \in 1 .. Len(w.heap) : w.heap[i].value \in V
    BY <2>1, <2>3, <2>4, TreeFacts DEF Tree
  <2>6. w.at # NULL
    <3>1. w.at \in Nat \ {0}
      BY <2>1, <2>5
    <3> QED BY <3>1, NullAssumption
  <2>7. CASE tmp = NULL
    <3>1. r = Store(w, name, TableValue)
      BY <1>0, <1>a, <2>1, <2>6, <2>7 DEF Enter
    <3>2. /\ r \in Graphs(V)
          /\ Reaches(g, P, p, d, r, TableValue) \/ (r.aborted /\ Overflows(g, P, p, d))
      <4>1. Lookup(w.heap[w.at].table, p[d]) = NULL
        BY <1>0, <2>1, <2>7
      <4> QED BY <1>0, <1>5, <3>1, <4>1, StoreReaches
    <3> QED BY <3>2 DEF Walks
  <2>8. CASE tmp # NULL
    <3> DEFINE f == Find(t, name)
    <3>1. f \in DOMAIN t.tab /\ t.tab[f] = [key |-> name, val |-> tmp]
      BY <2>1, <2>5, <2>8, LookupIs
    <3>2. w.heap = g.heap
      BY <2>3, <3>1, NewTableType
    <3> HIDE DEF f
    <3>3. t.tab[f].key = name /\ t.tab[f].val = tmp
      BY SMTT(30), <3>1
    <3>4. tmp \in w.at + 1 .. Len(w.heap) /\ Q[tmp] = Append(Q[w.at], name)
      BY Zenon, <2>1, <2>3, <3>1, <3>3 DEF Tree, Named
    <3>5. tmp \in 1 .. Len(w.heap) /\ Q[tmp] = Begin(p, d) /\ tmp \in Nat
      <4>1. tmp \in 1 .. Len(w.heap) /\ tmp \in Nat
        BY <2>1, <2>5, <3>4
      <4>2. Begin(p, d) = Append(Begin(p, d - 1), name)
        BY <1>0, BeginGrows
      <4> QED BY <2>3, <3>4, <4>1, <4>2
    <3>6. CASE w.heap[tmp].value = TableValue
      <4>1. IsTable(w, tmp)
        BY <3>6 DEF IsTable, TableValue
      <4>2. r = [w EXCEPT !.at = tmp]
        BY <1>0, <1>a, <2>1, <2>6, <2>8, <4>1 DEF Enter
      <4>3. /\ r \in Graphs(V) /\ r.heap = w.heap /\ r.at = tmp /\ r.live = w.live
            /\ r.env = w.env /\ r.failed = w.failed /\ r.aborted = w.aborted
        BY <3>5, <4>2 DEF Graphs
      <4>4. Walked(g, P, p, d, r, Q)
        <5>1. Len(g.heap) + 1 .. Len(w.heap) = {}
          BY <2>5, <3>2
        <5> QED BY <2>3, <3>2, <3>5, <4>3, <5>1 DEF Walked
      <4>5. Reaches(g, P, p, d, r, TableValue)
        BY <1>5, <3>5, <3>6, <4>3, <4>4 DEF Reaches
      <4> QED BY <4>3, <4>5 DEF Walks
    <3>7. CASE w.heap[tmp].value # TableValue
      <4>1. ~IsTable(w, tmp)
        BY <2>5, <3>5, <3>7 DEF IsTable
      <4>2. r = [w EXCEPT !.at = NULL]
        BY <1>0, <1>a, <2>1, <2>6, <2>8, <4>1 DEF Enter
      <4>3. /\ r \in Graphs(V) /\ r.heap = w.heap /\ r.at = NULL /\ r.live = w.live
            /\ r.env = w.env /\ r.failed = w.failed /\ r.aborted = w.aborted
        BY <4>2 DEF Graphs
      <4>4. P[tmp] = Q[tmp]
        BY <2>3, <3>2, <3>5 DEF Grows
      <4>5. d \in 1 .. d
        BY <1>1
      <4>6. Obstructed(g, P, p, d)
        BY <3>2, <3>5, <3>7, <4>4, <4>5 DEF Obstructed
      <4> QED BY <1>5, <3>2, <4>3, <4>6 DEF Walks, Reaches
    <3> QED BY <3>6, <3>7
  <2> QED BY <2>7, <2>8
<1> QED BY <1>3, <1>4, <1>5 DEF Walks

(* The walk along all the names, so far as it gets.                         *)
LEMMA WalkWalks ==
  ASSUME HashNat, NEW V, TableValue \in V, \A v \in V : v.type = "table" => v = TableValue,
         NEW g \in Graphs(V), NEW P, Tree(g.heap, P), NEW p \in Seq(Str), NEW c \in Nat,
         ~g.aborted, g.live = 1 .. Len(g.heap), g.at \in 1 .. Len(g.heap),
         g.heap[g.at].value = TableValue, P[g.at] = Begin(p, c),
         NEW names \in Seq(Str), c + Len(names) <= Len(p),
         \A i \in 1 .. Len(names) : names[i] = p[c + i]
  PROVE  Walk(g, names) \in Graphs(V) /\ Walks(g, P, p, c + Len(names), Walk(g, names))
<1> DEFINE L == Len(names)
           S == Graphs(V)
           Is(f) == f = [n \in 0 .. L |-> IF n = 0 THEN g ELSE Enter(f[n - 1], names[n])]
           made == CHOOSE f : Is(f)
           step == [i \in 1 .. L |-> [x \in S |-> Enter(x, names[i])]]
           within == [i \in 0 .. L |-> {x \in S : Walks(g, P, p, c + i, x)}]
<1>1. L \in Nat
  BY LenProperties
<1>2. g \in within[0]
  <2>1. Walked(g, P, p, c, g, P)
    <3>1. Len(g.heap) \in Nat
      BY LenProperties DEF Graphs
    <3>2. Len(g.heap) + 1 .. Len(g.heap) = {}
      BY <3>1
    <3>3. Grows(g.heap, P, g.heap, P)
      BY <3>1 DEF Grows
    <3> QED BY <3>2, <3>3 DEF Walked
  <2>2. Reaches(g, P, p, c, g, TableValue)
    BY <2>1 DEF Reaches
  <2>3. c + 0 = c
    OBVIOUS
  <2> QED BY <1>1, <2>2, <2>3 DEF Walks
<1>3. \A i \in 1 .. L : \A x \in S : x \in within[i - 1] => step[i][x] \in S \cap within[i]
  <2> TAKE i \in 1 .. L
  <2> TAKE x \in S
  <2> HAVE x \in within[i - 1]
  <2>1. i - 1 \in 0 .. L /\ i \in 0 .. L /\ c + i \in 1 .. Len(p) /\ c + (i - 1) = (c + i) - 1
    BY <1>1, LenProperties
  <2>2. Walks(g, P, p, (c + i) - 1, x)
    BY <2>1
  <2>3. names[i] = p[c + i]
    OBVIOUS
  <2>4. PICK r : r = Enter(x, names[i])
    OBVIOUS
  <2>5. r \in Graphs(V) /\ Walks(g, P, p, c + i, r)
    <3>1. PICK d : d = c + i
      OBVIOUS
    <3>2. d \in 1 .. Len(p) /\ Walks(g, P, p, d - 1, x) /\ r = Enter(x, p[d]) /\ x \in Graphs(V)
      BY <2>1, <2>2, <2>3, <2>4, <3>1
    <3>3. r \in Graphs(V) /\ Walks(g, P, p, d, r)
      BY <3>2, EnterWalks
    <3> QED BY <3>1, <3>3
  <2>6. step[i][x] = r
    BY <2>4
  <2> QED BY <2>1, <2>5, <2>6
<1>4. Walk(g, names) = made[L]
  BY Zenon DEF Walk
<1> HIDE DEF S, L
<1>5. PICK h \in [0 .. L -> S] : Built(h, g, step, L) /\ \A i \in 0 .. L : h[i] \in within[i]
  <2>1. g \in S
    BY DEF S
  <2>2. PICK st : st = step
    OBVIOUS
  <2>3. PICK wi : wi = within
    OBVIOUS
  <2>4. StaysIn(S, L, g, st, wi)
    BY <1>2, <1>3, <2>1, <2>2, <2>3 DEF StaysIn
  <2>5. \E h \in [0 .. L -> S] : Built(h, g, st, L) /\ \A i \in 0 .. L : h[i] \in wi[i]
    <3> HIDE DEF step, within
    <3> QED BY <1>1, <2>4, StepsWithin
  <2> QED BY <2>2, <2>3, <2>5
<1>6. Is(h)
  <2>1. \A i \in 1 .. L : i - 1 \in 0 .. L /\ h[i - 1] \in S
    BY <1>1
  <2>2. \A i \in 1 .. L : h[i] = Enter(h[i - 1], names[i])
    BY <1>5, <2>1 DEF Built
  <2>3. \A i \in 0 .. L : h[i] = IF i = 0 THEN g ELSE Enter(h[i - 1], names[i])
    BY <1>1, <1>5, <2>2 DEF Built
  <2>4. h = [i \in 0 .. L |-> h[i]]
    OBVIOUS
  <2> QED BY <2>3, <2>4
<1>7. Is(made)
  <2> HIDE DEF Is
  <2> QED BY <1>6
<1> HIDE DEF made
<1>8. made[0] = g /\ \A i \in 1 .. L : made[i] = Enter(made[i - 1], names[i])
  BY <1>1, <1>7
<1> DEFINE Typed == {k \in 0 .. L : made[k] \in within[k]}
<1>9. 0 \in Typed
  BY <1>1, <1>2, <1>8
<1>10. \A i \in 1 .. L : i - 1 \in Typed => i \in Typed
  <2> TAKE i \in 1 .. L
  <2> HAVE i - 1 \in Typed
  <2>1. i - 1 \in 0 .. L /\ i \in 0 .. L /\ made[i - 1] \in within[i - 1]
    BY <1>1
  <2>2. made[i - 1] \in S
    BY <2>1
  <2>3. step[i][made[i - 1]] \in within[i]
    BY <1>3, <2>1, <2>2
  <2>4. step[i][made[i - 1]] = made[i]
    BY <1>8, <2>2
  <2> QED BY <2>1, <2>3, <2>4
<1>11. L \in Typed
  <2> HIDE DEF Typed
  <2>1. \A i \in 0 .. L : i \in Typed
    BY <1>1, <1>9, <1>10, UpTo
  <2> QED BY <1>1, <2>1
<1>12. made[L] \in within[L] /\ L \in 0 .. L
  BY <1>1, <1>11
<1>13. made[L] \in S /\ Walks(g, P, p, c + L, made[L])
  BY <1>12
<1> QED BY <1>4, <1>13 DEF S, L

-----------------------------------------------------------------------------
(* Freeing the root frees every object.                                     *)

(* object_free visits every object of the tree.                             *)
LEMMA AllBelow ==
  ASSUME NEW V, NEW g, g.heap \in Seq(Objects(V)), NEW P, Tree(g.heap, P)
  PROVE  1 .. Len(g.heap) \subseteq Below(g, Root)
<1> DEFINE L == Len(g.heap)
           Kids(ids) == UNION {{g.heap[i].table.tab[s].val : s \in DOMAIN g.heap[i].table.tab} :
                                  i \in ids}
           Body(x) == x \cup Kids(x)
           base == {Root}
           Is(f) == f = [n \in 0 .. L |-> IF n = 0 THEN base ELSE Body(f[n - 1])]
           made == CHOOSE f : Is(f)
           step == [i \in 1 .. L |-> [x \in SUBSET (1 .. L) |-> Body(x)]]
<1>1. L \in Nat /\ L >= 1
  BY LenProperties DEF Tree
<1>2. \A x \in SUBSET (1 .. L) : Body(x) \in SUBSET (1 .. L)
  <2> TAKE x \in SUBSET (1 .. L)
  <2>1. ASSUME NEW i \in x, NEW s \in DOMAIN g.heap[i].table.tab
        PROVE  g.heap[i].table.tab[s].val \in 1 .. L
    <3>1. i \in 1 .. L
      OBVIOUS
    <3>2. g.heap[i].table.tab[s].val \in i + 1 .. L
      BY <3>1 DEF Tree
    <3> QED BY <1>1, <3>1, <3>2
  <2>2. ASSUME NEW y \in Kids(x) PROVE y \in 1 .. L
    <3>1. PICK i \in x : y \in {g.heap[i].table.tab[s].val : s \in DOMAIN g.heap[i].table.tab}
      OBVIOUS
    <3> QED BY <2>1, <3>1
  <2> HIDE DEF Kids
  <2> QED BY <2>2
<1>3. base \in SUBSET (1 .. L)
  BY <1>1 DEF Root
<1>4. Below(g, Root) = made[L]
  BY Zenon DEF Below
<1>5. \A k \in 2 .. L : \E i \in 1 .. k - 1 : \E s : Holds(g.heap, i, s, k)
  BY DEF Tree
<1>6. \A n \in 1 .. L - 1 : \A x : 1 .. n \subseteq x => 1 .. n + 1 \subseteq Body(x)
  <2> TAKE n \in 1 .. L - 1
  <2> TAKE x
  <2> HAVE 1 .. n \subseteq x
  <2>1. PICK i \in 1 .. n : \E s : Holds(g.heap, i, s, n + 1)
    <3>1. n + 1 \in 2 .. L /\ n + 1 - 1 = n
      BY <1>1
    <3> QED BY <1>5, <3>1
  <2>2. PICK s : Holds(g.heap, i, s, n + 1)
    BY <2>1
  <2>3. n + 1 \in Kids(x)
    BY <2>2 DEF Holds
  <2>4. \A k \in 1 .. n + 1 : k \in 1 .. n \/ k = n + 1
    BY <1>1
  <2> HIDE DEF Kids
  <2> QED BY <2>3, <2>4
<1> HIDE DEF Body, base, L
<1>7. step \in [1 .. L -> [SUBSET (1 .. L) -> SUBSET (1 .. L)]]
  BY <1>2
<1>8. PICK h \in [0 .. L -> SUBSET (1 .. L)] : Built(h, base, step, L)
  BY <1>1, <1>3, <1>7, StepByStep
<1>9. Is(h)
  <2>1. \A i \in 1 .. L : h[i - 1] \in SUBSET (1 .. L)
    BY <1>1
  <2>2. \A i \in 1 .. L : h[i] = Body(h[i - 1])
    BY <1>8, <2>1 DEF Built
  <2>3. \A i \in 0 .. L : h[i] = IF i = 0 THEN base ELSE Body(h[i - 1])
    BY <1>1, <1>8, <2>2 DEF Built
  <2>4. h = [i \in 0 .. L |-> h[i]]
    OBVIOUS
  <2> QED BY <2>3, <2>4
<1>10. Is(made)
  <2> HIDE DEF Is
  <2> QED BY <1>9
<1> HIDE DEF made
<1>11. made[0] = base /\ \A i \in 1 .. L : made[i] = Body(made[i - 1])
  BY <1>1, <1>10
<1> DEFINE Seen == {n \in 0 .. L : \A k \in 1 .. L : k <= n + 1 => k \in made[n]}
<1>12. 0 \in Seen
  BY <1>1, <1>11 DEF base, Root
<1>13. \A i \in 1 .. L : i - 1 \in Seen => i \in Seen
  <2> TAKE i \in 1 .. L
  <2> HAVE i - 1 \in Seen
  <2>1. \A k \in 1 .. L : k <= i => k \in made[i - 1]
    BY <1>1
  <2>2. made[i] = Body(made[i - 1])
    BY <1>11
  <2>3. 1 .. i \subseteq made[i - 1]
    BY <1>1, <2>1
  <2>4. i < L => 1 .. i + 1 \subseteq made[i]
    <3> SUFFICES ASSUME i < L PROVE 1 .. i + 1 \subseteq made[i]
      OBVIOUS
    <3>1. i \in 1 .. L - 1
      BY <1>1
    <3> QED BY <1>6, <2>2, <2>3, <3>1
  <2>5. made[i - 1] \subseteq made[i]
    BY <2>2 DEF Body
  <2>6. \A k \in 1 .. L : k <= i + 1 => k \in made[i]
    <3> TAKE k \in 1 .. L
    <3> HAVE k <= i + 1
    <3>1. CASE k <= i
      BY <1>1, <2>3, <2>5, <3>1
    <3>2. CASE k = i + 1
      <4>1. i < L /\ k \in 1 .. i + 1
        BY <1>1, <3>2
      <4> QED BY <2>4, <4>1
    <3> QED BY <1>1, <3>1, <3>2
  <2>7. i \in 0 .. L
    BY <1>1
  <2> QED BY <2>6, <2>7
<1>14. L \in Seen
  <2> HIDE DEF Seen
  <2>1. \A i \in 0 .. L : i \in Seen
    BY <1>1, <1>12, <1>13, UpTo
  <2> QED BY <1>1, <2>1
<1>15. \A k \in 1 .. L : k \in made[L]
  BY <1>1, <1>14
<1> QED BY <1>4, <1>15 DEF L

-----------------------------------------------------------------------------
(* One entry.                                                               *)

Ready(g, V, P) ==
    /\ g \in Graphs(V) /\ Tree(g.heap, P) /\ ~g.aborted /\ ~g.failed
    /\ g.live = 1 .. Len(g.heap) /\ g.env \in 1 .. Len(g.heap)
    /\ g.heap[g.env].value = TableValue

EntryValue(e) == IF DeclaresTable(e) THEN TableValue ELSE e.value

(* The entry is refused, stops the program, or is taken.                    *)
Refused(g, P, p, r) ==
    /\ r.failed /\ ~r.aborted /\ r.live = {} /\ r.env = NULL
    /\ Obstructed(g, P, p, Len(p)) \/ \E i \in 1 .. Len(g.heap) : P[i] = p

Taken(g, P, p, e, r) ==
    /\ ~r.failed /\ ~r.aborted /\ r.live = 1 .. Len(r.heap) /\ r.at \in 1 .. Len(r.heap)
    /\ Len(g.heap) < r.at
    /\ r.env = IF DeclaresTable(e) THEN r.at ELSE g.env
    /\ r.heap[r.at].value = EntryValue(e)
    /\ \E Q : Walked(g, P, p, Len(p), r, Q)

Outcome(g, P, p, e, r) ==
    \/ r.aborted /\ Overflows(g, P, p, Len(p))
    \/ Refused(g, P, p, r)
    \/ Taken(g, P, p, e, r)

(* The path of an entry, cut in front of the last name.                     *)
PathParts(b, key, p) ==
    /\ p \in Seq(Str) /\ Len(p) = Len(b) + Len(key) /\ Len(key) >= 1
    /\ Len(b) \in Nat /\ Len(key) \in Nat /\ Begin(p, Len(b)) = b /\ Begin(p, Len(p)) = p
    /\ Front(key) \in Seq(Str) /\ Len(Front(key)) = Len(key) - 1
    /\ \A i \in 1 .. Len(key) - 1 : Front(key)[i] = p[Len(b) + i]
    /\ Last(key) = p[Len(p)]

(* The parts of a path that a key completes.                                *)
LEMMA EntryPath ==
  ASSUME NEW b \in Seq(Str), NEW key \in Seq(Str), key # <<>>, NEW p, p = b \o key
  PROVE  PathParts(b, key, p)
<1>1. /\ Len(b) \in Nat /\ Len(key) \in Nat /\ Len(key) >= 1
      /\ \A i \in 1 .. Len(key) : key[i] \in Str
  BY LenProperties, ElementOfSeq, EmptySeq
<1>2. /\ p \in Seq(Str) /\ Len(p) = Len(b) + Len(key)
      /\ \A i \in 1 .. Len(b) + Len(key) : p[i] = IF i <= Len(b) THEN b[i] ELSE key[i - Len(b)]
  BY ConcatProperties
<1>3. \A i \in 1 .. Len(key) : p[Len(b) + i] = key[i]
  <2> TAKE i \in 1 .. Len(key)
  <2>1. Len(b) + i \in 1 .. Len(b) + Len(key) /\ ~(Len(b) + i <= Len(b)) /\ Len(b) + i - Len(b) = i
    BY <1>1
  <2> QED BY <1>2, <2>1
<1>4. /\ Front(key) \in Seq(Str) /\ Len(Front(key)) = Len(key) - 1
      /\ \A i \in 1 .. Len(key) - 1 : Front(key)[i] = key[i]
  <2>1. \A i \in 1 .. Len(key) - 1 : key[i] \in Str
    BY <1>1
  <2>2. PICK n : n = Len(key) - 1
    OBVIOUS
  <2>3. n \in Nat /\ \A i \in 1 .. n : key[i] \in Str
    BY <1>1, <2>1, <2>2
  <2>4. 1 \in Int /\ n \in Int
    BY <2>3
  <2>5. /\ SubSeq(key, 1, n) \in Seq(Str)
        /\ Len(SubSeq(key, 1, n)) = IF 1 <= n THEN n - 1 + 1 ELSE 0
        /\ \A i \in 1 .. n - 1 + 1 : SubSeq(key, 1, n)[i] = key[1 + i - 1]
    BY <2>3, <2>4, SubSeqProperties
  <2>6. Len(SubSeq(key, 1, n)) = n
    BY <2>3, <2>5
  <2>7. \A i \in 1 .. n : SubSeq(key, 1, n)[i] = key[i]
    <3> TAKE i \in 1 .. n
    <3>1. i \in 1 .. n - 1 + 1 /\ 1 + i - 1 = i
      BY <2>3
    <3> QED BY <2>5, <3>1
  <2> QED BY <2>2, <2>5, <2>6, <2>7 DEF Front
<1>5. Begin(p, Len(p)) = p
  BY <1>2, SubSeqFull DEF Begin
<1>6. Begin(p, Len(b)) = b
  <2>1. CASE b = <<>>
    <3>1. Begin(p, 0) = <<>>
      BY SubSeqEmpty DEF Begin
    <3> QED BY <2>1, <3>1
  <2>2. CASE b # <<>>
    <3>1. 1 \in 1 .. Len(b) /\ Len(b) \in 1 .. Len(b)
      BY <1>1, <2>2, EmptySeq
    <3>2. SubSeq(b \o key, 1, Len(b)) = SubSeq(b, 1, Len(b))
      BY <3>1, SubSeqOfConcat1
    <3> QED BY <3>2, SubSeqFull DEF Begin
  <2> QED BY <2>1, <2>2
<1>7. Last(key) = p[Len(p)]
  BY <1>1, <1>2, <1>3 DEF Last
<1> QED BY <1>1, <1>2, <1>3, <1>4, <1>5, <1>6, <1>7 DEF PathParts

(* An entry that overrides another frees every object.                      *)
LEMMA FreedIs ==
  ASSUME NEW V, NEW w \in Graphs(V), NEW Q, Tree(w.heap, Q), w.live = 1 .. Len(w.heap),
         NEW r, r = Overriding(w)
  PROVE  /\ r \in Graphs(V) /\ r.failed /\ (r.aborted <=> w.aborted) /\ r.live = {} /\ r.env = NULL
         /\ r.heap = w.heap
<1>1. w.heap \in Seq(Objects(V))
  BY DEF Graphs
<1>2. w.live \ Below(w, Root) = {}
  BY <1>1, AllBelow
<1>3. r = [heap |-> w.heap, live |-> w.live \ Below(w, Root), env |-> NULL, at |-> NULL,
           failed |-> TRUE, aborted |-> w.aborted]
  BY DEF Overriding, object_free, Graphs
<1> QED BY <1>2, <1>3 DEF Graphs

(* Any entry, in any tree, with any hash function: an aborted generation    *)
(* has met a full table, a refused one frees all, and a taken one has its   *)
(* value under its path.                                                    *)
LEMMA EntryGen ==
  ASSUME HashNat, NEW V, TableValue \in V, \A v \in V : v.type = "table" => v = TableValue,
         NEW g, NEW P, Ready(g, V, P), NEW e, e.key \in Seq(Str), e.key # <<>>,
         EntryValue(e) \in V, NEW p, p = P[Base(g, e)] \o e.key, NEW r, r = GenEntry(g, e)
  PROVE  r \in Graphs(V) /\ Outcome(g, P, p, e, r)
<1> DEFINE base == Base(g, e)
           b == P[base]
           L == Len(p)
<1>1. PICK h : h = [g EXCEPT !.at = base, !.env = base]
  OBVIOUS
<1>2. PICK sub : sub = Walk(h, Front(e.key))
  OBVIOUS
<1>3. PICK name : name = Last(e.key)
  OBVIOUS
<1>4. r = IF sub.aborted THEN sub
             ELSE IF \/ sub.at = NULL
                     \/ table_object_lookup(sub, sub.at, name) # NULL
             THEN Overriding(sub)
             ELSE IF DeclaresTable(e)
             THEN LET made == Store(sub, name, TableValue)
                  IN  [made EXCEPT !.env = made.at]
             ELSE Store(sub, name, e.value)
  BY <1>1, <1>2, <1>3 DEF GenEntry
<1>5. /\ g \in Graphs(V) /\ Tree(g.heap, P) /\ ~g.aborted /\ ~g.failed
      /\ g.live = 1 .. Len(g.heap) /\ g.env \in 1 .. Len(g.heap)
      /\ g.heap[g.env].value = TableValue
  BY DEF Ready
<1>6. /\ base \in 1 .. Len(g.heap) /\ g.heap[base].value = TableValue
      /\ base = IF DeclaresTable(e) THEN Root ELSE g.env
  <2>1. 1 \in 1 .. Len(g.heap) /\ g.heap[1].value = TableValue
    BY SMTT(30), <1>5, LenProperties DEF Tree, Graphs
  <2> QED BY <1>5, <2>1 DEF Base, Root
<1>7. b \in Seq(Str)
  BY Zenon, <1>5, <1>6 DEF Tree, Named
<1>8. /\ p \in Seq(Str) /\ L = Len(b) + Len(e.key) /\ Len(e.key) >= 1
      /\ Len(b) \in Nat /\ Len(e.key) \in Nat /\ Begin(p, Len(b)) = b /\ Begin(p, L) = p
      /\ Front(e.key) \in Seq(Str) /\ Len(Front(e.key)) = Len(e.key) - 1
      /\ \A i \in 1 .. Len(e.key) - 1 : Front(e.key)[i] = p[Len(b) + i]
      /\ name = p[L]
  <2>1. PICK key : key = e.key
    OBVIOUS
  <2>2. PICK c : c = b
    OBVIOUS
  <2>3. key \in Seq(Str) /\ key # <<>> /\ c \in Seq(Str) /\ p = c \o key
    BY <1>7, <2>1, <2>2
  <2>4. /\ p \in Seq(Str) /\ Len(p) = Len(c) + Len(key) /\ Len(key) >= 1
        /\ Len(c) \in Nat /\ Len(key) \in Nat /\ Begin(p, Len(c)) = c /\ Begin(p, Len(p)) = p
        /\ Front(key) \in Seq(Str) /\ Len(Front(key)) = Len(key) - 1
        /\ \A i \in 1 .. Len(key) - 1 : Front(key)[i] = p[Len(c) + i]
        /\ Last(key) = p[Len(p)]
    <3>1. PathParts(c, key, p)
      BY <2>3, EntryPath
    <3> QED BY <3>1 DEF PathParts
  <2>5. name = p[Len(p)]
    BY <1>3, <2>1, <2>4
  <2>6. \A i \in 1 .. Len(e.key) - 1 : Front(e.key)[i] = p[Len(b) + i]
    BY <2>1, <2>2, <2>4
  <2>7. /\ Len(p) = Len(b) + Len(e.key) /\ Len(e.key) >= 1
        /\ Len(b) \in Nat /\ Len(e.key) \in Nat /\ Begin(p, Len(b)) = b /\ Begin(p, Len(p)) = p
        /\ Front(e.key) \in Seq(Str) /\ Len(Front(e.key)) = Len(e.key) - 1
    BY <2>1, <2>2, <2>4
  <2> HIDE DEF b
  <2> QED BY <2>4, <2>5, <2>6, <2>7
<1>9. Len(g.heap) \in Nat /\ L \in Nat /\ L \in 1 .. L /\ Len(b) + (Len(e.key) - 1) = L - 1
  <2>1. Len(g.heap) \in Nat
    BY <1>5, LenProperties DEF Graphs
  <2> HIDE DEF L, b
  <2> QED BY <1>8, <2>1
<1>10. /\ h \in Graphs(V) /\ h.heap = g.heap /\ h.live = g.live /\ h.at = base /\ h.env = base
       /\ ~h.aborted /\ ~h.failed
  BY <1>1, <1>5, <1>6, <1>9 DEF Graphs
<1> HIDE DEF base, b, L
<1>11. sub \in Graphs(V) /\ Walks(h, P, p, L - 1, sub)
  <2>1. P[h.at] = Begin(p, Len(b))
    BY <1>8, <1>10 DEF b
  <2>2. Tree(h.heap, P) /\ h.live = 1 .. Len(h.heap) /\ h.at \in 1 .. Len(h.heap)
        /\ h.heap[h.at].value = TableValue
    BY <1>5, <1>6, <1>10
  <2>3. PICK c : c = Len(b)
    OBVIOUS
  <2>4. PICK names : names = Front(e.key)
    OBVIOUS
  <2>5. /\ c \in Nat /\ names \in Seq(Str) /\ c + Len(names) <= Len(p) /\ P[h.at] = Begin(p, c)
        /\ \A i \in 1 .. Len(names) : names[i] = p[c + i]
    <3>1. c \in Nat /\ names \in Seq(Str) /\ P[h.at] = Begin(p, c) /\ Len(names) = Len(e.key) - 1
      BY <1>8, <2>1, <2>3, <2>4
    <3>2. c + Len(names) = L - 1 /\ L - 1 <= L
      BY <1>9, <2>3, <3>1
    <3>3. \A i \in 1 .. Len(names) : names[i] = p[c + i]
      BY <1>8, <2>3, <2>4, <3>1
    <3> QED BY <3>1, <3>2, <3>3 DEF L
  <2>6. Walk(h, names) \in Graphs(V) /\ Walks(h, P, p, c + Len(names), Walk(h, names))
    BY <1>8, <1>10, <2>2, <2>5, WalkWalks
  <2>7. c + Len(names) = L - 1
    BY <1>8, <1>9, <2>3, <2>4
  <2> QED BY <1>2, <2>4, <2>6, <2>7
<1>12. /\ \A d, w, Q : Walked(h, P, p, d, w, Q) => Walked(g, P, p, d, w, Q)
       /\ \A d : Overflows(h, P, p, d) => Overflows(g, P, p, d)
       /\ \A d : Obstructed(h, P, p, d) => Obstructed(g, P, p, d)
  <2>1. h.heap = g.heap
    BY <1>10
  <2>2. \A d, w, Q : Walked(h, P, p, d, w, Q) => Walked(g, P, p, d, w, Q)
    BY Zenon, <2>1 DEF Walked
  <2>3. \A d : Overflows(h, P, p, d) => Overflows(g, P, p, d)
    <3> TAKE d
    <3> HAVE Overflows(h, P, p, d)
    <3>1. PICK m \in 1 .. d : \E i \in 1 .. Len(h.heap) :
             /\ P[i] = Begin(p, m - 1)
             /\ DOMAIN h.heap[i].table.tab = 0 .. TABLE_INIT_BUF - 1
             /\ \A s \in DOMAIN h.heap[i].table.tab : h.heap[i].table.tab[s].key # p[m]
      BY DEF Overflows
    <3>2. \E i \in 1 .. Len(g.heap) :
             /\ P[i] = Begin(p, m - 1)
             /\ DOMAIN g.heap[i].table.tab = 0 .. TABLE_INIT_BUF - 1
             /\ \A s \in DOMAIN g.heap[i].table.tab : g.heap[i].table.tab[s].key # p[m]
      BY <2>1, <3>1
    <3> QED BY <3>2 DEF Overflows
  <2>4. \A d : Obstructed(h, P, p, d) => Obstructed(g, P, p, d)
    BY Zenon, <2>1 DEF Obstructed
  <2> QED BY <2>2, <2>3, <2>4
<1>13. \A m \in 1 .. L - 1 : m \in 1 .. L
  BY <1>9
<1>14. CASE sub.aborted /\ Overflows(h, P, p, L - 1)
  <2>1. Overflows(g, P, p, L)
    BY <1>12, <1>13, <1>14 DEF Overflows
  <2>2. r = sub
    BY <1>4, <1>14
  <2> QED BY <1>11, <1>14, <2>1, <2>2 DEF Outcome, L
<1>15. CASE /\ ~sub.aborted /\ sub.at = NULL /\ Obstructed(h, P, p, L - 1)
            /\ sub.heap = h.heap /\ sub.live = 1 .. Len(sub.heap) /\ sub.env = h.env
            /\ sub.failed = h.failed
  <2>1. r = Overriding(sub)
    BY <1>4, <1>15
  <2>2. Tree(sub.heap, P)
    BY <1>5, <1>10, <1>15
  <2>3. r \in Graphs(V) /\ r.failed /\ ~r.aborted /\ r.live = {} /\ r.env = NULL
    BY <1>11, <1>15, <2>1, <2>2, FreedIs
  <2>4. Obstructed(g, P, p, L)
    BY <1>12, <1>13, <1>15 DEF Obstructed
  <2> QED BY <2>3, <2>4 DEF Outcome, Refused, L
<1>16. CASE Reaches(h, P, p, L - 1, sub, TableValue)
  <2> DEFINE t == sub.heap[sub.at].table
  <2>1. PICK Q : Walked(h, P, p, L - 1, sub, Q)
    BY <1>16 DEF Reaches
  <2>2. /\ Tree(sub.heap, Q) /\ Q[sub.at] = Begin(p, L - 1) /\ Grows(g.heap, P, sub.heap, Q)
        /\ sub.heap # g.heap => t = NewTable
    BY <1>10, <2>1 DEF Walked
  <2>3. /\ ~sub.aborted /\ sub.live = 1 .. Len(sub.heap) /\ sub.at \in 1 .. Len(sub.heap)
        /\ sub.heap \in Seq(Objects(V)) /\ ~sub.failed /\ sub.env = base
    BY <1>10, <1>11, <1>16 DEF Reaches, Graphs
  <2>4. /\ Len(sub.heap) \in Nat /\ t \in Tables /\ Reachable(t)
        /\ \A s \in DOMAIN t.tab : t.tab[s].val # NULL
    BY <2>2, <2>3, TreeFacts DEF Tree
  <2>5. sub.at # NULL
    <3>1. sub.at \in Nat \ {0}
      BY <2>3, <2>4
    <3> QED BY <3>1, NullAssumption
  <2>6. CASE Lookup(t, name) # NULL
    <3>1. r = Overriding(sub)
      BY <1>4, <2>3, <2>6 DEF table_object_lookup
    <3>2. r \in Graphs(V) /\ r.failed /\ ~r.aborted /\ r.live = {} /\ r.env = NULL
      BY <1>11, <2>2, <2>3, <3>1, FreedIs
    <3>3. PICK f : f = Find(t, name)
      OBVIOUS
    <3>4. f \in DOMAIN t.tab /\ t.tab[f] = [key |-> name, val |-> Lookup(t, name)]
      BY <2>4, <2>6, <3>3, LookupIs
    <3>5. sub.heap = g.heap
      BY <2>2, <3>4, NewTableType
    <3>6. PICK k : k = t.tab[f].val
      BY Zenon
    <3>7. k \in sub.at + 1 .. Len(sub.heap) /\ Q[k] = Append(Q[sub.at], name)
      <4>1. t.tab[f].val \in sub.at + 1 .. Len(sub.heap)
        BY Zenon, <2>2, <2>3, <3>4 DEF Tree
      <4>2. Q[t.tab[f].val] = Append(Q[sub.at], t.tab[f].key)
        BY Zenon, <2>2, <2>3, <3>4 DEF Tree, Named
      <4>3. t.tab[f].key = name
        BY <3>4
      <4> QED BY Zenon, <3>6, <4>1, <4>2, <4>3
    <3>8. k \in 1 .. Len(g.heap) /\ Q[k] = P[k]
      <4>1. k \in 1 .. Len(g.heap)
        BY <2>3, <2>4, <3>5, <3>7
      <4> QED BY <2>2, <4>1 DEF Grows
    <3>9. Begin(p, L) = Append(Begin(p, L - 1), name)
      BY Zenon, <1>8, <1>9, BeginGrows DEF L
    <3>10. P[k] = p
      BY Zenon, <1>8, <2>2, <3>7, <3>8, <3>9
    <3> QED BY <3>2, <3>8, <3>10 DEF Outcome, Refused
  <2>7. CASE Lookup(t, name) = NULL
    <3>1. PICK made : made = Store(sub, name, EntryValue(e))
      OBVIOUS
    <3>2. /\ made \in Graphs(V)
          /\ \/ Reaches(h, P, p, L, made, EntryValue(e))
             \/ made.aborted /\ Overflows(h, P, p, L)
      <4>1. L \in 1 .. Len(p) /\ Tree(h.heap, P) /\ Lookup(sub.heap[sub.at].table, p[L]) = NULL
            /\ made = Store(sub, p[L], EntryValue(e))
        BY <1>5, <1>8, <1>9, <1>10, <2>7, <3>1 DEF L
      <4>2. PICK value : value = EntryValue(e)
        OBVIOUS
      <4>3. PICK d : d = L
        OBVIOUS
      <4>4. d \in 1 .. Len(p) /\ Lookup(sub.heap[sub.at].table, p[d]) = NULL /\ value \in V
            /\ made = Store(sub, p[d], value) /\ Reaches(h, P, p, d - 1, sub, TableValue)
        BY <1>16, <4>1, <4>2, <4>3
      <4>5. /\ made \in Graphs(V)
            /\ Reaches(h, P, p, d, made, value) \/ (made.aborted /\ Overflows(h, P, p, d))
        <5>1. /\ h \in Graphs(V) /\ Tree(h.heap, P) /\ p \in Seq(Str) /\ d \in 1 .. Len(p)
              /\ sub \in Graphs(V) /\ Reaches(h, P, p, d - 1, sub, TableValue) /\ value \in V
              /\ Lookup(sub.heap[sub.at].table, p[d]) = NULL /\ made = Store(sub, p[d], value)
          BY <1>8, <1>10, <1>11, <4>1, <4>4
        <5> QED BY Zenon, <5>1, StoreReaches
      <4>6. Reaches(h, P, p, d, made, value) => Reaches(h, P, p, L, made, EntryValue(e))
        BY Zenon, <4>2, <4>3
      <4>7. Overflows(h, P, p, d) => Overflows(h, P, p, L)
        BY Zenon, <4>3
      <4> QED BY <4>5, <4>6, <4>7
    <3>3. r = IF DeclaresTable(e) THEN [made EXCEPT !.env = made.at] ELSE made
      BY <1>4, <2>3, <2>5, <2>7, <3>1 DEF table_object_lookup, EntryValue
    <3>4. /\ r \in Graphs(V) /\ r.heap = made.heap /\ r.live = made.live /\ r.at = made.at
          /\ r.env = (IF DeclaresTable(e) THEN made.at ELSE made.env)
          /\ r.failed = made.failed /\ r.aborted = made.aborted
      BY <3>2, <3>3 DEF Graphs
    <3>5. CASE made.aborted /\ Overflows(h, P, p, L)
      BY <1>12, <3>4, <3>5 DEF Outcome, L
    <3>6. CASE Reaches(h, P, p, L, made, EntryValue(e))
      <4>1. PICK R : Walked(h, P, p, L, made, R)
        BY <3>6 DEF Reaches
      <4>2. Walked(g, P, p, L, made, R)
        BY <1>12, <4>1
      <4>3. Walked(g, P, p, L, r, R)
        BY <3>4, <4>2 DEF Walked
      <4>4. /\ ~made.aborted /\ made.failed = h.failed /\ made.env = h.env
            /\ made.live = 1 .. Len(made.heap) /\ made.at \in 1 .. Len(made.heap)
            /\ made.heap[made.at].value = EntryValue(e)
        BY <3>6 DEF Reaches
      <4>5. r.env = IF DeclaresTable(e) THEN r.at ELSE g.env
        BY <1>6, <1>10, <3>4, <4>4
      <4>6. Len(g.heap) < r.at
        <5>1. ~Insertable(t, name) => made.aborted
          <6>1. ~Insertable(t, name) => made = [sub EXCEPT !.aborted = TRUE]
            BY <1>11, <2>3, <3>1, StoreIs
          <6> QED BY <1>11, <6>1 DEF Graphs
        <5>2. made.at = Len(sub.heap) + 1
          BY <1>11, <2>3, <3>1, <4>4, <5>1, StoreIs
        <5>3. Len(g.heap) <= Len(sub.heap)
          BY <2>2 DEF Grows
        <5> QED BY <1>9, <2>4, <3>4, <5>2, <5>3
      <4>7. Taken(g, P, p, e, r)
        BY <1>10, <3>4, <4>3, <4>4, <4>5, <4>6 DEF Taken, L
      <4> QED BY <3>4, <4>7 DEF Outcome
    <3> QED BY <3>2, <3>5, <3>6
  <2> QED BY <2>6, <2>7
<1> QED BY <1>11, <1>14, <1>15, <1>16 DEF Walks

-----------------------------------------------------------------------------
(* Ports.                                                                   *)

(* A digit has a value.                                                     *)
LEMMA DigitIs ==
  ASSUME NEW c \in Digits
  PROVE  DigitValue(c) \in Nat
<1>1. \E n \in 0 .. 9 : ToString(n) = c
  BY DigitsAssumption
<1>2. DigitValue(c) \in 0 .. 9
  BY <1>1 DEF DigitValue
<1> QED BY <1>2

(* So have digits.                                                          *)
LEMMA DecimalType ==
  ASSUME NEW digits, Len(digits) \in Nat, \A i \in 1 .. Len(digits) : digits[i] \in Digits
  PROVE  Decimal(digits) \in Nat
<1> DEFINE L == Len(digits)
           Body(x, i) == 10 * x + DigitValue(digits[i])
           Is(f) == f = [i \in 0 .. L |-> IF i = 0 THEN 0 ELSE Body(f[i - 1], i)]
           made == CHOOSE f : Is(f)
           step == [i \in 1 .. L |-> [x \in Nat |-> Body(x, i)]]
           base == 0
<1>1. L \in Nat
  OBVIOUS
<1>2. \A i \in 1 .. L, x \in Nat : Body(x, i) \in Nat
  <2> TAKE i \in 1 .. L, x \in Nat
  <2>1. DigitValue(digits[i]) \in Nat
    BY DigitIs
  <2> QED BY <2>1
<1>3. Decimal(digits) = made[L]
  BY Zenon DEF Decimal
<1> HIDE DEF Body, L
<1>4. step \in [1 .. L -> [Nat -> Nat]]
  BY <1>2
<1>5. PICK h \in [0 .. L -> Nat] : Built(h, 0, step, L)
  BY <1>1, <1>4, StepByStep
<1>6. Is(h)
  <2>1. \A i \in 1 .. L : h[i - 1] \in Nat
    BY <1>1
  <2>2. \A i \in 1 .. L : h[i] = Body(h[i - 1], i)
    BY <1>5, <2>1 DEF Built
  <2>3. \A i \in 0 .. L : h[i] = IF i = 0 THEN 0 ELSE Body(h[i - 1], i)
    BY <1>1, <1>5, <2>2 DEF Built
  <2>4. h = [i \in 0 .. L |-> h[i]]
    OBVIOUS
  <2> QED BY <2>3, <2>4
<1>7. Is(made)
  <2> HIDE DEF Is
  <2> QED BY <1>6
<1> HIDE DEF made
<1>8. made[0] = 0 /\ \A i \in 1 .. L : made[i] = Body(made[i - 1], i)
  BY <1>1, <1>7
<1> DEFINE Typed == {k \in 0 .. L : made[k] \in Nat}
<1>9. 0 \in Typed
  BY <1>1, <1>8
<1>10. \A i \in 1 .. L : i - 1 \in Typed => i \in Typed
  <2> TAKE i \in 1 .. L
  <2> HAVE i - 1 \in Typed
  <2>1. made[i - 1] \in Nat
    OBVIOUS
  <2>2. Body(made[i - 1], i) \in Nat
    BY <1>2, <2>1
  <2>3. i \in 0 .. L /\ made[i] = Body(made[i - 1], i)
    BY <1>1, <1>8
  <2> QED BY <2>2, <2>3
<1>11. L \in Typed
  <2> HIDE DEF Typed
  <2>1. \A i \in 0 .. L : i \in Typed
    BY <1>1, <1>9, <1>10, UpTo
  <2> QED BY <1>1, <2>1
<1> QED BY <1>3, <1>11

(* The first place of a text with such a character, or 0.                   *)
LEMMA FirstPlace ==
  ASSUME NEW L \in Nat, NEW I \in SUBSET (1 .. L), NEW n, n = IF I # {} THEN Min(I) ELSE 0
  PROVE  n \in 0 .. L /\ (n = 0 => I = {}) /\ (n # 0 => \A m \in 1 .. n - 1 : m \notin I)
<1>1. CASE I = {}
  BY <1>1
<1>2. CASE I # {}
  <2>1. I \in SUBSET Nat
    OBVIOUS
  <2>2. \E j \in I : \A m \in I : j <= m
    BY <1>2, <2>1, Least
  <2>3. n = CHOOSE x \in I : \A y \in I : x <= y
    BY <1>2 DEF Min
  <2>4. n \in I /\ \A m \in I : n <= m
    BY <2>2, <2>3
  <2> QED BY <2>4
<1> QED BY <1>1, <1>2

(* sscanf gives an integer.                                                 *)
LEMMA NumberType ==
  ASSUME NEW text \in Str
  PROVE  Number(text).num \in Int
<1> DEFINE signed == text # <<>> /\ Head(text) \in {"+", "-"}
           rest == IF signed THEN Tail(text) ELSE text
           n == SelectInSeq(rest, LAMBDA c : c \notin Digits)
           digits == IF n = 0 THEN rest ELSE SubSeq(rest, 1, n - 1)
<1>1. rest \in Str
  BY HeadTailProperties DEF Str
<1>2. PICK r : r = rest
  OBVIOUS
<1>3. Len(r) \in Nat /\ \A i \in 1 .. Len(r) : r[i] \in Chars
  BY <1>1, <1>2, LenProperties, ElementOfSeq DEF Str
<1>4. PICK k : k = n
  OBVIOUS
<1> DEFINE I == {i \in 1 .. Len(r) : r[i] \notin Digits}
<1>5. k = IF I # {} THEN Min(I) ELSE 0
  <2>1. k = SelectInSeq(r, LAMBDA c : c \notin Digits)
    BY <1>2, <1>4
  <2>2. I = {i \in 1 .. Len(r) : r[i] \notin Digits}
    OBVIOUS
  <2> HIDE DEF I, n, rest
  <2> QED BY <2>1, <2>2, Zenon DEF SelectInSeq
<1>6. k \in 0 .. Len(r) /\ (k = 0 => I = {}) /\ (k # 0 => \A m \in 1 .. k - 1 : m \notin I)
  <2>1. I \in SUBSET (1 .. Len(r))
    OBVIOUS
  <2> HIDE DEF I
  <2> QED BY <1>3, <1>5, <2>1, FirstPlace
<1>7. PICK ds : ds = IF k = 0 THEN r ELSE SubSeq(r, 1, k - 1)
  OBVIOUS
<1>8. Len(ds) \in Nat /\ \A i \in 1 .. Len(ds) : ds[i] \in Digits
  <2>1. CASE k = 0
    BY <1>3, <1>6, <1>7, <2>1
  <2>2. CASE k # 0
    <3>1. PICK e : e = k - 1
      OBVIOUS
    <3>2. e \in Nat /\ e <= Len(r) /\ \A i \in 1 .. e : r[i] \in Digits
      BY <1>3, <1>6, <2>2, <3>1
    <3>3. 1 \in Int /\ e \in Int
      BY <3>2
    <3>4. /\ SubSeq(r, 1, e) \in Seq(Digits)
      BY <3>2, <3>3, SubSeqProperties
    <3>5. ds \in Seq(Digits)
      BY <1>7, <2>2, <3>1, <3>4
    <3> QED BY <3>5, LenProperties, ElementOfSeq
  <2> QED BY <2>1, <2>2
<1>9. Decimal(ds) \in Nat
  BY <1>8, DecimalType
<1>10. digits = ds
  BY <1>2, <1>4, <1>7
<1>11. Number(text).num = IF signed /\ Head(text) = "-" THEN - Decimal(digits) ELSE Decimal(digits)
  BY Zenon DEF Number
<1> HIDE DEF signed, digits
<1> QED BY <1>9, <1>10, <1>11

(* A port is cut to 16 bits.                                                *)
LEMMA PortType == ASSUME NEW n \in Int PROVE Port(n) \in Ports
BY SMTT(60) DEF Port, Ports

(* So is the port of every target.                                          *)
LEMMA TargetType ==
  ASSUME NEW node, NEW service \in Str, NEW x \in target_id_parse(node, service)
  PROVE  x.port \in Ports
<1> DEFINE n == SelectInSeq(service, LAMBDA c : c # "sp")
           rest == IF n = 0 THEN <<>> ELSE SubSeq(service, n, Len(service))
           ports == IF rest = <<>> THEN AnyPort
                    ELSE IF Number(rest).any THEN {Number(rest).num} ELSE {}
<1>1. target_id_parse(node, service) =
        {[node |-> node, kind |-> Kind(node), port |-> Port(p)] : p \in ports}
  BY Zenon DEF target_id_parse
<1>2. Len(service) \in Nat /\ \A i \in 1 .. Len(service) : service[i] \in Chars
  BY LenProperties, ElementOfSeq DEF Str
<1> DEFINE I == {i \in 1 .. Len(service) : service[i] # "sp"}
<1>3. PICK k : k = n
  OBVIOUS
<1>4. k = IF I # {} THEN Min(I) ELSE 0
  <2>1. k = SelectInSeq(service, LAMBDA c : c # "sp")
    BY <1>3
  <2> HIDE DEF n
  <2> QED BY <2>1, Zenon DEF SelectInSeq
<1>5. k \in 0 .. Len(service)
  <2>1. I \in SUBSET (1 .. Len(service))
    OBVIOUS
  <2> HIDE DEF I
  <2> QED BY <1>2, <1>4, <2>1, FirstPlace
<1>6. rest \in Str
  <2>1. CASE k = 0
    BY <1>3, <2>1 DEF Str
  <2>2. CASE k # 0
    <3>1. \A i \in k .. Len(service) : service[i] \in Chars
      BY <1>2, <1>5, <2>2
    <3>2. k \in Int /\ Len(service) \in Int
      BY <1>2, <1>5
    <3>3. SubSeq(service, k, Len(service)) \in Seq(Chars)
      BY <3>1, <3>2, SubSeqProperties
    <3> QED BY <1>3, <2>2, <3>3 DEF Str
  <2> QED BY <2>1, <2>2
<1> HIDE DEF rest
<1>7. \A p \in ports : p \in Int
  BY <1>6, NumberType, AnyPortAssumption
<1> HIDE DEF ports
<1>8. PICK p \in ports : x = [node |-> node, kind |-> Kind(node), port |-> Port(p)]
  BY <1>1
<1>9. x.port = Port(p)
  BY <1>8
<1>10. PICK q : q = Port(p)
  OBVIOUS
<1>11. q \in Ports
  <2>1. p \in Int
    BY <1>7
  <2> QED BY <1>10, <2>1, PortType
<1>12. x.port = q
  BY <1>9, <1>10
<1> QED BY <1>11, <1>12

-----------------------------------------------------------------------------
(* What the tables of a configuration hold.                                 *)

Vals(list) == ValuesIn(list) \cup {TableValue}

(* The value of a token is a string, a number or a Boolean.                 *)
LEMMA ValueIs ==
  ASSUME NEW tok, tok.text \in Str \/ tok = NoToken
  PROVE  TokenValue(tok).str \in Str /\ TokenValue(tok).type \in {"string", "int", "bool"}
<1>1. CASE tok.kind = "string"
  <2>1. tok.text \in Str
    BY <1>1 DEF NoToken
  <2>2. PICK text : text = tok.text
    OBVIOUS
  <2>3. text \in Seq(Chars) /\ Len(text) \in Nat
    BY <2>1, <2>2, LenProperties DEF Str
  <2>4. \A j \in 2 .. Len(text) - 1 : text[j] \in Chars
    BY <2>3, ElementOfSeq
  <2>5. SubSeq(text, 2, Len(text) - 1) \in Seq(Chars)
    BY <2>3, <2>4, SubSeqProperties
  <2>6. TokenValue(tok) = [type |-> "string", str |-> Unquoted(tok), num |-> 0]
    BY <1>1 DEF TokenValue, Value
  <2> QED BY <2>2, <2>5, <2>6 DEF Unquoted, Str
<1>2. CASE tok.kind # "string"
  <2>1. <<>> \in Str
    BY DEF Str
  <2>2. TokenValue(tok).str = <<>> /\ TokenValue(tok).type \in {"int", "bool"}
    BY <1>2 DEF TokenValue, Value
  <2> QED BY <2>1, <2>2
<1> QED BY <1>1, <1>2

(* Only the value of a table is a table, and only NoValue is none.          *)
LEMMA ValsAre ==
  ASSUME NEW list, Texts(list), NEW v \in Vals(list)
  PROVE  /\ v.str \in Str /\ (v.type = "table" => v = TableValue)
         /\ (v.type = "none" <=> v = NoValue)
<1>1. <<>> \in Str
  BY DEF Str
<1>2. CASE v \in {TableValue, NoValue}
  BY <1>1, <1>2 DEF TableValue, NoValue, Value
<1>3. CASE \E i \in 1 .. Len(list) : v = TokenValue(list[i])
  <2>1. v.str \in Str /\ v.type \in {"string", "int", "bool"}
    BY <1>3, ValueIs DEF Texts
  <2> QED BY <2>1 DEF NoValue, Value
<1>4. CASE v = TokenValue(NoToken)
  <2>1. v.str \in Str /\ v.type \in {"string", "int", "bool"}
    BY <1>4, ValueIs
  <2> QED BY <2>1 DEF NoValue, Value
<1> QED BY <1>2, <1>3, <1>4 DEF Vals, ValuesIn

-----------------------------------------------------------------------------
(* Lookups.                                                                 *)

(* A lookup in a table finds an object, or nothing.                         *)
LEMMA LookupFinds ==
  ASSUME NEW V, NEW g, g.heap \in Seq(Objects(V)), NEW P, Tree(g.heap, P),
         NEW i \in 1 .. Len(g.heap), NEW name
  PROVE  table_object_lookup(g, i, name) \in {NULL} \cup 1 .. Len(g.heap)
<1>1. PICK heap : heap = g.heap
  OBVIOUS
<1>2. PICK t : t = heap[i].table
  OBVIOUS
<1>3. /\ t \in Tables /\ \A s \in DOMAIN t.tab : t.tab[s].val # NULL
  BY <1>1, <1>2, TreeFacts
<1>4. /\ Reachable(t)
      /\ \A s \in DOMAIN t.tab : t.tab[s].val \in i + 1 .. Len(heap)
  BY <1>1, <1>2 DEF Tree
<1>5. Lookup(t, name) # NULL => \E s \in DOMAIN t.tab : t.tab[s].val = Lookup(t, name)
  <2>1. Lookup(t, name) # NULL =>
               /\ Find(t, name) \in DOMAIN t.tab
               /\ t.tab[Find(t, name)] = [key |-> name, val |-> Lookup(t, name)]
    BY <1>3, <1>4, LookupIs
  <2> QED BY <2>1
<1>6. Len(heap) \in Nat
  BY <1>1, LenProperties
<1>7. Lookup(t, name) \in {NULL} \cup 1 .. Len(heap)
  BY <1>4, <1>5, <1>6
<1> QED BY <1>1, <1>2, <1>7 DEF table_object_lookup

(* So does a lookup by a path.                                              *)
LEMMA ConfigLookup ==
  ASSUME NEW V, NEW g, g.heap \in Seq(Objects(V)), NEW P, Tree(g.heap, P),
         NEW a, NEW b
  PROVE  toml_lookup(g, <<a, b>>) \in {NULL} \cup 1 .. Len(g.heap)
<1> DEFINE path == <<a, b>>
           Body(cur, name) == IF cur = NULL \/ ~IsTable(g, cur) THEN NULL
                              ELSE table_object_lookup(g, cur, name)
           Is(f) == f = [n \in 0 .. Len(path) |-> IF n = 0 THEN Root ELSE Body(f[n - 1], path[n])]
           made == CHOOSE f : Is(f)
           F == {NULL} \cup 1 .. Len(g.heap)
           x1 == Body(Root, a)
           x2 == Body(x1, b)
           h == [n \in 0 .. 2 |-> IF n = 0 THEN Root ELSE IF n = 1 THEN x1 ELSE x2]
<1>1. toml_lookup(g, path) = made[Len(path)]
  BY Zenon DEF toml_lookup
<1>2. Len(path) = 2 /\ path[1] = a /\ path[2] = b
  OBVIOUS
<1>3. Root \in F
  BY DEF Tree, Root
<1>4. \A cur \in F : \A name : Body(cur, name) \in F
  <2> TAKE cur \in F
  <2> TAKE name
  <2>1. CASE cur \in 1 .. Len(g.heap)
    <3>1. table_object_lookup(g, cur, name) \in F
      BY <2>1, LookupFinds
    <3> QED BY <3>1
  <2>2. CASE cur = NULL
    BY <2>2
  <2> QED BY <2>1, <2>2
<1> HIDE DEF Body, F
<1>5. x1 \in F /\ x2 \in F
  BY <1>3, <1>4
<1> HIDE DEF path, x1, x2
<1>6. Is(h)
  <2>1. h[0] = Root /\ h[1] = x1 /\ h[2] = x2
    OBVIOUS
  <2>2. x1 = Body(h[0], path[1]) /\ x2 = Body(h[1], path[2])
    BY <1>2, <2>1 DEF x1, x2
  <2>3. \A n \in 0 .. 2 : n = 0 \/ n = 1 \/ n = 2
    OBVIOUS
  <2>4. \A n \in 0 .. 2 : h[n] = IF n = 0 THEN Root ELSE Body(h[n - 1], path[n])
    <3>1. h[0] = IF 0 = 0 THEN Root ELSE Body(h[0 - 1], path[0])
      BY <2>1
    <3>2. 1 - 1 = 0 /\ 2 - 1 = 1 /\ 1 # 0 /\ 2 # 0
      OBVIOUS
    <3> HIDE DEF h
    <3> QED BY <2>1, <2>2, <2>3, <3>1, <3>2
  <2>5. h = [n \in 0 .. 2 |-> h[n]]
    OBVIOUS
  <2> HIDE DEF h
  <2> QED BY <1>2, <2>4, <2>5
<1> HIDE DEF h
<1>7. Is(made)
  <2> HIDE DEF Is
  <2> QED BY <1>6
<1> HIDE DEF made
<1>8. made[0] = Root /\ made[1] = Body(made[0], path[1]) /\ made[2] = Body(made[1], path[2])
  BY <1>2, <1>7
<1>9. made[2] \in F
  BY <1>3, <1>4, <1>8
<1>10. toml_lookup(g, path) \in F
  BY <1>1, <1>2, <1>9
<1> QED BY <1>10 DEF F, path

-----------------------------------------------------------------------------
(* Inbounds and outbounds.                                                  *)

(* The fields of a side are strings.                                        *)
LEMMA ConfigStrings ==
  ASSUME NEW V, \A v \in V : v.str \in Str, objs.heap \in Seq(Objects(V)),
         NEW P, Tree(objs.heap, P), NEW side, NEW field,
         NEW x \in config_lookup_string(side, field)
  PROVE  x \in Str
<1>1. PICK id : id = toml_lookup(objs, <<<<side>>, <<field>>>>)
  OBVIOUS
<1>2. id \in {NULL} \cup 1 .. Len(objs.heap)
  BY <1>1, ConfigLookup
<1>3. PICK i \in {id} \ {NULL} : x = objs.heap[i].value.str
  BY <1>1 DEF config_lookup_string
<1>4. i \in 1 .. Len(objs.heap)
  BY <1>2, <1>3
<1>5. objs.heap[i].value \in V
  BY <1>4, TreeFacts
<1> QED BY <1>3, <1>5

(* What is built of a side has a port of 16 bits.                           *)
LEMMA SidePorts ==
  ASSUME NEW V, \A v \in V : v.str \in Str, objs.heap \in Seq(Objects(V)),
         NEW P, Tree(objs.heap, P), NEW side, NEW x \in LoadSide(side)
  PROVE  x.at.port \in Ports
<1>1. ASSUME NEW target \in LoadParam(side) PROVE target.port \in Ports
  <2>1. PICK node \in config_lookup_string(side, NodeField(side)),
             port \in config_lookup_string(side, "port") :
               target \in target_id_parse(node, port)
    BY <1>1 DEF LoadParam
  <2>2. port \in Str
    BY <2>1, ConfigStrings
  <2>3. target \in target_id_parse(node, port)
    BY <2>1
  <2> QED BY <2>2, <2>3, TargetType
<1>2. PICK m : x \in Build(side, m[side])
  BY DEF LoadSide
<1>3. PICK kind : kind = m[side]
  OBVIOUS
<1>4. x \in Build(side, kind)
  BY <1>2, <1>3
<1>5. kind # "none"
  <2>1. kind = "none" => Build(side, kind) = {}
    BY Zenon DEF Build
  <2> QED BY <1>4, <2>1
<1>6. CASE kind = "native"
  <2>1. Build(side, kind) = {[kind |-> kind, at |-> NoTarget, pass |-> <<>>]}
    BY <1>5, <1>6, Zenon DEF Build
  <2>2. x.at = NoTarget
    BY <1>4, <2>1
  <2>3. 0 \in 0 .. 65535
    OBVIOUS
  <2> QED BY <2>2, <2>3 DEF NoTarget, Ports
<1>7. CASE kind # "native"
  <2> DEFINE passes == IF kind = "vmess" THEN config_lookup_string(side, "pass") ELSE {<<>>}
  <2>1. Build(side, kind) = {[kind |-> kind, at |-> param[1], pass |-> param[2]] :
                                param \in LoadParam(side) \X passes}
    BY <1>5, <1>7, Zenon DEF Build
  <2> HIDE DEF passes
  <2>2. PICK param \in LoadParam(side) \X passes :
            x = [kind |-> kind, at |-> param[1], pass |-> param[2]]
    BY <1>4, <2>1
  <2>3. x.at = param[1] /\ param[1] \in LoadParam(side)
    BY <2>2
  <2> QED BY <1>1, <2>3
<1> QED BY <1>6, <1>7

-----------------------------------------------------------------------------
(* The steps of the program.                                                *)

(* An entry leaves the objects ready for the next one, or frees them.       *)
LEMMA GenReady ==
  ASSUME HashNat, NEW V, TableValue \in V, \A v \in V : v.type = "table" => v = TableValue,
         NEW g, NEW P, Ready(g, V, P), NEW e, e.key \in Seq(Str), EntryValue(e) \in V,
         NEW r, r = GenEntry(g, e), ~r.aborted
  PROVE  \/ r.failed /\ r.live = {} /\ r.env = NULL
         \/ ~r.failed /\ \E Q : Ready(r, V, Q)
<1>1. CASE e.key = <<>>
  <2>1. r = [heap |-> g.heap, live |-> g.live, env |-> Root, at |-> g.at,
             failed |-> g.failed, aborted |-> g.aborted]
    BY <1>1 DEF GenEntry, Ready, Graphs
  <2>2. Tree(g.heap, P) /\ g \in Graphs(V) /\ g.live = 1 .. Len(g.heap) /\ ~g.failed /\ ~g.aborted
    BY DEF Ready
  <2>3. 1 \in 1 .. Len(g.heap) /\ g.heap[1].value = TableValue
    <3>1. Len(g.heap) \in Nat
      BY <2>2, LenProperties DEF Graphs
    <3> QED BY <2>2, <3>1 DEF Tree
  <2>4. r \in Graphs(V)
    BY <2>1, <2>2 DEF Graphs, Root
  <2>5. Ready(r, V, P)
    BY <2>1, <2>2, <2>3, <2>4 DEF Ready, Root
  <2> QED BY <2>1, <2>2, <2>5
<1>2. CASE e.key # <<>>
  <2>1. PICK p : p = P[Base(g, e)] \o e.key
    OBVIOUS
  <2>2. r \in Graphs(V) /\ Outcome(g, P, p, e, r)
    BY <1>2, <2>1, EntryGen
  <2>3. CASE Refused(g, P, p, r)
    BY <2>3 DEF Refused
  <2>4. CASE Taken(g, P, p, e, r)
    <3>1. PICK Q : Walked(g, P, p, Len(p), r, Q)
      BY <2>4 DEF Taken
    <3>2. Tree(r.heap, Q) /\ Grows(g.heap, P, r.heap, Q)
      BY <3>1 DEF Walked
    <3>3. /\ ~r.failed /\ ~r.aborted /\ r.live = 1 .. Len(r.heap) /\ r.at \in 1 .. Len(r.heap)
          /\ r.env = IF DeclaresTable(e) THEN r.at ELSE g.env
          /\ r.heap[r.at].value = EntryValue(e)
      BY <2>4 DEF Taken
    <3>4. r.env \in 1 .. Len(r.heap) /\ r.heap[r.env].value = TableValue
      <4>1. CASE DeclaresTable(e)
        BY <3>3, <4>1 DEF EntryValue
      <4>2. CASE ~DeclaresTable(e)
        <5>1. g.env \in 1 .. Len(g.heap) /\ g.heap[g.env].value = TableValue
          BY DEF Ready
        <5>2. Len(g.heap) \in Nat /\ Len(r.heap) \in Nat
          BY <2>2, LenProperties DEF Ready, Graphs
        <5>3. Len(g.heap) <= Len(r.heap) /\ r.heap[g.env].value = g.heap[g.env].value
          BY <3>2, <5>1 DEF Grows
        <5> QED BY <3>3, <4>2, <5>1, <5>2, <5>3
      <4> QED BY <4>1, <4>2
    <3>5. Ready(r, V, Q)
      BY <2>2, <3>2, <3>3, <3>4 DEF Ready
    <3> QED BY <3>3, <3>5
  <2> QED BY <2>2, <2>3, <2>4 DEF Outcome
<1> QED BY <1>1, <1>2

(* The root alone is ready for the first one.                               *)
LEMMA NewReady ==
  ASSUME NEW V, TableValue \in V
  PROVE  \E P : Ready(NewObjects, V, P)
<1> DEFINE P == <<<<>>>>
           heap == <<Object(TableValue)>>
<1>1. Object(TableValue) \in Objects(V)
  BY NewTableType DEF Object, Objects
<1>2. heap \in Seq(Objects(V)) /\ Len(heap) = 1 /\ heap[1] = Object(TableValue)
  BY <1>1
<1>3. heap[1].value = TableValue /\ heap[1].table = NewTable
  BY <1>2 DEF Object
<1>4. Reachable(NewTable) /\ DOMAIN NewTable.tab = {}
  BY NewTableType DEF Reachable
<1>5. <<>> \in Seq(Str)
  OBVIOUS
<1>6. P \in [1 .. 1 -> Seq(Str)] /\ P[1] = <<>>
  <2>1. P \in Seq(Seq(Str)) /\ Len(P) = 1 /\ P[1] = <<>>
    BY <1>5
  <2> HIDE DEF P
  <2> QED BY <2>1, LenProperties
<1> HIDE DEF heap, P
<1>7. Named(heap, P)
  BY <1>2, <1>3, <1>4, <1>6 DEF Named
<1>8. Tree(heap, P)
  BY <1>2, <1>3, <1>4, <1>7 DEF Tree
<1>9. NewObjects = [heap |-> heap, live |-> {1}, env |-> 1, at |-> 1, failed |-> FALSE, aborted |-> FALSE]
  BY DEF NewObjects, heap, Root
<1>10. NewObjects \in Graphs(V)
  BY <1>2, <1>9 DEF Graphs
<1>11. Ready(NewObjects, V, P)
  <2>1. PICK g : g = NewObjects
    OBVIOUS
  <2>2. /\ g.heap = heap /\ g.live = {1} /\ g.env = 1 /\ ~g.failed /\ ~g.aborted
    BY <1>9, <2>1
  <2>3. 1 .. Len(heap) = {1}
    BY <1>2
  <2>4. Ready(g, V, P)
    BY <1>2, <1>3, <1>8, <1>10, <2>1, <2>2, <2>3 DEF Ready
  <2> QED BY <2>1, <2>4
<1> QED BY <1>11

-----------------------------------------------------------------------------
(* The inductive invariant.                                                 *)

Pcs == {"open", "lex", "parse", "gen", "load", "serve", "exit", "crashed", "aborted"}

Held == Vals(Tokens(lexing))

(* Nothing is made before the file is parsed.                               *)
BeforeGen ==
    pc \in {"open", "lex", "parse", "crashed"} => entries = <<>> /\ done = 0 /\ objs = NoObjects

(* The objects are a tree, or they are freed.                               *)
ObjectsOK ==
    /\ pc \in {"gen", "load", "serve", "aborted"} => \E P : Ready(objs, Held, P)
    /\ pc = "exit" => objs.live = {} /\ objs.env = NULL

EntriesOK ==
    /\ entries \in Seq(EntriesIn(Tokens(lexing))) /\ done \in 0 .. Len(entries)
    /\ pc = "gen" => done < Len(entries)
    /\ pc \in {"load", "serve"} => entries # <<>>

ServersOK ==
    /\ servers \in Seq({Server(in) : in \in inbound}) /\ Len(servers) <= NThread
    /\ pc # "serve" => servers = <<>>
    /\ pc \notin {"serve", "exit"} => inbound = {} /\ outbound = {}
    /\ \A x \in inbound \cup outbound : x.at.port \in Ports
    /\ taken \in BOOLEAN

ConfigOK == LexOK /\ pc \in Pcs /\ BeforeGen /\ EntriesOK /\ ObjectsOK /\ ServersOK

(* The tokens are a sequence of texts.                                      *)
LEMMA TokensOK ==
  ASSUME LexOK
  PROVE  Len(Tokens(lexing)) \in Nat /\ Texts(Tokens(lexing))
<1>1. lexing.tokens \in Seq(Token)
  BY DEF LexOK, LexInv, Lexings
<1>2. Tokens(lexing) \in Seq(Token)
  BY <1>1, TokensType
<1>3. PICK list : list = Tokens(lexing)
  OBVIOUS
<1>4. Len(list) \in Nat /\ \A i \in 1 .. Len(list) : list[i] \in Token
  BY <1>2, <1>3, LenProperties, ElementOfSeq
<1>5. \A i \in 1 .. Len(list) : list[i].text \in Str
  BY <1>4 DEF Token
<1> QED BY <1>3, <1>4, <1>5 DEF Texts

(* What the parser makes of an entry fits into a table.                     *)
LEMMA EntryIs ==
  ASSUME LexOK, NEW e \in EntriesIn(Tokens(lexing))
  PROVE  /\ e.key \in Seq(Str) /\ EntryValue(e) \in Held
         /\ (DeclaresTable(e) <=> e.value = NoValue)
<1>1. PICK k \in Seq(Str), v \in ValuesIn(Tokens(lexing)) : e = Entry(k, v)
  BY DEF EntriesIn
<1>2. e.key = k /\ e.value = v
  BY <1>1 DEF Entry
<1>3. v \in Held /\ TableValue \in Held
  BY DEF Held, Vals
<1>4. v.type = "none" <=> v = NoValue
  BY <1>3, TokensOK, ValsAre DEF Held
<1> QED BY <1>2, <1>3, <1>4 DEF EntryValue, DeclaresTable

(* The values that the objects may hold.                                    *)
LEMMA ValsOK ==
  ASSUME LexOK
  PROVE  TableValue \in Held /\ (\A v \in Held : v.str \in Str) /\ \A v \in Held : v.type = "table" => v = TableValue
<1>1. \A v \in Held : v.str \in Str /\ (v.type = "table" => v = TableValue)
  BY TokensOK, ValsAre DEF Held
<1> QED BY <1>1 DEF Held, Vals

(* Every step keeps it; the lexer's part is LexOKHolds.                     *)
LEMMA StartOK == Init => ConfigOK
<1> SUFFICES ASSUME Init PROVE ConfigOK
  OBVIOUS
<1>1. LexOK
  BY LexInvInit, DocumentsAssumption DEF Init, LexOK
<1>2. pc = "open" /\ entries = <<>> /\ done = 0 /\ objs = NoObjects
  BY DEF Init
<1>3. EntriesOK
  BY <1>2 DEF EntriesOK
<1>4. servers = <<>> /\ inbound = {} /\ outbound = {} /\ taken = FALSE
  BY DEF Init
<1>5. ServersOK
  <2>1. servers \in Seq({Server(in) : in \in inbound}) /\ Len(servers) = 0
    BY <1>4
  <2>2. \A x \in inbound \cup outbound : x.at.port \in Ports
    BY <1>4
  <2>3. taken \in BOOLEAN
    BY <1>4
  <2>4. Len(servers) <= NThread
    BY <2>1, NThreadAssumption
  <2>5. /\ pc # "serve" => servers = <<>>
        /\ pc \notin {"serve", "exit"} => inbound = {} /\ outbound = {}
    BY <1>4
  <2> QED BY <2>1, <2>2, <2>3, <2>4, <2>5, Zenon DEF ServersOK
<1> QED BY <1>1, <1>2, <1>3, <1>5 DEF ConfigOK, Pcs, BeforeGen, ObjectsOK

(* Steps that touch neither side keep what is known of the servers.         *)
LEMMA KeepsServers ==
  ASSUME ServersOK, UNCHANGED <<inbound, outbound, servers, taken>>,
         pc' # "serve" \/ pc = "serve", pc \notin {"serve", "exit"} \/ pc' \in {"serve", "exit"},
         pc' # "serve" => servers = <<>>
  PROVE  ServersOK'
<1>1. (\A x \in inbound \cup outbound : x.at.port \in Ports)'
  BY DEF ServersOK
<1> QED BY <1>1 DEF ServersOK, Server

(* The steps up to the parser make nothing.                                 *)
LEMMA EarlySteps ==
  ASSUME ConfigOK, LexOK', Unreadable \/ Open \/ Lex \/ Lexed
  PROVE  ConfigOK'
<1>1. UNCHANGED <<entries, done, objs, inbound, outbound, servers, taken>> /\ pc \in {"open", "lex"}
  BY DEF Unreadable, Open, Lex, Lexed, Unloaded
<1>2. pc' \in {"exit", "lex", "parse", "crashed"}
  BY DEF Unreadable, Open, Lex, Lexed
<1>3. entries = <<>> /\ done = 0 /\ objs = NoObjects
  BY <1>1 DEF ConfigOK, BeforeGen
<1>4. entries' = <<>> /\ done' = 0 /\ objs' = NoObjects
  BY <1>1, <1>3
<1>5. EntriesOK'
  BY <1>2, <1>4 DEF EntriesOK
<1>6. objs'.live = {} /\ objs'.env = NULL
  BY <1>4 DEF NoObjects, NewObjects
<1>7. servers = <<>>
  BY <1>1 DEF ConfigOK, ServersOK
<1>8. ServersOK'
  BY <1>1, <1>2, <1>7, KeepsServers DEF ConfigOK
<1> QED BY <1>2, <1>4, <1>5, <1>6, <1>8 DEF ConfigOK, Pcs, BeforeGen, ObjectsOK

(* The values stay the same once the lexer is through.                      *)
LEMMA SameLexing ==
  ASSUME lexing' = lexing
  PROVE  Tokens(lexing)' = Tokens(lexing) /\ Held' = Held
BY DEF Held

(* Parse keeps the invariant.                                               *)
LEMMA ParseStep ==
  ASSUME ConfigOK, LexOK', Parse
  PROVE  ConfigOK'
<1>1. /\ pc = "parse" /\ entries' = toml_parse(Tokens(lexing))
      /\ pc' = (IF entries' = <<>> THEN "exit" ELSE "gen")
      /\ objs' = (IF entries' = <<>> THEN objs ELSE NewObjects)
      /\ lexing' = lexing /\ done' = done
      /\ UNCHANGED <<inbound, outbound, servers, taken>>
  BY DEF Parse, Unloaded
<1>2. LexOK /\ objs = NoObjects /\ done = 0 /\ servers = <<>> /\ ServersOK
  BY <1>1 DEF ConfigOK, BeforeGen, ServersOK
<1>3. Tokens(lexing)' = Tokens(lexing)
  BY <1>1
<1>4. entries' \in Seq(EntriesIn(Tokens(lexing)))
  BY <1>1, <1>2, TokensOK, ParseType
<1>5. Len(entries') \in Nat /\ (entries' # <<>> => Len(entries') > 0)
  BY <1>4, LenProperties, EmptySeq
<1>6. EntriesOK'
  BY <1>1, <1>2, <1>3, <1>4, <1>5 DEF EntriesOK
<1>7. ServersOK'
  BY <1>1, <1>2, KeepsServers
<1>8. ObjectsOK'
  <2>1. CASE entries' = <<>>
    <3>1. objs'.live = {} /\ objs'.env = NULL
      BY <1>1, <1>2, <2>1 DEF NoObjects, NewObjects
    <3> QED BY <1>1, <2>1, <3>1 DEF ObjectsOK
  <2>2. CASE entries' # <<>>
    <3>1. Held' = Held
      BY <1>1, SameLexing
    <3>2. \E P : Ready(NewObjects, Held, P)
      BY <1>2, ValsOK, NewReady
    <3>3. \E P : Ready(objs', Held', P)
      BY <1>1, <2>2, <3>1, <3>2
    <3> QED BY <1>1, <2>2, <3>3 DEF ObjectsOK
  <2> QED BY <2>1, <2>2
<1> QED BY <1>1, <1>6, <1>7, <1>8 DEF ConfigOK, Pcs, BeforeGen

(* Gen keeps it.                                                            *)
LEMMA GenStep ==
  ASSUME HashNat, ConfigOK, LexOK', Gen
  PROVE  ConfigOK'
<1> DEFINE made == GenEntry(objs, entries[done + 1])
<1>1. /\ pc = "gen" /\ lexing' = lexing /\ entries' = entries
      /\ UNCHANGED <<inbound, outbound, servers, taken>>
  BY DEF Gen, Unloaded
<1>2. IF made.aborted
      THEN pc' = "aborted" /\ UNCHANGED <<objs, done>>
      ELSE /\ objs' = made /\ done' = done + 1
           /\ pc' = IF made.failed THEN "exit"
                    ELSE IF done' = Len(entries) THEN "load" ELSE "gen"
  BY DEF Gen
<1>3. Tokens(lexing)' = Tokens(lexing) /\ Held' = Held
  BY <1>1, SameLexing
<1>4. LexOK /\ ServersOK /\ EntriesOK /\ servers = <<>>
  BY <1>1 DEF ConfigOK, ServersOK
<1>5. entries \in Seq(EntriesIn(Tokens(lexing))) /\ Len(entries) \in Nat
      /\ done \in 0 .. Len(entries) /\ done < Len(entries)
  BY <1>1, <1>4, LenProperties DEF EntriesOK
<1>6. PICK e : e = entries[done + 1]
  OBVIOUS
<1>7. e \in EntriesIn(Tokens(lexing))
  <2>1. done + 1 \in 1 .. Len(entries)
    BY <1>5
  <2> QED BY <1>5, <1>6, <2>1, ElementOfSeq
<1>8. e.key \in Seq(Str) /\ EntryValue(e) \in Held
  BY <1>4, <1>7, EntryIs
<1>9. PICK P : Ready(objs, Held, P)
  BY <1>1 DEF ConfigOK, ObjectsOK
<1>10. pc' \in {"gen", "load", "exit", "aborted"} /\ done' \in 0 .. Len(entries)
       /\ (pc' = "gen" => done' < Len(entries))
  BY <1>2, <1>5
<1>11. EntriesOK'
  <2>1. entries # <<>>
    BY <1>5
  <2> QED BY <1>1, <1>3, <1>5, <1>10, <2>1 DEF EntriesOK
<1>12. ServersOK'
  BY <1>1, <1>4, <1>10, KeepsServers
<1>13. ObjectsOK'
  <2>1. CASE made.aborted
    <3>1. Ready(objs', Held', P)
      BY <1>2, <1>3, <1>9, <2>1
    <3> QED BY <1>2, <2>1, <3>1 DEF ObjectsOK
  <2>2. CASE ~made.aborted
    <3>1. PICK r : r = GenEntry(objs, e)
      OBVIOUS
    <3>2. objs' = r /\ ~r.aborted /\ (pc' = "exit" <=> r.failed)
      BY <1>2, <1>6, <2>2, <3>1
    <3>3. \/ r.failed /\ r.live = {} /\ r.env = NULL
          \/ ~r.failed /\ \E Q : Ready(r, Held, Q)
      BY <1>4, <1>8, <1>9, <3>1, <3>2, ValsOK, GenReady
    <3> QED BY <1>3, <3>2, <3>3 DEF ObjectsOK
  <2> QED BY <2>1, <2>2
<1> QED BY <1>10, <1>11, <1>12, <1>13 DEF ConfigOK, Pcs, BeforeGen

(* Load keeps it, and frees all objects when it gives up.                   *)
LEMMA LoadStep ==
  ASSUME ConfigOK, LexOK', Load
  PROVE  ConfigOK'
<1>1. /\ pc = "load" /\ lexing' = lexing /\ entries' = entries /\ done' = done
      /\ UNCHANGED <<servers, taken>>
      /\ inbound' \in OneOf(LoadSide("inbound")) /\ outbound' \in OneOf(LoadSide("outbound"))
      /\ \/ pc' = "exit" /\ objs' = object_free(objs, Root)
         \/ pc' = "serve" /\ objs' = objs
  BY DEF Load
<1>2. Tokens(lexing)' = Tokens(lexing) /\ Held' = Held
  BY <1>1, SameLexing
<1>3. LexOK /\ ServersOK /\ EntriesOK /\ servers = <<>>
  BY <1>1 DEF ConfigOK, ServersOK
<1>4. PICK P : Ready(objs, Held, P)
  BY <1>1 DEF ConfigOK, ObjectsOK
<1>5. objs \in Graphs(Held) /\ Tree(objs.heap, P) /\ objs.live = 1 .. Len(objs.heap)
  BY <1>4 DEF Ready
<1>6. objs.heap \in Seq(Objects(Held))
  BY <1>5 DEF Graphs
<1>7. \A side : \A x \in LoadSide(side) : x.at.port \in Ports
  BY <1>3, <1>5, <1>6, ValsOK, SidePorts
<1>8. \A x \in inbound' \cup outbound' : x.at.port \in Ports
  BY <1>1, <1>7 DEF OneOf
<1>9. EntriesOK'
  BY <1>1, <1>2, <1>3 DEF EntriesOK
<1>10. ServersOK'
  <2>1. servers' = <<>> /\ servers' \in Seq({Server(in) : in \in inbound'}) /\ Len(servers') = 0
    BY <1>1, <1>3
  <2>2. taken' \in BOOLEAN
    BY <1>1, <1>3 DEF ServersOK
  <2>3. Len(servers') <= NThread
    BY <2>1, NThreadAssumption
  <2>4. pc' \in {"serve", "exit"}
    BY <1>1
  <2> QED BY <1>8, <2>1, <2>2, <2>3, <2>4, Zenon DEF ServersOK, Server
<1>11. ObjectsOK'
  <2>1. CASE pc' = "exit" /\ objs' = object_free(objs, Root)
    <3>1. objs.live \ Below(objs, Root) = {}
      BY <1>5, <1>6, AllBelow
    <3>2. objs' = [heap |-> objs.heap, live |-> objs.live \ Below(objs, Root), env |-> NULL,
                   at |-> NULL, failed |-> objs.failed, aborted |-> objs.aborted]
      BY <1>5, <2>1 DEF object_free, Graphs
    <3> QED BY <2>1, <3>1, <3>2 DEF ObjectsOK
  <2>2. CASE pc' = "serve" /\ objs' = objs
    <3>1. Ready(objs', Held', P)
      BY <1>2, <1>4, <2>2
    <3> QED BY <2>2, <3>1 DEF ObjectsOK
  <2> QED BY <1>1, <2>1, <2>2
<1> QED BY <1>1, <1>9, <1>10, <1>11 DEF ConfigOK, Pcs, BeforeGen

(* Serve and the other program keep it.                                     *)
LEMMA ServeStep ==
  ASSUME ConfigOK, LexOK', Serve \/ OtherProgram \/ UNCHANGED vars
  PROVE  ConfigOK'
<1>1. UNCHANGED <<pc, lexing, entries, done, objs, inbound, outbound>>
  BY DEF Serve, OtherProgram, vars
<1>2. Tokens(lexing)' = Tokens(lexing) /\ Held' = Held
  BY <1>1, SameLexing
<1>3. LexOK /\ ServersOK /\ EntriesOK /\ ObjectsOK /\ BeforeGen /\ pc \in Pcs
  BY DEF ConfigOK
<1>4. EntriesOK' /\ BeforeGen'
  BY <1>1, <1>2, <1>3 DEF EntriesOK, BeforeGen
<1>5. ObjectsOK'
  BY <1>1, <1>2, <1>3 DEF ObjectsOK
<1>6. (\A x \in inbound \cup outbound : x.at.port \in Ports)'
  BY <1>1, <1>3 DEF ServersOK
<1>7. /\ pc \notin {"serve", "exit"} => inbound' = {} /\ outbound' = {}
      /\ inbound' = inbound /\ pc' = pc
  BY <1>1, <1>3 DEF ServersOK
<1>8. servers \in Seq({Server(in) : in \in inbound}) /\ Len(servers) \in Nat
      /\ Len(servers) <= NThread /\ taken \in BOOLEAN /\ (pc # "serve" => servers = <<>>)
  BY <1>3, LenProperties DEF ServersOK
<1>9. /\ servers' \in Seq({Server(in) : in \in inbound}) /\ Len(servers') <= NThread
      /\ (pc # "serve" => servers' = <<>>) /\ taken' \in BOOLEAN
  <2>1. CASE Serve
    <3>1. PICK in \in inbound : servers' = Append(servers, Server(in))
      BY <2>1 DEF Serve
    <3>2. PICK server : server = Server(in)
      OBVIOUS
    <3>3. server \in {Server(x) : x \in inbound}
      BY <3>2
    <3>4. servers' \in Seq({Server(x) : x \in inbound}) /\ Len(servers') = Len(servers) + 1
      BY <1>8, <3>1, <3>2, <3>3, AppendProperties
    <3>5. pc = "serve" /\ Len(servers) < NThread /\ taken' = taken
      BY <2>1 DEF Serve
    <3> QED BY <1>8, <3>4, <3>5, NThreadAssumption
  <2>2. CASE OtherProgram
    BY <1>8, <2>2 DEF OtherProgram
  <2>3. CASE UNCHANGED vars
    BY <1>8, <2>3 DEF vars
  <2> QED BY <2>1, <2>2, <2>3
<1>10. ServersOK'
  BY <1>6, <1>7, <1>9, Zenon DEF ServersOK, Server
<1> QED BY <1>1, <1>3, <1>4, <1>5, <1>10 DEF ConfigOK, Pcs

(* The inductive invariant: whatever the documents are, the lexer is right  *)
(* about what it has taken, the entries are those of its tokens, and the    *)
(* objects are a tree whose paths are all different until all of them are   *)
(* freed.                                                                   *)
THEOREM ConfigOKHolds == ASSUME HashNat PROVE Spec => []ConfigOK
<1>1. ConfigOK /\ LexOK' /\ [Next]_vars => ConfigOK'
  <2> SUFFICES ASSUME ConfigOK, LexOK', [Next]_vars PROVE ConfigOK'
    OBVIOUS
  <2>1. CASE Unreadable \/ Open \/ Lex \/ Lexed
    BY <2>1, EarlySteps
  <2>2. CASE Parse
    BY <2>2, ParseStep
  <2>3. CASE Gen
    BY <2>3, GenStep
  <2>4. CASE Load
    BY <2>4, LoadStep
  <2>5. CASE Serve \/ OtherProgram \/ UNCHANGED vars
    BY <2>5, ServeStep
  <2> QED BY <2>1, <2>2, <2>3, <2>4, <2>5 DEF Next, Steps
<1> QED BY <1>1, StartOK, LexOKHolds, PTL DEF Spec

-----------------------------------------------------------------------------

(* Every variable has its type, whatever the documents are: no index of     *)
(* lexer() leaves the text, no port exceeds 16 bits, and objects are freed  *)
(* only if they were made.                                                  *)
THEOREM TypeOKHolds == ASSUME HashNat PROVE Spec => []TypeOK
<1>1. ConfigOK => TypeOK
  <2> SUFFICES ASSUME ConfigOK PROVE TypeOK
    OBVIOUS
  <2>1. LexOK /\ pc \in Pcs /\ BeforeGen /\ EntriesOK /\ ObjectsOK /\ ServersOK
    BY DEF ConfigOK
  <2>2. lexing.state \in DOMAIN Table /\ lexing.i \in 0 .. Len(doc.text) + 1 /\ lexing.j \in 0 .. lexing.i
    <3>1. LexInv(doc.text, lexing) /\ doc \in Documents
      BY <2>1 DEF LexOK
    <3>2. Len(doc.text) \in Nat
      BY <3>1, DocumentsAssumption, LenProperties
    <3>3. lexing \in Lexings(States, Seq(Token)) /\ lexing.j <= lexing.i /\ lexing.i <= Len(doc.text) + 1
      BY <3>1 DEF LexInv
    <3>4. lexing.state \in States /\ lexing.i \in Nat /\ lexing.j \in Nat
      BY <3>3 DEF Lexings
    <3> QED BY <3>2, <3>3, <3>4 DEF States, Table
  <2>3. objs.live \subseteq DOMAIN objs.heap
    <3>1. CASE pc \in {"open", "lex", "parse", "crashed"}
      BY <2>1, <3>1 DEF BeforeGen, NoObjects, NewObjects
    <3>2. CASE pc \in {"gen", "load", "serve", "aborted"}
      <4>1. PICK P : Ready(objs, Held, P)
        BY <2>1, <3>2 DEF ObjectsOK
      <4>2. objs.live = 1 .. Len(objs.heap) /\ objs.heap \in Seq(Objects(Held))
        BY <4>1 DEF Ready, Graphs
      <4> QED BY <4>2, LenProperties
    <3>3. CASE pc = "exit"
      BY <2>1, <3>3 DEF ObjectsOK
    <3> QED BY <2>1, <3>1, <3>2, <3>3 DEF Pcs
  <2>4. \A x \in inbound \cup outbound : x.at.port \in Ports
    BY <2>1 DEF ServersOK
  <2>5. Len(servers) \in 0 .. NThread /\ taken \in BOOLEAN
    <3>1. servers \in Seq({Server(in) : in \in inbound}) /\ Len(servers) <= NThread /\ taken \in BOOLEAN
      BY <2>1 DEF ServersOK
    <3>2. Len(servers) \in Nat
      BY <3>1, LenProperties
    <3> QED BY <3>1, <3>2, NThreadAssumption
  <2>6. done \in 0 .. Len(entries)
    BY <2>1 DEF EntriesOK
  <2>7. pc \in {"open", "lex", "parse", "gen", "load", "serve", "exit", "crashed", "aborted"}
    BY <2>1 DEF Pcs
  <2> QED BY <2>2, <2>3, <2>4, <2>5, <2>6, <2>7, Zenon DEF TypeOK
<1> QED BY <1>1, ConfigOKHolds, PTL

(* object_free frees every object exactly once: until then each but the     *)
(* root is stored in one place, and when the program exits none is left.    *)
THEOREM TreeShapedHolds == ASSUME HashNat PROVE Spec => []TreeShaped
<1>1. ASSUME NEW heap, NEW P, Ready(objs, Held, P), heap = objs.heap PROVE IsTree(objs)
  <2>1. /\ objs \in Graphs(Held) /\ Tree(heap, P) /\ objs.live = 1 .. Len(heap)
    BY <1>1 DEF Ready
  <2>2. heap \in Seq(Objects(Held))
    BY <1>1, <2>1 DEF Graphs
  <2>3. Len(heap) \in Nat /\ \A i \in 1 .. Len(heap) : heap[i].table \in Tables
    BY <2>1, <2>2, TreeFacts
  <2>4. \A i \in 1 .. Len(heap) : DOMAIN heap[i].table.tab \subseteq 0 .. TABLE_INIT_BUF - 1
    <3> TAKE i \in 1 .. Len(heap)
    <3>1. PICK t \in Tables : t = heap[i].table
      BY <2>3
    <3>2. Slots(t) = 0 .. TABLE_INIT_BUF - 1 /\ DOMAIN t.tab \subseteq Slots(t)
      BY TablesAre
    <3> QED BY <3>1, <3>2
  <2>5. Slots([cap |-> TABLE_INIT_BUF]) = 0 .. TABLE_INIT_BUF - 1
    BY DEF Slots
  <2>6. ASSUME NEW id \in objs.live PROVE Cardinality(Stored(objs, id)) = IF id = Root THEN 0 ELSE 1
    <3>1. PICK S : S = Stored(objs, id)
      OBVIOUS
    <3>2. \A p \in S : /\ p[1] \in 1 .. Len(heap) /\ p[2] \in DOMAIN heap[p[1]].table.tab
                      /\ heap[p[1]].table.tab[p[2]].val = id /\ p = <<p[1], p[2]>>
      BY <1>1, <2>1, <3>1 DEF Stored
    <3>3. \A i \in 1 .. Len(heap) : \A s \in DOMAIN heap[i].table.tab :
             heap[i].table.tab[s].val \in i + 1 .. Len(heap)
      BY <2>1 DEF Tree
    <3>4. CASE id = Root
      <4>1. S = {}
        BY <2>3, <3>2, <3>3, <3>4 DEF Root
      <4> QED BY <3>1, <3>4, <4>1, FS_EmptySet
    <3>5. CASE id # Root
      <4>1. id \in 2 .. Len(heap)
        BY <2>1, <2>3, <3>5 DEF Root
      <4>2. PICK i \in 1 .. id - 1 : \E s : Holds(heap, i, s, id)
        BY <2>1, <4>1 DEF Tree
      <4>3. PICK s : Holds(heap, i, s, id)
        BY <4>2
      <4>4. /\ i \in 1 .. Len(heap) /\ s \in DOMAIN heap[i].table.tab
            /\ heap[i].table.tab[s].val = id
        BY <2>3, <4>1, <4>2, <4>3 DEF Holds
      <4>5. <<i, s>> \in S
        BY <1>1, <2>1, <2>4, <2>5, <3>1, <4>4 DEF Stored
      <4>6. \A p \in S : p = <<i, s>>
        <5> TAKE p \in S
        <5>1. PICK j, r : j = p[1] /\ r = p[2]
          OBVIOUS
        <5>2. /\ j \in 1 .. Len(heap) /\ r \in DOMAIN heap[j].table.tab
              /\ heap[i].table.tab[s].val = heap[j].table.tab[r].val /\ p = <<j, r>>
          BY <3>2, <4>4, <5>1
        <5>3. i = j /\ s = r
          BY <2>1, <2>2, <4>4, <5>2, OnePlace
        <5> QED BY <5>2, <5>3
      <4>7. S = {<<i, s>>}
        BY <4>5, <4>6
      <4> QED BY <3>1, <3>5, <4>7, FS_Singleton
    <3> QED BY <3>4, <3>5
  <2> QED BY <2>6 DEF IsTree
<1>2. ASSUME objs.live = {} PROVE IsTree(objs)
  BY <1>2 DEF IsTree
<1>3. ConfigOK => TreeShaped
  <2> SUFFICES ASSUME ConfigOK PROVE TreeShaped
    OBVIOUS
  <2>1. pc \in Pcs /\ BeforeGen /\ ObjectsOK
    BY DEF ConfigOK
  <2>2. CASE pc \in {"gen", "load", "serve", "aborted"}
    <3>1. PICK P : Ready(objs, Held, P)
      BY <2>1, <2>2 DEF ObjectsOK
    <3> QED BY <1>1, <2>2, <3>1 DEF TreeShaped
  <2>3. CASE pc \in {"open", "lex", "parse", "crashed"}
    <3>1. objs.live = {}
      BY <2>1, <2>3 DEF BeforeGen, NoObjects, NewObjects
    <3> QED BY <1>2, <2>3, <3>1 DEF TreeShaped
  <2>4. CASE pc = "exit"
    BY <1>2, <2>1, <2>4 DEF TreeShaped, ObjectsOK
  <2> QED BY <2>1, <2>2, <2>3, <2>4 DEF Pcs
<1> QED BY <1>3, ConfigOKHolds, PTL

-----------------------------------------------------------------------------
(* Lookups find the objects under their paths.                              *)

Rec(P, i) == [path |-> P[i], id |-> i]

(* A name in an object leads to another.                                    *)
Leads(g, P, i, name, k) ==
    [path |-> Append(P[i], name), id |-> table_object_lookup(g, i, name)] = Rec(P, k)

(* The names in an object lead to objects made after it.                    *)
LEMMA ChildrenAre ==
  ASSUME NEW V, NEW g, g.heap \in Seq(Objects(V)), NEW P, Tree(g.heap, P),
         NEW i \in 1 .. Len(g.heap), NEW t, t = g.heap[i].table
  PROVE  /\ \A name \in Keys(t) : \E k \in i + 1 .. Len(g.heap) : Leads(g, P, i, name, k)
         /\ \A s \in DOMAIN t.tab : \E name \in Keys(t) : Leads(g, P, i, name, t.tab[s].val)
<1>1. t \in Tables /\ \A s \in DOMAIN t.tab : t.tab[s].val # NULL
  BY TreeFacts
<1>2. Reachable(t) /\ \A s \in DOMAIN t.tab : t.tab[s].val \in i + 1 .. Len(g.heap)
  BY Zenon DEF Tree
<1>3. \A s \in DOMAIN t.tab : P[t.tab[s].val] = Append(P[i], t.tab[s].key)
  BY Zenon DEF Tree, Named
<1>4. \A s \in DOMAIN t.tab : Lookup(t, t.tab[s].key) = t.tab[s].val
  <2> TAKE s \in DOMAIN t.tab
  <2>1. PICK name : name = t.tab[s].key
    OBVIOUS
  <2>2. \A x \in DOMAIN t.tab : t.tab[x].key = name => Lookup(t, name) = t.tab[x].val
    BY Zenon, <1>1, <1>2, LookupIs
  <2> QED BY <2>1, <2>2
<1>5. \A name : table_object_lookup(g, i, name) = Lookup(t, name)
  BY DEF table_object_lookup
<1>6. \A s \in DOMAIN t.tab : Leads(g, P, i, t.tab[s].key, t.tab[s].val)
  BY Zenon, <1>3, <1>4, <1>5 DEF Rec, Leads
<1>7. ASSUME NEW name \in Keys(t)
      PROVE  \E k \in i + 1 .. Len(g.heap) : Leads(g, P, i, name, k)
  <2>1. PICK s \in DOMAIN t.tab : t.tab[s].key = name
    BY DEF Keys
  <2>2. t.tab[s].val \in i + 1 .. Len(g.heap)
    BY <1>2
  <2> QED BY <1>6, <2>1, <2>2
<1>8. \A s \in DOMAIN t.tab : t.tab[s].key \in Keys(t)
  BY DEF Keys
<1> QED BY <1>6, <1>7, <1>8

(* Lookups by names find each object but the root, under its path.          *)
LEMMA PathsAre ==
  ASSUME NEW V, NEW g, g.heap \in Seq(Objects(V)), NEW P, Tree(g.heap, P)
  PROVE  Paths(g) = {Rec(P, i) : i \in 2 .. Len(g.heap)}
<1> DEFINE L == Len(g.heap)
           Body(found) ==
               UNION {{[path |-> Append(f.path, name),
                        id |-> table_object_lookup(g, f.id, name)] :
                           name \in Keys(g.heap[f.id].table)} : f \in found}
           base == {[path |-> <<>>, id |-> Root]}
           Is(f) == f = [n \in 0 .. L |-> IF n = 0 THEN base ELSE Body(f[n - 1])]
           made == CHOOSE f : Is(f)
           S == SUBSET {Rec(P, i) : i \in 1 .. L}
           step == [i \in 1 .. L |-> [x \in S |-> Body(x)]]
<1>1. L \in Nat /\ L >= 1
  BY LenProperties DEF Tree
<1>2. P[1] = <<>> /\ P \in [1 .. L -> Seq(Str)]
  BY Zenon DEF Tree, Named
<1>3. \A i : Rec(P, i).path = P[i] /\ Rec(P, i).id = i
  BY DEF Rec
<1>4. ASSUME NEW x \in S, NEW y \in Body(x)
      PROVE  \E i, k \in 1 .. L : i < k /\ Rec(P, i) \in x /\ y = Rec(P, k)
  <2>1. PICK f \in x : \E name \in Keys(g.heap[f.id].table) :
           y = [path |-> Append(f.path, name), id |-> table_object_lookup(g, f.id, name)]
    OBVIOUS
  <2>2. PICK i \in 1 .. L : f = Rec(P, i)
    OBVIOUS
  <2>3. f.path = P[i] /\ f.id = i
    BY <1>3, <2>2
  <2>4. PICK t : t = g.heap[i].table
    OBVIOUS
  <2>5. PICK name \in Keys(t) :
           y = [path |-> Append(P[i], name), id |-> table_object_lookup(g, i, name)]
    BY <2>1, <2>3, <2>4
  <2>6. PICK k \in i + 1 .. L : Leads(g, P, i, name, k)
    BY <2>4, ChildrenAre
  <2>7. y = Rec(P, k)
    BY <2>5, <2>6 DEF Leads
  <2>8. i < k /\ k \in 1 .. L
    BY <1>1, <2>7
  <2> QED BY <2>2, <2>7, <2>8
<1>5. \A i \in 1 .. L : \A s \in DOMAIN g.heap[i].table.tab : \A x :
         Rec(P, i) \in x => Rec(P, g.heap[i].table.tab[s].val) \in Body(x)
  <2> TAKE i \in 1 .. L
  <2> TAKE s \in DOMAIN g.heap[i].table.tab
  <2> TAKE x
  <2> HAVE Rec(P, i) \in x
  <2>1. PICK t : t = g.heap[i].table
    OBVIOUS
  <2>2. PICK name \in Keys(t) : Leads(g, P, i, name, t.tab[s].val)
    <3>1. \A r \in DOMAIN t.tab : \E name \in Keys(t) : Leads(g, P, i, name, t.tab[r].val)
      BY <2>1, ChildrenAre
    <3> QED BY <2>1, <3>1
  <2>3. PICK f : f = Rec(P, i)
    OBVIOUS
  <2>4. f \in x /\ f.path = P[i] /\ f.id = i
    BY <1>3, <2>3
  <2>5. PICK y : y = Rec(P, t.tab[s].val)
    BY Zenon
  <2>6. y = [path |-> Append(f.path, name), id |-> table_object_lookup(g, f.id, name)]
        /\ name \in Keys(g.heap[f.id].table)
    BY Zenon, <2>1, <2>2, <2>4, <2>5 DEF Leads
  <2>7. y \in Body(x)
    <3>1. PICK z : z = {[path |-> Append(f.path, n),
                        id |-> table_object_lookup(g, f.id, n)] :
                           n \in Keys(g.heap[f.id].table)}
      OBVIOUS
    <3>2. y \in z
      BY <2>6, <3>1
    <3>3. z \in {{[path |-> Append(q.path, n),
                        id |-> table_object_lookup(g, q.id, n)] :
                           n \in Keys(g.heap[q.id].table)} : q \in x}
      BY <2>4, <3>1, Zenon
    <3> QED BY <3>2, <3>3
  <2> HIDE DEF Body
  <2> QED BY <2>1, <2>5, <2>7
<1>6. base = {Rec(P, 1)}
  BY <1>2 DEF Rec, Root
<1>7. Paths(g) = UNION {made[n] : n \in 1 .. L}
  BY Zenon DEF Paths
<1> HIDE DEF Body, base, L
<1>8. base \in S
  BY <1>1, <1>6
<1>9. \A x \in S : Body(x) \in S
  BY <1>4
<1>10. PICK h \in [0 .. L -> S] : Built(h, base, step, L)
  <2>1. step \in [1 .. L -> [S -> S]]
    BY <1>9
  <2> HIDE DEF step, S
  <2> QED BY <1>1, <1>8, <2>1, StepByStep
<1>11. Is(h)
  <2>1. \A i \in 1 .. L : h[i - 1] \in S
    <3> HIDE DEF S
    <3> QED BY <1>1
  <2>2. \A i \in 1 .. L : h[i] = Body(h[i - 1])
    <3> TAKE i \in 1 .. L
    <3>1. step[i] = [x \in S |-> Body(x)]
      OBVIOUS
    <3> HIDE DEF S
    <3> QED BY <1>10, <2>1, <3>1 DEF Built
  <2> HIDE DEF S
  <2>3. \A i \in 0 .. L : h[i] = IF i = 0 THEN base ELSE Body(h[i - 1])
    BY <1>1, <1>10, <2>2 DEF Built
  <2>4. h = [i \in 0 .. L |-> h[i]]
    OBVIOUS
  <2> QED BY <2>3, <2>4
<1>12. Is(made)
  <2> HIDE DEF Is
  <2> QED BY <1>11
<1> HIDE DEF made
<1>13. made[0] = base /\ \A i \in 1 .. L : made[i] = Body(made[i - 1])
  BY <1>1, <1>12
<1> DEFINE Deep == {n \in 0 .. L : made[n] \in S /\ \A i \in 1 .. L : Rec(P, i) \in made[n] => n < i}
<1>14. 0 \in Deep
  BY <1>1, <1>8, <1>13
<1>15. \A n \in 1 .. L : n - 1 \in Deep => n \in Deep
  <2> TAKE n \in 1 .. L
  <2> HAVE n - 1 \in Deep
  <2>1. made[n - 1] \in S /\ made[n] = Body(made[n - 1])
    BY <1>13
  <2>2. made[n] \in S
    <3> HIDE DEF S
    <3> QED BY <1>9, <2>1
  <2>3. ASSUME NEW i \in 1 .. L, Rec(P, i) \in made[n] PROVE n < i
    <3>1. PICK y : y = Rec(P, i)
      OBVIOUS
    <3>2. y \in Body(made[n - 1])
      BY <2>1, <2>3, <3>1
    <3>3. PICK j, k \in 1 .. L : j < k /\ Rec(P, j) \in made[n - 1] /\ y = Rec(P, k)
      <4> HIDE DEF S
      <4> QED BY <1>4, <2>1, <3>2
    <3>4. k = i
      BY <3>1, <3>3 DEF Rec
    <3>5. n - 1 < j
      BY <3>3
    <3> QED BY <1>1, <3>3, <3>4, <3>5
  <2>4. n \in 0 .. L
    BY <1>1
  <2> QED BY <2>2, <2>3, <2>4
<1>16. \A n \in 0 .. L : n \in Deep
  <2> HIDE DEF Deep
  <2> QED BY <1>1, <1>14, <1>15, UpTo
<1> DEFINE Shown(i) == \E m \in 0 .. i - 1 : (i >= 2 => m >= 1) /\ Rec(P, i) \in made[m]
           Up == {k \in 0 .. L : \A i \in 1 .. k : Shown(i)}
<1>17. 0 \in Up
  BY <1>1
<1>18. \A k \in 1 .. L : k - 1 \in Up => k \in Up
  <2> TAKE k \in 1 .. L
  <2> HAVE k - 1 \in Up
  <2>1. \A i \in 1 .. k - 1 : Shown(i)
    OBVIOUS
  <2>2. Shown(k)
    <3>1. CASE k = 1
      <4>1. Rec(P, 1) \in made[0] /\ 0 \in 0 .. 1 - 1
        BY <1>6, <1>13
      <4> QED BY <3>1, <4>1
    <3>2. CASE k # 1
      <4>1. k \in 2 .. L
        BY <1>1, <3>2
      <4>2. \E i \in 1 .. k - 1 : \E s : Holds(g.heap, i, s, k)
        BY <4>1 DEF Tree, L
      <4>3. PICK i \in 1 .. k - 1 : \E s : Holds(g.heap, i, s, k)
        BY <4>2
      <4>4. PICK s : Holds(g.heap, i, s, k)
        BY <4>3
      <4>5. s \in DOMAIN g.heap[i].table.tab /\ g.heap[i].table.tab[s].val = k
        BY <4>4 DEF Holds
      <4>6. i \in 1 .. L /\ Shown(i)
        BY <1>1, <2>1
      <4>7. PICK m \in 0 .. i - 1 : Rec(P, i) \in made[m]
        BY <4>6
      <4>8. Rec(P, k) \in Body(made[m])
        BY <1>5, <4>5, <4>6, <4>7
      <4>9. m + 1 \in 1 .. L /\ m + 1 - 1 = m /\ m + 1 \in 0 .. k - 1 /\ m + 1 >= 1
        BY <1>1, <4>6
      <4>10. made[m + 1] = Body(made[m])
        BY <1>13, <4>9
      <4> QED BY <4>8, <4>9, <4>10
    <3> QED BY <3>1, <3>2
  <2> HIDE DEF Shown
  <2>3. \A i \in 1 .. k : i \in 1 .. k - 1 \/ i = k
    BY <1>1
  <2>4. k \in 0 .. L
    BY <1>1
  <2> QED BY <2>1, <2>2, <2>3, <2>4
<1>19. \A i \in 1 .. L : Shown(i)
  <2> HIDE DEF Up
  <2>1. \A k \in 0 .. L : k \in Up
    BY <1>1, <1>17, <1>18, UpTo
  <2>2. L \in Up
    BY <1>1, <2>1
  <2> QED BY <2>2 DEF Up
<1>20. ASSUME NEW x \in UNION {made[n] : n \in 1 .. L} PROVE \E i \in 2 .. L : x = Rec(P, i)
  <2>1. PICK n \in 1 .. L : x \in made[n]
    OBVIOUS
  <2>2. n \in Deep
    <3> HIDE DEF Deep
    <3> QED BY <1>1, <1>16
  <2>3. PICK i \in 1 .. L : x = Rec(P, i)
    BY <2>1, <2>2
  <2>4. n < i
    BY <2>1, <2>2, <2>3
  <2>5. i \in 2 .. L
    BY <1>1, <2>4
  <2> QED BY <2>3, <2>5
<1>21. ASSUME NEW i \in 2 .. L PROVE Rec(P, i) \in UNION {made[n] : n \in 1 .. L}
  <2>1. i \in 1 .. L
    BY <1>1
  <2>2. PICK m \in 0 .. i - 1 : (i >= 2 => m >= 1) /\ Rec(P, i) \in made[m]
    BY <1>19, <2>1
  <2>3. m \in 1 .. L
    BY <1>1, <2>2
  <2> QED BY <2>2, <2>3
<1>22. UNION {made[n] : n \in 1 .. L} = {Rec(P, i) : i \in 2 .. L}
  BY <1>20, <1>21
<1> QED BY Zenon, <1>7, <1>22 DEF L

(* The path of an object but its last name is the path of the table it is in. *)
LEMMA BeginOfAppend ==
  ASSUME NEW a \in Seq(Str), NEW e \in Str, NEW p, p = Append(a, e)
  PROVE  p \in Seq(Str) /\ Len(p) = Len(a) + 1 /\ Begin(p, Len(a)) = a
<1>1. p \in Seq(Str) /\ Len(p) = Len(a) + 1 /\ Len(a) \in Nat
  BY AppendProperties, LenProperties
<1>2. PICK n : n = Len(p)
  OBVIOUS
<1>3. n \in 1 .. Len(p) /\ n - 1 = Len(a)
  BY <1>1, <1>2
<1>4. p[n] \in Str /\ Begin(p, n - 1) \in Seq(Str) /\ Begin(p, n) = Append(Begin(p, n - 1), p[n])
  BY <1>1, <1>3, BeginGrows
<1>5. Begin(p, n) = p
  BY <1>1, <1>2, SubSeqFull DEF Begin
<1>6. PICK b, f : b = Begin(p, n - 1) /\ f = p[n]
  OBVIOUS
<1>7. b \in Seq(Str) /\ f \in Str /\ Append(a, e) = Append(b, f)
  BY <1>4, <1>5, <1>6
<1>8. a = b
  BY <1>7, AppendInjective
<1> QED BY <1>1, <1>3, <1>6, <1>8

Parents(heap, P, i, s, k) ==
    /\ i \in 1 .. Len(heap) /\ s \in DOMAIN heap[i].table.tab /\ heap[i].table.tab[s].val = k
    /\ P[k] = Append(P[i], heap[i].table.tab[s].key)
    /\ heap[i].value = TableValue /\ heap[i].table.tab[s].key \in Str

(* Every object but the root is under a name of a table made before it.     *)
LEMMA ParentIs ==
  ASSUME NEW V, NEW heap \in Seq(Objects(V)), NEW P, Tree(heap, P), NEW k \in 2 .. Len(heap)
  PROVE  \E i, s : Parents(heap, P, i, s, k)
<1>1. Len(heap) \in Nat /\ \A i \in 1 .. Len(heap) : heap[i].table \in Tables
  BY TreeFacts
<1>2. \E i \in 1 .. k - 1 : \E s : Holds(heap, i, s, k)
  BY DEF Tree
<1>3. PICK i \in 1 .. k - 1 : \E s : Holds(heap, i, s, k)
  BY <1>2
<1>4. PICK s : Holds(heap, i, s, k)
  BY <1>3
<1>5. i \in 1 .. Len(heap) /\ s \in DOMAIN heap[i].table.tab /\ heap[i].table.tab[s].val = k
  BY <1>1, <1>4 DEF Holds
<1>6. heap[i].value = TableValue
  BY <1>5 DEF Tree
<1>7. P[heap[i].table.tab[s].val] = Append(P[i], heap[i].table.tab[s].key)
  BY <1>5 DEF Tree, Named
<1>8. heap[i].table.tab[s].key \in Str
  <2>1. PICK t \in Tables : t = heap[i].table
    BY <1>1, <1>5
  <2>2. t.tab \in [DOMAIN t.tab -> [key : Str, val : Nat]]
    BY TablesAre
  <2> QED BY <1>5, <2>1, <2>2
<1>9. Parents(heap, P, i, s, k)
  BY <1>5, <1>6, <1>7, <1>8 DEF Parents
<1> QED BY <1>9

(* Every table on the way to an object is there, with the name that leads on. *)
OnTheWay(heap, P, p, m, j) ==
    /\ j \in 1 .. Len(heap) /\ P[j] = Begin(p, m) /\ heap[j].value = TableValue
    /\ \E s \in DOMAIN heap[j].table.tab :
          heap[j].table.tab[s].val \in 2 .. Len(heap)
          /\ P[heap[j].table.tab[s].val] = Begin(p, m + 1)

(* The way to an object leads through all beginnings of its path.           *)
LEMMA WayTo ==
  ASSUME NEW V, NEW heap \in Seq(Objects(V)), NEW P, Tree(heap, P),
         NEW x \in 1 .. Len(heap), NEW p, p = P[x], NEW m \in 0 .. Len(p) - 1
  PROVE  \E j : OnTheWay(heap, P, p, m, j)
<1> DEFINE L == Len(p)
           Up == {k \in 0 .. L : \E j \in 1 .. Len(heap) : P[j] = Begin(p, L - k)}
<1>1. P \in [1 .. Len(heap) -> Seq(Str)] /\ P[1] = <<>>
  BY DEF Tree, Named
<1>2. p \in Seq(Str) /\ L \in Nat /\ Len(heap) \in Nat
  BY <1>1, LenProperties
<1>3. ASSUME NEW n \in 1 .. L, NEW j \in 1 .. Len(heap), P[j] = Begin(p, n)
      PROVE  \E i : OnTheWay(heap, P, p, n - 1, i)
  <2>1. /\ p[n] \in Str /\ Begin(p, n) \in Seq(Str) /\ Begin(p, n - 1) \in Seq(Str)
        /\ Begin(p, n) = Append(Begin(p, n - 1), p[n]) /\ Len(Begin(p, n)) = n
    BY <1>2, BeginGrows
  <2>2. j # 1
    <3>1. Len(<<>>) = 0
      OBVIOUS
    <3> QED BY <1>1, <1>2, <1>3, <2>1, <3>1
  <2>3. j \in 2 .. Len(heap)
    BY <1>2, <2>2
  <2>4. PICK i, s : Parents(heap, P, i, s, j)
    BY <2>3, ParentIs
  <2>5. PICK a, b, e, f : a = P[i] /\ e = heap[i].table.tab[s].key /\ b = Begin(p, n - 1) /\ f = p[n]
    OBVIOUS
  <2>6. a \in Seq(Str) /\ b \in Seq(Str) /\ e \in Str /\ f \in Str /\ Append(a, e) = Append(b, f)
    BY <1>1, <1>3, <2>1, <2>4, <2>5 DEF Parents
  <2>7. a = b
    BY <2>6, AppendInjective
  <2>8. n - 1 + 1 = n
    BY <1>2
  <2>9. OnTheWay(heap, P, p, n - 1, i)
    BY <1>3, <2>3, <2>4, <2>5, <2>7, <2>8 DEF Parents, OnTheWay
  <2> QED BY <2>9
<1>4. 0 \in Up
  <2>1. Begin(p, L) = p /\ L - 0 = L
    BY <1>2, SubSeqFull DEF Begin
  <2> QED BY <1>2, <2>1
<1>5. \A k \in 1 .. L : k - 1 \in Up => k \in Up
  <2> TAKE k \in 1 .. L
  <2> HAVE k - 1 \in Up
  <2>1. PICK j \in 1 .. Len(heap) : P[j] = Begin(p, L - (k - 1))
    OBVIOUS
  <2>2. L - (k - 1) \in 1 .. L /\ L - (k - 1) - 1 = L - k
    BY <1>2
  <2>3. PICK n : n = L - (k - 1)
    OBVIOUS
  <2>4. n \in 1 .. L /\ P[j] = Begin(p, n) /\ n - 1 = L - k
    BY <2>1, <2>2, <2>3
  <2>5. PICK i : OnTheWay(heap, P, p, n - 1, i)
    <3> HIDE DEF L
    <3> QED BY <1>3, <2>4
  <2>6. i \in 1 .. Len(heap) /\ P[i] = Begin(p, L - k)
    BY <2>4, <2>5 DEF OnTheWay
  <2>7. k \in 0 .. L
    BY <1>2
  <2> QED BY <2>6, <2>7
<1>6. \A k \in 0 .. L : k \in Up
  <2> HIDE DEF Up, L
  <2> QED BY <1>2, <1>4, <1>5, UpTo
<1>7. PICK n : n = m + 1
  OBVIOUS
<1>8. n \in 1 .. L /\ n - 1 = m /\ L - n \in 0 .. L /\ L - (L - n) = n
  <2>1. L \in Nat /\ m \in 0 .. L - 1 /\ n = m + 1
    BY <1>2, <1>7
  <2> HIDE DEF L
  <2> QED BY <2>1
<1>9. PICK j \in 1 .. Len(heap) : P[j] = Begin(p, n)
  <2>1. L - n \in Up
    <3> HIDE DEF Up, L
    <3> QED BY <1>6, <1>8
  <2> QED BY <1>8, <2>1
<1>10. \E i : OnTheWay(heap, P, p, n - 1, i)
  BY <1>3, <1>8, <1>9
<1> QED BY <1>8, <1>10

-----------------------------------------------------------------------------
(* The dictionary that lookups see.                                         *)

IsDict(d, heap, P) ==
    /\ d = [q \in DOMAIN d |-> d[q]] /\ DOMAIN d = {P[i] : i \in 2 .. Len(heap)}
    /\ \A i \in 2 .. Len(heap) : d[P[i]] = heap[i].value

(* The dictionary that lookups see has the values of the objects.           *)
LEMMA ContentsAre ==
  ASSUME NEW V, NEW g, g.heap \in Seq(Objects(V)), NEW P, Tree(g.heap, P), Root \in g.live
  PROVE  IsDict(Contents(g), g.heap, P)
<1>1. PICK found : found = Paths(g)
  OBVIOUS
<1>2. found = {Rec(P, i) : i \in 2 .. Len(g.heap)}
  BY <1>1, PathsAre
<1>3. Contents(g) = [p \in {f.path : f \in found} |->
                 g.heap[(CHOOSE f \in found : f.path = p).id].value]
  BY <1>1 DEF Contents
<1>4. \A i : Rec(P, i).path = P[i] /\ Rec(P, i).id = i
  BY DEF Rec
<1>5. {f.path : f \in found} = {P[i] : i \in 2 .. Len(g.heap)}
  BY SMTT(30), <1>2, <1>4
<1>6. \A i, j \in 1 .. Len(g.heap) : P[i] = P[j] => i = j
  BY Zenon DEF Tree, Named
<1>7. Len(g.heap) \in Nat
  BY LenProperties
<1>8. \A i \in 2 .. Len(g.heap) : (CHOOSE f \in found : f.path = P[i]).id = i
  <2> TAKE i \in 2 .. Len(g.heap)
  <2>1. Rec(P, i) \in found /\ Rec(P, i).path = P[i]
    BY <1>2, <1>4
  <2>2. PICK c : c = CHOOSE f \in found : f.path = P[i]
    OBVIOUS
  <2>3. c \in found /\ c.path = P[i]
    BY <2>1, <2>2
  <2>4. PICK j \in 2 .. Len(g.heap) : c = Rec(P, j)
    BY <1>2, <2>3
  <2>5. j = i
    BY <1>4, <1>6, <1>7, <2>3, <2>4
  <2> QED BY <1>4, <2>2, <2>4, <2>5
<1>9. PICK d : d = Contents(g)
  OBVIOUS
<1>10. DOMAIN d = {P[i] : i \in 2 .. Len(g.heap)} /\ d = [q \in DOMAIN d |-> d[q]]
  BY <1>3, <1>5, <1>9
<1>11. \A i \in 2 .. Len(g.heap) : d[P[i]] = g.heap[i].value
  <2> TAKE i \in 2 .. Len(g.heap)
  <2>1. P[i] \in {f.path : f \in found}
    BY <1>5
  <2>2. d[P[i]] = g.heap[(CHOOSE f \in found : f.path = P[i]).id].value
    BY <1>3, <1>9, <2>1
  <2> QED BY <1>8, <2>2
<1> QED BY <1>9, <1>10, <1>11 DEF IsDict

(* The current table is known by its path.                                  *)
LEMMA EnvPathIs ==
  ASSUME NEW V, NEW g, g.heap \in Seq(Objects(V)), NEW P, Tree(g.heap, P),
         g.env \in 1 .. Len(g.heap)
  PROVE  EnvPath(g) = P[g.env]
<1>1. Paths(g) = {Rec(P, i) : i \in 2 .. Len(g.heap)}
  BY PathsAre
<1>2. \A i : Rec(P, i).path = P[i] /\ Rec(P, i).id = i
  BY DEF Rec
<1>3. Len(g.heap) \in Nat
  BY Zenon, LenProperties
<1>4. CASE g.env = 1
  BY <1>4 DEF EnvPath, Root, Tree, Named
<1>5. CASE g.env # 1
  <2>1. g.env \in 2 .. Len(g.heap) /\ g.env # NULL /\ g.env # Root
    BY <1>3, <1>5, NullAssumption DEF Root
  <2>2. EnvPath(g) = (CHOOSE f \in Paths(g) : f.id = g.env).path
    BY <2>1 DEF EnvPath
  <2>3. PICK c : c = CHOOSE f \in Paths(g) : f.id = g.env
    OBVIOUS
  <2>4. Rec(P, g.env) \in Paths(g) /\ Rec(P, g.env).id = g.env
    BY <1>1, <1>2, <2>1
  <2>5. c \in Paths(g) /\ c.id = g.env
    BY <2>3, <2>4
  <2>6. PICK j \in 2 .. Len(g.heap) : c = Rec(P, j)
    BY <1>1, <2>5
  <2>7. c.path = P[j] /\ c.id = j
    BY <1>2, <2>6
  <2> QED BY <2>2, <2>3, <2>5, <2>7
<1> QED BY <1>4, <1>5

-----------------------------------------------------------------------------
(* What the dictionary makes of an entry, without its variables.            *)

NamesAt(d, q) == {x \in DOMAIN d : Len(x) = Len(q) + 1 /\ SubSeq(x, 1, Len(q)) = q}

ConflictIn(d, p) ==
    \/ p \in DOMAIN d
    \/ \E q \in {SubSeq(p, 1, n) : n \in 1 .. Len(p) - 1} \cap DOMAIN d : d[q] # TableValue

OverfullIn(d, p) ==
    \E q \in {SubSeq(p, 1, n) : n \in 1 .. Len(p) - 1} \cup {<<>>} :
        /\ SubSeq(p, 1, Len(q) + 1) \notin DOMAIN d
        /\ Cardinality(NamesAt(d, q)) >= TABLE_INIT_BUF

Extended(d, p, value) ==
    [q \in DOMAIN d \cup {SubSeq(p, 1, n) : n \in 1 .. Len(p) - 1} \cup {p} |->
        IF q \in DOMAIN d THEN d[q] ELSE IF q = p THEN value ELSE TableValue]

(* What is in the dictionary is the value of an object.                     *)
LEMMA InDict ==
  ASSUME NEW d, NEW heap, NEW P, IsDict(d, heap, P), NEW x \in DOMAIN d
  PROVE  \E i \in 2 .. Len(heap) : x = P[i] /\ d[x] = heap[i].value
BY DEF IsDict

(* A table is full when it has TABLE_INIT_BUF names.                        *)
LEMMA FullIs ==
  ASSUME NEW t \in Tables
  PROVE  /\ IsFiniteSet(DOMAIN t.tab)
         /\ Cardinality(DOMAIN t.tab) >= TABLE_INIT_BUF
               <=> DOMAIN t.tab = 0 .. TABLE_INIT_BUF - 1
<1>1. PICK D : D = DOMAIN t.tab
  OBVIOUS
<1>2. D \in SUBSET (0 .. TABLE_INIT_BUF - 1)
  BY <1>1, TablesAre
<1>3. PICK S : S = 0 .. TABLE_INIT_BUF - 1
  OBVIOUS
<1>4. IsFiniteSet(S) /\ Cardinality(S) = TABLE_INIT_BUF
  <2>1. TABLE_INIT_BUF \in Nat \ {0}
    BY PowerOfTwo
  <2>2. PICK b : b = TABLE_INIT_BUF - 1
    OBVIOUS
  <2>3. 0 \in Int /\ b \in Int /\ ~(0 > b) /\ b - 0 + 1 = TABLE_INIT_BUF
    BY <2>1, <2>2
  <2>4. IsFiniteSet(0 .. b) /\ Cardinality(0 .. b) = IF 0 > b THEN 0 ELSE b - 0 + 1
    BY <2>3, FS_Interval
  <2> QED BY <1>3, <2>2, <2>3, <2>4
<1>5. D \in SUBSET S
  BY <1>2, <1>3
<1>6. IsFiniteSet(D) /\ Cardinality(D) <= Cardinality(S) /\ (Cardinality(S) = Cardinality(D) => S = D)
  BY <1>4, <1>5, FS_Subset
<1>7. Cardinality(D) \in Nat /\ TABLE_INIT_BUF \in Nat
  BY <1>6, FS_CardinalityType, PowerOfTwo
<1>8. Cardinality(D) >= TABLE_INIT_BUF <=> D = S
  BY <1>4, <1>6, <1>7
<1> QED BY <1>1, <1>3, <1>6, <1>8

(* A table has as many names as the dictionary has under its path.          *)
LEMMA NamesCount ==
  ASSUME NEW V, NEW heap \in Seq(Objects(V)), NEW P, Tree(heap, P),
         NEW d, IsDict(d, heap, P), NEW i \in 1 .. Len(heap)
  PROVE  Cardinality(NamesAt(d, P[i])) = Cardinality(DOMAIN heap[i].table.tab)
<1> DEFINE t == heap[i].table
           D == DOMAIN t.tab
           f == [s \in D |-> P[t.tab[s].val]]
<1>1. t \in Tables /\ Len(heap) \in Nat
  BY TreeFacts
<1>2. P \in [1 .. Len(heap) -> Seq(Str)] /\ \A j, k \in 1 .. Len(heap) : P[j] = P[k] => j = k
  BY DEF Tree, Named
<1>3. \A s \in D : t.tab[s].val \in 2 .. Len(heap) /\ t.tab[s].key \in Str
                   /\ P[t.tab[s].val] = Append(P[i], t.tab[s].key)
  <2> TAKE s \in D
  <2>1. t.tab[s].val \in i + 1 .. Len(heap)
    BY DEF Tree
  <2>2. P[t.tab[s].val] = Append(P[i], t.tab[s].key)
    BY DEF Tree, Named
  <2>3. t.tab[s].key \in Str
    <3>1. PICK u \in Tables : u = t
      BY <1>1
    <3>2. u.tab \in [DOMAIN u.tab -> [key : Str, val : Nat]]
      BY Zenon, TablesAre
    <3> QED BY <3>1, <3>2
  <2> QED BY <1>1, <2>1, <2>2, <2>3
<1>4. ASSUME NEW s \in D PROVE f[s] \in NamesAt(d, P[i])
  <2>1. PICK x, e : x = f[s] /\ e = t.tab[s].key
    BY Zenon
  <2>2. x = Append(P[i], e) /\ P[i] \in Seq(Str) /\ e \in Str
    BY Zenon, <1>2, <1>3, <2>1
  <2>3. Len(x) = Len(P[i]) + 1 /\ Begin(x, Len(P[i])) = P[i]
    BY <2>2, BeginOfAppend
  <2>4. x \in DOMAIN d
    BY <1>3, <2>1 DEF IsDict
  <2> QED BY Zenon, <2>1, <2>3, <2>4 DEF NamesAt, Begin
<1>5. ASSUME NEW x \in NamesAt(d, P[i]) PROVE \E s \in D : f[s] = x
  <2>1. x \in DOMAIN d /\ Len(x) = Len(P[i]) + 1 /\ Begin(x, Len(P[i])) = P[i]
    BY DEF NamesAt, Begin
  <2>2. PICK k \in 2 .. Len(heap) : x = P[k]
    BY <2>1, InDict
  <2>3. PICK j, s : Parents(heap, P, j, s, k)
    BY ParentIs
  <2>4. j \in 1 .. Len(heap) /\ s \in DOMAIN heap[j].table.tab /\ heap[j].table.tab[s].val = k
    BY <2>3 DEF Parents
  <2>5. PICK a, e : a = P[j] /\ e = heap[j].table.tab[s].key
    OBVIOUS
  <2>6. a \in Seq(Str) /\ e \in Str /\ x = Append(a, e)
    BY <1>2, <2>2, <2>3, <2>5 DEF Parents
  <2>7. Len(x) = Len(a) + 1 /\ Begin(x, Len(a)) = a /\ Len(a) \in Nat
    BY <2>6, BeginOfAppend, LenProperties
  <2>8. Len(P[i]) \in Nat
    BY <1>2, LenProperties
  <2>9. Len(a) = Len(P[i])
    BY <2>1, <2>7, <2>8
  <2>10. j = i
    BY <1>2, <2>1, <2>4, <2>5, <2>7, <2>9
  <2> QED BY <2>2, <2>4, <2>10
<1>6. IsFiniteSet(D)
  BY <1>1, FullIs
<1>7. \A s, r \in D : f[s] = f[r] => s = r
  <2> TAKE s, r \in D
  <2> HAVE f[s] = f[r]
  <2>1. t.tab[s].val = t.tab[r].val
    <3>1. PICK a, b : a = t.tab[s].val /\ b = t.tab[r].val
      OBVIOUS
    <3>2. P[a] = P[b]
      BY <3>1
    <3>3. a \in 1 .. Len(heap) /\ b \in 1 .. Len(heap)
      <4>1. a \in 2 .. Len(heap) /\ b \in 2 .. Len(heap)
        BY Zenon, <1>3, <3>1
      <4> QED BY SMTT(30), <1>1, <4>1
    <3> QED BY Zenon, <1>2, <3>1, <3>2, <3>3
  <2>2. /\ s \in DOMAIN heap[i].table.tab /\ r \in DOMAIN heap[i].table.tab
        /\ heap[i].table.tab[s].val = heap[i].table.tab[r].val
    BY <2>1
  <2>3. i = i /\ s = r
    BY <2>2, OnePlace
  <2> QED BY Zenon, <2>3
<1>8. PICK N2 : N2 = NamesAt(d, P[i])
  OBVIOUS
<1>9. f \in Surjection(D, N2) /\ f \in Injection(D, N2)
  <2>1. f \in [D -> N2]
    BY <1>4, <1>8
  <2>2. \A x \in N2 : \E s \in D : f[s] = x
    BY <1>5, <1>8
  <2> HIDE DEF f, D
  <2>3. f \in Surjection(D, N2)
    BY <2>1, <2>2 DEF Surjection
  <2>4. f \in Injection(D, N2)
    BY <1>7, <2>1 DEF Injection, IsInjective
  <2> QED BY <2>3, <2>4
<1>10. Cardinality(N2) = Cardinality(D)
  <2> HIDE DEF f, D
  <2> QED BY <1>6, <1>9, FS_Surjection
<1> QED BY <1>8, <1>10

(* The beginnings of a path.                                                *)
LEMMA Beginnings ==
  ASSUME NEW p \in Seq(Str)
  PROVE  /\ Len(p) \in Nat /\ Begin(p, 0) = <<>> /\ Begin(p, Len(p)) = p
         /\ \A m \in 0 .. Len(p) : Begin(p, m) \in Seq(Str) /\ Len(Begin(p, m)) = m
         /\ {SubSeq(p, 1, n) : n \in 1 .. Len(p) - 1} = {Begin(p, n) : n \in 1 .. Len(p) - 1}
<1>1. Len(p) \in Nat
  BY LenProperties
<1>2. Begin(p, 0) = <<>>
  BY SubSeqEmpty DEF Begin
<1>3. Begin(p, Len(p)) = p
  BY SubSeqFull DEF Begin
<1>4. \A m \in 0 .. Len(p) : Begin(p, m) \in Seq(Str) /\ Len(Begin(p, m)) = m
  <2> TAKE m \in 0 .. Len(p)
  <2>1. CASE m = 0
    <3>1. <<>> \in Seq(Str) /\ Len(<<>>) = 0
      OBVIOUS
    <3> QED BY <1>2, <2>1, <3>1
  <2>2. CASE m # 0
    <3>1. m \in 1 .. Len(p)
      BY <1>1, <2>2
    <3> QED BY <3>1, BeginGrows
  <2> QED BY <2>1, <2>2
<1>5. \A n : SubSeq(p, 1, n) = Begin(p, n)
  BY DEF Begin
<1> QED BY <1>1, <1>2, <1>3, <1>4, <1>5

(* An entry that is refused is in conflict with the dictionary.             *)
LEMMA RefusedConflicts ==
  ASSUME NEW V, NEW g, g.heap \in Seq(Objects(V)), NEW P, Tree(g.heap, P),
         NEW d, IsDict(d, g.heap, P), NEW p \in Seq(Str), p # <<>>,
         Obstructed(g, P, p, Len(p)) \/ \E i \in 1 .. Len(g.heap) : P[i] = p
  PROVE  ConflictIn(d, p)
<1>1. /\ Len(p) \in Nat /\ Begin(p, Len(p)) = p
      /\ {SubSeq(p, 1, n) : n \in 1 .. Len(p) - 1} = {Begin(p, n) : n \in 1 .. Len(p) - 1}
  BY Beginnings
<1>2. Len(g.heap) \in Nat /\ P[1] = <<>> /\ g.heap[1].value = TableValue
  BY LenProperties DEF Tree, Named
<1>3. ASSUME NEW i \in 1 .. Len(g.heap), P[i] = p PROVE p \in DOMAIN d
  <2>1. i \in 2 .. Len(g.heap)
    BY <1>2, <1>3
  <2> QED BY <1>3, <2>1 DEF IsDict
<1>4. ASSUME NEW m \in 1 .. Len(p), NEW i \in 1 .. Len(g.heap), P[i] = Begin(p, m),
             g.heap[i].value # TableValue
      PROVE  ConflictIn(d, p)
  <2>1. i \in 2 .. Len(g.heap)
    BY <1>2, <1>4
  <2>2. P[i] \in DOMAIN d /\ d[P[i]] # TableValue
    BY <1>4, <2>1 DEF IsDict
  <2>3. CASE m = Len(p)
    BY <1>1, <1>3, <1>4, <2>3 DEF ConflictIn
  <2>4. CASE m # Len(p)
    <3>1. m \in 1 .. Len(p) - 1
      BY <1>1, <2>4
    <3>2. P[i] \in {Begin(p, n) : n \in 1 .. Len(p) - 1}
      BY <1>4, <3>1
    <3> QED BY <1>1, <2>2, <3>2 DEF ConflictIn
  <2> QED BY <2>3, <2>4
<1> QED BY <1>3, <1>4 DEF Obstructed, ConflictIn

(* An entry that aborts the program overfills a table of the dictionary.    *)
LEMMA OverflowsOverfills ==
  ASSUME NEW V, NEW g, g.heap \in Seq(Objects(V)), NEW P, Tree(g.heap, P),
         NEW d, IsDict(d, g.heap, P), NEW p \in Seq(Str), Overflows(g, P, p, Len(p))
  PROVE  OverfullIn(d, p)
<1>1. /\ Len(p) \in Nat /\ Begin(p, 0) = <<>>
      /\ \A m \in 0 .. Len(p) : Begin(p, m) \in Seq(Str) /\ Len(Begin(p, m)) = m
      /\ {SubSeq(p, 1, n) : n \in 1 .. Len(p) - 1} = {Begin(p, n) : n \in 1 .. Len(p) - 1}
  BY Zenon, Beginnings
<1>2. /\ P \in [1 .. Len(g.heap) -> Seq(Str)]
      /\ \A i, j \in 1 .. Len(g.heap) : P[i] = P[j] => i = j
  BY Zenon DEF Tree, Named
<1>3. PICK m \in 1 .. Len(p), i \in 1 .. Len(g.heap) :
        /\ P[i] = Begin(p, m - 1)
        /\ DOMAIN g.heap[i].table.tab = 0 .. TABLE_INIT_BUF - 1
        /\ \A s \in DOMAIN g.heap[i].table.tab : g.heap[i].table.tab[s].key # p[m]
  BY DEF Overflows
<1>4. PICK q : q = Begin(p, m - 1)
  OBVIOUS
<1>5. m - 1 \in 0 .. Len(p) /\ Len(q) + 1 = m
  <2>1. PICK n : n = m - 1
    OBVIOUS
  <2>2. n \in 0 .. Len(p) /\ n + 1 = m
    BY <1>1, <2>1
  <2>3. Len(q) = n
    BY <1>1, <1>4, <2>1, <2>2
  <2> QED BY <2>1, <2>2, <2>3
<1>6. q \in {SubSeq(p, 1, n) : n \in 1 .. Len(p) - 1} \cup {<<>>}
  <2>1. CASE m = 1
    BY <1>1, <1>4, <2>1
  <2>2. CASE m # 1
    <3>1. m - 1 \in 1 .. Len(p) - 1
      BY <1>1, <2>2
    <3> QED BY <1>1, <1>4, <3>1
  <2> QED BY <2>1, <2>2
<1>7. SubSeq(p, 1, Len(q) + 1) \notin DOMAIN d
  <2> SUFFICES ASSUME Begin(p, m) \in DOMAIN d PROVE FALSE
    BY <1>5 DEF Begin
  <2>1. PICK k \in 2 .. Len(g.heap) : Begin(p, m) = P[k]
    BY InDict
  <2>2. PICK heap : heap = g.heap
    OBVIOUS
  <2>3. k \in 2 .. Len(heap) /\ heap \in Seq(Objects(V)) /\ Tree(heap, P)
    BY <2>1, <2>2
  <2>4. PICK j, s : Parents(heap, P, j, s, k)
    BY <2>3, ParentIs
  <2>5. j \in 1 .. Len(heap) /\ s \in DOMAIN heap[j].table.tab
    BY <2>4 DEF Parents
  <2>6. PICK a, b, e, f : a = P[j] /\ e = heap[j].table.tab[s].key /\ b = q /\ f = p[m]
    OBVIOUS
  <2>7. p[m] \in Str /\ Begin(p, m) = Append(Begin(p, m - 1), p[m])
    BY BeginGrows
  <2>8. a \in Seq(Str) /\ b \in Seq(Str) /\ e \in Str /\ f \in Str /\ Append(a, e) = Append(b, f)
    <3>1. b \in Seq(Str)
      BY <1>1, <1>4, <1>5, <2>6
    <3>2. a \in Seq(Str) /\ e \in Str /\ P[k] = Append(a, e)
      BY <1>2, <2>2, <2>4, <2>5, <2>6 DEF Parents
    <3> QED BY <1>4, <2>1, <2>6, <2>7, <3>1, <3>2
  <2>9. a = b /\ e = f
    BY <2>8, AppendInjective
  <2>10. j = i
    BY <1>2, <1>3, <1>4, <2>2, <2>5, <2>6, <2>9
  <2> QED BY <1>3, <2>2, <2>5, <2>6, <2>9, <2>10
<1>8. Cardinality(NamesAt(d, q)) >= TABLE_INIT_BUF
  <2>1. Cardinality(NamesAt(d, P[i])) = Cardinality(DOMAIN g.heap[i].table.tab)
    BY NamesCount
  <2>2. PICK t : t = g.heap[i].table
    OBVIOUS
  <2>3. t \in Tables
    BY <2>2, TreeFacts
  <2>4. Cardinality(DOMAIN t.tab) >= TABLE_INIT_BUF
    BY <1>3, <2>2, <2>3, FullIs
  <2> QED BY <1>3, <1>4, <2>1, <2>2, <2>4
<1> QED BY <1>6, <1>7, <1>8 DEF OverfullIn

(* An entry that is taken adds its path to the dictionary, and the tables on the way. *)
Widens(g, P, p, e, r, Q) ==
    /\ Tree(r.heap, Q) /\ Grows(g.heap, P, r.heap, Q) /\ Q[r.at] = p
    /\ r.at \in Len(g.heap) + 1 .. Len(r.heap) /\ r.heap[r.at].value = EntryValue(e)
    /\ \A k \in Len(g.heap) + 1 .. Len(r.heap) :
          /\ k # r.at => r.heap[k].value = TableValue
          /\ \E m \in 1 .. Len(p) : Q[k] = Begin(p, m)

(* An entry that is taken makes the objects on the rest of its path.        *)
LEMMA TakenWidens ==
  ASSUME NEW V, NEW g, g.heap \in Seq(Objects(V)), NEW P, NEW p \in Seq(Str), NEW e,
         NEW r, r.heap \in Seq(Objects(V)), Taken(g, P, p, e, r)
  PROVE  \E Q : Widens(g, P, p, e, r, Q)
<1>1. PICK Q : Walked(g, P, p, Len(p), r, Q)
  BY DEF Taken
<1>2. Begin(p, Len(p)) = p
  BY Beginnings
<1>3. Len(g.heap) \in Nat /\ Len(r.heap) \in Nat
  BY LenProperties
<1>4. r.at \in 1 .. Len(r.heap) /\ Len(g.heap) < r.at /\ r.heap[r.at].value = EntryValue(e)
  BY DEF Taken
<1>5. r.at \in Len(g.heap) + 1 .. Len(r.heap)
  BY <1>3, <1>4
<1>6. Widens(g, P, p, e, r, Q)
  BY <1>1, <1>2, <1>4, <1>5 DEF Walked, Widens
<1> QED BY <1>6

(* An entry that is taken is in no conflict.                                *)
LEMMA WidensNoConflict ==
  ASSUME NEW V, NEW g, g.heap \in Seq(Objects(V)), NEW P, Tree(g.heap, P),
         NEW d, IsDict(d, g.heap, P), NEW p \in Seq(Str), NEW e,
         NEW r, r.heap \in Seq(Objects(V)), NEW Q, Widens(g, P, p, e, r, Q)
  PROVE  ~ConflictIn(d, p)
<1>1. /\ Len(p) \in Nat
      /\ {SubSeq(p, 1, n) : n \in 1 .. Len(p) - 1} = {Begin(p, n) : n \in 1 .. Len(p) - 1}
  BY Beginnings
<1>2. /\ Tree(r.heap, Q) /\ Grows(g.heap, P, r.heap, Q) /\ Q[r.at] = p
      /\ r.at \in Len(g.heap) + 1 .. Len(r.heap)
  BY DEF Widens
<1>3. Len(g.heap) \in Nat /\ Len(r.heap) \in Nat /\ Len(g.heap) <= Len(r.heap)
  BY Zenon, <1>2, LenProperties DEF Grows
<1>4. \A i, j \in 1 .. Len(r.heap) : Q[i] = Q[j] => i = j
  BY Zenon, <1>2 DEF Tree, Named
<1>5. \A i \in 1 .. Len(g.heap) : Q[i] = P[i] /\ r.heap[i].value = g.heap[i].value
  BY <1>2 DEF Grows
<1>6. p \notin DOMAIN d
  <2> SUFFICES ASSUME p \in DOMAIN d PROVE FALSE
    OBVIOUS
  <2>1. PICK i \in 2 .. Len(g.heap) : p = P[i]
    BY InDict
  <2>2. i \in 1 .. Len(g.heap) /\ i \in 1 .. Len(r.heap) /\ r.at \in 1 .. Len(r.heap) /\ i # r.at
    BY <1>2, <1>3
  <2> QED BY <1>2, <1>4, <1>5, <2>1, <2>2
<1>7. ASSUME NEW m \in 1 .. Len(p) - 1, Begin(p, m) \in DOMAIN d PROVE d[Begin(p, m)] = TableValue
  <2>1. PICK i \in 2 .. Len(g.heap) : Begin(p, m) = P[i] /\ d[Begin(p, m)] = g.heap[i].value
    BY <1>7, InDict
  <2>2. r.at \in 1 .. Len(r.heap) /\ m \in 0 .. Len(p) - 1
    BY <1>1, <1>2, <1>3
  <2>3. PICK j : OnTheWay(r.heap, Q, p, m, j)
    BY <1>2, <2>2, WayTo
  <2>4. j \in 1 .. Len(r.heap) /\ Q[j] = Begin(p, m) /\ r.heap[j].value = TableValue
    BY <2>3 DEF OnTheWay
  <2>5. i \in 1 .. Len(g.heap) /\ i \in 1 .. Len(r.heap)
    BY <1>3
  <2>6. j = i
    BY <1>4, <1>5, <2>1, <2>4, <2>5
  <2> QED BY <1>5, <2>1, <2>4, <2>5, <2>6
<1> QED BY <1>1, <1>6, <1>7 DEF ConflictIn

(* It overfills no table.                                                   *)
LEMMA WidensNotOverfull ==
  ASSUME NEW V, NEW g, g.heap \in Seq(Objects(V)), NEW P, Tree(g.heap, P),
         NEW d, IsDict(d, g.heap, P), NEW p \in Seq(Str), p # <<>>, NEW e,
         NEW r, r.heap \in Seq(Objects(V)), NEW Q, Widens(g, P, p, e, r, Q)
  PROVE  ~OverfullIn(d, p)
<1>1. /\ Len(p) \in Nat /\ Begin(p, 0) = <<>>
      /\ \A m \in 0 .. Len(p) : Begin(p, m) \in Seq(Str) /\ Len(Begin(p, m)) = m
      /\ {SubSeq(p, 1, n) : n \in 1 .. Len(p) - 1} = {Begin(p, n) : n \in 1 .. Len(p) - 1}
  BY Beginnings
<1>2. /\ Tree(r.heap, Q) /\ Grows(g.heap, P, r.heap, Q) /\ Q[r.at] = p
      /\ r.at \in Len(g.heap) + 1 .. Len(r.heap)
  BY DEF Widens
<1>3. Len(g.heap) \in Nat /\ Len(r.heap) \in Nat /\ Len(g.heap) <= Len(r.heap)
  BY Zenon, <1>2, LenProperties DEF Grows
<1>4. \A i, j \in 1 .. Len(r.heap) : Q[i] = Q[j] => i = j
  BY Zenon, <1>2 DEF Tree, Named
<1>5. \A i \in 1 .. Len(g.heap) : Q[i] = P[i]
  BY <1>2 DEF Grows
<1>6. Len(p) >= 1
  BY <1>1, EmptySeq
<1> SUFFICES ASSUME NEW q \in {SubSeq(p, 1, n) : n \in 1 .. Len(p) - 1} \cup {<<>>},
                    SubSeq(p, 1, Len(q) + 1) \notin DOMAIN d,
                    Cardinality(NamesAt(d, q)) >= TABLE_INIT_BUF
             PROVE  FALSE
  BY DEF OverfullIn
<1>7. PICK m \in 0 .. Len(p) - 1 : q = Begin(p, m)
  <2>1. CASE q = <<>>
    <3>1. 0 \in 0 .. Len(p) - 1
      BY <1>1, <1>6
    <3> QED BY <1>1, <2>1, <3>1
  <2>2. CASE q # <<>>
    <3>1. PICK n \in 1 .. Len(p) - 1 : q = Begin(p, n)
      BY <1>1, <2>2
    <3>2. n \in 0 .. Len(p) - 1
      BY <1>1
    <3> QED BY <3>1, <3>2
  <2> QED BY <2>1, <2>2
<1>8. m \in 0 .. Len(p) /\ Len(q) = m
  BY <1>1, <1>7
<1>9. Begin(p, m + 1) \notin DOMAIN d
  BY <1>8 DEF Begin
<1>10. PICK j : OnTheWay(r.heap, Q, p, m, j)
  <2>1. r.at \in 1 .. Len(r.heap)
    BY SMTT(30), <1>2, <1>3
  <2> QED BY <1>2, <2>1, WayTo
<1>11. PICK k \in DOMAIN r.heap[j].table.tab :
          r.heap[j].table.tab[k].val \in 2 .. Len(r.heap)
          /\ Q[r.heap[j].table.tab[k].val] = Begin(p, m + 1)
  BY <1>10 DEF OnTheWay
<1>12. j \in 1 .. Len(r.heap) /\ Q[j] = q
  BY <1>7, <1>10 DEF OnTheWay
<1>13. \E i \in 1 .. Len(g.heap) : P[i] = q
  <2>1. NamesAt(d, q) # {}
    <3> SUFFICES ASSUME NamesAt(d, q) = {} PROVE FALSE
      OBVIOUS
    <3>1. Cardinality(NamesAt(d, q)) = 0
      BY FS_EmptySet
    <3>2. TABLE_INIT_BUF \in Nat \ {0}
      BY PowerOfTwo
    <3> QED BY <3>1, <3>2
  <2>2. PICK x \in DOMAIN d : Len(x) = Len(q) + 1 /\ Begin(x, Len(q)) = q
    BY <2>1 DEF NamesAt, Begin
  <2>3. PICK i \in 2 .. Len(g.heap) : x = P[i]
    BY InDict
  <2>4. PICK heap : heap = g.heap
    OBVIOUS
  <2>5. i \in 2 .. Len(heap) /\ heap \in Seq(Objects(V)) /\ Tree(heap, P)
    BY <2>3, <2>4
  <2>6. PICK h, s : Parents(heap, P, h, s, i)
    BY <2>5, ParentIs
  <2>7. PICK a, f : a = P[h] /\ f = heap[h].table.tab[s].key
    OBVIOUS
  <2>8. h \in 1 .. Len(heap) /\ f \in Str /\ x = Append(a, f)
    BY Zenon, <2>3, <2>6, <2>7 DEF Parents
  <2>9. a \in Seq(Str)
    BY Zenon, <2>4, <2>7, <2>8 DEF Tree, Named
  <2>10. Len(x) = Len(a) + 1 /\ Begin(x, Len(a)) = a /\ Len(a) \in Nat
    BY <2>8, <2>9, BeginOfAppend, LenProperties
  <2>11. Len(a) = Len(q)
    BY <1>8, <2>2, <2>10
  <2> QED BY <2>2, <2>4, <2>7, <2>8, <2>10, <2>11
<1>14. PICK i \in 1 .. Len(g.heap) : P[i] = q
  BY <1>13
<1>15. j = i /\ i \in 1 .. Len(r.heap)
  BY <1>3, <1>4, <1>5, <1>12, <1>14
<1>16. PICK t, u : t = g.heap[i].table /\ u = r.heap[i].table
  OBVIOUS
<1>17. t \in Tables /\ u \in Tables
  <2>1. t \in Tables
    BY <1>16, TreeFacts
  <2>2. u \in Tables
    BY <1>2, <1>15, <1>16, TreeFacts
  <2> QED BY <2>1, <2>2
<1>18. DOMAIN t.tab = 0 .. TABLE_INIT_BUF - 1
  <2>1. Cardinality(NamesAt(d, P[i])) = Cardinality(DOMAIN g.heap[i].table.tab)
    BY NamesCount
  <2>2. Cardinality(DOMAIN t.tab) >= TABLE_INIT_BUF
    BY <1>14, <1>16, <2>1
  <2> QED BY <1>17, <2>2, FullIs
<1>19. k \in DOMAIN t.tab
  <2>1. DOMAIN u.tab \subseteq Slots(u) /\ Slots(u) = 0 .. TABLE_INIT_BUF - 1
    BY <1>17, TablesAre
  <2> QED BY <1>11, <1>15, <1>16, <1>18, <2>1
<1>20. u.tab[k] = t.tab[k]
  <2>1. r.heap[i].table.tab[k] = g.heap[i].table.tab[k]
    BY <1>2, <1>16, <1>19 DEF Grows
  <2> QED BY <1>16, <2>1
<1>21. PICK v : v = t.tab[k].val
  OBVIOUS
<1>22. v \in 2 .. Len(g.heap) /\ Q[v] = Begin(p, m + 1)
  <2>1. g.heap[i].table.tab[k].val \in i + 1 .. Len(g.heap)
    BY <1>16, <1>19 DEF Tree
  <2> QED BY <1>3, <1>11, <1>15, <1>16, <1>20, <1>21, <2>1
<1>23. v \in 1 .. Len(g.heap)
  BY <1>3, <1>22
<1>24. P[v] \in DOMAIN d
  BY <1>22 DEF IsDict
<1> QED BY <1>5, <1>9, <1>22, <1>23, <1>24

IsExtended(more, d, p, value) == more = Extended(d, p, value)

(* It adds itself and the missing tables to the dictionary.                 *)
LEMMA WidensDefines ==
  ASSUME NEW V, NEW g, g.heap \in Seq(Objects(V)), NEW P, Tree(g.heap, P),
         NEW d, IsDict(d, g.heap, P), NEW p \in Seq(Str), p # <<>>, NEW e,
         NEW r, r.heap \in Seq(Objects(V)), NEW Q, Widens(g, P, p, e, r, Q),
         NEW more, IsDict(more, r.heap, Q)
  PROVE  IsExtended(more, d, p, EntryValue(e))
<1>1. /\ Len(p) \in Nat
      /\ \A m \in 0 .. Len(p) : Begin(p, m) \in Seq(Str) /\ Len(Begin(p, m)) = m
      /\ {SubSeq(p, 1, n) : n \in 1 .. Len(p) - 1} = {Begin(p, n) : n \in 1 .. Len(p) - 1}
      /\ Begin(p, Len(p)) = p
  BY Beginnings
<1>2. /\ Tree(r.heap, Q) /\ Grows(g.heap, P, r.heap, Q) /\ Q[r.at] = p
      /\ r.at \in Len(g.heap) + 1 .. Len(r.heap) /\ r.heap[r.at].value = EntryValue(e)
      /\ \A k \in Len(g.heap) + 1 .. Len(r.heap) :
            /\ k # r.at => r.heap[k].value = TableValue
            /\ \E m \in 1 .. Len(p) : Q[k] = Begin(p, m)
  BY DEF Widens
<1>3. Len(g.heap) \in Nat /\ Len(r.heap) \in Nat /\ Len(g.heap) <= Len(r.heap) /\ Len(g.heap) >= 1
  BY Zenon, <1>2, LenProperties DEF Grows, Tree
<1>4. /\ \A i, j \in 1 .. Len(r.heap) : Q[i] = Q[j] => i = j
      /\ Q[1] = <<>>
  BY Zenon, <1>2 DEF Tree, Named
<1>5. \A i \in 1 .. Len(g.heap) : Q[i] = P[i] /\ r.heap[i].value = g.heap[i].value
  BY <1>2 DEF Grows
<1> DEFINE A == {Begin(p, n) : n \in 1 .. Len(p) - 1}
<1>6. p \notin DOMAIN d
  <2>1. ~ConflictIn(d, p)
    BY WidensNoConflict
  <2> QED BY <2>1 DEF ConflictIn
<1>7. ASSUME NEW i \in 2 .. Len(r.heap)
      PROVE  /\ Q[i] \in DOMAIN d \cup A \cup {p}
             /\ r.heap[i].value = IF Q[i] \in DOMAIN d THEN d[Q[i]]
                                  ELSE IF Q[i] = p THEN EntryValue(e) ELSE TableValue
  <2>1. CASE i <= Len(g.heap)
    <3>1. i \in 2 .. Len(g.heap) /\ i \in 1 .. Len(g.heap)
      BY <1>3, <2>1
    <3>2. P[i] \in DOMAIN d /\ d[P[i]] = g.heap[i].value
      BY <3>1 DEF IsDict
    <3> QED BY <1>5, <3>1, <3>2
  <2>2. CASE i > Len(g.heap)
    <3>1. i \in Len(g.heap) + 1 .. Len(r.heap) /\ i \in 1 .. Len(r.heap)
      BY <1>3, <2>2
    <3>2. Q[i] \in A \cup {p}
      <4>1. PICK m \in 1 .. Len(p) : Q[i] = Begin(p, m)
        BY <1>2, <3>1
      <4>2. m = Len(p) \/ m \in 1 .. Len(p) - 1
        BY <1>1
      <4> QED BY <1>1, <4>1, <4>2
    <3>3. Q[i] \notin DOMAIN d
      <4> SUFFICES ASSUME Q[i] \in DOMAIN d PROVE FALSE
        OBVIOUS
      <4>1. PICK j \in 2 .. Len(g.heap) : Q[i] = P[j]
        BY InDict
      <4>2. j \in 1 .. Len(g.heap) /\ j \in 1 .. Len(r.heap) /\ j # i
        BY <1>3, <3>1
      <4> QED BY <1>4, <1>5, <3>1, <4>1, <4>2
    <3>4. r.at \in 1 .. Len(r.heap)
      BY <1>2, <1>3
    <3>5. Q[i] = p <=> i = r.at
      BY <1>2, <1>4, <3>1, <3>4
    <3>6. i # r.at => r.heap[i].value = TableValue
      BY <1>2, <3>1
    <3> QED BY <1>2, <3>2, <3>3, <3>5, <3>6
  <2> QED BY <1>3, <2>1, <2>2
<1>8. ASSUME NEW x \in DOMAIN d \cup A \cup {p} PROVE \E i \in 2 .. Len(r.heap) : x = Q[i]
  <2>1. CASE x \in DOMAIN d
    <3>1. PICK i \in 2 .. Len(g.heap) : x = P[i]
      BY <2>1, InDict
    <3>2. i \in 2 .. Len(r.heap) /\ i \in 1 .. Len(g.heap)
      BY <1>3
    <3> QED BY <1>5, <3>1, <3>2
  <2>2. CASE x = p
    <3>1. r.at \in 2 .. Len(r.heap)
      BY <1>2, <1>3
    <3> QED BY <1>2, <2>2, <3>1
  <2>3. CASE x \in A
    <3>1. PICK m \in 1 .. Len(p) - 1 : x = Begin(p, m)
      BY <2>3
    <3>2. m \in 0 .. Len(p) - 1 /\ r.at \in 1 .. Len(r.heap) /\ m \in 0 .. Len(p) /\ m # 0
      BY <1>1, <1>2, <1>3
    <3>3. PICK j : OnTheWay(r.heap, Q, p, m, j)
      BY <1>2, <3>2, WayTo
    <3>4. j \in 1 .. Len(r.heap) /\ Q[j] = Begin(p, m)
      BY <3>3 DEF OnTheWay
    <3>5. j # 1
      <4>1. Len(<<>>) = 0 /\ Len(Begin(p, m)) = m
        BY <1>1, <3>2
      <4> QED BY <1>4, <3>2, <3>4, <4>1
    <3>6. j \in 2 .. Len(r.heap)
      BY <1>3, <3>4, <3>5
    <3> QED BY <3>1, <3>4, <3>6
  <2> QED BY <2>1, <2>2, <2>3
<1>9. DOMAIN more = DOMAIN d \cup A \cup {p}
  <2> HIDE DEF A
  <2>1. DOMAIN more = {Q[i] : i \in 2 .. Len(r.heap)}
    BY DEF IsDict
  <2>2. \A i \in 2 .. Len(r.heap) : Q[i] \in DOMAIN d \cup A \cup {p}
    BY <1>7
  <2>3. \A x \in DOMAIN d \cup A \cup {p} : \E i \in 2 .. Len(r.heap) : x = Q[i]
    BY <1>8
  <2>4. PICK S : S = DOMAIN d \cup A \cup {p}
    OBVIOUS
  <2> QED BY <2>1, <2>2, <2>3, <2>4
<1>10. ASSUME NEW x \in DOMAIN more
       PROVE  more[x] = IF x \in DOMAIN d THEN d[x] ELSE IF x = p THEN EntryValue(e) ELSE TableValue
  <2>1. PICK i \in 2 .. Len(r.heap) : x = Q[i] /\ more[x] = r.heap[i].value
    BY InDict
  <2> QED BY <1>7, <2>1
<1>11. more = [x \in DOMAIN more |-> more[x]]
  BY DEF IsDict
<1>12. more = [x \in DOMAIN d \cup A \cup {p} |->
                  IF x \in DOMAIN d THEN d[x] ELSE IF x = p THEN EntryValue(e) ELSE TableValue]
  <2> HIDE DEF A
  <2> QED BY <1>9, <1>10, <1>11
<1> QED BY <1>1, <1>12 DEF Extended, IsExtended

-----------------------------------------------------------------------------
(* The steps of the program are steps of the dictionary.                    *)

(* The entries to come, t, are one and the entries after it, u.             *)
Unwinds(t, u, s, n) ==
    t # <<>> /\ Head(t) = s[n + 1] /\ Tail(t) = u /\ (u = <<>> <=> n + 1 = Len(s))

(* The entries to come, before and after one.                               *)
LEMMA TodoIs ==
  ASSUME NEW E, NEW s \in Seq(E), NEW n \in Nat, n < Len(s),
         NEW t, t = SubSeq(s, n + 1, Len(s)), NEW u, u = SubSeq(s, n + 1 + 1, Len(s))
  PROVE  Unwinds(t, u, s, n)
<1>1. Len(s) \in Nat
  BY LenProperties
<1>2. t \in Seq(E) /\ Len(t) = Len(s) - n /\ \A i \in 1 .. Len(s) - n : t[i] = s[n + i]
  BY <1>1, SubSeqProperties
<1>3. u \in Seq(E) /\ Len(u) = Len(s) - n - 1 /\ \A i \in 1 .. Len(s) - n - 1 : u[i] = s[n + 1 + i]
  BY <1>1, SubSeqProperties
<1>4. t # <<>> /\ Head(t) = s[n + 1]
  <2>1. Len(t) # 0 /\ t[1] = s[n + 1]
    BY <1>1, <1>2
  <2>2. t # <<>>
    BY <2>1
  <2> QED BY <1>2, <2>1, <2>2, HeadTailProperties
<1>5. Tail(t) \in Seq(E) /\ Len(Tail(t)) = Len(s) - n - 1
      /\ \A i \in 1 .. Len(s) - n - 1 : Tail(t)[i] = s[n + 1 + i]
  <2>1. /\ Tail(t) \in Seq(E) /\ Len(Tail(t)) = Len(t) - 1
        /\ \A i \in 1 .. Len(Tail(t)) : Tail(t)[i] = t[i + 1]
    BY <1>2, <1>4, HeadTailProperties
  <2>2. PICK k : k = Len(s) - n - 1
    OBVIOUS
  <2>3. Len(t) = k + 1 /\ k \in Nat /\ Len(Tail(t)) = k
    BY <1>1, <1>2, <2>1, <2>2
  <2>4. ASSUME NEW i \in 1 .. k PROVE Tail(t)[i] = s[n + 1 + i]
    <3>1. i + 1 \in 1 .. Len(s) - n /\ n + (i + 1) = n + 1 + i
      BY <1>1, <2>2, <2>3
    <3>2. t[i + 1] = s[n + (i + 1)]
      BY <1>2, <3>1
    <3>3. Tail(t)[i] = t[i + 1]
      BY <2>1, <2>3
    <3> QED BY <3>1, <3>2, <3>3
  <2> QED BY <2>1, <2>2, <2>3, <2>4
<1>6. Tail(t) = u
  BY <1>3, <1>5, SeqEqual
<1>7. u = <<>> <=> Len(u) = 0
  BY <1>3, EmptySeq
<1> QED BY <1>1, <1>3, <1>4, <1>6, <1>7 DEF Unwinds

NoPaths == [p \in {} |-> TableValue]

(* Nothing is found in objects that are freed.                              *)
LEMMA DroppedIs ==
  ASSUME NEW g, g.live = {}, g.env = NULL
  PROVE  Contents(g) = NoPaths /\ EnvPath(g) = <<>>
<1>1. Contents(g) = NoPaths
  BY Zenon DEF Contents, NoPaths
<1>2. EnvPath(g) = <<>>
  BY DEF EnvPath
<1> QED BY <1>1, <1>2

(* A tree has one dictionary.                                               *)
LEMMA SameDict ==
  ASSUME NEW heap, NEW P, NEW c, NEW d, IsDict(c, heap, P), IsDict(d, heap, P)
  PROVE  c = d
<1>1. DOMAIN c = DOMAIN d /\ c = [q \in DOMAIN c |-> c[q]] /\ d = [q \in DOMAIN d |-> d[q]]
  BY DEF IsDict
<1>2. \A q \in DOMAIN c : c[q] = d[q]
  BY DEF IsDict
<1> QED BY <1>1, <1>2

(* The dictionary and the current table between two entries.                *)
LEMMA ReadyIs ==
  ASSUME NEW V, NEW g, NEW P, Ready(g, V, P)
  PROVE  IsDict(Contents(g), g.heap, P) /\ EnvPath(g) = P[g.env]
<1>1. /\ g.heap \in Seq(Objects(V)) /\ Tree(g.heap, P) /\ g.env \in 1 .. Len(g.heap)
      /\ g.live = 1 .. Len(g.heap)
  BY DEF Ready, Graphs
<1>2. Root \in g.live
  <2>1. Len(g.heap) \in Nat /\ Len(g.heap) >= 1
    BY <1>1, LenProperties DEF Tree
  <2> QED BY <1>1, <2>1 DEF Root
<1> QED BY <1>1, <1>2, ContentsAre, EnvPathIs

(* Both are empty in a new root.                                            *)
LEMMA FreshIs == Contents(NewObjects) = NoPaths /\ EnvPath(NewObjects) = <<>>
<1>1. PICK P : Ready(NewObjects, {TableValue}, P)
  BY NewReady
<1>2. PICK g : g = NewObjects
  OBVIOUS
<1>3. IsDict(Contents(g), g.heap, P)
  BY <1>1, <1>2, ReadyIs
<1>4. Len(g.heap) = 1 /\ g.env = Root
  BY <1>2 DEF NewObjects
<1>5. DOMAIN Contents(g) = {} /\ Contents(g) = [q \in DOMAIN Contents(g) |-> Contents(g)[q]]
  BY <1>3, <1>4 DEF IsDict
<1>6. Contents(g) = NoPaths
  BY <1>5 DEF NoPaths
<1>7. EnvPath(g) = <<>>
  BY <1>4 DEF EnvPath
<1> QED BY <1>2, <1>6, <1>7

(* What an entry does to the dictionary c, and where plain keys then are.   *)
Means(g, c, p, e, r) ==
    \/ r.aborted /\ OverfullIn(c, p)
    \/ ~r.aborted /\ r.failed /\ Contents(r) = NoPaths /\ EnvPath(r) = <<>> /\ ConflictIn(c, p)
    \/ /\ ~r.aborted /\ ~r.failed /\ ~ConflictIn(c, p) /\ ~OverfullIn(c, p)
       /\ Contents(r) = Extended(c, p, EntryValue(e))
       /\ EnvPath(r) = IF DeclaresTable(e) THEN p ELSE EnvPath(g)

(* What an entry that is taken means.                                       *)
LEMMA TakenMeans ==
  ASSUME NEW V, NEW g, NEW P, Ready(g, V, P), NEW c, IsDict(c, g.heap, P), EnvPath(g) = P[g.env],
         NEW p \in Seq(Str), p # <<>>, NEW e, NEW r \in Graphs(V), Taken(g, P, p, e, r)
  PROVE  Means(g, c, p, e, r)
<1>1. /\ g.heap \in Seq(Objects(V)) /\ Tree(g.heap, P) /\ g.env \in 1 .. Len(g.heap)
      /\ Len(g.heap) \in Nat
  BY LenProperties DEF Ready, Graphs
<1>2. r.heap \in Seq(Objects(V)) /\ Len(r.heap) \in Nat
  BY LenProperties DEF Graphs
<1>3. PICK Q : Widens(g, P, p, e, r, Q)
  BY <1>1, <1>2, TakenWidens
<1>4. Tree(r.heap, Q) /\ Grows(g.heap, P, r.heap, Q) /\ Q[r.at] = p
  BY <1>3 DEF Widens
<1>5. /\ ~r.failed /\ ~r.aborted /\ r.live = 1 .. Len(r.heap) /\ r.at \in 1 .. Len(r.heap)
      /\ r.env = IF DeclaresTable(e) THEN r.at ELSE g.env
  BY DEF Taken
<1>6. Len(g.heap) <= Len(r.heap) /\ \A i \in 1 .. Len(g.heap) : Q[i] = P[i]
  BY <1>4 DEF Grows
<1>7. r.env \in 1 .. Len(r.heap)
  BY <1>1, <1>2, <1>5, <1>6
<1>8. Root \in r.live
  BY <1>2, <1>5 DEF Root
<1>9. PICK more : more = Contents(r)
  OBVIOUS
<1>10. IsDict(more, r.heap, Q) /\ EnvPath(r) = Q[r.env]
  BY <1>2, <1>4, <1>7, <1>8, <1>9, ContentsAre, EnvPathIs
<1>11. ~ConflictIn(c, p) /\ ~OverfullIn(c, p)
  BY <1>1, <1>2, <1>3, WidensNoConflict, WidensNotOverfull
<1>12. more = Extended(c, p, EntryValue(e))
  <2>1. /\ g.heap \in Seq(Objects(V)) /\ Tree(g.heap, P) /\ IsDict(c, g.heap, P)
        /\ p \in Seq(Str) /\ p # <<>> /\ r.heap \in Seq(Objects(V))
        /\ Widens(g, P, p, e, r, Q) /\ IsDict(more, r.heap, Q)
    BY <1>1, <1>2, <1>3, <1>10
  <2>2. IsExtended(more, c, p, EntryValue(e))
    BY <2>1, WidensDefines
  <2> QED BY <2>2 DEF IsExtended
<1>13. EnvPath(r) = IF DeclaresTable(e) THEN p ELSE EnvPath(g)
  BY <1>1, <1>4, <1>5, <1>6, <1>10
<1> QED BY <1>5, <1>9, <1>11, <1>12, <1>13 DEF Means

(* What any entry with a key means.                                         *)
LEMMA EntryMeans ==
  ASSUME HashNat, NEW V, TableValue \in V, \A v \in V : v.type = "table" => v = TableValue,
         NEW g, NEW P, Ready(g, V, P), NEW e, e.key \in Seq(Str), e.key # <<>>,
         EntryValue(e) \in V, NEW r, r = GenEntry(g, e),
         NEW c, c = Contents(g),
         NEW p, p = IF DeclaresTable(e) THEN e.key ELSE EnvPath(g) \o e.key
  PROVE  Means(g, c, p, e, r)
<1>1. /\ g.heap \in Seq(Objects(V)) /\ Tree(g.heap, P) /\ g.env \in 1 .. Len(g.heap)
      /\ Len(g.heap) \in Nat
  BY Zenon, LenProperties DEF Ready, Graphs
<1>2. P \in [1 .. Len(g.heap) -> Seq(Str)] /\ P[1] = <<>>
  BY Zenon, <1>1 DEF Tree, Named
<1>3. IsDict(c, g.heap, P) /\ EnvPath(g) = P[g.env]
  BY ReadyIs
<1>4. PICK b : b = P[Base(g, e)]
  OBVIOUS
<1>5. b \in Seq(Str) /\ p = b \o e.key
  <2>1. CASE DeclaresTable(e)
    <3>1. b = <<>>
      BY <1>2, <1>4, <2>1 DEF Base, Root
    <3>2. <<>> \o e.key = e.key
      BY ConcatEmptySeq
    <3> QED BY <2>1, <3>1, <3>2
  <2>2. CASE ~DeclaresTable(e)
    BY <1>1, <1>2, <1>3, <1>4, <2>2 DEF Base
  <2> QED BY <2>1, <2>2
<1>6. p \in Seq(Str) /\ p # <<>>
  <2>1. p \in Seq(Str) /\ Len(p) = Len(b) + Len(e.key)
    BY <1>5, ConcatProperties
  <2>2. Len(b) \in Nat /\ Len(e.key) \in Nat /\ Len(e.key) # 0
    BY <1>5, LenProperties, EmptySeq
  <2> QED BY <2>1, <2>2
<1>7. r \in Graphs(V) /\ Outcome(g, P, p, e, r)
  BY <1>4, <1>5, EntryGen
<1>8. r.heap \in Seq(Objects(V)) /\ Len(r.heap) \in Nat
  BY <1>7, LenProperties DEF Graphs
<1>9. CASE r.aborted /\ Overflows(g, P, p, Len(p))
  BY <1>1, <1>3, <1>6, <1>9, OverflowsOverfills DEF Means
<1>10. CASE Refused(g, P, p, r)
  <2>1. r.failed /\ ~r.aborted /\ Contents(r) = NoPaths /\ EnvPath(r) = <<>>
    BY <1>10, DroppedIs DEF Refused
  <2>2. ConflictIn(c, p)
    BY <1>1, <1>3, <1>6, <1>10, RefusedConflicts DEF Refused
  <2> QED BY <2>1, <2>2 DEF Means
<1>11. CASE Taken(g, P, p, e, r)
  BY <1>3, <1>6, <1>7, <1>11, TakenMeans
<1> QED BY <1>7, <1>9, <1>10, <1>11 DEF Outcome

(* An entry without a key.                                                  *)
LEMMA RootMeans ==
  ASSUME NEW V, NEW g, NEW P, Ready(g, V, P), NEW e, e.key = <<>>, NEW r, r = GenEntry(g, e)
  PROVE  ~r.aborted /\ ~r.failed /\ Contents(r) = Contents(g) /\ EnvPath(r) = <<>>
<1>1. r = [heap |-> g.heap, live |-> g.live, env |-> Root, at |-> g.at,
           failed |-> g.failed, aborted |-> g.aborted]
  BY DEF GenEntry, Ready, Graphs
<1>2. /\ r.heap = g.heap /\ r.live = g.live /\ r.env = Root
      /\ r.failed = g.failed /\ r.aborted = g.aborted
  BY <1>1
<1>3. /\ g.heap \in Seq(Objects(V)) /\ Tree(g.heap, P) /\ g.live = 1 .. Len(g.heap)
      /\ ~g.aborted /\ ~g.failed /\ Len(g.heap) \in Nat
  BY LenProperties DEF Ready, Graphs
<1>4. Root \in g.live
  BY <1>3 DEF Root, Tree
<1>5. IsDict(Contents(g), g.heap, P) /\ IsDict(Contents(r), g.heap, P)
  <2>1. IsDict(Contents(g), g.heap, P)
    BY <1>3, <1>4, ContentsAre
  <2>2. r.heap \in Seq(Objects(V)) /\ Tree(r.heap, P) /\ Root \in r.live
    BY <1>2, <1>3, <1>4
  <2>3. IsDict(Contents(r), r.heap, P)
    BY <2>2, ContentsAre
  <2> QED BY <1>2, <2>1, <2>3
<1>6. Contents(r) = Contents(g)
  BY <1>5, SameDict
<1>7. EnvPath(r) = <<>>
  BY <1>2 DEF EnvPath
<1> QED BY <1>2, <1>3, <1>6, <1>7

Todo == IF pc \in {"gen", "aborted"} THEN SubSeq(entries, done + 1, Len(entries)) ELSE <<>>

(* Nothing is found before there are objects.                               *)
LEMMA NothingYet == Contents(NoObjects) = NoPaths /\ EnvPath(NoObjects) = <<>>
<1>1. NoObjects.live = {} /\ NoObjects.env = NULL
  BY DEF NoObjects, NewObjects
<1> QED BY <1>1, DroppedIs

(* The program starts with an empty dictionary.                             *)
LEMMA DictInit == Init => Dict!Init
<1> SUFFICES ASSUME Init PROVE Dict!Init
  OBVIOUS
<1>1. pc = "open" /\ objs = NoObjects
  BY DEF Init
<1>2. Contents(objs) = NoPaths /\ EnvPath(objs) = <<>>
  BY <1>1, NothingYet
<1>3. Status = "idle" /\ Todo = <<>>
  BY <1>1 DEF Status, Todo
<1> QED BY <1>2, <1>3 DEF Dict!Init, Dict!Empty, NoPaths, Todo

(* Up to the parser the dictionary stays idle, or its file is rejected.     *)
LEMMA DictEarly ==
  ASSUME ConfigOK, Unreadable \/ Open \/ Lex \/ Lexed
  PROVE  Dict!Next \/ UNCHANGED Dict!vars
<1>1. UNCHANGED <<entries, done, objs>> /\ pc \in {"open", "lex"}
  BY DEF Unreadable, Open, Lex, Lexed, Unloaded
<1>2. pc' \in {"exit", "lex", "parse", "crashed"}
  BY DEF Unreadable, Open, Lex, Lexed
<1>3. entries = <<>> /\ objs = NoObjects
  BY <1>1 DEF ConfigOK, BeforeGen
<1>4. Contents(objs)' = Contents(objs) /\ EnvPath(objs)' = EnvPath(objs)
  BY <1>1
<1>5. Status = "idle" /\ Todo = <<>> /\ Todo' = <<>>
  BY <1>1, <1>2 DEF Status, Todo
<1>6. CASE pc' \in {"lex", "parse"}
  <2>1. Status' = Status
    BY <1>5, <1>6 DEF Status
  <2> QED BY <1>4, <1>5, <2>1 DEF Dict!vars, Todo
<1>7. CASE pc' \in {"exit", "crashed"}
  <2>1. entries' = <<>>
    BY <1>1, <1>3
  <2>2. Status' = "rejected"
    BY <1>7, <2>1 DEF Status
  <2>3. Dict!Read
    BY <1>4, <1>5, <2>2 DEF Dict!Read, Todo
  <2> QED BY <2>3 DEF Dict!Next
<1> QED BY <1>2, <1>6, <1>7

(* The parser reads entries into it, or rejects the file.                   *)
LEMMA DictParse ==
  ASSUME ConfigOK, ConfigOK', Parse
  PROVE  Dict!Next
<1>1. /\ pc = "parse" /\ pc' = (IF entries' = <<>> THEN "exit" ELSE "gen")
      /\ objs' = (IF entries' = <<>> THEN objs ELSE NewObjects) /\ done' = done
  BY DEF Parse
<1>2. objs = NoObjects /\ done = 0
  BY <1>1 DEF ConfigOK, BeforeGen
<1>3. Contents(objs)' = NoPaths /\ EnvPath(objs)' = <<>> /\ Contents(objs) = NoPaths /\ EnvPath(objs) = <<>>
  <2>1. objs' = NoObjects \/ objs' = NewObjects
    BY <1>1, <1>2
  <2> QED BY <1>2, <2>1, NothingYet, FreshIs
<1>4. Status = "idle" /\ Todo = <<>>
  BY <1>1 DEF Status, Todo
<1>5. Status' = IF Todo' = <<>> THEN "rejected" ELSE "loading"
  <2>1. CASE entries' = <<>>
    <3>1. pc' = "exit"
      BY <1>1, <2>1
    <3>2. Todo' = <<>> /\ Status' = "rejected"
      BY <2>1, <3>1 DEF Todo, Status
    <3> QED BY <3>2
  <2>2. CASE entries' # <<>>
    <3>1. pc' = "gen" /\ done' = 0
      BY <1>1, <1>2, <2>2
    <3>2. entries' \in Seq(EntriesIn(Tokens(lexing)'))
      BY DEF ConfigOK, EntriesOK
    <3>3. SubSeq(entries', 1, Len(entries')) = entries'
      BY <3>2, SubSeqFull
    <3>4. Todo' = SubSeq(entries', done' + 1, Len(entries'))
      BY <3>1 DEF Todo
    <3>5. Todo' # <<>>
      BY <2>2, <3>1, <3>3, <3>4
    <3>6. Status' = "loading"
      BY <3>1 DEF Status
    <3> QED BY <3>5, <3>6
  <2> QED BY <2>1, <2>2
<1>6. Dict!Read
  BY <1>3, <1>4, <1>5 DEF Dict!Read, Todo
<1> QED BY <1>6 DEF Dict!Next

(* The dictionary's guards are those of ConflictIn and OverfullIn.          *)
LEMMA DictGuards ==
  ASSUME NEW p
  PROVE  /\ Dict!Conflict(p) <=> ConflictIn(Contents(objs), p)
         /\ Dict!Overfull(p) <=> OverfullIn(Contents(objs), p)
<1>1. PICK d : d = Contents(objs)
  OBVIOUS
<1>2. Dict!Ancestors(p) = {SubSeq(p, 1, n) : n \in 1 .. Len(p) - 1}
  BY DEF Dict!Ancestors
<1>3. Dict!Conflict(p) <=> ConflictIn(d, p)
  BY <1>1, <1>2, Zenon DEF Dict!Conflict, ConflictIn
<1>4. \A q : Dict!Names(d, q) = NamesAt(d, q)
  BY DEF Dict!Names, NamesAt
<1>5. Dict!Overfull(p) <=> OverfullIn(d, p)
  <2>0. \A S : Dict!Cardinality(S) = Cardinality(S)
    BY DEF Cardinality, Dict!Cardinality
  <2>1. PICK A : A = Dict!Ancestors(p) \cup {<<>>}
    OBVIOUS
  <2>2. Dict!Overfull(p) <=>
           \E q \in A : /\ SubSeq(p, 1, Len(q) + 1) \notin DOMAIN d
                      /\ Cardinality(Dict!Names(d, q)) >= TABLE_INIT_BUF
    BY <2>0, <1>1, <2>1 DEF Dict!Overfull
  <2>3. OverfullIn(d, p) <=>
           \E q \in A : /\ SubSeq(p, 1, Len(q) + 1) \notin DOMAIN d
                      /\ Cardinality(NamesAt(d, q)) >= TABLE_INIT_BUF
    BY <1>2, <2>1 DEF OverfullIn
  <2> QED BY <1>4, <2>2, <2>3
<1> QED BY <1>1, <1>3, <1>5

(* Gen takes an entry, rejects it, or stops at a table that is full.        *)
LEMMA DictGen ==
  ASSUME HashNat, ConfigOK, ConfigOK', Gen
  PROVE  Dict!Next
<1>1. pc = "gen" /\ lexing' = lexing /\ entries' = entries
  BY DEF Gen
<1>2. PICK e : e = entries[done + 1]
  OBVIOUS
<1>3. PICK r : r = GenEntry(objs, e)
  OBVIOUS
<1>4. IF r.aborted
      THEN pc' = "aborted" /\ UNCHANGED <<objs, done>>
      ELSE /\ objs' = r /\ done' = done + 1
           /\ pc' = IF r.failed THEN "exit"
                    ELSE IF done' = Len(entries) THEN "load" ELSE "gen"
  BY <1>2, <1>3 DEF Gen
<1>5. LexOK /\ entries \in Seq(EntriesIn(Tokens(lexing))) /\ Len(entries) \in Nat
      /\ done \in 0 .. Len(entries) /\ done < Len(entries)
  BY <1>1, LenProperties DEF ConfigOK, EntriesOK
<1>6. e \in EntriesIn(Tokens(lexing))
  <2>1. done + 1 \in 1 .. Len(entries)
    BY <1>5
  <2> QED BY <1>2, <1>5, <2>1, ElementOfSeq
<1>7. e.key \in Seq(Str) /\ EntryValue(e) \in Held /\ (DeclaresTable(e) <=> e.value = NoValue)
  BY <1>5, <1>6, EntryIs
<1>8. PICK P : Ready(objs, Held, P)
  BY <1>1 DEF ConfigOK, ObjectsOK
<1>9. Status = "loading"
  BY <1>1 DEF Status
<1>10. PICK t, u : t = Todo /\ u = SubSeq(entries, done + 1 + 1, Len(entries))
  OBVIOUS
<1>11. t = SubSeq(entries, done + 1, Len(entries))
  BY <1>1, <1>10 DEF Todo
<1>12. t # <<>> /\ Head(t) = e /\ Tail(t) = u /\ (u = <<>> <=> done + 1 = Len(entries))
  <2>1. done \in Nat
    BY <1>5
  <2>2. /\ t # <<>> /\ Head(t) = entries[done + 1] /\ Tail(t) = u
        /\ (u = <<>> <=> done + 1 = Len(entries))
    <3>1. /\ entries \in Seq(EntriesIn(Tokens(lexing))) /\ done \in Nat /\ done < Len(entries)
          /\ t = SubSeq(entries, done + 1, Len(entries))
          /\ u = SubSeq(entries, done + 1 + 1, Len(entries))
      BY <1>5, <1>10, <1>11, <2>1
    <3>2. Unwinds(t, u, entries, done)
      BY <3>1, TodoIs
    <3> QED BY <3>2 DEF Unwinds
  <2> QED BY <1>2, <2>2
<1>13. PICK c, h : c = Contents(objs) /\ h = EnvPath(objs)
  OBVIOUS
<1>14. PICK p : p = IF DeclaresTable(e) THEN e.key ELSE h \o e.key
  OBVIOUS
<1>15. Dict!PathOf(e) = p
  BY <1>7, <1>13, <1>14 DEF Dict!PathOf
<1>16. (Dict!Conflict(p) <=> ConflictIn(c, p)) /\ (Dict!Overfull(p) <=> OverfullIn(c, p))
  BY <1>13, DictGuards
<1>17. ASSUME ~r.aborted, ~r.failed
       PROVE  Todo' = Tail(t) /\ Status' = (IF Todo' = <<>> THEN "loaded" ELSE "loading") /\ objs' = r
  <2>1. objs' = r /\ done' = done + 1 /\ pc' = (IF done' = Len(entries) THEN "load" ELSE "gen")
    BY <1>4, <1>17
  <2>2. CASE done + 1 = Len(entries)
    <3>1. pc' = "load"
      BY <2>1, <2>2
    <3>2. Todo' = <<>> /\ Status' = "loaded"
      BY <3>1 DEF Todo, Status
    <3> QED BY <1>12, <2>1, <2>2, <3>2
  <2>3. CASE done + 1 # Len(entries)
    <3>1. pc' = "gen"
      BY <2>1, <2>3
    <3>2. Todo' = SubSeq(entries', done' + 1, Len(entries')) /\ Status' = "loading"
      BY <3>1 DEF Todo, Status
    <3>3. Todo' = u
      BY <1>1, <1>10, <2>1, <3>2
    <3> QED BY <1>12, <2>1, <2>3, <3>2, <3>3
  <2> QED BY <2>2, <2>3
<1>18. CASE e.key = <<>>
  <2>1. ~r.aborted /\ ~r.failed /\ Contents(r) = c /\ EnvPath(r) = <<>>
    BY <1>3, <1>8, <1>13, <1>18, RootMeans
  <2>2. Contents(objs)' = Contents(objs) /\ EnvPath(objs)' = <<>>
    BY <1>13, <1>17, <2>1
  <2>3. Dict!GoBack(e)
    BY <1>18, <2>2 DEF Dict!GoBack
  <2>4. Todo # <<>> /\ Head(Todo) = e /\ Todo' = Tail(Todo)
        /\ Status' = (IF Todo' = <<>> THEN "loaded" ELSE "loading")
    BY <1>10, <1>12, <1>17, <2>1
  <2>5. Dict!Take
    BY <1>9, <2>3, <2>4 DEF Dict!Take, Todo
  <2> QED BY <2>5 DEF Dict!Next
<1>19. CASE e.key # <<>>
  <2>1. Means(objs, c, p, e, r)
    BY <1>3, <1>5, <1>7, <1>8, <1>13, <1>14, <1>19, ValsOK, EntryMeans
  <2>2. CASE r.aborted /\ OverfullIn(c, p)
    <3>1. pc' = "aborted" /\ objs' = objs /\ done' = done
      BY <1>4, <2>2
    <3>2. Todo' = Todo /\ Status' = "full"
      BY <1>1, <3>1 DEF Todo, Status
    <3>3. UNCHANGED <<Todo, Contents(objs), EnvPath(objs)>>
      BY <3>1, <3>2
    <3>4. Todo # <<>> /\ Head(Todo) = e /\ Dict!Overfull(p)
      BY <1>10, <1>12, <1>16, <2>2
    <3>5. Dict!Stop
      BY <1>9, <1>15, <1>19, <3>2, <3>3, <3>4 DEF Dict!Stop, Todo
    <3> QED BY <3>5 DEF Dict!Next
  <2>3. CASE ~r.aborted /\ r.failed /\ Contents(r) = NoPaths /\ EnvPath(r) = <<>> /\ ConflictIn(c, p)
    <3>1. pc' = "exit" /\ objs' = r
      BY <1>4, <2>3
    <3>2. Todo' = <<>> /\ Status' = "rejected"
      BY <2>3, <3>1 DEF Todo, Status
    <3>3. Contents(objs)' = NoPaths /\ EnvPath(objs)' = <<>>
      BY <2>3, <3>1
    <3>4. Todo # <<>> /\ Head(Todo) = e /\ Dict!Conflict(p)
      BY <1>10, <1>12, <1>16, <2>3
    <3>5. Dict!Reject
      BY <1>9, <1>15, <1>19, <3>2, <3>3, <3>4 DEF Dict!Reject, Dict!Empty, NoPaths, Todo
    <3> QED BY <3>5 DEF Dict!Next
  <2>4. CASE /\ ~r.aborted /\ ~r.failed /\ ~ConflictIn(c, p) /\ ~OverfullIn(c, p)
             /\ Contents(r) = Extended(c, p, EntryValue(e))
             /\ EnvPath(r) = IF DeclaresTable(e) THEN p ELSE EnvPath(objs)
    <3>1. Todo # <<>> /\ Head(Todo) = e /\ Todo' = Tail(Todo)
          /\ Status' = (IF Todo' = <<>> THEN "loaded" ELSE "loading")
      BY <1>10, <1>12, <1>17, <2>4
    <3>2. objs' = r
      BY <1>17, <2>4
    <3>3. EnvPath(objs)' = IF e.value = NoValue THEN p ELSE EnvPath(objs)
      BY <1>7, <2>4, <3>2
    <3>4. EntryValue(e) = IF e.value = NoValue THEN TableValue ELSE e.value
      BY <1>7 DEF EntryValue
    <3>5. PICK is : is = IF e.value = NoValue THEN TableValue ELSE e.value
      OBVIOUS
    <3>6. Contents(objs)' = Extended(c, p, is)
      BY <2>4, <3>2, <3>4, <3>5
    <3>7. Contents(objs)' =
             [q \in DOMAIN c \cup Dict!Ancestors(p) \cup {p} |->
                 IF q \in DOMAIN c THEN c[q] ELSE IF q = p THEN is ELSE TableValue]
      BY <3>6, Zenon DEF Extended, Dict!Ancestors
    <3>8. ~Dict!Conflict(p) /\ ~Dict!Overfull(p)
      BY <1>16, <2>4
    <3>9. Dict!Define(e)
      BY <1>13, <1>15, <1>19, <3>3, <3>5, <3>7, <3>8 DEF Dict!Define
    <3>10. Dict!Take
      BY <1>9, <3>1, <3>9 DEF Dict!Take, Todo
    <3> QED BY <3>10 DEF Dict!Next
  <2> QED BY <2>1, <2>2, <2>3, <2>4 DEF Means
<1> QED BY <1>18, <1>19

(* Load keeps the dictionary, or drops it.                                  *)
LEMMA DictLoad ==
  ASSUME ConfigOK, ConfigOK', Load
  PROVE  Dict!Next \/ UNCHANGED Dict!vars
<1>1. /\ pc = "load" /\ entries' = entries
      /\ \/ pc' = "exit" /\ objs' = object_free(objs, Root)
         \/ pc' = "serve" /\ objs' = objs
  BY DEF Load
<1>2. Status = "loaded" /\ Todo = <<>> /\ Todo' = <<>>
  BY <1>1 DEF Status, Todo
<1>3. CASE pc' = "exit" /\ objs' = object_free(objs, Root)
  <2>1. PICK P : Ready(objs, Held, P)
    BY <1>1 DEF ConfigOK, ObjectsOK
  <2>2. objs'.live = {} /\ objs'.env = NULL
    BY <1>3 DEF ConfigOK, ObjectsOK
  <2>3. ~objs'.failed
    <3>1. objs \in Graphs(Held) /\ ~objs.failed
      BY <2>1 DEF Ready
    <3> QED BY <1>3, <3>1 DEF object_free, Graphs
  <2>4. entries' # <<>>
    BY <1>1 DEF ConfigOK, EntriesOK
  <2>5. Status' = "dropped"
    BY <1>3, <2>3, <2>4 DEF Status
  <2>6. Contents(objs)' = NoPaths /\ EnvPath(objs)' = <<>>
    BY <2>2, DroppedIs
  <2>7. Dict!Drop
    BY <1>2, <2>5, <2>6 DEF Dict!Drop, Dict!Empty, NoPaths, Todo
  <2> QED BY <2>7 DEF Dict!Next
<1>4. CASE pc' = "serve" /\ objs' = objs
  <2>1. Status' = "loaded"
    BY <1>4 DEF Status
  <2>2. Contents(objs)' = Contents(objs) /\ EnvPath(objs)' = EnvPath(objs)
    BY <1>4
  <2> QED BY <1>2, <2>1, <2>2 DEF Dict!vars, Todo
<1> QED BY <1>1, <1>3, <1>4

(* After that it stays.                                                     *)
LEMMA DictRest ==
  ASSUME Serve \/ OtherProgram \/ UNCHANGED vars
  PROVE  UNCHANGED Dict!vars
<1>1. UNCHANGED <<pc, entries, done, objs>>
  BY DEF Serve, OtherProgram, vars
<1>2. Todo' = Todo /\ Status' = Status /\ Contents(objs)' = Contents(objs) /\ EnvPath(objs)' = EnvPath(objs)
  BY <1>1 DEF Todo, Status
<1> QED BY <1>2 DEF Dict!vars, Todo

(* Loading any file implements the dictionary: each entry is defined at its *)
(* path or noticed as a conflict, and the program aborts exactly when a     *)
(* table that is full would get another name.                               *)
THEOREM LoadsDictionaryHolds == ASSUME HashNat PROVE Spec => LoadsDictionary
<1>1. ConfigOK /\ ConfigOK' /\ [Next]_vars => [Dict!Next]_Dict!vars
  <2> SUFFICES ASSUME ConfigOK, ConfigOK', [Next]_vars
               PROVE  Dict!Next \/ UNCHANGED Dict!vars
    OBVIOUS
  <2>1. CASE Unreadable \/ Open \/ Lex \/ Lexed
    BY <2>1, DictEarly
  <2>2. CASE Parse
    BY <2>2, DictParse
  <2>3. CASE Gen
    BY <2>3, DictGen
  <2>4. CASE Load
    BY <2>4, DictLoad
  <2>5. CASE Serve \/ OtherProgram \/ UNCHANGED vars
    BY <2>5, DictRest
  <2> QED BY <2>1, <2>2, <2>3, <2>4, <2>5 DEF Next, Steps
<1> QED BY <1>1, DictInit, ConfigOKHolds, PTL DEF Spec, LoadsDictionary, Dict!Spec
=============================================================================

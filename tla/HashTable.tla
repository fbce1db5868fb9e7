----------------------------- MODULE HashTable -----------------------------
(***************************************************************************)
(* The hash table of toml/table.c: open addressing with linear probing and  *)
(* no removal.  A table is a record; its tab maps the slots in use to their *)
(* key and value, a slot outside its domain has a NULL key.  Positions      *)
(* count from 0.  Looking up a key that is not there returns NULL.          *)
(***************************************************************************)
EXTENDS Naturals

CONSTANTS
    TABLE_INIT_BUF,  \* slots of a new table
    Hash(_),         \* the hash of a key, a natural number
    NULL             \* what a lookup returns when there is no such key

(* The code takes hash & (cap - 1) for hash % cap.                          *)
ASSUME PowerOfTwo ==
    TABLE_INIT_BUF \in Nat \ {0} /\ \E n \in 0 .. 30 : TABLE_INIT_BUF = 2 ^ n

Slots(t) == 0 .. t.cap - 1

NewTable == [tab |-> [i \in {} |-> NULL], size |-> 0, cap |-> TABLE_INIT_BUF]

(* The slot looked at in the j-th place for key k: from the slot of its     *)
(* hash to the last one, then from the first.                               *)
Probe(t, k, j) == (Hash(k) + j) % t.cap

(* Faulty variant: the search ends with the last slot.                      *)
StopsNoWrap(t, k) ==
    {j \in Slots(t) :
        /\ (Hash(k) % t.cap) + j < t.cap
        /\ LET i == Probe(t, k, j) IN i \in DOMAIN t.tab => t.tab[i].key = k}

(* The places where the search ends: a free slot, or the key.               *)
Stops(t, k) ==
    {j \in Slots(t) :
        LET i == Probe(t, k, j) IN i \in DOMAIN t.tab => t.tab[i].key = k}

(* _hash_table_find returns NULL when a full table does not hold the key.   *)
Found(t, k) == Stops(t, k) # {}
Find(t, k) ==
    Probe(t, k, CHOOSE j \in Stops(t, k) : \A n \in Stops(t, k) : j <= n)

Put(t, k, v) ==
    [t EXCEPT !.tab = [i \in DOMAIN t.tab \cup {Find(t, k)} |->
                          IF i = Find(t, k) THEN [key |-> k, val |-> v]
                          ELSE t.tab[i]]]

(* _hash_table_expand: the entries of the old table, slot by slot.          *)
Expand(t) ==
    LET new == [tab |-> [i \in {} |-> NULL], size |-> 0, cap |-> 2 * t.cap]
        moved[n \in 0 .. t.cap] ==
            IF n = 0 THEN new
            ELSE IF n - 1 \in DOMAIN t.tab
                 THEN Put(moved[n - 1], t.tab[n - 1].key, t.tab[n - 1].val)
                 ELSE moved[n - 1]
    IN  moved[t.cap]

(* The table grows when size says so.  Nothing ever raises size.            *)
Grown(t) == IF t.size = t.cap THEN Expand(t) ELSE t

(* hash_table_insert: the assertion holds, and the table behind it.         *)
Insertable(t, k) == Found(Grown(t), k)
Insert(t, k, v) == Put(Grown(t), k, v)

Lookup(t, k) ==
    IF Found(t, k) /\ Find(t, k) \in DOMAIN t.tab
    THEN t.tab[Find(t, k)].val
    ELSE NULL

-----------------------------------------------------------------------------
(* Properties of a table.                                                   *)

Keys(t) == {t.tab[i].key : i \in DOMAIN t.tab}

(* Every key is where a search for it ends: the slots before it on its way  *)
(* are in use and hold other keys, so no key is stored twice or hidden.     *)
Reachable(t) ==
    \A i \in DOMAIN t.tab : Found(t, t.tab[i].key) /\ Find(t, t.tab[i].key) = i
=============================================================================

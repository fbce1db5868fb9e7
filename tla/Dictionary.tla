----------------------------- MODULE Dictionary -----------------------------
(***************************************************************************)
(* What a configuration file means: a dictionary from paths to values.  An  *)
(* entry defines a value or declares a table at a path, every proper prefix *)
(* of a path is a table, and nothing is defined twice.  A table that has    *)
(* Capacity names takes no other: the program then stops.                   *)
(***************************************************************************)
EXTENDS Naturals, FiniteSets, Sequences, SequencesExt

CONSTANTS
    Capacity, \* names that a table holds
    NoValue,  \* the value of an entry that declares a table
    Table     \* what the dictionary has for a table

VARIABLES
    todo,    \* the entries to come
    dict,    \* from paths to values
    here,    \* the path of the table that plain keys are relative to
    status   \* "idle", "loading", "loaded", "rejected", "dropped" or "full"

vars == <<todo, dict, here, status>>

Empty == [p \in {} |-> Table]

Init == todo = <<>> /\ dict = Empty /\ here = <<>> /\ status = "idle"

(* The file is read: some entries, or the file is no good.                  *)
Read ==
    /\ status = "idle"
    /\ status' = IF todo' = <<>> THEN "rejected" ELSE "loading"
    /\ UNCHANGED <<dict, here>>

PathOf(e) == IF e.value = NoValue THEN e.key ELSE here \o e.key

Ancestors(p) == {SubSeq(p, 1, n) : n \in 1 .. Len(p) - 1}

(* The entry defines what is there, or leads through a value.               *)
Conflict(p) ==
    LET d == dict
    IN  \/ p \in DOMAIN d
        \/ \E q \in Ancestors(p) \cap DOMAIN d : d[q] # Table

(* Some table would get more names than it holds.                           *)
Names(d, q) == {p \in DOMAIN d : Len(p) = Len(q) + 1 /\ SubSeq(p, 1, Len(q)) = q}

Overfull(p) ==
    LET d == dict
    IN  \E q \in Ancestors(p) \cup {<<>>} :
            /\ SubSeq(p, 1, Len(q) + 1) \notin DOMAIN d
            /\ Cardinality(Names(d, q)) >= Capacity

(* An empty key goes back to the root.                                      *)
GoBack(e) == e.key = <<>> /\ here' = <<>> /\ UNCHANGED dict

Define(e) ==
    LET d == dict
        p == PathOf(e)
        is == IF e.value = NoValue THEN Table ELSE e.value
    IN  /\ e.key # <<>> /\ ~Conflict(p) /\ ~Overfull(p)
        /\ dict' = [q \in DOMAIN d \cup Ancestors(p) \cup {p} |->
                       IF q \in DOMAIN d THEN d[q]
                       ELSE IF q = p THEN is ELSE Table]
        /\ here' = IF e.value = NoValue THEN p ELSE here

Take ==
    /\ status = "loading" /\ todo # <<>>
    /\ GoBack(Head(todo)) \/ Define(Head(todo))
    /\ todo' = Tail(todo)
    /\ status' = IF todo' = <<>> THEN "loaded" ELSE "loading"

Reject ==
    /\ status = "loading" /\ todo # <<>> /\ Head(todo).key # <<>>
    /\ Conflict(PathOf(Head(todo)))
    /\ dict' = Empty /\ here' = <<>> /\ todo' = <<>> /\ status' = "rejected"

Stop ==
    /\ status = "loading" /\ todo # <<>> /\ Head(todo).key # <<>>
    /\ Overfull(PathOf(Head(todo)))
    /\ status' = "full" /\ UNCHANGED <<todo, dict, here>>

Drop ==
    /\ status = "loaded" /\ status' = "dropped"
    /\ dict' = Empty /\ here' = <<>> /\ UNCHANGED todo

Next == Read \/ Take \/ Reject \/ Stop \/ Drop

Spec == Init /\ [][Next]_vars
=============================================================================

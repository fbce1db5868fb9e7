---------------------------- MODULE TomlObjects ----------------------------
(***************************************************************************)
(* The objects of toml/obj.c and their generation from entries in           *)
(* toml/ast.c.  An object is an index of the heap; a table object has the   *)
(* hash table from names to objects.  live are the objects not yet freed,   *)
(* env the table that plain keys are relative to, at the object a walk has  *)
(* come to.  A failed assertion of the hash table aborts the program.       *)
(***************************************************************************)
EXTENDS Integers, Sequences, SequencesExt, HashTable

ASSUME NullAssumption == NULL \notin Nat \ {0}

(* An entry without a value declares a table.                               *)
DeclaresTable(e) == e.value.type = "none"

TableValue == [type |-> "table", str |-> <<>>, num |-> 0]

Object(value) == [value |-> value, table |-> NewTable]

IsTable(g, id) == g.heap[id].value.type = "table"

Root == 1

NewObjects ==
    [heap |-> <<Object(TableValue)>>, live |-> {Root}, env |-> Root, at |-> Root,
     failed |-> FALSE, aborted |-> FALSE]

NoObjects == [NewObjects EXCEPT !.heap = <<>>, !.live = {}, !.env = NULL, !.at = NULL]

table_object_lookup(g, id, name) == Lookup(g.heap[id].table, name)

(* A new object, stored under a name in the table the walk has come to.     *)
Store(g, name, value) ==
    LET id == Len(g.heap) + 1
        t == g.heap[g.at].table
    IN  IF ~Insertable(t, name) THEN [g EXCEPT !.aborted = TRUE]
        ELSE [g EXCEPT !.heap = Append([@ EXCEPT ![g.at].table = Insert(t, name, id)],
                                       Object(value)),
                       !.live = @ \cup {id}, !.at = id]

(* One name of the key but the last: the table of that name, made when      *)
(* there is none, or nothing when the name has another value.               *)
Enter(g, name) ==
    LET tmp == table_object_lookup(g, g.at, name)
    IN  IF g.aborted \/ g.at = NULL THEN g
        ELSE IF tmp = NULL THEN Store(g, name, TableValue)
        ELSE IF IsTable(g, tmp) THEN [g EXCEPT !.at = tmp]
        ELSE [g EXCEPT !.at = NULL]

Walk(g, names) ==
    LET upto[n \in 0 .. Len(names)] ==
            IF n = 0 THEN g ELSE Enter(upto[n - 1], names[n])
    IN  upto[Len(names)]

(* The objects that object_free visits.                                     *)
Below(g, id) ==
    LET Children(ids) ==
            UNION {{g.heap[i].table.tab[s].val : s \in DOMAIN g.heap[i].table.tab} :
                      i \in ids}
        within[n \in 0 .. Len(g.heap)] ==
            IF n = 0 THEN {id}
            ELSE LET ids == within[n - 1] IN ids \cup Children(ids)
    IN  within[Len(g.heap)]

object_free(g, id) == [g EXCEPT !.live = @ \ Below(g, id), !.env = NULL, !.at = NULL]

(* Faulty variant: the objects made so far are forgotten.                   *)
OverridingNoFree(g) == [g EXCEPT !.failed = TRUE, !.env = NULL, !.at = NULL]

Overriding(g) == [object_free(g, Root) EXCEPT !.failed = TRUE]

(* Where the key of an entry starts: a declared table is not relative.      *)
Base(g, e) == IF DeclaresTable(e) THEN Root ELSE g.env

(* One entry of _ast_node_entry_gen.                                        *)
GenEntry(g, e) ==
    IF e.key = <<>> THEN [g EXCEPT !.env = Root]
    ELSE LET base == Base(g, e)
             sub == Walk([g EXCEPT !.at = base, !.env = base], Front(e.key))
         IN  IF sub.aborted THEN sub
             ELSE IF \/ sub.at = NULL
                     \/ table_object_lookup(sub, sub.at, Last(e.key)) # NULL
             THEN Overriding(sub)
             ELSE IF DeclaresTable(e)
             THEN LET made == Store(sub, Last(e.key), TableValue)
                  IN  [made EXCEPT !.env = made.at]
             ELSE Store(sub, Last(e.key), e.value)

(* toml_lookup with a query that is a key; NULL when there is no such       *)
(* object, or one on the path is not a table.                               *)
toml_lookup(g, path) ==
    LET upto[n \in 0 .. Len(path)] ==
            IF n = 0 THEN Root
            ELSE LET cur == upto[n - 1]
                 IN  IF cur = NULL \/ ~IsTable(g, cur) THEN NULL
                     ELSE table_object_lookup(g, cur, path[n])
    IN  upto[Len(path)]

-----------------------------------------------------------------------------
(* Properties of the objects.                                               *)

(* The paths under which lookups find an object, with the object.           *)
Paths(g) ==
    LET Next(found) ==
            UNION {{[path |-> Append(f.path, name),
                     id |-> table_object_lookup(g, f.id, name)] :
                        name \in Keys(g.heap[f.id].table)} : f \in found}
        level[n \in 0 .. Len(g.heap)] ==
            IF n = 0 THEN {[path |-> <<>>, id |-> Root]} ELSE Next(level[n - 1])
    IN  UNION {level[n] : n \in 1 .. Len(g.heap)}

(* The dictionary that lookups see.                                         *)
Contents(g) ==
    IF Root \notin g.live THEN [p \in {} |-> TableValue]
    ELSE LET found == Paths(g)
         IN  [p \in {f.path : f \in found} |->
                 g.heap[(CHOOSE f \in found : f.path = p).id].value]

(* The path of the current table.                                           *)
EnvPath(g) ==
    IF g.env \in {NULL, Root} THEN <<>>
    ELSE (CHOOSE f \in Paths(g) : f.id = g.env).path

(* Every object but the root is stored in one place, of a live table, and   *)
(* the root in none: freeing the root frees every object once.              *)
Stored(g, id) ==
    {p \in g.live \X Slots([cap |-> TABLE_INIT_BUF]) :
        /\ p[2] \in DOMAIN g.heap[p[1]].table.tab
        /\ g.heap[p[1]].table.tab[p[2]].val = id}

IsTree(g) ==
    \A id \in g.live :
        Cardinality(Stored(g, id)) = IF id = Root THEN 0 ELSE 1
=============================================================================

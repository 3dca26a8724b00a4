----------------------------- MODULE JsonObject -----------------------------
(***************************************************************************)
(* The values of json-c from which kvmessage.c builds and reads a message: *)
(* objects on a hash table that keeps its entries in order (linkhash.c),   *)
(* arrays (arraylist.c) and the reference counts that own them             *)
(* (json_object.c).  The program calls the library in any order, but gives *)
(* away only references it has and puts no value inside itself.  The       *)
(* recursion of json_object_put is a stack of calls, todo; the program     *)
(* goes on when it is empty.                                               *)
(***************************************************************************)
EXTENDS Integers, Sequences, FiniteSets, SequencesExt

CONSTANTS Objects,      \* the places of the heap
          Keys, Hash,   \* lh_char_hash
          DefEntries,   \* JSON_OBJECT_DEF_HASH_ENTRIES (16 in the code)
          DefLength,    \* ARRAY_LIST_DEFAULT_SIZE (32 in the code)
          MaxLength,    \* bound: the length of an array
          MaxHeld,      \* bound: the program's references to one value
          Loads,        \* the programs: types of each value, and the keys used
          NULL

VARIABLES load,     \* the one of Loads
          heap,     \* the values allocated
          held,     \* of each value, the references of the program
          todo,     \* the calls of json_object_put that are due
          content   \* what the program has put in each container

vars == <<load, heap, held, todo, content>>
EMPTY == "LH_EMPTY"
FREED == "LH_FREED"
-----------------------------------------------------------------------------
(***************************************************************************)
(* linkhash.c: open addressing, entries linked in the order of insertion.  *)
(***************************************************************************)
lh_table_new(size) ==
    [size |-> size, count |-> 0, head |-> NULL, tail |-> NULL,
     table |-> [n \in 0..size - 1 |-> [k |-> EMPTY, v |-> NULL, next |-> NULL, prev |-> NULL]]]

\* The slots of a table as the loops over ent->next, or ent->prev, meet them.
Walk(t, from, link) ==
    LET nth[i \in 0..t.size] == IF i = 0 THEN from ELSE IF nth[i - 1] = NULL THEN NULL ELSE t.table[nth[i - 1]][link]
    IN  SelectSeq([i \in 1..t.size |-> nth[i - 1]], LAMBDA n : n # NULL)

\* The slots a key may be in, and the first of them that is of one of kinds.
Probe(t, k, i) == (Hash[k] + i) % t.size
FirstOf(t, k, kinds) ==
    LET hits == {i \in 0..t.size - 1 : t.table[Probe(t, k, i)].k \in kinds}
    IN  IF hits = {} THEN NULL ELSE Probe(t, k, CHOOSE i \in hits : \A j \in hits : i <= j)

\* lh_table_insert, after the table has grown.
Place(t, k, v) ==
    LET n == FirstOf(t, k, {EMPTY, FREED})
        put == [t EXCEPT !.table[n] = [k |-> k, v |-> v, next |-> NULL, prev |-> NULL],
                         !.count = @ + 1, !.tail = n]
    IN  IF t.head = NULL THEN [put EXCEPT !.head = n]
        ELSE [put EXCEPT !.table[t.tail].next = n, !.table[n].prev = t.tail]

lh_table_resize(t, size) ==
    FoldLeft(LAMBDA new, n : Place(new, t.table[n].k, t.table[n].v), lh_table_new(size), Walk(t, t.head, "next"))

\* LH_LOAD_FACTOR is 0.66.
lh_table_insert(t, k, v) ==
    Place(IF t.count * 100 >= t.size * 66 THEN lh_table_resize(t, t.size * 2) ELSE t, k, v)

lh_table_lookup_entry(t, k) ==
    LET n == FirstOf(t, k, {EMPTY, k})
    IN  IF n = NULL \/ t.table[n].k = EMPTY THEN NULL ELSE n

\* Mutant of lh_table_delete_entry: the slot is empty again.
DeleteToEmpty(t, n) ==
    LET e == t.table[n]
        freed == [t EXCEPT !.table[n] = [k |-> EMPTY, v |-> NULL, next |-> NULL, prev |-> NULL], !.count = @ - 1]
    IN  IF t.tail = n /\ t.head = n THEN [freed EXCEPT !.head = NULL, !.tail = NULL]
        ELSE IF t.head = n THEN [freed EXCEPT !.table[e.next].prev = NULL, !.head = e.next]
        ELSE IF t.tail = n THEN [freed EXCEPT !.table[e.prev].next = NULL, !.tail = e.prev]
        ELSE [freed EXCEPT !.table[e.prev].next = e.next, !.table[e.next].prev = e.prev]
lh_table_delete_entry(t, n) ==
    LET e == t.table[n]
        freed == [t EXCEPT !.table[n] = [k |-> FREED, v |-> NULL, next |-> NULL, prev |-> NULL], !.count = @ - 1]
    IN  IF t.tail = n /\ t.head = n THEN [freed EXCEPT !.head = NULL, !.tail = NULL]
        ELSE IF t.head = n THEN [freed EXCEPT !.table[e.next].prev = NULL, !.head = e.next]
        ELSE IF t.tail = n THEN [freed EXCEPT !.table[e.prev].next = NULL, !.tail = e.prev]
        ELSE [freed EXCEPT !.table[e.prev].next = e.next, !.table[e.next].prev = e.prev]
-----------------------------------------------------------------------------
(***************************************************************************)
(* arraylist.c                                                             *)
(***************************************************************************)
array_list_new == [size |-> DefLength, length |-> 0, array |-> [i \in 0..DefLength - 1 |-> NULL]]

array_list_expand_internal(a, max) ==
    LET size == IF max < a.size THEN a.size ELSE IF a.size * 2 > max THEN a.size * 2 ELSE max
    IN  [a EXCEPT !.size = size, !.array = [i \in 0..size - 1 |-> IF i < a.size THEN a.array[i] ELSE NULL]]

array_list_put_idx(a, idx, v) ==
    [array_list_expand_internal(a, idx + 1) EXCEPT
       !.array[idx] = v, !.length = IF a.length <= idx THEN idx + 1 ELSE a.length]
-----------------------------------------------------------------------------
(***************************************************************************)
(* json_object.c                                                           *)
(***************************************************************************)
Unused == [type |-> "none", ref |-> 0, of |-> NULL]
Allocated == {o \in Objects : heap[o].type # "none"}
IsObject(o) == heap[o].type = "object"

\* What is printed of a container: entries in the order of the list, elements
\* by index.  A value prints as itself, NULL as null.
json_object_object_to_json_string(o) ==
    LET w == Walk(heap[o].of, heap[o].of.head, "next")
    IN  [i \in 1..Len(w) |-> [k |-> heap[o].of.table[w[i]].k, v |-> heap[o].of.table[w[i]].v]]
json_object_array_to_json_string(o) == [i \in 1..heap[o].of.length |-> heap[o].of.array[i - 1]]

json_object_object_get_ex(o, k) ==
    LET n == IF IsObject(o) THEN lh_table_lookup_entry(heap[o].of, k) ELSE NULL
    IN  IF n = NULL THEN [found |-> FALSE, value |-> NULL] ELSE [found |-> TRUE, value |-> heap[o].of.table[n].v]

\* What lh_table_free and array_list_free put, in their order.
Children(o) ==
    SelectSeq(IF IsObject(o) THEN [i \in 1..Len(json_object_object_to_json_string(o)) |->
                                     json_object_object_to_json_string(o)[i].v]
              ELSE IF heap[o].type = "array" THEN json_object_array_to_json_string(o) ELSE <<>>,
              LAMBDA v : v # NULL)

\* The values that are inside one of S, or in S.
Inside(S) ==
    LET grown[i \in 0..Cardinality(Objects)] ==
          IF i = 0 THEN S ELSE grown[i - 1] \cup UNION {ToSet(Children(o)) : o \in grown[i - 1]}
    IN  grown[Cardinality(Objects)]
\* What the program can reach, and the references it may give to c.
Known == Inside({o \in Objects : held[o] > 0})
Giveable(c) == {v \in Objects : held[v] > 0 /\ c \notin Inside({v})} \cup {NULL}
Give(v) == held' = [o \in Objects |-> IF o = v THEN held[o] - 1 ELSE held[o]]

\* json_object_new_object, json_object_new_array, json_object_new_int, ...
New(o, type) ==
    /\ todo = <<>> /\ o \notin Allocated /\ type \in load.types[o]
    /\ heap' = [heap EXCEPT ![o] = [type |-> type, ref |-> 1,
                                    of |-> CASE type = "object" -> lh_table_new(DefEntries)
                                             [] type = "array" -> array_list_new
                                             [] OTHER -> NULL]]
    /\ held' = [held EXCEPT ![o] = 1]
    /\ UNCHANGED <<todo, content>>

json_object_get(o) ==
    /\ todo = <<>> /\ o \in Known /\ held[o] < MaxHeld
    /\ heap' = [heap EXCEPT ![o].ref = @ + 1]
    /\ held' = [held EXCEPT ![o] = @ + 1]
    /\ UNCHANGED <<todo, content>>

\* A call of the program, and what a call does: the last one deletes the
\* value, with json_object_lh_entry_free or json_object_array_entry_free for
\* what it holds.
CallPut(o) ==
    /\ todo = <<>> /\ held[o] > 0
    /\ held' = [held EXCEPT ![o] = @ - 1]
    /\ todo' = <<o>>
    /\ UNCHANGED <<heap, content>>
json_object_put ==
    /\ todo # <<>>
    /\ LET o == Head(todo)
       IN  IF heap[o].ref > 1
           THEN /\ heap' = [heap EXCEPT ![o].ref = @ - 1]
                /\ todo' = Tail(todo)
                /\ UNCHANGED content
           ELSE /\ heap' = [heap EXCEPT ![o] = Unused]
                /\ todo' = Children(o) \o Tail(todo)
                /\ content' = [content EXCEPT ![o] = <<>>]
    /\ UNCHANGED held

Due(v) == IF v = NULL THEN <<>> ELSE <<v>>

\* A new key goes to the end; an old one keeps its place, and its value is put.
json_object_object_add(c, k, v) ==
    /\ todo = <<>> /\ c \in Known /\ IsObject(c) /\ v \in Giveable(c)
    /\ LET t == heap[c].of
           n == lh_table_lookup_entry(t, k)
       IN  IF n = NULL
           THEN heap' = [heap EXCEPT ![c].of = lh_table_insert(t, k, v)] /\ UNCHANGED todo
           ELSE heap' = [heap EXCEPT ![c].of.table[n].v = v] /\ todo' = Due(t.table[n].v)
    /\ content' = [content EXCEPT ![c] =
                     IF \E i \in DOMAIN @ : @[i].k = k
                     THEN [i \in DOMAIN @ |-> IF @[i].k = k THEN [k |-> k, v |-> v] ELSE @[i]]
                     ELSE Append(@, [k |-> k, v |-> v])]
    /\ Give(v)

json_object_object_del(c, k) ==
    /\ todo = <<>> /\ c \in Known /\ IsObject(c)
    /\ LET t == heap[c].of
           n == lh_table_lookup_entry(t, k)
       IN  IF n = NULL THEN UNCHANGED <<heap, todo>>
           ELSE heap' = [heap EXCEPT ![c].of = lh_table_delete_entry(t, n)] /\ todo' = Due(t.table[n].v)
    /\ content' = [content EXCEPT ![c] = SelectSeq(@, LAMBDA e : e.k # k)]
    /\ UNCHANGED held

\* json_object_array_add is json_object_array_put_idx at the length.
json_object_array_put_idx(c, idx, v) ==
    /\ todo = <<>> /\ c \in Known /\ heap[c].type = "array" /\ v \in Giveable(c)
    /\ LET a == array_list_expand_internal(heap[c].of, idx + 1)
       IN  todo' = Due(a.array[idx])
    /\ heap' = [heap EXCEPT ![c].of = array_list_put_idx(@, idx, v)]
    /\ content' = [content EXCEPT ![c] =
                     [i \in 1..(IF Len(@) > idx THEN Len(@) ELSE idx + 1) |->
                        IF i = idx + 1 THEN v ELSE IF i \in DOMAIN @ THEN @[i] ELSE NULL]]
    /\ Give(v)
-----------------------------------------------------------------------------
Init ==
    /\ load \in Loads
    /\ heap = [o \in Objects |-> Unused] /\ held = [o \in Objects |-> 0]
    /\ todo = <<>> /\ content = [o \in Objects |-> <<>>]
Next ==
    /\ \/ \E o \in Objects : json_object_get(o) \/ CallPut(o)
       \/ \E o \in Objects, type \in {"object", "array", "int"} : New(o, type)
       \/ json_object_put
       \/ \E c \in Objects, k \in load.keys : json_object_object_del(c, k)
       \/ \E c \in Objects, v \in Objects \cup {NULL} :
             \/ \E k \in load.keys : json_object_object_add(c, k, v)
             \/ \E idx \in 0..MaxLength - 1 : json_object_array_put_idx(c, idx, v)
    /\ UNCHANGED load
Spec == Init /\ [][Next]_vars
-----------------------------------------------------------------------------
\* The reference count of a value is the number of references there are: the
\* program's, those in containers and those about to be put.  So a value lives
\* exactly as long as one is left, and is deleted once.
CountsExact ==
    \A o \in Objects :
       heap[o].ref = held[o]
                     + Cardinality({<<c, i>> \in Allocated \X (1..MaxLength + Cardinality(Keys)) :
                                      i \in DOMAIN Children(c) /\ Children(c)[i] = o})
                     + Cardinality({i \in DOMAIN todo : todo[i] = o})

\* Whatever was inserted, replaced and deleted, and however the table has
\* grown: a key is found exactly if the object has it, with its value, the
\* entries are linked in the order of insertion, in both directions.  An array
\* holds what was put there, and nothing in the rest of its space.
TableExact(o) ==
    LET t == heap[o].of
        w == Walk(t, t.head, "next")
    IN  /\ json_object_object_to_json_string(o) = content[o]
        /\ Walk(t, t.tail, "prev") = Reverse(w) /\ t.count = Len(w)
        /\ \A k \in Keys : LET at == {i \in DOMAIN content[o] : content[o][i].k = k}
                               got == json_object_object_get_ex(o, k)
                           IN  /\ got.found <=> at # {}
                               /\ \A i \in at : got.value = content[o][i].v
ArrayExact(o) ==
    /\ json_object_array_to_json_string(o) = content[o]
    /\ \A i \in heap[o].of.length..heap[o].of.size - 1 : heap[o].of.array[i] = NULL
ContentsExact ==
    \A o \in Objects : /\ IsObject(o) => TableExact(o)
                       /\ heap[o].type = "array" => ArrayExact(o)
=============================================================================

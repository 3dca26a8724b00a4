----------------------------- MODULE LossyCache -----------------------------
(***************************************************************************)
(* What a cache promises its users (kvcache.h): a partial map from keys to *)
(* values, divided in sets.  A put may cost one other entry of the key's   *)
(* own set and nothing else; nothing but a put, a del or a clear changes   *)
(* the map, and a value found is the last one put.                         *)
(***************************************************************************)
CONSTANTS Keys, Values,
          SetOf,      \* the set of each key
          Absent      \* "the key is not in the cache"

VARIABLE map

Members(f, s) == {k \in Keys : SetOf[k] = s /\ f[k] # Absent}

Init == map = [k \in Keys |-> Absent]

Put(k, v) ==
  \E lost \in SUBSET (Members(map, SetOf[k]) \ {k}) :
    /\ \A a, b \in lost : a = b
    /\ map' = [x \in Keys |-> IF x = k THEN v
                              ELSE IF x \in lost THEN Absent ELSE map[x]]

Del(k) == map' = [map EXCEPT ![k] = Absent]

Clear == map' = [k \in Keys |-> Absent]

Next == \/ \E k \in Keys, v \in Values : Put(k, v)
        \/ \E k \in Keys : Del(k)
        \/ Clear

Spec == Init /\ [][Next]_map
=============================================================================

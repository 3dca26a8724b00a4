---------------------------- MODULE KVCacheProofs ----------------------------
(***************************************************************************)
(* Proofs, for any keys, values, number of sets and set size of at least   *)
(* two, that the cache sets stay within their capacity and that their      *)
(* lists and hash tables agree.                                            *)
(***************************************************************************)
EXTENDS KVCache, SequenceTheorems, WellFoundedInduction, TLAPS

KeysOf(list) == {list[n].key : n \in 1..Len(list)}

ValueOf(list, k) == list[CHOOSE n \in 1..Len(list) : list[n].key = k].value

DistinctKeys(list) ==
  \A m, n \in 1..Len(list) : list[m].key = list[n].key => m = n

(* The fields of a cache set. *)
LEMMA CacheSetFields ==
  ASSUME NEW cs \in CacheSet
  PROVE  /\ cs.list \in Seq(Entry) /\ Len(cs.list) \in Nat
         /\ cs.hash \in SUBSET Keys
         /\ cs.num_entries \in Nat
         /\ \A n \in 1..Len(cs.list) : cs.list[n] \in Entry
         /\ cs = [list |-> cs.list, hash |-> cs.hash, num_entries |-> cs.num_entries]
  BY DEF CacheSet

(* Every nonempty set of positions of a list has a first one. *)
LEMMA FirstPosition ==
  ASSUME NEW T, T \subseteq Nat, T # {}
  PROVE  \E n \in T : \A m \in T : n <= m
  <1>1. PICK n \in T : \A m \in T : ~(<<m, n>> \in OpToRel(<, Nat))
    BY Zenon, NatLessThanWellFounded, WFMin
  <1>2. \A m \in T : ~(m < n)
    BY Zenon, <1>1 DEF OpToRel
  <1>3. QED
    BY <1>2

(* The eviction loop's victim is an entry of the list. *)
LEMMA VictimInList ==
  ASSUME NEW list \in Seq(Entry), Len(list) >= 1
  PROVE  Victim(list) \in 1..Len(list)
  <1>1. CASE Unreferenced(list) = {}
    BY <1>1 DEF Victim
  <1>2. CASE Unreferenced(list) # {}
    <2>1. Unreferenced(list) \subseteq Nat
      BY DEF Unreferenced
    <2>2. \E n \in Unreferenced(list) : \A m \in Unreferenced(list) : n <= m
      BY Zenon, <1>2, <2>1, FirstPosition
    <2>3. Victim(list) \in Unreferenced(list)
      BY Zenon, <1>2, <2>2 DEF Victim
    <2>4. QED
      BY Zenon, <2>3 DEF Unreferenced
  <1>3. QED
    BY Zenon, <1>1, <1>2

(* new is old without the entry at p, in whatever order: src[n] is where   *)
(* the n-th entry of new stood in old.                                     *)
IsRemoval(old, new, p, src) ==
  /\ src \in [1..Len(new) -> 1..Len(old)]
  /\ \A n \in 1..Len(new) : /\ src[n] # p
                             /\ new[n].key = old[src[n]].key
                             /\ new[n].value = old[src[n]].value
  /\ \A m, n \in 1..Len(new) : src[m] = src[n] => m = n
  /\ \A j \in 1..Len(old) : j # p => \E n \in 1..Len(new) : src[n] = j

(* With distinct keys, an entry is found by its key. *)
LEMMA ValueOfEntry ==
  ASSUME NEW list \in Seq(Entry), DistinctKeys(list), NEW n \in 1..Len(list)
  PROVE  ValueOf(list, list[n].key) = list[n].value
  <1> DEFINE c == CHOOSE m \in 1..Len(list) : list[m].key = list[n].key
  <1>1. c \in 1..Len(list) /\ list[c].key = list[n].key
    BY Zenon
  <1> HIDE DEF c
  <1>2. c = n
    BY Zenon, <1>1 DEF DistinctKeys
  <1>3. QED
    BY Zenon, <1>2 DEF ValueOf, c

(* Where the same key stands in two lists. *)
LEMMA SameValue ==
  ASSUME NEW old \in Seq(Entry), NEW new \in Seq(Entry),
         DistinctKeys(old), DistinctKeys(new),
         NEW m \in 1..Len(old), NEW n \in 1..Len(new),
         old[m].key = new[n].key, old[m].value = new[n].value
  PROVE  ValueOf(new, old[m].key) = ValueOf(old, old[m].key)
  BY Zenon, ValueOfEntry

(* A removal keeps the keys distinct and costs one key. *)
LEMMA RemovalKeys ==
  ASSUME NEW old \in Seq(Entry), NEW new \in Seq(Entry),
         NEW p \in 1..Len(old), NEW src,
         DistinctKeys(old), IsRemoval(old, new, p, src)
  PROVE  /\ DistinctKeys(new) /\ KeysOf(new) = KeysOf(old) \ {old[p].key}
         /\ \A k \in KeysOf(new) : ValueOf(new, k) = ValueOf(old, k)
  <1> USE DEF IsRemoval
  <1>1. DistinctKeys(new)
    <2> SUFFICES ASSUME NEW m \in 1..Len(new), NEW n \in 1..Len(new),
                        new[m].key = new[n].key
                 PROVE  m = n
      BY Zenon DEF DistinctKeys
    <2>1. /\ src[m] \in 1..Len(old) /\ src[n] \in 1..Len(old)
          /\ old[src[m]].key = old[src[n]].key
      BY Zenon
    <2>2. src[m] = src[n]
      BY Zenon, <2>1 DEF DistinctKeys
    <2>3. QED
      BY Zenon, <2>2
  <1>2. ASSUME NEW k \in KeysOf(new)
        PROVE  k \in KeysOf(old) /\ k # old[p].key
    <2>1. PICK n \in 1..Len(new) : k = new[n].key
      BY Zenon DEF KeysOf
    <2>2. src[n] \in 1..Len(old) /\ src[n] # p /\ k = old[src[n]].key
      BY Zenon, <2>1
    <2>3. QED
      BY Zenon, <2>2 DEF KeysOf, DistinctKeys
  <1>3. ASSUME NEW k \in KeysOf(old), k # old[p].key
        PROVE  k \in KeysOf(new)
    <2>1. PICK j \in 1..Len(old) : k = old[j].key
      BY Zenon DEF KeysOf
    <2>2. PICK n \in 1..Len(new) : src[n] = j
      BY Zenon, <1>3, <2>1
    <2>3. k = new[n].key
      BY Zenon, <2>1, <2>2
    <2>4. QED
      BY Zenon, <2>3 DEF KeysOf
  <1>4. ASSUME NEW k \in KeysOf(new)
        PROVE  ValueOf(new, k) = ValueOf(old, k)
    <2>1. PICK n \in 1..Len(new) : k = new[n].key
      BY Zenon DEF KeysOf
    <2>2. src[n] \in 1..Len(old) /\ k = old[src[n]].key /\ new[n].value = old[src[n]].value
      BY Zenon, <2>1
    <2>3. ValueOf(new, k) = new[n].value
      BY Zenon, <1>1, <2>1, ValueOfEntry
    <2>4. ValueOf(old, k) = old[src[n]].value
      BY Zenon, <2>2, ValueOfEntry
    <2>5. QED
      BY Zenon, <2>2, <2>3, <2>4
  <1>5. QED
    BY Zenon, <1>1, <1>2, <1>3, <1>4

(* What unlinking one entry does. *)
LEMMA DropPosRemoves ==
  ASSUME NEW list \in Seq(Entry), NEW p \in 1..Len(list), DistinctKeys(list)
  PROVE  LET new == DropPos(list, p)
         IN /\ new \in Seq(Entry) /\ Len(new) = Len(list) - 1
            /\ DistinctKeys(new) /\ KeysOf(new) = KeysOf(list) \ {list[p].key}
            /\ \A k \in KeysOf(new) : ValueOf(new, k) = ValueOf(list, k)
  <1> DEFINE new == DropPos(list, p)
             src == [n \in 1..(Len(list) - 1) |-> IF n < p THEN n ELSE n + 1]
  <1>1. Len(list) \in Nat /\ \A n \in 1..Len(list) : list[n] \in Entry
    OBVIOUS
  <1>2. new \in Seq(Entry) /\ Len(new) = Len(list) - 1
    BY <1>1 DEF DropPos
  <1>3. src \in [1..Len(new) -> 1..Len(list)]
    BY <1>1, <1>2
  <1>4. \A n \in 1..Len(new) : src[n] # p /\ new[n] = list[src[n]]
    BY <1>1, <1>2 DEF DropPos
  <1>5. \A m, n \in 1..Len(new) : src[m] = src[n] => m = n
    BY <1>1, <1>2
  <1>6. ASSUME NEW j \in 1..Len(list), j # p
        PROVE  \E n \in 1..Len(new) : src[n] = j
    <2>1. CASE j < p
      BY <1>1, <1>2, <2>1
    <2>2. CASE j > p
      <3>1. j - 1 \in 1..Len(new) /\ src[j - 1] = j
        BY <1>1, <1>2, <2>2
      <3>2. QED
        BY Zenon, <3>1
    <2>3. j < p \/ j > p
      BY <1>1, <1>6
    <2>4. QED
      BY Zenon, <2>1, <2>2, <2>3
  <1> HIDE DEF new, src
  <1>7. IsRemoval(list, new, p, src)
    BY Zenon, <1>3, <1>4, <1>5, <1>6 DEF IsRemoval
  <1>8. /\ DistinctKeys(new) /\ KeysOf(new) = KeysOf(list) \ {list[p].key}
        /\ \A k \in KeysOf(new) : ValueOf(new, k) = ValueOf(list, k)
    BY Zenon, <1>2, <1>7, RemovalKeys
  <1>9. QED
    BY Zenon, <1>2, <1>8 DEF new

(* What the eviction loop does when it finds a victim. *)
LEMMA RotateRemoves ==
  ASSUME NEW list \in Seq(Entry), Len(list) >= 1, DistinctKeys(list)
  PROVE  LET new == Rotate(list)
         IN /\ new \in Seq(Entry) /\ Len(new) = Len(list) - 1
            /\ DistinctKeys(new)
            /\ KeysOf(new) = KeysOf(list) \ {list[Victim(list)].key}
            /\ \A x \in KeysOf(new) : ValueOf(new, x) = ValueOf(list, x)
  <1> DEFINE new == Rotate(list)
             k == Victim(list)
             m == Len(list) - k
             src == [n \in 1..(Len(list) - 1) |-> IF n > m THEN n - m ELSE n + k]
  <1>1. /\ Len(list) \in Nat /\ \A n \in 1..Len(list) : list[n] \in Entry
        /\ k \in 1..Len(list)
    BY VictimInList
  <1> HIDE DEF k
  <1>2. \A e \in Entry : Cleared(e) \in Entry /\ Cleared(e).key = e.key
                         /\ Cleared(e).value = e.value
    BY Zenon DEF Cleared, Entry
  <1>3. \A n \in 1..(Len(list) - 1) :
          src[n] \in 1..Len(list) /\ src[n] # k
    BY <1>1
  <1>4. /\ DOMAIN new = 1..(Len(list) - 1)
        /\ \A n \in 1..(Len(list) - 1) :
             new[n] = list[src[n]] \/ new[n] = Cleared(list[src[n]])
    BY Zenon, <1>1 DEF Rotate, k
  <1>5. \A n \in 1..(Len(list) - 1) :
          /\ new[n] \in Entry /\ new[n].key = list[src[n]].key
          /\ new[n].value = list[src[n]].value
    BY <1>1, <1>2, <1>3, <1>4
  <1>6. new \in Seq(Entry) /\ Len(new) = Len(list) - 1
    BY <1>1, <1>4, <1>5 DEF Rotate
  <1>7. \A i, n \in 1..(Len(list) - 1) : src[i] = src[n] => i = n
    BY <1>1
  <1>8. ASSUME NEW j \in 1..Len(list), j # k
        PROVE  \E n \in 1..(Len(list) - 1) : src[n] = j
    <2>1. CASE j < k
      <3>1. j + m \in 1..(Len(list) - 1) /\ src[j + m] = j
        BY <1>1, <2>1
      <3>2. QED
        BY Zenon, <3>1
    <2>2. CASE j > k
      <3>1. j - k \in 1..(Len(list) - 1) /\ src[j - k] = j
        BY <1>1, <2>2
      <3>2. QED
        BY Zenon, <3>1
    <2>3. j < k \/ j > k
      BY <1>1, <1>8
    <2>4. QED
      BY Zenon, <2>1, <2>2, <2>3
  <1>9. src \in [1..(Len(list) - 1) -> 1..Len(list)]
    BY Zenon, <1>3
  <1> HIDE DEF new, src, m
  <1>10. IsRemoval(list, new, k, src)
    BY Zenon, <1>3, <1>5, <1>6, <1>7, <1>8, <1>9 DEF IsRemoval
  <1>11. /\ DistinctKeys(new) /\ KeysOf(new) = KeysOf(list) \ {list[k].key}
         /\ \A x \in KeysOf(new) : ValueOf(new, x) = ValueOf(list, x)
    BY Zenon, <1>1, <1>6, <1>10, RemovalKeys
  <1>12. QED
    BY Zenon, <1>6, <1>11 DEF new, k

(* The invariant of one set. *)
SetOK(cs, s) == cs \in CacheSet /\ SetConsistent(cs, s) /\ SetBounded(cs)

(* What makes a set of the cache sound. *)
LEMMA SetOKParts ==
  ASSUME NEW cs, NEW s
  PROVE  SetOK(cs, s) <=>
           /\ cs \in CacheSet
           /\ DistinctKeys(cs.list) /\ cs.hash = KeysOf(cs.list)
           /\ \A k \in cs.hash : SetOf[k] = s
           /\ Len(cs.list) <= cs.num_entries /\ cs.num_entries <= ElemPerSet
  BY Zenon DEF SetOK, SetConsistent, SetBounded, DistinctKeys, KeysOf

(* A set built from its three fields. *)
LEMMA BuildSet ==
  ASSUME NEW list \in Seq(Entry), NEW hash \in SUBSET Keys, NEW num \in Nat
  PROVE  LET cs == [list |-> list, hash |-> hash, num_entries |-> num]
         IN cs \in CacheSet /\ cs.list = list /\ cs.hash = hash /\ cs.num_entries = num
  BY Zenon DEF CacheSet

(* HASH_FIND returns an entry of the list. *)
LEMMA PosInList ==
  ASSUME NEW cs \in CacheSet, cs.hash = KeysOf(cs.list), NEW k \in cs.hash
  PROVE  Pos(cs, k) \in 1..Len(cs.list) /\ cs.list[Pos(cs, k)].key = k
  <1>1. \E n \in 1..Len(cs.list) : cs.list[n].key = k
    BY Zenon DEF KeysOf
  <1>2. QED
    BY Zenon, <1>1 DEF Pos

(* cs2 is cs with the entry at position p overwritten by e. *)
Replaced(cs, p, e, cs2) == cs2 = [cs EXCEPT !.list = [cs.list EXCEPT ![p] = e]]

(* Replacing an entry by one with the same key. *)
LEMMA ReplaceEntry ==
  ASSUME NEW cs, NEW s, SetOK(cs, s), NEW p \in 1..Len(cs.list), NEW e \in Entry,
         e.key = cs.list[p].key,
         NEW cs2, Replaced(cs, p, e, cs2)
  PROVE  /\ SetOK(cs2, s) /\ cs2.hash = cs.hash
         /\ \A x \in cs.hash : ValueOf(cs2.list, x) =
              IF x = e.key THEN e.value ELSE ValueOf(cs.list, x)
  <1> DEFINE new == [cs.list EXCEPT ![p] = e]
  <1>1. cs \in CacheSet
    BY Zenon, SetOKParts
  <1>2. /\ new \in Seq(Entry) /\ Len(new) = Len(cs.list)
        /\ \A j \in 1..Len(cs.list) : new[j] = IF j = p THEN e ELSE cs.list[j]
    BY <1>1, CacheSetFields, ExceptSeq
  <1>3. \A j \in 1..Len(cs.list) : new[j].key = cs.list[j].key
    BY Zenon, <1>2
  <1>5. cs2 = [cs EXCEPT !.list = new]
    BY Zenon DEF Replaced
  <1> HIDE DEF new
  <1>4. KeysOf(new) = KeysOf(cs.list) /\ (DistinctKeys(cs.list) => DistinctKeys(new))
    BY Zenon, <1>2, <1>3 DEF KeysOf, DistinctKeys
  <1>6. /\ cs2 \in CacheSet /\ cs2.list = new
        /\ cs2.hash = cs.hash /\ cs2.num_entries = cs.num_entries
    BY Zenon, <1>1, <1>2, <1>5 DEF CacheSet
  <1>7. /\ DistinctKeys(cs.list) /\ cs.hash = KeysOf(cs.list)
        /\ \A k \in cs.hash : SetOf[k] = s
        /\ Len(cs.list) <= cs.num_entries /\ cs.num_entries <= ElemPerSet
    BY Zenon, SetOKParts
  <1>8. SetOK(cs2, s)
    BY Zenon, <1>2, <1>4, <1>6, <1>7, SetOKParts
  <1>9. ASSUME NEW x \in cs.hash
        PROVE  ValueOf(new, x) = IF x = e.key THEN e.value ELSE ValueOf(cs.list, x)
    <2>1. PICK n \in 1..Len(cs.list) : cs.list[n].key = x
      BY Zenon, <1>7 DEF KeysOf
    <2>2. n \in 1..Len(new) /\ new[n].key = x /\ cs.list \in Seq(Entry)
      BY Zenon, <1>1, <1>2, <1>3, <2>1, CacheSetFields
    <2>3. DistinctKeys(new)
      BY Zenon, <1>4, <1>7
    <2>4. CASE x = e.key
      <3>1. n = p
        BY Zenon, <1>7, <2>1, <2>4 DEF DistinctKeys
      <3>2. QED
        BY Zenon, <1>2, <2>2, <2>3, <2>4, <3>1, ValueOfEntry
    <2>5. CASE x # e.key
      <3>1. n # p
        BY Zenon, <2>1, <2>5
      <3>2. new[n] = cs.list[n]
        BY Zenon, <1>2, <3>1
      <3>3. QED
        BY Zenon, <1>2, <1>7, <2>1, <2>2, <2>3, <2>5, <3>2, SameValue
    <2>6. QED
      BY Zenon, <2>4, <2>5
  <1>10. QED
    BY Zenon, <1>6, <1>8, <1>9

(* kvcacheset_get preserves the invariant and changes no value. *)
LEMMA SetGetOK ==
  ASSUME NEW cs, NEW s, SetOK(cs, s), NEW k \in Keys
  PROVE  LET new == SetGet(cs, k)
         IN /\ SetOK(new, s) /\ new.hash = cs.hash
            /\ \A x \in cs.hash : ValueOf(new.list, x) = ValueOf(cs.list, x)
  <1>1. CASE k \notin cs.hash
    BY Zenon, <1>1 DEF SetGet
  <1>2. CASE k \in cs.hash
    <2> DEFINE p == Pos(cs, k)
               e == [cs.list[p] EXCEPT !.refbit = TRUE]
    <2>1. /\ cs \in CacheSet /\ p \in 1..Len(cs.list) /\ cs.list \in Seq(Entry)
          /\ DistinctKeys(cs.list)
      BY Zenon, <1>2, SetOKParts, PosInList, CacheSetFields
    <2>2. cs.list[p] \in Entry
      BY Zenon, <2>1, CacheSetFields
    <2>3. e \in Entry /\ e.key = cs.list[p].key /\ e.value = cs.list[p].value
      BY Zenon, <2>2 DEF Entry
    <2>4. SetGet(cs, k) = [cs EXCEPT !.list = [cs.list EXCEPT ![p] = e]]
      BY Zenon, <1>2, <2>1 DEF SetGet, CacheSet
    <2> HIDE DEF p, e
    <2>5. e.value = ValueOf(cs.list, e.key)
      BY Zenon, <2>1, <2>3, ValueOfEntry
    <2> DEFINE new == SetGet(cs, k)
    <2>6. Replaced(cs, p, e, new)
      BY Zenon, <2>4 DEF Replaced
    <2> HIDE DEF new
    <2>7. /\ SetOK(new, s) /\ new.hash = cs.hash
          /\ \A x \in cs.hash : ValueOf(new.list, x) =
                IF x = e.key THEN e.value ELSE ValueOf(cs.list, x)
      BY <2>1, <2>3, <2>6, ReplaceEntry
    <2>8. QED
      BY Zenon, <2>5, <2>7 DEF new
  <1>3. QED
    BY Zenon, <1>1, <1>2

(* kvcacheset_del preserves the invariant and costs the key. *)
LEMMA SetDelOK ==
  ASSUME NEW cs, NEW s, SetOK(cs, s), NEW k \in Keys
  PROVE  LET new == SetDel(cs, k)
         IN /\ SetOK(new, s) /\ new.hash = cs.hash \ {k}
            /\ \A x \in new.hash : ValueOf(new.list, x) = ValueOf(cs.list, x)
  <1>1. CASE k \notin cs.hash
    BY Zenon, <1>1 DEF SetDel
  <1>2. CASE k \in cs.hash
    <2> DEFINE p == Pos(cs, k)
               new == DropPos(cs.list, p)
               cs2 == [list |-> new, hash |-> cs.hash \ {k},
                       num_entries |-> cs.num_entries - 1]
    <2>1. /\ cs \in CacheSet /\ p \in 1..Len(cs.list) /\ cs.list[p].key = k
          /\ DistinctKeys(cs.list) /\ cs.hash = KeysOf(cs.list)
          /\ \A x \in cs.hash : SetOf[x] = s
          /\ Len(cs.list) <= cs.num_entries /\ cs.num_entries <= ElemPerSet
          /\ cs.list \in Seq(Entry) /\ Len(cs.list) \in Nat
          /\ cs.num_entries \in Nat /\ cs.hash \in SUBSET Keys
      BY Zenon, <1>2, SetOKParts, PosInList, CacheSetFields
    <2> HIDE DEF p
    <2>2. /\ new \in Seq(Entry) /\ Len(new) = Len(cs.list) - 1
          /\ DistinctKeys(new) /\ KeysOf(new) = KeysOf(cs.list) \ {k}
          /\ \A x \in KeysOf(new) : ValueOf(new, x) = ValueOf(cs.list, x)
      BY Zenon, <2>1, DropPosRemoves
    <2> HIDE DEF new
    <2>3. cs.num_entries - 1 \in Nat
      BY <2>1
    <2>4. /\ cs2 \in CacheSet /\ cs2.list = new /\ cs2.hash = cs.hash \ {k}
          /\ cs2.num_entries = cs.num_entries - 1
      BY Zenon, <2>1, <2>2, <2>3, BuildSet
    <2> HIDE DEF cs2
    <2>5. Len(new) <= cs.num_entries - 1 /\ cs.num_entries - 1 <= ElemPerSet
      BY <2>1, <2>2, ElemPerSetAssumption
    <2>6. SetOK(cs2, s)
      BY Zenon, <2>1, <2>2, <2>4, <2>5, SetOKParts
    <2>7. SetDel(cs, k) = cs2
      BY <1>2 DEF SetDel, cs2, new, p
    <2>8. QED
      BY Zenon, <2>1, <2>2, <2>4, <2>6, <2>7
  <1>3. QED
    BY Zenon, <1>1, <1>2

(* kvcacheset_clear preserves the invariant, although num_entries keeps    *)
(* the old count.                                                          *)
LEMMA SetClearOK ==
  ASSUME NEW cs, NEW s, SetOK(cs, s)
  PROVE  SetOK(SetClear(cs), s) /\ SetClear(cs).hash = {}
  <1> DEFINE cs2 == SetClear(cs)
  <1>1. cs \in CacheSet /\ cs.num_entries \in Nat /\ cs.num_entries <= ElemPerSet
    BY SetOKParts, CacheSetFields
  <1>2. /\ cs2 \in CacheSet /\ cs2.list = <<>> /\ cs2.hash = {}
        /\ cs2.num_entries = cs.num_entries
    <2>1. <<>> \in Seq(Entry) /\ {} \in SUBSET Keys
      BY EmptySeq
    <2>2. cs2 = [list |-> <<>>, hash |-> {}, num_entries |-> cs.num_entries]
      BY DEF SetClear
    <2> HIDE DEF cs2
    <2>3. QED
      BY <1>1, <2>1, <2>2, BuildSet
  <1>3. KeysOf(<<>>) = {} /\ DistinctKeys(<<>>) /\ Len(<<>>) = 0
    BY DEF KeysOf, DistinctKeys
  <1> HIDE DEF cs2
  <1>4. 0 <= cs2.num_entries /\ cs2.num_entries <= ElemPerSet
    BY <1>1, <1>2
  <1>5. SetOK(cs2, s)
    BY <1>2, <1>3, <1>4, SetOKParts
  <1>6. QED
    BY <1>2, <1>5 DEF cs2

(* Appending an entry for a key that is not in the set. *)
LEMMA InsertKeys ==
  ASSUME NEW cs \in CacheSet, NEW k \in Keys, NEW v \in Values,
         DistinctKeys(cs.list), cs.hash = KeysOf(cs.list), k \notin cs.hash
  PROVE  LET new == Insert(cs, k, v)
         IN /\ new \in CacheSet /\ new.num_entries = cs.num_entries
            /\ new.hash = cs.hash \cup {k}
            /\ DistinctKeys(new.list) /\ new.hash = KeysOf(new.list)
            /\ Len(new.list) = Len(cs.list) + 1
            /\ ValueOf(new.list, k) = v
            /\ \A x \in cs.hash : ValueOf(new.list, x) = ValueOf(cs.list, x)
  <1> DEFINE e == [key |-> k, value |-> v, refbit |-> FALSE]
             list == Append(cs.list, e)
             new == Insert(cs, k, v)
  <1>1. e \in Entry /\ e.key = k /\ e.value = v
    BY DEF Entry
  <1>2. cs.list \in Seq(Entry) /\ Len(cs.list) \in Nat
    BY CacheSetFields
  <1>3. new.list = list /\ new.hash = cs.hash \cup {k} /\ new.num_entries = cs.num_entries
    BY DEF Insert, CacheSet
  <1> HIDE DEF e
  <1>4. /\ list \in Seq(Entry) /\ Len(list) = Len(cs.list) + 1
        /\ \A n \in 1..Len(cs.list) : list[n] = cs.list[n]
        /\ list[Len(cs.list) + 1] = e
    BY <1>1, <1>2
  <1>5. new \in CacheSet
    BY <1>1, <1>4 DEF Insert, CacheSet, e
  <1> HIDE DEF list, new
  <1>6. \A n \in 1..Len(list) : \/ n \in 1..Len(cs.list) /\ list[n].key = cs.list[n].key
                                \/ n = Len(list) /\ list[n].key = k
    BY <1>1, <1>2, <1>4
  <1>7. /\ \A n \in 1..Len(cs.list) : n \in 1..Len(list) /\ list[n].key = cs.list[n].key
        /\ Len(list) \in 1..Len(list) /\ list[Len(list)].key = k
    BY <1>1, <1>2, <1>4
  <1>8. \A n \in 1..Len(cs.list) : cs.list[n].key # k
    BY DEF KeysOf
  <1>9. KeysOf(list) = KeysOf(cs.list) \cup {k}
    <2>1. KeysOf(list) \subseteq KeysOf(cs.list) \cup {k}
      BY <1>6 DEF KeysOf
    <2>2. KeysOf(cs.list) \subseteq KeysOf(list)
      BY <1>7 DEF KeysOf
    <2>3. k \in KeysOf(list)
      BY <1>7 DEF KeysOf
    <2>4. QED
      BY <2>1, <2>2, <2>3
  <1>10. DistinctKeys(list)
    BY <1>6, <1>8 DEF DistinctKeys
  <1>11. ValueOf(list, k) = v
    <2>1. list[Len(list)] = e
      BY <1>2, <1>4
    <2>2. QED
      BY <1>1, <1>4, <1>7, <1>10, <2>1, ValueOfEntry
  <1>12. ASSUME NEW x \in cs.hash
         PROVE  ValueOf(list, x) = ValueOf(cs.list, x)
    <2>1. PICK n \in 1..Len(cs.list) : cs.list[n].key = x
      BY DEF KeysOf
    <2>2. QED
      BY <1>2, <1>4, <1>7, <1>10, <2>1, SameValue
  <1>13. QED
    BY <1>3, <1>4, <1>5, <1>9, <1>10, <1>11, <1>12 DEF new

(* What the eviction loop does to a set: it costs one entry, except that   *)
(* a list of at most one entry may keep it.                                *)
LEMMA EvictKeys ==
  ASSUME NEW cs \in CacheSet, DistinctKeys(cs.list), cs.hash = KeysOf(cs.list)
  PROVE  LET new == Evict(cs)
         IN /\ new \in CacheSet /\ new.num_entries = cs.num_entries
            /\ new.hash = cs.hash \/ \E gone : new.hash = cs.hash \ {gone}
            /\ \A x \in new.hash : ValueOf(new.list, x) = ValueOf(cs.list, x)
            /\ DistinctKeys(new.list) /\ new.hash = KeysOf(new.list)
            /\ IF HasVictim(cs.list) THEN Len(new.list) = Len(cs.list) - 1
                                     ELSE Len(new.list) = Len(cs.list) /\ Len(cs.list) <= 1
  <1> DEFINE new == Evict(cs)
  <1>1. cs.list \in Seq(Entry) /\ Len(cs.list) \in Nat
    BY CacheSetFields
  <1>2. CASE HasVictim(cs.list)
    <2> DEFINE list == Rotate(cs.list)
               gone == cs.list[Victim(cs.list)].key
    <2>1. Len(cs.list) >= 1
      BY <1>1, <1>2 DEF HasVictim
    <2>2. /\ list \in Seq(Entry) /\ Len(list) = Len(cs.list) - 1
          /\ DistinctKeys(list) /\ KeysOf(list) = KeysOf(cs.list) \ {gone}
          /\ \A x \in KeysOf(list) : ValueOf(list, x) = ValueOf(cs.list, x)
      BY <1>1, <2>1, RotateRemoves
    <2> HIDE DEF list, gone
    <2>3. new = [cs EXCEPT !.list = list, !.hash = @ \ {gone}]
      BY <1>2 DEF Evict, list, gone
    <2> HIDE DEF new
    <2>4. /\ new \in CacheSet /\ new.list = list /\ new.hash = cs.hash \ {gone}
          /\ new.num_entries = cs.num_entries
      BY <2>2, <2>3 DEF CacheSet
    <2>5. QED
      BY <1>2, <2>2, <2>4 DEF new
  <1>3. CASE ~HasVictim(cs.list)
    <2> DEFINE list == [n \in 1..Len(cs.list) |-> Cleared(cs.list[n])]
    <2>1. \A n \in 1..Len(cs.list) :
            /\ Cleared(cs.list[n]) \in Entry /\ Cleared(cs.list[n]).key = cs.list[n].key
            /\ Cleared(cs.list[n]).value = cs.list[n].value
      <3>1. \A e \in Entry : /\ Cleared(e) \in Entry /\ Cleared(e).key = e.key
                            /\ Cleared(e).value = e.value
        BY DEF Cleared, Entry
      <3>2. QED
        BY <3>1, CacheSetFields
    <2>2. /\ list \in Seq(Entry) /\ Len(list) = Len(cs.list)
          /\ \A n \in 1..Len(cs.list) : /\ list[n].key = cs.list[n].key
                                         /\ list[n].value = cs.list[n].value
      BY <1>1, <2>1
    <2>3. new = [cs EXCEPT !.list = list]
      BY <1>3 DEF Evict
    <2> HIDE DEF list, new
    <2>4. /\ new \in CacheSet /\ new.list = list /\ new.hash = cs.hash
          /\ new.num_entries = cs.num_entries
      BY <2>2, <2>3 DEF CacheSet
    <2>5. KeysOf(list) = KeysOf(cs.list) /\ DistinctKeys(list)
      BY <2>2 DEF KeysOf, DistinctKeys
    <2>6. Len(cs.list) <= 1
      BY <1>1, <1>3 DEF HasVictim
    <2>7. ASSUME NEW x \in cs.hash
          PROVE  ValueOf(list, x) = ValueOf(cs.list, x)
      <3>1. PICK n \in 1..Len(cs.list) : cs.list[n].key = x
        BY DEF KeysOf
      <3>2. QED
        BY <1>1, <2>2, <2>5, <3>1, SameValue
    <2>8. QED
      BY <1>3, <2>2, <2>4, <2>5, <2>6, <2>7 DEF new
  <1>4. QED
    BY <1>2, <1>3

(* kvcacheset_put preserves the invariant, stores the value and costs at   *)
(* most one other key.                                                     *)
LEMMA SetPutOK ==
  ASSUME NEW cs, NEW s, SetOK(cs, s), NEW k \in Keys, NEW v \in Values, SetOf[k] = s
  PROVE  LET new == SetPut(cs, k, v)
         IN /\ SetOK(new, s)
            /\ \E gone : new.hash = (cs.hash \ ({gone} \ {k})) \cup {k}
            /\ ValueOf(new.list, k) = v
            /\ \A x \in new.hash \ {k} : ValueOf(new.list, x) = ValueOf(cs.list, x)
  <1>1. /\ cs \in CacheSet /\ cs.list \in Seq(Entry) /\ Len(cs.list) \in Nat
        /\ cs.num_entries \in Nat
        /\ DistinctKeys(cs.list) /\ cs.hash = KeysOf(cs.list)
        /\ \A x \in cs.hash : SetOf[x] = s
        /\ Len(cs.list) <= cs.num_entries /\ cs.num_entries <= ElemPerSet
    BY SetOKParts, CacheSetFields
  <1>2. CASE k \in cs.hash
    <2> DEFINE p == Pos(cs, k)
               e == [key |-> k, value |-> v, refbit |-> TRUE]
    <2>1. p \in 1..Len(cs.list) /\ cs.list[p].key = k
      BY <1>1, <1>2, PosInList
    <2>2. e \in Entry /\ e.key = k /\ e.value = v
      BY DEF Entry
    <2>3. SetPut(cs, k, v) = [cs EXCEPT !.list = [cs.list EXCEPT ![p] = e]]
      BY <1>1, <1>2 DEF SetPut, CacheSet
    <2> HIDE DEF p, e
    <2> DEFINE new == SetPut(cs, k, v)
    <2>4. Replaced(cs, p, e, new)
      BY <2>3 DEF Replaced
    <2> HIDE DEF new
    <2>5. /\ SetOK(new, s) /\ new.hash = cs.hash
          /\ \A x \in cs.hash : ValueOf(new.list, x) =
                IF x = e.key THEN e.value ELSE ValueOf(cs.list, x)
      BY <2>1, <2>2, <2>4, ReplaceEntry
    <2>6. new.hash = (cs.hash \ ({k} \ {k})) \cup {k}
      BY <1>2, <2>5
    <2>7. QED
      BY <1>2, <2>2, <2>5, <2>6 DEF new
  <1>3. CASE k \notin cs.hash /\ HasRoom(cs)
    <2> DEFINE ins == Insert(cs, k, v)
               cs2 == [ins EXCEPT !.num_entries = @ + 1]
    <2>1. /\ ins \in CacheSet /\ ins.num_entries = cs.num_entries
          /\ ins.hash = cs.hash \cup {k}
          /\ DistinctKeys(ins.list) /\ ins.hash = KeysOf(ins.list)
          /\ Len(ins.list) = Len(cs.list) + 1
          /\ ValueOf(ins.list, k) = v
          /\ \A x \in cs.hash : ValueOf(ins.list, x) = ValueOf(cs.list, x)
      BY <1>1, <1>3, InsertKeys
    <2> HIDE DEF ins
    <2>2. /\ cs2 \in CacheSet /\ cs2.list = ins.list /\ cs2.hash = ins.hash
          /\ cs2.num_entries = cs.num_entries + 1
      BY <1>1, <2>1 DEF CacheSet
    <2>3. cs.num_entries + 1 <= ElemPerSet
      BY <1>1, <1>3, ElemPerSetAssumption DEF HasRoom
    <2> HIDE DEF cs2
    <2>4. Len(cs2.list) <= cs2.num_entries /\ cs2.num_entries <= ElemPerSet
      BY <1>1, <2>1, <2>2, <2>3
    <2>5. SetOK(cs2, s)
      BY <1>1, <2>1, <2>2, <2>4, SetOKParts
    <2>6. SetPut(cs, k, v) = cs2
      BY <1>3 DEF SetPut, cs2, ins
    <2>7. cs2.hash = (cs.hash \ ({k} \ {k})) \cup {k}
      BY <2>1, <2>2
    <2>8. QED
      BY <2>1, <2>2, <2>5, <2>6, <2>7
  <1>4. CASE k \notin cs.hash /\ ~HasRoom(cs)
    <2> DEFINE ev == Evict(cs)
               cs2 == Insert(ev, k, v)
    <2>1. /\ ev \in CacheSet /\ ev.num_entries = cs.num_entries
          /\ ev.hash = cs.hash \/ \E gone : ev.hash = cs.hash \ {gone}
          /\ \A x \in ev.hash : ValueOf(ev.list, x) = ValueOf(cs.list, x)
          /\ DistinctKeys(ev.list) /\ ev.hash = KeysOf(ev.list)
          /\ IF HasVictim(cs.list) THEN Len(ev.list) = Len(cs.list) - 1
                                   ELSE Len(ev.list) = Len(cs.list) /\ Len(cs.list) <= 1
      BY <1>1, EvictKeys
    <2> HIDE DEF ev
    <2>2. /\ cs2 \in CacheSet /\ cs2.num_entries = ev.num_entries
          /\ cs2.hash = ev.hash \cup {k}
          /\ DistinctKeys(cs2.list) /\ cs2.hash = KeysOf(cs2.list)
          /\ Len(cs2.list) = Len(ev.list) + 1
          /\ ValueOf(cs2.list, k) = v
          /\ \A x \in ev.hash : ValueOf(cs2.list, x) = ValueOf(ev.list, x)
      BY <1>4, <2>1, InsertKeys
    <2> HIDE DEF cs2
    <2>3. cs.num_entries = ElemPerSet /\ ElemPerSet >= 2
      BY <1>1, <1>4, ElemPerSetAssumption DEF HasRoom
    <2>4. Len(cs2.list) <= cs2.num_entries /\ cs2.num_entries <= ElemPerSet
      BY <1>1, <2>1, <2>2, <2>3
    <2>5. \A x \in cs2.hash : SetOf[x] = s
      BY <1>1, <2>1, <2>2
    <2>6. SetOK(cs2, s)
      BY <2>2, <2>4, <2>5, SetOKParts
    <2>7. SetPut(cs, k, v) = cs2
      BY <1>4 DEF SetPut, cs2, ev
    <2>9. \E gone : cs2.hash = (cs.hash \ ({gone} \ {k})) \cup {k}
      <3>1. CASE ev.hash = cs.hash
        <4>1. cs2.hash = (cs.hash \ ({k} \ {k})) \cup {k}
          BY <2>2, <3>1
        <4>2. QED
          BY <4>1
      <3>2. CASE \E gone : ev.hash = cs.hash \ {gone}
        <4>1. PICK gone : ev.hash = cs.hash \ {gone}
          BY <3>2
        <4>2. cs2.hash = (cs.hash \ ({gone} \ {k})) \cup {k}
          BY <2>2, <4>1
        <4>3. QED
          BY <4>2
      <3>3. QED
        BY <2>1, <3>1, <3>2
    <2>10. \A x \in cs2.hash \ {k} : ValueOf(cs2.list, x) = ValueOf(cs.list, x)
      BY <2>1, <2>2
    <2>11. QED
      BY <2>2, <2>6, <2>7, <2>9, <2>10
  <1>5. QED
    BY <1>2, <1>3, <1>4

(* IInv is the invariant of one set, for each set. *)
LEMMA IInvIsSetOK ==
  IInv <=> sets = [s \in Sets |-> sets[s]] /\ \A s \in Sets : SetOK(sets[s], s)
  BY DEF IInv, TypeOK, Consistent, Capacity, SetOK

(* Every set is sound at the start, *)
LEMMA InitIInv == Init => IInv
  <1> SUFFICES ASSUME Init PROVE IInv
    OBVIOUS
  <1>1. EmptySet \in CacheSet /\ SetBounded(EmptySet)
    BY ElemPerSetAssumption, EmptySeq DEF EmptySet, CacheSet, SetBounded
  <1>2. \A s \in Sets : SetConsistent(EmptySet, s)
    BY DEF EmptySet, SetConsistent
  <1>3. QED
    BY <1>1, <1>2 DEF Init, IInv, TypeOK, Consistent, Capacity

(* The set that an operation replaces is in its invariant, so all are. *)
LEMMA OneSetReplaced ==
  ASSUME IInv, NEW s \in Sets, NEW new, SetOK(new, s),
         sets' = [sets EXCEPT ![s] = new]
  PROVE  IInv'
  <1>1. \A t \in Sets : sets'[t] = IF t = s THEN new ELSE sets[t]
    BY IInvIsSetOK
  <1>2. \A t \in Sets : SetOK(sets'[t], t)
    BY <1>1, IInvIsSetOK
  <1>3. sets' = [t \in Sets |-> sets'[t]]
    BY IInvIsSetOK
  <1>4. QED
    BY <1>2, <1>3 DEF IInv, TypeOK, Consistent, Capacity, SetOK

(* and stays so. *)
LEMMA NextIInv == IInv /\ [Next]_sets => IInv'
  <1> SUFFICES ASSUME IInv, [Next]_sets PROVE IInv'
    OBVIOUS
  <1>1. \A s \in Sets : SetOK(sets[s], s)
    BY IInvIsSetOK
  <1>2. \A k \in Keys : SetOf[k] \in Sets
    BY KVCacheAssumption
  <1>3. CASE UNCHANGED sets
    BY <1>3 DEF IInv, TypeOK, Consistent, Capacity
  <1>4. ASSUME NEW k \in Keys, Get(k) PROVE IInv'
    <2> DEFINE new == SetGet(sets[SetOf[k]], k)
    <2>1. SetOK(new, SetOf[k])
      BY <1>1, <1>2, SetGetOK
    <2>2. sets' = [sets EXCEPT ![SetOf[k]] = new]
      BY <1>4 DEF Get
    <2> HIDE DEF new
    <2>3. QED
      BY <1>2, <2>1, <2>2, OneSetReplaced
  <1>5. ASSUME NEW k \in Keys, Del(k) PROVE IInv'
    <2> DEFINE new == SetDel(sets[SetOf[k]], k)
    <2>1. SetOK(new, SetOf[k])
      BY <1>1, <1>2, SetDelOK
    <2>2. sets' = [sets EXCEPT ![SetOf[k]] = new]
      BY <1>5 DEF Del
    <2> HIDE DEF new
    <2>3. QED
      BY <1>2, <2>1, <2>2, OneSetReplaced
  <1>6. ASSUME NEW k \in Keys, NEW v \in Values, Put(k, v) PROVE IInv'
    <2> DEFINE new == SetPut(sets[SetOf[k]], k, v)
    <2>1. SetOK(new, SetOf[k])
      BY <1>1, <1>2, SetPutOK
    <2>2. sets' = [sets EXCEPT ![SetOf[k]] = new]
      BY <1>6 DEF Put
    <2> HIDE DEF new
    <2>3. QED
      BY <1>2, <2>1, <2>2, OneSetReplaced
  <1>7. CASE Clear
    <2>1. \A s \in Sets : SetOK(SetClear(sets[s]), s)
      BY <1>1, SetClearOK
    <2>2. sets' = [s \in Sets |-> sets'[s]] /\ \A s \in Sets : SetOK(sets'[s], s)
      BY <1>7, <2>1 DEF Clear
    <2>3. QED
      BY <2>2 DEF IInv, TypeOK, Consistent, Capacity, SetOK
  <1>8. QED
    BY <1>3, <1>4, <1>5, <1>6, <1>7 DEF Next

(* The inductive invariant holds in every reachable state of the cache. *)
THEOREM Invariance == Spec => []IInv
  BY InitIInv, NextIInv, PTL DEF Spec

(* Every cache set stays a list of entries, a set of keys and a count,     *)
(* whatever is put, got, deleted or cleared.                               *)
THEOREM TypeCorrect == Spec => []TypeOK
  BY Invariance, PTL DEF IInv

(* The list and the hash table of every set hold the same entries after    *)
(* every operation of kvcache.c, evictions included.                       *)
THEOREM ListMatchesHash == Spec => []Consistent
  BY Invariance, PTL DEF IInv

(* kvcacheset.h: "A KVCacheSet may not store more than ELEM_PER_SET        *)
(* entries", for every capacity of two or more.                            *)
THEOREM WithinCapacity == Spec => []Capacity
  BY Invariance, PTL DEF IInv

-----------------------------------------------------------------------------
(* The map that an array of cache sets holds. *)
MapOf(f) == [k \in Keys |-> IF k \in f[SetOf[k]].hash
                            THEN ValueOf(f[SetOf[k]].list, k) ELSE Absent]

(* The value found for a key of the hash table is a value. *)
LEMMA FoundValue ==
  ASSUME NEW cs, NEW s, SetOK(cs, s), NEW k \in cs.hash
  PROVE  /\ cs.list[Pos(cs, k)].value = ValueOf(cs.list, k)
         /\ ValueOf(cs.list, k) \in Values
  <1>1. /\ cs \in CacheSet /\ cs.list \in Seq(Entry)
        /\ DistinctKeys(cs.list) /\ cs.hash = KeysOf(cs.list)
    BY SetOKParts, CacheSetFields
  <1>2. Pos(cs, k) \in 1..Len(cs.list) /\ cs.list[Pos(cs, k)].key = k
    BY <1>1, PosInList
  <1>3. cs.list[Pos(cs, k)].value = ValueOf(cs.list, k)
    BY <1>1, <1>2, ValueOfEntry
  <1>4. cs.list[Pos(cs, k)] \in Entry
    BY <1>1, <1>2, CacheSetFields
  <1>5. QED
    BY <1>3, <1>4 DEF Entry

(* The keys of a set that its map defines are those of the hash table. *)
LEMMA MembersAreHash ==
  ASSUME NEW f, \A t \in Sets : SetOK(f[t], t), NEW s \in Sets
  PROVE  Lossy!Members(MapOf(f), s) = f[s].hash
  <1>1. ASSUME NEW k \in Keys, SetOf[k] = s
        PROVE  MapOf(f)[k] # Absent <=> k \in f[s].hash
    BY <1>1, FoundValue, KVCacheAssumption DEF MapOf
  <1>2. \A k \in f[s].hash : k \in Keys /\ SetOf[k] = s
    BY SetOKParts, CacheSetFields
  <1>3. QED
    BY <1>1, <1>2 DEF Lossy!Members

(* g is the array f with set s replaced. *)
SetReplaced(f, s, new, g) == DOMAIN f = Sets /\ g = [f EXCEPT ![s] = new]

(* How the map changes when one set is replaced. *)
LEMMA MapAfter ==
  ASSUME NEW f, NEW g, NEW s \in Sets, NEW new,
         SetReplaced(f, s, new, g), NEW k \in Keys
  PROVE  MapOf(g)[k] = IF SetOf[k] # s THEN MapOf(f)[k]
                       ELSE IF k \in new.hash THEN ValueOf(new.list, k) ELSE Absent
  <1>1. g[SetOf[k]] = IF SetOf[k] = s THEN new ELSE f[SetOf[k]]
    BY KVCacheAssumption DEF SetReplaced
  <1>2. QED
    BY <1>1 DEF MapOf

(* Every operation of the cache is one of the lossy map, or leaves the map *)
(* as it is.                                                               *)
LEMMA StepRefines ==
  ASSUME IInv, IInv', [Next]_sets
  PROVE  [Lossy!Next]_([k \in Keys |-> Lookup(k)])
  <1> DEFINE m == MapOf(sets)
             n == MapOf(sets')
  <1>1. /\ \A s \in Sets : SetOK(sets[s], s)
        /\ \A s \in Sets : SetOK(sets'[s], s)
        /\ DOMAIN sets = Sets
        /\ \A k \in Keys : SetOf[k] \in Sets
    BY KVCacheAssumption DEF IInv, TypeOK, Consistent, Capacity, SetOK
  <1>2. [k \in Keys |-> Lookup(k)] = m
    BY <1>1, FoundValue DEF MapOf, Lookup
  <1>3. [k \in Keys |-> Lookup(k)]' = n
    BY <1>1, FoundValue DEF MapOf, Lookup
  <1>4. CASE UNCHANGED sets
    BY <1>4, <1>2, <1>3
  <1>5. ASSUME NEW k \in Keys, Get(k) PROVE n = m
    <2> DEFINE cs == sets[SetOf[k]]
               new == SetGet(cs, k)
    <2>1. /\ new.hash = cs.hash
          /\ \A x \in cs.hash : ValueOf(new.list, x) = ValueOf(cs.list, x)
      BY <1>1, SetGetOK
    <2>2. sets' = [sets EXCEPT ![SetOf[k]] = new]
      BY <1>5 DEF Get
    <2> HIDE DEF new
    <2>3. ASSUME NEW x \in Keys PROVE n[x] = m[x]
      BY <1>1, <2>1, <2>2, MapAfter DEF MapOf, SetReplaced
    <2>4. QED
      BY <2>3 DEF MapOf
  <1>6. ASSUME NEW k \in Keys, Del(k) PROVE n = [m EXCEPT ![k] = Absent]
    <2> DEFINE cs == sets[SetOf[k]]
               new == SetDel(cs, k)
    <2>1. /\ new.hash = cs.hash \ {k}
          /\ \A x \in new.hash : ValueOf(new.list, x) = ValueOf(cs.list, x)
      BY <1>1, SetDelOK
    <2>2. sets' = [sets EXCEPT ![SetOf[k]] = new]
      BY <1>6 DEF Del
    <2> HIDE DEF new
    <2>3. ASSUME NEW x \in Keys PROVE n[x] = IF x = k THEN Absent ELSE m[x]
      BY <1>1, <2>1, <2>2, MapAfter DEF MapOf, SetReplaced
    <2>4. QED
      BY <2>3 DEF MapOf
  <1>7. CASE Clear
    <2>1. \A s \in Sets : sets'[s] = SetClear(sets[s])
      BY <1>7 DEF Clear
    <2>2. \A k \in Keys : sets'[SetOf[k]].hash = {}
      BY <1>1, <2>1, SetClearOK
    <2>3. n = [k \in Keys |-> Absent]
      BY <2>2 DEF MapOf
    <2>4. QED
      BY <1>3, <2>3 DEF Lossy!Next, Lossy!Clear
  <1>8. ASSUME NEW k \in Keys, NEW v \in Values, Put(k, v)
        PROVE  Lossy!Put(k, v)
    <2> DEFINE s == SetOf[k]
               cs == sets[s]
               new == SetPut(cs, k, v)
    <2>1. /\ \E gone : new.hash = (cs.hash \ ({gone} \ {k})) \cup {k}
          /\ ValueOf(new.list, k) = v
          /\ \A x \in new.hash \ {k} : ValueOf(new.list, x) = ValueOf(cs.list, x)
      <3>1. SetOK(cs, s) /\ SetOf[k] = s
        BY <1>1
      <3> HIDE DEF cs, s
      <3>2. QED
        BY <3>1, SetPutOK
    <2>2. sets' = [sets EXCEPT ![s] = new]
      BY <1>8 DEF Put
    <2> HIDE DEF new
    <2>3. PICK gone : new.hash = (cs.hash \ ({gone} \ {k})) \cup {k}
      BY <2>1
    <2> DEFINE lost == cs.hash \cap ({gone} \ {k})
    <2>4. Lossy!Members(m, s) = cs.hash
      BY <1>1, MembersAreHash
    <2>5. lost \in SUBSET (Lossy!Members(m, s) \ {k}) /\ \A a, b \in lost : a = b
      BY <2>4
    <2>6. ASSUME NEW x \in Keys
          PROVE  n[x] = IF x = k THEN v ELSE IF x \in lost THEN Absent ELSE m[x]
      <3>1. s \in Sets /\ SetOf[k] = s /\ DOMAIN sets = Sets
        BY <1>1
      <3>2. \A y \in cs.hash : SetOf[y] = s
        BY <1>1, SetOKParts
      <3>3. SetOf[x] = s => m[x] = IF x \in cs.hash THEN ValueOf(cs.list, x) ELSE Absent
        BY DEF MapOf
      <3>4. n[x] = IF SetOf[x] # s THEN m[x]
                   ELSE IF x \in new.hash THEN ValueOf(new.list, x) ELSE Absent
        <4> HIDE DEF s
        <4> DEFINE upd == sets'
        <4>1. SetReplaced(sets, s, new, upd)
          BY <2>2, <3>1 DEF SetReplaced
        <4> HIDE DEF upd
        <4>2. MapOf(upd)[x] = IF SetOf[x] # s THEN MapOf(sets)[x]
                ELSE IF x \in new.hash THEN ValueOf(new.list, x) ELSE Absent
          BY <3>1, <4>1, MapAfter
        <4>3. QED
          BY <4>2 DEF upd
      <3> HIDE DEF m, n, cs, s
      <3>5. CASE SetOf[x] # s
        BY <3>1, <3>2, <3>4, <3>5
      <3>6. CASE SetOf[x] = s /\ x = k
        BY <2>1, <2>3, <3>4, <3>6
      <3>7. CASE SetOf[x] = s /\ x # k
        BY <2>1, <2>3, <3>3, <3>4, <3>7
      <3>8. QED
        BY <3>5, <3>6, <3>7
    <2>7. n = [x \in Keys |-> IF x = k THEN v
                              ELSE IF x \in lost THEN Absent ELSE m[x]]
      BY <2>6 DEF MapOf
    <2> HIDE DEF m, n, lost
    <2>8. QED
      BY <1>2, <1>3, <2>5, <2>7 DEF Lossy!Put
  <1>9. QED
    BY <1>2, <1>3, <1>4, <1>5, <1>6, <1>7, <1>8 DEF Next, Lossy!Next, Lossy!Del

(* For any keys, values, sets and capacity of two or more, kvcache.c with  *)
(* kvcacheset.c implements the lossy map: a put stores its value and costs *)
(* at most one other entry of its set, a get costs nothing, and a value    *)
(* found is the last one put.                                              *)
THEOREM RefinesLossyCache == Spec => ImplementsLossyCache
  <1>1. Init => Lossy!Init
    BY KVCacheAssumption DEF Init, Lossy!Init, Lookup, EmptySet
  <1>2. IInv /\ IInv' /\ [Next]_sets => [Lossy!Next]_([k \in Keys |-> Lookup(k)])
    BY StepRefines
  <1>3. QED
    BY <1>1, <1>2, Invariance, PTL DEF Spec, ImplementsLossyCache, Lossy!Spec
=============================================================================

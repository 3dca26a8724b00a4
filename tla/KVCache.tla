------------------------------- MODULE KVCache -------------------------------
(***************************************************************************)
(* The set-associative cache of a key-value server (kvcache.c): an array   *)
(* of cache sets, each key belonging to one of them.                       *)
(*                                                                         *)
(* One set, with second-chance replacement (kvcacheset.c), is described by *)
(* operators on the value of a kvcacheset_t.  It keeps every entry twice:  *)
(* in a doubly-linked list (list_ptr) that gives the order of eviction,    *)
(* and in a hash table (hash_ptr) that finds it by key.  It counts its     *)
(* entries in num_entries.  Rotate and HasVictim describe what the pointer *)
(* loop of kvcacheset_put computes; the loop itself is at the end of the   *)
(* module.                                                                 *)
(*                                                                         *)
(* The functions run under the set's read-write lock, which the callers    *)
(* take, so each of them is one step; a get runs under the read lock and   *)
(* only ever sets reference bits.                                          *)
(***************************************************************************)
EXTENDS Naturals, Sequences, FiniteSets

CONSTANTS Keys, Values,
          ElemPerSet   \* elem_per_set

(* kvcacheset_init refuses fewer than two. *)
ASSUME ElemPerSetAssumption == ElemPerSet \in Nat /\ ElemPerSet >= 2

Entry == [key : Keys, value : Values, refbit : BOOLEAN]

EmptySet == [list |-> <<>>, hash |-> {}, num_entries |-> 0]

(* Where the entry HASH_FIND returns stands in the list. *)
Pos(cs, k) == CHOOSE n \in 1..Len(cs.list) : cs.list[n].key = k

Cleared(e) == [e EXCEPT !.refbit = FALSE]

Unreferenced(list) == {n \in 1..Len(list) : ~list[n].refbit}

(* The first entry without a reference bit; when all have one, the loop    *)
(* meets the first entry again after clearing them all.                    *)
Victim(list) ==
  IF Unreferenced(list) = {} THEN 1
  ELSE CHOOSE n \in Unreferenced(list) : \A m \in Unreferenced(list) : n <= m

(* The list after the eviction loop freed the victim: the entries the loop *)
(* passed have moved to the back with their bits cleared.                  *)
Rotate(list) ==
  LET k == Victim(list)
      m == Len(list) - k
      all == Unreferenced(list) = {}
  IN [n \in 1..(Len(list) - 1) |->
        IF n > m THEN Cleared(list[n - m])
        ELSE IF all THEN Cleared(list[n + k]) ELSE list[n + k]]

(* The loop over a list of one referenced entry ends without a victim:     *)
(* DL_FOREACH_SAFE read its next pointer, NULL, before it moved the entry. *)
HasVictim(list) == Len(list) >= 2 \/ (Len(list) = 1 /\ ~list[1].refbit)

(* Mutant of Evict: the loop goes on after the first victim. *)
EvictWithoutBreak(cs) ==
  [cs EXCEPT !.list = SelectSeq(@, LAMBDA e : e.refbit),
             !.hash = @ \ {cs.list[n].key : n \in Unreferenced(cs.list)}]

Evict(cs) ==
  IF HasVictim(cs.list)
  THEN [cs EXCEPT !.list = Rotate(cs.list),
                  !.hash = @ \ {cs.list[Victim(cs.list)].key}]
  ELSE [cs EXCEPT !.list = [n \in 1..Len(cs.list) |-> Cleared(cs.list[n])]]

Insert(cs, k, v) ==
  [cs EXCEPT !.list = Append(@, [key |-> k, value |-> v, refbit |-> FALSE]),
             !.hash = @ \cup {k}]

(* The test for a free place. *)
HasRoom(cs) == cs.num_entries < ElemPerSet

SetGet(cs, k) ==
  IF k \in cs.hash THEN [cs EXCEPT !.list[Pos(cs, k)].refbit = TRUE] ELSE cs

SetPut(cs, k, v) ==
  IF k \in cs.hash
  THEN [cs EXCEPT !.list[Pos(cs, k)] = [key |-> k, value |-> v, refbit |-> TRUE]]
  ELSE IF HasRoom(cs)
  THEN [Insert(cs, k, v) EXCEPT !.num_entries = @ + 1]
  ELSE Insert(Evict(cs), k, v)

DropPos(list, p) ==
  [n \in 1..(Len(list) - 1) |-> IF n < p THEN list[n] ELSE list[n + 1]]

(* Mutant of SetDel: the hash keeps the entry. *)
SetDelKeepsHash(cs, k) ==
  IF k \in cs.hash
  THEN [cs EXCEPT !.list = DropPos(@, Pos(cs, k)), !.num_entries = @ - 1]
  ELSE cs

SetDel(cs, k) ==
  IF k \in cs.hash
  THEN [list |-> DropPos(cs.list, Pos(cs, k)),
        hash |-> cs.hash \ {k},
        num_entries |-> cs.num_entries - 1]
  ELSE cs

(* Unlinks every entry and leaves num_entries as it is. *)
SetClear(cs) == [list |-> <<>>, hash |-> {}, num_entries |-> cs.num_entries]

-----------------------------------------------------------------------------
CacheSet == [list : Seq(Entry), hash : SUBSET Keys, num_entries : Nat]

SetBounded(cs) == Len(cs.list) <= cs.num_entries /\ cs.num_entries <= ElemPerSet

-----------------------------------------------------------------------------
CONSTANTS Sets,        \* the cache sets, 0..num_sets-1
          SetOf,       \* get_cache_set: the set of each key
          Absent       \* "not in the cache"

ASSUME KVCacheAssumption == SetOf \in [Keys -> Sets] /\ Absent \notin Values

VARIABLE sets         \* cache->sets

-----------------------------------------------------------------------------
Init == sets = [s \in Sets |-> EmptySet]

Get(k) == sets' = [sets EXCEPT ![SetOf[k]] = SetGet(@, k)]

Put(k, v) == sets' = [sets EXCEPT ![SetOf[k]] = SetPut(@, k, v)]

Del(k) == sets' = [sets EXCEPT ![SetOf[k]] = SetDel(@, k)]

Clear == sets' = [s \in Sets |-> SetClear(sets[s])]

Next == \/ \E k \in Keys : Get(k) \/ Del(k)
        \/ \E k \in Keys, v \in Values : Put(k, v)
        \/ Clear

Spec == Init /\ [][Next]_sets

-----------------------------------------------------------------------------
(* Every cache set is a list of entries, a set of hashed keys and a count  *)
(* that no operation takes below zero.                                     *)
TypeOK == sets \in [Sets -> CacheSet]

(* The list and the hash table of a set hold the same entries, one per     *)
(* key, and only keys of this set.                                         *)
SetConsistent(cs, s) ==
  /\ \A m, n \in 1..Len(cs.list) : cs.list[m].key = cs.list[n].key => m = n
  /\ cs.hash = {cs.list[n].key : n \in 1..Len(cs.list)}
  /\ \A k \in cs.hash : SetOf[k] = s

(* kvcacheset.c frees an entry only after unlinking it from both of its    *)
(* structures: in every set the list and the hash table agree.             *)
Consistent == \A s \in Sets : SetConsistent(sets[s], s)

(* kvcacheset.h: "A KVCacheSet may not store more than ELEM_PER_SET        *)
(* entries", also after a clear, which leaves num_entries too high, and    *)
(* when the eviction loop finds no victim.                                 *)
Capacity == \A s \in Sets : SetBounded(sets[s])

IInv == TypeOK /\ Consistent /\ Capacity

(* kvcacheset.h on num_entries: "The current number of entries in this     *)
(* set."  kvcacheset_clear does not reset it.                              *)
CountIsSize == \A s \in Sets : sets[s].num_entries = Len(sets[s].list)

(* The cache as the map its users see. *)
Lookup(k) ==
  LET cs == sets[SetOf[k]]
  IN IF k \in cs.hash THEN cs.list[Pos(cs, k)].value ELSE Absent

Lossy == INSTANCE LossyCache WITH map <- [k \in Keys |-> Lookup(k)]

(* kvcache.c with kvcacheset.c implements the lossy map: a put costs at    *)
(* most one entry of the same set, a get none, and no value is ever        *)
(* returned but the last one put.                                          *)
ImplementsLossyCache == Lossy!Spec

-----------------------------------------------------------------------------
(***************************************************************************)
(* The eviction loop of kvcacheset_put at the level of its pointers: a     *)
(* doubly-linked list (utlist.h) whose elements are unlinked and appended  *)
(* again while DL_FOREACH_SAFE walks it.                                   *)
(*                                                                         *)
(* A node is named by its key.  In a utlist list the prev of the head is   *)
(* the tail and the next of the tail is NULL.                              *)
(***************************************************************************)
CONSTANT NULL

ASSUME NULLAssumption == NULL \notin Keys

DL_DELETE(l, d) ==
  IF l.prev[d] = d THEN [l EXCEPT !.head = NULL]
  ELSE IF d = l.head
  THEN [l EXCEPT !.prev[l.next[d]] = l.prev[d], !.head = l.next[d]]
  ELSE IF l.next[d] # NULL
  THEN [l EXCEPT !.next[l.prev[d]] = l.next[d], !.prev[l.next[d]] = l.prev[d]]
  ELSE [l EXCEPT !.next[l.prev[d]] = NULL, !.prev[l.head] = l.prev[d]]

DL_APPEND(l, a) ==
  IF l.head = NULL
  THEN [l EXCEPT !.head = a, !.prev[a] = a, !.next[a] = NULL]
  ELSE [l EXCEPT !.prev[a] = l.prev[l.head], !.next[l.prev[l.head]] = a,
                 !.prev[l.head] = a, !.next[a] = NULL]

(* The list as DL_APPEND builds it from its entries. *)
Linked(list) ==
  LET built[n \in 0..Len(list)] ==
        IF n = 0 THEN [head |-> NULL, prev |-> [k \in Keys |-> NULL],
                       next |-> [k \in Keys |-> NULL]]
        ELSE DL_APPEND(built[n - 1], list[n].key)
  IN built[Len(list)]

(* The nodes met on the way from the head. *)
Walk(l) ==
  LET nth[n \in 1..Cardinality(Keys)] ==
        IF n = 1 THEN l.head ELSE IF nth[n - 1] = NULL THEN NULL ELSE l.next[nth[n - 1]]
  IN SelectSeq([n \in 1..Cardinality(Keys) |-> nth[n]], LAMBDA k : k # NULL)

(* Mutant of Iteration: the next element is read after the move. *)
IterationUnsafe(st) ==
  IF st.elt = NULL THEN st
  ELSE IF ~st.refbit[st.elt]
  THEN [st EXCEPT !.dl = DL_DELETE(st.dl, st.elt), !.freed = st.elt, !.elt = NULL]
  ELSE LET moved == DL_APPEND(DL_DELETE(st.dl, st.elt), st.elt)
       IN [st EXCEPT !.refbit[st.elt] = FALSE, !.dl = moved, !.elt = moved.next[st.elt]]

(* One iteration: an element without a reference bit is freed, and the     *)
(* loop left; one with a bit loses it and moves to the back.  The next     *)
(* element was read before.                                                *)
Iteration(st) ==
  IF st.elt = NULL THEN st
  ELSE IF ~st.refbit[st.elt]
  THEN [st EXCEPT !.dl = DL_DELETE(st.dl, st.elt), !.freed = st.elt, !.elt = NULL]
  ELSE [st EXCEPT !.refbit[st.elt] = FALSE,
                  !.dl = DL_APPEND(DL_DELETE(st.dl, st.elt), st.elt),
                  !.elt = st.dl.next[st.elt]]

(* The state after n iterations over a list. *)
After(list, n) ==
  LET dl == Linked(list)
      bits == [k \in Keys |-> \E m \in 1..Len(list) : list[m].key = k /\ list[m].refbit]
      st[m \in 0..n] == IF m = 0 THEN [dl |-> dl, refbit |-> bits, elt |-> dl.head,
                                       freed |-> NULL]
                        ELSE Iteration(st[m - 1])
  IN st[n]

-----------------------------------------------------------------------------
(* The pointers are those of a utlist list: prev mirrors next and the      *)
(* head's prev is the tail.                                                *)
WellLinked(l) ==
  LET w == Walk(l)
  IN /\ w # <<>> => l.prev[l.head] = w[Len(w)] /\ l.next[w[Len(w)]] = NULL
     /\ \A i \in 2..Len(w) : l.prev[w[i]] = w[i - 1]

(* The loop ends, within as many steps again as the list is long, leaves a *)
(* well-linked list, and has computed Evict.                               *)
LoopComputesEvict(cs) ==
  LET end == After(cs.list, 2 * Len(cs.list))
      out == Evict(cs)
      w == Walk(end.dl)
  IN /\ end.elt = NULL
     /\ WellLinked(end.dl)
     /\ w = [n \in 1..Len(out.list) |-> out.list[n].key]
     /\ \A n \in 1..Len(w) : end.refbit[w[n]] = out.list[n].refbit
     /\ {end.freed} \ {NULL} = cs.hash \ out.hash

(* The eviction loop of kvcacheset_put, which reorders the list that it is *)
(* walking over, ends on every list the cache can build, leaves it well    *)
(* linked and frees the entry that the second-chance policy of kvcache.h   *)
(* names.                                                                  *)
EvictionLoopCorrect == \A s \in Sets : LoopComputesEvict(sets[s])

(* Value for model checking: one key has a set to itself. *)
OneApart == LET apart == CHOOSE k \in Keys : TRUE
            IN [k \in Keys |-> IF k = apart THEN 1 ELSE 0]
=============================================================================

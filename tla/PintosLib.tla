------------------------------- MODULE PintosLib -------------------------------
(* The data structures of the Pintos kernel: doubly linked lists with their   *)
(* natural merge sort (lib/kernel/list.c), hash tables that resize            *)
(* (lib/kernel/hash.c) and bitmaps in words (lib/kernel/bitmap.c); and its    *)
(* pure algorithms: heap sort and binary search (lib/stdlib.c), the division  *)
(* of long numbers by a divider for short ones (lib/arithmetic.c) and the     *)
(* strings of lib/string.c that write memory.                                 *)
(*                                                                            *)
(* Lists are modelled pointer by pointer: next and prev of every element, of  *)
(* the heads and of the tails.  Each structure is used together with what it  *)
(* is meant to hold (ideal): sequences, a set of elements, a set of bits.     *)
EXTENDS Integers, Sequences, FiniteSets, SequencesExt

CONSTANTS Elems,                          \* list elements that a caller owns: numbers
          Keys,                           \* Keys[e]: what LESS compares
          HashElems, HashFuns,            \* elements of the table <<key, id>>, hash functions
          MIN_BUCKETS,                    \* 4
          BEST_ELEMS_PER_BUCKET,          \* 2
          BitCnt, ElemBits,               \* bits of the bitmap and of a word
          ArrayVals, ArrayCnt,            \* elements of an array to sort, its largest size
          LogBits,                        \* a word of a long number has 2^LogBits bits (5: 32)
          MemCnt,                         \* bytes of memory with strings
          Works,                          \* which structure is used, and the bound on calls
          None

VARIABLES h,                              \* next and prev of every list node
          table, hashfn,                  \* struct hash, its hash function
          words,                          \* struct bitmap
          ideal, work

libVars == <<h, table, hashfn, words, ideal, work>>
Calls(kind) == work.kind = kind /\ work.calls > 0 /\ work' = [work EXCEPT !.calls = @ - 1]

-----------------------------------------------------------------------------
(* list.c: lists 1 and 2 *)

Lists == {1, 2}
list_head(l) == <<"head", l>>
list_tail(l) == <<"tail", l>>
Node(e) == <<"elem", e>>
Nodes == {list_head(l) : l \in Lists} \cup {list_tail(l) : l \in Lists} \cup {Node(e) : e \in Elems}

less(a, b) == Keys[a[2]] < Keys[b[2]]

list_init == [next |-> [n \in Nodes |-> IF n[1] = "head" THEN list_tail(n[2]) ELSE None],
              prev |-> [n \in Nodes |-> IF n[1] = "tail" THEN list_head(n[2]) ELSE None]]
list_begin(x, l) == x.next[list_head(l)]
list_empty(x, l) == list_begin(x, l) = list_tail(l)

list_insert(x, before, e) ==
    [next |-> [x.next EXCEPT ![e] = before, ![x.prev[before]] = e],
     prev |-> [x.prev EXCEPT ![e] = x.prev[before], ![before] = e]]

list_remove(x, e) == [next |-> [x.next EXCEPT ![x.prev[e]] = x.next[e]],
                      prev |-> [x.prev EXCEPT ![x.next[e]] = x.prev[e]]]

\* Four pointers are written one after the other: the order counts if FIRST
\* follows BEFORE's neighbour.
list_splice(x, before, first, end) ==
    IF first = end THEN x
    ELSE LET last == x.prev[end]
             n1 == [x.next EXCEPT ![x.prev[first]] = x.next[last]]
             p1 == [x.prev EXCEPT ![x.next[last]] = x.prev[first]]
             p2 == [p1 EXCEPT ![first] = p1[before]]
             n2 == [n1 EXCEPT ![last] = before]
         IN [next |-> [n2 EXCEPT ![p2[before]] = first], prev |-> [p2 EXCEPT ![before] = last]]

\* The loop of list_reverse swaps the pointers of each element and goes on
\* through prev, which was next; then those of the head and the tail.
list_reverse(x, l) ==
    LET hd == list_head(l)
        tl == list_tail(l)
        RECURSIVE Swap(_, _)
        Swap(y, e) == IF e = tl THEN y
                      ELSE LET z == [next |-> [y.next EXCEPT ![e] = y.prev[e]],
                                     prev |-> [y.prev EXCEPT ![e] = y.next[e]]]
                           IN Swap(z, z.prev[e])
        y == Swap(x, list_begin(x, l))
        z == [next |-> [y.next EXCEPT ![hd] = y.prev[tl]], prev |-> [y.prev EXCEPT ![tl] = y.next[hd]]]
        first == z.next[hd]
        last == z.prev[tl]
    IN IF list_empty(x, l) THEN x
       ELSE [next |-> [z.next EXCEPT ![last] = z.prev[first]],
             prev |-> [z.prev EXCEPT ![first] = z.next[last]]]

RECURSIVE find_end_of_run(_, _, _)
find_end_of_run(x, a, b) ==
    LET n == x.next[a] IN IF n # b /\ ~less(n, x.prev[n]) THEN find_end_of_run(x, n, b) ELSE n

\* Mutant of inplace_merge: elements that compare equal change their order.
RECURSIVE UnstableMerge(_, _, _, _)
UnstableMerge(x, a0, a1b0, b1) ==
    IF a0 = a1b0 \/ a1b0 = b1 THEN x
    ELSE IF less(a0, a1b0) THEN UnstableMerge(x, x.next[a0], a1b0, b1)
    ELSE UnstableMerge(list_splice(x, a0, a1b0, x.next[a1b0]), a0, x.next[a1b0], b1)

inplace_merge(x, a0, a1b0, b1) ==
    LET RECURSIVE Merge(_, _, _)
        Merge(y, a, m) ==
            IF a = m \/ m = b1 THEN y
            ELSE IF ~less(m, a) THEN Merge(y, y.next[a], m)
            ELSE Merge(list_splice(y, a, m, y.next[m]), a, y.next[m])
    IN Merge(x, a0, a1b0)

\* Passes that merge adjacent runs until one pass makes a single run.
list_sort(x, l) ==
    LET tl == list_tail(l)
        RECURSIVE Pass(_, _, _)
        Pass(y, a0, runs) ==
            IF a0 = tl THEN [heap |-> y, runs |-> runs]
            ELSE LET a1b0 == find_end_of_run(y, a0, tl)
                     b1 == find_end_of_run(y, a1b0, tl)
                 IN IF a1b0 = tl THEN [heap |-> y, runs |-> runs + 1]
                    ELSE Pass(inplace_merge(y, a0, a1b0, b1), b1, runs + 1)
        RECURSIVE Passes(_)
        Passes(y) == LET r == Pass(y, list_begin(y, l), 0)
                     IN IF r.runs > 1 THEN Passes(r.heap) ELSE r.heap
    IN Passes(x)

list_insert_ordered(x, l, e) ==
    LET RECURSIVE Place(_)
        Place(n) == IF n # list_tail(l) /\ ~less(e, n) THEN Place(x.next[n]) ELSE n
    IN list_insert(x, Place(list_begin(x, l)), e)

\* All but the first of adjacent equal elements go to the other list.
list_unique(x, l, duplicates) ==
    LET RECURSIVE Walk(_, _)
        Walk(y, e) ==
            LET n == y.next[e]
            IN IF n = list_tail(l) THEN y
               ELSE IF ~less(e, n) /\ ~less(n, e)
               THEN Walk(list_insert(list_remove(y, n), list_tail(duplicates), n), e)
               ELSE Walk(y, n)
    IN IF list_empty(x, l) THEN x ELSE Walk(x, list_begin(x, l))

\* list_max: the earlier of several maxima.
list_max(x, l) ==
    LET RECURSIVE Best(_, _)
        Best(m, e) == IF e = list_tail(l) THEN m ELSE Best(IF less(m, e) THEN e ELSE m, x.next[e])
        first == list_begin(x, l)
    IN IF list_empty(x, l) THEN first ELSE Best(first, x.next[first])

-----------------------------------------------------------------------------
(* hash.c *)

find_bucket(t, e) == hashfn[e[1]] % t.bucket_cnt
find_elem(t, e) == LET found == {i \in DOMAIN t.buckets[find_bucket(t, e)] :
                                   t.buckets[find_bucket(t, e)][i][1] = e[1]}
                   IN IF found = {} THEN None ELSE t.buckets[find_bucket(t, e)][Min(found)]
insert_elem(t, e) == [t EXCEPT !.elem_cnt = @ + 1, !.buckets[find_bucket(t, e)] = <<e>> \o @]
remove_elem(t, e) == [t EXCEPT !.elem_cnt = @ - 1,
                               !.buckets[find_bucket(t, e)] = SelectSeq(@, LAMBDA x : x # e)]

EmptyTable(n) == [elem_cnt |-> 0, bucket_cnt |-> n, buckets |-> [i \in 0 .. n - 1 |-> <<>>]]

\* Bits are turned off, lowest first, until a power of two is left.
is_power_of_2(n) == \E k \in 0 .. n : 2 ^ k = n
NewBucketCnt(elem_cnt) ==
    LET want == elem_cnt \div BEST_ELEMS_PER_BUCKET
    IN IF want < MIN_BUCKETS THEN MIN_BUCKETS
       ELSE CHOOSE n \in 1 .. want : is_power_of_2(n) /\ 2 * n > want

\* Every element moves to the front of its new bucket; malloc may fail.
rehash(t, memory) ==
    LET n == NewBucketCnt(t.elem_cnt)
        all == FlattenSeq([i \in 1 .. t.bucket_cnt |-> t.buckets[i - 1]])
        moved == FoldLeft(LAMBDA y, e : insert_elem(y, e), EmptyTable(n), all)
    IN IF n = t.bucket_cnt \/ ~memory THEN t ELSE moved

hash_insert(t, e, memory) == rehash(IF find_elem(t, e) = None THEN insert_elem(t, e) ELSE t, memory)
hash_replace(t, e, memory) ==
    LET old == find_elem(t, e)
    IN rehash(insert_elem(IF old # None THEN remove_elem(t, old) ELSE t, e), memory)
hash_delete(t, e, memory) ==
    LET old == find_elem(t, e) IN IF old = None THEN t ELSE rehash(remove_elem(t, old), memory)

\* hash_first, then hash_next to the end: bucket after bucket.
Iterated(t) == FlattenSeq([i \in 1 .. t.bucket_cnt |-> t.buckets[i - 1]])

-----------------------------------------------------------------------------
(* bitmap.c: a sequence of words, each a set of bit positions *)

elem_idx(i) == i \div ElemBits
bit_mask(i) == i % ElemBits
ElemCnt == (BitCnt + ElemBits - 1) \div ElemBits
last_mask == LET last == BitCnt % ElemBits IN IF last = 0 THEN 0 .. ElemBits - 1 ELSE 0 .. last - 1

bitmap_test(b, i) == bit_mask(i) \in b[elem_idx(i)]
bitmap_set(b, i, value) == [b EXCEPT ![elem_idx(i)] = IF value THEN @ \cup {bit_mask(i)} ELSE @ \ {bit_mask(i)}]
bitmap_set_multiple(b, start, cnt, value) ==
    FoldLeft(LAMBDA y, i : bitmap_set(y, start + i - 1, value), b, [i \in 1 .. cnt |-> i])
bitmap_contains(b, start, cnt, value) == \E i \in 0 .. cnt - 1 : bitmap_test(b, start + i) = value
bitmap_count(b, start, cnt, value) == Cardinality({i \in 0 .. cnt - 1 : bitmap_test(b, start + i) = value})
bitmap_scan(b, start, cnt, value) ==
    LET fit == {i \in start .. BitCnt - cnt : ~bitmap_contains(b, i, cnt, ~value)}
    IN IF cnt > BitCnt \/ fit = {} THEN None ELSE Min(fit)

\* bitmap_read: what a file holds, with the bits after the last cut off.
bitmap_read(file) == [file EXCEPT ![ElemCnt - 1] = @ \cap last_mask]

-----------------------------------------------------------------------------
(* stdlib.c: an array is indexed from 1, as heapify does *)

do_swap(a, i, j) == [a EXCEPT ![i] = a[j], ![j] = a[i]]

RECURSIVE heapify(_, _, _)
heapify(a, i, cnt) ==
    LET left == 2 * i
        right == 2 * i + 1
        m == IF left <= cnt /\ a[left] > a[i] THEN left ELSE i
        max == IF right <= cnt /\ a[right] > a[m] THEN right ELSE m
    IN IF max = i THEN a ELSE heapify(do_swap(a, i, max), max, cnt)

sort(a) ==
    LET cnt == Len(a)
        Down(n) == [i \in 1 .. n |-> n + 1 - i]
        heap == FoldLeft(LAMBDA y, i : heapify(y, i, cnt), a, Down(cnt \div 2))
    IN FoldLeft(LAMBDA y, i : heapify(do_swap(y, 1, i), 1, i - 1), heap,
                SelectSeq(Down(cnt), LAMBDA i : i > 1))

\* The index of a match among those from first up to last, last excluded.
binary_search(key, a) ==
    LET RECURSIVE Search(_, _)
        Search(first, last) ==
            LET middle == first + (last - first) \div 2
            IN IF first >= last THEN None
               ELSE IF key < a[middle] THEN Search(first, middle)
               ELSE IF key > a[middle] THEN Search(middle + 1, last) ELSE middle
    IN Search(1, Len(a) + 1)

-----------------------------------------------------------------------------
(* arithmetic.c: long numbers have two words *)

WordBits == 2 ^ LogBits
Word == 2 ^ WordBits
Long == Word * Word

\* Shifts by half of the word, by a quarter and so on down to one bit.
nlz(x) == FoldLeft(LAMBDA a, k : IF a.x < 2 ^ (WordBits - k)
                                 THEN [n |-> a.n + k, x |-> (a.x * 2 ^ k) % Word] ELSE a,
                   [n |-> 0, x |-> x], [i \in 1 .. LogBits |-> 2 ^ (LogBits - i)]).n

\* What udiv64 divides with the divl instruction, which traps when the
\* quotient does not fit in a word.
DivlOperands(n, d) ==
    IF d < Word THEN <<Word * ((n \div Word) % d) + (n % Word), d>>
    ELSE <<n \div 2, ((d * 2 ^ nlz(d \div Word)) % Long) \div Word>>
divl(operands) == operands[1] \div operands[2]

udiv64(n, d) ==
    IF d < Word THEN (divl(DivlOperands(n, d)) + Word * ((n \div Word) \div d)) % Long
    ELSE IF n < d THEN 0
    ELSE LET q == divl(DivlOperands(n, d)) \div 2 ^ (WordBits - 1 - nlz(d \div Word))
         IN IF (n - (q - 1) * d) % Long < d THEN q - 1 ELSE q

\* The remainder is returned in one word.
umod64(n, d) == (n - d * udiv64(n, d)) % Word

Abs(n) == IF n >= 0 THEN n ELSE -n
Signed(n, size) == IF n % size < size \div 2 THEN n % size ELSE (n % size) - size
sdiv64(n, d) == LET q == Signed(udiv64(Abs(n), Abs(d)), Long)
                IN IF (n < 0) = (d < 0) THEN q ELSE Signed(-q, Long)
smod64(n, d) == Signed(n - d * sdiv64(n, d), Word)

-----------------------------------------------------------------------------
(* string.c: memory m is indexed from 0; Nul ends a string *)

Nul == 0
strchr(set, c) == c = Nul \/ c \in set               \* it finds the end, too
strlen(m, s) == Min({i \in 0 .. MemCnt - 1 : s + i < MemCnt /\ m[s + i] = Nul})

CopyBytes(m, dst, src, order) == FoldLeft(LAMBDA y, i : [y EXCEPT ![dst + i] = y[src + i]], m, order)
memcpy(m, dst, src, size) == CopyBytes(m, dst, src, [i \in 1 .. size |-> i - 1])
memmove(m, dst, src, size) ==
    IF dst < src THEN memcpy(m, dst, src, size) ELSE CopyBytes(m, dst, src, [i \in 1 .. size |-> size - i])

\* The token, NULL at the end of the string; and what the call leaves behind.
strtok_r(m, delimiters, save_ptr) ==
    LET RECURSIVE Skip(_, _)
        Skip(s, in) == IF m[s] # Nul /\ strchr(delimiters, m[s]) = in THEN Skip(s + 1, in) ELSE s
        token == Skip(save_ptr, TRUE)
        s == Skip(token, FALSE)
    IN IF m[token] = Nul THEN [m |-> m, save |-> token, token |-> None]
       ELSE IF m[s] # Nul THEN [m |-> [m EXCEPT ![s] = Nul], save |-> s + 1, token |-> token]
       ELSE [m |-> m, save |-> s, token |-> token]

strlcpy(m, dst, src, size) ==
    LET dst_len == Min({size - 1, strlen(m, src)})
    IN IF size = 0 THEN m ELSE [memcpy(m, dst, src, dst_len) EXCEPT ![dst + dst_len] = Nul]

strlcat(m, dst, src, size) ==
    LET dst_len == strlen(m, dst)
        copy_cnt == Min({size - dst_len - 1, strlen(m, src)})
    IN IF dst_len >= size THEN m
       ELSE [memcpy(m, dst + dst_len, src, copy_cnt) EXCEPT ![dst + dst_len + copy_cnt] = Nul]

-----------------------------------------------------------------------------
(* Callers, and what the structures are meant to hold *)

Out(e) == \A l \in Lists : e \notin ToSet(ideal.lists[l])
Seqs(l, s) == ideal' = [ideal EXCEPT !.lists[l] = s]
Both(s, t) == ideal' = [ideal EXCEPT !.lists = <<s, t>>]
Rest == UNCHANGED <<table, hashfn, words>>

Push(e) == /\ Calls("list") /\ Out(e) /\ Rest
           /\ \E l \in Lists :
                \/ h' = list_insert(h, list_begin(h, l), Node(e)) /\ Seqs(l, <<e>> \o ideal.lists[l])
                \/ h' = list_insert(h, list_tail(l), Node(e)) /\ Seqs(l, Append(ideal.lists[l], e))

Sorted(s) == \A i \in 1 .. Len(s) - 1 : Keys[s[i]] <= Keys[s[i + 1]]

InsertOrdered(e) ==
    /\ Calls("list") /\ Out(e) /\ Rest
    /\ \E l \in Lists :
         /\ Sorted(ideal.lists[l])
         /\ h' = list_insert_ordered(h, l, Node(e))
         /\ LET s == ideal.lists[l]
            IN Seqs(l, SelectSeq(s, LAMBDA x : Keys[x] <= Keys[e]) \o <<e>> \o
                       SelectSeq(s, LAMBDA x : Keys[x] > Keys[e]))

Pop == /\ Calls("list") /\ Rest
       /\ \E l \in Lists :
            /\ ideal.lists[l] # <<>>
            /\ \/ h' = list_remove(h, list_begin(h, l)) /\ Seqs(l, Tail(ideal.lists[l]))
               \/ h' = list_remove(h, h.prev[list_tail(l)]) /\ Seqs(l, Front(ideal.lists[l]))

\* A range of list 1 goes to some place of list 2.
Splice ==
    /\ Calls("list") /\ Rest
    /\ LET s == ideal.lists[1]
           t == ideal.lists[2]
       IN \E i \in 1 .. Len(s) : \E j \in i .. Len(s) : \E k \in 0 .. Len(t) :
            /\ h' = list_splice(h, IF k = Len(t) THEN list_tail(2) ELSE Node(t[k + 1]),
                                Node(s[i]), h.next[Node(s[j])])
            /\ Both(SubSeq(s, 1, i - 1) \o SubSeq(s, j + 1, Len(s)),
                    SubSeq(t, 1, k) \o SubSeq(s, i, j) \o SubSeq(t, k + 1, Len(t)))

Stable(s) == FoldLeft(LAMBDA sorted, e : SelectSeq(sorted, LAMBDA x : Keys[x] <= Keys[e]) \o <<e>> \o
                                         SelectSeq(sorted, LAMBDA x : Keys[x] > Keys[e]), <<>>, s)

Rearrange(l) == /\ Calls("list") /\ Rest
                /\ \/ h' = list_sort(h, l) /\ Seqs(l, Stable(ideal.lists[l]))
                   \/ h' = list_reverse(h, l) /\ Seqs(l, Reverse(ideal.lists[l]))

Unique ==
    /\ Calls("list") /\ Rest /\ h' = list_unique(h, 1, 2)
    /\ LET s == ideal.lists[1]
           again(i) == i > 1 /\ Keys[s[i]] = Keys[s[i - 1]]
           Kept == SelectSeq([i \in DOMAIN s |-> i], LAMBDA i : ~again(i))
           Gone == SelectSeq([i \in DOMAIN s |-> i], again)
       IN Both([n \in DOMAIN Kept |-> s[Kept[n]]], ideal.lists[2] \o [n \in DOMAIN Gone |-> s[Gone[n]]])

UseTable ==
    /\ Calls("hash") /\ UNCHANGED <<h, hashfn, words>>
    /\ LET same(e) == {x \in ideal.set : x[1] = e[1]}
       IN \E e \in HashElems, memory \in BOOLEAN :
            \/ /\ table' = hash_insert(table, e, memory)
               /\ ideal' = [ideal EXCEPT !.set = IF same(e) = {} THEN @ \cup {e} ELSE @]
            \/ /\ table' = hash_replace(table, e, memory)
               /\ ideal' = [ideal EXCEPT !.set = (@ \ same(e)) \cup {e}]
            \/ /\ table' = hash_delete(table, e, memory)
               /\ ideal' = [ideal EXCEPT !.set = @ \ same(e)]
            \/ /\ table' = EmptyTable(table.bucket_cnt)       \* hash_clear
               /\ ideal' = [ideal EXCEPT !.set = {}]

UseBitmap ==
    /\ Calls("bits") /\ UNCHANGED <<h, table, hashfn>>
    /\ \/ \E start \in 0 .. BitCnt : \E cnt \in 0 .. BitCnt - start, value \in BOOLEAN :
            LET idx == bitmap_scan(words, start, cnt, value)      \* bitmap_scan_and_flip
            IN /\ idx # None
               /\ words' = bitmap_set_multiple(words, idx, cnt, ~value)
               /\ ideal' = [ideal EXCEPT !.bits = IF value THEN @ \ (idx .. idx + cnt - 1)
                                                  ELSE @ \cup (idx .. idx + cnt - 1)]
       \/ \E junk \in SUBSET (0 .. ElemBits - 1) :               \* written, and read back
            /\ words' = bitmap_read([words EXCEPT ![ElemCnt - 1] = @ \cup (junk \ last_mask)])
            /\ UNCHANGED ideal

Init ==
    /\ h = list_init /\ table = EmptyTable(MIN_BUCKETS) /\ hashfn \in HashFuns
    /\ words = [i \in 0 .. ElemCnt - 1 |-> {}]
    /\ ideal = [lists |-> <<<<>>, <<>>>>, set |-> {}, bits |-> {}]
    /\ work \in Works

Next == \/ \E e \in Elems : Push(e) \/ InsertOrdered(e)
        \/ Pop \/ Splice \/ (\E l \in Lists : Rearrange(l)) \/ Unique \/ UseTable \/ UseBitmap

Spec == Init /\ [][Next]_libVars

-----------------------------------------------------------------------------
(* Properties *)

\* Following next from the head and prev from the tail, at most all elements.
RECURSIVE Forward(_, _)
Forward(n, k) == IF n[1] = "tail" \/ k = 0 THEN <<>> ELSE <<n[2]>> \o Forward(h.next[n], k - 1)
RECURSIVE Backward(_, _)
Backward(n, k) == IF n[1] = "head" \/ k = 0 THEN <<>> ELSE Append(Backward(h.prev[n], k - 1), n[2])

\* In both directions the pointers of a list spell the sequence its callers
\* have built, after any insertions, removals, splices, reversals, stable
\* sorts and list_unique; list_max finds the first of the largest.
ListsExact ==
    \A l \in Lists :
      LET s == ideal.lists[l]
      IN /\ Forward(list_begin(h, l), Cardinality(Elems) + 1) = s
         /\ Backward(h.prev[list_tail(l)], Cardinality(Elems) + 1) = s
         /\ s # <<>> => LET m == list_max(h, l)[2]
                            i == CHOOSE j \in DOMAIN s : s[j] = m
                        IN \A j \in DOMAIN s : /\ Keys[s[j]] <= Keys[m]
                                               /\ j < i => Keys[s[j]] < Keys[m]

\* The table holds exactly the elements inserted and not removed, one per
\* key, each where a search looks for it, whatever the hash function, the
\* history of resizing and the resizings that failed for want of memory; an
\* iteration meets each once.
TableExact ==
    /\ ToSet(Iterated(table)) = ideal.set /\ IsInjective(Iterated(table))
    /\ table.elem_cnt = Cardinality(ideal.set)
    /\ is_power_of_2(table.bucket_cnt) /\ table.bucket_cnt >= MIN_BUCKETS
    /\ \A e \in HashElems : find_elem(table, e) =
         IF \E x \in ideal.set : x[1] = e[1] THEN CHOOSE x \in ideal.set : x[1] = e[1] ELSE None

\* The words hold exactly the bits set, and none after the last, also after
\* the bitmap has been read from a file; and the scans agree with them.
BitmapHolds ==
    /\ {i \in 0 .. BitCnt - 1 : bitmap_test(words, i)} = ideal.bits
    /\ words[ElemCnt - 1] \subseteq last_mask
    /\ bitmap_count(words, 0, BitCnt, TRUE) = Cardinality(ideal.bits)

\* An array of any elements is sorted, keeping them all; then a search finds
\* an element equal to its key if there is one, and nothing otherwise.
SortExact ==
    \A cnt \in 0 .. ArrayCnt : \A a \in [1 .. cnt -> ArrayVals] :
      LET b == sort(a)
          Count(c, v) == Cardinality({i \in DOMAIN c : c[i] = v})
      IN /\ \A i \in 1 .. cnt - 1 : b[i] <= b[i + 1]
         /\ \A v \in ArrayVals : /\ Count(a, v) = Count(b, v)
                                 /\ LET i == binary_search(v, b)
                                    IN IF Count(a, v) = 0 THEN i = None ELSE i \in DOMAIN b /\ b[i] = v

\* The divider never traps; the quotient of any long numbers is exact, also
\* that of numbers with a sign, which is rounded to zero, and remainders are
\* right in the one word they are returned in.
DivisionExact ==
    /\ \A n \in 0 .. Long - 1, d \in 1 .. Long - 1 :
         /\ (d < Word \/ n >= d) => divl(DivlOperands(n, d)) < Word
         /\ udiv64(n, d) = n \div d
         /\ umod64(n, d) = (n % d) % Word
    /\ \A n, d \in {i \in -(Long \div 2) .. Long \div 2 - 1 : i % Word \in {0, 1, Word - 1}} :
         LET q == IF (n < 0) = (d < 0) THEN Abs(n) \div Abs(d) ELSE -(Abs(n) \div Abs(d))
         IN d # 0 => /\ sdiv64(n, d) = Signed(q, Long)
                     /\ smod64(n, d) = Signed(n - q * d, Word)

\* Bytes are moved as if all were read before any is written, wherever the
\* blocks overlap; the calls of strtok_r for one string yield its longest runs
\* without delimiters, in order, each ended by a null byte; and what is copied
\* or appended under a size is the longest prefix that fits, in those bytes.
StringsExact ==
    LET Bytes == 0 .. MemCnt - 1
        RECURSIVE Tokens(_, _)
        Tokens(m, s) == LET r == strtok_r(m, {1}, s)
                        IN IF r.token = None THEN <<>>
                           ELSE <<<<r.token, strlen(r.m, r.token)>>>> \o Tokens(r.m, r.save)
        Held(m, s) == [i \in 1 .. strlen(m, s) |-> m[s + i - 1]]
        Cut(str, n) == SubSeq(str, 1, Min({n, Len(str)}))
        Half == MemCnt \div 2
    IN /\ \A dst, src \in Bytes : \A size \in 0 .. MemCnt - Max({dst, src}) :
            memmove([i \in Bytes |-> i], dst, src, size) =
              [i \in Bytes |-> IF i \in dst .. dst + size - 1 THEN i - dst + src ELSE i]
       /\ \A m \in {f \in [Bytes -> 0 .. 2] : f[MemCnt - 1] = Nul} :
            LET run(i, n) == /\ n > 0 /\ i + n <= strlen(m, 0) /\ \A j \in i .. i + n - 1 : m[j] = 2
                             /\ m[i + n] # 2 /\ (i = 0 \/ m[i - 1] # 2)
                got == Tokens(m, 0)
            IN /\ ToSet(got) = {x \in Bytes \X Bytes : run(x[1], x[2])}
               /\ \A k \in 1 .. Len(got) - 1 : got[k][1] < got[k + 1][1]
               /\ \A size \in 0 .. Half :
                    m[Half - 1] = Nul =>
                      LET copied == strlcpy(m, 0, Half, size)
                          joined == strlcat(m, 0, Half, size)
                      IN /\ size > 0 => Held(copied, 0) = Cut(Held(m, Half), size - 1)
                         /\ strlen(m, 0) < size =>
                              Held(joined, 0) = Cut(Held(m, 0) \o Held(m, Half), size - 1)
                         /\ \A i \in size .. MemCnt - 1 : copied[i] = m[i] /\ joined[i] = m[i]

=============================================================================

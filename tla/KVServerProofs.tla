--------------------------- MODULE KVServerProofs ----------------------------
(***************************************************************************)
(* Proofs, for any keys, values, hash function, cache sets and number of   *)
(* handler threads, of what KVServer promises, whatever PUTs, DELs and     *)
(* GETs are handled at the same time and whenever the process stops.       *)
(***************************************************************************)
EXTENDS KVServer, WellFoundedInduction, TLAPS

-----------------------------------------------------------------------------
(* The inductive invariant.  Its parts speak of a state through their      *)
(* parameters: files f, damaged chains D, cache ca, doubtful keys R,       *)
(* thread th, handler hd.                                                  *)

(* What the files f hold for k. *)
ValueAt(c, k) == IF FindEntry(c, k) = ERRNOKEY THEN Absent ELSE c[FindEntry(c, k)].value
LookIn(f, k) == ValueAt(f[HashOf[k]], k)

(* What any chain is, damaged or not. *)
RawChain(c) == /\ c = [n \in DOMAIN c |-> c[n]]
               /\ DOMAIN c \subseteq Positions
               /\ \A n \in DOMAIN c : c[n] \in FileEntry \cup {Torn}

FilesOK(f) == f = [h \in Hashes |-> f[h]] /\ \A h \in Hashes : RawChain(f[h])

(* A sound chain is its first files, with an entry each, and one entry per *)
(* key.                                                                    *)
ChainOK(h, c) ==
  /\ c = [n \in DOMAIN c |-> c[n]]
  /\ \E len \in 0..(MaxChain + 1) : DOMAIN c = 0..(len - 1)
  /\ \A n \in DOMAIN c : c[n] \in FileEntry /\ HashOf[c[n].key] = h
  /\ \A m, n \in DOMAIN c : c[m].key = c[n].key => m = n

ChainsOK(f, D) == \A h \in Hashes \ D : ChainOK(h, f[h])

(* The keys of which nothing is known. *)
Doubt == raced \cup {k \in Keys : HashOf[k] \in damaged}

(* A call of the store is the one of its handler, and what it returns is   *)
(* so.                                                                     *)
ThreadOK(th, hd, f, R) ==
  th # IdleThread =>
    /\ th.req = hd.req
    /\ th.req.type = "PUTREQ" => th.req.value \notin TooLong
    /\ th.pc \in {"called", "found"} => th.ret = NoCall
    /\ th.pc = "found" => /\ th.req \in Request
                          /\ th.req.type = "DELREQ" => th.pos # ERRNOKEY
    /\ th.pc = "opened" => th.req.type = "PUTREQ"
    /\ th.pc \in {"opened", "done"} /\ th.req.type = "PUTREQ" =>
         /\ th.ret = "ok"
         /\ th.req.key \notin R => LookIn(f, th.req.key) = th.req.value
    /\ th.pc = "done" /\ th.req.type = "DELREQ" =>
         /\ th.ret \in {"ok", "error"}
         /\ th.req.key \notin R => LookIn(f, th.req.key) = Absent
    /\ th.pc = "done" /\ th.req.type = "GETREQ" =>
         /\ th.ret \in Values \cup {Absent}
         /\ th.req.key \notin R => th.ret = LookIn(f, th.req.key)

(* A position that was found by a call which is alone is still its key's. *)
Placed(th, f, D) ==
  th.pc = "found" /\ th.alone /\ HashOf[th.req.key] \notin D =>
    th.pos = FindEntry(f[HashOf[th.req.key]], th.req.key)

(* A call that is about to change the chain h; of two neither is alone. *)
Changing(th, h) ==
  th.pc \in {"called", "found"} /\ th.req \in Request /\ HashOf[th.req.key] = h
Apart(thr) ==
  \A t, u \in Threads : \A h \in Hashes :
    t # u /\ Changing(thr[t], h) /\ Changing(thr[u], h) => ~thr[t].alone

(* What a handler answers is so, and a DEL keeps its key out of the cache  *)
(* once it has deleted it there.                                           *)
HandlerOK(hd, f, ca, R) ==
  hd # IdleThread =>
    /\ hd.pc \in {"deleted", "missed"} => hd.req.type = "DELREQ"
    /\ hd.req.key \notin R =>
         /\ hd.pc = "done" /\ hd.req.type = "PUTREQ" =>
              (hd.ret = "ok" <=> /\ hd.req.value \notin TooLong
                                 /\ LookIn(f, hd.req.key) = hd.req.value)
         /\ hd.pc = "done" /\ hd.req.type = "DELREQ" => LookIn(f, hd.req.key) = Absent
         /\ hd.pc = "done" /\ hd.req.type = "GETREQ" => hd.ret = LookIn(f, hd.req.key)
         /\ hd.pc # "called" /\ hd.req.type = "DELREQ" => ca[hd.req.key] = Absent

(* A PUT of k has changed the store and is yet to change the cache. *)
Between(th, k) ==
  /\ th # IdleThread /\ th.pc \in {"opened", "done"}
  /\ th.req.type = "PUTREQ" /\ th.req.key = k

Coherent(th, f, ca, R) ==
  \A k \in Keys \ R : \/ \E t \in Threads : Between(th[t], k)
                      \/ ca[k] \in {Absent, LookIn(f, k)}

Serves(hd, k) == hd # IdleThread /\ hd.req.key = k
Writes(hd) == hd # IdleThread /\ hd.req \in Request

(* Whoever shares the key of a writer has raced with it. *)
RacesSeen(hd, R) ==
  \A t, u \in Threads : \A k \in Keys :
    t # u /\ Writes(hd[t]) /\ Serves(hd[t], k) /\ Serves(hd[u], k) => k \in R

Types == /\ thread \in [Threads -> Thread \cup {IdleThread}]
         /\ cache \in Store
         /\ handler \in [Threads -> Handler \cup {IdleThread}]
         /\ raced \subseteq Keys
         /\ damaged \subseteq Hashes
         /\ \A t \in Threads : thread[t] # IdleThread <=> handler[t].pc = "store"

IInv == /\ Types
        /\ FilesOK(files)
        /\ ChainsOK(files, damaged)
        /\ \A t \in Threads : /\ ThreadOK(thread[t], handler[t], files, Doubt)
                              /\ Placed(thread[t], files, damaged)
                              /\ HandlerOK(handler[t], files, cache, Doubt)
        /\ Coherent(thread, files, cache, Doubt)
        /\ Apart(thread)
        /\ RacesSeen(handler, raced)

-----------------------------------------------------------------------------
(* Chains of files.                                                        *)

(* A chain has a bound. *)
LEMMA ChainBound == MaxChain \in Nat
  BY StoreAssumption

(* find_entry finds the one file of a key. *)
LEMMA FindThere ==
  ASSUME NEW h, NEW c, ChainOK(h, c), NEW n \in DOMAIN c
  PROVE  FindEntry(c, c[n].key) = n /\ n \in 0..MaxChain
  <1> DEFINE k == c[n].key
             found == {i \in DOMAIN c :
                         c[i].key = k /\ \A m \in 0..(i - 1) : m \in DOMAIN c /\ c[m].key # k}
  <1>1. PICK len \in 0..(MaxChain + 1) : DOMAIN c = 0..(len - 1)
    BY Zenon DEF ChainOK
  <1>2. n \in 0..MaxChain
    BY <1>1, ChainBound
  <1>3. \A m \in 0..(n - 1) : m \in DOMAIN c /\ m # n
    BY <1>1, <1>2, ChainBound
  <1>4. \A m \in 0..(n - 1) : c[m].key # k
    BY Zenon, <1>3 DEF ChainOK
  <1>5. n \in found
    BY Zenon, <1>3, <1>4
  <1>6. \A i \in found : i = n
    BY Zenon DEF ChainOK
  <1>7. (CHOOSE i \in found : TRUE) = n
    BY Zenon, <1>5, <1>6
  <1>8. QED
    BY Zenon, <1>2, <1>5, <1>7 DEF FindEntry

(* find_entry finds nothing for a key without a file. *)
LEMMA FindNot ==
  ASSUME NEW c, NEW k, \A n \in DOMAIN c : c[n].key # k
  PROVE  FindEntry(c, k) = ERRNOKEY
  BY Zenon DEF FindEntry

(* The value of a key is the one its file holds. *)
LEMMA ValueThere ==
  ASSUME NEW h, NEW c, ChainOK(h, c), NEW n \in DOMAIN c
  PROVE  ValueAt(c, c[n].key) = c[n].value
  <1>1. FindEntry(c, c[n].key) = n /\ n # ERRNOKEY
    BY FindThere, ChainBound DEF ERRNOKEY
  <1>2. QED
    BY Zenon, <1>1 DEF ValueAt

(* No entry with the key, no value. *)
LEMMA ValueNot ==
  ASSUME NEW c, NEW k, \A n \in DOMAIN c : c[n].key # k
  PROVE  ValueAt(c, k) = Absent
  BY Zenon, FindNot DEF ValueAt

(* What find_entry returns, and the value it finds. *)
LEMMA FindType ==
  ASSUME NEW h, NEW c, ChainOK(h, c), NEW k
  PROVE  /\ FindEntry(c, k) \in 0..ERRNOKEY
         /\ ValueAt(c, k) \in Values \cup {Absent}
         /\ FindEntry(c, k) # ERRNOKEY =>
              FindEntry(c, k) \in DOMAIN c /\ c[FindEntry(c, k)].key = k
         /\ FindEntry(c, k) = ERRNOKEY <=> \A n \in DOMAIN c : c[n].key # k
         /\ FindEntry(c, k) = ERRNOKEY <=> ValueAt(c, k) = Absent
  <1>1. CASE \A n \in DOMAIN c : c[n].key # k
    BY <1>1, FindNot, ValueNot, ChainBound DEF ERRNOKEY
  <1>2. CASE \E n \in DOMAIN c : c[n].key = k
    <2>1. PICK n \in DOMAIN c : c[n].key = k
      BY Zenon, <1>2
    <2>2. FindEntry(c, k) = n /\ n \in 0..MaxChain /\ ValueAt(c, k) = c[n].value
      BY Zenon, <2>1, FindThere, ValueThere
    <2>3. c[n].value \in Values
      BY Zenon, <2>1 DEF ChainOK, FileEntry
    <2>4. n \in 0..ERRNOKEY /\ n # ERRNOKEY
      BY <2>2, ChainBound DEF ERRNOKEY
    <2>5. c[n].value # Absent
      BY Zenon, <2>3, RequestAssumption
    <2>6. QED
      BY Zenon, <2>1, <2>2, <2>3, <2>4, <2>5
  <1>3. QED
    BY Zenon, <1>1, <1>2

(* The loops that look for the end of a chain find it. *)
LEMMA FreeEnd ==
  ASSUME NEW c, NEW len \in 0..(MaxChain + 1), DOMAIN c = 0..(len - 1), NEW p \in 0..len
  PROVE  FreePos(c, p) = len
  <1> DEFINE P(n) == n \notin DOMAIN c /\ \A m \in p..(n - 1) : m \in DOMAIN c
  <1> USE ChainBound
  <1>1. len \in p..(MaxChain + 1) /\ P(len)
    OBVIOUS
  <1>2. \A n \in p..(MaxChain + 1) : P(n) => n = len
    <2> SUFFICES ASSUME NEW n \in p..(MaxChain + 1), P(n) PROVE n = len
      BY Zenon
    <2>1. CASE n < len
      BY <2>1
    <2>2. CASE n > len
      <3>1. len \in p..(n - 1)
        BY <2>2
      <3>2. QED
        BY <3>1
    <2>3. QED
      BY <2>1, <2>2
  <1>3. QED
    BY Zenon, <1>1, <1>2 DEF FreePos

(* kvstore_put writes the key's file, or a new one at the end, and changes *)
(* nothing else.                                                           *)
LEMMA WriteChain ==
  ASSUME NEW k \in Keys, NEW v \in Values, NEW c, ChainOK(HashOf[k], c),
         PutPos(c, FindEntry(c, k)) \in Positions
  PROVE  LET d == Write(c, PutPos(c, FindEntry(c, k)), [key |-> k, value |-> v])
         IN /\ ChainOK(HashOf[k], d)
            /\ ValueAt(d, k) = v
            /\ \A j \in Keys : j # k => ValueAt(d, j) = ValueAt(c, j)
  <1> USE ChainBound
  <1>1. PICK n : n = PutPos(c, FindEntry(c, k))
    BY Zenon
  <1>2. PICK d : d = Write(c, n, [key |-> k, value |-> v])
    BY Zenon
  <1>3. PICK len \in 0..(MaxChain + 1) : DOMAIN c = 0..(len - 1)
    BY Zenon DEF ChainOK
  <1>4. /\ n \in 0..len /\ n \in 0..MaxChain
        /\ n \in DOMAIN c => c[n].key = k
        /\ n = len => \A m \in DOMAIN c : c[m].key # k
    <2>1. n \in 0..MaxChain
      BY Zenon, <1>1 DEF Positions
    <2>2. CASE FindEntry(c, k) = ERRNOKEY
      <3>1. n = len
        BY <1>1, <1>3, <2>2, FreeEnd DEF PutPos
      <3>2. \A m \in DOMAIN c : c[m].key # k
        BY Zenon, <2>2, FindType
      <3>3. QED
        BY <1>3, <2>1, <3>1, <3>2
    <2>3. CASE FindEntry(c, k) # ERRNOKEY
      <3>1. n \in DOMAIN c /\ c[n].key = k
        BY Zenon, <1>1, <2>3, FindType DEF PutPos
      <3>2. QED
        BY <1>3, <2>1, <3>1
    <2>4. QED
      BY Zenon, <2>2, <2>3
  <1>5. /\ DOMAIN d = DOMAIN c \cup {n}
        /\ \A m \in DOMAIN d : d[m] = IF m = n THEN [key |-> k, value |-> v] ELSE c[m]
        /\ d = [m \in DOMAIN d |-> d[m]]
    BY Zenon, <1>2 DEF Write
  <1>6. \A m \in DOMAIN c : m # n => c[m].key # k
    BY <1>3, <1>4 DEF ChainOK
  <1>7. \E l \in 0..(MaxChain + 1) : DOMAIN d = 0..(l - 1)
    <2>1. CASE n = len
      <3>1. DOMAIN d = 0..((len + 1) - 1) /\ len + 1 \in 0..(MaxChain + 1)
        BY <1>3, <1>4, <1>5, <2>1
      <3>2. QED
        BY Zenon, <3>1
    <2>2. CASE n # len
      <3>1. DOMAIN d = 0..(len - 1)
        BY <1>3, <1>4, <1>5, <2>2
      <3>2. QED
        BY Zenon, <3>1
    <2>3. QED
      BY Zenon, <2>1, <2>2
  <1>8. ChainOK(HashOf[k], d)
    <2>1. \A m \in DOMAIN d : d[m] \in FileEntry /\ HashOf[d[m].key] = HashOf[k]
      BY <1>5 DEF ChainOK, FileEntry
    <2>2. \A a, b \in DOMAIN d : d[a].key = d[b].key => a = b
      BY <1>5, <1>6 DEF ChainOK
    <2>3. QED
      BY Zenon, <1>5, <1>7, <2>1, <2>2 DEF ChainOK
  <1>9. ValueAt(d, k) = v
    <2>1. n \in DOMAIN d /\ d[n].key = k /\ d[n].value = v
      BY <1>5
    <2>2. QED
      BY Zenon, <1>8, <2>1, ValueThere
  <1>10. ASSUME NEW j \in Keys, j # k PROVE ValueAt(d, j) = ValueAt(c, j)
    <2>1. CASE \E m \in DOMAIN c : c[m].key = j
      <3>1. PICK m \in DOMAIN c : c[m].key = j
        BY Zenon, <2>1
      <3>2. m \in DOMAIN d /\ d[m] = c[m]
        BY Zenon, <1>4, <1>5, <1>10, <3>1
      <3>3. QED
        BY <1>8, <3>1, <3>2, ValueThere
    <2>2. CASE \A m \in DOMAIN c : c[m].key # j
      <3>1. \A m \in DOMAIN d : d[m].key # j
        BY <1>5, <1>10, <2>2
      <3>2. QED
        BY <2>2, <3>1, ValueNot
    <2>3. QED
      BY Zenon, <2>1, <2>2
  <1>11. QED
    BY Zenon, <1>1, <1>2, <1>8, <1>9, <1>10

(* kvstore_del removes the key's file, moves the last one into its place,  *)
(* and so changes nothing else.                                            *)
LEMMA UnlinkChain ==
  ASSUME NEW k \in Keys, NEW c, ChainOK(HashOf[k], c), FindEntry(c, k) # ERRNOKEY
  PROVE  LET d == Unlink(c, FindEntry(c, k))
         IN /\ FindEntry(c, k) \in DOMAIN c
            /\ ChainOK(HashOf[k], d)
            /\ ValueAt(d, k) = Absent
            /\ \A j \in Keys : j # k => ValueAt(d, j) = ValueAt(c, j)
  <1> USE ChainBound
  <1>1. PICK n : n = FindEntry(c, k)
    BY Zenon
  <1>2. PICK d : d = Unlink(c, n)
    BY Zenon
  <1>3. PICK len \in 0..(MaxChain + 1) : DOMAIN c = 0..(len - 1)
    BY Zenon DEF ChainOK
  <1>4. n \in DOMAIN c /\ c[n].key = k
    BY Zenon, <1>1, FindType
  <1>5. PICK last : last = FreePos(c, n + 1) - 1
    BY Zenon
  <1>6. last = len - 1 /\ last \in DOMAIN c /\ n + 1 \in 0..len
    <2>1. n + 1 \in 0..len
      BY <1>3, <1>4
    <2>2. FreePos(c, n + 1) = len
      BY Zenon, <1>3, <2>1, FreeEnd
    <2>3. QED
      BY <1>3, <1>4, <1>5, <2>1, <2>2
  <1>7. /\ DOMAIN d = DOMAIN c \ {last}
        /\ \A m \in DOMAIN d : d[m] = IF m = n THEN c[last] ELSE c[m]
        /\ d = [m \in DOMAIN d |-> d[m]]
    BY Zenon, <1>2, <1>5 DEF Unlink
  <1>8. \A m \in DOMAIN c : m # n => c[m].key # k
    BY Zenon, <1>4 DEF ChainOK
  <1>9. ChainOK(HashOf[k], d)
    <2>1. DOMAIN d = 0..((len - 1) - 1) /\ len - 1 \in 0..(MaxChain + 1)
      BY <1>3, <1>6, <1>7
    <2>2. \A m \in DOMAIN d : d[m] \in FileEntry /\ HashOf[d[m].key] = HashOf[k]
      BY <1>6, <1>7 DEF ChainOK
    <2>3. ASSUME NEW a \in DOMAIN d, NEW b \in DOMAIN d, d[a].key = d[b].key
          PROVE  a = b
      <3>1. \A x, y \in DOMAIN c : c[x].key = c[y].key => x = y
        BY Zenon DEF ChainOK
      <3>2. a \in DOMAIN c /\ b \in DOMAIN c /\ a # last /\ b # last
        BY Zenon, <1>7
      <3>3. /\ d[a] = IF a = n THEN c[last] ELSE c[a]
            /\ d[b] = IF b = n THEN c[last] ELSE c[b]
        BY Zenon, <1>7
      <3>4. QED
        BY Zenon, <1>6, <2>3, <3>1, <3>2, <3>3
    <2>4. QED
      BY Zenon, <1>7, <2>1, <2>2, <2>3 DEF ChainOK
  <1>10. \A m \in DOMAIN d : d[m].key # k
    BY Zenon, <1>6, <1>7, <1>8
  <1>11. ASSUME NEW j \in Keys, j # k PROVE ValueAt(d, j) = ValueAt(c, j)
    <2>1. CASE \E m \in DOMAIN c : c[m].key = j
      <3>1. PICK m \in DOMAIN c : c[m].key = j
        BY Zenon, <2>1
      <3>2. m # n
        BY Zenon, <1>4, <1>11, <3>1
      <3>3. PICK i \in DOMAIN d : d[i] = c[m]
        BY Zenon, <1>4, <1>7, <3>1, <3>2
      <3>4. QED
        BY <1>9, <3>1, <3>3, ValueThere
    <2>2. CASE \A m \in DOMAIN c : c[m].key # j
      <3>1. \A m \in DOMAIN d : d[m].key # j
        BY Zenon, <1>6, <1>7, <2>2
      <3>2. QED
        BY <2>2, <3>1, ValueNot
    <2>3. QED
      BY Zenon, <2>1, <2>2
  <1>12. QED
    BY Zenon, <1>1, <1>2, <1>4, <1>9, <1>10, <1>11, ValueNot

(* Every nonempty set of natural numbers has a least element. *)
LEMMA LeastPosition ==
  ASSUME NEW T, T \subseteq Nat, T # {}
  PROVE  \E n \in T : \A m \in T : n <= m
  <1>1. PICK n \in T : \A m \in T : ~(<<m, n>> \in OpToRel(<, Nat))
    BY Zenon, NatLessThanWellFounded, WFMin
  <1>2. \A m \in T : ~(m < n)
    BY Zenon, <1>1 DEF OpToRel
  <1>3. QED
    BY <1>2

(* A loop that looks for a missing file stops at the first one, in a       *)
(* damaged chain too.                                                      *)
LEMMA FreeThere ==
  ASSUME NEW c, DOMAIN c \subseteq Positions, NEW p \in 0..(MaxChain + 1)
  PROVE  /\ FreePos(c, p) \in p..(MaxChain + 1)
         /\ \A m \in p..(FreePos(c, p) - 1) : m \in DOMAIN c
  <1> USE ChainBound
  <1> DEFINE T == {n \in p..(MaxChain + 1) : n \notin DOMAIN c}
  <1>1. T \subseteq Nat /\ MaxChain + 1 \in T
    BY DEF Positions
  <1> HIDE DEF T
  <1>2. PICK n \in T : \A m \in T : n <= m
    BY Zenon, <1>1, LeastPosition
  <1>3. \A m \in p..(n - 1) : m \in DOMAIN c
    BY <1>2 DEF T
  <1>4. \E i \in p..(MaxChain + 1) : i \notin DOMAIN c /\ \A m \in p..(i - 1) : m \in DOMAIN c
    BY Zenon, <1>2, <1>3 DEF T
  <1>5. QED
    BY Zenon, <1>4 DEF FreePos

(* What find_entry returns in any chain. *)
LEMMA RawFind ==
  ASSUME NEW c, RawChain(c), NEW k \in Keys
  PROVE  FindEntry(c, k) \in 0..ERRNOKEY /\ ValueAt(c, k) \in Values \cup {Absent}
  <1> DEFINE found == {n \in DOMAIN c :
                         c[n].key = k /\ \A m \in 0..(n - 1) : m \in DOMAIN c /\ c[m].key # k}
  <1>1. CASE found = {}
    <2>1. FindEntry(c, k) = ERRNOKEY
      BY Zenon, <1>1 DEF FindEntry
    <2>2. ERRNOKEY \in 0..ERRNOKEY
      BY ChainBound DEF ERRNOKEY
    <2>3. QED
      BY Zenon, <2>1, <2>2 DEF ValueAt
  <1>2. CASE found # {}
    <2>1. PICK n : n = FindEntry(c, k)
      BY Zenon
    <2>2. n \in DOMAIN c /\ c[n].key = k
      BY Zenon, <1>2, <2>1 DEF FindEntry
    <2>3. n \in 0..ERRNOKEY
      BY <2>2, ChainBound DEF RawChain, Positions, ERRNOKEY
    <2>4. Torn.key = NoCall
      BY Zenon DEF Torn
    <2>5. c[n] # Torn
      BY Zenon, <2>2, <2>4, StoreAssumption
    <2>6. c[n].value \in Values
      BY Zenon, <2>2, <2>5 DEF RawChain, FileEntry
    <2>7. QED
      BY Zenon, <2>1, <2>3, <2>6 DEF ValueAt
  <1>3. QED
    BY Zenon, <1>1, <1>2

(* A chain with one more entry, and one without the file at n. *)
LEMMA RawWrite ==
  ASSUME NEW c, RawChain(c), NEW n \in Positions, NEW e \in FileEntry
  PROVE  RawChain(Write(c, n, e))
  <1>1. PICK d : d = Write(c, n, e)
    BY Zenon
  <1>2. /\ DOMAIN d = DOMAIN c \cup {n}
        /\ \A m \in DOMAIN d : d[m] = IF m = n THEN e ELSE c[m]
        /\ d = [m \in DOMAIN d |-> d[m]]
    BY Zenon, <1>1 DEF Write
  <1>3. RawChain(d)
    BY Zenon, <1>2 DEF RawChain
  <1>4. QED
    BY Zenon, <1>1, <1>3

LEMMA RawUnlink ==
  ASSUME NEW c, RawChain(c), NEW n \in 0..MaxChain
  PROVE  RawChain(Unlink(c, n))
  <1> USE ChainBound
  <1>1. PICK last : last = FreePos(c, n + 1) - 1
    BY Zenon
  <1>2. PICK d : d = Unlink(c, n)
    BY Zenon
  <1>3. n + 1 \in 0..(MaxChain + 1)
    OBVIOUS
  <1>4. /\ FreePos(c, n + 1) \in (n + 1)..(MaxChain + 1)
        /\ \A m \in (n + 1)..(FreePos(c, n + 1) - 1) : m \in DOMAIN c
    BY Zenon, <1>3, FreeThere DEF RawChain
  <1>5. last = n \/ last \in (n + 1)..(FreePos(c, n + 1) - 1)
    BY <1>1, <1>4
  <1>6. last = n \/ last \in DOMAIN c
    BY Zenon, <1>4, <1>5
  <1>7. /\ DOMAIN d = DOMAIN c \ {last}
        /\ \A m \in DOMAIN d : d[m] = IF m = n THEN c[last] ELSE c[m]
        /\ d = [m \in DOMAIN d |-> d[m]]
    BY Zenon, <1>1, <1>2 DEF Unlink
  <1>8. \A m \in DOMAIN d : d[m] \in FileEntry \cup {Torn}
    BY Zenon, <1>6, <1>7 DEF RawChain
  <1>9. RawChain(d)
    BY Zenon, <1>7, <1>8 DEF RawChain
  <1>10. QED
    BY Zenon, <1>2, <1>9

-----------------------------------------------------------------------------
(* States.                                                                 *)

(* Lookup reads the files. *)
LEMMA LookupIs == \A k : Lookup(k) = LookIn(files, k)
  BY Zenon DEF Lookup, LookIn, ValueAt, Chain

(* The kinds of requests. *)
LEMMA Kinds ==
  ASSUME NEW r \in Call
  PROVE  /\ r.key \in Keys
         /\ r.type \in {"PUTREQ", "DELREQ", "GETREQ"}
         /\ r \in Request <=> r.type \in {"PUTREQ", "DELREQ"}
         /\ r.type = "PUTREQ" => r.value \in Values
         /\ HashOf[r.key] \in Hashes
  BY Zenon DEF Call, Request, PutReq, DelReq, GetReq, Hashes

(* The shape of a thread and of a handler. *)
LEMMA Shapes ==
  ASSUME Types, NEW t \in Threads
  PROVE  /\ thread[t].pc # "idle" => thread[t] # IdleThread
         /\ thread[t] # IdleThread => thread[t] \in Thread
         /\ handler[t].pc # "idle" => handler[t] # IdleThread
         /\ handler[t] # IdleThread => handler[t] \in Handler
         /\ thread[t] # IdleThread => handler[t] # IdleThread /\ handler[t].pc = "store"
  <1>1. thread[t] \in Thread \cup {IdleThread} /\ handler[t] \in Handler \cup {IdleThread}
    BY Zenon DEF Types
  <1>2. IdleThread.pc = "idle"
    BY Zenon DEF IdleThread
  <1>3. thread[t] # IdleThread <=> handler[t].pc = "store"
    BY Zenon DEF Types
  <1>4. QED
    BY Zenon, <1>1, <1>2, <1>3

(* The fields of a call of the store, *)
LEMMA ThreadFields ==
  ASSUME NEW th \in Thread
  PROVE  /\ th.pc \in {"called", "found", "opened", "done"}
         /\ th.req \in Call
         /\ th.pos \in 0..ERRNOKEY /\ th.at \in 0..ERRNOKEY
         /\ th.ret \in Values \cup {Absent, "ok", "error", NoCall}
         /\ th.alone \in BOOLEAN
         /\ th # IdleThread
  BY DEF Thread, IdleThread

(* and of a handler of the server. *)
LEMMA HandlerFields ==
  ASSUME NEW hd \in Handler
  PROVE  /\ hd.pc \in {"called", "store", "deleted", "missed", "done"}
         /\ hd.req \in Call
         /\ hd.ret \in Values \cup {Absent, "ok", "error", NoCall}
         /\ hd # IdleThread
  BY DEF Handler, IdleThread

(* d holds what c does, for other keys than k. *)
SameBut(c, d, k) == \A j \in Keys : j # k => ValueAt(d, j) = ValueAt(c, j)

(* A store whose chain of k is replaced by d. *)
LEMMA Replace ==
  ASSUME FilesOK(files), ChainsOK(files, damaged), NEW k \in Keys, NEW d, RawChain(d),
         files' = [files EXCEPT ![HashOf[k]] = d],
         damaged \subseteq damaged', damaged' \subseteq damaged \cup {HashOf[k]},
         HashOf[k] \notin damaged' =>
           ChainOK(HashOf[k], d) /\ SameBut(files[HashOf[k]], d, k)
  PROVE  /\ FilesOK(files') /\ ChainsOK(files', damaged')
         /\ LookIn(files', k) = ValueAt(d, k)
         /\ \A h \in Hashes : h # HashOf[k] => files'[h] = files[h]
         /\ \A j \in Keys : j # k /\ HashOf[j] \notin damaged' => LookIn(files', j) = LookIn(files, j)
  <1>1. HashOf[k] \in Hashes /\ DOMAIN files = Hashes /\ \A j \in Keys : HashOf[j] \in Hashes
    BY Zenon DEF Hashes, FilesOK
  <1>2. \A h \in Hashes : files'[h] = IF h = HashOf[k] THEN d ELSE files[h]
    BY Zenon, <1>1
  <1>3. files' = [h \in Hashes |-> files'[h]]
    BY Zenon, <1>1
  <1>4. FilesOK(files')
    BY Zenon, <1>2, <1>3 DEF FilesOK
  <1>5. ChainsOK(files', damaged')
    BY Zenon, <1>2 DEF ChainsOK
  <1>6. ASSUME NEW j \in Keys, j # k, HashOf[j] \notin damaged'
        PROVE  LookIn(files', j) = LookIn(files, j)
    <2>1. CASE HashOf[j] = HashOf[k]
      BY Zenon, <1>1, <1>2, <1>6, <2>1 DEF LookIn, SameBut
    <2>2. CASE HashOf[j] # HashOf[k]
      BY Zenon, <1>1, <1>2, <2>2 DEF LookIn
    <2>3. QED
      BY Zenon, <2>1, <2>2
  <1>7. QED
    BY Zenon, <1>1, <1>2, <1>4, <1>5, <1>6 DEF LookIn

(* A step of the store for t that leaves the files alone. *)
LEMMA QuietStore ==
  ASSUME IInv, NEW t \in Threads, thread[t] # IdleThread, NEW th \in Thread,
         thread' = [thread EXCEPT ![t] = th],
         UNCHANGED <<files, damaged, cache, handler, raced>>,
         ThreadOK(th, handler[t], files, Doubt), Placed(th, files, damaged),
         th.req = thread[t].req, th.alone = thread[t].alone,
         th.pc \in {"called", "found"} => thread[t].pc \in {"called", "found"},
         \A k \in Keys : Between(thread[t], k) => Between(th, k)
  PROVE  IInv'
  <1>1. Types'
    <2>1. thread' \in [Threads -> Thread \cup {IdleThread}]
      BY Zenon DEF IInv, Types
    <2>2. \A u \in Threads : thread'[u] # IdleThread <=> handler'[u].pc = "store"
      BY Zenon, ThreadFields DEF IInv, Types
    <2>3. QED
      BY Zenon, <2>1, <2>2 DEF IInv, Types
  <1>2. \A u \in Threads : thread'[u] = IF u = t THEN th ELSE thread[u]
    BY Zenon DEF IInv, Types
  <1>3. Doubt' = Doubt
    BY Zenon DEF Doubt
  <1>4. \A u \in Threads : /\ ThreadOK(thread'[u], handler'[u], files', Doubt')
                           /\ Placed(thread'[u], files', damaged')
                           /\ HandlerOK(handler'[u], files', cache', Doubt')
    BY Zenon, <1>2, <1>3 DEF IInv
  <1>5. Coherent(thread', files', cache', Doubt')
    <2> SUFFICES ASSUME NEW k \in Keys \ Doubt
                 PROVE  \/ \E u \in Threads : Between(thread'[u], k)
                        \/ cache[k] \in {Absent, LookIn(files, k)}
      BY Zenon, <1>3 DEF Coherent
    <2>1. \A u \in Threads : Between(thread[u], k) => Between(thread'[u], k)
      BY Zenon, <1>2
    <2>2. QED
      BY Zenon, <2>1 DEF IInv, Coherent
  <1>6. Apart(thread')
    <2>1. \A u \in Threads : \A h \in Hashes :
            /\ Changing(thread'[u], h) => Changing(thread[u], h)
            /\ thread'[u].alone = thread[u].alone
      BY Zenon, <1>2 DEF Changing
    <2>2. QED
      BY Zenon, <2>1 DEF IInv, Apart
  <1>7. FilesOK(files') /\ ChainsOK(files', damaged') /\ RacesSeen(handler', raced')
    BY Zenon DEF IInv
  <1>8. QED
    BY Zenon, <1>1, <1>4, <1>5, <1>6, <1>7 DEF IInv

(* Whoever serves the key of a writer beside it has raced with it. *)
LEMMA BesideWriter ==
  ASSUME IInv, NEW t \in Threads, Writes(handler[t]), NEW u \in Threads, u # t,
         handler[u] # IdleThread, handler[u].req.key = handler[t].req.key
  PROVE  handler[t].req.key \in raced /\ handler[t].req.key \in Doubt
  <1>1. Types /\ handler[t] \in Handler
    BY Zenon, Shapes DEF IInv, Writes
  <1>2. handler[t].req.key \in Keys
    BY Zenon, <1>1, HandlerFields, Kinds
  <1>3. Serves(handler[t], handler[t].req.key) /\ Serves(handler[u], handler[t].req.key)
    BY Zenon DEF Serves, Writes
  <1>4. QED
    BY Zenon, <1>2, <1>3 DEF IInv, RacesSeen, Doubt

(* A step of the store in which t changes the files: the chain of its key  *)
(* only, and there what they hold for its key only, unless it damages it.  *)
LEMMA WriteStore ==
  ASSUME IInv, NEW t \in Threads, thread[t] # IdleThread, NEW th \in Thread,
         thread' = [thread EXCEPT ![t] = th],
         UNCHANGED <<cache, handler, raced>>,
         thread[t].pc = "found", th.pc \in {"opened", "done"},
         FilesOK(files'), damaged \subseteq damaged', damaged' \subseteq Hashes,
         ChainsOK(files', damaged'),
         \A h \in Hashes : h # HashOf[handler[t].req.key] => files'[h] = files[h],
         \A j \in Keys : j # handler[t].req.key /\ HashOf[j] \notin damaged' =>
           LookIn(files', j) = LookIn(files, j),
         ThreadOK(th, handler[t], files', Doubt'),
         \/ Between(th, handler[t].req.key)
         \/ handler[t].req.type = "DELREQ"
  PROVE  IInv'
  <1> DEFINE k == handler[t].req.key
  <1>1. Types'
    <2>1. thread' \in [Threads -> Thread \cup {IdleThread}]
      BY Zenon DEF IInv, Types
    <2>2. \A u \in Threads : thread'[u] # IdleThread <=> handler'[u].pc = "store"
      BY Zenon, ThreadFields DEF IInv, Types
    <2>3. QED
      BY Zenon, <2>1, <2>2 DEF IInv, Types
  <1>2. \A u \in Threads : thread'[u] = IF u = t THEN th ELSE thread[u]
    BY Zenon DEF IInv, Types
  <1>3. /\ Types /\ handler[t] \in Handler /\ handler[t].pc = "store" /\ Writes(handler[t])
        /\ thread[t].req = handler[t].req /\ thread[t].req \in Request
    BY Zenon, Shapes DEF IInv, Writes, ThreadOK
  <1>4. /\ handler[t].req \in Call /\ k \in Keys /\ HashOf[k] \in Hashes
        /\ handler[t].req.type \in {"PUTREQ", "DELREQ"}
    BY Zenon, <1>3, HandlerFields, Kinds
  <1>5. /\ Doubt \subseteq Doubt'
        /\ \A j \in Keys : j \notin Doubt' => HashOf[j] \notin damaged'
    BY Zenon DEF Doubt
  <1>6. ASSUME NEW u \in Threads, u # t, handler[u] # IdleThread
        PROVE  /\ handler[u].req.key \in Keys
               /\ handler[u].req.key \in Doubt' \/ LookIn(files', handler[u].req.key) = LookIn(files, handler[u].req.key)
    <2>1. handler[u] \in Handler
      BY Zenon, <1>3, <1>6, Shapes
    <2>2. handler[u].req.key \in Keys
      BY Zenon, <2>1, HandlerFields, Kinds
    <2>3. CASE handler[u].req.key = k
      BY Zenon, <1>3, <1>5, <1>6, <2>2, <2>3, BesideWriter
    <2>4. CASE handler[u].req.key # k
      BY Zenon, <1>5, <2>2, <2>4
    <2>5. QED
      BY Zenon, <2>2, <2>3, <2>4
  <1>7. ASSUME NEW u \in Threads, u # t
        PROVE  ThreadOK(thread[u], handler[u], files', Doubt')
    <2> SUFFICES ASSUME thread[u] # IdleThread
                 PROVE  ThreadOK(thread[u], handler[u], files', Doubt')
      BY Zenon DEF ThreadOK
    <2>1. handler[u] # IdleThread
      BY Zenon, <1>3, Shapes
    <2>2. ThreadOK(thread[u], handler[u], files, Doubt)
      BY Zenon DEF IInv
    <2>3. PICK j : j = handler[u].req.key
      BY Zenon
    <2>4. thread[u].req.key = j
      BY Zenon, <2>2, <2>3 DEF ThreadOK
    <2>5. j \notin Doubt' => j \notin Doubt /\ LookIn(files', j) = LookIn(files, j)
      BY Zenon, <1>5, <1>6, <1>7, <2>1, <2>3
    <2>6. QED
      BY Zenon, <2>2, <2>4, <2>5 DEF ThreadOK
  <1>8. ASSUME NEW u \in Threads, u # t
        PROVE  HandlerOK(handler[u], files', cache, Doubt')
    <2> SUFFICES ASSUME handler[u] # IdleThread
                 PROVE  HandlerOK(handler[u], files', cache, Doubt')
      BY Zenon DEF HandlerOK
    <2>1. HandlerOK(handler[u], files, cache, Doubt)
      BY Zenon DEF IInv
    <2>2. PICK j : j = handler[u].req.key
      BY Zenon
    <2>3. j \notin Doubt' => j \notin Doubt /\ LookIn(files', j) = LookIn(files, j)
      BY Zenon, <1>5, <1>6, <1>8, <2>2
    <2>4. QED
      BY Zenon, <2>1, <2>2, <2>3 DEF HandlerOK
  <1>9. HandlerOK(handler[t], files', cache, Doubt')
    <2>1. HandlerOK(handler[t], files, cache, Doubt)
      BY Zenon DEF IInv
    <2>2. QED
      BY Zenon, <1>3, <1>5, <2>1 DEF HandlerOK
  <1>10. ASSUME NEW u \in Threads PROVE Placed(thread'[u], files', damaged')
    <2>1. CASE u = t
      BY Zenon, <1>2, <2>1 DEF Placed
    <2>2. CASE u # t
      <3> SUFFICES ASSUME thread[u].pc = "found", thread[u].alone,
                          HashOf[thread[u].req.key] \notin damaged'
                   PROVE  thread[u].pos = FindEntry(files'[HashOf[thread[u].req.key]], thread[u].req.key)
        BY Zenon, <1>2, <2>2 DEF Placed
      <3>1. thread[u] # IdleThread /\ thread[u] \in Thread
        BY Zenon, <1>3, Shapes
      <3>2. thread[u].req \in Request /\ thread[u].req \in Call
        BY Zenon, <3>1, ThreadFields DEF IInv, ThreadOK
      <3>3. HashOf[thread[u].req.key] \in Hashes
        BY Zenon, <3>2, Kinds
      <3>4. HashOf[thread[u].req.key] # HashOf[k]
        <4> SUFFICES ASSUME HashOf[thread[u].req.key] = HashOf[k] PROVE FALSE
          BY Zenon
        <4>1. Changing(thread[u], HashOf[k]) /\ Changing(thread[t], HashOf[k])
          BY Zenon, <1>3, <3>2 DEF Changing
        <4>2. QED
          BY Zenon, <1>4, <2>2, <4>1 DEF IInv, Apart
      <3>5. files'[HashOf[thread[u].req.key]] = files[HashOf[thread[u].req.key]]
        BY Zenon, <3>3, <3>4
      <3>6. HashOf[thread[u].req.key] \notin damaged
        BY Zenon
      <3>7. QED
        BY Zenon, <3>5, <3>6 DEF IInv, Placed
    <2>3. QED
      BY Zenon, <2>1, <2>2
  <1>11. Coherent(thread', files', cache', Doubt')
    <2> SUFFICES ASSUME NEW j \in Keys \ Doubt'
                 PROVE  \/ \E u \in Threads : Between(thread'[u], j)
                        \/ cache[j] \in {Absent, LookIn(files', j)}
      BY Zenon DEF Coherent
    <2>1. CASE j = k
      <3>1. CASE Between(th, k)
        BY Zenon, <1>2, <2>1, <3>1
      <3>2. CASE handler[t].req.type = "DELREQ"
        <4>1. HandlerOK(handler[t], files, cache, Doubt)
          BY Zenon DEF IInv
        <4>2. cache[j] = Absent
          BY Zenon, <1>3, <1>5, <2>1, <3>2, <4>1, HandlerFields DEF HandlerOK
        <4>3. QED
          BY Zenon, <4>2
      <3>3. QED
        BY Zenon, <3>1, <3>2
    <2>2. CASE j # k
      <3>1. ~Between(thread[t], j)
        BY Zenon, <1>3, <2>2 DEF Between
      <3>2. \A u \in Threads : Between(thread[u], j) => Between(thread'[u], j)
        BY Zenon, <1>2, <3>1
      <3>3. LookIn(files', j) = LookIn(files, j) /\ j \in Keys \ Doubt
        BY Zenon, <1>5, <2>2
      <3>4. QED
        BY Zenon, <3>2, <3>3 DEF IInv, Coherent
    <2>3. QED
      BY Zenon, <2>1, <2>2
  <1>12. Apart(thread')
    <2>1. \A u \in Threads : \A h \in Hashes :
            Changing(thread'[u], h) => u # t /\ Changing(thread[u], h)
      BY Zenon, <1>2 DEF Changing
    <2>2. QED
      BY Zenon, <1>2, <2>1 DEF IInv, Apart
  <1>13. \A u \in Threads : /\ ThreadOK(thread'[u], handler'[u], files', Doubt')
                            /\ HandlerOK(handler'[u], files', cache', Doubt')
    <2> SUFFICES ASSUME NEW u \in Threads
                 PROVE  /\ ThreadOK(thread'[u], handler[u], files', Doubt')
                        /\ HandlerOK(handler[u], files', cache, Doubt')
      BY Zenon
    <2>1. CASE u = t
      BY Zenon, <1>2, <1>9, <2>1
    <2>2. CASE u # t
      BY Zenon, <1>2, <1>7, <1>8, <2>2
    <2>3. QED
      BY Zenon, <2>1, <2>2
  <1>14. RacesSeen(handler', raced')
    BY Zenon DEF IInv
  <1>15. QED
    BY Zenon, <1>1, <1>10, <1>11, <1>12, <1>13, <1>14 DEF IInv

(* Where a call of the store is, with its handler. *)
LEMMA InCall ==
  ASSUME IInv, NEW t \in Threads, thread[t].pc # "idle"
  PROVE  /\ Types /\ FilesOK(files) /\ ChainsOK(files, damaged)
         /\ thread[t] # IdleThread /\ thread[t] \in Thread
         /\ handler[t] \in Handler /\ handler[t].pc = "store"
         /\ thread[t].req = handler[t].req
         /\ thread[t].req \in Call /\ thread[t].req.key \in Keys
         /\ HashOf[thread[t].req.key] \in Hashes
         /\ RawChain(Chain(thread[t].req.key))
         /\ HashOf[thread[t].req.key] \notin damaged =>
              ChainOK(HashOf[thread[t].req.key], Chain(thread[t].req.key))
         /\ ThreadOK(thread[t], handler[t], files, Doubt)
         /\ thread[t].req.key \notin Doubt => HashOf[thread[t].req.key] \notin damaged
  <1>1. /\ Types /\ ThreadOK(thread[t], handler[t], files, Doubt)
        /\ FilesOK(files) /\ ChainsOK(files, damaged)
    BY Zenon DEF IInv
  <1>2. /\ thread[t] # IdleThread /\ thread[t] \in Thread
        /\ handler[t] \in Handler /\ handler[t].pc = "store"
    BY Zenon, <1>1, Shapes
  <1>3. thread[t].req \in Call /\ thread[t].req.key \in Keys /\ HashOf[thread[t].req.key] \in Hashes
    BY Zenon, <1>2, ThreadFields, Kinds
  <1>4. thread[t].req = handler[t].req
    BY Zenon, <1>1, <1>2 DEF ThreadOK
  <1>5. /\ RawChain(Chain(thread[t].req.key))
        /\ HashOf[thread[t].req.key] \notin damaged =>
             ChainOK(HashOf[thread[t].req.key], Chain(thread[t].req.key))
    BY Zenon, <1>1, <1>3 DEF FilesOK, ChainsOK, Chain
  <1>6. thread[t].req.key \notin Doubt => HashOf[thread[t].req.key] \notin damaged
    BY Zenon, <1>3 DEF Doubt
  <1>7. QED
    BY Zenon, <1>1, <1>2, <1>3, <1>4, <1>5, <1>6

(* kvstore_get returns what the files hold. *)
LEMMA GetInv ==
  ASSUME IInv, NEW t \in Threads, Get(t), UNCHANGED <<cache, handler, raced>>
  PROVE  IInv'
  <1> DEFINE k == thread[t].req.key
  <1>1. PICK th : th = [thread[t] EXCEPT !.pc = "done", !.ret = Lookup(k)]
    BY Zenon
  <1>2. thread[t].pc = "called" /\ thread[t].req.type = "GETREQ"
    BY Zenon DEF Get
  <1>3. /\ Types /\ thread[t] # IdleThread /\ thread[t] \in Thread /\ k \in Keys
        /\ thread[t].req = handler[t].req /\ RawChain(Chain(k))
    BY Zenon, <1>2, InCall
  <1>4. Lookup(k) = LookIn(files, k) /\ Lookup(k) \in Values \cup {Absent}
    BY Zenon, <1>3, RawFind, LookupIs DEF LookIn, Chain
  <1>5. /\ th \in Thread /\ th.pc = "done" /\ th.req = thread[t].req /\ th.ret = Lookup(k)
        /\ th.alone = thread[t].alone
    BY Zenon, <1>1, <1>3, <1>4 DEF Thread
  <1>6. thread' = [thread EXCEPT ![t] = th] /\ UNCHANGED <<files, damaged>>
    BY Zenon, <1>1, <1>3 DEF Get, Return, Types
  <1>7. ThreadOK(th, handler[t], files, Doubt) /\ Placed(th, files, damaged)
    BY Zenon, <1>2, <1>3, <1>4, <1>5 DEF ThreadOK, Placed
  <1>8. \A j \in Keys : Between(thread[t], j) => Between(th, j)
    BY Zenon, <1>2 DEF Between
  <1>9. QED
    BY Zenon, <1>3, <1>5, <1>6, <1>7, <1>8, QuietStore

(* kvstore_put and kvstore_del find their key. *)
LEMMA FindInv ==
  ASSUME IInv, NEW t \in Threads, Find(t), UNCHANGED <<cache, handler, raced>>
  PROVE  IInv'
  <1> DEFINE k == thread[t].req.key
             n == FindEntry(Chain(k), k)
  <1>2. thread[t].pc = "called" /\ thread[t].req \in Request
    BY Zenon DEF Find
  <1>3. /\ Types /\ thread[t] # IdleThread /\ thread[t] \in Thread /\ k \in Keys
        /\ thread[t].req = handler[t].req /\ RawChain(Chain(k))
        /\ thread[t].req \in Call
        /\ ThreadOK(thread[t], handler[t], files, Doubt)
    BY Zenon, <1>2, InCall
  <1>4. thread[t].req.type \in {"PUTREQ", "DELREQ"}
    BY Zenon, <1>2, <1>3, Kinds
  <1>5. \A j \in Keys : ~Between(thread[t], j)
    BY Zenon, <1>2 DEF Between
  <1>6. CASE thread[t].req.type = "DELREQ" /\ n = ERRNOKEY
    <2>1. PICK th : th = [thread[t] EXCEPT !.pc = "done", !.ret = "error"]
      BY Zenon
    <2>2. /\ th \in Thread /\ th.pc = "done" /\ th.req = thread[t].req /\ th.ret = "error"
          /\ th.alone = thread[t].alone
      BY Zenon, <1>3, <2>1 DEF Thread
    <2>3. thread' = [thread EXCEPT ![t] = th] /\ UNCHANGED <<files, damaged>>
      BY Zenon, <1>3, <1>6, <2>1 DEF Find, Return, Types
    <2>4. LookIn(files, k) = Absent
      BY Zenon, <1>6 DEF LookIn, ValueAt, Chain
    <2>5. ThreadOK(th, handler[t], files, Doubt) /\ Placed(th, files, damaged)
      BY Zenon, <1>3, <1>6, <2>2, <2>4 DEF ThreadOK, Placed
    <2>6. QED
      BY Zenon, <1>3, <1>5, <2>2, <2>3, <2>5, QuietStore
  <1>7. CASE ~(thread[t].req.type = "DELREQ" /\ n = ERRNOKEY)
    <2>1. PICK th : th = [thread[t] EXCEPT !.pc = "found", !.pos = n]
      BY Zenon
    <2>2. n \in 0..ERRNOKEY
      BY Zenon, <1>3, RawFind
    <2>3. /\ th \in Thread /\ th.pc = "found" /\ th.req = thread[t].req
          /\ th.pos = n /\ th.ret = thread[t].ret /\ th.alone = thread[t].alone
      BY Zenon, <1>3, <2>1, <2>2 DEF Thread
    <2>4. thread' = [thread EXCEPT ![t] = th] /\ UNCHANGED <<files, damaged>>
      BY Zenon, <1>3, <1>7, <2>1 DEF Find, Types
    <2>5. ThreadOK(th, handler[t], files, Doubt) /\ Placed(th, files, damaged)
      BY Zenon, <1>2, <1>3, <1>7, <2>3 DEF ThreadOK, Placed, Chain
    <2>6. QED
      BY Zenon, <1>2, <1>3, <1>5, <2>3, <2>4, <2>5, QuietStore
  <1>8. QED
    BY Zenon, <1>6, <1>7

(* A writer that damages its chain found a stale position: another call    *)
(* was about to change the chain too, or it was damaged before.            *)
LEMMA DamageSeen ==
  ASSUME IInv, NEW t \in Threads, thread[t].pc = "found", Damages(t)
  PROVE  /\ damaged \subseteq damaged' /\ damaged' \subseteq Hashes
         /\ damaged' \subseteq damaged \cup {HashOf[thread[t].req.key]}
         /\ HashOf[thread[t].req.key] \notin damaged' =>
              /\ HashOf[thread[t].req.key] \notin damaged
              /\ thread[t].pos = FindEntry(Chain(thread[t].req.key), thread[t].req.key)
         /\ HashOf[thread[t].req.key] \in damaged' =>
              HashOf[thread[t].req.key] \in damaged \/ ~thread[t].alone
  <1>1. HashOf[thread[t].req.key] \in Hashes /\ thread[t].req = handler[t].req /\ Types
    BY Zenon, InCall
  <1>2. damaged \subseteq Hashes
    BY Zenon, <1>1 DEF Types
  <1>3. Placed(thread[t], files, damaged)
    BY Zenon DEF IInv
  <1>4. CASE Stale(t)
    <2>1. damaged' = damaged \cup {HashOf[thread[t].req.key]}
      BY Zenon, <1>4 DEF Damages
    <2>2. HashOf[thread[t].req.key] \in damaged \/ ~thread[t].alone
      BY Zenon, <1>3, <1>4 DEF Placed, Stale, Chain
    <2>3. QED
      BY Zenon, <1>1, <1>2, <2>1, <2>2
  <1>5. CASE ~Stale(t)
    <2>1. damaged' = damaged
      BY Zenon, <1>5 DEF Damages
    <2>2. QED
      BY Zenon, <1>2, <1>5, <2>1 DEF Stale
  <1>6. QED
    BY Zenon, <1>4, <1>5

(* kvstore_put: the file that was found, or the end of the chain, gets the *)
(* new entry.                                                              *)
LEMMA PutOpenEffect ==
  ASSUME IInv, NEW t \in Threads, PutOpen(t)
  PROVE  /\ FilesOK(files') /\ ChainsOK(files', damaged')
         /\ HashOf[thread[t].req.key] \notin damaged' =>
              LookIn(files', thread[t].req.key) = thread[t].req.value
         /\ \A h \in Hashes : h # HashOf[thread[t].req.key] => files'[h] = files[h]
         /\ \A j \in Keys : j # thread[t].req.key /\ HashOf[j] \notin damaged' =>
              LookIn(files', j) = LookIn(files, j)
         /\ PutPos(Chain(thread[t].req.key), thread[t].pos) \in 0..ERRNOKEY
  <1>1. PICK k : k = thread[t].req.key
    BY Zenon
  <1>2. PICK v : v = thread[t].req.value
    BY Zenon
  <1>3. PICK c : c = files[HashOf[k]]
    BY Zenon
  <1>4. thread[t].pc = "found" /\ thread[t].req.type = "PUTREQ" /\ Damages(t)
    BY Zenon DEF PutOpen
  <1>5. /\ FilesOK(files) /\ ChainsOK(files, damaged) /\ RawChain(c) /\ k \in Keys /\ v \in Values
        /\ HashOf[k] \notin damaged => ChainOK(HashOf[k], c)
    BY Zenon, <1>1, <1>2, <1>3, <1>4, InCall, Kinds DEF Chain
  <1>6. /\ damaged \subseteq damaged' /\ damaged' \subseteq damaged \cup {HashOf[k]}
        /\ HashOf[k] \notin damaged' => HashOf[k] \notin damaged /\ thread[t].pos = FindEntry(c, k)
    BY Zenon, <1>1, <1>3, <1>4, DamageSeen DEF Chain
  <1>7. PICK n : n = PutPos(c, thread[t].pos)
    BY Zenon
  <1>8. PICK e : e = [key |-> k, value |-> v]
    BY Zenon
  <1>9. PICK d : d = Write(c, n, e)
    BY Zenon
  <1>10. n \in Positions /\ files' = [files EXCEPT ![HashOf[k]] = d]
    BY Zenon, <1>1, <1>2, <1>3, <1>7, <1>8, <1>9 DEF PutOpen, Chain
  <1>11. RawChain(d)
    <2>1. e \in FileEntry
      BY Zenon, <1>5, <1>8 DEF FileEntry
    <2>2. QED
      BY Zenon, <1>5, <1>9, <1>10, <2>1, RawWrite
  <1>12. HashOf[k] \notin damaged' =>
           /\ ChainOK(HashOf[k], d)
           /\ ValueAt(d, k) = v
           /\ SameBut(c, d, k)
    <2> SUFFICES ASSUME HashOf[k] \notin damaged'
                 PROVE  ChainOK(HashOf[k], d) /\ ValueAt(d, k) = v /\ SameBut(c, d, k)
      BY Zenon
    <2>1. n = PutPos(c, FindEntry(c, k)) /\ ChainOK(HashOf[k], c)
      BY Zenon, <1>5, <1>6, <1>7
    <2>2. PutPos(c, FindEntry(c, k)) \in Positions
      BY Zenon, <1>10, <2>1
    <2>3. d = Write(c, PutPos(c, FindEntry(c, k)), [key |-> k, value |-> v])
      BY Zenon, <1>8, <1>9, <2>1
    <2>4. /\ ChainOK(HashOf[k], d)
          /\ ValueAt(d, k) = v
          /\ \A j \in Keys : j # k => ValueAt(d, j) = ValueAt(c, j)
      BY <1>5, <2>1, <2>2, <2>3, WriteChain
    <2>5. QED
      BY Zenon, <2>4 DEF SameBut
  <1>13. /\ FilesOK(files') /\ ChainsOK(files', damaged')
         /\ LookIn(files', k) = ValueAt(d, k)
         /\ \A h \in Hashes : h # HashOf[k] => files'[h] = files[h]
         /\ \A j \in Keys : j # k /\ HashOf[j] \notin damaged' => LookIn(files', j) = LookIn(files, j)
    BY Zenon, <1>3, <1>5, <1>6, <1>10, <1>11, <1>12, Replace
  <1>14. n \in 0..ERRNOKEY
    BY <1>10, ChainBound DEF Positions, ERRNOKEY
  <1>15. QED
    BY Zenon, <1>1, <1>2, <1>3, <1>7, <1>12, <1>13, <1>14 DEF Chain

(* kvstore_put opens the file it writes: the invariant is kept; *)
LEMMA PutOpenInv ==
  ASSUME IInv, NEW t \in Threads, PutOpen(t), UNCHANGED <<cache, handler, raced>>
  PROVE  IInv'
  <1> DEFINE k == thread[t].req.key
  <1>1. PICK n : n = PutPos(Chain(k), thread[t].pos)
    BY Zenon
  <1>2. PICK th : th = [thread[t] EXCEPT !.pc = "opened", !.at = n, !.ret = "ok"]
    BY Zenon
  <1>3. thread[t].pc = "found" /\ thread[t].req.type = "PUTREQ" /\ Damages(t)
    BY Zenon DEF PutOpen
  <1>4. /\ Types /\ thread[t] # IdleThread /\ thread[t] \in Thread
        /\ thread[t].req = handler[t].req /\ k \in Keys /\ thread[t].req \in Call
        /\ ThreadOK(thread[t], handler[t], files, Doubt)
    BY Zenon, <1>3, InCall
  <1>5. /\ FilesOK(files') /\ ChainsOK(files', damaged')
        /\ HashOf[k] \notin damaged' => LookIn(files', k) = thread[t].req.value
        /\ \A h \in Hashes : h # HashOf[k] => files'[h] = files[h]
        /\ \A j \in Keys : j # k /\ HashOf[j] \notin damaged' => LookIn(files', j) = LookIn(files, j)
        /\ n \in 0..ERRNOKEY
    BY Zenon, <1>1, PutOpenEffect
  <1>6. /\ th \in Thread /\ th.pc = "opened" /\ th.req = thread[t].req /\ th.ret = "ok"
    BY Zenon, <1>2, <1>4, <1>5 DEF Thread
  <1>7. thread' = [thread EXCEPT ![t] = th]
    BY Zenon, <1>1, <1>2, <1>4 DEF PutOpen, Types
  <1>8. damaged \subseteq damaged' /\ damaged' \subseteq Hashes
    BY Zenon, <1>3, DamageSeen
  <1>9. k \notin Doubt' => LookIn(files', k) = thread[t].req.value
    BY Zenon, <1>4, <1>5 DEF Doubt
  <1>10. ThreadOK(th, handler[t], files', Doubt')
    BY Zenon, <1>3, <1>4, <1>6, <1>9 DEF ThreadOK
  <1>11. Between(th, k)
    BY Zenon, <1>3, <1>6, ThreadFields DEF Between
  <1>12. QED
    BY Zenon, <1>3, <1>4, <1>5, <1>6, <1>7, <1>8, <1>10, <1>11, WriteStore

(* so it is when the entry is written, *)
LEMMA PutCloseInv ==
  ASSUME IInv, NEW t \in Threads, PutClose(t), UNCHANGED <<cache, handler, raced>>
  PROVE  IInv'
  <1>1. PICK th : th = [thread[t] EXCEPT !.pc = "done", !.ret = "ok"]
    BY Zenon
  <1>2. thread[t].pc = "opened"
    BY Zenon DEF PutClose
  <1>3. /\ Types /\ thread[t] # IdleThread /\ thread[t] \in Thread
        /\ ThreadOK(thread[t], handler[t], files, Doubt)
    BY Zenon, <1>2, InCall
  <1>4. /\ th \in Thread /\ th.pc = "done" /\ th.req = thread[t].req /\ th.ret = "ok"
        /\ th.alone = thread[t].alone
    BY Zenon, <1>1, <1>3 DEF Thread
  <1>5. thread' = [thread EXCEPT ![t] = th] /\ UNCHANGED <<files, damaged>>
    BY Zenon, <1>1, <1>3 DEF PutClose, Return, Types
  <1>6. ThreadOK(th, handler[t], files, Doubt) /\ Placed(th, files, damaged)
    BY Zenon, <1>2, <1>3, <1>4 DEF ThreadOK, Placed
  <1>7. \A j \in Keys : Between(thread[t], j) => Between(th, j)
    BY Zenon, <1>4, ThreadFields DEF Between
  <1>8. QED
    BY Zenon, <1>3, <1>4, <1>5, <1>6, <1>7, QuietStore

(* kvstore_del finds its file where it was, and the key is gone after it.  *)
LEMMA DelEffect ==
  ASSUME IInv, NEW t \in Threads, Del(t)
  PROVE  /\ FilesOK(files') /\ ChainsOK(files', damaged')
         /\ HashOf[thread[t].req.key] \notin damaged' =>
              /\ LookIn(files, thread[t].req.key) # Absent
              /\ LookIn(files', thread[t].req.key) = Absent
              /\ Return(t, "ok")
         /\ \A h \in Hashes : h # HashOf[thread[t].req.key] => files'[h] = files[h]
         /\ \A j \in Keys : j # thread[t].req.key /\ HashOf[j] \notin damaged' =>
              LookIn(files', j) = LookIn(files, j)
         /\ Return(t, "ok") \/ Return(t, "error")
  <1>1. PICK k : k = thread[t].req.key
    BY Zenon
  <1>2. PICK c : c = files[HashOf[k]]
    BY Zenon
  <1>3. PICK n : n = thread[t].pos
    BY Zenon
  <1>4. thread[t].pc = "found" /\ thread[t].req.type = "DELREQ" /\ Damages(t)
    BY Zenon DEF Del
  <1>5. /\ FilesOK(files) /\ ChainsOK(files, damaged) /\ RawChain(c) /\ k \in Keys
        /\ HashOf[k] \in Hashes
        /\ HashOf[k] \notin damaged => ChainOK(HashOf[k], c)
        /\ n \in 0..ERRNOKEY /\ n # ERRNOKEY
    BY Zenon, <1>1, <1>2, <1>3, <1>4, InCall, ThreadFields DEF Chain, ThreadOK
  <1>6. /\ damaged \subseteq damaged' /\ damaged' \subseteq damaged \cup {HashOf[k]}
        /\ HashOf[k] \notin damaged' => HashOf[k] \notin damaged /\ n = FindEntry(c, k)
    BY Zenon, <1>1, <1>2, <1>3, <1>4, DamageSeen DEF Chain
  <1>7. n \in 0..MaxChain
    BY <1>5, ChainBound DEF ERRNOKEY
  <1> DEFINE gone == FreePos(c, n + 1) = n + 1 /\ n \notin DOMAIN c
  <1>8. /\ files' = IF gone THEN files ELSE [files EXCEPT ![HashOf[k]] = Unlink(@, n)]
        /\ Return(t, IF gone THEN "error" ELSE "ok")
    BY Zenon, <1>1, <1>2, <1>3 DEF Del, Chain
  <1> HIDE DEF gone
  <1>9. PICK d : d = IF gone THEN c ELSE Unlink(c, n)
    BY Zenon
  <1>10. files' = [files EXCEPT ![HashOf[k]] = d]
    <2>1. CASE gone
      BY Zenon, <1>2, <1>5, <1>8, <1>9, <2>1 DEF FilesOK
    <2>2. CASE ~gone
      BY Zenon, <1>2, <1>8, <1>9, <2>2
    <2>3. QED
      BY Zenon, <2>1, <2>2
  <1>11. RawChain(d)
    BY Zenon, <1>5, <1>7, <1>9, RawUnlink
  <1>12. HashOf[k] \notin damaged' =>
           /\ ~gone
           /\ ChainOK(HashOf[k], d)
           /\ ValueAt(c, k) # Absent
           /\ ValueAt(d, k) = Absent
           /\ SameBut(c, d, k)
    <2> SUFFICES ASSUME HashOf[k] \notin damaged'
                 PROVE  /\ ~gone /\ ChainOK(HashOf[k], d) /\ ValueAt(c, k) # Absent
                        /\ ValueAt(d, k) = Absent /\ SameBut(c, d, k)
      BY Zenon
    <2>1. n = FindEntry(c, k) /\ ChainOK(HashOf[k], c) /\ FindEntry(c, k) # ERRNOKEY
      BY Zenon, <1>5, <1>6
    <2>2. LET dd == Unlink(c, FindEntry(c, k))
          IN /\ FindEntry(c, k) \in DOMAIN c
             /\ ChainOK(HashOf[k], dd)
             /\ ValueAt(dd, k) = Absent
             /\ \A j \in Keys : j # k => ValueAt(dd, j) = ValueAt(c, j)
      BY Zenon, <1>5, <2>1, UnlinkChain
    <2>3. ~gone
      BY Zenon, <2>1, <2>2 DEF gone
    <2>4. d = Unlink(c, FindEntry(c, k))
      BY Zenon, <1>9, <2>1, <2>3
    <2>5. ValueAt(c, k) # Absent
      BY Zenon, <2>1, FindType
    <2>6. QED
      BY Zenon, <2>2, <2>3, <2>4, <2>5 DEF SameBut
  <1>13. /\ FilesOK(files') /\ ChainsOK(files', damaged')
         /\ LookIn(files', k) = ValueAt(d, k)
         /\ \A h \in Hashes : h # HashOf[k] => files'[h] = files[h]
         /\ \A j \in Keys : j # k /\ HashOf[j] \notin damaged' => LookIn(files', j) = LookIn(files, j)
    BY Zenon, <1>2, <1>5, <1>6, <1>10, <1>11, <1>12, Replace
  <1>14. LookIn(files, k) = ValueAt(c, k)
    BY Zenon, <1>2 DEF LookIn
  <1>15. QED
    BY Zenon, <1>1, <1>8, <1>12, <1>13, <1>14

(* and by kvstore_del. *)
LEMMA DelInv ==
  ASSUME IInv, NEW t \in Threads, Del(t), UNCHANGED <<cache, handler, raced>>
  PROVE  IInv'
  <1> DEFINE k == thread[t].req.key
  <1>1. thread[t].pc = "found" /\ thread[t].req.type = "DELREQ" /\ Damages(t)
    BY Zenon DEF Del
  <1>2. /\ Types /\ thread[t] # IdleThread /\ thread[t] \in Thread /\ k \in Keys
        /\ thread[t].req = handler[t].req /\ thread[t].req \in Call
    BY Zenon, <1>1, InCall
  <1>3. /\ FilesOK(files') /\ ChainsOK(files', damaged')
        /\ HashOf[k] \notin damaged' => LookIn(files', k) = Absent
        /\ \A h \in Hashes : h # HashOf[k] => files'[h] = files[h]
        /\ \A j \in Keys : j # k /\ HashOf[j] \notin damaged' => LookIn(files', j) = LookIn(files, j)
    BY Zenon, DelEffect
  <1>4. PICK ret \in {"ok", "error"} : Return(t, ret)
    BY Zenon, DelEffect
  <1>5. PICK th : th = [thread[t] EXCEPT !.pc = "done", !.ret = ret]
    BY Zenon
  <1>6. th \in Thread /\ th.pc = "done" /\ th.req = thread[t].req /\ th.ret = ret
    BY Zenon, <1>2, <1>4, <1>5 DEF Thread
  <1>7. thread' = [thread EXCEPT ![t] = th]
    BY Zenon, <1>2, <1>4, <1>5 DEF Return, Types
  <1>8. damaged \subseteq damaged' /\ damaged' \subseteq Hashes
    BY Zenon, <1>1, DamageSeen
  <1>9. k \notin Doubt' => LookIn(files', k) = Absent
    BY Zenon, <1>2, <1>3 DEF Doubt
  <1>10. ThreadOK(th, handler[t], files', Doubt')
    BY Zenon, <1>1, <1>2, <1>4, <1>6, <1>9 DEF ThreadOK
  <1>11. QED
    BY Zenon, <1>1, <1>2, <1>3, <1>6, <1>7, <1>8, <1>10, WriteStore

(* Every step of the store keeps the invariant. *)
LEMMA StoreStepInv ==
  ASSUME IInv, NEW t \in Threads, StoreStep(t), UNCHANGED <<cache, handler, raced>>
  PROVE  IInv'
  BY Zenon, GetInv, FindInv, PutOpenInv, PutCloseInv, DelInv DEF StoreStep

-----------------------------------------------------------------------------
(* a and b are the same call, but for whether it is alone. *)
SameCall(a, b) == b = a \/ (a # IdleThread /\ b = [a EXCEPT !.alone = FALSE])

(* What is known of a call is known when it is no longer alone. *)
LEMMA SameCallKeeps ==
  ASSUME NEW a \in Thread \cup {IdleThread}, NEW b, SameCall(a, b)
  PROVE  /\ b \in Thread \cup {IdleThread}
         /\ b # IdleThread <=> a # IdleThread
         /\ \A hd, f, R : ThreadOK(a, hd, f, R) => ThreadOK(b, hd, f, R)
         /\ \A f, D : Placed(a, f, D) => Placed(b, f, D)
         /\ \A k : Between(b, k) <=> Between(a, k)
         /\ \A h : Changing(b, h) <=> Changing(a, h)
         /\ ~a.alone => ~b.alone
  <1>1. CASE b = a
    BY Zenon, <1>1
  <1>2. CASE a # IdleThread /\ b = [a EXCEPT !.alone = FALSE]
    <2>1. a \in Thread
      BY Zenon, <1>2
    <2>2. /\ b \in Thread /\ b.pc = a.pc /\ b.req = a.req /\ b.pos = a.pos
          /\ b.at = a.at /\ b.ret = a.ret /\ b.alone = FALSE
      BY Zenon, <1>2, <2>1 DEF Thread
    <2>3. b # IdleThread
      BY Zenon, <2>2, ThreadFields
    <2>4. \A hd, f, R : ThreadOK(a, hd, f, R) => ThreadOK(b, hd, f, R)
      <3> SUFFICES ASSUME NEW hd, NEW f, NEW R, ThreadOK(a, hd, f, R)
                   PROVE  ThreadOK(b, hd, f, R)
        BY Zenon
      <3>1. PICK r : r = a.req
        BY Zenon
      <3>2. PICK pc : pc = a.pc
        BY Zenon
      <3>3. PICK ret : ret = a.ret
        BY Zenon
      <3>4. b.req = r /\ b.pc = pc /\ b.ret = ret /\ b.pos = a.pos
        BY Zenon, <2>2, <3>1, <3>2, <3>3
      <3>5. QED
        BY <1>2, <3>1, <3>2, <3>3, <3>4 DEF ThreadOK
    <2>5. \A f, D : Placed(b, f, D)
      BY Zenon, <2>2 DEF Placed
    <2>6. \A k : Between(b, k) <=> Between(a, k)
      BY Zenon, <1>2, <2>2, <2>3 DEF Between
    <2>7. \A h : Changing(b, h) <=> Changing(a, h)
      BY Zenon, <2>2 DEF Changing
    <2>8. QED
      BY Zenon, <1>2, <2>2, <2>3, <2>4, <2>5, <2>6, <2>7
  <1>3. QED
    BY Zenon, <1>1, <1>2 DEF SameCall

(* A step of the handler t, which goes on with its request or is done with *)
(* it, and may begin or end a call of the store and change the cache.      *)
LEMMA HandlerStep ==
  ASSUME IInv, NEW t \in Threads, handler[t] # IdleThread,
         NEW hd \in Handler \cup {IdleThread}, NEW th \in Thread \cup {IdleThread},
         handler' = [handler EXCEPT ![t] = hd],
         thread' \in [Threads -> Thread \cup {IdleThread}], thread'[t] = th,
         \A u \in Threads : u # t => SameCall(thread[u], thread'[u]),
         Apart(thread'), Placed(th, files, damaged),
         UNCHANGED <<files, damaged, raced>>,
         cache' \in Store,
         th # IdleThread <=> hd.pc = "store",
         hd # IdleThread => hd.req = handler[t].req,
         ThreadOK(th, hd, files, Doubt),
         HandlerOK(hd, files, cache', Doubt),
         \A j \in Keys : j # handler[t].req.key => cache'[j] \in {cache[j], Absent},
         \/ handler[t].req.key \in Doubt
         \/ cache'[handler[t].req.key] \in {Absent, LookIn(files, handler[t].req.key)}
         \/ /\ cache' = cache
            /\ Between(thread[t], handler[t].req.key) => Between(th, handler[t].req.key)
  PROVE  IInv'
  <1> DEFINE k == handler[t].req.key
  <1>1. \A u \in Threads : handler'[u] = IF u = t THEN hd ELSE handler[u]
    BY Zenon DEF IInv, Types
  <1>2. ASSUME NEW u \in Threads, u # t
        PROVE  /\ thread'[u] # IdleThread <=> thread[u] # IdleThread
               /\ ThreadOK(thread'[u], handler[u], files, Doubt)
               /\ Placed(thread'[u], files, damaged)
               /\ \A j : Between(thread[u], j) => Between(thread'[u], j)
    <2>1. thread[u] \in Thread \cup {IdleThread} /\ SameCall(thread[u], thread'[u])
      BY Zenon, <1>2 DEF IInv, Types
    <2>2. ThreadOK(thread[u], handler[u], files, Doubt) /\ Placed(thread[u], files, damaged)
      BY Zenon DEF IInv
    <2>3. PICK b : b = thread'[u]
      BY Zenon
    <2>4. PICK a \in Thread \cup {IdleThread} : a = thread[u]
      BY Zenon, <2>1
    <2>5. SameCall(a, b)
      BY Zenon, <2>1, <2>3, <2>4
    <2>6. /\ b \in Thread \cup {IdleThread}
          /\ b # IdleThread <=> a # IdleThread
          /\ \A g, f, R : ThreadOK(a, g, f, R) => ThreadOK(b, g, f, R)
          /\ \A f, D : Placed(a, f, D) => Placed(b, f, D)
          /\ \A j : Between(b, j) <=> Between(a, j)
          /\ \A h : Changing(b, h) <=> Changing(a, h)
          /\ ~a.alone => ~b.alone
      BY Zenon, <2>5, SameCallKeeps
    <2>7. ThreadOK(a, handler[u], files, Doubt) /\ Placed(a, files, damaged)
      BY Zenon, <2>2, <2>4
    <2>8. ThreadOK(b, handler[u], files, Doubt) /\ Placed(b, files, damaged)
      BY Zenon, <2>6, <2>7
    <2>9. \A j : Between(a, j) => Between(b, j)
      BY Zenon, <2>6
    <2>10. QED
      BY Zenon, <2>3, <2>4, <2>6, <2>8, <2>9
  <1>3. Types'
    <2>1. \A u \in Threads : thread[u] # IdleThread <=> handler[u].pc = "store"
      BY Zenon DEF IInv, Types
    <2>2. \A u \in Threads : thread'[u] # IdleThread <=> handler'[u].pc = "store"
      <3> SUFFICES ASSUME NEW u \in Threads
                   PROVE  thread'[u] # IdleThread <=> handler'[u].pc = "store"
        BY Zenon
      <3>1. CASE u = t
        BY Zenon, <1>1, <3>1
      <3>2. CASE u # t
        BY Zenon, <1>1, <1>2, <2>1, <3>2
      <3>3. QED
        BY Zenon, <3>1, <3>2
    <2>3. handler' \in [Threads -> Handler \cup {IdleThread}]
      BY Zenon DEF IInv, Types
    <2>4. QED
      BY Zenon, <2>2, <2>3 DEF IInv, Types
  <1>4. handler[t] \in Handler /\ handler[t].req \in Call /\ k \in Keys
    BY Zenon, Shapes, HandlerFields, Kinds DEF IInv
  <1>5. Doubt' = Doubt
    BY Zenon DEF Doubt
  <1>6. ASSUME NEW u \in Threads, u # t PROVE HandlerOK(handler[u], files, cache', Doubt)
    <2> SUFFICES ASSUME handler[u] # IdleThread
                 PROVE  HandlerOK(handler[u], files, cache', Doubt)
      BY Zenon DEF HandlerOK
    <2>1. HandlerOK(handler[u], files, cache, Doubt) /\ Types
      BY Zenon DEF IInv
    <2>2. handler[u] \in Handler
      BY Zenon, <2>1, Shapes
    <2>3. handler[u].req \in Call /\ handler[u].req.key \in Keys
      BY Zenon, <2>2, HandlerFields, Kinds
    <2>4. CASE handler[u].req.type # "DELREQ"
      BY Zenon, <2>1, <2>4 DEF HandlerOK
    <2>5. CASE handler[u].req.type = "DELREQ"
      <3>1. Writes(handler[u])
        BY Zenon, <2>3, <2>5, Kinds DEF Writes
      <3>2. handler[u].req.key = k => k \in Doubt
        BY Zenon, <1>6, <3>1, BesideWriter
      <3>3. \/ handler[u].req.key \in Doubt
            \/ cache'[handler[u].req.key] \in {cache[handler[u].req.key], Absent}
        BY Zenon, <2>3, <3>2
      <3>4. QED
        BY Zenon, <2>1, <2>5, <3>3 DEF HandlerOK
    <2>6. QED
      BY Zenon, <2>4, <2>5
  <1>7. \A u \in Threads : /\ ThreadOK(thread'[u], handler'[u], files', Doubt')
                           /\ Placed(thread'[u], files', damaged')
                           /\ HandlerOK(handler'[u], files', cache', Doubt')
    <2> SUFFICES ASSUME NEW u \in Threads
                 PROVE  /\ ThreadOK(thread'[u], handler'[u], files, Doubt)
                        /\ Placed(thread'[u], files, damaged)
                        /\ HandlerOK(handler'[u], files, cache', Doubt)
      BY Zenon, <1>5
    <2>1. CASE u = t
      BY Zenon, <1>1, <2>1
    <2>2. CASE u # t
      BY Zenon, <1>1, <1>2, <1>6, <2>2
    <2>3. QED
      BY Zenon, <2>1, <2>2
  <1>8. Coherent(thread', files', cache', Doubt')
    <2> SUFFICES ASSUME NEW j \in Keys \ Doubt
                 PROVE  \/ \E u \in Threads : Between(thread'[u], j)
                        \/ cache'[j] \in {Absent, LookIn(files, j)}
      BY Zenon, <1>5 DEF Coherent
    <2>1. \/ \E u \in Threads : Between(thread[u], j)
          \/ cache[j] \in {Absent, LookIn(files, j)}
      BY Zenon DEF IInv, Coherent
    <2>2. \A u \in Threads : u # t /\ Between(thread[u], j) => Between(thread'[u], j)
      BY Zenon, <1>2
    <2>3. CASE j # k
      <3>1. ThreadOK(thread[t], handler[t], files, Doubt)
        BY Zenon DEF IInv
      <3>2. ~Between(thread[t], j)
        BY Zenon, <2>3, <3>1 DEF Between, ThreadOK
      <3>3. QED
        BY Zenon, <2>1, <2>2, <2>3, <3>2
    <2>4. CASE j = k
      BY Zenon, <2>1, <2>2, <2>4
    <2>5. QED
      BY Zenon, <2>3, <2>4
  <1>9. RacesSeen(handler', raced')
    <2>1. \A u \in Threads : \A j \in Keys : /\ Writes(handler'[u]) => Writes(handler[u])
                                             /\ Serves(handler'[u], j) => Serves(handler[u], j)
      BY Zenon, <1>1 DEF Writes, Serves
    <2>2. RacesSeen(handler, raced)
      BY Zenon DEF IInv
    <2>3. QED
      BY Zenon, <2>1, <2>2 DEF RacesSeen
  <1>10. FilesOK(files') /\ ChainsOK(files', damaged')
    BY Zenon DEF IInv
  <1>11. QED
    BY Zenon, <1>3, <1>7, <1>8, <1>9, <1>10 DEF IInv

(* The call of t ends, or there was none. *)
LEMMA Leaves ==
  ASSUME IInv, NEW t \in Threads, thread' = [thread EXCEPT ![t] = IdleThread]
  PROVE  /\ thread' \in [Threads -> Thread \cup {IdleThread}] /\ thread'[t] = IdleThread
         /\ \A u \in Threads : u # t => SameCall(thread[u], thread'[u])
         /\ Apart(thread')
         /\ Placed(IdleThread, files, damaged)
  <1>1. \A u \in Threads : thread'[u] = IF u = t THEN IdleThread ELSE thread[u]
    BY Zenon DEF IInv, Types
  <1>2. IdleThread.pc = "idle"
    BY Zenon DEF IdleThread
  <1>3. thread' \in [Threads -> Thread \cup {IdleThread}]
    BY Zenon DEF IInv, Types
  <1>4. Apart(thread')
    <2>1. \A u \in Threads : \A h \in Hashes :
            Changing(thread'[u], h) => Changing(thread[u], h) /\ thread'[u] = thread[u]
      BY Zenon, <1>1, <1>2 DEF Changing
    <2>2. QED
      BY Zenon, <2>1 DEF IInv, Apart
  <1>5. Placed(IdleThread, files, damaged)
    BY Zenon, <1>2 DEF Placed
  <1>6. QED
    BY Zenon, <1>1, <1>3, <1>4, <1>5 DEF SameCall

(* A step of a handler that is not in the store after it. *)
LEMMA HandlerLeaves ==
  ASSUME IInv, NEW t \in Threads, handler[t] # IdleThread,
         NEW hd \in Handler \cup {IdleThread},
         handler' = [handler EXCEPT ![t] = hd], thread' = [thread EXCEPT ![t] = IdleThread],
         UNCHANGED <<files, damaged, raced>>,
         cache' \in Store, hd.pc # "store",
         hd # IdleThread => hd.req = handler[t].req,
         HandlerOK(hd, files, cache', Doubt),
         \A j \in Keys : j # handler[t].req.key => cache'[j] \in {cache[j], Absent},
         \/ handler[t].req.key \in Doubt
         \/ cache'[handler[t].req.key] \in {Absent, LookIn(files, handler[t].req.key)}
         \/ cache' = cache /\ ~Between(thread[t], handler[t].req.key)
  PROVE  IInv'
  <1>1. /\ thread' \in [Threads -> Thread \cup {IdleThread}] /\ thread'[t] = IdleThread
        /\ \A u \in Threads : u # t => SameCall(thread[u], thread'[u])
        /\ Apart(thread')
        /\ Placed(IdleThread, files, damaged)
    BY Zenon, Leaves
  <1>2. ThreadOK(IdleThread, hd, files, Doubt)
    BY Zenon DEF ThreadOK
  <1>3. QED
    BY Zenon, <1>1, <1>2, HandlerStep

(* What kvcache_put and kvcache_del do to the cache. *)
LEMMA CachePut ==
  ASSUME IInv, NEW k \in Keys, NEW v \in Values, Cache!Put(k, v)
  PROVE  /\ cache' \in Store /\ cache'[k] = v
         /\ \A j \in Keys : j # k => cache'[j] \in {cache[j], Absent}
  <1>1. PICK lost : cache' = [x \in Keys |-> IF x = k THEN v
                                             ELSE IF x \in lost THEN Absent ELSE cache[x]]
    BY Zenon DEF Cache!Put
  <1>2. QED
    BY Zenon, <1>1 DEF IInv, Types, Store

(* kvcache_del removes the key and adds nothing. *)
LEMMA CacheDel ==
  ASSUME IInv, NEW k \in Keys, Cache!Del(k)
  PROVE  /\ cache' \in Store /\ cache'[k] = Absent
         /\ \A j \in Keys : j # k => cache'[j] \in {cache[j], Absent}
  BY Zenon DEF IInv, Types, Store, Cache!Del

(* The handler t is at work on a request. *)
LEMMA AtWork ==
  ASSUME IInv, NEW t \in Threads, handler[t].pc # "idle"
  PROVE  /\ Types /\ handler[t] # IdleThread /\ handler[t] \in Handler
         /\ handler[t].req \in Call /\ handler[t].req.key \in Keys
         /\ handler[t].pc # "store" => thread[t] = IdleThread
         /\ handler[t].pc = "store" => thread[t] \in Thread /\ thread[t] # IdleThread
         /\ HandlerOK(handler[t], files, cache, Doubt)
         /\ ThreadOK(thread[t], handler[t], files, Doubt)
         /\ cache[handler[t].req.key] \in Values \cup {Absent}
         /\ cache \in Store
  <1>1. Types /\ HandlerOK(handler[t], files, cache, Doubt)
              /\ ThreadOK(thread[t], handler[t], files, Doubt)
    BY Zenon DEF IInv
  <1>2. handler[t] # IdleThread /\ handler[t] \in Handler
    BY Zenon, <1>1, Shapes
  <1>3. handler[t].req \in Call /\ handler[t].req.key \in Keys
    BY Zenon, <1>2, HandlerFields, Kinds
  <1>4. thread[t] # IdleThread <=> handler[t].pc = "store"
    BY Zenon, <1>1 DEF Types
  <1>5. thread[t] # IdleThread => thread[t] \in Thread
    BY Zenon, <1>1, Shapes
  <1>6. cache \in Store /\ cache[handler[t].req.key] \in Values \cup {Absent}
    BY Zenon, <1>1, <1>3 DEF Types, Store
  <1>7. QED
    BY Zenon, <1>1, <1>2, <1>3, <1>4, <1>5, <1>6

(* Goto as the update of a whole record. *)
LEMMA GotoEffect ==
  ASSUME Types, NEW t \in Threads, handler[t] \in Handler,
         NEW pc \in {"called", "store", "deleted", "missed", "done"},
         NEW ret \in Values \cup {Absent, "ok", "error", NoCall}, Goto(t, pc, ret)
  PROVE  \E hd \in Handler : /\ hd.pc = pc /\ hd.ret = ret /\ hd.req = handler[t].req
                             /\ hd # IdleThread
                             /\ handler' = [handler EXCEPT ![t] = hd]
  <1>1. PICK hd : hd = [handler[t] EXCEPT !.pc = pc, !.ret = ret]
    BY Zenon
  <1>2. hd \in Handler /\ hd.pc = pc /\ hd.ret = ret /\ hd.req = handler[t].req
    BY Zenon, <1>1 DEF Handler
  <1>3. handler' = [handler EXCEPT ![t] = hd]
    BY Zenon, <1>1 DEF Goto, Types
  <1>4. hd # IdleThread
    BY Zenon, <1>2, HandlerFields
  <1>5. QED
    BY Zenon, <1>2, <1>3, <1>4

(* The threads after a call of the store has begun. *)
LEMMA BeginThreads ==
  ASSUME Types, NEW t \in Threads, NEW r \in Call, Begin(t, r)
  PROVE  /\ thread' \in [Threads -> Thread \cup {IdleThread}]
         /\ thread'[t] \in Thread /\ thread'[t].pc = "called" /\ thread'[t].req = r
         /\ thread'[t].ret = NoCall
         /\ thread'[t].alone <=> (r \in Request => \A v \in Threads : ~AboutToChange(v, HashOf[r.key]))
         /\ \A u \in Threads : u # t =>
              /\ SameCall(thread[u], thread'[u])
              /\ r \in Request /\ AboutToChange(u, HashOf[r.key]) =>
                   thread'[u] = [thread[u] EXCEPT !.alone = FALSE]
              /\ ~(r \in Request /\ AboutToChange(u, HashOf[r.key])) => thread'[u] = thread[u]
         /\ UNCHANGED <<files, damaged>> /\ thread[t] = IdleThread
  <1>1. PICK al \in BOOLEAN : al = (r \in Request => \A v \in Threads : ~AboutToChange(v, HashOf[r.key]))
    BY Zenon
  <1>2. PICK th : th = [pc |-> "called", req |-> r, pos |-> ERRNOKEY, at |-> ERRNOKEY,
                        ret |-> NoCall, alone |-> al]
    BY Zenon
  <1>3. ERRNOKEY \in 0..ERRNOKEY
    BY ChainBound DEF ERRNOKEY
  <1>4. th \in Thread /\ th.pc = "called" /\ th.req = r /\ th.ret = NoCall /\ th.alone = al
    BY Zenon, <1>2, <1>3 DEF Thread
  <1>5. thread' = [u \in Threads |->
          IF u = t THEN th
          ELSE IF r \in Request /\ AboutToChange(u, HashOf[r.key])
               THEN [thread[u] EXCEPT !.alone = FALSE] ELSE thread[u]]
    BY Zenon, <1>1, <1>2 DEF Begin
  <1>6. ASSUME NEW u \in Threads, u # t
        PROVE  /\ SameCall(thread[u], thread'[u])
               /\ r \in Request /\ AboutToChange(u, HashOf[r.key]) =>
                    thread'[u] = [thread[u] EXCEPT !.alone = FALSE]
               /\ ~(r \in Request /\ AboutToChange(u, HashOf[r.key])) => thread'[u] = thread[u]
    <2>1. AboutToChange(u, HashOf[r.key]) => thread[u] # IdleThread
      <3>1. IdleThread.pc \notin {"called", "found"}
        BY Zenon DEF IdleThread
      <3>2. QED
        BY Zenon, <3>1 DEF AboutToChange
    <2>2. CASE r \in Request /\ AboutToChange(u, HashOf[r.key])
      BY Zenon, <1>5, <1>6, <2>1, <2>2 DEF SameCall
    <2>3. CASE ~(r \in Request /\ AboutToChange(u, HashOf[r.key]))
      BY Zenon, <1>5, <1>6, <2>3 DEF SameCall
    <2>4. QED
      BY Zenon, <2>2, <2>3
  <1>7. thread' \in [Threads -> Thread \cup {IdleThread}]
    <2>1. \A u \in Threads : thread'[u] \in Thread \cup {IdleThread}
      <3> SUFFICES ASSUME NEW u \in Threads PROVE thread'[u] \in Thread \cup {IdleThread}
        BY Zenon
      <3>1. CASE u = t
        BY Zenon, <1>4, <1>5, <3>1
      <3>2. CASE u # t
        <4>1. thread[u] \in Thread \cup {IdleThread} /\ SameCall(thread[u], thread'[u])
          BY Zenon, <1>6, <3>2 DEF Types
        <4>2. PICK b : b = thread'[u]
          BY Zenon
        <4>3. QED
          BY Zenon, <4>1, <4>2, SameCallKeeps
      <3>3. QED
        BY Zenon, <3>1, <3>2
    <2>2. thread' = [u \in Threads |-> thread'[u]]
      BY Zenon, <1>5
    <2>3. QED
      BY Zenon, <2>1, <2>2
  <1>8. UNCHANGED <<files, damaged>> /\ thread[t] = IdleThread
    BY Zenon DEF Begin
  <1>9. thread'[t] = th
    BY Zenon, <1>5
  <1>10. QED
    BY Zenon, <1>1, <1>4, <1>6, <1>7, <1>8, <1>9

(* Of two calls about to change a chain neither counts as alone. *)
LEMMA BeginApart ==
  ASSUME IInv, NEW t \in Threads, NEW r \in Call, Begin(t, r)
  PROVE  Apart(thread')
  <1>1. Types
    BY Zenon DEF IInv
  <1>2. /\ thread'[t].req = r
        /\ thread'[t].alone <=> (r \in Request => \A v \in Threads : ~AboutToChange(v, HashOf[r.key]))
    BY Zenon, <1>1, BeginThreads
  <1>3. \A u \in Threads : u # t =>
          /\ SameCall(thread[u], thread'[u])
          /\ r \in Request /\ AboutToChange(u, HashOf[r.key]) =>
               thread'[u] = [thread[u] EXCEPT !.alone = FALSE]
          /\ ~(r \in Request /\ AboutToChange(u, HashOf[r.key])) => thread'[u] = thread[u]
    BY Zenon, <1>1, BeginThreads
  <1>4. ASSUME NEW u \in Threads, u # t
        PROVE  /\ \A h : Changing(thread'[u], h) <=> Changing(thread[u], h)
               /\ ~thread[u].alone => ~thread'[u].alone
    <2>1. thread[u] \in Thread \cup {IdleThread} /\ SameCall(thread[u], thread'[u])
      BY Zenon, <1>1, <1>3, <1>4 DEF Types
    <2>2. PICK b : b = thread'[u]
      BY Zenon
    <2>3. QED
      BY Zenon, <2>1, <2>2, SameCallKeeps
  <1> SUFFICES ASSUME NEW a \in Threads, NEW b \in Threads, NEW h \in Hashes, a # b,
                      Changing(thread'[a], h), Changing(thread'[b], h)
               PROVE  ~thread'[a].alone
    BY Zenon DEF Apart
  <1>5. CASE a # t /\ b # t
    <2>1. ~thread[a].alone
      BY Zenon, <1>4, <1>5 DEF IInv, Apart
    <2>2. QED
      BY Zenon, <1>4, <1>5, <2>1
  <1>6. CASE a = t
    <2>1. r \in Request /\ h = HashOf[r.key]
      BY Zenon, <1>2, <1>6 DEF Changing
    <2>2. AboutToChange(b, HashOf[r.key])
      BY Zenon, <1>4, <1>6, <2>1 DEF AboutToChange, Changing
    <2>3. QED
      BY Zenon, <1>2, <1>6, <2>1, <2>2
  <1>7. CASE b = t
    <2>1. r \in Request /\ h = HashOf[r.key]
      BY Zenon, <1>2, <1>7 DEF Changing
    <2>2. Changing(thread[a], h)
      BY Zenon, <1>4, <1>7
    <2>3. AboutToChange(a, HashOf[r.key])
      BY Zenon, <2>1, <2>2 DEF AboutToChange, Changing
    <2>4. thread'[a] = [thread[a] EXCEPT !.alone = FALSE]
      BY Zenon, <1>3, <1>7, <2>1, <2>3
    <2>5. thread[a] \in Thread
      <3>1. thread[a].pc # "idle"
        BY Zenon, <2>2 DEF Changing
      <3>2. QED
        BY Zenon, <1>1, <3>1, Shapes
    <2>6. QED
      BY Zenon, <2>4, <2>5 DEF Thread
  <1>8. QED
    BY Zenon, <1>5, <1>6, <1>7

(* A handler calls the store with its request. *)
LEMMA CallStore ==
  ASSUME IInv, NEW t \in Threads, handler[t].pc # "idle", handler[t].pc # "store",
         handler[t].req.type = "PUTREQ" => handler[t].req.value \notin TooLong,
         handler[t].req.type = "DELREQ" => handler[t].pc # "called",
         Goto(t, "store", NoCall), Begin(t, handler[t].req), UNCHANGED <<cache, raced>>
  PROVE  IInv'
  <1>1. /\ Types /\ handler[t] # IdleThread /\ handler[t] \in Handler
        /\ handler[t].req \in Call /\ handler[t].req.key \in Keys
        /\ thread[t] = IdleThread /\ cache \in Store
        /\ HandlerOK(handler[t], files, cache, Doubt)
    BY Zenon, AtWork
  <1>2. PICK hd \in Handler : /\ hd.pc = "store" /\ hd.req = handler[t].req /\ hd # IdleThread
                              /\ handler' = [handler EXCEPT ![t] = hd]
    BY <1>1, GotoEffect
  <1>3. PICK r \in Call : r = handler[t].req
    BY Zenon, <1>1
  <1>4. Begin(t, r)
    BY Zenon, <1>3
  <1>5. PICK th : th = thread'[t]
    BY Zenon
  <1>6. /\ thread' \in [Threads -> Thread \cup {IdleThread}]
        /\ th \in Thread /\ th.pc = "called" /\ th.req = handler[t].req /\ th.ret = NoCall
        /\ \A u \in Threads : u # t => SameCall(thread[u], thread'[u])
        /\ UNCHANGED <<files, damaged>>
    BY Zenon, <1>1, <1>3, <1>4, <1>5, BeginThreads
  <1>7. Apart(thread')
    BY Zenon, <1>4, BeginApart
  <1>8. th # IdleThread /\ ThreadOK(th, hd, files, Doubt) /\ Placed(th, files, damaged)
    BY Zenon, <1>2, <1>6, ThreadFields DEF ThreadOK, Placed
  <1>9. HandlerOK(hd, files, cache', Doubt)
    BY Zenon, <1>1, <1>2 DEF HandlerOK
  <1>10. ~Between(thread[t], handler[t].req.key)
    BY Zenon, <1>1 DEF Between
  <1>11. QED
    BY Zenon, <1>1, <1>2, <1>5, <1>6, <1>7, <1>8, <1>9, <1>10, HandlerStep

(* A handler that is not in the store is done: it has an answer. *)
LEMMA Answers ==
  ASSUME IInv, NEW t \in Threads, handler[t].pc # "idle", handler[t].pc # "store",
         NEW ret \in Values \cup {Absent, "ok", "error", NoCall},
         Goto(t, "done", ret), UNCHANGED <<files, damaged, thread, cache, raced>>,
         handler[t].req.type = "PUTREQ" =>
           (ret = "ok" <=> /\ handler[t].req.value \notin TooLong
                           /\ LookIn(files, handler[t].req.key) = handler[t].req.value),
         handler[t].req.type = "DELREQ" =>
           LookIn(files, handler[t].req.key) = Absent /\ handler[t].pc # "called",
         handler[t].req.type = "GETREQ" /\ handler[t].req.key \notin Doubt =>
           ret = LookIn(files, handler[t].req.key)
  PROVE  IInv'
  <1>1. /\ Types /\ handler[t] # IdleThread /\ handler[t] \in Handler
        /\ handler[t].req \in Call /\ handler[t].req.key \in Keys
        /\ thread[t] = IdleThread /\ cache \in Store
        /\ HandlerOK(handler[t], files, cache, Doubt)
    BY Zenon, AtWork
  <1>2. PICK hd \in Handler : /\ hd.pc = "done" /\ hd.req = handler[t].req /\ hd.ret = ret
                              /\ hd # IdleThread
                              /\ handler' = [handler EXCEPT ![t] = hd]
    BY <1>1, GotoEffect
  <1>3. thread' = [thread EXCEPT ![t] = IdleThread]
    BY Zenon, <1>1 DEF Types
  <1>4. HandlerOK(hd, files, cache', Doubt)
    BY Zenon, <1>1, <1>2 DEF HandlerOK
  <1>5. ~Between(thread[t], handler[t].req.key)
    BY Zenon, <1>1 DEF Between
  <1>6. QED
    BY Zenon, <1>1, <1>2, <1>3, <1>4, <1>5, HandlerLeaves

(* The cache holds nothing stale for a key whose handlers do not race. *)
LEMMA HitIsTrue ==
  ASSUME IInv, NEW t \in Threads, handler[t] # IdleThread, thread[t] = IdleThread,
         handler[t].req.key \notin Doubt, cache[handler[t].req.key] # Absent
  PROVE  cache[handler[t].req.key] = LookIn(files, handler[t].req.key)
  <1> DEFINE k == handler[t].req.key
  <1>1. Types /\ handler[t] \in Handler /\ k \in Keys
    BY Zenon, Shapes, HandlerFields, Kinds DEF IInv
  <1>2. ASSUME NEW u \in Threads, Between(thread[u], k) PROVE FALSE
    <2>1. u # t /\ thread[u] # IdleThread
      BY Zenon, <1>2 DEF Between
    <2>2. /\ thread[u].req = handler[u].req /\ handler[u] # IdleThread
          /\ thread[u] \in Thread
      BY Zenon, <1>1, <2>1, Shapes DEF IInv, ThreadOK
    <2>3. thread[u].req \in Call
      BY Zenon, <2>2, ThreadFields
    <2>4. Writes(handler[u]) /\ handler[u].req.key = k
      BY Zenon, <1>2, <2>2, <2>3, Kinds DEF Between, Writes
    <2>5. QED
      BY Zenon, <2>1, <2>4, BesideWriter
  <1>3. QED
    BY Zenon, <1>1, <1>2 DEF IInv, Coherent

(* The steps of the handlers of kvserver.c keep the invariant:             *)
(* kvserver_get asks the cache,                                            *)
LEMMA GetFromCacheInv ==
  ASSUME IInv, NEW t \in Threads, GetFromCache(t)
  PROVE  IInv'
  <1> DEFINE k == handler[t].req.key
  <1>1. handler[t].pc = "called" /\ handler[t].req.type = "GETREQ" /\ UNCHANGED <<cache, raced>>
    BY Zenon DEF GetFromCache, At
  <1>2. /\ handler[t] # IdleThread /\ thread[t] = IdleThread
        /\ cache[k] \in Values \cup {Absent}
    BY Zenon, <1>1, AtWork
  <1>3. CASE cache[k] # Absent
    <2>1. PICK v \in Values \cup {Absent} : v = cache[k]
      BY Zenon, <1>2
    <2>2. Goto(t, "done", v) /\ UNCHANGED <<files, damaged, thread>>
      BY Zenon, <1>3, <2>1 DEF GetFromCache, KeyOf, storeVars
    <2>3. k \notin Doubt => v = LookIn(files, k)
      BY Zenon, <1>2, <1>3, <2>1, HitIsTrue
    <2>4. QED
      BY Zenon, <1>1, <2>1, <2>2, <2>3, Answers
  <1>4. CASE cache[k] = Absent
    <2>1. Goto(t, "store", NoCall) /\ Begin(t, handler[t].req)
      BY Zenon, <1>4 DEF GetFromCache, KeyOf
    <2>2. QED
      BY Zenon, <1>1, <2>1, CallStore
  <1>5. QED
    BY Zenon, <1>3, <1>4

(* kvserver_put refuses a message, *)
LEMMA PutRefusedInv ==
  ASSUME IInv, NEW t \in Threads, PutRefused(t)
  PROVE  IInv'
  BY Zenon, Answers DEF PutRefused, At, storeVars

(* kvserver_put writes to the store, *)
LEMMA PutInStoreInv ==
  ASSUME IInv, NEW t \in Threads, PutInStore(t)
  PROVE  IInv'
  BY Zenon, CallStore DEF PutInStore, At

(* kvserver_del empties the cache, *)
LEMMA DelFromCacheInv ==
  ASSUME IInv, NEW t \in Threads, DelFromCache(t)
  PROVE  IInv'
  <1> DEFINE k == handler[t].req.key
  <1>1. /\ handler[t].pc = "called" /\ handler[t].req.type = "DELREQ"
        /\ UNCHANGED <<files, damaged, thread, raced>>
    BY Zenon DEF DelFromCache, At, storeVars
  <1>2. /\ Types /\ handler[t] # IdleThread /\ handler[t] \in Handler /\ k \in Keys
        /\ thread[t] = IdleThread
    BY Zenon, <1>1, AtWork
  <1>3. PICK pc \in {"deleted", "missed"} : Goto(t, pc, NoCall)
    BY Zenon DEF DelFromCache
  <1>4. PICK hd \in Handler : /\ hd.pc = pc /\ hd.req = handler[t].req /\ hd # IdleThread
                              /\ handler' = [handler EXCEPT ![t] = hd]
    BY <1>2, <1>3, GotoEffect
  <1>5. /\ cache' \in Store /\ cache'[k] = Absent
        /\ \A j \in Keys : j # k => cache'[j] \in {cache[j], Absent}
    BY Zenon, <1>2, CacheDel DEF DelFromCache, KeyOf
  <1>6. thread' = [thread EXCEPT ![t] = IdleThread]
    BY Zenon, <1>1, <1>2 DEF Types
  <1>7. HandlerOK(hd, files, cache', Doubt)
    BY Zenon, <1>1, <1>4, <1>5 DEF HandlerOK
  <1>8. QED
    BY Zenon, <1>1, <1>2, <1>4, <1>5, <1>6, <1>7, HandlerLeaves

(* kvserver_del asks the store, *)
LEMMA DelCheckInv ==
  ASSUME IInv, NEW t \in Threads, DelCheck(t)
  PROVE  IInv'
  <1> DEFINE k == handler[t].req.key
  <1>1. /\ handler[t].pc \in {"deleted", "missed"} /\ handler[t].req.type = "DELREQ"
        /\ UNCHANGED <<cache, raced>>
    BY Zenon DEF DelCheck, At
  <1>2. CASE Lookup(k) = Absent
    <2>1. PICK ret \in {"ok", "error"} : Goto(t, "done", ret)
      BY Zenon, <1>2 DEF DelCheck, KeyOf
    <2>2. UNCHANGED <<files, damaged, thread>>
      BY Zenon, <1>2 DEF DelCheck, KeyOf, storeVars
    <2>3. QED
      BY Zenon, <1>1, <1>2, <2>1, <2>2, LookupIs, Answers
  <1>3. CASE Lookup(k) # Absent
    <2>1. Goto(t, "store", NoCall) /\ Begin(t, handler[t].req)
      BY Zenon, <1>3 DEF DelCheck, KeyOf
    <2>2. QED
      BY Zenon, <1>1, <2>1, CallStore
  <1>4. QED
    BY Zenon, <1>2, <1>3

(* The store returns to the handler t, which is then done. *)
LEMMA Returns ==
  ASSUME IInv, NEW t \in Threads, NEW type, StoreReturned(t, type),
         NEW ret \in Values \cup {Absent, "ok", "error", NoCall}, Goto(t, "done", ret)
  PROVE  /\ Types /\ handler[t] # IdleThread /\ handler[t] \in Handler
         /\ handler[t].req \in Call /\ handler[t].req.key \in Keys
         /\ handler[t].req.type = type /\ handler[t].pc = "store"
         /\ thread[t] \in Thread /\ thread[t] # IdleThread /\ thread[t].pc = "done"
         /\ thread[t].req = handler[t].req
         /\ ThreadOK(thread[t], handler[t], files, Doubt)
         /\ HandlerOK(handler[t], files, cache, Doubt)
         /\ UNCHANGED <<files, damaged>> /\ thread' = [thread EXCEPT ![t] = IdleThread]
         /\ \E hd \in Handler : /\ hd.pc = "done" /\ hd.req = handler[t].req /\ hd.ret = ret
                                /\ hd # IdleThread
                                /\ handler' = [handler EXCEPT ![t] = hd]
  <1>1. /\ handler[t].pc = "store" /\ handler[t].req.type = type
        /\ thread[t].pc = "done" /\ UNCHANGED <<files, damaged>> /\ thread' = [thread EXCEPT ![t] = IdleThread]
    BY Zenon DEF StoreReturned, At, End
  <1>2. /\ Types /\ handler[t] # IdleThread /\ handler[t] \in Handler
        /\ handler[t].req \in Call /\ handler[t].req.key \in Keys
        /\ thread[t] \in Thread /\ thread[t] # IdleThread
        /\ ThreadOK(thread[t], handler[t], files, Doubt)
        /\ HandlerOK(handler[t], files, cache, Doubt)
    BY Zenon, <1>1, AtWork
  <1>3. thread[t].req = handler[t].req
    BY Zenon, <1>2 DEF ThreadOK
  <1>4. \E hd \in Handler : /\ hd.pc = "done" /\ hd.req = handler[t].req /\ hd.ret = ret
                            /\ hd # IdleThread
                            /\ handler' = [handler EXCEPT ![t] = hd]
    BY <1>2, GotoEffect
  <1>5. QED
    BY Zenon, <1>1, <1>2, <1>3, <1>4

(* kvserver_get has its value, *)
LEMMA GetReturnsInv ==
  ASSUME IInv, NEW t \in Threads, GetReturns(t)
  PROVE  IInv'
  <1> DEFINE k == handler[t].req.key
  <1>1. PICK v : v = thread[t].ret
    BY Zenon
  <1>2. v \in Values \cup {Absent} /\ (k \notin Doubt => v = LookIn(files, k))
    <2>1. handler[t].pc = "store" /\ handler[t].req.type = "GETREQ" /\ thread[t].pc = "done"
      BY Zenon DEF GetReturns, StoreReturned, At, End
    <2>2. ThreadOK(thread[t], handler[t], files, Doubt) /\ thread[t] # IdleThread
      BY Zenon, <2>1, AtWork
    <2>3. QED
      BY Zenon, <1>1, <2>1, <2>2 DEF ThreadOK
  <1>3. StoreReturned(t, "GETREQ") /\ Goto(t, "done", v) /\ raced' = raced
    BY Zenon, <1>1 DEF GetReturns
  <1>4. /\ handler[t] # IdleThread /\ k \in Keys
        /\ handler[t].req.type = "GETREQ" /\ thread[t].pc = "done"
        /\ thread[t].req = handler[t].req
        /\ UNCHANGED <<files, damaged>> /\ thread' = [thread EXCEPT ![t] = IdleThread]
    BY <1>2, <1>3, Returns
  <1>5. PICK hd \in Handler : /\ hd.pc = "done" /\ hd.req = handler[t].req /\ hd.ret = v
                              /\ hd # IdleThread
                              /\ handler' = [handler EXCEPT ![t] = hd]
    BY <1>2, <1>3, Returns
  <1>6. /\ cache' \in Store
        /\ \A j \in Keys : j # k => cache'[j] \in {cache[j], Absent}
        /\ cache' = cache \/ cache'[k] = v
    <2>1. CASE v = Absent
      BY Zenon, <1>1, <2>1 DEF GetReturns, IInv, Types
    <2>2. CASE v # Absent
      <3>1. v \in Values /\ Cache!Put(k, v)
        BY Zenon, <1>1, <1>2, <2>2 DEF GetReturns, KeyOf
      <3>2. QED
        BY Zenon, <1>4, <3>1, CachePut
    <2>3. QED
      BY Zenon, <2>1, <2>2
  <1>7. HandlerOK(hd, files, cache', Doubt)
    BY Zenon, <1>2, <1>4, <1>5 DEF HandlerOK
  <1>8. ~Between(thread[t], k)
    BY Zenon, <1>4 DEF Between
  <1>9. QED
    BY Zenon, <1>2, <1>3, <1>4, <1>5, <1>6, <1>7, <1>8, HandlerLeaves

(* kvserver_put fills the cache, *)
LEMMA PutInCacheInv ==
  ASSUME IInv, NEW t \in Threads, PutInCache(t)
  PROVE  IInv'
  <1> DEFINE k == handler[t].req.key
  <1>1. StoreReturned(t, "PUTREQ") /\ Goto(t, "done", "ok") /\ raced' = raced
    BY Zenon DEF PutInCache
  <1>2. /\ handler[t] # IdleThread /\ k \in Keys /\ handler[t].req \in Call
        /\ handler[t].req.type = "PUTREQ" /\ thread[t].pc = "done" /\ thread[t] # IdleThread
        /\ thread[t].req = handler[t].req
        /\ ThreadOK(thread[t], handler[t], files, Doubt)
        /\ UNCHANGED <<files, damaged>> /\ thread' = [thread EXCEPT ![t] = IdleThread]
    BY <1>1, Returns
  <1>3. PICK hd \in Handler : /\ hd.pc = "done" /\ hd.req = handler[t].req /\ hd.ret = "ok"
                              /\ hd # IdleThread
                              /\ handler' = [handler EXCEPT ![t] = hd]
    BY <1>1, Returns
  <1>4. PICK v \in Values : v = handler[t].req.value
    BY Zenon, <1>2, Kinds
  <1>5. v \notin TooLong /\ (k \notin Doubt => LookIn(files, k) = v)
    BY Zenon, <1>2, <1>4 DEF ThreadOK
  <1>6. /\ cache' \in Store /\ cache'[k] = v
        /\ \A j \in Keys : j # k => cache'[j] \in {cache[j], Absent}
    BY Zenon, <1>2, <1>4, CachePut DEF PutInCache, WriteThrough, KeyOf
  <1>7. HandlerOK(hd, files, cache', Doubt)
    BY Zenon, <1>2, <1>3, <1>4, <1>5 DEF HandlerOK
  <1>8. QED
    BY Zenon, <1>1, <1>2, <1>3, <1>5, <1>6, <1>7, HandlerLeaves

(* kvserver_del has deleted the entry, *)
LEMMA DelReturnsInv ==
  ASSUME IInv, NEW t \in Threads, DelReturns(t)
  PROVE  IInv'
  <1> DEFINE k == handler[t].req.key
  <1>1. PICK ret : ret = thread[t].ret
    BY Zenon
  <1>2. /\ handler[t].pc = "store" /\ handler[t].req.type = "DELREQ" /\ thread[t].pc = "done"
        /\ StoreReturned(t, "DELREQ") /\ Goto(t, "done", ret) /\ UNCHANGED <<cache, raced>>
    BY Zenon, <1>1 DEF DelReturns, StoreReturned, At, End
  <1>3. ThreadOK(thread[t], handler[t], files, Doubt) /\ thread[t] # IdleThread /\ cache \in Store
    BY Zenon, <1>2, AtWork
  <1>4. ret \in {"ok", "error"} /\ (k \notin Doubt => LookIn(files, k) = Absent)
    BY Zenon, <1>1, <1>2, <1>3 DEF ThreadOK
  <1>5. /\ handler[t] # IdleThread /\ k \in Keys
        /\ HandlerOK(handler[t], files, cache, Doubt)
        /\ thread[t].req = handler[t].req
        /\ UNCHANGED <<files, damaged>> /\ thread' = [thread EXCEPT ![t] = IdleThread]
    BY Zenon, <1>2, <1>4, Returns
  <1>6. PICK hd \in Handler : /\ hd.pc = "done" /\ hd.req = handler[t].req /\ hd.ret = ret
                              /\ hd # IdleThread
                              /\ handler' = [handler EXCEPT ![t] = hd]
    BY <1>2, <1>4, Returns
  <1>7. HandlerOK(hd, files, cache', Doubt)
    BY Zenon, <1>2, <1>4, <1>5, <1>6 DEF HandlerOK
  <1>8. ~Between(thread[t], k)
    BY Zenon, <1>2, <1>5 DEF Between
  <1>9. QED
    BY Zenon, <1>2, <1>3, <1>5, <1>6, <1>7, <1>8, HandlerLeaves

(* and the answer is sent. *)
LEMMA RespondInv ==
  ASSUME IInv, NEW t \in Threads, Respond(t)
  PROVE  IInv'
  <1>1. /\ handler[t].pc = "done" /\ handler' = [handler EXCEPT ![t] = IdleThread]
        /\ UNCHANGED <<files, damaged, thread, cache, raced>>
    BY Zenon DEF Respond, storeVars
  <1>2. /\ Types /\ handler[t] # IdleThread /\ thread[t] = IdleThread /\ cache \in Store
    BY Zenon, <1>1, AtWork
  <1>3. thread' = [thread EXCEPT ![t] = IdleThread]
    BY Zenon, <1>1, <1>2 DEF Types
  <1>4. HandlerOK(IdleThread, files, cache', Doubt)
    BY Zenon DEF HandlerOK
  <1>5. ~Between(thread[t], handler[t].req.key) /\ IdleThread.pc # "store"
    BY Zenon, <1>2 DEF Between, IdleThread
  <1>6. QED
    BY Zenon, <1>1, <1>2, <1>3, <1>4, <1>5, HandlerLeaves

(* A new request races with those for its key if it, or one of them, is a  *)
(* PUT or a DEL.                                                           *)
LEMMA HandleInv ==
  ASSUME IInv, NEW t \in Threads, NEW r \in Call, Handle(t, r)
  PROVE  IInv'
  <1>1. PICK hd : hd = [pc |-> "called", req |-> r, ret |-> NoCall]
    BY Zenon
  <1>2. /\ handler[t] = IdleThread /\ handler' = [handler EXCEPT ![t] = hd]
        /\ UNCHANGED <<files, damaged, thread, cache>>
    BY Zenon, <1>1 DEF Handle, storeVars
  <1>3. hd \in Handler /\ hd.pc = "called" /\ hd.req = r /\ hd # IdleThread
    <2>1. hd \in Handler /\ hd.pc = "called" /\ hd.req = r
      BY Zenon, <1>1 DEF Handler
    <2>2. QED
      BY Zenon, <2>1, HandlerFields
  <1>4. r.key \in Keys /\ raced \subseteq raced' /\ raced' \subseteq Keys
    BY Zenon, Kinds DEF Handle, IInv, Types
  <1>5. \A u \in Threads : handler'[u] = IF u = t THEN hd ELSE handler[u]
    BY Zenon, <1>2 DEF IInv, Types
  <1>6. Types'
    <2>1. handler' \in [Threads -> Handler \cup {IdleThread}]
      BY Zenon, <1>2, <1>3 DEF IInv, Types
    <2>2. \A u \in Threads : thread[u] # IdleThread <=> handler[u].pc = "store"
      BY Zenon DEF IInv, Types
    <2>3. IdleThread.pc # "store"
      BY Zenon DEF IdleThread
    <2>4. \A u \in Threads : thread'[u] # IdleThread <=> handler'[u].pc = "store"
      BY Zenon, <1>2, <1>3, <1>5, <2>2, <2>3
    <2>5. QED
      BY Zenon, <1>2, <1>4, <2>1, <2>4 DEF IInv, Types
  <1>7. Doubt \subseteq Doubt'
    BY Zenon, <1>2, <1>4 DEF Doubt
  <1>8. ASSUME NEW u \in Threads
        PROVE  /\ ThreadOK(thread'[u], handler'[u], files', Doubt')
               /\ Placed(thread'[u], files', damaged')
               /\ HandlerOK(handler'[u], files', cache', Doubt')
    <2>1. /\ ThreadOK(thread[u], handler[u], files, Doubt)
          /\ HandlerOK(handler[u], files, cache, Doubt)
          /\ Placed(thread[u], files, damaged)
      BY Zenon DEF IInv
    <2>2. CASE u = t
      <3>1. IdleThread.pc # "store"
        BY Zenon DEF IdleThread
      <3>2. thread[u] = IdleThread
        BY Zenon, <1>2, <2>2, <3>1 DEF IInv, Types
      <3>3. thread'[u] = IdleThread /\ handler'[u] = hd
        BY Zenon, <1>2, <1>5, <2>2, <3>2
      <3>4. ThreadOK(thread'[u], handler'[u], files', Doubt')
        BY Zenon, <3>3 DEF ThreadOK
      <3>5. HandlerOK(hd, files', cache', Doubt')
        BY Zenon, <1>3 DEF HandlerOK
      <3>6. QED
        BY Zenon, <1>2, <2>1, <3>3, <3>4, <3>5
    <2>3. CASE u # t
      <3>1. ThreadOK(thread[u], handler[u], files, Doubt')
        BY Zenon, <1>7, <2>1 DEF ThreadOK
      <3>2. HandlerOK(handler[u], files, cache, Doubt')
        BY Zenon, <1>7, <2>1 DEF HandlerOK
      <3>3. QED
        BY Zenon, <1>2, <1>5, <2>1, <2>3, <3>1, <3>2
    <2>4. QED
      BY Zenon, <2>2, <2>3
  <1>9. Coherent(thread', files', cache', Doubt')
    BY Zenon, <1>2, <1>7 DEF IInv, Coherent
  <1>10. RacesSeen(handler', raced')
    <2> SUFFICES ASSUME NEW a \in Threads, NEW b \in Threads, NEW k \in Keys, a # b,
                        Writes(handler'[a]), Serves(handler'[a], k), Serves(handler'[b], k)
                 PROVE  k \in raced'
      BY Zenon DEF RacesSeen
    <2>1. CASE a # t /\ b # t
      <3>1. k \in raced
        BY Zenon, <1>5, <2>1 DEF IInv, RacesSeen
      <3>2. QED
        BY Zenon, <1>4, <3>1
    <2>2. CASE a = t
      <3>1. k = r.key /\ r \in Request /\ handler'[b] = handler[b]
        BY Zenon, <1>3, <1>5, <2>2 DEF Serves, Writes
      <3>2. b \in Busy /\ KeyOf(b) = k
        BY Zenon, <3>1 DEF Busy, KeyOf, Serves
      <3>3. QED
        BY Zenon, <3>1, <3>2 DEF Handle
    <2>3. CASE b = t
      <3>1. k = r.key /\ handler'[a] = handler[a]
        BY Zenon, <1>3, <1>5, <2>3 DEF Serves
      <3>2. a \in Busy /\ a \in Writers /\ KeyOf(a) = k
        BY Zenon, <3>1 DEF Busy, Writers, KeyOf, Serves, Writes
      <3>3. QED
        BY Zenon, <3>1, <3>2 DEF Handle
    <2>4. QED
      BY Zenon, <2>1, <2>2, <2>3
  <1>11. FilesOK(files') /\ ChainsOK(files', damaged') /\ Apart(thread')
    BY Zenon, <1>2 DEF IInv
  <1>12. QED
    BY Zenon, <1>6, <1>8, <1>9, <1>10, <1>11 DEF IInv

-----------------------------------------------------------------------------
(* The keys of the files that are open for writing. *)
Opened == {thread[t].req.key : t \in {u \in Threads : thread[u].pc = "opened"}}

(* A crash damages the chains of the open files and leaves the others as   *)
(* they are.                                                               *)
LEMMA CrashFiles ==
  ASSUME IInv, StoreCrash
  PROVE  /\ FilesOK(files') /\ ChainsOK(files', damaged') /\ damaged' \subseteq Hashes
         /\ damaged' = damaged \cup {HashOf[k] : k \in Opened}
         /\ \A h \in Hashes \ damaged' : files'[h] = files[h]
  <1> DEFINE torn(h) == {thread[t].at : t \in {u \in Threads : /\ thread[u].pc = "opened"
                                                             /\ HashOf[thread[u].req.key] = h}}
             after(h) == [n \in DOMAIN files[h] |-> IF n \in torn(h) THEN Torn ELSE files[h][n]]
  <1>1. /\ files' = [h \in Hashes |-> after(h)]
        /\ damaged' = damaged \cup {h \in Hashes : torn(h) # {}}
    BY Zenon DEF StoreCrash
  <1>2. FilesOK(files) /\ ChainsOK(files, damaged) /\ damaged \subseteq Hashes
    BY Zenon DEF IInv, Types
  <1>3. ASSUME NEW h \in Hashes, torn(h) = {} PROVE after(h) = files[h]
    <2>1. after(h) = [n \in DOMAIN files[h] |-> files[h][n]]
      BY Zenon, <1>3
    <2>2. QED
      BY Zenon, <1>2, <2>1 DEF FilesOK, RawChain
  <1>4. ASSUME NEW h \in Hashes PROVE RawChain(after(h))
    <2>1. RawChain(files[h])
      BY Zenon, <1>2 DEF FilesOK
    <2>2. DOMAIN after(h) = DOMAIN files[h]
      BY Zenon
    <2>3. \A n \in DOMAIN files[h] : after(h)[n] \in FileEntry \cup {Torn}
      BY Zenon, <2>1 DEF RawChain
    <2>4. after(h) = [n \in DOMAIN after(h) |-> after(h)[n]]
      BY Zenon
    <2>5. PICK c : c = after(h)
      BY Zenon
    <2>6. c = [n \in DOMAIN c |-> c[n]] /\ DOMAIN c = DOMAIN files[h]
          /\ \A n \in DOMAIN files[h] : c[n] \in FileEntry \cup {Torn}
      BY Zenon, <2>2, <2>3, <2>4, <2>5
    <2>7. RawChain(c)
      BY Zenon, <2>1, <2>6 DEF RawChain
    <2>8. QED
      BY Zenon, <2>5, <2>7
  <1>5. {h \in Hashes : torn(h) # {}} = {HashOf[k] : k \in Opened}
    <2>1. ASSUME NEW h \in Hashes, torn(h) # {} PROVE h \in {HashOf[k] : k \in Opened}
      <3>1. PICK u \in Threads : thread[u].pc = "opened" /\ HashOf[thread[u].req.key] = h
        BY Zenon, <2>1
      <3>2. QED
        BY Zenon, <3>1 DEF Opened
    <2>2. ASSUME NEW k \in Opened PROVE HashOf[k] \in Hashes /\ torn(HashOf[k]) # {}
      <3>1. PICK u \in Threads : thread[u].pc = "opened" /\ thread[u].req.key = k
        BY Zenon, <2>2 DEF Opened
      <3>2. thread[u].pc # "idle"
        BY Zenon, <3>1
      <3>3. HashOf[k] \in Hashes
        BY Zenon, <3>1, <3>2, InCall
      <3>4. thread[u].at \in torn(HashOf[k])
        BY Zenon, <3>1
      <3>5. QED
        BY Zenon, <3>3, <3>4
    <2>3. QED
      BY Zenon, <2>1, <2>2
  <1> HIDE DEF torn, after
  <1>6. damaged' \subseteq Hashes /\ damaged' = damaged \cup {HashOf[k] : k \in Opened}
    BY Zenon, <1>1, <1>2, <1>5
  <1>7. \A h \in Hashes \ damaged' : files'[h] = files[h]
    BY Zenon, <1>1, <1>3
  <1>8. FilesOK(files')
    BY Zenon, <1>1, <1>4 DEF FilesOK
  <1>9. ChainsOK(files', damaged')
    BY Zenon, <1>1, <1>2, <1>7 DEF ChainsOK
  <1>10. QED
    BY Zenon, <1>6, <1>7, <1>8, <1>9

(* A server without requests and with an empty cache. *)
LEMMA Fresh ==
  ASSUME NEW f, NEW D, NEW R, NEW S, NEW th, NEW hd, NEW ca,
         th = [t \in Threads |-> IdleThread], hd = [t \in Threads |-> IdleThread],
         ca = [k \in Keys |-> Absent]
  PROVE  /\ \A t \in Threads : th[t] # IdleThread <=> hd[t].pc = "store"
         /\ \A t \in Threads : /\ ThreadOK(th[t], hd[t], f, R)
                               /\ Placed(th[t], f, D)
                               /\ HandlerOK(hd[t], f, ca, R)
         /\ Coherent(th, f, ca, R)
         /\ Apart(th) /\ RacesSeen(hd, S)
  <1>1. IdleThread.pc # "store" /\ IdleThread.pc \notin {"called", "found"}
    BY Zenon DEF IdleThread
  <1>2. \A t \in Threads : ThreadOK(th[t], hd[t], f, R) /\ HandlerOK(hd[t], f, ca, R)
    BY Zenon DEF ThreadOK, HandlerOK
  <1>3. \A t \in Threads : Placed(th[t], f, D)
    BY Zenon, <1>1 DEF Placed
  <1>4. Coherent(th, f, ca, R)
    BY Zenon DEF Coherent
  <1>5. Apart(th)
    BY Zenon, <1>1 DEF Apart, Changing
  <1>6. RacesSeen(hd, S)
    BY Zenon DEF RacesSeen, Writes
  <1>7. QED
    BY Zenon, <1>1, <1>2, <1>3, <1>4, <1>5, <1>6

(* A crash keeps the invariant. *)
LEMMA CrashInv ==
  ASSUME IInv, Crash
  PROVE  IInv'
  <1>1. FilesOK(files') /\ ChainsOK(files', damaged') /\ damaged' \subseteq Hashes
    BY Zenon, CrashFiles DEF Crash
  <1>2. /\ thread' = [t \in Threads |-> IdleThread] /\ handler' = [t \in Threads |-> IdleThread]
        /\ cache' = [k \in Keys |-> Absent] /\ raced' = {}
    BY Zenon DEF Crash, StoreCrash
  <1>3. /\ \A t \in Threads : thread'[t] # IdleThread <=> handler'[t].pc = "store"
        /\ \A t \in Threads : /\ ThreadOK(thread'[t], handler'[t], files', Doubt')
                              /\ Placed(thread'[t], files', damaged')
                              /\ HandlerOK(handler'[t], files', cache', Doubt')
        /\ Coherent(thread', files', cache', Doubt')
        /\ Apart(thread') /\ RacesSeen(handler', raced')
    BY Zenon, <1>2, Fresh
  <1>4. Types'
    BY Zenon, <1>1, <1>2, <1>3 DEF Types, Store
  <1>5. QED
    BY Zenon, <1>1, <1>3, <1>4 DEF IInv

(* The invariant holds at the start, *)
LEMMA InitInv == Init => IInv
  <1> SUFFICES ASSUME Init PROVE IInv
    BY Zenon
  <1>1. files = [h \in Hashes |-> <<>>] /\ damaged = {}
    BY Zenon DEF Init, StoreInit
  <1>2. ASSUME NEW h PROVE ChainOK(h, <<>>) /\ RawChain(<<>>)
    <2>1. PICK c : c = <<>>
      BY Zenon
    <2>2. DOMAIN c = {} /\ c = [n \in DOMAIN c |-> c[n]]
      BY <2>1
    <2>3. 0 \in 0..(MaxChain + 1) /\ 0..(0 - 1) = {}
      BY ChainBound
    <2>4. ChainOK(h, c) /\ RawChain(c)
      BY Zenon, <2>2, <2>3 DEF ChainOK, RawChain
    <2>5. QED
      BY Zenon, <2>1, <2>4
  <1>3. ChainsOK(files, damaged) /\ FilesOK(files)
    BY Zenon, <1>1, <1>2 DEF ChainsOK, FilesOK
  <1>4. /\ thread = [t \in Threads |-> IdleThread] /\ handler = [t \in Threads |-> IdleThread]
        /\ cache = [k \in Keys |-> Absent] /\ raced = {}
    BY Zenon DEF Init, StoreInit
  <1>5. /\ \A t \in Threads : thread[t] # IdleThread <=> handler[t].pc = "store"
        /\ \A t \in Threads : /\ ThreadOK(thread[t], handler[t], files, Doubt)
                              /\ Placed(thread[t], files, damaged)
                              /\ HandlerOK(handler[t], files, cache, Doubt)
        /\ Coherent(thread, files, cache, Doubt)
        /\ Apart(thread) /\ RacesSeen(handler, raced)
    BY Zenon, <1>4, Fresh
  <1>6. Types
    BY Zenon, <1>1, <1>4, <1>5 DEF Types, Store
  <1>7. QED
    BY Zenon, <1>3, <1>5, <1>6 DEF IInv

(* when nothing happens, *)
LEMMA StutterInv ==
  ASSUME IInv, UNCHANGED vars
  PROVE  IInv'
  BY Zenon DEF IInv, Types, vars, storeVars, Doubt

(* and every step keeps it. *)
LEMMA NextInv ==
  ASSUME IInv, [Next]_vars
  PROVE  IInv'
  <1>1. CASE UNCHANGED vars
    BY Zenon, <1>1, StutterInv
  <1>2. CASE Crash
    BY Zenon, <1>2, CrashInv
  <1>3. ASSUME NEW t \in Threads, NEW r \in Call, Handle(t, r) PROVE IInv'
    BY Zenon, <1>3, HandleInv
  <1>4. ASSUME NEW t \in Threads,
               \/ GetFromCache(t) \/ GetReturns(t)
               \/ PutRefused(t) \/ PutInStore(t) \/ PutInCache(t)
        PROVE  IInv'
    BY Zenon, <1>4, GetFromCacheInv, GetReturnsInv, PutRefusedInv,
       PutInStoreInv, PutInCacheInv
  <1>5. ASSUME NEW t \in Threads,
               \/ DelFromCache(t) \/ DelCheck(t) \/ DelReturns(t) \/ Respond(t)
               \/ StoreStep(t) /\ UNCHANGED <<cache, handler, raced>>
        PROVE  IInv'
    BY Zenon, <1>5, DelFromCacheInv, DelCheckInv, DelReturnsInv, RespondInv,
       StoreStepInv
  <1>6. QED
    BY Zenon, <1>1, <1>2, <1>3, <1>4, <1>5 DEF Next

(* The invariant holds in every state of a server, whatever its handlers   *)
(* are at work on.                                                         *)
THEOREM Invariance == Spec => []IInv
  <1>1. IInv /\ [Next]_vars => IInv'
    BY Zenon, NextInv
  <1>2. QED
    BY <1>1, InitInv, PTL DEF Spec

(* What the invariant says of the server.                                  *)
LEMMA IInvServerTrue == IInv => ServerTrue
  <1> SUFFICES ASSUME IInv PROVE ServerTrue
    BY Zenon
  <1>0. \A k \in Keys : Trusted(k) => k \notin Doubt
    BY Zenon DEF Trusted, Doubt
  <1>1. CacheCoherent
    <2> SUFFICES ASSUME NEW k \in Keys, Trusted(k), \A t \in Busy : KeyOf(t) # k
                 PROVE  cache[k] \in {Absent, Lookup(k)}
      BY Zenon DEF CacheCoherent
    <2>1. ASSUME NEW t \in Threads, Between(thread[t], k) PROVE FALSE
      <3>1. thread[t] # IdleThread /\ thread[t].req.key = k
        BY Zenon, <2>1 DEF Between
      <3>2. handler[t] # IdleThread /\ thread[t].req = handler[t].req
        BY Zenon, <3>1, Shapes DEF IInv, ThreadOK
      <3>3. QED
        BY Zenon, <3>1, <3>2 DEF Busy, KeyOf
    <2>2. QED
      BY Zenon, <1>0, <2>1, LookupIs DEF IInv, Coherent
  <1>2. AnswersTrue
    <2> SUFFICES ASSUME NEW t \in Busy, handler[t].pc = "done", Trusted(KeyOf(t))
                 PROVE  CASE handler[t].req.type = "GETREQ" -> handler[t].ret = Lookup(KeyOf(t))
                          [] handler[t].req.type = "PUTREQ" ->
                               handler[t].ret = "ok" <=> handler[t].req.value \notin TooLong
                                                         /\ Lookup(KeyOf(t)) = handler[t].req.value
                          [] handler[t].req.type = "DELREQ" -> Lookup(KeyOf(t)) = Absent
      BY Zenon DEF AnswersTrue
    <2>1. t \in Threads /\ handler[t] # IdleThread /\ HandlerOK(handler[t], files, cache, Doubt)
      BY Zenon DEF Busy, IInv
    <2>2. /\ handler[t].req.type \in {"GETREQ", "PUTREQ", "DELREQ"}
          /\ handler[t].req.key \in Keys
      BY Zenon, <2>1, Shapes, HandlerFields, Kinds DEF IInv
    <2>3. /\ Lookup(KeyOf(t)) = LookIn(files, handler[t].req.key)
          /\ handler[t].req.key \notin Doubt
      BY Zenon, <1>0, <2>2, LookupIs DEF KeyOf
    <2>4. CASE handler[t].req.type = "GETREQ"
      BY Zenon, <2>1, <2>3, <2>4 DEF HandlerOK, KeyOf
    <2>5. CASE handler[t].req.type = "PUTREQ"
      BY Zenon, <2>1, <2>3, <2>5 DEF HandlerOK, KeyOf
    <2>6. CASE handler[t].req.type = "DELREQ"
      BY Zenon, <2>1, <2>3, <2>6 DEF HandlerOK, KeyOf
    <2>7. QED
      BY Zenon, <2>2, <2>4, <2>5, <2>6
  <1>3. QED
    BY Zenon, <1>1, <1>2 DEF ServerTrue

(* kvserver.h: the cache writes through.  Whatever PUTs, DELs and GETs of  *)
(* other keys run beside it and share its chain and its cache set, the     *)
(* cache holds nothing but what the store holds for a key that no handler  *)
(* is at work on, and what a client is told is so: unless a PUT or DEL of  *)
(* the key itself ran beside another request for it, or its chain was      *)
(* written at a stale position or by a put that a crash cut off.           *)
THEOREM ServerTrueAlways == Spec => []ServerTrue
  BY Invariance, IInvServerTrue, PTL

(* The directory, the cache and the threads keep their shape. *)
THEOREM TypeCorrect == Spec => []TypeOK
  <1>1. IInv => TypeOK
    <2> SUFFICES ASSUME IInv PROVE TypeOK
      BY Zenon
    <2>1. DOMAIN files = Hashes
      <3>1. files = [h \in Hashes |-> files[h]]
        BY Zenon DEF IInv, FilesOK
      <3>2. PICK f : f = files
        BY Zenon
      <3>3. f = [h \in Hashes |-> f[h]]
        BY Zenon, <3>1, <3>2
      <3>4. DOMAIN f = Hashes
        BY Zenon, <3>3
      <3>5. QED
        BY Zenon, <3>2, <3>4
    <2>2. ASSUME NEW h \in Hashes
          PROVE  /\ DOMAIN files[h] \subseteq Positions
                 /\ \A n \in DOMAIN files[h] : files[h][n] \in FileEntry \cup {Torn}
      BY Zenon DEF IInv, FilesOK, RawChain
    <2>3. StoreTypeOK
      BY Zenon, <2>1, <2>2 DEF StoreTypeOK, IInv, Types
    <2>4. QED
      BY Zenon, <2>3 DEF TypeOK, IInv, Types
  <1>2. QED
    BY <1>1, Invariance, PTL

(* kvstore.h: "Chains should always be complete", and no key ever has two  *)
(* files, whatever other keys share its chain: for every chain that no     *)
(* call has changed at a stale position, nor a crash cut off.              *)
THEOREM ChainsSound == Spec => [](ChainsComplete /\ OneFilePerKey)
  <1>1. IInv => ChainsComplete /\ OneFilePerKey
    <2> SUFFICES ASSUME IInv, NEW h \in Hashes \ damaged
                 PROVE  /\ \A n \in DOMAIN files[h] : 0..n \subseteq DOMAIN files[h]
                        /\ \A m, n \in DOMAIN files[h] :
                             /\ HashOf[files[h][m].key] = h
                             /\ files[h][m].key = files[h][n].key => m = n
      BY Zenon DEF ChainsComplete, OneFilePerKey
    <2>1. ChainOK(h, files[h])
      BY Zenon DEF IInv, ChainsOK
    <2>2. PICK len \in 0..(MaxChain + 1) : DOMAIN files[h] = 0..(len - 1)
      BY Zenon, <2>1 DEF ChainOK
    <2>3. \A n \in DOMAIN files[h] : 0..n \subseteq DOMAIN files[h]
      BY <2>2, ChainBound
    <2>4. QED
      BY Zenon, <2>1, <2>3 DEF ChainOK
  <1>2. QED
    BY <1>1, Invariance, PTL

-----------------------------------------------------------------------------
(* The refinement.  The map that the files f hold, of which the chains D   *)
(* are damaged, and the calls of the threads th as their callers see them. *)
MapOf(f, D) == [k \in Keys |-> IF HashOf[k] \in D THEN Damaged ELSE LookIn(f, k)]
CallsOf(th) == [t \in Threads |-> CallOf(th[t])]
Beside(k) == {j \in Keys : HashOf[j] = HashOf[k]}

AbstractVars == <<[k \in Keys |-> IF HashOf[k] \in damaged THEN Damaged ELSE Lookup(k)],
                  [t \in Threads |-> CallOf(thread[t])]>>

(* The abstract store and the abstract calls, as functions. *)
LEMMA Mapping ==
  /\ [k \in Keys |-> IF HashOf[k] \in damaged THEN Damaged ELSE Lookup(k)] = MapOf(files, damaged)
  /\ [k \in Keys |-> IF HashOf[k] \in damaged THEN Damaged ELSE Lookup(k)]'
       = MapOf(files', damaged')
  /\ [t \in Threads |-> CallOf(thread[t])] = CallsOf(thread)
  /\ [t \in Threads |-> CallOf(thread[t])]' = CallsOf(thread')
  BY Zenon DEF MapOf, CallsOf, Lookup, LookIn, ValueAt, Chain, CallOf

(* A call in progress is not the absence of one. *)
LEMMA CallIsCall ==
  ASSUME NEW th \in Thread
  PROVE  /\ CallOf(th) = [req |-> th.req, ret |-> th.ret, alone |-> th.alone]
         /\ CallOf(th).req = th.req /\ CallOf(th).ret = th.ret /\ CallOf(th).alone = th.alone
         /\ CallOf(th) # NoCall
  <1>1. CallOf(th) = [req |-> th.req, ret |-> th.ret, alone |-> th.alone]
    BY Zenon, ThreadFields DEF CallOf
  <1>2. [req |-> th.req, ret |-> th.ret, alone |-> th.alone]
          \in [req : Request \cup GetReq, ret : Values \cup {Absent, "ok", "error", NoCall},
               alone : BOOLEAN]
    BY Zenon, ThreadFields DEF Call
  <1>3. CallOf(th) # NoCall
    BY Zenon, <1>1, <1>2, StoreAssumption
  <1>4. QED
    BY <1>1, <1>3

(* One thread's part of CallsOf. *)
LEMMA CallsAfter ==
  ASSUME Types, NEW t \in Threads, NEW th, thread' = [thread EXCEPT ![t] = th]
  PROVE  /\ CallsOf(thread') = [CallsOf(thread) EXCEPT ![t] = CallOf(th)]
         /\ CallsOf(thread)[t] = CallOf(thread[t])
  <1>1. \A u \in Threads : thread'[u] = IF u = t THEN th ELSE thread[u]
    BY Zenon DEF Types
  <1>2. \A u \in Threads : CallOf(thread'[u]) = IF u = t THEN CallOf(th) ELSE CallOf(thread[u])
    <2> SUFFICES ASSUME NEW u \in Threads
                 PROVE  CallOf(thread'[u]) = IF u = t THEN CallOf(th) ELSE CallOf(thread[u])
      BY Zenon
    <2>1. CASE u = t
      <3>1. thread'[u] = th
        BY Zenon, <1>1, <2>1
      <3>2. QED
        BY <2>1, <3>1
    <2>2. CASE u # t
      <3>1. thread'[u] = thread[u]
        BY Zenon, <1>1, <2>2
      <3>2. QED
        BY <2>2, <3>1
    <2>3. QED
      BY Zenon, <2>1, <2>2
  <1>3. QED
    BY Zenon, <1>2 DEF CallsOf

(* The operators of KVRequest are the same in AtomicStore. *)
LEMMA SameRequests == /\ \A st, r : /\ Abstract!Apply(st, r) = Apply(st, r)
                                    /\ Abstract!Check(st, r) = Check(st, r)
                      /\ Abstract!Request = Request /\ Abstract!GetReq = GetReq
                      /\ Abstract!PutReq = PutReq /\ Abstract!Call = Call
  BY Zenon DEF Abstract!Apply, Abstract!Check, Apply, Check, Call, Abstract!Call, Request,
       Abstract!Request, PutReq, Abstract!PutReq, DelReq, Abstract!DelReq, GetReq, Abstract!GetReq

(* Who is about to change a chain, is about to change what is near. *)
LEMMA SameChanges ==
  ASSUME IInv, NEW u \in Threads, NEW k \in Keys
  PROVE  Abstract!AboutToChange(u, k) <=> AboutToChange(u, HashOf[k])
  <1>1. CallsOf(thread)[u] = CallOf(thread[u]) /\ Types
    BY Zenon DEF CallsOf, IInv
  <1>2. PICK nr : nr = [j \in Keys |-> {i \in Keys : HashOf[i] = HashOf[j]}]
    BY Zenon
  <1>3. nr[k] = Beside(k)
    BY Zenon, <1>2 DEF Beside
  <1>4. Abstract!AboutToChange(u, k) <=>
          /\ CallsOf(thread)[u] # NoCall /\ CallsOf(thread)[u].ret = NoCall
          /\ CallsOf(thread)[u].req \in Request
          /\ CallsOf(thread)[u].req.key \in Beside(k)
    BY Zenon, <1>2, <1>3, Mapping, SameRequests DEF Abstract!AboutToChange, Abstract!Pending
  <1>5. CASE thread[u] = IdleThread
    <2>1. CallOf(thread[u]) = NoCall
      BY Zenon, <1>5 DEF CallOf
    <2>2. IdleThread.pc \notin {"called", "found"}
      BY Zenon DEF IdleThread
    <2>3. QED
      BY Zenon, <1>1, <1>4, <1>5, <2>1, <2>2 DEF AboutToChange
  <1>6. CASE thread[u] # IdleThread
    <2>1. thread[u] \in Thread
      BY Zenon, <1>1, <1>6, Shapes
    <2>2. thread[u].pc \in {"called", "found", "opened", "done"} /\ thread[u].req \in Call
      BY Zenon, <2>1, ThreadFields
    <2>3. /\ CallsOf(thread)[u] # NoCall /\ CallsOf(thread)[u].ret = thread[u].ret
          /\ CallsOf(thread)[u].req = thread[u].req
      BY Zenon, <1>1, <2>1, CallIsCall
    <2>4. ThreadOK(thread[u], handler[u], files, Doubt)
      BY Zenon DEF IInv
    <2>5. thread[u].req.key \in Keys /\ thread[u].req.type \in {"GETREQ", "PUTREQ", "DELREQ"}
      BY Zenon, <2>2, Kinds
    <2>6. thread[u].pc \in {"called", "found"} => thread[u].ret = NoCall
      BY Zenon, <1>6, <2>4 DEF ThreadOK
    <2>7. NoCall \notin Values \cup {Absent, "ok", "error"}
      BY Zenon, StoreAssumption
    <2>8. thread[u].pc \in {"opened", "done"} => thread[u].ret \in Values \cup {Absent, "ok", "error"}
      BY Zenon, <1>6, <2>4, <2>5 DEF ThreadOK
    <2>9. thread[u].ret = NoCall <=> thread[u].pc \in {"called", "found"}
      BY Zenon, <2>2, <2>6, <2>7, <2>8
    <2>10. thread[u].req.key \in Beside(k) <=> HashOf[thread[u].req.key] = HashOf[k]
      BY Zenon, <2>5 DEF Beside
    <2>11. QED
      BY Zenon, <1>4, <2>3, <2>9, <2>10 DEF AboutToChange
  <1>7. QED
    BY Zenon, <1>5, <1>6

(* The calls of the store as steps of the atomic one. *)
LEMMA BeginRefines ==
  ASSUME IInv, NEW t \in Threads, NEW r \in Call, Begin(t, r)
  PROVE  Abstract!Begin(t, r)
  <1> DEFINE h == HashOf[r.key]
  <1>1. Types /\ r.key \in Keys
    BY Zenon, Kinds DEF IInv
  <1>2. /\ thread'[t] \in Thread /\ thread'[t].req = r /\ thread'[t].ret = NoCall
        /\ thread'[t].alone <=> (r \in Request => \A v \in Threads : ~AboutToChange(v, h))
        /\ UNCHANGED <<files, damaged>> /\ thread[t] = IdleThread
    BY Zenon, <1>1, BeginThreads
  <1>3. \A u \in Threads : u # t =>
          /\ SameCall(thread[u], thread'[u])
          /\ r \in Request /\ AboutToChange(u, h) =>
               thread'[u] = [thread[u] EXCEPT !.alone = FALSE]
          /\ ~(r \in Request /\ AboutToChange(u, h)) => thread'[u] = thread[u]
    BY Zenon, <1>1, BeginThreads
  <1>4. \A v \in Threads : Abstract!AboutToChange(v, r.key) <=> AboutToChange(v, h)
    BY Zenon, <1>1, SameChanges
  <1>5. PICK al : al = (r \in Request => \A v \in Threads : ~Abstract!AboutToChange(v, r.key))
    BY Zenon
  <1>6. CallOf(thread'[t]) = [req |-> r, ret |-> NoCall, alone |-> al]
    <2>1. PICK th \in Thread : th = thread'[t]
      BY Zenon, <1>2
    <2>2. th.alone \in BOOLEAN
      BY Zenon, <2>1, ThreadFields
    <2>3. al \in BOOLEAN /\ (al <=> th.alone)
      BY Zenon, <1>2, <1>4, <1>5, <2>1
    <2>4. al = th.alone
      BY <2>2, <2>3
    <2>5. CallOf(th) = [req |-> th.req, ret |-> th.ret, alone |-> th.alone]
      BY Zenon, CallIsCall
    <2>6. QED
      BY Zenon, <1>2, <2>1, <2>4, <2>5
  <1>7. ASSUME NEW u \in Threads, u # t
        PROVE  CallOf(thread'[u]) = IF r \in Request /\ Abstract!AboutToChange(u, r.key)
                                    THEN [CallOf(thread[u]) EXCEPT !.alone = FALSE]
                                    ELSE CallOf(thread[u])
    <2>1. CASE r \in Request /\ AboutToChange(u, h)
      <3>1. thread'[u] = [thread[u] EXCEPT !.alone = FALSE]
        BY Zenon, <1>3, <1>7, <2>1
      <3>2. thread[u].pc # "idle"
        BY Zenon, <2>1 DEF AboutToChange
      <3>3. thread[u] \in Thread
        BY Zenon, <1>1, <3>2, Shapes
      <3>4. PICK a \in Thread : a = thread[u]
        BY Zenon, <3>3
      <3>5. PICK b : b = [a EXCEPT !.alone = FALSE]
        BY Zenon
      <3>6. b \in Thread /\ b.req = a.req /\ b.ret = a.ret /\ b.alone = FALSE
        BY Zenon, <3>5 DEF Thread
      <3>7. /\ CallOf(a) = [req |-> a.req, ret |-> a.ret, alone |-> a.alone]
            /\ CallOf(b) = [req |-> a.req, ret |-> a.ret, alone |-> FALSE]
        BY Zenon, <3>6, CallIsCall
      <3>8. CallOf(b) = [CallOf(a) EXCEPT !.alone = FALSE]
        <4>1. PICK x : x = a.req
          BY Zenon
        <4>2. PICK y : y = a.ret
          BY Zenon
        <4>3. PICK z : z = a.alone
          BY Zenon
        <4>4. PICK w : w = FALSE
          BY Zenon
        <4>5. /\ CallOf(a) = [req |-> x, ret |-> y, alone |-> z]
              /\ CallOf(b) = [req |-> x, ret |-> y, alone |-> w]
          BY Zenon, <3>7, <4>1, <4>2, <4>3, <4>4
        <4>6. [[req |-> x, ret |-> y, alone |-> z] EXCEPT !.alone = w]
                = [req |-> x, ret |-> y, alone |-> w]
          BY SMT
        <4>7. QED
          BY Zenon, <4>4, <4>5, <4>6
      <3>9. thread'[u] = b
        BY Zenon, <3>1, <3>4, <3>5
      <3>10. QED
        BY Zenon, <1>4, <2>1, <3>4, <3>8, <3>9
    <2>2. CASE ~(r \in Request /\ AboutToChange(u, h))
      BY Zenon, <1>3, <1>4, <1>7, <2>2
    <2>3. QED
      BY Zenon, <2>1, <2>2
  <1>8. CallsOf(thread') = [u \in Threads |->
          IF u = t THEN [req |-> r, ret |-> NoCall, alone |-> al]
          ELSE IF r \in Request /\ Abstract!AboutToChange(u, r.key)
               THEN [CallsOf(thread)[u] EXCEPT !.alone = FALSE] ELSE CallsOf(thread)[u]]
    BY Zenon, <1>6, <1>7 DEF CallsOf
  <1>9. CallsOf(thread)[t] = NoCall
    BY Zenon, <1>2 DEF CallsOf, CallOf
  <1>10. MapOf(files', damaged') = MapOf(files, damaged)
    BY Zenon, <1>2
  <1>11. QED
    BY Zenon, <1>5, <1>8, <1>9, <1>10, Mapping, SameRequests DEF Abstract!Begin

(* A call that returns ends the abstract call. *)
LEMMA EndRefines ==
  ASSUME IInv, NEW t \in Threads, End(t)
  PROVE  Abstract!End(t)
  <1>1. /\ thread[t].pc = "done" /\ UNCHANGED <<files, damaged>>
        /\ thread' = [thread EXCEPT ![t] = IdleThread]
    BY Zenon DEF End
  <1>2. /\ thread[t] \in Thread /\ thread[t] # IdleThread /\ thread[t].req \in Call
        /\ ThreadOK(thread[t], handler[t], files, Doubt)
    BY Zenon, <1>1, InCall
  <1>3. thread[t].req.type \in {"GETREQ", "PUTREQ", "DELREQ"}
    BY Zenon, <1>2, Kinds
  <1>4. thread[t].ret # NoCall
    BY Zenon, <1>1, <1>2, <1>3, StoreAssumption DEF ThreadOK
  <1>5. /\ CallsOf(thread') = [CallsOf(thread) EXCEPT ![t] = CallOf(IdleThread)]
        /\ CallsOf(thread)[t] = CallOf(thread[t])
    BY Zenon, <1>1, CallsAfter DEF IInv
  <1>6. CallOf(IdleThread) = NoCall
    BY Zenon DEF CallOf
  <1>7. CallOf(thread[t]).ret # NoCall /\ CallOf(thread[t]) # NoCall
    BY Zenon, <1>2, <1>4, CallIsCall
  <1>8. QED
    BY Zenon, <1>1, <1>5, <1>6, <1>7, Mapping DEF Abstract!End

(* The call of t, whose outcome was open, has one. *)
LEMMA Outcomes ==
  ASSUME IInv, NEW t \in Threads, thread[t] \in Thread, thread[t].ret = NoCall,
         NEW th \in Thread, th.req = thread[t].req, th.alone = thread[t].alone,
         thread' = [thread EXCEPT ![t] = th]
  PROVE  /\ CallsOf(thread') = [CallsOf(thread) EXCEPT ![t].ret = th.ret]
         /\ CallsOf(thread)[t] # NoCall /\ CallsOf(thread)[t].ret = NoCall
         /\ CallsOf(thread)[t].req = thread[t].req
         /\ CallsOf(thread)[t].alone = thread[t].alone
  <1>1. /\ CallsOf(thread') = [CallsOf(thread) EXCEPT ![t] = CallOf(th)]
        /\ CallsOf(thread)[t] = CallOf(thread[t])
    BY Zenon, CallsAfter DEF IInv
  <1>2. /\ CallOf(thread[t]) = [req |-> thread[t].req, ret |-> NoCall, alone |-> thread[t].alone]
        /\ CallOf(thread[t]) # NoCall
        /\ CallOf(th) = [req |-> thread[t].req, ret |-> th.ret, alone |-> thread[t].alone]
    BY Zenon, CallIsCall
  <1>3. CallOf(th) = [CallsOf(thread)[t] EXCEPT !.ret = th.ret]
    BY <1>1, <1>2
  <1>4. CallsOf(thread') = [CallsOf(thread) EXCEPT ![t].ret = th.ret]
    BY Zenon, <1>1, <1>3
  <1>5. QED
    BY <1>1, <1>2, <1>4

(* A step of the store in which the call of t takes effect. *)
LEMMA TakeEffectRefines ==
  ASSUME IInv, NEW t \in Threads, thread[t] \in Thread, thread[t].ret = NoCall,
         NEW th \in Thread, th.req = thread[t].req, th.alone = thread[t].alone,
         thread' = [thread EXCEPT ![t] = th],
         MapOf(files, damaged)[thread[t].req.key] # Damaged,
         MapOf(files', damaged') = Apply(MapOf(files, damaged), thread[t].req),
         th.ret = Abstract!Outcome(MapOf(files, damaged), thread[t].req)
  PROVE  Abstract!TakeEffect(t)
  <1>1. /\ CallsOf(thread') = [CallsOf(thread) EXCEPT ![t].ret = th.ret]
        /\ CallsOf(thread)[t] # NoCall /\ CallsOf(thread)[t].ret = NoCall
        /\ CallsOf(thread)[t].req = thread[t].req
    BY Zenon, Outcomes
  <1>2. QED
    BY <1>1, Mapping, SameRequests DEF Abstract!TakeEffect, Abstract!Pending

(* A step of the store that damages its chain, or changes a damaged one. *)
LEMMA MisplaceRefines ==
  ASSUME IInv, NEW t \in Threads, thread[t] \in Thread, thread[t].ret = NoCall,
         thread[t].req \in Request,
         NEW th \in Thread, th.req = thread[t].req, th.alone = thread[t].alone,
         th.ret \in {"ok", "error"},
         thread' = [thread EXCEPT ![t] = th],
         damaged' = damaged \cup {HashOf[thread[t].req.key]},
         ~thread[t].alone \/ HashOf[thread[t].req.key] \in damaged,
         \A h \in Hashes : h # HashOf[thread[t].req.key] => files'[h] = files[h]
  PROVE  Abstract!Misplace(t)
  <1> DEFINE k == thread[t].req.key
  <1>1. /\ CallsOf(thread') = [CallsOf(thread) EXCEPT ![t].ret = th.ret]
        /\ CallsOf(thread)[t] # NoCall /\ CallsOf(thread)[t].ret = NoCall
        /\ CallsOf(thread)[t].req = thread[t].req
        /\ CallsOf(thread)[t].alone = thread[t].alone
    BY Zenon, Outcomes
  <1>2. k \in Keys
    BY Zenon, ThreadFields, Kinds
  <1>3. PICK nr : nr = [j \in Keys |-> {i \in Keys : HashOf[i] = HashOf[j]}]
    BY Zenon
  <1>4. \A j \in Keys : j \in nr[k] <=> HashOf[j] = HashOf[k]
    BY Zenon, <1>2, <1>3
  <1>5. \A j \in Keys : HashOf[j] # HashOf[k] => LookIn(files', j) = LookIn(files, j)
    BY Zenon DEF Hashes, LookIn
  <1>6. MapOf(files', damaged') = [j \in Keys |-> IF j \in nr[k] THEN Damaged
                                                  ELSE MapOf(files, damaged)[j]]
    <2>1. ASSUME NEW j \in Keys
          PROVE  (IF HashOf[j] \in damaged' THEN Damaged ELSE LookIn(files', j)) =
                 (IF j \in nr[k] THEN Damaged
                  ELSE IF HashOf[j] \in damaged THEN Damaged ELSE LookIn(files, j))
      <3>1. CASE HashOf[j] = HashOf[k]
        BY Zenon, <1>4, <3>1
      <3>2. CASE HashOf[j] # HashOf[k]
        BY Zenon, <1>4, <1>5, <3>2
      <3>3. QED
        BY Zenon, <3>1, <3>2
    <2>2. QED
      BY Zenon, <2>1 DEF MapOf
  <1>7. HashOf[k] \in damaged => MapOf(files, damaged)[k] = Damaged
    BY Zenon, <1>2 DEF MapOf
  <1>8. PICK m : m = [j \in Keys |-> IF HashOf[j] \in damaged THEN Damaged ELSE Lookup(j)]
    BY Zenon
  <1>9. PICK c : c = [u \in Threads |-> CallOf(thread[u])]
    BY Zenon
  <1>10. m = MapOf(files, damaged) /\ c = CallsOf(thread)
    BY Zenon, <1>8, <1>9, Mapping
  <1>11. Abstract!Pending(t)
    BY Zenon, <1>1, Mapping DEF Abstract!Pending
  <1>12. c[t].req \in Abstract!Request /\ (~c[t].alone \/ m[c[t].req.key] = Damaged)
    BY Zenon, <1>1, <1>7, <1>10, SameRequests
  <1>13. [j \in Keys |-> IF HashOf[j] \in damaged THEN Damaged ELSE Lookup(j)]' =
           [j \in Keys |-> IF j \in nr[c[t].req.key] THEN Damaged ELSE m[j]]
    BY Zenon, <1>1, <1>6, <1>10, Mapping
  <1>14. \E ret \in {"ok", "error"} :
           [u \in Threads |-> CallOf(thread[u])]' = [c EXCEPT ![t].ret = ret]
    BY Zenon, <1>1, <1>10, Mapping
  <1>15. QED
    BY Zenon, <1>3, <1>8, <1>9, <1>11, <1>12, <1>13, <1>14 DEF Abstract!Misplace

(* kvstore_get on a damaged chain. *)
LEMMA GetDamagedRefines ==
  ASSUME IInv, NEW t \in Threads, thread[t] \in Thread, thread[t].ret = NoCall,
         thread[t].req \in GetReq, HashOf[thread[t].req.key] \in damaged,
         NEW th \in Thread, th.req = thread[t].req, th.alone = thread[t].alone,
         th.ret \in Values \cup {Absent},
         thread' = [thread EXCEPT ![t] = th], UNCHANGED <<files, damaged>>
  PROVE  Abstract!GetDamaged(t)
  <1>1. /\ CallsOf(thread') = [CallsOf(thread) EXCEPT ![t].ret = th.ret]
        /\ CallsOf(thread)[t] # NoCall /\ CallsOf(thread)[t].ret = NoCall
        /\ CallsOf(thread)[t].req = thread[t].req
    BY Zenon, Outcomes
  <1>2. thread[t].req.key \in Keys
    BY Zenon, ThreadFields, Kinds
  <1>3. MapOf(files, damaged)[thread[t].req.key] = Damaged
    BY Zenon, <1>2 DEF MapOf
  <1>4. MapOf(files', damaged') = MapOf(files, damaged)
    BY Zenon
  <1>5. QED
    BY Zenon, <1>1, <1>3, <1>4, Mapping, SameRequests DEF Abstract!GetDamaged, Abstract!Pending

(* A step of the store that its caller does not see. *)
LEMMA UnseenStep ==
  ASSUME IInv, NEW t \in Threads, thread[t] \in Thread, NEW th \in Thread,
         th.req = thread[t].req, th.ret = thread[t].ret, th.alone = thread[t].alone,
         thread' = [thread EXCEPT ![t] = th], UNCHANGED <<files, damaged>>
  PROVE  UNCHANGED AbstractVars
  <1>1. /\ CallsOf(thread') = [CallsOf(thread) EXCEPT ![t] = CallOf(th)]
        /\ CallsOf(thread)[t] = CallOf(thread[t])
    BY Zenon, CallsAfter DEF IInv
  <1>2. CallOf(th) = CallOf(thread[t])
    BY Zenon, CallIsCall
  <1>3. CallsOf(thread') = CallsOf(thread)
    BY Zenon, <1>1, <1>2 DEF CallsOf
  <1>4. QED
    BY Zenon, <1>3, Mapping DEF AbstractVars

(* What a put and a del of the store are to the map: files f become g, and *)
(* no chain outside D is damaged.                                          *)
PutIn(f, g, D, r) ==
  /\ r.type = "PUTREQ" /\ r.value \notin TooLong
  /\ HashOf[r.key] \notin D /\ LookIn(g, r.key) = r.value
  /\ \A j \in Keys : j # r.key /\ HashOf[j] \notin D => LookIn(g, j) = LookIn(f, j)

DelIn(f, g, D, r) ==
  /\ r.type = "DELREQ"
  /\ HashOf[r.key] \notin D /\ LookIn(g, r.key) = Absent
  /\ \A j \in Keys : j # r.key /\ HashOf[j] \notin D => LookIn(g, j) = LookIn(f, j)

(* What kvstore_put does to the abstract store. *)
LEMMA MapAfterPut ==
  ASSUME NEW f, NEW g, NEW D, NEW r \in Call, PutIn(f, g, D, r)
  PROVE  MapOf(g, D) = Apply(MapOf(f, D), r) /\ Abstract!Outcome(MapOf(f, D), r) = "ok"
  <1>1. r.key \in Keys
    BY Zenon, Kinds
  <1>2. Check(MapOf(f, D), r)
    BY Zenon DEF Check, PutIn
  <1>3. Apply(MapOf(f, D), r) = [MapOf(f, D) EXCEPT ![r.key] = r.value]
    BY Zenon, <1>2 DEF Apply, PutIn
  <1>4. MapOf(g, D) = Apply(MapOf(f, D), r)
    BY Zenon, <1>1, <1>3 DEF MapOf, PutIn
  <1>5. QED
    BY Zenon, <1>2, <1>4, SameRequests DEF Abstract!Outcome, PutIn

(* What kvstore_del does to the abstract store. *)
LEMMA MapAfterDel ==
  ASSUME NEW f, NEW g, NEW D, NEW r \in Call, DelIn(f, g, D, r)
  PROVE  /\ MapOf(g, D) = Apply(MapOf(f, D), r)
         /\ LookIn(f, r.key) # Absent => Abstract!Outcome(MapOf(f, D), r) = "ok"
         /\ LookIn(f, r.key) = Absent => Abstract!Outcome(MapOf(f, D), r) = "error"
  <1>1. r.key \in Keys
    BY Zenon, Kinds
  <1>2. Check(MapOf(f, D), r) <=> LookIn(f, r.key) # Absent
    BY Zenon, <1>1 DEF Check, MapOf, DelIn
  <1>3. Apply(MapOf(f, D), r) = [MapOf(f, D) EXCEPT ![r.key] = Absent]
    BY Zenon DEF Apply, DelIn
  <1>4. MapOf(g, D) = Apply(MapOf(f, D), r)
    BY Zenon, <1>1, <1>3 DEF MapOf, DelIn
  <1>5. QED
    BY Zenon, <1>2, <1>4, SameRequests DEF Abstract!Outcome, DelIn

(* The entry of a key in a sound chain is a value or none. *)
LEMMA SoundEntry ==
  ASSUME IInv, NEW k \in Keys, HashOf[k] \notin damaged
  PROVE  /\ MapOf(files, damaged)[k] = LookIn(files, k)
         /\ MapOf(files, damaged)[k] # Damaged
  <1>1. HashOf[k] \in Hashes
    BY Zenon DEF Hashes
  <1>2. ChainOK(HashOf[k], files[HashOf[k]])
    BY Zenon, <1>1 DEF IInv, ChainsOK
  <1>3. LookIn(files, k) \in Values \cup {Absent}
    BY Zenon, <1>2, FindType DEF LookIn
  <1>4. Damaged \notin Values \cup {Absent}
    BY Zenon, StoreAssumption
  <1>5. QED
    BY Zenon, <1>3, <1>4 DEF MapOf

(* What a step of the store is to the abstract one. *)
Refined(t) == \/ Abstract!TakeEffect(t) \/ Abstract!Misplace(t) \/ Abstract!GetDamaged(t)
              \/ UNCHANGED AbstractVars

(* The call of t before its effect. *)
LEMMA Undecided ==
  ASSUME IInv, NEW t \in Threads, thread[t].pc \in {"called", "found"}
  PROVE  /\ Types /\ thread[t] \in Thread /\ thread[t].ret = NoCall
         /\ thread[t].req \in Call /\ thread[t].req.key \in Keys
         /\ HashOf[thread[t].req.key] \in Hashes
         /\ thread[t].req.type = "PUTREQ" => thread[t].req.value \notin TooLong
         /\ RawChain(Chain(thread[t].req.key))
         /\ HashOf[thread[t].req.key] \notin damaged =>
              ChainOK(HashOf[thread[t].req.key], Chain(thread[t].req.key))
  <1>1. thread[t].pc # "idle"
    BY Zenon
  <1>2. /\ Types /\ thread[t] # IdleThread /\ thread[t] \in Thread
        /\ thread[t].req \in Call /\ thread[t].req.key \in Keys
        /\ HashOf[thread[t].req.key] \in Hashes
        /\ RawChain(Chain(thread[t].req.key))
        /\ HashOf[thread[t].req.key] \notin damaged =>
             ChainOK(HashOf[thread[t].req.key], Chain(thread[t].req.key))
        /\ ThreadOK(thread[t], handler[t], files, Doubt)
    BY Zenon, <1>1, InCall
  <1>3. /\ thread[t].ret = NoCall
        /\ thread[t].req.type = "PUTREQ" => thread[t].req.value \notin TooLong
    BY Zenon, <1>2 DEF ThreadOK
  <1>4. QED
    BY Zenon, <1>2, <1>3

(* kvstore_get, *)
LEMMA GetRefines ==
  ASSUME IInv, NEW t \in Threads, Get(t)
  PROVE  Refined(t)
  <1> DEFINE k == thread[t].req.key
  <1>1. PICK th : th = [thread[t] EXCEPT !.pc = "done", !.ret = Lookup(k)]
    BY Zenon
  <1>2. thread[t].pc = "called" /\ thread[t].req.type = "GETREQ" /\ UNCHANGED <<files, damaged>>
    BY Zenon DEF Get
  <1>3. /\ Types /\ thread[t] \in Thread /\ thread[t].ret = NoCall
        /\ thread[t].req \in Call /\ k \in Keys /\ RawChain(Chain(k))
    BY Zenon, <1>2, Undecided
  <1>4. Lookup(k) = LookIn(files, k) /\ Lookup(k) \in Values \cup {Absent}
    BY Zenon, <1>3, RawFind, LookupIs DEF LookIn, Chain
  <1>5. /\ th \in Thread /\ th.req = thread[t].req /\ th.ret = Lookup(k)
        /\ th.alone = thread[t].alone
    BY Zenon, <1>1, <1>3, <1>4 DEF Thread
  <1>6. thread' = [thread EXCEPT ![t] = th]
    BY Zenon, <1>1, <1>3 DEF Get, Return, Types
  <1>7. CASE HashOf[k] \in damaged
    <2>1. thread[t].req \in GetReq
      BY Zenon, <1>2, <1>3, Kinds DEF Call
    <2>2. Abstract!GetDamaged(t)
      BY Zenon, <1>2, <1>3, <1>4, <1>5, <1>6, <1>7, <2>1, GetDamagedRefines
    <2>3. QED
      BY Zenon, <2>2 DEF Refined
  <1>8. CASE HashOf[k] \notin damaged
    <2>1. PICK m : m = MapOf(files, damaged)
      BY Zenon
    <2>2. m[k] = LookIn(files, k) /\ m[k] # Damaged
      BY Zenon, <1>3, <1>8, <2>1, SoundEntry
    <2>3. Apply(m, thread[t].req) = MapOf(files', damaged')
      BY Zenon, <1>2, <2>1 DEF Apply
    <2>4. Abstract!Outcome(m, thread[t].req) = th.ret
      BY Zenon, <1>2, <1>4, <1>5, <2>2 DEF Abstract!Outcome
    <2>5. Abstract!TakeEffect(t)
      BY Zenon, <1>3, <1>5, <1>6, <2>1, <2>2, <2>3, <2>4, TakeEffectRefines
    <2>6. QED
      BY Zenon, <2>5 DEF Refined
  <1>9. QED
    BY Zenon, <1>7, <1>8

(* the writing of kvstore_put, *)
LEMMA PutOpenRefines ==
  ASSUME IInv, NEW t \in Threads, PutOpen(t)
  PROVE  Refined(t)
  <1> DEFINE k == thread[t].req.key
  <1>1. PICK n : n = PutPos(Chain(k), thread[t].pos)
    BY Zenon
  <1>2. PICK th : th = [thread[t] EXCEPT !.pc = "opened", !.at = n, !.ret = "ok"]
    BY Zenon
  <1>3. thread[t].pc = "found" /\ thread[t].req.type = "PUTREQ" /\ Damages(t)
    BY Zenon DEF PutOpen
  <1>4. /\ Types /\ thread[t] \in Thread /\ thread[t].ret = NoCall
        /\ thread[t].req \in Call /\ k \in Keys /\ thread[t].req.value \notin TooLong
    BY Zenon, <1>3, Undecided
  <1>5. /\ HashOf[k] \notin damaged' => LookIn(files', k) = thread[t].req.value
        /\ \A h \in Hashes : h # HashOf[k] => files'[h] = files[h]
        /\ \A j \in Keys : j # k /\ HashOf[j] \notin damaged' => LookIn(files', j) = LookIn(files, j)
        /\ n \in 0..ERRNOKEY
    BY Zenon, <1>1, PutOpenEffect
  <1>6. th \in Thread /\ th.req = thread[t].req /\ th.ret = "ok" /\ th.alone = thread[t].alone
    BY Zenon, <1>2, <1>4, <1>5 DEF Thread
  <1>7. thread' = [thread EXCEPT ![t] = th]
    BY Zenon, <1>1, <1>2, <1>4 DEF PutOpen, Types
  <1>8. /\ damaged \subseteq damaged' /\ damaged' \subseteq damaged \cup {HashOf[k]}
        /\ HashOf[k] \in damaged' => HashOf[k] \in damaged \/ ~thread[t].alone
    BY Zenon, <1>3, DamageSeen
  <1>9. CASE HashOf[k] \in damaged'
    <2>1. damaged' = damaged \cup {HashOf[k]}
      BY Zenon, <1>8, <1>9
    <2>2. thread[t].req \in Request
      BY Zenon, <1>3, <1>4, Kinds
    <2>3. Abstract!Misplace(t)
      BY Zenon, <1>4, <1>5, <1>6, <1>7, <1>8, <1>9, <2>1, <2>2, MisplaceRefines
    <2>4. QED
      BY Zenon, <2>3 DEF Refined
  <1>10. CASE HashOf[k] \notin damaged'
    <2>1. damaged' = damaged
      BY Zenon, <1>8, <1>10
    <2>2. HashOf[k] \notin damaged
      BY Zenon, <1>10, <2>1
    <2>3. MapOf(files, damaged)[k] # Damaged
      BY Zenon, <1>4, <2>2, SoundEntry
    <2>4. \A j \in Keys : j # k /\ HashOf[j] \notin damaged => LookIn(files', j) = LookIn(files, j)
      BY Zenon, <1>5, <2>1
    <2>5. /\ MapOf(files', damaged) = Apply(MapOf(files, damaged), thread[t].req)
          /\ Abstract!Outcome(MapOf(files, damaged), thread[t].req) = "ok"
      <3>1. PutIn(files, files', damaged, thread[t].req)
        BY Zenon, <1>3, <1>4, <1>5, <1>10, <2>2, <2>4 DEF PutIn
      <3>2. QED
        BY Zenon, <1>4, <3>1, MapAfterPut
    <2>6. MapOf(files', damaged') = Apply(MapOf(files, damaged), thread[t].req)
      BY Zenon, <2>1, <2>5
    <2>7. Abstract!TakeEffect(t)
      BY Zenon, <1>4, <1>6, <1>7, <2>3, <2>5, <2>6, TakeEffectRefines
    <2>8. QED
      BY Zenon, <2>7 DEF Refined
  <1>11. QED
    BY Zenon, <1>9, <1>10

(* kvstore_del, *)
LEMMA DelRefines ==
  ASSUME IInv, NEW t \in Threads, Del(t)
  PROVE  Refined(t)
  <1> DEFINE k == thread[t].req.key
  <1>1. thread[t].pc = "found" /\ thread[t].req.type = "DELREQ" /\ Damages(t)
    BY Zenon DEF Del
  <1>2. /\ Types /\ thread[t] \in Thread /\ thread[t].ret = NoCall
        /\ thread[t].req \in Call /\ k \in Keys
    BY Zenon, <1>1, Undecided
  <1>3. /\ HashOf[k] \notin damaged' => /\ LookIn(files, k) # Absent
                                        /\ LookIn(files', k) = Absent
                                        /\ Return(t, "ok")
        /\ \A h \in Hashes : h # HashOf[k] => files'[h] = files[h]
        /\ \A j \in Keys : j # k /\ HashOf[j] \notin damaged' => LookIn(files', j) = LookIn(files, j)
    BY Zenon, DelEffect
  <1>4. PICK ret \in {"ok", "error"} : Return(t, ret) /\ (HashOf[k] \notin damaged' => ret = "ok")
    BY Zenon, DelEffect
  <1>5. PICK th : th = [thread[t] EXCEPT !.pc = "done", !.ret = ret]
    BY Zenon
  <1>6. th \in Thread /\ th.req = thread[t].req /\ th.ret = ret /\ th.alone = thread[t].alone
    BY Zenon, <1>2, <1>4, <1>5 DEF Thread
  <1>7. thread' = [thread EXCEPT ![t] = th]
    BY Zenon, <1>2, <1>4, <1>5 DEF Return, Types
  <1>8. /\ damaged \subseteq damaged' /\ damaged' \subseteq damaged \cup {HashOf[k]}
        /\ HashOf[k] \in damaged' => HashOf[k] \in damaged \/ ~thread[t].alone
    BY Zenon, <1>1, DamageSeen
  <1>9. CASE HashOf[k] \in damaged'
    <2>1. damaged' = damaged \cup {HashOf[k]}
      BY Zenon, <1>8, <1>9
    <2>2. thread[t].req \in Request
      BY Zenon, <1>1, <1>2, Kinds
    <2>3. Abstract!Misplace(t)
      BY Zenon, <1>2, <1>3, <1>4, <1>6, <1>7, <1>8, <1>9, <2>1, <2>2, MisplaceRefines
    <2>4. QED
      BY Zenon, <2>3 DEF Refined
  <1>10. CASE HashOf[k] \notin damaged'
    <2>1. damaged' = damaged
      BY Zenon, <1>8, <1>10
    <2>2. HashOf[k] \notin damaged
      BY Zenon, <1>10, <2>1
    <2>3. MapOf(files, damaged)[k] # Damaged
      BY Zenon, <1>2, <2>2, SoundEntry
    <2>4. \A j \in Keys : j # k /\ HashOf[j] \notin damaged => LookIn(files', j) = LookIn(files, j)
      BY Zenon, <1>3, <2>1
    <2>5. /\ MapOf(files', damaged) = Apply(MapOf(files, damaged), thread[t].req)
          /\ Abstract!Outcome(MapOf(files, damaged), thread[t].req) = "ok"
      <3>1. DelIn(files, files', damaged, thread[t].req) /\ LookIn(files, k) # Absent
        BY Zenon, <1>1, <1>3, <1>10, <2>2, <2>4 DEF DelIn
      <3>2. /\ MapOf(files', damaged) = Apply(MapOf(files, damaged), thread[t].req)
            /\ LookIn(files, k) # Absent =>
                 Abstract!Outcome(MapOf(files, damaged), thread[t].req) = "ok"
            /\ LookIn(files, k) = Absent =>
                 Abstract!Outcome(MapOf(files, damaged), thread[t].req) = "error"
        BY <1>2, <3>1, MapAfterDel
      <3>3. QED
        BY Zenon, <3>1, <3>2
    <2>6. MapOf(files', damaged') = Apply(MapOf(files, damaged), thread[t].req) /\ th.ret = "ok"
      BY Zenon, <1>4, <1>6, <1>10, <2>1, <2>5
    <2>7. Abstract!TakeEffect(t)
      BY Zenon, <1>2, <1>6, <1>7, <2>3, <2>5, <2>6, TakeEffectRefines
    <2>8. QED
      BY Zenon, <2>7 DEF Refined
  <1>11. QED
    BY Zenon, <1>9, <1>10

(* and the find_entry of both, which decides a kvstore_del of no key. *)
LEMMA FindRefines ==
  ASSUME IInv, NEW t \in Threads, Find(t)
  PROVE  Refined(t)
  <1> DEFINE k == thread[t].req.key
             n == FindEntry(Chain(k), k)
  <1>1. /\ thread[t].pc = "called" /\ thread[t].req \in Request
        /\ UNCHANGED <<files, damaged>>
    BY Zenon DEF Find
  <1>2. /\ Types /\ thread[t] \in Thread /\ thread[t].ret = NoCall
        /\ thread[t].req \in Call /\ k \in Keys /\ RawChain(Chain(k))
        /\ HashOf[k] \notin damaged => ChainOK(HashOf[k], Chain(k))
    BY Zenon, <1>1, Undecided
  <1>3. CASE thread[t].req.type = "DELREQ" /\ n = ERRNOKEY
    <2>1. PICK th : th = [thread[t] EXCEPT !.pc = "done", !.ret = "error"]
      BY Zenon
    <2>2. /\ th \in Thread /\ th.req = thread[t].req /\ th.ret = "error"
          /\ th.alone = thread[t].alone
      BY Zenon, <1>2, <2>1 DEF Thread
    <2>3. thread' = [thread EXCEPT ![t] = th]
      BY Zenon, <1>2, <1>3, <2>1 DEF Find, Return, Types
    <2>4. CASE HashOf[k] \in damaged
      <3>1. damaged' = damaged \cup {HashOf[k]}
        BY Zenon, <1>1, <2>4
      <3>2. \A h \in Hashes : h # HashOf[k] => files'[h] = files[h]
        BY Zenon, <1>1
      <3>3. Abstract!Misplace(t)
        BY Zenon, <1>1, <1>2, <2>2, <2>3, <2>4, <3>1, <3>2, MisplaceRefines
      <3>4. QED
        BY Zenon, <3>3 DEF Refined
    <2>5. CASE HashOf[k] \notin damaged
      <3>1. LookIn(files, k) = Absent
        <4>1. PICK c : c = Chain(k)
          BY Zenon
        <4>2. ChainOK(HashOf[k], c) /\ FindEntry(c, k) = ERRNOKEY
          BY Zenon, <1>2, <1>3, <2>5, <4>1
        <4>3. ValueAt(c, k) = Absent
          BY Zenon, <4>2, FindType
        <4>4. QED
          BY Zenon, <4>1, <4>3 DEF LookIn, Chain
      <3>2. MapOf(files, damaged)[k] # Damaged
        BY Zenon, <1>2, <2>5, SoundEntry
      <3>3. /\ MapOf(files, damaged) = Apply(MapOf(files, damaged), thread[t].req)
            /\ Abstract!Outcome(MapOf(files, damaged), thread[t].req) = "error"
        <4>1. DelIn(files, files, damaged, thread[t].req)
          BY Zenon, <1>3, <2>5, <3>1 DEF DelIn
        <4>2. /\ MapOf(files, damaged) = Apply(MapOf(files, damaged), thread[t].req)
              /\ LookIn(files, k) # Absent =>
                   Abstract!Outcome(MapOf(files, damaged), thread[t].req) = "ok"
              /\ LookIn(files, k) = Absent =>
                   Abstract!Outcome(MapOf(files, damaged), thread[t].req) = "error"
          BY <1>2, <4>1, MapAfterDel
        <4>3. QED
          BY Zenon, <3>1, <4>2
      <3>4. MapOf(files', damaged') = Apply(MapOf(files, damaged), thread[t].req)
        BY Zenon, <1>1, <3>3
      <3>5. Abstract!TakeEffect(t)
        BY Zenon, <1>2, <2>2, <2>3, <3>2, <3>3, <3>4, TakeEffectRefines
      <3>6. QED
        BY Zenon, <3>5 DEF Refined
    <2>6. QED
      BY Zenon, <2>4, <2>5
  <1>4. CASE ~(thread[t].req.type = "DELREQ" /\ n = ERRNOKEY)
    <2>1. PICK th : th = [thread[t] EXCEPT !.pc = "found", !.pos = n]
      BY Zenon
    <2>2. n \in 0..ERRNOKEY
      BY Zenon, <1>2, RawFind
    <2>3. /\ th \in Thread /\ th.req = thread[t].req /\ th.ret = thread[t].ret
          /\ th.alone = thread[t].alone
      BY Zenon, <1>2, <2>1, <2>2 DEF Thread
    <2>4. thread' = [thread EXCEPT ![t] = th]
      BY Zenon, <1>2, <1>4, <2>1 DEF Find, Types
    <2>5. UNCHANGED AbstractVars
      BY Zenon, <1>1, <1>2, <2>3, <2>4, UnseenStep
    <2>6. QED
      BY Zenon, <2>5 DEF Refined
  <1>5. QED
    BY Zenon, <1>3, <1>4

(* The closing of the file is not seen. *)
LEMMA PutCloseRefines ==
  ASSUME IInv, NEW t \in Threads, PutClose(t)
  PROVE  Refined(t)
  <1>1. PICK th : th = [thread[t] EXCEPT !.pc = "done", !.ret = "ok"]
    BY Zenon
  <1>2. thread[t].pc = "opened"
    BY Zenon DEF PutClose
  <1>3. /\ Types /\ thread[t] # IdleThread /\ thread[t] \in Thread
        /\ ThreadOK(thread[t], handler[t], files, Doubt)
    BY Zenon, <1>2, InCall
  <1>4. th \in Thread /\ th.req = thread[t].req /\ th.ret = "ok" /\ th.alone = thread[t].alone
    BY Zenon, <1>1, <1>3 DEF Thread
  <1>5. thread' = [thread EXCEPT ![t] = th] /\ UNCHANGED <<files, damaged>>
    BY Zenon, <1>1, <1>3 DEF PutClose, Return, Types
  <1>6. thread[t].ret = "ok"
    BY Zenon, <1>2, <1>3 DEF ThreadOK
  <1>7. UNCHANGED AbstractVars
    BY Zenon, <1>3, <1>4, <1>5, <1>6, UnseenStep
  <1>8. QED
    BY Zenon, <1>7 DEF Refined

(* A step of the store is the effect of the call, or no step. *)
LEMMA StoreStepRefines ==
  ASSUME IInv, NEW t \in Threads, StoreStep(t)
  PROVE  Refined(t)
  BY Zenon, GetRefines, FindRefines, PutOpenRefines, PutCloseRefines, DelRefines DEF StoreStep

(* A crash loses the chains of the puts under way. *)
LEMMA CrashRefines ==
  ASSUME IInv, StoreCrash
  PROVE  Abstract!Crash
  <1>1. /\ damaged' = damaged \cup {HashOf[k] : k \in Opened}
        /\ \A h \in Hashes \ damaged' : files'[h] = files[h]
    BY Zenon, CrashFiles
  <1>2. CallsOf(thread') = [t \in Threads |-> NoCall]
    BY Zenon DEF StoreCrash, CallsOf, CallOf
  <1>3. PICK nr : nr = [k \in Keys |-> {j \in Keys : HashOf[j] = HashOf[k]}]
    BY Zenon
  <1>4. Opened \subseteq Abstract!Written
    <2> SUFFICES ASSUME NEW k \in Opened PROVE k \in Abstract!Written
      BY Zenon
    <2>1. PICK u \in Threads : thread[u].pc = "opened" /\ thread[u].req.key = k
      BY Zenon DEF Opened
    <2>2. thread[u].pc # "idle"
      BY Zenon, <2>1
    <2>3. /\ thread[u] # IdleThread /\ thread[u] \in Thread /\ thread[u].req \in Call
          /\ ThreadOK(thread[u], handler[u], files, Doubt)
      BY Zenon, <2>1, <2>2, InCall
    <2>4. thread[u].req.type = "PUTREQ" /\ thread[u].ret = "ok"
      BY Zenon, <2>1, <2>3 DEF ThreadOK
    <2>5. thread[u].req \in PutReq
      BY Zenon, <2>3, <2>4 DEF Call, Request, DelReq, GetReq
    <2>6. PICK c : c = [t \in Threads |-> CallOf(thread[t])]
      BY Zenon
    <2>7. c[u] # NoCall /\ c[u].req = thread[u].req /\ c[u].ret # NoCall
      BY Zenon, <2>3, <2>4, <2>6, CallIsCall, StoreAssumption
    <2>8. k \in {c[t].req.key : t \in {v \in Threads : /\ c[v] # NoCall
                                                       /\ c[v].req \in Abstract!PutReq
                                                       /\ c[v].ret # NoCall}}
      BY Zenon, <2>1, <2>5, <2>7, SameRequests
    <2>9. QED
      BY Zenon, <2>6, <2>8 DEF Abstract!Written
  <1>5. Opened \subseteq Keys
    <2>1. \A u \in Threads : thread[u].pc = "opened" => thread[u].req.key \in Keys
      BY Zenon, InCall
    <2>2. QED
      BY Zenon, <2>1 DEF Opened
  <1>6. MapOf(files', damaged') = [k \in Keys |-> IF nr[k] \cap Opened # {} THEN Damaged
                                                  ELSE MapOf(files, damaged)[k]]
    <2>1. ASSUME NEW k \in Keys
          PROVE  (IF HashOf[k] \in damaged' THEN Damaged ELSE LookIn(files', k)) =
                 (IF nr[k] \cap Opened # {} THEN Damaged
                  ELSE IF HashOf[k] \in damaged THEN Damaged ELSE LookIn(files, k))
      <3>1. nr[k] \cap Opened # {} <=> HashOf[k] \in {HashOf[j] : j \in Opened}
        BY Zenon, <1>3, <1>5
      <3>2. CASE HashOf[k] \in damaged'
        BY Zenon, <1>1, <3>1, <3>2
      <3>3. CASE HashOf[k] \notin damaged'
        <4>1. LookIn(files', k) = LookIn(files, k)
          BY Zenon, <1>1, <3>3 DEF LookIn, Hashes
        <4>2. QED
          BY Zenon, <1>1, <3>1, <3>3, <4>1
      <3>4. QED
        BY Zenon, <3>2, <3>3
    <2>2. QED
      BY Zenon, <2>1 DEF MapOf
  <1>7. PICK m : m = [k \in Keys |-> IF HashOf[k] \in damaged THEN Damaged ELSE Lookup(k)]
    BY Zenon
  <1>8. [k \in Keys |-> IF HashOf[k] \in damaged THEN Damaged ELSE Lookup(k)]' =
          [k \in Keys |-> IF nr[k] \cap Opened # {} THEN Damaged ELSE m[k]]
    BY Zenon, <1>6, <1>7, Mapping
  <1>9. [t \in Threads |-> CallOf(thread[t])]' = [t \in Threads |-> NoCall]
    BY Zenon, <1>2, Mapping
  <1>10. \E lost \in SUBSET Abstract!Written :
           [k \in Keys |-> IF HashOf[k] \in damaged THEN Damaged ELSE Lookup(k)]' =
             [k \in Keys |-> IF nr[k] \cap lost # {} THEN Damaged ELSE m[k]]
    BY Zenon, <1>4, <1>8
  <1>11. QED
    BY Zenon, <1>3, <1>7, <1>9, <1>10 DEF Abstract!Crash

(* Every step is one of the abstract store, or none. *)
LEMMA StepRefines ==
  ASSUME IInv, [Next]_vars
  PROVE  [Abstract!Next]_AbstractVars
  <1>1. ASSUME UNCHANGED <<files, damaged, thread>> PROVE [Abstract!Next]_AbstractVars
    <2>1. UNCHANGED AbstractVars
      BY Zenon, <1>1, Mapping DEF AbstractVars
    <2>2. QED
      BY Zenon, <2>1
  <1>2. CASE UNCHANGED vars
    BY Zenon, <1>1, <1>2 DEF vars, storeVars
  <1>3. CASE Crash
    BY Zenon, <1>3, CrashRefines DEF Crash, Abstract!Next
  <1>4. ASSUME NEW t \in Threads, StoreStep(t) PROVE [Abstract!Next]_AbstractVars
    <2>1. Refined(t)
      BY Zenon, <1>4, StoreStepRefines
    <2>2. QED
      BY Zenon, <2>1 DEF Refined, Abstract!Next
  <1>5. ASSUME NEW t \in Threads, handler[t].pc # "idle", Begin(t, handler[t].req)
        PROVE  [Abstract!Next]_AbstractVars
    <2>1. PICK r \in Call : r = handler[t].req
      BY Zenon, <1>5, AtWork
    <2>2. Abstract!Begin(t, r)
      BY Zenon, <1>5, <2>1, BeginRefines
    <2>3. r \in Abstract!Call
      BY Zenon, <2>1, SameRequests
    <2>4. QED
      BY Zenon, <2>2, <2>3 DEF Abstract!Next
  <1>6. ASSUME NEW t \in Threads, End(t) PROVE [Abstract!Next]_AbstractVars
    BY Zenon, <1>6, EndRefines DEF Abstract!Next
  <1>7. ASSUME NEW t \in Threads, NEW r \in Call, Handle(t, r)
        PROVE  [Abstract!Next]_AbstractVars
    BY Zenon, <1>1, <1>7 DEF Handle, storeVars
  <1>8. ASSUME NEW t \in Threads,
               \/ GetFromCache(t) \/ GetReturns(t)
               \/ PutRefused(t) \/ PutInStore(t) \/ PutInCache(t)
        PROVE  [Abstract!Next]_AbstractVars
    <2>1. CASE GetFromCache(t)
      BY Zenon, <1>1, <1>5, <2>1 DEF GetFromCache, At, storeVars
    <2>2. CASE GetReturns(t) \/ PutInCache(t)
      BY Zenon, <1>6, <2>2 DEF GetReturns, PutInCache, StoreReturned
    <2>3. CASE PutRefused(t)
      BY Zenon, <1>1, <2>3 DEF PutRefused, storeVars
    <2>4. CASE PutInStore(t)
      BY Zenon, <1>5, <2>4 DEF PutInStore, At
    <2>5. QED
      BY Zenon, <1>8, <2>1, <2>2, <2>3, <2>4
  <1>9. ASSUME NEW t \in Threads,
               DelFromCache(t) \/ DelCheck(t) \/ DelReturns(t) \/ Respond(t)
        PROVE  [Abstract!Next]_AbstractVars
    <2>1. CASE DelFromCache(t) \/ Respond(t)
      BY Zenon, <1>1, <2>1 DEF DelFromCache, Respond, storeVars
    <2>2. CASE DelCheck(t)
      BY Zenon, <1>1, <1>5, <2>2 DEF DelCheck, At, storeVars
    <2>3. CASE DelReturns(t)
      BY Zenon, <1>6, <2>3 DEF DelReturns, StoreReturned
    <2>4. QED
      BY Zenon, <1>9, <2>1, <2>2, <2>3
  <1>10. QED
    BY Zenon, <1>2, <1>3, <1>4, <1>7, <1>8, <1>9 DEF Next

(* kvstore.h: "The lock used to make KVStore's functions thread-safe".     *)
(* Although find_entry and the change of the files are under two locks,    *)
(* every call of the store takes effect at one moment, on its own key      *)
(* only, whatever other calls there are, unless another call was about to  *)
(* change the same chain; then it may damage this chain, and only this     *)
(* one.  A crash damages at most the chain of a put under way.             *)
THEOREM StoreIsAtomic == Spec => ImplementsAtomicStore
  <1>1. Init => Abstract!Init
    <2> SUFFICES ASSUME Init PROVE Abstract!Init
      BY Zenon
    <2>1. /\ files = [h \in Hashes |-> <<>>] /\ thread = [t \in Threads |-> IdleThread]
          /\ damaged = {}
      BY Zenon DEF Init, StoreInit
    <2>2. ASSUME NEW k \in Keys PROVE LookIn(files, k) = Absent
      <3>1. HashOf[k] \in Hashes
        BY Zenon DEF Hashes
      <3>2. PICK c : c = files[HashOf[k]]
        BY Zenon
      <3>3. DOMAIN c = {}
        BY <2>1, <3>1, <3>2
      <3>4. QED
        BY Zenon, <3>2, <3>3, ValueNot DEF LookIn
    <2>3. CallsOf(thread) = [t \in Threads |-> NoCall]
      BY Zenon, <2>1 DEF CallsOf, CallOf
    <2>4. MapOf(files, damaged) = [k \in Keys |-> Absent]
      BY Zenon, <2>1, <2>2 DEF MapOf
    <2>5. QED
      BY Zenon, <2>3, <2>4, Mapping DEF Abstract!Init, Abstract!EmptyStore
  <1>2. IInv /\ [Next]_vars => [Abstract!Next]_<<
            [k \in Keys |-> IF HashOf[k] \in damaged THEN Damaged ELSE Lookup(k)],
            [t \in Threads |-> CallOf(thread[t])]>>
    BY Zenon, StepRefines DEF AbstractVars
  <1>3. QED
    BY <1>1, <1>2, Invariance, PTL DEF Spec, ImplementsAtomicStore, Abstract!Spec
=============================================================================

------------------------- MODULE PintosPallocProofs -------------------------
(***************************************************************************)
(* For every number of threads and pages: no page is handed out twice and  *)
(* none is lost, although palloc_free_multiple does not take the lock.     *)
(***************************************************************************)
EXTENDS PintosPalloc, TLAPS

\* The parts of Inv about one thread.
Locked(t) == pc[t] \in {"scan", "mark"} => lock = t
Bounds(t) == pc[t] \in {"mark", "clear"} => k[t] <= cnt[t] /\ idx[t] + cnt[t] <= NPages
FreeRun(t) == pc[t] = "mark" => \A p \in Pages :
                 /\ idx[t] <= p /\ p < idx[t] + cnt[t] => owner[p] = NoThread
                 /\ idx[t] + k[t] <= p /\ p < idx[t] + cnt[t] => p \notin used
OwnRun(t) == pc[t] = "clear" => \A p \in Pages :
                idx[t] + k[t] <= p /\ p < idx[t] + cnt[t] => owner[p] = t

\* Inv is the type invariant, the exact bitmap and these parts.
LEMMA InvParts ==
    Inv <=> /\ TypeOK /\ BitmapExact
            /\ \A t \in Threads : Locked(t) /\ Bounds(t) /\ FreeRun(t) /\ OwnRun(t)
BY DEF Inv, Locked, Bounds, FreeRun, OwnRun

\* The pool starts with no page used.
LEMMA InitInv == Init => Inv
BY PoolAssumption DEF Init, Inv, TypeOK, BitmapExact, Marked, Pages

\* Every step of every thread keeps the types.
LEMMA NextType == ASSUME Inv, [Next]_vars PROVE TypeOK'
<1> USE PoolAssumption
<1>0. TypeOK
  BY DEF Inv
<1>1. CASE UNCHANGED vars
  BY <1>0, <1>1 DEF vars, TypeOK
<1>2. CASE Next
  <2> PICK t \in Threads : Call(t) \/ Step(t)
    BY <1>2 DEF Next
  <2>1. CASE \E n \in 1 .. MaxRun : Get(t, n)
    BY <1>0, <2>1 DEF Get, TypeOK
  <2>2. CASE \E n \in 1 .. MaxRun, i \in Pages : Free(t, i, n)
    BY <1>0, <2>2 DEF Free, TypeOK, Pages
  <2>3. CASE Acquire(t)
    BY <1>0, <2>3 DEF Acquire, TypeOK
  <2>4. CASE Scan(t)
    <3>1. CASE Run(idx[t], cnt[t]) \cap used = {}
      BY <1>0, <2>4, <3>1 DEF Scan, TypeOK
    <3>2. CASE Run(idx[t], cnt[t]) \cap used # {}
      BY <1>0, <2>4, <3>2 DEF Scan, TypeOK
    <3> QED
      BY <3>1, <3>2
  <2>5. CASE Fail(t)
    BY <1>0, <2>5 DEF Fail, Return, TypeOK
  <2>6. CASE Mark(t)
    <3>1. idx[t] + k[t] \in Pages
      BY <1>0, <2>6, InvParts DEF Mark, TypeOK, Bounds, Pages
    <3> QED
      BY <1>0, <2>6, <3>1 DEF Mark, TypeOK
  <2>7. CASE Got(t)
    BY <1>0, <2>7 DEF Got, Return, TypeOK
  <2>8. CASE Clear(t)
    <3>1. idx[t] + k[t] \in Pages
      BY <1>0, <2>8, InvParts DEF Clear, TypeOK, Bounds, Pages
    <3> QED
      BY <1>0, <2>8, <3>1 DEF Clear, TypeOK
  <2>9. CASE Cleared(t)
    BY <1>0, <2>9 DEF Cleared, Return, TypeOK
  <2> QED
    BY <2>1, <2>2, <2>3, <2>4, <2>5, <2>6, <2>7, <2>8, <2>9 DEF Call, Step
<1> QED
  BY <1>1, <1>2

\* A call begins.
LEMMA GetInv ==
    ASSUME Inv, TypeOK', NEW t \in Threads, NEW n \in 1 .. MaxRun, Get(t, n)
    PROVE  Inv'
<1> USE PoolAssumption
<1>0. /\ TypeOK /\ BitmapExact
      /\ \A u \in Threads : Locked(u) /\ Bounds(u) /\ FreeRun(u) /\ OwnRun(u)
  BY InvParts
<1>1. BitmapExact'
  BY <1>0 DEF Get, TypeOK, BitmapExact, Marked, Run, Pages
<1>2. \A u \in Threads : Locked(u)' /\ Bounds(u)' /\ FreeRun(u)' /\ OwnRun(u)'
  <2> TAKE u \in Threads
  <2>1. Locked(u)'
    BY <1>0 DEF Get, TypeOK, Locked
  <2>2. Bounds(u)'
    BY <1>0 DEF Get, TypeOK, Bounds, Pages
  <2>3. FreeRun(u)'
    BY <1>0 DEF Get, TypeOK, FreeRun, Bounds, Locked, Pages, Run
  <2>4. OwnRun(u)'
    BY <1>0 DEF Get, TypeOK, OwnRun, FreeRun, Bounds, Pages, Run
  <2> QED
    BY <2>1, <2>2, <2>3, <2>4
<1> QED
  BY <1>0, <1>1, <1>2 DEF Inv, Locked, Bounds, FreeRun, OwnRun

\* Only pages of the caller are given back.
LEMMA FreeInv ==
    ASSUME Inv, TypeOK', NEW t \in Threads, NEW n \in 1 .. MaxRun, NEW i \in Pages, Free(t, i, n)
    PROVE  Inv'
<1> USE PoolAssumption
<1>0. /\ TypeOK /\ BitmapExact
      /\ \A u \in Threads : Locked(u) /\ Bounds(u) /\ FreeRun(u) /\ OwnRun(u)
  BY InvParts
<1>1. BitmapExact'
  BY <1>0 DEF Free, TypeOK, BitmapExact, Marked, Run, Pages
<1>2. \A u \in Threads : Locked(u)' /\ Bounds(u)' /\ FreeRun(u)' /\ OwnRun(u)'
  <2> TAKE u \in Threads
  <2>1. Locked(u)'
    BY <1>0 DEF Free, TypeOK, Locked
  <2>2. Bounds(u)'
    BY <1>0 DEF Free, TypeOK, Bounds, Pages
  <2>3. FreeRun(u)'
    BY <1>0 DEF Free, TypeOK, FreeRun, Bounds, Locked, Pages, Run
  <2>4. OwnRun(u)'
    BY <1>0 DEF Free, TypeOK, OwnRun, FreeRun, Bounds, Pages, Run
  <2> QED
    BY <2>1, <2>2, <2>3, <2>4
<1> QED
  BY <1>0, <1>1, <1>2 DEF Inv, Locked, Bounds, FreeRun, OwnRun

\* The lock is taken.
LEMMA AcquireInv ==
    ASSUME Inv, TypeOK', NEW t \in Threads, Acquire(t)
    PROVE  Inv'
<1> USE PoolAssumption
<1>0. /\ TypeOK /\ BitmapExact
      /\ \A u \in Threads : Locked(u) /\ Bounds(u) /\ FreeRun(u) /\ OwnRun(u)
  BY InvParts
<1>1. BitmapExact'
  BY <1>0 DEF Acquire, TypeOK, BitmapExact, Marked, Run, Pages
<1>2. \A u \in Threads : Locked(u)' /\ Bounds(u)' /\ FreeRun(u)' /\ OwnRun(u)'
  <2> TAKE u \in Threads
  <2>1. Locked(u)'
    BY <1>0 DEF Acquire, TypeOK, Locked
  <2>2. Bounds(u)'
    BY <1>0 DEF Acquire, TypeOK, Bounds, Pages
  <2>3. FreeRun(u)'
    BY <1>0 DEF Acquire, TypeOK, FreeRun, Bounds, Locked, Pages, Run
  <2>4. OwnRun(u)'
    BY <1>0 DEF Acquire, TypeOK, OwnRun, FreeRun, Bounds, Pages, Run
  <2> QED
    BY <2>1, <2>2, <2>3, <2>4
<1> QED
  BY <1>0, <1>1, <1>2 DEF Inv, Locked, Bounds, FreeRun, OwnRun

\* A run without a set bit has no owner: its bits are exact.
LEMMA ScanInv ==
    ASSUME Inv, TypeOK', NEW t \in Threads, Scan(t)
    PROVE  Inv'
<1> USE PoolAssumption
<1>0. /\ TypeOK /\ BitmapExact
      /\ \A u \in Threads : Locked(u) /\ Bounds(u) /\ FreeRun(u) /\ OwnRun(u)
  BY InvParts
<1>1. CASE Run(idx[t], cnt[t]) \cap used = {}
  <2>0. /\ pc' = [pc EXCEPT ![t] = "mark"] /\ k' = [k EXCEPT ![t] = 0]
        /\ pc[t] = "scan" /\ idx[t] + cnt[t] <= NPages
        /\ UNCHANGED <<used, lock, owner, cnt, idx>>
    BY <1>1 DEF Scan
  <2>1. \A u \in Threads : Marked(u)' = Marked(u)
    BY <1>0, <2>0 DEF TypeOK, Marked, Run
  <2>2. BitmapExact'
    BY <1>0, <2>0, <2>1 DEF BitmapExact
  <2>3. \A p \in Pages : idx[t] <= p /\ p < idx[t] + cnt[t] =>
            p \notin used /\ owner[p] = NoThread
    <3> SUFFICES ASSUME NEW p \in Pages, idx[t] <= p, p < idx[t] + cnt[t]
                 PROVE  p \notin used /\ owner[p] = NoThread
      OBVIOUS
    <3>1. p \in Run(idx[t], cnt[t])
      BY <1>0 DEF TypeOK, Run, Pages
    <3> QED
      BY <1>0, <1>1, <3>1 DEF BitmapExact
  <2>4. \A u \in Threads : Locked(u)' /\ Bounds(u)' /\ FreeRun(u)' /\ OwnRun(u)'
    <3> TAKE u \in Threads
    <3>1. CASE u = t
      BY <1>0, <2>0, <2>3, <3>1 DEF TypeOK, Locked, Bounds, FreeRun, OwnRun
    <3>2. CASE u # t
      BY <1>0, <2>0, <3>2 DEF TypeOK, Locked, Bounds, FreeRun, OwnRun
    <3> QED
      BY <3>1, <3>2
  <2> QED
    BY <2>2, <2>4 DEF Inv, Locked, Bounds, FreeRun, OwnRun
<1>2. CASE Run(idx[t], cnt[t]) \cap used # {}
  <2>0. /\ idx' = [idx EXCEPT ![t] = idx[t] + 1] /\ pc[t] = "scan"
        /\ UNCHANGED <<used, lock, owner, cnt, pc, k>>
    BY <1>2 DEF Scan
  <2>1. \A u \in Threads : Marked(u)' = Marked(u)
    BY <1>0, <2>0 DEF TypeOK, Marked, Run
  <2>2. BitmapExact'
    BY <1>0, <2>0, <2>1 DEF BitmapExact
  <2>3. \A u \in Threads : Locked(u)' /\ Bounds(u)' /\ FreeRun(u)' /\ OwnRun(u)'
    BY <1>0, <2>0 DEF TypeOK, Locked, Bounds, FreeRun, OwnRun
  <2> QED
    BY <2>2, <2>3 DEF Inv, Locked, Bounds, FreeRun, OwnRun
<1> QED
  BY <1>1, <1>2

\* The scan ends without a run.
LEMMA FailInv ==
    ASSUME Inv, TypeOK', NEW t \in Threads, Fail(t)
    PROVE  Inv'
<1> USE PoolAssumption
<1>0. /\ TypeOK /\ BitmapExact
      /\ \A u \in Threads : Locked(u) /\ Bounds(u) /\ FreeRun(u) /\ OwnRun(u)
  BY InvParts
<1>1. BitmapExact'
  BY <1>0 DEF Fail, Return, TypeOK, BitmapExact, Marked, Run, Pages
<1>2. \A u \in Threads : Locked(u)' /\ Bounds(u)' /\ FreeRun(u)' /\ OwnRun(u)'
  <2> TAKE u \in Threads
  <2>1. Locked(u)'
    BY <1>0 DEF Fail, Return, TypeOK, Locked
  <2>2. Bounds(u)'
    BY <1>0 DEF Fail, Return, TypeOK, Bounds, Pages
  <2>3. FreeRun(u)'
    BY <1>0 DEF Fail, Return, TypeOK, FreeRun, Bounds, Locked, Pages, Run
  <2>4. OwnRun(u)'
    BY <1>0 DEF Fail, Return, TypeOK, OwnRun, FreeRun, Bounds, Pages, Run
  <2> QED
    BY <2>1, <2>2, <2>3, <2>4
<1> QED
  BY <1>0, <1>1, <1>2 DEF Inv, Locked, Bounds, FreeRun, OwnRun

\* A page of the run is marked.
LEMMA MarkInv ==
    ASSUME Inv, TypeOK', NEW t \in Threads, Mark(t)
    PROVE  Inv'
<1> USE PoolAssumption
<1>0. /\ TypeOK /\ BitmapExact
      /\ \A u \in Threads : Locked(u) /\ Bounds(u) /\ FreeRun(u) /\ OwnRun(u)
  BY InvParts
<1>1. BitmapExact'
  <2>1. idx[t] + k[t] \in Pages /\ Marked(t)' = Marked(t) \cup {idx[t] + k[t]}
    <3>1. /\ pc[t] = "mark" /\ k[t] < cnt[t] /\ idx[t] + cnt[t] <= NPages
          /\ pc'[t] = "mark" /\ k'[t] = k[t] + 1 /\ idx'[t] = idx[t]
          /\ idx[t] \in Nat /\ k[t] \in Nat /\ cnt[t] \in Nat
      BY <1>0 DEF Mark, TypeOK, Bounds
    <3>2. idx[t] + k[t] \in Pages
      BY <3>1 DEF Pages
    <3>3. Run(idx[t], k[t] + 1) = Run(idx[t], k[t]) \cup {idx[t] + k[t]}
      BY <3>1 DEF Run
    <3> QED
      BY <3>1, <3>2, <3>3 DEF Marked
  <2>2. \A u \in Threads : u # t => Marked(u)' = Marked(u)
    BY <1>0 DEF Mark, TypeOK, Marked, Run
  <2>3. UNCHANGED owner /\ used' = used \cup {idx[t] + k[t]}
    BY DEF Mark
  <2> QED
    BY <1>0, <2>1, <2>2, <2>3 DEF BitmapExact
<1>2. \A u \in Threads : Locked(u)' /\ Bounds(u)' /\ FreeRun(u)' /\ OwnRun(u)'
  <2> TAKE u \in Threads
  <2>1. Locked(u)'
    BY <1>0 DEF Mark, TypeOK, Locked
  <2>2. Bounds(u)'
    BY <1>0 DEF Mark, TypeOK, Bounds, Pages
  <2>3. FreeRun(u)'
    BY <1>0 DEF Mark, TypeOK, FreeRun, Bounds, Locked, Pages, Run
  <2>4. OwnRun(u)'
    BY <1>0 DEF Mark, TypeOK, OwnRun, FreeRun, Bounds, Pages, Run
  <2> QED
    BY <2>1, <2>2, <2>3, <2>4
<1> QED
  BY <1>0, <1>1, <1>2 DEF Inv, Locked, Bounds, FreeRun, OwnRun

\* The marked pages get their owner.
LEMMA GotInv ==
    ASSUME Inv, TypeOK', NEW t \in Threads, Got(t)
    PROVE  Inv'
<1> USE PoolAssumption
<1>0. /\ TypeOK /\ BitmapExact
      /\ \A u \in Threads : Locked(u) /\ Bounds(u) /\ FreeRun(u) /\ OwnRun(u)
  BY InvParts
<1>1. BitmapExact'
  BY <1>0 DEF Got, Return, TypeOK, BitmapExact, Marked, Run, Pages
<1>2. \A u \in Threads : Locked(u)' /\ Bounds(u)' /\ FreeRun(u)' /\ OwnRun(u)'
  <2> TAKE u \in Threads
  <2>1. Locked(u)'
    BY <1>0 DEF Got, Return, TypeOK, Locked
  <2>2. Bounds(u)'
    BY <1>0 DEF Got, Return, TypeOK, Bounds, Pages
  <2>3. FreeRun(u)'
    BY <1>0 DEF Got, Return, TypeOK, FreeRun, Bounds, Locked, Pages, Run
  <2>4. OwnRun(u)'
    <3>1. u # NoThread /\ pc[t] = "mark"
      BY DEF Got
    <3>2. \A p \in Pages : owner[p] = u => owner'[p] = u
      BY <1>0, <3>1 DEF Got, TypeOK, FreeRun, Run, Pages
    <3>3. pc'[u] = "clear" => pc[u] = "clear" /\ idx'[u] = idx[u] /\ k'[u] = k[u]
                              /\ cnt'[u] = cnt[u]
      BY <1>0 DEF Got, Return, TypeOK
    <3> QED
      BY <1>0, <3>2, <3>3 DEF OwnRun
  <2> QED
    BY <2>1, <2>2, <2>3, <2>4
<1> QED
  BY <1>0, <1>1, <1>2 DEF Inv, Locked, Bounds, FreeRun, OwnRun

\* A bit is cleared while others scan or mark.
LEMMA ClearInv ==
    ASSUME Inv, TypeOK', NEW t \in Threads, Clear(t)
    PROVE  Inv'
<1> USE PoolAssumption
<1>0. /\ TypeOK /\ BitmapExact
      /\ \A u \in Threads : Locked(u) /\ Bounds(u) /\ FreeRun(u) /\ OwnRun(u)
  BY InvParts
<1>1. BitmapExact'
  <2>1. /\ idx[t] + k[t] \in Pages /\ owner[idx[t] + k[t]] = t /\ t # NoThread
        /\ owner' = [owner EXCEPT ![idx[t] + k[t]] = NoThread]
        /\ used' = used \ {idx[t] + k[t]}
    <3>1. /\ pc[t] = "clear" /\ k[t] < cnt[t] /\ idx[t] + cnt[t] <= NPages
          /\ idx[t] \in Nat /\ k[t] \in Nat /\ cnt[t] \in Nat
      BY <1>0 DEF Clear, TypeOK, Bounds
    <3>2. idx[t] + k[t] \in Pages
      BY <3>1 DEF Pages
    <3>3. owner[idx[t] + k[t]] = t
      BY <1>0, <3>1, <3>2 DEF OwnRun
    <3> QED
      BY <3>2, <3>3 DEF Clear
  <2>2. \A u \in Threads : Marked(u)' = Marked(u)
    BY <1>0 DEF Clear, TypeOK, Marked, Run
  <2>3. \A u \in Threads : idx[t] + k[t] \notin Marked(u)
    <3> SUFFICES ASSUME NEW u \in Threads, idx[t] + k[t] \in Marked(u)
                 PROVE  FALSE
      OBVIOUS
    <3> DEFINE q == idx[t] + k[t]
    <3>1. /\ pc[u] = "mark" /\ q \in Run(idx[u], k[u])
          /\ idx[u] \in Nat /\ k[u] \in Nat /\ cnt[u] \in Nat /\ k[u] <= cnt[u]
          /\ q \in Nat
      <4>1. pc[u] = "mark" /\ q \in Run(idx[u], k[u])
        BY DEF Marked
      <4>2. /\ idx[u] \in Nat /\ k[u] \in Nat /\ cnt[u] \in Nat
            /\ idx[t] \in Nat /\ k[t] \in Nat
        BY <1>0 DEF TypeOK
      <4>3. k[u] <= cnt[u]
        BY <1>0, <4>1 DEF Bounds
      <4> QED
        BY <4>1, <4>2, <4>3
    <3>2. idx[u] <= q /\ q < idx[u] + cnt[u]
      BY <3>1 DEF Run
    <3>3. owner[q] = NoThread
      BY <1>0, <2>1, <3>1, <3>2 DEF FreeRun
    <3> QED
      BY <2>1, <3>3
  <2> QED
    BY <1>0, <2>1, <2>2, <2>3 DEF BitmapExact, TypeOK
<1>2. \A u \in Threads : Locked(u)' /\ Bounds(u)' /\ FreeRun(u)' /\ OwnRun(u)'
  <2> TAKE u \in Threads
  <2>1. Locked(u)'
    BY <1>0 DEF Clear, TypeOK, Locked
  <2>2. Bounds(u)'
    BY <1>0 DEF Clear, TypeOK, Bounds, Pages
  <2>3. FreeRun(u)'
    BY <1>0 DEF Clear, TypeOK, FreeRun, Bounds, Locked, Pages, Run
  <2>4. OwnRun(u)'
    BY <1>0 DEF Clear, TypeOK, OwnRun, FreeRun, Bounds, Pages, Run
  <2> QED
    BY <2>1, <2>2, <2>3, <2>4
<1> QED
  BY <1>0, <1>1, <1>2 DEF Inv, Locked, Bounds, FreeRun, OwnRun

\* All pages are given back.
LEMMA ClearedInv ==
    ASSUME Inv, TypeOK', NEW t \in Threads, Cleared(t)
    PROVE  Inv'
<1> USE PoolAssumption
<1>0. /\ TypeOK /\ BitmapExact
      /\ \A u \in Threads : Locked(u) /\ Bounds(u) /\ FreeRun(u) /\ OwnRun(u)
  BY InvParts
<1>1. BitmapExact'
  BY <1>0 DEF Cleared, Return, TypeOK, BitmapExact, Marked, Run, Pages
<1>2. \A u \in Threads : Locked(u)' /\ Bounds(u)' /\ FreeRun(u)' /\ OwnRun(u)'
  <2> TAKE u \in Threads
  <2>1. Locked(u)'
    BY <1>0 DEF Cleared, Return, TypeOK, Locked
  <2>2. Bounds(u)'
    BY <1>0 DEF Cleared, Return, TypeOK, Bounds, Pages
  <2>3. FreeRun(u)'
    BY <1>0 DEF Cleared, Return, TypeOK, FreeRun, Bounds, Locked, Pages, Run
  <2>4. OwnRun(u)'
    BY <1>0 DEF Cleared, Return, TypeOK, OwnRun, FreeRun, Bounds, Pages, Run
  <2> QED
    BY <2>1, <2>2, <2>3, <2>4
<1> QED
  BY <1>0, <1>1, <1>2 DEF Inv, Locked, Bounds, FreeRun, OwnRun

\* Every step keeps the inductive invariant.
LEMMA NextInv == ASSUME Inv, [Next]_vars PROVE Inv'
<1>0. TypeOK'
  BY NextType
<1>1. CASE UNCHANGED vars
  BY <1>1 DEF vars, Inv, TypeOK, BitmapExact, Marked
<1>2. CASE Next
  <2> PICK t \in Threads : Call(t) \/ Step(t)
    BY <1>2 DEF Next
  <2>1. CASE Call(t)
    BY <1>0, <2>1, GetInv, FreeInv DEF Call
  <2>2. CASE Step(t)
    BY <1>0, <2>2, AcquireInv, ScanInv, FailInv, MarkInv, GotInv, ClearInv, ClearedInv DEF Step
  <2> QED
    BY <2>1, <2>2
<1> QED
  BY <1>1, <1>2

\* palloc.c keeps its inductive invariant in every behaviour.
THEOREM PoolInvariant == Spec => []Inv
BY InitInv, NextInv, PTL DEF Spec

\* palloc_get_multiple never hands out a page twice, whatever
\* palloc_free_multiple clears meanwhile.
THEOREM PallocExclusive == Spec => []PagesExclusive
<1>1. Inv => PagesExclusive
  <2> SUFFICES ASSUME Inv PROVE PagesExclusive
    OBVIOUS
  <2>0. /\ TypeOK /\ BitmapExact
        /\ \A u \in Threads : Locked(u) /\ Bounds(u) /\ FreeRun(u) /\ OwnRun(u)
    BY InvParts
  <2> SUFFICES ASSUME NEW t \in Threads
               PROVE  /\ pc[t] = "mark" =>
                            /\ \A p \in Pages \cap Run(idx[t], cnt[t]) : owner[p] = NoThread
                            /\ \A u \in Threads : pc[u] = "mark" => u = t
                      /\ pc[t] = "clear" => \A p \in Pages :
                            idx[t] + k[t] <= p /\ p < idx[t] + cnt[t] => p \in used
    BY DEF PagesExclusive
  <2>1. ASSUME pc[t] = "mark", NEW p \in Pages \cap Run(idx[t], cnt[t])
        PROVE  owner[p] = NoThread
    <3>1. idx[t] \in Nat /\ cnt[t] \in Nat
      BY <2>0 DEF TypeOK
    <3>2. idx[t] <= p /\ p < idx[t] + cnt[t]
      BY <3>1 DEF Run
    <3> QED
      BY <2>0, <2>1, <3>2 DEF FreeRun
  <2>2. ASSUME pc[t] = "mark", NEW u \in Threads, pc[u] = "mark"
        PROVE  u = t
    BY <2>0, <2>2 DEF Locked
  <2>3. ASSUME pc[t] = "clear", NEW p \in Pages,
               idx[t] + k[t] <= p, p < idx[t] + cnt[t]
        PROVE  p \in used
    BY <2>0, <2>3, PoolAssumption DEF OwnRun, BitmapExact
  <2> QED
    BY <2>1, <2>2, <2>3
<1> QED
  BY <1>1, PoolInvariant, PTL

\* No page is lost: the bitmap is exact in every state.
THEOREM PallocExact == Spec => []BitmapExact
<1>1. Inv => BitmapExact
  BY DEF Inv
<1> QED
  BY <1>1, PoolInvariant, PTL
=============================================================================

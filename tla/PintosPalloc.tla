---------------------------- MODULE PintosPalloc ----------------------------
(***************************************************************************)
(* One pool of the Pintos page allocator (threads/palloc.c) on the bitmap  *)
(* of lib/kernel/bitmap.c.  palloc_get_multiple scans and marks the bitmap *)
(* under the pool's lock; palloc_free_multiple clears bits without it,     *)
(* one atomic instruction per bit, while others scan.                      *)
(***************************************************************************)
EXTENDS Integers, FiniteSets

CONSTANTS Threads, NoThread, NPages, MaxRun  \* MaxRun: the largest page_cnt

ASSUME PoolAssumption ==
    NPages \in Nat /\ MaxRun \in Nat /\ NoThread \notin Threads

Pages == 0 .. NPages - 1

VARIABLES used,   \* pool->used_map: the pages whose bit is set
          lock,   \* pool->lock: its holder
          owner,  \* who was given a page and has not given it back
          pc,     \* what a thread is doing
          idx,    \* page_idx, and the place of the scan
          cnt,    \* page_cnt
          k       \* the loop variable of bitmap_set_multiple

vars == <<used, lock, owner, pc, idx, cnt, k>>

\* init_pool: the pages that are left after the bitmap itself.
Init == /\ used = {} /\ lock = NoThread
        /\ owner = [p \in Pages |-> NoThread]
        /\ pc = [t \in Threads |-> "idle"] /\ idx = [t \in Threads |-> 0]
        /\ cnt = [t \in Threads |-> 0] /\ k = [t \in Threads |-> 0]

Run(i, n) == i .. i + n - 1
\* The call returns; its locals are gone.
Return(t) == /\ pc' = [pc EXCEPT ![t] = "idle"] /\ idx' = [idx EXCEPT ![t] = 0]
             /\ cnt' = [cnt EXCEPT ![t] = 0] /\ k' = [k EXCEPT ![t] = 0]

\* palloc_get_multiple up to lock_acquire.
Get(t, n) ==
    /\ pc[t] = "idle" /\ n > 0
    /\ pc' = [pc EXCEPT ![t] = "acquire"] /\ cnt' = [cnt EXCEPT ![t] = n]
    /\ UNCHANGED <<used, lock, owner, idx, k>>

Acquire(t) ==
    /\ pc[t] = "acquire" /\ lock = NoThread
    /\ lock' = t
    /\ pc' = [pc EXCEPT ![t] = "scan"] /\ idx' = [idx EXCEPT ![t] = 0]
    /\ UNCHANGED <<used, owner, cnt, k>>

\* bitmap_scan, one candidate: bitmap_contains of the run at idx.
Scan(t) ==
    /\ pc[t] = "scan" /\ idx[t] + cnt[t] <= NPages
    /\ IF Run(idx[t], cnt[t]) \cap used = {}
       THEN /\ pc' = [pc EXCEPT ![t] = "mark"] /\ k' = [k EXCEPT ![t] = 0]
            /\ UNCHANGED idx
       ELSE /\ idx' = [idx EXCEPT ![t] = @ + 1] /\ UNCHANGED <<pc, k>>
    /\ UNCHANGED <<used, lock, owner, cnt>>

\* BITMAP_ERROR: no run is free, and NULL is returned.
Fail(t) ==
    /\ pc[t] = "scan" /\ idx[t] + cnt[t] > NPages
    /\ lock' = NoThread /\ Return(t)
    /\ UNCHANGED <<used, owner>>

\* bitmap_scan_and_flip: bitmap_set_multiple marks one bit after the other.
Mark(t) ==
    /\ pc[t] = "mark" /\ k[t] < cnt[t]
    /\ used' = used \cup {idx[t] + k[t]}
    /\ k' = [k EXCEPT ![t] = @ + 1]
    /\ UNCHANGED <<lock, owner, pc, idx, cnt>>

\* lock_release; the pages are the caller's.
Got(t) ==
    /\ pc[t] = "mark" /\ k[t] = cnt[t]
    /\ lock' = NoThread /\ Return(t)
    /\ owner' = [p \in Pages |-> IF p \in Run(idx[t], cnt[t]) THEN t ELSE owner[p]]
    /\ UNCHANGED used

\* palloc_free_multiple of pages the thread was given.
Free(t, i, n) ==
    /\ pc[t] = "idle" /\ n > 0 /\ i + n <= NPages
    /\ \A p \in Run(i, n) : owner[p] = t
    /\ pc' = [pc EXCEPT ![t] = "clear"] /\ idx' = [idx EXCEPT ![t] = i]
    /\ cnt' = [cnt EXCEPT ![t] = n] /\ k' = [k EXCEPT ![t] = 0]
    /\ UNCHANGED <<used, lock, owner>>

\* bitmap_set_multiple (..., false): bitmap_reset is one instruction.
Clear(t) ==
    /\ pc[t] = "clear" /\ k[t] < cnt[t]
    /\ used' = used \ {idx[t] + k[t]}
    /\ owner' = [owner EXCEPT ![idx[t] + k[t]] = NoThread]
    /\ k' = [k EXCEPT ![t] = @ + 1]
    /\ UNCHANGED <<lock, pc, idx, cnt>>

Cleared(t) ==
    /\ pc[t] = "clear" /\ k[t] = cnt[t]
    /\ Return(t)
    /\ UNCHANGED <<used, lock, owner>>

Step(t) == Acquire(t) \/ Scan(t) \/ Fail(t) \/ Mark(t) \/ Got(t) \/ Clear(t) \/ Cleared(t)
Call(t) == \E n \in 1 .. MaxRun : Get(t, n) \/ \E i \in Pages : Free(t, i, n)
Next == \E t \in Threads : Call(t) \/ Step(t)

\* The scheduler runs every thread; lock_acquire hands the lock on in turn.
Fairness == \A t \in Threads : WF_vars(Step(t)) /\ SF_vars(Acquire(t))
Spec == Init /\ [][Next]_vars /\ Fairness
-----------------------------------------------------------------------------
TypeOK ==
    /\ used \subseteq Pages /\ lock \in Threads \cup {NoThread}
    /\ owner \in [Pages -> Threads \cup {NoThread}]
    /\ pc \in [Threads -> {"idle", "acquire", "scan", "mark", "clear"}]
    /\ idx \in [Threads -> Nat] /\ cnt \in [Threads -> Nat] /\ k \in [Threads -> Nat]

\* The pages a thread has marked so far.
Marked(t) == IF pc[t] = "mark" THEN Run(idx[t], k[t]) ELSE {}

\* No page is handed out twice: the pages palloc_get_multiple is about to
\* return belong to nobody, although others clear bits without the lock while
\* it scans and marks; and what palloc_free_multiple gives back is marked
\* (ASSERT (bitmap_all (pool->used_map, page_idx, page_cnt))).
PagesExclusive ==
    \A t \in Threads :
        /\ pc[t] = "mark" =>
              /\ \A p \in Pages \cap Run(idx[t], cnt[t]) : owner[p] = NoThread
              /\ \A u \in Threads : pc[u] = "mark" => u = t
        /\ pc[t] = "clear" => \A p \in Pages :
              idx[t] + k[t] <= p /\ p < idx[t] + cnt[t] => p \in used

\* The bitmap is exact: a bit is set when its page is with an owner or was just
\* marked, so no page is lost.
BitmapExact ==
    \A p \in Pages :
        p \in used <=> owner[p] # NoThread \/ \E t \in Threads : p \in Marked(t)

\* Every call of the allocator returns.
CallsReturn == \A t \in Threads : pc[t] # "idle" ~> pc[t] = "idle"

\* The inductive invariant: the lock covers scan and marking, unmarked pages of
\* the run found stay free, pages being cleared are still owned.
Inv ==
    /\ TypeOK /\ BitmapExact
    /\ \A t \in Threads :
          /\ pc[t] \in {"scan", "mark"} => lock = t
          /\ pc[t] \in {"mark", "clear"} => k[t] <= cnt[t] /\ idx[t] + cnt[t] <= NPages
          /\ pc[t] = "mark" => \A p \in Pages :
                /\ idx[t] <= p /\ p < idx[t] + cnt[t] => owner[p] = NoThread
                /\ idx[t] + k[t] <= p /\ p < idx[t] + cnt[t] => p \notin used
          /\ pc[t] = "clear" => \A p \in Pages :
                idx[t] + k[t] <= p /\ p < idx[t] + cnt[t] => owner[p] = t
=============================================================================

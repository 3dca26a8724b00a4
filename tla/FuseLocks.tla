------------------------------ MODULE FuseLocks ------------------------------
(***************************************************************************)
(* The list of POSIX locks that fuse.c keeps in a node, from which GETLK   *)
(* is answered before the file system is asked: locks_insert after every   *)
(* SETLK the file system granted, and after FLUSH.                         *)
(***************************************************************************)
EXTENDS Integers, Sequences, SequencesExt

CONSTANTS LockOwners, OffsetMax, None,
          Ranges  \* bound: the ranges <<start, end>> each owner locks

VARIABLES list,   \* node->locks
          real,   \* the locks of the file system, by byte and owner
          setlk   \* of each owner, a lock the file system made, not yet inserted

vars == <<list, real, setlk>>
Offsets == 0..OffsetMax
LockTypes == {"RDLCK", "WRLCK"}
Lock(o, type, start, end) == [owner |-> o, type |-> type, start |-> start, end |-> end]
Overlap(a, b) == a.start <= b.end /\ b.start <= a.end
Covers(a, b) == a.start <= b.start /\ b.end <= a.end
-----------------------------------------------------------------------------
\* locks_conflict: the first lock in the way.
Conflicts(l, k) ==
    SelectSeq(l, LAMBDA e : e.owner # k.owner /\ Overlap(e, k) /\ "WRLCK" \in {e.type, k.type})

\* locks_insert, from position i of the list l.
RECURSIVE Insert(_, _, _)
\* Mutant of Place: an unlock is listed, too.
PlaceAll(l, k, i) == InsertAt(l, i, k)
Place(l, k, i) == IF k.type = "UNLCK" THEN l ELSE InsertAt(l, i, k)
Lesser(m, n) == IF m < n THEN m ELSE n
Greater(m, n) == IF m > n THEN m ELSE n
\* With a lock of the same type it is merged.
Merge(l, k, i) ==
    LET e == l[i]
    IN  CASE e.end < k.start - 1 -> Insert(l, k, i + 1)
          [] k.end < e.start - 1 -> Place(l, k, i)
          [] Covers(e, k)        -> l
          [] OTHER -> Insert(RemoveAt(l, i), [k EXCEPT !.start = Lesser(@, e.start), !.end = Greater(@, e.end)], i)
\* From a lock of another type its part is taken.
Cut(l, k, i) ==
    LET e == l[i]
        before == [l EXCEPT ![i].end = k.start - 1]
        after == [l EXCEPT ![i].start = k.end + 1]
    IN  CASE e.end < k.start     -> Insert(l, k, i + 1)
          [] k.end < e.start     -> Place(l, k, i)
          [] Covers(k, e)        -> Insert(RemoveAt(l, i), k, i)
          [] e.end <= k.end /\ ~Covers(k, e)   -> Insert(before, k, i + 1)
          [] k.start <= e.start /\ ~Covers(k, e) /\ e.end > k.end -> Place(after, k, i)
          [] OTHER -> Insert(InsertAt(before, i + 1, after[i]), k, i + 1)
Insert(l, k, i) ==
    IF i > Len(l) THEN Place(l, k, i)
    ELSE IF l[i].owner # k.owner THEN Insert(l, k, i + 1)
    ELSE IF l[i].type = k.type THEN Merge(l, k, i) ELSE Cut(l, k, i)
-----------------------------------------------------------------------------
\* The file system's lock operation (external), by bytes.
Blocked(k) ==
    \E b \in k.start..k.end, o \in LockOwners \ {k.owner} :
        k.type # "UNLCK" /\ real[b][o] # "UNLCK" /\ "WRLCK" \in {real[b][o], k.type}

\* fuse_lib_setlk and fuse_lib_flush, which unlocks everything: the file
\* system's answer, then, with f->lock, the list.
SetlkDone(o) ==
    /\ setlk[o] = None
    /\ \E type \in LockTypes \cup {"UNLCK"}, range \in Ranges[o] :
          LET k == Lock(o, type, range[1], range[2])
          IN  /\ ~Blocked(k)
              /\ real' = [b \in Offsets |-> IF b \in k.start..k.end THEN [real[b] EXCEPT ![o] = type]
                                            ELSE real[b]]
              /\ setlk' = [setlk EXCEPT ![o] = k]
    /\ UNCHANGED list
LocksInsert(o) ==
    /\ setlk[o] # None
    /\ list' = Insert(list, setlk[o], 1)
    /\ setlk' = [setlk EXCEPT ![o] = None]
    /\ UNCHANGED real

Init ==
    /\ list = <<>> /\ setlk = [o \in LockOwners |-> None]
    /\ real = [b \in Offsets |-> [o \in LockOwners |-> "UNLCK"]]
Next == \E o \in LockOwners : SetlkDone(o) \/ LocksInsert(o)
Spec == Init /\ [][Next]_vars
-----------------------------------------------------------------------------
\* What an owner's locks on the list say of a byte.
Listed(b, o) ==
    LET s == SelectSeq(list, LAMBDA e : e.owner = o /\ e.start <= b /\ b <= e.end)
    IN  IF s = <<>> THEN "UNLCK" ELSE s[1].type
\* The list agrees, byte by byte, with the file system for every owner that
\* has no request in progress; an owner's locks are ordered and disjoint and
\* do not touch a lock of the same type.  So with no request in progress
\* fuse_lib_getlk finds a conflict exactly if there is one.
ListExact ==
    /\ \A o \in LockOwners : setlk[o] = None => \A b \in Offsets : Listed(b, o) = real[b][o]
    /\ \A i, j \in DOMAIN list : i < j /\ list[i].owner = list[j].owner =>
          /\ list[i].end < list[j].start
          /\ list[i].type = list[j].type => list[i].end + 1 < list[j].start
    /\ (\A o \in LockOwners : setlk[o] = None) =>
          \A o \in LockOwners, type \in LockTypes, start, end \in Offsets :
             start <= end => (Conflicts(list, Lock(o, type, start, end)) # <<>> <=> Blocked(Lock(o, type, start, end)))
=============================================================================

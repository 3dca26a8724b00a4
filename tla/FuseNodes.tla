------------------------------ MODULE FuseNodes ------------------------------
(***************************************************************************)
(* The node table and the path locks of the FUSE library (lib/fuse.c): the *)
(* tree of nodes the kernel knows by number, the reference counts that     *)
(* keep them, the read and write locks on the nodes of a path, the queue   *)
(* of requests that wait for a path, and the request handlers fuse_lib_*,  *)
(* each run by one of the worker Threads.  A step is one critical section  *)
(* of f->lock; the user's file system answers between two of them.         *)
(* The kernel (external) holds the mutex of a directory while one of its   *)
(* entries is looked up, made, removed or renamed.                         *)
(***************************************************************************)
EXTENDS Integers, Sequences, FiniteSets, Functions

CONSTANTS Threads,      \* the worker threads
          DirNames,     \* names of directories, positive numbers
          FileNames,    \* names of files, positive numbers
          MaxId,        \* bound: the largest node number (2^32 - 2 in C)
          MaxLookups,   \* bound: references the kernel keeps on one node
          Configs       \* mount options; mt: fuse_loop_mt, not fuse_loop;
                        \* ops: the kinds of requests the kernel sends,
                        \* requests: the bound on how many

\* The requests that only need the path of one node while they run.
AttrOps == {"getattr", "setattr", "access", "readlink"}
DataOps == {"read", "write", "fsync"}
XattrOps == {"statfs", "setxattr", "getxattr", "listxattr", "removexattr"}
FileOps == {"flush", "getlk", "setlk", "flock", "bmap", "ioctl", "poll", "fallocate"}
PathOps == AttrOps \cup DataOps \cup XattrOps \cup FileOps

Kinds == PathOps \cup {"opendir", "open", "release", "lookup", "make", "create",
                       "dot", "remove", "rename", "link", "forget"}

ASSUME NodeAssumption ==
    /\ MaxId \in Nat \ {0, 1}
    /\ MaxLookups \in Nat \ {0}
    /\ DirNames \subseteq 1 .. 9 /\ FileNames \subseteq 1 .. 9
    /\ DirNames \cap FileNames = {}
    /\ Configs \subseteq [remember : BOOLEAN, hard_remove : BOOLEAN,
                          mt : BOOLEAN, ops : SUBSET Kinds, requests : Nat]

Root == 1                      \* FUSE_ROOT_ID
None == 0                      \* a NULL node or name
Hidden(n) == 10 + n            \* ".fuse_hidden%08x%08x" of node n
Write == -1                    \* TREELOCK_WRITE
WaitOffset == -100             \* TREELOCK_WAIT_OFFSET
Names == DirNames \cup FileNames

VARIABLES
    conf,      \* f->conf
    node,      \* the nodes: number -> fields of struct node
    ctr,       \* f->ctr, the last number handed out
    lru,       \* f->lru_table, the forgotten nodes that are remembered
    lockq,     \* f->lockq, the threads that wait, in order
    req,       \* what every thread is doing
    known,     \* kernel: lookups it holds on a node
    opened,    \* kernel: open files of a node
    sent,      \* requests sent so far
    broken     \* an assert or abort() of the library was hit

vars == <<conf, node, ctr, lru, lockq, req, known, opened, sent, broken>>

Idle == [op |-> "none", pc |-> "idle", i1 |-> None, n1 |-> None, i2 |-> None,
         n2 |-> None, w1 |-> None, w2 |-> None, f1 |-> FALSE, f2 |-> FALSE,
         p1 |-> <<>>, p2 |-> <<>>, done |-> FALSE, err |-> FALSE, e |-> None,
         cnt |-> 0, next |-> "idle", gone |-> FALSE]

\* A node as find_node makes it (before hash_name).
Fresh == [parent |-> None, name |-> None, nlookup |-> IF conf.remember THEN 1 ELSE 0,
          refctr |-> IF conf.remember THEN 1 ELSE 0, lock |-> 0, open |-> 0,
          hidden |-> FALSE]
-----------------------------------------------------------------------------
(***************************************************************************)
(* The tree.                                                               *)
(***************************************************************************)
\* lookup_node: the node of that name in that directory, or None.
LookupNode(nd, p, n) ==
    LET S == {i \in DOMAIN nd : nd[i].parent = p /\ nd[i].name = n /\ n # None}
    IN  IF S = {} THEN None ELSE CHOOSE i \in S : TRUE

\* i, its parent, and so on: the nodes a walk to the root meets, without the
\* root.  The walk of a nameless node ends there.
Chain(nd, i) ==
    LET up[k \in 1 .. Cardinality(DOMAIN nd) + 1] ==
            IF k = 1 THEN i
            ELSE LET j == up[k - 1]
                 IN  IF j \in {None, Root} THEN None ELSE nd[j].parent
        len == Cardinality({k \in DOMAIN up : up[k] \notin {None, Root}})
    IN  SubSeq(up, 1, len)

Linked(nd, i) == nd[i].name # None
OnPath(nd, i) == Range(Chain(nd, i))
PathNames(nd, i) == LET c == Chain(nd, i) IN [k \in DOMAIN c |-> nd[c[k]].name]
HasPath(nd, i) == \A j \in OnPath(nd, i) : Linked(nd, j)

\* A node joins the table of numbers, or leaves it.
AddNode(nd, i) == [j \in DOMAIN nd \cup {i} |-> IF j = i THEN Fresh ELSE nd[j]]
DropNodes(nd, dead) == [j \in DOMAIN nd \ dead |-> nd[j]]

\* unref_node: one reference less; a node without references is deleted and
\* gives back the one on its parent.
Doomed(nd, i) ==
    LET c == Chain(nd, i)
    IN  {c[k] : k \in {k \in DOMAIN c : \A j \in 1 .. k : nd[c[j]].refctr = 1}}
Unref(nd, i) ==
    LET c == Chain(nd, i) \o <<Root>>
        dead == Doomed(nd, i)
        heir == IF dead = {} THEN i ELSE nd[c[Cardinality(dead)]].parent
    IN  [DropNodes(nd, dead) EXCEPT ![heir].refctr = @ - 1]
\* assert(node->refctr > 0), assert(node->treelock == 0)
UnrefOK(nd, i) ==
    /\ nd[i].refctr > 0
    /\ \A j \in Doomed(nd, i) : nd[j].lock = 0

\* unhash_name and hash_name.
UnhashName(nd, i) ==
    IF ~Linked(nd, i) THEN nd
    ELSE Unref([nd EXCEPT ![i].name = None, ![i].parent = None], nd[i].parent)
UnhashOK(nd, i) == Linked(nd, i) => UnrefOK(nd, nd[i].parent)
HashName(nd, i, p, n) ==
    [nd EXCEPT ![i].parent = p, ![i].name = n, ![p].refctr = @ + 1]

\* Mutant: the first lookup of a forgotten node takes no reference.
IncLookupNoRef(nd, i) == [nd EXCEPT ![i].nlookup = @ + 1]
\* inc_nlookup
IncLookup(nd, i) ==
    [nd EXCEPT ![i].refctr = IF nd[i].nlookup = 0 THEN @ + 1 ELSE @,
               ![i].nlookup = @ + 1]

\* next_id: the next number that is neither 0, nor FUSE_UNKNOWN_INO, nor used.
FreeIds(nd) == (1 .. MaxId) \ DOMAIN nd
NextId(nd) ==
    LET dist(i) == (i - ctr + MaxId + 2) % (MaxId + 2)
    IN  CHOOSE i \in FreeIds(nd) : \A j \in FreeIds(nd) : dist(i) <= dist(j)

\* The parent's node is there and the name is in use or can be made.
Lru(nd) == SelectSeq(lru, LAMBDA i : i \in DOMAIN nd)

\* unlink_node: the name goes, and with it the reference remembering keeps.
UnlinkNode(nd, i) ==
    UnhashName(IF conf.remember THEN [nd EXCEPT ![i].nlookup = @ - 1] ELSE nd, i)
UnlinkOK(nd, i) == UnhashOK(nd, i) /\ (conf.remember => nd[i].nlookup > 1)
-----------------------------------------------------------------------------
(***************************************************************************)
(* Path locks.                                                             *)
(***************************************************************************)
Writes(op) == op \in {"unlink", "rmdir", "rename"}
Two(op) == op \in {"rename", "link"}

\* try_get_path with need_lock: read locks on the nodes of the path, a write
\* lock on the named node if there is one.  A failing walk takes its locks
\* back; a reader that stands in a writer's way is marked.
TryGetPath(nd, i, n, wr) ==
    LET w == IF wr THEN LookupNode(nd, i, n) ELSE None
        c == Chain(nd, i)
        bad == {k \in DOMAIN c : ~Linked(nd, c[k]) \/ nd[c[k]].lock < 0 \/ c[k] = w}
        first == CHOOSE k \in bad : \A j \in bad : k <= j
        held == Range(c)
    IN  IF w # None /\ nd[w].lock # 0
        THEN [err |-> "again", w |-> None,
              nd |-> IF nd[w].lock > 0 THEN [nd EXCEPT ![w].lock = @ + WaitOffset]
                     ELSE nd]
        ELSE IF bad # {}
        THEN [err |-> IF Linked(nd, c[first]) THEN "again" ELSE "noent",
              w |-> None, nd |-> nd]
        ELSE [err |-> "ok", w |-> w,
              nd |-> [j \in DOMAIN nd |->
                        IF j = w THEN [nd[j] EXCEPT !.lock = Write]
                        ELSE IF j \in held THEN [nd[j] EXCEPT !.lock = @ + 1]
                        ELSE nd[j]]]

\* Mutant: the last reader leaves the mark of a waiting writer behind.
UnlockPathMarked(nd, i, w) ==
    LET held == OnPath(nd, i)
    IN  [j \in DOMAIN nd |->
           IF j = w THEN [nd[j] EXCEPT !.lock = 0]
           ELSE IF j \in held THEN [nd[j] EXCEPT !.lock = @ - 1] ELSE nd[j]]
\* unlock_path, with what it asserts and dereferences.
UnlockPath(nd, i, w) ==
    LET held == OnPath(nd, i)
    IN  [j \in DOMAIN nd |->
           IF j = w THEN [nd[j] EXCEPT !.lock = 0]
           ELSE IF j \in held
           THEN [nd[j] EXCEPT !.lock = IF @ - 1 = WaitOffset THEN 0 ELSE @ - 1]
           ELSE nd[j]]
UnlockOK(nd, i, w) ==
    /\ i \in DOMAIN nd /\ HasPath(nd, i)
    /\ w # None => w \in DOMAIN nd /\ nd[w].lock = Write
    /\ \A j \in OnPath(nd, i) : nd[j].lock \notin {0, WaitOffset, Write}

\* Both paths of a request, as far as they are locked.
Unlock(nd, r) ==
    LET nd1 == IF r.f1 THEN UnlockPath(nd, r.i1, r.w1) ELSE nd
    IN  IF r.f2 THEN UnlockPath(nd1, r.i2, r.w2) ELSE nd1
CanUnlock(nd, r) ==
    /\ r.f1 => UnlockOK(nd, r.i1, r.w1)
    /\ r.f2 => UnlockOK(nd, r.i2, r.w2)

\* try_get_path2 and queue_element_wakeup: the paths still missing are tried.
\* both: the second even if the first has to wait; keep: a half-locked request
\* keeps its half.
FirstPath(nd, r) ==
    IF r.f1 THEN [err |-> "ok", w |-> r.w1, nd |-> nd]
    ELSE TryGetPath(nd, r.i1, r.n1, Writes(r.op))
SecondPath(nd, r, goOn) ==
    IF r.f2 \/ ~Two(r.op) THEN [err |-> "ok", w |-> r.w2, nd |-> nd]
    ELSE IF goOn THEN TryGetPath(nd, r.i2, r.n2, Writes(r.op))
    ELSE [err |-> "again", w |-> None, nd |-> nd]

\* The request with what it has locked of a and b.
WithPaths(nd, r, a, b) ==
    LET got1 == a.err = "ok"
        got2 == Two(r.op) /\ b.err = "ok"
    IN  [r EXCEPT !.f1 = got1, !.w1 = a.w, !.f2 = got2, !.w2 = b.w,
                  !.p1 = IF got1 THEN PathNames(nd, r.i1) ELSE <<>>,
                  !.p2 = IF got2 THEN PathNames(nd, r.i2) ELSE <<>>]
NoPaths(r) == [r EXCEPT !.f1 = FALSE, !.w1 = None, !.f2 = FALSE, !.w2 = None,
                        !.p1 = <<>>, !.p2 = <<>>]

\* After the first path a and the second path b; have is the request with both.
Settle(r, a, b, have, keep) ==
    CASE a.err = "noent" ->
           [nd |-> Unlock(a.nd, [r EXCEPT !.f1 = FALSE]),
            r |-> [NoPaths(r) EXCEPT !.done = TRUE, !.err = TRUE]]
      [] a.err # "noent" /\ b.err = "noent" ->
           [nd |-> Unlock(b.nd, have),
            r |-> [NoPaths(r) EXCEPT !.done = TRUE, !.err = TRUE]]
      [] a.err = "ok" /\ b.err = "ok" ->
           [nd |-> b.nd, r |-> [have EXCEPT !.done = TRUE, !.err = FALSE]]
      [] OTHER ->
           IF keep THEN [nd |-> b.nd, r |-> have]
           ELSE [nd |-> Unlock(b.nd, have), r |-> NoPaths(r)]
BothPaths(nd, r, a, b, keep) == Settle(r, a, b, WithPaths(nd, r, a, b), keep)
AfterFirst(nd, r, a, both, keep) ==
    BothPaths(nd, r, a, SecondPath(a.nd, r, both \/ a.err = "ok"), keep)
TryPaths(nd, r, both, keep) == AfterFirst(nd, r, FirstPath(nd, r), both, keep)

\* wake_up_queued: queue_element_wakeup on every element, in order; only the
\* first may keep half of its locks.
Granted(old, t, x) == [nd |-> x.nd, rq |-> [old.rq EXCEPT ![t] = x.r]]
WakeUp(nd, rq) ==
    LET s[k \in 0 .. Len(lockq)] ==
            IF k = 0 THEN [nd |-> nd, rq |-> rq]
            ELSE LET old == s[k - 1]
                     t == lockq[k]
                     r == old.rq[t]
                 IN  IF r.pc = "forgetting"
                     THEN [old EXCEPT !.rq[t].done = @ \/ old.nd[r.e].lock = 0]
                     ELSE Granted(old, t, TryPaths(old.nd, r, TRUE, k = 1))
    IN  s[Len(lockq)]
-----------------------------------------------------------------------------
(***************************************************************************)
(* The kernel (external): which requests it may send.                      *)
(***************************************************************************)
DirOps == {"lookup", "make", "create", "unlink", "rmdir", "rename", "link"}
Waiting(t) == /\ req[t].pc \notin {"idle", "late"} /\ req[t].op # "forget"
              /\ ~req[t].gone
\* Directories whose mutex a request in flight holds.
Dirs(r) == (IF r.op \in DirOps \ {"link"} THEN {r.i1} ELSE {})
           \cup (IF Two(r.op) THEN {r.i2} ELSE {})
Free(d) == \A t \in Threads : Waiting(t) => d \notin Dirs(req[t])
\* Nodes a request in flight refers to.
Refers(r) == {r.i1, r.i2, r.w1, r.w2}
             \cup (IF r.op \in DirOps
                   THEN {LookupNode(node, r.i1, r.n1), LookupNode(node, r.i2, r.n2)}
                   ELSE {})
Known(i) == i = Root \/ known[i] > 0
IsDir(i) == i \in DOMAIN node /\ (i = Root \/ node[i].name \in DirNames \cup {None})
IsFile(i) == i \in DOMAIN node /\ node[i].name \in FileNames
Above(i, j) == i \in OnPath(node, j)

\* A path whose walk the queue has to wait for, or one that is there at once.
Enter(t, r, nd) ==
    /\ node' = nd
    /\ IF r.done
       THEN req' = [req EXCEPT ![t] = [r EXCEPT !.pc = "locked"]] /\ UNCHANGED lockq
       ELSE /\ req' = [req EXCEPT ![t] = [r EXCEPT !.pc = "queued"]]
            /\ lockq' = Append(lockq, t)
    /\ sent' = sent + 1
    /\ UNCHANGED <<conf, ctr, lru, known, broken>>
EnterWith(t, x) == Enter(t, x.r, x.nd)
Begin(t, r, nd) == EnterWith(t, TryPaths(nd, r, FALSE, FALSE))

\* The handlers that only need the path of one node, and fuse_lib_opendir.
StartPath(t) ==
    \E i \in DOMAIN node, op \in conf.ops \cap PathOps :
        /\ Known(i) /\ i # Root
        /\ Begin(t, [Idle EXCEPT !.op = op, !.i1 = i], node)
        /\ UNCHANGED opened
StartOpendir(t) ==
    \E i \in DOMAIN node :
        /\ Known(i) /\ i # Root /\ IsDir(i)
        /\ Begin(t, [Idle EXCEPT !.op = "opendir", !.i1 = i], node)
        /\ UNCHANGED opened

\* fuse_lib_open and fuse_lib_release.
StartOpen(t) ==
    \E i \in DOMAIN node :
        /\ Known(i) /\ IsFile(i) /\ opened[i] < MaxLookups
        /\ Begin(t, [Idle EXCEPT !.op = "open", !.i1 = i], node)
        /\ UNCHANGED opened
StartRelease(t) ==
    \E i \in DOMAIN node :
        /\ opened[i] > 0
        /\ opened' = [opened EXCEPT ![i] = @ - 1]
        /\ Begin(t, [Idle EXCEPT !.op = "release", !.i1 = i], node)

\* fuse_lib_lookup; mknod, mkdir and symlink; create.
StartEntry(t) ==
    \E p \in DOMAIN node, n \in Names, op \in conf.ops \cap {"lookup", "make", "create"} :
        /\ Known(p) /\ IsDir(p) /\ Free(p)
        /\ op = "make" => LookupNode(node, p, n) = None
        /\ op = "create" => n \in FileNames
        /\ LET i == LookupNode(node, p, n) IN i # None => known[i] < MaxLookups
        /\ Begin(t, [Idle EXCEPT !.op = op, !.i1 = p, !.n1 = n], node)
        /\ UNCHANGED opened

\* fuse_lib_lookup of ".": the node is held while its path is taken.
StartDot(t) ==
    \E i \in DOMAIN node \ {Root} :
        /\ Known(i) /\ IsDir(i) /\ Free(i) /\ known[i] < MaxLookups
        /\ Begin(t, [Idle EXCEPT !.op = "dot", !.i1 = i],
                 [node EXCEPT ![i].refctr = @ + 1])
        /\ UNCHANGED opened

\* fuse_lib_unlink and fuse_lib_rmdir.
StartRemove(t) ==
    \E p \in DOMAIN node, n \in Names :
        LET i == LookupNode(node, p, n)
        IN  /\ Known(p) /\ Free(p) /\ i # None /\ Known(i) /\ Free(i)
            /\ Begin(t, [Idle EXCEPT !.op = IF n \in DirNames THEN "rmdir" ELSE "unlink",
                                     !.i1 = p, !.n1 = n], node)
            /\ UNCHANGED opened

\* fuse_lib_rename: never onto itself, into itself or onto one of its parents.
StartRename(t) ==
    \E p, q \in DOMAIN node, n, m \in Names :
        LET i == LookupNode(node, p, n)
            j == LookupNode(node, q, m)
        IN  /\ {n, m} \subseteq DirNames \/ {n, m} \subseteq FileNames
            /\ Known(p) /\ Free(p) /\ Known(q) /\ Free(q) /\ IsDir(q)
            /\ i # None /\ Known(i) /\ i # j /\ ~Above(i, q)
            /\ j # None => Known(j) /\ ~Above(j, p) /\ Free(j)
            /\ p # q => \A u \in Threads :
                  Waiting(u) /\ req[u].op = "rename" => req[u].i1 = req[u].i2
            /\ Begin(t, [Idle EXCEPT !.op = "rename", !.i1 = p, !.n1 = n,
                                     !.i2 = q, !.n2 = m], node)
            /\ UNCHANGED opened

\* fuse_lib_link
StartLink(t) ==
    \E i, q \in DOMAIN node, m \in FileNames :
        /\ Known(i) /\ IsFile(i) /\ Known(q) /\ IsDir(q) /\ Free(q)
        /\ LookupNode(node, q, m) = None
        /\ Begin(t, [Idle EXCEPT !.op = "link", !.i1 = i, !.i2 = q, !.n2 = m], node)
        /\ UNCHANGED opened

\* fuse_lib_forget: the kernel drops all it holds on a node it does not use.
StartForget(t) ==
    \E i \in DOMAIN node \ {Root} :
        /\ known[i] > 0 /\ opened[i] = 0
        /\ \A u \in Threads : Waiting(u) => i \notin Refers(req[u])
        /\ known' = [known EXCEPT ![i] = 0]
        /\ req' = [req EXCEPT ![t] = [Idle EXCEPT !.op = "forget", !.pc = "forget",
                                                  !.e = i, !.cnt = known[i]]]
        /\ sent' = sent + 1
        /\ UNCHANGED <<conf, node, ctr, lru, lockq, opened, broken>>

\* Threads are interchangeable: the first idle one takes the next request.
Start(t) ==
    /\ req[t].pc = "idle"
    /\ t = CHOOSE u \in Threads : req[u].pc = "idle"
    /\ sent < conf.requests
    /\ ~conf.mt => \A u \in Threads : req[u].pc = "idle"
    /\ \/ StartPath(t)
       \/ "opendir" \in conf.ops /\ StartOpendir(t)
       \/ "open" \in conf.ops /\ StartOpen(t)
       \/ "release" \in conf.ops /\ StartRelease(t)
       \/ StartEntry(t)
       \/ "dot" \in conf.ops /\ StartDot(t)
       \/ "remove" \in conf.ops /\ StartRemove(t)
       \/ "rename" \in conf.ops /\ StartRename(t)
       \/ "link" \in conf.ops /\ StartLink(t)
       \/ "forget" \in conf.ops /\ StartForget(t)
-----------------------------------------------------------------------------
(***************************************************************************)
(* The rest of the handlers.                                               *)
(***************************************************************************)
\* The effect of one critical section: nd if what it asserts holds.
Commit(ok, nd) ==
    /\ broken' = ~ok
    /\ node' = IF ok THEN nd ELSE node
    /\ lru' = IF ok THEN Lru(nd) ELSE lru
Goto(t, pc) == req' = [req EXCEPT ![t].pc = pc]

\* wait_path: the woken thread leaves the queue.
Wake(t) ==
    /\ req[t].pc = "queued" /\ req[t].done
    /\ lockq' = SelectSeq(lockq, LAMBDA u : u # t)
    /\ Goto(t, "locked")
    /\ UNCHANGED <<conf, node, ctr, lru, known, opened, sent, broken>>

\* find_node, after the file system has the entry: the node of that name gets
\* a lookup, or a new one is made.
FindNode(t) ==
    LET r == req[t]
        p == IF r.op = "link" THEN r.i2 ELSE r.i1
        n == IF r.op = "link" THEN r.n2 ELSE r.n1
        old == IF r.op = "dot" THEN r.i1 ELSE LookupNode(node, p, n)
        i == IF old # None THEN old ELSE NextId(node)
        nd == IF old # None THEN node ELSE HashName(AddNode(node, i), i, p, n)
    IN  /\ r.pc = "locked" /\ ~r.err
        /\ r.op \in {"lookup", "make", "create", "link", "dot"}
        /\ old # None \/ FreeIds(node) # {}
        /\ p \in DOMAIN node
        /\ node' = IncLookup(nd, i)
        /\ lru' = IF old # None /\ conf.remember /\ node[old].nlookup = 1
                  THEN SelectSeq(lru, LAMBDA j : j # old) ELSE lru
        /\ ctr' = IF old # None THEN ctr ELSE i
        /\ req' = [req EXCEPT ![t].pc = "found", ![t].e = i]
        /\ UNCHANGED <<conf, lockq, known, opened, sent, broken>>

\* free_path, free_path_wrlock, free_path2: the locks go, the queue is served;
\* r2 is the request after that.
Serve(ok, w) == Commit(ok, w.nd) /\ req' = w.rq
FreePaths(t, r2) ==
    LET r == req[t]
        rq == [req EXCEPT ![t] = r2]
        ok == CanUnlock(node, r)
    IN  /\ Serve(ok, IF ok /\ r.f1 THEN WakeUp(Unlock(node, r), rq) ELSE [nd |-> node, rq |-> rq])
        /\ UNCHANGED <<conf, ctr, lockq, known, opened, sent>>

\* The end of a handler: the paths are freed, and an answer without an entry
\* is sent; also the error paths: no path, or the file system refuses.
Finish(t) ==
    LET r == req[t]
    IN  /\ \/ r.pc = "locked" /\ r.op # "release" /\ (r.err \/ ~Writes(r.op))
           \/ r.pc \in {"free", "late"}
           \/ r.pc = "found" /\ r.op # "create"
        /\ FreePaths(t, IF r.pc = "found" \/ r.op = "dot"
                        THEN [Idle EXCEPT !.op = r.op, !.pc = "reply", !.i1 = r.i1,
                                          !.n1 = r.n1, !.i2 = r.i2, !.n2 = r.n2,
                                          !.e = r.e]
                        ELSE Idle)

\* The end of fuse_lib_lookup, mknod, mkdir, symlink and link: a held "." gives
\* back its reference, and reply_entry hands the node to the kernel; if the
\* request is gone (-ENOENT) the lookup is forgotten again.
ReplyEntry(t) ==
    LET r == req[t]
        nd == Unref(node, r.i1)
    IN  /\ r.pc = "reply"
        /\ IF r.op = "dot" THEN Commit(UnrefOK(node, r.i1), nd)
           ELSE UNCHANGED <<node, lru, broken>>
        /\ \/ /\ known' = IF r.e = None THEN known ELSE [known EXCEPT ![r.e] = @ + 1]
              /\ req' = [req EXCEPT ![t] = Idle]
           \/ /\ r.e # None
              /\ req' = [req EXCEPT ![t] = [Idle EXCEPT !.op = "forget", !.pc = "forget",
                                                        !.e = r.e, !.cnt = 1]]
              /\ UNCHANGED known
        /\ UNCHANGED <<conf, ctr, lockq, opened, sent>>

\* fuse_lib_create and fuse_lib_open: the open file is counted; a created file
\* that is not regular is released and forgotten.
CountOpen(t) ==
    LET r == req[t]
        i == IF r.op = "create" THEN r.e ELSE r.i1
    IN  /\ \/ r.pc = "found" /\ r.op = "create"
           \/ r.pc = "locked" /\ ~r.err /\ r.op = "open"
        /\ Commit(i \in DOMAIN node, [node EXCEPT ![i].open = @ + 1])
        /\ req' = [req EXCEPT ![t].pc = "opened", ![t].e = i]
        /\ UNCHANGED <<conf, ctr, lockq, known, opened, sent>>
NotRegular(t) ==
    /\ req[t].pc = "found" /\ req[t].op = "create"
    /\ req' = [req EXCEPT ![t].pc = "forget", ![t].cnt = 1, ![t].next = "free"]
    /\ UNCHANGED <<conf, node, ctr, lru, lockq, known, opened, sent, broken>>

\* fuse_reply_open and fuse_reply_create: the path is still locked.
ReplyOpen(t) ==
    LET r == req[t]
        made == IF r.op = "create" THEN 1 ELSE 0
    IN  /\ \/ r.pc = "opened"
           \/ r.pc = "locked" /\ ~r.err /\ r.op = "opendir"
        /\ \/ /\ Goto(t, "late")
              /\ IF r.op = "opendir" THEN UNCHANGED <<known, opened>>
                 ELSE /\ known' = [known EXCEPT ![r.e] = @ + made]
                      /\ opened' = [opened EXCEPT ![r.e] = @ + 1]
           \/ /\ req' = [req EXCEPT ![t].pc = IF r.op = "opendir" THEN "free" ELSE "release",
                                    ![t].gone = TRUE]
              /\ UNCHANGED <<known, opened>>
        /\ UNCHANGED <<conf, node, ctr, lru, lockq, sent, broken>>

\* fuse_do_release; the last close of a hidden file removes it.
DoRelease(t) ==
    LET r == req[t]
        i == IF r.op = "release" THEN r.i1 ELSE r.e
        n == node[i].open - 1
    IN  /\ r.pc = "release" \/ (r.pc = "locked" /\ r.op = "release")
        /\ Commit(i \in DOMAIN node /\ node[i].open > 0,
                  [node EXCEPT ![i].open = n, ![i].hidden = @ /\ n > 0])
        /\ req' = [req EXCEPT ![t].pc = IF r.op = "create" THEN "forget" ELSE "free",
                              ![t].cnt = 1, ![t].next = "free"]
        /\ UNCHANGED <<conf, ctr, lockq, known, opened, sent>>

\* is_open: an open file that would go is hidden instead.
CheckOpen(t) ==
    LET r == req[t]
        i == IF r.op = "rename" THEN LookupNode(node, r.i2, r.n2)
             ELSE LookupNode(node, r.i1, r.n1)
        hide == ~conf.hard_remove /\ r.op # "rmdir" /\ i # None /\ node[i].open > 0
    IN  /\ r.pc = "locked" /\ ~r.err /\ Writes(r.op)
        /\ Goto(t, IF hide THEN "hide" ELSE "drop")
        /\ UNCHANGED <<conf, node, ctr, lru, lockq, known, opened, sent, broken>>

\* hide_node: hidden_name finds a name, the file system renames, rename_node
\* does so in the table.
HideNode(t) ==
    LET r == req[t]
        p == IF r.op = "rename" THEN r.i2 ELSE r.i1
        i == LookupNode(node, p, IF r.op = "rename" THEN r.n2 ELSE r.n1)
        nd == UnhashName(node, i)
    IN  /\ r.pc = "hide"
        /\ \/ /\ i # None /\ LookupNode(node, p, Hidden(i)) = None
              /\ Commit(UnhashOK(node, i),
                        [HashName(nd, i, p, Hidden(i)) EXCEPT ![i].hidden = TRUE])
              /\ Goto(t, IF r.op = "rename" THEN "drop" ELSE "free")
           \/ /\ Goto(t, "free")
              /\ UNCHANGED <<node, lru, broken>>
        /\ UNCHANGED <<conf, ctr, lockq, known, opened, sent>>

\* remove_node after the file system removed the file.
RemoveNode(t) ==
    LET r == req[t]
        i == LookupNode(node, r.i1, r.n1)
    IN  /\ r.pc = "drop" /\ r.op # "rename"
        /\ IF i = None THEN UNCHANGED <<node, lru, broken>>
           ELSE Commit(UnlinkOK(node, i), UnlinkNode(node, i))
        /\ Goto(t, "free")
        /\ UNCHANGED <<conf, ctr, lockq, known, opened, sent>>

\* rename_node after the file system renamed the file.
RenameNode(t) ==
    LET r == req[t]
        i == LookupNode(node, r.i1, r.n1)
        j == LookupNode(node, r.i2, r.n2)
        nd1 == IF j = None THEN node ELSE UnlinkNode(node, j)
    IN  /\ r.pc = "drop" /\ r.op = "rename"
        /\ IF i = None THEN UNCHANGED <<node, lru, broken>>
           ELSE Commit((j # None => UnlinkOK(node, j)) /\ UnhashOK(nd1, i)
                         /\ r.i2 \in DOMAIN UnhashName(nd1, i),
                       HashName(UnhashName(nd1, i), i, r.i2, r.n2))
        /\ Goto(t, "free")
        /\ UNCHANGED <<conf, ctr, lockq, known, opened, sent>>

\* The file system refuses an unlink, a rmdir or a rename.
Refused(t) ==
    /\ req[t].pc = "drop"
    /\ Goto(t, "free")
    /\ UNCHANGED <<conf, node, ctr, lru, lockq, known, opened, sent, broken>>

\* forget_node: waits while it is to drop the last lookups of a locked node.
MustWait(r) == node[r.e].nlookup = r.cnt /\ node[r.e].lock # 0
ForgetWait(t) ==
    LET r == req[t]
    IN  /\ r.pc = "forget" \/ (r.pc = "forgetting" /\ r.done)
        /\ r.e \in DOMAIN node /\ MustWait(r)
        /\ req' = [req EXCEPT ![t].pc = "forgetting", ![t].done = FALSE]
        /\ lockq' = IF r.pc = "forget" THEN Append(lockq, t) ELSE lockq
        /\ UNCHANGED <<conf, node, ctr, lru, known, opened, sent, broken>>
ForgetNode(t) ==
    LET r == req[t]
        left == node[r.e].nlookup - r.cnt
        nd == [node EXCEPT ![r.e].nlookup = left]
        here == r.e \in DOMAIN node /\ left >= 0
    IN  /\ r.pc = "forget" \/ (r.pc = "forgetting" /\ r.done)
        /\ r.e \in DOMAIN node => ~MustWait(r)
        /\ broken' = ~(here /\ (left = 0 => UnrefOK(nd, r.e)))
        /\ node' = IF broken' THEN node ELSE IF left = 0 THEN Unref(nd, r.e) ELSE nd
        /\ lru' = IF ~broken' /\ conf.remember /\ left = 1
                  THEN Append(SelectSeq(lru, LAMBDA j : j # r.e), r.e)
                  ELSE IF broken' THEN lru ELSE Lru(node')
        /\ lockq' = SelectSeq(lockq, LAMBDA u : u # t)
        /\ req' = [req EXCEPT ![t] = IF r.next = "idle" THEN Idle
                                     ELSE [r EXCEPT !.pc = r.next, !.done = FALSE]]
        /\ UNCHANGED <<conf, ctr, known, opened, sent>>

\* fuse_clean_cache: the oldest remembered node that nothing else needs goes;
\* called by fuse_session_loop_remember between requests, or by a thread of its
\* own (fuse_prune_nodes).
CleanCache ==
    /\ ~conf.mt => \A t \in Threads : req[t].pc = "idle"
    /\ \E k \in DOMAIN lru :
          LET i == lru[k]
              nd == [UnhashName(node, i) EXCEPT ![i].nlookup = 0]
          IN  /\ node[i].refctr = 1
              /\ \A j \in 1 .. k - 1 : node[lru[j]].refctr > 1
              /\ Commit(node[i].nlookup = 1 /\ UnhashOK(node, i) /\ UnrefOK(nd, i),
                        Unref(nd, i))
    /\ UNCHANGED <<conf, ctr, lockq, req, known, opened, sent>>

Step(t) ==
    \/ Wake(t) \/ FindNode(t) \/ Finish(t) \/ ReplyEntry(t) \/ CountOpen(t)
    \/ NotRegular(t) \/ ReplyOpen(t) \/ DoRelease(t) \/ CheckOpen(t) \/ HideNode(t)
    \/ RemoveNode(t) \/ RenameNode(t) \/ Refused(t) \/ ForgetWait(t) \/ ForgetNode(t)

\* fuse_new_common makes the root; the kernel has looked up the directory 1 and
\* the file 2 in it, each once.
RootNode == [Fresh EXCEPT !.name = 10, !.nlookup = 1, !.refctr = 2]
Init ==
    /\ conf \in Configs
    /\ node = [i \in 1 .. 3 |->
                 IF i = Root THEN RootNode
                 ELSE [Fresh EXCEPT !.parent = i - 1, !.name = i - 1, !.nlookup = @ + 1,
                                    !.refctr = IF i = 2 THEN 2 ELSE 1]]
    /\ ctr = 3 /\ lru = <<>> /\ lockq = <<>>
    /\ req = [t \in Threads |-> Idle]
    /\ known = [i \in 1 .. MaxId |-> IF i \in {2, 3} THEN 1 ELSE 0]
    /\ opened = [i \in 1 .. MaxId |-> 0]
    /\ sent = 0 /\ broken = FALSE

Next == ~broken /\ ((\E t \in Threads : Start(t) \/ Step(t)) \/ CleanCache)

\* Worker threads run and the file system answers: a thread that has a step to
\* take does not wait for ever.  (Runnable(t) is ENABLED Step(t), and while it
\* holds only a step of t changes req[t]; TLC evaluates this form faster than
\* WF_vars(Step(t)).)
Runnable(t) == /\ ~broken /\ req[t].pc # "idle"
               /\ req[t].pc \in {"queued", "forgetting"} => req[t].done
Fairness == \A t \in Threads : []<>(~Runnable(t)) \/ []<><<TRUE>>_(req[t])
Spec == Init /\ [][Next]_vars /\ Fairness
-----------------------------------------------------------------------------
Held(r) == <<IF r.f1 THEN OnPath(node, r.i1) ELSE {}, IF r.f2 THEN OnPath(node, r.i2) ELSE {}>>
Readers(i) == Cardinality({<<t, k>> \in Threads \X {1, 2} : i \in Held(req[t])[k]})
Writers(i) == Cardinality({t \in Threads : i \in {req[t].w1, req[t].w2}})
\* Lookups of i that are counted but not, or no longer, with the kernel.
InFlight(i) ==
    LET S == {t \in Threads : req[t].e = i
                /\ req[t].pc \in {"found", "reply", "opened", "release", "forget",
                                   "forgetting"}
                /\ req[t].op \notin {"open", "release"}}
        m(k) == Cardinality({t \in S : req[t].op = "forget" /\ req[t].cnt >= k})
    IN  Cardinality({t \in S : req[t].op # "forget"}) + m(1) + m(2) + m(3)

\* The counters of every node are exact, so that no assert and no abort() of
\* the library is ever hit: refctr counts the lookups (once), the children and
\* the held "."; nlookup is what the kernel holds, what is on its way and the
\* one that remembering adds; treelock is the number of readers or the writer.
NodesSound ==
    /\ ~broken
    /\ \A i \in 1 .. MaxId : known[i] > 0 \/ opened[i] > 0 => i \in DOMAIN node
    /\ \A i \in DOMAIN node \ {Root} :
          /\ node[i].refctr = Cardinality({j \in DOMAIN node : node[j].parent = i})
                              + (IF node[i].nlookup > 0 THEN 1 ELSE 0)
                              + Cardinality({t \in Threads : req[t].op = "dot" /\ req[t].i1 = i})
          /\ node[i].nlookup = known[i] + InFlight(i)
                + IF conf.remember /\ Linked(node, i) THEN 1 ELSE 0
          /\ node[i].open = opened[i] + Cardinality({t \in Threads :
                \/ req[t].e = i /\ req[t].pc \in {"opened", "release"}
                \/ req[t].i1 = i /\ req[t].op = "release"
                   /\ req[t].pc \in {"queued", "locked"}})
          /\ IF node[i].lock = Write THEN Readers(i) = 0 /\ Writers(i) = 1
             ELSE /\ Writers(i) = 0
                  /\ node[i].lock = Readers(i)
                       + IF node[i].lock < 0 THEN WaitOffset ELSE 0

\* The path a handler was given stays the path of its node until the handler
\* frees it, whatever other requests rename or remove meanwhile; and the node
\* a handler write-locked is the one it then removes, renames or hides.
PathFresh ==
    \A t \in Threads :
        LET r == req[t]
        IN  /\ r.f1 => HasPath(node, r.i1) /\ PathNames(node, r.i1) = r.p1
            /\ r.f2 => HasPath(node, r.i2) /\ PathNames(node, r.i2) = r.p2
            /\ r.pc \in {"locked", "hide", "drop"} /\ Writes(r.op) /\ ~r.err =>
                  r.w1 = LookupNode(node, r.i1, r.n1)

\* Unless hard_remove is set, a file the kernel has open keeps a name: it is
\* hidden, not removed, although is_open is asked in one critical section and
\* the removal follows in another.
OpenKeepsName ==
    \A i \in DOMAIN node : opened[i] > 0 /\ ~conf.hard_remove => Linked(node, i)

\* Every request ends, those that lock two paths included: "FIXME: locking two
\* paths needs deadlock checking" (try_get_path2).
RequestsFinish == \A t \in Threads : req[t].pc # "idle" ~> req[t].pc = "idle"
=============================================================================

------------------------------ MODULE KVStore ------------------------------
(***************************************************************************)
(* The file store (kvstore.c).  An entry is a file named by the hash of    *)
(* its key and a position in the chain of that hash.  An operation first   *)
(* finds its key under the read lock, releases it, and then changes the    *)
(* files under the write lock, at the position it found.  Nothing keeps    *)
(* another thread from changing the chain in between.  The calls come      *)
(* from the handlers of KVServer, which have already passed                *)
(* kvstore_put_check.                                                      *)
(***************************************************************************)
EXTENDS KVRequest, Naturals

CONSTANTS Threads, NoCall,
          HashOf,       \* hash(), [Keys -> hash values]
          MaxChain,     \* bound on the positions of a chain
          Damaged       \* stands for the content of a key that the store has lost track of

ASSUME StoreAssumption == /\ NoCall \notin Keys \cup Values \cup {Absent, "ok", "error"}
                          /\ NoCall \notin [req : Request \cup GetReq,
                                            ret : Values \cup {Absent, "ok", "error", NoCall},
                                            alone : BOOLEAN]
                          /\ Damaged \notin Values \cup {Absent}
                          /\ MaxChain \in Nat
                          /\ DOMAIN HashOf = Keys

VARIABLES files,     \* files[h][n] is what the file "h-n.entry" holds
          thread,    \* the call each thread is in, and how far it has come
          damaged    \* history: the chains that were written at a stale position,
                     \* or hold a torn file

storeVars == <<files, thread, damaged>>

-----------------------------------------------------------------------------
Hashes == {HashOf[k] : k \in Keys}
Positions == 0..MaxChain

(* A file that was opened for writing and never written. *)
Torn == [key |-> NoCall, value |-> NoCall]
FileEntry == [key : Keys, value : Values]

(* The negative result of find_entry. *)
ERRNOKEY == MaxChain + 1

Call == Request \cup GetReq
IdleThread == [pc |-> "idle"]
Thread == [pc : {"called", "found", "opened", "done"}, req : Call,
           pos : 0..ERRNOKEY,    \* what find_entry returned
           at : 0..ERRNOKEY,     \* the file that is open
           ret : Values \cup {Absent, "ok", "error", NoCall},
           alone : BOOLEAN]      \* history: no other call was about to change the chain

(* The first position from p on without a file. *)
FreePos(c, p) ==
  CHOOSE n \in p..(MaxChain + 1) :
    n \notin DOMAIN c /\ \A m \in p..(n - 1) : m \in DOMAIN c

(* find_entry: the loop ends at the key or at the first missing file. *)
FindEntry(c, k) ==
  LET found == {n \in DOMAIN c :
                  c[n].key = k /\ \A m \in 0..(n - 1) : m \in DOMAIN c /\ c[m].key # k}
  IN IF found = {} THEN ERRNOKEY ELSE CHOOSE n \in found : TRUE

Chain(k) == files[HashOf[k]]
Lookup(k) == LET n == FindEntry(Chain(k), k)
             IN IF n = ERRNOKEY THEN Absent ELSE Chain(k)[n].value

(* Nobody holds the write lock. *)
Unlocked == \A t \in Threads : thread[t].pc # "opened"

(* t is in kvstore_put or kvstore_del, and the chain h is yet to change. *)
AboutToChange(t, h) == /\ thread[t].pc \in {"called", "found"}
                       /\ thread[t].req \in Request
                       /\ HashOf[thread[t].req.key] = h

(* The position that find_entry gave t is no longer that of its key. *)
Stale(t) == thread[t].pos # FindEntry(Chain(thread[t].req.key), thread[t].req.key)

(* t changes a chain at the position that it found. *)
Damages(t) == damaged' = IF Stale(t) THEN damaged \cup {HashOf[thread[t].req.key]} ELSE damaged

-----------------------------------------------------------------------------
StoreInit == /\ files = [h \in Hashes |-> <<>>]
             /\ thread = [t \in Threads |-> IdleThread]
             /\ damaged = {}

Begin(t, r) ==
  LET h == HashOf[r.key]
  IN /\ thread[t] = IdleThread
     /\ thread' = [u \in Threads |->
          IF u = t THEN [pc |-> "called", req |-> r, pos |-> ERRNOKEY, at |-> ERRNOKEY,
                         ret |-> NoCall,
                         alone |-> r \in Request => \A v \in Threads : ~AboutToChange(v, h)]
          ELSE IF r \in Request /\ AboutToChange(u, h)
               THEN [thread[u] EXCEPT !.alone = FALSE] ELSE thread[u]]
     /\ UNCHANGED <<files, damaged>>

Return(t, ret) ==
  thread' = [thread EXCEPT ![t].pc = "done", ![t].ret = ret]

(* kvstore_get. *)
Get(t) == /\ thread[t].pc = "called" /\ Unlocked
          /\ thread[t].req.type = "GETREQ"
          /\ Return(t, Lookup(thread[t].req.key))
          /\ UNCHANGED <<files, damaged>>

(* The first find_entry of kvstore_put and kvstore_del. *)
Find(t) ==
  LET r == thread[t].req
      n == FindEntry(Chain(r.key), r.key)
  IN /\ thread[t].pc = "called" /\ Unlocked
     /\ r \in Request
     /\ IF r.type = "DELREQ" /\ n = ERRNOKEY THEN Return(t, "error")
        ELSE thread' = [thread EXCEPT ![t].pc = "found", ![t].pos = n]
     /\ UNCHANGED <<files, damaged>>

PutPos(c, n) == IF n = ERRNOKEY THEN FreePos(c, 0) ELSE n

Write(c, n, e) == [m \in DOMAIN c \cup {n} |-> IF m = n THEN e ELSE c[m]]

(* kvstore_put takes the write lock and truncates the file.  The entry     *)
(* that it is about to write is already shown; a crash may still undo it.  *)
PutOpen(t) ==
  LET r == thread[t].req
      n == PutPos(Chain(r.key), thread[t].pos)
  IN /\ thread[t].pc = "found" /\ Unlocked
     /\ r.type = "PUTREQ"
     /\ n \in Positions
     /\ files' = [files EXCEPT ![HashOf[r.key]] =
                    Write(@, n, [key |-> r.key, value |-> r.value])]
     /\ thread' = [thread EXCEPT ![t].pc = "opened", ![t].at = n, ![t].ret = "ok"]
     /\ Damages(t)

PutClose(t) == /\ thread[t].pc = "opened"
               /\ Return(t, "ok")
               /\ UNCHANGED <<files, damaged>>

(* Mutant of Unlink: the chain is not reconnected. *)
UnlinkLeavesHole(c, n) == [m \in DOMAIN c \ {n} |-> c[m]]

(* kvstore_del: the last file of the chain takes the place of the deleted. *)
Unlink(c, n) ==
  LET last == FreePos(c, n + 1) - 1
  IN [m \in DOMAIN c \ {last} |-> IF m = n THEN c[last] ELSE c[m]]

(* remove fails when the file has gone in the meantime. *)
Del(t) ==
  LET r == thread[t].req
      c == Chain(r.key)
      n == thread[t].pos
      gone == FreePos(c, n + 1) = n + 1 /\ n \notin DOMAIN c
  IN /\ thread[t].pc = "found" /\ Unlocked
     /\ r.type = "DELREQ"
     /\ files' = IF gone THEN files
                 ELSE [files EXCEPT ![HashOf[r.key]] = Unlink(@, n)]
     /\ Return(t, IF gone THEN "error" ELSE "ok")
     /\ Damages(t)

End(t) == /\ thread[t].pc = "done"
          /\ thread' = [thread EXCEPT ![t] = IdleThread]
          /\ UNCHANGED <<files, damaged>>

(* The process stops; kvstore_init on the same directory finds the files,  *)
(* one of them empty if a kvstore_put was between fopen and fclose.  What  *)
(* find_entry takes an empty file for is undefined (it compares the key    *)
(* with uninitialized memory): its chain counts as damaged, and no file of *)
(* it is relied on.                                                        *)
StoreCrash ==
  LET torn(h) == {thread[t].at : t \in {u \in Threads : /\ thread[u].pc = "opened"
                                                       /\ HashOf[thread[u].req.key] = h}}
  IN /\ files' = [h \in Hashes |-> [n \in DOMAIN files[h] |->
                                     IF n \in torn(h) THEN Torn ELSE files[h][n]]]
     /\ damaged' = damaged \cup {h \in Hashes : torn(h) # {}}
     /\ thread' = [t \in Threads |-> IdleThread]

StoreStep(t) == Get(t) \/ Find(t) \/ PutOpen(t) \/ PutClose(t) \/ Del(t)

-----------------------------------------------------------------------------
(* The directory holds entries and torn files, at legal positions. *)
StoreTypeOK ==
  /\ DOMAIN files = Hashes
  /\ \A h \in Hashes : /\ DOMAIN files[h] \subseteq Positions
                       /\ \A n \in DOMAIN files[h] : files[h][n] \in FileEntry \cup {Torn}
  /\ thread \in [Threads -> Thread \cup {IdleThread}]
  /\ damaged \subseteq Hashes

(* kvstore.h: "Chains should always be complete; that is, you may never    *)
(* have a chain which has entries with a chainpos of 0 and 2 but not 1".   *)
ChainsComplete ==
  \A h \in Hashes \ damaged : \A n \in DOMAIN files[h] : 0..n \subseteq DOMAIN files[h]

(* No key has two files, and every entry lies in the chain of its hash:    *)
(* else a kvstore_del would bring an old value back.                       *)
OneFilePerKey ==
  \A h \in Hashes \ damaged : \A m, n \in DOMAIN files[h] :
    /\ HashOf[files[h][m].key] = h
    /\ files[h][m].key = files[h][n].key => m = n

(* A call as its caller sees it. *)
CallOf(th) == IF th = IdleThread THEN NoCall
              ELSE [req |-> th.req, ret |-> th.ret, alone |-> th.alone]

Abstract == INSTANCE AtomicStore WITH
              Near <- [k \in Keys |-> {j \in Keys : HashOf[j] = HashOf[k]}],
              map <- [k \in Keys |-> IF HashOf[k] \in damaged THEN Damaged ELSE Lookup(k)],
              call <- [t \in Threads |-> CallOf(thread[t])]

(* kvstore.h: "The lock used to make KVStore's functions thread-safe", and *)
(* "the new store will be an exact clone of the old store".  What threads  *)
(* that put, delete and get at the same time, and crashes, can rely on: a  *)
(* call takes effect at one moment, on its own key, unless it changes the  *)
(* chain at a position that another thread has made stale; only a call     *)
(* beside another one on the same chain does so, and it costs no key of    *)
(* another chain.  A crash costs at most the chain of a put under way.     *)
ImplementsAtomicStore == Abstract!Spec
=============================================================================

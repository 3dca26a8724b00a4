------------------------------ MODULE KVServer ------------------------------
(***************************************************************************)
(* kvserver_get, kvserver_put and kvserver_del, called by the handler      *)
(* threads of one server (kvserver_handle_no_tpc).  Each uses the cache    *)
(* under the lock of a cache set and the store (KVStore) under the store's *)
(* lock, and holds no lock from the one to the other: every access to      *)
(* either is a step.                                                       *)
(*                                                                         *)
(* The cache is the one that LossyCache describes, which KVCache           *)
(* implements.                                                             *)
(***************************************************************************)
EXTENDS KVStore, TLC

CONSTANT SetOf    \* the cache set of each key

ASSUME ServerAssumption == DOMAIN SetOf = Keys

VARIABLES cache,
          handler,   \* the request each thread handles, and how far it is
          raced      \* history: keys with a PUT or DEL beside another request

vars == <<storeVars, cache, handler, raced>>

Cache == INSTANCE LossyCache WITH map <- cache

-----------------------------------------------------------------------------
Handler == [pc : {"called", "store", "deleted", "missed", "done"},
            req : Call, ret : Values \cup {Absent, "ok", "error", NoCall}]

Busy == {t \in Threads : handler[t] # IdleThread}
Writers == {t \in Busy : handler[t].req \in Request}

Goto(t, pc, ret) == handler' = [handler EXCEPT ![t].pc = pc, ![t].ret = ret]
At(t, pc, type) == handler[t].pc = pc /\ handler[t].req.type = type
KeyOf(t) == handler[t].req.key

(* The store function that t called returns. *)
StoreReturned(t, type) == At(t, "store", type) /\ End(t)

Init == /\ StoreInit
        /\ cache = [k \in Keys |-> Absent]
        /\ handler = [t \in Threads |-> IdleThread]
        /\ raced = {}

(* A worker of the socket server calls kvserver_handle. *)
Handle(t, r) ==
  /\ handler[t] = IdleThread
  /\ handler' = [handler EXCEPT ![t] = [pc |-> "called", req |-> r, ret |-> NoCall]]
  /\ raced' = raced \cup {k \in {r.key} : \E u \in Busy :
                 KeyOf(u) = k /\ (r \in Request \/ u \in Writers)}
  /\ UNCHANGED <<storeVars, cache>>

-----------------------------------------------------------------------------
(* kvserver_get: the cache, then the store, then the cache again. *)
GetFromCache(t) ==
  /\ At(t, "called", "GETREQ")
  /\ IF cache[KeyOf(t)] # Absent THEN Goto(t, "done", cache[KeyOf(t)]) /\ UNCHANGED storeVars
     ELSE Goto(t, "store", NoCall) /\ Begin(t, handler[t].req)
  /\ UNCHANGED <<cache, raced>>

GetReturns(t) ==
  /\ StoreReturned(t, "GETREQ")
  /\ IF thread[t].ret = Absent THEN UNCHANGED cache
     ELSE Cache!Put(KeyOf(t), thread[t].ret)
  /\ Goto(t, "done", thread[t].ret)
  /\ UNCHANGED raced

(* kvserver_put: the check, the store, the cache. *)
PutRefused(t) ==
  /\ At(t, "called", "PUTREQ")
  /\ handler[t].req.value \in TooLong
  /\ Goto(t, "done", "error")
  /\ UNCHANGED <<storeVars, cache, raced>>

PutInStore(t) ==
  /\ At(t, "called", "PUTREQ")
  /\ handler[t].req.value \notin TooLong
  /\ Begin(t, handler[t].req)
  /\ Goto(t, "store", NoCall)
  /\ UNCHANGED <<cache, raced>>

(* Mutant of WriteThrough: the cache keeps what it had. *)
WriteThroughSkipped(k, v) == UNCHANGED cache

WriteThrough(k, v) == Cache!Put(k, v)

PutInCache(t) ==
  /\ StoreReturned(t, "PUTREQ")
  /\ WriteThrough(KeyOf(t), handler[t].req.value)
  /\ Goto(t, "done", "ok")
  /\ UNCHANGED raced

(* kvserver_del: the cache, the check, the store. *)
DelFromCache(t) ==
  /\ At(t, "called", "DELREQ")
  /\ Cache!Del(KeyOf(t))
  /\ Goto(t, IF cache[KeyOf(t)] # Absent THEN "deleted" ELSE "missed", NoCall)
  /\ UNCHANGED <<storeVars, raced>>

(* The outcome of kvcache_del stands if the store does not have the key. *)
DelCheck(t) ==
  /\ At(t, "deleted", "DELREQ") \/ At(t, "missed", "DELREQ")
  /\ Unlocked
  /\ IF Lookup(KeyOf(t)) = Absent
     THEN /\ Goto(t, "done", IF handler[t].pc = "deleted" THEN "ok" ELSE "error")
          /\ UNCHANGED storeVars
     ELSE Goto(t, "store", NoCall) /\ Begin(t, handler[t].req)
  /\ UNCHANGED <<cache, raced>>

DelReturns(t) ==
  /\ StoreReturned(t, "DELREQ")
  /\ Goto(t, "done", thread[t].ret)
  /\ UNCHANGED <<cache, raced>>

(* The response is sent. *)
Respond(t) == /\ handler[t].pc = "done"
              /\ handler' = [handler EXCEPT ![t] = IdleThread]
              /\ UNCHANGED <<storeVars, cache, raced>>

(* The process stops; kvserver_init runs on the same directory. *)
Crash == /\ StoreCrash
         /\ cache' = [k \in Keys |-> Absent]
         /\ handler' = [t \in Threads |-> IdleThread]
         /\ raced' = {}

Next == \/ \E t \in Threads :
             \/ \E r \in Call : Handle(t, r)
             \/ GetFromCache(t) \/ GetReturns(t)
             \/ PutRefused(t) \/ PutInStore(t) \/ PutInCache(t)
             \/ DelFromCache(t) \/ DelCheck(t) \/ DelReturns(t)
             \/ Respond(t)
             \/ StoreStep(t) /\ UNCHANGED <<cache, handler, raced>>
        \/ Crash

Spec == Init /\ [][Next]_vars

-----------------------------------------------------------------------------
(* Files, cache and the calls of the threads keep their shape, and only a  *)
(* thread that handles a request is in the store.                          *)
TypeOK == /\ StoreTypeOK
          /\ cache \in Store
          /\ handler \in [Threads -> Handler \cup {IdleThread}]
          /\ \A t \in Threads : thread[t] # IdleThread <=> handler[t].pc = "store"

(* No PUT or DEL of k was handled beside another request for k, and no     *)
(* call of the store has damaged the chain of k.                           *)
Trusted(k) == k \notin raced /\ HashOf[k] \notin damaged

(* kvserver.h: "The cache should write-through; that is, when a new entry  *)
(* is stored, it should be written to both the cache and the store         *)
(* immediately".  While no request for a key is handled, the cache holds   *)
(* nothing else for it than the store: else every later GET would return   *)
(* it.                                                                     *)
CacheCoherent ==
  \A k \in Keys : Trusted(k) /\ (\A t \in Busy : KeyOf(t) # k) =>
    cache[k] \in {Absent, Lookup(k)}

(* The same for every key once no handler runs at all.  It fails when a    *)
(* PUT or DEL is handled beside another request for its key.               *)
CacheMatchesStore ==
  Busy = {} => \A k \in Keys : cache[k] \in {Absent, Lookup(k)}

(* What a client is told is so: a GET returns what the store holds, from   *)
(* the cache or not, a PUT has stored its value, and a DEL leaves nothing, *)
(* whatever requests for other keys, of the same chain or the same cache   *)
(* set, are handled meanwhile.                                             *)
AnswersTrue ==
  \A t \in Busy : handler[t].pc = "done" /\ Trusted(KeyOf(t)) =>
    CASE handler[t].req.type = "GETREQ" -> handler[t].ret = Lookup(KeyOf(t))
      [] handler[t].req.type = "PUTREQ" ->
           handler[t].ret = "ok" <=> handler[t].req.value \notin TooLong
                                     /\ Lookup(KeyOf(t)) = handler[t].req.value
      [] handler[t].req.type = "DELREQ" -> Lookup(KeyOf(t)) = Absent

(* The cache does not outlive the store's truth, and clients are told it:  *)
(* for every key whose own requests do not overlap, whatever is handled    *)
(* for other keys meanwhile.                                               *)
ServerTrue == CacheCoherent /\ AnswersTrue

(* For HashOf and SetOf: all keys share one hash chain and one cache set,  *)
(* the case in which requests for different keys meet.                     *)
AllTogether == [k \in Keys |-> 1]

(* Nothing is claimed of a damaged chain: a behaviour ends with the last   *)
(* sound one.                                                              *)
SoundChainLeft == damaged # Hashes
Symmetry == Permutations(Threads) \cup Permutations(Keys) \cup Permutations(Values \ TooLong)
=============================================================================

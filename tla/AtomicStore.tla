---------------------------- MODULE AtomicStore ----------------------------
(***************************************************************************)
(* What a store promises the threads that share it (kvstore.h,             *)
(* kvserver.h), as far as kvstore.c keeps it.  A call takes effect on one  *)
(* map, at one moment between its beginning and its end.  A call that      *)
(* changes an entry while another call is about to change one near it may  *)
(* instead damage these entries.  A crash loses calls that have not taken  *)
(* effect, and perhaps the entries near the one that a call is writing.    *)
(***************************************************************************)
EXTENDS KVRequest

CONSTANTS Threads, NoCall,
          Near,       \* the keys whose entries are kept together with that of a key
          Damaged     \* what the map shows for an entry that may hold anything

VARIABLES map, call

Call == Request \cup GetReq

(* What a call returns: a value, or whether the change was possible. *)
Outcome(m, r) ==
  IF r.type = "GETREQ" THEN m[r.key] ELSE IF Check(m, r) THEN "ok" ELSE "error"

Pending(t) == call[t] # NoCall /\ call[t].ret = NoCall

AboutToChange(t, k) ==
  Pending(t) /\ call[t].req \in Request /\ call[t].req.key \in Near[k]

Init == map = EmptyStore /\ call = [t \in Threads |-> NoCall]

(* A call is alone as long as no other is about to change an entry near.  *)
Begin(t, r) ==
  /\ call[t] = NoCall
  /\ call' = [u \in Threads |->
       IF u = t THEN [req |-> r, ret |-> NoCall,
                      alone |-> r \in Request => \A v \in Threads : ~AboutToChange(v, r.key)]
       ELSE IF r \in Request /\ AboutToChange(u, r.key)
            THEN [call[u] EXCEPT !.alone = FALSE] ELSE call[u]]
  /\ UNCHANGED map

TakeEffect(t) ==
  /\ Pending(t) /\ map[call[t].req.key] # Damaged
  /\ map' = Apply(map, call[t].req)
  /\ call' = [call EXCEPT ![t].ret = Outcome(map, call[t].req)]

(* The entries near the key may now be anything. *)
Misplace(t) ==
  /\ Pending(t) /\ call[t].req \in Request
  /\ ~call[t].alone \/ map[call[t].req.key] = Damaged
  /\ map' = [k \in Keys |-> IF k \in Near[call[t].req.key] THEN Damaged ELSE map[k]]
  /\ \E ret \in {"ok", "error"} : call' = [call EXCEPT ![t].ret = ret]

GetDamaged(t) ==
  /\ Pending(t) /\ call[t].req \in GetReq
  /\ map[call[t].req.key] = Damaged
  /\ \E ret \in Values \cup {Absent} : call' = [call EXCEPT ![t].ret = ret]
  /\ UNCHANGED map

End(t) == /\ call[t] # NoCall
          /\ call[t].ret # NoCall
          /\ call' = [call EXCEPT ![t] = NoCall]
          /\ UNCHANGED map

(* The PUTs that have taken effect and not returned. *)
Written == {call[t].req.key : t \in {u \in Threads : /\ call[u] # NoCall
                                                    /\ call[u].req \in PutReq
                                                    /\ call[u].ret # NoCall}}

Crash == /\ call' = [t \in Threads |-> NoCall]
         /\ \E lost \in SUBSET Written :
              map' = [k \in Keys |-> IF Near[k] \cap lost # {} THEN Damaged ELSE map[k]]

Next == \/ \E t \in Threads : \/ \E r \in Call : Begin(t, r)
                              \/ TakeEffect(t) \/ Misplace(t) \/ GetDamaged(t)
                              \/ End(t)
        \/ Crash

Spec == Init /\ [][Next]_<<map, call>>
=============================================================================

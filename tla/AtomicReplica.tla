--------------------------- MODULE AtomicReplica ---------------------------
(***************************************************************************)
(* What a slave of the two-phase commit promises its master: it holds some *)
(* data and at most one prepared request, and a decision settles the       *)
(* request at once.  There are no crashes here: a slave that crashes and   *)
(* recovers is to look as if nothing had happened.                         *)
(***************************************************************************)
EXTENDS KVRequest

CONSTANTS Slaves,
          NoRequest

VARIABLES data, prepared

Init == /\ data = [s \in Slaves |-> EmptyStore]
        /\ prepared = [s \in Slaves |-> NoRequest]

(* A vote to commit. *)
Prepare(s, r) == /\ prepared[s] = NoRequest
                 /\ Check(data[s], r)
                 /\ prepared' = [prepared EXCEPT ![s] = r]
                 /\ UNCHANGED data

Commit(s) == /\ prepared[s] # NoRequest
             /\ data' = [data EXCEPT ![s] = Apply(data[s], prepared[s])]
             /\ prepared' = [prepared EXCEPT ![s] = NoRequest]

Abort(s) == /\ prepared[s] # NoRequest
            /\ prepared' = [prepared EXCEPT ![s] = NoRequest]
            /\ UNCHANGED data

Next == \E s \in Slaves : \/ \E r \in Request : Prepare(s, r)
                          \/ Commit(s)
                          \/ Abort(s)

Spec == Init /\ [][Next]_<<data, prepared>>
=============================================================================

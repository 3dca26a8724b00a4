---------------------------- MODULE TPCRegistry ----------------------------
(***************************************************************************)
(* The master's list of slaves (tpcmaster.c): slaves register, in any      *)
(* order and again when they restart, and requests look up the replicas of *)
(* a key.  All of it happens under slave_lock, one call at a time.  A      *)
(* slave is its id, the hash of its port and host.                         *)
(***************************************************************************)
EXTENDS Integers, Sequences, SequencesExt

CONSTANTS Ids,           \* the ids of the slaves that may register
          KeyHashes,     \* the hashes of the keys that are looked up
          Capacity,      \* slave_capacity
          Redundancy,
          MaxRestarts

VARIABLES slaves,    \* the list from slaves_head
          count,     \* slave_count
          status,    \* what each slave knows of its registration
          lookup,    \* the last key looked up and its replicas
          restarts

vars == <<slaves, count, status, lookup, restarts>>

-----------------------------------------------------------------------------
(* Where a walk along the list stops: at the first slave whose id is above *)
(* h, or else at the last.                                                 *)
StopsAt(l, h) ==
  CHOOSE n \in 1..Len(l) : /\ n = Len(l) \/ l[n] > h
                           /\ \A m \in 1..(n - 1) : l[m] <= h

(* The new slave goes to the front, or behind the slave at which the loop  *)
(* stops.  The loop never sets exists: it compares ids for equality only   *)
(* where the one is smaller.                                               *)
Insert(l, id) ==
  IF l = <<>> THEN <<id>>
  ELSE IF id < l[1] THEN <<id>> \o l
  ELSE InsertAt(l, StopsAt(l, id - 1) + 1, id)

(* Mutant of GetPrimary: a slave with the hash of the key is its primary. *)
GetPrimaryInclusive(l, h) ==
  LET n == StopsAt(l, h - 1)
  IN IF l[n] < h THEN 1 ELSE n

(* tpcmaster_get_primary and tpcmaster_get_successor, as positions. *)
GetPrimary(l, h) ==
  LET n == StopsAt(l, h)
  IN IF l[n] <= h THEN 1 ELSE n

GetSuccessor(l, n) == IF n = Len(l) THEN 1 ELSE n + 1

(* The walk of tpcmaster_handle_get. *)
Replicas(l, h) ==
  LET node[n \in 1..Redundancy] ==
        IF n = 1 THEN GetPrimary(l, h) ELSE GetSuccessor(l, node[n - 1])
  IN [n \in 1..Redundancy |-> l[node[n]]]

-----------------------------------------------------------------------------
Init == /\ slaves = <<>> /\ count = 0
        /\ status = [i \in Ids |-> "off"]
        /\ lookup = <<>>
        /\ restarts = 0

Full == count >= Capacity

(* tpcmaster_register; a slave that gets an error exits (kvslave.c). *)
Register(i) ==
  /\ status[i] = "off"
  /\ IF Full
     THEN /\ status' = [status EXCEPT ![i] = "refused"]
          /\ UNCHANGED <<slaves, count>>
     ELSE /\ status' = [status EXCEPT ![i] = "registered"]
          /\ slaves' = Insert(slaves, i)
          /\ count' = count + 1
  /\ UNCHANGED <<lookup, restarts>>

(* A slave stops and is started again: it registers once more. *)
Restart(i) ==
  /\ status[i] # "off" /\ restarts < MaxRestarts
  /\ status' = [status EXCEPT ![i] = "off"]
  /\ restarts' = restarts + 1
  /\ UNCHANGED <<slaves, count, lookup>>

(* tpcmaster_handle_get; the loops dereference slaves_head. *)
Lookup(h) ==
  /\ slaves # <<>>
  /\ lookup' = [hash |-> h, ring |-> slaves, replicas |-> Replicas(slaves, h)]
  /\ UNCHANGED <<slaves, count, status, restarts>>

Next == \/ \E i \in Ids : Register(i) \/ Restart(i)
        \/ \E h \in KeyHashes : Lookup(h)

Spec == Init /\ [][Next]_vars

-----------------------------------------------------------------------------
(* tpcmaster.c: "There can never be more slaves than the MASTER's          *)
(* slave_capacity", and slave_count counts them.                           *)
TypeOK == /\ slaves \in Seq(Ids) /\ count \in 0..Capacity
          /\ count = Len(slaves)
          /\ status \in [Ids -> {"off", "registered", "refused"}]
          /\ restarts \in 0..MaxRestarts

(* tpcmaster.c: "If the slave is already in the list, do nothing           *)
(* (success)".  No slave is in the list twice.                             *)
NoDuplicates == \A m, n \in 1..Len(slaves) : slaves[m] = slaves[n] => m = n

(* Every slave that was told it is registered is one the master uses. *)
RegisteredAreListed ==
  \A i \in Ids : status[i] = "registered" => i \in Range(slaves)

(* tpcmaster.c: the primary is "the first slave whose ID is greater than   *)
(* the KEY's hash, and the one with lowest ID if none matches", and a      *)
(* successor "the slave whose ID comes after PREDECESSOR's, sorted in      *)
(* increasing order".  The replicas of a key follow it around the ring of  *)
(* ids, whatever the order of registration.                                *)
After(S, i) == LET above == {j \in S : j > i}
                   from == IF above = {} THEN S ELSE above
               IN CHOOSE j \in from : \A k \in from : j <= k
LookupFollowsRing ==
  lookup # <<>> =>
    \A n \in 1..Redundancy :
      lookup.replicas[n] =
        After(Range(lookup.ring), IF n = 1 THEN lookup.hash ELSE lookup.replicas[n - 1])

(* The master knows whom it told so, and finds the replicas of a key.      *)
RegistrySound == RegisteredAreListed /\ LookupFollowsRing
=============================================================================

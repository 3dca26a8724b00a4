----------------------------- MODULE TPCReplica -----------------------------
(***************************************************************************)
(* Slaves that crash and recover, under a master that keeps to the         *)
(* protocol: it sends a COMMIT only to a slave that has voted for it, and  *)
(* one decision at a time.  Requests, aborts and reads may come from any   *)
(* of its threads at any time.                                             *)
(***************************************************************************)
EXTENDS TPCSlave

CONSTANTS MaxLog,     \* bound on the length of a log
          MaxQueue    \* bound on the connections that wait at a slave

ASSUME BoundsAssumption == MaxLog \in Nat /\ MaxQueue \in Nat

(* The request that a slave has voted to commit. *)
PreparedIn(l, st) ==
  IF IsRequest(LastEntry(l)) /\ Check(st, LastEntry(l)) THEN LastEntry(l)
  ELSE NoRequest

DecisionPending(s) == \E p \in Pending(s) : p.msg \in {COMMIT, ABORT}

Unconnected(c) == \A s \in Slaves : \A p \in Pending(s) : p.owner # c

Send(s, c, m) ==
  /\ Unconnected(c)
  /\ Len(log[s]) < MaxLog /\ Len(wq[s]) < MaxQueue
  /\ m = COMMIT => Waiting(s) /\ ~DecisionPending(s)
  /\ Connect(s, c, m)

Init == SlaveInit

Next == \E s \in Slaves :
          \/ SlaveStep(s)
          \/ Crash(s)
          \/ Restart(s)
          \/ \E c \in Clients : GiveUp(s, c) \/ \E m \in Message : Send(s, c, m)

Spec == Init /\ [][Next]_slaveVars

-----------------------------------------------------------------------------
(* Messages, log entries, jobs and replies keep their shape.  *)
TypeOK == SlaveTypeOK

(* kvserver.c: "Should restore SERVER to its exact state".  While no       *)
(* message is being handled, a slave waits for a decision if and only if   *)
(* its log ends in a request that it accepted, also after a crash.         *)
StateMatchesLog ==
  \A s \in Slaves : up[s] /\ job[s] = Idle =>
    (Waiting(s) <=> PreparedIn(log[s], store[s]) # NoRequest)

(* A slave that is up and not in the middle of a COMMIT has applied every  *)
(* COMMIT of its log: recovering it once more would change nothing.        *)
CommitsApplied ==
  \A s \in Slaves : up[s] /\ job[s].pc # "apply" =>
    Redo(log[s], store[s]) = store[s]

(* A COMMIT on its way to a slave finds the request it is meant for. *)
CommitFindsRequest ==
  \A s \in Slaves : \A p \in Pending(s) :
    p.msg = COMMIT => \/ PreparedIn(log[s], store[s]) # NoRequest
                      \/ job[s].pc \in {"apply", "ack"}

(* tpclog.h: the log lets a server "recreate its state after a crash".     *)
(* The log that a crash leaves can be read: kvserver_rebuild_state would   *)
(* use the null entry that a file of length zero yields.                   *)
LogReadable == \A s \in Slaves : ~up[s] => ~torn[s]

(* The same for one slave, in the form that every step preserves: what     *)
(* the handler knows at each of its steps, and that a COMMIT in the queue  *)
(* is the first decision there and finds the slave waiting.                *)
SlaveInv(u, st, l, d, q, j) ==
  /\ ~u => j = Idle /\ q = <<>>
  /\ u /\ j.pc # "apply" => Redo(l, d) = d
  /\ u /\ j.pc \in {"idle", "log"} =>
       (st = "TPC_WAIT" <=> PreparedIn(l, d) # NoRequest)
  /\ j.pc = "log" => /\ IsRequest(j.conn.msg) => st # "TPC_WAIT"
                     /\ j.conn.msg = COMMIT => /\ j.entry = LastEntry(l)
                                               /\ PreparedIn(l, d) # NoRequest
  /\ j.pc = "vote" => /\ IsRequest(j.conn.msg) /\ LastEntry(l) = j.conn.msg
                      /\ st # "TPC_WAIT"
  /\ j.pc = "apply" => /\ LastEntry(l) = COMMIT /\ j.conn.msg = COMMIT
                       /\ j.entry = LastRequest(l) /\ IsRequest(j.entry)
  /\ j.pc = "ack" => /\ LastEntry(l) \in {COMMIT, ABORT}
                     /\ j.conn.msg \in {COMMIT, ABORT}
  /\ \A n \in 1..Len(q) : q[n].msg = COMMIT =>
       /\ st = "TPC_WAIT" /\ j = Idle
       /\ \A m \in 1..(n - 1) : q[m].msg \notin {COMMIT, ABORT}

IInv == TypeOK /\ \A s \in Slaves :
          SlaveInv(up[s], state[s], log[s], store[s], wq[s], job[s])

(* The replica that the log and the store of a slave stand for. *)
Atomic == INSTANCE AtomicReplica WITH
            data <- [s \in Slaves |-> Redo(log[s], store[s])],
            prepared <- [s \in Slaves |-> PreparedIn(log[s], store[s])]

(* kvserver.c: "as soon as a server logs a COMMIT, even if it crashes      *)
(* immediately after (before the KVStore has a chance to write to disk),   *)
(* the COMMIT will be finished upon rebuild".  A decision takes effect in  *)
(* the step that logs it; crashes and restarts change nothing.             *)
ImplementsAtomicReplica == Atomic!Spec
=============================================================================

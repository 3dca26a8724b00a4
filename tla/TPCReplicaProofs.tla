-------------------------- MODULE TPCReplicaProofs --------------------------
(***************************************************************************)
(* Proofs that the slaves implement atomic replicas, for any slaves,       *)
(* threads of the master, keys and values, with any number of crashes.     *)
(***************************************************************************)
EXTENDS TPCReplica, TPCSlaveProofs

(* Every step keeps the types. *)
LEMMA NextType ==
  ASSUME SlaveTypeOK, [Next]_slaveVars
  PROVE  SlaveTypeOK'
  <1>1. CASE UNCHANGED slaveVars
    BY Zenon, <1>1 DEF slaveVars, SlaveTypeOK
  <1>2. QED
    BY Zenon, <1>1, StepType, CrashType, RestartType, ConnectType, GiveUpType
       DEF Next, Send

-----------------------------------------------------------------------------
(* What each step does to the invariant of a slave. *)

(* What a slave's invariant says at each step of its handler. *)
LEMMA AcceptInv ==
  ASSUME NEW st, NEW l \in Seq(Entry), NEW d, NEW q \in Seq(Conn), q # <<>>,
         SlaveInv(TRUE, st, l, d, q, Idle),
         Head(q).msg \in Entry, IsRequest(Head(q).msg) => st # "TPC_WAIT",
         NEW j, j = [pc |-> "log", conn |-> Head(q),
                     entry |-> IF Head(q).msg = COMMIT THEN LastEntry(l) ELSE NoRequest]
  PROVE  SlaveInv(TRUE, st, l, d, Tail(q), j)
  <1>1. /\ Idle.pc = "idle" /\ j.pc = "log" /\ j.conn = Head(q)
        /\ Head(q).msg = COMMIT => j.entry = LastEntry(l)
    BY Zenon DEF Idle
  <1>2. /\ Len(q) \in Nat /\ Len(q) >= 1 /\ Head(q) = q[1] /\ Len(Tail(q)) = Len(q) - 1
        /\ \A n \in 1..Len(Tail(q)) : Tail(q)[n] = q[n + 1]
    OBVIOUS
  <1>3. /\ Redo(l, d) = d
        /\ st = "TPC_WAIT" <=> PreparedIn(l, d) # NoRequest
        /\ \A n \in 1..Len(q) : q[n].msg = COMMIT =>
             /\ st = "TPC_WAIT"
             /\ \A m \in 1..(n - 1) : q[m].msg \notin {COMMIT, ABORT}
    BY Zenon, <1>1 DEF SlaveInv
  <1>4. ASSUME NEW n \in 1..Len(Tail(q)), Tail(q)[n].msg = COMMIT
        PROVE  FALSE
    <2>1. n + 1 \in 1..Len(q) /\ q[n + 1].msg = COMMIT /\ 1 \in 1..((n + 1) - 1)
      BY <1>2, <1>4
    <2>2. st = "TPC_WAIT" /\ q[1].msg \notin {COMMIT, ABORT}
      BY Zenon, <1>3, <2>1
    <2>3. QED
      BY Zenon, <1>2, <2>2, Messages DEF IsRequest
  <1>5. Head(q).msg = COMMIT => PreparedIn(l, d) # NoRequest
    BY <1>2, <1>3
  <1>6. QED
    BY Zenon, <1>1, <1>3, <1>4, <1>5 DEF SlaveInv

(* A read, or a request refused in TPC_WAIT. *)
LEMMA SkipInv ==
  ASSUME NEW st, NEW l \in Seq(Entry), NEW d, NEW q \in Seq(Conn), q # <<>>,
         SlaveInv(TRUE, st, l, d, q, Idle)
  PROVE  SlaveInv(TRUE, st, l, d, Tail(q), Idle)
  <1>1. /\ Len(q) \in Nat /\ Len(Tail(q)) = Len(q) - 1
        /\ \A n \in 1..Len(Tail(q)) : Tail(q)[n] = q[n + 1]
    OBVIOUS
  <1>2. \A n \in 1..Len(q) : q[n].msg = COMMIT =>
          /\ st = "TPC_WAIT"
          /\ \A m \in 1..(n - 1) : q[m].msg \notin {COMMIT, ABORT}
    BY Zenon DEF SlaveInv
  <1>3. ASSUME NEW n \in 1..Len(Tail(q)), Tail(q)[n].msg = COMMIT
        PROVE  /\ st = "TPC_WAIT"
               /\ \A m \in 1..(n - 1) : Tail(q)[m].msg \notin {COMMIT, ABORT}
    <2>1. n + 1 \in 1..Len(q) /\ q[n + 1].msg = COMMIT
      BY <1>1, <1>3
    <2>2. \A m \in 1..(n - 1) : /\ m + 1 \in 1..((n + 1) - 1)
                                /\ m \in 1..Len(Tail(q))
      BY <1>1
    <2>3. QED
      BY Zenon, <1>1, <1>2, <2>1, <2>2
  <1>4. /\ Idle.pc = "idle" /\ Redo(l, d) = d
        /\ st = "TPC_WAIT" <=> PreparedIn(l, d) # NoRequest
    BY Zenon DEF SlaveInv, Idle
  <1>5. QED
    BY Zenon, <1>3, <1>4 DEF SlaveInv

(* The message is logged. *)
LEMMA LogInv ==
  ASSUME NEW st, NEW l \in Seq(Entry), NEW d \in Store, NEW q, NEW j \in Job,
         j.pc = "log", SlaveInv(TRUE, st, l, d, q, j), NEW k \in Job,
         k.pc = AfterLog(j.conn.msg), k.conn = j.conn, k.entry = j.entry
  PROVE  SlaveInv(TRUE, st, Append(l, j.conn.msg), d, q, k)
  <1> DEFINE m == j.conn.msg
             a == Append(l, m)
  <1>1. m \in Entry /\ j # Idle /\ k # Idle
    <2>1. j.pc # "idle" /\ k.pc # "idle"
      BY Zenon DEF AfterLog
    <2>2. QED
      BY Zenon, <2>1, JobType
  <1>2. LastEntry(a) = m
    BY Zenon, <1>1, LastAppend
  <1>3. \A n \in 1..Len(q) : q[n].msg # COMMIT
    BY Zenon, <1>1 DEF SlaveInv
  <1>4. CASE m \in Request
    <2>1. k.pc = "vote"
      BY Zenon, <1>4 DEF AfterLog, IsRequest
    <2>2. Redo(a, d) = d
      BY Zenon, <1>2, <1>4, Messages DEF Redo
    <2>3. QED
      BY Zenon, <1>2, <1>3, <1>4, <2>1, <2>2 DEF SlaveInv, IsRequest
  <1>5. CASE m = COMMIT
    <2>1. k.pc = "apply"
      BY Zenon, <1>5, Messages DEF AfterLog, IsRequest
    <2>2. j.entry = LastEntry(l) /\ IsRequest(LastEntry(l))
      BY Zenon, <1>5 DEF SlaveInv, PreparedIn
    <2>3. LastRequest(a) = LastEntry(l)
      BY Zenon, <1>5, <2>2, CommitAfterRequest
    <2>4. QED
      BY Zenon, <1>2, <1>3, <1>5, <2>1, <2>2, <2>3 DEF SlaveInv
  <1>6. CASE m = ABORT
    <2>1. k.pc = "ack"
      BY Zenon, <1>6, Messages DEF AfterLog, IsRequest
    <2>2. Redo(a, d) = d
      BY Zenon, <1>2, <1>6, Messages DEF Redo
    <2>3. QED
      BY Zenon, <1>2, <1>3, <1>6, <2>1, <2>2 DEF SlaveInv
  <1>7. QED
    BY Zenon, <1>1, <1>4, <1>5, <1>6, Messages

(* The vote. *)
LEMMA VoteInv ==
  ASSUME NEW st, NEW l \in Seq(Entry), NEW d \in Store, NEW q, NEW j \in Job,
         j.pc = "vote", SlaveInv(TRUE, st, l, d, q, j),
         NEW new, new = IF Check(d, j.conn.msg) THEN "TPC_WAIT" ELSE "TPC_READY"
  PROVE  SlaveInv(TRUE, new, l, d, q, Idle)
  <1>1. j # Idle /\ Idle.pc = "idle" /\ j.conn.msg \in Entry
    BY Zenon, JobType DEF Idle
  <1>2. Redo(l, d) = d /\ IsRequest(j.conn.msg) /\ LastEntry(l) = j.conn.msg
        /\ \A n \in 1..Len(q) : q[n].msg # COMMIT
    BY Zenon, <1>1 DEF SlaveInv
  <1>3. new = "TPC_WAIT" <=> PreparedIn(l, d) # NoRequest
    BY Zenon, <1>1, <1>2, Messages DEF PreparedIn
  <1>4. QED
    BY Zenon, <1>1, <1>2, <1>3 DEF SlaveInv

(* The COMMIT is applied. *)
LEMMA ApplyInv ==
  ASSUME NEW st, NEW l \in Seq(Entry), NEW d \in Store, NEW q, NEW j \in Job,
         j.pc = "apply", SlaveInv(TRUE, st, l, d, q, j), NEW k \in Job,
         k.pc = "ack", k.conn = j.conn
  PROVE  /\ j.entry # NoRequest /\ Apply(d, j.entry) = Redo(l, d)
         /\ SlaveInv(TRUE, st, l, Apply(d, j.entry), q, k)
  <1>1. j # Idle /\ k # Idle
    BY Zenon, JobType
  <1>2. /\ LastEntry(l) = COMMIT /\ j.entry = LastRequest(l) /\ IsRequest(j.entry)
        /\ \A n \in 1..Len(q) : q[n].msg # COMMIT
    BY Zenon, <1>1 DEF SlaveInv
  <1>3. j.entry # NoRequest /\ Apply(d, j.entry) = Redo(l, d)
    BY Zenon, <1>2, Messages DEF Redo, IsRequest
  <1>4. Redo(l, Redo(l, d)) = Redo(l, d)
    BY Zenon, RedoTwice
  <1>5. QED
    BY Zenon, <1>2, <1>3, <1>4 DEF SlaveInv

(* The ACK. *)
LEMMA AckInv ==
  ASSUME NEW st, NEW l \in Seq(Entry), NEW d \in Store, NEW q, NEW j \in Job,
         j.pc = "ack", SlaveInv(TRUE, st, l, d, q, j)
  PROVE  SlaveInv(TRUE, "TPC_READY", l, d, q, Idle)
  <1>1. j # Idle /\ Idle.pc = "idle"
    BY Zenon, JobType DEF Idle
  <1>2. /\ Redo(l, d) = d /\ LastEntry(l) \in {COMMIT, ABORT}
        /\ \A n \in 1..Len(q) : q[n].msg # COMMIT
    BY Zenon, <1>1 DEF SlaveInv
  <1>3. PreparedIn(l, d) = NoRequest
    BY Zenon, <1>2, Messages DEF PreparedIn, IsRequest
  <1>4. QED
    BY Zenon, <1>1, <1>2, <1>3 DEF SlaveInv

(* A crash forgets the handler and the queue; a restart recovers.  Without *)
(* rebuild neither would hold.                                             *)
LEMMA CrashInv ==
  ASSUME NEW st, NEW l, NEW d
  PROVE  SlaveInv(FALSE, st, l, d, <<>>, Idle)
  BY DEF SlaveInv, Idle

(* tpclog_iterate re-establishes the invariant from the log. *)
LEMMA RestartInv ==
  ASSUME NEW l \in Seq(Entry), NEW d \in Store, NEW q, NEW st, NEW j,
         SlaveInv(FALSE, st, l, d, q, j)
  PROVE  SlaveInv(TRUE, RebuiltState(l, d), l, Redo(l, d), q, j)
  <1>1. j = Idle /\ q = <<>> /\ Idle.pc = "idle"
    BY Zenon DEF SlaveInv, Idle
  <1>2. Redo(l, Redo(l, d)) = Redo(l, d)
    BY Zenon, RedoTwice
  <1>3. RebuiltState(l, d) = "TPC_WAIT" <=> PreparedIn(l, Redo(l, d)) # NoRequest
    <2>1. CASE IsRequest(LastEntry(l))
      <3>1. LastEntry(l) # NoRequest /\ LastEntry(l) # COMMIT
        BY Zenon, <2>1, Messages DEF IsRequest
      <3>2. Redo(l, d) = d
        BY Zenon, <3>1 DEF Redo
      <3>3. QED
        BY Zenon, <2>1, <3>1, <3>2 DEF RebuiltState, PreparedIn
    <2>2. CASE ~IsRequest(LastEntry(l))
      BY Zenon, <2>2 DEF RebuiltState, PreparedIn
    <2>3. QED
      BY Zenon, <2>1, <2>2
  <1>4. QED
    BY <1>1, <1>2, <1>3 DEF SlaveInv

(* A message arrives. *)
LEMMA SendInv ==
  ASSUME NEW st, NEW l, NEW d, NEW q \in Seq(Conn), NEW j \in Job \cup {Idle},
         SlaveInv(TRUE, st, l, d, q, j), NEW p \in Conn,
         p.msg = COMMIT => /\ st = "TPC_WAIT" /\ j = Idle
                           /\ \A n \in 1..Len(q) : q[n].msg \notin {COMMIT, ABORT}
  PROVE  SlaveInv(TRUE, st, l, d, Append(q, p), j)
  <1> DEFINE a == Append(q, p)
  <1>1. /\ Len(q) \in Nat /\ Len(a) = Len(q) + 1 /\ a[Len(q) + 1] = p
        /\ \A n \in 1..Len(q) : a[n] = q[n]
    OBVIOUS
  <1> HIDE DEF a
  <1>2. \A n \in 1..Len(q) : q[n].msg = COMMIT =>
          /\ st = "TPC_WAIT" /\ j = Idle
          /\ \A m \in 1..(n - 1) : q[m].msg \notin {COMMIT, ABORT}
    BY Zenon DEF SlaveInv
  <1>3. ASSUME NEW n \in 1..Len(a), a[n].msg = COMMIT
        PROVE  /\ st = "TPC_WAIT" /\ j = Idle
               /\ \A m \in 1..(n - 1) : a[m].msg \notin {COMMIT, ABORT}
    <2>1. n \in 1..Len(q) \/ n = Len(q) + 1
      BY <1>1
    <2>2. \A m \in 1..(n - 1) : m \in 1..Len(q) /\ a[m] = q[m]
      BY <1>1
    <2>3. CASE n \in 1..Len(q)
      BY Zenon, <1>1, <1>2, <1>3, <2>2, <2>3
    <2>4. CASE n = Len(q) + 1
      BY Zenon, <1>1, <1>3, <2>2, <2>4
    <2>5. QED
      BY Zenon, <2>1, <2>3, <2>4
  <1>4. QED
    BY Zenon, <1>3 DEF SlaveInv, a

(* A client gives up: the messages stay the same. *)
LEMMA GiveUpInv ==
  ASSUME NEW u, NEW st, NEW l, NEW d, NEW q \in Seq(Conn), NEW j \in Job \cup {Idle},
         SlaveInv(u, st, l, d, q, j), NEW c, NEW p, NEW k,
         p = [n \in 1..Len(q) |-> Orphan(q[n], c)], k = OrphanJob(j, c)
  PROVE  SlaveInv(u, st, l, d, p, k)
  <1>1. /\ j = Idle <=> k = Idle
        /\ k.pc = j.pc /\ Idle.pc = "idle"
        /\ j # Idle => k.entry = j.entry /\ k.conn.msg = j.conn.msg
    BY Zenon, Orphans DEF Idle
  <1>2. /\ Len(q) \in Nat /\ Len(p) = Len(q)
        /\ \A n \in 1..Len(q) : q[n] \in Conn /\ p[n] = Orphan(q[n], c)
    OBVIOUS
  <1>3. \A n \in 1..Len(q) : p[n].msg = q[n].msg
    BY Zenon, <1>2, Orphans
  <1>4. q = <<>> => p = <<>>
    BY <1>2
  <1>5. \A n \in 1..Len(p) : p[n].msg = COMMIT =>
          /\ st = "TPC_WAIT" /\ k = Idle
          /\ \A m \in 1..(n - 1) : p[m].msg \notin {COMMIT, ABORT}
    <2> SUFFICES ASSUME NEW n \in 1..Len(p), p[n].msg = COMMIT
                 PROVE  /\ st = "TPC_WAIT" /\ k = Idle
                        /\ \A m \in 1..(n - 1) : p[m].msg \notin {COMMIT, ABORT}
      BY Zenon
    <2>1. n \in 1..Len(q) /\ q[n].msg = COMMIT
      BY Zenon, <1>2, <1>3
    <2>2. \A m \in 1..(n - 1) : m \in 1..Len(q)
      BY <1>2
    <2>3. /\ st = "TPC_WAIT" /\ j = Idle
          /\ \A m \in 1..(n - 1) : q[m].msg \notin {COMMIT, ABORT}
      BY Zenon, <2>1 DEF SlaveInv
    <2>4. QED
      BY Zenon, <1>1, <1>3, <2>2, <2>3
  <1>6. QED
    BY Zenon, <1>1, <1>4, <1>5 DEF SlaveInv

-----------------------------------------------------------------------------
(* The invariant of the slave s, now and in the next state. *)
InvOf(s) == SlaveInv(up[s], state[s], log[s], store[s], wq[s], job[s])

(* A step of s leaves the other slaves alone. *)
OnlySlave(s) ==
  \A t \in Slaves \ {s} :
    /\ up'[t] = up[t] /\ state'[t] = state[t] /\ log'[t] = log[t]
    /\ store'[t] = store[t] /\ wq'[t] = wq[t] /\ job'[t] = job[t]

(* A step of one slave leaves the others alone. *)
LEMMA Alone ==
  ASSUME TypeOK, NEW s \in Slaves,
         \/ SlaveStep(s) \/ Crash(s) \/ Restart(s)
         \/ \E c \in Clients : GiveUp(s, c) \/ \E m \in Message : Send(s, c, m)
  PROVE  OnlySlave(s)
  <1>1. CASE HandleGet(s) \/ RefuseInWait(s) \/ Accept(s)
    BY Zenon, <1>1
       DEF TypeOK, SlaveTypeOK, HandleGet, RefuseInWait, Accept, Pop, OnlySlave
  <1>2. CASE Log(s) \/ Vote(s)
    BY Zenon, <1>2 DEF TypeOK, SlaveTypeOK, Log, Vote, OnlySlave
  <1>3. CASE ApplyCommit(s) \/ Ack(s)
    BY Zenon, <1>3 DEF TypeOK, SlaveTypeOK, ApplyCommit, Ack, OnlySlave
  <1>4. CASE Crash(s)
    BY Zenon, <1>4 DEF TypeOK, SlaveTypeOK, Crash, OnlySlave
  <1>5. CASE Restart(s)
    BY Zenon, <1>5 DEF TypeOK, SlaveTypeOK, Restart, OnlySlave
  <1>6. ASSUME NEW c \in Clients, GiveUp(s, c) PROVE OnlySlave(s)
    BY Zenon, <1>6 DEF TypeOK, SlaveTypeOK, GiveUp, OnlySlave
  <1>7. ASSUME NEW c \in Clients, NEW m \in Message, Send(s, c, m) PROVE OnlySlave(s)
    BY Zenon, <1>7 DEF TypeOK, SlaveTypeOK, Send, Connect, OnlySlave
  <1>8. QED
    BY Zenon, <1>1, <1>2, <1>3, <1>4, <1>5, <1>6, <1>7 DEF SlaveStep

(* The steps of the handler preserve the invariant of their slave. *)
LEMMA HandlerInv ==
  ASSUME IInv, NEW s \in Slaves, SlaveStep(s)
  PROVE  InvOf(s)'
  <1> DEFINE st == state[s]
             l == log[s]
             d == store[s]
             q == wq[s]
             j == job[s]
  <1>1. /\ up[s] /\ up'[s] /\ up[s] = TRUE /\ up'[s] = TRUE
    <2>1. up[s] \in BOOLEAN
      BY Zenon DEF IInv, TypeOK, SlaveTypeOK
    <2>2. up[s] /\ up' = up
      BY Zenon
         DEF SlaveStep, HandleGet, RefuseInWait, Accept, Pop, Log, Vote,
             ApplyCommit, Ack
    <2>3. QED
      BY Zenon, <2>1, <2>2
  <1>2. /\ l \in Seq(Entry) /\ d \in Store /\ q \in Seq(Conn)
        /\ j \in Job \cup {Idle} /\ SlaveInv(TRUE, st, l, d, q, j)
    BY Zenon, <1>1 DEF IInv, TypeOK, SlaveTypeOK
  <1>3. CASE HandleGet(s) \/ RefuseInWait(s)
    <2>1. /\ j = Idle /\ q # <<>> /\ wq'[s] = Tail(q) /\ job'[s] = Idle
          /\ state'[s] = st /\ log'[s] = l /\ store'[s] = d
      BY Zenon, <1>3
         DEF IInv, TypeOK, SlaveTypeOK, HandleGet, RefuseInWait, Pop
    <2> HIDE DEF st, l, d, q, j
    <2>2. SlaveInv(TRUE, st, l, d, Tail(q), Idle)
      BY Zenon, <1>2, <2>1, SkipInv
    <2>3. QED
      BY Zenon, <1>1, <2>1, <2>2 DEF InvOf
  <1>4. CASE Accept(s)
    <2> DEFINE k == [pc |-> "log", conn |-> Head(q),
                     entry |-> IF Head(q).msg = COMMIT THEN LastEntry(l) ELSE NoRequest]
    <2>1. /\ j = Idle /\ q # <<>> /\ wq'[s] = Tail(q) /\ job'[s] = k
          /\ state'[s] = st /\ log'[s] = l /\ store'[s] = d
          /\ Head(q).msg \in Entry
          /\ IsRequest(Head(q).msg) => st # "TPC_WAIT"
      BY Zenon, <1>4
         DEF IInv, TypeOK, SlaveTypeOK, Accept, Pop, Refuses, Waiting
    <2> HIDE DEF st, l, d, q, j
    <2>2. SlaveInv(TRUE, st, l, d, Tail(q), k)
      BY Zenon, <1>2, <2>1, AcceptInv
    <2>3. QED
      BY Zenon, <1>1, <2>1, <2>2 DEF InvOf
  <1>5. CASE Log(s)
    <2> DEFINE k == [j EXCEPT !.pc = AfterLog(j.conn.msg)]
    <2>1. j.pc = "log" /\ j \in Job
      BY Zenon, <1>2, <1>5, JobType DEF Log
    <2>2. /\ k \in Job /\ k.pc = AfterLog(j.conn.msg)
          /\ k.conn = j.conn /\ k.entry = j.entry
      BY Zenon, <2>1 DEF Job, AfterLog
    <2>3. /\ log'[s] = Append(l, j.conn.msg) /\ job'[s] = k
          /\ state'[s] = st /\ wq'[s] = q /\ store'[s] = d
      BY Zenon, <1>5 DEF IInv, TypeOK, SlaveTypeOK, Log
    <2> HIDE DEF st, l, d, q, j, k
    <2>4. SlaveInv(TRUE, st, Append(l, j.conn.msg), d, q, k)
      BY Zenon, <1>2, <2>1, <2>2, LogInv
    <2>5. QED
      BY Zenon, <1>1, <2>3, <2>4 DEF InvOf
  <1>6. CASE Vote(s)
    <2> DEFINE new == IF Check(d, j.conn.msg) THEN "TPC_WAIT" ELSE "TPC_READY"
    <2>1. j.pc = "vote" /\ j \in Job
      BY Zenon, <1>2, <1>6, JobType DEF Vote
    <2>2. /\ state'[s] = new /\ job'[s] = Idle
          /\ log'[s] = l /\ wq'[s] = q /\ store'[s] = d
      BY Zenon, <1>6 DEF IInv, TypeOK, SlaveTypeOK, Vote
    <2> HIDE DEF st, l, d, q, j
    <2>3. SlaveInv(TRUE, new, l, d, q, Idle)
      BY Zenon, <1>2, <2>1, VoteInv
    <2>4. QED
      BY Zenon, <1>1, <2>2, <2>3 DEF InvOf
  <1>7. CASE ApplyCommit(s)
    <2> DEFINE k == [j EXCEPT !.pc = "ack"]
    <2>1. j.pc = "apply" /\ j \in Job
      BY Zenon, <1>2, <1>7, JobType DEF ApplyCommit
    <2>2. k \in Job /\ k.pc = "ack" /\ k.conn = j.conn
      BY Zenon, <2>1 DEF Job
    <2>3. /\ store'[s] = IF j.entry = NoRequest THEN d ELSE Apply(d, j.entry)
          /\ job'[s] = k /\ state'[s] = st /\ wq'[s] = q /\ log'[s] = l
      BY Zenon, <1>7 DEF IInv, TypeOK, SlaveTypeOK, ApplyCommit
    <2> HIDE DEF st, l, d, q, j, k
    <2>4. j.entry # NoRequest /\ SlaveInv(TRUE, st, l, Apply(d, j.entry), q, k)
      BY Zenon, <1>2, <2>1, <2>2, ApplyInv
    <2>5. QED
      BY Zenon, <1>1, <2>3, <2>4 DEF InvOf
  <1>8. CASE Ack(s)
    <2>1. j.pc = "ack" /\ j \in Job
      BY Zenon, <1>2, <1>8, JobType DEF Ack
    <2>2. /\ state'[s] = "TPC_READY" /\ job'[s] = Idle
          /\ log'[s] = l /\ wq'[s] = q /\ store'[s] = d
      BY Zenon, <1>8 DEF IInv, TypeOK, SlaveTypeOK, Ack
    <2> HIDE DEF st, l, d, q, j
    <2>3. SlaveInv(TRUE, "TPC_READY", l, d, q, Idle)
      BY Zenon, <1>2, <2>1, AckInv
    <2>4. QED
      BY Zenon, <1>1, <2>2, <2>3 DEF InvOf
  <1>9. QED
    BY Zenon, <1>3, <1>4, <1>5, <1>6, <1>7, <1>8 DEF SlaveStep

(* So do crashes, restarts, and what the clients do. *)
LEMMA OutsideInv ==
  ASSUME IInv, Rebuilds, NEW s \in Slaves,
         \/ Crash(s) \/ Restart(s)
         \/ \E c \in Clients : GiveUp(s, c) \/ \E m \in Message : Send(s, c, m)
  PROVE  InvOf(s)'
  <1> DEFINE st == state[s]
             l == log[s]
             d == store[s]
             q == wq[s]
             j == job[s]
  <1>1. /\ l \in Seq(Entry) /\ d \in Store /\ q \in Seq(Conn)
        /\ j \in Job \cup {Idle} /\ SlaveInv(up[s], st, l, d, q, j)
        /\ up[s] \in BOOLEAN
    BY Zenon DEF IInv, TypeOK, SlaveTypeOK
  <1>2. CASE Crash(s)
    <2>1. up'[s] = FALSE /\ wq'[s] = <<>> /\ job'[s] = Idle
      BY Zenon, <1>2 DEF IInv, TypeOK, SlaveTypeOK, Crash
    <2>2. QED
      BY Zenon, <2>1, CrashInv DEF InvOf
  <1>3. CASE Restart(s)
    <2>1. /\ up[s] = FALSE /\ up'[s] = TRUE /\ state'[s] = RebuiltState(l, d)
          /\ store'[s] = Redo(l, d) /\ log'[s] = l /\ wq'[s] = q /\ job'[s] = j
      BY Zenon, <1>3 DEF IInv, TypeOK, SlaveTypeOK, Restart
    <2> HIDE DEF st, l, d, q, j
    <2>2. SlaveInv(TRUE, RebuiltState(l, d), l, Redo(l, d), q, j)
      BY Zenon, <1>1, <2>1, RestartInv
    <2>3. QED
      BY Zenon, <2>1, <2>2 DEF InvOf
  <1>4. ASSUME NEW c \in Clients, GiveUp(s, c) PROVE InvOf(s)'
    <2> DEFINE p == [n \in 1..Len(q) |-> Orphan(q[n], c)]
               k == OrphanJob(j, c)
    <2>1. /\ up'[s] = up[s] /\ state'[s] = st /\ log'[s] = l /\ store'[s] = d
          /\ wq'[s] = p /\ job'[s] = k
      BY Zenon, <1>4 DEF IInv, TypeOK, SlaveTypeOK, GiveUp
    <2> HIDE DEF st, l, d, q, j
    <2>2. SlaveInv(up[s], st, l, d, p, k)
      BY Zenon, <1>1, GiveUpInv
    <2>3. QED
      BY Zenon, <2>1, <2>2 DEF InvOf
  <1>5. ASSUME NEW c \in Clients, NEW m \in Message, Send(s, c, m) PROVE InvOf(s)'
    <2> DEFINE p == [msg |-> m, owner |-> c]
    <2>1. /\ up[s] = TRUE /\ up'[s] = up[s] /\ state'[s] = st /\ log'[s] = l
          /\ store'[s] = d /\ wq'[s] = Append(q, p) /\ job'[s] = j
      BY Zenon, <1>5 DEF IInv, TypeOK, SlaveTypeOK, Send, Connect
    <2>2. p \in Conn /\ p.msg = m
      BY Zenon DEF Conn
    <2>3. ASSUME m = COMMIT
          PROVE  /\ st = "TPC_WAIT" /\ j = Idle
                 /\ \A n \in 1..Len(q) : q[n].msg \notin {COMMIT, ABORT}
      <3>1. /\ st = "TPC_WAIT"
            /\ \A x \in Pending(s) : x.msg \notin {COMMIT, ABORT}
        BY Zenon, <1>5, <2>3 DEF Send, Waiting, DecisionPending
      <3>2. j # Idle => j.conn.msg \notin {COMMIT, ABORT}
        BY Zenon, <3>1 DEF Pending
      <3>3. \A n \in 1..Len(q) : q[n].msg \notin {COMMIT, ABORT}
        BY Zenon, <3>1 DEF Pending
      <3> HIDE DEF st, l, d, q, j
      <3>4. ASSUME j # Idle PROVE FALSE
        <4>1. /\ j.pc \in {"log", "vote", "apply", "ack"}
              /\ IsRequest(j.conn.msg)
          BY Zenon, <1>1, <3>2, <3>4, JobType, Messages DEF IsRequest
        <4>2. QED
          BY Zenon, <1>1, <3>1, <3>2, <3>4, <4>1 DEF SlaveInv
      <3>5. QED
        BY Zenon, <3>1, <3>3, <3>4
    <2> HIDE DEF st, l, d, q, j, p
    <2>4. SlaveInv(TRUE, st, l, d, Append(q, p), j)
      BY Zenon, <1>1, <2>1, <2>2, <2>3, SendInv
    <2>5. QED
      BY Zenon, <2>1, <2>4 DEF InvOf
  <1>6. QED
    BY Zenon, <1>2, <1>3, <1>4, <1>5

(* Every step keeps the invariant. *)
LEMMA InductiveStep ==
  ASSUME IInv, Rebuilds, [Next]_slaveVars
  PROVE  IInv'
  <1>1. TypeOK'
    BY Zenon, NextType DEF IInv, TypeOK
  <1>2. CASE UNCHANGED slaveVars
    BY Zenon, <1>1, <1>2 DEF IInv, slaveVars
  <1>3. CASE Next
    <2>1. PICK s \in Slaves :
            \/ SlaveStep(s) \/ Crash(s) \/ Restart(s)
            \/ \E c \in Clients : GiveUp(s, c) \/ \E m \in Message : Send(s, c, m)
      BY Zenon, <1>3 DEF Next
    <2>2. InvOf(s)'
      BY Zenon, <2>1, HandlerInv, OutsideInv
    <2>3. OnlySlave(s)
      BY Zenon, <2>1, Alone DEF IInv
    <2>4. ASSUME NEW t \in Slaves PROVE InvOf(t)'
      <3>1. CASE t = s
        BY Zenon, <2>2, <3>1
      <3>2. CASE t # s
        BY Zenon, <2>3, <3>2 DEF InvOf, OnlySlave, IInv
      <3>3. QED
        BY Zenon, <3>1, <3>2
    <2>5. QED
      BY Zenon, <1>1, <2>4 DEF IInv, InvOf
  <1>4. QED
    BY Zenon, <1>2, <1>3

-----------------------------------------------------------------------------
(* The invariant holds at the start. *)
LEMMA InitInv == Init => IInv
  <1> SUFFICES ASSUME Init PROVE IInv
    BY Zenon
  <1>1. TypeOK
    BY ReplyTypes DEF Init, SlaveInit, TypeOK, SlaveTypeOK, Store, EmptyStore
  <1>2. LastEntry(<<>>) = NoRequest
    BY Zenon DEF LastEntry
  <1>3. SlaveInv(TRUE, "TPC_INIT", <<>>, EmptyStore, <<>>, Idle)
    BY <1>2, Messages DEF SlaveInv, Idle, Redo, PreparedIn, IsRequest
  <1>4. QED
    BY Zenon, <1>1, <1>3 DEF IInv, Init, SlaveInit

(* The inductive invariant holds in every reachable state of a slave whose *)
(* restart rebuilds its state (kvserver_rebuild_state).                    *)
THEOREM Invariance ==
  ASSUME Rebuilds
  PROVE  Spec => []IInv
  <1>1. IInv /\ [Next]_slaveVars => IInv'
    BY Zenon, InductiveStep
  <1>2. QED
    BY <1>1, InitInv, PTL DEF Spec

(* Messages, log entries, jobs and replies keep their shape. *)
THEOREM TypeCorrect ==
  ASSUME Rebuilds
  PROVE  Spec => []TypeOK
  <1>1. IInv => TypeOK
    BY Zenon DEF IInv
  <1>2. QED
    BY <1>1, Invariance, PTL

(* server->state agrees with the log also after a crash: what              *)
(* kvserver_rebuild_state computes is what the handlers had established.   *)
THEOREM RebuildExact ==
  ASSUME Rebuilds
  PROVE  Spec => []StateMatchesLog
  <1>1. IInv => StateMatchesLog
    <2> SUFFICES ASSUME IInv, NEW s \in Slaves, up[s], job[s] = Idle
                 PROVE  Waiting(s) <=> PreparedIn(log[s], store[s]) # NoRequest
      BY Zenon DEF StateMatchesLog
    <2>1. job[s].pc = "idle"
      BY DEF Idle
    <2>2. QED
      BY Zenon, <2>1 DEF IInv, SlaveInv, Waiting
  <1>2. QED
    BY <1>1, Invariance, PTL

(* No COMMIT of a log is left unapplied but the one being handled. *)
THEOREM EveryCommitApplied ==
  ASSUME Rebuilds
  PROVE  Spec => []CommitsApplied
  <1>1. IInv => CommitsApplied
    BY Zenon DEF IInv, SlaveInv, CommitsApplied
  <1>2. QED
    BY <1>1, Invariance, PTL

(* A COMMIT finds the request that was voted for, also when a crash, a     *)
(* refused request or an abandoned connection came between.                *)
THEOREM CommitsFindRequests ==
  ASSUME Rebuilds
  PROVE  Spec => []CommitFindsRequest
  <1>1. IInv => CommitFindsRequest
    <2> SUFFICES ASSUME IInv, NEW s \in Slaves, NEW p \in Pending(s), p.msg = COMMIT
                 PROVE  \/ PreparedIn(log[s], store[s]) # NoRequest
                        \/ job[s].pc \in {"apply", "ack"}
      BY Zenon DEF CommitFindsRequest
    <2>1. /\ SlaveInv(up[s], state[s], log[s], store[s], wq[s], job[s])
          /\ job[s] \in Job \cup {Idle} /\ up[s] \in BOOLEAN /\ wq[s] \in Seq(Conn)
      BY Zenon DEF IInv, TypeOK, SlaveTypeOK
    <2>2. CASE \E n \in 1..Len(wq[s]) : p = wq[s][n]
      <3>1. state[s] = "TPC_WAIT" /\ job[s] = Idle /\ Idle.pc = "idle"
        BY Zenon, <2>1, <2>2 DEF SlaveInv, Idle
      <3>2. up[s]
        BY <2>1, <2>2 DEF SlaveInv
      <3>3. QED
        BY Zenon, <2>1, <3>1, <3>2 DEF SlaveInv
    <2>3. CASE job[s] # Idle /\ p = job[s].conn
      <3>1. job[s].pc \in {"log", "vote", "apply", "ack"}
        BY Zenon, <2>1, <2>3, JobType
      <3>2. job[s].pc # "vote"
        BY Zenon, <2>1, <2>3, Messages DEF SlaveInv, IsRequest
      <3>3. job[s].pc = "log" => PreparedIn(log[s], store[s]) # NoRequest
        BY Zenon, <2>1, <2>3 DEF SlaveInv
      <3>4. QED
        BY Zenon, <3>1, <3>2, <3>3
    <2>4. QED
      BY Zenon, <2>2, <2>3 DEF Pending
  <1>2. QED
    BY <1>1, Invariance, PTL

-----------------------------------------------------------------------------
(* The abstract replica is written with the same requests. *)
LEMMA SameRequests ==
  /\ Atomic!Request = Request /\ Atomic!EmptyStore = EmptyStore
  /\ \A st, r : Atomic!Check(st, r) = Check(st, r)
  /\ \A st, r : Atomic!Apply(st, r) = Apply(st, r)
  <1>1. Atomic!Request = Request /\ Atomic!EmptyStore = EmptyStore
    BY Zenon
       DEF Atomic!Request, Atomic!PutReq, Atomic!DelReq, Request, PutReq,
           DelReq, Atomic!EmptyStore, EmptyStore
  <1>2. \A st, r : Atomic!Check(st, r) = Check(st, r)
    BY Zenon DEF Atomic!Check, Check
  <1>3. \A st, r : Atomic!Apply(st, r) = Apply(st, r)
    BY Zenon, <1>2 DEF Atomic!Apply, Apply
  <1>4. QED
    BY Zenon, <1>1, <1>2, <1>3

(* Recovery does not change what a replica has prepared. *)
LEMMA RedoKeepsPrepared ==
  ASSUME NEW l, NEW d
  PROVE  PreparedIn(l, Redo(l, d)) = PreparedIn(l, d)
  <1>1. CASE LastEntry(l) = COMMIT
    BY Zenon, <1>1, Messages DEF PreparedIn, IsRequest
  <1>2. CASE LastEntry(l) # COMMIT
    BY Zenon, <1>2 DEF Redo
  <1>3. QED
    BY Zenon, <1>1, <1>2

(* What logging a message does to the replica: a request may prepare it, a *)
(* COMMIT commits it, an ABORT aborts it or changes nothing.               *)
LogEffect(l, d, a) ==
  \/ Redo(a, d) = Redo(l, d) /\ PreparedIn(a, d) = PreparedIn(l, d)
  \/ /\ PreparedIn(l, d) = NoRequest /\ Redo(a, d) = Redo(l, d)
     /\ PreparedIn(a, d) \in Request /\ Check(Redo(l, d), PreparedIn(a, d))
  \/ /\ PreparedIn(l, d) # NoRequest /\ PreparedIn(a, d) = NoRequest
     /\ Redo(a, d) = Apply(Redo(l, d), PreparedIn(l, d))
  \/ /\ PreparedIn(l, d) # NoRequest /\ PreparedIn(a, d) = NoRequest
     /\ Redo(a, d) = Redo(l, d)

(* Logging a decision is what commits or aborts the transaction. *)
LEMMA LogReplica ==
  ASSUME NEW st, NEW l \in Seq(Entry), NEW d \in Store, NEW q, NEW j \in Job,
         j.pc = "log", SlaveInv(TRUE, st, l, d, q, j),
         NEW a, a = Append(l, j.conn.msg)
  PROVE  LogEffect(l, d, a)
  <1> DEFINE m == j.conn.msg
  <1>1. m \in Entry /\ LastEntry(a) = m
    <2>1. m \in Entry
      BY Zenon, JobType
    <2>2. QED
      BY Zenon, <2>1, LastAppend
  <1>2. Redo(l, d) = d /\ (st = "TPC_WAIT" <=> PreparedIn(l, d) # NoRequest)
    BY Zenon DEF SlaveInv
  <1>3. CASE m \in Request
    <2>1. PreparedIn(l, d) = NoRequest
      BY Zenon, <1>2, <1>3 DEF SlaveInv, IsRequest
    <2>2. Redo(a, d) = d
      BY Zenon, <1>1, <1>3, Messages DEF Redo
    <2>3. PreparedIn(a, d) = IF Check(d, m) THEN m ELSE NoRequest
      BY Zenon, <1>1, <1>3 DEF PreparedIn, IsRequest
    <2>4. QED
      BY Zenon, <1>2, <1>3, <2>1, <2>2, <2>3 DEF LogEffect
  <1>4. CASE m = COMMIT
    <2>1. PreparedIn(l, d) # NoRequest
      BY Zenon, <1>4 DEF SlaveInv
    <2>2. PreparedIn(l, d) = LastEntry(l) /\ IsRequest(LastEntry(l))
      BY Zenon, <2>1 DEF PreparedIn
    <2>3. LastRequest(a) = LastEntry(l)
      BY Zenon, <1>4, <2>2, CommitAfterRequest
    <2>4. Redo(a, d) = Apply(d, LastEntry(l))
      BY Zenon, <1>1, <1>4, <2>1, <2>2, <2>3 DEF Redo
    <2>5. PreparedIn(a, d) = NoRequest
      BY Zenon, <1>1, <1>4, Messages DEF PreparedIn, IsRequest
    <2>6. QED
      BY Zenon, <1>2, <2>1, <2>2, <2>4, <2>5 DEF LogEffect
  <1>5. CASE m = ABORT
    <2>1. Redo(a, d) = d /\ PreparedIn(a, d) = NoRequest
      BY Zenon, <1>1, <1>5, Messages DEF Redo, PreparedIn, IsRequest
    <2>2. QED
      BY Zenon, <1>2, <2>1 DEF LogEffect
  <1>6. QED
    BY Zenon, <1>1, <1>3, <1>4, <1>5, Messages

(* The state of the replicas that the slaves stand for. *)
data == [s \in Slaves |-> Redo(log[s], store[s])]
prepared == [s \in Slaves |-> PreparedIn(log[s], store[s])]

(* All other steps are invisible. *)
LEMMA InvisibleStep ==
  ASSUME IInv, Rebuilds, NEW s \in Slaves,
         \/ SlaveStep(s) \/ Crash(s) \/ Restart(s)
         \/ \E c \in Clients : GiveUp(s, c) \/ \E m \in Message : Send(s, c, m),
         ~Log(s)
  PROVE  UNCHANGED <<data, prepared>>
  <1>1. CASE UNCHANGED <<log, store>>
    BY Zenon, <1>1 DEF data, prepared
  <1>2. CASE ApplyCommit(s) \/ Restart(s)
    <2> DEFINE l == log[s]
               d == store[s]
    <2>1. log' = log /\ l \in Seq(Entry) /\ d \in Store
      BY Zenon, <1>2 DEF IInv, TypeOK, SlaveTypeOK, ApplyCommit, Restart
    <2>2. store'[s] = Redo(l, d)
      <3>1. CASE Restart(s)
        BY Zenon, <3>1 DEF IInv, TypeOK, SlaveTypeOK, Restart
      <3>2. CASE ApplyCommit(s)
        <4>1. /\ job[s].pc = "apply" /\ job[s] \in Job \cup {Idle}
              /\ InvOf(s)
              /\ store'[s] = IF job[s].entry = NoRequest THEN d
                             ELSE Apply(d, job[s].entry)
          BY Zenon, <3>2 DEF IInv, TypeOK, SlaveTypeOK, ApplyCommit, InvOf
        <4>2. LastEntry(l) = COMMIT /\ job[s].entry = LastRequest(l)
              /\ IsRequest(job[s].entry)
          BY Zenon, <4>1 DEF InvOf, SlaveInv
        <4>3. QED
          BY Zenon, <4>1, <4>2, Messages DEF Redo, IsRequest
      <3>3. QED
        BY Zenon, <1>2, <3>1, <3>2
    <2>3. /\ Redo(l, store'[s]) = Redo(l, d)
          /\ PreparedIn(l, store'[s]) = PreparedIn(l, d)
      BY Zenon, <2>1, <2>2, RedoTwice, RedoKeepsPrepared
    <2>4. \A t \in Slaves \ {s} : store'[t] = store[t]
      BY Zenon, Alone DEF IInv, OnlySlave
    <2>5. \A t \in Slaves : /\ Redo(log[t], store'[t]) = Redo(log[t], store[t])
                            /\ PreparedIn(log[t], store'[t]) = PreparedIn(log[t], store[t])
      BY Zenon, <2>3, <2>4
    <2>6. QED
      BY Zenon, <2>1, <2>5 DEF data, prepared
  <1>3. QED
    BY Zenon, <1>1, <1>2
       DEF SlaveStep, HandleGet, RefuseInWait, Accept, Pop, Vote, Ack, Crash,
           GiveUp, Send, Connect

(* tpclog_log is a step of the atomic replica. *)
LEMMA LogStep ==
  ASSUME IInv, NEW s \in Slaves, Log(s)
  PROVE  [Atomic!Next]_<<data, prepared>>
  <1> DEFINE l == log[s]
             d == store[s]
             a == log'[s]
             j == job[s]
  <1>1. /\ l \in Seq(Entry) /\ d \in Store /\ j \in Job /\ j.pc = "log"
        /\ SlaveInv(TRUE, state[s], l, d, wq[s], j)
        /\ a = Append(l, j.conn.msg) /\ store' = store
    <2>1. j \in Job \cup {Idle} /\ j.pc = "log" /\ up[s] = TRUE
      BY Zenon DEF IInv, TypeOK, SlaveTypeOK, Log
    <2>2. j \in Job
      BY Zenon, <2>1, JobType
    <2>3. QED
      BY Zenon, <2>1, <2>2 DEF IInv, TypeOK, SlaveTypeOK, Log
  <1>2. \A t \in Slaves \ {s} : log'[t] = log[t]
    BY Zenon DEF IInv, TypeOK, SlaveTypeOK, Log
  <1>3. /\ data' = [data EXCEPT ![s] = Redo(a, d)]
        /\ prepared' = [prepared EXCEPT ![s] = PreparedIn(a, d)]
        /\ data[s] = Redo(l, d) /\ prepared[s] = PreparedIn(l, d)
    BY Zenon, <1>1, <1>2 DEF data, prepared
  <1> HIDE DEF l, d, a, j
  <1>4. LogEffect(l, d, a)
    BY Zenon, <1>1, LogReplica
  <1>5. /\ Redo(a, d) = Redo(l, d) => data' = data
        /\ PreparedIn(a, d) = PreparedIn(l, d) => prepared' = prepared
    BY Zenon, <1>3 DEF data, prepared
  <1>6. CASE Redo(a, d) = Redo(l, d) /\ PreparedIn(a, d) = PreparedIn(l, d)
    BY Zenon, <1>5, <1>6
  <1>7. CASE /\ PreparedIn(l, d) = NoRequest /\ Redo(a, d) = Redo(l, d)
             /\ PreparedIn(a, d) \in Request /\ Check(Redo(l, d), PreparedIn(a, d))
    <2>1. Atomic!Prepare(s, PreparedIn(a, d))
      BY Zenon, <1>3, <1>5, <1>7, SameRequests
         DEF Atomic!Prepare, data, prepared
    <2>2. QED
      BY Zenon, <1>7, <2>1, SameRequests DEF Atomic!Next
  <1>8. CASE /\ PreparedIn(l, d) # NoRequest /\ PreparedIn(a, d) = NoRequest
             /\ Redo(a, d) = Apply(Redo(l, d), PreparedIn(l, d))
    <2>1. Atomic!Commit(s)
      BY Zenon, <1>3, <1>8, SameRequests DEF Atomic!Commit, data, prepared
    <2>2. QED
      BY Zenon, <2>1 DEF Atomic!Next
  <1>9. CASE /\ PreparedIn(l, d) # NoRequest /\ PreparedIn(a, d) = NoRequest
             /\ Redo(a, d) = Redo(l, d)
    <2>1. Atomic!Abort(s)
      BY Zenon, <1>3, <1>5, <1>9 DEF Atomic!Abort, data, prepared
    <2>2. QED
      BY Zenon, <2>1 DEF Atomic!Next
  <1>10. QED
    BY Zenon, <1>4, <1>6, <1>7, <1>8, <1>9 DEF LogEffect

(* The slaves implement replicas that never crash: logging a decision is   *)
(* the moment it takes effect, and nothing else a slave does is visible.   *)
THEOREM SlavesAreAtomic ==
  ASSUME Rebuilds
  PROVE  Spec => ImplementsAtomicReplica
  <1>1. Init => Atomic!Init
    <2> SUFFICES ASSUME Init PROVE Atomic!Init
      BY Zenon
    <2>1. LastEntry(<<>>) = NoRequest /\ ~IsRequest(NoRequest) /\ NoRequest # COMMIT
      BY Zenon, Messages DEF LastEntry, IsRequest
    <2>2. /\ Redo(<<>>, EmptyStore) = EmptyStore
          /\ PreparedIn(<<>>, EmptyStore) = NoRequest
      BY Zenon, <2>1 DEF Redo, PreparedIn
    <2>3. QED
      BY Zenon, <2>2, SameRequests DEF Init, SlaveInit, Atomic!Init
  <1>2. IInv /\ [Next]_slaveVars => [Atomic!Next]_<<data, prepared>>
    <2> SUFFICES ASSUME IInv, [Next]_slaveVars
                 PROVE  [Atomic!Next]_<<data, prepared>>
      BY Zenon
    <2>1. CASE UNCHANGED slaveVars
      BY Zenon, <2>1 DEF slaveVars, data, prepared
    <2>2. CASE Next
      BY Zenon, <2>2, InvisibleStep, LogStep DEF Next
    <2>3. QED
      BY Zenon, <2>1, <2>2
  <1>3. IInv /\ [Next]_slaveVars =>
          [Atomic!Next]_<<[s \in Slaves |-> Redo(log[s], store[s])],
                         [s \in Slaves |-> PreparedIn(log[s], store[s])]>>
    BY Zenon, <1>2 DEF data, prepared
  <1>4. QED
    BY <1>1, <1>3, Invariance, PTL DEF Spec, ImplementsAtomicReplica, Atomic!Spec
=============================================================================

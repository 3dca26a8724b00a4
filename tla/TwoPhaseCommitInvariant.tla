----------------------- MODULE TwoPhaseCommitInvariant -----------------------
(***************************************************************************)
(* Proofs about the master and its slaves, for any list of slaves, threads *)
(* of the master, keys and values, with any number of requests, timeouts   *)
(* and crashes, when one PUTREQ or DELREQ is handled at a time.            *)
(*                                                                         *)
(* The invariant says, for the one thread that runs a transaction and for  *)
(* every slave of the list, how far this slave has come: the slaves behind *)
(* the position of the loop, the one at it and the ones ahead of it.       *)
(*                                                                         *)
(* It is kept by the steps of the slaves, their crashes and restarts, and  *)
(* by the master's reads.                                                  *)
(***************************************************************************)
EXTENDS TwoPhaseCommit, TPCSlaveProofs

(* The connections of a queue; those of one client are alone in it; none   *)
(* brings an entry of the log behind one that brings d.                    *)
InQ(q) == {q[n] : n \in 1..Len(q)}
Alone(q) == \A i, j \in 1..Len(q) :
              q[i].owner \in Clients /\ q[j].owner = q[i].owner => i = j
LastIn(q, d) == \A i, j \in 1..Len(q) : i < j /\ q[i].msg = d => q[j].msg \notin Entry

(* No request and no decision waits at slave s or is being handled by it. *)
NoEntry(s) == job[s] = Idle /\ \A p \in InQ(wq[s]) : p.msg \notin Entry

(* Slave s is between two transactions, and stays so if it restarts. *)
Clean(s) == NoEntry(s) /\ ~IsRequest(LastEntry(log[s])) /\ ~Waiting(s)

(* It has voted for r, *)
Bound(s, r) == NoEntry(s) /\ Ready(s, r) /\ Check(store[s], r)

(* or it has not, but may still vote to a master that has given up on it. *)
Loose(s, r) == \A p \in Pending(s) : p.msg \in Entry => p.msg = r /\ p.owner = None

Undecided(c, s) == IF s \in voted[c] THEN Bound(s, thread[c].req)
                   ELSE Loose(s, thread[c].req)

(* It has applied r. *)
Done(s, r) == /\ Holds(store[s], r)
              /\ LastEntry(log[s]) = COMMIT /\ LastRequest(log[s]) = r

Decided(c, s) ==
  Clean(s) /\ (s \in voted[c] /\ ~thread[c].abort => Done(s, thread[c].req))

(* Phase 1 waits for the vote of s. *)
AskedVote(c, s) ==
  /\ \A p \in Pending(s) : p.msg \in Entry => p.msg = thread[c].req /\ p.owner = c
  /\ ~Waiting(s)

Asked(c, s) ==
  /\ s \notin voted[c]
  /\ \/ reply[c].type = "none" /\ AskedVote(c, s)
     \/ reply[c].type = "VOTE_COMMIT" /\ Bound(s, thread[c].req)
     \/ reply[c].type \in {"VOTE_ABORT", "RESET"} /\ NoEntry(s)

(* Phase 2 waits for the ACK of s: the decision is the last entry on its   *)
(* way there, behind requests that the master has given up on.             *)
ToldQueue(c, s) ==
  /\ \A p \in Pending(s) : p.msg \in Entry =>
       \/ p.msg = Decision(c) /\ p.owner = c
       \/ p.msg = thread[c].req /\ p.owner = None /\ s \notin voted[c]
  /\ LastIn(wq[s], Decision(c))
  /\ job[s] # Idle /\ job[s].conn.msg = Decision(c) =>
       \A p \in InQ(wq[s]) : p.msg \notin Entry

ToldJob(c, s) ==
  /\ job[s].pc \in {"apply", "ack"} => LastEntry(log[s]) = Decision(c)
  /\ s \in voted[c] /\ job[s].pc \in {"idle", "log"} =>
       Ready(s, thread[c].req) /\ Check(store[s], thread[c].req)
  /\ s \in voted[c] /\ Decision(c) = COMMIT =>
       /\ job[s].pc \in {"log", "apply"} => job[s].entry = thread[c].req
       /\ job[s].pc = "apply" => /\ LastRequest(log[s]) = thread[c].req
                                 /\ Check(store[s], thread[c].req)
       /\ job[s].pc = "ack" => Done(s, thread[c].req)

Told(c, s) ==
  \/ reply[c].type = "none" /\ ToldQueue(c, s) /\ ToldJob(c, s)
  \/ reply[c].type = "ACK" /\ Decided(c, s)
  \/ reply[c].type = "RESET" /\ NoEntry(s)

(* The slave at position n while c runs a transaction. *)
Phase1(c) == thread[c].pc \in {"phase1", "wait1"}
Phase2(c) == thread[c].pc \in {"phase2", "wait2", "stuck"}

InPhase(c, n) ==
  /\ Phase1(c) => /\ n < thread[c].at => Undecided(c, Order[n])
                  /\ n = thread[c].at /\ thread[c].pc = "wait1" => Asked(c, Order[n])
                  /\ n > thread[c].at \/ (n = thread[c].at /\ thread[c].pc = "phase1") =>
                       Clean(Order[n]) /\ Order[n] \notin voted[c]
  /\ Phase2(c) => /\ n < thread[c].at => Decided(c, Order[n])
                  /\ n = thread[c].at /\ thread[c].pc = "wait2" => Told(c, Order[n])
                  /\ n > thread[c].at \/ (n = thread[c].at /\ thread[c].pc # "wait2") =>
                       Undecided(c, Order[n])

NoWriter == \A c \in Clients : ~InTPC(c)

SlavesInv ==
  /\ \A s \in Slaves : s \notin Range(Order) \/ NoWriter => Clean(s)
  /\ \A c \in Clients : InTPC(c) => \A n \in 1..Len(Order) : InPhase(c, n)

(* A thread has at most one connection, to the slave it waits for, until   *)
(* it has the answer.                                                      *)
Waits(c) == thread[c].pc \in {"wait1", "wait2", "waitget"}

ConnOf(s, p) == p.owner \in Clients =>
  /\ Waits(p.owner) /\ s = Target(p.owner) /\ reply[p.owner].type = "none"
  /\ p.msg \in Entry <=> thread[p.owner].pc # "waitget"

Single(s) == /\ Alone(wq[s])
             /\ job[s] # Idle => \A p \in InQ(wq[s]) :
                  p.owner \in Clients => job[s].conn.owner # p.owner

Connected(c) == Waits(c) /\ reply[c].type = "none" =>
                  \E p \in Pending(Target(c)) : p.owner = c

ConnInv == /\ \A s \in Slaves : Single(s) /\ \A p \in Pending(s) : ConnOf(s, p)
           /\ \A c \in Clients : Connected(c)

(* What the handler of a slave is doing fits the message it handles. *)
JobOf(s) == /\ ~up[s] => job[s] = Idle /\ wq[s] = <<>>
            /\ job[s].pc = "vote" => /\ IsRequest(job[s].conn.msg)
                                    /\ LastEntry(log[s]) = job[s].conn.msg
            /\ job[s].pc = "apply" => job[s].conn.msg = COMMIT
            /\ job[s].pc = "ack" => ~IsRequest(job[s].conn.msg)

JobInv == \A s \in Slaves : JobOf(s)

OneWriter ==
  /\ \A c, d \in Clients : InTPC(c) /\ InTPC(d) => c = d
  /\ \A c \in Clients : /\ InTPC(c) => thread[c].req \in Request
                        /\ Reading(c) => thread[c].req \in GetReq

(* Without timeouts and crashes the loop of phase 1 has collected the vote *)
(* of every slave behind it, or abort_tpc is set.                          *)
VotesOf(c) ==
  /\ Phase1(c) /\ ~thread[c].abort =>
       \A n \in 1..Len(Order) : n < thread[c].at => Order[n] \in voted[c]
  /\ Phase2(c) /\ ~thread[c].abort => voted[c] = Range(Order)

VotesInv ==
  /\ budget.crashes = 0 => /\ \A s \in Slaves : up[s]
                           /\ \A c \in Clients : reply[c].type # "RESET"
  /\ \A c \in Clients : voted[c] \subseteq Range(Order)
  /\ Undisturbed => \A c \in Clients : VotesOf(c)

(* Without crashes the request r reaches the log of every slave before the *)
(* decision does, also at a slave whose vote comes too late.               *)
Gets(s, r) ==
  \/ LastEntry(log[s]) = r
  \/ /\ ~Waiting(s)
     /\ \/ job[s].pc = "log" /\ job[s].conn.msg = r
        \/ \E p \in InQ(wq[s]) : p.msg = r

Outcome(c, B) == IF thread[c].abort THEN B ELSE Apply(B, thread[c].req)

(* B is what all slaves held when the transaction began. *)
Deciding(c, s, B) ==
  /\ reply[c].type = "none" /\ job[s].pc # "ack" => store[s] = B
  /\ reply[c].type # "none" \/ job[s].pc = "ack" => store[s] = Outcome(c, B)
  /\ reply[c].type = "none" =>
       /\ job[s].pc \in {"idle", "vote"} => Gets(s, thread[c].req)
       /\ job[s].pc = "log" /\ IsRequest(job[s].conn.msg) => Gets(s, thread[c].req)
       /\ job[s].pc = "log" /\ job[s].conn.msg = COMMIT => job[s].entry = thread[c].req
       /\ job[s].pc = "apply" => job[s].entry = thread[c].req

Agrees(c, n, B) ==
  /\ Phase1(c) => /\ store[Order[n]] = B
                  /\ n < thread[c].at \/ (n = thread[c].at /\ thread[c].pc = "wait1") =>
                       Gets(Order[n], thread[c].req)
  /\ Phase2(c) => /\ n < thread[c].at => store[Order[n]] = Outcome(c, B)
                  /\ n = thread[c].at /\ thread[c].pc = "wait2" => Deciding(c, Order[n], B)
                  /\ n > thread[c].at \/ (n = thread[c].at /\ thread[c].pc # "wait2") =>
                       store[Order[n]] = B /\ Gets(Order[n], thread[c].req)

AgreeInv ==
  budget.crashes = 0 =>
    /\ NoWriter => \A s, t \in Range(Order) : store[s] = store[t]
    /\ \A c \in Clients : InTPC(c) =>
         \E B \in Store : \A n \in 1..Len(Order) : Agrees(c, n, B)

IInv == /\ TypeOK /\ SlavesInv /\ ConnInv /\ JobInv /\ OneWriter /\ VotesInv
        /\ AgreeInv

-----------------------------------------------------------------------------
(* Queues and connections. *)

(* The first connection of a queue leaves it. *)
LEMMA PopQueue ==
  ASSUME NEW q \in Seq(Conn), q # <<>>
  PROVE  /\ Head(q) \in Conn /\ Tail(q) \in Seq(Conn)
         /\ InQ(q) = InQ(Tail(q)) \cup {Head(q)}
         /\ Alone(q) => /\ Alone(Tail(q))
                        /\ \A p \in InQ(Tail(q)) :
                             p.owner \in Clients => p.owner # Head(q).owner
         /\ \A d : LastIn(q, d) =>
              /\ LastIn(Tail(q), d)
              /\ Head(q).msg = d => \A p \in InQ(Tail(q)) : p.msg \notin Entry
  <1> DEFINE t == Tail(q)
             N == Len(q)
  <1>1. /\ Head(q) \in Conn /\ t \in Seq(Conn) /\ N \in Nat /\ N >= 1 /\ Head(q) = q[1]
        /\ Len(t) = N - 1 /\ \A n \in 1..(N - 1) : t[n] = q[n + 1]
    OBVIOUS
  <1> HIDE DEF t, N
  <1>2. \A n \in 1..(N - 1) : n + 1 \in 1..N /\ n + 1 # 1 /\ 1 < n + 1
    BY <1>1
  <1>3. 1 \in 1..N /\ \A n \in 1..N : n # 1 => n - 1 \in 1..(N - 1) /\ (n - 1) + 1 = n
    BY <1>1
  <1>4. \A m, n \in 1..(N - 1) : /\ m < n => m + 1 < n + 1
                                 /\ m + 1 = n + 1 => m = n
    BY <1>1
  <1>5. InQ(q) = InQ(t) \cup {q[1]}
    <2>1. \A n \in 1..N : n # 1 => t[n - 1] = q[n]
      BY Zenon, <1>1, <1>3
    <2>2. \A x \in InQ(q) : x = q[1] \/ x \in InQ(t)
      <3>1. \A n \in 1..N : n = 1 \/ q[n] \in InQ(t)
        BY Zenon, <1>1, <1>3, <2>1 DEF InQ
      <3>2. QED
        BY Zenon, <3>1 DEF InQ, N
    <2>3. \A x \in InQ(t) : x \in InQ(q)
      <3>1. \A n \in 1..(N - 1) : q[n + 1] \in InQ(q)
        BY Zenon, <1>2 DEF InQ, N
      <3> TAKE x \in InQ(t)
      <3>2. PICK n \in 1..(N - 1) : x = t[n]
        BY Zenon, <1>1 DEF InQ
      <3>3. QED
        BY Zenon, <1>1, <3>1, <3>2
    <2>4. QED
      BY Zenon, <1>3, <2>2, <2>3 DEF InQ, N
  <1>6. ASSUME Alone(q)
        PROVE  Alone(t) /\ \A p \in InQ(t) : p.owner \in Clients => p.owner # q[1].owner
    <2>1. \A i, j \in 1..N : q[i].owner \in Clients /\ q[j].owner = q[i].owner => i = j
      BY Zenon, <1>6 DEF Alone, N
    <2>2. \A i, j \in 1..(N - 1) :
            t[i].owner \in Clients /\ t[j].owner = t[i].owner => i = j
      <3> TAKE i, j \in 1..(N - 1)
      <3>1. t[i] = q[i + 1] /\ t[j] = q[j + 1] /\ i + 1 \in 1..N /\ j + 1 \in 1..N
        BY Zenon, <1>1, <1>2
      <3>2. QED
        BY Zenon, <1>4, <2>1, <3>1
    <2>3. \A i \in 1..(N - 1) : t[i].owner \in Clients => t[i].owner # q[1].owner
      BY Zenon, <1>1, <1>2, <1>3, <2>1
    <2>4. QED
      BY Zenon, <1>1, <2>2, <2>3 DEF Alone, InQ
  <1>7. ASSUME NEW d, LastIn(q, d)
        PROVE  LastIn(t, d) /\ (q[1].msg = d => \A p \in InQ(t) : p.msg \notin Entry)
    <2>1. \A i, j \in 1..N : i < j /\ q[i].msg = d => q[j].msg \notin Entry
      BY Zenon, <1>7 DEF LastIn, N
    <2>2. \A i, j \in 1..(N - 1) : i < j /\ t[i].msg = d => t[j].msg \notin Entry
      <3> TAKE i, j \in 1..(N - 1)
      <3>1. t[i] = q[i + 1] /\ t[j] = q[j + 1] /\ i + 1 \in 1..N /\ j + 1 \in 1..N
        BY Zenon, <1>1, <1>2
      <3>2. QED
        BY Zenon, <1>4, <2>1, <3>1
    <2>3. \A i \in 1..(N - 1) : q[1].msg = d => t[i].msg \notin Entry
      BY Zenon, <1>1, <1>2, <1>3, <2>1
    <2>4. QED
      BY Zenon, <1>1, <2>2, <2>3 DEF LastIn, InQ
  <1>8. QED
    BY Zenon, <1>1, <1>5, <1>6, <1>7 DEF t

(* A connection is added at the end of a queue. *)
LEMMA AddQueue ==
  ASSUME NEW q \in Seq(Conn), NEW p \in Conn, NEW a, a = Append(q, p)
  PROVE  /\ InQ(a) = InQ(q) \cup {p}
         /\ Alone(q) /\ (\A x \in InQ(q) : x.owner # p.owner) => Alone(a)
         /\ \A d : LastIn(q, d) /\ (p.msg \in Entry => \A x \in InQ(q) : x.msg # d) =>
              LastIn(a, d)
  <1> DEFINE N == Len(q)
  <1>1. N \in Nat /\ Len(a) = N + 1 /\ a[N + 1] = p /\ \A n \in 1..N : a[n] = q[n]
    OBVIOUS
  <1> HIDE DEF N
  <1>2. /\ N + 1 \in 1..(N + 1) /\ \A n \in 1..(N + 1) : n \in 1..N \/ n = N + 1
        /\ \A n \in 1..N : n \in 1..(N + 1) /\ ~(N + 1 < n)
        /\ ~(N + 1 < N + 1)
    BY <1>1
  <1>3. InQ(a) = InQ(q) \cup {p}
    BY Zenon, <1>1, <1>2 DEF InQ, N
  <1>4. ASSUME Alone(q), \A x \in InQ(q) : x.owner # p.owner
        PROVE  Alone(a)
    <2>1. \A i, j \in 1..N : q[i].owner \in Clients /\ q[j].owner = q[i].owner => i = j
      BY Zenon, <1>4 DEF Alone, N
    <2>2. \A i \in 1..N : q[i].owner # p.owner
      BY Zenon, <1>4 DEF InQ, N
    <2>3. \A i, j \in 1..(N + 1) :
            a[i].owner \in Clients /\ a[j].owner = a[i].owner => i = j
      BY Zenon, <1>1, <1>2, <2>1, <2>2
    <2>4. QED
      BY Zenon, <1>1, <2>3 DEF Alone
  <1>5. ASSUME NEW d, LastIn(q, d), p.msg \in Entry => \A x \in InQ(q) : x.msg # d
        PROVE  LastIn(a, d)
    <2>1. \A i, j \in 1..N : i < j /\ q[i].msg = d => q[j].msg \notin Entry
      BY Zenon, <1>5 DEF LastIn, N
    <2>2. p.msg \in Entry => \A i \in 1..N : q[i].msg # d
      BY Zenon, <1>5 DEF InQ, N
    <2>3. \A i, j \in 1..(N + 1) : i < j /\ a[i].msg = d => a[j].msg \notin Entry
      BY Zenon, <1>1, <1>2, <2>1, <2>2
    <2>4. QED
      BY Zenon, <1>1, <2>3 DEF LastIn
  <1>6. QED
    BY Zenon, <1>3, <1>4, <1>5

(* The connections of c lose their owner. *)
LEMMA OrphanQueue ==
  ASSUME NEW q \in Seq(Conn), NEW c \in Clients, NEW o,
         o = [n \in 1..Len(q) |-> Orphan(q[n], c)]
  PROVE  /\ InQ(o) = {Orphan(p, c) : p \in InQ(q)}
         /\ Alone(q) => Alone(o)
         /\ \A d : LastIn(q, d) => LastIn(o, d)
  <1>1. /\ Len(q) \in Nat /\ Len(o) = Len(q)
        /\ \A n \in 1..Len(q) : q[n] \in Conn /\ o[n] = Orphan(q[n], c)
    OBVIOUS
  <1>2. InQ(o) = {Orphan(p, c) : p \in InQ(q)}
    BY Zenon, <1>1 DEF InQ
  <1>3. \A n \in 1..Len(q) : /\ o[n].msg = q[n].msg
                             /\ o[n].owner \in Clients => o[n].owner = q[n].owner
    BY Zenon, <1>1, MasterAssumption DEF Orphan, Conn
  <1>4. Alone(q) => Alone(o)
    BY <1>1, <1>3 DEF Alone
  <1>5. ASSUME NEW d, LastIn(q, d) PROVE LastIn(o, d)
    BY <1>1, <1>3, <1>5 DEF LastIn
  <1>6. QED
    BY Zenon, <1>2, <1>4, <1>5

(* The pending connections of a slave. *)
LEMMA PendingIs ==
  ASSUME NEW s
  PROVE  /\ Pending(s) = InQ(wq[s]) \cup (IF job[s] = Idle THEN {} ELSE {job[s].conn})
         /\ Pending(s)' = InQ(wq'[s]) \cup (IF job'[s] = Idle THEN {} ELSE {job'[s].conn})
  BY Zenon DEF Pending, InQ

(* What slave s holds is as before. *)
Same(s) == /\ up'[s] = up[s] /\ state'[s] = state[s] /\ log'[s] = log[s]
           /\ store'[s] = store[s] /\ wq'[s] = wq[s] /\ job'[s] = job[s]

(* A slave no step has touched has the same connections and the same job. *)
LEMMA SamePending ==
  ASSUME NEW s, Same(s)
  PROVE  /\ Pending(s)' = Pending(s) /\ (Single(s)' <=> Single(s))
         /\ JobOf(s)' <=> JobOf(s)
  <1>1. Pending(s)' = Pending(s)
    BY Zenon, PendingIs DEF Same
  <1>2. Single(s)' <=> Single(s)
    BY Zenon DEF Same, Single
  <1>3. JobOf(s)' <=> JobOf(s)
    BY Zenon DEF Same, JobOf
  <1>4. QED
    BY Zenon, <1>1, <1>2, <1>3

(* An empty work queue has no connection. *)
LEMMA EmptyQueue ==
  InQ(<<>>) = {} /\ Alone(<<>>)
  <1>1. Len(<<>>) = 0 /\ 1..0 = {}
    OBVIOUS
  <1>2. QED
    BY Zenon, <1>1 DEF InQ, Alone

(* A step of slave s leaves the others alone, and the threads. *)
LEMMA StepOthers ==
  ASSUME SlaveTypeOK, NEW s \in Slaves, SlaveStep(s) \/ Restart(s) \/ Crash(s)
  PROVE  \A t \in Slaves \ {s} : Same(t)
  <1>1. CASE HandleGet(s) \/ RefuseInWait(s) \/ Accept(s)
    BY Zenon, <1>1 DEF SlaveTypeOK, HandleGet, RefuseInWait, Accept, Pop, Same
  <1>2. CASE Log(s) \/ Vote(s) \/ ApplyCommit(s) \/ Ack(s)
    BY Zenon, <1>2 DEF SlaveTypeOK, Log, Vote, ApplyCommit, Ack, Same
  <1>3. CASE Crash(s) \/ Restart(s)
    BY Zenon, <1>3 DEF SlaveTypeOK, Crash, Restart, Same
  <1>4. QED
    BY Zenon, <1>1, <1>2, <1>3 DEF SlaveStep

(* A step of slave s answers the connection p, or moves one on. *)
Answers(s, p) ==
  /\ \/ job[s] = Idle /\ wq[s] # <<>> /\ p = Head(wq[s]) /\ wq'[s] = Tail(wq[s])
     \/ job[s] # Idle /\ p = job[s].conn /\ wq'[s] = wq[s]
  /\ job'[s] = Idle
  /\ \E r \in Reply : r.type \notin {"none", "RESET"} /\ Answer(p, r)

Moves(s) ==
  /\ \/ job[s] = Idle /\ wq[s] # <<>> /\ wq'[s] = Tail(wq[s])
        /\ job'[s].conn = Head(wq[s])
     \/ job[s] # Idle /\ job'[s].conn = job[s].conn /\ wq'[s] = wq[s]
  /\ job'[s] # Idle
  /\ reply' = reply

(* A step of a slave moves a connection to a worker, or answers one. *)
LEMMA StepConn ==
  ASSUME SlaveTypeOK, NEW s \in Slaves, SlaveStep(s)
  PROVE  Moves(s) \/ \E p : Answers(s, p)
  <1> DEFINE q == wq[s]
             j == job[s]
  <1>1. j \in Job \cup {Idle}
    BY Zenon DEF SlaveTypeOK
  <1>2. ASSUME Pop(s) PROVE j = Idle /\ q # <<>> /\ wq'[s] = Tail(q)
    BY Zenon, <1>2 DEF Pop, SlaveTypeOK
  <1>3. ASSUME j.pc # "idle" PROVE j # Idle /\ j \in Job
    BY Zenon, <1>1, <1>3, JobType DEF Idle
  <1>4. CASE HandleGet(s)
    <2> DEFINE c == Head(q)
               r == IF store[s][c.msg.key] = Absent THEN [type |-> "RESP"]
                    ELSE [type |-> "GETRESP", value |-> store[s][c.msg.key]]
    <2>1. Pop(s) /\ Answer(c, r) /\ job' = job
      BY Zenon, <1>4 DEF HandleGet
    <2>2. c \in Conn
      BY Zenon, <2>1, PopType
    <2>3. store[s][c.msg.key] \in Values \cup {Absent}
      <3>1. c.msg \in Message /\ c.msg.type = "GETREQ"
        BY Zenon, <1>4, <2>2 DEF HandleGet, Conn
      <3>2. c.msg.key \in Keys
        BY Zenon, <3>1, Messages DEF Message, GetReq
      <3>3. store[s] \in Store
        BY Zenon DEF SlaveTypeOK
      <3>4. QED
        BY Zenon, <3>2, <3>3 DEF Store
    <2>4. r \in Reply /\ r.type \in {"RESP", "GETRESP"}
      BY Zenon, <2>3, ReplyTypes
    <2> HIDE DEF r
    <2>5. QED
      BY Zenon, <1>2, <2>1, <2>4 DEF Answers
  <1>5. CASE RefuseInWait(s)
    BY Zenon, <1>2, <1>5, ReplyTypes DEF RefuseInWait, Answers
  <1>6. CASE Accept(s)
    <2> DEFINE new == [pc |-> "log", conn |-> Head(q),
                       entry |-> IF Head(q).msg = COMMIT THEN LastEntry(log[s])
                                 ELSE NoRequest]
    <2>1. Pop(s) /\ job'[s] = new /\ reply' = reply
      BY Zenon, <1>6 DEF Accept, SlaveTypeOK
    <2>2. new # Idle /\ new.conn = Head(q)
      BY Zenon DEF Idle
    <2>3. QED
      BY Zenon, <1>2, <2>1, <2>2 DEF Moves
  <1>7. CASE Log(s) \/ ApplyCommit(s)
    <2>1. j \in Job /\ j # Idle /\ wq'[s] = q /\ reply' = reply
      BY Zenon, <1>3, <1>7 DEF Log, ApplyCommit
    <2>2. PICK pc \in {"vote", "apply", "ack"} : job'[s] = [j EXCEPT !.pc = pc]
      BY Zenon, <1>7 DEF Log, ApplyCommit, SlaveTypeOK, AfterLog
    <2>3. job'[s].conn = j.conn /\ job'[s].pc = pc
      BY Zenon, <2>1, <2>2 DEF Job
    <2>4. job'[s] # Idle
      BY Zenon, <2>3, Fields
    <2>5. QED
      BY Zenon, <2>1, <2>3, <2>4 DEF Moves
  <1>8. CASE Vote(s)
    <2>1. PICK r \in Reply : /\ r.type \in {"VOTE_COMMIT", "VOTE_ABORT"}
                             /\ Answer(j.conn, r)
      BY Zenon, <1>8, ReplyTypes DEF Vote
    <2>2. job'[s] = Idle /\ wq'[s] = q
      BY Zenon, <1>8 DEF Vote, SlaveTypeOK
    <2>3. QED
      BY Zenon, <1>3, <1>8, <2>1, <2>2 DEF Answers, Vote
  <1>9. CASE Ack(s)
    <2>1. Answer(j.conn, [type |-> "ACK"]) /\ job'[s] = Idle /\ wq'[s] = q
      BY Zenon, <1>9 DEF Ack, SlaveTypeOK
    <2>2. QED
      BY Zenon, <1>3, <1>9, <2>1, ReplyTypes DEF Answers, Ack
  <1>10. QED
    BY Zenon, <1>4, <1>5, <1>6, <1>7, <1>8, <1>9 DEF SlaveStep

(* A step of slave s answers the one connection of a client, or none; no   *)
(* other connection is lost.                                               *)
Answered(s, c) ==
  \/ /\ reply'[c] = reply[c]
     /\ \A p \in Pending(s) : p.owner = c => p \in Pending(s)'
  \/ /\ reply'[c].type \notin {"none", "RESET"}
     /\ \E p \in Pending(s) : p.owner = c
     /\ \A p \in Pending(s)' : p.owner # c

(* Slave steps add no connection, and answer only the connections they     *)
(* end.                                                                    *)
LEMMA StepPending ==
  ASSUME SlaveTypeOK, NEW s \in Slaves, SlaveStep(s), Single(s)
  PROVE  /\ Single(s)' /\ Pending(s)' \subseteq Pending(s)
         /\ \A c \in Clients : Answered(s, c)
  <1> DEFINE q == wq[s]
             j == job[s]
  <1>1. q \in Seq(Conn) /\ reply \in [Clients -> Reply]
    BY Zenon DEF SlaveTypeOK
  <1>2. CASE Moves(s)
    <2>1. job'[s] # Idle /\ reply' = reply
      BY Zenon, <1>2 DEF Moves
    <2>2. CASE j = Idle
      <3>1. q # <<>> /\ wq'[s] = Tail(q) /\ job'[s].conn = Head(q)
        BY Zenon, <1>2, <2>2 DEF Moves
      <3>2. /\ InQ(q) = InQ(wq'[s]) \cup {job'[s].conn} /\ Alone(wq'[s])
            /\ \A p \in InQ(wq'[s]) : p.owner \in Clients => p.owner # job'[s].conn.owner
        BY Zenon, <1>1, <3>1, PopQueue DEF Single
      <3>3. Pending(s)' = Pending(s)
        BY Zenon, <2>1, <2>2, <3>2, PendingIs
      <3>4. QED
        BY Zenon, <2>1, <3>2, <3>3 DEF Answered, Single
    <2>3. CASE j # Idle
      <3>1. wq'[s] = q /\ job'[s].conn = j.conn
        BY Zenon, <1>2, <2>3 DEF Moves
      <3>2. Pending(s)' = Pending(s)
        BY Zenon, <2>1, <2>3, <3>1, PendingIs
      <3>3. QED
        BY Zenon, <2>1, <2>3, <3>1, <3>2 DEF Answered, Single
    <2>4. QED
      BY Zenon, <2>2, <2>3
  <1>3. ASSUME NEW p, Answers(s, p)
        PROVE  /\ Single(s)' /\ Pending(s)' \subseteq Pending(s)
               /\ \A c \in Clients : Answered(s, c)
    <2>1. PICK r \in Reply : r.type \notin {"none", "RESET"} /\ Answer(p, r)
      BY Zenon, <1>3 DEF Answers
    <2>2. \A c \in Clients : IF p.owner = c THEN reply'[c] = r ELSE reply'[c] = reply[c]
      BY Zenon, <1>1, <2>1 DEF Answer
    <2>3. job'[s] = Idle /\ Pending(s)' = InQ(wq'[s])
      BY Zenon, <1>3, PendingIs DEF Answers
    <2>4. /\ Alone(wq'[s]) /\ Pending(s) = InQ(wq'[s]) \cup {p}
          /\ \A x \in InQ(wq'[s]) : x.owner \in Clients => x.owner # p.owner
      <3>1. CASE j = Idle
        <4>1. q # <<>> /\ p = Head(q) /\ wq'[s] = Tail(q)
          BY Zenon, <1>3, <3>1 DEF Answers
        <4>2. QED
          BY Zenon, <1>1, <3>1, <4>1, PopQueue, PendingIs DEF Single
      <3>2. CASE j # Idle
        <4>1. p = j.conn /\ wq'[s] = q
          BY Zenon, <1>3, <3>2 DEF Answers
        <4>2. QED
          BY Zenon, <3>2, <4>1, PendingIs DEF Single
      <3>3. QED
        BY Zenon, <3>1, <3>2
    <2>5. QED
      BY Zenon, <2>1, <2>2, <2>3, <2>4 DEF Answered, Single
  <1>4. QED
    BY Zenon, <1>2, <1>3, StepConn

(* The connections stay in order when a slave takes a step. *)
LEMMA StepConnInv ==
  ASSUME SlaveTypeOK, ConnInv, NEW s \in Slaves, SlaveStep(s), UNCHANGED thread,
         \A c \in Clients : Target(c) \in Slaves
  PROVE  ConnInv'
  <1>1. /\ Single(s)' /\ Pending(s)' \subseteq Pending(s)
        /\ \A c \in Clients : Answered(s, c)
    BY Zenon, StepPending DEF ConnInv
  <1>2. \A t \in Slaves \ {s} : Pending(t)' = Pending(t) /\ (Single(t) => Single(t)')
    BY Zenon, StepOthers, SamePending
  <1>3. \A c \in Clients : Target(c)' = Target(c) /\ (Waits(c)' <=> Waits(c))
    BY Zenon DEF Target, Reading, Waits
  <1>4. ASSUME NEW t \in Slaves, NEW p \in Pending(t)' PROVE ConnOf(t, p)'
    <2>1. p \in Pending(t) /\ ConnOf(t, p)
      BY Zenon, <1>1, <1>2 DEF ConnInv
    <2>2. ASSUME p.owner \in Clients PROVE reply'[p.owner].type = "none"
      <3>1. t = Target(p.owner) /\ reply[p.owner].type = "none"
        BY Zenon, <2>1, <2>2 DEF ConnOf
      <3>2. CASE reply'[p.owner] # reply[p.owner]
        <4>1. PICK x \in Pending(s) : x.owner = p.owner
          BY Zenon, <1>1, <2>2, <3>2 DEF Answered
        <4>2. s = Target(p.owner)
          BY Zenon, <2>2, <4>1 DEF ConnInv, ConnOf
        <4>3. p \notin Pending(s)'
          BY Zenon, <1>1, <2>2, <3>2 DEF Answered
        <4>4. QED
          BY Zenon, <1>4, <3>1, <4>2, <4>3
      <3>3. QED
        BY Zenon, <3>1, <3>2
    <2>3. QED
      BY Zenon, <1>3, <2>1, <2>2 DEF ConnOf
  <1>5. ASSUME NEW c \in Clients PROVE Connected(c)'
    <2> SUFFICES ASSUME Waits(c)', reply'[c].type = "none"
                 PROVE  \E p \in Pending(Target(c))' : p.owner = c
      BY Zenon DEF Connected
    <2>1. reply'[c] = reply[c] /\ \A p \in Pending(s) : p.owner = c => p \in Pending(s)'
      BY Zenon, <1>1 DEF Answered
    <2>2. PICK t \in Slaves : t = Target(c) /\ t = Target(c)'
      BY Zenon, <1>3
    <2>3. PICK p \in Pending(t) : p.owner = c
      BY Zenon, <1>3, <2>1, <2>2 DEF ConnInv, Connected
    <2>4. p \in Pending(t)'
      BY Zenon, <1>2, <2>1, <2>3
    <2>5. Pending(t)' = Pending(Target(c))'
      BY Zenon, <2>2 DEF Pending
    <2>6. QED
      BY Zenon, <2>3, <2>4, <2>5
  <1>6. QED
    BY Zenon, <1>1, <1>2, <1>4, <1>5 DEF ConnInv

-----------------------------------------------------------------------------
(* A step of a slave keeps what its role in the transaction says of it. *)

(* The store that a request is applied to holds it afterwards. *)
LEMMA ApplyHolds ==
  ASSUME NEW st \in Store, NEW r \in Request, Check(st, r) \/ Holds(st, r)
  PROVE  Holds(Apply(st, r), r)
  <1>1. CASE r \in PutReq
    <2>1. r.type = "PUTREQ" /\ r.key \in Keys /\ r.value \in Values
      BY Zenon, <1>1 DEF PutReq
    <2>2. QED
      BY Zenon, <2>1 DEF Apply, Check, Store, Holds
  <1>2. CASE r \in DelReq
    <2>1. r.type = "DELREQ" /\ r.key \in Keys
      BY Zenon, <1>2 DEF DelReq
    <2>2. QED
      BY Zenon, <2>1 DEF Apply, Check, Store, Holds
  <1>3. QED
    BY Zenon, <1>1, <1>2 DEF Request

(* A step of a slave keeps what its job is about. *)
LEMMA StepJob ==
  ASSUME SlaveTypeOK, NEW s \in Slaves, SlaveStep(s), JobOf(s)
  PROVE  JobOf(s)' /\ up[s]' = up[s]
  <1> DEFINE j == job[s]
  <1>1. j \in Job \cup {Idle} /\ Idle.pc = "idle" /\ log[s] \in Seq(Entry)
    BY Zenon DEF SlaveTypeOK, Idle
  <1>2. up[s] /\ up'[s]
    BY Zenon
       DEF SlaveStep, HandleGet, RefuseInWait, Accept, Pop, Log, Vote,
           ApplyCommit, Ack
  <1>3. CASE HandleGet(s) \/ RefuseInWait(s)
    BY Zenon, <1>1, <1>2, <1>3 DEF HandleGet, RefuseInWait, Pop, JobOf
  <1>4. CASE Accept(s)
    <2>1. job'[s].pc = "log"
      BY Zenon, <1>4 DEF Accept, SlaveTypeOK
    <2>2. QED
      BY Zenon, <1>2, <2>1 DEF JobOf
  <1>5. CASE Log(s)
    <2>1. j \in Job /\ j.conn.msg \in Entry
      BY Zenon, <1>1, <1>5, JobType DEF Log
    <2>2. job'[s].pc = AfterLog(j.conn.msg) /\ job'[s].conn = j.conn
          /\ log'[s] = Append(log[s], j.conn.msg)
      BY Zenon, <1>5, <2>1 DEF Log, SlaveTypeOK, Job
    <2>3. LastEntry(log'[s]) = j.conn.msg
      BY <1>1, <2>1, <2>2, LastAppend
    <2>4. QED
      BY Zenon, <1>2, <2>1, <2>2, <2>3 DEF JobOf, AfterLog
  <1>6. CASE Vote(s) \/ Ack(s)
    BY Zenon, <1>1, <1>2, <1>6 DEF Vote, Ack, JobOf, SlaveTypeOK
  <1>7. CASE ApplyCommit(s)
    <2>1. j \in Job
      BY Zenon, <1>1, <1>7, JobType DEF ApplyCommit
    <2>2. job'[s].pc = "ack" /\ job'[s].conn = j.conn
      BY Zenon, <1>7, <2>1 DEF ApplyCommit, SlaveTypeOK, Job
    <2>3. QED
      BY Zenon, <1>2, <1>7, <2>2, Messages DEF JobOf, ApplyCommit, IsRequest
  <1>8. QED
    BY Zenon, <1>2, <1>3, <1>4, <1>5, <1>6, <1>7 DEF SlaveStep

(* A slave without requests and decisions only answers reads. *)
LEMMA QuietStep ==
  ASSUME SlaveTypeOK, NEW s \in Slaves, SlaveStep(s), NoEntry(s)
  PROVE  /\ NoEntry(s)' /\ up'[s] = up[s] /\ state'[s] = state[s]
         /\ log'[s] = log[s] /\ store'[s] = store[s]
  <1>1. job[s] = Idle /\ Idle.pc = "idle" /\ wq[s] \in Seq(Conn)
        /\ \A p \in InQ(wq[s]) : p.msg \notin Entry
    BY Zenon DEF NoEntry, Idle, SlaveTypeOK
  <1>2. ASSUME Pop(s)
        PROVE  /\ wq'[s] = Tail(wq[s]) /\ InQ(wq[s]) = InQ(wq'[s]) \cup {Head(wq[s])}
    BY Zenon, <1>1, <1>2, PopQueue DEF Pop, SlaveTypeOK
  <1>3. HandleGet(s)
    <2>1. ~Log(s) /\ ~Vote(s) /\ ~ApplyCommit(s) /\ ~Ack(s)
      BY Zenon, <1>1 DEF Log, Vote, ApplyCommit, Ack
    <2>2. ~RefuseInWait(s) /\ ~Accept(s)
      BY Zenon, <1>1, <1>2, Messages DEF RefuseInWait, Accept, IsRequest
    <2>3. QED
      BY Zenon, <2>1, <2>2 DEF SlaveStep
  <1>4. Pop(s) /\ job' = job
    BY Zenon, <1>3 DEF HandleGet
  <1>5. QED
    BY Zenon, <1>1, <1>2, <1>4 DEF NoEntry, Pop

(* A slave without a request or decision stays as far as it has come. *)
LEMMA QuietRoles ==
  ASSUME SlaveTypeOK, NEW s \in Slaves, SlaveStep(s), NoEntry(s)
  PROVE  /\ Clean(s) => Clean(s)'
         /\ \A r : (Bound(s, r) => Bound(s, r)') /\ (Done(s, r) => Done(s, r)')
  BY Zenon, QuietStep DEF Clean, Bound, Done, Ready, Waiting, Holds

-----------------------------------------------------------------------------
(* The slaves that a step leaves alone keep their roles. *)

(* The slave a thread of the master talks to is one of the list. *)
LEMMA Targets ==
  ASSUME TypeOK, OneWriter, NEW c \in Clients
  PROVE  /\ thread[c].at \in 1..Len(Order) /\ Len(Order) \in Nat
         /\ Order[thread[c].at] \in Slaves /\ Target(c) \in Slaves
         /\ InTPC(c) => Target(c) = Order[thread[c].at]
  <1>1. /\ Len(Order) \in Nat /\ Len(Order) >= 1
        /\ \A n \in 1..Len(Order) : Order[n] \in Slaves
    BY MasterAssumption
  <1>2. thread[c].at \in 1..Len(Order)
    BY Zenon DEF TypeOK, Thread
  <1>3. ASSUME Reading(c) PROVE Target(c) \in Slaves
    <2> DEFINE p == Primary[thread[c].req.key]
               i == p + thread[c].at - 2
    <2>1. thread[c].req.key \in Keys
      BY Zenon, <1>3 DEF OneWriter, GetReq
    <2>2. p \in 1..Len(Order)
      BY Zenon, <2>1, MasterAssumption
    <2>3. i \in Nat
      BY <1>1, <1>2, <2>2
    <2> HIDE DEF i
    <2>4. (i % Len(Order)) + 1 \in 1..Len(Order)
      BY <1>1, <2>3
    <2>5. QED
      BY Zenon, <1>1, <1>3, <2>4 DEF Target, Replica, i
  <1>4. InTPC(c) => ~Reading(c)
    BY Zenon DEF InTPC, Reading
  <1>5. QED
    BY Zenon, <1>1, <1>2, <1>3, <1>4 DEF Target

(* Reads may come and go. *)
Entries(q) == {p \in InQ(q) : p.msg \in Entry}

Harmless(s) == /\ up'[s] = up[s] /\ state'[s] = state[s] /\ log'[s] = log[s]
               /\ store'[s] = store[s] /\ job'[s] = job[s]
               /\ Entries(wq'[s]) = Entries(wq[s])
               /\ \A d : LastIn(wq[s], d) => LastIn(wq'[s], d)

(* Nothing happens to a slave no step has touched. *)
LEMMA SameHarmless ==
  ASSUME NEW s, Same(s)
  PROVE  Harmless(s)
  BY Zenon DEF Same, Harmless

(* A step harmless to a slave leaves it as far as it has come. *)
LEMMA SameRoles ==
  ASSUME NEW t, Harmless(t)
  PROVE  /\ NoEntry(t)' <=> NoEntry(t)
         /\ Clean(t)' <=> Clean(t)
         /\ Waiting(t)' <=> Waiting(t)
         /\ \A p : p.msg \in Entry => (p \in Pending(t)' <=> p \in Pending(t))
         /\ \A r : /\ Bound(t, r)' <=> Bound(t, r)
                   /\ Loose(t, r)' <=> Loose(t, r)
                   /\ Done(t, r)' <=> Done(t, r)
         /\ \A r \in Request : Gets(t, r)' <=> Gets(t, r)
  <1>1. /\ up'[t] = up[t] /\ state'[t] = state[t] /\ log'[t] = log[t]
        /\ store'[t] = store[t] /\ job'[t] = job[t]
        /\ \A p : p.msg \in Entry => (p \in InQ(wq'[t]) <=> p \in InQ(wq[t]))
    BY Zenon DEF Harmless, Entries
  <1>2. /\ NoEntry(t)' <=> NoEntry(t)
        /\ Waiting(t)' <=> Waiting(t)
    BY Zenon, <1>1 DEF NoEntry, Waiting
  <1>3. \A p : p.msg \in Entry => (p \in Pending(t)' <=> p \in Pending(t))
    BY Zenon, <1>1, PendingIs
  <1>4. Clean(t)' <=> Clean(t)
    BY Zenon, <1>1, <1>2 DEF Clean
  <1>5. ASSUME NEW r PROVE Bound(t, r)' <=> Bound(t, r)
    BY Zenon, <1>1, <1>2 DEF Bound, Ready, Check
  <1>6. ASSUME NEW r PROVE Loose(t, r)' <=> Loose(t, r)
    BY Zenon, <1>3 DEF Loose
  <1>7. ASSUME NEW r PROVE Done(t, r)' <=> Done(t, r)
    BY Zenon, <1>1 DEF Done, Holds
  <1>8. ASSUME NEW r \in Request PROVE Gets(t, r)' <=> Gets(t, r)
    BY Zenon, <1>1, <1>2, Messages DEF Gets
  <1>9. QED
    BY Zenon, <1>2, <1>3, <1>4, <1>5, <1>6, <1>7, <1>8

(* A thread that stays where it is sees the slave at n as before. *)
SameThread(c) == thread'[c] = thread[c] /\ voted'[c] = voted[c]

(* A step harmless to the slave at position n keeps the invariant there. *)
LEMMA SamePhase ==
  ASSUME NEW c, NEW n, Harmless(Order[n]), SameThread(c), thread[c].req \in Request,
         reply'[c] = reply[c] \/ n # thread[c].at \/ ~Waits(c)
  PROVE  /\ InPhase(c, n) => InPhase(c, n)'
         /\ \A B : Agrees(c, n, B) => Agrees(c, n, B)'
  <1> DEFINE s == Order[n]
  <1>0. PICK r \in Request : r = thread[c].req
    BY Zenon
  <1>1. /\ NoEntry(s)' <=> NoEntry(s)
        /\ Clean(s)' <=> Clean(s)
        /\ Waiting(s)' <=> Waiting(s)
        /\ \A p : p.msg \in Entry => (p \in Pending(s)' <=> p \in Pending(s))
        /\ Bound(s, r)' <=> Bound(s, r)
        /\ Loose(s, r)' <=> Loose(s, r)
        /\ Done(s, r)' <=> Done(s, r)
        /\ Gets(s, r)' <=> Gets(s, r)
    BY Zenon, SameRoles
  <1>2. thread'[c] = thread[c] /\ voted'[c] = voted[c]
    BY Zenon DEF SameThread
  <1>3. (Undecided(c, s)' <=> Undecided(c, s)) /\ (Decided(c, s)' <=> Decided(c, s))
    BY Zenon, <1>0, <1>1, <1>2 DEF Undecided, Decided
  <1>4. ASSUME reply'[c] = reply[c]
        PROVE  (Asked(c, s) => Asked(c, s)') /\ (Told(c, s) => Told(c, s)')
    <2>1. Decision(c)' = Decision(c) /\ thread'[c].req = r
      BY Zenon, <1>0, <1>2 DEF Decision
    <2>2. Asked(c, s) => Asked(c, s)'
      BY Zenon, <1>0, <1>1, <1>2, <1>4 DEF Asked, AskedVote
    <2>3. ASSUME ToldQueue(c, s) PROVE ToldQueue(c, s)'
      <3>1. \A p \in InQ(wq'[s]) : p.msg \in Entry => p \in InQ(wq[s])
        BY Zenon DEF Harmless, Entries
      <3>2. LastIn(wq'[s], Decision(c)) /\ job'[s] = job[s]
        BY Zenon, <2>3 DEF ToldQueue, Harmless
      <3>3. QED
        BY Zenon, <1>1, <1>2, <2>1, <2>3, <3>1, <3>2 DEF ToldQueue
    <2>4. ToldJob(c, s) => ToldJob(c, s)'
      BY Zenon, <1>2, <2>1
         DEF ToldJob, Harmless, Ready, Waiting, Done, Holds, Check
    <2>5. QED
      BY Zenon, <1>1, <1>3, <1>4, <2>2, <2>3, <2>4 DEF Told
  <1>5. InPhase(c, n) => InPhase(c, n)'
    BY Zenon, <1>1, <1>2, <1>3, <1>4 DEF InPhase, Phase1, Phase2, Waits
  <1>6. ASSUME NEW B, Agrees(c, n, B) PROVE Agrees(c, n, B)'
    <2>1. Outcome(c, B)' = Outcome(c, B) /\ store'[s] = store[s] /\ job'[s] = job[s]
      BY Zenon, <1>2 DEF Outcome, Apply, Check, Harmless
    <2>2. reply'[c] = reply[c] /\ Deciding(c, s, B) => Deciding(c, s, B)'
      BY Zenon, <1>0, <1>1, <1>2, <2>1 DEF Deciding
    <2>3. Gets(s, thread[c].req)' <=> Gets(s, thread[c].req)
      BY Zenon, <1>0, <1>1, <1>2 DEF Gets
    <2>4. QED
      BY <1>2, <1>6, <2>1, <2>2, <2>3 DEF Agrees, Phase1, Phase2, Waits
  <1>7. QED
    BY Zenon, <1>5, <1>6

(* The slave that takes the step keeps its role. *)
LEMMA StepPhase ==
  \A c \in Clients, n \in Int :
    /\ SlaveTypeOK /\ thread[c].at \in Int /\ Order[n] \in Slaves /\ SlaveStep(Order[n])
    /\ JobOf(Order[n]) /\ Single(Order[n]) /\ \A p \in Pending(Order[n]) : ConnOf(Order[n], p)
    /\ thread[c].req \in Request /\ thread' = thread /\ voted' = voted /\ InPhase(c, n)
    => InPhase(c, n)' /\ \A B : Agrees(c, n, B) => Agrees(c, n, B)'
  (* What the steps of a slave do to its queue, its log and its handler.    *)
  <1>StepPop.
    ASSUME SlaveTypeOK, NEW s \in Slaves, Pop(s)
    PROVE  /\ wq[s] # <<>> /\ wq'[s] = Tail(wq[s]) /\ wq[s] \in Seq(Conn)
           /\ job[s] = Idle /\ job[s].pc = "idle"
           /\ Head(wq[s]) \in InQ(wq[s]) /\ Head(wq[s]) \in Conn
           /\ InQ(wq[s]) = InQ(wq'[s]) \cup {Head(wq[s])}
           /\ Pending(s) = InQ(wq[s])
           /\ \A d : LastIn(wq[s], d) =>
                /\ LastIn(wq'[s], d)
                /\ Head(wq[s]).msg = d => \A p \in InQ(wq'[s]) : p.msg \notin Entry
           /\ up'[s] = up[s] /\ state'[s] = state[s] /\ log'[s] = log[s]
           /\ store'[s] = store[s]
    <2> USE <1>StepPop
    <2>1. /\ wq[s] # <<>> /\ wq'[s] = Tail(wq[s]) /\ wq[s] \in Seq(Conn)
          /\ job[s] = Idle /\ Idle.pc = "idle"
          /\ up'[s] = up[s] /\ state'[s] = state[s] /\ log'[s] = log[s]
          /\ store'[s] = store[s]
      BY Zenon DEF Pop, SlaveTypeOK, Idle
    <2>2. /\ Head(wq[s]) \in Conn /\ InQ(wq[s]) = InQ(wq'[s]) \cup {Head(wq[s])}
          /\ \A d : LastIn(wq[s], d) =>
                /\ LastIn(wq'[s], d)
                /\ Head(wq[s]).msg = d => \A p \in InQ(wq'[s]) : p.msg \notin Entry
      BY Zenon, <2>1, PopQueue
    <2>3. Pending(s) = InQ(wq[s])
      BY Zenon, <2>1, PendingIs
    <2>4. QED
      BY Zenon, <2>1, <2>2, <2>3

  <1>StepAccept.
    ASSUME SlaveTypeOK, NEW s \in Slaves, Accept(s)
    PROVE  /\ Pop(s) /\ Head(wq[s]).msg \in Entry /\ reply' = reply
           /\ IsRequest(Head(wq[s]).msg) => ~Waiting(s)
           /\ job'[s] # Idle /\ job'[s].pc = "log" /\ job'[s].conn = Head(wq[s])
           /\ Head(wq[s]).msg = COMMIT => job'[s].entry = LastEntry(log[s])
    BY Zenon, <1>StepAccept DEF Accept, SlaveTypeOK, Idle, Refuses

  <1>StepBusy.
    ASSUME SlaveTypeOK, NEW s \in Slaves, job[s].pc # "idle"
    PROVE  /\ job[s] # Idle /\ job[s] \in Job /\ job[s].conn \in Pending(s)
           /\ job[s].conn.msg \in Entry /\ job[s].conn \in Conn
           /\ job[s].pc \in {"log", "vote", "apply", "ack"}
           /\ Pending(s) = InQ(wq[s]) \cup {job[s].conn}
    <2> USE <1>StepBusy
    <2>1. job[s] \in Job \cup {Idle} /\ Idle.pc = "idle"
      BY Zenon DEF SlaveTypeOK, Idle
    <2>2. QED
      BY Zenon, <2>1, JobType, PendingIs

  <1>StepLog.
    ASSUME SlaveTypeOK, NEW s \in Slaves, Log(s)
    PROVE  /\ job[s].pc = "log" /\ reply' = reply /\ wq'[s] = wq[s]
           /\ log[s] \in Seq(Entry) /\ log'[s] = Append(log[s], job[s].conn.msg)
           /\ LastEntry(log'[s]) = job[s].conn.msg
           /\ job'[s] # Idle /\ job'[s].pc = AfterLog(job[s].conn.msg)
           /\ job'[s].conn = job[s].conn /\ job'[s].entry = job[s].entry
           /\ up'[s] = up[s] /\ state'[s] = state[s] /\ store'[s] = store[s]
    <2> USE <1>StepLog
    <2>1. /\ job[s].pc = "log" /\ reply' = reply /\ wq'[s] = wq[s]
          /\ log[s] \in Seq(Entry) /\ log'[s] = Append(log[s], job[s].conn.msg)
          /\ job'[s] = [job[s] EXCEPT !.pc = AfterLog(job[s].conn.msg)]
          /\ up'[s] = up[s] /\ state'[s] = state[s] /\ store'[s] = store[s]
      BY Zenon DEF Log, SlaveTypeOK
    <2>2. job[s] \in Job /\ job[s].conn.msg \in Entry
      BY Zenon, <2>1, <1>StepBusy
    <2>3. /\ job'[s].pc = AfterLog(job[s].conn.msg)
          /\ job'[s].conn = job[s].conn /\ job'[s].entry = job[s].entry
      BY Zenon, <2>1, <2>2 DEF Job
    <2>4. job'[s] # Idle
      BY Zenon, <2>3, Fields DEF AfterLog
    <2>5. QED
      BY Zenon, <2>1, <2>2, <2>3, <2>4, LastAppend

  <1>StepVote.
    ASSUME SlaveTypeOK, NEW s \in Slaves, Vote(s)
    PROVE  /\ job[s].pc = "vote" /\ job'[s] = Idle /\ job'[s].pc = "idle" /\ wq'[s] = wq[s]
           /\ up'[s] = up[s] /\ log'[s] = log[s] /\ store'[s] = store[s]
           /\ Waiting(s)' <=> Check(store[s], job[s].conn.msg)
           /\ \A c \in Clients :
                IF c = job[s].conn.owner
                THEN reply'[c].type = IF Check(store[s], job[s].conn.msg)
                                      THEN "VOTE_COMMIT" ELSE "VOTE_ABORT"
                ELSE reply'[c] = reply[c]
    <2> USE <1>StepVote
    <2>1. /\ job[s].pc = "vote" /\ job'[s] = Idle /\ wq'[s] = wq[s]
          /\ up'[s] = up[s] /\ log'[s] = log[s] /\ store'[s] = store[s]
          /\ Waiting(s)' <=> Check(store[s], job[s].conn.msg)
      BY Zenon DEF Vote, SlaveTypeOK, Waiting
    <2>2. \A c \in Clients : reply'[c] =
                IF c = job[s].conn.owner
                THEN [type |-> IF Check(store[s], job[s].conn.msg) THEN "VOTE_COMMIT"
                               ELSE "VOTE_ABORT"]
                ELSE reply[c]
      BY Zenon DEF Vote, SlaveTypeOK, Answer
    <2>3. [type |-> "VOTE_COMMIT"].type = "VOTE_COMMIT"
          /\ [type |-> "VOTE_ABORT"].type = "VOTE_ABORT"
      BY Zenon
    <2>4. QED
      BY Zenon, <2>1, <2>2, <2>3, Fields

  <1>StepApply.
    ASSUME SlaveTypeOK, NEW s \in Slaves, ApplyCommit(s)
    PROVE  /\ job[s].pc = "apply" /\ reply' = reply /\ wq'[s] = wq[s]
           /\ job'[s] # Idle /\ job'[s].pc = "ack" /\ job'[s].conn = job[s].conn
           /\ up'[s] = up[s] /\ state'[s] = state[s] /\ log'[s] = log[s]
           /\ job[s].entry # NoRequest => store'[s] = Apply(store[s], job[s].entry)
    <2> USE <1>StepApply
    <2>1. /\ job[s].pc = "apply" /\ reply' = reply /\ wq'[s] = wq[s]
          /\ job'[s] = [job[s] EXCEPT !.pc = "ack"]
          /\ up'[s] = up[s] /\ state'[s] = state[s] /\ log'[s] = log[s]
          /\ job[s].entry # NoRequest => store'[s] = Apply(store[s], job[s].entry)
      BY Zenon DEF ApplyCommit, SlaveTypeOK
    <2>2. job[s] \in Job
      BY Zenon, <2>1, <1>StepBusy
    <2>3. job'[s].pc = "ack" /\ job'[s].conn = job[s].conn
      BY Zenon, <2>1, <2>2 DEF Job
    <2>4. QED
      BY Zenon, <2>1, <2>3, Fields

  <1>StepAck.
    ASSUME SlaveTypeOK, NEW s \in Slaves, Ack(s)
    PROVE  /\ job[s].pc = "ack" /\ job'[s] = Idle /\ job'[s].pc = "idle" /\ wq'[s] = wq[s]
           /\ up'[s] = up[s] /\ log'[s] = log[s] /\ store'[s] = store[s] /\ ~Waiting(s)'
           /\ \A c \in Clients : reply'[c] = IF c = job[s].conn.owner
                                             THEN [type |-> "ACK"] ELSE reply[c]
    <2> USE <1>StepAck
    <2>1. /\ job[s].pc = "ack" /\ job'[s] = Idle /\ wq'[s] = wq[s]
          /\ up'[s] = up[s] /\ log'[s] = log[s] /\ store'[s] = store[s] /\ ~Waiting(s)'
      BY Zenon DEF Ack, SlaveTypeOK, Waiting
    <2>2. \A c \in Clients : reply'[c] = IF c = job[s].conn.owner
                                         THEN [type |-> "ACK"] ELSE reply[c]
      BY Zenon DEF Ack, SlaveTypeOK, Answer
    <2>3. QED
      BY Zenon, <2>1, <2>2, Fields

  (* A read, or a request refused: only a client that reads, or that sent   *)
  (* the request, is answered.                                              *)
  <1>StepSkip.
    ASSUME SlaveTypeOK, NEW s \in Slaves, HandleGet(s) \/ RefuseInWait(s)
    PROVE  /\ Pop(s) /\ job'[s] = Idle /\ job'[s].pc = "idle"
           /\ \A c \in Clients : c # Head(wq[s]).owner => reply'[c] = reply[c]
    <2>1. Pop(s) /\ job[s] = Idle /\ job' = job
      BY Zenon, <1>StepSkip DEF HandleGet, RefuseInWait, Pop
    <2>2. \E r : Answer(Head(wq[s]), r)
      BY Zenon, <1>StepSkip DEF HandleGet, RefuseInWait
    <2>3. \A c \in Clients : c # Head(wq[s]).owner => reply'[c] = reply[c]
      BY Zenon, <1>StepSkip, <2>2 DEF SlaveTypeOK, Answer
    <2>4. QED
      BY Zenon, <2>1, <2>3, Fields

  (* The slave that phase 1 waits for.                                      *)
  <1>StepAsked.
    ASSUME SlaveTypeOK, NEW s \in Slaves, SlaveStep(s), JobOf(s), Single(s),
           \A p \in Pending(s) : ConnOf(s, p),
           NEW c \in Clients, thread[c].pc = "wait1", thread[c].req \in Request,
           thread' = thread, voted' = voted, Asked(c, s)
    PROVE  Asked(c, s)'
    <2> USE <1>StepAsked
    <2> DEFINE r == thread[c].req
    <2>1. /\ Pending(s)' \subseteq Pending(s) /\ Answered(s, c)
          /\ \A p \in Pending(s) : p.owner = c => reply[c].type = "none" /\ p.msg \in Entry
      BY Zenon, StepPending DEF ConnOf
    <2>2. CASE reply[c].type # "none"
      <3>1. NoEntry(s)
        BY Zenon, <2>2 DEF Asked, Bound
      <3>2. reply'[c] = reply[c]
        BY Zenon, <2>1, <2>2 DEF Answered
      <3>3. QED
        BY Zenon, <2>2, <3>1, <3>2, QuietStep, QuietRoles DEF Asked
    <2>3. CASE reply[c].type = "none"
      <3>1. /\ \A p \in Pending(s) : p.msg \in Entry => p.msg = r /\ p.owner = c
            /\ ~Waiting(s) /\ s \notin voted[c]
        BY Zenon, <2>3 DEF Asked, AskedVote
      <3>2. ASSUME reply'[c] = reply[c], ~Waiting(s)' PROVE Asked(c, s)'
        BY Zenon, <2>1, <2>3, <3>1, <3>2 DEF Asked, AskedVote
      <3>3. CASE HandleGet(s)
        <4>1. Head(wq[s]).msg.type = "GETREQ" /\ Pop(s)
          BY Zenon, <3>3 DEF HandleGet
        <4>2. Head(wq[s]) \in Pending(s) /\ Head(wq[s]) \in Conn /\ state'[s] = state[s]
          BY Zenon, <4>1, <1>StepPop
        <4>3. Head(wq[s]).msg \notin Entry
          BY Zenon, <4>1, <4>2, Messages DEF Conn
        <4>4. QED
          BY Zenon, <2>1, <3>1, <3>2, <3>3, <4>2, <4>3, <1>StepSkip DEF Waiting
      <3>4. CASE RefuseInWait(s)
        BY Zenon, <3>1, <3>4 DEF RefuseInWait, Refuses
      <3>5. CASE Accept(s)
        BY Zenon, <3>1, <3>2, <3>5, <1>StepAccept, <1>StepPop DEF Waiting
      <3>6. CASE Log(s)
        BY Zenon, <3>1, <3>2, <3>6, <1>StepLog DEF Waiting
      <3>7. CASE Vote(s)
        <4>1. job[s].conn.msg = r /\ job[s].conn.owner = c /\ job[s].conn \in Pending(s)
          BY Zenon, <3>1, <3>7, <1>StepVote, <1>StepBusy
        <4>2. LastEntry(log'[s]) = r
          BY Zenon, <3>7, <4>1, <1>StepVote DEF JobOf
        <4>3. NoEntry(s)'
          <5>1. reply'[c].type # "none"
            BY Zenon, <3>7, <4>1, <1>StepVote
          <5>2. \A p \in Pending(s)' : p.owner # c
            BY Zenon, <2>1, <2>3, <5>1 DEF Answered
          <5>3. \A p \in InQ(wq'[s]) : p.msg \notin Entry
            BY Zenon, <2>1, <3>1, <5>2, PendingIs
          <5>4. QED
            BY Zenon, <3>7, <5>3, <1>StepVote DEF NoEntry
        <4>4. CASE Check(store[s], r)
          <5>1. reply'[c].type = "VOTE_COMMIT" /\ Waiting(s)' /\ store'[s] = store[s]
            BY Zenon, <3>7, <4>1, <4>4, <1>StepVote
          <5>2. QED
            BY Zenon, <3>1, <4>2, <4>3, <4>4, <5>1 DEF Asked, Bound, Ready, Check
        <4>5. CASE ~Check(store[s], r)
          <5>1. reply'[c].type = "VOTE_ABORT"
            BY Zenon, <3>7, <4>1, <4>5, <1>StepVote
          <5>2. QED
            BY Zenon, <3>1, <4>3, <5>1 DEF Asked
        <4>6. QED
          BY Zenon, <4>4, <4>5
      <3>8. CASE ApplyCommit(s) \/ Ack(s)
        <4>1. ~IsRequest(job[s].conn.msg) /\ job[s].conn.msg \in Entry
              /\ job[s].conn \in Pending(s)
          BY Zenon, <3>8, <1>StepBusy, <1>StepApply, <1>StepAck, Messages
             DEF JobOf, IsRequest
        <4>2. QED
          BY Zenon, <3>1, <4>1 DEF IsRequest
      <3>9. QED
        BY Zenon, <3>3, <3>4, <3>5, <3>6, <3>7, <3>8 DEF SlaveStep
    <2>4. QED
      BY Zenon, <2>2, <2>3

  (* It answers reads, and requests it refuses, to others than the thread   *)
  (* that waits for the ACK.                                                *)
  <1>ToldSkip.
    ASSUME SlaveTypeOK, NEW s \in Slaves, \A p \in Pending(s) : ConnOf(s, p),
           NEW c \in Clients, thread[c].pc = "wait2", ToldQueue(c, s),
           HandleGet(s) \/ RefuseInWait(s)
    PROVE  reply'[c] = reply[c]
    <2> USE <1>ToldSkip
    <2>1. Pop(s) /\ \A x \in Clients : x # Head(wq[s]).owner => reply'[x] = reply[x]
      BY Zenon, <1>StepSkip
    <2>2. Head(wq[s]) \in Pending(s) /\ Head(wq[s]) \in Conn
      BY Zenon, <2>1, <1>StepPop
    <2>3. CASE HandleGet(s)
      <3>1. Head(wq[s]).msg \notin Entry
        BY Zenon, <2>2, <2>3, Messages DEF HandleGet, Conn
      <3>2. QED
        BY Zenon, <2>1, <2>2, <3>1 DEF ConnOf
    <2>4. CASE RefuseInWait(s)
      <3>1. Head(wq[s]).msg \in Request /\ Head(wq[s]).msg \in Entry
        BY Zenon, <2>4, Messages DEF RefuseInWait, IsRequest
      <3>2. Decision(c) \notin Request /\ c # None
        BY Zenon, Messages, MasterAssumption DEF Decision
      <3>3. QED
        BY <2>1, <2>2, <3>1, <3>2 DEF ToldQueue
    <2>5. QED
      BY Zenon, <2>3, <2>4

  (* The slave that phase 2 waits for.                                      *)
  <1>StepTold.
    ASSUME SlaveTypeOK, NEW s \in Slaves, SlaveStep(s), JobOf(s), Single(s),
           \A p \in Pending(s) : ConnOf(s, p),
           NEW c \in Clients, thread[c].pc = "wait2", thread[c].req \in Request,
           thread' = thread, voted' = voted, Told(c, s)
    PROVE  Told(c, s)'
    <2> USE <1>StepTold
    <2> DEFINE r == thread[c].req
               d == Decision(c)
    <2>1. /\ Pending(s)' \subseteq Pending(s) /\ Answered(s, c)
          /\ \A p \in Pending(s) : p.owner = c => reply[c].type = "none" /\ p.msg \in Entry
      BY Zenon, StepPending DEF ConnOf
    <2>2. CASE reply[c].type # "none"
      <3>1. NoEntry(s)
        BY Zenon, <2>2 DEF Told, Decided, Clean
      <3>2. reply'[c] = reply[c]
        BY Zenon, <2>1, <2>2 DEF Answered
      <3>3. QED
        BY Zenon, <2>2, <3>1, <3>2, QuietStep, QuietRoles DEF Told, Decided
    <2>3. CASE reply[c].type = "none"
      <3>1. ToldQueue(c, s) /\ ToldJob(c, s)
        BY Zenon, <2>3 DEF Told
      <3>2. /\ Decision(c)' = d /\ d \in {COMMIT, ABORT} /\ r \in Request
            /\ d # r /\ d \in Entry /\ ~IsRequest(d) /\ IsRequest(r) /\ c # None
        BY Zenon, Messages, MasterAssumption DEF Decision, IsRequest
      <3> HIDE DEF d
      <3>3. \A p \in Pending(s)' : p.msg \in Entry =>
              \/ p.msg = d /\ p.owner = c
              \/ p.msg = r /\ p.owner = None /\ s \notin voted[c]
        BY Zenon, <2>1, <3>1 DEF ToldQueue, d
      <3>4. ASSUME reply'[c] = reply[c], LastIn(wq'[s], d), ToldJob(c, s)',
                   job'[s] # Idle /\ job'[s].conn.msg = d =>
                     \A p \in InQ(wq'[s]) : p.msg \notin Entry
            PROVE  Told(c, s)'
        BY Zenon, <2>3, <3>2, <3>3, <3>4 DEF Told, ToldQueue
      <3>5. LastIn(wq[s], d)
        BY Zenon, <3>1 DEF ToldQueue, d
      <3>6. CASE HandleGet(s) \/ RefuseInWait(s)
        <4>1. Pop(s) /\ job'[s] = Idle /\ job'[s].pc = "idle"
          BY Zenon, <3>6, <1>StepSkip
        <4>2. LastIn(wq'[s], d) /\ Head(wq[s]) \in Pending(s) /\ Head(wq[s]) \in Conn
              /\ Head(wq[s]) \in InQ(wq[s])
          BY Zenon, <3>5, <4>1, <1>StepPop
        <4>4. reply'[c] = reply[c]
          BY Zenon, <3>1, <3>6, <1>ToldSkip
        <4>5. ToldJob(c, s)'
          BY Zenon, <3>1, <4>1, <1>StepPop DEF ToldJob, Ready, Waiting
        <4>6. QED
          BY Zenon, <3>4, <4>1, <4>2, <4>4, <4>5
      <3>7. CASE Accept(s)
        <4>1. /\ Pop(s) /\ job'[s] # Idle /\ job'[s].pc = "log"
              /\ job'[s].conn = Head(wq[s]) /\ reply' = reply
              /\ Head(wq[s]).msg = COMMIT => job'[s].entry = LastEntry(log[s])
              /\ Head(wq[s]).msg \in Entry
          BY Zenon, <3>7, <1>StepAccept
        <4>2. /\ LastIn(wq'[s], d) /\ Head(wq[s]) \in Pending(s) /\ job[s].pc = "idle"
              /\ Head(wq[s]).msg = d => \A p \in InQ(wq'[s]) : p.msg \notin Entry
              /\ up'[s] = up[s] /\ state'[s] = state[s] /\ log'[s] = log[s]
              /\ store'[s] = store[s]
          BY Zenon, <3>5, <4>1, <1>StepPop
        <4>3. s \in voted[c] => Head(wq[s]).msg = d /\ Ready(s, r) /\ Check(store[s], r)
          BY Zenon, <3>1, <4>1, <4>2 DEF ToldQueue, ToldJob, d
        <4>4. ToldJob(c, s)'
          BY Zenon, <3>2, <4>1, <4>2, <4>3 DEF ToldJob, Ready, Waiting
        <4>5. QED
          BY Zenon, <3>4, <4>1, <4>2, <4>4
      <3>8. CASE Log(s)
        <4>1. /\ job[s].pc = "log" /\ reply' = reply /\ wq'[s] = wq[s]
              /\ log[s] \in Seq(Entry) /\ log'[s] = Append(log[s], job[s].conn.msg)
              /\ LastEntry(log'[s]) = job[s].conn.msg
              /\ job'[s] # Idle /\ job'[s].pc = AfterLog(job[s].conn.msg)
              /\ job'[s].conn = job[s].conn /\ job'[s].entry = job[s].entry
              /\ store'[s] = store[s]
          BY Zenon, <3>8, <1>StepLog
        <4>2. job[s] # Idle /\ job[s].conn \in Pending(s) /\ job[s].conn.msg \in Entry
          BY Zenon, <4>1, <1>StepBusy
        <4>3. /\ job[s].conn.msg = d \/ (job[s].conn.msg = r /\ s \notin voted[c])
              /\ job[s].conn.msg = d => \A p \in InQ(wq[s]) : p.msg \notin Entry
              /\ s \in voted[c] => Ready(s, r) /\ Check(store[s], r)
              /\ s \in voted[c] /\ d = COMMIT => job[s].entry = r
          BY Zenon, <3>1, <4>1, <4>2 DEF ToldQueue, ToldJob, d
        <4>4. CASE job[s].conn.msg = r
          <5>1. job'[s].pc = "vote" /\ s \notin voted[c]
            BY Zenon, <3>2, <4>1, <4>3, <4>4 DEF AfterLog
          <5>2. ToldJob(c, s)'
            BY Zenon, <5>1 DEF ToldJob
          <5>3. QED
            BY Zenon, <3>2, <3>4, <3>5, <4>1, <4>4, <5>2
        <4>5. CASE job[s].conn.msg = d
          <5>1. job'[s].pc = IF d = COMMIT THEN "apply" ELSE "ack"
            BY Zenon, <3>2, <4>1, <4>5 DEF AfterLog
          <5>2. s \in voted[c] /\ d = COMMIT => LastRequest(log'[s]) = r
            BY Zenon, <3>2, <4>1, <4>3, <4>5, CommitAfterRequest DEF Ready
          <5>3. ToldJob(c, s)'
            BY Zenon, <3>2, <4>1, <4>3, <4>5, <5>1, <5>2 DEF ToldJob
          <5>4. QED
            BY Zenon, <3>4, <3>5, <4>1, <4>3, <5>3
        <4>6. QED
          BY Zenon, <4>3, <4>4, <4>5
      <3>9. CASE Vote(s)
        <4>1. /\ job[s].pc = "vote" /\ job'[s] = Idle /\ job'[s].pc = "idle"
              /\ wq'[s] = wq[s] /\ job[s] # Idle /\ job[s].conn \in Pending(s)
              /\ IsRequest(job[s].conn.msg) /\ job[s].conn.msg \in Entry
          BY Zenon, <3>9, <1>StepVote, <1>StepBusy DEF JobOf
        <4>2. job[s].conn.owner = None /\ s \notin voted[c]
          BY Zenon, <3>1, <3>2, <4>1 DEF ToldQueue, d
        <4>3. reply'[c] = reply[c]
          BY Zenon, <3>2, <3>9, <4>2, <1>StepVote
        <4>4. ToldJob(c, s)'
          BY Zenon, <4>1, <4>2 DEF ToldJob
        <4>5. QED
          BY Zenon, <3>4, <3>5, <4>1, <4>3, <4>4
      <3>10. CASE ApplyCommit(s)
        <4>1. /\ job[s].pc = "apply" /\ reply' = reply /\ wq'[s] = wq[s]
              /\ job'[s] # Idle /\ job'[s].pc = "ack" /\ job'[s].conn = job[s].conn
              /\ log'[s] = log[s]
              /\ job[s].entry # NoRequest => store'[s] = Apply(store[s], job[s].entry)
          BY Zenon, <3>10, <1>StepApply
        <4>2. job[s] # Idle /\ job[s].conn.msg = COMMIT /\ job[s].conn \in Pending(s)
          BY Zenon, <4>1, <1>StepBusy DEF JobOf
        <4>3. d = COMMIT /\ LastEntry(log[s]) = d
              /\ \A p \in InQ(wq[s]) : p.msg \notin Entry
          BY Zenon, <3>1, <3>2, <4>1, <4>2, Messages DEF ToldQueue, ToldJob, d
        <4>4. s \in voted[c] =>
                job[s].entry = r /\ LastRequest(log[s]) = r /\ Check(store[s], r)
          BY Zenon, <3>1, <4>1, <4>3 DEF ToldJob, d
        <4>5. s \in voted[c] => Holds(store'[s], r)
          <5>1. store[s] \in Store /\ r # NoRequest
            BY Zenon, <3>2, Messages DEF SlaveTypeOK
          <5>2. QED
            BY Zenon, <3>2, <4>1, <4>4, <5>1, ApplyHolds
        <4>6. ToldJob(c, s)'
          BY Zenon, <3>2, <4>1, <4>3, <4>4, <4>5 DEF ToldJob, Done, Holds
        <4>7. QED
          BY Zenon, <3>4, <3>5, <4>1, <4>3, <4>6
      <3>11. CASE Ack(s)
        <4>1. /\ job[s].pc = "ack" /\ job'[s] = Idle /\ wq'[s] = wq[s]
              /\ log'[s] = log[s] /\ store'[s] = store[s] /\ ~Waiting(s)'
              /\ job[s] # Idle /\ job[s].conn \in Pending(s)
              /\ ~IsRequest(job[s].conn.msg) /\ job[s].conn.msg \in Entry
          BY Zenon, <3>11, <1>StepAck, <1>StepBusy DEF JobOf
        <4>2. job[s].conn.msg = d /\ job[s].conn.owner = c /\ LastEntry(log[s]) = d
              /\ \A p \in InQ(wq[s]) : p.msg \notin Entry
          BY Zenon, <3>1, <3>2, <4>1 DEF ToldQueue, ToldJob, d
        <4>3. reply'[c].type = "ACK"
          BY <3>11, <4>2, <1>StepAck
        <4>4. Clean(s)'
          BY Zenon, <3>2, <4>1, <4>2 DEF Clean, NoEntry
        <4>5. s \in voted[c] /\ ~thread[c].abort => Done(s, r)
          BY Zenon, <3>1, <4>1 DEF ToldJob, Decision
        <4>6. Decided(c, s)'
          BY Zenon, <4>1, <4>4, <4>5 DEF Decided, Done, Holds
        <4>7. QED
          BY Zenon, <4>3, <4>6 DEF Told
      <3>12. QED
        BY Zenon, <3>6, <3>7, <3>8, <3>9, <3>10, <3>11 DEF SlaveStep
    <2>4. QED
      BY Zenon, <2>2, <2>3

  (* A slave that only requests r are on their way to logs r, and its store *)
  (* stays.                                                                 *)
  <1>StepGets.
    ASSUME SlaveTypeOK, NEW s \in Slaves, SlaveStep(s), JobOf(s), NEW r \in Request,
           \A p \in Pending(s) : p.msg \in Entry => p.msg = r, Gets(s, r)
    PROVE  Gets(s, r)' /\ store'[s] = store[s]
    <2> USE <1>StepGets
    <2>1. CASE HandleGet(s)
      <3>1. Pop(s) /\ Head(wq[s]).msg.type = "GETREQ"
        BY Zenon, <2>1 DEF HandleGet
      <3>2. /\ InQ(wq[s]) = InQ(wq'[s]) \cup {Head(wq[s])} /\ Head(wq[s]) \in Conn
            /\ state'[s] = state[s] /\ log'[s] = log[s] /\ store'[s] = store[s]
            /\ job[s].pc = "idle"
        BY Zenon, <3>1, <1>StepPop
      <3>3. Head(wq[s]).msg # r
        BY Zenon, <3>1, <3>2, Messages DEF Conn
      <3>4. QED
        BY Zenon, <3>2, <3>3 DEF Gets, Waiting
    <2>2. CASE RefuseInWait(s)
      <3>1. Pop(s) /\ Waiting(s)
        BY Zenon, <2>2 DEF RefuseInWait, Refuses
      <3>2. QED
        BY Zenon, <3>1, <1>StepPop DEF Gets
    <2>3. CASE Accept(s)
      <3>1. /\ Pop(s) /\ Head(wq[s]).msg \in Entry /\ Head(wq[s]) \in Pending(s)
            /\ job'[s].pc = "log" /\ job'[s].conn = Head(wq[s])
            /\ IsRequest(Head(wq[s]).msg) => ~Waiting(s)
            /\ state'[s] = state[s] /\ store'[s] = store[s]
        BY Zenon, <2>3, <1>StepAccept, <1>StepPop
      <3>2. QED
        BY Zenon, <3>1 DEF Gets, Waiting, IsRequest
    <2>4. CASE Log(s)
      <3>1. job[s].conn.msg = r
        BY Zenon, <2>4, <1>StepLog, <1>StepBusy
      <3>2. QED
        BY Zenon, <2>4, <3>1, <1>StepLog DEF Gets
    <2>5. CASE Vote(s)
      <3>1. job[s].conn.msg = r /\ LastEntry(log[s]) = r
        BY Zenon, <2>5, <1>StepVote, <1>StepBusy DEF JobOf
      <3>2. QED
        BY Zenon, <2>5, <3>1, <1>StepVote DEF Gets
    <2>6. CASE ApplyCommit(s) \/ Ack(s)
      <3>1. ~IsRequest(job[s].conn.msg) /\ job[s].conn.msg = r
        BY Zenon, <2>6, <1>StepBusy, <1>StepApply, <1>StepAck, Messages DEF JobOf, IsRequest
      <3>2. QED
        BY Zenon, <3>1 DEF IsRequest
    <2>7. QED
      BY Zenon, <2>1, <2>2, <2>3, <2>4, <2>5, <2>6 DEF SlaveStep

  (* The slave that phase 2 waits for applies the decision to what it held. *)
  <1>StepDeciding.
    ASSUME SlaveTypeOK, NEW s \in Slaves, SlaveStep(s), JobOf(s), Single(s),
           \A p \in Pending(s) : ConnOf(s, p),
           NEW c \in Clients, thread[c].pc = "wait2", thread[c].req \in Request,
           thread' = thread, Told(c, s), NEW B, Deciding(c, s, B)
    PROVE  Deciding(c, s, B)'
    <2> USE <1>StepDeciding
    <2> DEFINE r == thread[c].req
               d == Decision(c)
    <2>1. Outcome(c, B)' = Outcome(c, B)
      BY Zenon DEF Outcome, Apply, Check
    <2>2. CASE reply[c].type # "none"
      <3>1. NoEntry(s)
        BY Zenon, <2>2 DEF Told, Decided, Clean
      <3>2. reply'[c] = reply[c]
        BY <2>2, StepPending DEF Answered, ConnOf
      <3>3. store'[s] = store[s]
        BY Zenon, <3>1, QuietStep
      <3>4. QED
        BY Zenon, <2>1, <2>2, <3>2, <3>3 DEF Deciding
    <2>3. CASE reply[c].type = "none"
      <3>1. ToldQueue(c, s)
        BY Zenon, <2>3 DEF Told
      <3>2. /\ d \in {COMMIT, ABORT} /\ d # r /\ d \in Entry /\ ~IsRequest(d)
            /\ IsRequest(r) /\ r \in Entry /\ r # NoRequest /\ c # None
            /\ d = COMMIT <=> ~thread[c].abort
        BY Zenon, Messages, MasterAssumption DEF Decision, IsRequest
      <3> HIDE DEF d
      <3>3. \A p \in Pending(s) : p.msg \in Entry =>
              p.msg = d \/ (p.msg = r /\ p.owner = None)
        BY Zenon, <3>1 DEF ToldQueue, d
      <3>4. CASE HandleGet(s) \/ RefuseInWait(s)
        <4>1. Pop(s) /\ job'[s].pc = "idle" /\ reply'[c] = reply[c]
          BY Zenon, <3>1, <3>4, <1>StepSkip, <1>ToldSkip
        <4>2. /\ InQ(wq[s]) = InQ(wq'[s]) \cup {Head(wq[s])} /\ Head(wq[s]) \in Conn
              /\ state'[s] = state[s] /\ log'[s] = log[s] /\ store'[s] = store[s]
              /\ job[s].pc = "idle"
          BY Zenon, <4>1, <1>StepPop
        <4>3. store[s] = B /\ Gets(s, r)
          BY Zenon, <2>3, <4>2 DEF Deciding
        <4>4. Gets(s, r)'
          <5>1. CASE HandleGet(s)
            <6>1. Head(wq[s]).msg # r
              BY Zenon, <3>2, <4>2, <5>1, Messages DEF HandleGet, Conn
            <6>2. QED
              BY Zenon, <4>2, <4>3, <6>1 DEF Gets, Waiting
          <5>2. CASE RefuseInWait(s)
            BY Zenon, <4>2, <4>3, <5>2 DEF Gets, RefuseInWait, Refuses
          <5>3. QED
            BY Zenon, <3>4, <5>1, <5>2
        <4>5. QED
          BY Zenon, <2>3, <4>1, <4>2, <4>3, <4>4 DEF Deciding
      <3>5. CASE Accept(s)
        <4>1. /\ Pop(s) /\ job'[s].pc = "log" /\ job'[s].conn = Head(wq[s]) /\ reply' = reply
              /\ Head(wq[s]).msg = COMMIT => job'[s].entry = LastEntry(log[s])
              /\ Head(wq[s]).msg \in Entry /\ (IsRequest(Head(wq[s]).msg) => ~Waiting(s))
          BY Zenon, <3>5, <1>StepAccept
        <4>2. /\ Head(wq[s]) \in Pending(s) /\ job[s].pc = "idle"
              /\ InQ(wq[s]) = InQ(wq'[s]) \cup {Head(wq[s])}
              /\ Head(wq[s]).msg = d => \A p \in InQ(wq'[s]) : p.msg \notin Entry
              /\ state'[s] = state[s] /\ store'[s] = store[s]
          BY Zenon, <3>1, <4>1, <1>StepPop DEF ToldQueue, d
        <4>3. store[s] = B /\ Gets(s, r)
          BY Zenon, <2>3, <4>2 DEF Deciding
        <4>4. CASE Head(wq[s]).msg = d
          <5>1. LastEntry(log[s]) = r
            BY Zenon, <3>2, <4>2, <4>3, <4>4 DEF Gets
          <5>2. QED
            BY Zenon, <2>3, <3>2, <4>1, <4>2, <4>3, <4>4, <5>1 DEF Deciding
        <4>5. CASE Head(wq[s]).msg = r
          <5>1. Gets(s, r)'
            BY Zenon, <3>2, <4>1, <4>2, <4>5 DEF Gets, Waiting
          <5>2. QED
            BY Zenon, <2>3, <3>2, <4>1, <4>2, <4>3, <4>5, <5>1, Messages
               DEF Deciding, IsRequest
        <4>6. QED
          BY Zenon, <3>3, <4>1, <4>2, <4>4, <4>5
      <3>6. CASE Log(s)
        <4>1. /\ job[s].pc = "log" /\ reply' = reply /\ store'[s] = store[s]
              /\ LastEntry(log'[s]) = job[s].conn.msg
              /\ job'[s].pc = AfterLog(job[s].conn.msg) /\ job'[s].entry = job[s].entry
          BY Zenon, <3>6, <1>StepLog
        <4>2. job[s].conn \in Pending(s) /\ job[s].conn.msg \in Entry
          BY Zenon, <4>1, <1>StepBusy
        <4>3. store[s] = B /\ (job[s].conn.msg = COMMIT => job[s].entry = r)
          BY Zenon, <2>3, <4>1 DEF Deciding
        <4>4. CASE job[s].conn.msg = r
          <5>1. job'[s].pc = "vote" /\ Gets(s, r)'
            BY Zenon, <3>2, <4>1, <4>4 DEF AfterLog, Gets
          <5>2. QED
            BY Zenon, <2>3, <4>1, <4>3, <5>1 DEF Deciding
        <4>5. CASE job[s].conn.msg = d /\ d = COMMIT
          <5>1. job'[s].pc = "apply"
            BY Zenon, <3>2, <4>1, <4>5 DEF AfterLog
          <5>2. QED
            BY Zenon, <2>3, <4>1, <4>3, <4>5, <5>1 DEF Deciding
        <4>6. CASE job[s].conn.msg = d /\ d # COMMIT
          <5>1. job'[s].pc = "ack" /\ Outcome(c, B) = B
            BY Zenon, <3>2, <4>1, <4>6 DEF AfterLog, Outcome
          <5>2. QED
            BY Zenon, <2>1, <2>3, <4>1, <4>3, <5>1 DEF Deciding
        <4>7. QED
          BY Zenon, <3>3, <4>2, <4>4, <4>5, <4>6
      <3>7. CASE Vote(s)
        <4>1. /\ job[s].pc = "vote" /\ job'[s].pc = "idle" /\ log'[s] = log[s]
              /\ store'[s] = store[s] /\ job[s].conn \in Pending(s)
              /\ IsRequest(job[s].conn.msg) /\ job[s].conn.msg \in Entry
              /\ LastEntry(log[s]) = job[s].conn.msg
          BY Zenon, <3>7, <1>StepVote, <1>StepBusy DEF JobOf
        <4>2. job[s].conn.msg = r /\ job[s].conn.owner = None
          BY Zenon, <3>2, <3>3, <4>1
        <4>3. reply'[c] = reply[c]
          BY Zenon, <3>2, <3>7, <4>2, <1>StepVote
        <4>4. store[s] = B /\ Gets(s, r)'
          BY Zenon, <2>3, <4>1, <4>2 DEF Deciding, Gets
        <4>5. QED
          BY Zenon, <2>3, <4>1, <4>3, <4>4 DEF Deciding
      <3>8. CASE ApplyCommit(s)
        <4>1. /\ job[s].pc = "apply" /\ reply' = reply /\ job'[s].pc = "ack"
              /\ job[s].entry # NoRequest => store'[s] = Apply(store[s], job[s].entry)
              /\ job[s].conn.msg = COMMIT /\ job[s].conn \in Pending(s)
          BY Zenon, <3>8, <1>StepApply, <1>StepBusy DEF JobOf
        <4>2. d = COMMIT /\ job[s].entry = r /\ store[s] = B
          BY Zenon, <2>3, <3>2, <3>3, <4>1, Messages DEF Deciding
        <4>3. store'[s] = Outcome(c, B)
          BY Zenon, <3>2, <4>1, <4>2 DEF Outcome
        <4>4. QED
          BY Zenon, <2>1, <2>3, <4>1, <4>3 DEF Deciding
      <3>9. CASE Ack(s)
        <4>1. /\ job[s].pc = "ack" /\ store'[s] = store[s] /\ job[s].conn \in Pending(s)
              /\ ~IsRequest(job[s].conn.msg) /\ job[s].conn.msg \in Entry
          BY Zenon, <3>9, <1>StepAck, <1>StepBusy DEF JobOf
        <4>2. job[s].conn.owner = c
          BY Zenon, <3>1, <3>2, <4>1 DEF ToldQueue, d
        <4>3. reply'[c].type = "ACK"
          BY <3>9, <4>2, <1>StepAck
        <4>4. QED
          BY Zenon, <2>1, <2>3, <4>1, <4>3 DEF Deciding
      <3>10. QED
        BY Zenon, <3>4, <3>5, <3>6, <3>7, <3>8, <3>9 DEF SlaveStep
    <2>4. QED
      BY Zenon, <2>2, <2>3

  (* Its role. *)
  <1> SUFFICES
    ASSUME SlaveTypeOK, NEW c \in Clients, NEW n \in Int, thread[c].at \in Int,
           Order[n] \in Slaves, SlaveStep(Order[n]),
           JobOf(Order[n]), Single(Order[n]), \A p \in Pending(Order[n]) : ConnOf(Order[n], p),
           thread[c].req \in Request, thread' = thread, voted' = voted, InPhase(c, n)
    PROVE  /\ InPhase(c, n)'
           /\ \A B : Agrees(c, n, B) => Agrees(c, n, B)'
    BY Zenon
  <1> DEFINE s == Order[n]
             r == thread[c].req
  <1>1. NoEntry(s) => store'[s] = store[s]
    BY Zenon, QuietStep
  <1>2. NoEntry(s) => Pending(s) = InQ(wq[s])
    BY Zenon, PendingIs DEF NoEntry
  <1>3. Undecided(c, s) => Undecided(c, s)'
    <2>1. s \in voted[c] /\ Bound(s, r) => Bound(s, r)'
      BY Zenon, QuietRoles DEF Bound
    <2>2. Loose(s, r) => Loose(s, r)'
      BY Zenon, StepPending DEF Loose
    <2>3. QED
      BY Zenon, <2>1, <2>2 DEF Undecided
  <1>4. Decided(c, s) => Decided(c, s)'
    BY Zenon, QuietRoles DEF Decided, Clean
  <1>5. InPhase(c, n)'
    BY Zenon, <1>3, <1>4, <1>StepAsked, <1>StepTold, QuietRoles
       DEF InPhase, Phase1, Phase2, Clean
  <1>6. Undecided(c, s) /\ Gets(s, r) => Gets(s, r)' /\ store'[s] = store[s]
    BY Zenon, <1>2, <1>StepGets DEF Undecided, Bound, Loose, NoEntry
  <1>7. Asked(c, s) /\ Gets(s, r) => Gets(s, r)' /\ store'[s] = store[s]
    BY Zenon, <1>2, <1>StepGets DEF Asked, AskedVote, Bound, NoEntry
  <1>8. ASSUME NEW B, Agrees(c, n, B) PROVE Agrees(c, n, B)'
    <2>1. Outcome(c, B)' = Outcome(c, B) /\ (Gets(s, thread[c].req)' <=> Gets(s, r)')
      BY Zenon DEF Outcome, Apply, Check, Gets
    <2>2. thread[c].pc = "wait2" /\ Told(c, s) /\ Deciding(c, s, B) => Deciding(c, s, B)'
      BY Zenon, <1>StepDeciding
    <2>3. Clean(s) \/ Decided(c, s) => store'[s] = store[s]
      BY Zenon, <1>1 DEF Clean, Decided
    <2>4. CASE Phase1(c)
      BY <1>6, <1>7, <1>8, <2>3, <2>4 DEF Agrees, InPhase, Phase1, Phase2
    <2>5. CASE Phase2(c)
      BY Zenon, <1>6, <1>8, <2>1, <2>2, <2>3, <2>5
         DEF Agrees, InPhase, Phase1, Phase2
    <2>6. QED
      BY Zenon, <2>4, <2>5 DEF Agrees, Phase1, Phase2
  <1>9. QED
    BY Zenon, <1>5, <1>8

(* Every conjunct of the invariant but the types. *)
Inv == SlavesInv /\ ConnInv /\ JobInv /\ OneWriter /\ VotesInv /\ AgreeInv

(* The order of positions, for the steps that need no other arithmetic. *)
LEMMA Compare ==
  \A a, b \in Int :
    /\ a < b \/ a = b \/ a > b
    /\ ~(a < a) /\ ~(a < b /\ a > b)
    /\ a > b <=> b < a
    /\ a <= b <=> a < b \/ a = b
    /\ a >= b <=> a > b \/ a = b
    /\ a < b + 1 <=> a <= b
  OBVIOUS

(* Positions in the list of slaves. *)
LEMMA Positions ==
  /\ Len(Order) \in Nat /\ Len(Order) >= 1 /\ 1 \in 1..Len(Order)
  /\ \A n \in 1..Len(Order) : /\ Order[n] \in Slaves /\ Order[n] \in Range(Order)
                              /\ n \in Int /\ ~(n < 1)
                              /\ \A m \in 1..Len(Order) : Order[m] = Order[n] => m = n
  /\ \A s \in Range(Order) : s \in Slaves /\ \E n \in 1..Len(Order) : s = Order[n]
  <1>1. DOMAIN Order = 1..Len(Order) /\ Len(Order) \in Nat /\ Len(Order) >= 1
    BY MasterAssumption
  <1>2. QED
    BY <1>1, MasterAssumption DEF Range

(* A step of a slave keeps the invariant. *)
LEMMA SlaveStepInv ==
  ASSUME TypeOK, Inv, NEW s \in Slaves, SlaveStep(s),
         UNCHANGED <<masterUp, thread, answer, voted, budget>>
  PROVE  Inv'
  <1> SlaveTypeOK
    BY Zenon DEF TypeOK
  <1>1. /\ Single(s) /\ JobOf(s) /\ \A p \in Pending(s) : ConnOf(s, p)
        /\ \A c \in Clients : Target(c) \in Slaves
    BY Zenon, Targets DEF Inv, ConnInv, JobInv
  <1>2. ConnInv'
    BY Zenon, <1>1, StepConnInv DEF Inv
  <1>3. \A t \in Slaves \ {s} : Same(t)
    BY Zenon, StepOthers
  <1>4. JobInv'
    BY Zenon, <1>1, <1>3, StepJob, SamePending DEF Inv, JobInv
  <1>5. OneWriter'
    BY Zenon DEF Inv, OneWriter, InTPC, Reading
  <1>6. \A c \in Clients : Answered(s, c)
    BY Zenon, <1>1, StepPending
  <1>7. VotesInv'
    <2>1. \A t \in Slaves : up'[t] = up[t]
      BY Zenon, <1>1, <1>3, StepJob DEF Same
    <2>2. \A c \in Clients : reply'[c] = reply[c] \/ reply'[c].type # "RESET"
      BY Zenon, <1>6 DEF Answered
    <2>3. \A c \in Clients : VotesOf(c)' <=> VotesOf(c)
      BY Zenon DEF VotesOf, Phase1, Phase2
    <2>4. QED
      BY Zenon, <2>1, <2>2, <2>3 DEF Inv, VotesInv, Undisturbed
  <1>8. ASSUME NEW c \in Clients, InTPC(c), NEW n \in 1..Len(Order)
        PROVE  InPhase(c, n)' /\ \A B : Agrees(c, n, B) => Agrees(c, n, B)'
    <2>1. /\ InPhase(c, n) /\ thread[c].req \in Request /\ Order[n] \in Slaves
          /\ thread[c].at \in 1..Len(Order) /\ Target(c) = Order[thread[c].at]
      BY Zenon, <1>8, Positions, Targets DEF Inv, SlavesInv, OneWriter
    <2>2. n \in Int /\ thread[c].at \in Int
      BY Zenon, <1>8, <2>1, Positions
    <2>3. CASE Order[n] = s
      BY Zenon, <1>1, <2>1, <2>2, <2>3, StepPhase
    <2>4. CASE Order[n] # s
      <3>1. Same(Order[n]) /\ SameThread(c)
        BY Zenon, <1>3, <2>1, <2>4 DEF SameThread
      <3>2. reply'[c] = reply[c] \/ n # thread[c].at
        BY <1>1, <1>6, <1>8, <2>1, <2>4 DEF Answered, ConnOf
      <3>3. QED
        BY Zenon, <2>1, <3>1, <3>2, SamePhase, SameHarmless
    <2>5. QED
      BY Zenon, <2>3, <2>4
  <1>9. \A c \in Clients : InTPC(c)' <=> InTPC(c)
    BY Zenon DEF InTPC
  <1>10. ASSUME NEW t \in Slaves, Clean(t) PROVE Clean(t)' /\ store'[t] = store[t]
    BY Zenon, <1>3, <1>10, SameRoles, SameHarmless, QuietRoles, QuietStep
       DEF Clean, Same
  <1>11. SlavesInv'
    <2>1. NoWriter' <=> NoWriter
      BY Zenon, <1>9 DEF NoWriter
    <2>2. \A t \in Slaves : t \notin Range(Order) \/ NoWriter' => Clean(t)'
      BY Zenon, <1>10, <2>1 DEF Inv, SlavesInv
    <2>3. \A c \in Clients : InTPC(c)' => \A n \in 1..Len(Order) : InPhase(c, n)'
      BY Zenon, <1>8, <1>9
    <2>4. QED
      BY Zenon, <2>2, <2>3 DEF SlavesInv
  <1>12. AgreeInv'
    <2> SUFFICES ASSUME budget.crashes = 0
                 PROVE  /\ NoWriter' => \A t, u \in Range(Order) : store'[t] = store'[u]
                        /\ \A c \in Clients : InTPC(c)' =>
                             \E B \in Store : \A n \in 1..Len(Order) : Agrees(c, n, B)'
      BY Zenon DEF AgreeInv
    <2>1. ASSUME NoWriter' PROVE \A t, u \in Range(Order) : store'[t] = store'[u]
      <3>1. NoWriter /\ \A t \in Range(Order) : t \in Slaves
        BY Zenon, <1>9, <2>1, Positions DEF NoWriter
      <3>2. \A t \in Range(Order) : store'[t] = store[t]
        BY Zenon, <1>10, <3>1 DEF Inv, SlavesInv
      <3>3. QED
        BY Zenon, <3>1, <3>2 DEF Inv, AgreeInv
    <2>2. ASSUME NEW c \in Clients, InTPC(c)'
          PROVE  \E B \in Store : \A n \in 1..Len(Order) : Agrees(c, n, B)'
      <3>1. PICK B \in Store : \A n \in 1..Len(Order) : Agrees(c, n, B)
        BY Zenon, <1>9, <2>2 DEF Inv, AgreeInv
      <3>2. QED
        BY Zenon, <1>8, <1>9, <2>2, <3>1
    <2>3. QED
      BY Zenon, <2>1, <2>2
  <1>13. QED
    BY Zenon, <1>2, <1>4, <1>5, <1>7, <1>11, <1>12 DEF Inv

-----------------------------------------------------------------------------
(* Crashes and restarts. *)

(* A crash empties the queue and resets the connections of the slave. *)
LEMMA CrashEffect ==
  ASSUME SlaveTypeOK, NEW s \in Slaves, Crash(s)
  PROVE  /\ ~up'[s] /\ ~Waiting(s)' /\ wq'[s] = <<>> /\ job'[s] = Idle
         /\ log'[s] = log[s] /\ store'[s] = store[s]
         /\ Pending(s)' = {} /\ NoEntry(s)'
         /\ \A c \in Clients : IF \E p \in Pending(s) : p.owner = c
                               THEN reply'[c].type = "RESET" ELSE reply'[c] = reply[c]
  <1>1. /\ ~up'[s] /\ ~Waiting(s)' /\ wq'[s] = <<>> /\ job'[s] = Idle
        /\ log'[s] = log[s] /\ store'[s] = store[s]
    BY Zenon DEF Crash, SlaveTypeOK, Waiting
  <1>2. InQ(wq'[s]) = {}
    BY Zenon, <1>1, EmptyQueue
  <1>3. \A c \in Clients : IF \E p \in Pending(s) : p.owner = c
                           THEN reply'[c].type = "RESET" ELSE reply'[c] = reply[c]
    BY Zenon DEF Crash
  <1>4. QED
    BY Zenon, <1>1, <1>2, <1>3, PendingIs DEF NoEntry

(* A slave that has crashed keeps what its log promises. *)
LEMMA CrashRoles ==
  ASSUME SlaveTypeOK, NEW s \in Slaves, Crash(s)
  PROVE  /\ Clean(s) => Clean(s)'
         /\ \A r : /\ Bound(s, r) => Bound(s, r)'
                   /\ Loose(s, r)'
                   /\ Done(s, r) => Done(s, r)'
  BY Zenon, CrashEffect DEF Clean, Bound, Loose, Done, Ready, Holds

(* A crash keeps the connections of the master and the slaves apart. *)
LEMMA CrashConnInv ==
  ASSUME SlaveTypeOK, ConnInv, NEW s \in Slaves, Crash(s), UNCHANGED thread,
         \A c \in Clients : Target(c) \in Slaves
  PROVE  ConnInv'
  <1>1. /\ wq'[s] = <<>> /\ job'[s] = Idle /\ Pending(s)' = {}
        /\ \A c \in Clients : IF \E p \in Pending(s) : p.owner = c
                              THEN reply'[c].type = "RESET" ELSE reply'[c] = reply[c]
    BY Zenon, CrashEffect
  <1>2. Single(s)'
    BY Zenon, <1>1, EmptyQueue DEF Single
  <1>3. \A t \in Slaves \ {s} : Pending(t)' = Pending(t) /\ (Single(t) => Single(t)')
    BY Zenon, StepOthers, SamePending
  <1>4. \A c \in Clients : Target(c)' = Target(c) /\ (Waits(c)' <=> Waits(c))
    BY Zenon DEF Target, Reading, Waits
  <1>5. ASSUME NEW t \in Slaves, NEW p \in Pending(t)' PROVE ConnOf(t, p)'
    <2>1. t # s /\ p \in Pending(t) /\ ConnOf(t, p)
      BY <1>1, <1>3, <1>5 DEF ConnInv
    <2>2. ASSUME p.owner \in Clients PROVE reply'[p.owner] = reply[p.owner]
      BY <1>1, <2>1, <2>2 DEF ConnInv, ConnOf
    <2>3. QED
      BY Zenon, <1>4, <2>1, <2>2 DEF ConnOf
  <1>6. ASSUME NEW c \in Clients PROVE Connected(c)'
    <2> SUFFICES ASSUME Waits(c)', reply'[c].type = "none"
                 PROVE  \E p \in Pending(Target(c))' : p.owner = c
      BY Zenon DEF Connected
    <2>1. reply'[c] = reply[c] /\ \A p \in Pending(s) : p.owner # c
      BY Zenon, <1>1
    <2>2. PICK t \in Slaves : t = Target(c) /\ t = Target(c)'
      BY Zenon, <1>4
    <2>3. PICK p \in Pending(t) : p.owner = c
      BY Zenon, <1>4, <2>1, <2>2 DEF ConnInv, Connected
    <2>4. p \in Pending(t)'
      BY Zenon, <1>3, <2>1, <2>3
    <2>5. Pending(t)' = Pending(Target(c))'
      BY Zenon, <2>2 DEF Pending
    <2>6. QED
      BY Zenon, <2>3, <2>4, <2>5
  <1>7. QED
    BY Zenon, <1>2, <1>3, <1>5, <1>6 DEF ConnInv

(* A crash of a slave keeps the invariant. *)
LEMMA CrashInv ==
  ASSUME TypeOK, Inv, NEW s \in Slaves, SlaveCrash(s)
  PROVE  Inv'
  <1> SlaveTypeOK
    BY Zenon DEF TypeOK
  <1>1. /\ Crash(s) /\ thread' = thread /\ voted' = voted
        /\ budget' = [budget EXCEPT !.crashes = @ + 1]
    BY Zenon DEF SlaveCrash
  <1>2. \A c \in Clients : Target(c) \in Slaves
    BY Zenon, Targets DEF Inv
  <1>3. ConnInv'
    BY Zenon, <1>1, <1>2, CrashConnInv DEF Inv
  <1>4. \A t \in Slaves \ {s} : Same(t)
    BY Zenon, <1>1, StepOthers
  <1>5. JobInv'
    BY Zenon, <1>1, <1>4, CrashEffect, SamePending, Fields DEF Inv, JobInv, JobOf
  <1>6. OneWriter'
    BY Zenon, <1>1 DEF Inv, OneWriter, InTPC, Reading
  <1>7. budget'.crashes # 0
    BY <1>1 DEF TypeOK
  <1>8. VotesInv' /\ AgreeInv'
    BY Zenon, <1>1, <1>7 DEF Inv, VotesInv, AgreeInv, Undisturbed
  <1>9. ASSUME NEW c \in Clients, InTPC(c), NEW n \in 1..Len(Order)
        PROVE  InPhase(c, n)'
    <2>1. /\ InPhase(c, n) /\ Order[n] \in Slaves /\ thread[c].req \in Request
          /\ thread[c].at \in 1..Len(Order) /\ Target(c) = Order[thread[c].at]
      BY Zenon, <1>9, Positions, Targets DEF Inv, SlavesInv, OneWriter
    <2>2. CASE Order[n] # s
      <3>1. Same(Order[n]) /\ SameThread(c)
        BY Zenon, <1>1, <1>4, <2>1, <2>2 DEF SameThread
      <3>2. reply'[c] = reply[c] \/ n # thread[c].at
        BY <1>1, <2>1, <2>2, CrashEffect DEF Inv, ConnInv, ConnOf
      <3>3. QED
        BY Zenon, <2>1, <3>1, <3>2, SamePhase, SameHarmless
    <2>3. CASE Order[n] = s
      <3>1. PICK r : r = thread[c].req
        BY Zenon
      <3>2. NoEntry(s)' /\ ~Waiting(s)' /\ Pending(s)' = {} /\ (Clean(s) => Clean(s)')
            /\ (Bound(s, r) => Bound(s, r)') /\ Loose(s, r)' /\ (Done(s, r) => Done(s, r)')
        BY Zenon, <1>1, CrashEffect, CrashRoles
      <3>3. Undecided(c, s) => Undecided(c, s)'
        BY Zenon, <1>1, <3>1, <3>2 DEF Undecided
      <3>4. Decided(c, s) => Decided(c, s)'
        BY Zenon, <1>1, <3>1, <3>2 DEF Decided
      <3>5. ASSUME n = thread[c].at, Waits(c)
            PROVE  \/ reply'[c].type = "RESET"
                   \/ reply'[c] = reply[c] /\ reply[c].type # "none"
        BY <1>1, <2>1, <2>3, <3>5, CrashEffect DEF Inv, ConnInv, Connected
      <3>6. n = thread[c].at /\ Waits(c) /\ Asked(c, s) => Asked(c, s)'
        BY Zenon, <1>1, <3>1, <3>2, <3>5 DEF Asked
      <3>7. n = thread[c].at /\ Waits(c) /\ Told(c, s) => Told(c, s)'
        BY Zenon, <1>1, <3>2, <3>4, <3>5 DEF Told
      <3>8. QED
        BY Zenon, <1>1, <2>1, <2>3, <3>2, <3>3, <3>4, <3>6, <3>7
           DEF InPhase, Phase1, Phase2, Waits
    <2>4. QED
      BY Zenon, <2>2, <2>3
  <1>10. SlavesInv'
    <2>1. \A c \in Clients : InTPC(c)' <=> InTPC(c)
      BY Zenon, <1>1 DEF InTPC
    <2>2. \A t \in Slaves : Clean(t) => Clean(t)'
      BY Zenon, <1>1, <1>4, SameRoles, SameHarmless, CrashRoles
    <2>3. \A t \in Slaves : t \notin Range(Order) \/ NoWriter' => Clean(t)'
      BY Zenon, <2>1, <2>2 DEF Inv, SlavesInv, NoWriter
    <2>4. \A c \in Clients : InTPC(c)' => \A n \in 1..Len(Order) : InPhase(c, n)'
      BY Zenon, <1>9, <2>1
    <2>5. QED
      BY Zenon, <2>3, <2>4 DEF SlavesInv
  <1>11. QED
    BY Zenon, <1>3, <1>5, <1>6, <1>8, <1>10 DEF Inv

(* kvserver_rebuild_state brings a slave back into its role. *)
LEMMA RestartEffect ==
  ASSUME SlaveTypeOK, NEW s \in Slaves, Restart(s), JobOf(s)
  PROVE  /\ ~up[s] /\ up'[s] /\ wq' = wq /\ job' = job /\ log' = log /\ reply' = reply
         /\ job[s] = Idle /\ Pending(s) = {} /\ Pending(s)' = {}
         /\ Rebuilds => /\ state'[s] = RebuiltState(log[s], store[s])
                        /\ store'[s] = Redo(log[s], store[s])
  <1>1. /\ ~up[s] /\ up'[s] /\ wq' = wq /\ job' = job /\ log' = log /\ reply' = reply
        /\ job[s] = Idle /\ wq[s] = <<>>
        /\ Rebuilds => /\ state'[s] = RebuiltState(log[s], store[s])
                       /\ store'[s] = Redo(log[s], store[s])
    BY Zenon DEF Restart, SlaveTypeOK, JobOf
  <1>2. InQ(wq[s]) = {}
    BY Zenon, <1>1, EmptyQueue
  <1>3. QED
    BY Zenon, <1>1, <1>2, PendingIs

(* tpclog_iterate: a slave that restarts is as far as it was before. *)
LEMMA RestartRoles ==
  ASSUME SlaveTypeOK, NEW s \in Slaves, Restart(s), JobOf(s), Rebuilds
  PROVE  /\ NoEntry(s) => NoEntry(s)'
         /\ Clean(s) => Clean(s)'
         /\ \A r \in Request : /\ Bound(s, r) => Bound(s, r)'
                               /\ Loose(s, r)'
                               /\ Done(s, r) => Done(s, r)'
  <1>1. /\ up'[s] /\ wq' = wq /\ job' = job /\ log' = log /\ Pending(s)' = {}
        /\ state'[s] = RebuiltState(log[s], store[s])
        /\ store'[s] = Redo(log[s], store[s])
    BY Zenon, RestartEffect
  <1>2. NoEntry(s) => NoEntry(s)'
    BY Zenon, <1>1 DEF NoEntry
  <1>3. Clean(s) => Clean(s)'
    BY Zenon, <1>1, <1>2 DEF Clean, RebuiltState, Waiting
  <1>4. ASSUME NEW r \in Request, Bound(s, r) PROVE Bound(s, r)'
    <2>1. LastEntry(log[s]) = r /\ Check(store[s], r) /\ NoEntry(s)
      BY Zenon, <1>4 DEF Bound, Ready
    <2>2. r # COMMIT /\ IsRequest(r)
      BY Zenon, Messages DEF IsRequest
    <2>3. store'[s] = store[s] /\ state'[s] = "TPC_WAIT"
      BY Zenon, <1>1, <2>1, <2>2 DEF Redo, RebuiltState
    <2>4. QED
      BY Zenon, <1>1, <1>2, <2>1, <2>3 DEF Bound, Ready, Waiting, Check
  <1>5. ASSUME NEW r \in Request PROVE Loose(s, r)'
    BY Zenon, <1>1 DEF Loose
  <1>6. ASSUME NEW r \in Request, Done(s, r) PROVE Done(s, r)'
    <2>1. LastEntry(log[s]) = COMMIT /\ LastRequest(log[s]) = r /\ Holds(store[s], r)
          /\ store[s] \in Store
      BY Zenon, <1>6 DEF Done, SlaveTypeOK
    <2>2. store'[s] = Apply(store[s], r)
      BY Zenon, <1>1, <2>1, Messages DEF Redo
    <2>3. Holds(store'[s], r)
      BY Zenon, <2>1, <2>2, ApplyHolds
    <2>4. QED
      BY Zenon, <1>1, <2>1, <2>3 DEF Done, Holds
  <1>7. QED
    BY Zenon, <1>2, <1>3, <1>4, <1>5, <1>6

(* A restart of a slave keeps the invariant. *)
LEMMA RestartInv ==
  ASSUME TypeOK, Inv, NEW s \in Slaves, Restart(s), Rebuilds,
         UNCHANGED <<masterUp, thread, answer, voted, budget>>
  PROVE  Inv'
  <1> SlaveTypeOK
    BY Zenon DEF TypeOK
  <1>1. JobOf(s) /\ thread' = thread /\ voted' = voted
    BY Zenon DEF Inv, JobInv
  <1>2. /\ ~up[s] /\ up'[s] /\ wq' = wq /\ job' = job /\ log' = log /\ reply' = reply
        /\ job[s] = Idle /\ Pending(s) = {} /\ Pending(s)' = {}
    BY Zenon, <1>1, RestartEffect
  <1>3. \A t \in Slaves \ {s} : Same(t)
    BY Zenon, StepOthers
  <1>4. ConnInv'
    <2>1. \A t \in Slaves : Pending(t)' = Pending(t) /\ (Single(t)' <=> Single(t))
      BY Zenon, <1>2, PendingIs DEF Single
    <2>2. \A c \in Clients : Target(c)' = Target(c) /\ (Waits(c)' <=> Waits(c))
      BY Zenon, <1>1 DEF Target, Reading, Waits
    <2>3. \A t \in Slaves : \A p \in Pending(t) : ConnOf(t, p)' <=> ConnOf(t, p)
      BY Zenon, <1>1, <1>2, <2>2 DEF ConnOf
    <2>4. \A c \in Clients : Pending(Target(c))' = Pending(Target(c))
      BY <1>2, <2>2 DEF Pending
    <2>5. \A c \in Clients : Connected(c)' <=> Connected(c)
      BY Zenon, <1>2, <2>2, <2>4 DEF Connected
    <2>6. QED
      BY Zenon, <2>1, <2>3, <2>5 DEF Inv, ConnInv
  <1>5. JobInv'
    BY Zenon, <1>2, <1>3 DEF Inv, JobInv, JobOf, Same, Idle
  <1>6. OneWriter'
    BY Zenon, <1>1 DEF Inv, OneWriter, InTPC, Reading
  <1>7. budget.crashes # 0
    BY Zenon, <1>2 DEF Inv, VotesInv
  <1>8. VotesInv' /\ AgreeInv'
    BY Zenon, <1>1, <1>7 DEF Inv, VotesInv, AgreeInv, Undisturbed
  <1>9. ASSUME NEW c \in Clients, InTPC(c), NEW n \in 1..Len(Order)
        PROVE  InPhase(c, n)'
    <2>1. /\ InPhase(c, n) /\ Order[n] \in Slaves /\ thread[c].req \in Request
          /\ thread[c].at \in 1..Len(Order) /\ Target(c) = Order[thread[c].at]
      BY Zenon, <1>9, Positions, Targets DEF Inv, SlavesInv, OneWriter
    <2>2. CASE Order[n] # s
      <3>1. Same(Order[n]) /\ SameThread(c)
        BY Zenon, <1>1, <1>3, <2>1, <2>2 DEF SameThread
      <3>2. QED
        BY Zenon, <1>2, <2>1, <3>1, SamePhase, SameHarmless
    <2>3. CASE Order[n] = s
      <3>1. PICK r \in Request : r = thread[c].req
        BY Zenon, <2>1
      <3>2. (NoEntry(s) => NoEntry(s)') /\ (Clean(s) => Clean(s)')
            /\ (Bound(s, r) => Bound(s, r)') /\ Loose(s, r)' /\ (Done(s, r) => Done(s, r)')
        BY Zenon, <1>1, RestartRoles
      <3>3. Undecided(c, s) => Undecided(c, s)'
        BY Zenon, <1>1, <3>1, <3>2 DEF Undecided
      <3>4. Decided(c, s) => Decided(c, s)'
        BY Zenon, <1>1, <3>1, <3>2 DEF Decided
      <3>5. n = thread[c].at /\ Waits(c) => reply[c].type # "none"
        BY Zenon, <1>2, <2>1, <2>3 DEF Inv, ConnInv, Connected
      <3>6. n = thread[c].at /\ Waits(c) /\ Asked(c, s) => Asked(c, s)'
        BY Zenon, <1>1, <1>2, <3>1, <3>2, <3>5 DEF Asked
      <3>7. n = thread[c].at /\ Waits(c) /\ Told(c, s) => Told(c, s)'
        BY Zenon, <1>1, <1>2, <3>2, <3>4, <3>5 DEF Told
      <3>8. QED
        BY Zenon, <1>1, <2>1, <2>3, <3>2, <3>3, <3>4, <3>6, <3>7
           DEF InPhase, Phase1, Phase2, Waits
    <2>4. QED
      BY Zenon, <2>2, <2>3
  <1>10. SlavesInv'
    <2>1. \A c \in Clients : InTPC(c)' <=> InTPC(c)
      BY Zenon, <1>1 DEF InTPC
    <2>2. \A t \in Slaves : Clean(t) => Clean(t)'
      BY Zenon, <1>1, <1>3, SameRoles, SameHarmless, RestartRoles
    <2>3. \A t \in Slaves : t \notin Range(Order) \/ NoWriter' => Clean(t)'
      BY Zenon, <2>1, <2>2 DEF Inv, SlavesInv, NoWriter
    <2>4. \A c \in Clients : InTPC(c)' => \A n \in 1..Len(Order) : InPhase(c, n)'
      BY Zenon, <1>9, <2>1
    <2>5. QED
      BY Zenon, <2>3, <2>4 DEF SlavesInv
  <1>11. QED
    BY Zenon, <1>4, <1>5, <1>6, <1>8, <1>10 DEF Inv

-----------------------------------------------------------------------------
(* What the master does to the slaves: it connects to one and gives up on  *)
(* one.                                                                    *)

(* connect_to and kvmessage_send: the message is last in the queue. *)
LEMMA ConnectEffect ==
  ASSUME SlaveTypeOK, NEW s \in Slaves, NEW c \in Clients, NEW m \in Message,
         Connect(s, c, m), NEW p, p = [msg |-> m, owner |-> c]
  PROVE  /\ up[s] /\ p.msg = m /\ p.owner = c
         /\ InQ(wq'[s]) = InQ(wq[s]) \cup {p} /\ Pending(s)' = Pending(s) \cup {p}
         /\ Alone(wq[s]) /\ (\A x \in InQ(wq[s]) : x.owner # c) => Alone(wq'[s])
         /\ \A d : LastIn(wq[s], d) /\ (m \in Entry => \A x \in InQ(wq[s]) : x.msg # d) =>
              LastIn(wq'[s], d)
         /\ up' = up /\ state' = state /\ log' = log /\ store' = store /\ job' = job
         /\ \A t \in Slaves \ {s} : Same(t)
         /\ reply'[c] = NoReply /\ \A d \in Clients \ {c} : reply'[d] = reply[d]
         /\ m \notin Entry => Harmless(s)
  <1>1. /\ up[s] /\ p \in Conn /\ p.msg = m /\ p.owner = c
        /\ wq[s] \in Seq(Conn) /\ wq'[s] = Append(wq[s], p)
        /\ up' = up /\ state' = state /\ log' = log /\ store' = store /\ job' = job
        /\ reply'[c] = NoReply /\ \A d \in Clients \ {c} : reply'[d] = reply[d]
    BY Zenon DEF Connect, SlaveTypeOK, Conn
  <1>2. \A t \in Slaves \ {s} : Same(t)
    BY Zenon DEF Connect, SlaveTypeOK, Same
  <1>3. /\ InQ(wq'[s]) = InQ(wq[s]) \cup {p}
        /\ Alone(wq[s]) /\ (\A x \in InQ(wq[s]) : x.owner # p.owner) => Alone(wq'[s])
        /\ \A d : LastIn(wq[s], d) /\ (p.msg \in Entry => \A x \in InQ(wq[s]) : x.msg # d) =>
             LastIn(wq'[s], d)
    <2>1. PICK q, a : q \in Seq(Conn) /\ q = wq[s] /\ a = wq'[s] /\ a = Append(q, p)
      BY Zenon, <1>1
    <2>2. /\ InQ(a) = InQ(q) \cup {p}
          /\ Alone(q) /\ (\A x \in InQ(q) : x.owner # p.owner) => Alone(a)
          /\ \A d : LastIn(q, d) /\ (p.msg \in Entry => \A x \in InQ(q) : x.msg # d) =>
               LastIn(a, d)
      <3>1. /\ q \in Seq(Conn) /\ p \in Conn /\ a = Append(q, p)
        BY Zenon, <1>1, <2>1
      <3>2. QED
        BY Zenon, <3>1, AddQueue
    <2>3. QED
      BY Zenon, <2>1, <2>2
  <1>4. Pending(s)' = Pending(s) \cup {p}
    <2>1. CASE job[s] = Idle
      BY Zenon, <1>1, <1>3, <2>1, PendingIs
    <2>2. CASE job[s] # Idle
      <3>1. /\ Pending(s) = InQ(wq[s]) \cup {job[s].conn}
            /\ Pending(s)' = InQ(wq'[s]) \cup {job'[s].conn}
        BY Zenon, <1>1, <2>2, PendingIs
      <3>2. job'[s] = job[s]
        BY Zenon, <1>1
      <3>3. QED
        BY Zenon, <1>3, <3>1, <3>2
    <2>3. QED
      BY Zenon, <2>1, <2>2
  <1>5. m \notin Entry => Harmless(s)
    BY Zenon, <1>1, <1>3 DEF Harmless, Entries
  <1>6. QED
    BY Zenon, <1>1, <1>2, <1>3, <1>4, <1>5

(* After a receive timeout nobody waits for the answer of the slave. *)
LEMMA GiveUpEffect ==
  ASSUME SlaveTypeOK, NEW s \in Slaves, NEW c \in Clients, GiveUp(s, c)
  PROVE  /\ \E p \in Pending(s) : p.owner = c
         /\ InQ(wq'[s]) = {Orphan(p, c) : p \in InQ(wq[s])}
         /\ Pending(s)' = {Orphan(p, c) : p \in Pending(s)}
         /\ Alone(wq[s]) => Alone(wq'[s])
         /\ \A d : LastIn(wq[s], d) => LastIn(wq'[s], d)
         /\ job'[s] = OrphanJob(job[s], c) /\ (job'[s] = Idle <=> job[s] = Idle)
         /\ job'[s].pc = job[s].pc
         /\ job[s] # Idle => /\ job'[s].entry = job[s].entry
                            /\ job'[s].conn = Orphan(job[s].conn, c)
                            /\ job'[s].conn.msg = job[s].conn.msg
         /\ up' = up /\ state' = state /\ log' = log /\ store' = store /\ reply' = reply
         /\ \A t \in Slaves \ {s} : Same(t)
  <1>1. /\ \E p \in Pending(s) : p.owner = c
        /\ wq[s] \in Seq(Conn) /\ job[s] \in Job \cup {Idle}
        /\ wq'[s] = [n \in 1..Len(wq[s]) |-> Orphan(wq[s][n], c)]
        /\ job'[s] = OrphanJob(job[s], c)
        /\ up' = up /\ state' = state /\ log' = log /\ store' = store /\ reply' = reply
    BY Zenon DEF GiveUp, SlaveTypeOK
  <1>2. \A t \in Slaves \ {s} : Same(t)
    BY Zenon DEF GiveUp, SlaveTypeOK, Same
  <1>3. /\ InQ(wq'[s]) = {Orphan(p, c) : p \in InQ(wq[s])}
        /\ Alone(wq[s]) => Alone(wq'[s])
        /\ \A d : LastIn(wq[s], d) => LastIn(wq'[s], d)
    BY Zenon, <1>1, OrphanQueue
  <1>4. /\ job'[s] = Idle <=> job[s] = Idle
        /\ job'[s].pc = job[s].pc
        /\ job[s] # Idle => /\ job'[s].entry = job[s].entry
                           /\ job'[s].conn.msg = job[s].conn.msg
    <2>1. PICK j \in Job \cup {Idle} : j = job[s]
      BY Zenon, <1>1
    <2>2. /\ j = Idle <=> OrphanJob(j, c) = Idle
          /\ OrphanJob(j, c).pc = j.pc
          /\ j # Idle => /\ OrphanJob(j, c).entry = j.entry
                         /\ OrphanJob(j, c).conn.msg = j.conn.msg
      BY Zenon, Orphans
    <2>3. job'[s] = OrphanJob(j, c)
      BY Zenon, <1>1, <2>1
    <2>4. QED
      BY Zenon, <2>1, <2>2, <2>3
  <1>5. job[s] # Idle => job'[s].conn = Orphan(job[s].conn, c)
    BY <1>1 DEF OrphanJob
  <1>6. Pending(s)' = {Orphan(p, c) : p \in Pending(s)}
    <2>1. CASE job[s] = Idle
      BY Zenon, <1>3, <1>4, <2>1, PendingIs
    <2>2. CASE job[s] # Idle
      <3>1. /\ Pending(s) = InQ(wq[s]) \cup {job[s].conn}
            /\ Pending(s)' = InQ(wq'[s]) \cup {job'[s].conn}
        BY Zenon, <1>4, <2>2, PendingIs
      <3>2. job'[s].conn = Orphan(job[s].conn, c)
        BY Zenon, <1>5, <2>2
      <3>3. QED
        BY Zenon, <1>3, <3>1, <3>2
    <2>3. QED
      BY Zenon, <2>1, <2>2
  <1>7. QED
    BY Zenon, <1>1, <1>2, <1>3, <1>4, <1>5, <1>6

(* A read that is given up on is no entry. *)
LEMMA GiveUpHarmless ==
  ASSUME SlaveTypeOK, NEW s \in Slaves, NEW c \in Clients, GiveUp(s, c),
         \A p \in Pending(s) : p.owner = c => p.msg \notin Entry
  PROVE  Harmless(s)
  <1>1. \A p \in Pending(s) : p.msg \in Entry => Orphan(p, c) = p
    BY Zenon DEF Orphan
  <1>2. \A p \in Pending(s) : Orphan(p, c).msg = p.msg
    BY Zenon DEF Orphan
  <1>3. InQ(wq[s]) \subseteq Pending(s)
    BY Zenon, PendingIs
  <1>4. InQ(wq'[s]) = {Orphan(p, c) : p \in InQ(wq[s])}
    BY Zenon, GiveUpEffect
  <1>5. Entries(wq'[s]) = Entries(wq[s])
    <2>1. \A p \in InQ(wq[s]) : p.msg \in Entry => p \in InQ(wq'[s])
      BY Zenon, <1>1, <1>3, <1>4
    <2>2. \A p \in InQ(wq'[s]) : p.msg \in Entry => p \in InQ(wq[s])
      BY Zenon, <1>1, <1>2, <1>3, <1>4
    <2>3. QED
      BY Zenon, <2>1, <2>2 DEF Entries
  <1>6. job'[s] = job[s]
    <2>1. job'[s] = OrphanJob(job[s], c) /\ job[s] \in Job \cup {Idle}
      BY Zenon, GiveUpEffect DEF SlaveTypeOK
    <2>2. CASE job[s] = Idle
      BY Zenon, <2>1, <2>2 DEF OrphanJob
    <2>3. CASE job[s] # Idle
      <3>1. job[s] \in Job /\ job[s].conn \in Pending(s) /\ job[s].conn.msg \in Entry
        BY Zenon, <2>1, <2>3, PendingIs DEF Job
      <3>2. OrphanJob(job[s], c) =
              [pc |-> job[s].pc, conn |-> job[s].conn, entry |-> job[s].entry]
        BY Zenon, <1>1, <2>3, <3>1 DEF OrphanJob
      <3>3. QED
        BY Zenon, <2>1, <3>1, <3>2 DEF Job
    <2>4. QED
      BY Zenon, <2>2, <2>3
  <1>7. QED
    BY Zenon, <1>5, <1>6, GiveUpEffect DEF Harmless

(* The connections after a step of thread c. *)
OthersWait(c) == \A d \in Clients \ {c} : thread'[d] = thread[d] /\ reply'[d] = reply[d]

(* The other threads of the master go on waiting for their slaves. *)
LEMMA OthersConn ==
  ASSUME NEW c \in Clients, OthersWait(c), NEW d \in Clients \ {c}
  PROVE  /\ Target(d)' = Target(d) /\ (Waits(d)' <=> Waits(d)) /\ reply'[d] = reply[d]
         /\ thread'[d] = thread[d]
  BY Zenon DEF OthersWait, Target, Reading, Waits

(* A thread that stops waiting has had its answer. *)
LEMMA LeaveConn ==
  ASSUME ConnInv, NEW c \in Clients, OthersWait(c), wq' = wq, job' = job, ~Waits(c)',
         ~Waits(c) \/ reply[c].type # "none"
  PROVE  ConnInv'
  <1>1. \A t \in Slaves : Pending(t)' = Pending(t) /\ (Single(t)' <=> Single(t))
    BY Zenon DEF Pending, Single
  <1>2. ASSUME NEW t \in Slaves, NEW p \in Pending(t) PROVE ConnOf(t, p)'
    <2>1. ConnOf(t, p) /\ p.owner # c
      BY Zenon, <1>2 DEF ConnInv, ConnOf
    <2>2. QED
      BY Zenon, <2>1, OthersConn DEF ConnOf
  <1>3. ASSUME NEW d \in Clients \ {c} PROVE Connected(d)'
    <2>1. Target(d)' = Target(d) /\ (Waits(d)' <=> Waits(d)) /\ reply'[d] = reply[d]
      BY Zenon, <1>3, OthersConn
    <2>2. Pending(Target(d))' = Pending(Target(d))
      BY Zenon, <2>1 DEF Pending
    <2>3. QED
      BY Zenon, <1>3, <2>1, <2>2 DEF ConnInv, Connected
  <1>4. Connected(c)'
    BY Zenon DEF Connected
  <1>5. QED
    BY Zenon, <1>1, <1>2, <1>3, <1>4 DEF ConnInv

(* A new connection is the only one of its thread. *)
LEMMA ConnectConn ==
  ASSUME SlaveTypeOK, ConnInv, NEW c \in Clients, NEW s \in Slaves, NEW m \in Message,
         Connect(s, c, m), \A d \in Clients \ {c} : thread'[d] = thread[d],
         \A d \in Clients \ {c} : Target(d) \in Slaves,
         ~Waits(c), Waits(c)', s = Target(c)', m \in Entry <=> thread'[c].pc # "waitget"
  PROVE  ConnInv'
  <1>0. PICK p : p = [msg |-> m, owner |-> c]
    BY Zenon
  <1>1. /\ InQ(wq'[s]) = InQ(wq[s]) \cup {p} /\ Pending(s)' = Pending(s) \cup {p}
        /\ Alone(wq[s]) /\ (\A x \in InQ(wq[s]) : x.owner # c) => Alone(wq'[s])
        /\ job' = job /\ \A t \in Slaves \ {s} : Same(t)
        /\ reply'[c] = NoReply /\ \A d \in Clients \ {c} : reply'[d] = reply[d]
        /\ p.msg = m /\ p.owner = c
    BY <1>0, ConnectEffect
  <1>2. OthersWait(c)
    BY Zenon, <1>1 DEF OthersWait
  <1>3. \A t \in Slaves : \A x \in Pending(t) : x.owner # c
    BY Zenon DEF ConnInv, ConnOf
  <1>4. InQ(wq[s]) \subseteq Pending(s) /\ (job[s] # Idle => job[s].conn \in Pending(s))
    BY Zenon, PendingIs
  <1>5. Single(s)'
    BY Zenon, <1>1, <1>3, <1>4 DEF ConnInv, Single
  <1>6. \A t \in Slaves \ {s} : Pending(t)' = Pending(t) /\ (Single(t)' <=> Single(t))
    BY Zenon, <1>1, SamePending
  <1>7. ASSUME NEW t \in Slaves, NEW x \in Pending(t) PROVE ConnOf(t, x)'
    <2>1. ConnOf(t, x) /\ x.owner # c
      BY Zenon, <1>3, <1>7 DEF ConnInv
    <2>2. QED
      BY Zenon, <1>2, <2>1, OthersConn DEF ConnOf
  <1>8. ConnOf(s, p)'
    BY Zenon, <1>1, Fields DEF ConnOf
  <1>9. ASSUME NEW d \in Clients PROVE Connected(d)'
    <2>1. CASE d = c
      <3>1. Pending(s)' = Pending(Target(c))'
        BY Zenon DEF Pending
      <3>2. QED
        BY Zenon, <1>1, <2>1, <3>1 DEF Connected
    <2>2. CASE d # c
      <3>1. Target(d)' = Target(d) /\ (Waits(d)' <=> Waits(d)) /\ reply'[d] = reply[d]
        BY Zenon, <1>2, <2>2, OthersConn
      <3>2. PICK t \in Slaves : t = Target(d) /\ t = Target(d)'
        BY Zenon, <2>2, <3>1
      <3>3. Pending(t) \subseteq Pending(t)'
        BY Zenon, <1>1, <1>6
      <3>4. Pending(Target(d))' = Pending(t)'
        BY Zenon, <3>2 DEF Pending
      <3>5. QED
        BY Zenon, <3>1, <3>2, <3>3, <3>4 DEF ConnInv, Connected
    <2>3. QED
      BY Zenon, <2>1, <2>2
  <1>10. QED
    BY <1>1, <1>5, <1>6, <1>7, <1>8, <1>9 DEF ConnInv

(* A thread that gives up leaves no connection of its own behind. *)
LEMMA GiveUpConn ==
  ASSUME SlaveTypeOK, ConnInv, NEW c \in Clients, NEW s \in Slaves, GiveUp(s, c),
         \A d \in Clients \ {c} : thread'[d] = thread[d],
         \A d \in Clients \ {c} : Target(d) \in Slaves,
         s = Target(c), ~Waits(c)'
  PROVE  ConnInv'
  <1>1. /\ InQ(wq'[s]) = {Orphan(p, c) : p \in InQ(wq[s])}
        /\ Pending(s)' = {Orphan(p, c) : p \in Pending(s)}
        /\ Alone(wq[s]) => Alone(wq'[s])
        /\ job'[s] = Idle <=> job[s] = Idle
        /\ job[s] # Idle => job'[s].conn = Orphan(job[s].conn, c)
        /\ reply' = reply /\ \A t \in Slaves \ {s} : Same(t)
    BY Zenon, GiveUpEffect
  <1>2. OthersWait(c)
    BY Zenon, <1>1 DEF OthersWait
  <1>3. \A p : /\ Orphan(p, c).owner \in Clients => Orphan(p, c) = p /\ p.owner # c
               /\ p.owner # c => Orphan(p, c) = p
    BY Zenon, MasterAssumption DEF Orphan
  <1>4. \A t \in Slaves \ {s} : /\ Pending(t)' = Pending(t) /\ (Single(t)' <=> Single(t))
                                /\ \A p \in Pending(t) : p.owner # c
    BY Zenon, <1>1, SamePending DEF ConnInv, ConnOf
  <1>5. Single(s)'
    <2>1. Alone(wq'[s])
      BY Zenon, <1>1 DEF ConnInv, Single
    <2>2. ASSUME job'[s] # Idle, NEW x \in InQ(wq'[s]), x.owner \in Clients
          PROVE  job'[s].conn.owner # x.owner
      <3>1. x \in InQ(wq[s]) /\ x.owner # c
        BY Zenon, <1>1, <1>3, <2>2
      <3>2. job[s].conn.owner # x.owner
        BY Zenon, <1>1, <2>2, <3>1 DEF ConnInv, Single
      <3>3. QED
        BY Zenon, <1>1, <1>3, <2>2, <3>2
    <2>3. QED
      BY Zenon, <2>1, <2>2 DEF Single
  <1>6. ASSUME NEW t \in Slaves, NEW x \in Pending(t)' PROVE ConnOf(t, x)'
    <2>1. x.owner \in Clients => x \in Pending(t) /\ x.owner # c
      BY <1>1, <1>3, <1>4, <1>6
    <2>2. x.owner \in Clients => ConnOf(t, x)
      BY Zenon, <2>1 DEF ConnInv
    <2>3. QED
      BY Zenon, <1>2, <2>1, <2>2, OthersConn DEF ConnOf
  <1>7. ASSUME NEW d \in Clients PROVE Connected(d)'
    <2>1. CASE d = c
      BY Zenon, <2>1 DEF Connected
    <2>2. CASE d # c
      <3>1. Target(d)' = Target(d) /\ (Waits(d)' <=> Waits(d)) /\ reply'[d] = reply[d]
        BY Zenon, <1>2, <2>2, OthersConn
      <3>2. PICK t \in Slaves : t = Target(d) /\ t = Target(d)'
        BY Zenon, <2>2, <3>1
      <3>3. \A x \in Pending(t) : x.owner = d => x \in Pending(t)'
        BY Zenon, <1>1, <1>3, <1>4, <2>2
      <3>4. Pending(Target(d))' = Pending(t)'
        BY Zenon, <3>2 DEF Pending
      <3>5. QED
        BY Zenon, <3>1, <3>2, <3>3, <3>4 DEF ConnInv, Connected
    <2>3. QED
      BY Zenon, <2>1, <2>2
  <1>8. QED
    BY Zenon, <1>4, <1>5, <1>6, <1>7 DEF ConnInv

(* No step of the master changes what a slave's job is about. *)
LEMMA MasterJob ==
  ASSUME SlaveTypeOK, JobInv, NEW c \in Clients, NEW s \in Slaves
  PROVE  /\ \A m \in Message : Connect(s, c, m) => JobInv'
         /\ GiveUp(s, c) => JobInv' /\ up[s]
         /\ up' = up /\ log' = log /\ wq' = wq /\ job' = job => JobInv'
  <1>1. ASSUME NEW m \in Message, Connect(s, c, m) PROVE JobInv'
    <2>0. PICK p : p = [msg |-> m, owner |-> c]
      BY Zenon
    <2>1. /\ up' = up /\ log' = log /\ job' = job /\ up[s]
          /\ \A t \in Slaves \ {s} : Same(t)
      BY <1>1, <2>0, ConnectEffect
    <2>2. QED
      BY Zenon, <2>1 DEF JobInv, JobOf, Same
  <1>2. ASSUME GiveUp(s, c) PROVE JobInv' /\ up[s]
    <2>1. /\ up' = up /\ log' = log /\ job'[s].pc = job[s].pc
          /\ job[s] # Idle => job'[s].conn.msg = job[s].conn.msg
          /\ \E p \in Pending(s) : p.owner = c
          /\ \A t \in Slaves \ {s} : Same(t)
      BY Zenon, <1>2, GiveUpEffect
    <2>2. up[s]
      BY Zenon, <2>1, EmptyQueue, PendingIs DEF JobInv, JobOf
    <2>3. job[s] = Idle => job[s].pc = "idle"
      BY Zenon, Fields
    <2>4. JobOf(s)'
      BY Zenon, <2>1, <2>2, <2>3 DEF JobInv, JobOf
    <2>5. \A t \in Slaves \ {s} : JobOf(t)'
      BY Zenon, <2>1, SamePending DEF JobInv
    <2>6. QED
      BY Zenon, <2>2, <2>4, <2>5 DEF JobInv
  <1>3. up' = up /\ log' = log /\ wq' = wq /\ job' = job => JobInv'
    BY Zenon DEF JobInv, JobOf
  <1>4. QED
    BY Zenon, <1>1, <1>2, <1>3

-----------------------------------------------------------------------------
(* What becomes of the thread. *)

OthersStay(c) == \A d \in Clients \ {c} : thread'[d] = thread[d]

(* The fields of the thread after Goto, *)
LEMMA GotoEffect ==
  ASSUME TypeOK, NEW c \in Clients, NEW pc, Goto(c, pc)
  PROVE  /\ OthersStay(c)
         /\ thread'[c].pc = pc /\ thread'[c].req = thread[c].req
         /\ thread'[c].at = thread[c].at /\ thread'[c].abort = thread[c].abort
  BY DEF TypeOK, Thread, Goto, OthersStay

(* after Finish, *)
LEMMA FinishEffect ==
  ASSUME TypeOK, NEW c \in Clients, NEW a, Finish(c, a)
  PROVE  OthersStay(c) /\ thread'[c] = IdleThread /\ thread'[c].pc = "idle"
  BY Zenon DEF TypeOK, Finish, OthersStay, IdleThread

(* after the loop of phase 1 has gone on, *)
LEMMA Phase1Effect ==
  ASSUME TypeOK, NEW c \in Clients, NEW a, NextInPhase1(c, a)
  PROVE  /\ OthersStay(c)
         /\ thread'[c].req = thread[c].req /\ thread'[c].abort = a
         /\ IF LastSlave(c) THEN thread'[c].pc = "phase2" /\ thread'[c].at = 1
            ELSE thread'[c].pc = "phase1" /\ thread'[c].at = thread[c].at + 1
  <1>1. thread[c] \in Thread
    BY Zenon DEF TypeOK
  <1>2. CASE LastSlave(c)
    BY Zenon, <1>1, <1>2 DEF TypeOK, Thread, NextInPhase1, OthersStay
  <1>3. CASE ~LastSlave(c)
    <2> DEFINE T == [thread[c] EXCEPT !.pc = "phase1", !.at = thread[c].at + 1, !.abort = a]
    <2>1. thread' = [thread EXCEPT ![c] = T]
      BY Zenon, <1>3 DEF NextInPhase1
    <2>2. thread'[c] = T /\ OthersStay(c)
      BY Zenon, <2>1 DEF TypeOK, OthersStay
    <2>3. T.pc = "phase1" /\ T.at = thread[c].at + 1 /\ T.abort = a /\ T.req = thread[c].req
      BY Zenon, <1>1 DEF Thread
    <2> HIDE DEF T
    <2>4. QED
      BY Zenon, <1>3, <2>2, <2>3
  <1>4. QED
    BY Zenon, <1>2, <1>3

(* after the loop of phase 2 has gone on, *)
LEMMA Phase2Effect ==
  ASSUME TypeOK, NEW c \in Clients, NextInPhase2(c)
  PROVE  /\ OthersStay(c)
         /\ IF LastSlave(c) THEN thread'[c].pc = "idle"
            ELSE /\ thread'[c].pc = "phase2" /\ thread'[c].at = thread[c].at + 1
                 /\ thread'[c].req = thread[c].req /\ thread'[c].abort = thread[c].abort
  <1>1. CASE LastSlave(c)
    BY Zenon, <1>1, FinishEffect DEF NextInPhase2
  <1>2. CASE ~LastSlave(c)
    <2> DEFINE T == [thread[c] EXCEPT !.pc = "phase2", !.at = thread[c].at + 1]
    <2>1. thread' = [thread EXCEPT ![c] = T]
      BY Zenon, <1>2 DEF NextInPhase2
    <2>2. thread'[c] = T /\ OthersStay(c)
      BY Zenon, <2>1 DEF TypeOK, OthersStay
    <2>3. /\ T.pc = "phase2" /\ T.at = thread[c].at + 1
          /\ T.abort = thread[c].abort /\ T.req = thread[c].req
      BY Zenon DEF TypeOK, Thread
    <2> HIDE DEF T
    <2>4. QED
      BY Zenon, <1>2, <2>2, <2>3
  <1>3. QED
    BY Zenon, <1>1, <1>2

(* and after tpcmaster_handle_get has gone on to the next replica. *)
LEMMA ReplicaEffect ==
  ASSUME TypeOK, NEW c \in Clients, NextReplica(c)
  PROVE  /\ OthersStay(c)
         /\ \/ thread'[c].pc = "idle"
            \/ /\ thread'[c].pc = "get" /\ thread'[c].req = thread[c].req
               /\ thread'[c].at = thread[c].at + 1 /\ thread[c].at < Redundancy
               /\ thread'[c].abort = thread[c].abort
  <1>1. CASE thread[c].at < Redundancy
    <2> DEFINE T == [thread[c] EXCEPT !.pc = "get", !.at = thread[c].at + 1]
    <2>1. thread' = [thread EXCEPT ![c] = T]
      BY Zenon, <1>1 DEF NextReplica
    <2>2. thread'[c] = T /\ OthersStay(c)
      BY Zenon, <2>1 DEF TypeOK, OthersStay
    <2>3. /\ T.pc = "get" /\ T.at = thread[c].at + 1
          /\ T.abort = thread[c].abort /\ T.req = thread[c].req
      BY Zenon DEF TypeOK, Thread
    <2> HIDE DEF T
    <2>4. QED
      BY Zenon, <1>1, <2>2, <2>3
  <1>2. CASE ~(thread[c].at < Redundancy)
    BY Zenon, <1>2, FinishEffect DEF NextReplica
  <1>3. QED
    BY Zenon, <1>1, <1>2

-----------------------------------------------------------------------------
(* Steps that no slave of a transaction notices. *)

Bystander(d) == ~InTPC(d) /\ ~InTPC(d)' /\ voted'[d] \in {voted[d], {}}
Stays(d) == SameThread(d) /\ reply'[d] = reply[d]

(* A step that is harmless to every slave keeps the invariant. *)
LEMMA QuietInv ==
  ASSUME TypeOK, Inv, ConnInv', JobInv', OneWriter',
         \A s \in Slaves : Harmless(s),
         \A d \in Clients : Stays(d) \/ Bystander(d),
         \A d \in Clients : reply'[d].type \in {reply[d].type, "none"},
         budget.crashes' = budget.crashes, Undisturbed' => Undisturbed
  PROVE  Inv'
  <1>1. ASSUME NEW c \in Clients, InTPC(c), NEW n \in 1..Len(Order)
        PROVE  InPhase(c, n)' /\ \A B : Agrees(c, n, B) => Agrees(c, n, B)'
    <2>1. /\ InPhase(c, n) /\ Order[n] \in Slaves /\ thread[c].req \in Request
      BY Zenon, <1>1, Positions DEF Inv, SlavesInv, OneWriter
    <2>2. SameThread(c) /\ reply'[c] = reply[c] /\ Harmless(Order[n])
      BY Zenon, <1>1, <2>1 DEF Stays, Bystander
    <2>3. QED
      BY Zenon, <2>1, <2>2, SamePhase
  <1>2. \A c \in Clients : InTPC(c)' <=> InTPC(c)
    BY Zenon DEF InTPC, Stays, SameThread, Bystander
  <1>3. \A s \in Slaves : (Clean(s)' <=> Clean(s)) /\ store'[s] = store[s] /\ up'[s] = up[s]
    BY Zenon, SameRoles DEF Harmless
  <1>4. SlavesInv'
    <2>1. \A t \in Slaves : t \notin Range(Order) \/ NoWriter' => Clean(t)'
      BY Zenon, <1>2, <1>3 DEF Inv, SlavesInv, NoWriter
    <2>2. \A c \in Clients : InTPC(c)' => \A n \in 1..Len(Order) : InPhase(c, n)'
      BY Zenon, <1>1, <1>2
    <2>3. QED
      BY Zenon, <2>1, <2>2 DEF SlavesInv
  <1>5. VotesInv'
    <2>1. \A c \in Clients : VotesOf(c) => VotesOf(c)'
      <3> TAKE c \in Clients
      <3>1. CASE Stays(c)
        BY Zenon, <3>1 DEF VotesOf, Phase1, Phase2, Stays, SameThread
      <3>2. CASE Bystander(c)
        BY Zenon, <3>2 DEF VotesOf, Phase1, Phase2, Bystander, InTPC
      <3>3. QED
        BY Zenon, <3>1, <3>2
    <2>2. \A c \in Clients : voted'[c] \in {voted[c], {}}
      BY Zenon DEF Stays, SameThread, Bystander
    <2>3. QED
      BY Zenon, <1>3, <2>1, <2>2 DEF Inv, VotesInv
  <1>6. AgreeInv'
    <2> SUFFICES ASSUME budget.crashes = 0
                 PROVE  /\ NoWriter' => \A t, u \in Range(Order) : store'[t] = store'[u]
                        /\ \A c \in Clients : InTPC(c)' =>
                             \E B \in Store : \A n \in 1..Len(Order) : Agrees(c, n, B)'
      BY Zenon DEF AgreeInv
    <2>1. \A t \in Range(Order) : t \in Slaves
      BY Zenon, Positions
    <2>2. NoWriter' => \A t, u \in Range(Order) : store'[t] = store'[u]
      BY Zenon, <1>2, <1>3, <2>1 DEF Inv, AgreeInv, NoWriter
    <2>3. ASSUME NEW c \in Clients, InTPC(c)'
          PROVE  \E B \in Store : \A n \in 1..Len(Order) : Agrees(c, n, B)'
      <3>1. PICK B \in Store : \A n \in 1..Len(Order) : Agrees(c, n, B)
        BY Zenon, <1>2, <2>3 DEF Inv, AgreeInv
      <3>2. QED
        BY Zenon, <1>1, <1>2, <2>3, <3>1
    <2>4. QED
      BY Zenon, <2>2, <2>3
  <1>7. QED
    BY Zenon, <1>4, <1>5, <1>6 DEF Inv

(* The step of a thread that runs no transaction leaves OneWriter. *)
LEMMA KeepWriter ==
  ASSUME OneWriter, NEW c \in Clients, OthersStay(c),
         InTPC(c)' => InTPC(c) /\ thread'[c].req = thread[c].req,
         Reading(c)' => Reading(c) /\ thread'[c].req = thread[c].req
  PROVE  OneWriter'
  <1>1. \A d \in Clients \ {c} : (InTPC(d)' <=> InTPC(d)) /\ (Reading(d)' <=> Reading(d))
    BY Zenon DEF OthersStay, InTPC, Reading
  <1>2. QED
    BY Zenon, <1>1 DEF OneWriter, OthersStay

(* tpcmaster_handle_get keeps the invariant. *)
LEMMA ReaderInv ==
  ASSUME TypeOK, Inv, NEW c \in Clients, ~InTPC(c),
         Contact(c) \/ Unreachable(c) \/ Receive(c) \/ Timeout(c) \/ Reset(c)
  PROVE  Inv'
  <1> SlaveTypeOK /\ ConnInv /\ JobInv /\ OneWriter
    BY Zenon DEF TypeOK, Inv
  <1>1. /\ \A d \in Clients : Target(d) \in Slaves
        /\ Reading(c) => thread[c].req \in GetReq
    BY Zenon, Targets DEF OneWriter
  <1>2. \A m \in GetReq : m \in Message /\ m \notin Entry
    BY Zenon, Messages DEF Message, GetReq
  <1> DEFINE s == Target(c)
  <1>3. ASSUME NEW d \in Clients, OthersStay(c), reply' = reply \/ reply' = [reply EXCEPT ![c] = NoReply],
               voted' = voted, ~InTPC(c)'
        PROVE  /\ Stays(d) \/ Bystander(d)
               /\ reply'[d].type \in {reply[d].type, "none"}
    <2>1. reply'[d] = IF d = c THEN reply'[c] ELSE reply[d]
      BY Zenon, <1>3 DEF SlaveTypeOK
    <2>2. reply'[c] = reply[c] \/ reply'[c].type = "none"
      BY Zenon, <1>3, Fields DEF SlaveTypeOK
    <2>3. QED
      BY Zenon, <1>3, <2>1, <2>2 DEF Stays, SameThread, Bystander, OthersStay
  <1>4. CASE Contact(c)
    <2>1. /\ thread[c].pc = "get" /\ Connect(s, c, thread[c].req) /\ Goto(c, "waitget")
          /\ voted' = voted /\ budget' = budget
      BY Zenon, <1>4 DEF Contact, InTPC
    <2>2. /\ OthersStay(c) /\ thread'[c].pc = "waitget" /\ thread'[c].req = thread[c].req
          /\ thread'[c].at = thread[c].at
      BY Zenon, <2>1, GotoEffect
    <2>3. Reading(c) /\ Reading(c)' /\ ~InTPC(c)' /\ Target(c)' = s
      BY Zenon, <2>1, <2>2 DEF Reading, Target, InTPC
    <2>4. PICK m \in Message : m = thread[c].req
      BY Zenon, <1>1, <1>2, <2>3
    <2>5. /\ \A t \in Slaves \ {s} : Same(t)
          /\ Harmless(s) /\ reply' = [reply EXCEPT ![c] = NoReply]
      <3>1. Connect(s, c, m) /\ m \notin Entry /\ s \in Slaves
        BY Zenon, <1>1, <1>2, <2>1, <2>3, <2>4
      <3>2. PICK p : p = [msg |-> m, owner |-> c]
        BY Zenon
      <3>3. QED
        BY Zenon, <2>4, <3>1, <3>2, ConnectEffect DEF Connect
    <2>6. \A t \in Slaves : Harmless(t)
      BY Zenon, <2>5, SameHarmless
    <2>7. ConnInv'
      BY Zenon, <1>1, <1>2, <2>1, <2>2, <2>3, ConnectConn DEF Waits, OthersStay
    <2>8. JobInv'
      BY Zenon, <1>1, <1>2, <2>1, <2>3, MasterJob
    <2>9. OneWriter'
      BY Zenon, <2>2, <2>3, KeepWriter
    <2>10. QED
      BY Zenon, <1>3, <2>1, <2>2, <2>3, <2>5, <2>6, <2>7, <2>8, <2>9, QuietInv
         DEF Undisturbed
  <1>5. ASSUME OthersStay(c), thread'[c].pc = "idle" \/
                 (thread'[c].pc = "get" /\ thread'[c].req = thread[c].req /\ Reading(c)),
               voted' = voted
        PROVE  ~InTPC(c)' /\ ~Waits(c)' /\ OneWriter'
    <2>1. ~InTPC(c)' /\ ~Waits(c)' /\ (Reading(c)' => thread'[c].pc = "get")
      BY Zenon, <1>5 DEF InTPC, Waits, Reading
    <2>2. QED
      BY Zenon, <1>5, <2>1, KeepWriter
  <1>6. CASE Unreachable(c) \/ Receive(c) \/ Reset(c)
    <2>1. /\ Reading(c) /\ voted' = voted /\ budget' = budget
          /\ reply' = reply \/ reply' = [reply EXCEPT ![c] = NoReply]
          /\ NextReplica(c) \/ \E a : Finish(c, a)
          /\ ~Waits(c) \/ reply[c].type # "none"
          /\ up' = up /\ state' = state /\ log' = log /\ store' = store
          /\ wq' = wq /\ job' = job
      <3>1. CASE Unreachable(c)
        BY Zenon, <3>1
           DEF Unreachable, InTPC, Reading, NoVote, Waits, slaveVars
      <3>2. CASE Receive(c)
        BY Zenon, <3>2 DEF Receive, InTPC, Reading
      <3>3. CASE Reset(c)
        BY Zenon, <3>3 DEF Reset, InTPC, Reading, NoVote
      <3>4. QED
        BY Zenon, <1>6, <3>1, <3>2, <3>3
    <2>2. OthersStay(c) /\ (thread'[c].pc = "idle" \/
            (thread'[c].pc = "get" /\ thread'[c].req = thread[c].req))
      BY Zenon, <2>1, ReplicaEffect, FinishEffect
    <2>3. ~InTPC(c)' /\ ~Waits(c)' /\ OneWriter'
      BY Zenon, <1>5, <2>1, <2>2
    <2>4. OthersWait(c)
      BY Zenon, <2>1, <2>2 DEF OthersWait, OthersStay, SlaveTypeOK
    <2>5. ConnInv' /\ JobInv'
      BY Zenon, <1>1, <2>1, <2>3, <2>4, LeaveConn, MasterJob
    <2>6. \A t \in Slaves : Harmless(t)
      BY Zenon, <2>1, SameHarmless DEF Same
    <2>7. QED
      BY Zenon, <1>3, <2>1, <2>2, <2>3, <2>5, <2>6, QuietInv DEF Undisturbed
  <1>7. CASE Timeout(c)
    <2>1. /\ thread[c].pc = "waitget" /\ GiveUp(s, c) /\ NextReplica(c) /\ voted' = voted
          /\ Reading(c) /\ budget' = [budget EXCEPT !.timeouts = @ + 1]
      BY Zenon, <1>7 DEF Timeout, InTPC, NoVote, Reading
    <2>2. OthersStay(c) /\ (thread'[c].pc = "idle" \/
            (thread'[c].pc = "get" /\ thread'[c].req = thread[c].req))
      BY Zenon, <2>1, ReplicaEffect
    <2>3. ~InTPC(c)' /\ ~Waits(c)' /\ OneWriter'
      BY Zenon, <1>5, <2>1, <2>2
    <2>4. ConnInv' /\ JobInv'
      BY Zenon, <1>1, <2>1, <2>2, <2>3, GiveUpConn, MasterJob DEF OthersStay
    <2>5. \A p \in Pending(s) : p.owner = c => p.msg \notin Entry
      BY Zenon, <1>1, <2>1 DEF ConnInv, ConnOf
    <2>6. reply' = reply /\ \A t \in Slaves : Harmless(t)
      <3>1. Harmless(s) /\ reply' = reply /\ \A t \in Slaves \ {s} : Same(t)
        BY Zenon, <1>1, <2>1, <2>5, GiveUpHarmless, GiveUpEffect
      <3>2. QED
        BY Zenon, <3>1, SameHarmless
    <2>7. budget.crashes' = budget.crashes /\ (Undisturbed' => Undisturbed)
      BY <2>1 DEF TypeOK, Undisturbed
    <2>8. QED
      BY Zenon, <1>3, <2>1, <2>2, <2>3, <2>4, <2>6, <2>7, QuietInv
  <1>8. QED
    BY Zenon, <1>4, <1>6, <1>7
=============================================================================

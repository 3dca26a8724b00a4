--------------------------- MODULE TPCSlaveProofs ---------------------------
(***************************************************************************)
(* Lemmas about one slave, for any slaves, threads of the master, keys and *)
(* values: messages and logs, what redoing a log yields, and that every    *)
(* step of a slave keeps its types.  The proofs about the slaves alone     *)
(* (TPCReplicaProofs) and with their master (TwoPhaseCommitProofs) share   *)
(* them.                                                                   *)
(***************************************************************************)
EXTENDS TPCSlave, TLAPS

(* What tells the messages apart. *)
LEMMA Messages ==
  /\ NoRequest \notin Entry /\ COMMIT \in Entry /\ ABORT \in Entry
  /\ COMMIT # ABORT /\ COMMIT \notin Request /\ ABORT \notin Request
  /\ Request \subseteq Entry /\ Entry \subseteq Message
  /\ \A m \in Entry : m \in Request \/ m = COMMIT \/ m = ABORT
  /\ \A m \in Message : m.type = "GETREQ" => m \notin Entry
  <1>1. COMMIT.type = "COMMIT" /\ ABORT.type = "ABORT"
    BY Zenon DEF COMMIT, ABORT
  <1>2. \A r \in Request : r.type \in {"PUTREQ", "DELREQ"}
    BY Zenon DEF Request, PutReq, DelReq
  <1>3. QED
    BY Zenon, <1>1, <1>2, SlaveAssumption DEF Entry, Message

(* A request turns a store into a store, and twice is as good as once. *)
LEMMA ApplyStore ==
  ASSUME NEW st \in Store, NEW r \in Request
  PROVE  Apply(st, r) \in Store /\ Apply(Apply(st, r), r) = Apply(st, r)
  <1>1. CASE r \in PutReq
    <2>1. r.type = "PUTREQ" /\ r.key \in Keys /\ r.value \in Values
      BY Zenon, <1>1 DEF PutReq
    <2>2. QED
      BY Zenon, <2>1 DEF Apply, Check, Store
  <1>2. CASE r \in DelReq
    <2>1. r.type = "DELREQ" /\ r.key \in Keys
      BY Zenon, <1>2 DEF DelReq
    <2>2. QED
      BY Zenon, <2>1 DEF Apply, Check, Store
  <1>3. QED
    BY Zenon, <1>1, <1>2 DEF Request

(* The end of a log that has been appended to. *)
LEMMA LastAppend ==
  ASSUME NEW l \in Seq(Entry), NEW e \in Entry
  PROVE  LastEntry(Append(l, e)) = e
  <1>1. Append(l, e) \in Seq(Entry) /\ Len(Append(l, e)) = Len(l) + 1
        /\ Append(l, e)[Len(l) + 1] = e /\ Len(l) \in Nat
    OBVIOUS
  <1>2. Append(l, e) # <<>>
    BY <1>1
  <1>3. QED
    BY Zenon, <1>1, <1>2 DEF LastEntry

(* The last entry of a log is an entry, or there is none. *)
LEMMA LastEntryType ==
  ASSUME NEW l \in Seq(Entry)
  PROVE  LastEntry(l) \in Entry \cup {NoRequest}
  <1>1. CASE l = <<>>
    BY Zenon, <1>1 DEF LastEntry
  <1>2. CASE l # <<>>
    BY <1>2 DEF LastEntry
  <1>3. QED
    BY Zenon, <1>1, <1>2

(* A COMMIT logged after a request is for this request. *)
LEMMA CommitAfterRequest ==
  ASSUME NEW l \in Seq(Entry), IsRequest(LastEntry(l))
  PROVE  LastRequest(Append(l, COMMIT)) = LastEntry(l)
  <1> DEFINE a == Append(l, COMMIT)
             n == Len(l)
             last == {i \in 1..Len(a) : /\ IsRequest(a[i])
                                        /\ \A j \in (i + 1)..Len(a) : ~IsRequest(a[j])}
  <1>1. l # <<>>
    BY Zenon, SlaveAssumption, Messages DEF LastEntry, IsRequest
  <1>2. n \in Nat /\ n >= 1 /\ LastEntry(l) = l[n]
    BY <1>1 DEF LastEntry
  <1>3. Len(a) = n + 1 /\ a[n] = l[n] /\ a[n + 1] = COMMIT
    BY <1>2, Messages
  <1>4. ~IsRequest(COMMIT)
    BY Zenon, Messages DEF IsRequest
  <1> HIDE DEF a, n
  <1>5. n \in last
    BY <1>2, <1>3, <1>4
  <1>6. ASSUME NEW m \in last PROVE m = n
    <2>1. m \in 1..(n + 1) /\ m # n + 1
      BY Zenon, <1>3, <1>4
    <2>2. n \notin (m + 1)..(n + 1)
      BY Zenon, <1>2, <1>3
    <2>3. QED
      BY <1>2, <2>1, <2>2
  <1>7. (CHOOSE m \in last : TRUE) = n
    BY Zenon, <1>5, <1>6
  <1>8. QED
    BY Zenon, <1>2, <1>3, <1>5, <1>7 DEF LastRequest, a

(* The last request of a log, if any, is a request. *)
LEMMA LastRequestType ==
  ASSUME NEW l \in Seq(Entry), LastRequest(l) # NoRequest
  PROVE  LastRequest(l) \in Request
  <1> DEFINE last == {n \in 1..Len(l) : /\ IsRequest(l[n])
                                        /\ \A m \in (n + 1)..Len(l) : ~IsRequest(l[m])}
  <1>1. last # {} /\ LastRequest(l) = l[CHOOSE n \in last : TRUE]
    BY Zenon DEF LastRequest
  <1>2. PICK n \in last : n = CHOOSE m \in last : TRUE
    BY Zenon, <1>1
  <1>3. QED
    BY Zenon, <1>1, <1>2 DEF IsRequest

(* Recovering a recovered store changes nothing. *)
LEMMA RedoTwice ==
  ASSUME NEW l \in Seq(Entry), NEW d \in Store
  PROVE  Redo(l, d) \in Store /\ Redo(l, Redo(l, d)) = Redo(l, d)
  BY Zenon, LastRequestType, ApplyStore DEF Redo

-----------------------------------------------------------------------------
(* Types. *)

(* The fields of a job. *)
LEMMA JobType ==
  ASSUME NEW j \in Job \cup {Idle}
  PROVE  /\ j = Idle <=> j.pc = "idle"
         /\ j # Idle => /\ j \in Job /\ j.pc \in {"log", "vote", "apply", "ack"}
                        /\ j.conn \in Conn /\ j.conn.msg \in Entry
                        /\ j.conn.owner \in Clients \cup {None}
                        /\ j.entry \in Entry \cup {NoRequest}
  <1>1. Idle.pc = "idle"
    BY Zenon DEF Idle
  <1>2. \A x \in Job : /\ x.pc \in {"log", "vote", "apply", "ack"}
                       /\ x.conn \in [msg : Entry, owner : Clients \cup {None}]
                       /\ x.entry \in Entry \cup {NoRequest}
    BY Zenon DEF Job
  <1>3. \A c \in [msg : Entry, owner : Clients \cup {None}] :
          c \in Conn /\ c.msg \in Entry /\ c.owner \in Clients \cup {None}
    BY Zenon, Messages DEF Conn
  <1>4. QED
    BY Zenon, <1>1, <1>2, <1>3

(* An answer is a reply. *)
LEMMA AnswerReply ==
  ASSUME SlaveTypeOK, NEW c \in Conn, NEW r \in Reply, Answer(c, r)
  PROVE  reply' \in [Clients -> Reply]
  BY Zenon DEF SlaveTypeOK, Answer

(* Every reply the slave sends is one. *)
LEMMA ReplyTypes ==
  /\ [type |-> "RESP"] \in Reply /\ [type |-> "ACK"] \in Reply
  /\ [type |-> "RESET"] \in Reply /\ NoReply \in Reply
  /\ [type |-> "VOTE_COMMIT"] \in Reply /\ [type |-> "VOTE_ABORT"] \in Reply
  /\ \A v \in Values : [type |-> "GETRESP", value |-> v] \in Reply
  BY Zenon DEF Reply, NoReply

(* An idle worker and a missing reply are told by one field. *)
LEMMA Fields ==
  Idle.pc = "idle" /\ NoReply.type = "none"
  BY Zenon DEF Idle, NoReply

(* wq_pop takes a connection of the queue. *)
LEMMA PopType ==
  ASSUME SlaveTypeOK, NEW s \in Slaves, Pop(s)
  PROVE  /\ wq' \in [Slaves -> Seq(Conn)]
         /\ Head(wq[s]) \in Conn /\ Head(wq[s]).msg \in Message
  <1>1. wq[s] \in Seq(Conn) /\ wq[s] # <<>>
    BY Zenon DEF SlaveTypeOK, Pop
  <1>2. Head(wq[s]) \in Conn /\ Tail(wq[s]) \in Seq(Conn)
    BY <1>1
  <1>3. QED
    BY Zenon, <1>2 DEF SlaveTypeOK, Pop, Conn

(* Every step of the slave keeps its types, *)
LEMMA StepType ==
  ASSUME SlaveTypeOK, NEW s \in Slaves, SlaveStep(s)
  PROVE  SlaveTypeOK'
  <1> DEFINE j == job[s]
  <1>1. CASE HandleGet(s)
    <2> DEFINE c == Head(wq[s])
               r == IF store[s][c.msg.key] = Absent THEN [type |-> "RESP"]
                    ELSE [type |-> "GETRESP", value |-> store[s][c.msg.key]]
    <2>1. /\ Pop(s) /\ c.msg.type = "GETREQ" /\ Answer(c, r) /\ UNCHANGED job
      BY Zenon, <1>1 DEF HandleGet
    <2>2. c \in Conn /\ c.msg \in Message /\ wq' \in [Slaves -> Seq(Conn)]
      BY Zenon, <2>1, PopType
    <2>3. c.msg.key \in Keys
      <3>1. \A m \in Message : m.type = "GETREQ" => m \in GetReq
        BY Zenon, Messages DEF Message
      <3>2. QED
        BY Zenon, <2>1, <2>2, <3>1 DEF GetReq
    <2>4. store[s][c.msg.key] \in Values \cup {Absent}
      BY <2>3 DEF SlaveTypeOK, Store
    <2>5. r \in Reply
      BY Zenon, <2>4, ReplyTypes
    <2> HIDE DEF r, c
    <2>6. reply' \in [Clients -> Reply]
      BY Zenon, <2>1, <2>2, <2>5, AnswerReply
    <2>7. QED
      BY Zenon, <2>1, <2>2, <2>6 DEF SlaveTypeOK, Pop
  <1>2. CASE RefuseInWait(s)
    <2>1. reply' \in [Clients -> Reply]
      BY Zenon, <1>2, PopType, AnswerReply, ReplyTypes DEF RefuseInWait
    <2>2. QED
      BY Zenon, <1>2, <2>1, PopType DEF RefuseInWait, Pop, SlaveTypeOK
  <1>3. CASE Accept(s)
    <2> DEFINE c == Head(wq[s])
               new == [pc |-> "log", conn |-> c,
                       entry |-> IF c.msg = COMMIT THEN LastEntry(log[s]) ELSE NoRequest]
    <2>1. /\ Pop(s) /\ job' = [job EXCEPT ![s] = new] /\ UNCHANGED reply
          /\ c.msg \in Entry
      BY Zenon, <1>3 DEF Accept
    <2>2. c \in Conn /\ wq' \in [Slaves -> Seq(Conn)]
      BY Zenon, <2>1, PopType
    <2>3. LastEntry(log[s]) \in Entry \cup {NoRequest}
      BY Zenon, LastEntryType DEF SlaveTypeOK
    <2>4. new \in Job
      <3>1. c \in [msg : Entry, owner : Clients \cup {None}]
        BY Zenon, <2>1, <2>2 DEF Conn
      <3>2. QED
        BY Zenon, <2>3, <3>1 DEF Job
    <2> HIDE DEF new, c
    <2>5. job' \in [Slaves -> Job \cup {Idle}]
      BY Zenon, <2>1, <2>4 DEF SlaveTypeOK
    <2>6. QED
      BY Zenon, <2>1, <2>2, <2>5 DEF SlaveTypeOK, Pop
  <1>4. CASE Log(s)
    <2>1. j \in Job /\ j.conn.msg \in Entry
      BY Zenon, <1>4, JobType DEF SlaveTypeOK, Log, Idle
    <2>2. [j EXCEPT !.pc = AfterLog(j.conn.msg)] \in Job
      BY Zenon, <2>1 DEF Job, AfterLog
    <2>3. job' \in [Slaves -> Job \cup {Idle}]
      BY Zenon, <1>4, <2>2 DEF SlaveTypeOK, Log
    <2>4. log' \in [Slaves -> Seq(Entry)]
      BY <1>4, <2>1 DEF SlaveTypeOK, Log
    <2>5. QED
      BY Zenon, <1>4, <2>3, <2>4 DEF SlaveTypeOK, Log
  <1>5. CASE Vote(s)
    <2> DEFINE r == [type |-> IF Check(store[s], j.conn.msg) THEN "VOTE_COMMIT"
                              ELSE "VOTE_ABORT"]
    <2>1. j.conn \in Conn /\ Answer(j.conn, r)
      BY Zenon, <1>5, JobType DEF SlaveTypeOK, Vote, Idle
    <2>2. r \in Reply
      BY Zenon, ReplyTypes
    <2> HIDE DEF r
    <2>3. reply' \in [Clients -> Reply]
      BY Zenon, <2>1, <2>2, AnswerReply
    <2>4. QED
      BY Zenon, <1>5, <2>3 DEF SlaveTypeOK, Vote
  <1>6. CASE ApplyCommit(s)
    <2>1. j \in Job /\ j.entry \in Entry \cup {NoRequest}
      BY Zenon, <1>6, JobType DEF SlaveTypeOK, ApplyCommit, Idle
    <2>2. [j EXCEPT !.pc = "ack"] \in Job
      BY Zenon, <2>1 DEF Job
    <2>3. Apply(store[s], COMMIT) = store[s] /\ Apply(store[s], ABORT) = store[s]
      BY Zenon DEF Apply, COMMIT, ABORT
    <2>4. j.entry # NoRequest => Apply(store[s], j.entry) \in Store
      <3>1. store[s] \in Store
        BY Zenon DEF SlaveTypeOK
      <3>2. CASE j.entry \in Request
        BY Zenon, <3>1, <3>2, ApplyStore
      <3>3. CASE j.entry \in {COMMIT, ABORT}
        BY Zenon, <2>3, <3>1, <3>3
      <3>4. QED
        BY Zenon, <2>1, <3>2, <3>3, Messages
    <2>5. store' \in [Slaves -> Store]
      BY Zenon, <1>6, <2>4 DEF SlaveTypeOK, ApplyCommit
    <2>6. job' \in [Slaves -> Job \cup {Idle}]
      BY Zenon, <1>6, <2>2 DEF SlaveTypeOK, ApplyCommit
    <2>7. QED
      BY Zenon, <1>6, <2>5, <2>6 DEF SlaveTypeOK, ApplyCommit
  <1>7. CASE Ack(s)
    <2>1. j.conn \in Conn /\ Answer(j.conn, [type |-> "ACK"])
      BY Zenon, <1>7, JobType DEF SlaveTypeOK, Ack, Idle
    <2>2. reply' \in [Clients -> Reply]
      BY Zenon, <2>1, AnswerReply, ReplyTypes
    <2>3. QED
      BY Zenon, <1>7, <2>2 DEF SlaveTypeOK, Ack
  <1>8. QED
    BY Zenon, <1>1, <1>2, <1>3, <1>4, <1>5, <1>6, <1>7 DEF SlaveStep

(* A client that gives up leaves its connections without an owner. *)
LEMMA Orphans ==
  ASSUME NEW c
  PROVE  /\ \A p \in Conn : Orphan(p, c) \in Conn /\ Orphan(p, c).msg = p.msg
         /\ \A j \in Job \cup {Idle} : /\ OrphanJob(j, c) \in Job \cup {Idle}
                                       /\ j = Idle <=> OrphanJob(j, c) = Idle
                                       /\ OrphanJob(j, c).pc = j.pc
                                       /\ j # Idle =>
                                            /\ OrphanJob(j, c).entry = j.entry
                                            /\ OrphanJob(j, c).conn.msg = j.conn.msg
  <1>1. \A p \in Conn : Orphan(p, c) \in Conn /\ Orphan(p, c).msg = p.msg
    BY Zenon DEF Orphan, Conn
  <1>2. OrphanJob(Idle, c) = Idle
    BY Zenon DEF OrphanJob
  <1>3. ASSUME NEW j \in Job
        PROVE  /\ OrphanJob(j, c) \in Job /\ OrphanJob(j, c).pc = j.pc
               /\ OrphanJob(j, c).entry = j.entry
               /\ OrphanJob(j, c).conn.msg = j.conn.msg
               /\ j # Idle /\ OrphanJob(j, c) # Idle
    <2>1. j # Idle /\ j.pc \in {"log", "vote", "apply", "ack"} /\ Idle.pc = "idle"
      BY DEF Job, Idle
    <2>2. Orphan(j.conn, c) \in [msg : Entry, owner : Clients \cup {None}]
          /\ Orphan(j.conn, c).msg = j.conn.msg
      BY Zenon DEF Orphan, Job
    <2> DEFINE o == OrphanJob(j, c)
    <2>3. o = [pc |-> j.pc, conn |-> Orphan(j.conn, c), entry |-> j.entry]
      BY Zenon, <2>1 DEF OrphanJob
    <2>4. o \in Job
      BY <2>1, <2>2, <2>3 DEF Job
    <2>5. QED
      BY <2>1, <2>2, <2>3, <2>4
  <1>4. QED
    BY Zenon, <1>1, <1>2, <1>3

(* so do a crash, *)
LEMMA CrashType ==
  ASSUME SlaveTypeOK, NEW s \in Slaves, Crash(s)
  PROVE  SlaveTypeOK'
  BY ReplyTypes DEF SlaveTypeOK, Crash

(* a restart, *)
LEMMA RestartType ==
  ASSUME SlaveTypeOK, NEW s \in Slaves, Restart(s)
  PROVE  SlaveTypeOK'
  <1>1. Redo(log[s], store[s]) \in Store
    BY Zenon, RedoTwice DEF SlaveTypeOK
  <1>2. store' \in [Slaves -> Store]
    BY Zenon, <1>1 DEF SlaveTypeOK, Restart
  <1>3. QED
    BY Zenon, <1>2 DEF SlaveTypeOK, Restart, RebuiltState

(* a message of the master, *)
LEMMA ConnectType ==
  ASSUME SlaveTypeOK, NEW s \in Slaves, NEW c \in Clients, NEW m \in Message,
         Connect(s, c, m)
  PROVE  SlaveTypeOK'
  <1>1. [msg |-> m, owner |-> c] \in Conn
    BY Zenon DEF Conn
  <1>2. QED
    BY <1>1, ReplyTypes DEF SlaveTypeOK, Connect

(* and a master that gives up on it. *)
LEMMA GiveUpType ==
  ASSUME SlaveTypeOK, NEW s \in Slaves, NEW c \in Clients, GiveUp(s, c)
  PROVE  SlaveTypeOK'
  <1>1. [n \in 1..Len(wq[s]) |-> Orphan(wq[s][n], c)] \in Seq(Conn)
    <2>1. wq[s] \in Seq(Conn)
      BY Zenon DEF SlaveTypeOK
    <2>2. Len(wq[s]) \in Nat /\ \A n \in 1..Len(wq[s]) : wq[s][n] \in Conn
      BY <2>1
    <2>3. \A n \in 1..Len(wq[s]) : Orphan(wq[s][n], c) \in Conn
      BY Zenon, <2>2, Orphans
    <2>4. QED
      BY <2>2, <2>3
  <1>2. OrphanJob(job[s], c) \in Job \cup {Idle}
    BY Zenon, Orphans DEF SlaveTypeOK
  <1>3. QED
    BY Zenon, <1>1, <1>2 DEF SlaveTypeOK, GiveUp
=============================================================================

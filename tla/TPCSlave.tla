------------------------------ MODULE TPCSlave ------------------------------
(***************************************************************************)
(* The slaves of the two-phase commit: kvserver_handle_tpc with its log    *)
(* (tpclog.c), and kvserver_rebuild_state.                                 *)
(*                                                                         *)
(* A connection waits in the work queue, is handled by the one thread of   *)
(* the slave and answered once (kvserver_handle).  Between reading a       *)
(* message and answering it the handler writes the log and the store, and  *)
(* the process may stop between any two of these steps: each is an action. *)
(* Memory is lost in a crash; the log and the store are files.             *)
(***************************************************************************)
EXTENDS KVRequest, Naturals, Sequences

CONSTANTS Slaves,
          Clients,      \* the threads of the master that open connections
          NoRequest,
          Rebuilds,     \* a restart calls kvserver_rebuild_state
          TornWrites    \* a crash may hit tpclog_log between open and write

ASSUME SlaveAssumption == /\ NoRequest \notin Entry
                          /\ Rebuilds \in BOOLEAN /\ TornWrites \in BOOLEAN
                          /\ TornWrites => Rebuilds

VARIABLES up,       \* the process runs
          state,    \* server->state
          log,      \* the entries of the log directory, oldest first
          torn,     \* the directory ends in a log file of length zero
          store,    \* server->store
          wq,       \* the accepted connections
          job,      \* what the handler thread is doing
          reply     \* the answer that waits for each client

slaveVars == <<up, state, log, torn, store, wq, job, reply>>

-----------------------------------------------------------------------------
(* A connection; its owner is None once the client has given up on it. *)
None == "none"
Conn == [msg : Message, owner : Clients \cup {None}]

Reply == [type : {"none", "RESP", "VOTE_COMMIT", "VOTE_ABORT", "ACK", "RESET"}]
           \cup [type : {"GETRESP"}, value : Values]
NoReply == [type |-> "none"]

Idle == [pc |-> "idle"]
Job == [pc : {"log", "vote", "apply", "ack"},
        conn : [msg : Entry, owner : Clients \cup {None}],
        entry : Entry \cup {NoRequest}]

IsRequest(e) == e \in Request

(* Mutant of Answer: an error is not answered. *)
AnswerDropsErrors(c, r) ==
  reply' = IF c.owner \in Clients /\ r.type # "RESP"
           THEN [reply EXCEPT ![c.owner] = r] ELSE reply

(* The handlers send one message back on the connection. *)
Answer(c, r) ==
  reply' = IF c.owner \in Clients THEN [reply EXCEPT ![c.owner] = r] ELSE reply

(* The connections of a slave that have had no answer yet. *)
Pending(s) == {wq[s][n] : n \in 1..Len(wq[s])}
                \cup (IF job[s] = Idle THEN {} ELSE {job[s].conn})

(* The last entry of the log iteration; the variable is uninitialised when *)
(* the log is empty.                                                       *)
LastEntry(l) == IF l = <<>> THEN NoRequest ELSE l[Len(l)]

(* prev in kvserver_rebuild_state: the last request of the log. *)
LastRequest(l) ==
  LET last == {n \in 1..Len(l) : /\ IsRequest(l[n])
                                 /\ \A m \in (n + 1)..Len(l) : ~IsRequest(l[m])}
  IN IF last = {} THEN NoRequest ELSE l[CHOOSE n \in last : TRUE]

-----------------------------------------------------------------------------
(* The slaves run kvserver_init on an empty directory. *)
SlaveInit == /\ up = [s \in Slaves |-> TRUE]
             /\ state = [s \in Slaves |-> "TPC_INIT"]
             /\ log = [s \in Slaves |-> <<>>]
             /\ torn = [s \in Slaves |-> FALSE]
             /\ store = [s \in Slaves |-> EmptyStore]
             /\ wq = [s \in Slaves |-> <<>>]
             /\ job = [s \in Slaves |-> Idle]
             /\ reply = [c \in Clients |-> NoReply]

Connect(s, c, m) ==
  /\ up[s]
  /\ wq' = [wq EXCEPT ![s] = Append(@, [msg |-> m, owner |-> c])]
  /\ reply' = [reply EXCEPT ![c] = NoReply]
  /\ UNCHANGED <<up, state, log, torn, store, job>>

(* The receive timeout of connect_to: the client looks away, the slave     *)
(* still handles the connection.                                           *)
Orphan(p, c) == IF p.owner = c THEN [msg |-> p.msg, owner |-> None] ELSE p

OrphanJob(j, c) ==
  IF j = Idle THEN j
  ELSE [pc |-> j.pc, conn |-> Orphan(j.conn, c), entry |-> j.entry]

GiveUp(s, c) ==
  /\ \E p \in Pending(s) : p.owner = c
  /\ wq' = [wq EXCEPT ![s] = [n \in 1..Len(wq[s]) |-> Orphan(wq[s][n], c)]]
  /\ job' = [job EXCEPT ![s] = OrphanJob(job[s], c)]
  /\ UNCHANGED <<up, state, log, torn, store, reply>>

Pop(s) == /\ up[s] /\ job[s] = Idle /\ wq[s] # <<>>
          /\ wq' = [wq EXCEPT ![s] = Tail(@)]
          /\ UNCHANGED <<up, state, log, torn, store>>

HandleGet(s) ==
  LET c == Head(wq[s])
  IN /\ Pop(s)
     /\ c.msg.type = "GETREQ"
     /\ Answer(c, IF store[s][c.msg.key] = Absent THEN [type |-> "RESP"]
                  ELSE [type |-> "GETRESP", value |-> store[s][c.msg.key]])
     /\ UNCHANGED job

Waiting(s) == state[s] = "TPC_WAIT"

(* Another transaction is in progress. *)
Refuses(s) == Waiting(s)

(* ERRMSG_INVALID_REQUEST. *)
RefuseInWait(s) ==
  LET c == Head(wq[s])
  IN /\ Pop(s)
     /\ IsRequest(c.msg) /\ Refuses(s)
     /\ Answer(c, [type |-> "RESP"])
     /\ UNCHANGED job

(* The handler goes on to log the message.  A COMMIT has read the last     *)
(* entry of the log first.                                                 *)
Accept(s) ==
  LET c == Head(wq[s])
  IN /\ Pop(s)
     /\ c.msg \in Entry
     /\ IsRequest(c.msg) => ~Refuses(s)
     /\ job' = [job EXCEPT ![s] =
          [pc |-> "log", conn |-> c,
           entry |-> IF c.msg = COMMIT THEN LastEntry(log[s]) ELSE NoRequest]]
     /\ UNCHANGED reply

AfterLog(m) == IF IsRequest(m) THEN "vote" ELSE IF m = COMMIT THEN "apply" ELSE "ack"

Log(s) ==
  /\ up[s] /\ job[s].pc = "log"
  /\ log' = [log EXCEPT ![s] = Append(@, job[s].conn.msg)]
  /\ job' = [job EXCEPT ![s].pc = AfterLog(job[s].conn.msg)]
  /\ UNCHANGED <<up, state, torn, store, wq, reply>>

Vote(s) ==
  LET ok == Check(store[s], job[s].conn.msg)
  IN /\ up[s] /\ job[s].pc = "vote"
     /\ state' = [state EXCEPT ![s] = IF ok THEN "TPC_WAIT" ELSE "TPC_READY"]
     /\ Answer(job[s].conn, [type |-> IF ok THEN "VOTE_COMMIT" ELSE "VOTE_ABORT"])
     /\ job' = [job EXCEPT ![s] = Idle]
     /\ UNCHANGED <<up, log, torn, store, wq>>

(* The entry read before the COMMIT was logged.  Using the uninitialised   *)
(* pointer has no effect or ends the process (Crash).                      *)
ApplyCommit(s) ==
  LET e == job[s].entry
  IN /\ up[s] /\ job[s].pc = "apply"
     /\ store' = [store EXCEPT ![s] = IF e = NoRequest THEN @ ELSE Apply(@, e)]
     /\ job' = [job EXCEPT ![s].pc = "ack"]
     /\ UNCHANGED <<up, state, log, torn, wq, reply>>

Ack(s) ==
  /\ up[s] /\ job[s].pc = "ack"
  /\ state' = [state EXCEPT ![s] = "TPC_READY"]
  /\ Answer(job[s].conn, [type |-> "ACK"])
  /\ job' = [job EXCEPT ![s] = Idle]
  /\ UNCHANGED <<up, log, torn, store, wq>>

SlaveStep(s) == \/ HandleGet(s) \/ RefuseInWait(s) \/ Accept(s)
                \/ Log(s) \/ Vote(s) \/ ApplyCommit(s) \/ Ack(s)

-----------------------------------------------------------------------------
(* The process stops; the connections it has not answered are reset. *)
Crash(s) ==
  /\ up[s]
  /\ up' = [up EXCEPT ![s] = FALSE]
  /\ state' = [state EXCEPT ![s] = "TPC_INIT"]
  /\ wq' = [wq EXCEPT ![s] = <<>>]
  /\ job' = [job EXCEPT ![s] = Idle]
  /\ reply' = [c \in Clients |-> IF \E p \in Pending(s) : p.owner = c
                                 THEN [type |-> "RESET"] ELSE reply[c]]
  /\ \E t \in BOOLEAN : /\ t => TornWrites /\ job[s].pc = "log"
                        /\ torn' = [torn EXCEPT ![s] = t]
  /\ UNCHANGED <<log, store>>

(* Mutant of Redo: a COMMIT at the end of the log is taken to be done. *)
RedoNothing(l, st) == st

(* kvserver_rebuild_state: the store after it.  Without any request in the *)
(* log its prev is uninitialised: no effect, or the restart fails.         *)
Redo(l, st) ==
  IF LastEntry(l) = COMMIT /\ LastRequest(l) # NoRequest
  THEN Apply(st, LastRequest(l)) ELSE st

(* Mutant of RebuiltState: every request of the log is waited for. *)
RebuiltStateUnchecked(l, st) ==
  IF IsRequest(LastEntry(l)) THEN "TPC_WAIT" ELSE "TPC_INIT"

(* kvserver_rebuild_state: the state after it. *)
RebuiltState(l, st) ==
  IF ~IsRequest(LastEntry(l)) THEN "TPC_INIT"
  ELSE IF Check(st, LastEntry(l)) THEN "TPC_WAIT" ELSE "TPC_READY"

(* kvserver_init, and kvserver_rebuild_state where the restart calls it.   *)
(* Reading a log file of length zero yields a null entry, which rebuild    *)
(* dereferences: the process ends before it is up.                         *)
Restart(s) ==
  /\ ~up[s] /\ ~torn[s]
  /\ up' = [up EXCEPT ![s] = TRUE]
  /\ state' = [state EXCEPT ![s] =
       IF Rebuilds THEN RebuiltState(log[s], store[s]) ELSE "TPC_INIT"]
  /\ store' = [store EXCEPT ![s] = IF Rebuilds THEN Redo(log[s], @) ELSE @]
  /\ UNCHANGED <<log, torn, wq, job, reply>>

-----------------------------------------------------------------------------
SlaveTypeOK ==
  /\ up \in [Slaves -> BOOLEAN] /\ torn \in [Slaves -> BOOLEAN]
  /\ state \in [Slaves -> {"TPC_INIT", "TPC_WAIT", "TPC_READY"}]
  /\ log \in [Slaves -> Seq(Entry)]
  /\ store \in [Slaves -> Store]
  /\ wq \in [Slaves -> Seq(Conn)]
  /\ job \in [Slaves -> Job \cup {Idle}]
  /\ reply \in [Clients -> Reply]
=============================================================================

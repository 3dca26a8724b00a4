--------------------------- MODULE SlaveHandlers ---------------------------
(***************************************************************************)
(* One slave with several handler threads (kvslave.c starts three).        *)
(* kvserver_handle_tpc takes no lock: a handler reads server->state, logs, *)
(* and sets the state in steps of its own, and all handlers share the one  *)
(* position of the log iterator.  The transactions of the master come with *)
(* a request, a vote or a timeout, and a decision.                         *)
(*                                                                         *)
(* A request is named by the thread of the master that sends it, and what  *)
(* kvserver_put_check or kvserver_del_check says of it is left open.       *)
(***************************************************************************)
EXTENDS Naturals, Sequences

CONSTANTS Handlers,
          Clients,         \* the threads of the master
          NoEntry,         \* NULL, or a pointer that was never set
          MaxRequests, MaxTimeouts

VARIABLES state,      \* server->state
          log,        \* the files of the log directory
          iterpos,    \* server->log.iterpos
          wq,         \* the accepted connections
          handler,    \* what each handler thread is doing
          client,     \* what each thread of the master waits for
          reply,      \* the answer to it
          budget

vars == <<state, log, iterpos, wq, handler, client, reply, budget>>
slave == <<state, log, iterpos>>
master == <<client, reply, budget>>

-----------------------------------------------------------------------------
(* Only a request names its transaction. *)
Request == [type : {"REQ"}, of : Clients]
Decision == [type : {"COMMIT", "ABORT"}, of : {NoEntry}]
Entry == Request \cup Decision
None == "none"
Conn == [msg : Entry, owner : Clients \cup {None}]
Reply == {"none", "RESP", "VOTE_COMMIT", "VOTE_ABORT", "ACK"}

Idle == [pc |-> "idle"]
Job == [pc : {"check", "begin", "test", "next", "load", "log", "vote", "apply", "ack"},
        conn : Conn, entry : Entry \cup {NoEntry}, pos : Nat]

Init == /\ state = "TPC_INIT" /\ log = <<>> /\ iterpos = 0
        /\ wq = <<>>
        /\ handler = [h \in Handlers |-> Idle]
        /\ client = [c \in Clients |-> "idle"]
        /\ reply = [c \in Clients |-> "none"]
        /\ budget = [requests |-> 0, timeouts |-> 0]

-----------------------------------------------------------------------------
(* The thread c of tpcmaster_handle_tpc, as far as this slave sees it.     *)
Connect(c, m) == /\ wq' = Append(wq, [msg |-> m, owner |-> c])
                 /\ reply' = [reply EXCEPT ![c] = "none"]

SendRequest(c) ==
  /\ client[c] = "idle" /\ budget.requests < MaxRequests
  /\ Connect(c, [type |-> "REQ", of |-> c])
  /\ client' = [client EXCEPT ![c] = "phase1"]
  /\ budget' = [budget EXCEPT !.requests = @ + 1]
  /\ UNCHANGED <<slave, handler>>

(* This slave has answered.  Another slave may abort. *)
GetVote(c) ==
  /\ client[c] = "phase1" /\ reply[c] # "none"
  /\ client' = [client EXCEPT ![c] = "decide"]
  /\ UNCHANGED <<slave, wq, handler, reply, budget>>

Orphan(p, c) == IF p.owner = c THEN [p EXCEPT !.owner = None] ELSE p

GiveUp(c) ==
  /\ client[c] = "phase1" /\ reply[c] = "none"
  /\ budget.timeouts < MaxTimeouts
  /\ client' = [client EXCEPT ![c] = "decide"]
  /\ wq' = [n \in DOMAIN wq |-> Orphan(wq[n], c)]
  /\ handler' = [h \in Handlers |->
       IF handler[h] = Idle THEN Idle
       ELSE [handler[h] EXCEPT !.conn = Orphan(handler[h].conn, c)]]
  /\ budget' = [budget EXCEPT !.timeouts = @ + 1]
  /\ UNCHANGED <<slave, reply>>

(* Only a VOTE_ABORT makes abort_tpc true. *)
Decide(c) ==
  /\ client[c] = "decide"
  /\ \E type \in {"COMMIT", "ABORT"} :
       /\ reply[c] = "VOTE_ABORT" => type = "ABORT"
       /\ Connect(c, [type |-> type, of |-> NoEntry])
  /\ client' = [client EXCEPT ![c] = "phase2"]
  /\ UNCHANGED <<slave, handler, budget>>

GetAck(c) ==
  /\ client[c] = "phase2" /\ reply[c] = "ACK"
  /\ client' = [client EXCEPT ![c] = "idle"]
  /\ UNCHANGED <<slave, wq, handler, reply, budget>>

-----------------------------------------------------------------------------
(* The handler h of kvserver_handle_tpc.                                   *)
At(h, pc) == handler[h].pc = pc
Msg(h) == handler[h].conn.msg
Goto(h, pc) == handler' = [handler EXCEPT ![h].pc = pc]

FirstStep(m) == IF m.type = "REQ" THEN "check"
                ELSE IF m.type = "COMMIT" THEN "begin" ELSE "log"

Pop(h) ==
  /\ handler[h] = Idle /\ wq # <<>>
  /\ wq' = Tail(wq)
  /\ handler' = [handler EXCEPT ![h] = [pc |-> FirstStep(Head(wq).msg),
                   conn |-> Head(wq), entry |-> NoEntry, pos |-> 0]]
  /\ UNCHANGED <<slave, master>>

(* The response is sent and the handler goes back to the work queue. *)
Answer(h, r) ==
  LET c == handler[h].conn.owner
  IN /\ reply' = IF c = None THEN reply ELSE [reply EXCEPT ![c] = r]
     /\ handler' = [handler EXCEPT ![h] = Idle]
     /\ UNCHANGED <<wq, client, budget>>

Refuses == state = "TPC_WAIT"

CheckState(h) ==
  /\ At(h, "check")
  /\ IF Refuses THEN Answer(h, "RESP")
     ELSE Goto(h, "log") /\ UNCHANGED <<wq, master>>
  /\ UNCHANGED slave

AfterLog(m) == IF m.type = "REQ" THEN "vote"
               ELSE IF m.type = "COMMIT" THEN "apply" ELSE "ack"

(* tpclog_log, under the lock of the log. *)
Log(h) == /\ At(h, "log")
          /\ log' = Append(log, Msg(h))
          /\ Goto(h, AfterLog(Msg(h)))
          /\ UNCHANGED <<state, iterpos, wq, master>>

VoteCommit(h) == /\ At(h, "vote")
                 /\ state' = "TPC_WAIT" /\ Answer(h, "VOTE_COMMIT")
                 /\ UNCHANGED <<log, iterpos>>

VoteAbort(h) == /\ At(h, "vote")
                /\ state' = "TPC_READY" /\ Answer(h, "VOTE_ABORT")
                /\ UNCHANGED <<log, iterpos>>

(* A COMMIT walks through the log to find the request.                     *)
IterateBegin(h) == /\ At(h, "begin")
                   /\ iterpos' = 0
                   /\ Goto(h, "test")
                   /\ UNCHANGED <<state, log, wq, master>>

(* The file exists. *)
HasNext(p) == p < Len(log)

IterateTest(h) == /\ At(h, "test")
                  /\ Goto(h, IF HasNext(iterpos) THEN "next" ELSE "log")
                  /\ UNCHANGED <<slave, wq, master>>

(* tpclog_iterate_next holds the lock for reading only, so that two        *)
(* handlers may be in iterpos++ together: it reads, then it writes.        *)
IterateNext(h) ==
  /\ At(h, "next")
  /\ handler' = [handler EXCEPT ![h] =
       IF HasNext(iterpos) THEN [@ EXCEPT !.pc = "load", !.pos = iterpos]
       ELSE [@ EXCEPT !.pc = "test", !.entry = NoEntry]]
  /\ UNCHANGED <<slave, wq, master>>

IterateLoad(h) ==
  LET p == handler[h].pos
  IN /\ At(h, "load")
     /\ iterpos' = p + 1
     /\ handler' = [handler EXCEPT ![h].pc = "test", ![h].entry = log[p + 1]]
     /\ UNCHANGED <<state, log, wq, master>>

(* kvserver_put or kvserver_del of the entry that was found. *)
ApplyCommit(h) == /\ At(h, "apply")
                  /\ Goto(h, "ack")
                  /\ UNCHANGED <<slave, wq, master>>

(* Mutant of AfterDecision: the transaction stays open. *)
AfterDecisionKeeps(st) == st

AfterDecision(st) == "TPC_READY"

Ack(h) == /\ At(h, "ack")
          /\ state' = AfterDecision(state) /\ Answer(h, "ACK")
          /\ UNCHANGED <<log, iterpos>>

Next ==
  \/ \E c \in Clients : SendRequest(c) \/ GetVote(c) \/ GiveUp(c) \/ Decide(c) \/ GetAck(c)
  \/ \E h \in Handlers :
       \/ Pop(h) \/ CheckState(h) \/ Log(h) \/ VoteCommit(h) \/ VoteAbort(h)
       \/ IterateBegin(h) \/ IterateTest(h) \/ IterateNext(h) \/ IterateLoad(h)
       \/ ApplyCommit(h) \/ Ack(h)

Spec == Init /\ [][Next]_vars

-----------------------------------------------------------------------------
(* The state, the log, the jobs and the replies keep their shape. *)
TypeOK == /\ state \in {"TPC_INIT", "TPC_WAIT", "TPC_READY"}
          /\ log \in Seq(Entry) /\ iterpos \in 0..Len(log)
          /\ wq \in Seq(Conn)
          /\ handler \in [Handlers -> Job \cup {Idle}]
          /\ client \in [Clients -> {"idle", "phase1", "decide", "phase2"}]
          /\ reply \in [Clients -> Reply]

(* tests/kvserver_tpc_test.c (kvserver_tpc_concurrent_del_put) asserts     *)
(* that a request is refused while another has the slave's vote.  A slave  *)
(* that waits for a decision votes for nothing else.                       *)
VotesOnlyWhenFree ==
  [][\A h \in Handlers : VoteCommit(h) => state # "TPC_WAIT"]_vars

(* design_doc_3.txt: "Once the slave receives a command from the master in *)
(* phase-2, it will either commit or abort the local portion".  With every *)
(* request decided and acknowledged, the slave waits for no decision: else *)
(* it would refuse every request to come.                                  *)
DecisionSettles ==
  (\A c \in Clients : client[c] = "idle") /\ wq = <<>>
    /\ (\A h \in Handlers : handler[h] = Idle) => state # "TPC_WAIT"

(* tpclog.c: tpclog_iterate_has_next is true "iff LOG has another entry".  *)
(* A COMMIT on a log that has entries ends its walk with one in hand.      *)
CommitHasEntry ==
  \A h \in Handlers :
    (At(h, "log") \/ At(h, "apply")) /\ Msg(h).type = "COMMIT" /\ log # <<>> =>
      handler[h].entry # NoEntry
=============================================================================

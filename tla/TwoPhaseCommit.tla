--------------------------- MODULE TwoPhaseCommit ---------------------------
(***************************************************************************)
(* The master (tpcmaster.c) with its slaves.  Each thread of the master    *)
(* handles one request at a time: a GETREQ asks the replicas of the key    *)
(* one after the other; a PUTREQ or DELREQ goes through the two phases of  *)
(* tpcmaster_handle_tpc, each a loop over the list of slaves.              *)
(*                                                                         *)
(* The master's cache is left out: nothing in the code fills it, so that   *)
(* kvcache_get always misses.                                              *)
(***************************************************************************)
EXTENDS TPCSlave, FiniteSets, Functions

CONSTANTS Order,         \* the list of slaves from slaves_head
          Primary,       \* the position in it of tpcmaster_get_primary(key)
          Redundancy,
          Concurrent,    \* whether PUTREQs and DELREQs may be handled at the same time
          MaxRequests, MaxTimeouts, MaxCrashes    \* bounds on the environment

ASSUME MasterAssumption ==
  /\ None \notin Clients
  /\ Order \in Seq(Slaves) /\ Order # <<>>
  /\ \A n, m \in 1..Len(Order) : Order[n] = Order[m] => n = m
  /\ Primary \in [Keys -> 1..Len(Order)]
  /\ Redundancy \in 1..Len(Order)
  /\ Concurrent \in BOOLEAN
  /\ {MaxRequests, MaxTimeouts, MaxCrashes} \subseteq Nat

VARIABLES masterUp,
          thread,      \* what each thread of the master is doing
          answer,      \* its last answer to a client
          voted,       \* the slaves whose VOTE_COMMIT the thread has read
          seen,        \* what a read could have returned since it began
          budget       \* the requests, timeouts and crashes so far

(* Values for model checking: the slaves in some order, the first of them  *)
(* the primary of every key.                                               *)
SomeOrder == CHOOSE o \in Bijection(1..Cardinality(Slaves), Slaves) : TRUE
FirstIsPrimary == [k \in Keys |-> 1]

masterVars == <<masterUp, thread, answer, voted, seen, budget>>
vars == <<slaveVars, masterVars>>

-----------------------------------------------------------------------------
IdleThread == [pc |-> "idle", req |-> NoRequest, at |-> 1, abort |-> FALSE]
Thread == [pc : {"idle", "phase1", "wait1", "phase2", "wait2", "get", "waitget",
                 "stuck"},
           req : Request \cup GetReq \cup {NoRequest},
           at : 1..Len(Order), abort : BOOLEAN]

NoAnswer == [type |-> "none"]
AnswerType == [type : {"none", "SUCCESS", "NO_KEY"}]
                \cup [type : {"GETRESP"}, value : Values]

InTPC(c) == thread[c].pc \in {"phase1", "wait1", "phase2", "wait2", "stuck"}
Reading(c) == thread[c].pc \in {"get", "waitget"}

(* tpcmaster_get_primary, then tpcmaster_get_successor n - 1 times. *)
Replica(k, n) == Order[((Primary[k] + n - 2) % Len(Order)) + 1]

(* The slave that a thread turns to. *)
Target(c) == IF Reading(c) THEN Replica(thread[c].req.key, thread[c].at)
             ELSE Order[thread[c].at]

(* What a read of k returns if nothing happens while it runs. *)
View(k) ==
  LET Has(n) == store[Replica(k, n)][k] # Absent
      first == {n \in 1..Redundancy : Has(n) /\ \A m \in 1..(n - 1) : ~Has(m)}
  IN IF first = {} THEN Absent
     ELSE store[Replica(k, CHOOSE n \in first : TRUE)][k]

-----------------------------------------------------------------------------
Init == /\ SlaveInit
        /\ masterUp = TRUE
        /\ thread = [c \in Clients |-> IdleThread]
        /\ answer = [c \in Clients |-> NoAnswer]
        /\ voted = [c \in Clients |-> {}]
        /\ seen = [c \in Clients |-> {}]
        /\ budget = [requests |-> 0, timeouts |-> 0, crashes |-> 0]

(* No receive timeout has expired and no slave has crashed so far. *)
Undisturbed == budget.timeouts = 0 /\ budget.crashes = 0

(* The bounds: a timeout or a crash takes one request off the budget. *)
MoreRequests == budget.requests < IF Undisturbed THEN MaxRequests ELSE MaxRequests - 1
MoreFaults == budget.requests < MaxRequests

(* tpcmaster_handle reads a request. *)
Begin(c, m) ==
  /\ thread[c].pc = "idle"
  /\ MoreRequests
  /\ m \in Request => Concurrent \/ \A d \in Clients : ~InTPC(d)
  /\ thread' = [thread EXCEPT ![c] =
       [pc |-> IF m \in Request THEN "phase1" ELSE "get",
        req |-> m, at |-> 1, abort |-> FALSE]]
  /\ answer' = [answer EXCEPT ![c] = NoAnswer]
  /\ voted' = [voted EXCEPT ![c] = {}]
  /\ budget' = [budget EXCEPT !.requests = @ + 1]
  /\ UNCHANGED <<slaveVars, masterUp>>

Goto(c, pc) == thread' = [thread EXCEPT ![c].pc = pc]

(* The end of a handler: the answer is sent. *)
Finish(c, a) == /\ thread' = [thread EXCEPT ![c] = IdleThread]
                /\ answer' = [answer EXCEPT ![c] = a]

(* The loops of the two phases end: counter reaches slave_count. *)
LastSlave(c) == thread[c].at >= Len(Order)

(* The end of an iteration of phase 1; a is abort_tpc after it. *)
NextInPhase1(c, a) ==
  /\ thread' = [thread EXCEPT ![c] =
       IF LastSlave(c)
       THEN [@ EXCEPT !.pc = "phase2", !.at = 1, !.abort = a]
       ELSE [@ EXCEPT !.pc = "phase1", !.at = thread[c].at + 1, !.abort = a]]
  /\ UNCHANGED answer

(* Mutant of NextInPhase2: one ACK is enough. *)
NextInPhase2FirstAck(c) == Finish(c, [type |-> "SUCCESS"])

(* The end of an iteration of phase 2. *)
NextInPhase2(c) ==
  IF LastSlave(c)
  THEN Finish(c, [type |-> "SUCCESS"])
  ELSE /\ thread' = [thread EXCEPT ![c] =
                       [@ EXCEPT !.pc = "phase2", !.at = thread[c].at + 1]]
       /\ UNCHANGED answer

(* Mutant of NextReplica: only the primary is asked. *)
NextReplicaNone(c) == Finish(c, [type |-> "NO_KEY"])

(* A replica had no value for tpcmaster_handle_get. *)
NextReplica(c) ==
  IF thread[c].at < Redundancy
  THEN /\ thread' = [thread EXCEPT ![c] =
                       [@ EXCEPT !.pc = "get", !.at = thread[c].at + 1]]
       /\ UNCHANGED answer
  ELSE Finish(c, [type |-> "NO_KEY"])

(* An iteration that has had no answer to use. *)
NoVote(c) == IF Reading(c) THEN NextReplica(c)
             ELSE NextInPhase1(c, thread[c].abort)

-----------------------------------------------------------------------------
(* connect_to succeeds and the message is sent. *)
Decision(c) == IF thread[c].abort THEN ABORT ELSE COMMIT

Contact(c) ==
  /\ \/ /\ thread[c].pc = "phase1" /\ Connect(Target(c), c, thread[c].req)
        /\ Goto(c, "wait1")
     \/ /\ thread[c].pc = "phase2" /\ Connect(Target(c), c, Decision(c))
        /\ Goto(c, "wait2")
     \/ /\ thread[c].pc = "get" /\ Connect(Target(c), c, thread[c].req)
        /\ Goto(c, "waitget")
  /\ UNCHANGED <<masterUp, answer, voted, budget>>

(* connect_to returns -1.  Phase 1 goes on to the next slave; phase 2 goes *)
(* on to send on the descriptor -1 and to wait for an ACK from it.         *)
Unreachable(c) ==
  /\ ~up[Target(c)]
  /\ \/ thread[c].pc \in {"phase1", "get"} /\ NoVote(c)
     \/ thread[c].pc = "phase2" /\ Goto(c, "stuck") /\ UNCHANGED answer
  /\ UNCHANGED <<slaveVars, masterUp, voted, budget>>

(* Mutant of Aborts: the votes are not looked at. *)
AbortsNever(r) == FALSE

Aborts(r) == r.type = "VOTE_ABORT"

(* kvmessage_parse returns the answer of the slave. *)
Receive(c) ==
  LET r == reply[c]
  IN /\ r.type \notin {"none", "RESET"}
     /\ \/ /\ thread[c].pc = "wait1"
           /\ NextInPhase1(c, thread[c].abort \/ Aborts(r))
           /\ voted' = IF r.type = "VOTE_COMMIT"
                       THEN [voted EXCEPT ![c] = @ \cup {Target(c)}] ELSE voted
        \/ /\ thread[c].pc = "wait2" /\ r.type = "ACK"
           /\ NextInPhase2(c) /\ UNCHANGED voted
        \/ /\ thread[c].pc = "waitget"
           /\ IF r.type = "GETRESP" THEN Finish(c, r) ELSE NextReplica(c)
           /\ UNCHANGED voted
     /\ reply' = [reply EXCEPT ![c] = NoReply]
     /\ UNCHANGED <<up, state, log, torn, store, wq, job, masterUp, budget>>

(* The receive timeout expires.  In phase 2 the master sends once more on  *)
(* the same connection, which the slave does not read again: nothing       *)
(* changes, and the answer to the first message still counts.              *)
Timeout(c) ==
  /\ thread[c].pc \in {"wait1", "waitget"}
  /\ MoreFaults /\ budget.timeouts < MaxTimeouts
  /\ GiveUp(Target(c), c)
  /\ NoVote(c)
  /\ budget' = [budget EXCEPT !.timeouts = @ + 1]
  /\ UNCHANGED <<masterUp, voted>>

(* The slave stopped while the thread waited for it. *)
Reset(c) ==
  /\ reply[c].type = "RESET"
  /\ thread[c].pc \in {"wait1", "waitget"}
  /\ NoVote(c)
  /\ reply' = [reply EXCEPT ![c] = NoReply]
  /\ UNCHANGED <<up, state, log, torn, store, wq, job, masterUp, voted, budget>>

(* Writing to a connection that was reset raises SIGPIPE, which nothing    *)
(* handles.  Phase 2 always sends again; a first message may meet the      *)
(* reset between its two writes.                                           *)
MasterKilled(c) ==
  /\ reply[c].type = "RESET"
  /\ thread[c].pc \in {"wait1", "wait2", "waitget"}
  /\ masterUp' = FALSE
  /\ UNCHANGED <<slaveVars, thread, answer, voted, budget>>

MasterStep(c) == /\ masterUp
                 /\ \/ Contact(c) \/ Unreachable(c) \/ Receive(c)
                    \/ Reset(c) \/ MasterKilled(c)

SlaveCrash(s) == /\ MoreFaults /\ budget.crashes < MaxCrashes
                 /\ Crash(s)
                 /\ budget' = [budget EXCEPT !.crashes = @ + 1]
                 /\ UNCHANGED <<masterUp, thread, answer, voted>>

SlaveRuns(s) == /\ SlaveStep(s) \/ Restart(s)
                /\ UNCHANGED <<masterUp, thread, answer, voted, budget>>

(* seen is a history variable: it is set from what the step has done. *)
Observe == seen' = [c \in Clients |->
  IF ~Reading(c)' THEN seen[c]
  ELSE (IF Reading(c) THEN seen[c] ELSE {}) \cup {View(thread[c].req.key)'}]

MasterNext(c) == MasterStep(c) /\ Observe
SlaveNext(s) == SlaveRuns(s) /\ Observe

Next ==
  \/ \E c \in Clients : \/ MasterNext(c)
                        \/ masterUp /\ Timeout(c) /\ Observe
                        \/ \E m \in Request \cup GetReq :
                             masterUp /\ Begin(c, m) /\ Observe
  \/ \E s \in Slaves : SlaveNext(s) \/ (SlaveCrash(s) /\ Observe)

(* The threads of the master and of the slaves are scheduled, and whoever  *)
(* runs a slave starts it again.  Requests, timeouts and crashes need not  *)
(* happen.                                                                 *)
Fairness == /\ \A c \in Clients : WF_vars(MasterNext(c))
            /\ \A s \in Slaves : WF_vars(SlaveNext(s))

Spec == Init /\ [][Next]_vars /\ Fairness

-----------------------------------------------------------------------------
(* The threads of the master stay within the list of slaves, and slaves,   *)
(* answers and votes keep their shape.                                     *)
TypeOK == /\ SlaveTypeOK
          /\ masterUp \in BOOLEAN
          /\ thread \in [Clients -> Thread]
          /\ answer \in [Clients -> AnswerType]
          /\ voted \in [Clients -> SUBSET Slaves]
          /\ seen \in [Clients -> SUBSET (Values \cup {Absent})]
          /\ budget \in [requests : 0..MaxRequests, timeouts : 0..MaxTimeouts,
                         crashes : 0..MaxCrashes]

(* The store does what the request asks for. *)
Holds(st, r) == st[r.key] = IF r.type = "PUTREQ" THEN r.value ELSE Absent

(* tpcmaster.h: "If a consesus to commit is reached, the TPCMaster         *)
(* notifies the slaves to COMMIT, else it commands to ABORT".  The second  *)
(* phase of a commit begins only with the votes of all slaves.             *)
CommitOnlyByConsensus ==
  \A c \in Clients :
    thread[c].pc \in {"phase2", "wait2", "stuck"} /\ ~thread[c].abort =>
      voted[c] = Range(Order)

(* The same as long as every slave answers: a single VOTE_ABORT, or a      *)
(* refusal, keeps all slaves from a COMMIT.                                *)
CommitNeedsAllVotes == Undisturbed => CommitOnlyByConsensus

(* While no PUTREQ or DELREQ is being handled, all slaves hold the same,   *)
(* whatever timeouts have expired, as long as no slave has crashed.        *)
ReplicasAgree ==
  budget.crashes = 0 /\ (\A c \in Clients : ~InTPC(c)) =>
    \A s, t \in Range(Order) : store[s] = store[t]

(* A slave that has voted to commit keeps its promise whatever crashes and *)
(* recovers: it is ready to apply the request until the COMMIT reaches it, *)
(* and holds what was asked for once it has acknowledged the COMMIT.       *)
Ready(s, r) == LastEntry(log[s]) = r /\ (up[s] => Waiting(s))
VotersKeepPromise ==
  \A c \in Clients : \A n \in 1..Len(Order) :
    Order[n] \in voted[c] =>
      /\ \/ thread[c].pc \in {"phase1", "wait1"}
         \/ thread[c].pc = "phase2" /\ n >= thread[c].at
         => Ready(Order[n], thread[c].req)
      /\ InTPC(c) /\ thread[c].pc \in {"phase2", "wait2", "stuck"}
           /\ n < thread[c].at /\ ~thread[c].abort
         => Holds(store[Order[n]], thread[c].req)

(* Votes bind both sides: the master commits only what all slaves voted    *)
(* for, and a slave that voted for it can and does apply it.               *)
VotesBind == CommitNeedsAllVotes /\ VotersKeepPromise

(* What tpcmaster_handle_get answers is what the replicas held, taken      *)
(* together, at one moment while it ran, as long as every slave answers.   *)
Returned(a) == IF a.type = "GETRESP" THEN a.value ELSE Absent
ReadsLinearizable ==
  Undisturbed => \A c \in Clients : answer[c].type \in {"GETRESP", "NO_KEY"} =>
    Returned(answer[c]) \in seen[c]

(* A client is told SUCCESS only if its request holds at all slaves. *)
AnswerTellsOutcome ==
  [][\A c \in Clients : InTPC(c) /\ ~InTPC(c)' /\ answer'[c].type = "SUCCESS" =>
       \A s \in Range(Order) : Holds(store'[s], thread[c].req)]_vars

(* Every request that the master begins to handle is answered. *)
EveryRequestAnswered ==
  \A c \in Clients : thread[c].pc # "idle" ~> thread[c].pc = "idle"

(* The same if no slave crashes, although slaves may answer too late. *)
AnsweredUnlessCrash == [](budget.crashes = 0) => EveryRequestAnswered
=============================================================================

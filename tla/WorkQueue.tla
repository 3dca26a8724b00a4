------------------------------ MODULE WorkQueue ------------------------------
(***************************************************************************)
(* The work queue of the socket server (wq.c) with the threads that use    *)
(* it: the accept loop of server_run() pushes every accepted connection,   *)
(* and max_threads worker threads run handle_loop(), each popping one      *)
(* connection at a time and handling it.                                   *)
(*                                                                         *)
(* The mutex and the condition variable are pthread's: a wait releases the *)
(* mutex and sleeps in one step, a signal wakes one sleeper if there is    *)
(* one, a sleeper may also wake for no reason, and a woken thread has to   *)
(* take the mutex again.                                                   *)
(***************************************************************************)
EXTENDS Naturals, Sequences, FiniteSets

CONSTANTS Workers,    \* the threads running handle_loop()
          Producers,  \* the threads that push (server_run has one)
          Items,      \* the sockets accept() can return
          NoThread,   \* "the mutex is free"
          NoItem      \* "no socket in hand"

ASSUME WorkQueueAssumption ==
         /\ IsFiniteSet(Workers)
         /\ Workers \cap Producers = {}
         /\ NoThread \notin Workers \cup Producers
         /\ NoItem \notin Items

VARIABLES queue,      \* the list at wq->head, from first to last
          lock,       \* the thread that owns wq->lock
          pc,         \* where each thread is
          item,       \* the socket each thread holds in a local variable
          listening,  \* server->listening
          accepted,   \* the sockets accept() has returned
          got         \* for each socket, the workers wq_pop returned it to

vars == <<queue, lock, pc, item, listening, accepted, got>>

Threads == Workers \cup Producers

(* The threads asleep in pthread_cond_wait. *)
Asleep == {w \in Workers : pc[w] = "wait"}

(* The workers that will test the queue without needing another signal. *)
Awake == {w \in Workers : pc[w] \in {"woken", "check"}}

Init == /\ queue = <<>>
        /\ lock = NoThread
        /\ pc = [t \in Threads |-> "idle"]
        /\ item = [t \in Threads |-> NoItem]
        /\ listening = TRUE
        /\ accepted = {}
        /\ got = [i \in Items |-> {}]

-----------------------------------------------------------------------------
(* pthread_mutex_lock: enter when nobody owns the mutex. *)
Acquire(t) == lock = NoThread /\ lock' = t

(* The lock, on entry to wq_pop and inside pthread_cond_wait. *)
PopLock(w) ==
  /\ pc[w] \in {"idle", "woken"}
  /\ Acquire(w)
  /\ pc' = [pc EXCEPT ![w] = "check"]
  /\ UNCHANGED <<queue, item, listening, accepted, got>>

(* The loop test finds the queue empty: pthread_cond_wait. *)
PopWait(w) ==
  /\ pc[w] = "check"
  /\ queue = <<>>
  /\ pc' = [pc EXCEPT ![w] = "wait"]
  /\ lock' = NoThread
  /\ UNCHANGED <<queue, item, listening, accepted, got>>

(* Mutant of Dequeue: the head is returned and not unlinked. *)
DequeueKeepsHead == queue

(* DL_DELETE of the head. *)
Dequeue == Tail(queue)

(* The loop test finds an item: unlink it, unlock, return it. *)
PopTake(w) ==
  /\ pc[w] = "check"
  /\ queue # <<>>
  /\ item' = [item EXCEPT ![w] = Head(queue)]
  /\ queue' = Dequeue
  /\ got' = [got EXCEPT ![Head(queue)] = @ \cup {w}]
  /\ pc' = [pc EXCEPT ![w] = "handle"]
  /\ lock' = NoThread
  /\ UNCHANGED <<listening, accepted>>

(* The handler returns; handle_loop calls handle() again. *)
HandleDone(w) ==
  /\ pc[w] = "handle"
  /\ item' = [item EXCEPT ![w] = NoItem]
  /\ pc' = [pc EXCEPT ![w] = "idle"]
  /\ UNCHANGED <<queue, lock, listening, accepted, got>>

(* A wakeup without a signal, which pthread_cond_wait allows. *)
SpuriousWakeup(w) ==
  /\ pc[w] = "wait"
  /\ pc' = [pc EXCEPT ![w] = "woken"]
  /\ UNCHANGED <<queue, lock, item, listening, accepted, got>>

-----------------------------------------------------------------------------
(* accept() returns a new connection to the loop of server_run. *)
Accept(p, i) ==
  /\ listening
  /\ pc[p] = "idle"
  /\ i \notin accepted
  /\ accepted' = accepted \cup {i}
  /\ item' = [item EXCEPT ![p] = i]
  /\ pc' = [pc EXCEPT ![p] = "push"]
  /\ UNCHANGED <<queue, lock, listening, got>>

(* The lock on entry to wq_push. *)
PushLock(p) ==
  /\ pc[p] = "push"
  /\ Acquire(p)
  /\ pc' = [pc EXCEPT ![p] = "append"]
  /\ UNCHANGED <<queue, item, listening, accepted, got>>

(* Mutant of Signal: nobody is woken. *)
SignalForgotten(f) == pc' = f

(* pthread_cond_signal: one sleeper, if there is one, is woken. *)
Signal(f) ==
  IF Asleep = {} THEN pc' = f
                 ELSE \E w \in Asleep : pc' = [f EXCEPT ![w] = "woken"]

(* A list node whose item field is i, appended at the tail. *)
Enqueue(i) == Append(queue, i)

(* Append the item, signal, unlock. *)
PushAppend(p) ==
  /\ pc[p] = "append"
  /\ queue' = Enqueue(item[p])
  /\ item' = [item EXCEPT ![p] = NoItem]
  /\ Signal([pc EXCEPT ![p] = "idle"])
  /\ lock' = NoThread
  /\ UNCHANGED <<listening, accepted, got>>

(* server_stop: the accept loop ends; the workers keep running. *)
ServerStop ==
  /\ listening
  /\ listening' = FALSE
  /\ UNCHANGED <<queue, lock, pc, item, accepted, got>>

-----------------------------------------------------------------------------
WorkerStep(w) == PopLock(w) \/ PopWait(w) \/ PopTake(w) \/ HandleDone(w)

ProducerStep(p) == PushLock(p) \/ PushAppend(p)

Next == \/ \E w \in Workers : WorkerStep(w) \/ SpuriousWakeup(w)
        \/ \E p \in Producers : ProducerStep(p) \/ \E i \in Items : Accept(p, i)
        \/ ServerStop

Spec == Init /\ [][Next]_vars

(* Every thread that can run is eventually scheduled, and handlers return. *)
(* Nothing is assumed about new connections, stops or spurious wakeups.    *)
FairSpec == /\ Spec
            /\ \A w \in Workers : WF_vars(WorkerStep(w))
            /\ \A p \in Producers : WF_vars(ProducerStep(p))

-----------------------------------------------------------------------------
(* Queue, lock, threads and items keep their shape: wq_pop and wq_push     *)
(* leave only sockets of accepted connections in the list.                 *)
TypeOK ==
  /\ queue \in Seq(Items)
  /\ lock \in Threads \cup {NoThread}
  /\ pc \in [Threads -> {"idle", "woken", "check", "wait", "handle",
                         "push", "append"}]
  /\ \A w \in Workers : pc[w] \notin {"push", "append"}
  /\ \A p \in Producers : pc[p] \in {"idle", "push", "append"}
  /\ item \in [Threads -> Items \cup {NoItem}]
  /\ listening \in BOOLEAN
  /\ accepted \in SUBSET Items
  /\ got \in [Items -> SUBSET Workers]

(* The mutex works as intended: the only threads inside the critical       *)
(* sections of wq_pop and wq_push are the owner of wq->lock.               *)
LockOwner ==
  \A t \in Threads : pc[t] \in {"check", "append"} <=> lock = t

InQueue(i) == \E n \in 1..Len(queue) : queue[n] = i

(* wq.h: "For each item added to the queue, exactly one thread should      *)
(* receive the item."  An accepted socket is in exactly one of three       *)
(* places: with the thread that is about to push it, once in the queue, or *)
(* already returned to exactly one worker; nothing else is in the queue.   *)
ExactlyOneReceiver ==
  /\ \A m, n \in 1..Len(queue) : queue[m] = queue[n] => m = n
  /\ \A p, q \in Producers :
       item[p] # NoItem /\ item[p] = item[q] => p = q
  /\ \A i \in Items :
       /\ InQueue(i) => i \in accepted /\ got[i] = {}
       /\ \A p \in Producers :
            item[p] = i => i \in accepted /\ got[i] = {} /\ ~InQueue(i)
       /\ got[i] # {} => i \in accepted /\ \E w \in Workers : got[i] = {w}
       /\ i \in accepted => \/ InQueue(i) \/ got[i] # {}
                            \/ \E p \in Producers : item[p] = i

(* No lost wakeup: while a worker sleeps, every queued item has a worker   *)
(* of its own that is awake and about to test the queue, although wq_push  *)
(* signals once per item and a thread that was not asleep may overtake the *)
(* one that was signalled.                                                 *)
NoLostWakeup == Asleep # {} => Len(queue) <= Cardinality(Awake)

(* The inductive invariant: a producer has a socket in hand exactly        *)
(* between accept and the end of wq_push.                                  *)
InHand == \A p \in Producers : item[p] # NoItem <=> pc[p] \in {"push", "append"}

IInv == TypeOK /\ LockOwner /\ InHand /\ ExactlyOneReceiver /\ NoLostWakeup

(* Every queued item is eventually received by a worker. *)
EveryItemReceived == \A i \in Items : InQueue(i) ~> got[i] # {}
=============================================================================

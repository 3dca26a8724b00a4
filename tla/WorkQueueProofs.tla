--------------------------- MODULE WorkQueueProofs ---------------------------
(***************************************************************************)
(* Proofs, for any number of workers, producers and sockets, of the safety *)
(* properties of WorkQueue.                                                *)
(***************************************************************************)
EXTENDS WorkQueue, FiniteSetTheorems, SequenceTheorems, TLAPS

(* What unlinking the head of a list does to its positions. *)
LEMMA TailPositions ==
  ASSUME NEW S, NEW q \in Seq(S), q # <<>>
  PROVE  /\ Head(q) \in S
         /\ Head(q) = q[1]
         /\ Len(q) \in Nat \ {0}
         /\ Tail(q) \in Seq(S)
         /\ Len(Tail(q)) = Len(q) - 1
         /\ \A n \in 1..Len(Tail(q)) : Tail(q)[n] = q[n + 1]
  OBVIOUS

(* What appending to a list does to its positions. *)
LEMMA AppendPositions ==
  ASSUME NEW S, NEW q \in Seq(S), NEW x \in S
  PROVE  /\ Append(q, x) \in Seq(S)
         /\ Len(q) \in Nat
         /\ Len(Append(q, x)) = Len(q) + 1
         /\ \A n \in 1..Len(q) : Append(q, x)[n] = q[n]
         /\ Append(q, x)[Len(q) + 1] = x
  OBVIOUS

(* The sets of workers the wakeup argument counts are finite. *)
LEMMA AwakeFinite ==
  ASSUME TypeOK
  PROVE  /\ IsFiniteSet(Awake) /\ Cardinality(Awake) \in Nat
         /\ Asleep \subseteq Workers /\ Awake \subseteq Workers
  <1>1. Asleep \subseteq Workers /\ Awake \subseteq Workers
    BY DEF Asleep, Awake
  <1>2. IsFiniteSet(Awake)
    BY <1>1, FS_Subset, WorkQueueAssumption
  <1>3. QED
    BY <1>1, <1>2, FS_CardinalityType

(* The initial state satisfies the inductive invariant. *)
LEMMA InitIInv == Init => IInv
  <1> SUFFICES ASSUME Init PROVE IInv
    OBVIOUS
  <1> USE WorkQueueAssumption DEF Init
  <1>1. TypeOK
    BY DEF TypeOK, Threads
  <1>2. LockOwner /\ InHand
    BY DEF LockOwner, InHand, Threads
  <1>3. ExactlyOneReceiver
    BY DEF ExactlyOneReceiver, InQueue, Threads
  <1>4. NoLostWakeup
    BY DEF NoLostWakeup, Asleep, Threads
  <1>5. QED
    BY <1>1, <1>2, <1>3, <1>4 DEF IInv

(* A signal changes at most the pc of one sleeper, which it wakes. *)
LEMMA SignalWakesOne ==
  ASSUME TypeOK, NEW p \in Producers, Signal([pc EXCEPT ![p] = "idle"])
  PROVE  \/ Asleep = {} /\ pc' = [pc EXCEPT ![p] = "idle"]
         \/ \E w \in Asleep : /\ w \in Workers /\ w # p /\ pc[w] = "wait"
                             /\ pc' = [pc EXCEPT ![p] = "idle", ![w] = "woken"]
  <1>1. CASE Asleep = {}
    BY <1>1 DEF Signal
  <1>2. CASE Asleep # {}
    <2>1. PICK w \in Asleep :
                 pc' = [[pc EXCEPT ![p] = "idle"] EXCEPT ![w] = "woken"]
      BY <1>2 DEF Signal
    <2>2. w \in Workers /\ w # p /\ pc[w] = "wait"
      BY WorkQueueAssumption DEF Asleep
    <2>3. QED
      BY <2>1, <2>2 DEF TypeOK, Threads
  <1>3. QED
    BY <1>1, <1>2

(* Every step keeps the types, the meaning of the mutex and of the sockets *)
(* in the hands of the producers.                                          *)
LEMMA NextTypeOK == IInv /\ [Next]_vars => TypeOK' /\ LockOwner' /\ InHand'
  <1> SUFFICES ASSUME IInv, [Next]_vars
               PROVE  TypeOK' /\ LockOwner' /\ InHand'
    OBVIOUS
  <1> USE WorkQueueAssumption DEF IInv, TypeOK, LockOwner, InHand, Threads
  <1>1. ASSUME NEW w \in Workers, PopLock(w)
        PROVE  TypeOK' /\ LockOwner' /\ InHand'
    BY <1>1 DEF PopLock, Acquire
  <1>2. ASSUME NEW w \in Workers, PopWait(w)
        PROVE  TypeOK' /\ LockOwner' /\ InHand'
    BY <1>2 DEF PopWait
  <1>3. ASSUME NEW w \in Workers, PopTake(w)
        PROVE  TypeOK' /\ LockOwner' /\ InHand'
    <2>1. Head(queue) \in Items /\ Dequeue \in Seq(Items)
      BY <1>3, TailPositions DEF PopTake, Dequeue
    <2>2. TypeOK'
      BY <1>3, <2>1 DEF PopTake
    <2>3. LockOwner' /\ InHand'
      BY <1>3, <2>1 DEF PopTake
    <2>4. QED
      BY <2>2, <2>3
  <1>4. ASSUME NEW w \in Workers, HandleDone(w)
        PROVE  TypeOK' /\ LockOwner' /\ InHand'
    BY <1>4 DEF HandleDone
  <1>5. ASSUME NEW w \in Workers, SpuriousWakeup(w)
        PROVE  TypeOK' /\ LockOwner' /\ InHand'
    BY <1>5 DEF SpuriousWakeup
  <1>6. ASSUME NEW p \in Producers, NEW i \in Items, Accept(p, i)
        PROVE  TypeOK' /\ LockOwner' /\ InHand'
    BY <1>6 DEF Accept
  <1>7. ASSUME NEW p \in Producers, PushLock(p)
        PROVE  TypeOK' /\ LockOwner' /\ InHand'
    BY <1>7 DEF PushLock, Acquire
  <1>8. ASSUME NEW p \in Producers, PushAppend(p)
        PROVE  TypeOK' /\ LockOwner' /\ InHand'
    <2>1. item[p] \in Items /\ Enqueue(item[p]) \in Seq(Items)
      BY <1>8 DEF PushAppend, Enqueue
    <2>2. \/ Asleep = {} /\ pc' = [pc EXCEPT ![p] = "idle"]
          \/ \E w \in Asleep : /\ w \in Workers /\ w # p /\ pc[w] = "wait"
                              /\ pc' = [pc EXCEPT ![p] = "idle", ![w] = "woken"]
      BY <1>8, SignalWakesOne DEF PushAppend
    <2>3. TypeOK'
      BY <1>8, <2>1, <2>2 DEF PushAppend
    <2>4. LockOwner'
      BY <1>8, <2>1, <2>2 DEF PushAppend
    <2>5. InHand'
      BY <1>8, <2>1, <2>2 DEF PushAppend
    <2>6. QED
      BY <2>3, <2>4, <2>5
  <1>9. CASE ServerStop
    BY <1>9 DEF ServerStop
  <1>10. CASE UNCHANGED vars
    BY <1>10 DEF vars
  <1>11. QED
    BY <1>1, <1>2, <1>3, <1>4, <1>5, <1>6, <1>7, <1>8, <1>9, <1>10
       DEF Next, WorkerStep, ProducerStep

(* Every step keeps each accepted socket in exactly one place. *)
LEMMA NextExactlyOneReceiver == IInv /\ [Next]_vars => ExactlyOneReceiver'
  <1> SUFFICES ASSUME IInv, [Next]_vars
               PROVE  ExactlyOneReceiver'
    OBVIOUS
  <1> USE WorkQueueAssumption DEF IInv, TypeOK, InHand, Threads
  <1>1. ASSUME UNCHANGED <<queue, accepted, got>>,
               \A p \in Producers : item'[p] = item[p]
        PROVE  ExactlyOneReceiver'
    BY <1>1 DEF ExactlyOneReceiver, InQueue
  <1>2. ASSUME NEW w \in Workers, PopLock(w) \/ PopWait(w) \/ SpuriousWakeup(w)
        PROVE  ExactlyOneReceiver'
    BY <1>1, <1>2 DEF PopLock, PopWait, SpuriousWakeup
  <1>3. ASSUME NEW w \in Workers, PopTake(w)
        PROVE  ExactlyOneReceiver'
    <2> DEFINE h == Head(queue)
    <2>1. /\ h \in Items /\ h = queue[1]
          /\ Len(queue) \in Nat \ {0}
          /\ Len(queue') = Len(queue) - 1
          /\ \A n \in 1..Len(queue') : queue'[n] = queue[n + 1]
      BY <1>3, TailPositions DEF PopTake, Dequeue
    <2>2. /\ got' = [got EXCEPT ![h] = @ \cup {w}]
          /\ accepted' = accepted
          /\ \A p \in Producers : item'[p] = item[p]
      BY <1>3 DEF PopTake
    <2>3. InQueue(h) /\ got[h] = {} /\ h \in accepted
      BY <2>1 DEF ExactlyOneReceiver, InQueue
    <2>4. \A i \in Items : InQueue(i)' <=> InQueue(i) /\ i # h
      <3>1. ASSUME NEW i \in Items, InQueue(i)'
            PROVE  InQueue(i) /\ i # h
        <4>1. PICK n \in 1..Len(queue') : queue'[n] = i
          BY <3>1 DEF InQueue
        <4>2. n + 1 \in 1..Len(queue) /\ queue[n + 1] = i /\ n + 1 # 1
          BY <4>1, <2>1
        <4>3. i # h
          BY <4>2, <2>1 DEF ExactlyOneReceiver
        <4>4. QED
          BY <4>2, <4>3 DEF InQueue
      <3>2. ASSUME NEW i \in Items, InQueue(i), i # h
            PROVE  InQueue(i)'
        <4>1. PICK n \in 1..Len(queue) : queue[n] = i
          BY <3>2 DEF InQueue
        <4>2. n - 1 \in 1..Len(queue') /\ queue'[n - 1] = i
          BY <4>1, <3>2, <2>1
        <4>3. QED
          BY <4>2 DEF InQueue
      <3>3. QED
        BY <3>1, <3>2
    <2>5. \A m, n \in 1..Len(queue') : queue'[m] = queue'[n] => m = n
      <3>1. \A n \in 1..Len(queue') : n + 1 \in 1..Len(queue)
        BY <2>1
      <3>2. QED
        BY <3>1, <2>1 DEF ExactlyOneReceiver
    <2>6. ASSUME NEW i \in Items
          PROVE  /\ InQueue(i)' => i \in accepted' /\ got'[i] = {}
                 /\ \A p \in Producers : item'[p] = i =>
                      i \in accepted' /\ got'[i] = {} /\ ~InQueue(i)'
                 /\ got'[i] # {} =>
                      i \in accepted' /\ \E v \in Workers : got'[i] = {v}
                 /\ i \in accepted' => \/ InQueue(i)' \/ got'[i] # {}
                                       \/ \E p \in Producers : item'[p] = i
      BY <2>2, <2>3, <2>4 DEF ExactlyOneReceiver
    <2>7. \A p, q \in Producers :
            item'[p] # NoItem /\ item'[p] = item'[q] => p = q
      BY <2>2 DEF ExactlyOneReceiver
    <2>8. QED
      BY <2>5, <2>6, <2>7 DEF ExactlyOneReceiver
  <1>4. ASSUME NEW w \in Workers, HandleDone(w)
        PROVE  ExactlyOneReceiver'
    BY <1>1, <1>4 DEF HandleDone
  <1>5. ASSUME NEW p \in Producers, NEW i \in Items, Accept(p, i)
        PROVE  ExactlyOneReceiver'
    <2>1. /\ queue' = queue /\ got' = got
          /\ accepted' = accepted \cup {i} /\ i \notin accepted
          /\ item' = [item EXCEPT ![p] = i] /\ item[p] = NoItem
      BY <1>5 DEF Accept
    <2>2. got[i] = {} /\ ~InQueue(i) /\ \A q \in Producers : item[q] # i
      BY <2>1 DEF ExactlyOneReceiver
    <2>3. QED
      BY <2>1, <2>2 DEF ExactlyOneReceiver, InQueue
  <1>6. ASSUME NEW p \in Producers, PushLock(p)
        PROVE  ExactlyOneReceiver'
    BY <1>1, <1>6 DEF PushLock
  <1>7. ASSUME NEW p \in Producers, PushAppend(p)
        PROVE  ExactlyOneReceiver'
    <2> DEFINE x == item[p]
    <2>1. /\ x \in Items /\ got' = got /\ accepted' = accepted
          /\ item' = [item EXCEPT ![p] = NoItem]
      BY <1>7 DEF PushAppend
    <2>2. /\ Len(queue) \in Nat
          /\ Len(queue') = Len(queue) + 1
          /\ \A n \in 1..Len(queue) : queue'[n] = queue[n]
          /\ queue'[Len(queue) + 1] = x
      BY <1>7, <2>1, AppendPositions DEF PushAppend, Enqueue
    <2>3. x \in accepted /\ got[x] = {} /\ ~InQueue(x)
      BY <2>1 DEF ExactlyOneReceiver
    <2>4. \A i \in Items : InQueue(i)' <=> InQueue(i) \/ i = x
      BY <2>2 DEF InQueue
    <2>5. \A m, n \in 1..Len(queue') : queue'[m] = queue'[n] => m = n
      <3>1. \A n \in 1..Len(queue) : queue[n] # x
        BY <2>3 DEF InQueue
      <3>2. QED
        BY <2>2, <3>1 DEF ExactlyOneReceiver
    <2>6. \A q, r \in Producers :
            item'[q] # NoItem /\ item'[q] = item'[r] => q = r
      BY <2>1 DEF ExactlyOneReceiver
    <2>7. \A q \in Producers : q # p => item[q] # x
      BY <2>1 DEF ExactlyOneReceiver
    <2>8. ASSUME NEW i \in Items
          PROVE  /\ InQueue(i)' => i \in accepted' /\ got'[i] = {}
                 /\ \A q \in Producers : item'[q] = i =>
                      i \in accepted' /\ got'[i] = {} /\ ~InQueue(i)'
                 /\ got'[i] # {} =>
                      i \in accepted' /\ \E v \in Workers : got'[i] = {v}
                 /\ i \in accepted' => \/ InQueue(i)' \/ got'[i] # {}
                                       \/ \E q \in Producers : item'[q] = i
      BY <2>1, <2>3, <2>4, <2>7 DEF ExactlyOneReceiver
    <2>9. QED
      BY <2>5, <2>6, <2>8 DEF ExactlyOneReceiver
  <1>8. CASE ServerStop
    BY <1>1, <1>8 DEF ServerStop
  <1>9. CASE UNCHANGED vars
    BY <1>1, <1>9 DEF vars
  <1>10. QED
    BY <1>2, <1>3, <1>4, <1>5, <1>6, <1>7, <1>8, <1>9
       DEF Next, WorkerStep, ProducerStep

(* Every step keeps an awake worker for each queued item while one sleeps. *)
LEMMA NextNoLostWakeup == IInv /\ [Next]_vars => NoLostWakeup'
  <1> SUFFICES ASSUME IInv, [Next]_vars
               PROVE  NoLostWakeup'
    OBVIOUS
  <1>0. /\ TypeOK /\ LockOwner /\ NoLostWakeup /\ TypeOK'
        /\ IsFiniteSet(Awake) /\ Cardinality(Awake) \in Nat
        /\ Len(queue) \in Nat
    BY NextTypeOK, AwakeFinite DEF IInv, TypeOK
  <1> USE WorkQueueAssumption
  <1>1. ASSUME Asleep' = Asleep, Awake' = Awake, queue' = queue
        PROVE  NoLostWakeup'
    BY <1>0, <1>1 DEF NoLostWakeup
  <1>2. ASSUME Asleep' \subseteq Asleep, queue' = queue,
               NEW w, Awake' = Awake \cup {w}
        PROVE  NoLostWakeup'
    <2>1. Cardinality(Awake') \in {Cardinality(Awake), Cardinality(Awake) + 1}
      BY <1>0, <1>2, FS_AddElement
    <2>2. Asleep' # {} => Asleep # {}
      BY <1>2
    <2>3. QED
      BY <1>0, <1>2, <2>1, <2>2 DEF NoLostWakeup
  <1>3. ASSUME NEW w \in Workers, PopLock(w)
        PROVE  NoLostWakeup'
    <2>1. Asleep' = Asleep /\ Awake' = Awake \cup {w} /\ queue' = queue
      BY <1>0, <1>3 DEF PopLock, Asleep, Awake, TypeOK, Threads
    <2>2. QED
      BY <2>1, <1>2
  <1>4. ASSUME NEW w \in Workers, PopWait(w)
        PROVE  NoLostWakeup'
    <2>1. Len(queue') = 0 /\ Cardinality(Awake') \in Nat
      <3>1. Awake' \subseteq Workers
        BY DEF Awake
      <3>2. QED
        BY <1>4, <3>1, FS_Subset, FS_CardinalityType DEF PopWait
    <2>2. QED
      BY <2>1 DEF NoLostWakeup
  <1>5. ASSUME NEW w \in Workers, PopTake(w)
        PROVE  NoLostWakeup'
    <2>1. Asleep' = Asleep /\ Awake' = Awake \ {w} /\ w \in Awake
      BY <1>0, <1>5 DEF PopTake, Asleep, Awake, TypeOK, Threads
    <2>2. Len(queue') = Len(queue) - 1
      BY <1>0, <1>5, TailPositions DEF PopTake, Dequeue, TypeOK
    <2>3. Cardinality(Awake') = Cardinality(Awake) - 1
      BY <1>0, <2>1, FS_RemoveElement
    <2>4. QED
      BY <1>0, <2>1, <2>2, <2>3 DEF NoLostWakeup
  <1>6. ASSUME NEW w \in Workers, HandleDone(w)
        PROVE  NoLostWakeup'
    BY <1>0, <1>1, <1>6 DEF HandleDone, Asleep, Awake, TypeOK, Threads
  <1>7. ASSUME NEW w \in Workers, SpuriousWakeup(w)
        PROVE  NoLostWakeup'
    <2>1. Asleep' \subseteq Asleep /\ Awake' = Awake \cup {w} /\ queue' = queue
      BY <1>0, <1>7 DEF SpuriousWakeup, Asleep, Awake, TypeOK, Threads
    <2>2. QED
      BY <2>1, <1>2
  <1>8. ASSUME NEW p \in Producers, NEW i \in Items, Accept(p, i)
        PROVE  NoLostWakeup'
    BY <1>0, <1>1, <1>8 DEF Accept, Asleep, Awake, TypeOK, Threads
  <1>9. ASSUME NEW p \in Producers, PushLock(p)
        PROVE  NoLostWakeup'
    BY <1>0, <1>1, <1>9 DEF PushLock, Asleep, Awake, TypeOK, Threads
  <1>10. ASSUME NEW p \in Producers, PushAppend(p)
         PROVE  NoLostWakeup'
    <2>1. CASE Asleep = {} /\ pc' = [pc EXCEPT ![p] = "idle"]
      <3>1. Asleep' = {}
        BY <1>0, <2>1 DEF Asleep, TypeOK, Threads
      <3>2. QED
        BY <3>1 DEF NoLostWakeup
    <2>2. ASSUME NEW w \in Asleep, w \in Workers, w # p, pc[w] = "wait",
                 pc' = [pc EXCEPT ![p] = "idle", ![w] = "woken"]
          PROVE  NoLostWakeup'
      <3>1. Awake' = Awake \cup {w} /\ w \notin Awake /\ Asleep # {}
        BY <1>0, <2>2 DEF Awake, TypeOK, Threads
      <3>2. Cardinality(Awake') = Cardinality(Awake) + 1
        BY <1>0, <3>1, FS_AddElement
      <3>3. Len(queue') = Len(queue) + 1
        <4>1. item[p] \in Items
          BY <1>10 DEF PushAppend, IInv, InHand, TypeOK, Threads
        <4>2. QED
          BY <1>0, <1>10, <4>1, AppendPositions DEF PushAppend, Enqueue, TypeOK
      <3>4. QED
        BY <1>0, <3>1, <3>2, <3>3 DEF NoLostWakeup
    <2>3. QED
      BY <1>0, <1>10, <2>1, <2>2, SignalWakesOne DEF PushAppend
  <1>11. CASE ServerStop
    BY <1>0, <1>1, <1>11 DEF ServerStop, Asleep, Awake
  <1>12. CASE UNCHANGED vars
    BY <1>0, <1>1, <1>12 DEF vars, Asleep, Awake
  <1>13. QED
    BY <1>3, <1>4, <1>5, <1>6, <1>7, <1>8, <1>9, <1>10, <1>11, <1>12
       DEF Next, WorkerStep, ProducerStep

(* IInv holds in every reachable state of the work queue. *)
LEMMA Inductive == Spec => []IInv
  <1>1. IInv /\ [Next]_vars => IInv'
    BY NextTypeOK, NextExactlyOneReceiver, NextNoLostWakeup DEF IInv
  <1>2. QED
    BY <1>1, InitIInv, PTL DEF Spec

(* wq.c keeps the types of its state, whatever the numbers of threads. *)
THEOREM TypeCorrect == Spec => []TypeOK
  BY Inductive, PTL DEF IInv

(* wq.h's promise, for any number of workers, producers and sockets: each  *)
(* socket wq_push queues is returned by wq_pop to exactly one thread.      *)
THEOREM OneReceiver == Spec => []ExactlyOneReceiver
  BY Inductive, PTL DEF IInv

(* One pthread_cond_signal per wq_push is enough for any number of         *)
(* workers: no item waits in the queue while every worker sleeps.          *)
THEOREM WakeupsNotLost == Spec => []NoLostWakeup
  BY Inductive, PTL DEF IInv
=============================================================================

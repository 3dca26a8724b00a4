---------------------------- MODULE PintosTimer ----------------------------
(***************************************************************************)
(* timer_sleep and the timer interrupt (devices/timer.c), with the threads *)
(* and locks they work on.  The interrupt may come whenever interrupts are *)
(* on.                                                                     *)
(*                                                                         *)
(* Times are relative: wakeup[t] is how many ticks wakeup_tick of t lies   *)
(* ahead, and zero when it has passed.                                     *)
(***************************************************************************)
EXTENDS PintosSynch

CONSTANTS ListLock,    \* shared_threads_list_lock
          MaxSleep     \* bound on the argument of timer_sleep

ASSUME TimerAssumption == ListLock \in Lock \ {Monitor} /\ MaxSleep \in Nat \ {0}

VARIABLES threads_to_wakeup, wakeup

timerVars == <<threads_to_wakeup, wakeup>>
vars == <<cpu, synchVars, timerVars>>

(* Threads that main has created, none of higher priority than itself. *)
Init ==
  /\ \E main \in Thread :
       /\ orig_priority \in [Thread -> Priority]
       /\ \A t \in Thread : orig_priority[main] >= orig_priority[t]
       /\ cpu \in [running : {main},
                   ready_list : {l \in SetToSeqs(Thread \ {main}) : l = list_sort(l, orig_priority)},
                   status : {[t \in Thread |-> IF t = main THEN "RUNNING" ELSE "READY"]},
                   priority : {orig_priority}, thread_ticks : {0}, panicked : {FALSE}]
  /\ sema = [s \in Lock \cup Thread |-> [value |-> IF s \in Lock THEN 1 ELSE 0, waiters |-> <<>>]]
  /\ holder = [l \in Lock |-> NULL]
  /\ wait_lock = [t \in Thread |-> NULL]
  /\ ordered_donations = [t \in Thread |-> <<>>]
  /\ cond = {} /\ slept = {}
  /\ todo = [t \in Thread |-> <<>>]
  /\ threads_to_wakeup = <<>>
  /\ wakeup = [t \in Thread |-> 0]

-----------------------------------------------------------------------------
(* timer_sleep reads the time before it turns interrupts off. *)
TimerSleep(t, ticks) ==
  /\ Calls(t)
  /\ wakeup' = [wakeup EXCEPT ![t] = ticks]
  /\ todo' = [todo EXCEPT ![t] = <<Do("timer_sleep", NULL)>>]
  /\ UNCHANGED <<cpu, sema, holder, wait_lock, ordered_donations, orig_priority, cond, slept,
                 threads_to_wakeup>>

SleepLock(t) ==
  /\ Resumes(t, "timer_sleep")
  /\ WaitFor(t, ListLock)
  /\ todo' = [todo EXCEPT ![t] = <<Do("acquire", ListLock), Do("sleep", NULL), Do("block", NULL)>>]
  /\ UNCHANGED <<cpu, sema, holder, orig_priority, cond, slept, timerVars>>

(* Mutant of WakeupPlace: at the end of the list. *)
WakeupPlaceLast(t) == Len(threads_to_wakeup) + 1

(* list_insert_ordered with compare_threads_by_wakeup_time. *)
WakeupPlace(t) ==
  Min({n \in 1..Len(threads_to_wakeup) : wakeup[t] <= wakeup[threads_to_wakeup[n]]}
        \cup {Len(threads_to_wakeup) + 1})

(* The thread is queued and the lock released, which may yield. *)
SleepQueue(t) ==
  /\ Resumes(t, "sleep")
  /\ threads_to_wakeup' = InsertAt(threads_to_wakeup, WakeupPlace(t), t)
  /\ slept' = slept \cup {t}
  /\ Releases(t, ListLock, sema)
  /\ todo' = [todo EXCEPT ![t] = Tail(@)]
  /\ UNCHANGED <<wait_lock, orig_priority, cond, wakeup>>

SleepBlock(t) ==
  /\ Resumes(t, "block")
  /\ cpu' = thread_block(cpu)
  /\ todo' = [todo EXCEPT ![t] = Tail(@)]
  /\ UNCHANGED <<sema, holder, wait_lock, ordered_donations, orig_priority, cond, slept, timerVars>>

(* The loop of timer_interrupt stops at the first thread that is not due. *)
Due(w) == {n \in 1..Len(threads_to_wakeup) : \A m \in 1..n : w[threads_to_wakeup[m]] = 0}

thread_tick(c) == [c EXCEPT !.thread_ticks = @ + 1]

(* intr_handler, on return: the yield that thread_tick asks for when the   *)
(* time slice is used up.                                                  *)
YieldOnReturn(c) == IF c.thread_ticks >= TIME_SLICE /\ ~c.panicked THEN thread_yield(c) ELSE c

TimerInterrupt ==
  LET w == [t \in Thread |-> IF wakeup[t] = 0 THEN 0 ELSE wakeup[t] - 1]
      due == Cardinality(Due(w))
      c == FoldLeft(thread_unblock, thread_tick(cpu), SubSeq(threads_to_wakeup, 1, due))
  IN /\ ~cpu.panicked /\ InterruptsOn
     /\ wakeup' = w
     /\ threads_to_wakeup' = SubSeq(threads_to_wakeup, due + 1, Len(threads_to_wakeup))
     /\ cpu' = YieldOnReturn(c)
     /\ UNCHANGED synchVars

(* The idle thread blocks whenever it runs.  When no thread is ready       *)
(* next_thread_to_run returns it again, with a new time slice.             *)
IdleBlock == /\ ~cpu.panicked /\ cpu.running = Idle
             /\ cpu' = thread_block(cpu)
             /\ UNCHANGED <<synchVars, timerVars>>

ThreadCalls(t) ==
  \/ \E l \in Lock \ {ListLock} : LockAcquire(t, l) \/ LockTryAcquire(t, l) \/ LockRelease(t, l)
  \/ \E p \in Priority : SetPriority(t, p)
  \/ CondWait(t) \/ CondSignal(t) \/ CondBroadcast(t)

ThreadResumes(t) == Acquire(t) \/ Wait(t) \/ Down(t) \/ Relock(t) \/ Broadcast(t)

KernelStep(t) == \/ ThreadResumes(t) /\ UNCHANGED timerVars
                 \/ SleepLock(t) \/ SleepQueue(t) \/ SleepBlock(t)

Next == \/ \E t \in Thread : \/ ThreadCalls(t) /\ UNCHANGED timerVars
                             \/ KernelStep(t)
                             \/ \E n \in 1..MaxSleep : TimerSleep(t, n)
        \/ TimerInterrupt \/ IdleBlock

Spec == Init /\ [][Next]_vars

-----------------------------------------------------------------------------
Threads(l) == {l[n] : n \in 1..Len(l)}

(* The state of threads, locks and timer keeps its shape; the semaphore of *)
(* a lock never exceeds one.                                               *)
TypeOK ==
  /\ cpu \in Cpu
  /\ sema \in [Lock \cup Thread -> Semaphore]
  /\ \A s \in Lock \cup Thread : sema[s].value <= 1
  /\ holder \in [Lock -> Thread \cup {NULL}]
  /\ wait_lock \in [Thread -> Lock \cup {NULL}]
  /\ ordered_donations \in [Thread -> Seq(Thread)]
  /\ orig_priority \in [Thread -> Priority]
  /\ cond \subseteq Thread /\ slept \subseteq Thread
  /\ todo \in [Thread -> Seq(Frame)]
  /\ threads_to_wakeup \in Seq(Thread)
  /\ wakeup \in [Thread -> 0..MaxSleep]

(* elem links a thread into the ready list or into the waiters of one      *)
(* semaphore, never twice: a ready thread is on the ready list, and a      *)
(* blocked one waits for one semaphore or for the timer, so that whoever   *)
(* unblocks it finds it blocked.                                           *)
Lists(t) == {<<"ready", n>> : n \in {m \in 1..Len(cpu.ready_list) : cpu.ready_list[m] = t}}
  \cup UNION {{<<s, n>> : n \in {m \in 1..Len(sema[s].waiters) : sema[s].waiters[m] = t}}
                : s \in Lock \cup Thread}
ElemInOneList ==
  \A t \in Thread :
    /\ cpu.status[t] = "RUNNING" <=> cpu.running = t
    /\ cpu.status[t] = "RUNNING" => Lists(t) = {}
    /\ cpu.status[t] = "READY" => Cardinality(Lists(t)) = 1 /\ t \in Threads(cpu.ready_list)
    /\ cpu.status[t] = "BLOCKED" /\ ~cpu.panicked =>
         IF t \in Threads(threads_to_wakeup) THEN Lists(t) = {}
         ELSE Cardinality(Lists(t)) = 1 /\ t \notin Threads(cpu.ready_list)

(* sema_up wakes one waiter and leaves the value for it to take, so that   *)
(* another thread may come first (sema_down loops).  No wakeup is lost in  *)
(* that: while threads sleep at a lock that is free, one that was woken is *)
(* on its way to it.                                                       *)
NoLostWakeup ==
  \A l \in Lock :
    /\ sema[l].value = 0 <=> holder[l] # NULL
    /\ sema[l].waiters # <<>> /\ holder[l] = NULL =>
         \E t \in Thread : /\ cpu.status[t] # "BLOCKED"
                           /\ todo[t] # <<>> /\ Head(todo[t]) = Do("acquire", l)

(* A thread in cond_wait that has been signalled is not left asleep.       *)
NoLostSignal ==
  \A t \in Thread : t \notin cond /\ todo[t] # <<>> /\ Head(todo[t]).op \in {"wait", "down"} =>
    cpu.status[t] # "BLOCKED" /\ sema[t].value = 1

(* No thread sleeps on at a free lock, or after it was signalled.          *)
WakeupsArrive == NoLostWakeup /\ NoLostSignal

(* ordered_donations holds each donor once, and only while the thread it   *)
(* belongs to holds the lock that the donor waits for.                     *)
DonorsWaitForHolder ==
  \A t \in Thread : LET d == ordered_donations[t]
                    IN /\ IsInjective(d)
                       /\ \A n \in 1..Len(d) : wait_lock[d[n]] # NULL /\ holder[wait_lock[d[n]]] = t

(* A thread runs above its own priority only on behalf of a thread of that *)
(* priority that waits for a lock it holds: lock_release and               *)
(* thread_set_priority take back every other donation.                     *)
PriorityHasSource ==
  \A t \in Thread :
    /\ cpu.priority[t] >= orig_priority[t]
    /\ cpu.priority[t] > orig_priority[t] =>
         \E u \in Thread : /\ wait_lock[u] # NULL /\ holder[wait_lock[u]] = t
                           /\ cpu.priority[u] >= cpu.priority[t]

(* Donations come from the threads that wait for what the receiver holds,  *)
(* each once, and raise it for no other reason.                            *)
DonationsSound == DonorsWaitForHolder /\ PriorityHasSource

(* next_thread_to_run takes the front of the ready list.  That passes over *)
(* no thread that is ready at a higher priority of its own: only a         *)
(* donation to a ready thread leaves the list out of order.                *)
FrontIsHighest ==
  [][cpu'.running # cpu.running => \A t \in Threads(cpu'.ready_list) :
       cpu'.priority[t] = orig_priority'[t] => cpu'.priority[cpu'.running] >= cpu'.priority[t]]_vars

(* After the timer interrupt no thread that is due still sleeps.           *)
WakesOnTime ==
  [][TimerInterrupt => \A t \in Threads(threads_to_wakeup') : wakeup'[t] > 0]_vars

-----------------------------------------------------------------------------
(* thread_unblock: ASSERT (t->status == THREAD_BLOCKED).  It fails when a  *)
(* thread in timer_sleep, already on threads_to_wakeup, loses the          *)
(* processor in lock_release and its time comes before it has blocked.     *)
NoPanic == ~cpu.panicked

(* Nobody of lower priority holds a lock that a thread waits for.  It      *)
(* fails when the first donor is not the highest, and when the next        *)
(* thread that gets a lock does not take over its waiters.                 *)
NoInversion ==
  \A t \in Thread : wait_lock[t] # NULL /\ holder[wait_lock[t]] # NULL /\ cpu.status[t] = "BLOCKED"
    => cpu.priority[holder[wait_lock[t]]] >= cpu.priority[t]

(* The thread of the highest priority is chosen, whether that is its own   *)
(* or donated.  It fails when a thread on the ready list receives a        *)
(* donation behind another one.                                            *)
HighestIsChosen ==
  [][cpu'.running # cpu.running => \A t \in Threads(cpu'.ready_list) :
       cpu'.priority[cpu'.running] >= cpu'.priority[t]]_vars

(* Threads differ in nothing but their priorities. *)
Symmetry == Permutations(Thread)
=============================================================================

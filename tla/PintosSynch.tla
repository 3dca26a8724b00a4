---------------------------- MODULE PintosSynch ----------------------------
(***************************************************************************)
(* The scheduler of pintos (threads/thread.c) on one processor, with       *)
(* priorities and without -mlfqs, and its semaphores, locks with priority  *)
(* donation and a condition variable (threads/synch.c).                    *)
(*                                                                         *)
(* What the scheduler keeps is one record, cpu, and its functions map such *)
(* a record to the next one: a single step of the kernel, taken while      *)
(* interrupts are off, often calls several of them.                        *)
(*                                                                         *)
(* Only the running thread takes steps.  todo is what is left of the       *)
(* function it is in; it runs with interrupts off unless that says         *)
(* otherwise (InterruptsOn), so that only a thread switch can come between *)
(* two of its steps.                                                       *)
(***************************************************************************)
EXTENDS Integers, Sequences, FiniteSets, SequencesExt

CONSTANTS Thread, Idle,   \* the threads, and idle_thread
          Priority,       \* the priorities in use
          TIME_SLICE      \* ticks a thread runs before it is preempted

ASSUME ThreadAssumption == /\ Idle \notin Thread
                           /\ Priority \subseteq Nat
                           /\ TIME_SLICE \in Nat \ {0}

VARIABLE cpu

Cpu == [running : Thread \cup {Idle},
        ready_list : Seq(Thread),
        status : [Thread -> {"RUNNING", "READY", "BLOCKED"}],
        priority : [Thread -> Priority],
        thread_ticks : 0 .. TIME_SLICE,
        panicked : BOOLEAN]          \* an ASSERT has failed

-----------------------------------------------------------------------------
(* list_insert_ordered with compare_priority: before the first thread of   *)
(* lower priority.                                                         *)
list_insert_ordered(l, t, priority) ==
  LET lower == {n \in 1..Len(l) : priority[t] > priority[l[n]]}
  IN InsertAt(l, Min(lower \cup {Len(l) + 1}), t)

(* list_sort is a stable merge sort. *)
list_sort(l, priority) ==
  FoldLeft(LAMBDA sorted, t : list_insert_ordered(sorted, t, priority), <<>>, l)

(* Mutant of schedule: the thread that runs stays on the list. *)
scheduleKeepsHead(c) ==
  IF c.ready_list = <<>> THEN [c EXCEPT !.running = Idle, !.thread_ticks = 0]
  ELSE [c EXCEPT !.running = Head(c.ready_list),
                 !.status[Head(c.ready_list)] = "RUNNING",
                 !.thread_ticks = 0]

(* next_thread_to_run and thread_schedule_tail. *)
schedule(c) ==
  IF c.ready_list = <<>> THEN [c EXCEPT !.running = Idle, !.thread_ticks = 0]
  ELSE [c EXCEPT !.running = Head(c.ready_list),
                 !.ready_list = Tail(c.ready_list),
                 !.status[Head(c.ready_list)] = "RUNNING",
                 !.thread_ticks = 0]

(* Called with a thread or, in its loop, by the idle thread. *)
thread_block(c) ==
  IF c.running = Idle THEN schedule(c)
  ELSE schedule([c EXCEPT !.status[c.running] = "BLOCKED"])

(* It is an error if t is not blocked: the kernel stops. *)
thread_unblock(c, t) ==
  IF c.status[t] # "BLOCKED" THEN [c EXCEPT !.panicked = TRUE]
  ELSE [c EXCEPT !.ready_list = list_insert_ordered(c.ready_list, t, c.priority),
                 !.status[t] = "READY"]

thread_yield(c) ==
  IF c.running = Idle THEN schedule(c)
  ELSE schedule([c EXCEPT !.ready_list = list_insert_ordered(c.ready_list, c.running, c.priority),
                          !.status[c.running] = "READY"])

(* The running thread yields if some ready thread has a higher priority,   *)
(* not necessarily to that thread.                                         *)
check_priority_order(c) ==
  IF \E n \in 1..Len(c.ready_list) : c.priority[c.ready_list[n]] > c.priority[c.running]
  THEN thread_yield(c) ELSE c

-----------------------------------------------------------------------------
(* Semaphores, locks and a condition variable.                             *)
CONSTANTS Lock, NULL,
          Monitor      \* the lock of the condition variable

ASSUME LockAssumption == /\ Monitor \in Lock
                         /\ Lock \cap Thread = {}
                         /\ NULL \notin Lock \cup Thread

VARIABLES sema,               \* of every lock, and of every thread in cond_wait
          holder, wait_lock,
          ordered_donations,
          orig_priority,
          cond,               \* the waiters of the condition variable
          slept,              \* history: threads that have called timer_sleep
          todo

synchVars == <<sema, holder, wait_lock, ordered_donations, orig_priority, cond, slept, todo>>

Semaphore == [value : Nat, waiters : Seq(Thread)]
Frame == [op : {"acquire", "wait", "down", "relock", "broadcast", "timer_sleep", "sleep", "block"},
          on : Lock \cup Thread \cup {NULL}]
Do(op, on) == [op |-> op, on |-> on]

(* Frames at which a function has interrupts still, or again, turned on. *)
InterruptsOn ==
  cpu.running # Idle /\ todo[cpu.running] # <<>> =>
    Head(todo[cpu.running]).op \in {"wait", "relock", "broadcast", "timer_sleep"}

(* t runs, and calls a function, or goes on with the one it is in. *)
Calls(t) == ~cpu.panicked /\ cpu.running = t /\ todo[t] = <<>>
Resumes(t, op) == /\ ~cpu.panicked /\ cpu.running = t
                  /\ todo[t] # <<>> /\ Head(todo[t]).op = op

-----------------------------------------------------------------------------
(* check_to_donate: t raises the holder of the lock it waits for, that one *)
(* the holder of the lock it waits for, and so on.  The limit of eight is  *)
(* without effect in the code, whose counter stays at zero.                *)
check_to_donate(priority, t) ==
  LET at[n \in 0..Cardinality(Thread)] ==
        IF n = 0 THEN [priority |-> priority, curr |-> t]
        ELSE LET s == at[n - 1]
                 l == wait_lock[s.curr]
             IN IF l = NULL \/ holder[l] = NULL THEN s
                ELSE IF s.priority[holder[l]] >= s.priority[s.curr] THEN s
                ELSE [priority |-> [s.priority EXCEPT ![holder[l]] = s.priority[s.curr]],
                      curr |-> holder[l]]
  IN at[Cardinality(Thread)].priority

(* check_needs_donations: the first donor counts. *)
check_needs_donations(priority, t, orig, donors) ==
  IF donors # <<>> /\ priority[donors[1]] > orig
  THEN [priority EXCEPT ![t] = priority[donors[1]]]
  ELSE [priority EXCEPT ![t] = orig]

(* Mutant of remove_donations: the donors stay. *)
remove_donationsNone(t, l) == ordered_donations[t]

remove_donations(t, l) == SelectSeq(ordered_donations[t], LAMBDA d : wait_lock[d] # l)

(* Where lock_acquire inserts a donor.  compare_priority is made for elem, *)
(* and on a donation_list_elem reads wakeup_list_elem.prev, as an int:     *)
(* zero in a thread that has never slept and else a kernel address, which  *)
(* is negative and of no known order.                                      *)
DonorPlaces(donors, t) ==
  LET places == {n \in 1..Len(donors) : donors[n] \in slept} \cup {Len(donors) + 1}
  IN IF t \in slept THEN places ELSE {Min(places)}

(* lock_acquire up to sema_down. *)
WaitFor(t, l) ==
  IF holder[l] = NULL THEN UNCHANGED <<wait_lock, ordered_donations>>
  ELSE /\ wait_lock' = [wait_lock EXCEPT ![t] = l]
       /\ \E n \in DonorPlaces(ordered_donations[holder[l]], t) :
            ordered_donations' = [ordered_donations EXCEPT ![holder[l]] = InsertAt(@, n, t)]

(* An iteration of sema_down that finds zero. *)
Blocks(t, s) ==
  LET c == [cpu EXCEPT !.priority = check_to_donate(cpu.priority, t)]
  IN /\ sema[s].value = 0
     /\ sema' = [sema EXCEPT ![s].waiters = list_insert_ordered(@, t, c.priority)]
     /\ cpu' = thread_block(c)

(* Mutant of sema_upCpu: nobody is woken if more than one waits. *)
sema_upCpuWakesOne(c, s) ==
  check_priority_order(
    IF Len(sema[s].waiters) # 1 THEN c
    ELSE thread_unblock(c, Head(list_sort(sema[s].waiters, c.priority))))

(* sema_up: what becomes of the processor, and of the semaphore. *)
sema_upCpu(c, s) ==
  check_priority_order(
    IF sema[s].waiters = <<>> THEN c
    ELSE thread_unblock(c, Head(list_sort(sema[s].waiters, c.priority))))

sema_up(c, s) ==
  [value |-> sema[s].value + 1,
   waiters |-> IF sema[s].waiters = <<>> THEN <<>>
               ELSE Tail(list_sort(sema[s].waiters, c.priority))]

(* lock_release, with f the rest of what t is doing. *)
Releases(t, l, f) ==
  LET donors == remove_donations(t, l)
      c == [cpu EXCEPT !.priority =
              check_needs_donations(cpu.priority, t, orig_priority[t], donors)]
  IN /\ holder[l] = t
     /\ holder' = [holder EXCEPT ![l] = NULL]
     /\ ordered_donations' = [ordered_donations EXCEPT ![t] = donors]
     /\ cpu' = sema_upCpu(c, l)
     /\ sema' = [f EXCEPT ![l] = sema_up(c, l)]

-----------------------------------------------------------------------------
(* lock_acquire is called. *)
LockAcquire(t, l) ==
  /\ Calls(t) /\ holder[l] # t
  /\ WaitFor(t, l)
  /\ todo' = [todo EXCEPT ![t] = <<Do("acquire", l)>>]
  /\ UNCHANGED <<cpu, sema, holder, orig_priority, cond, slept>>

(* lock_acquire at the test of sema_down: t has the lock or sleeps. *)
Acquire(t) ==
  /\ Resumes(t, "acquire")
  /\ LET l == Head(todo[t]).on
     IN \/ /\ Blocks(t, l)
           /\ UNCHANGED <<wait_lock, holder, todo>>
        \/ /\ sema[l].value > 0
           /\ sema' = [sema EXCEPT ![l].value = @ - 1]
           /\ wait_lock' = [wait_lock EXCEPT ![t] = NULL]
           /\ holder' = [holder EXCEPT ![l] = t]
           /\ todo' = [todo EXCEPT ![t] = Tail(@)]
           /\ UNCHANGED cpu
  /\ UNCHANGED <<ordered_donations, orig_priority, cond, slept>>

sema_try_down(s) == sema[s].value > 0 /\ sema' = [sema EXCEPT ![s].value = @ - 1]

LockTryAcquire(t, l) ==
  /\ Calls(t) /\ holder[l] # t
  /\ sema_try_down(l)
  /\ holder' = [holder EXCEPT ![l] = t]
  /\ UNCHANGED <<cpu, wait_lock, ordered_donations, orig_priority, cond, slept, todo>>

LockRelease(t, l) ==
  /\ Calls(t)
  /\ Releases(t, l, sema)
  /\ UNCHANGED <<wait_lock, orig_priority, cond, slept, todo>>

(* thread_set_priority.  A raised thread has no lock to wait for. *)
SetPriority(t, p) ==
  /\ Calls(t) /\ p # orig_priority[t]
  /\ orig_priority' = [orig_priority EXCEPT ![t] = p]
  /\ LET c == [cpu EXCEPT !.priority =
                 check_needs_donations(cpu.priority, t, p, ordered_donations[t])]
     IN cpu' = IF c.priority[t] < cpu.priority[t] THEN check_priority_order(c) ELSE c
  /\ UNCHANGED <<sema, holder, wait_lock, ordered_donations, cond, slept, todo>>

-----------------------------------------------------------------------------
(* cond_wait queues a semaphore of its own and gives up the lock; it waits *)
(* for the semaphore, and then for the lock, with interrupts on between.   *)
CondWait(t) ==
  /\ Calls(t)
  /\ Releases(t, Monitor, [sema EXCEPT ![t] = [value |-> 0, waiters |-> <<>>]])
  /\ cond' = cond \cup {t}
  /\ todo' = [todo EXCEPT ![t] = <<Do("wait", t), Do("relock", Monitor)>>]
  /\ UNCHANGED <<wait_lock, orig_priority, slept>>

Wait(t) ==
  /\ Resumes(t, "wait")
  /\ todo' = [todo EXCEPT ![t] = <<Do("down", t)>> \o Tail(@)]
  /\ UNCHANGED <<cpu, sema, holder, wait_lock, ordered_donations, orig_priority, cond, slept>>

Down(t) ==
  /\ Resumes(t, "down")
  /\ \/ Blocks(t, Head(todo[t]).on) /\ UNCHANGED todo
     \/ /\ sema[t].value > 0
        /\ sema' = [sema EXCEPT ![t].value = @ - 1]
        /\ todo' = [todo EXCEPT ![t] = Tail(@)]
        /\ UNCHANGED cpu
  /\ UNCHANGED <<holder, wait_lock, ordered_donations, orig_priority, cond, slept>>

Relock(t) ==
  /\ Resumes(t, "relock")
  /\ WaitFor(t, Monitor)
  /\ todo' = [todo EXCEPT ![t] = <<Do("acquire", Monitor)>>]
  /\ UNCHANGED <<cpu, sema, holder, orig_priority, cond, slept>>

(* The waiters that list_sort with compare_condvar_priority may put first: *)
(* those of the highest priority, and before they have come to sema_down   *)
(* any, in no order that the comparison defines.                           *)
CondFront ==
  LET asleep == {u \in cond : sema[u].waiters # <<>>}
  IN IF asleep = {} THEN cond
     ELSE {u \in asleep : \A v \in asleep : cpu.priority[u] >= cpu.priority[v]}

Signals(u) == /\ cond' = cond \ {u}
              /\ cpu' = sema_upCpu(cpu, u)
              /\ sema' = [sema EXCEPT ![u] = sema_up(cpu, u)]

CondSignal(t) ==
  /\ Calls(t) /\ holder[Monitor] = t
  /\ \E u \in CondFront : Signals(u)
  /\ UNCHANGED <<holder, wait_lock, ordered_donations, orig_priority, slept, todo>>

(* cond_broadcast signals until nobody waits; each signal may lose the CPU. *)
CondBroadcast(t) ==
  /\ Calls(t) /\ holder[Monitor] = t /\ cond # {}
  /\ todo' = [todo EXCEPT ![t] = <<Do("broadcast", Monitor)>>]
  /\ UNCHANGED <<cpu, sema, holder, wait_lock, ordered_donations, orig_priority, cond, slept>>

Broadcast(t) ==
  /\ Resumes(t, "broadcast")
  /\ \/ /\ \E u \in CondFront : Signals(u)
        /\ UNCHANGED todo
     \/ /\ cond = {}
        /\ todo' = [todo EXCEPT ![t] = Tail(@)]
        /\ UNCHANGED <<cpu, sema, cond>>
  /\ UNCHANGED <<holder, wait_lock, ordered_donations, orig_priority, slept>>
=============================================================================

------------------------------ MODULE PintosMlfqs ------------------------------
(* The multi-level feedback queue scheduler of Pintos (thread.c under         *)
(* -mlfqs, the calls of timer_interrupt) and the fixed-point arithmetic it    *)
(* computes with (fixed-point.h).  PintosSynch has the scheduler without      *)
(* -mlfqs.                                                                    *)
(*                                                                            *)
(* A fixed-point number is an integer, FIX_F times the number it stands for.  *)
(* The bound on ticks is in the guard of timer_interrupt.                     *)
EXTENDS Integers, Sequences, FiniteSets, SequencesExt

CONSTANTS Jobs,                           \* threads; the idle thread is None
          FIX_F,                          \* 2^16
          FixBound,                       \* int can hold -FixBound .. FixBound - 1
          TIMER_FREQ, TIME_SLICE,
          PRI_MIN, PRI_MAX, PRI_DEFAULT, NICE_MIN, NICE_MAX,
          Nices,                          \* arguments of thread_set_nice
          MaxTicks, MaxCalls,
          None

VARIABLES sched,      \* running, ready_list, thread_ticks, ticks, load_avg
          jobs,       \* per thread: blocked, nice, recent_cpu, priority; recomputed once?
          mlfqsQuota  \* calls that threads may still make

mlfqsVars == <<sched, jobs, mlfqsQuota>>

-----------------------------------------------------------------------------
(* fixed-point.h.  C truncates a quotient towards zero. *)

Div(a, b) == IF a >= 0 THEN a \div b ELSE -((-a) \div b)
fix_int(n) == n * FIX_F
fix_frac(n, d) == Div(n * FIX_F, d)
fix_round(x) == Div(x + FIX_F \div 2, FIX_F)
fix_mul(x, y) == Div(x * y, FIX_F)
fix_div(x, y) == Div(x * FIX_F, y)
fix_unscale(x, n) == Div(x, n)

-----------------------------------------------------------------------------
(* thread.c *)

Clamp(n, low, high) == IF n < low THEN low ELSE IF n > high THEN high ELSE n

calculate_priority(j) ==
    Clamp(fix_round(fix_int(PRI_MAX) - fix_unscale(j.recent_cpu, 4) - fix_int(2 * j.nice)),
          PRI_MIN, PRI_MAX)

\* Mutant of calculate_recent_cpu: no decay.
recent_cpuGrows(j, load) == j.recent_cpu + fix_int(j.nice)

calculate_recent_cpu(j, load) ==
    fix_mul(fix_div(2 * load, 2 * load + fix_int(1)), j.recent_cpu) + fix_int(j.nice)

calculate_load_avg ==
    LET ready == Len(sched.ready_list) + (IF sched.running = None THEN 0 ELSE 1)
    IN fix_mul(fix_frac(59, 60), sched.load_avg) + fix_frac(ready, 60)

\* compare_priority and list_insert_ordered.
InsertOrdered(l, t) ==
    LET lower == {n \in DOMAIN l : jobs'[t].priority > jobs'[l[n]].priority}
    IN InsertAt(l, Min(lower \cup {Len(l) + 1}), t)

\* next_thread_to_run and thread_schedule_tail: the thread at the front.
Next_thread(s, l) ==
    IF l = <<>> THEN [s EXCEPT !.running = None, !.ready_list = l, !.thread_ticks = 0]
    ELSE [s EXCEPT !.running = Head(l), !.ready_list = Tail(l), !.thread_ticks = 0]

thread_yield(s) ==
    Next_thread(s, IF s.running = None THEN s.ready_list ELSE InsertOrdered(s.ready_list, s.running))

tick_increment(t) == IF t = sched.running THEN [jobs[t] EXCEPT !.recent_cpu = @ + fix_int(1)] ELSE jobs[t]

\* do_recalculate, for one thread of all_list; the ready list keeps its order.
Recalculated(j, load) ==
    LET r == [j EXCEPT !.recent_cpu = calculate_recent_cpu(j, load)]
    IN [r EXCEPT !.priority = calculate_priority(r), !.second = TRUE]

\* timer_interrupt, with thread_tick and the yield on return.
timer_interrupt ==
    LET now  == sched.ticks + 1
        load == IF now % TIMER_FREQ = 0 THEN calculate_load_avg ELSE sched.load_avg
        ran  == [sched EXCEPT !.ticks = now, !.thread_ticks = @ + 1, !.load_avg = load]
    IN /\ sched.ticks < MaxTicks
       /\ jobs' = [t \in Jobs |->
                     LET j == tick_increment(t)
                     IN IF now % TIMER_FREQ = 0 THEN Recalculated(j, load)
                        ELSE IF now % TIME_SLICE = 0 /\ t = sched.running
                        THEN [j EXCEPT !.priority = calculate_priority(j)] ELSE j]
       /\ sched' = IF ran.thread_ticks >= TIME_SLICE THEN thread_yield(ran) ELSE ran
       /\ UNCHANGED mlfqsQuota

Call == mlfqsQuota > 0 /\ mlfqsQuota' = mlfqsQuota - 1

\* check_priority_order: yield if some ready thread has a higher priority.
check_priority_order ==
    sched' = IF sched.running # None /\ \E n \in DOMAIN sched.ready_list :
                  jobs'[sched.ready_list[n]].priority > jobs'[sched.running].priority
             THEN thread_yield(sched) ELSE sched

thread_set_nice(nice) ==
    /\ Call /\ sched.running # None
    /\ LET j == [jobs[sched.running] EXCEPT !.nice = Clamp(nice, NICE_MIN, NICE_MAX)]
       IN jobs' = [jobs EXCEPT ![sched.running] = [j EXCEPT !.priority = calculate_priority(j)]]
    /\ check_priority_order

thread_block ==
    /\ Call /\ sched.running # None
    /\ jobs' = [jobs EXCEPT ![sched.running].blocked = TRUE]
    /\ sched' = Next_thread(sched, sched.ready_list)

\* By an interrupt; the idle thread then blocks, and the next thread runs.
thread_unblock(t) ==
    /\ Call /\ jobs[t].blocked
    /\ jobs' = [jobs EXCEPT ![t].blocked = FALSE]
    /\ LET l == InsertOrdered(sched.ready_list, t)
       IN sched' = IF sched.running = None THEN Next_thread(sched, l)
                   ELSE [sched EXCEPT !.ready_list = l]

Yield == Call /\ sched.running # None /\ UNCHANGED jobs /\ sched' = thread_yield(sched)

\* thread_init and init_thread: the first thread runs, the others have been
\* created with their own priority, whatever the scheduler would compute.
Init ==
    /\ jobs = [t \in Jobs |-> [blocked |-> FALSE, nice |-> 0, recent_cpu |-> fix_int(0),
                                priority |-> PRI_DEFAULT, second |-> FALSE]]
    /\ \E order \in SetToSeqs(Jobs) :
         sched = [running |-> Head(order), ready_list |-> Tail(order), thread_ticks |-> 0, ticks |-> 0,
                  load_avg |-> fix_int(0)]
    /\ mlfqsQuota = MaxCalls

Next == \/ timer_interrupt \/ (\E n \in Nices : thread_set_nice(n)) \/ thread_block
        \/ (\E t \in Jobs : thread_unblock(t)) \/ Yield

Spec == Init /\ [][Next]_mlfqsVars

-----------------------------------------------------------------------------
(* Properties *)

\* No decay, rounding or history of niceness takes the values out of range:
\* the load average stays within the number of threads, recent_cpu within
\* the fixed point of its recurrence, with nothing in between that an int
\* cannot hold, and a priority is one.
MlfqsBounded ==
    LET N == Cardinality(Jobs)
        top == (TIMER_FREQ + NICE_MAX) * (2 * N + 1)
        bottom == NICE_MIN * (2 * N + 1)
    IN /\ sched.load_avg \in 0 .. fix_int(N)
       /\ 2 * sched.load_avg + fix_int(1) < FixBound
       /\ \A t \in Jobs : /\ fix_int(bottom) <= jobs[t].recent_cpu /\ jobs[t].recent_cpu <= fix_int(top)
                          /\ -FixBound <= jobs[t].recent_cpu /\ jobs[t].recent_cpu < FixBound
                          /\ jobs[t].priority \in PRI_MIN .. PRI_MAX

Abs(n) == IF n < 0 THEN -n ELSE n

\* Priorities are recomputed for the running thread at multiples of
\* TIME_SLICE, and for all threads once a second, so that a thread which
\* leaves the processor in between keeps a stale one; it is never further
\* from what its recent_cpu and nice give than a second of running is worth.
PriorityFresh ==
    \A t \in Jobs : jobs[t].second =>
      Abs(jobs[t].priority - calculate_priority(jobs[t])) <= TIMER_FREQ \div 4 + 1

=============================================================================

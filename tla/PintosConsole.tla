---------------------------- MODULE PintosConsole ----------------------------
(* The Pintos console: threads that print (lib/kernel/console.c) and read     *)
(* (devices/input.c), the interrupt queues between them and the interrupt     *)
(* handlers (devices/intq.c), the serial port (devices/serial.c), the         *)
(* keyboard (devices/kbd.c), the text display (devices/vga.c), the delivery   *)
(* of interrupts (threads/interrupt.c) and the way down (devices/shutdown.c). *)
(*                                                                            *)
(* The code runs with interrupts off from intr_disable to intr_set_level, and *)
(* a handler runs with interrupts off altogether, so a step is such a section *)
(* or the part of one up to the point where the thread sleeps or may be       *)
(* preempted (lock_release lets a thread of higher priority run at once).     *)
EXTENDS Integers, Sequences, FiniteSets, SequencesExt

CONSTANTS Writers, Readers,      \* threads that print, threads that read
          SerialBytes,           \* what arrives over the serial line
          BufSize,               \* INTQ_BUFSIZE
          Cols, Rows, TabStop,   \* the screen
          Scenes,                \* bounds: how often each thing may happen, the texts
                                 \* printed, the scancodes sent (two-byte ones as one)
          None

VARIABLES txq, inq,              \* the two interrupt queues
          uart,                  \* the serial port and the driver's mode
          kbd,                   \* modifier state kept by kbd.c
          con,                   \* console lock, its depth, use_console_lock
          vga,                   \* cursor
          task,                  \* the threads
          power,                 \* "boot", "on", "panic", "off", "reset"
          log,                   \* what was written, sent, accepted, read
          quota                  \* how often each thing may still happen

consoleVars == <<txq, inq, uart, kbd, con, vga, task, power, log, quota>>

-----------------------------------------------------------------------------
(* devices/intq.c *)

intq_init == [buf |-> [i \in 0 .. BufSize - 1 |-> None], head |-> 0, tail |-> 0,
              lock |-> None, not_full |-> None, not_empty |-> None]
next(pos) == (pos + 1) % BufSize
intq_empty(q) == q.head = q.tail
intq_full(q) == next(q.head) = q.tail
Contents(q) == [i \in 1 .. (q.head - q.tail + BufSize) % BufSize |->
                  q.buf[(q.tail + i - 1) % BufSize]]

\* The unconditional part of intq_getc and intq_putc; signal resets the waiter.
Byte(q) == q.buf[q.tail]
Taken(q) == [q EXCEPT !.tail = next(q.tail), !.not_full = None]
Added(q, byte) == [q EXCEPT !.buf[q.head] = byte, !.head = next(q.head), !.not_empty = None]

\* thread_unblock of a waiter a signal found.
Wake(tasks, t) == IF t = None THEN tasks ELSE [tasks EXCEPT ![t].pc = "woken"]

-----------------------------------------------------------------------------
(* devices/serial.c, devices/input.c *)

write_ier(u, tx, in) ==
    [u EXCEPT !.ier = (IF intq_empty(tx) THEN {} ELSE {"xmit"})
                      \cup (IF intq_full(in) THEN {} ELSE {"recv"})]

serial_notify(u, tx, in) == IF u.mode = "queue" THEN write_ier(u, tx, in) ELSE u

init_poll(u) == IF u.mode = "uninit" THEN [u EXCEPT !.mode = "poll", !.ier = {}] ELSE u

\* putc_poll: whatever is in the holding register goes out first.
putc_poll(u, byte) == [u EXCEPT !.out = @ \o u.thr, !.thr = <<byte>>]

serial_init_queue ==
    /\ power = "on" /\ uart.mode # "queue"
    /\ uart' = write_ier([init_poll(uart) EXCEPT !.mode = "queue"], txq, inq)
    /\ UNCHANGED <<txq, inq, kbd, con, vga, task, power, log, quota>>

-----------------------------------------------------------------------------
(* devices/vga.c: only the cursor *)

newline(v) == [cx |-> 0, cy |-> IF v.cy + 1 >= Rows THEN Rows - 1 ELSE v.cy + 1]
Wrapped(v) == IF v.cx >= Cols THEN newline(v) ELSE v

vga_putc(v, c) ==
    CASE c = "NL" -> newline(v)
      [] c = "FF" -> [cx |-> 0, cy |-> 0]
      [] c = "BS" -> IF v.cx > 0 THEN [v EXCEPT !.cx = @ - 1] ELSE v
      [] c = "CR" -> [v EXCEPT !.cx = 0]
      [] c = "TAB" -> Wrapped([v EXCEPT !.cx = ((v.cx + 1 + TabStop - 1) \div TabStop) * TabStop])
      [] OTHER    -> Wrapped([v EXCEPT !.cx = @ + 1])

-----------------------------------------------------------------------------
(* lib/kernel/console.c *)

Uses(key) == quota[key] > 0 /\ quota' = [quota EXCEPT ![key] = @ - 1]

Written(by, c) == [log EXCEPT !.written = Append(@, [by |-> by, c |-> c])]

\* Mutant of PutNow: with the queue full, the new byte is the one polled out.
PutNowFirst(by, c) ==
    /\ log' = Written(by, c)
    /\ vga' = vga_putc(vga, c)
    /\ IF uart.mode # "queue" \/ intq_full(txq)
       THEN uart' = putc_poll(init_poll(uart), c) /\ UNCHANGED <<txq, task>>
       ELSE /\ txq' = Added(txq, c) /\ UNCHANGED task
            /\ uart' = write_ier(uart, txq', inq)

\* serial_putc with interrupts off on entry (a handler, or a panicking kernel):
\* it never sleeps, a full queue gives up its oldest byte by polling.
PutNow(by, c) ==
    /\ log' = Written(by, c)
    /\ vga' = vga_putc(vga, c)
    /\ IF uart.mode # "queue"
       THEN uart' = putc_poll(init_poll(uart), c) /\ UNCHANGED <<txq, task>>
       ELSE LET polled == intq_full(txq)
                u == IF polled THEN putc_poll(uart, Byte(txq)) ELSE uart
                q == IF polled THEN Taken(txq) ELSE txq
            IN /\ txq' = Added(q, c)
               /\ task' = IF polled THEN Wake(task, txq.not_full) ELSE task
               /\ uart' = write_ier(u, txq', inq)

\* intq_putc's loop in a thread: sleep while the queue is full.
PutLoop(t, c) ==
    IF ~intq_full(txq)
    THEN /\ txq' = Added(txq, c)
         /\ uart' = write_ier(uart, txq', inq)
         /\ vga' = vga_putc(vga, c)
         /\ log' = Written(t, c)
         /\ task' = [task EXCEPT ![t].pc = "print", ![t].text[1] = Tail(@)]
    ELSE /\ txq.lock = None
         /\ txq' = [txq EXCEPT !.lock = t, !.not_full = t]
         /\ task' = [task EXCEPT ![t].pc = "sleep"]
         /\ UNCHANGED <<uart, vga, log>>

On == power \in {"on", "flushed"}
Running(t) == On /\ task[t].pc # "sleep"

acquire_console(t, text) ==
    /\ Running(t)
    /\ \/ task[t].pc = "idle" /\ con.lock = None /\ Uses("prints")
          /\ con' = [con EXCEPT !.lock = t, !.from = Len(log.written)]
       \/ task[t].pc = "print" /\ con.lock = t /\ Uses("nested")
          /\ con' = [con EXCEPT !.depth = @ + 1]
    /\ task' = [task EXCEPT ![t].pc = "print", ![t].text = <<text>> \o @]
    /\ UNCHANGED <<txq, inq, uart, kbd, vga, power, log>>

putchar_have_lock(t) ==
    /\ Running(t) /\ task[t].pc \in {"print", "loop"} /\ t \in Writers
    /\ task[t].text[1] # <<>>
    /\ LET c == task[t].text[1][1]
       IN IF uart.mode = "queue" THEN PutLoop(t, c)
          ELSE /\ uart' = putc_poll(init_poll(uart), c)
               /\ vga' = vga_putc(vga, c)
               /\ log' = Written(t, c)
               /\ task' = [task EXCEPT ![t].text[1] = Tail(@)]
               /\ UNCHANGED txq
    /\ UNCHANGED <<inq, kbd, con, power, quota>>

release_console(t) ==
    /\ Running(t) /\ task[t].pc = "print" /\ task[t].text[1] = <<>>
    /\ con' = IF con.depth > 0 THEN [con EXCEPT !.depth = @ - 1]
              ELSE [con EXCEPT !.lock = None]
    /\ task' = [task EXCEPT ![t].text = Tail(@),
                            ![t].pc = IF Len(task[t].text) = 1 THEN "idle" ELSE "print"]
    /\ UNCHANGED <<txq, inq, uart, kbd, vga, power, log, quota>>

-----------------------------------------------------------------------------
(* Waiting on a queue, and reading a character *)

\* Back from thread_block in wait: lock_release, which may let others run.
Woken(t) ==
    /\ Running(t) /\ task[t].pc = "woken"
    /\ task' = [task EXCEPT ![t].pc = "loop"]
    /\ IF t \in Writers THEN txq' = [txq EXCEPT !.lock = None] /\ UNCHANGED inq
                        ELSE inq' = [inq EXCEPT !.lock = None] /\ UNCHANGED txq
    /\ UNCHANGED <<uart, kbd, con, vga, power, log, quota>>

\* A failed ASSERT: PANIC.
AssertFails == power' = "panic" /\ con' = [con EXCEPT !.use = FALSE]

input_getc(t) ==
    /\ Running(t) /\ t \in Readers
    /\ \/ task[t].pc = "idle" /\ Uses("reads")
       \/ task[t].pc = "loop" /\ UNCHANGED quota
    /\ IF ~intq_empty(inq)
       THEN /\ inq' = Taken(inq)
            /\ uart' = serial_notify(uart, txq, inq')
            /\ log' = [log EXCEPT !.read = Append(@, Byte(inq))]
            /\ task' = Wake([task EXCEPT ![t].pc = "idle"], inq.not_full)
       ELSE /\ IF inq.lock = None
               THEN /\ inq' = [inq EXCEPT !.lock = t, !.not_empty = t]
                    /\ task' = [task EXCEPT ![t].pc = "sleep"]
               ELSE task' = [task EXCEPT ![t].pc = "acquire"] /\ UNCHANGED inq
            /\ UNCHANGED <<uart, log>>
    /\ UNCHANGED <<txq, kbd, con, vga, power>>

\* The second reader gets the lock, and wait asserts that the queue is empty.
Acquired(t) ==
    /\ Running(t) /\ task[t].pc = "acquire" /\ inq.lock = None
    /\ IF intq_empty(inq)
       THEN /\ inq' = [inq EXCEPT !.lock = t, !.not_empty = t]
            /\ task' = [task EXCEPT ![t].pc = "sleep"]
            /\ UNCHANGED <<power, con>>
       ELSE AssertFails /\ UNCHANGED <<inq, task>>
    /\ UNCHANGED <<txq, uart, kbd, vga, log, quota>>

-----------------------------------------------------------------------------
(* Interrupt handlers *)

\* input_putc; its callers have seen that the queue is not full.
InputPut(in, tasks, byte) == [in |-> Added(in, byte), task |-> Wake(tasks, in.not_empty)]

\* The UART raises its line while a condition its IER enables holds.
SerialLine == \/ "xmit" \in uart.ier /\ uart.thr = <<>>
              \/ "recv" \in uart.ier /\ uart.rbr # <<>>

serial_interrupt ==
    /\ On /\ SerialLine
    /\ LET gets == ~intq_full(inq) /\ uart.rbr # <<>>
           puts == ~intq_empty(txq) /\ uart.thr = <<>>
           got  == IF gets THEN InputPut(inq, task, uart.rbr[1]) ELSE [in |-> inq, task |-> task]
       IN /\ inq' = got.in
          /\ txq' = IF puts THEN Taken(txq) ELSE txq
          /\ task' = IF puts THEN Wake(got.task, txq.not_full) ELSE got.task
          /\ uart' = write_ier([uart EXCEPT !.rbr = IF gets THEN <<>> ELSE @,
                                            !.thr = IF puts THEN <<Byte(txq)>> ELSE @],
                               txq', inq')
          /\ log' = IF gets THEN [log EXCEPT !.accepted = Append(@, uart.rbr[1])] ELSE log
    /\ UNCHANGED <<kbd, con, vga, power, quota>>

invariant_keymap == << [first |-> 1, chars |-> <<27>>], [first |-> 14, chars |-> <<8>>],
    [first |-> 15, chars |-> <<9, 81, 87, 69, 82, 84, 89, 85, 73, 79, 80>>],
    [first |-> 28, chars |-> <<13>>],
    [first |-> 30, chars |-> <<65, 83, 68, 70, 71, 72, 74, 75, 76>>],
    [first |-> 44, chars |-> <<90, 88, 67, 86, 66, 78, 77>>],
    [first |-> 55, chars |-> <<42>>], [first |-> 57, chars |-> <<32>>],
    [first |-> 83, chars |-> <<127>>] >>
unshifted_keymap == << [first |-> 2, chars |-> <<49, 50, 51, 52, 53, 54, 55, 56, 57, 48, 45, 61>>],
    [first |-> 26, chars |-> <<91, 93>>], [first |-> 39, chars |-> <<59, 39, 96>>],
    [first |-> 43, chars |-> <<92>>], [first |-> 51, chars |-> <<44, 46, 47>>] >>
shifted_keymap == << [first |-> 2, chars |-> <<33, 64, 35, 36, 37, 94, 38, 42, 40, 41, 95, 43>>],
    [first |-> 26, chars |-> <<123, 125>>], [first |-> 39, chars |-> <<58, 34, 126>>],
    [first |-> 43, chars |-> <<124>>], [first |-> 51, chars |-> <<60, 62, 63>>] >>

map_key(k, code) == {k[i].chars[code - k[i].first + 1] :
                       i \in {j \in DOMAIN k : code - k[j].first \in 0 .. Len(k[j].chars) - 1}}

Prefix == 57344                                  \* 0xe0 << 8
CapsLock == 58
ShiftKeys == [left_shift |-> 42, right_shift |-> 54, left_alt |-> 56,
              right_alt |-> Prefix + 56, left_ctrl |-> 29, right_ctrl |-> Prefix + 29]
Shift == kbd.left_shift \/ kbd.right_shift
Alt   == kbd.left_alt \/ kbd.right_alt
Ctrl  == kbd.left_ctrl \/ kbd.right_ctrl

\* The characters a key stands for (one or none), before modifiers.
Plain(code) == LET m == map_key(invariant_keymap, code)
               IN IF m # {} THEN m
                  ELSE map_key(IF Shift THEN shifted_keymap ELSE unshifted_keymap, code)

tolower(c) == IF c \in 65 .. 90 THEN c + 32 ELSE c
Modified(c) == (IF Ctrl /\ c \in 64 .. 95 THEN c - 64
                ELSE IF Shift = kbd.caps_lock THEN tolower(c) ELSE c)
               + (IF Alt THEN 128 ELSE 0)

\* log.held are the keys that are physically down.
keyboard_interrupt(code, release) ==
    /\ On /\ Uses("keys")
    /\ (code \in log.held) = release
    /\ LET held == IF release THEN log.held \ {code} ELSE log.held \cup {code}
           rest == UNCHANGED <<txq, vga>>
       IN \/ /\ code = CapsLock
             /\ kbd' = IF release THEN kbd ELSE [kbd EXCEPT !.caps_lock = ~@]
             /\ log' = [log EXCEPT !.held = held]
             /\ rest /\ UNCHANGED <<inq, uart, task, power>>
          \/ /\ code # CapsLock /\ Plain(code) # {}
             /\ \E c \in Plain(code) :
                  IF ~release /\ c = 127 /\ Ctrl /\ Alt
                  THEN /\ power' = "reset" /\ PutNow(None, "r")     \* shutdown_reboot
                       /\ UNCHANGED <<inq, kbd>>
                  ELSE LET puts == ~release /\ ~intq_full(inq)
                           got  == InputPut(inq, task, Modified(c))
                       IN /\ inq' = IF puts THEN got.in ELSE inq
                          /\ task' = IF puts THEN got.task ELSE task
                          /\ uart' = IF puts THEN serial_notify(uart, txq, inq') ELSE uart
                          /\ kbd' = IF puts THEN [kbd EXCEPT !.key_cnt = @ + 1] ELSE kbd
                          /\ log' = [log EXCEPT !.held = held,
                                       !.accepted = IF puts THEN Append(@, Modified(c)) ELSE @]
                          /\ rest /\ UNCHANGED power
          \/ /\ code # CapsLock /\ Plain(code) = {}
             /\ kbd' = [k \in DOMAIN kbd |->
                          IF k \in DOMAIN ShiftKeys /\ ShiftKeys[k] = code THEN ~release ELSE kbd[k]]
             /\ log' = [log EXCEPT !.held = held]
             /\ rest /\ UNCHANGED <<inq, uart, task, power>>
    /\ UNCHANGED con

\* intr_handler finds no handler: unexpected_interrupt prints at powers of two.
unexpected_interrupt ==
    /\ On /\ Uses("unexpected")
    /\ con' = [con EXCEPT !.unexpected = @ + 1]
    /\ IF con'.unexpected \in {1, 2, 4, 8} THEN PutNow(None, "u")
       ELSE UNCHANGED <<txq, uart, vga, task, log>>
    /\ UNCHANGED <<inq, kbd, power>>

-----------------------------------------------------------------------------
(* Up and down *)

\* main: console_init, kbd_init, input_init, thread_start; the kernel has
\* printed before, through the polled port and without the lock.
Boot ==
    /\ power = "boot"
    /\ \/ /\ Uses("early") /\ PutNow(None, "b")
          /\ UNCHANGED <<inq, kbd, con, power>>
       \/ /\ power' = "on" /\ con' = [con EXCEPT !.use = TRUE]
          /\ UNCHANGED <<txq, inq, uart, kbd, vga, task, log, quota>>

\* debug_panic prints without the lock.
PanicPrint ==
    /\ power = "panic" /\ Uses("early") /\ PutNow(None, "p")
    /\ UNCHANGED <<inq, kbd, con, power>>

\* serial_flush, from shutdown_power_off or a panic; only the first byte taken
\* finds a waiter to wake.
serial_flush ==
    /\ \/ power = "on" /\ Uses("offs") /\ power' = "flushed"
       \/ power = "panic" /\ power' = "off" /\ UNCHANGED quota
    /\ IF intq_empty(txq) THEN UNCHANGED <<txq, task, uart>>
       ELSE /\ txq' = [txq EXCEPT !.tail = txq.head, !.not_full = None]
            /\ task' = Wake(task, txq.not_full)
            /\ LET all == uart.thr \o Contents(txq)
               IN uart' = [uart EXCEPT !.out = @ \o Front(all), !.thr = <<Last(all)>>]
    /\ log' = [log EXCEPT !.flushed = Len(log.written)]
    /\ UNCHANGED <<inq, kbd, con, vga>>

PowerOff == /\ power = "flushed" /\ power' = "off"
            /\ UNCHANGED <<txq, inq, uart, kbd, con, vga, task, log, quota>>

-----------------------------------------------------------------------------
(* The serial hardware (external) *)

UartSends == /\ power # "boot" /\ uart.thr # <<>>
             /\ uart' = [uart EXCEPT !.out = @ \o uart.thr, !.thr = <<>>]
             /\ UNCHANGED <<txq, inq, kbd, con, vga, task, power, log, quota>>

UartReceives == /\ On /\ uart.rbr = <<>> /\ Uses("bytes")
                /\ \E b \in SerialBytes : uart' = [uart EXCEPT !.rbr = <<b>>]
                /\ UNCHANGED <<txq, inq, kbd, con, vga, task, power, log>>

-----------------------------------------------------------------------------
Init ==
    /\ txq = intq_init /\ inq = intq_init
    /\ uart = [mode |-> "uninit", ier |-> {}, thr |-> <<>>, rbr |-> <<>>, out |-> <<>>]
    /\ kbd = [left_shift |-> FALSE, right_shift |-> FALSE, left_alt |-> FALSE, right_alt |-> FALSE,
              left_ctrl |-> FALSE, right_ctrl |-> FALSE, caps_lock |-> FALSE, key_cnt |-> 0]
    /\ con = [lock |-> None, depth |-> 0, use |-> FALSE, from |-> 0, unexpected |-> 0]
    /\ vga = [cx |-> 0, cy |-> 0]
    /\ task = [t \in Writers \cup Readers |-> [pc |-> "idle", text |-> <<>>]]
    /\ power = "boot"
    /\ log = [written |-> <<>>, accepted |-> <<>>, read |-> <<>>, held |-> {}, flushed |-> 0]
    /\ quota \in Scenes

Thread(t) == \/ \E text \in quota.texts : acquire_console(t, text)
             \/ putchar_have_lock(t) \/ release_console(t)
             \/ Woken(t) \/ input_getc(t) \/ Acquired(t)

Devices == \/ serial_interrupt \/ unexpected_interrupt
           \/ \E code \in quota.codes, release \in BOOLEAN : keyboard_interrupt(code, release)
           \/ UartSends \/ UartReceives

Next == \/ \E t \in Writers \cup Readers : Thread(t)
        \/ Devices
        \/ Boot \/ serial_init_queue \/ PanicPrint \/ serial_flush \/ PowerOff

\* Threads are scheduled, the serial line moves and pending interrupts arrive.
Fairness == /\ \A t \in Writers \cup Readers :
                 WF_consoleVars(putchar_have_lock(t) \/ release_console(t) \/ Woken(t)
                                \/ (task[t].pc = "loop" /\ input_getc(t)))
            /\ WF_consoleVars(serial_interrupt) /\ WF_consoleVars(UartSends)

Spec == Init /\ [][Next]_consoleVars /\ Fairness

-----------------------------------------------------------------------------
(* Properties *)

Chars(written) == [i \in DOMAIN written |-> written[i].c]

\* Every byte written leaves over the serial port once and in order, whether
\* by interrupt, by polling from a handler that finds the queue full, or by the
\* flush at power-off; and input reaches the readers as it was accepted.
BytesInOrder ==
    /\ uart.out \o uart.thr \o Contents(txq) = Chars(log.written)
    /\ log.read \o Contents(inq) = log.accepted
    /\ power \in {"flushed", "off"} => Len(uart.out \o uart.thr) >= log.flushed

\* The text a thread prints under the console lock is not mixed with another
\* thread's, nested calls of the same thread included.
PrintsUnmixed ==
    /\ \A t \in Writers : task[t].text # <<>> <=> con.lock = t
    /\ con.lock # None =>
         /\ Len(task[con.lock].text) = con.depth + 1
         /\ \A i \in con.from + 1 .. Len(log.written) : log.written[i].by \in {con.lock, None}

\* Whenever an interrupt may be taken, the interrupt enable register says what
\* the queues say: else a queue with bytes is never drained or a full one is
\* interrupted for ever.  A sleeper waits for a condition that does not hold.
InterruptsArmed ==
    /\ uart.mode = "queue" /\ power = "on" =>
         /\ ("xmit" \in uart.ier) = ~intq_empty(txq)
         /\ ("recv" \in uart.ier) = ~intq_full(inq)
    /\ \A t \in Writers : task[t].pc = "sleep" => txq.not_full = t /\ intq_full(txq)
    /\ \A t \in Readers : task[t].pc = "sleep" => inq.not_empty = t /\ intq_empty(inq)

\* The modifier flags are those of the keys held down, and the cursor is on
\* the screen, so that vga_putc stores inside the frame buffer.
KeysAndCursor ==
    /\ power # "reset" => \A k \in DOMAIN ShiftKeys : kbd[k] = (ShiftKeys[k] \in log.held)
    /\ vga.cx \in 0 .. Cols - 1 /\ vga.cy \in 0 .. Rows - 1

\* wait's assertion holds: nobody goes to sleep on a queue whose condition is
\* met.  A second reader that had to wait for the queue's lock breaks it.
NoAssertFails == power # "panic"

\* What was written reaches the line, unless the machine stops.
OutputDrains ==
    (Contents(txq) # <<>>) ~> (txq.head = txq.tail \/ power \notin {"boot", "on"})

=============================================================================

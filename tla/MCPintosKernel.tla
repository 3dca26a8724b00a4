---------------------------- MODULE MCPintosKernel ---------------------------
(***************************************************************************)
(* The parts of the Pintos kernel around threads and files, for model      *)
(* checking: the page allocator (PintosPalloc), processes (PintosProcess), *)
(* the console with its devices (PintosConsole), disks and partitions      *)
(* (PintosDisk), address spaces and the heap (PintosMemory), the data      *)
(* structures of lib/kernel (PintosLib) and the 4.4BSD scheduler's         *)
(* arithmetic (PintosMlfqs).  They share no state; part says which one     *)
(* runs.  The first three rest as they were made, the others have no state *)
(* while they rest.                                                        *)
(***************************************************************************)
EXTENDS PintosPalloc, TLC

CONSTANTS pm, pa, pb, s0, s1, w1, w2, r1, r2, u1, u2, c1, c2, j1, j2, None
VARIABLES part,
          parent, ppc, child, cp, exec_sema, result, exited_with, raced, reaped, dangling, panicked,
          txq, inq, uart, kbd, con, vga, task, power, log, quota,
          machine, store, blocks, probe, channel, ata, user, limit,
          free, cr3, cur, main, proc, dir, tab, desc, arena, client, lost, scene,
          h, table, hashfn, words, ideal, work,
          sched, jobs, mlfqsQuota
-----------------------------------------------------------------------------
Process == INSTANCE PintosProcess WITH
    pc <- ppc, Process <- {pm, pa, pb}, Main <- pm, Status <- {s0, s1},
    Passes <- pa :> {s0} @@ pb :> {s1} @@ pm :> {s0}, ERROR <- "ERROR", Garbage <- "Garbage", NULL <- None

(* Printing and nested printing; a full queue at a panic; a reader before  *)
(* the keyboard and the line; all kinds of keys.                           *)
Uses(prints, nested, reads, keys, bytes, unexpected, early, offs, texts, codes) ==
    [prints |-> prints, nested |-> nested, reads |-> reads, keys |-> keys, bytes |-> bytes,
     unexpected |-> unexpected, early |-> early, offs |-> offs, texts |-> texts, codes |-> codes]
ConsoleScenes ==
    {Uses(2, 1, 0, 0, 0, 0, 0, 0, {<<"x", "NL">>}, {}),
     Uses(1, 0, 0, 0, 0, 1, 0, 1, {<<"TAB", "BS", "x">>}, {}),
     Uses(0, 0, 0, 0, 0, 3, 1, 1, {}, {}),
     Uses(1, 0, 0, 0, 0, 0, 0, 1, {<<"FF", "CR", "x">>}, {}),
     Uses(0, 0, 3, 2, 1, 0, 1, 0, {<<"x">>}, {30, 2}),
     Uses(0, 0, 0, 4, 0, 0, 0, 0, {}, {30, 2, 42, 56, 57373, 58, 83})}
Console == INSTANCE PintosConsole WITH
    Writers <- {w1, w2}, Readers <- {r1, r2}, SerialBytes <- {7}, BufSize <- 3, Cols <- 3, Rows <- 2,
    TabStop <- 2, Scenes <- ConsoleScenes

(* Disks that answer the probe in different ways, partition tables with    *)
(* entries of all kinds, two users of one channel.                         *)
Signature(error, drdy, bsy, lba, answers, capacity) ==
    [error |-> error, drdy |-> drdy, bsy |-> bsy, lba |-> lba, answers |-> answers, capacity |-> capacity]
Drive(capacity) == Signature(1, TRUE, FALSE, <<0, 0>>, TRUE, capacity)
Absent == Signature(0, FALSE, FALSE, <<0, 0>>, TRUE, 1)
Entry(type, offset, size) == [type |-> type, offset |-> offset, size |-> size]
Entries == {Entry(33, 1, 1), Entry(35, 2, 1), Entry(131, 1, 2), Entry(5, 1, 2), Entry(15, 2, 1),
            Entry(32, 3, 3), Entry(33, 2, 15), Entry(34, 0, 0), Entry(0, 1, 1)}
Upto(ops, errors, spurious) == [ops |-> ops, errors |-> errors, spurious |-> spurious]
Machine(d0, d1, tables0, tables1, limits) ==
    [devices |-> 0 :> d0 @@ 1 :> d1, tables |-> 0 :> tables0 @@ 1 :> tables1, limit |-> limits]
Machines ==
    {Machine(Drive(1), Absent, <<>>, <<>>, Upto(1, 0, 1)),
     Machine(Drive(2), Drive(1), 0 :> <<Entry(33, 1, 1)>>, <<>>, Upto(2, 1, 0))}
    \cup {Machine(d, e, <<>>, 0 :> <<Entry(33, 1, 1)>>, Upto(1, 0, 0)) :
            d \in {Drive(4), Signature(129, TRUE, FALSE, <<0, 0>>, TRUE, 4),
                   Signature(1, TRUE, FALSE, <<20, 235>>, TRUE, 4), Absent},
            e \in {Signature(129, TRUE, FALSE, <<0, 0>>, TRUE, 4),
                   Signature(1, TRUE, FALSE, <<60, 195>>, TRUE, 8), Drive(4),
                   Signature(1, TRUE, FALSE, <<0, 0>>, FALSE, 4),
                   Signature(1, TRUE, TRUE, <<0, 0>>, TRUE, 4)}}
    \cup {Machine(Drive(4), Absent, 0 :> t @@ 1 :> <<Entry(34, 1, 1)>>, <<>>, Upto(0, 0, 0)) :
            t \in UNION {[1..n -> Entries] : n \in 0..2}}
Disk == INSTANCE PintosDisk WITH Users <- {u1, u2}, SafeCapacity <- 8, Width <- 16, MaxDepth <- 3

(* Programs that load and programs that must not: segments that overlap,   *)
(* wrap around, run into the stack, start at page 0 or end after the file. *)
Segment(type, offset, vaddr, filesz, memsz, writable) ==
    [type |-> type, offset |-> offset, vaddr |-> vaddr, filesz |-> filesz, memsz |-> memsz,
     writable |-> writable]
Executable(valid, length, phdrs) == [valid |-> valid, length |-> length, phdrs |-> phdrs]
Good == Executable(TRUE, 32, <<Segment("load", 0, 8, 10, 10, FALSE), Segment("ignored", 0, 0, 0, 0, FALSE),
                               Segment("load", 2, 26, 0, 12, TRUE)>>)
Executables ==
    {Good,
     Executable(TRUE, 32, <<Segment("load", 4, 12, 4, 4, FALSE), Segment("load", 8, 8, 2, 2, TRUE)>>),
     Executable(TRUE, 32, <<Segment("load", 0, 80, 0, 16, TRUE)>>),
     Executable(TRUE, 32, <<Segment("load", 0, 88, 4, 4, TRUE)>>),
     Executable(TRUE, 32, <<Segment("load", 2, 90, 0, 60, TRUE)>>),
     Executable(TRUE, 12, <<Segment("load", 0, 40, 16, 16, TRUE)>>),
     Executable(TRUE, 12, <<Segment("load", 4, 4, 2, 2, TRUE)>>),
     Executable(TRUE, 12, <<Segment("dynamic", 0, 0, 0, 0, TRUE)>>),
     Executable(FALSE, 0, <<>>)}
Use(pages, execs, calls, programs, sizes, callocs) ==
    [pages |-> pages, execs |-> execs, calls |-> calls, programs |-> programs, sizes |-> sizes,
     callocs |-> callocs]
Memory == INSTANCE PintosMemory WITH
    KPages <- 0..7, UPages <- 10..14, Main <- pm, Procs <- {1, 2}, Clients <- {c1, c2}, PGSIZE <- 8,
    PtSize <- 4, PHYS_BASE <- 96, Width <- 128, MinBlock <- 2, ArenaSize <- 4,
    Scenes <- {Use((0..7) \cup (10..14), 2, 0, {Good}, {}, {}),
               Use((0..7) \cup (10..12), 1, 0, Executables \ {Good}, {}, {}),
               Use({0} \cup (10..14), 1, 0, {Good}, {}, {}), Use((0..7) \cup {10}, 1, 0, {Good}, {}, {}),
               Use(0..1, 0, 3, {}, {0, 3, 6}, {<<2, 1>>, <<3, 100>>}),
               Use((0..7) \cup (10..14), 1, 1, {Good}, {2, 20}, {})}

Work(kind, calls) == [kind |-> kind, calls |-> calls]
Lib == INSTANCE PintosLib WITH
    Elems <- {1, 2, 3, 4}, Keys <- <<1, 2, 2, 3>>,
    HashElems <- {<<1, 1>>, <<1, 2>>, <<2, 1>>, <<3, 1>>, <<4, 1>>},
    HashFuns <- {<<0, 1, 2, 3>>, <<0, 4, 8, 1>>, <<5, 5, 5, 5>>}, MIN_BUCKETS <- 2,
    BEST_ELEMS_PER_BUCKET <- 1, BitCnt <- 5, ElemBits <- 4,
    ArrayVals <- 1..3, ArrayCnt <- 6, LogBits <- 2, MemCnt <- 6,
    Works <- {Work("list", 5), Work("hash", 6), Work("bits", 3),
              Work("sort", 0), Work("divide", 0), Work("string", 0)}

Mlfqs == INSTANCE PintosMlfqs WITH
    Jobs <- {j1, j2}, FIX_F <- 256, FixBound <- 32768, TIMER_FREQ <- 4, TIME_SLICE <- 2, PRI_MIN <- 0,
    PRI_MAX <- 7, PRI_DEFAULT <- 3, NICE_MIN <- -2, NICE_MAX <- 3, Nices <- {-3, 4}, MaxTicks <- 24,
    MaxCalls <- 2
-----------------------------------------------------------------------------
processVars == <<parent, ppc, child, cp, exec_sema, result, exited_with, raced, reaped, dangling, panicked>>
consoleVars == <<txq, inq, uart, kbd, con, vga, task, power, log, quota>>
diskVars == <<machine, store, blocks, probe, channel, ata, user, limit>>
memoryVars == <<free, cr3, cur, main, proc, dir, tab, desc, arena, client, lost, scene>>
libVars == <<h, table, hashfn, words, ideal, work>>
mlfqsVars == <<sched, jobs, mlfqsQuota>>
allVars == <<part, vars, processVars, consoleVars, diskVars, memoryVars, libVars, mlfqsVars>>

RestConsole == Console!Init /\ quota = CHOOSE s \in ConsoleScenes : TRUE
NoDisk == /\ machine = None /\ store = None /\ blocks = None /\ probe = None
          /\ channel = None /\ ata = None /\ user = None /\ limit = None
NoMemory == /\ free = None /\ cr3 = None /\ cur = None /\ main = None /\ proc = None /\ dir = None
            /\ tab = None /\ desc = None /\ arena = None /\ client = None /\ lost = None /\ scene = None
NoLib == h = None /\ table = None /\ hashfn = None /\ words = None /\ ideal = None /\ work = None
NoMlfqs == sched = None /\ jobs = None /\ mlfqsQuota = None

PartsInit ==
    /\ Init /\ Process!Init
    /\ part \in {"pages", "process", "console", "disk", "memory", "lib", "mlfqs"}
    /\ IF part = "console" THEN Console!Init ELSE RestConsole
    /\ IF part = "disk" THEN Disk!Init ELSE NoDisk
    /\ IF part = "memory" THEN Memory!Init ELSE NoMemory
    /\ IF part = "lib" THEN Lib!Init ELSE NoLib
    /\ IF part = "mlfqs" THEN Mlfqs!Init ELSE NoMlfqs

PartsNext ==
    \/ /\ part = "pages" /\ Next
       /\ UNCHANGED <<part, processVars, consoleVars, diskVars, memoryVars, libVars, mlfqsVars>>
    \/ /\ part = "process" /\ Process!Next
       /\ UNCHANGED <<part, vars, consoleVars, diskVars, memoryVars, libVars, mlfqsVars>>
    \/ /\ part = "console" /\ Console!Next
       /\ UNCHANGED <<part, vars, processVars, diskVars, memoryVars, libVars, mlfqsVars>>
    \/ /\ part = "disk" /\ Disk!Next
       /\ UNCHANGED <<part, vars, processVars, consoleVars, memoryVars, libVars, mlfqsVars>>
    \/ /\ part = "memory" /\ Memory!Next
       /\ UNCHANGED <<part, vars, processVars, consoleVars, diskVars, libVars, mlfqsVars>>
    \/ /\ part = "lib" /\ Lib!Next
       /\ UNCHANGED <<part, vars, processVars, consoleVars, diskVars, memoryVars, mlfqsVars>>
    \/ /\ part = "mlfqs" /\ Mlfqs!Next
       /\ UNCHANGED <<part, vars, processVars, consoleVars, diskVars, memoryVars, libVars>>

(* The fairness of PintosPalloc, PintosProcess and PintosConsole. *)
Printing(t) == \/ Console!putchar_have_lock(t) \/ Console!release_console(t) \/ Console!Woken(t)
               \/ (task[t].pc = "loop" /\ Console!input_getc(t))
Parts == /\ PartsInit /\ [][PartsNext]_allVars
         /\ \A t \in Threads : /\ WF_vars(part = "pages" /\ Step(t))
                               /\ SF_vars(part = "pages" /\ Acquire(t))
         /\ \A p \in {pm, pa, pb} : WF_processVars(part = "process" /\ Process!KernelStep(p))
         /\ \A t \in {w1, w2, r1, r2} : WF_consoleVars(part = "console" /\ Printing(t))
         /\ WF_consoleVars(part = "console" /\ Console!serial_interrupt)
         /\ WF_consoleVars(part = "console" /\ Console!UartSends)
-----------------------------------------------------------------------------
(* exec knows whether its child was loaded, wait returns the status the    *)
(* child passed to exit, once for each child, and only children that       *)
(* outlive their parent use a record that is gone (PintosProcess).         *)
ProcessSound == [][/\ Process!ExecKnowsLoad' /\ Process!WaitReturnsStatus'
                   /\ Process!OnlyOrphansDangle' /\ Process!WaitsOnce]_processVars

(* Printed bytes leave over the serial line in order and lines do not mix; *)
(* partitions lie inside their disks and a transfer moves the sector it    *)
(* was asked to (PintosConsole, PintosDisk).                               *)
DevicesSound ==
    /\ part = "console" => /\ Console!BytesInOrder /\ Console!PrintsUnmixed
                           /\ Console!InterruptsArmed /\ Console!KeysAndCursor
    /\ part = "disk" => Disk!PartitionsInside /\ Disk!TransfersExact /\ Disk!ChannelQuiet

(* Every page has one owner, cr3 holds a live directory, a process sees    *)
(* what its executable says, and heap blocks are used by one caller at a   *)
(* time (PintosPalloc, PintosMemory).                                      *)
MemorySound ==
    /\ PagesExclusive /\ BitmapExact
    /\ part = "memory" => /\ Memory!PagesOwned /\ Memory!DirectoryLive
                          /\ Memory!LoadedExactly /\ Memory!HeapExact

(* Lists, hash tables and bitmaps hold what their callers have put there;  *)
(* sorting, searching, dividing, moving bytes and cutting up strings are   *)
(* exact for all inputs of the bounds                                      *)
(* (PintosLib).                                                            *)
LibraryExact ==
    part = "lib" => /\ Lib!ListsExact /\ Lib!TableExact /\ Lib!BitmapHolds
                    /\ work.kind = "sort" => Lib!SortExact
                    /\ work.kind = "divide" => Lib!DivisionExact
                    /\ work.kind = "string" => Lib!StringsExact

(* The scheduler's averages stay in range and its priorities follow them   *)
(* (PintosMlfqs).                                                          *)
MlfqsSound == part = "mlfqs" => Mlfqs!MlfqsBounded /\ Mlfqs!PriorityFresh

(* A wait for a child that exits ends, bytes in the serial queue are sent  *)
(* and every call of the page allocator returns.                           *)
KernelLive == Process!WaitEnds /\ Console!OutputDrains /\ CallsReturn
=============================================================================

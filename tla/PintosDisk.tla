------------------------------ MODULE PintosDisk ------------------------------
(* Pintos disks: detection and the PIO protocol of an ATA channel             *)
(* (devices/ide.c), the scan of partition tables (devices/partition.c) and    *)
(* the block layer over both (devices/block.c).                               *)
(*                                                                            *)
(* One thread probes at boot; the threads that then call block_read and       *)
(* block_write share one channel with two disks.  A partition table is a      *)
(* sequence of entries, a sector's other content is a model value; sector     *)
(* numbers wrap at Width (2^32 in the code).                                  *)
EXTENDS Integers, Sequences, FiniteSets, SequencesExt

CONSTANTS Users,             \* threads that use the disks
          Machines,          \* what is attached (signatures, capacities, tables), and the
                             \* bounds: operations, failing commands, spurious interrupts
          SafeCapacity,      \* identify_ata_device ignores disks from here on (1 GB)
          Width,             \* 2^32
          MaxDepth,          \* nested tables the kernel stack holds
          None

VARIABLES machine,           \* the hardware (never changes, except for sectors)
          store,             \* store[dev]: sector -> content
          blocks,            \* all_blocks, in probe order
          probe,             \* the boot thread: device being probed, stack of tables
          channel,           \* struct channel: lock, expecting_interrupt, completion_wait
          ata,               \* the selected device's registers (external)
          user,              \* the threads
          limit              \* what may still happen

diskVars == <<machine, store, blocks, probe, channel, ata, user, limit>>

-----------------------------------------------------------------------------
(* Detection *)

\* check_device_type on what reset left in the registers.
Present(s, dev) == /\ s.error = 1 \/ (s.error = 129 /\ dev = 0)
                   /\ s.drdy /\ ~s.bsy
is_ata(s, dev) == Present(s, dev) /\ s.lba \in {<<0, 0>>, <<60, 195>>}
SlavePossible(s, dev) == Present(s, dev) \/ s.error # 129

Block(dev, nr, type, start, size) ==
    [dev |-> dev, nr |-> nr, type |-> type, start |-> start, size |-> size,
     read_cnt |-> 0, write_cnt |-> 0]

\* ide_init for one device: check_device_type, identify_ata_device and
\* block_register; a disk that stays busy or is too large is left alone.
identify_ata_device ==
    /\ probe.at = "device"
    /\ LET dev == probe.dev
           s   == machine.devices[dev]
           ok  == /\ is_ata(s, dev) /\ s.answers /\ s.capacity < SafeCapacity
                  /\ dev = 1 => SlavePossible(machine.devices[0], 0)
       IN /\ blocks' = IF ok THEN Append(blocks, Block(dev, 0, "raw", 0, s.capacity)) ELSE blocks
          /\ probe' = [probe EXCEPT !.at = IF ok THEN "table" ELSE "next",
                                    !.stack = IF ok THEN <<[sector |-> 0, primary |-> 0, table |-> <<>>]>> ELSE <<>>,
                                    !.part_nr = 0]
    /\ UNCHANGED <<machine, store, channel, ata, user, limit>>

NextDevice ==
    /\ probe.at = "next"
    /\ probe' = IF probe.dev = 0 THEN [probe EXCEPT !.at = "device", !.dev = 1]
                ELSE [probe EXCEPT !.at = "done"]
    /\ UNCHANGED <<machine, store, blocks, channel, ata, user, limit>>

-----------------------------------------------------------------------------
(* Partition tables *)

Capacity == machine.devices[probe.dev].capacity
Frame == probe.stack[1]
Extended == {5, 15, 133, 197}
TypeOf(part_type) ==
    CASE part_type = 32 -> "kernel" [] part_type = 33 -> "filesys"
      [] part_type = 34 -> "scratch" [] part_type = 35 -> "swap" [] OTHER -> "foreign"

\* found_partition, in unsigned arithmetic.
Fits(start, size) == /\ start < Capacity
                     /\ (start + size) % Width >= start
                     /\ (start + size) % Width <= Capacity

Table(sector) == IF sector \in DOMAIN machine.tables[probe.dev]
                 THEN machine.tables[probe.dev][sector] ELSE <<>>

Pop(stack) == [probe EXCEPT !.stack = Tail(stack),
                            !.at = IF Len(stack) = 1 THEN "next" ELSE "entry"]

\* The first half of read_partition_table: it reads sector 0 whatever the
\* sector asked for.  A sector without the signature counts as an empty table.
ReadTable ==
    /\ probe.at = "table"
    /\ probe' = IF Len(probe.stack) > MaxDepth THEN [probe EXCEPT !.at = "overflow"]
                ELSE IF Frame.sector >= Capacity THEN Pop(probe.stack)
                ELSE [probe EXCEPT !.at = "entry", !.stack[1].table = Table(0)]
    /\ UNCHANGED <<machine, store, blocks, channel, ata, user, limit>>

\* The loop of read_partition_table, one entry at a time.
ReadEntry ==
    /\ probe.at = "entry"
    /\ IF Frame.table = <<>> THEN probe' = Pop(probe.stack) /\ UNCHANGED blocks
       ELSE LET e    == Frame.table[1]
                rest == [probe EXCEPT !.stack[1].table = Tail(@)]
            IN \/ /\ e.size = 0 \/ e.type = 0
                  /\ probe' = rest /\ UNCHANGED blocks
               \/ /\ e.size # 0 /\ e.type \in Extended
                  /\ LET base == IF Frame.sector = 0 THEN e.offset ELSE Frame.primary
                         at   == IF Frame.sector = 0 THEN e.offset ELSE (e.offset + base) % Width
                     IN probe' = [rest EXCEPT !.at = "table",
                                    !.stack = <<[sector |-> at, primary |-> base, table |-> <<>>]>> \o @]
                  /\ UNCHANGED blocks
               \/ /\ e.size # 0 /\ e.type \notin Extended \cup {0}
                  /\ LET start == (e.offset + Frame.sector) % Width
                         nr    == probe.part_nr + 1
                     IN /\ probe' = [rest EXCEPT !.part_nr = nr]
                        /\ blocks' = IF Fits(start, e.size)
                                     THEN Append(blocks, Block(probe.dev, nr, TypeOf(e.type), start, e.size))
                                     ELSE blocks
    /\ UNCHANGED <<machine, store, channel, ata, user, limit>>

-----------------------------------------------------------------------------
(* block_read and block_write, through a partition to the channel *)

Booted == probe.at = "done" /\ ~channel.panic
Goto(u, pc) == user' = [user EXCEPT ![u].pc = pc]
Raw(dev) == CHOOSE i \in DOMAIN blocks : blocks[i].dev = dev /\ blocks[i].nr = 0
Uses(key) == limit[key] > 0 /\ limit' = [limit EXCEPT ![key] = @ - 1]
Panic == channel' = [channel EXCEPT !.panic = TRUE]

\* check_sector and the assertion of block_write, in the partition and then in
\* the disk under it; a sector out of range or a foreign partition panics.
Call(u, op, b, sector) ==
    /\ Booted /\ user[u].pc = "idle" /\ Uses("ops")
    /\ LET at == (blocks[b].start + sector) % Width
       IN IF \/ sector >= blocks[b].size
             \/ op = "write" /\ blocks[b].type = "foreign"
             \/ at >= blocks[Raw(blocks[b].dev)].size
          THEN Panic /\ UNCHANGED user
          ELSE /\ user' = [user EXCEPT ![u] = [pc |-> "lock", op |-> op, block |-> b,
                                               dev |-> blocks[b].dev, sector |-> at, got |-> None]]
               /\ UNCHANGED channel
    /\ UNCHANGED <<machine, store, blocks, probe, ata>>

\* lock_acquire (&c->lock)
Lock(u) == /\ Booted /\ user[u].pc = "lock" /\ channel.lock = None
           /\ channel' = [channel EXCEPT !.lock = u] /\ Goto(u, "select")
           /\ UNCHANGED <<machine, store, blocks, probe, ata, limit>>

\* select_sector: select_device_wait until the channel is idle (reading the
\* status clears a pending interrupt), then the sector registers.
Select(u) == /\ Booted /\ user[u].pc = "select" /\ ~ata.bsy /\ ~ata.drq
             /\ ata' = [ata EXCEPT !.intrq = FALSE, !.dev = user[u].dev, !.sector = user[u].sector]
             /\ Goto(u, "issue")
             /\ UNCHANGED <<machine, store, blocks, probe, channel, limit>>

issue_pio_command(u) ==
    /\ Booted /\ user[u].pc = "issue"
    /\ channel' = [channel EXCEPT !.expecting_interrupt = TRUE]
    /\ ata' = [ata EXCEPT !.bsy = TRUE, !.command = user[u].op]
    /\ Goto(u, IF user[u].op = "read" THEN "down" ELSE "busy")
    /\ UNCHANGED <<machine, store, blocks, probe, limit>>

\* sema_down (&c->completion_wait)
Down(u) == /\ Booted /\ user[u].pc = "down" /\ channel.completion_wait > 0
           /\ channel' = [channel EXCEPT !.completion_wait = @ - 1]
           /\ Goto(u, IF user[u].op = "read" THEN "busy" ELSE "unlock")
           /\ UNCHANGED <<machine, store, blocks, probe, ata, limit>>

\* wait_while_busy and the transfer; without DRQ the kernel panics.
Transfer(u) ==
    /\ Booted /\ user[u].pc = "busy" /\ ~ata.bsy
    /\ IF ~ata.drq THEN Panic /\ UNCHANGED <<ata, user>>
       ELSE /\ IF user[u].op = "read"
               THEN /\ ata' = [ata EXCEPT !.drq = FALSE]
                    /\ user' = [user EXCEPT ![u].pc = "unlock", ![u].got = ata.data]
               ELSE /\ ata' = [ata EXCEPT !.drq = FALSE, !.bsy = TRUE, !.data = u]
                    /\ Goto(u, "down")
            /\ UNCHANGED channel
    /\ UNCHANGED <<machine, store, blocks, probe, limit>>

\* lock_release and, back in the block layer, the counters.
Unlock(u) ==
    /\ Booted /\ user[u].pc = "unlock"
    /\ channel' = [channel EXCEPT !.lock = None]
    /\ Goto(u, "idle")
    /\ blocks' = [i \in DOMAIN blocks |->
                    IF i \notin {user[u].block, Raw(user[u].dev)} THEN blocks[i]
                    ELSE IF user[u].op = "read" THEN [blocks[i] EXCEPT !.read_cnt = @ + 1]
                    ELSE [blocks[i] EXCEPT !.write_cnt = @ + 1]]
    /\ UNCHANGED <<machine, store, probe, ata, limit>>

\* interrupt_handler: it acknowledges and wakes whenever a command was ever
\* issued, for expecting_interrupt is never cleared.
interrupt_handler ==
    /\ Booted /\ ata.irq /\ ata' = [ata EXCEPT !.irq = FALSE, !.intrq = FALSE]
    /\ channel' = IF channel.expecting_interrupt
                  THEN [channel EXCEPT !.completion_wait = @ + 1] ELSE channel
    /\ UNCHANGED <<machine, store, blocks, probe, user, limit>>

-----------------------------------------------------------------------------
(* The disk (external): it answers a read with data and an interrupt, a write
   with a request for data and, once it has the data, with an interrupt. *)

Answer(data, drq, intrq) == ata' = [ata EXCEPT !.bsy = FALSE, !.drq = drq, !.intrq = intrq,
                                               !.irq = @ \/ intrq, !.data = data,
                                               !.command = IF ata.command = "write" /\ drq THEN "data" ELSE None]

DeviceAnswers ==
    /\ Booted /\ ata.bsy /\ ata.command # None
    /\ \/ /\ ata.command = "read" /\ Answer(store[ata.dev][ata.sector], TRUE, TRUE)
          /\ UNCHANGED <<store, limit>>
       \/ /\ ata.command = "write" /\ Answer(None, TRUE, FALSE) /\ UNCHANGED <<store, limit>>
       \/ /\ ata.command = "data" /\ Answer(None, FALSE, TRUE)
          /\ store' = [store EXCEPT ![ata.dev][ata.sector] = ata.data] /\ UNCHANGED limit
       \/ /\ ata.command \in {"read", "write"} /\ Uses("errors")
          /\ Answer(None, FALSE, TRUE) /\ UNCHANGED store
    /\ UNCHANGED <<machine, blocks, probe, channel, user>>

SpuriousInterrupt == /\ Booted /\ ~ata.irq /\ Uses("spurious")
                     /\ ata' = [ata EXCEPT !.irq = TRUE]
                     /\ UNCHANGED <<machine, store, blocks, probe, channel, user>>

-----------------------------------------------------------------------------
Init ==
    /\ machine \in Machines
    /\ store = [d \in {0, 1} |-> [s \in 0 .. machine.devices[d].capacity - 1 |-> None]]
    /\ blocks = <<>>
    /\ probe = [at |-> "device", dev |-> 0, stack |-> <<>>, part_nr |-> 0]
    /\ channel = [lock |-> None, expecting_interrupt |-> FALSE, completion_wait |-> 0, panic |-> FALSE]
    /\ ata = [bsy |-> FALSE, drq |-> FALSE, intrq |-> FALSE, irq |-> FALSE,
              dev |-> 0, sector |-> 0, command |-> None, data |-> None]
    /\ user = [u \in Users |-> [pc |-> "idle", op |-> "read", block |-> 0, dev |-> 0,
                                sector |-> 0, got |-> None]]
    /\ limit = machine.limit

User(u) == Lock(u) \/ Select(u) \/ issue_pio_command(u) \/ Down(u) \/ Transfer(u) \/ Unlock(u)

Probe == identify_ata_device \/ NextDevice \/ ReadTable \/ ReadEntry

Next == \/ Probe
        \/ \E u \in Users : \/ User(u)
                            \/ \E op \in {"read", "write"}, b \in DOMAIN blocks :
                                 \E sector \in 0 .. blocks[b].size : Call(u, op, b, sector)
        \/ interrupt_handler \/ DeviceAnswers \/ SpuriousInterrupt

Spec == Init /\ [][Next]_diskVars

-----------------------------------------------------------------------------
(* Properties *)

\* A block device lies inside its disk, for every partition table, and device
\* names (disk and partition number) are distinct, so that a role or a name
\* stands for one device; probing never registers an oversized disk.
PartitionsInside ==
    \A i \in DOMAIN blocks :
      /\ blocks[i].start + blocks[i].size <= machine.devices[blocks[i].dev].capacity
      /\ machine.devices[blocks[i].dev].capacity < SafeCapacity
      /\ \A j \in DOMAIN blocks : blocks[i].dev = blocks[j].dev /\ blocks[i].nr = blocks[j].nr => i = j

\* No interrupt has come that no command asked for.
NoneSpurious == limit.spurious = machine.limit.spurious

Busy == {u \in Users : user[u].pc \notin {"idle", "lock"}}

\* ide_read returns the content of the sector asked for on the disk asked for,
\* and ide_write returns after its data is in that sector, however the threads
\* interleave on the channel, as long as no spurious interrupt arrives.
TransfersExact ==
    NoneSpurious => \A u \in Users : user[u].pc = "unlock" =>
      IF user[u].op = "read" THEN user[u].got = store[user[u].dev][user[u].sector]
      ELSE store[user[u].dev][user[u].sector] = u

\* Between two operations the channel is quiet: nobody inside, no completion
\* left over in the semaphore and no interrupt on its way.
ChannelQuiet ==
    /\ Cardinality(Busy) <= 1
    /\ Busy = {} /\ ~channel.panic /\ NoneSpurious =>
         channel.completion_wait = 0 /\ ~ata.irq /\ ~ata.bsy /\ ~ata.drq

\* "Returns after the disk has acknowledged receiving the data." -- whatever
\* interrupts arrive.
WritesAcknowledged ==
    \A u \in Users : user[u].pc = "unlock" /\ user[u].op = "write" =>
      store[user[u].dev][user[u].sector] = u

\* "Reads the partition table in the given SECTOR of BLOCK"
TableOfSector ==
    probe.stack # <<>> /\ probe.at = "entry" => IsSuffix(Frame.table, Table(Frame.sector))

=============================================================================

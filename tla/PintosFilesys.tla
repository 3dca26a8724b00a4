--------------------------- MODULE PintosFilesys ---------------------------
(***************************************************************************)
(* The file system of pintos (filesys/inode.c, free-map.c, directory.c,    *)
(* file.c, filesys.c) under the system calls on files, and under the start *)
(* and the end of processes, which use it without filesys_lock.            *)
(*                                                                         *)
(* A process loses the processor at disk accesses and on the timer:        *)
(* todo[p] is what is left of the operation p is in, one frame per call.   *)
(* The machine may be turned off at any time (halt takes no lock) and      *)
(* comes up with what is on the disk: disk, disk_map and entries.          *)
(***************************************************************************)
EXTENDS Integers, Sequences, FiniteSets, SequencesExt

CONSTANTS
  Process, Name,
  Sectors,      \* size of the disk; 0 and 1 hold the free map and the root directory
  DirSlots,     \* entries the root directory has room for
  MaxLength,    \* bound on the length of a file, in sectors
  MaxFiles,     \* bound on the open files of a process
  MaxFailures,  \* bound on how often memory runs out
  Quiet,        \* no operation starts before the last one is done
  NULL

ASSUME FilesysAssumption ==
  /\ Sectors \in Nat /\ Sectors > 3 /\ NULL \notin Process
  /\ {DirSlots, MaxLength, MaxFiles} \subseteq Nat \ {0}
  /\ MaxFailures \in Nat /\ Quiet \in BOOLEAN

VARIABLES
  disk, disk_map, entries,    \* on disk: sectors, the free map, the root directory
  free_map,                   \* sectors marked in memory
  inode, open_inodes,         \* struct inode by address, and the open ones
  files,                      \* the file_list of each process
  filesys_lock,
  todo, loc,                  \* of each process: its operation, and what it knows
  running,
  memory,                     \* how often it may still run out
  lost,                       \* history: sectors given up for good
  failed                      \* why the kernel has stopped, if it has

diskVars == <<disk, disk_map, entries, lost>>
procVars == <<files, filesys_lock, running, failed>>
vars == <<diskVars, memory, free_map, inode, open_inodes, procVars, todo, loc>>

ROOT_DIR_SECTOR == 1
BITMAP_ERROR == -1
Sector == 0..(Sectors - 1)
(* Addresses of inodes: for each sector one, and one more if that is in use. *)
Address == 1..(2 * Sectors - 1)
Extent(s, n) == s..(s + n - 1)
Inode_disk(s, n) == [kind |-> "inode", start |-> s, length |-> n]
Data(k) == [kind |-> k, start |-> 0, length |-> 0]    \* "program", other "data" or, not read, "none"
Freed == [sector |-> NULL, open_cnt |-> 0, removed |-> FALSE, deny_write_cnt |-> 0, data |-> Data("none")]

Do(op, on, cnt) == [op |-> op, on |-> on, cnt |-> cnt]
Call(op) == Do(op, 0, 0)
Locals(n, len) == [name |-> n, length |-> len, sector |-> 0, start |-> 0, ino |-> 0, dir |-> 0]

(* A formatted disk with one file, the first program to run. *)
Init ==
  /\ \E n \in Name : entries = [m \in Name |-> IF m = n THEN 2 ELSE NULL]
  /\ disk = [s \in Sector |-> CASE s = ROOT_DIR_SECTOR -> Inode_disk(0, 0)
                                [] s = 2 -> Inode_disk(3, 1)
                                [] s = 3 -> Data("program")
                                [] OTHER -> Data("data")]
  /\ disk_map = 0..3 /\ lost = {} /\ memory = MaxFailures
  /\ free_map = 0..3
  /\ inode = [i \in Address |-> Freed] /\ open_inodes = {}
  /\ files = [p \in Process |-> <<>>] /\ filesys_lock = NULL
  /\ todo = [p \in Process |-> <<>>] /\ loc = [p \in Process |-> Locals(NULL, 0)]
  /\ running = {} /\ failed = "no"

-----------------------------------------------------------------------------
(* p makes step op of its operation, and goes on with frames. *)
Steps(p, op) == failed = "no" /\ todo[p] # <<>> /\ Head(todo[p]).op = op
Arg(p) == Head(todo[p])
Continue(p, frames) == todo' = [todo EXCEPT ![p] = frames \o Tail(@)]
Starts(p, frames) == /\ failed = "no" /\ todo[p] = <<>>
                     /\ Quiet => \A q \in Process : todo[q] = <<>>
                     /\ todo' = [todo EXCEPT ![p] = frames]

(* malloc *)
Malloc(ok) == memory' = IF ok THEN memory ELSE memory - 1
NoMemory == memory > 0 /\ Malloc(FALSE)
NoMemoryOr(c) == NoMemory \/ (c /\ Malloc(TRUE))

(* An assertion fails, memory is missing where nobody asks, or an inode is *)
(* used that is not read yet or not there any more.                        *)
Stop(how) == /\ failed' = how
             /\ UNCHANGED <<diskVars, memory, free_map, inode, open_inodes, files, filesys_lock, running, todo, loc>>
Undefined(i) == inode[i].data.kind = "none"

(* inode_open: the inode of that sector that is open already, or a new one *)
(* that is on the list before it has its sector and before it is read.     *)
Found(s) == {i \in open_inodes : inode[i].sector = s}
NewInode(s) == IF inode[s] = Freed /\ s \notin open_inodes THEN s ELSE s + Sectors

inode_open(p) ==
  LET found == Found(Arg(p).on)
  IN /\ Steps(p, "open")
     /\ \/ /\ \E i \in found : loc' = [loc EXCEPT ![p].ino = i]
           /\ inode' = [inode EXCEPT ![loc'[p].ino].open_cnt = @ + 1]
           /\ Continue(p, <<>>)
           /\ UNCHANGED <<open_inodes, memory>>
        \/ /\ found = {} /\ Malloc(TRUE)
           /\ loc' = [loc EXCEPT ![p].ino = NewInode(Arg(p).on)]
           /\ open_inodes' = open_inodes \cup {loc'[p].ino}
           /\ Continue(p, <<Do("open_init", Arg(p).on, 0), Call("open_read")>>)
           /\ UNCHANGED inode
        \/ /\ found = {} /\ NoMemory
           /\ loc' = [loc EXCEPT ![p].ino = 0]
           /\ Continue(p, <<>>)
           /\ UNCHANGED <<inode, open_inodes>>
     /\ UNCHANGED <<diskVars, free_map, procVars>>

OpenInit(p) ==
  /\ Steps(p, "open_init")
  /\ inode' = [inode EXCEPT ![loc[p].ino] = [Freed EXCEPT !.sector = Arg(p).on, !.open_cnt = 1]]
  /\ Continue(p, <<>>)
  /\ UNCHANGED <<diskVars, memory, free_map, open_inodes, procVars, loc>>

OpenRead(p) ==
  /\ Steps(p, "open_read")
  /\ IF inode[loc[p].ino].sector = NULL THEN Stop("undefined")
     ELSE /\ inode' = [inode EXCEPT ![loc[p].ino].data = disk[inode[loc[p].ino].sector]]
          /\ Continue(p, <<>>)
          /\ UNCHANGED <<diskVars, memory, free_map, open_inodes, procVars, loc>>

(* inode_close: the last one unlinks the inode and, if it is removed,      *)
(* gives back its sectors.                                                 *)
inode_close(p) ==
  LET i == Arg(p).on
  IN /\ Steps(p, "close")
     /\ IF inode[i].open_cnt = 0 THEN Stop("undefined")
        ELSE /\ inode' = [inode EXCEPT ![i].open_cnt = @ - 1]
             /\ Continue(p, IF inode[i].open_cnt = 1 THEN <<Do("unlink", i, 0)>> ELSE <<>>)
             /\ UNCHANGED <<diskVars, memory, free_map, open_inodes, procVars, loc>>

(* Mutant of CloseLast: the sectors are given back whenever it is closed.  *)
CloseLastReleases(p) ==
  LET i == Arg(p).on
      d == inode[i].data
  IN /\ Steps(p, "unlink")
     /\ open_inodes' = open_inodes \ {i}
     /\ inode' = [inode EXCEPT ![i] = Freed]
     /\ Continue(p, <<Do("release", inode[i].sector, 1), Do("release", d.start, d.length)>>)
     /\ UNCHANGED <<diskVars, memory, free_map, procVars, loc>>

CloseLast(p) ==
  LET i == Arg(p).on
      d == inode[i].data
  IN /\ Steps(p, "unlink")
     /\ open_inodes' = open_inodes \ {i}
     /\ inode' = [inode EXCEPT ![i] = Freed]
     /\ Continue(p, IF inode[i].removed
                    THEN <<Do("release", inode[i].sector, 1), Do("release", d.start, d.length)>>
                    ELSE <<>>)
     /\ UNCHANGED <<diskVars, memory, free_map, procVars, loc>>

-----------------------------------------------------------------------------
(* free_map_allocate: the first run of free sectors is marked, in memory   *)
(* and then on disk; if that cannot be written the marks are undone.       *)
bitmap_scan(cnt) == {s \in Sector : Extent(s, cnt) \subseteq Sector \ free_map}

free_map_allocate(p) ==
  LET cnt == Arg(p).cnt
      s == Min(bitmap_scan(cnt))
  IN /\ Steps(p, "allocate")
     /\ IF bitmap_scan(cnt) = {}
        THEN /\ loc' = [loc EXCEPT ![p].start = BITMAP_ERROR]
             /\ Continue(p, <<>>)
             /\ UNCHANGED free_map
        ELSE /\ loc' = [loc EXCEPT ![p].start = s]
             /\ free_map' = free_map \cup Extent(s, cnt)
             /\ Continue(p, <<Do("map_write", s, cnt)>>)
     /\ UNCHANGED <<diskVars, memory, inode, open_inodes, procVars>>

MapWrite(p) ==
  /\ Steps(p, "map_write")
  /\ \/ disk_map' = free_map /\ Malloc(TRUE) /\ UNCHANGED <<free_map, loc>>
     \/ /\ NoMemory
        /\ free_map' = free_map \ Extent(Arg(p).on, Arg(p).cnt)
        /\ loc' = [loc EXCEPT ![p].start = BITMAP_ERROR]
        /\ UNCHANGED disk_map
  /\ Continue(p, <<>>)
  /\ UNCHANGED <<disk, entries, lost, inode, open_inodes, procVars>>

(* free_map_release: a write that fails leaves the marks on disk.  What is *)
(* in a sector that belongs to no file does not count any more.            *)
Forget(area) == [s \in Sector |-> IF s \in area THEN Data("data") ELSE disk[s]]

free_map_release(p) ==
  LET area == Extent(Arg(p).on, Arg(p).cnt)
  IN /\ Steps(p, "release")
     /\ IF ~(area \subseteq free_map) THEN Stop("assert")
        ELSE /\ free_map' = free_map \ area
             /\ disk' = Forget(area)
             /\ Continue(p, <<Call("release_write")>>)
             /\ UNCHANGED <<disk_map, entries, lost, memory, inode, open_inodes, procVars, loc>>

ReleaseWrite(p) ==
  /\ Steps(p, "release_write")
  /\ \/ Malloc(TRUE) /\ disk_map' = free_map
     \/ NoMemory /\ UNCHANGED disk_map
  /\ Continue(p, <<>>)
  /\ UNCHANGED <<disk, entries, lost, free_map, inode, open_inodes, procVars, loc>>

-----------------------------------------------------------------------------
(* dir_open_root, of which dir_open may find no memory, and dir_close. *)
OpenRoot == <<Do("open", ROOT_DIR_SECTOR, 0), Call("dir")>>
dir_close(p) == IF loc[p].dir = 0 THEN <<>> ELSE <<Do("close", loc[p].dir, 0)>>

dir_open(p) ==
  /\ Steps(p, "dir")
  /\ \/ /\ loc[p].ino # 0 /\ Malloc(TRUE)
        /\ loc' = [loc EXCEPT ![p].dir = loc[p].ino]
        /\ Continue(p, <<>>)
     \/ /\ NoMemoryOr(loc[p].ino = 0)
        /\ loc' = [loc EXCEPT ![p].dir = 0]
        /\ Continue(p, IF loc[p].ino = 0 THEN <<>> ELSE <<Do("close", loc[p].ino, 0)>>)
  /\ UNCHANGED <<diskVars, free_map, inode, open_inodes, procVars>>

(* Mutant of dir_lookup: the directory stays open. *)
dir_lookupOpen(p) ==
  LET e == entries[loc[p].name]
  IN /\ Steps(p, "lookup")
     /\ IF loc[p].dir = 0 \/ e = NULL
        THEN loc' = [loc EXCEPT ![p].ino = 0] /\ Continue(p, dir_close(p))
        ELSE Continue(p, <<Do("open", e, 0)>>) /\ UNCHANGED loc
     /\ UNCHANGED <<diskVars, memory, free_map, inode, open_inodes, procVars>>

dir_lookup(p) ==
  LET e == entries[loc[p].name]
  IN /\ Steps(p, "lookup")
     /\ IF loc[p].dir # 0 /\ Undefined(loc[p].dir) THEN Stop("undefined")
        ELSE /\ IF loc[p].dir = 0 \/ e = NULL
                THEN /\ loc' = [loc EXCEPT ![p].ino = 0]
                     /\ Continue(p, dir_close(p))
                ELSE /\ Continue(p, <<Do("open", e, 0)>> \o dir_close(p))
                     /\ UNCHANGED loc
             /\ UNCHANGED <<diskVars, memory, free_map, inode, open_inodes, procVars>>

(* filesys_create: a sector for the inode, sectors for the data, a name.   *)
(* When a later step fails only the first is given back.                   *)
filesys_create(p) ==
  /\ Steps(p, "create")
  /\ Continue(p, IF loc[p].dir = 0 THEN <<>> ELSE <<Do("allocate", 0, 1), Call("inode_create")>>)
  /\ UNCHANGED <<diskVars, memory, free_map, inode, open_inodes, procVars, loc>>

CreateFails(p, s) == Continue(p, <<Do("release", s, 1)>> \o dir_close(p))

inode_create(p) ==
  LET s == loc[p].start
  IN /\ Steps(p, "inode_create")
     /\ loc' = [loc EXCEPT ![p].sector = s]
     /\ IF s = BITMAP_ERROR THEN Continue(p, dir_close(p)) /\ UNCHANGED memory
        ELSE \/ /\ Malloc(TRUE)
                /\ Continue(p, <<Do("allocate", 0, loc[p].length), Call("inode_write")>>)
             \/ NoMemory /\ CreateFails(p, s)
     /\ UNCHANGED <<diskVars, free_map, inode, open_inodes, procVars>>

InodeWrite(p) ==
  LET l == loc[p]
  IN /\ Steps(p, "inode_write")
     /\ IF l.start = BITMAP_ERROR THEN CreateFails(p, l.sector) /\ UNCHANGED disk
        ELSE /\ disk' = [s \in Sector |-> CASE s = l.sector -> Inode_disk(l.start, l.length)
                                            [] s \in Extent(l.start, l.length) -> Data("data")
                                            [] OTHER -> disk[s]]
             /\ Continue(p, <<Call("add")>>)
     /\ UNCHANGED <<disk_map, entries, lost, memory, free_map, inode, open_inodes, procVars, loc>>

(* dir_add fails if the name is in use, the directory is full, or there is *)
(* no memory for the write.                                                *)
AddAllowed(n) == /\ entries[n] = NULL
                 /\ Cardinality({m \in Name : entries[m] # NULL}) < DirSlots

dir_add(p) ==
  LET l == loc[p]
  IN /\ Steps(p, "add")
     /\ IF Undefined(l.dir) THEN Stop("undefined")
        ELSE /\ \/ /\ AddAllowed(l.name) /\ Malloc(TRUE)
                   /\ entries' = [entries EXCEPT ![l.name] = l.sector]
                   /\ Continue(p, dir_close(p))
                   /\ UNCHANGED <<disk, lost>>
                \/ /\ NoMemoryOr(~AddAllowed(l.name))
                   /\ CreateFails(p, l.sector)
                   /\ lost' = lost \cup Extent(l.start, l.length)
                   /\ disk' = Forget(Extent(l.start, l.length))
                   /\ UNCHANGED entries
             /\ UNCHANGED <<disk_map, free_map, inode, open_inodes, procVars, loc>>

(* dir_remove, up to the inode; then the entry, unless there is no memory  *)
(* for the write.                                                          *)
dir_remove(p) ==
  LET e == entries[loc[p].name]
  IN /\ Steps(p, "remove")
     /\ IF loc[p].dir # 0 /\ Undefined(loc[p].dir) THEN Stop("undefined")
        ELSE /\ Continue(p, IF loc[p].dir = 0 \/ e = NULL THEN dir_close(p)
                            ELSE <<Do("open", e, 0), Call("erase")>>)
             /\ UNCHANGED <<diskVars, memory, free_map, inode, open_inodes, procVars, loc>>

RemoveErase(p) ==
  LET i == loc[p].ino
  IN /\ Steps(p, "erase")
     /\ Continue(p, (IF i = 0 THEN <<>> ELSE <<Do("close", i, 0)>>) \o dir_close(p))
     /\ \/ /\ i # 0 /\ Malloc(TRUE)
           /\ entries' = [entries EXCEPT ![loc[p].name] = NULL]
           /\ inode' = [inode EXCEPT ![i].removed = TRUE]
        \/ /\ NoMemoryOr(i = 0)
           /\ UNCHANGED <<entries, inode>>
     /\ UNCHANGED <<disk, disk_map, lost, free_map, open_inodes, procVars, loc>>

-----------------------------------------------------------------------------
(* file_open, and process_add_file, which does not ask whether it has got  *)
(* memory.                                                                 *)
AddFile(p, i) ==
  /\ i # 0 /\ Malloc(TRUE)
  /\ files' = [files EXCEPT ![p] = Append(@, [ino |-> i, deny_write |-> FALSE])]
  /\ Continue(p, <<>>)
  /\ UNCHANGED <<diskVars, free_map, inode, open_inodes, filesys_lock, running, failed, loc>>

FileOpen(p) ==
  LET i == loc[p].ino
  IN /\ Steps(p, "file")
     /\ \/ AddFile(p, i)
        \/ i # 0 /\ memory > 0 /\ Stop("memory")
        \/ /\ NoMemoryOr(i = 0)
           /\ Continue(p, IF i = 0 THEN <<>> ELSE <<Do("close", i, 0)>>)
           /\ UNCHANGED <<diskVars, free_map, inode, open_inodes, procVars, loc>>

(* file_close of the nth file, which is taken from the list: what is left  *)
(* to do, and file_allow_write.                                            *)
CloseFile(p, n) == <<Do("close", files[p][n].ino, 0)>>

file_allow_write(p, n) ==
  /\ inode' = IF files[p][n].deny_write
              THEN [inode EXCEPT ![files[p][n].ino].deny_write_cnt = @ - 1] ELSE inode
  /\ files' = [files EXCEPT ![p] = RemoveAt(@, n)]

(* The system calls take filesys_lock, and give it back at the end. *)
Locks(p) == p \in running /\ filesys_lock = NULL /\ filesys_lock' = p

SysCreate(p, n, len) ==
  /\ Locks(p) /\ Starts(p, OpenRoot \o <<Call("create"), Call("unlock")>>)
  /\ loc' = [loc EXCEPT ![p] = Locals(n, len)]
  /\ UNCHANGED <<diskVars, memory, free_map, inode, open_inodes, files, running, failed>>

SysRemove(p, n) ==
  /\ Locks(p) /\ Starts(p, OpenRoot \o <<Call("remove"), Call("unlock")>>)
  /\ loc' = [loc EXCEPT ![p] = Locals(n, 0)]
  /\ UNCHANGED <<diskVars, memory, free_map, inode, open_inodes, files, running, failed>>

SysOpen(p, n) ==
  /\ Locks(p) /\ Len(files[p]) < MaxFiles
  /\ Starts(p, OpenRoot \o <<Call("lookup"), Call("file"), Call("unlock")>>)
  /\ loc' = [loc EXCEPT ![p] = Locals(n, 0)]
  /\ UNCHANGED <<diskVars, memory, free_map, inode, open_inodes, files, running, failed>>

SysClose(p, n) ==
  /\ Locks(p) /\ Starts(p, CloseFile(p, n) \o <<Call("unlock")>>)
  /\ file_allow_write(p, n)
  /\ UNCHANGED <<diskVars, memory, free_map, open_inodes, running, failed, loc>>

Unlock(p) == /\ Steps(p, "unlock")
             /\ filesys_lock' = NULL
             /\ Continue(p, <<>>)
             /\ loc' = [loc EXCEPT ![p] = Locals(NULL, 0)]
             /\ UNCHANGED <<diskVars, memory, free_map, inode, open_inodes, files, running, failed>>

(* write, of one sector of the file. *)
SysWrite(p, n) ==
  LET i == files[p][n].ino
      d == inode[i].data
  IN /\ failed = "no" /\ p \in running /\ todo[p] = <<>> /\ filesys_lock = NULL
     /\ Quiet => \A q \in Process : todo[q] = <<>>
     /\ IF Undefined(i) THEN Stop("undefined")
        ELSE /\ inode[i].deny_write_cnt = 0
             /\ \E s \in Extent(d.start, d.length) : disk' = [disk EXCEPT ![s] = Data("data")]
             /\ UNCHANGED <<disk_map, entries, lost, memory, free_map, inode, open_inodes, procVars, todo, loc>>

-----------------------------------------------------------------------------
(* start_process, without the lock: load opens, reads and closes the file; *)
(* then the file is opened again, and writes to it are denied.             *)
Exec(p, n) ==
  /\ p \notin running
  /\ Starts(p, OpenRoot \o <<Call("lookup"), Call("load")>>)
  /\ loc' = [loc EXCEPT ![p] = Locals(n, 0)]
  /\ UNCHANGED <<diskVars, memory, free_map, inode, open_inodes, procVars>>

Load(p) ==
  LET i == loc[p].ino
      close == <<Do("close", i, 0)>>
  IN /\ Steps(p, "load")
     /\ IF i # 0 /\ Undefined(i) THEN Stop("undefined")
        ELSE /\ \/ /\ i # 0
                   /\ Continue(p, close \o OpenRoot \o <<Call("lookup"), Call("exec_file"), Call("deny")>>)
                   /\ UNCHANGED loc
                \/ /\ Continue(p, IF i = 0 THEN <<>> ELSE close)
                   /\ loc' = [loc EXCEPT ![p] = Locals(NULL, 0)]
             /\ UNCHANGED <<diskVars, memory, free_map, inode, open_inodes, procVars>>

(* No file, for want of memory or because it has been removed meanwhile,   *)
(* is not noticed before file_deny_write.                                  *)
ExecFile(p) ==
  LET i == loc[p].ino
  IN /\ Steps(p, "exec_file")
     /\ \/ AddFile(p, i)
        \/ /\ i = 0 \/ memory > 0
           /\ Stop(IF entries[loc[p].name] = NULL THEN "assert" ELSE "memory")

(* Mutant of inode_deny_write: without a count. *)
inode_deny_writeNot(i) == inode' = inode

inode_deny_write(i) == inode' = [inode EXCEPT ![i].deny_write_cnt = @ + 1]

FileDenyWrite(p) ==
  LET i == files[p][1].ino
  IN /\ Steps(p, "deny")
     /\ IF inode[i].deny_write_cnt >= inode[i].open_cnt THEN Stop("assert")
        ELSE /\ inode_deny_write(i)
             /\ files' = [files EXCEPT ![p][1].deny_write = TRUE]
             /\ running' = running \cup {p}
             /\ Continue(p, <<>>)
             /\ loc' = [loc EXCEPT ![p] = Locals(NULL, 0)]
             /\ UNCHANGED <<diskVars, memory, free_map, open_inodes, filesys_lock, failed>>

(* process_exit closes all files, without the lock. *)
Exit(p) == /\ p \in running
           /\ Starts(p, <<Call("close_all")>>)
           /\ UNCHANGED <<diskVars, memory, free_map, inode, open_inodes, procVars, loc>>

CloseAll(p) ==
  /\ Steps(p, "close_all")
  /\ IF files[p] = <<>>
     THEN /\ running' = running \ {p}
          /\ Continue(p, <<>>)
          /\ UNCHANGED <<inode, files>>
     ELSE /\ file_allow_write(p, 1)
          /\ Continue(p, CloseFile(p, 1) \o <<Call("close_all")>>)
          /\ UNCHANGED running
  /\ UNCHANGED <<diskVars, memory, free_map, open_inodes, filesys_lock, failed, loc>>

-----------------------------------------------------------------------------
(* What a file occupies, and the files there are: the ones with a name and *)
(* the open ones.                                                          *)
Area(f) == {f.sector} \cup Extent(f.data.start, f.data.length)
File(s, d) == [sector |-> s, data |-> d]
Named == {File(entries[n], disk[entries[n]]) : n \in {m \in Name : entries[m] # NULL}}
Opened == {File(inode[i].sector, inode[i].data) :
             i \in {j \in Address : ~Undefined(j) /\ inode[j].sector # ROOT_DIR_SECTOR}}
Reserved == {0, ROOT_DIR_SECTOR}

(* halt, by a process that is in no other call, or the power fails: the    *)
(* machine is turned off, and on again.                                    *)
Halt == /\ failed = "no"
        /\ UNCHANGED <<disk_map, entries, memory>>
        /\ lost' = disk_map \ (Reserved \cup UNION {Area(f) : f \in Named})
        /\ disk' = Forget(Sector \ (Reserved \cup UNION {Area(f) : f \in Named}))
        /\ free_map' = disk_map
        /\ inode' = [i \in Address |-> Freed] /\ open_inodes' = {}
        /\ files' = [p \in Process |-> <<>>] /\ filesys_lock' = NULL
        /\ todo' = [p \in Process |-> <<>>] /\ loc' = [p \in Process |-> Locals(NULL, 0)]
        /\ running' = {} /\ failed' = failed

Step(p) ==
  \/ inode_open(p) \/ OpenInit(p) \/ OpenRead(p) \/ inode_close(p) \/ CloseLast(p)
  \/ free_map_allocate(p) \/ MapWrite(p) \/ free_map_release(p) \/ ReleaseWrite(p)
  \/ dir_open(p) \/ dir_lookup(p) \/ filesys_create(p) \/ inode_create(p) \/ InodeWrite(p)
  \/ dir_add(p) \/ dir_remove(p) \/ RemoveErase(p) \/ FileOpen(p) \/ Unlock(p)
  \/ Load(p) \/ ExecFile(p) \/ FileDenyWrite(p) \/ CloseAll(p)

Next ==
  \/ \E p \in Process :
       \/ \E n \in Name : \/ \E len \in 0..MaxLength : SysCreate(p, n, len)
                         \/ SysRemove(p, n) \/ SysOpen(p, n) \/ Exec(p, n)
       \/ \E n \in 1..Len(files[p]) : SysClose(p, n) \/ SysWrite(p, n)
       \/ Exit(p) \/ Step(p)
  \/ Halt

Spec == Init /\ [][Next]_vars

-----------------------------------------------------------------------------
(* The maps stay within the disk, and the tables keep their shape.         *)
TypeOK ==
  /\ free_map \subseteq Sector /\ disk_map \subseteq Sector /\ lost \subseteq Sector
  /\ \A s \in Sector : disk[s].kind \in {"inode", "program", "data"}
  /\ \A n \in Name : entries[n] # NULL => entries[n] \in Sector
  /\ \A i \in Address : inode[i].open_cnt \in Nat /\ inode[i].deny_write_cnt \in Nat
  /\ open_inodes \subseteq Address
  /\ \A p \in Process : Len(files[p]) <= MaxFiles
  /\ filesys_lock # NULL => filesys_lock \in running
  /\ failed \in {"no", "memory", "assert", "undefined"}

(* No sector belongs to two files, be they named, or removed and still     *)
(* open, and none of them can be allocated again.                          *)
NoSharedSectors ==
  LET all == Named \cup Opened
  IN \A f \in all :
       /\ Area(f) \subseteq free_map \ Reserved
       /\ \A g \in all : f # g => Area(f) \cap Area(g) = {}

(* Whenever the machine stops, every name on the disk leads to an inode    *)
(* that was written, and to sectors of its own that are marked on the disk *)
(* too: create writes the map first and the name last, and remove the      *)
(* other way round.                                                        *)
DiskConsistent ==
  \A n \in Name : entries[n] # NULL =>
    /\ disk[entries[n]].kind = "inode"
    /\ Area(File(entries[n], disk[entries[n]])) \subseteq disk_map
    /\ \A m \in Name \ {n} : entries[m] # NULL =>
         Area(File(entries[n], disk[entries[n]])) \cap Area(File(entries[m], disk[entries[m]])) = {}

(* "opening a single inode twice returns the same `struct inode'".         *)
SameInode ==
  \A i \in Address : inode[i].sector # NULL =>
    \A j \in Address \ {i} : inode[i].sector # inode[j].sector

(* When all operations are done, the counts of an inode are those of the   *)
(* files that use it, whichever steps have failed, and no other inode is   *)
(* left in memory.                                                         *)
Users(i) == {u \in UNION {{p} \X (1..Len(files[p])) : p \in Process} : files[u[1]][u[2]].ino = i}
Done == failed = "no" /\ \A p \in Process : todo[p] = <<>>
CountsExact ==
  Done => \A i \in Address :
    /\ inode[i].open_cnt = Cardinality(Users(i))
    /\ inode[i].deny_write_cnt = Cardinality({u \in Users(i) : files[u[1]][u[2]].deny_write})
    /\ inode[i].open_cnt = 0 => inode[i] = Freed /\ i \notin open_inodes

(* and a sector is marked only if a file has it, or if a create that       *)
(* failed at its name or a halt has lost it.                               *)
NothingElseLost == Done => free_map = Reserved \cup lost \cup UNION {Area(f) : f \in Named \cup Opened}

(* A program that runs, and has not closed the file it comes from, is not  *)
(* written to.                                                             *)
ExecutablesUnwritten ==
  [][\A p \in Process : \A n \in 1..Len(files[p]) :
       LET d == inode[files[p][n].ino].data
       IN files[p][n].deny_write /\ files'[p] = files[p] =>
            \A s \in Extent(d.start, d.length) : disk'[s] = disk[s]]_vars

(* The kernel stops at most for want of memory in process_add_file or      *)
(* start_process: no other assertion fails, and no inode is used before it *)
(* is read or after it is freed.                                           *)
NotBroken == failed \in {"no", "memory"}

(* Every sector has one owner, in memory and, whenever the machine stops,  *)
(* on the disk.                                                            *)
SectorsSound == NoSharedSectors /\ DiskConsistent /\ NothingElseLost

(* Inodes are counted right whichever step fails, and none is used before  *)
(* it is read or after it is freed.                                        *)
InodesSound == CountsExact /\ NotBroken

-----------------------------------------------------------------------------
(* Sectors are lost only when the machine is turned off.  They are not: a  *)
(* create that fails at its name gives back the sector of the inode and    *)
(* keeps those of the data.                                                *)
LostOnlyByHalt == [][Halt \/ lost' = lost]_vars

(* Processes, and names, are alike. *)
Symmetry == Permutations(Process) \cup Permutations(Name)
=============================================================================

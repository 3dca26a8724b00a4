------------------------------ MODULE FuseMount ------------------------------
(***************************************************************************)
(* Mounting and unmounting: fuse_main's set-up and tear-down (helper.c),   *)
(* the library's two ways to mount (mount.c: mount(2) itself, or a         *)
(* fusermount child that passes the device back over a socket), fusermount *)
(* (util/fusermount.c), and the shared mtab code (mount_util.c).           *)
(*                                                                         *)
(* Processes: each program that serves a file system, the fusermount it    *)
(* starts to mount (which stays when auto_unmount was asked for), the one  *)
(* it starts to unmount, and a fusermount -u typed by the user.  They      *)
(* interleave at every system call that touches the kernel's mount table   *)
(* or /etc/mtab; a program may be killed anywhere.                         *)
(***************************************************************************)
EXTENDS Naturals, Sequences, FiniteSets, SequencesExt

CONSTANTS Programs,     \* the file system processes
          Scenes,       \* what Init chooses from: the command lines
                        \* (Programs -> [mnt, root, auto, help]) and how many
                        \* kills, failures and typed unmounts there are
          MtabFile,     \* /etc/mtab is a file, not a link to /proc/mounts
          MountMax,     \* mount_max of /etc/fuse.conf
          None

VARIABLES conf,         \* the command lines
          mounts,       \* the kernel's mount table, oldest first
          mtab,         \* /etc/mtab, oldest first
          lock,         \* who holds /etc/mtab.fuselock
          prog,         \* the programs
          helper,       \* fusermount processes, by <<program, job>>
          stale,        \* ways mtab was missed: an update given up, a race
          budget        \* kills, failures and typed unmounts left

mntVars == <<conf, mounts, mtab, lock, prog, helper, stale, budget>>

Jobs == {"mount", "umount", "typed"}
Points == {conf[x].mnt : x \in Programs}

(***************************************************************************)
(* The kernel's tables                                                     *)
(***************************************************************************)
On(table, mnt) == {k \in 1..Len(table) : table[k].mnt = mnt}
TopOf(table, mnt) == CHOOSE k \in On(table, mnt) : \A j \in On(table, mnt) : j <= k
Without(table, mnt) == IF On(table, mnt) = {} THEN table
                       ELSE RemoveAt(table, TopOf(table, mnt))
\* The connection lives while it is mounted and someone has it open.
Mounted(x) == \E k \in 1..Len(mounts) : mounts[k].by = x
Count == Len(IF MtabFile THEN mtab ELSE mounts)

User(x) == IF conf[x].root THEN None ELSE "user"
Mount(x) == mounts' = Append(mounts, [mnt |-> conf[x].mnt, by |-> x, user |-> User(x)])

\* fuse_mnt_add_mount, fuse_mnt_remove_mount: /bin/mount -f and
\* /bin/umount --fake, which lock /etc/mtab themselves; nothing is done when
\* mtab_needs_update says so.
AddMount(x) ==
    mtab' = IF MtabFile THEN Append(mtab, [mnt |-> conf[x].mnt, user |-> User(x)])
            ELSE mtab
\* An unmount takes a mount whose mtab entry is still to be written.
Adding(mnt) == \/ \E x \in Programs : prog[x].pc = "add" /\ conf[x].mnt = mnt
               \/ \E h \in Programs \X Jobs : helper[h].pc = "add" /\ conf[h[1]].mnt = mnt
Raced(mnt) == stale' = stale \cup (IF Adding(mnt) THEN {"raced"} ELSE {})
\* Mutant of RemoveMount: the entry stays.
RemoveMountNot(mnt) == UNCHANGED mtab
RemoveMount(mnt) == mtab' = IF MtabFile THEN Without(mtab, mnt) ELSE mtab

Fails == budget.fails > 0 /\ budget' = [budget EXCEPT !.fails = @ - 1]
Goto(x, pc) == prog' = [prog EXCEPT ![x].pc = pc]
Step(h, pc) == helper' = [helper EXCEPT ![h].pc = pc]

(***************************************************************************)
(* The program: fuse_setup_common                                          *)
(***************************************************************************)

\* fuse_kern_mount: with -h or -V it returns 0, which the caller takes for
\* the descriptor.
KernMount(x) ==
    /\ prog[x].pc = "start"
    /\ prog' = [prog EXCEPT ![x].pc = IF conf[x].help THEN "chan" ELSE "sys",
                            ![x].fd = IF conf[x].help THEN "stdin" ELSE None]
    /\ UNCHANGED <<conf, mounts, mtab, lock, helper, stale, budget>>

\* fuse_mount_sys: auto_unmount and EPERM fall back to fusermount, any other
\* failure (a mount point that is not empty among them) is final.
MountSys(x) ==
    /\ prog[x].pc = "sys"
    /\ \/ /\ conf[x].auto \/ ~conf[x].root
          /\ prog' = [prog EXCEPT ![x].pc = "fork"]
          /\ UNCHANGED <<mounts, budget>>
       \/ /\ ~conf[x].auto /\ conf[x].root
          /\ Mount(x)
          /\ prog' = [prog EXCEPT ![x].pc = "add", ![x].fd = "dev"]
          /\ UNCHANGED budget
       \/ Fails /\ Goto(x, "failed") /\ UNCHANGED mounts
    /\ UNCHANGED <<conf, mtab, lock, helper, stale>>

\* Root's program updates mtab, or takes its mount back.
SysAdd(x) ==
    /\ prog[x].pc = "add"
    /\ \/ AddMount(x) /\ Goto(x, "chan") /\ UNCHANGED <<mounts, budget>>
       \/ /\ Fails
          /\ mounts' = Without(mounts, conf[x].mnt)
          /\ prog' = [prog EXCEPT ![x].pc = "failed", ![x].fd = None]
          /\ UNCHANGED mtab
    /\ UNCHANGED <<conf, lock, helper, stale>>

\* fuse_mount_fusermount: the first of two tries asks for the subtype.
Fork(x) ==
    /\ prog[x].pc = "fork"
    /\ helper[<<x, "mount">>].pc = "none"
    /\ prog' = [prog EXCEPT ![x].pc = "recv", ![x].sock = TRUE]
    /\ helper' = [helper EXCEPT ![<<x, "mount">>] = [pc |-> "open", sent |-> FALSE]]
    /\ UNCHANGED <<conf, mounts, mtab, lock, stale, budget>>

\* receive_fd: the descriptor, or the end of the stream.
ReceiveFd(x) ==
    LET h == <<x, "mount">> IN
    /\ prog[x].pc = "recv"
    /\ helper[h].sent \/ helper[h].pc = "exited"
    /\ prog' = [prog EXCEPT ![x].pc = IF conf[x].auto THEN "got" ELSE "wait",
                            ![x].sock = conf[x].auto,
                            ![x].fd = IF helper[h].sent THEN "dev" ELSE None]
    /\ UNCHANGED <<conf, mounts, mtab, lock, helper, stale, budget>>

\* waitpid, skipped with auto_unmount.
Bury(x) ==
    /\ prog[x].pc = "wait"
    /\ helper[<<x, "mount">>].pc = "exited"
    /\ Goto(x, "got")
    /\ UNCHANGED <<conf, mounts, mtab, lock, helper, stale, budget>>

Got(x) ==
    /\ prog[x].pc = "got"
    /\ \/ prog[x].fd = "dev" /\ Goto(x, "chan") /\ UNCHANGED helper
       \/ /\ prog[x].fd = None /\ prog[x].tries = 1
          /\ prog' = [prog EXCEPT ![x].pc = "fork", ![x].tries = 2]
          /\ helper' = [helper EXCEPT ![<<x, "mount">>].pc = "none"]
       \/ prog[x].fd = None /\ prog[x].tries = 2 /\ Goto(x, "failed") /\ UNCHANGED helper
    /\ UNCHANGED <<conf, mounts, mtab, lock, stale, budget>>

\* fuse_kern_chan_new, fuse_new_common, fuse_daemonize and the signal
\* handlers: a failure of any of them unmounts; help always fails in
\* fuse_new_common.
SetUp(x) ==
    /\ prog[x].pc = "chan"
    /\ \/ ~conf[x].help /\ Goto(x, "loop") /\ UNCHANGED budget
       \/ ~conf[x].help /\ Fails /\ prog' = [prog EXCEPT ![x].pc = "umount", ![x].ok = FALSE]
       \/ conf[x].help /\ prog' = [prog EXCEPT ![x].pc = "umount", ![x].ok = FALSE]
          /\ UNCHANGED budget
    /\ UNCHANGED <<conf, mounts, mtab, lock, helper, stale>>

\* The loop ends when the connection is gone, or on a signal.
LoopEnds(x) ==
    /\ prog[x].pc = "loop"
    /\ Goto(x, "umount")
    /\ UNCHANGED <<conf, mounts, mtab, lock, helper, stale, budget>>

(***************************************************************************)
(* fuse_unmount_common and fuse_kern_unmount                               *)
(***************************************************************************)

\* The device is closed; a device that polls as an error was unmounted
\* already.
KernUnmount(x) ==
    /\ prog[x].pc = "umount"
    /\ prog' = [prog EXCEPT ![x].fd = None,
                            ![x].pc = IF prog[x].fd = "dev" /\ ~Mounted(x) THEN "end"
                                      ELSE IF conf[x].root THEN "rootumount" ELSE "forku"]
    /\ UNCHANGED <<conf, mounts, mtab, lock, helper, stale, budget>>

\* fuse_mnt_umount as root: /bin/umount does both tables.
RootUmount(x) ==
    /\ prog[x].pc = "rootumount"
    /\ mounts' = Without(mounts, conf[x].mnt)
    /\ IF On(mounts, conf[x].mnt) # {} THEN RemoveMount(conf[x].mnt) ELSE UNCHANGED mtab
    /\ Raced(conf[x].mnt)
    /\ Goto(x, "end")
    /\ UNCHANGED <<conf, lock, helper, budget>>

\* As a user: fusermount -u -q -z, and wait for it.
ForkUmount(x) ==
    /\ prog[x].pc = "forku"
    /\ Goto(x, "waitu")
    /\ helper' = [helper EXCEPT ![<<x, "umount">>].pc = "lock"]
    /\ UNCHANGED <<conf, mounts, mtab, lock, stale, budget>>

WaitUmount(x) ==
    /\ prog[x].pc = "waitu"
    /\ helper[<<x, "umount">>].pc = "exited"
    /\ Goto(x, "end")
    /\ UNCHANGED <<conf, mounts, mtab, lock, helper, stale, budget>>

\* fuse_destroy, and the process exits; or main returns 1.
Exit(x) ==
    /\ prog[x].pc \in {"end", "failed"}
    /\ prog' = [prog EXCEPT ![x].pc = "exited", ![x].sock = FALSE, ![x].fd = None,
                            ![x].ok = @ /\ prog[x].pc = "end"]
    /\ UNCHANGED <<conf, mounts, mtab, lock, helper, stale, budget>>

Kill(x) ==
    /\ budget.kills > 0
    /\ prog[x].pc \notin {"start", "exited", "killed"}
    /\ prog' = [prog EXCEPT ![x].pc = "killed", ![x].sock = FALSE, ![x].fd = None,
                            ![x].ok = prog[x].sock /\ prog[x].pc # "recv"]
    /\ budget' = [budget EXCEPT !.kills = @ - 1]
    /\ stale' = stale \cup (IF prog[x].pc = "add" THEN {"failed"} ELSE {})
    /\ UNCHANGED <<conf, mounts, mtab, lock, helper>>

Program(x) ==
    \/ KernMount(x) \/ MountSys(x) \/ SysAdd(x) \/ Fork(x) \/ ReceiveFd(x) \/ Bury(x)
    \/ Got(x) \/ SetUp(x) \/ LoopEnds(x) \/ KernUnmount(x) \/ RootUmount(x)
    \/ ForkUmount(x) \/ WaitUmount(x) \/ Exit(x)

(***************************************************************************)
(* fusermount                                                              *)
(***************************************************************************)

\* mount_fuse, up to check_perm: for a user, the mounts in mtab are counted
\* against mount_max.
OpenDevice(h) ==
    /\ helper[h].pc = "open"
    /\ \/ Step(h, IF ~conf[h[1]].root /\ Count >= MountMax THEN "exited" ELSE "mount")
          /\ UNCHANGED budget
       \/ Fails /\ Step(h, "exited")
    /\ UNCHANGED <<conf, mounts, mtab, lock, prog, stale>>

\* do_mount
DoMount(h) ==
    /\ helper[h].pc = "mount"
    /\ \/ Mount(h[1]) /\ Step(h, "add") /\ UNCHANGED budget
       \/ Fails /\ Step(h, "exited") /\ UNCHANGED mounts
    /\ UNCHANGED <<conf, mtab, lock, prog, stale>>

\* add_mount; on failure the mount stays: "Can't clean up mount in a
\* non-racy way".
AddToMtab(h) ==
    /\ helper[h].pc = "add"
    /\ \/ AddMount(h[1]) /\ Step(h, "send") /\ UNCHANGED <<budget, stale>>
       \/ Fails /\ Step(h, "exited") /\ stale' = stale \cup {"failed"} /\ UNCHANGED mtab
    /\ UNCHANGED <<conf, mounts, lock, prog>>

\* Mutant of SendFd: fusermount does not stay to watch the program.
SendFdLeaves(h) ==
    /\ helper[h].pc = "send"
    /\ helper' = [helper EXCEPT ![h] = [pc |-> "exited", sent |-> prog[h[1]].sock]]
    /\ UNCHANGED <<conf, mounts, mtab, lock, prog, stale, budget>>
\* send_fd; a program that died has closed its end.
SendFd(h) ==
    /\ helper[h].pc = "send"
    /\ IF prog[h[1]].sock
       THEN helper' = [helper EXCEPT ![h] = [pc |-> IF conf[h[1]].auto THEN "watch"
                                                     ELSE "exited", sent |-> TRUE]]
       ELSE Step(h, "exited")
    /\ UNCHANGED <<conf, mounts, mtab, lock, prog, stale, budget>>

\* With auto_unmount: recv returns 0 once the program is gone.
Watch(h) ==
    /\ helper[h].pc = "watch"
    /\ ~prog[h[1]].sock
    /\ Step(h, "lock")
    /\ UNCHANGED <<conf, mounts, mtab, lock, prog, stale, budget>>

\* unmount_fuse: lock_umount locks only when mtab is a file.
LockUmount(h) ==
    /\ helper[h].pc = "lock"
    /\ MtabFile => lock = None
    /\ lock' = IF MtabFile THEN h ELSE lock
    /\ Step(h, "may")
    /\ UNCHANGED <<conf, mounts, mtab, prog, stale, budget>>

Release(h) == lock' = IF lock = h THEN None ELSE lock

\* may_unmount: a user needs an entry of theirs for the mount point.
MayUnmount(h) ==
    LET table == IF MtabFile THEN mtab ELSE mounts
        x == h[1]
        mine == {k \in On(table, conf[x].mnt) : table[k].user = User(x)}
    IN  /\ helper[h].pc = "may"
        /\ IF conf[x].root \/ mine # {} THEN Step(h, "detach") /\ UNCHANGED lock
           ELSE Step(h, "exited") /\ Release(h)
        /\ UNCHANGED <<conf, mounts, mtab, prog, stale, budget>>

\* umount2 of the topmost mount; without -z it may be busy.
Detach(h) ==
    LET mnt == conf[h[1]].mnt IN
    /\ helper[h].pc = "detach"
    /\ \/ /\ On(mounts, mnt) # {}
          /\ mounts' = Without(mounts, mnt)
          /\ Raced(mnt)
          /\ Step(h, "remove")
          /\ UNCHANGED <<lock, budget>>
       \/ /\ On(mounts, mnt) = {}
          /\ Step(h, "exited") /\ Release(h)
          /\ UNCHANGED <<mounts, stale, budget>>
       \/ /\ h[2] = "typed" /\ Fails
          /\ Step(h, "exited") /\ Release(h)
          /\ UNCHANGED <<mounts, stale>>
    /\ UNCHANGED <<conf, mtab, prog>>

RemoveFromMtab(h) ==
    /\ helper[h].pc = "remove"
    /\ RemoveMount(conf[h[1]].mnt)
    /\ Step(h, "exited")
    /\ Release(h)
    /\ UNCHANGED <<conf, mounts, prog, stale, budget>>

Fusermount(h) ==
    \/ OpenDevice(h) \/ DoMount(h) \/ AddToMtab(h) \/ SendFd(h) \/ Watch(h)
    \/ LockUmount(h) \/ MayUnmount(h) \/ Detach(h) \/ RemoveFromMtab(h)

\* The user types fusermount -u for a program's mount point.
TypeUnmount(x) ==
    /\ budget.typed > 0
    /\ helper[<<x, "typed">>].pc = "none"
    /\ helper' = [helper EXCEPT ![<<x, "typed">>].pc = "lock"]
    /\ budget' = [budget EXCEPT !.typed = @ - 1]
    /\ UNCHANGED <<conf, mounts, mtab, lock, prog, stale>>

Init ==
    /\ \E s \in Scenes : conf = s.conf /\ budget = s.budget
    /\ mounts = <<>> /\ mtab = <<>> /\ lock = None /\ stale = {}
    /\ prog = [x \in Programs |-> [pc |-> "start", fd |-> None, sock |-> FALSE,
                                   tries |-> 1, ok |-> TRUE]]
    /\ helper = [h \in Programs \X Jobs |-> [pc |-> "none", sent |-> FALSE]]

Next == \/ \E x \in Programs : Program(x) \/ Kill(x) \/ TypeUnmount(x)
        \/ \E h \in Programs \X Jobs : Fusermount(h)

\* Processes that can run do; a file system need not end.
Runs(x) == KernMount(x) \/ MountSys(x) \/ SysAdd(x) \/ Fork(x) \/ ReceiveFd(x) \/ Bury(x)
           \/ Got(x) \/ SetUp(x) \/ KernUnmount(x) \/ RootUmount(x)
           \/ ForkUmount(x) \/ WaitUmount(x) \/ Exit(x)
Fairness == /\ \A x \in Programs : WF_mntVars(Runs(x))
            /\ \A h \in Programs \X Jobs : WF_mntVars(Fusermount(h))

Spec == Init /\ [][Next]_mntVars /\ Fairness

(***************************************************************************)
(* Properties                                                              *)
(***************************************************************************)
Busy == \/ \E x \in Programs : prog[x].pc = "add"
        \/ \E h \in Programs \X Jobs : helper[h].pc \in {"add", "remove"}

Agree == \A m \in Points : Cardinality(On(mtab, m)) = Cardinality(On(mounts, m))

\* /etc/mtab and the kernel agree.  Whatever order mounts, unmounts, kills
\* and retries come in, when no process is between its kernel call and its
\* mtab update every mount point has as many entries as mounts, unless an
\* update was given up (which add_mount's callers admit) or an unmount came
\* between a mount and its entry.
MtabMatches == MtabFile /\ ~Busy /\ stale = {} => Agree

\* "Make sure that /etc/mtab is checked and updated atomically" (fusermount.c,
\* lock_umount): the same without the second exception.
MtabAtomic == MtabFile /\ ~Busy /\ "failed" \notin stale => Agree

\* A program whose set-up failed leaves no mount behind: each failure path
\* of fuse_setup_common, fuse_mount_sys and the retry in fuse_kern_mount
\* takes back what the earlier steps did.  (A second program on the same
\* point may have its mount detached instead: see the README.)
Alone(x) == \A y \in Programs \ {x} : conf[y].mnt # conf[x].mnt
SetupUndone ==
    \A x \in Programs :
      prog[x].pc = "exited" /\ stale = {} /\ Alone(x) => ~Mounted(x)

\* "auto unmount on process termination" (-o auto_unmount): once the program
\* has received the device, its end, by whatever cause, is followed by the
\* unmount; and every other program that does not serve forever gets past
\* mounting and unmounting: nobody waits for a process that waits for them.
Gone(x) == prog[x].pc \in {"exited", "killed"}
Left(x) == Gone(x) /\ conf[x].auto /\ prog[x].ok /\ stale = {} /\ Alone(x)
Underway(x) == prog[x].pc \in {"start", "umount"}
AutoUnmounted ==
    \A x \in Programs :
      /\ Left(x) ~> ~Mounted(x)
      /\ Underway(x) ~> (prog[x].pc = "loop" \/ Gone(x))

\* "-h   --help            print help" (helper.c): asking for help changes
\* no mount.
HelpSteps(x) == conf[x].help /\ (Program(x) \/ Fusermount(<<x, "umount">>))
HelpHarmless == [][(\E x \in Programs : HelpSteps(x)) => mounts' = mounts]_mntVars

\* "Set the maximum number of FUSE mounts allowed to non-root users"
\* (README, mount_max).
MountLimit == Cardinality({k \in 1..Len(mounts) : mounts[k].user # None}) <= MountMax
=============================================================================

------------------------------ MODULE MCFuseLib ------------------------------
(***************************************************************************)
(* The rest of libfuse, for model checking: mounting and unmounting        *)
(* (FuseMount), the options (FuseOpt), the protocol (FuseProto), the       *)
(* transport (FuseSplice), the layers of a file system (FuseLayers), the   *)
(* handlers of the high-level library (FuseFs), its table of locks         *)
(* (FuseLocks) and the lock manager (ULockMgr).  They share no state; part *)
(* says which one runs.  FuseMount rests as it was made, the others have   *)
(* no state while they rest.                                               *)
(***************************************************************************)
EXTENDS FuseMount, Integers, TLC

CONSTANTS x1, x2, w1, w2, t1, t2, LockOwners, Majors, Minors
VARIABLES part,
          given, p,
          kern, f, last,
          want, broken, llp, pc, msg, buf, job, out, dev, sent,
          lconf, fs, mods, fuse, ctx, call, log,
          user, node, dh, req, intr, kernel, scan,
          list, real, setlk,
          mutex, owner, th, chan, server, worker, locks, granted
-----------------------------------------------------------------------------
(* Two programs on one point or on two; who mounts, what fails, who kills. *)
Starts(mnt, root, auto, help) == [mnt |-> mnt, root |-> root, auto |-> auto, help |-> help]
Scene(c1, c2, kills, fails, typed) ==
    [conf |-> x1 :> c1 @@ x2 :> c2, budget |-> [kills |-> kills, fails |-> fails, typed |-> typed]]
MountScenes ==
    {Scene(Starts("m", FALSE, TRUE, FALSE), Starts("m", TRUE, FALSE, FALSE), 0, 1, 0),
     Scene(Starts("m", FALSE, TRUE, FALSE), Starts("n", FALSE, FALSE, FALSE), 1, 0, 1),
     Scene(Starts("m", TRUE, TRUE, FALSE), Starts("n", FALSE, FALSE, TRUE), 0, 2, 1)}

(* Command lines of two of these, or of three of a few. *)
Arguments ==
    {<<"m">>, <<"n">>, <<"-d">>, <<"-f">>, <<"-r">>, <<"-h">>, <<"-V">>, <<"--">>, <<"-o">>, <<"-x">>,
     <<"-o", "ro", ",", "allow_root">>, <<"-o", "rw", ",", "auto_cache">>,
     <<"-o", "fsname=", "\\", ",", "a">>, <<"-o", "fsname=", "\\", "1", "1", "1", "\\", "\\", "1">>,
     <<"-o", "umask=", "bad">>, <<"-o", "max_read=", "1", ",", "allow_other", ",", "noexec">>,
     <<"-o", "subtype=", "s", ",", "user=", "u">>, <<"-o", "nonempty", ",", "junk">>,
     <<"large_read", ",", "suid", ",", "big_writes">>}
Few == {<<"m">>, <<"n">>, <<"-r">>, <<"--">>, <<"-o">>, <<"-o", "rw", ",", "auto_cache">>,
        <<"-o", "fsname=", "\\", ",", "a">>, <<"-o", "nonempty", ",", "junk">>}
Opt == INSTANCE FuseOpt WITH CmdLines <- UNION {[1..k -> Arguments] : k \in 0..2} \cup [1..3 -> Few],
                             BadPaths <- {<<"n">>}, Root <- FALSE, AllowOther <- TRUE

(* File systems with different operations and wishes. *)
FileOps == {"OPEN", "READ", "WRITE", "FLUSH", "RELEASE", "FSYNC", "IOCTL", "POLL", "DESTROY"}
AllOps == FileOps \cup
          {"LOOKUP", "FORGET", "GETATTR", "SETATTR", "ACCESS", "READLINK", "MKNOD", "MKDIR", "UNLINK",
           "RMDIR", "SYMLINK", "RENAME", "LINK", "CREATE", "OPENDIR", "READDIR", "RELEASEDIR", "FSYNCDIR",
           "STATFS", "SETXATTR", "GETXATTR", "LISTXATTR", "REMOVEXATTR", "GETLK", "SETLK", "BMAP",
           "FALLOCATE"}
Serves(ops, opts, init, never, bg, ct, cuse) ==
    [ops |-> ops, opts |-> opts, init |-> init, never |-> never, background |-> bg,
     congestion |-> ct, readahead |-> 2, max_write |-> 5, cuse |-> cuse]
FileSystems ==
    {Serves(AllOps \cup {"FLOCK", "FORGET_MULTI", "WRITE_BUF"},
            {"SPLICE_READ", "SPLICE_WRITE", "SPLICE_MOVE", "ATOMIC_O_TRUNC", "BIG_WRITES"},
            {"IOCTL_DIR"}, {<<"no", "SPLICE_MOVE">>}, 70000, 80000, FALSE),
     Serves(AllOps, {"allow_root", "sync_read", "no_posix_lock", "no_flock"}, {"ASYNC_READ"}, {}, 10, 0,
            FALSE),
     Serves({}, {"allow_root"}, {}, {}, 0, 5, FALSE),
     Serves(FileOps, {"allow_root"}, {"IOCTL_DIR"}, {}, 10, 0, TRUE)}
Proto == INSTANCE FuseProto WITH Sessions <- FileSystems, Pages <- 4, MaxRequests <- 1

(* Messages and answers of up to three buffers, some shorter than said. *)
Sized(kind, pages) == [kind |-> kind, pages |-> pages]
Buffer(at, size, len) == [at |-> at, size |-> size, len |-> len]
Splice == INSTANCE FuseSplice WITH
    Messages <- {Sized("write", 0), Sized("write", 2), Sized("retrieve", 1), Sized("read", 0),
                 Sized("other", 0), Sized("other", 2)},
    Answers <- {<<Buffer("mem", 1, 1)>>, <<Buffer("file", 2, 2)>>, <<Buffer("file", 3, 1)>>,
                <<Buffer("file", 2, 0)>>, <<Buffer("mem", 1, 1), Buffer("file", 2, 2)>>,
                <<Buffer("file", 2, 2), Buffer("mem", 0, 0), Buffer("mem", 1, 1)>>},
    MaxMessages <- 2

(* Stacks of no, one or two modules on file systems old and new. *)
Links == {<<"x">>, <<"d", "x">>, <<"d", "y">>, <<"d", "e", "x">>}
Basic == {"getattr", "readlink", "rename", "symlink", "link", "flush", "init", "destroy"}
Layers == INSTANCE FuseLayers WITH
    conf <- lconf, Base <- <<"b">>, LinkPaths <- Links, MaxCalls <- 1,
    LinkTargets <- {<<"b">>, <<"o">>} \cup
                   {<<"b">> \o q : q \in Links \cup {<<"d">>, <<"d", "f", "x">>}},
    Stacks <- [modules : {<<>>, <<"subdir">>, <<"iconv">>, <<"subdir", "iconv">>, <<"iconv", "subdir">>},
               rellinks : BOOLEAN,
               ops : {Basic,
                      Basic \cup {"truncate", "utime", "getdir", "read", "write", "flag_nullpath_ok"},
                      Basic \cup {"fgetattr", "ftruncate", "utimens", "readdir", "read_buf",
                                  "write_buf", "open", "statfs", "lock", "flock", "ioctl",
                                  "flag_nopath"}}]

(* Interrupts, caching, and directories that change while they are read. *)
Serving(kinds, refuse, requests, changes, intrs) ==
    [kinds |-> kinds, refuse |-> refuse, requests |-> requests, changes |-> changes, intr |-> intrs]
Fs == INSTANCE FuseFs WITH
    Workers <- {w1, w2}, Cookies <- {1, 2, 3}, Window <- 2, MaxOpens <- 1, SeekAfterEnd <- FALSE,
    Valids <- {{"mode", "uid", "size"}, {"atime"}, {"atime", "mtime", "size"}},
    Loads <- {Serving({"setattr", "mknod"}, {}, 1, 0, TRUE),
              Serving({"open", "opendir"}, {"open", "opendir"}, 2, 0, TRUE),
              Serving({"open", "getattr", "release"}, {}, 2, 2, FALSE),
              Serving({"opendir", "readdir", "releasedir"}, {}, 6, 1, FALSE)}

(* One owner locks all ranges of three bytes, the other ones some. *)
LockRanges ==
    LET first == CHOOSE o \in LockOwners : TRUE
    IN  [o \in LockOwners |-> IF o = first THEN {r \in (0..2) \X (0..2) : r[1] <= r[2]}
                             ELSE {<<0, 2>>, <<1, 1>>}]
Locks == INSTANCE FuseLocks WITH OffsetMax <- 2, Ranges <- LockRanges

(* Two owners with a thread each. *)
UserLocks == INSTANCE ULockMgr WITH
    Owners <- {"a", "b"}, Fds <- {1}, Threads <- {t1, t2}, OwnersOf <- t1 :> {"a"} @@ t2 :> {"b"}, Bytes <- {1, 2},
    MaxOps <- t1 :> 2 @@ t2 :> 1, MaxServers <- 3, MaxIntrs <- 1
-----------------------------------------------------------------------------
optVars == <<given, p>>
protoVars == <<kern, f, last>>
spliceVars == <<want, broken, llp, pc, msg, buf, job, out, dev, sent>>
layerVars == <<lconf, fs, mods, fuse, ctx, call, log>>
fsVars == <<user, node, dh, req, intr, kernel, scan>>
lockVars == <<list, real, setlk>>
userVars == <<mutex, owner, th, chan, server, worker, locks, granted>>
allVars == <<part, mntVars, optVars, protoVars, spliceVars, layerVars, fsVars, lockVars, userVars>>

RestMount == Init /\ conf = (CHOOSE s \in Scenes : TRUE).conf /\ budget = (CHOOSE s \in Scenes : TRUE).budget
RestOpt == given = None /\ p = None
RestProto == kern = None /\ f = None /\ last = None
RestSplice == /\ want = None /\ broken = None /\ llp = None /\ pc = None /\ msg = None
              /\ buf = None /\ job = None /\ out = None /\ dev = None /\ sent = None
RestLayers == /\ lconf = None /\ fs = None /\ mods = None /\ fuse = None /\ ctx = None
              /\ call = None /\ log = None
RestFs == /\ user = None /\ node = None /\ dh = None /\ req = None /\ intr = None
          /\ kernel = None /\ scan = None
RestLocks == list = None /\ real = None /\ setlk = None
RestUser == /\ mutex = None /\ owner = None /\ th = None /\ chan = None /\ server = None
            /\ worker = None /\ locks = None /\ granted = None

PartsInit ==
    /\ part \in {"mount", "opt", "proto", "splice", "layers", "fs", "locks", "user"}
    /\ IF part = "mount" THEN Init ELSE RestMount
    /\ IF part = "opt" THEN Opt!Init ELSE RestOpt
    /\ IF part = "proto" THEN Proto!Init ELSE RestProto
    /\ IF part = "splice" THEN Splice!Init ELSE RestSplice
    /\ IF part = "layers" THEN Layers!Init ELSE RestLayers
    /\ IF part = "fs" THEN Fs!Init ELSE RestFs
    /\ IF part = "locks" THEN Locks!Init ELSE RestLocks
    /\ IF part = "user" THEN UserLocks!Init ELSE RestUser

PartsNext ==
    \/ /\ part = "mount" /\ Next
       /\ UNCHANGED <<part, optVars, protoVars, spliceVars, layerVars, fsVars, lockVars, userVars>>
    \/ /\ part = "opt" /\ Opt!Next
       /\ UNCHANGED <<part, mntVars, protoVars, spliceVars, layerVars, fsVars, lockVars, userVars>>
    \/ /\ part = "proto" /\ Proto!Next
       /\ UNCHANGED <<part, mntVars, optVars, spliceVars, layerVars, fsVars, lockVars, userVars>>
    \/ /\ part = "splice" /\ Splice!Next
       /\ UNCHANGED <<part, mntVars, optVars, protoVars, layerVars, fsVars, lockVars, userVars>>
    \/ /\ part = "layers" /\ Layers!Next
       /\ UNCHANGED <<part, mntVars, optVars, protoVars, spliceVars, fsVars, lockVars, userVars>>
    \/ /\ part = "fs" /\ Fs!Next
       /\ UNCHANGED <<part, mntVars, optVars, protoVars, spliceVars, layerVars, lockVars, userVars>>
    \/ /\ part = "locks" /\ Locks!Next
       /\ UNCHANGED <<part, mntVars, optVars, protoVars, spliceVars, layerVars, fsVars, userVars>>
    \/ /\ part = "user" /\ UserLocks!Next
       /\ UNCHANGED <<part, mntVars, optVars, protoVars, spliceVars, layerVars, fsVars, lockVars>>

(* The fairness of FuseMount. *)
Parts == /\ PartsInit /\ [][PartsNext]_allVars
         /\ \A x \in Programs : WF_mntVars(part = "mount" /\ Runs(x))
         /\ \A h \in Programs \X Jobs : WF_mntVars(part = "mount" /\ Fusermount(h))
-----------------------------------------------------------------------------
(* The conversation with the kernel.  The library speaks the version the   *)
(* kernel speaks, calls no operation before INIT has settled it or for a   *)
(* user it must not serve, and announces what fits (FuseProto).  No        *)
(* message is read behind the rest of another, and an answer is the        *)
(* beginning of its data, through memory, pipe or both (FuseSplice).       *)
MessagesSound ==
    /\ part = "proto" => Proto!SpeaksKernelVersion /\ Proto!CallsLegitimate /\ Proto!NegotiationSound
    /\ part = "splice" => Splice!PipeClean /\ Splice!AnswerExact

(* Every layer of a stack converts paths and names once, links keep where  *)
(* they lead, and what a stack holds is released once (FuseLayers).        *)
LayersSound ==
    part = "layers" => Layers!LayersTransparent /\ Layers!LinksKept /\ Layers!StackReleased

(* The handlers of fuse.c do all a request asks or fail, leak no handle,   *)
(* are interrupted only inside a call, keep the kernel's cache only while  *)
(* it is fresh and list a directory completely (FuseFs).                   *)
HandlersSound ==
    part = "fs" => Fs!HandlersSound /\ Fs!InterruptsInTime /\ Fs!CloseToOpen /\ Fs!DirComplete

(* The library's table of locks and the lock manager agree with the locks  *)
(* the file systems have granted (FuseLocks, ULockMgr).                    *)
LocksSound ==
    /\ part = "locks" => Locks!ListExact
    /\ part = "user" => UserLocks!GrantedHeld /\ UserLocks!NothingElseHeld /\ UserLocks!FdStoresAgree

(* No option is lost between the four passes of the parser and fusermount, *)
(* and none is made up (FuseOpt).                                          *)
OptionsUnderstood == part = "opt" => Opt!LineUnderstood /\ Opt!FusermountAgrees

(* The mount table of the kernel and /etc/mtab agree, and a program that   *)
(* could not be set up leaves no mount behind (FuseMount).                 *)
MountsSound == MtabMatches /\ SetupUndone

(* -o auto_unmount unmounts after every end of the program, and nobody     *)
(* waits for ever while mounting or unmounting (FuseMount).                *)
MountsEnd ==
    \A x \in Programs :
      /\ (part = "mount" /\ Left(x)) ~> ~Mounted(x)
      /\ (part = "mount" /\ Underway(x)) ~> (prog[x].pc = "loop" \/ Gone(x))
=============================================================================

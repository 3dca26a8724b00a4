----------------------------- MODULE FuseLayers ------------------------------
(***************************************************************************)
(* The stack of file systems of libfuse: fuse_new_common pushes the        *)
(* modules of -o modules= onto the user's file system, every fuse_fs_*     *)
(* function of fuse.c passes a call to one layer, and the layers subdir    *)
(* and iconv convert the paths and pass it on.                             *)
(***************************************************************************)
EXTENDS Integers, Sequences, SequencesExt, FiniteSets, TLC

CONSTANTS Stacks,     \* options: modules to push, the user's operations
          LinkPaths,  \* where the links are, below the base directory
          LinkTargets,\* where they lead, from the root of the user's tree
          Base,       \* the base directory of subdir, a sequence of names
          MaxCalls, None

VARIABLES conf,     \* the stack asked for
          fs,       \* the layers, the topmost first; the user's is the last
          mods,     \* the references to the modules (ctr of fuse_module)
          fuse,     \* struct fuse: nullpath_ok, nopath, want and a phase
          ctx,      \* private_data of the thread's context
          call,     \* the call on its way through the stack
          log       \* inits and destroys, layers freed, calls made

vars == <<conf, fs, mods, fuse, ctx, call, log>>
-----------------------------------------------------------------------------
Modules == {"subdir", "iconv"}
User == "user"
(***************************************************************************)
(* The functions fuse_fs_*, in the order of fuse.c.                        *)
(***************************************************************************)
NameCalls == {"getattr", "fgetattr", "rename", "unlink", "rmdir", "symlink", "link"}
OpenCalls == {"release", "opendir", "open", "read_buf"}
DataCalls == {"write_buf", "fsync", "fsyncdir", "flush", "statfs", "releasedir"}
DirCalls == {"readdir", "create", "lock", "flock"}
SetCalls == {"chmod", "chown", "truncate", "ftruncate", "utimens", "access", "readlink", "mknod",
             "mkdir"}
XattrCalls == {"setxattr", "getxattr", "listxattr", "bmap", "removexattr", "ioctl", "poll",
               "fallocate"}
Calls == UNION {NameCalls, OpenCalls, DataCalls, DirCalls, SetCalls, XattrCalls}

(***************************************************************************)
(* The operations of the modules: which of its paths each one converts     *)
(* before it calls the next layer.  subdir leaves the target of a symlink. *)
(***************************************************************************)
Each(ops, which) == [op \in ops |-> which]
SubdirLook == Each({"getattr", "fgetattr", "access", "readlink", "opendir", "readdir",
                    "releasedir"}, {1})
SubdirMake == Each({"mknod", "mkdir", "unlink", "rmdir"}, {1})
SubdirTwo == Each({"symlink"}, {2}) @@ Each({"rename", "link"}, {1, 2})
SubdirSet == Each({"chmod", "chown", "truncate", "ftruncate", "utimens", "create", "open"}, {1})
SubdirFile == Each({"read_buf", "write_buf", "statfs", "flush", "release", "fsync", "fsyncdir"}, {1})
SubdirXattr == Each({"setxattr", "getxattr", "listxattr", "removexattr", "lock", "flock", "bmap"}, {1})
SubdirOper == SubdirLook @@ SubdirMake @@ SubdirTwo @@ SubdirSet @@ SubdirFile @@ SubdirXattr

IconvLook == Each({"getattr", "fgetattr", "access", "readlink", "opendir", "readdir",
                   "releasedir"}, {1})
IconvMake == Each({"mknod", "mkdir", "unlink", "rmdir"}, {1})
IconvTwo == Each({"symlink", "rename", "link"}, {1, 2})
IconvSet == Each({"chmod", "chown", "truncate", "ftruncate", "utimens", "create", "open"}, {1})
IconvFile == Each({"read_buf", "write_buf", "statfs", "flush", "release", "fsync", "fsyncdir"}, {1})
IconvXattr == Each({"setxattr", "getxattr", "listxattr", "removexattr", "lock", "flock", "bmap"}, {1})
IconvOper == IconvLook @@ IconvMake @@ IconvTwo @@ IconvSet @@ IconvFile @@ IconvXattr

Oper(l) == IF l = "subdir" THEN SubdirOper ELSE IconvOper
Has(l) == IF l = User THEN conf.ops ELSE DOMAIN Oper(l)
\* Operations on an open file, which may come without a path.
ByHandle == {"fgetattr", "readdir", "releasedir", "ftruncate", "read_buf", "write_buf", "flush",
             "release", "fsync", "fsyncdir", "lock", "flock", "ioctl", "poll", "fallocate"}
TwoPaths == {"rename", "link", "symlink"}
-----------------------------------------------------------------------------
(***************************************************************************)
(* fuse_new_common and fuse_push_module.                                   *)
(***************************************************************************)
Bottom == Len(fs)
Push(m) ==
    /\ fuse.phase = "new" /\ conf.modules # <<>> /\ Head(conf.modules) = m
    /\ conf' = [conf EXCEPT !.modules = Tail(@)]
    /\ mods' = [mods EXCEPT ![m] = @ + 1]
    /\ fs' = <<m>> \o fs
    \* flag_nullpath_ok and flag_nopath of subdir_oper and iconv_oper are set
    /\ fuse' = [fuse EXCEPT !.nullpath_ok = TRUE /\ @, !.nopath = TRUE /\ @]
    /\ UNCHANGED <<ctx, call, log>>

\* out_free_fs: a module is missing or its factory fails (it drops its
\* reference); the user's destroy is not to be called.
PushFails ==
    /\ fuse.phase = "new"
    /\ conf' = [conf EXCEPT !.ops = @ \ {"destroy"}]
    /\ fuse' = [fuse EXCEPT !.phase = "failing"]
    /\ UNCHANGED <<fs, mods, ctx, call, log>>

\* fuse_lib_init: fuse_fs_init of every layer, the layers' init calling the
\* next one's; each takes away what it cannot do.
Unsupported(l) ==
    {c \in {<<"SPLICE_READ", "write_buf">>, <<"POSIX_LOCKS", "lock">>, <<"FLOCK_LOCKS", "flock">>} :
        c[2] \notin Has(l)}
InitLayers ==
    /\ fuse.phase = "new" /\ conf.modules = <<>>
    /\ fuse' = [fuse EXCEPT !.phase = "ready",
                      !.want = @ \ {c[1] : c \in UNION {Unsupported(fs[i]) : i \in DOMAIN fs}}]
    /\ log' = [log EXCEPT !.inits = IF "init" \in conf.ops THEN @ + 1 ELSE @]
    /\ ctx' = Bottom
    /\ UNCHANGED <<conf, fs, mods, call>>

\* fuse_fs_destroy of the topmost layer: its destroy calls the next one's
\* before it frees its own data; then the module is put and the layer freed.
DestroyLayers ==
    /\ fuse.phase = "failing" \/ (fuse.phase = "ready" /\ call = None)
    /\ log' = [log EXCEPT !.destroys = IF "destroy" \in conf.ops THEN @ + 1 ELSE @,
                          !.freed = @ + Len(fs)]
    /\ mods' = [m \in Modules |-> mods[m] - Cardinality({i \in DOMAIN fs : fs[i] = m})]
    /\ fs' = <<>> /\ ctx' = None
    /\ fuse' = [fuse EXCEPT !.phase = "gone"]
    /\ UNCHANGED <<conf, call>>
-----------------------------------------------------------------------------
(***************************************************************************)
(* A call.  A path is the conversions it has been through, or None.        *)
(***************************************************************************)
\* The operation of a layer that a fuse_fs_* function calls; fgetattr,
\* ftruncate, utimens, readdir, read_buf and write_buf have a substitute.
Instead == [o \in {"fgetattr", "ftruncate", "utimens", "readdir", "read_buf", "write_buf"} |->
               CASE o = "fgetattr" -> "getattr" [] o = "ftruncate" -> "truncate"
                 [] o = "utimens" -> "utime"    [] o = "readdir" -> "getdir"
                 [] o = "read_buf" -> "read"    [] o = "write_buf" -> "write"]
Target(l, op, path) ==
    IF op \in Has(l) THEN op
    ELSE IF op \in DOMAIN Instead /\ Instead[op] \in Has(l)
            /\ (op \in {"fgetattr", "ftruncate"} => path # None)
    THEN Instead[op] ELSE None
\* What they return for a layer without it.
Default(op) == IF op \in {"release", "opendir", "open", "releasedir", "statfs"} THEN "ok" ELSE "ENOSYS"

\* Mutant of Convert: only the first path is converted.
ConvertFirst(l, op, paths) ==
    [i \in DOMAIN paths |-> IF paths[i] # None /\ i = 1 THEN Append(paths[i], l) ELSE paths[i]]
\* subdir_addpath and iconv_convpath of the paths that the operation converts;
\* no path stays none.
Convert(l, op, paths) ==
    [i \in DOMAIN paths |->
        IF paths[i] # None /\ i \in Oper(l)[op] THEN Append(paths[i], l) ELSE paths[i]]

\* get_path_nullok: no path if nopath is set, or if the file was unlinked
\* (hard_remove) and nullpath_ok; the error of an unlinked file is ignored
\* by fuse_lib_flush, which also calls lock.  Without the operation in the
\* topmost layer fgetattr, ftruncate and readdir insist on a path.
Insists(op) == op \in {"fgetattr", "ftruncate", "readdir"} /\ op \notin Has(fs[1])
Paths(op) ==
    IF op \notin ByHandle \/ Insists(op) THEN {<<>>}
    ELSE IF fuse.nopath THEN {None}
    ELSE {<<>>} \cup (IF fuse.nullpath_ok \/ op \in {"flush", "lock"} THEN {None} ELSE {})
BeginCall(op) ==
    /\ fuse.phase = "ready" /\ call = None /\ log.calls < MaxCalls
    /\ \E path \in Paths(op),
          at \in IF op = "readlink" THEN LinkPaths ELSE {<<>>} :
          call' = [op |-> op, depth |-> 1, down |-> TRUE, at |-> at, held |-> 0,
                   paths |-> IF op \in TwoPaths THEN <<path, path>> ELSE <<path>>,
                   ret |-> "none", link |-> None, name |-> None, seen |-> None]
    /\ log' = [log EXCEPT !.calls = @ + 1]
    /\ UNCHANGED <<conf, fs, mods, fuse, ctx>>

\* fuse_fs_<op> at a layer sets private_data, then calls the operation; that
\* of subdir and iconv converts the paths, in memory it frees on its way back.
Enter ==
    /\ call # None /\ call.down
    /\ LET l == fs[call.depth]
           op == Target(l, call.op, call.paths[1])
       IN  /\ ctx' = call.depth
           /\ IF op = None
              THEN call' = [call EXCEPT !.down = FALSE, !.ret = Default(call.op)]
              ELSE IF l = User
              THEN \E ret \in {"ok", "error"},
                      to \in IF op = "readlink" THEN LinkTargets ELSE {None} :
                     call' = [call EXCEPT !.down = FALSE, !.ret = ret,
                                 !.link = IF to = None THEN None ELSE [abs |-> TRUE, to |-> to, was |-> to],
                                 !.name = IF op \in {"readdir", "getdir"} THEN <<>> ELSE None,
                                 !.seen = [op |-> op, ctx |-> ctx', paths |-> call.paths]]
              ELSE \/ call' = [call EXCEPT !.down = FALSE, !.ret = "error"]      \* ENOMEM, EILSEQ
                   \/ call' = [call EXCEPT !.depth = @ + 1, !.held = @ + 1,
                                           !.paths = Convert(l, call.op, @)]
    /\ UNCHANGED <<conf, fs, mods, fuse, log>>

\* strip_common: the names two paths have in common; the last name of two
\* equal paths is not counted.
Common(s, t) ==
    LET n == IF Len(s) <= Len(t) THEN Len(s) ELSE Len(t)
        k == CHOOSE i \in 0..n : SubSeq(s, 1, i) = SubSeq(t, 1, i)
                /\ \A j \in i + 1..n : SubSeq(s, 1, j) # SubSeq(t, 1, j)
    IN  IF s = t THEN k - 1 ELSE k
\* transform_symlink, of a link at the given path.
Transform(link, path) ==
    LET k == Common(link.to, path)
        dotdots == Len(path) - k - 1
    IN  IF ~link.abs \/ k < Len(Base) \/ (k = Len(Base) /\ Len(link.to) = k) \/ Len(path) = k
        THEN link
        ELSE [link EXCEPT !.abs = FALSE,
                 !.to = [i \in 1..dotdots |-> ".."] \o SubSeq(@, k + 1, Len(@))]

\* The layer above the one that returned frees its paths.  What readlink
\* returned is transformed by subdir, unless the buffer is too small, and
\* converted to the user's charset by iconv, which may fail; iconv_dir_fill
\* passes on the names it can convert.
Leave ==
    /\ call # None /\ ~call.down
    /\ IF call.depth = 1 \/ call.held = 0 THEN call' = None
       ELSE \E fits \in BOOLEAN :
              LET l == fs[call.depth - 1]
                  got == call.op = "readlink" /\ call.ret = "ok" /\ call.link # None
              IN  call' = [call EXCEPT !.depth = @ - 1, !.held = @ - 1,
                             !.link = IF got /\ l = "subdir" /\ conf.rellinks /\ fits
                                      THEN Transform(@, Base \o call.at) ELSE @,
                             !.name = IF @ = None \/ l = "subdir" THEN @
                                      ELSE IF fits THEN Append(@, l) ELSE None,
                             !.ret = IF got /\ l = "iconv" /\ ~fits THEN "error" ELSE @]
    /\ UNCHANGED <<conf, fs, mods, fuse, ctx, log>>
-----------------------------------------------------------------------------
Init ==
    /\ conf \in Stacks
    /\ fs = <<User>> /\ mods = [m \in Modules |-> 0] /\ ctx = None /\ call = None
    /\ fuse = [phase |-> "new", nullpath_ok |-> "flag_nullpath_ok" \in conf.ops,
            nopath |-> "flag_nopath" \in conf.ops,
            want |-> {"SPLICE_READ", "POSIX_LOCKS", "FLOCK_LOCKS"}]
    /\ log = [inits |-> 0, destroys |-> 0, freed |-> 0, calls |-> 0]

Next ==
    \/ \E m \in Modules : Push(m)
    \/ PushFails \/ InitLayers \/ DestroyLayers
    \/ \E op \in Calls : BeginCall(op)
    \/ Enter \/ Leave
Spec == Init /\ [][Next]_vars
-----------------------------------------------------------------------------
Pushed == SelectSeq(Reverse(fs), LAMBDA l : l # User)
\* The conversions a path must have been through at the user's operation.
Owed(op, i) == SelectSeq(Reverse(Pushed), LAMBDA l : ~(l = "subdir" /\ op = "symlink" /\ i = 1))
NullPathFlag == {"flag_nullpath_ok", "flag_nopath"} \cap conf.ops # {}
\* The user's operation is called with its own private_data and with paths
\* that every layer above has converted once, in the order of the stack;
\* except for flush and lock it gets no path only if it said it could do
\* without one; a name it puts into a directory reaches the library converted
\* back by every iconv layer.  Capabilities are asked of the kernel only if the user's
\* file system has the operation they need.
LayersTransparent ==
    /\ call # None /\ call.seen # None =>
          /\ call.seen.ctx = Bottom
          /\ call.seen.op \in conf.ops
          /\ \A i \in DOMAIN call.seen.paths :
                IF call.seen.paths[i] = None
                THEN NullPathFlag \/ call.op \in {"flush", "lock"}
                ELSE call.seen.paths[i] = Owed(call.op, i)
          /\ call.depth = 1 /\ call.name # None =>
                Len(call.name) = Cardinality({i \in DOMAIN fs : fs[i] = "iconv"})
    /\ fuse.phase = "ready" =>
          /\ "SPLICE_READ" \in fuse.want => "write_buf" \in conf.ops
          /\ "POSIX_LOCKS" \in fuse.want => "lock" \in conf.ops
          /\ "FLOCK_LOCKS" \in fuse.want => "flock" \in conf.ops

\* What fuse.h says of flag_nullpath_ok: a NULL path is passed only to a file
\* system that sets it, and only to these operations.
NullPathAgreed ==
    call # None /\ call.seen # None /\ call.seen.paths[1] = None =>
        /\ NullPathFlag
        /\ call.seen.op \in {"read", "read_buf", "write", "write_buf", "flush", "release", "fsync",
                             "readdir", "releasedir", "fsyncdir", "ftruncate", "fgetattr",
                             "lock", "ioctl", "poll"}

\* A link that subdir made relative leads, from the directory it is in, to
\* where the absolute one led, and never needs the base directory's parent.
Follow(dir, names) ==
    FoldLeft(LAMBDA d, n : IF n = ".." THEN Front(d) ELSE Append(d, n), dir, names)
LinksKept ==
    call # None /\ call.link # None /\ ~call.link.abs =>
        LET dir == Front(Base \o call.at)
            ups == Len(SelectSeq(call.link.to, LAMBDA n : n = ".."))
        IN  /\ Len(dir) - ups >= Len(Base)
            /\ Follow(dir, call.link.to) = call.link.was

\* The user's destroy is called once, and only after its init; when the
\* stack is gone every layer was freed once and no module is referenced,
\* also if the stack was never finished; a call leaves no path allocated.
StackReleased ==
    /\ log.destroys <= 1
    /\ "init" \in conf.ops /\ log.destroys = 1 => log.inits = 1
    /\ fuse.phase = "gone" => \A m \in Modules : mods[m] = 0
    /\ call # None => call.held = call.depth - 1
=============================================================================

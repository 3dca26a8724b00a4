------------------------------ MODULE FuseProto ------------------------------
(***************************************************************************)
(* The protocol side of fuse_lowlevel.c and cuse_lowlevel.c: what an INIT  *)
(* message settles, which requests are refused before any operation sees   *)
(* them, what each do_* function reads from its message, which operation   *)
(* it calls, what is answered where the file system lacks the operation,   *)
(* and the layout of the answers.  The kernel is external; it speaks one   *)
(* of the versions of fuse_kernel.h.                                       *)
(***************************************************************************)
EXTENDS Integers, FiniteSets

CONSTANTS Majors, Minors,  \* versions of the kernel
          Sessions,        \* options and operations of the file system
          Pages,           \* size of the channel's buffer, in pages of 4 KiB
          MaxRequests      \* requests after INIT

VARIABLES kern,   \* the version and the features the kernel offers
          f,      \* struct fuse_ll
          last    \* the last message and what became of it

vars == <<kern, f, last>>
-----------------------------------------------------------------------------
(***************************************************************************)
(* The messages of fuse_kernel.h: the fields a request of minor version v  *)
(* carries, and the layout of an answer.                                   *)
(***************************************************************************)
EntryOps == {"LOOKUP", "SYMLINK", "MKNOD", "MKDIR", "LINK"}
NameOps == {"LOOKUP", "UNLINK", "RMDIR", "SYMLINK", "REMOVEXATTR"}
LockOps == {"GETLK", "SETLK", "SETLKW"}
Ops == EntryOps \cup NameOps \cup LockOps \cup
       {"FORGET", "BATCH_FORGET", "GETATTR", "SETATTR", "READLINK", "RENAME", "OPEN",
        "READ", "WRITE", "STATFS", "RELEASE", "FSYNC", "SETXATTR", "GETXATTR", "LISTXATTR",
        "FLUSH", "OPENDIR", "READDIR", "RELEASEDIR", "FSYNCDIR", "ACCESS", "CREATE", "BMAP",
        "IOCTL", "POLL", "FALLOCATE", "DESTROY"}
Since(v, n, fields) == IF v >= n THEN fields ELSE {}

Before(v, n, fields) == IF v < n THEN fields ELSE {}

\* The changelog of the protocol: the requests a kernel of version v sends.
Sends(v) == Ops \ (Before(v, 11, {"IOCTL", "POLL"}) \cup Before(v, 16, {"BATCH_FORGET"})
                   \cup Before(v, 19, {"FALLOCATE"}))

\* struct fuse_forget_in .. fuse_create_in.
NodeFields(op, v) ==
    CASE op \in NameOps            -> {"name"}
      [] op = "FORGET"             -> {"nlookup"}
      [] op = "BATCH_FORGET"       -> {"count", "forget_one"}
      [] op = "GETATTR"            -> Since(v, 9, {"getattr_flags", "fh"})
      [] op = "SETATTR"            -> {"valid", "fh", "attr"} \cup Since(v, 9, {"lock_owner"})
      [] op = "MKNOD"              -> {"mode", "rdev", "name"} \cup Since(v, 12, {"umask"})
      [] op = "MKDIR"              -> {"mode", "name"} \cup Since(v, 12, {"umask"})
      [] op = "RENAME"             -> {"newdir", "name"}
      [] op = "LINK"               -> {"oldnodeid", "name"}
      [] op \in {"OPEN", "OPENDIR"} -> {"flags"}
      [] op = "CREATE"             -> {"flags", "mode", "name"} \cup Since(v, 12, {"umask"})
      [] op = "ACCESS"             -> {"mask"}
      [] OTHER                     -> {}

\* struct fuse_release_in .. fuse_fallocate_in.
FileFields(op, v) ==
    CASE op \in {"RELEASE", "RELEASEDIR"} ->
             {"fh", "flags"} \cup Since(v, 8, {"release_flags", "lock_owner"})
      [] op = "FLUSH"                  -> {"fh"} \cup Since(v, 7, {"lock_owner"})
      [] op \in {"READ", "READDIR"}    -> {"fh", "offset", "size"} \cup Since(v, 9, {"lock_owner", "flags"})
      [] op = "WRITE"                  -> {"fh", "offset", "size", "write_flags", "data"}
                                          \cup Since(v, 9, {"lock_owner", "flags"})
      [] op \in {"FSYNC", "FSYNCDIR"}  -> {"fh", "fsync_flags"}
      [] op = "SETXATTR"               -> {"size", "flags", "name", "data"}
      [] op = "GETXATTR"               -> {"size", "name"}
      [] op = "LISTXATTR"              -> {"size"}
      [] op \in LockOps                -> {"fh", "owner", "lk"} \cup Since(v, 9, {"lk_flags"})
      [] op = "BMAP"                   -> {"block", "blocksize"}
      [] op = "IOCTL"                  -> {"fh", "flags", "cmd", "arg", "size", "data"}
      [] op = "POLL"                   -> {"fh", "kh", "flags"}
      [] op = "FALLOCATE"              -> {"fh", "offset", "length", "mode"}
      [] OTHER                         -> {}
Carries(op, v) == NodeFields(op, v) \cup FileFields(op, v)

\* FUSE_COMPAT_*_SIZE and fuse_ioctl_iovec: the answers that changed.
Expects(op, v) ==
    IF op = "IOCTL" THEN IF v < 16 THEN "compat" ELSE "full"
    ELSE IF op \in EntryOps \cup {"CREATE", "GETATTR", "SETATTR"} /\ v < 9 THEN "compat"
    ELSE IF op = "STATFS" /\ v < 4 THEN "compat" ELSE "full"
-----------------------------------------------------------------------------
(***************************************************************************)
(* do_init and cuse_lowlevel_init.                                         *)
(***************************************************************************)
KernelFlags == {"POSIX_LOCKS", "ATOMIC_O_TRUNC", "EXPORT_SUPPORT", "BIG_WRITES",
                "DONT_MASK", "FLOCK_LOCKS"}
SpliceCaps == {"SPLICE_WRITE", "SPLICE_MOVE", "SPLICE_READ"}
Least(a, b) == IF a <= b THEN a ELSE b

\* What do_init wants on its own: from the options and the operations.
Wants(s, v) ==
    Since(v, 14, SpliceCaps \cap s.opts)
    \cup ({"ATOMIC_O_TRUNC", "BIG_WRITES"} \cap s.opts)
    \cup {c \in {"POSIX_LOCKS"} : {"GETLK", "SETLK"} \subseteq s.ops /\ "no_posix_lock" \notin s.opts}
    \cup {c \in {"FLOCK_LOCKS"} : "FLOCK" \in s.ops /\ "no_flock" \notin s.opts}

\* Mutant of Background: the congestion threshold is not limited.
BackgroundAny(s, v) ==
    LET bg == Least(s.background, 2^16 - 1)
    IN  IF v < 13 THEN [bg |-> 0, ct |-> 0]
        ELSE [bg |-> bg, ct |-> IF s.congestion = 0 THEN (bg * 3) \div 4 ELSE s.congestion]
\* The bounds of the 16-bit fields max_background and congestion_threshold.
Background(s, v) ==
    LET bg == Least(s.background, 2^16 - 1)
        ct == Least(s.congestion, bg)
    IN  IF v < 13 THEN [bg |-> 0, ct |-> 0]
        ELSE [bg |-> bg, ct |-> IF ct = 0 THEN (bg * 3) \div 4 ELSE ct]

\* The INIT of a kernel of major version 7; op.init may ask for more
\* (s.init), the no_splice options have the last word.
Negotiated(k, s) ==
    LET async == IF k.minor >= 6 THEN "ASYNC_READ" \in k.flags /\ "sync_read" \notin s.opts ELSE FALSE
        want == (Wants(s, k.minor) \cup s.init) \ {c \in SpliceCaps : <<"no", c>> \in s.never}
    IN  [minor |-> k.minor, want |-> want,
         flags |-> (want \cap KernelFlags) \cup
                   (IF async \/ "ASYNC_READ" \in want THEN {"ASYNC_READ"} ELSE {}),
         readahead |-> IF k.minor >= 6 THEN Least(k.readahead, s.readahead) ELSE 0,
         max_write |-> Least(s.max_write, (IF Pages < 2 THEN 2 ELSE Pages) - 1),
         background |-> Background(s, k.minor),
         size |-> IF k.minor < 5 THEN "short" ELSE "full"]

DoInit ==
    IF kern.major < 7 THEN [f |-> f, reply |-> "EPROTO"]
    \* a newer kernel will send a second INIT
    ELSE IF kern.major > 7 THEN [f |-> f, reply |-> "version"]
    ELSE [f |-> [f EXCEPT !.conn = Negotiated(kern, f.s), !.got_init = TRUE], reply |-> "ok"]

\* cuse_lowlevel_init: no features are exchanged.
CuseInit ==
    IF kern.major < 7 THEN [f |-> f, reply |-> "EPROTO"]
    ELSE [f |-> [f EXCEPT !.conn = [Negotiated(kern, f.s) EXCEPT
                             !.want = f.s.init, !.flags = {}, !.readahead = 0,
                             !.background = [bg |-> 0, ct |-> 0], !.size = "full"],
                          !.got_init = TRUE],
          reply |-> "ok"]
-----------------------------------------------------------------------------
(***************************************************************************)
(* The do_* functions: the fields a handler reads before it calls the      *)
(* operation or answers.                                                   *)
(***************************************************************************)
\* do_lookup, do_forget, do_batch_forget.
ReadsLookup(op, v) ==
    CASE op = "LOOKUP" -> {"name"} [] op = "FORGET" -> {"nlookup"}
      [] op = "BATCH_FORGET" -> {"count", "forget_one"} [] OTHER -> {}

\* do_getattr, do_setattr, do_access.
ReadsAttr(op, v) ==
    CASE op = "GETATTR" -> IF v >= 9 THEN {"getattr_flags", "fh"} ELSE {}
      [] op = "SETATTR" -> {"attr", "valid", "fh"}
      [] op = "ACCESS"  -> {"mask"} [] OTHER -> {}

\* do_readlink .. do_link.
ReadsNode(op, v) ==
    CASE op = "MKNOD"  -> {"name", "mode", "rdev"} \cup (IF v >= 12 THEN {"umask"} ELSE {})
      [] op = "MKDIR"  -> {"name", "mode"} \cup (IF v >= 12 THEN {"umask"} ELSE {})
      [] op \in {"UNLINK", "RMDIR", "SYMLINK"} -> {"name"}
      [] op = "RENAME" -> {"name", "newdir"}
      [] op = "LINK"   -> {"name", "oldnodeid"} [] OTHER -> {}

\* do_create, do_open, do_read, do_write, do_write_buf.
ReadsOpen(op, v) ==
    CASE op = "CREATE" -> {"flags", "name", "mode"} \cup (IF v >= 12 THEN {"umask"} ELSE {})
      [] op = "OPEN"   -> {"flags"}
      [] op = "READ"   -> {"fh", "size", "offset"} \cup (IF v >= 9 THEN {"lock_owner", "flags"} ELSE {})
      [] op = "WRITE"  -> {"fh", "write_flags", "data", "size", "offset"}
                          \cup (IF v < 9 THEN {} ELSE {"lock_owner", "flags"})
      [] OTHER -> {}

\* do_flush .. do_fsyncdir.
ReadsFile(op, v) ==
    CASE op = "FLUSH"   -> {"fh"} \cup (IF v >= 7 THEN {"lock_owner"} ELSE {})
      [] op = "RELEASE" -> {"flags", "fh"} \cup (IF v >= 8 THEN {"release_flags", "lock_owner"} ELSE {})
      [] op \in {"FSYNC", "FSYNCDIR"} -> {"fh", "fsync_flags"}
      [] op = "OPENDIR" -> {"flags"}
      [] op = "READDIR" -> {"fh", "size", "offset"}
      [] op = "RELEASEDIR" -> {"flags", "fh"} [] OTHER -> {}

\* do_statfs .. do_removexattr.
ReadsXattr(op, v) ==
    CASE op = "SETXATTR"    -> {"name", "data", "size", "flags"}
      [] op = "GETXATTR"    -> {"name", "size"}
      [] op = "LISTXATTR"   -> {"size"}
      [] op = "REMOVEXATTR" -> {"name"} [] OTHER -> {}

\* do_getlk, do_setlk_common: the flags say whether it is a flock.
ReadsLock(op, v) ==
    CASE op = "GETLK" -> {"fh", "owner", "lk"}
      [] op \in {"SETLK", "SETLKW"} -> {"fh", "owner", "lk", "lk_flags"} [] OTHER -> {}

\* do_bmap, do_ioctl, do_poll, do_fallocate.
ReadsDevice(op, v) ==
    CASE op = "BMAP"  -> {"blocksize", "block"}
      [] op = "IOCTL" -> {"flags", "size", "data", "fh", "cmd", "arg"}
      [] op = "POLL"  -> {"fh", "flags", "kh"}
      [] op = "FALLOCATE" -> {"fh", "mode", "offset", "length"} [] OTHER -> {}

Reads(op, v) ==
    UNION {ReadsLookup(op, v), ReadsAttr(op, v), ReadsNode(op, v), ReadsOpen(op, v),
           ReadsFile(op, v), ReadsXattr(op, v), ReadsLock(op, v), ReadsDevice(op, v)}

\* The operation a message goes to: do_setlk_common tells flock from setlk,
\* do_batch_forget prefers forget_multi, do_write is the fallback of
\* do_write_buf, and the other handlers have one operation each.
Operation(op, flock) ==
    CASE op \in {"SETLK", "SETLKW"} -> IF flock THEN "FLOCK" ELSE "SETLK"
      [] op = "BATCH_FORGET" -> IF "FORGET_MULTI" \in f.s.ops THEN "FORGET_MULTI" ELSE "FORGET"
      [] op = "WRITE" -> IF "WRITE_BUF" \in f.s.ops THEN "WRITE_BUF" ELSE "WRITE"
      [] OTHER -> op

\* The answer where the file system lacks the operation.
Missing(op) ==
    CASE op \in {"FORGET", "BATCH_FORGET"}              -> "none"
      [] op \in {"OPEN", "OPENDIR", "STATFS"}           -> "ok"
      [] op \in {"RELEASE", "RELEASEDIR", "DESTROY"}    -> "ok"
      [] OTHER                                          -> "ENOSYS"

\* cuse_lowlevel_new: the operations a character device can have.
CuseOps == {"OPEN", "READ", "WRITE", "FLUSH", "RELEASE", "FSYNC", "IOCTL", "POLL", "DESTROY"}
Implemented == IF f.s.cuse THEN f.s.ops \cap CuseOps ELSE f.s.ops

\* fuse_reply_entry, fuse_reply_create, fuse_reply_attr, fuse_reply_statfs
\* and fuse_reply_ioctl_retry: the layout of an answer.
Layout(op, v) ==
    CASE op \in EntryOps \cup {"CREATE"}     -> IF v < 9 THEN "compat" ELSE "full"
      [] op \in {"GETATTR", "SETATTR"}       -> IF v < 9 THEN "compat" ELSE "full"
      [] op = "STATFS"                       -> IF v < 4 THEN "compat" ELSE "full"
      [] op = "IOCTL"                        -> IF v < 16 THEN "compat" ELSE "full"
      [] OTHER                               -> "full"

\* What an operation may answer: success, an errno, a number that is none
\* (fuse_send_reply_iov_nofree), and, to a lookup, that there is no such
\* entry (fuse_reply_entry).
Replies(op) ==
    IF op \in {"FORGET", "BATCH_FORGET"} THEN {"none"}
    ELSE {"ok", "errno", "ERANGE"} \cup
         (IF op \in EntryOps THEN {IF f.conn.minor < 4 THEN "ENOENT" ELSE "negative"} ELSE {})
-----------------------------------------------------------------------------
(***************************************************************************)
(* fuse_ll_process_buf.                                                    *)
(***************************************************************************)
Uids == {"owner", "root", "other"}
InitOps == {"INIT", "CUSE_INIT"}
\* Operations on files that are open already.
OpenFileOps == {"READ", "WRITE", "FSYNC", "RELEASE", "READDIR", "FSYNCDIR", "RELEASEDIR",
                "NOTIFY_REPLY"}

Unexpected(op) ==
    IF ~f.got_init THEN op # (IF f.s.cuse THEN "CUSE_INIT" ELSE "INIT") ELSE op \in InitOps
Denied(op, uid) ==
    /\ "allow_root" \in f.s.opts /\ uid \notin {"owner", "root"}
    /\ op \notin OpenFileOps \cup {"INIT"}

Outcome(op, uid, call, reads, reply) ==
    last' = [op |-> op, uid |-> uid, call |-> call, reads |-> reads, reply |-> reply,
             layout |-> IF reply \in {"ok", "negative"} THEN Layout(op, f.conn.minor) ELSE "header"]

Refuse(op, uid) ==
    /\ Unexpected(op) \/ Denied(op, uid)
    /\ Outcome(op, uid, "refused", {}, IF Unexpected(op) THEN "EIO" ELSE "EACCES")
    /\ UNCHANGED f

Initialise(op, uid) ==
    /\ op \in InitOps /\ ~Unexpected(op) /\ ~Denied(op, uid)
    /\ LET r == IF op = "INIT" THEN DoInit ELSE CuseInit
       IN  /\ f' = r.f
           /\ last' = [op |-> op, uid |-> uid, call |-> "init", reads |-> {}, reply |-> r.reply,
                       layout |-> IF r.reply = "ok" THEN r.f.conn.size ELSE "header"]

\* The func of fuse_ll_ops: it calls the operation, which answers, or
\* answers itself; an ioctl on a directory is refused unless wanted.
Dispatch(op, uid, flock, dir) ==
    /\ op \notin InitOps /\ ~Unexpected(op) /\ ~Denied(op, uid)
    /\ LET v == f.conn.minor
           call == Operation(op, flock)
       IN  IF op = "IOCTL" /\ dir /\ "IOCTL_DIR" \notin f.conn.want
           THEN Outcome(op, uid, "refused", {"flags"}, "ENOTTY")
           ELSE IF call \in Implemented
           THEN \E reply \in Replies(op) : Outcome(op, uid, call, Reads(op, v), reply)
           ELSE Outcome(op, uid, "missing", Reads(op, v), Missing(op))
    /\ f' = IF op = "DESTROY" THEN [f EXCEPT !.got_destroy = TRUE] ELSE f
-----------------------------------------------------------------------------
\* external: a kernel sends INIT first, a second one in major version 7 if
\* that was too new; then requests, DESTROY the last.
NextInit ==
    /\ kern.phase = "init" /\ \E uid \in Uids : Initialise(kern.init, uid) \/ Refuse(kern.init, uid)
    /\ kern' = CASE last'.reply = "version" -> [kern EXCEPT !.major = 7]
                 [] last'.reply = "ok"      -> [kern EXCEPT !.phase = "requests"]
                 [] OTHER                   -> [kern EXCEPT !.phase = "failed"]

NextRequest ==
    /\ kern.phase = "requests" /\ kern.sent < MaxRequests
    /\ \E op \in Sends(kern.minor), uid \in Uids, flock, dir \in BOOLEAN :
          /\ flock => kern.minor >= 9 /\ op \in LockOps
          /\ dir => kern.minor >= 18 /\ op = "IOCTL"
          /\ Refuse(op, uid) \/ Dispatch(op, uid, flock, dir)
          /\ kern' = [kern EXCEPT !.sent = @ + 1, !.phase = IF op = "DESTROY" THEN "done" ELSE @]

Nothing == [op |-> "INIT", uid |-> "root", call |-> "none", reads |-> {}, reply |-> "none",
            layout |-> "header"]
Init ==
    /\ \E major \in Majors, minor \in Minors, s \in Sessions,
          flags \in {{}, KernelFlags \cup {"ASYNC_READ"}}, readahead \in {1, 3} :
          /\ kern = [major |-> major, minor |-> minor, flags |-> flags, readahead |-> readahead,
                     init |-> IF s.cuse THEN "CUSE_INIT" ELSE "INIT", phase |-> "init", sent |-> 0]
          /\ f = [s |-> s, conn |-> [Negotiated(kern, s) EXCEPT !.want = {}, !.minor = 0],
                  got_init |-> FALSE, got_destroy |-> FALSE]
    /\ last = Nothing

Next == NextInit \/ NextRequest
Spec == Init /\ [][Next]_vars
-----------------------------------------------------------------------------
\* The library reads from a request only what a kernel of the negotiated
\* version put there, and answers in the layout this kernel expects: every
\* handler's test of proto_minor against the changelog of fuse_kernel.h.
\* One field is outside it: do_setlk_common looks at lk_flags, which a
\* kernel older than 7.9 does not send.
SpeaksKernelVersion ==
    kern.phase \in {"requests", "done"} /\ last.call \notin {"init", "refused"} =>
        LET v == kern.minor
        IN  /\ last.reads \subseteq Carries(last.op, v) \cup {"lk_flags"}
            /\ last.layout # "header" => last.layout = Expects(last.op, v)
            /\ last.reply = "negative" => v >= 4
            /\ (last.reply = "none") <=> last.op \in {"FORGET", "BATCH_FORGET"}

\* No operation is called before an INIT has settled the version and the
\* features, none with a user the allow_root option shuts out unless the
\* file is open already, and none the file system does not have.
CallsLegitimate ==
    last.call \notin {"none", "init", "refused", "missing"} =>
        /\ f.got_init /\ f.conn.minor = kern.minor
        /\ last.call \in f.s.ops
        /\ "allow_root" \in f.s.opts /\ last.uid = "other" => last.op \in OpenFileOps

\* What do_init announces fits the kernel and the 16-bit fields of the
\* answer: a write fits the receive buffer, the congestion threshold does
\* not exceed the background limit, nothing is read ahead of what the
\* kernel allows, splicing only where both sides can and may.
NegotiationSound ==
    f.got_init =>
        LET c == f.conn
        IN  /\ c.max_write >= 1 /\ (Pages >= 2 => c.max_write < Pages)
            /\ c.background.bg \in 0..(2^16 - 1) /\ c.background.ct \in 0..c.background.bg
            /\ c.readahead <= kern.readahead
            /\ "ASYNC_READ" \in c.flags => "ASYNC_READ" \in kern.flags \/ "ASYNC_READ" \in f.s.init
            /\ \A x \in SpliceCaps : x \in c.want /\ ~f.s.cuse => <<"no", x>> \notin f.s.never
=============================================================================

------------------------------- MODULE FuseFs --------------------------------
(***************************************************************************)
(* What the handlers fuse_lib_* of fuse.c do besides names (FuseNodes):    *)
(* the calls a request makes to the user's file system and what happens    *)
(* when one of them fails, the interruption of a call, the decision to     *)
(* keep the kernel's cache of a file (auto_cache), and directory handles.  *)
(* There is one file and one directory, shared by the worker threads.      *)
(***************************************************************************)
EXTENDS Integers, Sequences, FiniteSets, SequencesExt

CONSTANTS Workers,
          Valids,         \* the attributes a SETATTR may ask for
          Cookies,        \* the entries of the directory, by their offset
          Window,         \* the entries a READDIR has room for
          MaxOpens,       \* opens in progress at a time
          SeekAfterEnd,   \* seekdir after the end was read, with offsets
          Loads,          \* what the kernel and others do: kinds of request,
                          \* their number, which replies it refuses as the
                          \* caller is gone, changes, and the option intr
          None

VARIABLES user,     \* the user's file system
          node,   \* struct node: cache_valid, and mtime and size as a version
          dh,     \* struct fuse_dh of the directory, None if it is not open
          req,    \* the request of each worker
          intr,   \* the thread that processes INTERRUPT
          kernel,   \* the kernel: page cache, handles
          scan    \* an application that reads the directory

vars == <<user, node, dh, req, intr, kernel, scan>>
-----------------------------------------------------------------------------
(***************************************************************************)
(* The calls of a request, in the order of the handlers.                   *)
(***************************************************************************)
If(c, op) == IF c THEN <<op>> ELSE <<>>
\* fuse_lib_setattr; without utime_omit_ok one time alone is not set.
Setattr(valid) ==
    LET times == valid \cap {"atime", "mtime"}
    IN  If("mode" \in valid, "chmod") \o If("uid" \in valid, "chown")
        \o If("size" \in valid, "truncate")
        \o If(IF user.utime_omit_ok THEN times # {} ELSE Cardinality(times) = 2, "utimens")
        \o <<"getattr">>
Sets(op, valid) ==
    valid \cap CASE op = "chmod" -> {"mode"} [] op = "chown" -> {"uid"} [] op = "truncate" -> {"size"}
                 [] op = "utimens" -> {"atime", "mtime"} [] OTHER -> {}
\* fuse_lib_mknod of a regular file; the other handlers make one call.
Program(r) ==
    CASE r.kind = "setattr" -> Setattr(r.valid)
      [] r.kind = "getattr" -> <<"getattr">>
      [] r.kind = "open"    -> <<"open", "cache">>
      [] r.kind = "mknod"   -> <<"create", "lookup", "release">>
      [] r.kind = "readdir" -> If(~dh.filled \/ r.off = 0, "readdir")
      [] OTHER              -> <<r.kind>>

Request(k) == [kind |-> k, pc |-> "prepare", valid |-> {}, off |-> 0, prog |-> <<>>, done |-> {},
               err |-> "none", stat |-> 0, keep |-> FALSE, began |-> user.version, reply |-> <<>>,
               func |-> FALSE, finished |-> FALSE, interrupted |-> FALSE, lock |-> None]
Idle == [Request("none") EXCEPT !.pc = "idle", !.began = 0]
Active(k) == {w \in Workers : req[w].kind = k}

\* The kernel's requests: a directory is read and closed by one process.
Begin(w) ==
    /\ req[w].pc = "idle" /\ kernel.sent < kernel.load.requests
    /\ \E r \in {[Request("setattr") EXCEPT !.valid = v] : v \in Valids}
                \cup {Request(k) : k \in {"getattr", "mknod"}}
                \cup {Request(k) : k \in IF Cardinality(Active("open")) < MaxOpens THEN {"open"} ELSE {}}
                \cup {Request(k) : k \in IF kernel.open > 0 /\ Active("release") = {} THEN {"release"} ELSE {}}
                \cup {Request(k) : k \in IF dh = None /\ Active("opendir") = {} THEN {"opendir"} ELSE {}}
                \cup (IF kernel.dir /\ Active("readdir") \cup Active("releasedir") = {}
                      THEN {[Request("readdir") EXCEPT !.off = scan.off], Request("releasedir")} ELSE {}) :
          /\ r.kind \in kernel.load.kinds
          /\ req' = [req EXCEPT ![w] = r]
          /\ dh' = IF r.kind = "opendir" THEN [contents |-> <<>>, filled |-> FALSE] ELSE dh
    /\ kernel' = [kernel EXCEPT !.sent = @ + 1]
    /\ UNCHANGED <<user, node, intr, scan>>

\* fuse_prepare_interrupt: fuse_req_interrupt_func(req, fuse_interrupt, d),
\* which calls fuse_interrupt, with no effect in its own thread.
Prepare(w) ==
    /\ req[w].pc = "prepare" /\ req[w].lock = None
    /\ req' = [req EXCEPT ![w].pc = "call", ![w].func = TRUE, ![w].prog = Program(req[w])]
    /\ dh' = IF req[w].kind = "readdir" /\ req[w].off = 0 THEN [dh EXCEPT !.filled = FALSE] ELSE dh
    /\ UNCHANGED <<user, node, intr, kernel, scan>>
-----------------------------------------------------------------------------
(***************************************************************************)
(* auto_cache: a version stands for mtime and size of a state of the file. *)
(***************************************************************************)
UpdateStat(n, version) == [cache_valid |-> n.cache_valid /\ n.version = version, version |-> version]

\* open_auto_cache; ac_attr_timeout is 0, so a valid cache is checked by an
\* fgetattr, made without f->lock.
OpenAutoCache(w) ==
    LET r == req[w]
    IN  IF r.prog[1] = "cache" /\ node.cache_valid
        THEN req' = [req EXCEPT ![w].prog = <<"fgetattr", "keep">>] /\ UNCHANGED node
        ELSE LET n == IF r.prog[1] = "cache" THEN node
                      ELSE IF r.err = "stat" THEN [node EXCEPT !.cache_valid = FALSE]
                      ELSE UpdateStat(node, r.stat)
             IN  /\ node' = [n EXCEPT !.cache_valid = TRUE]
                 /\ req' = [req EXCEPT ![w].keep = n.cache_valid, ![w].prog = <<>>, ![w].err = "none"]
-----------------------------------------------------------------------------
(***************************************************************************)
(* Directories: fill_dir and readdir_fill.  The user's readdir passes all  *)
(* entries with offset 0 ("whole"), or those after an offset, each with    *)
(* its own offset, until the buffer is full.                               *)
(***************************************************************************)
Entries(names) ==
    LET s == SetToSortSeq(names, <) IN [i \in DOMAIN s |-> [name |-> s[i], off |-> IF user.whole THEN i ELSE s[i]]]
ReaddirFill(off) ==
    LET after == {c \in user.present : c > off}
        fit == {c \in after : Cardinality({d \in after : d <= c}) <= Window}
    IN  IF user.whole THEN [contents |-> Entries(user.present), filled |-> TRUE]
        ELSE [contents |-> Entries(fit), filled |-> after = {}]
\* fuse_lib_readdir: the part of the contents it replies.
ReaddirReply(off) ==
    IF ~dh.filled THEN dh.contents
    ELSE SubSeq(dh.contents, off + 1, IF off + Window > Len(dh.contents) THEN Len(dh.contents) ELSE off + Window)
-----------------------------------------------------------------------------
(***************************************************************************)
(* One call of a request.                                                  *)
(***************************************************************************)
Changes(op) == op \in {"truncate", "utimens"}
Acquires(op) == op \in {"open", "create", "opendir"}
Releases(op) == op \in {"release", "releasedir"}
\* Mutant of AfterError: what was created is not released.
AfterErrorKeeps(w, op) ==
    IF op = "create" THEN {<<>>, <<"mknod", "lookup">>}
    ELSE IF op = "fgetattr" THEN {<<"keep">>} ELSE {<<>>}
\* After a failed call a handler makes no other, with three exceptions:
\* mknod after a create that is not implemented, release after a failed
\* lookup of what was created, open_auto_cache without attributes.
AfterError(w, op) ==
    CASE op = "create" -> {<<>>, <<"mknod", "lookup">>}
      [] op = "lookup" -> {Tail(req[w].prog)}
      [] op = "fgetattr" -> {<<"keep">>}
      [] OTHER -> {<<>>}

Call(w) ==
    LET r == req[w]
        op == Head(r.prog)
    IN  /\ r.pc = "call" /\ r.prog # <<>> /\ op \notin {"cache", "keep"}
        /\ user' = [user EXCEPT !.version = IF Changes(op) THEN @ + 1 ELSE @,
                            !.handles = IF Acquires(op) THEN @ + 1 ELSE IF Releases(op) THEN @ - 1 ELSE @]
        /\ req' = [req EXCEPT ![w].prog = Tail(@), ![w].stat = user.version,
                              ![w].done = @ \cup Sets(op, r.valid)]
        /\ dh' = IF op = "readdir" THEN ReaddirFill(r.off) ELSE dh
        /\ UNCHANGED <<node, intr, kernel, scan>>
CallFails(w) ==
    LET r == req[w]
        op == Head(r.prog)
    IN  /\ r.pc = "call" /\ r.prog # <<>> /\ op \notin {"cache", "keep", "release", "releasedir"}
        /\ \E prog \in AfterError(w, op) :
              req' = [req EXCEPT ![w].prog = prog,
                        ![w].err = CASE op = "fgetattr" -> "stat"
                                     [] op = "create" /\ prog # <<>> -> "none" [] OTHER -> "error"]
        /\ dh' = IF op = "readdir" THEN [dh EXCEPT !.filled = FALSE] ELSE dh
        /\ UNCHANGED <<user, node, intr, kernel, scan>>
CheckCache(w) ==
    /\ req[w].pc = "call" /\ req[w].prog # <<>> /\ Head(req[w].prog) \in {"cache", "keep"}
    /\ OpenAutoCache(w)
    /\ UNCHANGED <<user, dh, intr, kernel, scan>>

\* fuse_do_finish_interrupt, in two steps: finished is set with f->lock, and
\* fuse_req_interrupt_func(req, NULL, NULL) waits for req->lock.
Finished(w) ==
    /\ req[w].pc = "call" /\ req[w].prog = <<>>
    /\ req' = [req EXCEPT ![w].pc = "finish", ![w].finished = TRUE]
    /\ UNCHANGED <<user, node, dh, intr, kernel, scan>>
Finish(w) ==
    /\ req[w].pc = "finish" /\ req[w].lock = None
    /\ req' = [req EXCEPT ![w].pc = "reply", ![w].func = FALSE,
                 ![w].reply = IF req[w].kind = "readdir" /\ req[w].err = "none" THEN ReaddirReply(req[w].off) ELSE <<>>]
    /\ node' = IF req[w].kind \in {"getattr", "setattr"} /\ req[w].err = "none"
               THEN UpdateStat(node, req[w].stat) ELSE node
    /\ UNCHANGED <<user, dh, intr, kernel, scan>>

\* The reply and what the kernel does with it; the reply to an open or
\* opendir that was interrupted is refused, and the handle released.
Reply(w) ==
    /\ req[w].pc = "reply" /\ req[w].lock = None
    /\ LET r == req[w]
           ok == r.err = "none"
       IN  \E refused \in IF ok /\ r.kind \in kernel.load.refuse THEN BOOLEAN ELSE {FALSE} :
             /\ user' = IF refused THEN [user EXCEPT !.handles = @ - 1] ELSE user
             /\ kernel' = [kernel EXCEPT
                   !.open = CASE r.kind = "open" /\ ok /\ ~refused -> @ + 1 [] r.kind = "release" -> @ - 1
                              [] OTHER -> @,
                   !.dir = CASE r.kind = "opendir" -> ok /\ ~refused [] r.kind = "releasedir" -> FALSE
                             [] OTHER -> @,
                   !.cached = IF r.kind = "open" /\ ok /\ ~refused /\ ~r.keep THEN None ELSE @]
             /\ dh' = IF r.kind = "releasedir" \/ (r.kind = "opendir" /\ (~ok \/ refused)) THEN None ELSE dh
             /\ scan' = CASE r.kind = "readdir" /\ ok /\ r.reply # <<>> ->
                              [scan EXCEPT !.off = Last(r.reply).off, !.got = @ \o [i \in DOMAIN r.reply |-> r.reply[i].name]]
                          [] r.kind = "readdir" /\ ok -> [scan EXCEPT !.end = TRUE]
                          [] r.kind = "opendir" -> [off |-> 0, got |-> <<>>, end |-> FALSE, always |-> user.present, ever |-> user.present]
                          [] OTHER -> scan
    /\ req' = [req EXCEPT ![w] = Idle]
    /\ UNCHANGED <<node, intr>>
-----------------------------------------------------------------------------
(***************************************************************************)
(* find_interrupted and fuse_interrupt, in the thread that got INTERRUPT.  *)
(***************************************************************************)
Interrupt(w) ==
    /\ kernel.load.intr /\ intr.at = "idle" /\ req[w].pc # "idle" /\ ~req[w].interrupted /\ req[w].lock = None
    /\ req' = [req EXCEPT ![w].lock = "intr", ![w].interrupted = TRUE]
    /\ intr' = [intr EXCEPT !.of = w, !.at = IF req[w].func THEN "func" ELSE "unlock"]
    /\ UNCHANGED <<user, node, dh, kernel, scan>>
\* pthread_kill, then pthread_cond_timedwait, which a broadcast or the time
\* ends.
Kill ==
    /\ intr.at = "func"
    /\ intr' = IF req[intr.of].finished THEN [intr EXCEPT !.at = "unlock"]
               ELSE [intr EXCEPT !.at = "wait", !.signalled = intr.of]
    /\ UNCHANGED <<user, node, dh, req, kernel, scan>>
TimedWait ==
    /\ intr.at = "wait"
    /\ intr' = [intr EXCEPT !.at = "func", !.signalled = None]
    /\ UNCHANGED <<user, node, dh, req, kernel, scan>>
Unlock ==
    /\ intr.at = "unlock"
    /\ req' = [req EXCEPT ![intr.of].lock = None]
    /\ intr' = [at |-> "idle", of |-> None, signalled |-> None]
    /\ UNCHANGED <<user, node, dh, kernel, scan>>
-----------------------------------------------------------------------------
(***************************************************************************)
(* What others do: another program changes the file or the directory, the  *)
(* kernel reads the file into its cache, the application rewinds.          *)
(***************************************************************************)
ChangeFile ==
    /\ user.changes < kernel.load.changes
    /\ user' = [user EXCEPT !.version = @ + 1, !.changes = @ + 1]
    /\ UNCHANGED <<node, dh, req, intr, kernel, scan>>
ChangeDir(c) ==
    /\ user.changes < kernel.load.changes
    /\ LET now == IF c \in user.present THEN user.present \ {c} ELSE user.present \cup {c}
       IN  /\ user' = [user EXCEPT !.present = now, !.changes = @ + 1]
           /\ scan' = [scan EXCEPT !.always = @ \cap now, !.ever = @ \cup now]
    /\ UNCHANGED <<node, dh, req, intr, kernel>>
ReadFile ==
    /\ kernel.open > 0 /\ kernel.cached = None
    /\ kernel' = [kernel EXCEPT !.cached = user.version]
    /\ UNCHANGED <<user, node, dh, req, intr, scan>>
Rewind ==
    /\ kernel.dir /\ Active("readdir") = {} /\ scan.off # 0
    /\ scan' = [off |-> 0, got |-> <<>>, end |-> FALSE, always |-> user.present, ever |-> user.present]
    /\ UNCHANGED <<user, node, dh, req, intr, kernel>>
\* seekdir to the offset of an entry that was read.
SeekBack ==
    /\ kernel.dir /\ Active("readdir") = {} /\ Len(scan.got) > 1
    /\ scan.end => user.whole \/ SeekAfterEnd
    /\ scan' = [scan EXCEPT !.off = IF user.whole THEN 1 ELSE Head(scan.got), !.got = <<Head(@)>>, !.end = FALSE]
    /\ UNCHANGED <<user, node, dh, req, intr, kernel>>
-----------------------------------------------------------------------------
Init ==
    /\ \E load \in Loads :
          kernel = [open |-> 0, dir |-> FALSE, cached |-> None, sent |-> 0, load |-> load]
    /\ \E whole, omit \in BOOLEAN :
          /\ whole => "readdir" \in kernel.load.kinds
          /\ omit => "setattr" \in kernel.load.kinds
          /\ user = [version |-> 1, handles |-> 0, present |-> Cookies, whole |-> whole, utime_omit_ok |-> omit,
                   changes |-> 0]
    /\ node = [cache_valid |-> FALSE, version |-> 1]
    /\ dh = None
    /\ req = [w \in Workers |-> Idle]
    /\ intr = [at |-> "idle", of |-> None, signalled |-> None]
    /\ scan = [off |-> 0, got |-> <<>>, end |-> FALSE, always |-> Cookies, ever |-> Cookies]

Worker(w) ==
    Begin(w) \/ Prepare(w) \/ Call(w) \/ CallFails(w) \/ CheckCache(w) \/ Finished(w) \/ Finish(w) \/ Reply(w)
Others ==
    ChangeFile \/ (\E c \in Cookies : ChangeDir(c)) \/ ReadFile \/ Rewind \/ SeekBack
Next ==
    \/ \E w \in Workers : Worker(w) \/ Interrupt(w)
    \/ Kill \/ TimedWait \/ Unlock \/ Others
Spec == Init /\ [][Next]_vars
-----------------------------------------------------------------------------
\* A SETATTR is answered with success only if every attribute asked for was
\* set (one time alone is not, without utime_omit_ok), and no handler leaves
\* a handle of the user's file system open, or a directory handle allocated,
\* that the kernel does not hold, whatever call failed or was interrupted.
HandlersSound ==
    /\ \A w \in Workers : LET r == req[w] IN
          r.kind = "setattr" /\ r.pc = "reply" /\ r.err = "none" =>
             r.done = IF ~user.utime_omit_ok /\ Cardinality(r.valid \cap {"atime", "mtime"}) = 1
                      THEN r.valid \ {"atime", "mtime"} ELSE r.valid
    /\ (\A w \in Workers : req[w].pc = "idle") =>
          /\ user.handles = kernel.open + (IF kernel.dir THEN 1 ELSE 0)
          /\ dh # None <=> kernel.dir

\* The thread that interrupts a request uses the request's data, and sends
\* signals to its thread, only while its handler is in a call.
InterruptsInTime ==
    /\ intr.at \in {"func", "wait"} => req[intr.of].pc \in {"call", "finish"} /\ req[intr.of].func
    /\ intr.signalled # None => req[intr.signalled].pc \in {"call", "finish"}

\* auto_cache, ac_attr_timeout = 0: an open that keeps the kernel's cache
\* finds data in it at least as new as the file was when the open began.
CloseToOpen ==
    \A w \in Workers : req[w].kind = "open" /\ req[w].pc = "reply" /\ req[w].keep =>
        kernel.cached = None \/ kernel.cached >= req[w].began

\* An application that reads a directory to its end gets every entry that
\* was in it all the time, each once, and none that never was.
DirComplete ==
    scan.end => /\ scan.always \subseteq Range(scan.got)
                /\ Range(scan.got) \subseteq scan.ever
                /\ IsInjective(scan.got)
=============================================================================

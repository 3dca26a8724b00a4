------------------------------ MODULE ULockMgr -------------------------------
(***************************************************************************)
(* libulockmgr and ulockmgr_server.  POSIX locks belong to a process, so   *)
(* the library keeps one server process for every lock owner, passes it    *)
(* the file descriptors it needs and asks it to lock.  A blocking request  *)
(* is served by a thread of the server, and the client waits without the   *)
(* library's mutex.  All descriptors are of one file; a lock is exclusive. *)
(***************************************************************************)
EXTENDS Integers, Sequences, FiniteSets, SequencesExt, Functions

CONSTANTS Owners, Fds, Threads,
          OwnersOf,     \* the owners a client thread works for
          Bytes,        \* of the file
          MaxOps,       \* requests of each thread
          MaxServers,   \* server processes started
          MaxIntrs,     \* signals to waiting clients
          None

VARIABLES mutex,   \* ulockmgr_lock: the thread that holds it
          owner,   \* owner_list: the server and the fd_store of an owner
          th,      \* the client threads
          chan,    \* replies on their way to a thread
          server,  \* the server processes: socket, fd_store, owner
          worker,  \* process_request, in the server, for a client thread
          locks,   \* the kernel's: the bytes a server process has locked
          granted  \* the bytes an owner was told it has locked

vars == <<mutex, owner, th, chan, server, worker, locks, granted>>
Servers == 1..MaxServers
NoFds == [x \in {} |-> 0]
Without(g, x) == Restrict(g, DOMAIN g \ {x})
With(g, x, v) == [y \in DOMAIN g \cup {x} |-> IF y = x THEN v ELSE g[y]]
-----------------------------------------------------------------------------
(***************************************************************************)
(* The kernel (external): fcntl on a descriptor of a process; the close of *)
(* any descriptor of a file drops all its locks on it.                     *)
(***************************************************************************)
Conflict(s, bytes) == \E r \in Servers \ {s} : locks[r] \cap bytes # {}
-----------------------------------------------------------------------------
(***************************************************************************)
(* The client: ulockmgr_op and ulockmgr_send_request.                      *)
(***************************************************************************)
UnlockAll(m) == m.cmd = "SETLK" /\ m.type = "UNLCK" /\ m.bytes = Bytes
Messages(t) == [t : {t}, o : OwnersOf[t], fd : Fds, cmd : {"GETLK", "SETLK", "SETLKW"}, type : {"WRLCK"},
                bytes : {{b} : b \in Bytes}]
               \cup [t : {t}, o : OwnersOf[t], fd : Fds, cmd : {"SETLK"}, type : {"UNLCK"},
                     bytes : {{b} : b \in Bytes} \cup {Bytes}]
Return(t, err) == [th EXCEPT ![t].pc = "idle", ![t].err = err, ![t].intrs = 0]
Op(t) ==
    /\ th[t].pc = "idle" /\ th[t].ops < MaxOps[t]
    /\ \E m \in Messages(t) : th' = [th EXCEPT ![t].pc = "lock", ![t].msg = m, ![t].ops = @ + 1]
    /\ UNCHANGED <<mutex, owner, chan, server, worker, locks, granted>>

\* An owner that has no server needs one only to lock; there may be none.
NoOwner(t) ==
    LET m == th[t].msg
    IN  /\ th[t].pc = "lock" /\ mutex = None /\ owner[m.o] = None
        /\ th' = Return(t, IF m.cmd = "GETLK" \/ m.type = "UNLCK" THEN "ok" ELSE "ENOLCK")
        /\ UNCHANGED <<mutex, owner, chan, server, worker, locks, granted>>
\* ulockmgr_new_owner: the daemon forks a server for a socket.
Fresh == {s \in Servers : server[s].state = "none"}
NewOwner(t) ==
    LET m == th[t].msg
        s == CHOOSE s \in Fresh : \A r \in Fresh : s <= r
    IN  /\ th[t].pc = "lock" /\ mutex = None /\ owner[m.o] = None /\ Fresh # {}
        /\ m.cmd # "GETLK" /\ m.type # "UNLCK"
        /\ owner' = [owner EXCEPT ![m.o] = [server |-> s, fds |-> NoFds]]
        /\ server' = [server EXCEPT ![s].state = "open", ![s].owner = m.o]
        /\ UNCHANGED <<mutex, th, chan, worker, locks, granted>>

\* The message to the server, with the descriptor if it may not have it.
Send(t) ==
    LET m == th[t].msg
        o == owner[m.o]
        nofd == UnlockAll(m) \/ m.fd \in DOMAIN o.fds
    IN  /\ th[t].pc = "lock" /\ mutex = None /\ o # None
        /\ mutex' = t
        /\ server' = [server EXCEPT ![o.server].queue =
                         Append(@, [m |-> m, nofd |-> nofd, intr |-> FALSE, n |-> th[t].ops])]
        /\ owner' = IF UnlockAll(m) THEN owner
                    ELSE [owner EXCEPT ![m.o].fds = With(@, m.fd, IF nofd THEN @[m.fd] + 1 ELSE 1)]
        /\ th' = [th EXCEPT ![t].pc = "recv"]
        /\ granted' = IF m.type = "UNLCK" THEN [granted EXCEPT ![m.o] = @ \ m.bytes] ELSE granted
        /\ UNCHANGED <<chan, worker, locks>>

\* The end of ulockmgr_send_request, with the mutex.
Done(t, err) ==
    LET m == th[t].msg
        fds == IF UnlockAll(m)
               THEN IF m.fd \in DOMAIN owner[m.o].fds /\ owner[m.o].fds[m.fd] = 0
                    THEN Without(owner[m.o].fds, m.fd) ELSE owner[m.o].fds
               ELSE [owner[m.o].fds EXCEPT ![m.fd] = @ - 1]
        last == UnlockAll(m) /\ DOMAIN fds = {}
        ok == err = "ok" \/ UnlockAll(m)
    IN  /\ owner' = [owner EXCEPT ![m.o] = IF last THEN None ELSE [@ EXCEPT !.fds = fds]]
        /\ server' = IF last THEN [server EXCEPT ![owner[m.o].server].state = "closed"] ELSE server
        /\ th' = Return(t, IF ok THEN "ok" ELSE err)
        /\ granted' = IF ok /\ m.type = "WRLCK" /\ m.cmd # "GETLK"
                      THEN [granted EXCEPT ![m.o] = @ \cup m.bytes] ELSE granted
        /\ mutex' = None

Recv(t) ==
    /\ th[t].pc = "recv" /\ chan[t] # <<>>
    /\ chan' = [chan EXCEPT ![t] = Tail(@)]
    /\ IF th[t].msg.cmd = "SETLKW" /\ Head(chan[t]) = "EAGAIN"
       THEN th' = [th EXCEPT ![t].pc = "wait"] /\ mutex' = None /\ UNCHANGED <<owner, server, granted>>
       ELSE Done(t, Head(chan[t]))
    /\ UNCHANGED <<worker, locks>>
RecvWait(t) ==
    /\ th[t].pc = "wait" /\ chan[t] # <<>>
    /\ chan' = [chan EXCEPT ![t] = Tail(@)]
    /\ th' = [th EXCEPT ![t].pc = "relock", ![t].err = Head(chan[t])]
    /\ UNCHANGED <<mutex, owner, server, worker, locks, granted>>
\* SIGUSR1 in recv: EINTR, and the message goes to the server with intr set.
Interrupted(t) ==
    /\ th[t].pc = "wait" /\ chan[t] = <<>> /\ th[t].intrs < MaxIntrs
    /\ server' = [server EXCEPT ![owner[th[t].msg.o].server].queue =
                     Append(@, [m |-> th[t].msg, nofd |-> TRUE, intr |-> TRUE, n |-> th[t].ops])]
    /\ th' = [th EXCEPT ![t].intrs = @ + 1]
    /\ UNCHANGED <<mutex, owner, chan, worker, locks, granted>>
Relock(t) ==
    /\ th[t].pc = "relock" /\ mutex = None
    /\ Done(t, th[t].err)
    /\ UNCHANGED <<chan, worker, locks>>
-----------------------------------------------------------------------------
(***************************************************************************)
(* The server process of an owner: process_owner and process_message.      *)
(***************************************************************************)
Ready(s) == server[s].state # "none" /\ server[s].queue # <<>>
Popped(s) == [server EXCEPT ![s].queue = Tail(@)]
Answer(t, err) == chan' = [chan EXCEPT ![t] = Append(@, err)]

ServeUnlockAll(s) ==
    LET m == Head(server[s].queue).m
        closes == m.fd \in DOMAIN server[s].fds /\ server[s].fds[m.fd] = 0
    IN  /\ Ready(s) /\ ~Head(server[s].queue).intr /\ UnlockAll(m)
        /\ server' = IF closes THEN [Popped(s) EXCEPT ![s].fds = Without(@, m.fd)] ELSE Popped(s)
        /\ locks' = IF closes THEN [locks EXCEPT ![s] = {}] ELSE locks
        /\ Answer(m.t, "ok")
        /\ UNCHANGED <<mutex, owner, th, worker, granted>>

\* The others: F_GETLK, F_SETLK at once, F_SETLKW in a new thread, which may
\* not start.
Serve(s) ==
    LET q == Head(server[s].queue)
        m == q.m
        blocking == m.cmd = "SETLKW" /\ m.type # "UNLCK"
        fds == IF q.nofd THEN server[s].fds ELSE With(server[s].fds, m.fd, 0)
    IN  /\ Ready(s) /\ ~q.intr /\ ~UnlockAll(m)
        /\ \/ q.nofd /\ m.fd \notin DOMAIN server[s].fds
              /\ Answer(m.t, "EIO") /\ server' = Popped(s) /\ UNCHANGED <<worker, locks>>
           \/ m.fd \in DOMAIN fds /\ ~blocking
              /\ LET fails == m.cmd = "SETLK" /\ m.type = "WRLCK" /\ Conflict(s, m.bytes)
                 IN  /\ locks' = CASE m.cmd = "GETLK" \/ fails -> locks
                                   [] m.type = "UNLCK" -> [locks EXCEPT ![s] = @ \ m.bytes]
                                   [] OTHER -> [locks EXCEPT ![s] = @ \cup m.bytes]
                     /\ Answer(m.t, IF fails THEN "EAGAIN" ELSE "ok")
              /\ server' = [Popped(s) EXCEPT ![s].fds = fds] /\ UNCHANGED worker
           \/ m.fd \in DOMAIN fds /\ blocking
              /\ server' = [Popped(s) EXCEPT ![s].fds = [fds EXCEPT ![m.fd] = @ + 1]]
              /\ worker' = [worker EXCEPT ![m.t] = [pc |-> "try", s |-> s, m |-> m, n |-> q.n, err |-> "ok"]]
              /\ UNCHANGED <<chan, locks>>
        /\ UNCHANGED <<mutex, owner, th, granted>>

\* pthread_kill: the thread may be in fcntl, not yet or no longer in it, or
\* gone; then the signal may reach a thread that got the same identifier.
ServeIntr(s) ==
    LET q == Head(server[s].queue)
        w == worker[q.m.t]
    IN  /\ Ready(s) /\ q.intr
        /\ server' = Popped(s)
        /\ \E hit \in {q.m.t} \cup (IF w.pc = "none" \/ w.n # q.n
                                    THEN {t \in Threads : worker[t].pc # "none" /\ worker[t].s = s} ELSE {}) :
              worker' = IF worker[hit].pc = "wait" THEN [worker EXCEPT ![hit].pc = "end", ![hit].err = "EINTR"] ELSE worker
        /\ UNCHANGED <<mutex, owner, th, chan, locks, granted>>

\* The client closed the socket: the process ends, and its locks with it.
Exit(s) ==
    /\ server[s].state = "closed" /\ server[s].queue = <<>>
    /\ server' = [server EXCEPT ![s].state = "gone", ![s].fds = NoFds]
    /\ locks' = [locks EXCEPT ![s] = {}]
    /\ worker' = [t \in Threads |-> IF worker[t].pc # "none" /\ worker[t].s = s
                                    THEN [worker[t] EXCEPT !.pc = "none"] ELSE worker[t]]
    /\ UNCHANGED <<mutex, owner, th, chan, granted>>

\* process_request.
Lock(w) == [locks EXCEPT ![w.s] = @ \cup w.m.bytes]
Try(t) ==
    LET w == worker[t]
    IN  /\ w.pc = "try"
        /\ IF Conflict(w.s, w.m.bytes)
           THEN Answer(t, "EAGAIN") /\ worker' = [worker EXCEPT ![t].pc = "enter"] /\ UNCHANGED locks
           ELSE locks' = Lock(w) /\ worker' = [worker EXCEPT ![t].pc = "end"] /\ UNCHANGED chan
        /\ UNCHANGED <<mutex, owner, th, server, granted>>
Wait(t) ==
    LET w == worker[t]
    IN  /\ w.pc \in {"enter", "wait"}
        /\ IF Conflict(w.s, w.m.bytes)
           THEN w.pc = "enter" /\ worker' = [worker EXCEPT ![t].pc = "wait"] /\ UNCHANGED locks
           ELSE locks' = Lock(w) /\ worker' = [worker EXCEPT ![t].pc = "end"]
        /\ UNCHANGED <<mutex, owner, th, chan, server, granted>>
End(t) ==
    LET w == worker[t]
    IN  /\ w.pc = "end"
        /\ server' = [server EXCEPT ![w.s].fds[w.m.fd] = @ - 1]
        /\ worker' = [worker EXCEPT ![t].pc = "reply"]
        /\ UNCHANGED <<mutex, owner, th, chan, locks, granted>>
Reply(t) ==
    /\ worker[t].pc = "reply"
    /\ Answer(t, worker[t].err)
    /\ worker' = [worker EXCEPT ![t].pc = "none"]
    /\ UNCHANGED <<mutex, owner, th, server, locks, granted>>
-----------------------------------------------------------------------------
Init ==
    /\ mutex = None
    /\ owner = [o \in Owners |-> None]
    /\ th = [t \in Threads |-> [pc |-> "idle", msg |-> None, err |-> "ok", ops |-> 0, intrs |-> 0]]
    /\ chan = [t \in Threads |-> <<>>]
    /\ server = [s \in Servers |-> [state |-> "none", owner |-> None, queue |-> <<>>, fds |-> NoFds]]
    /\ worker = [t \in Threads |-> [pc |-> "none"]]
    /\ locks = [s \in Servers |-> {}]
    /\ granted = [o \in Owners |-> {}]

Client(t) == Op(t) \/ NoOwner(t) \/ NewOwner(t) \/ Send(t) \/ Recv(t) \/ RecvWait(t) \/ Interrupted(t) \/ Relock(t)
Process(s) == ServeUnlockAll(s) \/ Serve(s) \/ ServeIntr(s) \/ Exit(s)
Request(t) == Try(t) \/ Wait(t) \/ End(t) \/ Reply(t)
Next ==
    \/ \E t \in Threads : Client(t) \/ Request(t)
    \/ \E s \in Servers : Process(s)
Spec == Init /\ [][Next]_vars
-----------------------------------------------------------------------------
Held(o) == UNION {locks[s] : s \in {r \in Servers : server[r].owner = o}}
Quiet == /\ \A t \in Threads : th[t].pc = "idle" /\ worker[t].pc = "none"
         /\ \A s \in Servers : server[s].state # "closed" /\ server[s].queue = <<>>

\* What an owner was told it has locked it has, and no two owners at once.
GrantedHeld ==
    \A o, p \in Owners : /\ granted[o] \subseteq Held(o)
                         /\ o # p => granted[o] \cap granted[p] = {}

\* When nothing is in progress, an owner holds no lock but those it was told
\* of: an unlock, a close and a request that failed leave none behind.
NothingElseHeld == Quiet => \A o \in Owners : Held(o) = granted[o]

\* A descriptor that the library does not send is one the server has, so
\* that the server never answers EIO.
FdStoresAgree ==
    \A s \in Servers : server[s].state = "open" =>
        LET q == server[s].queue
        IN  \A i \in DOMAIN q : q[i].nofd /\ ~q[i].intr /\ ~UnlockAll(q[i].m) =>
               \/ q[i].m.fd \in DOMAIN server[s].fds
               \/ \E j \in 1..i - 1 : q[j].m.fd = q[i].m.fd /\ ~q[j].nofd
=============================================================================

---------------------------- MODULE FuseSession ----------------------------
(***************************************************************************)
(* The event loop of libfuse: fuse_session_loop_mt and its workers, the    *)
(* life of a request in fuse_lowlevel.c (its reference count, its place on *)
(* the lists, interrupts, notifications, the pipe of a splicing thread),   *)
(* fuse_interrupt of fuse.c, the signal handlers and the exit of the       *)
(* session.  The kernel's end of /dev/fuse is external.  A section under   *)
(* f->lock or mt->lock is one step.                                        *)
(***************************************************************************)
EXTENDS Integers, Sequences, FiniteSets, SequencesExt

CONSTANTS Workers, None,
          MaxIdle,       \* more waiting workers than this and one ends (10 in the code)
          MaxRequests,   \* bound: requests the kernel sends, interrupts apart
          MaxRetrieves,  \* bound: calls of fuse_lowlevel_notify_retrieve
          Loads          \* what may happen: the requests and their number n,
                         \* retrieves, signals, an unmount; intrs bounds the
                         \* requests that are interrupted at one time,
                         \* pool the threads that can be started

VARIABLES load,     \* the one of Loads
          dev,      \* messages waiting in the device
          kst,      \* the kernel's view of each request: "queued", "read", "answered"
          unmounted,
          exited,   \* se->exited
          mt,       \* struct fuse_mt
          main,     \* where fuse_session_loop_mt is
          wk,       \* the workers
          req,      \* the struct fuse_req that are allocated
          list,     \* f->list: the requests being processed
          intrs,    \* f->interrupts
          nlist,    \* f->notify_list
          notify,   \* f->notify_ctr, and the thread in notify_retrieve
          destroyed \* how often op.destroy was called

vars == <<load, dev, kst, unmounted, exited, mt, main, wk, req, list, intrs, nlist, notify, destroyed>>
kernel == <<load, dev, kst, unmounted>>
loop == <<exited, mt, main>>
ll == <<req, list, intrs, nlist, notify, destroyed>>

NoMsg == [u |-> 0, kind |-> "none", of |-> 0]
Idle == [pc |-> "none", msg |-> NoMsg, req |-> 0, cur |-> 0, pipe |-> <<>>, cancel |-> FALSE]
Go(w, l) == wk' = [wk EXCEPT ![w].pc = l]
Ended == {"none", "done", "dead"}
-----------------------------------------------------------------------------
(***************************************************************************)
(* The kernel (external).                                                  *)
(***************************************************************************)
Messages == {dev[i] : i \in 1 .. Len(dev)}
\* INIT was the first request; the kernel numbers them.
Uniques == 2 .. MaxRequests + 1
NextUnique == Cardinality({u \in Uniques : kst[u] # "no"}) + 2

\* DESTROY is the last request, sent by the unmount of a block device.
SendRequest(k) ==
    /\ ~unmounted /\ NextUnique <= load.n + 1
    /\ k = "destroy" => \A u \in Uniques : kst[u] \in {"no", "answered"}
    /\ dev' = Append(dev, [u |-> NextUnique, kind |-> k, of |-> 0])
    /\ kst' = [kst EXCEPT ![NextUnique] = "queued"]
    /\ unmounted' = (k = "destroy")
    /\ UNCHANGED <<load, loop, wk, ll>>

\* A signal to the caller: INTERRUPT goes before the other messages.
SendInterrupt(u) ==
    /\ ~unmounted /\ kst[u] = "read"
    /\ Cardinality({v \in Uniques : kst[v] = "interrupted"}) < load.intrs
    /\ ~\E m \in Messages : m.kind = "intr" /\ m.of = u
    /\ dev' = <<[u |-> 0, kind |-> "intr", of |-> u]>> \o dev
    /\ kst' = [kst EXCEPT ![u] = "interrupted"]
    /\ UNCHANGED <<load, unmounted, loop, wk, ll>>

Unmount == /\ "unmount" \in load.what /\ ~unmounted /\ unmounted' = TRUE
           /\ UNCHANGED <<load, dev, kst, loop, wk, ll>>

\* A request is answered: its interrupt need not be delivered any more.
Answered(u) ==
    IF u = 0 THEN UNCHANGED kernel
    ELSE /\ kst' = [kst EXCEPT ![u] = "answered"]
         /\ dev' = SelectSeq(dev, LAMBDA m : ~(m.kind = "intr" /\ m.of = u))
         /\ UNCHANGED <<load, unmounted>>

\* EAGAIN for an interrupt: it is sent again while its request is open.
Requeue(u) ==
    /\ dev' = IF kst[u] = "interrupted"
              THEN Append(dev, [u |-> 0, kind |-> "intr", of |-> u]) ELSE dev
    /\ UNCHANGED <<load, kst, unmounted>>
-----------------------------------------------------------------------------
(***************************************************************************)
(* fuse_do_work: receive, count, process, count again.                     *)
(***************************************************************************)
Free(r) == [a \in DOMAIN req \ {r} |-> req[a]]
\* The lowest address that is free.
Address == CHOOSE a \in 1 .. Cardinality(DOMAIN req) + 1 :
               a \notin DOMAIN req /\ \A b \in 1 .. a - 1 : b \in DOMAIN req
\* fuse_ll_alloc_req, and the unique of the message.
Alloc(u, i) ==
    [a \in DOMAIN req \cup {Address} |->
        IF a \in DOMAIN req THEN req[a]
        ELSE [unique |-> u, ctr |-> 1, interrupted |-> i, func |-> None, lock |-> None]]

Loop(w) == /\ wk[w].pc = "loop"
           /\ Go(w, IF exited THEN "post" ELSE "recv")
           /\ UNCHANGED <<kernel, loop, ll>>

\* fuse_kern_chan_receive and fuse_ll_receive_buf: a big message stays in the
\* pipe of the thread, a small one is copied to its buffer.
Receive(w) ==
    /\ wk[w].pc = "recv" /\ dev # <<>>
    /\ LET m == Head(dev) IN
       /\ dev' = Tail(dev)
       /\ kst' = IF m.u = 0 \/ m.kind = "notify_reply" THEN kst ELSE [kst EXCEPT ![m.u] = "read"]
       /\ IF exited THEN Go(w, "post")
          ELSE wk' = [wk EXCEPT ![w].pc = "got", ![w].msg = m,
                                ![w].pipe = IF m.kind = "write" THEN <<"head", "body">> ELSE <<>>]
    /\ UNCHANGED <<load, unmounted, loop, ll>>

\* ENODEV after the unmount ends the session.
ReceiveGone(w) ==
    /\ wk[w].pc = "recv" /\ unmounted /\ dev = <<>>
    /\ exited' = TRUE /\ Go(w, "post")
    /\ UNCHANGED <<kernel, mt, main, ll>>

\* Another error of the device: the loop will return it.
ReceiveError(w) ==
    /\ wk[w].pc = "recv" /\ unmounted /\ ~exited
    /\ exited' = TRUE /\ mt' = [mt EXCEPT !.error = TRUE] /\ Go(w, "post")
    /\ UNCHANGED <<kernel, main, ll>>

\* pthread_cancel works while the thread receives.
Cancelled(w) == /\ wk[w].pc = "recv" /\ wk[w].cancel
                /\ Go(w, "dead")
                /\ UNCHANGED <<kernel, loop, ll>>

IsForget(m) == m.kind = "forget"
FreeSlots == {w \in load.pool : wk[w].pc = "none"}
Slot == CHOOSE w \in FreeSlots : TRUE

\* fuse_loop_start_thread: the worker is listed and counted, or there is no
\* memory and nothing happens.
StartThread(m, w) ==
    \/ /\ FreeSlots # {}
       /\ mt' = [m EXCEPT !.list = Append(@, Slot), !.numavail = @ + 1, !.numworker = @ + 1]
       /\ wk' = [wk EXCEPT ![w].pc = "process", ![Slot] = [Idle EXCEPT !.pc = "loop"]]
    \/ mt' = m /\ Go(w, "process")

Take(w) ==
    /\ wk[w].pc = "got"
    /\ LET m == [mt EXCEPT !.numavail = @ - (IF IsForget(wk[w].msg) THEN 0 ELSE 1)] IN
       IF mt.exit THEN Go(w, "dead") /\ UNCHANGED mt
       ELSE IF m.numavail = 0 THEN StartThread(m, w)
       ELSE mt' = m /\ Go(w, "process")
    /\ UNCHANGED <<kernel, exited, main, ll>>

\* After the request: with too many idle workers this one ends, detached.
GiveBack(w) ==
    /\ wk[w].pc = "back"
    /\ LET m == [mt EXCEPT !.numavail = @ + (IF IsForget(wk[w].msg) THEN 0 ELSE 1)] IN
       IF m.numavail <= MaxIdle
       THEN mt' = m /\ wk' = [wk EXCEPT ![w].pc = "loop", ![w].msg = NoMsg]
       ELSE IF mt.exit THEN mt' = m /\ Go(w, "dead")
       ELSE /\ mt' = [m EXCEPT !.list = SelectSeq(@, LAMBDA x : x # w),
                               !.numavail = @ - 1, !.numworker = @ - 1]
            /\ wk' = [wk EXCEPT ![w] = Idle]
    /\ UNCHANGED <<kernel, exited, main, ll>>

Post(w) == /\ wk[w].pc = "post"
           /\ mt' = [mt EXCEPT !.finish = @ + 1] /\ Go(w, "done")
           /\ UNCHANGED <<kernel, exited, main, ll>>
-----------------------------------------------------------------------------
(***************************************************************************)
(* fuse_ll_process_buf.                                                    *)
(***************************************************************************)
\* check_interrupt and list_add_req under f->lock: an interrupt that came
\* first is applied; otherwise the first one that waits is sent back.
CheckInterrupt(u) ==
    IF Contains(intrs, u)
    THEN /\ req' = Alloc(u, TRUE)
         /\ intrs' = RemoveFirst(intrs, u)
         /\ UNCHANGED kernel
    ELSE /\ req' = Alloc(u, FALSE)
         /\ IF intrs = <<>> THEN UNCHANGED <<intrs, kernel>>
            ELSE intrs' = Tail(intrs) /\ Requeue(Head(intrs))

Process(w) ==
    /\ wk[w].pc = "process" /\ wk[w].msg.kind # "intr"
    /\ CheckInterrupt(wk[w].msg.u)
    /\ list' = Append(list, Address)
    /\ wk' = [wk EXCEPT ![w].pc = wk[w].msg.kind, ![w].req = Address,
                        ![w].pipe = IF @ = <<>> THEN @ ELSE Tail(@)]
    /\ UNCHANGED <<loop, nlist, notify, destroyed>>

\* fuse_ll_alloc_req fails: ENOMEM without a request, and the pipe is cleared.
ProcessNoMemory(w) ==
    /\ wk[w].pc = "process" /\ wk[w].msg.kind \in {"op", "read", "write"}
    /\ Answered(wk[w].msg.u)
    /\ wk' = [wk EXCEPT ![w].pc = "back", ![w].pipe = <<>>]
    /\ UNCHANGED <<loop, ll>>

\* The rest of a spliced WRITE: do_write_buf hands the pipe to op.write_buf and
\* clears what that leaves; without that operation the rest is copied.
Write(w) ==
    /\ wk[w].pc = "write"
    /\ wk' = [wk EXCEPT ![w].pc = "reply", ![w].pipe = <<>>]
    /\ UNCHANGED <<kernel, loop, ll>>

\* fuse_do_prepare_interrupt before the operation of the file system:
\* fuse_req_interrupt_func takes the lock of the request.
Prepare(w) ==
    /\ wk[w].pc = "op" /\ req[wk[w].req].lock = None
    /\ req' = [req EXCEPT ![wk[w].req].func = w]
    /\ Go(w, "work")
    /\ UNCHANGED <<kernel, loop, list, intrs, nlist, notify, destroyed>>

\* fuse_do_finish_interrupt: finished is set, then the callback is withdrawn.
Finish(w) == /\ wk[w].pc = "work" /\ Go(w, "finished")
             /\ UNCHANGED <<kernel, loop, ll>>

Withdraw(w) ==
    /\ wk[w].pc = "finished" /\ req[wk[w].req].lock = None
    /\ req' = [req EXCEPT ![wk[w].req].func = None]
    /\ Go(w, "reply")
    /\ UNCHANGED <<kernel, loop, list, intrs, nlist, notify, destroyed>>

\* fuse_reply_data: fuse_send_data_iov moves header and data through the pipe, or
\* falls back to a plain write; where it gives up the pipe is cleared.
ReplyData(w) ==
    /\ wk[w].pc = "read"
    /\ wk' = [wk EXCEPT ![w].pc = "free", ![w].pipe = <<>>]
    /\ Answered(wk[w].msg.u)
    /\ UNCHANGED <<loop, ll>>

\* It gave up with an error number: fuse_reply_err.
ReplyDataError(w) ==
    /\ wk[w].pc = "read"
    /\ wk' = [wk EXCEPT ![w].pc = "reply", ![w].pipe = <<>>]
    /\ UNCHANGED <<kernel, loop, ll>>

\* send_reply_iov up to the write to the device.
Reply(w) == /\ wk[w].pc = "reply" /\ Answered(wk[w].msg.u) /\ Go(w, "free")
            /\ UNCHANGED <<loop, ll>>

\* fuse_free_req.
FreeReq(w) ==
    /\ wk[w].pc = "free"
    /\ LET r == wk[w].req IN
       /\ list' = RemoveFirst(list, r)
       /\ req' = IF req[r].ctr = 1 THEN Free(r)
                 ELSE [req EXCEPT ![r].ctr = @ - 1, ![r].func = None]
    /\ wk' = [wk EXCEPT ![w].pc = "back", ![w].req = 0]
    /\ UNCHANGED <<kernel, loop, intrs, nlist, notify, destroyed>>

\* do_forget: fuse_reply_none.
Forget(w) == /\ wk[w].pc = "forget" /\ Answered(wk[w].msg.u) /\ Go(w, "free")
             /\ UNCHANGED <<loop, ll>>

\* do_destroy.
Destroy(w) == /\ wk[w].pc = "destroy" /\ destroyed' = destroyed + 1 /\ Go(w, "reply")
              /\ UNCHANGED <<kernel, loop, req, list, intrs, nlist, notify>>

\* do_notify_reply: the waiting retrieve is taken off the list and its callback
\* ends the request; a reply nobody waits for keeps the request.
NotifyReply(w) ==
    /\ wk[w].pc = "notify_reply"
    /\ nlist' = nlist \ {wk[w].msg.u}
    /\ IF wk[w].msg.u \in nlist THEN Go(w, "free")
       ELSE wk' = [wk EXCEPT ![w].pc = "back", ![w].req = 0]
    /\ UNCHANGED <<kernel, loop, req, list, intrs, notify, destroyed>>
-----------------------------------------------------------------------------
(***************************************************************************)
(* do_interrupt and fuse_interrupt.                                        *)
(***************************************************************************)
Target(w) == SelectSeq(list, LAMBDA a : req[a].unique = wk[w].msg.of)

\* Mutant: the interrupting thread takes no reference.
FindInterruptedNoRef(w) ==
    /\ wk[w].pc = "process" /\ wk[w].msg.kind = "intr" /\ Target(w) # <<>>
    /\ wk' = [wk EXCEPT ![w].pc = "ilock", ![w].cur = Head(Target(w))]
    /\ UNCHANGED <<kernel, loop, ll>>
\* find_interrupted: a reference keeps the request while f->lock is dropped.
FindInterrupted(w) ==
    /\ wk[w].pc = "process" /\ wk[w].msg.kind = "intr"
    /\ IF Target(w) # <<>>
       THEN /\ req' = [req EXCEPT ![Head(Target(w))].ctr = @ + 1]
            /\ wk' = [wk EXCEPT ![w].pc = "ilock", ![w].cur = Head(Target(w))]
            /\ UNCHANGED intrs
       ELSE /\ intrs' = IF Contains(intrs, wk[w].msg.of) THEN intrs
                        ELSE Append(intrs, wk[w].msg.of)
            /\ Go(w, "back") /\ UNCHANGED req
    /\ UNCHANGED <<kernel, loop, list, nlist, notify, destroyed>>

\* curr->lock, then interrupted is set and the callback read.
LockCurr(w) ==
    /\ wk[w].pc = "ilock" /\ req[wk[w].cur].lock = None
    /\ req' = [req EXCEPT ![wk[w].cur].lock = w] /\ Go(w, "imark")
    /\ UNCHANGED <<kernel, loop, list, intrs, nlist, notify, destroyed>>

MarkInterrupted(w) ==
    /\ wk[w].pc = "imark"
    /\ req' = [req EXCEPT ![wk[w].cur].interrupted = TRUE]
    /\ Go(w, IF req[wk[w].cur].func = None THEN "iunlock" ELSE "ifunc")
    /\ UNCHANGED <<kernel, loop, list, intrs, nlist, notify, destroyed>>

\* fuse_interrupt signals the thread until it has finished.
Owner(w) == req[wk[w].cur].func
Interrupt(w) ==
    /\ wk[w].pc = "ifunc" /\ wk[Owner(w)].pc = "finished"
    /\ Go(w, "iunlock")
    /\ UNCHANGED <<kernel, loop, ll>>

\* Mutant: curr->lock is never released.
UnlockCurrNot(w) == wk[w].pc = "iunlock" /\ Go(w, "iput") /\ UNCHANGED <<kernel, loop, ll>>
UnlockCurr(w) ==
    /\ wk[w].pc = "iunlock"
    /\ req' = [req EXCEPT ![wk[w].cur].lock = None] /\ Go(w, "iput")
    /\ UNCHANGED <<kernel, loop, list, intrs, nlist, notify, destroyed>>

\* The reference is dropped; the last one destroys the request.
PutCurr(w) ==
    /\ wk[w].pc = "iput"
    /\ LET r == wk[w].cur IN
       req' = IF req[r].ctr = 1 THEN Free(r) ELSE [req EXCEPT ![r].ctr = @ - 1]
    /\ wk' = [wk EXCEPT ![w].pc = "back", ![w].cur = 0]
    /\ UNCHANGED <<kernel, loop, list, intrs, nlist, notify, destroyed>>
-----------------------------------------------------------------------------
(***************************************************************************)
(* fuse_lowlevel_notify_retrieve, called by a thread of the file system.   *)
(***************************************************************************)
RetrieveAdd ==
    /\ "retrieve" \in load.what /\ notify.pc = "idle" /\ notify.ctr <= MaxRetrieves /\ main # "done"
    /\ nlist' = nlist \cup {notify.ctr}
    /\ notify' = [ctr |-> notify.ctr + 1, pc |-> "send"]
    /\ UNCHANGED <<kernel, loop, wk, req, list, intrs, destroyed>>

RetrieveSend ==
    /\ notify.pc = "send"
    /\ notify' = [notify EXCEPT !.pc = "idle"]
    /\ IF unmounted
       THEN nlist' = nlist \ {notify.ctr - 1} /\ UNCHANGED dev
       ELSE dev' = Append(dev, [u |-> notify.ctr - 1, kind |-> "notify_reply", of |-> 0])
            /\ UNCHANGED nlist
    /\ UNCHANGED <<load, kst, unmounted, loop, wk, req, list, intrs, destroyed>>
-----------------------------------------------------------------------------
(***************************************************************************)
(* fuse_session_loop_mt, exit_handler, fuse_session_destroy.               *)
(***************************************************************************)
MainStart ==
    /\ main = "start"
    /\ \/ /\ mt' = [mt EXCEPT !.list = <<Slot>>, !.numavail = 1, !.numworker = 1]
          /\ wk' = [wk EXCEPT ![Slot].pc = "loop"]
          /\ main' = "check"
       \/ mt' = [mt EXCEPT !.error = TRUE] /\ main' = "destroy" /\ UNCHANGED wk
    /\ UNCHANGED <<kernel, exited, ll>>

MainCheck == /\ main = "check" /\ main' = (IF exited THEN "stop" ELSE "sem_wait")
             /\ UNCHANGED <<kernel, exited, mt, wk, ll>>

\* sem_wait: the semaphore is taken, or the thread sleeps.
MainSem == /\ main = "sem_wait" /\ mt.finish = 0 /\ main' = "wait"
           /\ UNCHANGED <<kernel, exited, mt, wk, ll>>

MainWait == /\ main \in {"sem_wait", "wait"} /\ mt.finish > 0
            /\ mt' = [mt EXCEPT !.finish = @ - 1] /\ main' = "check"
            /\ UNCHANGED <<kernel, exited, wk, ll>>

\* A signal: fuse_session_exit; a sem_wait that sleeps returns with EINTR.
Signal == /\ "signal" \in load.what /\ ~exited /\ main \in {"check", "sem_wait", "wait"}
          /\ exited' = TRUE /\ main' = (IF main = "wait" THEN "check" ELSE main)
          /\ UNCHANGED <<kernel, mt, wk, ll>>

MainStop ==
    /\ main = "stop"
    /\ mt' = [mt EXCEPT !.exit = TRUE]
    /\ wk' = [w \in Workers |-> IF Contains(mt.list, w) THEN [wk[w] EXCEPT !.cancel = TRUE]
                                ELSE wk[w]]
    /\ main' = "join"
    /\ UNCHANGED <<kernel, exited, ll>>

\* fuse_join_worker of the first one in the list; at the end the session is
\* reset and the loop returns.
MainJoin ==
    /\ main = "join"
    /\ IF mt.list = <<>>
       THEN main' = "destroy" /\ exited' = FALSE /\ UNCHANGED <<mt, wk>>
       ELSE /\ wk[Head(mt.list)].pc \in Ended
            /\ wk' = [wk EXCEPT ![Head(mt.list)] = Idle]
            /\ mt' = [mt EXCEPT !.list = Tail(@)]
            /\ UNCHANGED <<main, exited>>
    /\ UNCHANGED <<kernel, ll>>

\* fuse_ll_destroy.
MainDestroy ==
    /\ main = "destroy" /\ main' = "done"
    /\ destroyed' = IF destroyed = 0 THEN 1 ELSE destroyed
    /\ UNCHANGED <<kernel, exited, mt, wk, req, list, intrs, nlist, notify>>
-----------------------------------------------------------------------------
Init ==
    /\ load \in Loads
    /\ dev = <<>> /\ kst = [u \in Uniques |-> "no"] /\ unmounted = FALSE
    /\ exited = FALSE /\ main = "start"
    /\ mt = [list |-> <<>>, numavail |-> 0, numworker |-> 0, finish |-> 0,
             exit |-> FALSE, error |-> FALSE]
    /\ wk = [w \in Workers |-> Idle]
    /\ req = <<>> /\ list = <<>> /\ intrs = <<>>
    /\ nlist = {} /\ notify = [ctr |-> 1, pc |-> "idle"] /\ destroyed = 0

RequestKinds == {"op", "read", "write", "forget", "destroy"}
Kernel == \/ \E k \in RequestKinds \cap load.what : SendRequest(k)
          \/ \E u \in Uniques : SendInterrupt(u)
          \/ Unmount
Worker(w) ==
    \/ Loop(w) \/ Receive(w) \/ ReceiveGone(w) \/ ReceiveError(w) \/ Cancelled(w)
    \/ Take(w) \/ GiveBack(w) \/ Post(w) \/ Process(w) \/ ProcessNoMemory(w)
    \/ Write(w) \/ Prepare(w) \/ Finish(w) \/ Withdraw(w) \/ ReplyData(w)
    \/ ReplyDataError(w) \/ Reply(w) \/ FreeReq(w) \/ Forget(w) \/ Destroy(w)
    \/ NotifyReply(w) \/ FindInterrupted(w) \/ LockCurr(w) \/ MarkInterrupted(w)
    \/ Interrupt(w) \/ UnlockCurr(w) \/ PutCurr(w)
Main == MainStart \/ MainCheck \/ MainSem \/ MainWait \/ MainStop \/ MainJoin \/ MainDestroy
Next == Kernel \/ (\E w \in Workers : Worker(w)) \/ Main \/ Signal \/ RetrieveAdd \/ RetrieveSend

\* The threads are scheduled and the operations of the file system return.
\* Nothing is assumed of the kernel or of signals.
Fairness == WF_vars(Main) /\ WF_vars(RetrieveSend) /\ \A w \in Workers : WF_vars(Worker(w))
Spec == Init /\ [][Next]_vars /\ Fairness
-----------------------------------------------------------------------------
InHandler == {"op", "work", "finished", "read", "write", "reply", "free", "forget",
              "destroy", "notify_reply"}
Interrupters(r) == {w \in Workers : wk[w].cur = r}

\* A request is freed once and not before its last user: it is on f->list while
\* its handler runs, its count is that handler and the interrupting threads, and
\* each of these finds it allocated.  fuse_interrupt runs on data on the stack of
\* a thread that is still inside fuse_do_finish_interrupt or before it.  A reply
\* to fuse_lowlevel_notify_retrieve finds its entry; no request is answered twice;
\* a thread that receives has an empty pipe.
RequestsSound ==
    /\ DOMAIN req = ({wk[w].req : w \in Workers} \cup {wk[w].cur : w \in Workers}) \ {0}
    /\ ToSet(list) = {wk[w].req : w \in Workers} \ {0}
    /\ \A r \in DOMAIN req :
          req[r].ctr = Cardinality(Interrupters(r)) + (IF Contains(list, r) THEN 1 ELSE 0)
    /\ \A w \in Workers :
          /\ wk[w].pc \in InHandler <=> wk[w].req # 0
          /\ wk[w].pc = "ifunc" =>
                wk[Owner(w)].pc \in {"work", "finished"} /\ wk[Owner(w)].req = wk[w].cur
          /\ wk[w].pc = "notify_reply" => wk[w].msg.u \in nlist
          /\ wk[w].pc \in {"read", "reply", "forget"} => kst[wk[w].msg.u] # "answered"
          /\ wk[w].pc = "recv" /\ ~exited => wk[w].pipe = <<>>

\* The loop's books: every running thread is listed until it detaches itself or is
\* joined, numworker and numavail count them, and when fuse_session_loop_mt has
\* returned no thread is left that would use its struct fuse_mt.  op.destroy is
\* called once.
Busy(w) == wk[w].pc \in InHandler \cup {"process", "ilock", "imark", "ifunc", "iunlock", "iput", "back"}
           /\ ~IsForget(wk[w].msg)
LoopSound ==
    /\ ToSet(mt.list) = {w \in Workers : wk[w].pc # "none"}
    /\ ~mt.exit => /\ mt.numworker = Len(mt.list)
                   /\ mt.numavail = Cardinality({w \in ToSet(mt.list) : ~Busy(w)})
    /\ main \in {"destroy", "done"} => \A w \in Workers : wk[w].pc = "none"
    /\ destroyed <= 1 /\ (main = "done" => destroyed = 1)

\* A request that a worker has taken is answered, unless the session ends.
RequestsAnswered ==
    \A u \in Uniques :
        kst[u] \in {"read", "interrupted"} ~> kst[u] = "answered" \/ exited \/ main = "done"

\* After an unmount fuse_session_loop_mt returns, whatever its threads were doing.
LoopEnds == unmounted ~> main = "done"

\* fuse_session_exit by a signal ends the loop ("Exit session on HUP, TERM and INT
\* signals").
SignalEndsLoop == exited ~> main = "done"

\* "it's not possible for interrupts to be lost": an INTERRUPT of a request that
\* stays in its handler is seen by it.
InterruptsNotLost ==
    \A w \in Workers :
        wk[w].pc = "work" /\ kst[wk[w].msg.u] = "interrupted" /\ ~(\E m \in Messages : m.kind = "intr" /\ m.of = wk[w].msg.u)
        /\ (\A v \in Workers : wk[v].msg.kind = "intr" => wk[v].msg.of # wk[w].msg.u)
        => req[wk[w].req].interrupted \/ Contains(intrs, wk[w].msg.u)
=============================================================================

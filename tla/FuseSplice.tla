----------------------------- MODULE FuseSplice ------------------------------
(***************************************************************************)
(* How a worker thread of fuse_lowlevel.c moves messages: fuse_buf_copy of *)
(* buffer.c, the pipe every thread keeps for splice(2) and the three paths *)
(* that use it: fuse_ll_receive_buf, fuse_ll_process_buf with do_write_buf *)
(* and the answer to a retrieve, and fuse_send_data_iov.  Every system     *)
(* call may fail or come back short.  Data is counted in pages; H is the   *)
(* header of a message.                                                    *)
(***************************************************************************)
EXTENDS Integers, Sequences, SequencesExt

CONSTANTS Messages,     \* what the kernel sends: [kind, pages]
          Answers,      \* what a file system answers a read with: buffers
          MaxMessages, None

VARIABLES want,     \* f->conn.want
          broken,   \* f->broken_splice_nonblock
          llp,      \* the thread's pipe: data, size, can_grow; or None
          pc, msg,  \* the thread and the message it is at
          buf,      \* struct fuse_buf of the message
          job,      \* the fuse_buf_copy under way, and its result
          out,      \* what a copy has put into memory or a file
          dev,      \* what the kernel got in answer to the message
          sent      \* messages so far

vars == <<want, broken, llp, pc, msg, buf, job, out, dev, sent>>
-----------------------------------------------------------------------------
(***************************************************************************)
(* buffer.c.  A buffer is memory, a file or the pipe; data is what is in   *)
(* it, which for a file may be less than size.                             *)
(***************************************************************************)
H == <<0, 0>>
Sent(data) == [tag |-> "data", data |-> data]
Not(tag) == [tag |-> tag, data |-> <<>>]
Buf(at, size, data) == [at |-> at, size |-> size, data |-> data]
Vec(bufs, off) == [bufs |-> bufs, idx |-> 1, off |-> off]
fuse_buf_size(v) == FoldLeft(LAMBDA n, b : n + b.size, 0, v.bufs)
Current(v) == v.bufs[v.idx]
AtEnd(v) == v.idx > Len(v.bufs)

\* fuse_bufvec_advance; at the last buffer off stays where it is.
Advance(v, n) ==
    IF v.off + n < Current(v).size THEN [v EXCEPT !.off = @ + n]
    ELSE IF v.idx = Len(v.bufs) THEN [v EXCEPT !.idx = @ + 1, !.off = @ + n]
    ELSE [v EXCEPT !.idx = @ + 1, !.off = 0]
AdvanceOK(v, n) == ~AtEnd(v) /\ v.off + n <= Current(v).size

Copy(src, dst, force) ==
    [src |-> src, dst |-> dst, force |-> force, res |-> 0, run |-> TRUE, ok |-> TRUE]

InPipe(b, off) == IF b.at = "pipe" THEN llp.data ELSE SubSeq(b.data, off + 1, Len(b.data))
Lesser(a, b) == IF a <= b THEN a ELSE b

\* fuse_buf_write, fuse_buf_read, fuse_buf_fd_to_fd and fuse_buf_splice: n
\* pages arrive; a copy by way of a page of memory may take one more out of
\* a pipe than it manages to write.
CopyOne(b, c, off, len, n, lost) ==
    LET from == InPipe(b, off)
        fds == {x \in {b.at, c.at} : x # "mem"}
    IN  /\ n <= Lesser(len, Len(from))
        /\ fds = {} => n = len /\ lost = 0
        /\ lost > 0 => b.at = "pipe" /\ c.at = "file" /\ ~job.force /\ n + lost <= Lesser(len, Len(from))
        /\ llp' = IF b.at = "pipe" THEN [llp EXCEPT !.data = SubSeq(@, n + lost + 1, Len(@))]
                  ELSE IF c.at = "pipe" THEN [llp EXCEPT !.data = @ \o SubSeq(from, 1, n)]
                  ELSE llp
        /\ out' = IF c.at = "pipe" THEN out ELSE out \o SubSeq(from, 1, n)

\* One turn of the loop of fuse_buf_copy: both vectors advance unless the
\* source is at its end.  No vector is empty at the start.
CopyStep ==
    /\ job # None /\ job.run
    /\ ~AtEnd(job.src) /\ ~AtEnd(job.dst)
    /\ LET b == Current(job.src)
           c == Current(job.dst)
           len == Lesser(b.size - job.src.off, c.size - job.dst.off)
       IN  \E n \in 0..len, lost \in 0..1 :
             /\ CopyOne(b, c, job.src.off, len, n, lost)
             /\ LET src == Advance(job.src, n)
                    dst == IF AtEnd(src) THEN job.dst ELSE Advance(job.dst, n)
                    over == AtEnd(src) \/ AtEnd(dst) \/ n < len
                IN  job' = [job EXCEPT !.src = src, !.dst = dst,
                                       !.res = @ + n, !.run = ~over,
                                       !.ok = @ /\ AdvanceOK(job.src, n)
                                                /\ (~AtEnd(src) => AdvanceOK(job.dst, n))]
    /\ UNCHANGED <<want, broken, pc, msg, buf, dev, sent>>

\* A system call fails: an error unless something was copied before; -2 is
\* EAGAIN or EINVAL.
CopyFail ==
    /\ job # None /\ job.run
    /\ ~AtEnd(job.src) /\ ~AtEnd(job.dst)
    /\ {Current(job.src).at, Current(job.dst).at} # {"mem"}
    /\ \E e \in {-1, -2} :
          job' = [job EXCEPT !.res = IF @ = 0 THEN e ELSE @, !.run = FALSE]
    /\ UNCHANGED <<want, broken, llp, pc, msg, buf, out, dev, sent>>

Copied == job # None /\ ~job.run
-----------------------------------------------------------------------------
(***************************************************************************)
(* The pipe: fuse_ll_get_pipe with fcntl(F_SETPIPE_SZ), fuse_ll_clear_pipe.*)
(***************************************************************************)
NewPipe == [data |-> <<>>, big |-> FALSE, can_grow |-> TRUE]
Pipe == IF llp = None THEN NewPipe ELSE llp
\* The pipe in which a message fits, or the one that cannot grow.
Grown(p) == IF p.big THEN {p}
            ELSE IF p.can_grow THEN {[p EXCEPT !.big = TRUE], [p EXCEPT !.can_grow = FALSE]}
            ELSE {p}
\* The pipes that make a caller fall back: none to be had, or too small.
Unusable == (IF llp = None THEN {None} ELSE {}) \cup {p \in Grown(Pipe) : ~p.big}
Goto(next) == pc' = next /\ UNCHANGED <<want, msg, sent>>
Call(src, dst, force) == job' = Copy(src, dst, force) /\ out' = <<>>
Return == job' = None /\ out' = <<>>
-----------------------------------------------------------------------------
\* fuse_ll_receive_buf: by splice if the pipe is there and large enough,
\* else by read(2).
Receive(m) ==
    /\ pc = "recv" /\ sent < MaxMessages
    /\ LET units == <<H>> \o [i \in 1..m.pages |-> <<sent + 1, i>>]
           size == Len(units)
       IN  /\ msg' = [m EXCEPT !.units = units] /\ sent' = sent + 1
           /\ \/ \* fallback
                 /\ buf' = Buf("mem", size, units)
                 /\ llp' \in IF "SPLICE_READ" \in want THEN Unusable ELSE {llp}
                 /\ pc' = "handle" /\ job' = None
              \/ /\ "SPLICE_READ" \in want
                 /\ \E p \in Grown(Pipe) :
                       p.big /\ llp' = [p EXCEPT !.data = @ \o units]
                 /\ buf' = Buf("pipe", size, <<>>)
                 \* small requests are copied to memory
                 /\ IF m.pages = 0
                    THEN job' = Copy(Vec(<<Buf("pipe", size, <<>>)>>, 0),
                                     Vec(<<Buf("mem", size, <<>>)>>, 0), FALSE) /\ pc' = "small"
                    ELSE job' = None /\ pc' = "head"
    /\ dev' = Not("none") /\ out' = <<>>
    /\ UNCHANGED <<want, broken>>

\* The rest of it for small requests; an error ends the loop.
Received ==
    /\ pc = "small" /\ Copied
    /\ IF job.res < buf.size
       THEN llp' = None /\ Goto("end") /\ UNCHANGED buf
       ELSE buf' = Buf("mem", buf.size, out) /\ Goto("handle") /\ UNCHANGED llp
    /\ Return
    /\ UNCHANGED <<broken, dev>>

\* fuse_ll_process_buf: the header is copied out of the pipe first.
Header ==
    /\ pc = "head" /\ job = None
    /\ \/ Call(Vec(<<buf>>, 0), Vec(<<Buf("mem", 1, <<>>)>>, 0), FALSE) /\ UNCHANGED llp /\ Goto("check")
       \/ llp' = None /\ Return /\ Goto("recv")      \* no memory: the message is dropped
    /\ UNCHANGED <<broken, buf, dev>>

\* Then the request is allocated and checked (it may be refused), and what
\* is not for write_buf or a retrieve is copied too.
ProcessBuf ==
    /\ pc = "check" /\ Copied
    /\ \/ /\ job.res < 1
          /\ llp' = None /\ Return /\ Goto("recv") /\ UNCHANGED <<buf, dev>>
       \/ /\ job.res = 1                             \* no request, not allowed, no memory
          /\ llp' = None /\ Return /\ Goto("recv") /\ dev' = Not("error") /\ UNCHANGED buf
       \/ /\ job.res = 1 /\ msg.kind \in {"write", "retrieve"}
          /\ buf' = [buf EXCEPT !.data = out]
          /\ Return /\ Goto("handle") /\ UNCHANGED <<llp, dev>>
       \/ /\ job.res = 1 /\ msg.kind \notin {"write", "retrieve"}
          /\ job' = Copy(job.src, Vec(<<Buf("mem", buf.size - 1, <<>>)>>, 0), FALSE)
          /\ Goto("rest") /\ UNCHANGED <<llp, buf, dev, out>>
    /\ UNCHANGED broken

Rest ==
    /\ pc = "rest" /\ Copied
    /\ IF job.res < buf.size - 1
       THEN llp' = None /\ dev' = Not("error") /\ Goto("recv") /\ UNCHANGED buf
       ELSE buf' = Buf("mem", buf.size, out) /\ Goto("handle") /\ UNCHANGED <<llp, dev>>
    /\ Return
    /\ UNCHANGED broken

\* do_write_buf and fuse_ll_retrieve_reply: the operation copies what it
\* likes of the payload into a file.
WriteBuf ==
    /\ pc = "handle" /\ msg.kind \in {"write", "retrieve"}
    /\ LET size == buf.size - 1
           src == IF buf.at = "pipe" THEN Buf("pipe", size, <<>>)
                  ELSE Buf("mem", size, Tail(buf.data))
       IN  \/ Call(Vec(<<src>>, 0), Vec(<<Buf("file", size, <<>>)>>, 0), FALSE)
           \/ \* it does not look at the data
              job' = [Copy(Vec(<<src>>, 0), Vec(<<>>, 0), FALSE) EXCEPT !.run = FALSE] /\ out' = <<>>
    /\ Goto("written")
    /\ UNCHANGED <<broken, llp, buf, dev>>

\* Mutant of Written: the pipe is kept as the operation left it.
WrittenKeeps ==
    /\ pc = "written" /\ Copied
    /\ dev' = IF msg.kind = "retrieve" THEN Not("none")
              ELSE IF job.res < 0 THEN Not("error") ELSE Sent(<<H>>)
    /\ buf' = None /\ Goto("recv")
    /\ Return
    /\ UNCHANGED <<broken, llp>>
\* The pipe is reset unless all of it was consumed.
Written ==
    /\ pc = "written" /\ Copied
    /\ llp' = IF buf.at = "pipe" /\ ~AtEnd(job.src) THEN None ELSE llp
    /\ dev' = IF msg.kind = "retrieve" THEN Not("none")
              ELSE IF job.res < 0 THEN Not("error") ELSE Sent(<<H>>)
    /\ buf' = None /\ Goto("recv")
    /\ Return
    /\ UNCHANGED broken

\* Any other request: its handler looks at the message in memory; a read is
\* answered with fuse_reply_data.
Handle ==
    /\ pc = "handle" /\ msg.kind \notin {"write", "retrieve"}
    /\ IF msg.kind = "read" THEN Goto("send") /\ UNCHANGED <<buf, dev>>
       ELSE dev' = Sent(<<H>>) /\ buf' = None /\ Goto("recv")
    /\ Return
    /\ UNCHANGED <<broken, llp>>
-----------------------------------------------------------------------------
(***************************************************************************)
(* fuse_reply_data: fuse_send_data_iov with the operation's answer a.  A   *)
(* negative result means the answer could not be sent, a positive one is   *)
(* an errno sent instead.                                                  *)
(***************************************************************************)
Reply(a) == Vec([i \in DOMAIN a |-> Buf(a[i].at, a[i].size, [j \in 1..a[i].len |-> <<100 + i, j>>])], 0)
\* total_fd_size: of the last buffer that is a file.
FdSize(v) == FoldLeft(LAMBDA n, b : IF b.at = "file" THEN b.size ELSE n, 0, v.bufs)
End(answer, p) == dev' = answer /\ llp' = p /\ Return /\ buf' = None /\ pc' = "recv"

\* fuse_send_data_iov_fallback.
Fallback(v, p) ==
    \/ /\ Len(v.bufs) = 1 /\ v.bufs[1].at = "mem"
       /\ End(Sent(<<H>> \o v.bufs[1].data), p)
    \/ /\ Len(v.bufs) # 1 \/ v.bufs[1].at # "mem"
       /\ \/ End(Not("error"), p)                         \* posix_memalign
          \/ /\ Call(v, Vec(<<Buf("mem", fuse_buf_size(v), <<>>)>>, 0), FALSE)
             /\ llp' = p /\ pc' = "fallback" /\ UNCHANGED <<buf, dev>>

Send(a) ==
    /\ pc = "send"
    /\ LET v == Reply(a)
       IN  /\ msg' = [msg EXCEPT !.reply = v]
           /\ \/ /\ broken \/ FdSize(v) < 2 \/ "SPLICE_WRITE" \notin want
                 /\ Fallback(v, llp)
              \/ /\ ~broken /\ FdSize(v) >= 2 /\ "SPLICE_WRITE" \in want
                 /\ \/ \E p \in Unusable \cup {q \in Grown(Pipe) : q.big} :   \* or vmsplice fails
                          Fallback(v, p)
                    \/ End(Not("unsent"), None)                            \* a short vmsplice
                    \/ /\ \E p \in {q \in Grown(Pipe) : q.big} :
                             llp' = [p EXCEPT !.data = Append(@, H)]
                       /\ Call(v, Vec(<<Buf("pipe", fuse_buf_size(v), <<>>)>>, 0), TRUE)
                       /\ pc' = "spliced" /\ UNCHANGED <<buf, dev>>
    /\ UNCHANGED <<want, broken, sent>>

FellBack ==
    /\ pc = "fallback" /\ Copied
    /\ End(IF job.res < 0 THEN Not("error") ELSE Sent(<<H>> \o out), llp)
    /\ UNCHANGED <<want, broken, msg, sent>>

\* The pipe goes to the device, header and n pages.
SpliceOut(n) ==
    \/ End(Sent(SubSeq(llp.data, 1, n + 1)), [llp EXCEPT !.data = SubSeq(@, n + 2, Len(@))])
    \/ End(Not("unsent"), None)

Spliced ==
    /\ pc = "spliced" /\ Copied
    /\ LET len == fuse_buf_size(msg.reply)
       IN  \/ /\ job.res = -2
             /\ broken' \in {broken, TRUE} /\ Fallback(job.src, None) /\ UNCHANGED msg
          \/ /\ job.res = -1
             /\ End(Not("error"), None) /\ UNCHANGED <<broken, msg>>
          \/ /\ job.res > 0 /\ job.res < len            \* a short count: try for more
             /\ \/ End(Not("error"), None) /\ UNCHANGED msg   \* posix_memalign
                \/ /\ Call(job.src, Vec(<<Buf("mem", len, <<>>)>>, job.res), FALSE)
                   /\ msg' = [msg EXCEPT !.now = job.res]
                   /\ pc' = "more" /\ UNCHANGED <<llp, buf, dev>>
             /\ UNCHANGED broken
          \/ /\ job.res = 0 \/ job.res = len
             /\ SpliceOut(job.res) /\ UNCHANGED <<broken, msg>>
    /\ UNCHANGED <<want, sent>>

\* There was more: the data is read back from the pipe and all of it written.
More ==
    /\ pc = "more" /\ Copied
    /\ IF job.res > 0
       THEN \/ End(Not("error"), None)                       \* malloc
            \/ End(Not("unsent"), None)                      \* read_back
            \/ End(Sent(<<H>> \o SubSeq(llp.data, 2, msg.now + 1) \o out),
                   [llp EXCEPT !.data = SubSeq(@, msg.now + 2, Len(@))])
       ELSE SpliceOut(msg.now)
    /\ UNCHANGED <<want, broken, msg, sent>>
-----------------------------------------------------------------------------
Init ==
    /\ want \in SUBSET {"SPLICE_READ", "SPLICE_WRITE"}
    /\ broken = FALSE /\ llp = None /\ pc = "recv"
    /\ msg = [kind |-> "none", pages |-> 0, units |-> <<>>, reply |-> None, now |-> 0]
    /\ buf = None /\ job = None /\ out = <<>> /\ dev = Not("none") /\ sent = 0

Next ==
    \/ \E m \in Messages : Receive([kind |-> m.kind, pages |-> m.pages, units |-> <<>>, reply |-> None, now |-> 0])
    \/ \E a \in Answers : Send(a)
    \/ CopyStep \/ CopyFail
    \/ Received \/ Header \/ ProcessBuf \/ Rest \/ WriteBuf \/ Written \/ Handle
    \/ FellBack \/ Spliced \/ More
Spec == Init /\ [][Next]_vars
-----------------------------------------------------------------------------
\* A thread that receives finds its pipe empty, so that a message is never
\* read behind the rest of an earlier one: every path through a request
\* that leaves data in the pipe clears it.  A handler sees the message
\* the kernel sent, and a write_buf writes a part of its beginning.
PipeClean ==
    /\ pc = "recv" /\ llp # None => llp.data = <<>>
    /\ pc = "handle" =>
          IF buf.at = "mem" THEN buf.data = msg.units
          ELSE buf.data = <<H>> /\ llp.data = Tail(msg.units)
    /\ pc = "written" => IsPrefix(out, Tail(msg.units))

\* What is in the buffers of an answer up to the first that is short.
Content(v) ==
    FoldLeft(LAMBDA r, b : IF r.short THEN r
                           ELSE [data |-> r.data \o b.data, short |-> Len(b.data) < b.size],
             [data |-> <<>>, short |-> FALSE], v.bufs).data
\* An answer with data is the header and a beginning of the data, whether
\* it went through memory, the pipe, or half and half; and the assertions
\* of fuse_bufvec_advance hold.
AnswerExact ==
    /\ job # None => job.ok
    /\ pc = "recv" /\ msg.kind = "read" /\ dev.tag = "data" =>
          IsPrefix(dev.data, <<H>> \o Content(msg.reply)) /\ Len(dev.data) > 0
=============================================================================

----------------------------- MODULE PintosMemory -----------------------------
(* Who owns the pages of Pintos: the kernel heap (threads/malloc.c), page     *)
(* directories and page tables (userprog/pagedir.c), the loader and the exit  *)
(* of processes (userprog/process.c), and the switch of threads that changes  *)
(* the address space (threads/thread.c, thread_schedule_tail).                *)
(*                                                                            *)
(* One thread starts processes, others use the heap; all draw from the page   *)
(* allocator, whose calls are single steps here (PintosPalloc has their       *)
(* insides).  Only the current thread takes steps, and it may lose the        *)
(* processor between any two of them.  Addresses have Width values.           *)
EXTENDS Integers, Sequences, FiniteSets, SequencesExt

CONSTANTS KPages, UPages,        \* kernel and user pool: sets of page numbers
          Main, Procs, Clients,  \* the starter, process slots, users of the heap
          PGSIZE, PtSize,        \* bytes of a page, entries of a page table
          PHYS_BASE, Width,      \* end of user addresses, 2^32
          MinBlock, ArenaSize,   \* smallest block, sizeof (struct arena)
          Scenes,                \* the pages there are, programs, sizes, and bounds on what happens
          None

VARIABLES free,                  \* free pages
          cr3, cur,              \* active page directory, running thread
          main, proc,            \* process_execute's locals, the processes
          dir, tab,              \* page directories and page tables, by page
          desc, arena, client,   \* descriptors, arenas by page, heap users
          lost,                  \* pages nobody will give back
          scene                  \* what may still happen

memVars == <<free, cr3, cur, main, proc, dir, tab, desc, arena, client, lost, scene>>
spaceVars == <<cr3, cur, main, proc, dir, tab, lost>>
heapVars == <<desc, arena, client>>

-----------------------------------------------------------------------------
(* The page allocator *)

Got(pool) == IF free \cap pool = {} THEN None ELSE Min(free \cap pool)

\* palloc_get_multiple: the first run of n free kernel pages.
Run(n) == LET starts == {k \in KPages : k .. k + n - 1 \subseteq free \cap KPages}
          IN IF starts = {} THEN None ELSE Min(starts)

Without(f, x) == [y \in DOMAIN f \ {x} |-> f[y]]
With(f, x, v) == [y \in DOMAIN f \cup {x} |-> IF y = x THEN v ELSE f[y]]
Uses(key) == scene[key] > 0 /\ scene' = [scene EXCEPT ![key] = @ - 1]

-----------------------------------------------------------------------------
(* malloc.c *)

\* malloc_init: descriptors of doubling size below half a page.
RECURSIVE SizesFrom(_)
SizesFrom(s) == IF s < PGSIZE \div 2 THEN {s} \cup SizesFrom(2 * s) ELSE {}
Descs == SizesFrom(MinBlock)
BlocksPerArena(d) == (PGSIZE - ArenaSize) \div d

\* The smallest descriptor for a size, or none; the pages of a big block.
DescFor(size) == LET fit == {d \in Descs : d >= size} IN IF fit = {} THEN None ELSE Min(fit)
PageCnt(size) == (size + ArenaSize + PGSIZE - 1) \div PGSIZE

Block(a, i, size) == [page |-> a, idx |-> i, size |-> size]
block_size(b) == IF arena[b.page].desc # None THEN arena[b.page].desc
                 ELSE PGSIZE * arena[b.page].free_cnt - ArenaSize

\* calloc's size, or none if the product is found not to fit.
CallocSize(a, b) == LET size == (a * b) % Width
                    IN IF size < a \/ size < b THEN None ELSE size

Idle(c) == cur = c /\ client[c].pc = "idle"

\* What comes after a block was obtained: realloc goes on to free the old one.
Obtained(c, b) ==
    IF client[c].old = None
    THEN [client EXCEPT ![c].pc = "idle", ![c].held = @ \cup {b}]
    ELSE [client EXCEPT ![c].pc = "free", ![c].held = (@ \cup {b}) \ {client[c].old}]

\* No memory: malloc returns NULL, and realloc leaves the old block alone.
Refused(c) == [client EXCEPT ![c].pc = "idle", ![c].old = None]

\* malloc up to the lock of the descriptor; a big block needs none.
malloc(c, size, old) ==
    /\ LET d == DescFor(size)
           a == Run(PageCnt(size))
           wanted == [client EXCEPT ![c].size = size, ![c].old = old]
       IN IF d # None
          THEN /\ client' = [wanted EXCEPT ![c].pc = "lock", ![c].desc = d]
               /\ UNCHANGED <<free, arena>>
          ELSE IF a = None THEN UNCHANGED <<client, free, arena>>
          ELSE /\ free' = free \ (a .. a + PageCnt(size) - 1)
               /\ arena' = With(arena, a, [desc |-> None, free_cnt |-> PageCnt(size)])
               /\ client' = IF old = None
                            THEN [client EXCEPT ![c].held = @ \cup {Block(a, 0, size)}]
                            ELSE [wanted EXCEPT ![c].pc = "free",
                                    ![c].held = (@ \cup {Block(a, 0, size)}) \ {old}]
    /\ UNCHANGED desc

\* Waiting for and getting the descriptor's lock, in malloc and in free.
LockDesc(c) ==
    /\ cur = c /\ client[c].pc \in {"lock", "freelock"}
    /\ desc[client[c].desc].lock = None
    /\ desc' = [desc EXCEPT ![client[c].desc].lock = c]
    /\ client' = [client EXCEPT ![c].pc = IF @ = "lock" THEN "take" ELSE "put"]
    /\ UNCHANGED <<free, arena, scene>> /\ UNCHANGED spaceVars

\* A new arena for an empty free list, or NULL if there is no page.
NewArena(c) ==
    /\ cur = c /\ client[c].pc = "take" /\ desc[client[c].desc].free_list = <<>>
    /\ LET d == client[c].desc
           a == Got(KPages)
       IN IF a = None
          THEN /\ client' = Refused(c) /\ desc' = [desc EXCEPT ![d].lock = None]
               /\ UNCHANGED <<free, arena>>
          ELSE /\ free' = free \ {a}
               /\ arena' = With(arena, a, [desc |-> d, free_cnt |-> BlocksPerArena(d)])
               /\ desc' = [desc EXCEPT ![d].free_list =
                             [i \in 1 .. BlocksPerArena(d) |-> <<a, i - 1>>]]
               /\ UNCHANGED client
    /\ UNCHANGED scene /\ UNCHANGED spaceVars

\* Pop a block and release the lock.
TakeBlock(c) ==
    /\ cur = c /\ client[c].pc = "take" /\ desc[client[c].desc].free_list # <<>>
    /\ LET d == client[c].desc
           b == Head(desc[d].free_list)
       IN /\ desc' = [desc EXCEPT ![d].free_list = Tail(@), ![d].lock = None]
          /\ arena' = [arena EXCEPT ![b[1]].free_cnt = @ - 1]
          /\ client' = Obtained(c, Block(b[1], b[2], client[c].size))
    /\ UNCHANGED <<free, scene>> /\ UNCHANGED spaceVars

\* free up to the lock; the block is no longer the caller's.
FreeBlock(c, b, held) ==
    /\ IF arena[b.page].desc # None
       THEN /\ client' = [client EXCEPT ![c].pc = "freelock", ![c].old = b, ![c].held = held,
                                        ![c].desc = arena[b.page].desc]
            /\ UNCHANGED <<free, arena>>
       ELSE /\ free' = free \cup (b.page .. b.page + arena[b.page].free_cnt - 1)
            /\ arena' = Without(arena, b.page)
            /\ client' = [client EXCEPT ![c].pc = "idle", ![c].old = None, ![c].held = held]
    /\ UNCHANGED desc

\* Mutant of PutBlock: the blocks of an arena that goes back stay listed.
PutBlockListed(c) ==
    /\ cur = c /\ client[c].pc = "put"
    /\ LET d == client[c].desc
           b == client[c].old
           empty == arena[b.page].free_cnt + 1 >= BlocksPerArena(d)
       IN /\ desc' = [desc EXCEPT ![d].lock = None, ![d].free_list = <<<<b.page, b.idx>>>> \o @]
          /\ arena' = IF empty THEN Without(arena, b.page)
                      ELSE [arena EXCEPT ![b.page].free_cnt = @ + 1]
          /\ free' = IF empty THEN free \cup {b.page} ELSE free
          /\ client' = [client EXCEPT ![c].pc = "idle", ![c].old = None]
    /\ UNCHANGED scene /\ UNCHANGED spaceVars

\* Push the block; an arena without used blocks goes back, with its blocks
\* off the free list.
PutBlock(c) ==
    /\ cur = c /\ client[c].pc = "put"
    /\ LET d == client[c].desc
           b == client[c].old
           list == <<<<b.page, b.idx>>>> \o desc[d].free_list
           empty == arena[b.page].free_cnt + 1 >= BlocksPerArena(d)
       IN /\ desc' = [desc EXCEPT ![d].lock = None,
                        ![d].free_list = IF empty THEN SelectSeq(list, LAMBDA e : e[1] # b.page)
                                         ELSE list]
          /\ arena' = IF empty THEN Without(arena, b.page)
                      ELSE [arena EXCEPT ![b.page].free_cnt = @ + 1]
          /\ free' = IF empty THEN free \cup {b.page} ELSE free
          /\ client' = [client EXCEPT ![c].pc = "idle", ![c].old = None]
    /\ UNCHANGED scene /\ UNCHANGED spaceVars

Malloc(c) == /\ Idle(c) /\ Uses("calls") /\ UNCHANGED spaceVars
             /\ \/ \E size \in scene.sizes \ {0} : malloc(c, size, None)
                \/ \E p \in scene.callocs : CallocSize(p[1], p[2]) # None /\ CallocSize(p[1], p[2]) # 0
                                            /\ malloc(c, CallocSize(p[1], p[2]), None)

realloc(c) == /\ Idle(c) /\ Uses("calls") /\ UNCHANGED spaceVars
              /\ \E b \in client[c].held, size \in scene.sizes :
                   IF size = 0 THEN FreeBlock(c, b, client[c].held \ {b}) ELSE malloc(c, size, b)

Free(c) == /\ UNCHANGED scene /\ UNCHANGED spaceVars
           /\ \/ Idle(c) /\ \E b \in client[c].held : FreeBlock(c, b, client[c].held \ {b})
              \/ cur = c /\ client[c].pc = "free" /\ FreeBlock(c, client[c].old, client[c].held)

-----------------------------------------------------------------------------
(* pagedir.c *)

PdNo(upage) == upage \div (PGSIZE * PtSize)
PtNo(upage) == (upage \div PGSIZE) % PtSize
PageNo(vaddr) == (vaddr \div PGSIZE) * PGSIZE
is_user_vaddr(vaddr) == vaddr < PHYS_BASE

pagedir_get_page(pd, upage) ==
    LET pt == dir[pd][PdNo(upage)] IN IF pt = None THEN None ELSE tab[pt][PtNo(upage)]

NoEntries == [i \in 0 .. PtSize - 1 |-> None]

\* lookup_page with create, then the entry; the page table may need a page.
pagedir_set_page(pd, upage, kpage, writable) ==
    LET pde == PdNo(upage)
        pt  == IF dir[pd][pde] # None THEN dir[pd][pde] ELSE Got(KPages)
        new == dir[pd][pde] = None
        entry == [frame |-> kpage, writable |-> writable]
    IN /\ pt # None
       /\ free' = IF new THEN free \ {pt} ELSE free
       /\ dir' = [dir EXCEPT ![pd][pde] = pt]
       /\ tab' = With(tab, pt, [(IF new THEN NoEntries ELSE tab[pt]) EXCEPT ![PtNo(upage)] = entry])

SetPageFails(pd, upage) == dir[pd][PdNo(upage)] = None /\ Got(KPages) = None

\* pagedir_activate (NULL) activates init_page_dir, for which None stands.
Directory(t) == IF t \in Procs THEN proc[t].pagedir ELSE None

-----------------------------------------------------------------------------
(* process_execute, in Main *)

Step(t, pc) == cur = t /\ (IF t = Main THEN main.pc ELSE proc[t].pc) = pc

\* The two copies of the command line.
CopyName == /\ Step(Main, "idle") /\ Uses("execs") /\ Got(KPages) # None
            /\ main' = [main EXCEPT !.pc = "copy", !.fn = Got(KPages)]
            /\ free' = free \ {Got(KPages)}
            /\ UNCHANGED <<cr3, cur, proc, dir, tab, lost>> /\ UNCHANGED heapVars

CopyExec ==
    /\ Step(Main, "copy")
    /\ IF Got(KPages) = None
       THEN main' = [main EXCEPT !.pc = "idle", !.fn = None] /\ free' = free \cup {main.fn}
       ELSE main' = [main EXCEPT !.pc = "create", !.copy = Got(KPages)] /\ free' = free \ {Got(KPages)}
    /\ UNCHANGED <<cr3, cur, proc, dir, tab, lost, scene>> /\ UNCHANGED heapVars

NewProcess(page, fn, prog) ==
    [pc |-> "new", thread |-> page, pagedir |-> None, fn |-> fn, prog |-> prog, phdrs |-> <<>>,
     seg |-> None, kpage |-> None, pd |-> None]

\* thread_create; if it fails, process_execute waits for a child that is not.
thread_create(p, prog) ==
    /\ Step(Main, "create") /\ proc[p].pc = "none"
    /\ IF Got(KPages) = None
       THEN main' = [main EXCEPT !.pc = "hung"] /\ UNCHANGED <<free, proc>>
       ELSE /\ free' = free \ {Got(KPages)}
            /\ proc' = [proc EXCEPT ![p] = NewProcess(Got(KPages), main.fn, prog)]
            /\ main' = [main EXCEPT !.pc = "down", !.fn = None]
    /\ UNCHANGED <<cr3, cur, dir, tab, lost, scene>> /\ UNCHANGED heapVars

\* Back from sema_down (exec_sema).
ExecReturns == /\ Step(Main, "down") /\ main.up
               /\ main' = [main EXCEPT !.pc = "idle", !.copy = None, !.up = FALSE]
               /\ free' = free \cup {main.copy}
               /\ UNCHANGED <<cr3, cur, proc, dir, tab, lost, scene>> /\ UNCHANGED heapVars

-----------------------------------------------------------------------------
(* start_process and load *)

To(p, pc) == proc' = [proc EXCEPT ![p].pc = pc]

\* start_process after load has failed: the page of the name is forgotten.
LoadFails(p) ==
    /\ proc' = [proc EXCEPT ![p].pc = "exit", ![p].fn = None, ![p].seg = None, ![p].kpage = None]
    /\ main' = [main EXCEPT !.up = TRUE]
    /\ lost' = lost \cup {proc[p].fn}

\* pagedir_create and process_activate.
CreateDirectory(p) ==
    /\ Step(p, "new")
    /\ LET pd == Got(KPages)
       IN IF pd = None
          THEN LoadFails(p) /\ UNCHANGED <<free, cr3, dir>>
          ELSE /\ free' = free \ {pd} /\ cr3' = pd
               /\ dir' = With(dir, pd, [i \in 0 .. PdNo(PHYS_BASE) - 1 |-> None])
               /\ proc' = [proc EXCEPT ![p].pagedir = pd, ![p].pc = "open"]
               /\ UNCHANGED <<main, lost>>
    /\ UNCHANGED <<cur, tab, scene>> /\ UNCHANGED heapVars

\* The executable and its header.
OpenProgram(p) ==
    /\ Step(p, "open")
    /\ IF proc[p].prog.valid
       THEN /\ proc' = [proc EXCEPT ![p].pc = "headers", ![p].phdrs = proc[p].prog.phdrs]
            /\ UNCHANGED <<main, lost>>
       ELSE LoadFails(p)
    /\ UNCHANGED <<free, cr3, cur, dir, tab, scene>> /\ UNCHANGED heapVars

validate_segment(ph, length) ==
    LET end == (ph.vaddr + ph.memsz) % Width
    IN /\ ph.offset % PGSIZE = ph.vaddr % PGSIZE
       /\ ph.offset <= length
       /\ ph.memsz >= ph.filesz /\ ph.memsz # 0
       /\ is_user_vaddr(ph.vaddr) /\ is_user_vaddr(end)
       /\ end >= ph.vaddr
       /\ ph.vaddr >= PGSIZE

RoundUp(n) == ((n + PGSIZE - 1) \div PGSIZE) * PGSIZE

\* What load_segment is called with.
Segment(ph) ==
    LET page_offset == ph.vaddr % PGSIZE
        read == IF ph.filesz > 0 THEN page_offset + ph.filesz ELSE 0
    IN [upage |-> PageNo(ph.vaddr), ofs |-> PageNo(ph.offset), read |-> read,
        zero |-> RoundUp(page_offset + ph.memsz) - read, writable |-> ph.writable, stack |-> FALSE]

StackSegment == [upage |-> PHYS_BASE - PGSIZE, ofs |-> 0, read |-> 0, zero |-> PGSIZE,
                 writable |-> TRUE, stack |-> TRUE]

\* One program header, or setup_stack after the last.
ProgramHeader(p) ==
    /\ Step(p, "headers")
    /\ LET ph == Head(proc[p].phdrs)
           next(seg) == proc' = [proc EXCEPT ![p].pc = "page", ![p].seg = seg,
                                             ![p].phdrs = IF @ = <<>> THEN @ ELSE Tail(@)]
       IN \/ proc[p].phdrs = <<>> /\ next(StackSegment) /\ UNCHANGED <<main, lost>>
          \/ /\ proc[p].phdrs # <<>> /\ ph.type = "ignored"
             /\ proc' = [proc EXCEPT ![p].phdrs = Tail(@)] /\ UNCHANGED <<main, lost>>
          \/ /\ proc[p].phdrs # <<>> /\ ph.type = "load" /\ validate_segment(ph, proc[p].prog.length)
             /\ next(Segment(ph)) /\ UNCHANGED <<main, lost>>
          \/ /\ proc[p].phdrs # <<>>
             /\ ph.type = "dynamic" \/ (ph.type = "load" /\ ~validate_segment(ph, proc[p].prog.length))
             /\ LoadFails(p)
    /\ UNCHANGED <<free, cr3, cur, dir, tab, scene>> /\ UNCHANGED heapVars

\* The loop of load_segment, and setup_stack: get a page of the user pool ...
SegmentPage(p) ==
    /\ Step(p, "page")
    /\ LET s == proc[p].seg
       IN IF s.read = 0 /\ s.zero = 0
          THEN /\ IF s.stack
                  THEN /\ proc' = [proc EXCEPT ![p].pc = "started", ![p].seg = None]
                       /\ main' = [main EXCEPT !.up = TRUE]
                  ELSE /\ proc' = [proc EXCEPT ![p].pc = "headers", ![p].seg = None] /\ UNCHANGED main
               /\ UNCHANGED <<free, lost>>
          ELSE IF Got(UPages) = None THEN LoadFails(p) /\ UNCHANGED free
          ELSE /\ proc' = [proc EXCEPT ![p].pc = "install", ![p].kpage = Got(UPages)]
               /\ free' = free \ {Got(UPages)} /\ UNCHANGED <<main, lost>>
    /\ UNCHANGED <<cr3, cur, dir, tab, scene>> /\ UNCHANGED heapVars

\* ... read the file into it, and install_page; else give it back.
InstallPage(p) ==
    /\ Step(p, "install")
    /\ LET s == proc[p].seg
           pd == proc[p].pagedir
           n == IF s.read < PGSIZE THEN s.read ELSE PGSIZE
           short == s.ofs + n > proc[p].prog.length /\ n > 0
       IN IF short \/ pagedir_get_page(pd, s.upage) # None \/ SetPageFails(pd, s.upage)
          THEN /\ LoadFails(p) /\ free' = free \cup {proc[p].kpage} /\ UNCHANGED <<dir, tab>>
          ELSE /\ pagedir_set_page(pd, s.upage, proc[p].kpage, s.writable)
               /\ proc' = [proc EXCEPT ![p].pc = "page", ![p].kpage = None,
                             ![p].seg = [s EXCEPT !.upage = @ + PGSIZE, !.ofs = @ + n,
                                                  !.read = @ - n, !.zero = @ - (PGSIZE - n)]]
               /\ UNCHANGED <<main, lost>>
    /\ UNCHANGED <<cr3, cur, scene>> /\ UNCHANGED heapVars

\* The rest of start_process; then the process runs until it exits or the
\* page fault handler kills it.
StartUser(p) == /\ Step(p, "started")
                /\ free' = free \cup {proc[p].fn}
                /\ proc' = [proc EXCEPT ![p].pc = "user", ![p].fn = None]
                /\ UNCHANGED <<cr3, cur, main, dir, tab, lost, scene>> /\ UNCHANGED heapVars

exit(p) == /\ Step(p, "user") /\ To(p, "exit")
           /\ UNCHANGED <<free, cr3, cur, main, dir, tab, lost, scene>> /\ UNCHANGED heapVars

-----------------------------------------------------------------------------
(* process_exit and the end of a thread *)

\* cur->pagedir = NULL
DropDirectory(p) ==
    /\ Step(p, "exit")
    /\ proc' = [proc EXCEPT ![p].pd = proc[p].pagedir, ![p].pagedir = None,
                            ![p].pc = IF proc[p].pagedir = None THEN "dying" ELSE "activate"]
    /\ UNCHANGED <<free, cr3, cur, main, dir, tab, lost, scene>> /\ UNCHANGED heapVars

\* pagedir_activate (NULL)
ActivateBase(p) ==
    /\ Step(p, "activate") /\ cr3' = None /\ To(p, "destroy")
    /\ UNCHANGED <<free, cur, main, dir, tab, lost, scene>> /\ UNCHANGED heapVars

\* pagedir_destroy, one palloc_free_page at a time.
pagedir_destroy(p) ==
    /\ Step(p, "destroy")
    /\ LET pd   == proc[p].pd
           pdes == {i \in DOMAIN dir[pd] : dir[pd][i] # None}
           pt   == dir[pd][Min(pdes)]
           ptes == {i \in DOMAIN tab[pt] : tab[pt][i] # None}
       IN \/ /\ pdes = {}
             /\ free' = free \cup {pd} /\ dir' = Without(dir, pd) /\ UNCHANGED tab
             /\ proc' = [proc EXCEPT ![p].pc = "dying", ![p].pd = None]
          \/ /\ pdes # {} /\ ptes = {}
             /\ free' = free \cup {pt} /\ tab' = Without(tab, pt)
             /\ dir' = [dir EXCEPT ![pd][Min(pdes)] = None] /\ UNCHANGED proc
          \/ /\ pdes # {} /\ ptes # {}
             /\ free' = free \cup {tab[pt][Min(ptes)].frame}
             /\ tab' = [tab EXCEPT ![pt][Min(ptes)] = None] /\ UNCHANGED <<dir, proc>>
    /\ UNCHANGED <<cr3, cur, main, lost, scene>> /\ UNCHANGED heapVars

Runnable(t) == CASE t = Main -> main.pc # "hung" /\ (main.pc = "down" => main.up)
                 [] t \in Procs -> proc[t].pc \notin {"none", "dying"}
                 [] OTHER -> /\ client[t].pc = "idle" => scene.calls > 0 \/ client[t].held # {}
                             /\ client[t].pc \in {"lock", "freelock"} => desc[client[t].desc].lock = None

\* schedule and thread_schedule_tail: the page directory of the next thread
\* is activated, then the page of a dying thread is freed.
schedule(t) ==
    /\ t # cur /\ Runnable(t)
    /\ cur' = t /\ cr3' = Directory(t)
    /\ IF cur \in Procs /\ proc[cur].pc = "dying"
       THEN /\ free' = free \cup {proc[cur].thread}
            /\ proc' = [proc EXCEPT ![cur].pc = "none", ![cur].thread = None]
       ELSE UNCHANGED <<free, proc>>
    /\ UNCHANGED <<main, dir, tab, lost, scene>> /\ UNCHANGED heapVars

-----------------------------------------------------------------------------
Init ==
    /\ scene \in Scenes
    /\ free = scene.pages /\ cr3 = None /\ cur = Main /\ lost = {}
    /\ main = [pc |-> "idle", fn |-> None, copy |-> None, up |-> FALSE]
    /\ proc = [p \in Procs |-> [NewProcess(None, None, None) EXCEPT !.pc = "none"]]
    /\ dir = <<>> /\ tab = <<>> /\ arena = <<>>
    /\ desc = [d \in Descs |-> [lock |-> None, free_list |-> <<>>]]
    /\ client = [c \in Clients |-> [pc |-> "idle", size |-> 0, desc |-> None, old |-> None, held |-> {}]]

Heap(c) == Malloc(c) \/ realloc(c) \/ Free(c) \/ LockDesc(c) \/ NewArena(c) \/ TakeBlock(c) \/ PutBlock(c)

Process(p) == \/ CreateDirectory(p) \/ OpenProgram(p) \/ ProgramHeader(p) \/ SegmentPage(p) \/ InstallPage(p)
              \/ StartUser(p) \/ exit(p) \/ DropDirectory(p) \/ ActivateBase(p) \/ pagedir_destroy(p)

Exec == CopyName \/ CopyExec \/ ExecReturns
        \/ \E p \in Procs : (\A q \in Procs : proc[q].pc = "none" => p <= q)
                            /\ \E prog \in scene.programs : thread_create(p, prog)

Next == \/ Exec \/ (\E p \in Procs : Process(p)) \/ (\E c \in Clients : Heap(c))
        \/ \E t \in {Main} \cup Procs \cup Clients : schedule(t)

Spec == Init /\ [][Next]_memVars

-----------------------------------------------------------------------------
(* Properties *)

Frames(pt) == {tab[pt][i].frame : i \in {j \in DOMAIN tab[pt] : tab[pt][j] # None}}
ArenaPages(a) == a .. a + (IF arena[a].desc = None THEN arena[a].free_cnt ELSE 1) - 1

\* The sets of pages that one owner each holds.
Owned == << DOMAIN arena, DOMAIN dir, DOMAIN tab, lost, {main.fn}, {main.copy} >>
Held(p) == << {proc[p].thread}, {proc[p].fn}, {proc[p].kpage} >>

\* How often a page is owned: as (part of) an arena or a big block, a page
\* directory, a page table, a mapped frame, a thread, a copy of a command line
\* or a page about to be mapped; or lost.
Owners(k) ==
    Cardinality({a \in DOMAIN arena : k \in ArenaPages(a)})
    + Cardinality({pt \in DOMAIN tab : k \in Frames(pt)})
    + Cardinality({i \in 2 .. Len(Owned) : k \in Owned[i]})
    + Cardinality({x \in Procs \X (1 .. 3) : k \in Held(x[1])[x[2]]})

\* Every page that is not free has exactly one owner, whatever interleaving
\* and whichever allocation fails on the way: none is leaked, but for the copy
\* of the command line of a program that could not be loaded, none is given
\* back while in use, and none is given back twice.
PagesOwned == \A k \in scene.pages : Owners(k) = IF k \in free THEN 0 ELSE 1

\* The active page directory is never one that has been freed: it is the one
\* of the running thread, also if a process is preempted in process_exit.
DirectoryLive ==
    /\ cr3 # None => cr3 \in DOMAIN dir
    /\ IF cur \in Procs /\ proc[cur].pc \in {"activate"} THEN cr3 \in {None, proc[cur].pd}
       ELSE cr3 = Directory(cur)

\* The pages a program asks for, with their rights.
Pages(ph) == {PageNo(ph.vaddr) + i * PGSIZE : i \in 0 .. ((ph.vaddr % PGSIZE) + ph.memsz - 1) \div PGSIZE}
Wanted(prog) ==
    {<<PHYS_BASE - PGSIZE, TRUE>>} \cup
    UNION {Pages(prog.phdrs[i]) \X {prog.phdrs[i].writable} :
             i \in {j \in DOMAIN prog.phdrs : prog.phdrs[j].type = "load"}}
UserPages == {v * PGSIZE : v \in 0 .. PHYS_BASE \div PGSIZE - 1}
Mapped(pd) == {<<u, pagedir_get_page(pd, u).writable>> :
                 u \in {v \in UserPages : pagedir_get_page(pd, v) # None}}

\* A process that runs has exactly the pages its program headers ask for and
\* a stack, each once and with the rights asked for, in the user pool and
\* without page 0, although the headers may overlap, wrap around or run into
\* the stack: then it does not start.
LoadedExactly ==
    \A p \in Procs : proc[p].pc = "user" =>
      /\ Mapped(proc[p].pagedir) = Wanted(proc[p].prog)
      /\ Cardinality({w[1] : w \in Wanted(proc[p].prog)}) = Cardinality(Wanted(proc[p].prog))
      /\ \A w \in Wanted(proc[p].prog) : w[1] # 0 /\ is_user_vaddr(w[1])
      /\ \A pt \in {dir[proc[p].pagedir][i] : i \in DOMAIN dir[proc[p].pagedir]} \ {None} :
           Frames(pt) \subseteq UPages

FreeBlocks == UNION {ToSet(desc[d].free_list) : d \in Descs}
UsedBlocks(c) == client[c].held \cup (IF client[c].old = None THEN {} ELSE {client[c].old})

\* The heap's books are right: a block is free or someone's, not both and not
\* two threads'; it is as large as was asked for; an arena counts its free
\* blocks and is there as long as one of its blocks is used.
HeapExact ==
    /\ \A c \in Clients : \A b \in client[c].held :
         b.page \in DOMAIN arena /\ b.size <= block_size(b)
    /\ \A c, e \in Clients : \A b \in UsedBlocks(c), x \in UsedBlocks(e) :
         <<b.page, b.idx>> = <<x.page, x.idx>> => c = e /\ b = x
    /\ \A c \in Clients : \A b \in UsedBlocks(c) : <<b.page, b.idx>> \notin FreeBlocks
    /\ \A d \in Descs : IsInjective(desc[d].free_list)
    /\ \A a \in DOMAIN arena : arena[a].desc # None =>
         /\ arena[a].free_cnt = Cardinality({b \in FreeBlocks : b[1] = a})
         /\ desc[arena[a].desc].lock = None => arena[a].free_cnt < BlocksPerArena(arena[a].desc)

=============================================================================

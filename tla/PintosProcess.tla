--------------------------- MODULE PintosProcess ---------------------------
(***************************************************************************)
(* Processes of pintos: process_execute, start_process, process_wait and   *)
(* process_exit (userprog/process.c) with the system calls exec, wait and  *)
(* exit, and the list of children they share (userprog/syscall.c).         *)
(*                                                                         *)
(* All of this runs with interrupts on: a switch can come between any two  *)
(* steps.  A child and its parent meet in the child_process that the       *)
(* parent allocates, keeps in its child_list and frees.                    *)
(***************************************************************************)
EXTENDS Integers

CONSTANTS Process,     \* thread identifiers, each given out once
          Main,        \* the initial thread, which executes and waits only
          Status,      \* exit statuses
          Passes,      \* bound: those that each process may pass to exit
          ERROR, Garbage, NULL

VARIABLES
  parent,      \* NULL in processes not created yet
  pc,          \* how far each process is
  child,       \* the child an exec or a wait is about
  cp,          \* the child_process of each process
  exec_sema,
  result,      \* what the last exec or wait of each process returned
  exited_with, \* history: what each process passed to exit
  raced,       \* history: processes that exited while their parent was
               \* setting up the semaphore to wait for them
  reaped,      \* history: processes whose status a wait has returned
  dangling,    \* history: processes that used memory their parent has freed
  panicked

vars == <<parent, pc, child, cp, exec_sema, result, exited_with, raced, dangling, panicked, reaped>>

PC == {"none", "load", "user", "exec", "exec_done", "wait", "wait_malloc", "wait_init",
       "wait_down", "exit", "exit_flag", "exit_sema", "dead"}
Freed == [freed |-> TRUE]
ChildProcess == [freed : {FALSE}, loaded : {"NOT_LOADED", "LOAD_SUCCESS", "LOAD_FAIL"},
                 waited : BOOLEAN, exited : BOOLEAN, status : Status \cup {Garbage, ERROR},
                 wait_sema : {"NULL", "uninitialised", "zero", "one"}]
Result == [call : {"exec", "wait"}, child : Process, ret : Status \cup Process \cup {ERROR, Garbage}]

(* Mutant of NewChild: the child counts as exited. *)
NewChildExited == [freed |-> FALSE, loaded |-> "NOT_LOADED", waited |-> FALSE, exited |-> TRUE,
                   status |-> Garbage, wait_sema |-> "NULL"]

(* add_child_process: malloc leaves the status undefined. *)
NewChild == [freed |-> FALSE, loaded |-> "NOT_LOADED", waited |-> FALSE, exited |-> FALSE,
             status |-> Garbage, wait_sema |-> "NULL"]

Init == /\ parent = [p \in Process |-> NULL]
        /\ pc = [p \in Process |-> IF p = Main THEN "user" ELSE "none"]
        /\ child = [p \in Process |-> NULL]
        /\ cp = [p \in Process |-> Freed]
        /\ exec_sema = [p \in Process |-> 0]
        /\ result = [p \in Process |-> NULL]
        /\ exited_with = [p \in Process |-> NULL]
        /\ raced = {} /\ reaped = {} /\ dangling = {} /\ panicked = FALSE

Goto(p, l) == pc' = [pc EXCEPT ![p] = l]
Steps(p, l) == ~panicked /\ pc[p] = l
Returns(p, call, c, ret) == /\ Goto(p, "user")
                            /\ result' = [result EXCEPT ![p] = [call |-> call, child |-> c, ret |-> ret]]
(* get_child_process: the child_list of p. *)
Children(p) == {c \in Process : parent[c] = p /\ cp[c] # Freed}

-----------------------------------------------------------------------------
(* run_task: the initial thread executes a task and waits for it, again    *)
(* and again.                                                              *)
LastCall(p) == IF result[p] = NULL THEN "none" ELSE result[p].call
AfterTask(p) == p = Main => LastCall(p) # "exec"
InTask(p, c) == p = Main => LastCall(p) = "exec" /\ result[p].ret = c

(* allocate_tid: the next identifier that was not given out. *)
Unused == {c \in Process : pc[c] = "none"}
NextTid(c) == c \in Unused /\ c = CHOOSE d \in Unused : TRUE

(* thread_create: the new thread has its parent and its child_process. *)
ThreadCreate(p, c) == /\ NextTid(c)
                      /\ parent' = [parent EXCEPT ![c] = p]
                      /\ cp' = [cp EXCEPT ![c] = NewChild]

(* process_execute up to sema_down: a fresh exec_sema, and thread_create.  *)
Exec(p, c) ==
  /\ Steps(p, "user") /\ AfterTask(p)
  /\ exec_sema' = [exec_sema EXCEPT ![p] = 0]
  /\ ThreadCreate(p, c)
  /\ pc' = [pc EXCEPT ![p] = "exec", ![c] = "load"]
  /\ child' = [child EXCEPT ![p] = c]
  /\ UNCHANGED <<result, exited_with, raced, dangling, panicked, reaped>>

(* thread_create finds no page; process_execute waits all the same. *)
ExecFails(p) ==
  /\ Steps(p, "user") /\ AfterTask(p)
  /\ exec_sema' = [exec_sema EXCEPT ![p] = 0]
  /\ Goto(p, "exec")
  /\ child' = [child EXCEPT ![p] = NULL]
  /\ UNCHANGED <<parent, cp, result, exited_with, raced, dangling, panicked, reaped>>

Loaded(c, outcome) == cp' = [cp EXCEPT ![c].loaded = outcome]

(* start_process: a process that does not load exits without a status. *)
Load(c, outcome) ==
  /\ Steps(c, "load")
  /\ Loaded(c, outcome)
  /\ exec_sema' = [exec_sema EXCEPT ![parent[c]] = @ + 1]
  /\ Goto(c, IF outcome = "LOAD_SUCCESS" THEN "user" ELSE "exit")
  /\ UNCHANGED <<parent, child, result, exited_with, raced, dangling, panicked, reaped>>

ExecDown(p) ==
  /\ Steps(p, "exec") /\ exec_sema[p] > 0
  /\ exec_sema' = [exec_sema EXCEPT ![p] = @ - 1]
  /\ Goto(p, "exec_done")
  /\ UNCHANGED <<parent, child, cp, result, exited_with, raced, dangling, panicked, reaped>>

(* exec looks at the child's outcome; the initial thread does not.         *)
ExecReturns(p) ==
  /\ Steps(p, "exec_done")
  /\ Returns(p, "exec", child[p],
             IF p # Main /\ cp[child[p]].loaded = "LOAD_FAIL" THEN ERROR ELSE child[p])
  /\ UNCHANGED <<parent, child, cp, exec_sema, exited_with, raced, dangling, panicked, reaped>>

-----------------------------------------------------------------------------
WaitAllowed(p, c) == c \in Children(p) /\ ~cp[c].waited

(* process_wait: the tests, and the mark that the child is waited for. *)
Wait(p, c) ==
  /\ Steps(p, "user") /\ InTask(p, c)
  /\ IF WaitAllowed(p, c)
     THEN /\ cp' = [cp EXCEPT ![c].waited = TRUE]
          /\ Goto(p, "wait")
          /\ child' = [child EXCEPT ![p] = c]
          /\ UNCHANGED result
     ELSE Returns(p, "wait", c, ERROR) /\ UNCHANGED <<cp, child>>
  /\ UNCHANGED <<parent, exec_sema, exited_with, raced, dangling, panicked, reaped>>

(* A child that has exited stays in the list. *)
WaitTest(p) ==
  /\ Steps(p, "wait")
  /\ IF cp[child[p]].exited
     THEN /\ Returns(p, "wait", child[p], cp[child[p]].status)
          /\ reaped' = reaped \cup {child[p]}
     ELSE Goto(p, "wait_malloc") /\ UNCHANGED <<result, reaped>>
  /\ UNCHANGED <<parent, child, cp, exec_sema, exited_with, raced, dangling, panicked>>

WaitMalloc(p) ==
  /\ Steps(p, "wait_malloc")
  /\ cp' = [cp EXCEPT ![child[p]].wait_sema = "uninitialised"]
  /\ Goto(p, "wait_init")
  /\ UNCHANGED <<parent, child, exec_sema, result, exited_with, raced, dangling, panicked, reaped>>

WaitInit(p) ==
  /\ Steps(p, "wait_init")
  /\ cp' = [cp EXCEPT ![child[p]].wait_sema = "zero"]
  /\ Goto(p, "wait_down")
  /\ UNCHANGED <<parent, child, exec_sema, result, exited_with, raced, dangling, panicked, reaped>>

(* sema_down, and remove_child_process. *)
WaitDown(p) ==
  /\ Steps(p, "wait_down") /\ cp[child[p]].wait_sema = "one"
  /\ Returns(p, "wait", child[p], cp[child[p]].status)
  /\ cp' = [cp EXCEPT ![child[p]] = Freed]
  /\ reaped' = reaped \cup {child[p]}
  /\ UNCHANGED <<parent, child, exec_sema, exited_with, raced, dangling, panicked>>

-----------------------------------------------------------------------------
(* What a process does to its child_process after the parent has freed it  *)
(* has no effect that it can rely on, or stops the kernel.                 *)
UseAfterFree(p) == /\ dangling' = dangling \cup {p}
                   /\ panicked' \in BOOLEAN
                   /\ UNCHANGED <<cp, raced>>

(* exit stores the status; then process_exit. *)
Exit(p, s) ==
  /\ Steps(p, "user") /\ p # Main
  /\ exited_with' = [exited_with EXCEPT ![p] = s]
  /\ Goto(p, "exit")
  /\ IF cp[p] = Freed THEN UseAfterFree(p)
     ELSE cp' = [cp EXCEPT ![p].status = s] /\ UNCHANGED <<raced, dangling, panicked>>
  /\ UNCHANGED <<parent, child, exec_sema, result, reaped>>

RemoveChildren(p) == [c \in Process |-> IF c \in Children(p) THEN Freed ELSE cp[c]]

ExitChildren(p) ==
  /\ Steps(p, "exit")
  /\ cp' = RemoveChildren(p)
  /\ Goto(p, "exit_flag")
  /\ UNCHANGED <<parent, child, exec_sema, result, exited_with, raced, dangling, panicked, reaped>>

(* Mutant of SetExited: forgotten. *)
SetExitedNot(p) == UNCHANGED cp

SetExited(p) == cp' = [cp EXCEPT ![p].exited = TRUE]

(* thread_alive is asked about the parent, whose struct thread is freed    *)
(* when it has exited.                                                     *)
ExitFlag(p) ==
  /\ Steps(p, "exit_flag")
  /\ IF cp[p] = Freed THEN UseAfterFree(p)
     ELSE SetExited(p) /\ UNCHANGED <<raced, dangling, panicked>>
  /\ Goto(p, "exit_sema")
  /\ UNCHANGED <<parent, child, exec_sema, result, exited_with, reaped>>

(* The parent is woken if it has a semaphore by now. *)
ExitSema(p) ==
  /\ Steps(p, "exit_sema")
  /\ \/ /\ cp[p] = Freed /\ UseAfterFree(p)
     \/ /\ cp[p] # Freed /\ cp[p].wait_sema = "uninitialised"
        /\ raced' = raced \cup {p}
        /\ panicked' \in BOOLEAN
        /\ UNCHANGED <<cp, dangling>>
     \/ /\ cp[p] # Freed /\ cp[p].wait_sema # "uninitialised"
        /\ cp' = [cp EXCEPT ![p].wait_sema = IF @ = "NULL" THEN @ ELSE "one"]
        /\ raced' = IF pc[parent[p]] = "wait_malloc" /\ child[parent[p]] = p
                    THEN raced \cup {p} ELSE raced
        /\ UNCHANGED <<dangling, panicked>>
  /\ Goto(p, "dead")
  /\ UNCHANGED <<parent, child, exec_sema, result, exited_with, reaped>>

-----------------------------------------------------------------------------
KernelStep(p) ==
  \/ \E o \in {"LOAD_SUCCESS", "LOAD_FAIL"} : Load(p, o)
  \/ ExecDown(p) \/ ExecReturns(p)
  \/ WaitTest(p) \/ WaitMalloc(p) \/ WaitInit(p) \/ WaitDown(p)
  \/ ExitChildren(p) \/ ExitFlag(p) \/ ExitSema(p)

Next == \E p \in Process : \/ \E c \in Process \ {Main} : Exec(p, c) \/ Wait(p, c)
                           \/ ExecFails(p)
                           \/ \E s \in Passes[p] : Exit(p, s)
                           \/ KernelStep(p)

(* A process in the kernel goes on when it is not waiting: the scheduler   *)
(* runs all processes, which have the same priority, in turn.              *)
Spec == Init /\ [][Next]_vars /\ \A p \in Process : WF_vars(KernelStep(p))

-----------------------------------------------------------------------------
(* The records keep their shape, and exec_sema is never above one.         *)
TypeOK ==
  /\ parent \in [Process -> Process \cup {NULL}]
  /\ pc \in [Process -> PC]
  /\ child \in [Process -> Process \cup {NULL}]
  /\ cp \in [Process -> ChildProcess \cup {Freed}]
  /\ exec_sema \in [Process -> 0..1]
  /\ result \in [Process -> Result \cup {NULL}]
  /\ exited_with \in [Process -> Status \cup {NULL}]
  /\ raced \subseteq Process /\ reaped \subseteq Process /\ dangling \subseteq Process /\ panicked \in BOOLEAN

(* "it cannot return before the new executable has completed loading": a   *)
(* process in user code knows of each child whether it is loaded, and exec *)
(* gave it the child exactly if it is.                                     *)
ExecKnowsLoad ==
  \A p \in Process : pc[p] \in {"exec_done", "user"} =>
    /\ \A c \in Children(p) : cp[c].loaded # "NOT_LOADED" /\ pc[c] # "load"
    /\ result[p] # NULL /\ p # Main /\ result[p].call = "exec" /\ result[p].child \in Children(p) =>
         (result[p].ret = ERROR <=> cp[result[p].child].loaded = "LOAD_FAIL")

(* What wait returns is what the child passed to exit; only a child that   *)
(* could not be loaded leaves no status.                                   *)
WaitReturnsStatus ==
  \A p \in Process : pc[p] = "user" /\ result[p] # NULL /\ result[p].call = "wait" =>
    LET c == result[p].child
    IN CASE result[p].ret = ERROR -> TRUE
         [] result[p].ret = Garbage -> exited_with[c] = NULL /\ pc[c] \in {"exit_sema", "dead"}
         [] OTHER -> result[p].ret = exited_with[c]

(* process_wait returns -1 "if process_wait() has already been             *)
(* successfully called for the given TID": a status is returned once.      *)
WaitsOnce == \A p \in Process :
  pc[p] \in {"wait", "wait_down"} /\ pc'[p] = "user" => child[p] \notin reaped

(* A child uses no memory that is freed as long as its parent runs: the    *)
(* parent frees the child_process in wait when the child is done with it.  *)
OnlyOrphansDangle == \A p \in dangling : pc[parent[p]] \in {"exit_flag", "exit_sema", "dead"}

(* A parent that waits for a child that has exited is woken, unless the    *)
(* child came to its end between the parent's look at exited and           *)
(* sema_init.                                                              *)
WaitEnds ==
  \A p \in Process : (pc[p] = "wait_down" /\ pc[child[p]] = "dead") ~>
    (pc[p] # "wait_down" \/ child[p] \in raced \/ panicked)

(* exec returns, if there was a page for the new thread.                   *)
ExecEnds ==
  \A p \in Process : (pc[p] = "exec" /\ child[p] # NULL) ~> (pc[p] # "exec" \/ panicked)

-----------------------------------------------------------------------------
(* Without the exceptions: the child that exits while wait sets up its     *)
(* semaphore leaves the parent asleep;                                     *)
EveryWaitEnds ==
  \A p \in Process : (pc[p] = "wait_down" /\ pc[child[p]] = "dead") ~> (pc[p] # "wait_down" \/ panicked)

(* an exec for which no thread can be created never returns;               *)
EveryExecEnds == \A p \in Process : pc[p] = "exec" ~> (pc[p] # "exec" \/ panicked)

(* and a process that outlives its parent reads the child_process that the *)
(* parent has freed.                                                       *)
NothingDangles == dangling = {}
=============================================================================

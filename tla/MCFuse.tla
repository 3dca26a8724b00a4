------------------------------- MODULE MCFuse -------------------------------
(***************************************************************************)
(* The state that the worker threads of libfuse share, for model checking: *)
(* the tree of nodes with its path locks (FuseNodes) and the session with  *)
(* its loop and its requests (FuseSession).  They share no variable of the *)
(* models; part says which one runs, the other one rests as it was made.   *)
(***************************************************************************)
EXTENDS FuseNodes, TLC

CONSTANTS Workers, NoRequest
VARIABLES part,
          load, dev, kst, unmounted, exited, mt, main, wk, sreq, list, intrs, nlist, notify, destroyed

(* Each way to mount has its own mix of operations. *)
Mount(remember, hard, thrds, num, ops) ==
    [remember |-> remember, hard_remove |-> hard, mt |-> thrds, requests |-> num, ops |-> ops]
MountOptions ==
    { Mount(FALSE, FALSE, TRUE, 3, {"rename", "remove", "setattr", "link"}),
      Mount(FALSE, FALSE, TRUE, 4, {"open", "release", "remove", "forget"}),
      Mount(FALSE, FALSE, TRUE, 3, {"lookup", "remove", "forget"}),
      Mount(FALSE, FALSE, TRUE, 3, {"create", "remove"}),
      Mount(FALSE, FALSE, TRUE, 3, {"dot", "rename", "remove", "forget"}),
      Mount(FALSE, FALSE, TRUE, 3, {"read", "listxattr", "ioctl", "opendir"}),
      Mount(TRUE, TRUE, FALSE, 2, Kinds \ PathOps),
      Mount(TRUE, FALSE, FALSE, 2, Kinds \ PathOps) }

(* What the kernel sends and what happens to the session meanwhile. *)
Load(num, intr, things) == [n |-> num, intrs |-> intr, what |-> things, pool |-> Workers]
TwoWorkers == CHOOSE pool \in SUBSET Workers : Cardinality(pool) = 2
MixedLoads == {[Load(2, 1, {"op"}) EXCEPT !.pool = TwoWorkers], Load(1, 1, {"op", "unmount"}),
               Load(2, 0, {"read", "write"}), Load(1, 0, {"read", "unmount"}),
               Load(2, 0, {"forget", "destroy", "signal"}),
               Load(1, 0, {"write", "retrieve", "unmount"})}

Session == INSTANCE FuseSession WITH req <- sreq, None <- NoRequest, MaxIdle <- 1, MaxRequests <- 2,
                                     MaxRetrieves <- 1, Loads <- MixedLoads

sessionVars == <<load, dev, kst, unmounted, exited, mt, main, wk, sreq, list, intrs, nlist,
                 notify, destroyed>>
allVars == <<part, vars, sessionVars>>

PartsInit == /\ Init /\ Session!Init
             /\ \/ part = "nodes" /\ load = Load(1, 0, {"read", "unmount"})
                \/ part = "session" /\ conf = Mount(TRUE, TRUE, FALSE, 2, Kinds \ PathOps)

PartsNext == \/ part = "nodes" /\ Next /\ UNCHANGED <<part, sessionVars>>
             \/ part = "session" /\ Session!Next /\ UNCHANGED <<part, vars>>

(* The fairness of the two: threads run, operations return. *)
Parts == /\ PartsInit /\ [][PartsNext]_allVars
         /\ \A t \in Threads : \/ []<>(part = "session" \/ ~Runnable(t))
                               \/ []<><<TRUE>>_(req[t])
         /\ WF_sessionVars(part = "session" /\ Session!Main)
         /\ WF_sessionVars(part = "session" /\ Session!RetrieveSend)
         /\ \A w \in Workers : WF_sessionVars(part = "session" /\ Session!Worker(w))

(* The tree of nodes is consistent at every moment of every request: its   *)
(* counters and locks are exact, the path a handler works on stays the     *)
(* path of its node, an open file keeps a name (FuseNodes).                *)
TreeSound == part = "nodes" => NodesSound /\ PathFresh /\ OpenKeepsName

(* No request is freed early or twice, the loop's books are right, and no  *)
(* thread outlives the loop (FuseSession).                                 *)
SessionSound == part = "session" => Session!RequestsSound /\ Session!LoopSound

(* A request a worker has taken is answered unless the session ends, and   *)
(* an unmount ends the loop (FuseSession).                                 *)
SessionLive == Session!RequestsAnswered /\ Session!LoopEnds
=============================================================================

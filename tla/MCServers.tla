----------------------------- MODULE MCServers ------------------------------
(***************************************************************************)
(* The parts around two-phase commit that share no state, for model        *)
(* checking: the work queue of every server (WorkQueue), the handlers of   *)
(* a slave at its log (SlaveHandlers), the master's list of slaves         *)
(* (TPCRegistry) and the values of json-c that messages are made of        *)
(* (JsonObject).  part says which one runs; the others rest.               *)
(***************************************************************************)
EXTENDS WorkQueue, Integers, TLC

CONSTANTS Handlers, Clients, o1, o2, Nothing
VARIABLES part,
          state, log, iterpos, wq, handler, client, reply, budget,
          slaves, count, status, lookup, restarts,
          load, heap, held, todo, content

Slave == INSTANCE SlaveHandlers WITH NoEntry <- Nothing, MaxRequests <- 3, MaxTimeouts <- 2
Registry == INSTANCE TPCRegistry WITH Ids <- {2, 4, 6, 8}, KeyHashes <- {1, 4, 5, 6, 9},
                                      Capacity <- 2, Redundancy <- 2, MaxRestarts <- 2
\* Three keys of which two always collide; and values inside each other.
Json == INSTANCE JsonObject WITH
    Objects <- {o1, o2}, Keys <- {"a", "b", "c"}, Hash <- "a" :> 0 @@ "b" :> 4 @@ "c" :> 1,
    DefEntries <- 2, DefLength <- 1, MaxLength <- 2, MaxHeld <- 2, NULL <- Nothing,
    Loads <- {[types |-> o1 :> {"object"} @@ o2 :> {"int"}, keys |-> {"a", "b", "c"}],
              [types |-> [o \in {o1, o2} |-> {"object", "array"}], keys |-> {"a", "b"}]}

slaveVars == <<state, log, iterpos, wq, handler, client, reply, budget>>
registryVars == <<slaves, count, status, lookup, restarts>>
jsonVars == <<load, heap, held, todo, content>>
allVars == <<part, vars, slaveVars, registryVars, jsonVars>>

NoSlave == /\ state = Nothing /\ log = Nothing /\ iterpos = Nothing /\ wq = Nothing
           /\ handler = Nothing /\ client = Nothing /\ reply = Nothing /\ budget = Nothing
NoRegistry == slaves = Nothing /\ count = Nothing /\ status = Nothing /\ lookup = Nothing /\ restarts = Nothing
NoJson == load = Nothing /\ heap = Nothing /\ held = Nothing /\ todo = Nothing /\ content = Nothing

PartsInit == /\ Init
             /\ \/ part = "queue" /\ NoSlave /\ NoRegistry /\ NoJson
                \/ part = "slave" /\ Slave!Init /\ NoRegistry /\ NoJson
                \/ part = "registry" /\ Registry!Init /\ NoSlave /\ NoJson
                \/ part = "json" /\ Json!Init /\ NoSlave /\ NoRegistry

PartsNext == \/ part = "queue" /\ Next /\ UNCHANGED <<part, slaveVars, registryVars, jsonVars>>
             \/ part = "slave" /\ Slave!Next /\ UNCHANGED <<part, vars, registryVars, jsonVars>>
             \/ part = "registry" /\ Registry!Next /\ UNCHANGED <<part, vars, slaveVars, jsonVars>>
             \/ part = "json" /\ Json!Next /\ UNCHANGED <<part, vars, slaveVars, registryVars>>

(* The fairness of WorkQueue: threads inside the queue go on. *)
Parts == /\ PartsInit /\ [][PartsNext]_allVars
         /\ \A w \in Workers : WF_vars(part = "queue" /\ WorkerStep(w))
         /\ \A p \in Producers : WF_vars(part = "queue" /\ ProducerStep(p))

(* With every request decided and acknowledged, the slave waits for no     *)
(* decision, whatever timeouts fell between (SlaveHandlers).               *)
DecisionSettles == part = "slave" => Slave!DecisionSettles

(* Slaves told they are registered are listed, and the replicas of a key   *)
(* follow it around the ring of ids, whatever the order of registration    *)
(* and the restarts (TPCRegistry).                                         *)
RegistrySound == part = "registry" => Registry!RegistrySound

(* The reference counts of json-c count the references, so a value is      *)
(* freed once and not before the last is put, and objects and arrays hold  *)
(* what was put in them, in its order, through collisions, deletions and   *)
(* growth (JsonObject).                                                    *)
JsonSound == part = "json" => Json!CountsExact /\ Json!ContentsExact
=============================================================================

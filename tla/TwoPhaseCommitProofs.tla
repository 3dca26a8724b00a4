------------------------ MODULE TwoPhaseCommitProofs -------------------------
(***************************************************************************)
(* Proofs, for any number of slaves, replicas, clients, keys and values,   *)
(* of the safety properties of TwoPhaseCommit: the steps of the thread     *)
(* that runs the transaction keep the invariant of                         *)
(* TwoPhaseCommitInvariant, where it is proved for every other step.       *)
(***************************************************************************)
EXTENDS TwoPhaseCommitInvariant

-----------------------------------------------------------------------------
(* The steps of the thread that runs the transaction. *)

Frame(c) == /\ OthersStay(c) /\ up' = up
            /\ \A d \in Clients \ {c} : voted'[d] = voted[d]
            /\ \A d \in Clients : reply'[d].type \in {reply[d].type, "none"}
            /\ budget.crashes' = budget.crashes /\ (Undisturbed' => Undisturbed)

(* The votes of the other threads are left alone. *)
LEMMA FrameVotes ==
  ASSUME VotesInv, NEW c \in Clients, Frame(c), voted'[c] \subseteq Range(Order),
         Undisturbed' => VotesOf(c)'
  PROVE  VotesInv'
  <1>1. \A d \in Clients \ {c} : VotesOf(d) => VotesOf(d)'
    BY Zenon DEF Frame, OthersStay, VotesOf, Phase1, Phase2
  <1>2. \A d \in Clients : voted'[d] \subseteq Range(Order)
    BY Zenon DEF Frame, VotesInv
  <1>3. budget.crashes' = 0 => /\ \A s \in Slaves : up'[s]
                              /\ \A d \in Clients : reply'[d].type # "RESET"
    BY Zenon DEF Frame, VotesInv
  <1>4. Undisturbed' => \A d \in Clients : VotesOf(d)'
    BY Zenon, <1>1 DEF Frame, VotesInv
  <1>5. QED
    BY Zenon, <1>2, <1>3, <1>4 DEF VotesInv

(* What a step of the transaction has to show for the invariant. *)
LEMMA WriterInv ==
  ASSUME TypeOK, Inv, NEW c \in Clients, InTPC(c), InTPC(c)', Frame(c), ConnInv', JobInv',
         thread'[c].req = thread[c].req, voted'[c] \subseteq Range(Order),
         Undisturbed' => VotesOf(c)',
         \A s \in Slaves \ Range(Order) : Same(s),
         \A n \in 1..Len(Order) : InPhase(c, n)',
         budget.crashes = 0 => \A B \in Store :
           (\A n \in 1..Len(Order) : Agrees(c, n, B)) =>
             \A n \in 1..Len(Order) : Agrees(c, n, B)'
  PROVE  Inv'
  <1>1. OneWriter'
    <2>1. Reading(c)' => FALSE
      BY Zenon DEF Reading, InTPC
    <2>2. QED
      BY Zenon, <2>1, KeepWriter DEF Inv, Frame
  <1>2. \A d \in Clients : InTPC(d)' <=> d = c
    BY Zenon, <1>1 DEF OneWriter
  <1>3. SlavesInv'
    <2>1. \A s \in Slaves \ Range(Order) : Clean(s)'
      BY Zenon, SameRoles, SameHarmless DEF Inv, SlavesInv
    <2>2. NoWriter' => FALSE
      BY Zenon DEF NoWriter
    <2>3. \A d \in Clients : InTPC(d)' => \A n \in 1..Len(Order) : InPhase(d, n)'
      BY Zenon, <1>2
    <2>4. QED
      BY Zenon, <2>1, <2>2, <2>3 DEF SlavesInv
  <1>4. AgreeInv'
    <2> SUFFICES ASSUME budget.crashes = 0
                 PROVE  /\ NoWriter' => \A t, u \in Range(Order) : store'[t] = store'[u]
                        /\ \A d \in Clients : InTPC(d)' =>
                             \E B \in Store : \A n \in 1..Len(Order) : Agrees(d, n, B)'
      BY Zenon DEF AgreeInv, Frame
    <2>1. PICK B \in Store : \A n \in 1..Len(Order) : Agrees(c, n, B)
      BY Zenon DEF Inv, AgreeInv
    <2>2. \A n \in 1..Len(Order) : Agrees(c, n, B)'
      BY Zenon, <2>1
    <2>3. NoWriter' => FALSE
      BY Zenon DEF NoWriter
    <2>4. QED
      BY Zenon, <1>2, <2>2, <2>3
  <1>5. VotesInv'
    BY Zenon, FrameVotes DEF Inv
  <1>6. QED
    BY Zenon, <1>1, <1>3, <1>4, <1>5 DEF Inv

(* The last ACK ends the transaction. *)
LEMMA FinishInv ==
  ASSUME TypeOK, Inv, NEW c \in Clients, InTPC(c), thread'[c].pc = "idle", Frame(c),
         ConnInv', JobInv', voted'[c] \subseteq Range(Order),
         \A s \in Slaves : Same(s),
         \A n \in 1..Len(Order) : Clean(Order[n]),
         budget.crashes = 0 => \A m, n \in 1..Len(Order) : store[Order[m]] = store[Order[n]]
  PROVE  Inv'
  <1>1. ~InTPC(c)' /\ ~Reading(c)' /\ ~Phase1(c)' /\ ~Phase2(c)'
    BY Zenon DEF InTPC, Reading, Phase1, Phase2
  <1>2. OneWriter'
    BY Zenon, <1>1, KeepWriter DEF Inv, Frame
  <1>3. \A d \in Clients : ~InTPC(d)'
    <2>1. \A d \in Clients \ {c} : ~InTPC(d)
      BY Zenon DEF Inv, OneWriter
    <2>2. QED
      BY Zenon, <1>1, <2>1 DEF Frame, OthersStay, InTPC
  <1>4. SlavesInv'
    <2>1. \A s \in Slaves : Clean(s)
      <3> SUFFICES ASSUME NEW s \in Slaves, s \in Range(Order) PROVE Clean(s)
        BY Zenon DEF Inv, SlavesInv
      <3>1. PICK n \in 1..Len(Order) : s = Order[n]
        BY Zenon, Positions
      <3>2. QED
        BY Zenon, <3>1
    <2>2. \A s \in Slaves : Clean(s)'
      BY Zenon, <2>1, SameRoles, SameHarmless
    <2>3. QED
      BY Zenon, <1>3, <2>2 DEF SlavesInv
  <1>5. AgreeInv'
    <2>1. budget.crashes = 0 => \A t, u \in Range(Order) : store'[t] = store'[u]
      <3>1. \A t, u \in Range(Order) : store'[t] = store[t] /\ store'[u] = store[u]
        BY Zenon, Positions DEF Same
      <3>2. ASSUME budget.crashes = 0, NEW t \in Range(Order), NEW u \in Range(Order)
            PROVE  store[t] = store[u]
        <4>1. PICK m \in 1..Len(Order) : t = Order[m]
          BY Zenon, Positions
        <4>2. PICK n \in 1..Len(Order) : u = Order[n]
          BY Zenon, Positions
        <4>3. QED
          BY Zenon, <3>2, <4>1, <4>2
      <3>3. QED
        BY Zenon, <3>1, <3>2
    <2>2. QED
      BY Zenon, <1>3, <2>1 DEF AgreeInv, Frame
  <1>6. VotesInv'
    <2>1. VotesOf(c)'
      BY Zenon, <1>1 DEF VotesOf
    <2>2. QED
      BY Zenon, <2>1, FrameVotes DEF Inv
  <1>7. QED
    BY Zenon, <1>2, <1>4, <1>5, <1>6 DEF Inv

(* A slave that the step leaves alone keeps its role. *)
LEMMA RoleKept ==
  ASSUME NEW c \in Clients, NEW s, Same(s), thread[c].req \in Request,
         thread'[c].req = thread[c].req, s \in voted'[c] <=> s \in voted[c]
  PROVE  /\ Clean(s)' <=> Clean(s)
         /\ Undecided(c, s)' <=> Undecided(c, s)
         /\ thread'[c].abort = thread[c].abort => (Decided(c, s)' <=> Decided(c, s))
         /\ Gets(s, thread[c].req)' <=> Gets(s, thread[c].req)
         /\ store'[s] = store[s]
  <1>1. PICK r \in Request : r = thread[c].req
    BY Zenon
  <1>2. /\ Clean(s)' <=> Clean(s)
        /\ Bound(s, r)' <=> Bound(s, r)
        /\ Loose(s, r)' <=> Loose(s, r)
        /\ Done(s, r)' <=> Done(s, r)
        /\ Gets(s, r)' <=> Gets(s, r)
    BY Zenon, SameRoles, SameHarmless
  <1>3. Undecided(c, s)' <=> Undecided(c, s)
    BY Zenon, <1>1, <1>2 DEF Undecided
  <1>4. thread'[c].abort = thread[c].abort => (Decided(c, s)' <=> Decided(c, s))
    BY Zenon, <1>1, <1>2 DEF Decided
  <1>5. Gets(s, thread[c].req)' <=> Gets(s, thread[c].req)
    BY Zenon, <1>1, <1>2 DEF Gets
  <1>6. QED
    BY Zenon, <1>2, <1>3, <1>4, <1>5 DEF Same

(* An iteration of phase 1 ends. *)
LEMMA Advance1 ==
  ASSUME TypeOK, Inv, NEW c \in Clients, Phase1(c), NEW a \in BOOLEAN, NextInPhase1(c, a),
         NEW t \in Slaves, t = Order[thread[c].at], \A s \in Slaves \ {t} : Same(s),
         Frame(c), ConnInv', JobInv', thread[c].abort => a,
         voted'[c] = voted[c] \/ voted'[c] = voted[c] \cup {t},
         Undecided(c, t)', store'[t] = store[t],
         budget.crashes = 0 => Gets(t, thread[c].req)',
         Undisturbed' => a \/ t \in voted'[c]
  PROVE  Inv'
  <1>1. /\ InTPC(c) /\ thread[c].req \in Request /\ thread[c].at \in 1..Len(Order)
        /\ t \in Range(Order) /\ Len(Order) \in Nat /\ Len(Order) >= 1
        /\ thread[c].at \in Int
    BY Zenon, Targets, Positions DEF Inv, OneWriter, InTPC, Phase1
  <1>2. /\ thread'[c].req = thread[c].req /\ thread'[c].abort = a
        /\ IF LastSlave(c) THEN thread'[c].pc = "phase2" /\ thread'[c].at = 1
           ELSE thread'[c].pc = "phase1" /\ thread'[c].at = thread[c].at + 1
    BY Zenon, Phase1Effect
  <1>3. InTPC(c)' /\ (Phase1(c)' <=> ~LastSlave(c)) /\ (Phase2(c)' <=> LastSlave(c))
    BY Zenon, <1>2 DEF InTPC, Phase1, Phase2
  <1>4. voted'[c] \subseteq Range(Order)
    BY Zenon, <1>1 DEF Inv, VotesInv
  <1>5. ASSUME NEW n \in 1..Len(Order), n # thread[c].at
        PROVE  /\ InPhase(c, n) /\ n \in Int /\ Order[n] \in Slaves /\ Order[n] # t
               /\ Clean(Order[n])' <=> Clean(Order[n])
               /\ Undecided(c, Order[n])' <=> Undecided(c, Order[n])
               /\ Gets(Order[n], thread[c].req)' <=> Gets(Order[n], thread[c].req)
               /\ store'[Order[n]] = store[Order[n]]
               /\ Order[n] \in voted'[c] <=> Order[n] \in voted[c]
    <2>1. InPhase(c, n) /\ n \in Int /\ Order[n] \in Slaves /\ Order[n] # t
      BY Zenon, <1>1, <1>5, Positions DEF Inv, SlavesInv
    <2>2. Same(Order[n]) /\ (Order[n] \in voted'[c] <=> Order[n] \in voted[c])
      BY Zenon, <2>1
    <2>3. QED
      BY Zenon, <1>1, <1>2, <2>1, <2>2, RoleKept
  <1>6. ASSUME NEW n \in 1..Len(Order) PROVE InPhase(c, n)'
    <2>1. n \in Int
      BY Zenon, Positions
    <2>2. n < thread[c].at => Undecided(c, Order[n])'
      BY Zenon, <1>1, <1>5, <2>1 DEF InPhase
    <2>3. n > thread[c].at => Clean(Order[n])' /\ Order[n] \notin voted'[c]
      <3>1. n > thread[c].at => n # thread[c].at /\ ~(n < thread[c].at)
        BY <1>1, <2>1
      <3>2. QED
        BY Zenon, <1>5, <3>1 DEF InPhase
    <2>4. CASE LastSlave(c)
      <3>1. (n < thread[c].at \/ n = thread[c].at) /\ ~(n < 1)
        BY <1>1, <2>1, <2>4 DEF LastSlave
      <3>2. QED
        BY Zenon, <1>2, <1>3, <2>2, <2>4, <3>1 DEF InPhase
    <2>5. CASE ~LastSlave(c)
      <3>1. /\ n < thread[c].at + 1 => n < thread[c].at \/ n = thread[c].at
            /\ n > thread[c].at + 1 \/ n = thread[c].at + 1 => n > thread[c].at
        BY <1>1, <2>1
      <3>2. QED
        BY Zenon, <1>2, <1>3, <2>2, <2>3, <2>5, <3>1 DEF InPhase
    <2>6. QED
      BY Zenon, <2>4, <2>5
  <1>7. ASSUME budget.crashes = 0, NEW B \in Store,
               \A n \in 1..Len(Order) : Agrees(c, n, B), NEW n \in 1..Len(Order)
        PROVE  Agrees(c, n, B)'
    <2>1. n \in Int /\ Agrees(c, n, B) /\ Agrees(c, thread[c].at, B)
      BY Zenon, <1>1, <1>7, Positions
    <2>2. store'[Order[n]] = B
      BY Zenon, <1>5, <2>1 DEF Agrees
    <2>3. PICK r : r = thread[c].req /\ r = thread'[c].req
      BY Zenon, <1>2
    <2>4. n <= thread[c].at => Gets(Order[n], thread[c].req)'
      <3>1. n < thread[c].at => Gets(Order[n], thread[c].req)'
        <4>1. n < thread[c].at => n # thread[c].at
          BY <1>1, <2>1
        <4>2. QED
          BY Zenon, <1>5, <2>1, <4>1 DEF Agrees
      <3>2. Gets(t, r)'
        BY Zenon, <1>7, <2>3 DEF Gets
      <3>3. n = thread[c].at => Gets(Order[n], r)'
        BY Zenon, <3>2
      <3>4. Gets(Order[n], r)' => Gets(Order[n], thread[c].req)'
        BY Zenon, <2>3 DEF Gets
      <3>5. QED
        BY Zenon, <1>1, <2>1, <3>1, <3>3, <3>4, Compare
    <2>5. CASE LastSlave(c)
      <3>1. n <= thread[c].at /\ ~(n < 1)
        BY <1>1, <2>1, <2>5 DEF LastSlave
      <3>2. QED
        BY Zenon, <1>2, <1>3, <2>2, <2>4, <2>5, <3>1 DEF Agrees
    <2>6. CASE ~LastSlave(c)
      <3>1. n < thread[c].at + 1 => n <= thread[c].at
        BY <1>1, <2>1
      <3>2. QED
        BY Zenon, <1>2, <1>3, <2>2, <2>4, <2>6, <3>1 DEF Agrees
    <2>7. QED
      BY Zenon, <2>5, <2>6
  <1>8. ASSUME Undisturbed' PROVE VotesOf(c)'
    <2> SUFFICES ASSUME ~a PROVE VotesOf(c)'
      BY Zenon, <1>2 DEF VotesOf
    <2>1. \A n \in 1..Len(Order) : n <= thread[c].at => Order[n] \in voted'[c]
      <3> TAKE n \in 1..Len(Order)
      <3>1. n < thread[c].at => Order[n] \in voted[c]
        BY Zenon, <1>8 DEF Frame, Inv, VotesInv, VotesOf
      <3>2. QED
        BY Zenon, <1>1, <1>8, <3>1, Positions, Compare
    <2>2. CASE LastSlave(c)
      <3>1. \A n \in 1..Len(Order) : Order[n] \in voted'[c]
        <4>1. \A n \in 1..Len(Order) : n <= thread[c].at
          BY <1>1, <2>2 DEF LastSlave
        <4>2. QED
          BY Zenon, <2>1, <4>1
      <3>2. voted'[c] = Range(Order)
        <4>1. \A s \in Range(Order) : s \in voted'[c]
          BY <3>1, Positions
        <4>2. QED
          BY Zenon, <1>4, <4>1
      <3>3. QED
        BY Zenon, <1>3, <2>2, <3>2 DEF VotesOf
    <2>3. CASE ~LastSlave(c)
      <3>1. \A n \in 1..Len(Order) : n < thread'[c].at => n <= thread[c].at
        BY <1>1, <1>2, <2>3
      <3>2. QED
        BY Zenon, <1>3, <2>1, <2>3, <3>1 DEF VotesOf
    <2>4. QED
      BY Zenon, <2>2, <2>3
  <1>9. \A s \in Slaves \ Range(Order) : Same(s)
    BY Zenon, <1>1
  <1>10. QED
    BY Zenon, <1>1, <1>2, <1>3, <1>4, <1>6, <1>7, <1>8, <1>9, WriterInv

(* A slave without a request has none to vote on. *)
LEMMA NoEntryLoose ==
  ASSUME NEW s, NoEntry(s), NEW r
  PROVE  Loose(s, r)
  BY Zenon, PendingIs DEF NoEntry, Loose

(* What the invariant says of the slave at the position of phase 1, *)
LEMMA Phase1Facts ==
  ASSUME TypeOK, Inv, NEW c \in Clients, Phase1(c)
  PROVE  /\ InTPC(c) /\ ~Reading(c) /\ thread[c].req \in Request
         /\ Target(c) \in Slaves /\ Target(c) = Order[thread[c].at]
         /\ Target(c) \notin voted[c] /\ thread[c].abort \in BOOLEAN
         /\ thread[c].pc = "phase1" => Clean(Target(c))
         /\ thread[c].pc = "wait1" => Asked(c, Target(c))
         /\ budget.crashes = 0 =>
              /\ up[Target(c)] /\ reply[c].type # "RESET"
              /\ thread[c].pc = "wait1" => Gets(Target(c), thread[c].req)
  <1>1. InTPC(c) /\ ~Reading(c)
    BY Zenon DEF InTPC, Reading, Phase1
  <1>2. /\ thread[c].at \in 1..Len(Order) /\ Target(c) \in Slaves
        /\ Target(c) = Order[thread[c].at] /\ thread[c].req \in Request
        /\ thread[c].abort \in BOOLEAN
    BY Zenon, <1>1, Targets DEF Inv, OneWriter, TypeOK, Thread
  <1>3. InPhase(c, thread[c].at)
    BY Zenon, <1>1, <1>2 DEF Inv, SlavesInv
  <1>4. /\ Target(c) \notin voted[c]
        /\ thread[c].pc = "phase1" => Clean(Target(c))
        /\ thread[c].pc = "wait1" => Asked(c, Target(c))
    BY Zenon, <1>2, <1>3 DEF InPhase, Phase1, Asked
  <1>5. ASSUME budget.crashes = 0
        PROVE  /\ up[Target(c)] /\ reply[c].type # "RESET"
               /\ thread[c].pc = "wait1" => Gets(Target(c), thread[c].req)
    <2>1. PICK B \in Store : \A n \in 1..Len(Order) : Agrees(c, n, B)
      BY Zenon, <1>1, <1>5 DEF Inv, AgreeInv
    <2>2. thread[c].pc = "wait1" => Gets(Target(c), thread[c].req)
      BY Zenon, <1>2, <2>1 DEF Agrees, Phase1
    <2>3. QED
      BY Zenon, <1>2, <1>5, <2>2 DEF Inv, VotesInv
  <1>6. QED
    BY Zenon, <1>1, <1>2, <1>4, <1>5

(* No answer, or the answer of a slave, ends an iteration of phase 1. *)
LEMMA Phase1Ends ==
  ASSUME TypeOK, Inv, NEW c \in Clients, Phase1(c),
         Unreachable(c) \/ Receive(c) \/ Reset(c)
  PROVE  Inv'
  <1> SlaveTypeOK /\ ConnInv /\ JobInv
    BY Zenon DEF TypeOK, Inv
  <1>1. PICK t \in Slaves, r \in Request : t = Target(c) /\ r = thread[c].req
    BY Zenon, Phase1Facts
  <1>2. /\ InTPC(c) /\ ~Reading(c) /\ t = Order[thread[c].at] /\ t \notin voted[c]
        /\ thread[c].abort \in BOOLEAN
        /\ thread[c].pc = "phase1" => Clean(t)
        /\ thread[c].pc = "wait1" => Asked(c, t)
        /\ budget.crashes = 0 => /\ up[t] /\ reply[c].type # "RESET"
                                 /\ thread[c].pc = "wait1" => Gets(t, r)
    BY Zenon, <1>1, Phase1Facts
  <1>3. /\ up' = up /\ state' = state /\ log' = log /\ store' = store
        /\ wq' = wq /\ job' = job /\ budget' = budget
        /\ reply' = reply \/ reply' = [reply EXCEPT ![c] = NoReply]
        /\ ~Waits(c) \/ reply[c].type # "none"
    <2>1. CASE Unreachable(c)
      BY Zenon, <2>1 DEF Unreachable, Phase1, Waits, slaveVars
    <2>2. CASE Receive(c) \/ Reset(c)
      BY Zenon, <2>2 DEF Receive, Reset
    <2>3. QED
      BY Zenon, <2>1, <2>2
  <1>4. \A s \in Slaves : Same(s)
    BY Zenon, <1>3 DEF Same
  <1>5. /\ \A d \in Clients \ {c} : reply'[d] = reply[d]
        /\ \A d \in Clients : reply'[d].type \in {reply[d].type, "none"}
    <2>1. CASE reply' = reply
      BY Zenon, <2>1
    <2>2. CASE reply' = [reply EXCEPT ![c] = NoReply]
      <3>1. reply'[c].type = "none" /\ \A d \in Clients \ {c} : reply'[d] = reply[d]
        BY Zenon, <2>2 DEF SlaveTypeOK, NoReply
      <3>2. QED
        BY Zenon, <3>1
    <2>3. QED
      BY Zenon, <1>3, <2>1, <2>2
  <1>6. JobInv'
    BY Zenon, <1>1, <1>3, MasterJob
  <1>7. Clean(t) => NoEntry(t)
    BY Zenon DEF Clean
  <1>8. \A q : /\ NoEntry(t) => Loose(t, q)'
               /\ Bound(t, q) => Bound(t, q)'
    BY Zenon, <1>4, NoEntryLoose, SameRoles, SameHarmless
  <1>9. PICK a \in BOOLEAN :
          /\ NextInPhase1(c, a) /\ (thread[c].abort => a)
          /\ \/ voted' = voted /\ Loose(t, r)'
             \/ voted' = [voted EXCEPT ![c] = @ \cup {t}] /\ Bound(t, r)'
          /\ budget.crashes = 0 => thread[c].pc = "wait1"
          /\ Undisturbed' => a \/ t \in voted'[c]
    <2>1. CASE Unreachable(c)
      <3>1. /\ ~up[t] /\ thread[c].pc = "phase1" /\ NextInPhase1(c, thread[c].abort)
            /\ voted' = voted
        BY Zenon, <1>1, <1>2, <2>1 DEF Unreachable, NoVote, Phase1
      <3>2. budget.crashes # 0 /\ Loose(t, r)'
        BY Zenon, <1>2, <1>7, <1>8, <3>1
      <3>3. QED
        BY Zenon, <1>2, <1>3, <3>1, <3>2 DEF Undisturbed
    <2>2. CASE Reset(c)
      <3>1. /\ reply[c].type = "RESET" /\ thread[c].pc = "wait1" /\ voted' = voted
            /\ NextInPhase1(c, thread[c].abort)
        BY Zenon, <1>2, <2>2 DEF Reset, NoVote, Phase1
      <3>2. budget.crashes # 0 /\ Loose(t, r)'
        BY Zenon, <1>2, <1>8, <3>1 DEF Asked
      <3>3. QED
        BY Zenon, <1>2, <1>3, <3>1, <3>2 DEF Undisturbed
    <2>3. CASE Receive(c)
      <3>1. /\ reply[c].type \notin {"none", "RESET"} /\ thread[c].pc = "wait1"
            /\ NextInPhase1(c, thread[c].abort \/ Aborts(reply[c]))
            /\ voted' = IF reply[c].type = "VOTE_COMMIT"
                        THEN [voted EXCEPT ![c] = @ \cup {Target(c)}] ELSE voted
        BY Zenon, <2>3 DEF Receive, Phase1
      <3>2. CASE reply[c].type = "VOTE_COMMIT"
        <4>1. Bound(t, r)' /\ voted' = [voted EXCEPT ![c] = @ \cup {t}]
          BY Zenon, <1>1, <1>2, <1>8, <3>1, <3>2 DEF Asked
        <4>2. t \in voted'[c]
          BY Zenon, <4>1 DEF TypeOK
        <4>3. (thread[c].abort \/ Aborts(reply[c])) \in BOOLEAN
          BY Zenon, <1>2 DEF Aborts
        <4>4. QED
          BY Zenon, <3>1, <4>1, <4>2, <4>3
      <3>3. CASE reply[c].type # "VOTE_COMMIT"
        <4>1. reply[c].type = "VOTE_ABORT" /\ NoEntry(t)
          BY Zenon, <1>2, <3>1, <3>3 DEF Asked
        <4>2. Loose(t, r)' /\ voted' = voted /\ Aborts(reply[c])
          BY Zenon, <1>8, <3>1, <4>1 DEF Aborts
        <4>3. NextInPhase1(c, TRUE)
          BY Zenon, <3>1, <4>2
        <4>4. QED
          BY Zenon, <3>1, <4>2, <4>3
      <3>4. QED
        BY Zenon, <3>2, <3>3
    <2>4. QED
      BY Zenon, <2>1, <2>2, <2>3
  <1>10. /\ OthersStay(c) /\ thread'[c].req = thread[c].req
         /\ thread'[c].pc \in {"phase1", "phase2"}
    BY Zenon, <1>9, Phase1Effect
  <1>11. ConnInv'
    <2>1. OthersWait(c) /\ ~Waits(c)'
      BY Zenon, <1>5, <1>10 DEF OthersWait, OthersStay, Waits
    <2>2. QED
      BY Zenon, <1>3, <2>1, LeaveConn
  <1>12. /\ \A d \in Clients \ {c} : voted'[d] = voted[d]
         /\ \/ voted'[c] = voted[c] /\ Loose(t, r)'
            \/ voted'[c] = voted[c] \cup {t} /\ Bound(t, r)'
    BY Zenon, <1>9 DEF TypeOK
  <1>13. Frame(c)
    BY Zenon, <1>3, <1>5, <1>10, <1>12 DEF Frame, Undisturbed
  <1>14. Undecided(c, t)'
    BY Zenon, <1>1, <1>2, <1>10, <1>12 DEF Undecided
  <1>15. budget.crashes = 0 => Gets(t, thread[c].req)'
    <2>1. budget.crashes = 0 => Gets(t, r)'
      BY Zenon, <1>2, <1>4, <1>9, SameRoles, SameHarmless
    <2>2. Gets(t, r)' => Gets(t, thread[c].req)'
      BY Zenon, <1>1, <1>10 DEF Gets
    <2>3. QED
      BY Zenon, <2>1, <2>2
  <1>16. QED
    BY Zenon, <1>2, <1>3, <1>4, <1>6, <1>9, <1>11, <1>12, <1>13, <1>14, <1>15,
       Advance1

(* The receive timeout ends an iteration of phase 1: the request may still *)
(* be handled, its vote goes to nobody.                                    *)
LEMMA Phase1Timeout ==
  ASSUME TypeOK, Inv, NEW c \in Clients, Phase1(c), Timeout(c)
  PROVE  Inv'
  <1> SlaveTypeOK /\ ConnInv /\ JobInv /\ OneWriter
    BY Zenon DEF TypeOK, Inv
  <1>1. PICK t \in Slaves, r \in Request : t = Target(c) /\ r = thread[c].req
    BY Zenon, Phase1Facts
  <1>2. /\ ~Reading(c) /\ thread[c].pc = "wait1" /\ GiveUp(t, c) /\ voted' = voted
        /\ budget' = [budget EXCEPT !.timeouts = @ + 1]
        /\ NextInPhase1(c, thread[c].abort)
    BY Zenon, <1>1, Phase1Facts DEF Timeout, Phase1, NoVote
  <1>3. /\ t = Order[thread[c].at] /\ t \notin voted[c] /\ thread[c].abort \in BOOLEAN
        /\ Asked(c, t) /\ (budget.crashes = 0 => Gets(t, r))
    BY Zenon, <1>1, <1>2, Phase1Facts
  <1>4. /\ \E p \in Pending(t) : p.owner = c
        /\ InQ(wq'[t]) = {Orphan(p, c) : p \in InQ(wq[t])}
        /\ Pending(t)' = {Orphan(p, c) : p \in Pending(t)}
        /\ job'[t].pc = job[t].pc
        /\ job[t] # Idle => job'[t].conn.msg = job[t].conn.msg
        /\ up' = up /\ state' = state /\ log' = log /\ store' = store /\ reply' = reply
        /\ \A s \in Slaves \ {t} : Same(s)
    BY Zenon, <1>2, GiveUpEffect
  <1>5. /\ OthersStay(c) /\ thread'[c].req = thread[c].req
        /\ thread'[c].pc \in {"phase1", "phase2"}
    BY Zenon, <1>2, Phase1Effect
  <1>6. \A d \in Clients : Target(d) \in Slaves
    BY Zenon, Targets
  <1>7. ~Waits(c)'
    BY Zenon, <1>5 DEF Waits
  <1>8. ConnInv'
    BY Zenon, <1>1, <1>2, <1>5, <1>6, <1>7, GiveUpConn DEF OthersStay
  <1>9. JobInv'
    BY Zenon, <1>2, MasterJob
  <1>10. AskedVote(c, t)
    BY Zenon, <1>3, <1>4 DEF Asked, ConnInv, ConnOf
  <1>11. \A p : Orphan(p, c).msg = p.msg /\ (p.owner = c => Orphan(p, c).owner = None)
    BY Zenon DEF Orphan
  <1>12. Loose(t, r)'
    <2>1. \A p \in Pending(t) : p.msg \in Entry => p.msg = r /\ p.owner = c
      BY Zenon, <1>1, <1>10 DEF AskedVote
    <2>2. \A x \in Pending(t)' : x.msg \in Entry => x.msg = r /\ x.owner = None
      BY Zenon, <1>4, <1>11, <2>1
    <2>3. QED
      BY Zenon, <2>2 DEF Loose
  <1>13. Undecided(c, t)'
    BY Zenon, <1>1, <1>2, <1>3, <1>5, <1>12 DEF Undecided
  <1>14. ASSUME budget.crashes = 0 PROVE Gets(t, thread[c].req)'
    <2>1. Gets(t, r) /\ (job[t] = Idle => job[t].pc = "idle")
      BY Zenon, <1>3, <1>14, Fields
    <2>2. \A p \in InQ(wq[t]) : Orphan(p, c) \in InQ(wq'[t]) /\ Orphan(p, c).msg = p.msg
      BY Zenon, <1>4, <1>11
    <2>3. Gets(t, r)'
      BY Zenon, <1>4, <2>1, <2>2 DEF Gets, Waiting
    <2>4. QED
      BY Zenon, <1>1, <1>5, <2>3 DEF Gets
  <1>15. budget.crashes' = budget.crashes /\ ~Undisturbed'
    BY <1>2 DEF TypeOK, Undisturbed
  <1>16. Frame(c)
    BY Zenon, <1>2, <1>4, <1>5, <1>15 DEF Frame
  <1>17. QED
    BY Zenon, <1>2, <1>3, <1>4, <1>8, <1>9, <1>13, <1>14, <1>15, <1>16,
       Advance1

(* The slaves that the thread does not turn to. *)
LEMMA Elsewhere ==
  ASSUME TypeOK, Inv, NEW c \in Clients, InTPC(c), NEW t, t = Order[thread[c].at],
         \A s \in Slaves \ {t} : Same(s), thread'[c].req = thread[c].req, voted' = voted,
         NEW n \in 1..Len(Order), n # thread[c].at
  PROVE  /\ InPhase(c, n) /\ n \in Int /\ thread[c].at \in Int
         /\ Clean(Order[n])' <=> Clean(Order[n])
         /\ Undecided(c, Order[n])' <=> Undecided(c, Order[n])
         /\ thread'[c].abort = thread[c].abort =>
              (Decided(c, Order[n])' <=> Decided(c, Order[n]))
         /\ Gets(Order[n], thread[c].req)' <=> Gets(Order[n], thread[c].req)
         /\ store'[Order[n]] = store[Order[n]]
  <1>1. thread[c].at \in 1..Len(Order) /\ thread[c].req \in Request
    BY Zenon, Targets DEF Inv, OneWriter
  <1>2. /\ InPhase(c, n) /\ n \in Int /\ Order[n] \in Slaves /\ Order[n] # t
        /\ thread[c].at \in Int
    BY Zenon, <1>1, Positions DEF Inv, SlavesInv
  <1>3. Same(Order[n])
    BY Zenon, <1>2
  <1>4. QED
    BY Zenon, <1>1, <1>2, <1>3, RoleKept

(* Phase 1 sends the request. *)
LEMMA AskInv ==
  ASSUME TypeOK, Inv, NEW c \in Clients, Phase1(c), Contact(c)
  PROVE  Inv'
  <1> SlaveTypeOK /\ ConnInv /\ JobInv /\ OneWriter /\ VotesInv
    BY Zenon DEF TypeOK, Inv
  <1>1. PICK t \in Slaves, r \in Request : t = Target(c) /\ r = thread[c].req
    BY Zenon, Phase1Facts
  <1>2. /\ InTPC(c) /\ thread[c].pc = "phase1" /\ Connect(t, c, r) /\ Goto(c, "wait1")
        /\ voted' = voted /\ budget' = budget
    BY Zenon, <1>1, Phase1Facts DEF Contact, Phase1
  <1>3. t = Order[thread[c].at] /\ t \notin voted[c] /\ Clean(t)
        /\ \A d \in Clients : Target(d) \in Slaves
    BY Zenon, <1>1, <1>2, Phase1Facts, Targets
  <1>4. /\ OthersStay(c) /\ thread'[c].pc = "wait1" /\ thread'[c].req = r
        /\ thread'[c].at = thread[c].at /\ thread'[c].abort = thread[c].abort
    BY Zenon, <1>1, <1>2, GotoEffect
  <1>5. /\ InTPC(c)' /\ Phase1(c)' /\ ~Phase2(c)' /\ Target(c)' = t
        /\ ~Waits(c) /\ Waits(c)'
    BY Zenon, <1>2, <1>3, <1>4
       DEF InTPC, Phase1, Phase2, Target, Reading, Waits
  <1>6. PICK p : p = [msg |-> r, owner |-> c]
    BY Zenon
  <1>7. r \in Message /\ r \in Entry
    BY Zenon, Messages
  <1>8. /\ p.msg = r /\ p.owner = c
        /\ InQ(wq'[t]) = InQ(wq[t]) \cup {p} /\ Pending(t)' = Pending(t) \cup {p}
        /\ up' = up /\ state' = state /\ log' = log /\ store' = store /\ job' = job
        /\ \A s \in Slaves \ {t} : Same(s)
        /\ reply'[c] = NoReply /\ \A d \in Clients \ {c} : reply'[d] = reply[d]
    BY <1>2, <1>6, <1>7, ConnectEffect
  <1>9. ConnInv'
    BY Zenon, <1>2, <1>3, <1>4, <1>5, <1>7, ConnectConn DEF OthersStay
  <1>10. JobInv'
    BY Zenon, <1>2, <1>7, MasterJob
  <1>11. Asked(c, t)'
    <2>1. \A x \in Pending(t) : x.msg \notin Entry
      BY Zenon, <1>3, PendingIs DEF Clean, NoEntry
    <2>2. ~Waiting(t)'
      BY Zenon, <1>3, <1>8 DEF Clean, Waiting
    <2>3. AskedVote(c, t)'
      BY Zenon, <1>4, <1>8, <2>1, <2>2 DEF AskedVote
    <2>4. QED
      BY Zenon, <1>2, <1>3, <1>8, <2>3, Fields DEF Asked
  <1>12. Gets(t, r)'
    BY Zenon, <1>3, <1>8 DEF Gets, Waiting, Clean
  <1>13. ASSUME NEW n \in 1..Len(Order) PROVE InPhase(c, n)'
    <2>1. CASE n = thread[c].at
      <3>1. Order[n] = t
        BY Zenon, <1>3, <2>1
      <3>2. n \in Int
        BY Zenon, Positions
      <3>3. QED
        BY Zenon, <1>4, <1>5, <1>11, <2>1, <3>1, <3>2, Compare DEF InPhase
    <2>2. CASE n # thread[c].at
      <3>1. /\ InPhase(c, n) /\ n \in Int /\ thread[c].at \in Int
            /\ Clean(Order[n])' <=> Clean(Order[n])
            /\ Undecided(c, Order[n])' <=> Undecided(c, Order[n])
        BY Zenon, <1>1, <1>2, <1>3, <1>4, <1>8, <2>2, Elsewhere
      <3>2. QED
        BY Zenon, <1>2, <1>4, <1>5, <2>2, <3>1 DEF InPhase
    <2>3. QED
      BY Zenon, <2>1, <2>2
  <1>14. ASSUME NEW B, NEW n \in 1..Len(Order), Agrees(c, n, B) PROVE Agrees(c, n, B)'
    <2>1. Gets(Order[n], r)' => Gets(Order[n], thread[c].req)'
      BY Zenon, <1>4 DEF Gets
    <2>2. CASE n = thread[c].at
      <3>1. Order[n] = t
        BY Zenon, <1>3, <2>2
      <3>2. QED
        BY Zenon, <1>2, <1>4, <1>5, <1>8, <1>12, <1>14, <2>1, <2>2, <3>1
           DEF Agrees, Phase1
    <2>3. CASE n # thread[c].at
      <3>1. /\ Gets(Order[n], thread[c].req)' <=> Gets(Order[n], thread[c].req)
            /\ n \in Int /\ thread[c].at \in Int
        BY Zenon, <1>1, <1>2, <1>3, <1>4, <1>8, <2>3, Elsewhere
      <3>2. QED
        BY Zenon, <1>2, <1>4, <1>5, <1>8, <1>14, <2>3, <3>1 DEF Agrees, Phase1
    <2>4. QED
      BY Zenon, <2>2, <2>3
  <1>15. Frame(c)
    <2>1. \A d \in Clients : reply'[d].type \in {reply[d].type, "none"}
      BY Zenon, <1>8, Fields
    <2>2. up' = up
      BY Zenon, <1>8
    <2>3. QED
      BY Zenon, <1>2, <1>4, <2>1, <2>2 DEF Frame, Undisturbed
  <1>16. VotesOf(c) => VotesOf(c)'
    BY Zenon, <1>2, <1>4, <1>5 DEF VotesOf, Phase1
  <1>17. voted'[c] \subseteq Range(Order) /\ (Undisturbed' => VotesOf(c)')
    BY Zenon, <1>2, <1>15, <1>16 DEF VotesInv, Frame
  <1>18. \A s \in Slaves \ Range(Order) : Same(s)
    BY <1>3, <1>8, Positions, Targets
  <1>19. QED
    BY Zenon, <1>1, <1>2, <1>4, <1>5, <1>9, <1>10, <1>13, <1>14, <1>15, <1>17,
       <1>18, WriterInv

(* and at that of phase 2. *)
LEMMA Phase2Facts ==
  ASSUME TypeOK, Inv, NEW c \in Clients, Phase2(c)
  PROVE  /\ InTPC(c) /\ ~Reading(c) /\ ~Phase1(c) /\ thread[c].req \in Request
         /\ Target(c) \in Slaves /\ Target(c) = Order[thread[c].at]
         /\ thread[c].at \in 1..Len(Order) /\ InPhase(c, thread[c].at)
         /\ thread[c].pc # "wait2" => Undecided(c, Target(c))
         /\ thread[c].pc = "wait2" => Told(c, Target(c))
  <1>1. InTPC(c) /\ ~Reading(c) /\ ~Phase1(c)
    BY Zenon DEF InTPC, Reading, Phase1, Phase2
  <1>2. /\ thread[c].at \in 1..Len(Order) /\ Target(c) \in Slaves
        /\ Target(c) = Order[thread[c].at] /\ thread[c].req \in Request
    BY Zenon, <1>1, Targets DEF Inv, OneWriter
  <1>3. InPhase(c, thread[c].at)
    BY Zenon, <1>1, <1>2 DEF Inv, SlavesInv
  <1>4. QED
    BY Zenon, <1>1, <1>2, <1>3 DEF InPhase

(* What an undecided slave may be doing. *)
LEMMA UndecidedJob ==
  ASSUME NEW c \in Clients, NEW s \in Slaves, SlaveTypeOK, Undecided(c, s), JobOf(s),
         thread[c].req \in Request
  PROVE  /\ \A p \in Pending(s) : p.msg \in Entry =>
              p.msg = thread[c].req /\ p.owner = None /\ s \notin voted[c]
         /\ job[s].pc \in {"idle", "log", "vote"}
         /\ job[s] # Idle => job[s].conn.msg = thread[c].req
         /\ s \in voted[c] => job[s].pc = "idle"
  <1>1. \A p \in Pending(s) : p.msg \in Entry =>
          p.msg = thread[c].req /\ p.owner = None /\ s \notin voted[c]
    BY Zenon, PendingIs DEF Undecided, Bound, Loose, NoEntry
  <1>2. job[s] \in Job \cup {Idle}
    BY Zenon DEF SlaveTypeOK
  <1>3. CASE job[s] = Idle
    BY Zenon, <1>1, <1>3, Fields
  <1>4. CASE job[s] # Idle
    <2>1. /\ job[s] \in Job /\ job[s].conn \in Pending(s) /\ job[s].conn.msg \in Entry
          /\ job[s].pc \in {"log", "vote", "apply", "ack"}
      BY Zenon, <1>2, <1>4, PendingIs DEF Job
    <2>2. job[s].conn.msg = thread[c].req /\ s \notin voted[c]
      BY Zenon, <1>1, <2>1
    <2>3. job[s].pc \notin {"apply", "ack"}
      BY Zenon, <2>2, Messages DEF JobOf, IsRequest
    <2>4. QED
      BY Zenon, <1>1, <2>1, <2>2, <2>3
  <1>5. QED
    BY Zenon, <1>3, <1>4

(* Phase 2 sends the decision. *)
LEMMA TellInv ==
  ASSUME TypeOK, Inv, NEW c \in Clients, Phase2(c), Contact(c)
  PROVE  Inv'
  <1> SlaveTypeOK /\ ConnInv /\ JobInv /\ OneWriter /\ VotesInv
    BY Zenon DEF TypeOK, Inv
  <1>1. PICK t \in Slaves, r \in Request, m \in Entry : /\ t = Target(c) /\ r = thread[c].req
                                                       /\ m = Decision(c)
    BY Zenon, Phase2Facts DEF Decision, Entry
  <1>2. /\ InTPC(c) /\ thread[c].pc = "phase2" /\ Connect(t, c, m) /\ Goto(c, "wait2")
        /\ voted' = voted /\ budget' = budget
    BY Zenon, <1>1, Phase2Facts DEF Contact, Phase2
  <1>3. /\ t = Order[thread[c].at] /\ Undecided(c, t) /\ JobOf(t)
        /\ thread[c].at \in 1..Len(Order)
        /\ \A d \in Clients : Target(d) \in Slaves
    BY Zenon, <1>1, <1>2, Phase2Facts, Targets DEF JobInv
  <1>4. /\ OthersStay(c) /\ thread'[c].pc = "wait2" /\ thread'[c].req = r
        /\ thread'[c].at = thread[c].at /\ thread'[c].abort = thread[c].abort
        /\ Decision(c)' = m
    BY Zenon, <1>1, <1>2, GotoEffect DEF Decision
  <1>5. /\ InTPC(c)' /\ Phase2(c)' /\ ~Phase1(c)' /\ Target(c)' = t
        /\ ~Waits(c) /\ Waits(c)'
    BY Zenon, <1>2, <1>3, <1>4
       DEF InTPC, Phase1, Phase2, Target, Reading, Waits
  <1>6. PICK p : p = [msg |-> m, owner |-> c]
    BY Zenon
  <1>7. m \in Message /\ m \in Entry /\ m \notin Request
    BY Zenon, <1>1, Messages DEF Decision
  <1>8. /\ p.msg = m /\ p.owner = c
        /\ InQ(wq'[t]) = InQ(wq[t]) \cup {p} /\ Pending(t)' = Pending(t) \cup {p}
        /\ \A d : LastIn(wq[t], d) /\ (m \in Entry => \A x \in InQ(wq[t]) : x.msg # d) =>
             LastIn(wq'[t], d)
        /\ up' = up /\ state' = state /\ log' = log /\ store' = store /\ job' = job
        /\ \A s \in Slaves \ {t} : Same(s)
        /\ reply'[c] = NoReply /\ \A d \in Clients \ {c} : reply'[d] = reply[d]
    BY <1>2, <1>6, <1>7, ConnectEffect
  <1>9. ConnInv'
    BY Zenon, <1>2, <1>3, <1>4, <1>5, <1>7, ConnectConn DEF OthersStay
  <1>10. JobInv'
    BY Zenon, <1>2, <1>7, MasterJob
  <1>11. /\ \A x \in Pending(t) : x.msg \in Entry =>
              x.msg = r /\ x.owner = None /\ t \notin voted[c]
         /\ job[t].pc \in {"idle", "log", "vote"}
         /\ job[t] # Idle => job[t].conn.msg = r
         /\ t \in voted[c] => job[t].pc = "idle"
    BY Zenon, <1>1, <1>3, UndecidedJob
  <1>12. \A x \in InQ(wq[t]) : x.msg # m
    BY Zenon, <1>7, <1>11, PendingIs
  <1>13. Told(c, t)'
    <2>1. LastIn(wq'[t], m)
      <3>1. LastIn(wq[t], m)
        BY Zenon, <1>12 DEF LastIn, InQ
      <3>2. QED
        BY Zenon, <1>8, <1>12, <3>1
    <2>2. \A x \in Pending(t)' : x.msg \in Entry =>
            \/ x.msg = m /\ x.owner = c
            \/ x.msg = r /\ x.owner = None /\ t \notin voted'[c]
      BY Zenon, <1>2, <1>8, <1>11
    <2>3. ~(job'[t] # Idle /\ job'[t].conn.msg = m)
      BY Zenon, <1>7, <1>8, <1>11
    <2>4. ToldQueue(c, t)'
      BY Zenon, <1>4, <2>1, <2>2, <2>3 DEF ToldQueue
    <2>5. t \in voted[c] => Ready(t, r) /\ Check(store[t], r)
      BY Zenon, <1>1, <1>3 DEF Undecided, Bound
    <2>6. Ready(t, r) => Ready(t, thread[c].req)'
      BY Zenon, <1>4, <1>8 DEF Ready, Waiting
    <2>7. ToldJob(c, t)'
      BY Zenon, <1>2, <1>4, <1>8, <1>11, <2>5, <2>6 DEF ToldJob
    <2>8. QED
      BY Zenon, <1>8, <2>4, <2>7, Fields DEF Told
  <1>14. ASSUME NEW n \in 1..Len(Order) PROVE InPhase(c, n)'
    <2>1. CASE n = thread[c].at
      <3>1. Order[n] = t /\ n \in Int
        BY Zenon, <1>3, <2>1, Positions
      <3>2. QED
        BY Zenon, <1>4, <1>5, <1>13, <2>1, <3>1, Compare DEF InPhase
    <2>2. CASE n # thread[c].at
      <3>1. /\ InPhase(c, n) /\ n \in Int /\ thread[c].at \in Int
            /\ Decided(c, Order[n])' <=> Decided(c, Order[n])
            /\ Undecided(c, Order[n])' <=> Undecided(c, Order[n])
        BY Zenon, <1>1, <1>2, <1>3, <1>4, <1>8, <2>2, Elsewhere
      <3>2. QED
        BY Zenon, <1>2, <1>4, <1>5, <2>2, <3>1 DEF InPhase
    <2>3. QED
      BY Zenon, <2>1, <2>2
  <1>15. ASSUME NEW B, NEW n \in 1..Len(Order), Agrees(c, n, B) PROVE Agrees(c, n, B)'
    <2>1. Outcome(c, B)' = Outcome(c, B)
      BY Zenon, <1>1, <1>4 DEF Outcome, Apply, Check
    <2>2. CASE n = thread[c].at
      <3>1. Order[n] = t /\ n \in Int
        BY Zenon, <1>3, <2>2, Positions
      <3>2. store[t] = B /\ Gets(t, r)
        BY Zenon, <1>1, <1>2, <1>15, <2>2, <3>1 DEF Agrees, Phase2
      <3>3. Gets(t, r)'
        BY Zenon, <1>8, <3>2 DEF Gets, Waiting
      <3>4. Gets(t, r)' => Gets(t, thread[c].req)'
        BY Zenon, <1>4 DEF Gets
      <3>5. job[t].pc = "log" => job[t].conn.msg = r
        BY Zenon, <1>11, Fields
      <3>6. Deciding(c, t, B)'
        BY Zenon, <1>4, <1>7, <1>8, <1>11, <3>2, <3>3, <3>4, <3>5, Messages, Fields
           DEF Deciding
      <3>7. QED
        BY Zenon, <1>4, <1>5, <2>2, <3>1, <3>6, Compare DEF Agrees
    <2>3. CASE n # thread[c].at
      <3>1. /\ Gets(Order[n], thread[c].req)' <=> Gets(Order[n], thread[c].req)
            /\ n \in Int /\ thread[c].at \in Int
        BY Zenon, <1>1, <1>2, <1>3, <1>4, <1>8, <2>3, Elsewhere
      <3>2. QED
        BY Zenon, <1>2, <1>4, <1>5, <1>8, <1>15, <2>1, <2>3, <3>1
           DEF Agrees, Phase2
    <2>4. QED
      BY Zenon, <2>2, <2>3
  <1>16. Frame(c)
    <2>1. \A d \in Clients : reply'[d].type \in {reply[d].type, "none"}
      BY Zenon, <1>8, Fields
    <2>2. up' = up
      BY Zenon, <1>8
    <2>3. QED
      BY Zenon, <1>2, <1>4, <2>1, <2>2 DEF Frame, Undisturbed
  <1>17. VotesOf(c) => VotesOf(c)'
    BY Zenon, <1>2, <1>4, <1>5 DEF VotesOf, Phase2
  <1>18. voted'[c] \subseteq Range(Order) /\ (Undisturbed' => VotesOf(c)')
    BY Zenon, <1>2, <1>16, <1>17 DEF VotesInv, Frame
  <1>19. \A s \in Slaves \ Range(Order) : Same(s)
    BY Zenon, <1>3, <1>8, Positions
  <1>20. QED
    BY Zenon, <1>1, <1>2, <1>4, <1>5, <1>9, <1>10, <1>14, <1>15, <1>16, <1>18,
       <1>19, WriterInv

(* Phase 2 meets a slave that is down, or the ACK of one that is up. *)
LEMMA Phase2Inv ==
  ASSUME TypeOK, Inv, NEW c \in Clients, Phase2(c), Unreachable(c) \/ Receive(c)
  PROVE  Inv'
  <1> SlaveTypeOK /\ ConnInv /\ JobInv /\ OneWriter /\ VotesInv
    BY Zenon DEF TypeOK, Inv
  <1>1. PICK t \in Slaves, r \in Request : t = Target(c) /\ r = thread[c].req
    BY Zenon, Phase2Facts
  <1>2. /\ InTPC(c) /\ t = Order[thread[c].at] /\ thread[c].at \in 1..Len(Order)
        /\ thread[c].at \in Int /\ Len(Order) \in Nat /\ ~Phase1(c)
    BY Zenon, <1>1, Phase2Facts, Positions
  <1>3. /\ up' = up /\ state' = state /\ log' = log /\ store' = store
        /\ wq' = wq /\ job' = job /\ budget' = budget /\ voted' = voted
        /\ reply' = reply \/ reply' = [reply EXCEPT ![c] = NoReply]
        /\ \/ /\ thread[c].pc = "phase2" /\ Goto(c, "stuck")
           \/ /\ thread[c].pc = "wait2" /\ reply[c].type = "ACK" /\ NextInPhase2(c)
    <2>1. CASE Unreachable(c)
      BY Zenon, <2>1 DEF Unreachable, Phase2, slaveVars
    <2>2. CASE Receive(c)
      BY Zenon, <2>2 DEF Receive, Phase2
    <2>3. QED
      BY Zenon, <2>1, <2>2
  <1>4. ~Waits(c) \/ reply[c].type # "none"
    BY Zenon, <1>3 DEF Waits
  <1>5. \A s \in Slaves : Same(s)
    BY Zenon, <1>3 DEF Same
  <1>6. /\ \A d \in Clients \ {c} : reply'[d] = reply[d]
        /\ \A d \in Clients : reply'[d].type \in {reply[d].type, "none"}
    <2>1. CASE reply' = reply
      BY Zenon, <2>1
    <2>2. CASE reply' = [reply EXCEPT ![c] = NoReply]
      <3>1. reply'[c].type = "none" /\ \A d \in Clients \ {c} : reply'[d] = reply[d]
        BY Zenon, <2>2 DEF SlaveTypeOK, NoReply
      <3>2. QED
        BY Zenon, <3>1
    <2>3. QED
      BY Zenon, <1>3, <2>1, <2>2
  <1>7. JobInv'
    BY Zenon, <1>1, <1>3, MasterJob
  <1>8. ASSUME OthersStay(c), ~Waits(c)' PROVE Frame(c) /\ ConnInv'
    <2>1. OthersWait(c)
      BY Zenon, <1>6, <1>8 DEF OthersWait, OthersStay
    <2>2. QED
      BY Zenon, <1>3, <1>4, <1>6, <1>8, <2>1, LeaveConn DEF Frame, Undisturbed
  <1>9. voted'[c] \subseteq Range(Order)
    BY Zenon, <1>3 DEF VotesInv
  <1>10. ASSUME InTPC(c)', Phase2(c)', OthersStay(c), thread'[c].pc # "wait2",
                thread'[c].req = r, thread'[c].abort = thread[c].abort,
                thread'[c].at \in Int,
                \A n \in 1..Len(Order) : n \in Int /\
                  IF n < thread'[c].at
                  THEN n < thread[c].at \/ (n = thread[c].at /\ thread[c].pc = "wait2")
                  ELSE n > thread[c].at \/ (n = thread[c].at /\ thread[c].pc # "wait2"),
                thread[c].pc = "wait2" => reply[c].type = "ACK"
         PROVE  Inv'
    <2>1. ~Phase1(c)' /\ ~Waits(c)'
      BY Zenon, <1>10 DEF Phase1, Phase2, Waits
    <2>2. Frame(c) /\ ConnInv'
      BY Zenon, <1>8, <1>10, <2>1
    <2>3. ASSUME NEW n \in 1..Len(Order)
          PROVE  /\ InPhase(c, n)
                 /\ Undecided(c, Order[n])' <=> Undecided(c, Order[n])
                 /\ Decided(c, Order[n])' <=> Decided(c, Order[n])
                 /\ Gets(Order[n], thread[c].req)' <=> Gets(Order[n], thread[c].req)
                 /\ store'[Order[n]] = store[Order[n]]
      <3>1. InPhase(c, n) /\ Order[n] \in Slaves
        BY Zenon, <1>2, Positions DEF Inv, SlavesInv
      <3>2. QED
        BY Zenon, <1>1, <1>3, <1>5, <1>10, <3>1, RoleKept
    <2>4. Told(c, t) /\ reply[c].type = "ACK" => Decided(c, t)
      BY Zenon DEF Told
    <2>5. ASSUME NEW n \in 1..Len(Order) PROVE InPhase(c, n)'
      <3>1. n < thread'[c].at => Decided(c, Order[n])
        BY Zenon, <1>2, <1>10, <2>3, <2>4 DEF InPhase
      <3>2. ~(n < thread'[c].at) => Undecided(c, Order[n])
        BY Zenon, <1>2, <1>10, <2>3 DEF InPhase
      <3>3. n \in Int /\ thread'[c].at \in Int
        BY Zenon, <1>10
      <3>4. CASE n < thread'[c].at
        BY Zenon, <1>10, <2>1, <2>3, <3>1, <3>3, <3>4, Compare DEF InPhase
      <3>5. CASE ~(n < thread'[c].at)
        BY Zenon, <1>10, <2>1, <2>3, <3>2, <3>3, <3>5 DEF InPhase
      <3>6. QED
        BY Zenon, <3>4, <3>5
    <2>6. ASSUME NEW B, NEW n \in 1..Len(Order), Agrees(c, n, B) PROVE Agrees(c, n, B)'
      <3>1. Outcome(c, B)' = Outcome(c, B)
        BY Zenon, <1>1, <1>10 DEF Outcome, Apply, Check
      <3>2. Deciding(c, t, B) /\ reply[c].type = "ACK" => store[t] = Outcome(c, B)
        BY Zenon DEF Deciding
      <3>3. n < thread'[c].at => store[Order[n]] = Outcome(c, B)
        BY Zenon, <1>2, <1>10, <2>6, <3>2 DEF Agrees
      <3>4. ~(n < thread'[c].at) => store[Order[n]] = B /\ Gets(Order[n], thread[c].req)
        BY Zenon, <1>2, <1>10, <2>6 DEF Agrees
      <3>5. n \in Int /\ thread'[c].at \in Int
        BY Zenon, <1>10
      <3>6. QED
        BY Zenon, <1>10, <2>1, <2>3, <3>1, <3>3, <3>4, <3>5, Compare DEF Agrees
    <2>7. VotesOf(c) => VotesOf(c)'
      BY Zenon, <1>3, <1>10, <2>1 DEF VotesOf
    <2>8. Undisturbed' => VotesOf(c)'
      BY Zenon, <2>2, <2>7 DEF VotesInv, Frame
    <2>9. \A s \in Slaves \ Range(Order) : Same(s)
      BY Zenon, <1>5
    <2>10. QED
      BY Zenon, <1>1, <1>2, <1>7, <1>9, <1>10, <2>2, <2>5, <2>6, <2>8, <2>9,
         WriterInv
  <1>11. CASE thread[c].pc = "phase2" /\ Goto(c, "stuck")
    <2>1. /\ OthersStay(c) /\ thread'[c].pc = "stuck" /\ thread'[c].req = r
          /\ thread'[c].at = thread[c].at /\ thread'[c].abort = thread[c].abort
      BY Zenon, <1>1, <1>11, GotoEffect
    <2>2. InTPC(c)' /\ Phase2(c)'
      BY Zenon, <2>1 DEF InTPC, Phase2
    <2>3. \A n \in 1..Len(Order) : n \in Int /\ (n < thread[c].at \/ n = thread[c].at
                                                 \/ n > thread[c].at)
      BY Zenon, <1>2, Positions, Compare
    <2>4. QED
      BY Zenon, <1>2, <1>10, <1>11, <2>1, <2>2, <2>3
  <1>12. CASE thread[c].pc = "wait2" /\ reply[c].type = "ACK" /\ NextInPhase2(c)
    <2>1. CASE ~LastSlave(c)
      <3>1. /\ OthersStay(c) /\ thread'[c].pc = "phase2" /\ thread'[c].req = r
            /\ thread'[c].at = thread[c].at + 1 /\ thread'[c].abort = thread[c].abort
        BY Zenon, <1>1, <1>12, <2>1, Phase2Effect
      <3>2. InTPC(c)' /\ Phase2(c)'
        BY Zenon, <3>1 DEF InTPC, Phase2
      <3>3. \A n \in 1..Len(Order) : /\ n \in Int
                                     /\ n < thread[c].at + 1 <=> n <= thread[c].at
                                     /\ n < thread[c].at \/ n = thread[c].at
                                          \/ n > thread[c].at
        BY Zenon, <1>2, Positions, Compare
      <3>4. \A n \in 1..Len(Order) :
              IF n < thread'[c].at
              THEN n < thread[c].at \/ (n = thread[c].at /\ thread[c].pc = "wait2")
              ELSE n > thread[c].at \/ (n = thread[c].at /\ thread[c].pc # "wait2")
        <4>1. \A n \in 1..Len(Order) :
                n < thread'[c].at <=> n < thread[c].at \/ n = thread[c].at
          BY <1>2, <3>1
        <4>2. QED
          BY Zenon, <1>12, <3>3, <4>1
      <3>5. QED
        <4>1. thread'[c].at \in Int
          BY <1>2, <3>1
        <4>2. QED
          BY Zenon, <1>10, <1>12, <3>1, <3>2, <3>3, <3>4, <4>1
    <2>2. CASE LastSlave(c)
      <3>1. OthersStay(c) /\ thread'[c].pc = "idle" /\ ~Waits(c)'
        BY Zenon, <1>12, <2>2, Phase2Effect DEF Waits
      <3>2. Frame(c) /\ ConnInv'
        BY Zenon, <1>8, <3>1
      <3>3. \A n \in 1..Len(Order) : n < thread[c].at \/ n = thread[c].at
        BY <1>2, <2>2 DEF LastSlave
      <3>4. Decided(c, t)
        BY Zenon, <1>1, <1>12, Phase2Facts DEF Told
      <3>5. \A n \in 1..Len(Order) : Clean(Order[n])
        <4> TAKE n \in 1..Len(Order)
        <4>1. InPhase(c, n)
          BY Zenon, <1>2 DEF Inv, SlavesInv
        <4>2. Decided(c, Order[n])
          BY Zenon, <1>2, <3>3, <3>4, <4>1 DEF InPhase
        <4>3. QED
          BY Zenon, <4>2 DEF Decided
      <3>6. ASSUME budget.crashes = 0
            PROVE  \A m, n \in 1..Len(Order) : store[Order[m]] = store[Order[n]]
        <4>1. PICK B \in Store : \A n \in 1..Len(Order) : Agrees(c, n, B)
          BY Zenon, <1>2, <3>6 DEF Inv, AgreeInv
        <4>2. \A n \in 1..Len(Order) : store[Order[n]] = Outcome(c, B)
          BY Zenon, <1>2, <1>12, <3>3, <4>1 DEF Agrees, Deciding
        <4>3. QED
          BY Zenon, <4>2
      <3>7. QED
        BY Zenon, <1>2, <1>5, <1>7, <1>9, <3>1, <3>2, <3>5, <3>6, FinishInv
    <2>3. QED
      BY Zenon, <2>1, <2>2
  <1>13. QED
    BY Zenon, <1>3, <1>11, <1>12

-----------------------------------------------------------------------------
(* A request begins. *)

(* The first step of a request keeps the invariant. *)
LEMMA BeginInv ==
  ASSUME TypeOK, Inv, ~Concurrent, NEW c \in Clients, NEW m \in Request \cup GetReq,
         Begin(c, m)
  PROVE  Inv'
  <1> SlaveTypeOK /\ ConnInv /\ JobInv /\ OneWriter /\ VotesInv
    BY Zenon DEF TypeOK, Inv
  <1>1. /\ up' = up /\ state' = state /\ log' = log /\ store' = store /\ reply' = reply
        /\ wq' = wq /\ job' = job /\ thread[c].pc = "idle"
        /\ m \in Request => NoWriter
    BY Zenon DEF Begin, slaveVars, NoWriter
  <1>2. /\ OthersStay(c) /\ thread'[c].req = m /\ thread'[c].at = 1
        /\ thread'[c].pc = IF m \in Request THEN "phase1" ELSE "get"
        /\ voted'[c] = {} /\ \A d \in Clients \ {c} : voted'[d] = voted[d]
    BY Zenon DEF Begin, TypeOK, OthersStay
  <1>3. budget.crashes' = budget.crashes /\ (Undisturbed' <=> Undisturbed)
    BY Zenon DEF Begin, TypeOK, Undisturbed
  <1>4. ~InTPC(c) /\ ~Waits(c) /\ ~Waits(c)'
    BY Zenon, <1>1, <1>2 DEF InTPC, Waits
  <1>5. OthersWait(c)
    BY Zenon, <1>1, <1>2 DEF OthersWait, OthersStay
  <1>6. ConnInv'
    BY Zenon, <1>1, <1>4, <1>5, LeaveConn
  <1>7. JobInv'
    <2>1. Order[1] \in Slaves
      BY Zenon, Positions
    <2>2. QED
      BY Zenon, <1>1, <2>1, MasterJob
  <1>8. \A s \in Slaves : Same(s)
    BY Zenon, <1>1 DEF Same
  <1>9. CASE m \notin Request
    <2>1. m \in GetReq /\ ~InTPC(c)' /\ Reading(c)'
      BY Zenon, <1>2, <1>9 DEF InTPC, Reading
    <2>2. OneWriter'
      <3>1. \A d \in Clients \ {c} : /\ InTPC(d)' <=> InTPC(d)
                                     /\ Reading(d)' <=> Reading(d)
        BY Zenon, <1>2 DEF OthersStay, InTPC, Reading
      <3>2. QED
        BY Zenon, <1>2, <2>1, <3>1 DEF OneWriter, OthersStay
    <2>3. \A d \in Clients : Stays(d) \/ Bystander(d)
      BY Zenon, <1>1, <1>2, <1>4, <2>1
         DEF Stays, SameThread, Bystander, OthersStay
    <2>4. QED
      BY Zenon, <1>1, <1>3, <1>6, <1>7, <1>8, <2>2, <2>3, QuietInv,
         SameHarmless
  <1>10. CASE m \in Request
    <2>1. NoWriter
      BY Zenon, <1>1, <1>10
    <2>2. /\ InTPC(c)' /\ Phase1(c)' /\ ~Phase2(c)' /\ ~Reading(c)'
          /\ thread'[c].pc = "phase1"
      BY Zenon, <1>2, <1>10 DEF InTPC, Phase1, Phase2, Reading
    <2>3. \A d \in Clients \ {c} : ~InTPC(d)' /\ (Reading(d)' <=> Reading(d))
      BY Zenon, <1>2, <2>1 DEF OthersStay, InTPC, Reading, NoWriter
    <2>4. OneWriter'
      BY Zenon, <1>2, <1>10, <2>2, <2>3 DEF OneWriter, OthersStay
    <2>5. \A s \in Slaves : Clean(s)'
      BY Zenon, <1>8, <2>1, SameRoles, SameHarmless DEF Inv, SlavesInv
    <2>6. \A n \in 1..Len(Order) : n \in Int /\ ~(n < 1)
      BY Zenon, Positions
    <2>7. SlavesInv'
      <3>1. \A n \in 1..Len(Order) : InPhase(c, n)'
        BY Zenon, <1>2, <2>2, <2>5, <2>6, Positions DEF InPhase
      <3>2. QED
        BY Zenon, <2>2, <2>3, <2>5, <3>1 DEF SlavesInv
    <2>8. VotesInv'
      <3>1. VotesOf(c)'
        BY Zenon, <1>2, <2>2, <2>6 DEF VotesOf
      <3>2. Frame(c)
        BY Zenon, <1>1, <1>2, <1>3 DEF Frame
      <3>3. QED
        BY Zenon, <1>2, <3>1, <3>2, FrameVotes
    <2>9. AgreeInv'
      <3> SUFFICES ASSUME budget.crashes = 0
                   PROVE  \E B \in Store : \A n \in 1..Len(Order) : Agrees(c, n, B)'
        BY Zenon, <1>3, <2>2, <2>3 DEF AgreeInv, NoWriter
      <3>1. PICK B \in Store : B = store[Order[1]]
        BY Zenon, Positions DEF SlaveTypeOK
      <3>2. \A n \in 1..Len(Order) : store[Order[n]] = B
        BY <2>1, <3>1, Positions DEF Inv, AgreeInv
      <3>3. \A n \in 1..Len(Order) : Agrees(c, n, B)'
        BY Zenon, <1>1, <1>2, <2>2, <2>6, <3>2 DEF Agrees
      <3>4. QED
        BY Zenon, <3>3
    <2>10. QED
      BY Zenon, <1>6, <1>7, <2>4, <2>7, <2>8, <2>9 DEF Inv
  <1>11. QED
    BY Zenon, <1>9, <1>10

(* Nothing that the invariant is about changes. *)
LEMMA UnchangedInv ==
  ASSUME TypeOK, Inv, UNCHANGED <<slaveVars, thread, voted, budget>>
  PROVE  Inv'
  <1>1. /\ up' = up /\ state' = state /\ log' = log /\ store' = store /\ reply' = reply
        /\ wq' = wq /\ job' = job /\ thread' = thread /\ voted' = voted
        /\ budget' = budget
    BY Zenon DEF slaveVars
  <1>2. ConnInv'
    <2>1. \A t \in Slaves : Pending(t)' = Pending(t) /\ (Single(t)' <=> Single(t))
      BY Zenon, <1>1 DEF Pending, Single
    <2>2. \A d \in Clients : Target(d)' = Target(d) /\ (Waits(d)' <=> Waits(d))
      BY Zenon, <1>1 DEF Target, Reading, Waits
    <2>3. \A t \in Slaves : \A p \in Pending(t) : ConnOf(t, p)' <=> ConnOf(t, p)
      BY Zenon, <1>1, <2>2 DEF ConnOf
    <2>4. \A d \in Clients : Pending(Target(d))' = Pending(Target(d))
      BY Zenon, <1>1, <2>2 DEF Pending
    <2>5. \A d \in Clients : Connected(d)' <=> Connected(d)
      BY Zenon, <1>1, <2>2, <2>4 DEF Connected
    <2>6. QED
      BY Zenon, <2>1, <2>3, <2>5 DEF Inv, ConnInv
  <1>3. JobInv'
    BY Zenon, <1>1 DEF Inv, JobInv, JobOf
  <1>4. OneWriter'
    BY Zenon, <1>1 DEF Inv, OneWriter, InTPC, Reading
  <1>5. \A s \in Slaves : Harmless(s)
    BY Zenon, <1>1, SameHarmless DEF Same
  <1>6. \A d \in Clients : Stays(d)
    BY Zenon, <1>1 DEF Stays, SameThread
  <1>7. QED
    BY Zenon, <1>1, <1>2, <1>3, <1>4, <1>5, <1>6, QuietInv DEF Undisturbed

(* Every step keeps the invariant. *)
LEMMA NextInv ==
  ASSUME TypeOK, Inv, ~Concurrent, Rebuilds, [Next]_vars
  PROVE  Inv'
  <1>1. ASSUME NEW c \in Clients, MasterStep(c) PROVE Inv'
    <2>1. CASE Contact(c)
      <3>1. InTPC(c) => Phase1(c) \/ Phase2(c)
        BY Zenon DEF InTPC, Phase1, Phase2
      <3>2. QED
        BY Zenon, <2>1, <3>1, AskInv, TellInv, ReaderInv
    <2>2. CASE Unreachable(c) \/ Receive(c)
      <3>1. InTPC(c) => Phase1(c) \/ Phase2(c)
        BY Zenon DEF InTPC, Phase1, Phase2
      <3>2. QED
        BY Zenon, <2>2, <3>1, Phase1Ends, Phase2Inv, ReaderInv
    <2>3. CASE Reset(c)
      <3>1. InTPC(c) => Phase1(c)
        BY Zenon, <2>3 DEF InTPC, Phase1, Reset
      <3>2. QED
        BY Zenon, <2>3, <3>1, Phase1Ends, ReaderInv
    <2>4. CASE MasterKilled(c)
      BY Zenon, <2>4, UnchangedInv DEF MasterKilled
    <2>5. QED
      BY Zenon, <1>1, <2>1, <2>2, <2>3, <2>4 DEF MasterStep
  <1>2. ASSUME NEW c \in Clients, Timeout(c) PROVE Inv'
    <2>1. InTPC(c) => Phase1(c)
      BY Zenon, <1>2 DEF InTPC, Phase1, Timeout
    <2>2. QED
      BY Zenon, <1>2, <2>1, Phase1Timeout, ReaderInv
  <1>3. ASSUME NEW s \in Slaves, SlaveRuns(s) PROVE Inv'
    BY Zenon, <1>3, SlaveStepInv, RestartInv DEF SlaveRuns
  <1>4. CASE UNCHANGED vars
    BY Zenon, <1>4, UnchangedInv DEF vars, masterVars
  <1>5. QED
    BY Zenon, <1>1, <1>2, <1>3, <1>4, BeginInv, CrashInv
       DEF Next, MasterNext, SlaveNext

-----------------------------------------------------------------------------
(* Types. *)

(* The thread stays of its type wherever it goes. *)
LEMMA ThreadTypes ==
  ASSUME TypeOK, NEW c \in Clients
  PROVE  /\ \A pc \in {"wait1", "wait2", "waitget", "stuck"} :
              Goto(c, pc) => thread' \in [Clients -> Thread]
         /\ \A a \in AnswerType : Finish(c, a) =>
              thread' \in [Clients -> Thread] /\ answer' \in [Clients -> AnswerType]
         /\ \A a \in BOOLEAN : NextInPhase1(c, a) =>
              thread' \in [Clients -> Thread] /\ answer' \in [Clients -> AnswerType]
         /\ NextInPhase2(c) \/ NextReplica(c) =>
              thread' \in [Clients -> Thread] /\ answer' \in [Clients -> AnswerType]
  <1>1. /\ thread \in [Clients -> Thread] /\ answer \in [Clients -> AnswerType]
        /\ thread[c] \in Thread /\ thread[c].at \in 1..Len(Order)
        /\ Len(Order) \in Nat /\ Len(Order) >= 1
    BY Zenon, Positions DEF TypeOK, Thread
  <1>2. ASSUME NEW pc \in {"wait1", "wait2", "waitget", "stuck"}, Goto(c, pc)
        PROVE  thread' \in [Clients -> Thread]
    BY Zenon, <1>1, <1>2 DEF Goto, Thread
  <1>3. ASSUME NEW a \in AnswerType, Finish(c, a)
        PROVE  thread' \in [Clients -> Thread] /\ answer' \in [Clients -> AnswerType]
    <2>1. IdleThread \in Thread
      BY Zenon, Positions DEF IdleThread, Thread
    <2>2. QED
      BY Zenon, <1>1, <1>3, <2>1 DEF Finish
  <1>4. ASSUME NEW T, \E pc \in {"phase1", "phase2", "get"}, n \in 1..Len(Order),
                         a \in BOOLEAN :
                           T = [thread[c] EXCEPT !.pc = pc, !.at = n, !.abort = a]
                           \/ T = [thread[c] EXCEPT !.pc = pc, !.at = n],
               thread' = [thread EXCEPT ![c] = T]
        PROVE  thread' \in [Clients -> Thread]
    <2>1. T \in Thread
      BY Zenon, <1>1, <1>4 DEF Thread
    <2>2. QED
      BY Zenon, <1>1, <1>4, <2>1
  <1>5. ASSUME NEW a \in BOOLEAN, NextInPhase1(c, a)
        PROVE  thread' \in [Clients -> Thread] /\ answer' \in [Clients -> AnswerType]
    <2>1. CASE LastSlave(c)
      <3>1. thread' = [thread EXCEPT ![c] =
                         [thread[c] EXCEPT !.pc = "phase2", !.at = 1, !.abort = a]]
        BY Zenon, <1>5, <2>1 DEF NextInPhase1
      <3>2. 1 \in 1..Len(Order)
        BY Zenon, Positions
      <3>3. QED
        BY Zenon, <1>1, <1>4, <1>5, <3>1, <3>2 DEF NextInPhase1
    <2>2. CASE ~LastSlave(c)
      <3>1. thread' = [thread EXCEPT ![c] =
              [thread[c] EXCEPT !.pc = "phase1", !.at = thread[c].at + 1, !.abort = a]]
        BY Zenon, <1>5, <2>2 DEF NextInPhase1
      <3>2. thread[c].at + 1 \in 1..Len(Order)
        BY <1>1, <2>2 DEF LastSlave
      <3>3. QED
        BY Zenon, <1>1, <1>4, <1>5, <3>1, <3>2 DEF NextInPhase1
    <2>3. QED
      BY Zenon, <2>1, <2>2
  <1>6. [type |-> "SUCCESS"] \in AnswerType /\ [type |-> "NO_KEY"] \in AnswerType
    BY Zenon DEF AnswerType
  <1>7. ASSUME NextInPhase2(c)
        PROVE  thread' \in [Clients -> Thread] /\ answer' \in [Clients -> AnswerType]
    <2>1. CASE LastSlave(c)
      BY Zenon, <1>3, <1>6, <1>7, <2>1 DEF NextInPhase2
    <2>2. CASE ~LastSlave(c)
      <3>1. thread' = [thread EXCEPT ![c] =
                         [thread[c] EXCEPT !.pc = "phase2", !.at = thread[c].at + 1]]
        BY Zenon, <1>7, <2>2 DEF NextInPhase2
      <3>2. thread[c].at + 1 \in 1..Len(Order)
        BY <1>1, <2>2 DEF LastSlave
      <3>3. QED
        BY Zenon, <1>1, <1>4, <1>7, <2>2, <3>1, <3>2 DEF NextInPhase2
    <2>3. QED
      BY Zenon, <2>1, <2>2
  <1>8. ASSUME NextReplica(c)
        PROVE  thread' \in [Clients -> Thread] /\ answer' \in [Clients -> AnswerType]
    <2>1. CASE ~(thread[c].at < Redundancy)
      BY Zenon, <1>3, <1>6, <1>8, <2>1 DEF NextReplica
    <2>2. CASE thread[c].at < Redundancy
      <3>1. thread' = [thread EXCEPT ![c] =
                         [thread[c] EXCEPT !.pc = "get", !.at = thread[c].at + 1]]
        BY Zenon, <1>8, <2>2 DEF NextReplica
      <3>2. thread[c].at + 1 \in 1..Len(Order)
        BY <1>1, <2>2, MasterAssumption
      <3>3. QED
        BY Zenon, <1>1, <1>4, <1>8, <2>2, <3>1, <3>2 DEF NextReplica
    <2>3. QED
      BY Zenon, <2>1, <2>2
  <1>9. QED
    BY Zenon, <1>2, <1>3, <1>5, <1>7, <1>8

(* What a read may see. *)
LEMMA SeenType ==
  ASSUME TypeOK, SlaveTypeOK', OneWriter', Observe
  PROVE  seen' \in [Clients -> SUBSET (Values \cup {Absent})]
  <1>1. ASSUME NEW k \in Keys PROVE View(k)' \in Values \cup {Absent}
    <2>1. ASSUME NEW n \in 1..Redundancy PROVE Replica(k, n) \in Slaves
      <3>1. /\ Primary[k] \in 1..Len(Order) /\ Len(Order) \in Nat /\ Len(Order) >= 1
            /\ \A i \in 1..Len(Order) : Order[i] \in Slaves
        BY Zenon, Positions, MasterAssumption
      <3>2. PICK i : i = Primary[k] + n - 2
        BY Zenon
      <3>3. Primary[k] + n - 2 \in Nat
        BY <3>1, MasterAssumption
      <3>4. (i % Len(Order)) + 1 \in 1..Len(Order)
        BY <3>1, <3>2, <3>3
      <3>5. QED
        BY Zenon, <3>1, <3>2, <3>4 DEF Replica
    <2>2. PICK first \in SUBSET (1..Redundancy) :
            View(k)' = IF first = {} THEN Absent
                       ELSE store'[Replica(k, CHOOSE n \in first : TRUE)][k]
      BY Zenon DEF View, Replica
    <2>3. store' \in [Slaves -> Store]
      BY Zenon DEF SlaveTypeOK
    <2>4. ASSUME NEW n \in 1..Redundancy
          PROVE  store'[Replica(k, n)][k] \in Values \cup {Absent}
      BY Zenon, <2>1, <2>3 DEF Store
    <2>5. CASE first # {}
      <3>1. (CHOOSE n \in first : TRUE) \in 1..Redundancy
        BY Zenon, <2>5
      <3>2. QED
        BY Zenon, <2>2, <2>4, <2>5, <3>1
    <2>6. QED
      BY Zenon, <2>2, <2>5
  <1>2. ASSUME NEW c \in Clients, Reading(c)'
        PROVE  View(thread[c].req.key)' \in Values \cup {Absent}
    <2>1. PICK k \in Keys : k = thread'[c].req.key
      BY Zenon, <1>2 DEF OneWriter, GetReq
    <2>2. View(thread[c].req.key)' = View(k)'
      BY <2>1 DEF View, Replica
    <2>3. QED
      BY Zenon, <1>1, <2>2
  <1>3. ASSUME NEW c \in Clients PROVE seen'[c] \in SUBSET (Values \cup {Absent})
    <2>1. seen[c] \in SUBSET (Values \cup {Absent})
      BY Zenon DEF TypeOK
    <2>2. seen'[c] = IF ~Reading(c)' THEN seen[c]
            ELSE (IF Reading(c) THEN seen[c] ELSE {}) \cup {View(thread[c].req.key)'}
      BY Zenon DEF Observe
    <2>3. QED
      BY Zenon, <1>2, <2>1, <2>2
  <1>4. QED
    BY Zenon, <1>3 DEF Observe

(* Every step keeps the types. *)
LEMMA NextType ==
  ASSUME TypeOK, Inv, ~Concurrent, Rebuilds, [Next]_vars
  PROVE  TypeOK'
  <1> DEFINE Rest == /\ masterUp' \in BOOLEAN
                     /\ thread' \in [Clients -> Thread]
                     /\ answer' \in [Clients -> AnswerType]
                     /\ voted' \in [Clients -> SUBSET Slaves]
                     /\ budget' \in [requests : 0..MaxRequests, timeouts : 0..MaxTimeouts,
                                     crashes : 0..MaxCrashes]
  <1>1. /\ SlaveTypeOK /\ masterUp \in BOOLEAN
        /\ thread \in [Clients -> Thread] /\ answer \in [Clients -> AnswerType]
        /\ voted \in [Clients -> SUBSET Slaves]
        /\ budget \in [requests : 0..MaxRequests, timeouts : 0..MaxTimeouts,
                       crashes : 0..MaxCrashes]
        /\ {MaxRequests, MaxTimeouts, MaxCrashes} \subseteq Nat
    BY Zenon, MasterAssumption DEF TypeOK
  <1>2. \A c \in Clients : /\ Target(c) \in Slaves /\ thread[c].abort \in BOOLEAN
                           /\ InTPC(c) => thread[c].req \in Request
                           /\ Reading(c) => thread[c].req \in GetReq
    BY Zenon, <1>1, Targets DEF Inv, OneWriter, Thread
  <1>3. \A c \in Clients : Decision(c) \in Message
    BY Zenon, Messages DEF Decision
  <1>4. ASSUME UNCHANGED <<up, state, log, torn, store, wq, job>>, NEW c \in Clients,
               reply' = reply \/ reply' = [reply EXCEPT ![c] = NoReply]
        PROVE  SlaveTypeOK'
    <2>1. reply' \in [Clients -> Reply]
      BY Zenon, <1>1, <1>4, ReplyTypes DEF SlaveTypeOK
    <2>2. QED
      BY Zenon, <1>1, <1>4, <2>1 DEF SlaveTypeOK
  <1>5. ASSUME NEW c \in Clients, NoVote(c)
        PROVE  thread' \in [Clients -> Thread] /\ answer' \in [Clients -> AnswerType]
    BY Zenon, <1>2, <1>5, ThreadTypes DEF NoVote
  <1>6. ASSUME NEW c \in Clients, Contact(c) PROVE SlaveTypeOK' /\ Rest
    <2>1. \E m \in Message : Connect(Target(c), c, m)
      BY Zenon, <1>2, <1>3, <1>6, Messages DEF Contact, InTPC, Reading, Message
    <2>2. SlaveTypeOK'
      BY Zenon, <1>1, <1>2, <2>1, ConnectType
    <2>3. thread' \in [Clients -> Thread]
      BY Zenon, <1>6, ThreadTypes DEF Contact
    <2>4. QED
      BY Zenon, <1>1, <1>6, <2>2, <2>3 DEF Contact
  <1>7. ASSUME NEW c \in Clients, Unreachable(c) PROVE SlaveTypeOK' /\ Rest
    <2>1. SlaveTypeOK'
      BY Zenon, <1>4, <1>7 DEF Unreachable, slaveVars
    <2>2. thread' \in [Clients -> Thread] /\ answer' \in [Clients -> AnswerType]
      BY Zenon, <1>1, <1>5, <1>7, ThreadTypes DEF Unreachable
    <2>3. QED
      BY Zenon, <1>1, <1>7, <2>1, <2>2 DEF Unreachable
  <1>8. ASSUME NEW c \in Clients, Receive(c) PROVE SlaveTypeOK' /\ Rest
    <2>1. SlaveTypeOK'
      BY Zenon, <1>4, <1>8 DEF Receive
    <2>2. reply[c].type = "GETRESP" => reply[c] \in AnswerType
      BY Zenon, <1>1 DEF SlaveTypeOK, Reply, AnswerType
    <2>3. (thread[c].abort \/ Aborts(reply[c])) \in BOOLEAN
      BY Zenon, <1>2 DEF Aborts
    <2>4. thread' \in [Clients -> Thread] /\ answer' \in [Clients -> AnswerType]
      BY Zenon, <1>8, <2>2, <2>3, ThreadTypes DEF Receive
    <2>5. voted' \in [Clients -> SUBSET Slaves]
      <3>1. [voted EXCEPT ![c] = @ \cup {Target(c)}] \in [Clients -> SUBSET Slaves]
        BY Zenon, <1>1, <1>2
      <3>2. QED
        BY Zenon, <1>1, <1>8, <3>1 DEF Receive
    <2>6. QED
      BY Zenon, <1>1, <1>8, <2>1, <2>4, <2>5 DEF Receive
  <1>9. ASSUME NEW c \in Clients, Timeout(c) PROVE SlaveTypeOK' /\ Rest
    <2>1. SlaveTypeOK'
      BY Zenon, <1>1, <1>2, <1>9, GiveUpType DEF Timeout
    <2>2. thread' \in [Clients -> Thread] /\ answer' \in [Clients -> AnswerType]
      BY Zenon, <1>5, <1>9 DEF Timeout
    <2>3. budget' \in [requests : 0..MaxRequests, timeouts : 0..MaxTimeouts,
                       crashes : 0..MaxCrashes]
      <3>1. budget.timeouts < MaxTimeouts /\ budget' = [budget EXCEPT !.timeouts = @ + 1]
        BY Zenon, <1>9 DEF Timeout
      <3>2. QED
        BY <1>1, <3>1
    <2>4. QED
      BY Zenon, <1>1, <1>9, <2>1, <2>2, <2>3 DEF Timeout
  <1>10. ASSUME NEW c \in Clients, Reset(c) \/ MasterKilled(c) PROVE SlaveTypeOK' /\ Rest
    <2>1. SlaveTypeOK'
      BY Zenon, <1>4, <1>10 DEF Reset, MasterKilled, slaveVars
    <2>2. Reset(c) => thread' \in [Clients -> Thread] /\ answer' \in [Clients -> AnswerType]
      BY Zenon, <1>5 DEF Reset
    <2>3. QED
      BY Zenon, <1>1, <1>10, <2>1, <2>2 DEF Reset, MasterKilled
  <1>11. ASSUME NEW c \in Clients, NEW m \in Request \cup GetReq, Begin(c, m)
         PROVE  SlaveTypeOK' /\ Rest
    <2>1. SlaveTypeOK'
      BY Zenon, <1>4, <1>11 DEF Begin, slaveVars
    <2>2. [pc |-> IF m \in Request THEN "phase1" ELSE "get",
           req |-> m, at |-> 1, abort |-> FALSE] \in Thread
      <3>1. 1 \in 1..Len(Order)
        BY Zenon, Positions
      <3>2. QED
        BY Zenon, <3>1 DEF Thread
    <2>3. NoAnswer \in AnswerType
      BY Zenon DEF NoAnswer, AnswerType
    <2>4. budget' \in [requests : 0..MaxRequests, timeouts : 0..MaxTimeouts,
                       crashes : 0..MaxCrashes]
      <3>1. MoreRequests /\ budget' = [budget EXCEPT !.requests = @ + 1]
        BY Zenon, <1>11 DEF Begin
      <3>2. budget.requests < MaxRequests
        BY <1>1, <3>1 DEF MoreRequests
      <3>3. QED
        BY <1>1, <3>1, <3>2
    <2>5. thread' \in [Clients -> Thread] /\ answer' \in [Clients -> AnswerType]
          /\ voted' \in [Clients -> SUBSET Slaves]
      BY Zenon, <1>1, <1>11, <2>2, <2>3 DEF Begin
    <2>6. QED
      BY Zenon, <1>1, <1>11, <2>1, <2>4, <2>5 DEF Begin
  <1>12. ASSUME NEW s \in Slaves, SlaveRuns(s) \/ SlaveCrash(s) PROVE SlaveTypeOK' /\ Rest
    <2>1. SlaveTypeOK'
      BY Zenon, <1>1, <1>12, StepType, RestartType, CrashType
         DEF SlaveRuns, SlaveCrash
    <2>2. budget' \in [requests : 0..MaxRequests, timeouts : 0..MaxTimeouts,
                       crashes : 0..MaxCrashes]
      <3>1. CASE SlaveRuns(s)
        BY Zenon, <1>1, <3>1 DEF SlaveRuns
      <3>2. CASE SlaveCrash(s)
        <4>1. budget.crashes < MaxCrashes /\ budget' = [budget EXCEPT !.crashes = @ + 1]
          BY Zenon, <3>2 DEF SlaveCrash
        <4>2. QED
          BY <1>1, <4>1
      <3>3. QED
        BY Zenon, <1>12, <3>1, <3>2
    <2>3. QED
      BY Zenon, <1>1, <1>12, <2>1, <2>2 DEF SlaveRuns, SlaveCrash
  <1>13. CASE UNCHANGED vars
    BY Zenon, <1>13 DEF vars, slaveVars, masterVars, TypeOK, SlaveTypeOK
  <1>14. CASE Next
    <2>1. SlaveTypeOK' /\ Rest /\ Observe
      BY Zenon, <1>6, <1>7, <1>8, <1>9, <1>10, <1>11, <1>12, <1>14
         DEF Next, MasterNext, MasterStep, SlaveNext
    <2>2. OneWriter'
      BY Zenon, NextInv DEF Inv
    <2>3. seen' \in [Clients -> SUBSET (Values \cup {Absent})]
      BY Zenon, <2>1, <2>2, SeenType
    <2>4. QED
      BY Zenon, <2>1, <2>3 DEF TypeOK
  <1>15. QED
    BY Zenon, <1>13, <1>14

(* The invariant holds at the start, *)
LEMMA InitInv == Init => IInv
  <1> SUFFICES ASSUME Init PROVE IInv
    BY Zenon
  <1>1. TypeOK
    <2>1. SlaveTypeOK
      BY ReplyTypes DEF Init, SlaveInit, SlaveTypeOK, Store, EmptyStore
    <2>2. IdleThread \in Thread /\ NoAnswer \in AnswerType
      BY Zenon, Positions DEF IdleThread, Thread, NoAnswer, AnswerType
    <2>3. QED
      <3>1. 0 \in 0..MaxRequests /\ 0 \in 0..MaxTimeouts /\ 0 \in 0..MaxCrashes
        BY MasterAssumption
      <3>2. QED
        BY Zenon, <2>1, <2>2, <3>1 DEF Init, TypeOK
  <1>2. \A c \in Clients : /\ ~InTPC(c) /\ ~Reading(c) /\ ~Waits(c) /\ voted[c] = {}
                           /\ ~Phase1(c) /\ ~Phase2(c) /\ reply[c].type = "none"
    BY Zenon
       DEF Init, SlaveInit, IdleThread, InTPC, Reading, Waits, Phase1, Phase2,
           NoReply
  <1>3. \A s \in Slaves : /\ up[s] /\ job[s] = Idle /\ wq[s] = <<>> /\ log[s] = <<>>
                          /\ store[s] = EmptyStore /\ ~Waiting(s)
    BY Zenon DEF Init, SlaveInit, Waiting
  <1>4. InQ(<<>>) = {} /\ Alone(<<>>)
    BY Zenon, EmptyQueue
  <1>5. \A s \in Slaves : NoEntry(s) /\ Pending(s) = {}
    BY Zenon, <1>3, <1>4, PendingIs DEF NoEntry
  <1>6. SlavesInv
    <2>1. \A s \in Slaves : Clean(s)
      BY Zenon, <1>3, <1>5, Messages DEF Clean, LastEntry, IsRequest
    <2>2. QED
      BY Zenon, <1>2, <2>1 DEF SlavesInv
  <1>7. ConnInv
    BY Zenon, <1>2, <1>3, <1>4, <1>5 DEF ConnInv, Single, Connected
  <1>8. JobInv
    BY Zenon, <1>3, Fields DEF JobInv, JobOf
  <1>9. OneWriter
    BY Zenon, <1>2 DEF OneWriter
  <1>10. VotesInv
    BY Zenon, <1>2, <1>3 DEF VotesInv, VotesOf
  <1>11. AgreeInv
    <2>1. \A s \in Range(Order) : s \in Slaves
      BY Zenon, Positions
    <2>2. QED
      BY Zenon, <1>2, <1>3, <2>1 DEF AgreeInv
  <1>12. QED
    BY Zenon, <1>1, <1>6, <1>7, <1>8, <1>9, <1>10, <1>11 DEF IInv

(* and every step keeps it. *)
LEMMA NextIInv ==
  ASSUME ~Concurrent, Rebuilds
  PROVE  IInv /\ [Next]_vars => IInv'
  BY Zenon, NextType, NextInv DEF IInv, Inv

(* The invariant of a master that handles one transaction at a time, with  *)
(* slaves that rebuild their state when they restart.                      *)
THEOREM Invariance ==
  ASSUME ~Concurrent, Rebuilds
  PROVE  Spec => []IInv
  <1>1. Init => IInv
    BY Zenon, InitInv
  <1>2. IInv /\ [Next]_vars => IInv'
    BY Zenon, NextIInv
  <1>3. QED
    BY <1>1, <1>2, PTL DEF Spec

(* Types are correct. *)
THEOREM TypeCorrect ==
  ASSUME ~Concurrent, Rebuilds
  PROVE  Spec => []TypeOK
  <1>1. IInv => TypeOK
    BY Zenon DEF IInv
  <1>2. QED
    BY <1>1, Invariance, PTL

(* tpcmaster_handle_tpc sends COMMIT only with the votes of all slaves, as *)
(* long as every slave answers; a slave that has voted for a request is    *)
(* ready to apply it until it is told to, and has applied it once it has   *)
(* acknowledged the COMMIT, whatever crashes and restarts.                 *)
THEOREM VotesBindAlways ==
  ASSUME ~Concurrent, Rebuilds
  PROVE  Spec => []VotesBind
  <1>1. ASSUME IInv PROVE CommitNeedsAllVotes
    BY Zenon, <1>1
       DEF IInv, VotesInv, VotesOf, CommitNeedsAllVotes, CommitOnlyByConsensus,
           Phase2
  <1>2. ASSUME IInv, NEW c \in Clients, NEW n \in 1..Len(Order), Order[n] \in voted[c]
        PROVE  /\ \/ Phase1(c)
                  \/ thread[c].pc = "phase2" /\ n >= thread[c].at
                  => Ready(Order[n], thread[c].req)
               /\ Phase2(c) /\ n < thread[c].at /\ ~thread[c].abort
                  => Holds(store[Order[n]], thread[c].req)
    <2>1. n \in Int /\ thread[c].at \in Int
      BY Zenon, <1>2, Positions, Targets DEF IInv
    <2>2. InTPC(c) => InPhase(c, n)
      BY Zenon, <1>2 DEF IInv, SlavesInv
    <2>3. Undecided(c, Order[n]) => Ready(Order[n], thread[c].req)
      BY Zenon, <1>2 DEF Undecided, Bound
    <2>4. Decided(c, Order[n]) /\ ~thread[c].abort => Holds(store[Order[n]], thread[c].req)
      BY Zenon, <1>2 DEF Decided, Done
    <2>5. ASSUME Phase1(c) PROVE Ready(Order[n], thread[c].req)
      <3>1. InPhase(c, n) /\ ~Phase2(c)
        BY Zenon, <2>2, <2>5 DEF InTPC, Phase1, Phase2
      <3>2. n < thread[c].at
        BY Zenon, <1>2, <2>1, <2>5, <3>1, Compare DEF InPhase, Phase1, Asked
      <3>3. QED
        BY Zenon, <2>3, <2>5, <3>1, <3>2 DEF InPhase
    <2>6. ASSUME Phase2(c)
          PROVE  /\ thread[c].pc = "phase2" /\ n >= thread[c].at =>
                      Ready(Order[n], thread[c].req)
                 /\ n < thread[c].at /\ ~thread[c].abort =>
                      Holds(store[Order[n]], thread[c].req)
      <3>1. InPhase(c, n)
        BY Zenon, <2>2, <2>6 DEF InTPC, Phase2
      <3>2. QED
        BY Zenon, <2>1, <2>3, <2>4, <2>6, <3>1, Compare DEF InPhase
    <2>7. QED
      BY Zenon, <2>5, <2>6 DEF Phase2
  <1>3. IInv => VotersKeepPromise
    BY Zenon, <1>2 DEF VotersKeepPromise, Phase1, Phase2
  <1>4. IInv => VotesBind
    BY Zenon, <1>1, <1>3 DEF VotesBind
  <1>5. QED
    BY <1>4, Invariance, PTL

(* Whenever no PUTREQ or DELREQ is being handled all slaves of the master  *)
(* hold the same, however many receive timeouts have expired, as long as   *)
(* none has crashed.                                                       *)
THEOREM ReplicasAgreeAlways ==
  ASSUME ~Concurrent, Rebuilds
  PROVE  Spec => []ReplicasAgree
  <1>1. IInv => ReplicasAgree
    BY Zenon DEF IInv, AgreeInv, ReplicasAgree, NoWriter
  <1>2. QED
    BY <1>1, Invariance, PTL
=============================================================================

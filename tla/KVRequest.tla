----------------------------- MODULE KVRequest -----------------------------
(***************************************************************************)
(* The messages of the two-phase commit protocol (kvconstants.h,           *)
(* kvmessage.h) and what the requests among them do to a key-value store   *)
(* (kvserver.c).  Keys and values are abstract; all that is kept of their  *)
(* length is whether a value fits.                                         *)
(***************************************************************************)
CONSTANTS Keys, Values,
          TooLong,     \* the values longer than MAX_VALLEN
          Absent       \* what a store holds for a key it does not have

ASSUME RequestAssumption == TooLong \subseteq Values /\ Absent \notin Values

PutReq == [type : {"PUTREQ"}, key : Keys, value : Values]
DelReq == [type : {"DELREQ"}, key : Keys]
GetReq == [type : {"GETREQ"}, key : Keys]
Request == PutReq \cup DelReq
COMMIT == [type |-> "COMMIT"]
ABORT == [type |-> "ABORT"]

(* What tpclog_log accepts. *)
Entry == Request \cup {COMMIT, ABORT}
Message == Entry \cup GetReq

Store == [Keys -> Values \cup {Absent}]
EmptyStore == [k \in Keys |-> Absent]

(* kvserver_put_check, kvserver_del_check. *)
Check(st, r) ==
  IF r.type = "PUTREQ" THEN r.value \notin TooLong ELSE st[r.key] # Absent

(* kvserver_put and kvserver_del on the store: both check first. *)
Apply(st, r) ==
  IF r.type = "PUTREQ" /\ Check(st, r) THEN [st EXCEPT ![r.key] = r.value]
  ELSE IF r.type = "DELREQ" THEN [st EXCEPT ![r.key] = Absent]
  ELSE st
=============================================================================

---------------------------- MODULE MCEventStream ----------------------------
(***************************************************************************)
(* Two recording tasks; the command center's stream, whose reader may      *)
(* stall, and an employee's stream, whose reader takes what it is sent.    *)
(***************************************************************************)
EXTENDS EventStream

TwoWriters == {"run", "sweep"}
OpsAndChat == {"ops", "chat"}
OneFollows == [c \in OpsAndChat |-> IF c = "ops" THEN "all" ELSE "s1"]
ChatReads  == {"chat"}
OneEach    == [w \in TwoWriters |->
  IF w = "run"
  THEN {[session |-> "s1", type |-> "TOOL_CALLED", detail |-> "unlock_account"]}
  ELSE {[session |-> "s2", type |-> "ESCALATION_TRIGGERED", detail |-> "age"]}]
=============================================================================

-------------------------- MODULE SessionRefinement --------------------------
(***************************************************************************)
(* The session graph implements the session contract.  The stage is what   *)
(* the dispatcher may do with the graph next: a session is closed once its *)
(* row is terminal, whether or not the graph got to its end.  The outcome  *)
(* is the one the row shows, and permission and performance are those of   *)
(* the action_confirmations row that the state names.                      *)
(***************************************************************************)
EXTENDS SupportGraph

Stage ==
  CASE session_row.terminal_status # None -> "closed"
    [] session_row.terminal_status = None /\ phase = "idle" -> "open"
    [] session_row.terminal_status = None /\ phase = "paused" ->
         IF node = "confirmation_wait" THEN "confirming" ELSE "asking"
    [] OTHER -> "working"

Permission ==
  CASE confirmation.action = None -> None
    [] confirmation.action # None /\ confirmation.response = None -> "asked"
    [] OTHER -> confirmation.response

Contract == INSTANCE SessionContract WITH
  Outcomes   <- {"resolved", "approval_pending", "escalated", "failed"},
  stage      <- Stage,
  outcome    <- session_row.terminal_status,
  permission <- Permission,
  performed  <- confirmation.executions

(* Every behaviour of the graph is a behaviour of the contract: failing    *)
(* nodes, and crashes at any commit of a superstep, included.  A closed    *)
(* session stays closed with the outcome it closed with; an action is      *)
(* performed at most once for each time it was put to the employee, under  *)
(* the last answer to it, and that answer is final once work resumes; and  *)
(* lost work leaves no more permission than the employee gave.             *)
ImplementsContract == Contract!Spec
=============================================================================

---------------------------- MODULE SupportClaims ----------------------------
(***************************************************************************)
(* Statements that comments of the repository make of the session graph    *)
(* and that its code does not keep: a run for each finds the behaviour     *)
(* that breaks it.                                                         *)
(***************************************************************************)
EXTENDS SupportGraph

(* supervisor.py:308: "A pending unconfirmed requested_action must go      *)
(* through confirmation."  The answer to an earlier action counts for one  *)
(* the employee was never asked about.                                     *)
PendingActionConfirmed ==
  [][(SupervisorStep /\ requested_action # None /\ confirmation.action # requested_action)
       => node' \notin {"resolution", "resolution_verify_prepare"}]_vars

(* supervisor.py:268-272: a handoff "can never be silently downgraded into *)
(* a premature escalation or resolution", the budgets and the loop guard   *)
(* apart.  A question that may not be asked again is escalated before the  *)
(* pending handoff is looked for.                                          *)
HandoffNotDowngraded ==
  [][(SupervisorStep /\ HandoffPending)
       => node' = latest.target \/ HandoffStopped]_vars
=============================================================================

------------------------------ MODULE MCAgentRun ------------------------------
(* The security specialist, two steps, one retry: it asks for a safe       *)
(* write, a privileged tool of its catalog and a tool outside it.          *)
EXTENDS AgentRun

SomeAsked == {"flag_account_for_security_review", "revoke_active_sessions", "create_ticket"}

SomeAccounts == {"locked"}

SomeConfirmed == {"unlock_account", "update_ticket", Unknown}
=============================================================================

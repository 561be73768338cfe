------------------------------ MODULE ToolWorld ------------------------------
(***************************************************************************)
(* The tools and what their handlers do (tools/identity.py, endpoint.py,   *)
(* network.py, security.py, ticketing.py over tools/mockworld.py), and the *)
(* catalogue of each specialist (graph/specialists/specs.py).              *)
(*                                                                         *)
(* The world is that of one employee: every caller of execute_tool puts    *)
(* the session's employee into the parameters.  A handler over the mock    *)
(* world has no await in it: it is one step, and no timeout interrupts it. *)
(* The ticketing tools wait for the store and can be cut off before or     *)
(* after their transaction commits.                                        *)
(***************************************************************************)
EXTENDS Naturals

Catalogue ==
  [identity |-> {"get_account_status", "get_recent_auth_events",
                 "unlock_account", "reset_password", "revoke_sessions"},
   endpoint |-> {"get_device_details", "run_device_health_check", "check_disk_space",
                 "install_approved_software", "restart_managed_service"},
   network  |-> {"check_vpn_status", "run_connectivity_diagnostics", "check_dns",
                 "check_proxy", "inspect_recent_vpn_session"},
   security |-> {"get_recent_security_events", "get_recent_auth_events",
                 "revoke_active_sessions", "quarantine_device",
                 "flag_account_for_security_review", "notify_security_team"}]

TicketingTools == {"create_ticket", "get_ticket_status", "update_ticket",
                   "create_approval_request", "record_escalation"}

Tools == TicketingTools \cup UNION {Catalogue[s] : s \in DOMAIN Catalogue}

Privileged == {"unlock_account", "reset_password", "revoke_sessions",
               "revoke_active_sessions", "quarantine_device",
               "install_approved_software", "restart_managed_service"}

World == [account  : {"active", "locked"}, password : {"old", "reset"},
          sessions : {"open", "revoked"}, software : {"missing", "installed"},
          service  : {"untouched", "restarted"},
          flags    : SUBSET {"quarantined", "review"},
          team     : {"unaware", "notified"},   \* the security operations team
          filed    : Nat]                       \* what the ticketing tools wrote

(* A fresh profile: the account of one scenario is locked.                 *)
FreshWorld(account) ==
  [account |-> account, password |-> "old", sessions |-> "open", software |-> "missing",
   service |-> "untouched", flags |-> {}, team |-> "unaware", filed |-> 0]

(* Calls whose handler raises: an account that is not locked cannot be     *)
(* unlocked; the parameters may name a service or a ticket nobody knows.   *)
MayRaise(t, w) ==
  \/ t = "unlock_account" /\ w.account # "locked"
  \/ t \in {"restart_managed_service", "get_ticket_status", "update_ticket"}

MayWork(t, w) == ~(t = "unlock_account" /\ w.account # "locked")

Writes == {"create_ticket", "update_ticket", "create_approval_request", "record_escalation"}

After(t, w) ==
  CASE t = "unlock_account" -> [w EXCEPT !.account = "active"]
    [] t = "reset_password" -> [w EXCEPT !.password = "reset"]
    [] t \in {"revoke_sessions", "revoke_active_sessions"} -> [w EXCEPT !.sessions = "revoked"]
    [] t = "install_approved_software" -> [w EXCEPT !.software = "installed"]
    [] t = "restart_managed_service" -> [w EXCEPT !.service = "restarted"]
    [] t = "quarantine_device" -> [w EXCEPT !.flags = @ \cup {"quarantined"}]
    [] t = "flag_account_for_security_review" -> [w EXCEPT !.flags = @ \cup {"review"}]
    [] t = "notify_security_team" -> [w EXCEPT !.team = "notified"]
    [] t \in Writes -> [w EXCEPT !.filed = @ + 1]
    [] OTHER -> w
=============================================================================

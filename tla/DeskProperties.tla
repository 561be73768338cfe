--------------------------- MODULE DeskProperties ---------------------------
(***************************************************************************)
(* What TicketDesk keeps, and a statement of the repository that it does   *)
(* not keep.                                                               *)
(***************************************************************************)
EXTENDS TicketDesk

(* The ageing clock of a ticket runs only while the ticket waits, although *)
(* updates of one row interleave column by column (db/repos.py:188-193):   *)
(* a resolved ticket can never be found stale.                             *)
ClockMeansWaiting ==
  \A t \in Tickets : ticket[t].clock # Off => ticket[t].status \in Waiting

(* The action of an approval request runs at most once for each approval   *)
(* that was accepted, and never for another reason                         *)
(* (workflows/approval.py:148-183), whatever fails on the way.             *)
RunsGranted ==
  \A r \in Requests, p \in Processes :
    ran[r][p] <= IF p \in granted[r] THEN 1 ELSE 0

(* Unless a coroutine failed, a ticket that still waits for an approval    *)
(* when nobody is at work has a request that can still be decided:         *)
(* concurrent decisions, operators and sweeps leave no ticket waiting for  *)
(* a decision that was taken (workflows/approval.py:208-218).              *)
WaitsForSomeone ==
  failures = 0 /\ (\A p \in Processes : At(p, "idle")) =>
    \A t \in Tickets : ticket[t].status = "waiting_approval" =>
      \E r \in Requests : TicketOf[r] = t /\ request[r] = "pending"

(* A ticket with a recorded ageing escalation stays out of the sweep,      *)
(* whatever operators do with it later (db/repos.py:194-195, :226).        *)
EscalatedStaysOut ==
  \A t \in Tickets : events[t] > 0 => t \notin StaleTickets /\ ticket[t].escalated

(* Waiting past the threshold, in whole days, and not escalated yet.       *)
Neglected(t) ==
  ticket[t].status \in Waiting /\ ~ticket[t].escalated /\ Overdue(ticket[t])

(* A ticket that is overdue and unescalated does not stay so: the sweep    *)
(* gets to it whoever else works on tickets, and in spite of failures      *)
(* (workflows/escalation.py:242-250, main.py:34-44).                       *)
OverdueSettles == \A t \in Tickets : Neglected(t) ~> ~Neglected(t)

-----------------------------------------------------------------------------
(* tests/integration/test_approval_flow.py:142-161: a rejected request     *)
(* never executes.  Two approvers that decide at the same time each read   *)
(* "pending"; the last one to write is the decision on record              *)
(* (db/repos.py:294-301).                                                  *)
RejectedNeverExecutes ==
  \A r \in Requests : request[r] = "rejected" => \A p \in Processes : ran[r][p] = 0
=============================================================================

---------------------------- MODULE MCTicketDesk ----------------------------
(* Instances of TicketDesk for TLC: two coroutines that serve requests and *)
(* the sweep meet on one ticket, which an approval request is filed on.    *)
EXTENDS DeskProperties

CONSTANTS t1, r1, h1, h2

OneRequest == {r1}
OnTheTicket == [r \in OneRequest |-> t1]
TwoHandlers == {h1, h2}
=============================================================================

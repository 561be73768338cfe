--------------------------- MODULE MCSupportGraph ---------------------------
(***************************************************************************)
(* The instances of the session graph that TLC checks.  The specialists    *)
(* behave alike except for security (its escalations flag the session) and *)
(* endpoint (its questions may end in the hardware handoff); "network"     *)
(* stands for the other two.                                               *)
(***************************************************************************)
EXTENDS SupportClaims, SessionRefinement, TLC

CONSTANTS unlock_account, reset_mfa

OneSpecialist       == {"network"}
OnlySecurity        == {"security"}
WithSecurity        == {"network", "security"}
WithEndpoint        == {"endpoint", "network"}
SecurityAndEndpoint == {"endpoint", "security"}

NoActions  == {}
OneAction  == {unlock_account}
TwoActions == {unlock_account, reset_mfa}

(* No part of the model tells one action from another.                     *)
ActionSymmetry == Permutations(TwoActions)

PendingTicket == [status |-> "pending", security_related |-> FALSE]
ClosedTicket  == [status |-> "closed", security_related |-> TRUE]
NoTickets  == {}
OneTicket  == {PendingTicket}
TwoTickets == {PendingTicket, ClosedTicket}
=============================================================================

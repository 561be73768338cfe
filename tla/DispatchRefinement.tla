-------------------------- MODULE DispatchRefinement --------------------------
(***************************************************************************)
(* What SessionContract says of one session holds of each session that the *)
(* dispatcher serves: the session graph implements the contract with what  *)
(* happens inside a run, the dispatcher with what happens between runs.    *)
(* Permissions are a matter of the graph and do not appear here.           *)
(***************************************************************************)
EXTENDS Dispatcher

(* From the start of its run until its request is answered or has found    *)
(* what the run left, a request works on its session.                      *)
Serving(s) == \E c \in Calls : call[c].step \in {"invoke", "ticket", "fail"} /\ Session(c) = s

StageOf(s) ==
  IF Serving(s) THEN "working"
  ELSE CASE row[s].terminal # None -> "closed"
         [] row[s].terminal = None /\ Pending(s) # NoQuestion -> "asking"
         [] OTHER -> "open"

(* A run that raises may leave an outcome on the row that the fail-safe    *)
(* then writes over; it counts once no request works on the session.       *)
OutcomeOf(s) == IF Serving(s) THEN None ELSE row[s].terminal

Contract(s) == INSTANCE SessionContract WITH
  Outcomes   <- {"settled", "failed"},
  stage      <- StageOf(s),
  outcome    <- OutcomeOf(s),
  permission <- None,
  performed  <- 0

(* The one step that the contract does not have: the run ended well, the   *)
(* look at what it left fails, and the fail-safe takes the session up.     *)
TakenUpAgain(s) ==
  /\ StageOf(s) = "closed" /\ faults' > faults
  /\ \E c \in WorkingOn(s) : At(c, "inspect") /\ call'[c].step = "ticket"

(* A session on which no two requests met is served as the contract says,  *)
(* whatever fails: it closes once and is not entered again, an answer goes *)
(* to a session that asks, and a lost run leaves it open or asking         *)
(* (api/dispatcher.py:171-229).                                            *)
ServesTheContract ==
  [][\A s \in Calls : s \notin crowded' =>
       \/ UNCHANGED <<StageOf(s), OutcomeOf(s)>>
       \/ Contract(s)!Next
       \/ TakenUpAgain(s)]_vars
=============================================================================

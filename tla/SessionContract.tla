--------------------------- MODULE SessionContract ---------------------------
(***************************************************************************)
(* What a support session promises to its employee and to the people who   *)
(* read its row, whatever the supervisor, the specialists and the model do *)
(* inside (README.md, "How it works", and the docstring of graph/build.py).*)
(*                                                                         *)
(* A session takes a message, works on it, may ask and wait, and closes    *)
(* once.  A privileged action is prepared, put to the employee, allowed or *)
(* declined by the last answer given before work resumes, and performed at *)
(* most once for each time it was prepared, only while allowed.  Lost work *)
(* leaves the session open for another message or the question open for    *)
(* another answer; a permission already acted on is never rewritten.       *)
(***************************************************************************)
EXTENDS Naturals

CONSTANT Outcomes   \* how a session may close

None == "none"

VARIABLES
  stage,       \* "open": takes a message; "working"; "asking" a question;
               \* "confirming" an action; "closed"
  outcome,     \* how it closed
  permission,  \* of the action last prepared: "asked", "yes" or "no"
  performed    \* how often that action was performed

vars == <<stage, outcome, permission, performed>>

Init ==
  /\ stage = "open" /\ outcome = None
  /\ permission = None /\ performed = 0

Receive ==
  /\ stage = "open" /\ stage' = "working"
  /\ UNCHANGED <<outcome, permission, performed>>

Prepare ==
  /\ stage = "working" /\ UNCHANGED <<stage, outcome>>
  /\ permission' = "asked" /\ performed' = 0

Ask ==
  /\ stage = "working" /\ stage' = "asking"
  /\ UNCHANGED <<outcome, permission, performed>>

AskPermission ==
  /\ stage = "working" /\ permission = "asked" /\ stage' = "confirming"
  /\ UNCHANGED <<outcome, permission, performed>>

Answer ==
  /\ stage = "asking" /\ stage' = "working"
  /\ UNCHANGED <<outcome, permission, performed>>

(* The decision is taken down; when the work it starts is lost at once,    *)
(* the question stays open and the next decision takes its place.          *)
Decide ==
  /\ stage = "confirming" /\ stage' \in {"working", "confirming"}
  /\ permission' \in {"yes", "no"}
  /\ UNCHANGED <<outcome, performed>>

(* Work, or the taking down of an answer, closes the session.              *)
Close(o) ==
  /\ stage \in {"working", "asking", "confirming"} /\ stage' = "closed"
  /\ outcome' = o
  /\ permission' \in {permission} \cup (IF stage = "confirming" THEN {"yes", "no"} ELSE {})
  /\ UNCHANGED performed

(* The process dies; the employee has to write again.                      *)
Lose ==
  /\ stage = "working" /\ stage' = "open"
  /\ UNCHANGED <<outcome, permission, performed>>

(* The action may be the last thing a session does before it is lost or    *)
(* fails.                                                                  *)
Perform ==
  /\ stage = "working" /\ permission = "yes" /\ performed = 0
  /\ performed' = 1
  /\ \/ stage' \in {"working", "open"} /\ UNCHANGED outcome
     \/ stage' = "closed" /\ outcome' \in Outcomes
  /\ UNCHANGED permission

Next ==
  \/ Receive \/ Prepare \/ Ask \/ AskPermission \/ Answer \/ Decide \/ Lose \/ Perform
  \/ \E o \in Outcomes : Close(o)

Spec == Init /\ [][Next]_vars
=============================================================================

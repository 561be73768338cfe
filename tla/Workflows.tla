------------------------------ MODULE Workflows ------------------------------
(***************************************************************************)
(* The other nodes of the graph: ingestion of a message, the specialists   *)
(* (graph/specialists/runner.py) and the workflows (graph/workflows/).     *)
(* One action per node; the edges are those of graph/build.py.  A wait     *)
(* node runs twice: it reaches its interrupt and pauses the invocation,    *)
(* and a later invocation resumes it with the employee's reply.            *)
(***************************************************************************)
EXTENDS SupportState

-----------------------------------------------------------------------------
\* ingest: a fresh message, one that answers no interrupt.

ingest_node ==
  /\ Run("ingest") /\ GoTo("supervisor")
  /\ NewTurn
  /\ employee_confirmation' = None
  /\ UNCHANGED <<information_request_count, evidence, requested_action,
                 privilege_check, confirmation, claims, records>>

-----------------------------------------------------------------------------
\* The specialists.

Ran(s) ==
  /\ previous_agents' = previous_agents \cup {s}
  /\ last_agent' = s

(* A validated result: a handoff names its target, a required approval its *)
(* action, a recommended resolution its summary.                           *)
SpecialistResult(s, outcome, target, action, news) ==
  /\ (outcome = "handoff_recommended") <=> (target # None)
  /\ outcome = "approval_required" => action # None
  /\ latest' = [agent |-> s, outcome |-> outcome, target |-> target]
  /\ flagged' = (flagged \/ (s = "security" /\ outcome = "escalation_required"))
  /\ fix' = IF outcome = "resolution_recommended" THEN "offered" ELSE fix
  /\ requested_action' = IF action # None THEN action ELSE requested_action
  /\ decision_signatures' = IF news THEN NoSignatures ELSE decision_signatures
  /\ awaiting_resolution_confirmation' = FALSE
  /\ resolution_confirmation_answer' = None
  /\ resolution_confirmed' = None
  /\ UNCHANGED <<last_failure, resolution_candidate>>

SpecialistFailed(failure) ==
  /\ last_failure' = failure
  /\ UNCHANGED <<latest, flagged, requested_action, decision_signatures, claims>>

run_specialist(s) ==
  /\ Run(s) /\ GoTo("supervisor")
  /\ Ran(s)
  /\ \/ \E outcome \in Outcomes, target \in Maybe(Specialists),
           action \in Maybe(Actions), news \in BOOLEAN :
          SpecialistResult(s, outcome, target, action, news)
     \/ \E failure \in {"structured_output", "budget_exhausted"} : SpecialistFailed(failure)
  /\ UNCHANGED <<turn, information_request_count, category, privilege_check,
                 employee_confirmation, confirmation, records>>

-----------------------------------------------------------------------------
\* Interrupts and replies.

interrupt(n) ==
  /\ Run(n)
  /\ phase' = "paused"
  /\ UNCHANGED <<node, budgets, evidence, consent, claims, records>>

(* The reply resumes the interrupted node in a new invocation.             *)
Reply(n) ==
  /\ phase = "paused" /\ node = n /\ TakesMessage
  /\ steps' = 1 /\ UNCHANGED crashes
  /\ NewTurn
  /\ RowStatus("active")
  /\ UNCHANGED <<information_request_count, evidence, requested_action, privilege_check,
                 resolution_candidate, escalation_trigger, ticket, approval, remembered>>

(* Mutant: the row is not updated before the interrupt.                    *)
ShownAsActive == UNCHANGED session_row

ShowWaiting == RowStatus("waiting_employee")

ask_prepare ==
  /\ Run("ask_prepare") /\ GoTo("ask_wait")
  /\ information_request_count' = information_request_count + 1
  /\ ShowWaiting
  /\ UNCHANGED <<turn, decision_signatures, evidence, consent, claims,
                 escalation_trigger, ticket, approval, remembered>>

ask_wait ==
  /\ Reply("ask_wait") /\ GoTo("supervisor")
  /\ UNCHANGED <<employee_confirmation, confirmation, verdict, fix>>

(* "How the fix went" is what the employee said of the candidate they were *)
(* shown; nothing in the program records it.                               *)
resolution_verify_wait(answer) ==
  /\ Reply("resolution_verify_wait") /\ GoTo("supervisor")
  /\ awaiting_resolution_confirmation' = TRUE
  /\ resolution_confirmation_answer' = answer
  /\ resolution_confirmed' = None
  /\ fix' = IF answer = "negative" /\ resolution_candidate = "summary" THEN "refused" ELSE fix
  /\ UNCHANGED <<employee_confirmation, confirmation>>

(* The row takes whichever answer comes last.                              *)
respond_confirmation(answer) == confirmation' = [confirmation EXCEPT !.response = answer]

confirmation_wait(answer) ==
  /\ Reply("confirmation_wait")
  /\ GoTo(IF answer = "yes" THEN "execute_action" ELSE "supervisor")
  /\ respond_confirmation(answer)
  /\ employee_confirmation' = answer
  /\ UNCHANGED <<verdict, fix>>

-----------------------------------------------------------------------------
\* The privileged-action pipeline.

(* Mutant: an approver is looked up whatever the verdict.                  *)
AnyApprover == [action : {requested_action}, approver : BOOLEAN,
                verdict : {"granted", "eligible", "denied", "unavailable"}]

(* has_privilege: the directory's answer about the requested action; an    *)
(* approver is looked up only for an employee who is eligible.             *)
Checks ==
  [action : {requested_action}, approver : {FALSE},
   verdict : {"granted", "denied", "unavailable"}]
    \cup [action : {requested_action}, approver : BOOLEAN, verdict : {"eligible"}]

(* Mutant: the node waits for an action instead of going back.             *)
WaitForAnAction ==
  /\ requested_action = None
  /\ GoTo("confirmation_prepare")
  /\ UNCHANGED <<privilege_check, confirmation, escalation_trigger, session_row>>

NothingToConfirm ==
  /\ requested_action = None
  /\ GoTo("supervisor")
  /\ UNCHANGED <<privilege_check, confirmation, escalation_trigger, session_row>>

(* Mutant: eligibility is taken for a grant.                               *)
AskWhenEligible ==
  /\ privilege_check'.verdict \in {"granted", "eligible"}
  /\ GoTo("confirmation_wait")
  /\ confirmation' = [NoConfirmation EXCEPT !.action = requested_action]
  /\ ShowWaiting
  /\ UNCHANGED escalation_trigger

(* Mutant: the row of an earlier question is asked again.                  *)
OldConfirmationReused ==
  /\ privilege_check'.verdict = "granted"
  /\ GoTo("confirmation_wait")
  /\ confirmation' = [confirmation EXCEPT !.action = requested_action]
  /\ ShowWaiting
  /\ UNCHANGED escalation_trigger

AskConfirmation ==
  /\ privilege_check'.verdict = "granted"
  /\ GoTo("confirmation_wait")
  /\ confirmation' = [NoConfirmation EXCEPT !.action = requested_action]
  /\ ShowWaiting
  /\ UNCHANGED escalation_trigger

SeekApproval ==
  /\ privilege_check'.verdict = "eligible"
  /\ GoTo("approval")
  /\ UNCHANGED <<confirmation, escalation_trigger, session_row>>

RefuseAction ==
  /\ privilege_check'.verdict \in {"denied", "unavailable"}
  /\ GoTo("escalation")
  /\ escalation_trigger' =
       IF privilege_check'.verdict = "denied" THEN "out_of_scope" ELSE "infrastructure"
  /\ UNCHANGED <<confirmation, session_row>>

CheckedAction ==
  /\ requested_action # None
  /\ privilege_check' \in Checks
  /\ AskConfirmation \/ SeekApproval \/ RefuseAction

confirmation_prepare ==
  /\ Run("confirmation_prepare")
  /\ NothingToConfirm \/ CheckedAction
  /\ UNCHANGED <<budgets, evidence, requested_action, employee_confirmation, claims,
                 ticket, approval, remembered>>

Executed == confirmation' = [confirmation EXCEPT !.executions = @ + 1]

ActionSucceeded ==
  /\ GoTo(IF RequireConfirmation THEN "resolution_verify_prepare" ELSE "resolution")
  /\ resolution_candidate' = "action"
  /\ requested_action' = None
  /\ UNCHANGED escalation_trigger

ActionFailed ==
  /\ GoTo("escalation")
  /\ escalation_trigger' = "infrastructure"
  /\ UNCHANGED <<resolution_candidate, requested_action>>

execute_action ==
  /\ Run("execute_action")
  /\ Executed
  /\ ActionSucceeded \/ ActionFailed
  /\ UNCHANGED <<budgets, evidence, privilege_check, employee_confirmation, verdict, fix,
                 ticket, approval, session_row, remembered>>

-----------------------------------------------------------------------------
\* A proposed resolution is put to the employee.

(* compose_resolution_candidate: the latest recommended resolution of the  *)
(* whole session, else a digest of the findings or a stock phrase.         *)
compose_resolution_candidate == IF fix # None THEN "summary" ELSE "other"

resolution_verify_prepare ==
  /\ Run("resolution_verify_prepare") /\ GoTo("resolution_verify_wait")
  /\ resolution_candidate' =
       IF resolution_candidate # None THEN resolution_candidate ELSE compose_resolution_candidate
  /\ awaiting_resolution_confirmation' = TRUE
  /\ resolution_confirmation_answer' = None
  /\ resolution_confirmed' = None
  /\ ShowWaiting
  /\ UNCHANGED <<budgets, evidence, consent, fix, escalation_trigger, ticket, approval, remembered>>

-----------------------------------------------------------------------------
\* The terminal workflows: a ticket where one is needed, then the session is
\* finalized.

(* build_session_memory: a resolved, memorable request is remembered with  *)
(* the latest resolution_summary of its session.                           *)
SessionMemories == {None, fix}

MemoryWritten == remembered' \in SessionMemories

ClosedRow(terminal, status) == [status |-> status, terminal_status |-> terminal]

finalize_session(terminal, status) ==
  /\ phase' = "ended" /\ UNCHANGED node
  /\ session_row' = ClosedRow(terminal, status)
  /\ IF terminal = "resolved" THEN MemoryWritten ELSE UNCHANGED remembered
  /\ UNCHANGED <<budgets, evidence, consent, claims>>

(* update_ticket_status on the ticket the state names, or create_ticket.   *)
TicketAt(status, security) ==
  IF ticket = NoTicket
  THEN [status |-> status, security_related |-> security]
  ELSE [ticket EXCEPT !.status = status]

resolution_node ==
  /\ Run("resolution")
  /\ ticket' = IF ticket = NoTicket /\ ~TicketForResolved
               THEN ticket
               ELSE TicketAt("resolved", category = "security")
  /\ finalize_session("resolved", "completed")
  /\ UNCHANGED <<escalation_trigger, approval>>

close_direct_node ==
  /\ Run("close_direct")
  /\ finalize_session("resolved", "completed")
  /\ UNCHANGED <<escalation_trigger, ticket, approval>>

ToEscalation(trigger) ==
  /\ GoTo("escalation")
  /\ escalation_trigger' = trigger
  /\ UNCHANGED <<budgets, evidence, consent, claims, approval, session_row, remembered>>

NothingToApprove ==
  /\ requested_action = None
  /\ ToEscalation("out_of_scope")
  /\ UNCHANGED ticket

(* The directory names no approver, or does not answer.                    *)
ApproverUnresolved ==
  /\ requested_action # None
  /\ ToEscalation("infrastructure")
  /\ UNCHANGED ticket

(* The approver an earlier check found is taken as it is.                  *)
create_approval_request ==
  approval' = [action |-> requested_action,
               approver_for |-> IF privilege_check.approver
                                THEN privilege_check.action ELSE requested_action]

RequestApproval ==
  /\ requested_action # None
  /\ ticket' = TicketAt("waiting_approval", category = "security")
  /\ create_approval_request
  /\ finalize_session("approval_pending", "waiting_approval")
  /\ UNCHANGED escalation_trigger

approval_node ==
  /\ Run("approval")
  /\ NothingToApprove \/ ApproverUnresolved \/ RequestApproval

(* Mutant: the escalation leaves the ticket as it was.                     *)
TicketForgotten == UNCHANGED ticket

EscalateTicket ==
  ticket' = TicketAt("escalated", category = "security" \/ escalation_trigger = "security")

escalation_node ==
  /\ Run("escalation")
  /\ EscalateTicket
  /\ finalize_session("escalated", "escalated")
  /\ UNCHANGED <<escalation_trigger, approval>>

Waiting == {"pending", "waiting_approval"}

(* The employee's question is answered, about one of their tickets or not. *)
AnswerTicketStatus ==
  /\ GoTo("close_direct")
  /\ ticket' \in {ticket} \cup EmployeeTickets
  /\ UNCHANGED <<budgets, evidence, consent, claims, escalation_trigger, approval,
                 session_row, remembered>>

(* One ticket was meant, and it has been pending for too long.             *)
EscalateStaleTicket ==
  /\ ticket' \in {t \in EmployeeTickets : t.status \in Waiting}
  /\ ToEscalation("pending_age")

ticket_status_node ==
  /\ Run("ticket_status")
  /\ AnswerTicketStatus \/ EscalateStaleTicket

-----------------------------------------------------------------------------
WaitReply ==
  \/ ask_wait
  \/ \E answer \in {"yes", "no"} : confirmation_wait(answer)
  \/ \E answer \in {"negative", "other"} : resolution_verify_wait(answer)
=============================================================================

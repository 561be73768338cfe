---------------------------- MODULE SupportState ----------------------------
(***************************************************************************)
(* The shared state of one support session (graph/state.py) as the nodes   *)
(* of the LangGraph state machine see it, and the rows of the operational  *)
(* store that the nodes of this one session write (db/models.py).          *)
(*                                                                         *)
(* Text is abstracted to what the code decides on: a question is "the same *)
(* as an earlier one" or not, a reply is "clearly negative" or not, a list *)
(* of findings grows or does not.                                          *)
(***************************************************************************)
EXTENDS Naturals, FiniteSets

CONSTANTS
  Specialists,              \* SPECIALIST_NAMES, or the part of it under study
  Actions,                  \* privileged actions a specialist may request
  MaxSupervisorCycles,      \* settings.max_supervisor_cycles
  MaxAgentHandoffs,         \* settings.max_agent_handoffs
  LoopSignatureRepeatLimit, \* settings.loop_signature_repeat_limit
  MaxInformationRequests,   \* settings.max_information_requests
  RequireConfirmation,      \* settings.require_employee_resolution_confirmation
  TicketForResolved,        \* settings.create_ticket_for_resolved_sessions
  EmployeeTickets,          \* tickets the employee may ask about
  Strays,                   \* bound: what a decision may name in a field that
                            \* its kind does not use
  MaxTurns,                 \* bound: employee messages in one session, one
                            \* more for each message that a crash cost
  MaxCrashes                \* bound: times the process dies during a run

None == "none"

Workflows == {"resolution", "confirmation", "approval", "escalation",
              "need_info", "ticket_status"}

Categories == Specialists \cup {"ticketing", "other"}

WaitNodes == {"ask_wait", "confirmation_wait", "resolution_verify_wait"}

WorkflowNodes == {"ask_prepare", "confirmation_prepare", "execute_action",
                  "resolution_verify_prepare", "resolution", "close_direct",
                  "approval", "escalation", "ticket_status"} \cup WaitNodes

Nodes == {"ingest", "supervisor"} \cup Specialists \cup WorkflowNodes

Outcomes == {"resolution_recommended", "need_more_information",
             "handoff_recommended", "approval_required",
             "escalation_required", "unable_to_resolve"}

(* The facts about the constants that the code guarantees.                 *)
ASSUME SpecialistsAssumption ==
  /\ Specialists \subseteq {"identity", "endpoint", "network", "security"}
  /\ None \notin Actions
  /\ Strays \subseteq Specialists \cup Workflows

ASSUME LimitsAssumption ==
  /\ MaxSupervisorCycles \in Nat /\ MaxAgentHandoffs \in Nat
  /\ LoopSignatureRepeatLimit \in Nat /\ MaxInformationRequests \in Nat
  /\ RequireConfirmation \in BOOLEAN /\ TicketForResolved \in BOOLEAN
  /\ MaxTurns \in Nat /\ MaxCrashes \in Nat

VARIABLES
  \* The invocation of the graph.
  phase,       \* "idle": no run and no pending interrupt; "running"; "paused"
               \* at an interrupt; "ended" at END; "failed" by the fail-safe
  node,        \* the node that runs next (or that is interrupted)
  steps,       \* supersteps of the current invocation
  crashes,     \* times the process died
  \* Budgets and loop detection.
  turn_index, supervisor_cycle_count, handoff_count,
  information_request_count,
  decision_signatures,   \* how often each signature of this turn and of the
                         \* present evidence was decided (older ones, which
                         \* no later signature can equal, are dropped)
  \* Routing and investigation.
  category,
  previous_agents,       \* the members of the list, and its last element
  last_agent,
  latest,                \* specialist_results[-1]
  flagged,               \* some security result said escalation_required
  last_failure,          \* agent_failures[-1].failure_type
  \* The privileged-action pipeline.
  requested_action, privilege_check, employee_confirmation,
  confirmation,          \* the action_confirmations row confirmation_id names
  \* Verification of a resolution by the employee.
  awaiting_resolution_confirmation, resolution_confirmation_answer,
  resolution_confirmed, resolution_candidate,
  fix,                   \* the latest resolution_summary: none, offered, or
                         \* refused by the employee after trying it
  \* What the session leaves in the operational store.
  escalation_trigger, ticket, approval, session_row, remembered

run      == <<phase, node, steps, crashes>>
turn     == <<turn_index, supervisor_cycle_count, handoff_count>>
budgets  == <<turn, information_request_count, decision_signatures>>
evidence == <<category, previous_agents, last_agent, latest, flagged, last_failure>>
consent  == <<requested_action, privilege_check, employee_confirmation, confirmation>>
verdict  == <<awaiting_resolution_confirmation, resolution_confirmation_answer,
              resolution_confirmed>>
claims   == <<verdict, resolution_candidate, fix>>
records  == <<escalation_trigger, ticket, approval, session_row, remembered>>
vars     == <<run, budgets, evidence, consent, claims, records>>

-----------------------------------------------------------------------------

NoResult       == [agent |-> None, outcome |-> None, target |-> None]
NoCheck        == [action |-> None, verdict |-> None, approver |-> FALSE]
NoConfirmation == [action |-> None, response |-> None, executions |-> 0]
NoTicket       == [status |-> None, security_related |-> FALSE]
NoApproval     == [action |-> None, approver_for |-> None]
NoSignatures   == [signature \in {} |-> 0]

Maybe(S) == S \cup {None}

Result == [agent : Maybe(Specialists), outcome : Maybe(Outcomes), target : Maybe(Specialists)]

Check == [action : Maybe(Actions), approver : BOOLEAN,
          verdict : {None, "granted", "eligible", "denied", "unavailable"}]

Confirmation == [action : Maybe(Actions), response : {None, "yes", "no"}, executions : Nat]

Ticket == [status : {None, "open", "pending", "in_progress", "waiting_approval",
                     "escalated", "resolved", "closed"},
           security_related : BOOLEAN]

ASSUME TicketsAssumption == EmployeeTickets \subseteq {t \in Ticket : t.status # None}

Approval == [action : Maybe(Actions), approver_for : Maybe(Actions)]

SessionRow == [status : {"active", "waiting_employee", "waiting_approval",
                         "completed", "escalated", "failed"},
               terminal_status : {None, "resolved", "approval_pending", "escalated", "failed"}]

DecisionKinds == {"route_to_specialist", "ask_employee", "run_workflow", "close_session"}

Signatures == DecisionKinds \X Maybe(Specialists \cup Workflows) \X Maybe(Outcomes)

RunTypes ==
  /\ phase \in {"idle", "running", "paused", "ended", "failed"}
  /\ node \in Nodes /\ steps \in Nat /\ crashes \in Nat

BudgetTypes ==
  /\ turn_index \in Nat /\ supervisor_cycle_count \in Nat /\ handoff_count \in Nat
  /\ information_request_count \in Nat
  /\ DOMAIN decision_signatures \subseteq Signatures
  /\ \A s \in DOMAIN decision_signatures : decision_signatures[s] \in Nat

EvidenceTypes ==
  /\ category \in Maybe(Categories)
  /\ previous_agents \subseteq Specialists /\ last_agent \in Maybe(Specialists)
  /\ latest \in Result /\ flagged \in BOOLEAN
  /\ last_failure \in {None, "structured_output", "budget_exhausted"}

ConsentTypes ==
  /\ requested_action \in Maybe(Actions) /\ privilege_check \in Check
  /\ employee_confirmation \in {None, "yes", "no"} /\ confirmation \in Confirmation

ClaimTypes ==
  /\ awaiting_resolution_confirmation \in BOOLEAN
  /\ resolution_confirmation_answer \in {None, "negative", "other"}
  /\ resolution_confirmed \in {None, "yes", "no"}
  /\ resolution_candidate \in {None, "summary", "action", "other"}
  /\ fix \in {None, "offered", "refused"}

RecordTypes ==
  /\ escalation_trigger \in {None, "budget_exhausted", "loop_guard", "security",
       "agent_recommendation", "structured_output_failure", "infrastructure",
       "out_of_scope", "pending_age"}
  /\ ticket \in Ticket /\ approval \in Approval /\ session_row \in SessionRow
  /\ remembered \in {None, "offered", "refused"}

TypeOK ==
  /\ RunTypes /\ BudgetTypes /\ EvidenceTypes
  /\ ConsentTypes /\ ClaimTypes /\ RecordTypes

Init ==
  /\ phase = "idle" /\ node = "ingest" /\ steps = 0 /\ crashes = 0
  /\ turn_index = 0 /\ supervisor_cycle_count = 0 /\ handoff_count = 0
  /\ information_request_count = 0 /\ decision_signatures = NoSignatures
  /\ category = None /\ previous_agents = {} /\ last_agent = None
  /\ latest = NoResult /\ flagged = FALSE /\ last_failure = None
  /\ requested_action = None /\ privilege_check = NoCheck
  /\ employee_confirmation = None /\ confirmation = NoConfirmation
  /\ awaiting_resolution_confirmation = FALSE
  /\ resolution_confirmation_answer = None /\ resolution_confirmed = None
  /\ resolution_candidate = None /\ fix = None
  /\ escalation_trigger = None /\ ticket = NoTicket /\ approval = NoApproval
  /\ session_row = [status |-> "active", terminal_status |-> None]
  /\ remembered = None

-----------------------------------------------------------------------------

(* Mutant: the backstop forgets the workflow nodes of a cycle.             *)
RecursionLimitTooTight == MaxSupervisorCycles * 2

(* The backstop the dispatcher passes to LangGraph: one invocation may run *)
(* this many supersteps before GraphRecursionError.                        *)
RecursionLimit == MaxSupervisorCycles * 6 + 20

(* One superstep of the running invocation executes node n.                *)
Run(n) ==
  /\ phase = "running" /\ node = n /\ steps < RecursionLimit
  /\ steps' = steps + 1
  /\ UNCHANGED crashes

GoTo(n) == phase' = "running" /\ node' = n

(* A new employee message was merged: turn_index moves on and the per-turn *)
(* budgets start again. Signatures carry turn_index, so none of the old    *)
(* ones can be repeated.                                                   *)
NewTurn ==
  /\ turn_index' = turn_index + 1
  /\ supervisor_cycle_count' = 0
  /\ handoff_count' = 0
  /\ decision_signatures' = NoSignatures

(* Mutant: the status is written to the other column.                      *)
TerminalStatusWritten(status) ==
  session_row' = [session_row EXCEPT !.terminal_status = status]

RowStatus(status) == session_row' = [session_row EXCEPT !.status = status]

(* continue_session refuses a message to a session whose row is terminal.  *)
TakesMessage ==
  /\ session_row.terminal_status = None
  /\ turn_index < MaxTurns + crashes
=============================================================================

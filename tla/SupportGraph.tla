----------------------------- MODULE SupportGraph -----------------------------
(***************************************************************************)
(* One support session: the compiled graph (graph/build.py) driven by the  *)
(* dispatcher (api/dispatcher.py).  A first message, or one that finds no  *)
(* pending interrupt, starts a run at ingest; a reply resumes the          *)
(* interrupted node; an exception in any node is turned into the fail-safe *)
(* escalation; the process may die at any commit of a superstep.           *)
(***************************************************************************)
EXTENDS Supervisor, Workflows

(* Mutant: a dead run is resumed where it stopped, as ainvoke(None) would. *)
StartRunWhereItStopped ==
  /\ phase = "idle" /\ TakesMessage
  /\ GoTo(node) /\ steps' = 0 /\ UNCHANGED crashes
  /\ RowStatus("active")
  /\ UNCHANGED <<budgets, evidence, consent, claims, escalation_trigger, ticket,
                 approval, remembered>>

(* A new input abandons whatever the last checkpoint still had to run.     *)
StartRun ==
  /\ phase = "idle" /\ TakesMessage
  /\ GoTo("ingest") /\ steps' = 0 /\ UNCHANGED crashes
  /\ RowStatus("active")
  /\ UNCHANGED <<budgets, evidence, consent, claims, escalation_trigger, ticket,
                 approval, remembered>>

(* The supersteps of a run, as the nodes and edges of build_graph.         *)
GraphStep ==
  \/ ingest_node
  \/ supervisor_node
  \/ \E s \in Specialists : run_specialist(s)
  \/ ask_prepare
  \/ confirmation_prepare
  \/ execute_action
  \/ resolution_verify_prepare
  \/ \E n \in WaitNodes : interrupt(n)
  \/ ticket_status_node
  \/ resolution_node
  \/ close_direct_node
  \/ approval_node
  \/ escalation_node

-----------------------------------------------------------------------------
\* A superstep that does not reach its checkpoint: the process dies in it, or
\* a call of the node raises.  The rows the node committed before stay: a
\* prefix of its writes, the session row (row) the last of them.  A ticket it
\* created is named by no state; "ticket" is the one the state names.

(* An invocation runs, or a reply resumes the interrupted node.            *)
Invoked == phase = "running" \/ (phase = "paused" /\ TakesMessage)

StatusNow(status) == [session_row EXCEPT !.status = status]

TicketMoved(status) ==
  ticket' = IF ticket = NoTicket THEN ticket ELSE [ticket EXCEPT !.status = status]

RowsLeft ==
  {session_row, StatusNow("active"), StatusNow("waiting_employee"),
   ClosedRow("resolved", "completed"), ClosedRow("escalated", "escalated"),
   ClosedRow("approval_pending", "waiting_approval")}

NothingWritten(row) ==
  /\ row = session_row
  /\ UNCHANGED <<confirmation, ticket, approval, remembered>>

QuestionWritten(row) ==
  /\ node \in {"ask_prepare", "confirmation_prepare", "resolution_verify_prepare"}
  /\ node = "confirmation_prepare" => requested_action # None
  /\ row = StatusNow("waiting_employee")
  /\ UNCHANGED <<confirmation, ticket, approval, remembered>>

(* The interrupt stays pending: the next reply is recorded over this one.  *)
ReplyWritten(row) ==
  /\ phase = "paused" /\ row \in {session_row, StatusNow("active")}
  /\ IF node = "confirmation_wait"
     THEN \E answer \in {"yes", "no"} : respond_confirmation(answer)
     ELSE UNCHANGED confirmation
  /\ UNCHANGED <<ticket, approval, remembered>>

ActionWritten(row) ==
  /\ node = "execute_action" /\ row = session_row
  /\ Executed
  /\ UNCHANGED <<ticket, approval, remembered>>

ResolutionWritten(row) ==
  /\ node \in {"resolution", "close_direct"}
  /\ IF node = "resolution" THEN TicketMoved("resolved") ELSE UNCHANGED ticket
  /\ \/ row = session_row /\ UNCHANGED remembered
     \/ row \in {session_row, ClosedRow("resolved", "completed")} /\ MemoryWritten
  /\ UNCHANGED <<confirmation, approval>>

ApprovalWritten(row) ==
  /\ node = "approval" /\ requested_action # None
  /\ TicketMoved("waiting_approval")
  /\ \/ row = session_row /\ UNCHANGED approval
     \/ /\ row \in {session_row, ClosedRow("approval_pending", "waiting_approval")}
        /\ create_approval_request
  /\ UNCHANGED <<confirmation, remembered>>

EscalationWritten(row) ==
  /\ node = "escalation"
  /\ TicketMoved("escalated")
  /\ row \in {session_row, ClosedRow("escalated", "escalated")}
  /\ UNCHANGED <<confirmation, approval, remembered>>

Interrupted(row) ==
  /\ Invoked
  /\ \/ NothingWritten(row) \/ QuestionWritten(row) \/ ReplyWritten(row)
     \/ ActionWritten(row) \/ ResolutionWritten(row) \/ ApprovalWritten(row)
     \/ EscalationWritten(row)
  /\ UNCHANGED <<node, steps, budgets, evidence, requested_action, privilege_check,
                 employee_confirmation, claims, escalation_trigger>>

(* _fail_safe: a node raised.  Whatever it wrote to the session row, also  *)
(* a terminal status, the row now says failed.                             *)
FailSafe ==
  /\ \E row \in RowsLeft : Interrupted(row)
  /\ phase' = "failed" /\ UNCHANGED crashes
  /\ session_row' = ClosedRow("failed", "failed")

(* The process dies; the last checkpoint survives, and in it an interrupt  *)
(* that the dying superstep was resuming.                                  *)
Crash ==
  /\ crashes < MaxCrashes /\ crashes' = crashes + 1
  /\ \E row \in RowsLeft : Interrupted(row) /\ session_row' = row
  /\ phase' = IF phase = "paused" THEN "paused" ELSE "idle"

Next ==
  \/ StartRun
  \/ GraphStep
  \/ WaitReply
  \/ FailSafe
  \/ Crash

Spec == Init /\ [][Next]_vars

(* The event loop keeps running a started invocation: as long as a node    *)
(* can take its superstep, it eventually does.                             *)
FairSpec == Spec /\ WF_vars(GraphStep)

-----------------------------------------------------------------------------
\* Safety of autonomy.

(* Once a security specialist has asked for a human, the session can only  *)
(* be on its way to the escalation workflow, and can only end there or in  *)
(* the fail-safe.                                                          *)
FlaggedNeedsHuman ==
  flagged =>
    /\ phase \in {"running", "idle"} => node \in {"ingest", "supervisor", "escalation"}
    /\ phase # "paused"
    /\ session_row.terminal_status \in {None, "escalated", "failed"}

(* A privileged action runs only for the action the employee said yes to,  *)
(* under the confirmation row that names it, and after a check that found  *)
(* the employee entitled to exactly that action.                           *)
ExecutionConsented ==
  (phase = "running" /\ node = "execute_action") =>
    /\ requested_action # None
    /\ employee_confirmation = "yes"
    /\ confirmation.action = requested_action /\ confirmation.response = "yes"
    /\ privilege_check.action = requested_action /\ privilege_check.verdict = "granted"

(* One yes runs the action at most once, even if the process dies around   *)
(* the execution and the employee writes again.                            *)
ExecutedOncePerConfirmation == confirmation.executions <= 1

(* With no crash between, an approver who is asked about an action was     *)
(* looked up for that action and not for one requested earlier.            *)
ApproverMatchesAction == crashes = 0 => approval.action = approval.approver_for

(* Where employees verify resolutions, a session that never crashed is     *)
(* resolved only right after a reply to the offered resolution that does   *)
(* not clearly say the problem persists.                                   *)
ResolutionNeedsAnswer ==
  [][(node # "resolution" /\ node' = "resolution" /\ RequireConfirmation /\ crashes = 0)
       => resolution_confirmation_answer = "other"]_vars

-----------------------------------------------------------------------------
\* Routing.

SupervisorStep == phase = "running" /\ node = "supervisor" /\ phase' = "running"

(* The last specialist hands off to another who has not run yet.           *)
HandoffPending ==
  /\ latest.outcome = "handoff_recommended"
  /\ latest.target # latest.agent /\ latest.target \notin previous_agents

(* The step gave up before any decision was recorded.                      *)
GaveUpFor(trigger) ==
  escalation_trigger' = trigger /\ UNCHANGED decision_signatures

(* Why a pending handoff may go to a human instead: a budget, a repeated   *)
(* route, the security invariant, no valid decision to begin with.         *)
HandoffStopped ==
  /\ node' = "escalation"
  /\ \/ CycleBudgetTripped \/ HandoffBudgetTripped(latest.target)
     \/ TimesDecided(<<"route_to_specialist", latest.target, "handoff_recommended">>)
           >= LoopSignatureRepeatLimit
     \/ flagged
     \/ GaveUpFor("structured_output_failure") /\ last_failure' = "structured_output"

(* The model asks once more what the employee may not be asked again.      *)
QuestionRefused ==
  /\ node' = "escalation" /\ GaveUpFor("loop_guard")
  /\ information_request_count >= MaxInformationRequests \/ turn_index > 1

(* A pending handoff goes to its target, and to nobody else: not to a      *)
(* question, a resolution or another specialist, and to a human only for a *)
(* reason above, never because the model would rather escalate.  The       *)
(* refused question breaks what supervisor.py:268 says of handoffs         *)
(* (SupportClaims).                                                        *)
HandoffHonoured ==
  [][(SupervisorStep /\ HandoffPending)
       => node' = latest.target \/ HandoffStopped \/ QuestionRefused]_vars

(* A specialist that exhausted its schema retries is followed by a human,  *)
(* even if an earlier specialist's handoff or the model says otherwise.    *)
FailedSpecialistNotRetried ==
  [][(SupervisorStep /\ last_failure = "structured_output" /\ crashes = 0)
       => node' = "escalation"]_vars

(* In-graph budgets always trip first: no run reaches the recursion limit. *)
RunWithinRecursionLimit == phase = "running" => steps < RecursionLimit

(* A started run settles: it pauses for the employee, ends, fails or dies. *)
RunSettles == (phase = "running") ~> (phase # "running")

-----------------------------------------------------------------------------
\* What the session leaves behind.

(* The session row agrees with the graph.  An interrupted session is shown *)
(* as waiting for the employee, or, once the process died, as active; a    *)
(* graph that ended has a terminal row; and a terminal row leaves nothing  *)
(* running or waiting behind it, though a crash between the row and the    *)
(* checkpoint may leave a graph that never reached its end.                *)
RowFollowsGraph ==
  /\ phase = "paused" => session_row.status \in
       {"waiting_employee"} \cup (IF crashes > 0 THEN {"active"} ELSE {})
  /\ phase \in {"ended", "failed"} => session_row.terminal_status # None
  /\ session_row.terminal_status # None =>
       phase \in {"ended", "failed"} \cup (IF crashes > 0 THEN {"idle"} ELSE {})

(* An escalated session leaves an escalated ticket; a session that waits   *)
(* for approval leaves its ticket and the request for the action the       *)
(* specialist asked for; any other leaves no request behind, unless the    *)
(* process died after making one.                                          *)
OutcomeIsTracked ==
  phase = "ended" =>
    CASE session_row.terminal_status = "escalated" -> ticket.status = "escalated"
      [] session_row.terminal_status = "approval_pending" ->
           /\ ticket.status = "waiting_approval"
           /\ approval.action = requested_action /\ approval.action # None
      [] OTHER -> approval = NoApproval \/ crashes > 0
=============================================================================

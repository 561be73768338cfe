------------------------- MODULE SupportGraphProofs -------------------------
(***************************************************************************)
(* Theorems of the session graph, for every choice of specialists, actions *)
(* and budgets: type correctness, then the safety properties, each from an *)
(* inductive strengthening of its own, then the action properties: what a  *)
(* supervisor step may and may not do.                                     *)
(***************************************************************************)
EXTENDS SupportGraph, TLAPS

-----------------------------------------------------------------------------
\* What a decision is after each step of the supervisor's pipeline.

WellFormed(d) ==
  /\ d \in [kind : DecisionKinds, target : Maybe(Specialists), workflow : Maybe(Workflows),
            category : Categories]
  /\ d.kind = "route_to_specialist" => d.target \in Specialists
  /\ d.kind = "run_workflow" => d.workflow \in Workflows

(* Where a committed decision can lead.                                    *)
Destinations == Specialists \cup {"ask_prepare", "close_direct", "resolution_verify_prepare",
                  "resolution", "confirmation_prepare", "approval", "escalation", "ticket_status"}

(* A schema-valid decision stays one through normalisation and the         *)
(* close_session override.                                                 *)
LEMMA ProposalWellFormed ==
  ASSUME TypeOK, NEW d \in SupervisorDecision, NEW informational \in BOOLEAN
  PROVE  WellFormed(Proposal(d, informational))
<1>1. WellFormed(d)
  BY DEF WellFormed, SupervisorDecision, DecisionKinds, Maybe, Workflows, Routes
<1>2. category \in Maybe(Categories)
  BY DEF TypeOK, EvidenceTypes
<1>3. WellFormed(Normalized(d))
  BY <1>1, <1>2 DEF WellFormed, Normalized, DecisionKinds, Maybe, Categories
<1>4. QED
  BY <1>3 DEF Proposal, WellFormed, CloseOverridden, DecisionKinds

(* So does the conversion of a refused question into an investigation.     *)
LEMMA ConvertedWellFormed ==
  ASSUME NEW d, WellFormed(d), Investigator(d) # None
  PROVE  WellFormed(Converted(d))
<1>1. Investigator(d) \in Specialists
  BY DEF Investigator
<1>2. QED
  BY <1>1 DEF WellFormed, Converted, DecisionKinds, Maybe, Categories

(* And the overrides that honour failures, handoffs, security and replies. *)
LEMMA OverriddenWellFormed ==
  ASSUME TypeOK, NEW d, WellFormed(d)
  PROVE  WellFormed(Overridden(d))
<1>1. WellFormed(FailureOverride(d))
  BY DEF WellFormed, FailureOverride, DecisionKinds, Maybe, Workflows
<1>2. PendingHandoffTarget \in Maybe(Specialists)
  BY DEF PendingHandoffTarget, TypeOK, EvidenceTypes, Result, Maybe
<1>3. WellFormed(HandoffOverride(FailureOverride(d)))
  BY <1>1, <1>2 DEF WellFormed, HandoffOverride, DecisionKinds, Maybe, Categories
<1>4. ASSUME NEW e, WellFormed(e) PROVE WellFormed(SecurityOverride(e))
  BY <1>4 DEF WellFormed, SecurityOverride, DecisionKinds, Maybe, Workflows
<1>5. ASSUME NEW e, WellFormed(e) PROVE WellFormed(ActionOverride(e))
  BY <1>5 DEF WellFormed, ActionOverride, DecisionKinds, Maybe, Workflows
<1>6. ASSUME NEW e, WellFormed(e) PROVE WellFormed(NegativeVeto(e))
  <2>1. e \in [kind : DecisionKinds, target : Maybe(Specialists),
               workflow : Maybe(Workflows), category : Categories]
    BY <1>6 DEF WellFormed
  <2>2. CASE NegativeVeto(e) = e
    BY <1>6, <2>2
  <2>3. CASE NegativeVeto(e) = [e EXCEPT !.kind = "ask_employee", !.workflow = None]
    BY <2>1, <2>3 DEF WellFormed, DecisionKinds, Maybe
  <2>4. QED
    BY <2>2, <2>3 DEF NegativeVeto
<1>7. QED
  BY <1>3, <1>4, <1>5, <1>6 DEF Overridden

(* A well-formed decision leads to one of the declared destinations.       *)
LEMMA DestinationIsDeclared ==
  ASSUME NEW d, WellFormed(d)
  PROVE  Destination(d) \in Destinations
BY DEF WellFormed, Destination, Destinations, DecisionKinds, Workflows, Routes, Runs

(* Every decision that a supervisor step settles is well formed.           *)
LEMMA DecideWellFormed ==
  ASSUME TypeOK, NEW d, WellFormed(d), NEW rephrased \in BOOLEAN, Decide(d, rephrased)
  PROVE  \/ QuestionsExhausted(d, rephrased)
         \/ \E e : WellFormed(e) /\ Settle(Overridden(e)) /\ WellFormed(Overridden(e))
<1>1. CASE QuestionsExhausted(d, rephrased)
  BY <1>1
<1>2. CASE Investigator(d) # None /\ Settle(Overridden(Converted(d)))
  BY <1>2, ConvertedWellFormed, OverriddenWellFormed
<1>3. CASE Settle(Overridden(d))
  BY <1>3, OverriddenWellFormed
<1>4. QED
  BY <1>1, <1>2, <1>3 DEF Decide

-----------------------------------------------------------------------------
\* Type correctness: what no action touches, then one lemma per group of
\* actions, with one step per part of the state an action changes.

(* A part of the state that a step leaves alone keeps its types.           *)
LEMMA Frames ==
  ASSUME TypeOK
  PROVE  /\ UNCHANGED <<phase, node, steps, crashes>> => RunTypes'
         /\ UNCHANGED budgets => BudgetTypes'
         /\ UNCHANGED evidence => EvidenceTypes'
         /\ UNCHANGED consent => ConsentTypes'
         /\ UNCHANGED claims => ClaimTypes'
         /\ UNCHANGED records => RecordTypes'
<1>1. UNCHANGED <<phase, node, steps, crashes>> => RunTypes'
  BY DEF TypeOK, RunTypes
<1>2. UNCHANGED budgets => BudgetTypes'
  BY DEF TypeOK, BudgetTypes, budgets, turn
<1>3. UNCHANGED evidence => EvidenceTypes'
  BY DEF TypeOK, EvidenceTypes, evidence
<1>4. UNCHANGED consent => ConsentTypes'
  BY DEF TypeOK, ConsentTypes, consent
<1>5. UNCHANGED claims => ClaimTypes'
  BY DEF TypeOK, ClaimTypes, claims, verdict
<1>6. UNCHANGED records => RecordTypes'
  BY DEF TypeOK, RecordTypes, records
<1>7. QED
  BY <1>1, <1>2, <1>3, <1>4, <1>5, <1>6

(* A superstep that goes to a declared node keeps the types of the run.    *)
LEMMA RunKeepsTypes ==
  ASSUME TypeOK, NEW n, Run(n), NEW m \in Nodes, GoTo(m)
  PROVE  RunTypes'
BY DEF TypeOK, RunTypes, Run, GoTo

(* A new turn starts its budgets within their types.                       *)
LEMMA NewTurnTypes ==
  ASSUME TypeOK, NewTurn, UNCHANGED information_request_count
  PROVE  BudgetTypes'
BY DEF TypeOK, BudgetTypes, NewTurn, NoSignatures

(* The rows a node or the dispatcher writes are rows of their tables.      *)
LEMMA TicketTypes ==
  ASSUME TypeOK, NEW security \in BOOLEAN,
         NEW status \in {"open", "pending", "in_progress", "waiting_approval",
                         "escalated", "resolved", "closed"}
  PROVE  TicketAt(status, security) \in Ticket
BY DEF TypeOK, RecordTypes, TicketAt, Ticket

(* A run of a tool is counted on the confirmation row.                     *)
LEMMA ExecutedTypes ==
  ASSUME TypeOK, Executed
  PROVE  confirmation' \in Confirmation
BY DEF TypeOK, ConsentTypes, Executed, Confirmation

(* A superstep that is cut short moves no part of the checkpoint, and the  *)
(* rows it leaves are rows of their tables.                                *)
LEMMA InterruptedTypes ==
  ASSUME TypeOK, NEW row \in RowsLeft, Interrupted(row)
  PROVE  /\ row \in SessionRow /\ ticket' \in Ticket /\ approval' \in Approval
         /\ remembered' \in {None, "offered", "refused"}
         /\ BudgetTypes' /\ EvidenceTypes' /\ ConsentTypes' /\ ClaimTypes'
         /\ UNCHANGED <<node, steps, evidence, escalation_trigger>>
<1>1. UNCHANGED <<node, steps, budgets, evidence, requested_action, privilege_check,
                  employee_confirmation, claims, escalation_trigger>>
  BY DEF Interrupted
<1>2. row \in SessionRow
  BY DEF RowsLeft, StatusNow, ClosedRow, TypeOK, RecordTypes, SessionRow
<1>3. /\ ticket \in Ticket /\ approval \in Approval
      /\ remembered \in {None, "offered", "refused"} /\ fix \in {None, "offered", "refused"}
      /\ requested_action \in Maybe(Actions) /\ privilege_check \in Check
      /\ confirmation \in Confirmation
  BY DEF TypeOK, RecordTypes, ClaimTypes, ConsentTypes
<1>4. ticket' \in Ticket
  <2>1. ASSUME NEW status \in {"waiting_approval", "escalated", "resolved"}, TicketMoved(status)
        PROVE  ticket' \in Ticket
    BY <1>3, <2>1 DEF TicketMoved, Ticket
  <2>2. QED
    BY <1>3, <2>1 DEF Interrupted, NothingWritten, QuestionWritten, ReplyWritten, ActionWritten,
       ResolutionWritten, ApprovalWritten, EscalationWritten
<1>5. approval' \in Approval
  <2>1. create_approval_request => approval' \in Approval
    BY <1>3 DEF create_approval_request, Approval, Check
  <2>2. QED
    BY <1>3, <2>1 DEF Interrupted, NothingWritten, QuestionWritten, ReplyWritten, ActionWritten,
       ResolutionWritten, ApprovalWritten, EscalationWritten
<1>6. remembered' \in {None, "offered", "refused"}
  BY <1>3 DEF Interrupted, NothingWritten, QuestionWritten, ReplyWritten, ActionWritten,
     ResolutionWritten, ApprovalWritten, EscalationWritten, MemoryWritten, SessionMemories
<1>7. confirmation' \in Confirmation
  <2>1. ASSUME NEW answer \in {"yes", "no"}, respond_confirmation(answer)
        PROVE  confirmation' \in Confirmation
    BY <1>3, <2>1 DEF respond_confirmation, Confirmation
  <2>2. QED
    BY <1>3, <2>1, ExecutedTypes DEF Interrupted, NothingWritten, QuestionWritten, ReplyWritten,
       ActionWritten, ResolutionWritten, ApprovalWritten, EscalationWritten
<1>8. ConsentTypes'
  BY <1>1, <1>7 DEF TypeOK, ConsentTypes
<1>9. QED
  BY <1>1, <1>2, <1>4, <1>5, <1>6, <1>8, Frames DEF TypeOK

(* The dispatcher's steps keep the types.                                  *)
LEMMA DispatcherTypes ==
  ASSUME TypeOK, StartRun \/ FailSafe \/ Crash
  PROVE  TypeOK'
<1>1. CASE StartRun
  <2>1. RunTypes'
    BY <1>1 DEF StartRun, GoTo, TypeOK, RunTypes, Nodes
  <2>2. RecordTypes'
    BY <1>1 DEF StartRun, RowStatus, TypeOK, RecordTypes, SessionRow
  <2>3. QED
    BY <1>1, <2>1, <2>2, Frames DEF StartRun, TypeOK
<1>2. CASE FailSafe
  <2>1. PICK row \in RowsLeft : Interrupted(row)
    BY <1>2 DEF FailSafe
  <2>2. RunTypes'
    BY <1>2, <2>1, InterruptedTypes DEF FailSafe, TypeOK, RunTypes
  <2>3. RecordTypes'
    BY <1>2, <2>1, InterruptedTypes DEF FailSafe, ClosedRow, TypeOK, RecordTypes, SessionRow
  <2>4. QED
    BY <2>1, <2>2, <2>3, InterruptedTypes DEF TypeOK
<1>3. CASE Crash
  <2>1. PICK row \in RowsLeft : Interrupted(row) /\ session_row' = row
    BY <1>3 DEF Crash
  <2>2. RunTypes'
    BY <1>3, <2>1, InterruptedTypes DEF Crash, TypeOK, RunTypes
  <2>3. RecordTypes'
    BY <2>1, InterruptedTypes DEF TypeOK, RecordTypes
  <2>4. QED
    BY <2>1, <2>2, <2>3, InterruptedTypes DEF TypeOK
<1>4. QED
  BY <1>1, <1>2, <1>3

(* Ingestion and the specialists keep the types.                           *)
LEMMA InvestigationTypes ==
  ASSUME TypeOK, ingest_node \/ \E s \in Specialists : run_specialist(s)
  PROVE  TypeOK'
<1>1. CASE ingest_node
  <2>1. RunTypes'
    BY <1>1, RunKeepsTypes DEF ingest_node, Nodes
  <2>2. BudgetTypes'
    BY <1>1, NewTurnTypes DEF ingest_node
  <2>3. ConsentTypes'
    BY <1>1 DEF ingest_node, TypeOK, ConsentTypes
  <2>4. QED
    BY <1>1, <2>1, <2>2, <2>3, Frames DEF ingest_node, TypeOK
<1>2. ASSUME NEW s \in Specialists, run_specialist(s) PROVE TypeOK'
  <2>1. RunTypes' /\ RecordTypes'
    BY <1>2, RunKeepsTypes, Frames DEF run_specialist, Nodes
  <2>2. previous_agents' \subseteq Specialists /\ last_agent' \in Maybe(Specialists)
    BY <1>2 DEF run_specialist, Ran, TypeOK, EvidenceTypes, Maybe
  <2>3. CASE \E outcome \in Outcomes, target \in Maybe(Specialists),
                action \in Maybe(Actions), news \in BOOLEAN :
               SpecialistResult(s, outcome, target, action, news)
    <3>1. PICK outcome \in Outcomes, target \in Maybe(Specialists),
                action \in Maybe(Actions), news \in BOOLEAN :
               SpecialistResult(s, outcome, target, action, news)
      BY <2>3
    <3>2. latest' \in Result /\ flagged' \in BOOLEAN
      BY <3>1 DEF SpecialistResult, TypeOK, EvidenceTypes, Result, Maybe
    <3>3. EvidenceTypes'
      BY <1>2, <2>2, <3>1, <3>2 DEF run_specialist, SpecialistResult, TypeOK, EvidenceTypes
    <3>4. ConsentTypes'
      BY <1>2, <3>1 DEF run_specialist, SpecialistResult, TypeOK, ConsentTypes
    <3>5. BudgetTypes'
      BY <1>2, <3>1 DEF run_specialist, SpecialistResult, TypeOK, BudgetTypes, NoSignatures, turn
    <3>6. ClaimTypes'
      BY <3>1 DEF SpecialistResult, TypeOK, ClaimTypes
    <3>7. QED
      BY <2>1, <3>3, <3>4, <3>5, <3>6 DEF TypeOK
  <2>4. ASSUME NEW failure \in {"structured_output", "budget_exhausted"}, SpecialistFailed(failure)
        PROVE  TypeOK'
    <3>1. EvidenceTypes'
      BY <1>2, <2>2, <2>4 DEF run_specialist, SpecialistFailed, TypeOK, EvidenceTypes
    <3>2. ConsentTypes' /\ ClaimTypes' /\ BudgetTypes'
      BY <1>2, <2>4, Frames DEF run_specialist, SpecialistFailed, consent, budgets
    <3>3. QED
      BY <2>1, <3>1, <3>2 DEF TypeOK
  <2>5. QED
    BY <1>2, <2>3, <2>4 DEF run_specialist
<1>3. QED
  BY <1>1, <1>2

(* Interrupts and replies keep the types.                                  *)
LEMMA InterruptTypes ==
  ASSUME TypeOK, (\E n \in WaitNodes : interrupt(n)) \/ WaitReply
  PROVE  TypeOK'
<1>1. ASSUME NEW n \in WaitNodes, interrupt(n) PROVE TypeOK'
  <2>1. RunTypes'
    BY <1>1 DEF interrupt, Run, TypeOK, RunTypes
  <2>2. QED
    BY <1>1, <2>1, Frames DEF interrupt, TypeOK
<1>2. ASSUME NEW n, Reply(n), NEW m \in Nodes, GoTo(m)
      PROVE  RunTypes' /\ BudgetTypes' /\ EvidenceTypes' /\ RecordTypes'
  <2>1. RunTypes'
    BY <1>2 DEF Reply, GoTo, TypeOK, RunTypes
  <2>2. BudgetTypes' /\ EvidenceTypes'
    BY <1>2, NewTurnTypes, Frames DEF Reply
  <2>3. RecordTypes'
    BY <1>2 DEF Reply, RowStatus, TypeOK, RecordTypes, SessionRow
  <2>4. QED
    BY <2>1, <2>2, <2>3
<1>3. CASE ask_wait
  <2>1. RunTypes' /\ BudgetTypes' /\ EvidenceTypes' /\ RecordTypes'
    BY <1>2, <1>3 DEF ask_wait, Nodes
  <2>2. ConsentTypes' /\ ClaimTypes'
    BY <1>3, Frames DEF ask_wait, Reply, consent, claims
  <2>3. QED
    BY <2>1, <2>2 DEF TypeOK
<1>4. ASSUME NEW answer \in {"yes", "no"}, confirmation_wait(answer) PROVE TypeOK'
  <2>1. RunTypes' /\ BudgetTypes' /\ EvidenceTypes' /\ RecordTypes'
    <3>1. (IF answer = "yes" THEN "execute_action" ELSE "supervisor") \in Nodes
      BY DEF Nodes, WorkflowNodes
    <3>2. QED
      BY <1>2, <1>4, <3>1 DEF confirmation_wait
  <2>2. ConsentTypes'
    BY <1>4 DEF confirmation_wait, respond_confirmation, Reply, TypeOK, ConsentTypes, Confirmation
  <2>3. ClaimTypes'
    BY <1>4, Frames DEF confirmation_wait, Reply, claims
  <2>4. QED
    BY <2>1, <2>2, <2>3 DEF TypeOK
<1>5. ASSUME NEW answer \in {"negative", "other"}, resolution_verify_wait(answer) PROVE TypeOK'
  <2>1. RunTypes' /\ BudgetTypes' /\ EvidenceTypes' /\ RecordTypes'
    BY <1>2, <1>5 DEF resolution_verify_wait, Nodes
  <2>2. ClaimTypes'
    BY <1>5 DEF resolution_verify_wait, Reply, TypeOK, ClaimTypes
  <2>3. ConsentTypes'
    BY <1>5, Frames DEF resolution_verify_wait, Reply, consent
  <2>4. QED
    BY <2>1, <2>2, <2>3 DEF TypeOK
<1>6. QED
  BY <1>1, <1>3, <1>4, <1>5 DEF WaitReply

(* The workflow nodes that ask, check and execute keep the types.          *)
LEMMA PreparationTypes ==
  ASSUME TypeOK,
         ask_prepare \/ confirmation_prepare \/ execute_action \/ resolution_verify_prepare
  PROVE  TypeOK'
<1>1. CASE ask_prepare
  <2>1. RunTypes'
    BY <1>1, RunKeepsTypes DEF ask_prepare, Nodes, WorkflowNodes, WaitNodes
  <2>2. BudgetTypes'
    BY <1>1 DEF ask_prepare, TypeOK, BudgetTypes, turn
  <2>3. RecordTypes'
    BY <1>1 DEF ask_prepare, ShowWaiting, RowStatus, TypeOK, RecordTypes, SessionRow
  <2>4. QED
    BY <1>1, <2>1, <2>2, <2>3, Frames DEF ask_prepare, TypeOK
<1>2. CASE confirmation_prepare
  <2>1. /\ UNCHANGED <<budgets, evidence, claims, requested_action, employee_confirmation>>
        /\ UNCHANGED <<ticket, approval, remembered>> /\ Run("confirmation_prepare")
    BY <1>2 DEF confirmation_prepare
  <2>2. CASE NothingToConfirm
    <3>1. RunTypes'
      BY <2>1, <2>2, RunKeepsTypes DEF NothingToConfirm, Nodes
    <3>2. ConsentTypes' /\ RecordTypes'
      BY <2>1, <2>2, Frames DEF NothingToConfirm, consent, records
    <3>3. QED
      BY <2>1, <3>1, <3>2, Frames DEF TypeOK
  <2>3. CASE CheckedAction
    <3>1. RunTypes'
      BY <2>1, <2>3, RunKeepsTypes
         DEF CheckedAction, AskConfirmation, SeekApproval, RefuseAction, Nodes, WorkflowNodes, WaitNodes
    <3>2. privilege_check' \in Check
      BY <2>3 DEF CheckedAction, Checks, Check, TypeOK, ConsentTypes
    <3>3. confirmation' \in Confirmation
      BY <2>3 DEF CheckedAction, AskConfirmation, SeekApproval, RefuseAction, NoConfirmation,
         Confirmation, TypeOK, ConsentTypes
    <3>4. ConsentTypes'
      BY <2>1, <3>2, <3>3 DEF TypeOK, ConsentTypes
    <3>5. session_row' \in SessionRow
      BY <2>3 DEF CheckedAction, AskConfirmation, SeekApproval, RefuseAction, ShowWaiting, RowStatus,
         SessionRow, TypeOK, RecordTypes
    <3>6. RecordTypes'
      BY <2>1, <2>3, <3>5 DEF CheckedAction, AskConfirmation, SeekApproval, RefuseAction,
         TypeOK, RecordTypes
    <3>7. QED
      BY <2>1, <3>1, <3>4, <3>6, Frames DEF TypeOK
  <2>4. QED
    BY <1>2, <2>2, <2>3 DEF confirmation_prepare
<1>3. CASE execute_action
  <2>1. RunTypes'
    <3>1. (IF RequireConfirmation THEN "resolution_verify_prepare" ELSE "resolution") \in Nodes
      BY DEF Nodes, WorkflowNodes
    <3>2. "escalation" \in Nodes
      BY DEF Nodes, WorkflowNodes
    <3>3. QED
      BY <1>3, <3>1, <3>2, RunKeepsTypes DEF execute_action, ActionSucceeded, ActionFailed
  <2>2. ConsentTypes'
    BY <1>3, ExecutedTypes
       DEF execute_action, ActionSucceeded, ActionFailed, TypeOK, ConsentTypes, Maybe
  <2>3. ClaimTypes'
    BY <1>3 DEF execute_action, ActionSucceeded, ActionFailed, TypeOK, ClaimTypes, verdict
  <2>4. RecordTypes'
    BY <1>3 DEF execute_action, ActionSucceeded, ActionFailed, TypeOK, RecordTypes
  <2>5. QED
    BY <1>3, <2>1, <2>2, <2>3, <2>4, Frames DEF execute_action, TypeOK
<1>4. CASE resolution_verify_prepare
  <2>1. RunTypes'
    BY <1>4, RunKeepsTypes DEF resolution_verify_prepare, Nodes, WorkflowNodes, WaitNodes
  <2>2. ClaimTypes'
    BY <1>4 DEF resolution_verify_prepare, compose_resolution_candidate, TypeOK, ClaimTypes
  <2>3. RecordTypes'
    BY <1>4 DEF resolution_verify_prepare, ShowWaiting, RowStatus, TypeOK, RecordTypes, SessionRow
  <2>4. QED
    BY <1>4, <2>1, <2>2, <2>3, Frames DEF resolution_verify_prepare, TypeOK
<1>5. QED
  BY <1>1, <1>2, <1>3, <1>4

(* Finalizing a session writes a row and a memory of the declared forms.   *)
LEMMA FinalizeTypes ==
  ASSUME TypeOK, NEW n, Run(n),
         NEW terminal \in {"resolved", "approval_pending", "escalated"},
         NEW status \in {"completed", "waiting_approval", "escalated"},
         finalize_session(terminal, status)
  PROVE  /\ RunTypes' /\ BudgetTypes' /\ EvidenceTypes' /\ ConsentTypes' /\ ClaimTypes'
         /\ session_row' \in SessionRow
         /\ remembered' \in {None, "offered", "refused"}
<1>1. RunTypes'
  BY DEF Run, finalize_session, TypeOK, RunTypes
<1>2. session_row' \in SessionRow
  BY DEF finalize_session, ClosedRow, SessionRow
<1>3. remembered' \in {None, "offered", "refused"}
  BY DEF finalize_session, MemoryWritten, SessionMemories, TypeOK, ClaimTypes, RecordTypes
<1>4. QED
  BY <1>1, <1>2, <1>3, Frames DEF finalize_session

(* The detour to the escalation workflow keeps the types.                  *)
LEMMA ToEscalationTypes ==
  ASSUME TypeOK, NEW n, Run(n), NEW trigger \in {"infrastructure", "out_of_scope", "pending_age"},
         ToEscalation(trigger), ticket' \in Ticket
  PROVE  TypeOK'
<1>1. RunTypes'
  BY RunKeepsTypes DEF ToEscalation, Nodes, WorkflowNodes
<1>2. RecordTypes'
  BY DEF ToEscalation, TypeOK, RecordTypes
<1>3. QED
  BY <1>1, <1>2, Frames DEF ToEscalation, TypeOK

(* The terminal workflows and the ticket lookup keep the types.            *)
LEMMA TerminalTypes ==
  ASSUME TypeOK, \/ resolution_node \/ close_direct_node \/ approval_node
                 \/ escalation_node \/ ticket_status_node
  PROVE  TypeOK'
<1>1. /\ ticket \in Ticket
      /\ (category = "security") \in BOOLEAN /\ (escalation_trigger = "security") \in BOOLEAN
  BY DEF TypeOK, RecordTypes
<1>2. CASE resolution_node
  <2>1. ticket' \in Ticket
    BY <1>1, <1>2, TicketTypes DEF resolution_node
  <2>2. QED
    BY <1>2, <2>1, FinalizeTypes DEF resolution_node, TypeOK, RecordTypes
<1>3. CASE close_direct_node
  BY <1>3, FinalizeTypes DEF close_direct_node, TypeOK, RecordTypes
<1>4. CASE approval_node
  <2>1. CASE NothingToApprove \/ ApproverUnresolved
    BY <1>1, <1>4, <2>1, ToEscalationTypes DEF approval_node, NothingToApprove, ApproverUnresolved
  <2>2. CASE RequestApproval
    <3>1. ticket' \in Ticket
      BY <1>1, <2>2, TicketTypes DEF RequestApproval
    <3>2. approval' \in Approval
      BY <2>2 DEF RequestApproval, create_approval_request, Approval, TypeOK, ConsentTypes, Check
    <3>3. QED
      BY <1>4, <2>2, <3>1, <3>2, FinalizeTypes DEF approval_node, RequestApproval, TypeOK, RecordTypes
  <2>3. QED
    BY <1>4, <2>1, <2>2 DEF approval_node
<1>5. CASE escalation_node
  <2>1. ticket' \in Ticket
    BY <1>1, <1>5, TicketTypes DEF escalation_node, EscalateTicket
  <2>2. QED
    BY <1>5, <2>1, FinalizeTypes DEF escalation_node, TypeOK, RecordTypes
<1>6. CASE ticket_status_node
  <2>1. CASE AnswerTicketStatus
    <3>1. RunTypes'
      BY <1>6, <2>1, RunKeepsTypes
         DEF ticket_status_node, AnswerTicketStatus, Nodes, WorkflowNodes
    <3>2. RecordTypes'
      BY <1>1, <2>1, TicketsAssumption DEF AnswerTicketStatus, TypeOK, RecordTypes
    <3>3. QED
      BY <2>1, <3>1, <3>2, Frames DEF AnswerTicketStatus, TypeOK
  <2>2. CASE EscalateStaleTicket
    BY <1>6, <2>2, ToEscalationTypes, TicketsAssumption DEF ticket_status_node, EscalateStaleTicket
  <2>3. QED
    BY <1>6, <2>1, <2>2 DEF ticket_status_node
<1>7. QED
  BY <1>2, <1>3, <1>4, <1>5, <1>6

(* The detour of a supervisor step to a human keeps the types.             *)
LEMMA EscalateForTypes ==
  ASSUME TypeOK, Run("supervisor"),
         NEW trigger \in {"budget_exhausted", "loop_guard", "agent_recommendation",
                          "structured_output_failure"},
         EscalateFor(trigger),
         last_failure' \in {last_failure, "structured_output"},
         BudgetTypes'
  PROVE  TypeOK'
<1>1. RunTypes'
  BY RunKeepsTypes DEF EscalateFor, Nodes, WorkflowNodes
<1>2. EvidenceTypes'
  BY DEF EscalateFor, TypeOK, EvidenceTypes
<1>3. RecordTypes'
  BY DEF EscalateFor, TypeOK, RecordTypes
<1>4. ConsentTypes' /\ ClaimTypes'
  BY Frames DEF EscalateFor
<1>5. QED
  BY <1>1, <1>2, <1>3, <1>4 DEF TypeOK

(* A recorded signature is one of the declared signatures, counted.        *)
LEMMA RecordedTypes ==
  ASSUME TypeOK, NEW d, WellFormed(d)
  PROVE  /\ DOMAIN Recorded(d) \subseteq Signatures
         /\ \A s \in DOMAIN Recorded(d) : Recorded(d)[s] \in Nat
<1>1. DecisionSignature(d) \in Signatures
  <2>1. d.kind \in DecisionKinds /\ d.target \in Maybe(Specialists) /\ d.workflow \in Maybe(Workflows)
    BY DEF WellFormed
  <2>2. latest.outcome \in Maybe(Outcomes)
    BY DEF TypeOK, EvidenceTypes, Result
  <2>3. (IF d.target # None THEN d.target ELSE d.workflow) \in Maybe(Specialists \cup Workflows)
    BY <2>1 DEF Maybe
  <2>4. QED
    BY <2>1, <2>2, <2>3 DEF DecisionSignature, Signatures, DecisionKinds
<1>2. /\ DOMAIN decision_signatures \subseteq Signatures
      /\ \A s \in DOMAIN decision_signatures : decision_signatures[s] \in Nat
  BY DEF TypeOK, BudgetTypes
<1>3. \A s \in DOMAIN decision_signatures \cup {DecisionSignature(d)} : TimesDecided(s) + 1 \in Nat
  BY <1>2 DEF TimesDecided
<1>4. QED
  BY <1>1, <1>2, <1>3 DEF Recorded

(* A settled decision keeps the types.                                     *)
LEMMA SettleTypes ==
  ASSUME TypeOK, Run("supervisor"), NEW d, WellFormed(d), Settle(d)
  PROVE  TypeOK'
<1>1. ASSUME decision_signatures' = Recorded(d),
             supervisor_cycle_count' = supervisor_cycle_count + 1,
             handoff_count' \in Nat, UNCHANGED <<turn_index, information_request_count>>
      PROVE  BudgetTypes'
  BY <1>1, RecordedTypes DEF TypeOK, BudgetTypes
<1>2. handoff_count \in Nat /\ Handoffs(d.target) \in Nat
  BY DEF TypeOK, BudgetTypes, Handoffs
<1>3. CASE LoopDetected(d)
  <2>1. BudgetTypes'
    BY <1>1, <1>2, <1>3 DEF LoopDetected, EscalateFor
  <2>2. QED
    BY <1>3, <2>1, EscalateForTypes DEF LoopDetected
<1>4. CASE HandoffsExhausted(d)
  <2>1. BudgetTypes'
    BY <1>1, <1>2, <1>4 DEF HandoffsExhausted, EscalateFor
  <2>2. QED
    BY <1>4, <2>1, EscalateForTypes DEF HandoffsExhausted
<1>5. CASE Commit(d)
  <2>1. RunTypes'
    <3>1. Destination(d) \in Nodes
      BY DestinationIsDeclared DEF Destinations, Nodes, WorkflowNodes
    <3>2. QED
      BY <1>5, <3>1, RunKeepsTypes DEF Commit
  <2>2. BudgetTypes'
    BY <1>1, <1>2, <1>5 DEF Commit
  <2>3. EvidenceTypes'
    BY <1>5 DEF Commit, WellFormed, TypeOK, EvidenceTypes, Maybe
  <2>4. ClaimTypes'
    <3>1. CASE awaiting_resolution_confirmation
      BY <1>5, <3>1 DEF Commit, SettleVerification, TypeOK, ClaimTypes
    <3>2. CASE ~awaiting_resolution_confirmation
      BY <1>5, <3>2, Frames DEF Commit, SettleVerification
    <3>3. QED
      BY <3>1, <3>2
  <2>5. RecordTypes'
    BY <1>5 DEF Commit, TypeOK, RecordTypes
  <2>6. ConsentTypes'
    BY <1>5, Frames DEF Commit
  <2>7. QED
    BY <2>1, <2>2, <2>3, <2>4, <2>5, <2>6 DEF TypeOK
<1>6. QED
  BY <1>3, <1>4, <1>5 DEF Settle

(* A supervisor step keeps the types.                                      *)
LEMMA SupervisorTypes ==
  ASSUME TypeOK, supervisor_node
  PROVE  TypeOK'
<1>1. Run("supervisor")
  BY DEF supervisor_node
<1>2. ASSUME NEW trigger \in {"budget_exhausted", "loop_guard", "agent_recommendation",
                              "structured_output_failure"},
             EscalateFor(trigger), UNCHANGED decision_signatures,
             last_failure' \in {last_failure, "structured_output"}
      PROVE  TypeOK'
  <2>1. BudgetTypes'
    BY <1>2 DEF EscalateFor, TypeOK, BudgetTypes
  <2>2. QED
    BY <1>1, <1>2, <2>1, EscalateForTypes
<1>3. CASE CycleBudgetExhausted
  BY <1>2, <1>3 DEF CycleBudgetExhausted
<1>4. CASE HardwareHandoff
  BY <1>2, <1>4 DEF HardwareHandoff
<1>5. CASE NoValidDecision
  BY <1>2, <1>5 DEF NoValidDecision
<1>6. ASSUME NEW d \in SupervisorDecision, NEW informational \in BOOLEAN,
             NEW rephrased \in BOOLEAN, Decide(Proposal(d, informational), rephrased)
      PROVE  TypeOK'
  <2>1. WellFormed(Proposal(d, informational))
    BY ProposalWellFormed
  <2>2. CASE QuestionsExhausted(Proposal(d, informational), rephrased)
    BY <1>2, <2>2 DEF QuestionsExhausted
  <2>3. ASSUME NEW e, WellFormed(e), Settle(e) PROVE TypeOK'
    BY <1>1, <2>3, SettleTypes
  <2>4. QED
    BY <1>6, <2>1, <2>2, <2>3, DecideWellFormed
<1>7. QED
  BY <1>3, <1>4, <1>5, <1>6 DEF supervisor_node

(* Every state of a session has the declared types: the fields the session *)
(* state, the checkpoints and the rows of the store hold are the ones the  *)
(* nodes read back, for every choice of specialists, actions and budgets.  *)
THEOREM TypeCorrect == Spec => []TypeOK
<1>1. Init => TypeOK
  <2>1. Init => RunTypes
    BY DEF Init, RunTypes, Nodes
  <2>2. Init => BudgetTypes
    BY DEF Init, BudgetTypes, NoSignatures
  <2>3. Init => EvidenceTypes
    <3>1. ASSUME Init PROVE EvidenceTypes
      <4>1. latest \in Result
        BY <3>1 DEF Init, NoResult, Result, Maybe
      <4>2. category \in Maybe(Categories) /\ last_agent \in Maybe(Specialists)
        BY <3>1 DEF Init, Maybe
      <4>3. QED
        BY <3>1, <4>1, <4>2 DEF Init, EvidenceTypes
    <3>2. QED
      BY <3>1
  <2>4. Init => ConsentTypes
    BY DEF Init, ConsentTypes, NoCheck, Check, NoConfirmation, Confirmation, Maybe
  <2>5. Init => ClaimTypes
    BY DEF Init, ClaimTypes
  <2>6. Init => RecordTypes
    BY DEF Init, RecordTypes, NoTicket, Ticket, NoApproval, Approval, SessionRow, Maybe
  <2>7. QED
    BY <2>1, <2>2, <2>3, <2>4, <2>5, <2>6 DEF TypeOK
<1>2. TypeOK /\ [Next]_vars => TypeOK'
  <2>1. ASSUME TypeOK, Next PROVE TypeOK'
    <3>1. CASE StartRun \/ FailSafe \/ Crash
      BY <2>1, <3>1, DispatcherTypes
    <3>2. CASE GraphStep
      BY <2>1, <3>2, InvestigationTypes, InterruptTypes, PreparationTypes, TerminalTypes,
         SupervisorTypes DEF GraphStep
    <3>3. CASE WaitReply
      BY <2>1, <3>3, InterruptTypes
    <3>4. QED
      BY <2>1, <3>1, <3>2, <3>3 DEF Next
  <2>2. ASSUME TypeOK, UNCHANGED vars PROVE TypeOK'
    <3>1. /\ UNCHANGED <<phase, node, steps, crashes>>
          /\ UNCHANGED budgets /\ UNCHANGED evidence /\ UNCHANGED consent
          /\ UNCHANGED claims /\ UNCHANGED records
      BY <2>2 DEF vars, run
    <3>2. QED
      BY <2>2, <3>1, Frames DEF TypeOK
  <2>3. QED
    BY <2>1, <2>2
<1>3. QED
  BY <1>1, <1>2, PTL DEF Spec

-----------------------------------------------------------------------------
\* What every supervisor step has in common.

(* A supervisor step spends one cycle, touches no consent, no row and no   *)
(* finding, and leads to the escalation workflow or, within the cycle      *)
(* budget, where the overridden decision says.                             *)
LEMMA SupervisorStepShape ==
  ASSUME TypeOK, supervisor_node
  PROVE  /\ Run("supervisor")
         /\ phase' = "running" /\ node' \in Destinations
         /\ supervisor_cycle_count' = supervisor_cycle_count + 1
         /\ UNCHANGED <<turn_index, previous_agents, last_agent, latest, flagged, consent,
                        ticket, approval, session_row>>
         /\ \/ node' = "escalation" /\ UNCHANGED claims
            \/ /\ ~CycleBudgetTripped
               /\ UNCHANGED last_failure
               /\ \E d : WellFormed(d) /\ Commit(Overridden(d)) /\ WellFormed(Overridden(d))
<1> DEFINE Shape ==
         /\ phase' = "running" /\ node' \in Destinations
         /\ supervisor_cycle_count' = supervisor_cycle_count + 1
         /\ UNCHANGED <<turn_index, previous_agents, last_agent, latest, flagged, consent,
                        ticket, approval, session_row>>
         /\ \/ node' = "escalation" /\ UNCHANGED claims
            \/ /\ ~CycleBudgetTripped
               /\ UNCHANGED last_failure
               /\ \E d : WellFormed(d) /\ Commit(Overridden(d)) /\ WellFormed(Overridden(d))
<1>1. Run("supervisor")
  BY DEF supervisor_node
<1>2. ASSUME NEW trigger, EscalateFor(trigger) PROVE Shape
  BY <1>2 DEF EscalateFor, GoTo, Destinations
<1>3. CASE CycleBudgetExhausted \/ HardwareHandoff \/ NoValidDecision
  BY <1>1, <1>2, <1>3 DEF CycleBudgetExhausted, HardwareHandoff, NoValidDecision
<1>4. ASSUME ~CycleBudgetTripped, NEW d \in SupervisorDecision, NEW informational \in BOOLEAN,
             NEW rephrased \in BOOLEAN, Decide(Proposal(d, informational), rephrased)
      PROVE  Shape
  <2>1. CASE QuestionsExhausted(Proposal(d, informational), rephrased)
    BY <1>2, <2>1 DEF QuestionsExhausted
  <2>2. ASSUME NEW e, WellFormed(e), Settle(Overridden(e)), WellFormed(Overridden(e))
        PROVE  Shape
    <3>1. CASE LoopDetected(Overridden(e)) \/ HandoffsExhausted(Overridden(e))
      BY <1>2, <3>1 DEF LoopDetected, HandoffsExhausted
    <3>2. CASE Commit(Overridden(e))
      <4>1. node' \in Destinations
        BY <2>2, <3>2, DestinationIsDeclared DEF Commit, GoTo
      <4>2. \E f : WellFormed(f) /\ Commit(Overridden(f)) /\ WellFormed(Overridden(f))
        BY <2>2, <3>2
      <4>3. QED
        BY <1>4, <3>2, <4>1, <4>2 DEF Commit, GoTo
    <3>3. QED
      BY <2>2, <3>1, <3>2 DEF Settle
  <2>3. WellFormed(Proposal(d, informational))
    BY ProposalWellFormed
  <2>4. QED
    BY <1>4, <2>1, <2>2, <2>3, DecideWellFormed
<1>5. QED
  BY <1>1, <1>3, <1>4 DEF supervisor_node

-----------------------------------------------------------------------------
\* The session row and the graph.

(* Before a node pauses for a reply, the row already says so; a reply that *)
(* was lost may have made it active.  A terminal row belongs to a graph    *)
(* that ended, or one that a crash stopped short of its end.               *)
RowInv ==
  /\ phase = "paused" => node \in WaitNodes
  /\ (phase = "running" /\ node \in WaitNodes) => session_row.status = "waiting_employee"
  /\ phase = "paused" =>
       \/ session_row.status = "waiting_employee"
       \/ session_row.status = "active" /\ crashes > 0
  /\ phase \in {"ended", "failed"} => session_row.terminal_status # None
  /\ session_row.terminal_status # None =>
       phase \in {"ended", "failed"} \/ (phase = "idle" /\ crashes > 0)

(* No specialist is called like another node.                              *)
LEMMA SpecialistsAreApart ==
  ASSUME NEW s \in Specialists
  PROVE  s \notin WorkflowNodes \cup {"ingest", "supervisor"}
BY SpecialistsAssumption DEF WorkflowNodes, WaitNodes

(* Every step keeps the row in agreement with the graph.                   *)
LEMMA RowInvStep ==
  ASSUME TypeOK, RowInv, Next
  PROVE  RowInv'
<1> USE DEF RowInv, WaitNodes
<1>1. session_row \in SessionRow /\ crashes \in Nat
  BY DEF TypeOK, RecordTypes, RunTypes
<1>2. ASSUME NEW status \in {"active", "waiting_employee"}, RowStatus(status)
      PROVE  /\ session_row'.status = status
             /\ session_row'.terminal_status = session_row.terminal_status
  BY <1>1, <1>2 DEF RowStatus, SessionRow
<1>3. ASSUME NEW n, Run(n), UNCHANGED session_row, NEW m, GoTo(m), m \notin WaitNodes
      PROVE  RowInv'
  BY <1>3 DEF Run, GoTo
<1>4. CASE StartRun
  BY <1>2, <1>4 DEF StartRun, GoTo, TakesMessage
<1>5. CASE FailSafe
  BY <1>5 DEF FailSafe, ClosedRow, None
<1>6. CASE Crash
  <2>1. PICK row \in RowsLeft : Interrupted(row) /\ session_row' = row
    BY <1>6 DEF Crash
  <2>2. crashes' > 0 /\ phase' = (IF phase = "paused" THEN "paused" ELSE "idle")
    BY <1>1, <1>6 DEF Crash
  <2>3. CASE phase = "paused"
    <3>1. row \in {session_row, StatusNow("active")}
      BY <2>1, <2>3 DEF Interrupted, NothingWritten, QuestionWritten, ReplyWritten,
         ActionWritten, ResolutionWritten, ApprovalWritten, EscalationWritten
    <3>2. StatusNow("active").terminal_status = None /\ StatusNow("active").status = "active"
      BY <1>1, <2>3 DEF StatusNow, SessionRow
    <3>3. node' = node
      BY <2>1 DEF Interrupted
    <3>4. QED
      BY <2>1, <2>2, <2>3, <3>1, <3>2, <3>3
  <2>4. CASE phase # "paused"
    BY <2>2, <2>4
  <2>5. QED
    BY <2>3, <2>4
<1>7. CASE ingest_node
  BY <1>3, <1>7 DEF ingest_node, records
<1>8. CASE supervisor_node
  <2>1. node' \in Destinations /\ phase' = "running" /\ Run("supervisor") /\ UNCHANGED session_row
    BY <1>8, SupervisorStepShape
  <2>2. node' \notin WaitNodes
    BY <2>1, SpecialistsAreApart DEF Destinations, WorkflowNodes
  <2>3. QED
    BY <2>1, <2>2 DEF Run
<1>9. ASSUME NEW s \in Specialists, run_specialist(s) PROVE RowInv'
  BY <1>3, <1>9 DEF run_specialist, records
<1>10. CASE ask_prepare \/ resolution_verify_prepare
  BY <1>2, <1>10 DEF ask_prepare, resolution_verify_prepare, ShowWaiting, Run, GoTo
<1>11. CASE confirmation_prepare
  <2>1. CASE NothingToConfirm \/ SeekApproval \/ RefuseAction
    BY <1>3, <1>11, <2>1
       DEF confirmation_prepare, NothingToConfirm, SeekApproval, RefuseAction
  <2>2. CASE AskConfirmation
    BY <1>2, <1>11, <2>2 DEF confirmation_prepare, AskConfirmation, ShowWaiting, Run, GoTo
  <2>3. QED
    BY <1>11, <2>1, <2>2 DEF confirmation_prepare, CheckedAction
<1>12. CASE execute_action
  BY <1>3, <1>12 DEF execute_action, ActionSucceeded, ActionFailed
<1>13. ASSUME NEW n \in WaitNodes, interrupt(n) PROVE RowInv'
  BY <1>13 DEF interrupt, Run, records
<1>14. ASSUME NEW terminal \in {"resolved", "approval_pending", "escalated"}, NEW status,
              finalize_session(terminal, status)
       PROVE  RowInv'
  BY <1>14 DEF finalize_session, ClosedRow, None
<1>15. CASE resolution_node \/ close_direct_node \/ escalation_node
  BY <1>14, <1>15 DEF resolution_node, close_direct_node, escalation_node
<1>16. ASSUME NEW n, Run(n), NEW trigger, ToEscalation(trigger) PROVE RowInv'
  BY <1>3, <1>16 DEF ToEscalation
<1>17. CASE approval_node
  BY <1>14, <1>16, <1>17
     DEF approval_node, NothingToApprove, ApproverUnresolved, RequestApproval
<1>18. CASE ticket_status_node
  BY <1>3, <1>16, <1>18 DEF ticket_status_node, AnswerTicketStatus, EscalateStaleTicket
<1>19. ASSUME NEW n, Reply(n), NEW m, GoTo(m), m \notin WaitNodes PROVE RowInv'
  BY <1>2, <1>19 DEF Reply, GoTo
<1>20. CASE WaitReply
  BY <1>19, <1>20 DEF WaitReply, ask_wait, confirmation_wait, resolution_verify_wait
<1>21. QED
  BY <1>4, <1>5, <1>6, <1>7, <1>8, <1>9, <1>10, <1>11, <1>12, <1>13, <1>15, <1>17, <1>18, <1>20
     DEF Next, GraphStep

(* The session row agrees with the graph, up to the commits of a superstep *)
(* that died before its checkpoint: an interrupted session is shown as     *)
(* waiting for the employee, or as active once the process died; a graph   *)
(* that ended has a terminal row; and a terminal row leaves nothing        *)
(* running or waiting behind it (finalize_session, _fail_safe, the wait    *)
(* nodes).                                                                 *)
THEOREM RowFollows == Spec => []RowFollowsGraph
<1>1. Init => RowInv
  BY DEF Init, RowInv
<1>2. TypeOK /\ RowInv /\ [Next]_vars => RowInv'
  <2>1. ASSUME RowInv, UNCHANGED vars PROVE RowInv'
    BY <2>1 DEF RowInv, vars, run, records
  <2>2. QED
    BY <2>1, RowInvStep
<1>3. RowInv => RowFollowsGraph
  BY DEF RowInv, RowFollowsGraph
<1>4. QED
  BY <1>1, <1>2, <1>3, TypeCorrect, PTL DEF Spec

-----------------------------------------------------------------------------
\* Consent to a privileged action.

(* The employee is only ever asked about the action under consideration,   *)
(* after a check that granted it; what is asked is what is executed.       *)
Asked ==
  /\ requested_action # None
  /\ confirmation.action = requested_action
  /\ privilege_check.action = requested_action /\ privilege_check.verdict = "granted"

ConsentInv ==
  /\ (phase \in {"running", "paused"} /\ node = "confirmation_wait") => Asked
  /\ ExecutionConsented

(* Every step keeps the chain of check, question, answer and execution.    *)
LEMMA ConsentInvStep ==
  ASSUME TypeOK, RowInv, ConsentInv, Next
  PROVE  ConsentInv'
<1> USE DEF ConsentInv, Asked, ExecutionConsented, WaitNodes
<1>1. ASSUME phase' = "running" => node' \notin {"confirmation_wait", "execute_action"},
             phase' # "paused"
      PROVE  ConsentInv'
  BY <1>1
<1>2. CASE StartRun \/ FailSafe \/ Crash \/ ingest_node
  <2>1. CASE Crash /\ phase = "paused"
    <3>1. PICK row \in RowsLeft : Interrupted(row)
      BY <2>1 DEF Crash
    <3>2. UNCHANGED <<node, requested_action, privilege_check>> /\ phase' = "paused"
      BY <2>1, <3>1 DEF Crash, Interrupted
    <3>3. confirmation'.action = confirmation.action
      BY <2>1, <3>1 DEF Interrupted, NothingWritten, QuestionWritten, ReplyWritten,
         ActionWritten, Executed, ResolutionWritten, ApprovalWritten, EscalationWritten,
         respond_confirmation, TypeOK, ConsentTypes, Confirmation
    <3>4. QED
      BY <2>1, <3>2, <3>3
  <2>2. QED
    BY <1>1, <1>2, <2>1 DEF StartRun, FailSafe, Crash, ingest_node, GoTo
<1>3. CASE supervisor_node
  <2>1. node' \in Destinations /\ phase' = "running"
    BY <1>3, SupervisorStepShape
  <2>2. node' \notin {"confirmation_wait", "execute_action"}
    BY <2>1, SpecialistsAreApart DEF Destinations, WorkflowNodes
  <2>3. QED
    BY <1>1, <2>1, <2>2
<1>4. ASSUME NEW s \in Specialists, run_specialist(s) PROVE ConsentInv'
  BY <1>1, <1>4 DEF run_specialist, GoTo
<1>5. CASE ask_prepare \/ resolution_verify_prepare \/ execute_action
  BY <1>1, <1>5
     DEF ask_prepare, resolution_verify_prepare, execute_action, ActionSucceeded, ActionFailed, GoTo
<1>6. CASE confirmation_prepare
  <2>1. CASE NothingToConfirm \/ SeekApproval \/ RefuseAction
    BY <1>1, <2>1 DEF NothingToConfirm, SeekApproval, RefuseAction, GoTo
  <2>2. CASE CheckedAction /\ AskConfirmation
    <3>1. requested_action' = requested_action /\ requested_action # None
      BY <1>6, <2>2 DEF confirmation_prepare, CheckedAction
    <3>2. privilege_check'.action = requested_action /\ privilege_check'.verdict = "granted"
      BY <2>2 DEF CheckedAction, AskConfirmation, Checks
    <3>3. /\ confirmation'.action = requested_action
          /\ phase' = "running" /\ node' = "confirmation_wait"
      BY <2>2 DEF AskConfirmation, NoConfirmation, GoTo
    <3>4. QED
      BY <3>1, <3>2, <3>3
  <2>3. QED
    BY <1>6, <2>1, <2>2 DEF confirmation_prepare, CheckedAction
<1>7. ASSUME NEW n \in WaitNodes, interrupt(n) PROVE ConsentInv'
  BY <1>7 DEF interrupt, Run, consent
<1>8. CASE ask_wait \/ \E answer \in {"negative", "other"} : resolution_verify_wait(answer)
  BY <1>1, <1>8 DEF ask_wait, resolution_verify_wait, GoTo
<1>9. ASSUME NEW answer \in {"yes", "no"}, confirmation_wait(answer) PROVE ConsentInv'
  <2>1. Asked /\ UNCHANGED <<requested_action, privilege_check>>
    BY <1>9 DEF confirmation_wait, Reply
  <2>2. /\ confirmation'.action = confirmation.action /\ confirmation'.response = answer
        /\ employee_confirmation' = answer
    BY <1>9 DEF confirmation_wait, respond_confirmation, TypeOK, ConsentTypes, Confirmation
  <2>3. phase' = "running" /\ node' = IF answer = "yes" THEN "execute_action" ELSE "supervisor"
    BY <1>9 DEF confirmation_wait, GoTo
  <2>4. QED
    BY <2>1, <2>2, <2>3
<1>10. CASE resolution_node \/ close_direct_node \/ escalation_node
  BY <1>1, <1>10 DEF resolution_node, close_direct_node, escalation_node, finalize_session
<1>11. CASE approval_node
  BY <1>1, <1>11 DEF approval_node, NothingToApprove, ApproverUnresolved, RequestApproval,
     ToEscalation, GoTo, finalize_session
<1>12. CASE ticket_status_node
  BY <1>1, <1>12 DEF ticket_status_node, AnswerTicketStatus, EscalateStaleTicket, ToEscalation, GoTo
<1>13. QED
  BY <1>2, <1>3, <1>4, <1>5, <1>6, <1>7, <1>8, <1>9, <1>10, <1>11, <1>12
     DEF Next, GraphStep, WaitReply

(* A privileged action runs only for the action the employee said yes to,  *)
(* under the confirmation row that names it, and after a check that found  *)
(* the employee entitled to exactly that action (confirmation.py).         *)
THEOREM Consented == Spec => []ExecutionConsented
<1>1. Init => ConsentInv
  BY DEF Init, ConsentInv, ExecutionConsented
<1>2. Init => RowInv
  BY DEF Init, RowInv
<1>3. TypeOK /\ RowInv /\ ConsentInv /\ [Next]_vars => RowInv' /\ ConsentInv'
  <2>1. ASSUME RowInv, ConsentInv, UNCHANGED vars PROVE RowInv' /\ ConsentInv'
    BY <2>1 DEF RowInv, ConsentInv, Asked, ExecutionConsented, vars, run, records, consent
  <2>2. QED
    BY <2>1, RowInvStep, ConsentInvStep
<1>4. ConsentInv => ExecutionConsented
  BY DEF ConsentInv
<1>5. QED
  BY <1>1, <1>2, <1>3, <1>4, TypeCorrect, PTL DEF Spec

-----------------------------------------------------------------------------
\* Security.

(* In a flagged session no sequence of overrides yields anything but the   *)
(* escalation workflow.                                                    *)
LEMMA FlaggedEscalates ==
  ASSUME flagged, NEW d
  PROVE  Destination(Overridden(d)) = "escalation"
<1> DEFINE h == HandoffOverride(FailureOverride(d))
<1>1. Runs(SecurityOverride(h), "escalation")
  BY DEF SecurityOverride, SecurityRequiresHuman, Runs
<1>2. ASSUME NEW e, Runs(e, "escalation")
      PROVE  ActionOverride(e) = e /\ NegativeVeto(e) = e /\ Destination(e) = "escalation"
  BY <1>2 DEF ActionOverride, NegativeVeto, Destination, Runs, Routes
<1>3. QED
  BY <1>1, <1>2 DEF Overridden

(* Every step keeps a flagged session on its way to a human.  That the row *)
(* is not terminal while the graph still runs comes from RowInv.           *)
LEMMA FlaggedStep ==
  ASSUME TypeOK, RowInv, FlaggedNeedsHuman, Next
  PROVE  FlaggedNeedsHuman'
<1> DEFINE HumanNodes == {"ingest", "supervisor", "escalation"}
<1> USE DEF FlaggedNeedsHuman
<1>1. session_row \in SessionRow
  BY DEF TypeOK, RecordTypes
<1>2. ASSUME NEW status \in {"active", "waiting_employee"}, RowStatus(status)
      PROVE  session_row'.terminal_status = session_row.terminal_status
  BY <1>1, <1>2 DEF RowStatus, SessionRow
<1>3. CASE StartRun
  BY <1>2, <1>3 DEF StartRun, GoTo, evidence
<1>4. CASE FailSafe
  BY <1>4, InterruptedTypes DEF FailSafe, ClosedRow, evidence
<1>5. CASE Crash
  <2>1. PICK row \in RowsLeft : Interrupted(row) /\ session_row' = row
    BY <1>5 DEF Crash
  <2>2. UNCHANGED <<flagged, node>>
    BY <2>1 DEF Interrupted, evidence
  <2>3. ASSUME flagged PROVE row.terminal_status \in {None, "escalated", "failed"}
    <3>1. node \in HumanNodes /\ phase # "paused"
      BY <1>5, <2>1, <2>3 DEF Interrupted, Invoked
    <3>2. row \in {session_row, ClosedRow("escalated", "escalated")}
      BY <2>1, <3>1 DEF Interrupted, NothingWritten, QuestionWritten, ReplyWritten,
         ActionWritten, ResolutionWritten, ApprovalWritten, EscalationWritten
    <3>3. QED
      BY <2>3, <3>2 DEF ClosedRow
  <2>4. ASSUME flagged PROVE phase = "running" /\ phase' = "idle"
    BY <1>5, <2>1, <2>4 DEF Crash, Interrupted, Invoked
  <2>5. QED
    BY <2>1, <2>2, <2>3, <2>4
<1>6. CASE ingest_node
  BY <1>6 DEF ingest_node, Run, GoTo, evidence, records
<1>7. CASE supervisor_node
  <2>1. UNCHANGED <<flagged, session_row>> /\ Run("supervisor") /\ phase' = "running"
    BY <1>7, SupervisorStepShape
  <2>2. ASSUME flagged PROVE node' = "escalation"
    <3>1. CASE \E d : Commit(Overridden(d))
      BY <2>2, <3>1, FlaggedEscalates DEF Commit, GoTo
    <3>2. QED
      BY <1>7, <3>1, SupervisorStepShape
  <2>3. QED
    BY <2>1, <2>2 DEF Run
<1>8. ASSUME NEW s \in Specialists, run_specialist(s) PROVE FlaggedNeedsHuman'
  BY <1>8 DEF run_specialist, Run, GoTo, records, RowInv
<1>9. ASSUME NEW n, Run(n), n \notin HumanNodes, UNCHANGED flagged PROVE FlaggedNeedsHuman'
  BY <1>9 DEF Run
<1>10. CASE \/ ask_prepare \/ resolution_verify_prepare \/ execute_action \/ confirmation_prepare
            \/ resolution_node \/ close_direct_node \/ approval_node \/ ticket_status_node
  <2>1. UNCHANGED flagged
    BY <1>10 DEF ask_prepare, resolution_verify_prepare, execute_action, confirmation_prepare,
       resolution_node, close_direct_node, approval_node, ticket_status_node, finalize_session,
       NothingToApprove, ApproverUnresolved, RequestApproval, ToEscalation, AnswerTicketStatus,
       EscalateStaleTicket, evidence
  <2>2. \E n : Run(n) /\ n \notin HumanNodes
    BY <1>10 DEF ask_prepare, resolution_verify_prepare, execute_action, confirmation_prepare,
       resolution_node, close_direct_node, approval_node, ticket_status_node
  <2>3. QED
    BY <1>9, <2>1, <2>2
<1>11. CASE escalation_node
  BY <1>11 DEF escalation_node, finalize_session, ClosedRow, evidence
<1>12. ASSUME NEW n \in WaitNodes, interrupt(n) PROVE FlaggedNeedsHuman'
  BY <1>9, <1>12 DEF interrupt, evidence, WaitNodes
<1>13. CASE WaitReply
  BY <1>13 DEF WaitReply, ask_wait, confirmation_wait, resolution_verify_wait, Reply, evidence
<1>14. QED
  BY <1>3, <1>4, <1>5, <1>6, <1>7, <1>8, <1>10, <1>11, <1>12, <1>13 DEF Next, GraphStep

(* Once a security specialist has asked for a human, the session can only  *)
(* be on its way to the escalation workflow, and can only end there or in  *)
(* the fail-safe (supervisor.py, security_requires_human).                 *)
THEOREM SecurityKept == Spec => []FlaggedNeedsHuman
<1>1. Init => RowInv /\ FlaggedNeedsHuman
  BY DEF Init, RowInv, FlaggedNeedsHuman
<1>2. TypeOK /\ RowInv /\ FlaggedNeedsHuman /\ [Next]_vars => RowInv' /\ FlaggedNeedsHuman'
  <2>1. ASSUME RowInv, FlaggedNeedsHuman, UNCHANGED vars PROVE RowInv' /\ FlaggedNeedsHuman'
    BY <2>1 DEF RowInv, FlaggedNeedsHuman, vars, run, records, evidence
  <2>2. QED
    BY <2>1, RowInvStep, FlaggedStep
<1>3. QED
  BY <1>1, <1>2, TypeCorrect, PTL DEF Spec

-----------------------------------------------------------------------------
\* The length of a run.

(* The supersteps a node may be away from the supervisor step (or the      *)
(* start) that began its cycle.                                            *)
Depth(n) ==
  CASE n \in {"supervisor", "ask_wait", "confirmation_wait", "approval", "execute_action",
              "close_direct"} -> 1
    [] n \in {"resolution_verify_prepare", "resolution", "escalation"} -> 2
    [] n = "resolution_verify_wait" -> 3
    [] OTHER -> 0

(* Each cycle of a run costs the supervisor and at most three more         *)
(* supersteps, and only the last may leave the cycle budget.  Ingestion    *)
(* comes first and starts the count.                                       *)
LengthInv ==
  /\ (phase = "running" /\ node = "ingest") => steps = 0
  /\ (phase = "running" /\ node # "ingest") =>
       /\ supervisor_cycle_count <= MaxSupervisorCycles + 1
       /\ node # "escalation" => supervisor_cycle_count <= MaxSupervisorCycles
       /\ steps <= 2 * supervisor_cycle_count + Depth(node)

(* A node is at most three supersteps deep.                                *)
LEMMA DepthBound ==
  ASSUME NEW n
  PROVE  Depth(n) \in 0 .. 3
BY DEF Depth

(* Where the supervisor leads, a cycle begins again.                       *)
LEMMA DepthOfSpecialist ==
  ASSUME NEW s \in Specialists
  PROVE  Depth(s) = 0
BY SpecialistsAreApart DEF Depth, WorkflowNodes, WaitNodes

(* Every superstep stays within the length its cycle allows.               *)
LEMMA LengthInvStep ==
  ASSUME TypeOK, LengthInv, Next
  PROVE  LengthInv'
<1> USE DEF LengthInv
<1>1. /\ steps \in Nat /\ supervisor_cycle_count \in Nat
      /\ MaxSupervisorCycles \in Nat
  BY LimitsAssumption DEF TypeOK, RunTypes, BudgetTypes
<1>2. ASSUME NEW n, Run(n), n \notin {"ingest", "escalation"}, NEW m, GoTo(m), m # "ingest",
             Depth(n) < Depth(m), UNCHANGED supervisor_cycle_count
      PROVE  LengthInv'
  <2>1. Depth(n) \in Nat /\ Depth(m) \in Nat
    BY DepthBound
  <2>2. /\ steps <= 2 * supervisor_cycle_count + Depth(n)
        /\ supervisor_cycle_count <= MaxSupervisorCycles
    BY <1>2 DEF Run
  <2>3. /\ phase' = "running" /\ node' = m /\ steps' = steps + 1
        /\ supervisor_cycle_count' = supervisor_cycle_count
    BY <1>2 DEF Run, GoTo
  <2>4. steps' <= 2 * supervisor_cycle_count' + Depth(m)
    BY <1>1, <1>2, <2>1, <2>2, <2>3
  <2>5. QED
    BY <1>1, <1>2, <2>2, <2>3, <2>4
<1>3. ASSUME phase' = "running", node' \notin {"ingest", "escalation"}, steps' = 1,
             supervisor_cycle_count' = 0, Depth(node') >= 1
      PROVE  LengthInv'
  <2>1. Depth(node') \in Nat
    BY DepthBound
  <2>2. QED
    BY <1>1, <1>3, <2>1
<1>4. ASSUME phase' # "running" PROVE LengthInv'
  BY <1>4
<1>5. CASE StartRun
  BY <1>5 DEF StartRun, GoTo
<1>6. CASE FailSafe \/ Crash
  BY <1>4, <1>6 DEF FailSafe, Crash
<1>7. CASE ingest_node
  <2>1. steps' = 1 /\ phase' = "running" /\ node' = "supervisor" /\ supervisor_cycle_count' = 0
    BY <1>1, <1>7 DEF ingest_node, Run, GoTo, NewTurn
  <2>2. QED
    BY <1>3, <2>1 DEF Depth
<1>8. CASE supervisor_node
  <2>1. /\ steps' = steps + 1 /\ node = "supervisor" /\ phase = "running"
        /\ steps <= 2 * supervisor_cycle_count + 1
        /\ supervisor_cycle_count <= MaxSupervisorCycles
    BY <1>8 DEF supervisor_node, Run, Depth
  <2>2. supervisor_cycle_count' = supervisor_cycle_count + 1
    BY <1>8, SupervisorStepShape
  <2>3. node' # "ingest"
    BY <1>8, SupervisorStepShape, SpecialistsAreApart DEF Destinations
  <2>4. node' # "escalation" => supervisor_cycle_count + 1 <= MaxSupervisorCycles
    BY <1>1, <1>8, SupervisorStepShape DEF CycleBudgetTripped
  <2>5. Depth(node') \in Nat
    BY DepthBound
  <2>6. steps' <= 2 * supervisor_cycle_count' + Depth(node')
    BY <1>1, <2>1, <2>2, <2>5
  <2>7. QED
    BY <1>1, <2>1, <2>2, <2>3, <2>4, <2>6
<1>9. ASSUME NEW s \in Specialists, run_specialist(s) PROVE LengthInv'
  <2>1. Depth(s) < Depth("supervisor")
    BY DepthOfSpecialist DEF Depth
  <2>2. s \notin {"ingest", "escalation"}
    BY SpecialistsAreApart DEF WorkflowNodes
  <2>3. QED
    BY <1>2, <1>9, <2>1, <2>2 DEF run_specialist, turn
<1>10. CASE ask_prepare \/ resolution_verify_prepare
  BY <1>2, <1>10 DEF ask_prepare, resolution_verify_prepare, Depth, budgets, turn
<1>11. CASE confirmation_prepare
  BY <1>2, <1>11 DEF confirmation_prepare, NothingToConfirm, CheckedAction, AskConfirmation,
     SeekApproval, RefuseAction, Depth, budgets, turn
<1>12. CASE execute_action
  BY <1>2, <1>12 DEF execute_action, ActionSucceeded, ActionFailed, Depth, budgets, turn
<1>13. CASE approval_node \/ ticket_status_node
  <2>1. ASSUME NEW n \in {"approval", "ticket_status"}, Run(n), NEW trigger, ToEscalation(trigger)
        PROVE  LengthInv'
    BY <1>2, <2>1 DEF ToEscalation, Depth, budgets, turn
  <2>2. CASE ticket_status_node /\ AnswerTicketStatus
    BY <1>2, <2>2 DEF ticket_status_node, AnswerTicketStatus, Depth, budgets, turn
  <2>3. CASE RequestApproval
    BY <1>4, <2>3 DEF RequestApproval, finalize_session
  <2>4. QED
    BY <1>13, <2>1, <2>2, <2>3 DEF approval_node, ticket_status_node, NothingToApprove,
       ApproverUnresolved, EscalateStaleTicket
<1>14. CASE resolution_node \/ close_direct_node \/ escalation_node
  BY <1>4, <1>14 DEF resolution_node, close_direct_node, escalation_node, finalize_session
<1>15. ASSUME NEW n \in WaitNodes, interrupt(n) PROVE LengthInv'
  BY <1>4, <1>15 DEF interrupt
<1>16. CASE WaitReply
  BY <1>3, <1>16 DEF WaitReply, ask_wait, confirmation_wait, resolution_verify_wait, Reply,
     NewTurn, GoTo, Depth
<1>17. QED
  BY <1>5, <1>6, <1>7, <1>8, <1>9, <1>10, <1>11, <1>12, <1>13, <1>14, <1>15, <1>16
     DEF Next, GraphStep

(* In-graph budgets always trip first: however the specialists and the     *)
(* model behave, no run reaches the recursion limit the dispatcher passes  *)
(* to the graph, so GraphRecursionError is never the reason for a          *)
(* fail-safe (dispatcher.py, _config).                                     *)
THEOREM RunBounded == Spec => []RunWithinRecursionLimit
<1>1. Init => LengthInv
  BY DEF Init, LengthInv
<1>2. TypeOK /\ LengthInv /\ [Next]_vars => LengthInv'
  <2>1. ASSUME LengthInv, UNCHANGED vars PROVE LengthInv'
    BY <2>1 DEF LengthInv, vars, run, budgets, turn
  <2>2. QED
    BY <2>1, LengthInvStep
<1>3. TypeOK /\ LengthInv => RunWithinRecursionLimit
  <2>1. Depth(node) \in 0 .. 3
    BY DepthBound
  <2>2. QED
    BY <2>1, LimitsAssumption
       DEF TypeOK, RunTypes, BudgetTypes, LengthInv, RunWithinRecursionLimit, RecursionLimit
<1>4. QED
  BY <1>1, <1>2, <1>3, TypeCorrect, PTL DEF Spec
-----------------------------------------------------------------------------
\* One execution per confirmation.

(* Whoever is asked, is asked under a row that nothing was executed under. *)
UnusedInv ==
  /\ confirmation.executions <= 1
  /\ (phase \in {"running", "paused"} /\ node \in {"confirmation_wait", "execute_action"})
       => confirmation.executions = 0

(* Every step keeps the row that waits for its execution unused.           *)
LEMMA UnusedInvStep ==
  ASSUME TypeOK, RowInv, UnusedInv, Next
  PROVE  UnusedInv'
<1> USE DEF UnusedInv
<1>1. confirmation \in Confirmation
  BY DEF TypeOK, ConsentTypes
<1>2. ASSUME UNCHANGED confirmation, phase' \in {"running", "paused"} =>
                node' \notin {"confirmation_wait", "execute_action"}
      PROVE  UnusedInv'
  BY <1>2
<1>3. ASSUME phase = "running", node = "execute_action", Executed,
             phase' # "running" \/ node' \notin {"confirmation_wait", "execute_action"},
             phase' # "paused"
      PROVE  UnusedInv'
  BY <1>1, <1>3 DEF Executed, Confirmation
<1>4. CASE StartRun \/ ingest_node
  BY <1>2, <1>4 DEF StartRun, ingest_node, GoTo, consent
<1>5. CASE FailSafe \/ Crash
  <2>1. PICK row \in RowsLeft : Interrupted(row)
    BY <1>5 DEF FailSafe, Crash
  <2>2. phase' \in {"failed", "idle", "paused"} /\ node' = node
    BY <1>5, <2>1 DEF FailSafe, Crash, Interrupted
  <2>3. phase' = "paused" => phase = "paused"
    BY <1>5 DEF FailSafe, Crash
  <2>4. \/ UNCHANGED confirmation
        \/ phase = "paused" /\ \E answer \in {"yes", "no"} : respond_confirmation(answer)
        \/ node = "execute_action" /\ Executed
    BY <2>1 DEF Interrupted, NothingWritten, QuestionWritten, ReplyWritten, ActionWritten,
       ResolutionWritten, ApprovalWritten, EscalationWritten
  <2>5. CASE UNCHANGED confirmation
    BY <2>2, <2>3, <2>5
  <2>6. ASSUME NEW answer \in {"yes", "no"}, respond_confirmation(answer), phase = "paused"
        PROVE  UnusedInv'
    <3>1. confirmation'.executions = confirmation.executions
      BY <1>1, <2>6 DEF respond_confirmation, Confirmation
    <3>2. QED
      BY <2>2, <2>6, <3>1
  <2>7. CASE node = "execute_action" /\ Executed
    <3>1. phase = "running"
      BY <2>1, <2>7 DEF Interrupted, Invoked, RowInv, WaitNodes
    <3>2. QED
      BY <1>3, <2>2, <2>3, <2>7, <3>1
  <2>8. QED
    BY <2>4, <2>5, <2>6, <2>7
<1>6. CASE supervisor_node
  <2>1. node' \in Destinations /\ UNCHANGED confirmation
    BY <1>6, SupervisorStepShape DEF consent
  <2>2. node' \notin {"confirmation_wait", "execute_action"}
    BY <2>1, SpecialistsAreApart DEF Destinations, WorkflowNodes, WaitNodes
  <2>3. QED
    BY <1>2, <2>1, <2>2
<1>7. ASSUME NEW s \in Specialists, run_specialist(s) PROVE UnusedInv'
  BY <1>2, <1>7 DEF run_specialist, GoTo
<1>8. CASE ask_prepare \/ resolution_verify_prepare
  BY <1>2, <1>8 DEF ask_prepare, resolution_verify_prepare, GoTo, consent
<1>9. CASE confirmation_prepare
  <2>1. CASE NothingToConfirm \/ SeekApproval \/ RefuseAction
    BY <1>2, <2>1 DEF NothingToConfirm, SeekApproval, RefuseAction, GoTo
  <2>2. CASE AskConfirmation
    BY <2>2 DEF AskConfirmation, NoConfirmation
  <2>3. QED
    BY <1>9, <2>1, <2>2 DEF confirmation_prepare, CheckedAction
<1>10. CASE execute_action
  BY <1>3, <1>10 DEF execute_action, ActionSucceeded, ActionFailed, Run, GoTo
<1>11. ASSUME NEW n \in WaitNodes, interrupt(n) PROVE UnusedInv'
  BY <1>11 DEF interrupt, Run, consent, WaitNodes
<1>12. CASE ask_wait \/ \E answer \in {"negative", "other"} : resolution_verify_wait(answer)
  BY <1>2, <1>12 DEF ask_wait, resolution_verify_wait, GoTo
<1>13. ASSUME NEW answer \in {"yes", "no"}, confirmation_wait(answer) PROVE UnusedInv'
  <2>1. confirmation.executions = 0
    BY <1>13 DEF confirmation_wait, Reply
  <2>2. confirmation'.executions = confirmation.executions
    BY <1>1, <1>13 DEF confirmation_wait, respond_confirmation, Confirmation
  <2>3. QED
    BY <2>1, <2>2
<1>14. CASE \/ resolution_node \/ close_direct_node \/ escalation_node \/ RequestApproval
  BY <1>2, <1>14 DEF resolution_node, close_direct_node, escalation_node, RequestApproval,
     finalize_session, consent
<1>15. CASE approval_node \/ ticket_status_node
  BY <1>2, <1>14, <1>15 DEF approval_node, ticket_status_node, NothingToApprove,
     ApproverUnresolved, AnswerTicketStatus, EscalateStaleTicket, ToEscalation, GoTo, consent
<1>16. QED
  BY <1>4, <1>5, <1>6, <1>7, <1>8, <1>9, <1>10, <1>11, <1>12, <1>13, <1>14, <1>15
     DEF Next, GraphStep, WaitReply

(* One yes runs the action at most once, even if the process dies around   *)
(* the execution and the employee writes again (confirmation.py,           *)
(* execute_action).                                                        *)
THEOREM ExecutedOnce == Spec => []ExecutedOncePerConfirmation
<1>1. Init => RowInv /\ UnusedInv
  BY DEF Init, RowInv, UnusedInv, NoConfirmation
<1>2. TypeOK /\ RowInv /\ UnusedInv /\ [Next]_vars => RowInv' /\ UnusedInv'
  <2>1. ASSUME RowInv, UnusedInv, UNCHANGED vars PROVE RowInv' /\ UnusedInv'
    BY <2>1 DEF RowInv, UnusedInv, vars, run, consent, records
  <2>2. QED
    BY <2>1, RowInvStep, UnusedInvStep
<1>3. UnusedInv => ExecutedOncePerConfirmation
  BY DEF UnusedInv, ExecutedOncePerConfirmation
<1>4. QED
  BY <1>1, <1>2, <1>3, TypeCorrect, PTL DEF Spec

-----------------------------------------------------------------------------
\* The outcome is tracked.

(* Nobody is asked to approve before the session ends on the request, or   *)
(* stops in making it.                                                     *)
OutcomeInv ==
  /\ phase \notin {"ended", "failed"} => approval = NoApproval \/ crashes > 0
  /\ OutcomeIsTracked

(* Every step keeps the outcome and the rows that track it together.       *)
LEMMA OutcomeInvStep ==
  ASSUME TypeOK, OutcomeInv, Next
  PROVE  OutcomeInv'
<1> USE DEF OutcomeInv
<1>1. ASSUME NEW n, Run(n) \/ Reply(n), phase' # "ended", UNCHANGED approval PROVE OutcomeInv'
  BY <1>1 DEF Run, Reply, OutcomeIsTracked
<1>2. CASE StartRun \/ FailSafe \/ Crash
  <2>1. crashes \in Nat
    BY DEF TypeOK, RunTypes
  <2>2. CASE StartRun
    BY <2>2 DEF StartRun, GoTo, OutcomeIsTracked
  <2>3. CASE FailSafe \/ Crash
    BY <2>1, <2>3 DEF FailSafe, Crash, OutcomeIsTracked
  <2>4. QED
    BY <1>2, <2>2, <2>3
<1>3. CASE ingest_node \/ \E s \in Specialists : run_specialist(s)
  BY <1>1, <1>3 DEF ingest_node, run_specialist, GoTo, records
<1>4. CASE supervisor_node
  BY <1>1, <1>4, SupervisorStepShape
<1>5. CASE ask_prepare \/ resolution_verify_prepare \/ execute_action
  BY <1>1, <1>5 DEF ask_prepare, resolution_verify_prepare, execute_action, ActionSucceeded,
     ActionFailed, GoTo
<1>6. CASE confirmation_prepare
  BY <1>1, <1>6 DEF confirmation_prepare, CheckedAction, NothingToConfirm, AskConfirmation,
     SeekApproval, RefuseAction, GoTo
<1>7. CASE (\E n \in WaitNodes : interrupt(n)) \/ WaitReply
  BY <1>1, <1>7 DEF interrupt, records, WaitReply, ask_wait, confirmation_wait,
     resolution_verify_wait, Reply, GoTo
<1>8. CASE ticket_status_node
  BY <1>1, <1>8 DEF ticket_status_node, AnswerTicketStatus, EscalateStaleTicket, ToEscalation, GoTo
<1>9. ASSUME NEW terminal, NEW status, finalize_session(terminal, status)
      PROVE  phase' = "ended" /\ session_row'.terminal_status = terminal
  BY <1>9 DEF finalize_session, ClosedRow
<1>10. ASSUME NEW status \in {"escalated", "waiting_approval"}, NEW security
       PROVE  TicketAt(status, security).status = status
  BY DEF TypeOK, RecordTypes, TicketAt, Ticket
<1>11. CASE resolution_node \/ close_direct_node
  BY <1>9, <1>11 DEF resolution_node, close_direct_node, Run, OutcomeIsTracked
<1>12. CASE escalation_node
  BY <1>9, <1>10, <1>12 DEF escalation_node, EscalateTicket, Run, OutcomeIsTracked
<1>13. CASE approval_node
  <2>1. CASE NothingToApprove \/ ApproverUnresolved
    BY <1>1, <1>13, <2>1
       DEF approval_node, NothingToApprove, ApproverUnresolved, ToEscalation, GoTo
  <2>2. CASE RequestApproval
    <3>1. /\ phase' = "ended" /\ session_row'.terminal_status = "approval_pending"
          /\ ticket'.status = "waiting_approval"
      BY <1>9, <1>10, <2>2 DEF RequestApproval
    <3>2. approval'.action = requested_action' /\ approval'.action # None
      BY <2>2 DEF RequestApproval, create_approval_request, finalize_session, consent
    <3>3. QED
      BY <3>1, <3>2 DEF OutcomeIsTracked
  <2>3. QED
    BY <1>13, <2>1, <2>2 DEF approval_node
<1>14. QED
  BY <1>2, <1>3, <1>4, <1>5, <1>6, <1>7, <1>8, <1>11, <1>12, <1>13 DEF Next, GraphStep

(* An escalated session leaves an escalated ticket, and a session that     *)
(* waits for approval leaves its ticket and the request for the action the *)
(* specialist asked for (escalation.py, approval.py).                      *)
THEOREM OutcomeTracked == Spec => []OutcomeIsTracked
<1>1. Init => OutcomeInv
  BY DEF Init, OutcomeInv, OutcomeIsTracked
<1>2. TypeOK /\ OutcomeInv /\ [Next]_vars => OutcomeInv'
  <2>1. ASSUME OutcomeInv, UNCHANGED vars PROVE OutcomeInv'
    BY <2>1 DEF OutcomeInv, OutcomeIsTracked, vars, run, records, consent
  <2>2. QED
    BY <2>1, OutcomeInvStep
<1>3. OutcomeInv => OutcomeIsTracked
  BY DEF OutcomeInv
<1>4. QED
  BY <1>1, <1>2, <1>3, TypeCorrect, PTL DEF Spec

-----------------------------------------------------------------------------
\* The approver.

(* With no crash between, an approver found by a check is on the way to    *)
(* the request for the very action that was checked.                       *)
ApproverInv ==
  crashes = 0 =>
    /\ approval.action = approval.approver_for
    /\ (phase \in {"running", "paused", "idle"} /\ privilege_check.approver) =>
         /\ phase = "running" /\ node \in {"approval", "escalation"}
         /\ node = "approval" => privilege_check.action = requested_action

(* Every step keeps the approver with the action.                          *)
LEMMA ApproverInvStep ==
  ASSUME TypeOK, ApproverInv, Next
  PROVE  ApproverInv'
<1> USE DEF ApproverInv
<1>1. ASSUME NEW n, Run(n) \/ Reply(n), n \notin {"approval", "escalation"}, UNCHANGED approval,
             UNCHANGED privilege_check
      PROVE  ApproverInv'
  BY <1>1 DEF Run, Reply
<1>2. CASE StartRun
  BY <1>2 DEF StartRun, consent
<1>3. CASE FailSafe
  <2>1. PICK row \in RowsLeft : Interrupted(row)
    BY <1>3 DEF FailSafe
  <2>2. crashes = 0 => approval'.action = approval'.approver_for
    <3>1. CASE ApprovalWritten(row) /\ create_approval_request
      <4>1. node = "approval" /\ phase \in {"running", "paused"}
        BY <2>1, <3>1 DEF ApprovalWritten, Interrupted, Invoked
      <4>2. QED
        BY <3>1, <4>1 DEF create_approval_request
    <3>2. CASE UNCHANGED approval
      BY <3>2
    <3>3. QED
      BY <2>1, <3>1, <3>2 DEF Interrupted, NothingWritten, QuestionWritten, ReplyWritten,
         ActionWritten, ResolutionWritten, ApprovalWritten, EscalationWritten
  <2>3. QED
    BY <1>3, <2>2 DEF FailSafe
<1>4. CASE Crash
  BY <1>4 DEF Crash, TypeOK, RunTypes
<1>5. CASE ingest_node
  BY <1>1, <1>5 DEF ingest_node, records
<1>6. ASSUME NEW s \in Specialists, run_specialist(s) PROVE ApproverInv'
  BY <1>1, <1>6, SpecialistsAreApart DEF run_specialist, WorkflowNodes, records
<1>7. CASE supervisor_node
  BY <1>1, <1>7, SupervisorStepShape DEF consent
<1>8. CASE ask_prepare \/ resolution_verify_prepare \/ execute_action
  BY <1>1, <1>8 DEF ask_prepare, resolution_verify_prepare, execute_action, consent
<1>9. CASE confirmation_prepare
  <2>1. UNCHANGED approval /\ UNCHANGED crashes /\ UNCHANGED requested_action
    BY <1>9 DEF confirmation_prepare, Run
  <2>2. CASE NothingToConfirm
    BY <1>1, <1>9, <2>2 DEF confirmation_prepare, NothingToConfirm
  <2>3. CASE CheckedAction
    <3>1. CASE AskConfirmation \/ RefuseAction
      <4>1. ~privilege_check'.approver
        BY <2>3, <3>1 DEF CheckedAction, AskConfirmation, RefuseAction, Checks
      <4>2. QED
        BY <2>1, <4>1
    <3>2. CASE SeekApproval
      <4>1. /\ privilege_check'.action = requested_action
            /\ phase' = "running" /\ node' = "approval"
        BY <2>3, <3>2 DEF CheckedAction, SeekApproval, Checks, GoTo
      <4>2. QED
        BY <2>1, <4>1
    <3>3. QED
      BY <2>3, <3>1, <3>2 DEF CheckedAction
  <2>4. QED
    BY <1>9, <2>2, <2>3 DEF confirmation_prepare
<1>10. CASE (\E n \in WaitNodes : interrupt(n)) \/ WaitReply
  BY <1>1, <1>10 DEF interrupt, WaitNodes, consent, records, WaitReply, ask_wait,
     confirmation_wait, resolution_verify_wait, Reply
<1>11. CASE ticket_status_node
  BY <1>1, <1>11 DEF ticket_status_node, AnswerTicketStatus, EscalateStaleTicket, ToEscalation, consent
<1>12. ASSUME NEW terminal, NEW status, finalize_session(terminal, status),
              UNCHANGED approval, UNCHANGED crashes
       PROVE  ApproverInv'
  BY <1>12 DEF finalize_session
<1>13. CASE resolution_node \/ close_direct_node \/ escalation_node
  BY <1>12, <1>13 DEF resolution_node, close_direct_node, escalation_node, Run
<1>14. CASE approval_node
  <2>1. CASE NothingToApprove \/ ApproverUnresolved
    BY <1>14, <2>1 DEF approval_node, NothingToApprove, ApproverUnresolved, ToEscalation, Run,
       GoTo, consent
  <2>2. CASE RequestApproval
    BY <1>14, <2>2 DEF approval_node, RequestApproval, create_approval_request, finalize_session, Run
  <2>3. QED
    BY <1>14, <2>1, <2>2 DEF approval_node
<1>15. QED
  BY <1>2, <1>3, <1>4, <1>5, <1>6, <1>7, <1>8, <1>9, <1>10, <1>11, <1>13, <1>14
     DEF Next, GraphStep

(* With no crash between, an approver who is asked about an action was     *)
(* looked up for that action and not for one requested earlier             *)
(* (approval.py, approval_node).                                           *)
THEOREM ApproverMatches == Spec => []ApproverMatchesAction
<1>1. Init => ApproverInv
  BY DEF Init, ApproverInv, NoApproval, NoCheck
<1>2. TypeOK /\ ApproverInv /\ [Next]_vars => ApproverInv'
  <2>1. ASSUME ApproverInv, UNCHANGED vars PROVE ApproverInv'
    BY <2>1 DEF ApproverInv, vars, run, records, consent
  <2>2. QED
    BY <2>1, ApproverInvStep
<1>3. ApproverInv => ApproverMatchesAction
  BY DEF ApproverInv, ApproverMatchesAction
<1>4. QED
  BY <1>1, <1>2, <1>3, TypeCorrect, PTL DEF Spec

-----------------------------------------------------------------------------
\* Handoffs and failures.

(* A run that stays at the supervisor's successor came by the supervisor.  *)
LEMMA SupervisorSteps ==
  ASSUME SupervisorStep, Next
  PROVE  supervisor_node
<1>1. ASSUME NEW n, Run(n) PROVE n = "supervisor"
  BY <1>1 DEF Run, SupervisorStep
<1>2. ~StartRun /\ ~FailSafe /\ ~Crash /\ ~WaitReply
  BY DEF SupervisorStep, StartRun, FailSafe, Crash, WaitReply, ask_wait, confirmation_wait,
     resolution_verify_wait, Reply
<1>3. ~ \E s \in Specialists : run_specialist(s)
  BY <1>1, SpecialistsAreApart DEF run_specialist
<1>4. ~ \E n \in WaitNodes : interrupt(n)
  BY <1>1 DEF interrupt, WaitNodes
<1>5. QED
  BY <1>1, <1>2, <1>3, <1>4 DEF Next, GraphStep, ingest_node, ask_prepare, confirmation_prepare,
     execute_action, resolution_verify_prepare, ticket_status_node, resolution_node,
     close_direct_node, approval_node, escalation_node

(* A validated handoff names its target.                                   *)
HandoffNamed == latest.outcome = "handoff_recommended" => latest.target # None

(* Only a specialist's result changes the handoff on record.               *)
LEMMA HandoffNamedStep ==
  ASSUME TypeOK, HandoffNamed, Next
  PROVE  HandoffNamed'
<1> USE DEF HandoffNamed
<1>1. ASSUME UNCHANGED latest PROVE HandoffNamed'
  BY <1>1
<1>2. ASSUME NEW s \in Specialists, run_specialist(s) PROVE HandoffNamed'
  BY <1>1, <1>2 DEF run_specialist, SpecialistResult, SpecialistFailed
<1>3. CASE supervisor_node
  BY <1>1, <1>3, SupervisorStepShape
<1>4. CASE StartRun \/ FailSafe \/ Crash \/ WaitReply
  BY <1>1, <1>4 DEF StartRun, FailSafe, Crash, Interrupted, WaitReply, ask_wait, confirmation_wait,
     resolution_verify_wait, Reply, evidence
<1>5. CASE GraphStep /\ ~supervisor_node /\ ~ \E s \in Specialists : run_specialist(s)
  BY <1>1, <1>5 DEF GraphStep, ingest_node, ask_prepare, confirmation_prepare, execute_action,
     resolution_verify_prepare, interrupt, ticket_status_node, AnswerTicketStatus,
     EscalateStaleTicket, ToEscalation, resolution_node, close_direct_node, approval_node,
     NothingToApprove, ApproverUnresolved, RequestApproval, escalation_node, finalize_session,
     evidence
<1>6. QED
  BY <1>2, <1>3, <1>4, <1>5 DEF Next

(* A pending handoff survives the overrides, whatever was decided, unless  *)
(* security asked for a human.                                             *)
LEMMA HandoffSurvives ==
  ASSUME NEW d, WellFormed(d), PendingHandoffTarget # None, ~flagged
  PROVE  Routes(Overridden(d)) /\ Overridden(d).target = PendingHandoffTarget
<1> DEFINE f == FailureOverride(d)
           h == HandoffOverride(f)
<1>1. WellFormed(f)
  BY DEF WellFormed, FailureOverride, DecisionKinds, Maybe, Workflows
<1>2. h.kind = "route_to_specialist" /\ h.target = PendingHandoffTarget
  <2>1. CASE Routes(f) /\ f.target = PendingHandoffTarget
    BY <2>1 DEF HandoffOverride, Routes
  <2>2. CASE ~(Routes(f) /\ f.target = PendingHandoffTarget)
    <3>1. h = [f EXCEPT !.kind = "route_to_specialist", !.target = PendingHandoffTarget,
                        !.workflow = None, !.category = PendingHandoffTarget]
      BY <2>2 DEF HandoffOverride
    <3>2. QED
      BY <1>1, <3>1 DEF WellFormed
  <2>3. QED
    BY <2>1, <2>2
<1>3. SecurityOverride(h) = h
  BY DEF SecurityOverride, SecurityRequiresHuman
<1>4. ActionOverride(h) = h /\ NegativeVeto(h) = h
  BY <1>2 DEF ActionOverride, NegativeVeto, Runs
<1>5. QED
  BY <1>2, <1>3, <1>4 DEF Overridden, Routes

(* A supervisor step with a handoff pending leads to its target, is        *)
(* stopped for one of the reasons named, or refuses a question.            *)
LEMMA SupervisorHonours ==
  ASSUME TypeOK, supervisor_node, PendingHandoffTarget # None
  PROVE  node' = latest.target \/ HandoffStopped \/ QuestionRefused
<1> DEFINE Honoured == node' = latest.target \/ HandoffStopped \/ QuestionRefused
<1>1. latest.outcome = "handoff_recommended" /\ PendingHandoffTarget = latest.target
  BY DEF PendingHandoffTarget
<1>2. ASSUME NEW trigger, EscalateFor(trigger)
      PROVE  node' = "escalation" /\ escalation_trigger' = trigger
  BY <1>2 DEF EscalateFor, GoTo
<1>3. CASE CycleBudgetExhausted
  BY <1>2, <1>3 DEF CycleBudgetExhausted, HandoffStopped
<1>4. ~HardwareHandoff
  BY <1>1 DEF HardwareHandoff, EndpointDamagePossible
<1>5. CASE NoValidDecision
  BY <1>2, <1>5 DEF NoValidDecision, HandoffStopped, GaveUpFor
<1>6. ASSUME NEW d \in SupervisorDecision, NEW informational \in BOOLEAN,
             NEW rephrased \in BOOLEAN, rephrased => turn_index > 1,
             Decide(Proposal(d, informational), rephrased)
      PROVE  Honoured
  <2> DEFINE p == Proposal(d, informational)
  <2>1. CASE QuestionsExhausted(p, rephrased)
    BY <1>2, <1>6, <2>1 DEF QuestionsExhausted, InformationRequestTripped, QuestionRefused, GaveUpFor
  <2>2. ASSUME NEW e, WellFormed(e), Settle(Overridden(e)) PROVE Honoured
    <3> DEFINE o == Overridden(e)
    <3>1. CASE flagged
      <4>1. node' = "escalation"
        BY <1>2, <2>2, <3>1, FlaggedEscalates
           DEF Settle, LoopDetected, HandoffsExhausted, Commit, GoTo
      <4>2. QED
        BY <3>1, <4>1 DEF HandoffStopped
    <3>2. CASE ~flagged
      <4>1. Routes(o) /\ o.target = latest.target
        BY <1>1, <2>2, <3>2, HandoffSurvives
      <4>2. latest.target # None
        BY <1>1
      <4>3. CASE LoopDetected(o)
        <5>1. DecisionSignature(o) = <<"route_to_specialist", latest.target, "handoff_recommended">>
          BY <1>1, <4>1, <4>2 DEF DecisionSignature, Routes
        <5>2. QED
          BY <1>2, <4>3, <5>1 DEF LoopDetected, LoopSignatureTripped, HandoffStopped
      <4>4. CASE HandoffsExhausted(o)
        BY <1>2, <4>1, <4>4 DEF HandoffsExhausted, HandoffStopped
      <4>5. CASE Commit(o)
        <5>1. Destination(o) = latest.target
          BY <4>1 DEF Destination, Routes, Runs
        <5>2. node' = Destination(o)
          BY <4>5 DEF Commit, GoTo
        <5>3. QED
          BY <5>1, <5>2
      <4>6. QED
        BY <2>2, <4>3, <4>4, <4>5 DEF Settle
    <3>3. QED
      BY <3>1, <3>2
  <2>3. WellFormed(p)
    BY ProposalWellFormed
  <2>4. QED
    BY <1>6, <2>1, <2>2, <2>3, DecideWellFormed
<1>7. QED
  BY <1>3, <1>4, <1>5, <1>6 DEF supervisor_node

(* A pending handoff goes to its target, and to a human only for a spent   *)
(* budget, a repeated route, the security invariant or a step without a    *)
(* valid decision - or because the model asked a question that may not be  *)
(* asked again - never to a question, a resolution, another specialist or  *)
(* an escalation of the model's choice (supervisor.py,                     *)
(* pending_handoff_target).                                                *)
THEOREM HandoffsHonoured == Spec => HandoffHonoured
<1>1. Init => HandoffNamed
  BY DEF Init, HandoffNamed, NoResult, None
<1>2. TypeOK /\ HandoffNamed /\ [Next]_vars => HandoffNamed'
  <2>1. ASSUME HandoffNamed, UNCHANGED vars PROVE HandoffNamed'
    BY <2>1 DEF HandoffNamed, vars, evidence
  <2>2. QED
    BY <2>1, HandoffNamedStep
<1>3. TypeOK /\ HandoffNamed /\ [Next]_vars =>
        [(SupervisorStep /\ HandoffPending)
           => node' = latest.target \/ HandoffStopped \/ QuestionRefused]_vars
  <2>1. ASSUME TypeOK, HandoffNamed, Next, SupervisorStep, HandoffPending
        PROVE  node' = latest.target \/ HandoffStopped \/ QuestionRefused
    <3>1. PendingHandoffTarget # None
      BY <2>1 DEF PendingHandoffTarget, HandoffPending, HandoffNamed
    <3>2. QED
      BY <2>1, <3>1, SupervisorSteps, SupervisorHonours
  <2>2. QED
    BY <2>1
<1>4. QED
  BY <1>1, <1>2, <1>3, TypeCorrect, PTL DEF Spec, HandoffHonoured

(* With no crash between, a specialist who runs while a handoff is pending *)
(* is its target; so a failed specialist leaves none pending, and the      *)
(* session can only go to a human.                                         *)
FailureInv ==
  crashes = 0 =>
    /\ (phase = "running" /\ node \in Specialists) => PendingHandoffTarget \in {None, node}
    /\ (phase = "running" /\ last_failure = "structured_output") =>
         /\ node \in {"supervisor", "escalation"}
         /\ node = "supervisor" => PendingHandoffTarget = None
    /\ phase \in {"idle", "paused"} => last_failure # "structured_output"

(* With the last specialist failed and no handoff pending, the overrides   *)
(* leave nothing but the escalation workflow.                              *)
LEMMA FailureEscalates ==
  ASSUME NEW d, WellFormed(d), last_failure = "structured_output", PendingHandoffTarget = None
  PROVE  Destination(Overridden(d)) = "escalation"
<1> DEFINE f == FailureOverride(d)
<1>1. f.kind = "run_workflow" /\ f.workflow = "escalation"
  BY DEF FailureOverride, WellFormed
<1>2. HandoffOverride(f) = f
  BY DEF HandoffOverride
<1>3. SecurityOverride(f) = f /\ ActionOverride(f) = f /\ NegativeVeto(f) = f
  BY <1>1 DEF SecurityOverride, ActionOverride, NegativeVeto, Runs
<1>4. Overridden(d) = f
  BY <1>2, <1>3 DEF Overridden
<1>5. Destination(f) = "escalation"
  BY <1>1 DEF Destination, Routes, Runs
<1>6. QED
  BY <1>4, <1>5

(* A supervisor step after a failed specialist leads to a human.           *)
LEMMA SupervisorEscalatesFailure ==
  ASSUME TypeOK, supervisor_node, last_failure = "structured_output", PendingHandoffTarget = None
  PROVE  node' = "escalation"
<1>1. CASE node' = "escalation"
  BY <1>1
<1>2. ASSUME NEW d, WellFormed(d), Commit(Overridden(d))
      PROVE  node' = "escalation"
  BY <1>2, FailureEscalates DEF Commit, GoTo
<1>3. QED
  BY <1>1, <1>2, SupervisorStepShape

(* Every step keeps failures on the way to a human.                        *)
LEMMA FailureInvStep ==
  ASSUME TypeOK, FailureInv, Next
  PROVE  FailureInv'
<1> USE DEF FailureInv
<1>1. ASSUME UNCHANGED evidence PROVE PendingHandoffTarget' = PendingHandoffTarget
  BY <1>1 DEF PendingHandoffTarget, evidence
<1>2. ASSUME NEW n, Run(n) \/ Reply(n), n \notin {"supervisor", "escalation"} \cup Specialists,
             UNCHANGED evidence,
             node' \notin Specialists
      PROVE  FailureInv'
  <2>1. crashes = 0 => last_failure # "structured_output"
    BY <1>2 DEF Run, Reply
  <2>2. QED
    BY <1>2, <2>1 DEF evidence, Run, Reply
<1>3. CASE StartRun
  BY <1>3, SpecialistsAreApart DEF StartRun, GoTo, evidence, WorkflowNodes
<1>4. CASE FailSafe
  BY <1>4 DEF FailSafe
<1>5. CASE Crash
  BY <1>5 DEF Crash, TypeOK, RunTypes
<1>6. CASE supervisor_node
  <2>1. /\ Run("supervisor") /\ phase' = "running"
        /\ UNCHANGED <<previous_agents, last_agent, latest>>
        /\ node' = "escalation" \/ UNCHANGED last_failure
    BY <1>6, SupervisorStepShape
  <2>2. PendingHandoffTarget' = PendingHandoffTarget
    BY <2>1 DEF PendingHandoffTarget
  <2>3. PendingHandoffTarget # None => node' \in {PendingHandoffTarget, "escalation"}
    BY <1>6, SupervisorHonours DEF HandoffStopped, QuestionRefused, PendingHandoffTarget
  <2>4. (crashes = 0 /\ last_failure = "structured_output") => node' = "escalation"
    BY <1>6, <2>1, SupervisorEscalatesFailure DEF Run
  <2>5. "escalation" \notin Specialists
    BY SpecialistsAreApart DEF WorkflowNodes
  <2>6. QED
    BY <2>1, <2>2, <2>3, <2>4, <2>5 DEF Run
<1>7. ASSUME NEW s \in Specialists, run_specialist(s) PROVE FailureInv'
  <2>1. Run(s) /\ phase' = "running" /\ node' = "supervisor" /\ "supervisor" \notin Specialists
    BY <1>7, SpecialistsAreApart DEF run_specialist, GoTo
  <2>2. s \notin {"supervisor", "escalation"}
    BY SpecialistsAreApart DEF WorkflowNodes
  <2>3. ASSUME crashes = 0
        PROVE  last_failure # "structured_output" /\ PendingHandoffTarget \in {None, s}
    BY <2>1, <2>2, <2>3 DEF Run
  <2>4. CASE UNCHANGED last_failure
    BY <2>1, <2>3, <2>4 DEF Run
  <2>5. ASSUME NEW failure, SpecialistFailed(failure) PROVE FailureInv'
    <3>1. UNCHANGED latest /\ s \in previous_agents' /\ previous_agents \subseteq previous_agents'
      BY <1>7, <2>5 DEF run_specialist, Ran, SpecialistFailed
    <3>2. PendingHandoffTarget \in {None, s} => PendingHandoffTarget' = None
      BY <3>1 DEF PendingHandoffTarget
    <3>3. QED
      BY <2>1, <2>3, <3>2 DEF Run
  <2>6. QED
    BY <1>7, <2>4, <2>5 DEF run_specialist, SpecialistResult
<1>8. CASE ingest_node \/ ask_prepare \/ resolution_verify_prepare \/ execute_action
  BY <1>2, <1>8, SpecialistsAreApart DEF ingest_node, ask_prepare, resolution_verify_prepare,
     execute_action, ActionSucceeded, ActionFailed, GoTo, WorkflowNodes, WaitNodes
<1>9. CASE confirmation_prepare
  BY <1>2, <1>9, SpecialistsAreApart DEF confirmation_prepare, CheckedAction, NothingToConfirm,
     AskConfirmation, SeekApproval, RefuseAction, GoTo, WorkflowNodes, WaitNodes
<1>10. ASSUME NEW n \in WaitNodes, interrupt(n) PROVE FailureInv'
  BY <1>2, <1>10, SpecialistsAreApart DEF interrupt, Run, WaitNodes, WorkflowNodes
<1>11. CASE WaitReply
  BY <1>2, <1>11, SpecialistsAreApart DEF WaitReply, ask_wait, confirmation_wait,
     resolution_verify_wait, Reply, GoTo, WorkflowNodes, WaitNodes
<1>12. ASSUME NEW terminal, NEW status, finalize_session(terminal, status) PROVE FailureInv'
  BY <1>12 DEF finalize_session
<1>13. CASE approval_node \/ ticket_status_node
  BY <1>2, <1>12, <1>13, SpecialistsAreApart DEF approval_node, ticket_status_node, NothingToApprove,
     ApproverUnresolved, RequestApproval, AnswerTicketStatus, EscalateStaleTicket, ToEscalation,
     GoTo, WorkflowNodes
<1>14. CASE resolution_node \/ close_direct_node \/ escalation_node
  BY <1>12, <1>14 DEF resolution_node, close_direct_node, escalation_node
<1>15. QED
  BY <1>3, <1>4, <1>5, <1>6, <1>7, <1>8, <1>9, <1>10, <1>11, <1>13, <1>14 DEF Next, GraphStep

(* With no crash between, a specialist that exhausted its schema retries   *)
(* is followed by a human, even if an earlier specialist's handoff or the  *)
(* model says otherwise (supervisor.py, the order of the overrides).       *)
THEOREM FailuresEscalated == Spec => FailedSpecialistNotRetried
<1>1. Init => FailureInv
  BY DEF Init, FailureInv, None
<1>2. TypeOK /\ FailureInv /\ [Next]_vars => FailureInv'
  <2>1. ASSUME FailureInv, UNCHANGED vars PROVE FailureInv'
    BY <2>1 DEF FailureInv, PendingHandoffTarget, vars, run, evidence
  <2>2. QED
    BY <2>1, FailureInvStep
<1>3. TypeOK /\ FailureInv /\ [Next]_vars =>
        [(SupervisorStep /\ last_failure = "structured_output" /\ crashes = 0)
           => node' = "escalation"]_vars
  <2>1. ASSUME TypeOK, FailureInv, Next, SupervisorStep, last_failure = "structured_output",
               crashes = 0
        PROVE  node' = "escalation"
    <3>1. PendingHandoffTarget = None
      BY <2>1 DEF FailureInv, SupervisorStep
    <3>2. QED
      BY <2>1, <3>1, SupervisorSteps, SupervisorEscalatesFailure
  <2>2. QED
    BY <2>1
<1>4. QED
  BY <1>1, <1>2, <1>3, TypeCorrect, PTL DEF Spec, FailedSpecialistNotRetried

-----------------------------------------------------------------------------
\* Resolution.

(* With no crash between, an awaited verification has its answer by the    *)
(* time the supervisor reads it, and an approved one leads straight to the *)
(* resolution workflow.                                                    *)
AnswerInv ==
  crashes = 0 =>
    /\ (phase \in {"running", "paused", "idle"} /\ resolution_confirmed = "yes") =>
         phase = "running" /\ node = "resolution"
    /\ (phase \in {"running", "paused", "idle"} /\ awaiting_resolution_confirmation) =>
         \/ resolution_confirmation_answer # None
         \/ phase \in {"running", "paused"} /\ node = "resolution_verify_wait"

(* A decision that the overrides leave at "resolution" goes there.         *)
LEMMA ApprovedResolution ==
  ASSUME NEW d, ResolutionApproved(d)
  PROVE  Destination(d) = "resolution"
BY DEF ResolutionApproved, Destination, Runs, Routes

(* Every step keeps verifications answered before they are read.           *)
LEMMA AnswerInvStep ==
  ASSUME TypeOK, AnswerInv, Next
  PROVE  AnswerInv'
<1> USE DEF AnswerInv
<1>1. ASSUME NEW n, Run(n) \/ Reply(n), n \notin {"resolution", "resolution_verify_wait"},
             UNCHANGED verdict
      PROVE  AnswerInv'
  BY <1>1 DEF Run, Reply, verdict
<1>2. CASE StartRun
  BY <1>2 DEF StartRun, claims, verdict
<1>3. CASE FailSafe
  BY <1>3 DEF FailSafe
<1>4. CASE Crash
  BY <1>4 DEF Crash, TypeOK, RunTypes
<1>5. CASE supervisor_node
  <2>1. Run("supervisor") /\ phase' = "running"
    BY <1>5, SupervisorStepShape
  <2>2. CASE UNCHANGED claims
    BY <1>1, <2>1, <2>2 DEF claims
  <2>3. ASSUME NEW d, Commit(d) PROVE AnswerInv'
    <3>1. CASE awaiting_resolution_confirmation
      <4>1. awaiting_resolution_confirmation' = FALSE
        BY <2>3, <3>1 DEF Commit, SettleVerification
      <4>2. resolution_confirmed' = "yes" => ResolutionApproved(d)
        BY <2>3, <3>1 DEF Commit, SettleVerification
      <4>3. node' = Destination(d)
        BY <2>3 DEF Commit, GoTo
      <4>4. QED
        BY <2>1, <4>1, <4>2, <4>3, ApprovedResolution
    <3>2. CASE ~awaiting_resolution_confirmation
      BY <2>2, <2>3, <3>2 DEF Commit, SettleVerification
    <3>3. QED
      BY <3>1, <3>2
  <2>4. QED
    BY <1>5, <2>2, <2>3, SupervisorStepShape
<1>6. ASSUME NEW s \in Specialists, run_specialist(s) PROVE AnswerInv'
  <2>1. s \notin {"resolution", "resolution_verify_wait"}
    BY SpecialistsAreApart DEF WorkflowNodes, WaitNodes
  <2>2. CASE UNCHANGED claims
    BY <1>1, <1>6, <2>1, <2>2 DEF run_specialist, claims
  <2>3. QED
    BY <1>6, <2>2 DEF run_specialist, SpecialistResult, SpecialistFailed, None
<1>7. CASE ingest_node \/ ask_prepare \/ execute_action \/ confirmation_prepare
  BY <1>1, <1>7 DEF ingest_node, ask_prepare, execute_action, confirmation_prepare, claims
<1>8. CASE resolution_verify_prepare
  BY <1>8 DEF resolution_verify_prepare, Run, GoTo, None
<1>9. ASSUME NEW n \in WaitNodes, interrupt(n) PROVE AnswerInv'
  BY <1>9 DEF interrupt, Run, claims, verdict, WaitNodes
<1>10. CASE ask_wait \/ \E answer \in {"yes", "no"} : confirmation_wait(answer)
  BY <1>1, <1>10 DEF ask_wait, confirmation_wait
<1>11. ASSUME NEW answer \in {"negative", "other"}, resolution_verify_wait(answer)
       PROVE  AnswerInv'
  BY <1>11 DEF resolution_verify_wait, None
<1>12. ASSUME NEW terminal, NEW status, finalize_session(terminal, status) PROVE AnswerInv'
  BY <1>12 DEF finalize_session
<1>13. CASE approval_node \/ ticket_status_node
  BY <1>1, <1>12, <1>13 DEF approval_node, ticket_status_node, NothingToApprove,
     ApproverUnresolved, RequestApproval, AnswerTicketStatus, EscalateStaleTicket, ToEscalation,
     claims
<1>14. CASE resolution_node \/ close_direct_node \/ escalation_node
  BY <1>12, <1>14 DEF resolution_node, close_direct_node, escalation_node
<1>15. QED
  BY <1>2, <1>3, <1>4, <1>5, <1>6, <1>7, <1>8, <1>9, <1>10, <1>11, <1>13, <1>14
     DEF Next, GraphStep, WaitReply

(* Only the supervisor and, where nobody verifies, an executed action lead *)
(* to the resolution workflow.                                             *)
LEMMA WaysToResolution ==
  ASSUME Next, node # "resolution", node' = "resolution", RequireConfirmation
  PROVE  supervisor_node
<1>1. ~StartRun /\ ~FailSafe /\ ~Crash /\ ~WaitReply
  BY DEF StartRun, FailSafe, Crash, Interrupted, WaitReply, ask_wait, confirmation_wait,
     resolution_verify_wait, GoTo
<1>2. ~ \E s \in Specialists : run_specialist(s)
  BY DEF run_specialist, GoTo
<1>3. ~resolution_node /\ ~close_direct_node /\ ~approval_node /\ ~escalation_node
  BY DEF resolution_node, close_direct_node, approval_node, NothingToApprove, ApproverUnresolved,
     RequestApproval, ToEscalation, escalation_node, finalize_session, GoTo
<1>4. ~ingest_node /\ ~ask_prepare /\ ~resolution_verify_prepare /\ ~execute_action
      /\ ~ \E n \in WaitNodes : interrupt(n)
  BY DEF ingest_node, ask_prepare, resolution_verify_prepare, execute_action, ActionSucceeded,
     ActionFailed, interrupt, GoTo
<1>5. ~confirmation_prepare /\ ~ticket_status_node
  BY DEF confirmation_prepare, NothingToConfirm, CheckedAction, AskConfirmation, SeekApproval,
     RefuseAction, ticket_status_node, AnswerTicketStatus, EscalateStaleTicket, ToEscalation, GoTo
<1>6. QED
  BY <1>1, <1>2, <1>3, <1>4, <1>5 DEF Next, GraphStep

(* Where employees verify resolutions, a session that never crashed is     *)
(* resolved only right after a reply to the offered resolution that does   *)
(* not clearly say the problem persists (supervisor.py, the negative veto; *)
(* resolution_verification.py).                                            *)
THEOREM ResolutionAnswered == Spec => ResolutionNeedsAnswer
<1>1. Init => AnswerInv
  BY DEF Init, AnswerInv, None
<1>2. TypeOK /\ AnswerInv /\ [Next]_vars => AnswerInv'
  <2>1. ASSUME AnswerInv, UNCHANGED vars PROVE AnswerInv'
    BY <2>1 DEF AnswerInv, vars, run, claims, verdict
  <2>2. QED
    BY <2>1, AnswerInvStep
<1>3. TypeOK /\ AnswerInv /\ [Next]_vars =>
        [(node # "resolution" /\ node' = "resolution" /\ RequireConfirmation /\ crashes = 0)
           => resolution_confirmation_answer = "other"]_vars
  <2>1. ASSUME TypeOK, AnswerInv, Next, node # "resolution", node' = "resolution",
               RequireConfirmation, crashes = 0
        PROVE  resolution_confirmation_answer = "other"
    <3>1. supervisor_node
      BY <2>1, WaysToResolution
    <3>2. PICK d : WellFormed(d) /\ Commit(Overridden(d)) /\ WellFormed(Overridden(d))
      BY <2>1, <3>1, SupervisorStepShape
    <3>3. Destination(Overridden(d)) = "resolution"
      BY <2>1, <3>2 DEF Commit, GoTo
    <3>4. Runs(Overridden(d), "resolution") /\ ResolutionApproved(Overridden(d))
      BY <2>1, <3>2, <3>3, SpecialistsAreApart
         DEF Destination, Routes, Runs, WellFormed, DecisionKinds, Workflows, WorkflowNodes
    <3>5. phase = "running" /\ node = "supervisor"
      BY <3>1 DEF supervisor_node, Run
    <3>6. awaiting_resolution_confirmation /\ resolution_confirmation_answer # None
      BY <2>1, <3>4, <3>5 DEF AnswerInv, ResolutionApproved
    <3>7. resolution_confirmation_answer # "negative"
      BY <3>4, <3>6 DEF Overridden, NegativeVeto, AnswerClearlyNegative, Runs
    <3>8. QED
      BY <2>1, <3>6, <3>7 DEF TypeOK, ClaimTypes
  <2>2. QED
    BY <2>1
<1>4. QED
  BY <1>1, <1>2, <1>3, TypeCorrect, PTL DEF Spec, ResolutionNeedsAnswer
=============================================================================

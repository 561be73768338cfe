----------------------------- MODULE Supervisor -----------------------------
(***************************************************************************)
(* The supervisor node (graph/supervisor.py) with the guards it applies    *)
(* (graph/guards.py): one routing decision proposed by the language model, *)
(* normalised and overridden by code in a fixed order, then refused by a   *)
(* budget or committed.                                                    *)
(*                                                                         *)
(* The model's decision is any schema-valid one.  What guards.py derives   *)
(* from the wording of the conversation is a parameter of the step:        *)
(* "informational" (is_simple_informational_request), "rephrased" (the     *)
(* question repeats an earlier one), and the physical-damage evidence.     *)
(***************************************************************************)
EXTENDS SupportState

Routes(d)  == d.kind = "route_to_specialist"
Runs(d, w) == d.kind = "run_workflow" /\ d.workflow = w

(* Decisions the language model may return (contracts/supervisor.py): the  *)
(* field its kind needs is set, the other one may be.                      *)
SupervisorDecision ==
  {d \in [kind : DecisionKinds, target : Maybe(Specialists),
          workflow : Maybe(Workflows), category : Categories] :
     /\ IF Routes(d) THEN d.target # None ELSE d.target \in Maybe(Strays)
     /\ IF d.kind = "run_workflow" THEN d.workflow # None ELSE d.workflow \in Maybe(Strays)}

-----------------------------------------------------------------------------
\* guards.py

CycleBudgetTripped == supervisor_cycle_count + 1 > MaxSupervisorCycles

CountsAsHandoff(target) == previous_agents # {} /\ last_agent # target

Handoffs(target) == handoff_count + (IF CountsAsHandoff(target) THEN 1 ELSE 0)

HandoffBudgetTripped(target) == Handoffs(target) > MaxAgentHandoffs

InformationRequestTripped(rephrased) ==
  information_request_count >= MaxInformationRequests \/ rephrased

PendingHandoffTarget ==
  IF /\ latest.outcome = "handoff_recommended"
     /\ latest.target # latest.agent
     /\ latest.target \notin previous_agents
  THEN latest.target
  ELSE None

(* Always relative to this turn and to the evidence so far, so those two   *)
(* components of the hashed material need not be carried.                  *)
DecisionSignature(d) ==
  <<d.kind, IF d.target # None THEN d.target ELSE d.workflow, latest.outcome>>

TimesDecided(s) == IF s \in DOMAIN decision_signatures THEN decision_signatures[s] ELSE 0

LoopSignatureTripped(d) ==
  TimesDecided(DecisionSignature(d)) >= LoopSignatureRepeatLimit

Recorded(d) ==
  [s \in DOMAIN decision_signatures \cup {DecisionSignature(d)} |->
     IF s = DecisionSignature(d) THEN TimesDecided(s) + 1 ELSE decision_signatures[s]]

EndpointDamagePossible ==
  latest.agent = "endpoint" /\ latest.outcome = "need_more_information"

SecurityRequiresHuman == flagged

AnswerClearlyNegative == resolution_confirmation_answer = "negative"

-----------------------------------------------------------------------------
\* What the code makes of the proposed decision, in the order of the code.

(* A category the model leaves at "other" is inferred from the state or    *)
(* from the route.                                                         *)
Normalized(d) ==
  LET inferred == CASE category # None -> category
                    [] category = None /\ d.target # None -> d.target
                    [] category = None /\ d.target = None /\ d.workflow = "ticket_status" -> "ticketing"
                    [] OTHER -> "other"
  IN IF d.category = "other" THEN [d EXCEPT !.category = inferred] ELSE d

CloseOverridden(d, informational) ==
  /\ d.kind = "close_session" /\ RequireConfirmation
  /\ employee_confirmation # "no" /\ ~informational

Proposal(d, informational) ==
  LET n == Normalized(d)
  IN IF CloseOverridden(n, informational) THEN [n EXCEPT !.kind = "ask_employee"] ELSE n

(* The specialist a refused question is converted into, if one may run.    *)
Investigator(d) ==
  LET cat == IF category # None THEN category ELSE d.category
  IN IF cat \in Specialists /\ cat \notin previous_agents /\ ~HandoffBudgetTripped(cat)
     THEN cat ELSE None

Converted(d) ==
  [d EXCEPT !.kind = "route_to_specialist", !.target = Investigator(d),
            !.category = Investigator(d)]

(* Mutant: the failure override is missing.                                *)
RetryFailedSpecialist(d) == d

FailureOverride(d) ==
  IF last_failure = "structured_output"
  THEN [d EXCEPT !.kind = "run_workflow", !.target = None, !.workflow = "escalation"]
  ELSE d

(* Mutant: a decision to escalate stands.                                  *)
EscalationSparesHandoff(d) ==
  LET target == PendingHandoffTarget
  IN IF target # None /\ ~(Routes(d) /\ d.target = target) /\ ~Runs(d, "escalation")
     THEN [d EXCEPT !.kind = "route_to_specialist", !.target = target,
                    !.workflow = None, !.category = target]
     ELSE d

HandoffOverride(d) ==
  LET target == PendingHandoffTarget
  IN IF target # None /\ ~(Routes(d) /\ d.target = target)
     THEN [d EXCEPT !.kind = "route_to_specialist", !.target = target,
                    !.workflow = None, !.category = target]
     ELSE d

(* Mutant: the security override stops resolutions only.                   *)
SecurityIgnored(d) ==
  IF SecurityRequiresHuman /\ Runs(d, "resolution")
  THEN [d EXCEPT !.workflow = "escalation"] ELSE d

SecurityOverride(d) ==
  IF SecurityRequiresHuman /\ ~Runs(d, "escalation")
  THEN [d EXCEPT !.kind = "run_workflow", !.workflow = "escalation"]
  ELSE d

ActionOverride(d) ==
  IF requested_action # None /\ employee_confirmation = None /\ Runs(d, "resolution")
  THEN [d EXCEPT !.workflow = "confirmation"]
  ELSE d

(* Mutant: the veto on a clearly negative answer is missing.               *)
NoVeto(d) == d

NegativeVeto(d) ==
  IF awaiting_resolution_confirmation /\ Runs(d, "resolution") /\ AnswerClearlyNegative
  THEN [d EXCEPT !.kind = "ask_employee", !.workflow = None]
  ELSE d

Overridden(d) ==
  NegativeVeto(ActionOverride(SecurityOverride(HandoffOverride(FailureOverride(d)))))

ResolutionApproved(d) ==
  /\ Runs(d, "resolution")
  /\ resolution_confirmed = "yes" \/ awaiting_resolution_confirmation

(* WORKFLOW_NODES, and the detour to the employee's verification.          *)
Destination(d) ==
  CASE Routes(d) -> d.target
    [] d.kind = "ask_employee" -> "ask_prepare"
    [] d.kind = "close_session" -> "close_direct"
    [] Runs(d, "resolution") /\ RequireConfirmation /\ ~ResolutionApproved(d)
         -> "resolution_verify_prepare"
    [] Runs(d, "resolution") /\ (~RequireConfirmation \/ ResolutionApproved(d)) -> "resolution"
    [] Runs(d, "confirmation") -> "confirmation_prepare"
    [] Runs(d, "need_info") -> "ask_prepare"
    [] OTHER -> d.workflow       \* approval, escalation, ticket_status

-----------------------------------------------------------------------------
\* The outcomes of one supervisor step.

(* _escalate: to a human, whatever the model wanted.                       *)
EscalateFor(trigger) ==
  /\ supervisor_cycle_count' = supervisor_cycle_count + 1
  /\ GoTo("escalation")
  /\ escalation_trigger' = trigger
  /\ UNCHANGED <<turn_index, handoff_count, information_request_count, category,
                 previous_agents, last_agent, latest, flagged, consent, claims,
                 ticket, approval, session_row, remembered>>

CycleBudgetExhausted ==
  /\ CycleBudgetTripped
  /\ EscalateFor("budget_exhausted")
  /\ UNCHANGED <<decision_signatures, last_failure>>

HardwareHandoff ==
  /\ ~CycleBudgetTripped /\ EndpointDamagePossible
  /\ EscalateFor("agent_recommendation")
  /\ UNCHANGED <<decision_signatures, last_failure>>

NoValidDecision ==
  /\ ~CycleBudgetTripped
  /\ EscalateFor("structured_output_failure")
  /\ last_failure' = "structured_output"
  /\ UNCHANGED decision_signatures

QuestionsExhausted(d, rephrased) ==
  /\ d.kind = "ask_employee" /\ InformationRequestTripped(rephrased)
  /\ Investigator(d) = None
  /\ EscalateFor("loop_guard")
  /\ UNCHANGED <<decision_signatures, last_failure>>

LoopDetected(d) ==
  /\ LoopSignatureTripped(d)
  /\ EscalateFor("loop_guard")
  /\ decision_signatures' = Recorded(d)
  /\ UNCHANGED last_failure

HandoffsExhausted(d) ==
  /\ ~LoopSignatureTripped(d) /\ Routes(d) /\ HandoffBudgetTripped(d.target)
  /\ EscalateFor("budget_exhausted")
  /\ decision_signatures' = Recorded(d)
  /\ UNCHANGED last_failure

(* An awaited verification is settled by this decision, whichever it is.   *)
SettleVerification(d) ==
  IF awaiting_resolution_confirmation
  THEN /\ awaiting_resolution_confirmation' = FALSE
       /\ resolution_confirmation_answer' = None
       /\ resolution_confirmed' = IF ResolutionApproved(d) THEN "yes" ELSE "no"
       /\ resolution_candidate' = IF ResolutionApproved(d) THEN resolution_candidate ELSE None
       /\ UNCHANGED fix
  ELSE UNCHANGED claims

Commit(d) ==
  /\ ~LoopSignatureTripped(d)
  /\ Routes(d) => ~HandoffBudgetTripped(d.target)
  /\ supervisor_cycle_count' = supervisor_cycle_count + 1
  /\ GoTo(Destination(d))
  /\ decision_signatures' = Recorded(d)
  /\ handoff_count' = IF Routes(d) THEN Handoffs(d.target) ELSE handoff_count
  /\ category' = d.category
  /\ SettleVerification(d)
  /\ escalation_trigger' =
       CASE Runs(d, "escalation") /\ escalation_trigger = None ->
              IF SecurityRequiresHuman THEN "security" ELSE "agent_recommendation"
         [] OTHER -> escalation_trigger
  /\ UNCHANGED <<turn_index, information_request_count, previous_agents, last_agent,
                 latest, flagged, last_failure, consent, ticket, approval,
                 session_row, remembered>>

Settle(d) == LoopDetected(d) \/ HandoffsExhausted(d) \/ Commit(d)

(* The model answered: d is its decision after the close_session override. *)
Decide(d, rephrased) ==
  \/ QuestionsExhausted(d, rephrased)
  \/ /\ d.kind = "ask_employee" /\ InformationRequestTripped(rephrased)
     /\ Investigator(d) # None
     /\ Settle(Overridden(Converted(d)))
  \/ /\ d.kind = "ask_employee" => ~InformationRequestTripped(rephrased)
     /\ Settle(Overridden(d))

(* Only a turn after the first has an assistant question to repeat.        *)
supervisor_node ==
  /\ Run("supervisor")
  /\ \/ CycleBudgetExhausted
     \/ HardwareHandoff
     \/ NoValidDecision
     \/ /\ ~CycleBudgetTripped
        /\ \E d \in SupervisorDecision, informational, rephrased \in BOOLEAN :
             /\ rephrased => turn_index > 1
             /\ Decide(Proposal(d, informational), rephrased)
=============================================================================

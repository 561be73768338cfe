---------------------------- MODULE SessionProofs ----------------------------
(***************************************************************************)
(* The session graph implements the session contract: the initial state    *)
(* maps to the contract's, and every step maps to a step of the contract   *)
(* or to none, under the invariants of SupportGraphProofs.                 *)
(***************************************************************************)
EXTENDS SessionRefinement, SupportGraphProofs

ContractStep == [Contract!Next]_Contract!vars

(* A question about an action has no answer when it is put.                *)
UnansweredInv ==
  (phase = "running" /\ node = "confirmation_wait") => confirmation.response = None

GraphInv == TypeOK /\ RowInv /\ ConsentInv /\ UnusedInv /\ UnansweredInv

-----------------------------------------------------------------------------

(* Every step keeps the question about to be put unanswered.               *)
LEMMA UnansweredInvStep ==
  ASSUME TypeOK, RowInv, UnansweredInv, Next
  PROVE  UnansweredInv'
<1> USE DEF UnansweredInv
<1>1. ASSUME phase' = "running" => node' # "confirmation_wait"
      PROVE  UnansweredInv'
  BY <1>1
<1>2. CASE StartRun \/ FailSafe \/ Crash \/ ingest_node
  BY <1>1, <1>2 DEF StartRun, FailSafe, Crash, ingest_node, GoTo
<1>3. CASE supervisor_node
  BY <1>1, <1>3, SupervisorStepShape, SpecialistsAreApart DEF Destinations, WorkflowNodes, WaitNodes
<1>4. ASSUME NEW s \in Specialists, run_specialist(s) PROVE UnansweredInv'
  BY <1>1, <1>4 DEF run_specialist, GoTo
<1>5. CASE ask_prepare \/ resolution_verify_prepare \/ execute_action
  BY <1>1, <1>5
     DEF ask_prepare, resolution_verify_prepare, execute_action, ActionSucceeded, ActionFailed, GoTo
<1>6. CASE confirmation_prepare
  BY <1>1, <1>6 DEF confirmation_prepare, NothingToConfirm, CheckedAction, AskConfirmation,
     SeekApproval, RefuseAction, NoConfirmation, GoTo
<1>7. ASSUME NEW n \in WaitNodes, interrupt(n) PROVE UnansweredInv'
  BY <1>1, <1>7 DEF interrupt
<1>8. CASE WaitReply
  BY <1>1, <1>8 DEF WaitReply, ask_wait, confirmation_wait, resolution_verify_wait, GoTo
<1>9. CASE resolution_node \/ close_direct_node \/ escalation_node
  BY <1>1, <1>9 DEF resolution_node, close_direct_node, escalation_node, finalize_session
<1>10. CASE approval_node \/ ticket_status_node
  BY <1>1, <1>10 DEF approval_node, NothingToApprove, ApproverUnresolved, RequestApproval,
     ticket_status_node, AnswerTicketStatus, EscalateStaleTicket, ToEscalation, GoTo,
     finalize_session
<1>11. QED
  BY <1>2, <1>3, <1>4, <1>5, <1>6, <1>7, <1>8, <1>9, <1>10 DEF Next, GraphStep

(* A step that leaves the stage, the terminal status and the confirmation  *)
(* as they are is none of the contract's.                                  *)
LEMMA QuietStep ==
  ASSUME UNCHANGED confirmation,
         session_row'.terminal_status = session_row.terminal_status, Stage' = Stage
  PROVE  ContractStep
<1>1. Permission' = Permission
  BY DEF Permission
<1>2. QED
  BY <1>1 DEF ContractStep, Contract!vars

(* A superstep that goes on to another node is the contract's at work.     *)
LEMMA WorkingStep ==
  ASSUME NEW n, Run(n), NEW m, GoTo(m), UNCHANGED confirmation,
         session_row'.terminal_status = session_row.terminal_status
  PROVE  ContractStep
<1>1. Stage' = Stage
  BY DEF Run, GoTo, Stage
<1>2. QED
  BY <1>1, QuietStep

(* What a node writes to the row while the session goes on.                *)
LEMMA RowGoesOn ==
  ASSUME TypeOK, NEW status, RowStatus(status)
  PROVE  session_row'.terminal_status = session_row.terminal_status
BY DEF TypeOK, RecordTypes, SessionRow, RowStatus

(* While the graph runs or waits, its stage is what it does.               *)
LEMMA StageOfWork ==
  ASSUME GraphInv
  PROVE  /\ phase \in {"running", "paused"} => session_row.terminal_status = None
         /\ phase = "running" => Stage = "working"
         /\ phase = "paused" =>
              Stage = IF node = "confirmation_wait" THEN "confirming" ELSE "asking"
<1>1. phase \in {"running", "paused"} => session_row.terminal_status = None
  BY DEF GraphInv, RowInv
<1>2. QED
  BY <1>1 DEF Stage

(* Finalizing a session closes it.                                         *)
LEMMA ClosingStep ==
  ASSUME GraphInv, NEW n, Run(n), NEW terminal \in {"resolved", "approval_pending", "escalated"},
         NEW status, finalize_session(terminal, status)
  PROVE  ContractStep
<1>1. session_row'.terminal_status = terminal /\ UNCHANGED confirmation
  BY DEF finalize_session, ClosedRow, consent
<1>2. Stage = "working" /\ Stage' = "closed"
  BY <1>1, StageOfWork DEF Run, Stage, None
<1>3. Permission' = Permission
  BY <1>1 DEF Permission
<1>4. Contract!Close(terminal)
  BY <1>1, <1>2, <1>3 DEF Contract!Close
<1>5. QED
  BY <1>4 DEF ContractStep, Contract!Next

(* Whoever executes the action may: it was allowed and not performed.      *)
LEMMA PerformingStep ==
  ASSUME GraphInv, phase = "running", node = "execute_action", Executed,
         \/ phase' \in {"running", "idle"}
            /\ session_row'.terminal_status = session_row.terminal_status
         \/ phase' = "failed" /\ session_row' = ClosedRow("failed", "failed")
  PROVE  ContractStep
<1>1. confirmation \in Confirmation
  BY DEF GraphInv, TypeOK, ConsentTypes
<1>2. /\ confirmation.response = "yes" /\ confirmation.action # None
      /\ confirmation.executions = 0
  BY DEF GraphInv, ConsentInv, ExecutionConsented, UnusedInv
<1>3. /\ confirmation'.executions = 1 /\ confirmation'.response = confirmation.response
      /\ confirmation'.action = confirmation.action
  BY <1>1, <1>2 DEF Executed, Confirmation
<1>4. Permission = "yes" /\ Permission' = Permission
  BY <1>2, <1>3 DEF Permission, None
<1>5. Stage = "working" /\ session_row.terminal_status = None
  BY StageOfWork
<1>6. \/ Stage' \in {"working", "open"}
            /\ session_row'.terminal_status = session_row.terminal_status
      \/ Stage' = "closed" /\ session_row'.terminal_status = "failed"
  BY <1>5 DEF Stage, ClosedRow, None
<1>7. Contract!Perform
  BY <1>2, <1>3, <1>4, <1>5, <1>6 DEF Contract!Perform
<1>8. QED
  BY <1>7 DEF ContractStep, Contract!Next

(* An answer to the question about the action decides on the permission.   *)
LEMMA DecidedPermission ==
  ASSUME GraphInv, phase = "paused", node = "confirmation_wait",
         NEW answer \in {"yes", "no"}, respond_confirmation(answer)
  PROVE  Permission' = answer /\ confirmation'.executions = confirmation.executions
<1>1. confirmation \in Confirmation /\ confirmation.action # None
  BY DEF GraphInv, TypeOK, ConsentTypes, ConsentInv, Asked
<1>2. /\ confirmation'.response = answer /\ confirmation'.action = confirmation.action
      /\ confirmation'.executions = confirmation.executions
  BY <1>1 DEF respond_confirmation, Confirmation
<1>3. QED
  BY <1>1, <1>2 DEF Permission, None

(* A reply resumes the work; only one to a question about the action       *)
(* changes the permission.                                                 *)
LEMMA AnsweringStep ==
  ASSUME GraphInv, WaitReply
  PROVE  ContractStep
<1>1. ASSUME NEW n, Reply(n), NEW m, GoTo(m)
      PROVE  /\ phase = "paused" /\ node = n /\ Stage' = "working"
             /\ session_row'.terminal_status = session_row.terminal_status
  <2>1. session_row'.terminal_status = session_row.terminal_status
    BY <1>1, RowGoesOn DEF GraphInv, Reply
  <2>2. phase = "paused" /\ node = n /\ session_row.terminal_status = None
    BY <1>1 DEF Reply, TakesMessage
  <2>3. QED
    BY <1>1, <2>1, <2>2 DEF GoTo, Stage
<1>2. CASE ask_wait \/ \E answer \in {"negative", "other"} : resolution_verify_wait(answer)
  <2>1. UNCHANGED confirmation
    BY <1>2 DEF ask_wait, resolution_verify_wait
  <2>2. Permission' = Permission
    BY <2>1 DEF Permission
  <2>3. /\ Stage = "asking" /\ Stage' = "working"
        /\ session_row'.terminal_status = session_row.terminal_status
    BY <1>1, <1>2, StageOfWork DEF ask_wait, resolution_verify_wait
  <2>4. Contract!Answer
    BY <2>1, <2>2, <2>3 DEF Contract!Answer
  <2>5. QED
    BY <2>4 DEF ContractStep, Contract!Next
<1>3. ASSUME NEW answer \in {"yes", "no"}, confirmation_wait(answer)
      PROVE  ContractStep
  <2>1. /\ phase = "paused" /\ node = "confirmation_wait"
        /\ Stage = "confirming" /\ Stage' = "working"
        /\ session_row'.terminal_status = session_row.terminal_status
    BY <1>1, <1>3, StageOfWork DEF confirmation_wait
  <2>2. Permission' = answer /\ confirmation'.executions = confirmation.executions
    BY <1>3, <2>1, DecidedPermission DEF confirmation_wait
  <2>3. Contract!Decide
    BY <2>1, <2>2 DEF Contract!Decide
  <2>4. QED
    BY <2>3 DEF ContractStep, Contract!Next
<1>4. QED
  BY <1>2, <1>3 DEF WaitReply

(* A checked action is prepared when the employee is to be asked about it. *)
LEMMA PreparingStep ==
  ASSUME GraphInv, confirmation_prepare
  PROVE  ContractStep
<1>1. CASE NothingToConfirm \/ SeekApproval \/ RefuseAction
  BY <1>1, WorkingStep
     DEF confirmation_prepare, NothingToConfirm, SeekApproval, RefuseAction
<1>2. CASE CheckedAction /\ AskConfirmation
  <2>1. /\ confirmation'.action # None /\ confirmation'.response = None
        /\ confirmation'.executions = 0
    BY <1>2 DEF CheckedAction, AskConfirmation, NoConfirmation
  <2>2. Permission' = "asked"
    BY <2>1 DEF Permission
  <2>3. session_row'.terminal_status = session_row.terminal_status
    BY <1>2, RowGoesOn DEF AskConfirmation, ShowWaiting, GraphInv
  <2>4. Stage = "working" /\ Stage' = "working"
    BY <1>2, <2>3, StageOfWork DEF confirmation_prepare, Run, AskConfirmation, GoTo, Stage
  <2>5. Contract!Prepare
    BY <2>1, <2>2, <2>3, <2>4 DEF Contract!Prepare
  <2>6. QED
    BY <2>5 DEF ContractStep, Contract!Next
<1>3. QED
  BY <1>1, <1>2 DEF confirmation_prepare, CheckedAction

(* A superstep that was cut short performed the action, took down an       *)
(* answer, or left the permission as it was.                               *)
LEMMA InterruptedPermission ==
  ASSUME GraphInv, NEW row \in RowsLeft, Interrupted(row)
  PROVE  \/ phase = "running" /\ node = "execute_action" /\ Executed /\ row = session_row
         \/ /\ phase = "paused" /\ node = "confirmation_wait" /\ Stage = "confirming"
            /\ Permission' \in {"yes", "no"}
            /\ confirmation'.executions = confirmation.executions
         \/ UNCHANGED confirmation
<1>1. Invoked
  BY DEF Interrupted
<1>2. CASE ActionWritten(row)
  <2>1. phase = "running"
    BY <1>1, <1>2 DEF ActionWritten, Invoked, GraphInv, RowInv, WaitNodes
  <2>2. QED
    BY <1>2, <2>1 DEF ActionWritten
<1>3. CASE ReplyWritten(row) /\ node = "confirmation_wait"
  <2>1. phase = "paused" /\ Stage = "confirming"
    BY <1>3, StageOfWork DEF ReplyWritten
  <2>2. PICK answer \in {"yes", "no"} : respond_confirmation(answer)
    BY <1>3 DEF ReplyWritten
  <2>3. QED
    BY <1>3, <2>1, <2>2, DecidedPermission
<1>4. CASE ReplyWritten(row) /\ node # "confirmation_wait"
  BY <1>4 DEF ReplyWritten
<1>5. QED
  BY <1>2, <1>3, <1>4 DEF Interrupted, NothingWritten, QuestionWritten, ResolutionWritten,
     ApprovalWritten, EscalationWritten

(* The dispatcher's own steps: a message taken, a run failed or lost.      *)
LEMMA DispatcherStep ==
  ASSUME GraphInv, StartRun \/ FailSafe \/ Crash
  PROVE  ContractStep
<1>1. ASSUME UNCHANGED confirmation
      PROVE  Permission' = Permission /\ confirmation'.executions = confirmation.executions
  BY <1>1 DEF Permission
<1>2. CASE StartRun
  <2>1. session_row'.terminal_status = session_row.terminal_status /\ UNCHANGED confirmation
    BY <1>2, RowGoesOn DEF GraphInv, StartRun, consent
  <2>2. Stage = "open" /\ Stage' = "working"
    BY <1>2, <2>1 DEF StartRun, TakesMessage, GoTo, Stage
  <2>3. Contract!Receive
    BY <1>1, <2>1, <2>2 DEF Contract!Receive
  <2>4. QED
    BY <2>3 DEF ContractStep, Contract!Next
<1>3. CASE FailSafe
  <2>1. PICK row \in RowsLeft : Interrupted(row)
    BY <1>3 DEF FailSafe
  <2>2. /\ phase' = "failed" /\ session_row' = ClosedRow("failed", "failed")
        /\ session_row'.terminal_status = "failed" /\ Stage' = "closed"
    BY <1>3 DEF FailSafe, ClosedRow, Stage, None
  <2>3. Stage \in {"working", "asking", "confirming"}
    BY <2>1, StageOfWork DEF Interrupted, Invoked
  <2>4. CASE phase = "running" /\ node = "execute_action" /\ Executed
    BY <2>2, <2>4, PerformingStep
  <2>5. CASE UNCHANGED confirmation \/
             (Stage = "confirming" /\ Permission' \in {"yes", "no"}
                /\ confirmation'.executions = confirmation.executions)
    <3>1. Contract!Close("failed")
      BY <1>1, <2>2, <2>3, <2>5 DEF Contract!Close
    <3>2. QED
      BY <3>1 DEF ContractStep, Contract!Next
  <2>6. QED
    BY <2>1, <2>4, <2>5, InterruptedPermission
<1>4. CASE Crash
  <2>1. PICK row \in RowsLeft : Interrupted(row) /\ session_row' = row
    BY <1>4 DEF Crash
  <2>2. /\ phase' = IF phase = "paused" THEN "paused" ELSE "idle"
        /\ node' = node /\ phase \in {"running", "paused"}
    BY <1>4, <2>1 DEF Crash, Interrupted, Invoked
  <2>3. CASE phase = "running" /\ node = "execute_action" /\ Executed /\ row = session_row
    BY <2>1, <2>2, <2>3, PerformingStep
  <2>4. CASE phase = "paused"
    <3>1. session_row'.terminal_status = session_row.terminal_status
      BY <2>1, <2>4 DEF GraphInv, RowInv, WaitNodes, TypeOK, RecordTypes, SessionRow, Interrupted,
         NothingWritten, QuestionWritten, ReplyWritten, ActionWritten, ResolutionWritten,
         ApprovalWritten, EscalationWritten, StatusNow
    <3>2. Stage' = Stage
      BY <2>2, <2>4, <3>1 DEF Stage
    <3>3. CASE UNCHANGED confirmation
      BY <3>1, <3>2, <3>3, QuietStep
    <3>4. CASE Stage = "confirming" /\ Permission' \in {"yes", "no"}
               /\ confirmation'.executions = confirmation.executions
      <4>1. Contract!Decide
        BY <3>1, <3>2, <3>4 DEF Contract!Decide
      <4>2. QED
        BY <4>1 DEF ContractStep, Contract!Next
    <3>5. QED
      BY <2>1, <2>4, <3>3, <3>4, InterruptedPermission
  <2>5. CASE phase = "running" /\ UNCHANGED confirmation
    <3>1. Stage = "working" /\ session_row.terminal_status = None /\ phase' = "idle"
      BY <2>2, <2>5, StageOfWork
    <3>2. CASE row.terminal_status = None
      <4>1. Stage' = "open"
        BY <2>1, <3>1, <3>2 DEF Stage
      <4>2. Contract!Lose
        BY <1>1, <2>1, <2>5, <3>1, <3>2, <4>1 DEF Contract!Lose
      <4>3. QED
        BY <4>2 DEF ContractStep, Contract!Next
    <3>3. CASE row.terminal_status # None
      <4>1. row.terminal_status \in {"resolved", "approval_pending", "escalated"}
        BY <3>1, <3>3 DEF RowsLeft, StatusNow, ClosedRow, GraphInv, TypeOK, RecordTypes, SessionRow
      <4>2. Stage' = "closed"
        BY <2>1, <3>3 DEF Stage
      <4>3. Contract!Close(row.terminal_status)
        BY <1>1, <2>1, <2>5, <3>1, <4>2 DEF Contract!Close
      <4>4. QED
        BY <4>1, <4>3 DEF ContractStep, Contract!Next
    <3>4. QED
      BY <3>2, <3>3
  <2>6. QED
    BY <2>1, <2>2, <2>3, <2>4, <2>5, InterruptedPermission
<1>5. QED
  BY <1>2, <1>3, <1>4

(* Every superstep is a step of the contract, or none.                     *)
LEMMA SuperstepMaps ==
  ASSUME GraphInv, GraphStep
  PROVE  ContractStep
<1>1. CASE ingest_node
  BY <1>1, WorkingStep DEF ingest_node, records
<1>2. CASE supervisor_node
  <2>1. /\ Run("supervisor") /\ GoTo(node')
        /\ UNCHANGED confirmation /\ UNCHANGED session_row
    BY <1>2, SupervisorStepShape DEF GraphInv, GoTo, consent
  <2>2. QED
    BY <2>1, WorkingStep
<1>3. ASSUME NEW s \in Specialists, run_specialist(s) PROVE ContractStep
  BY <1>3, WorkingStep DEF run_specialist, records
<1>4. CASE ask_prepare \/ resolution_verify_prepare
  BY <1>4, WorkingStep, RowGoesOn
     DEF ask_prepare, resolution_verify_prepare, ShowWaiting, consent, GraphInv
<1>5. CASE confirmation_prepare
  BY <1>5, PreparingStep
<1>6. CASE execute_action
  <2>1. phase' = "running" /\ session_row' = session_row
    BY <1>6 DEF execute_action, ActionSucceeded, ActionFailed, GoTo
  <2>2. QED
    BY <1>6, <2>1, PerformingStep DEF execute_action, Run
<1>7. ASSUME NEW n \in WaitNodes, interrupt(n) PROVE ContractStep
  <2>1. /\ phase = "running" /\ phase' = "paused" /\ node = n /\ node' = node
        /\ UNCHANGED <<confirmation, session_row>>
    BY <1>7 DEF interrupt, Run, consent, records
  <2>2. Permission' = Permission
    BY <2>1 DEF Permission
  <2>3. /\ Stage = "working"
        /\ Stage' = IF n = "confirmation_wait" THEN "confirming" ELSE "asking"
    BY <2>1, StageOfWork DEF Stage
  <2>4. CASE n # "confirmation_wait"
    <3>1. Contract!Ask
      BY <2>1, <2>2, <2>3, <2>4 DEF Contract!Ask
    <3>2. QED
      BY <3>1 DEF ContractStep, Contract!Next
  <2>5. CASE n = "confirmation_wait"
    <3>1. Permission = "asked"
      BY <2>1, <2>5 DEF GraphInv, UnansweredInv, ConsentInv, Asked, Permission
    <3>2. Contract!AskPermission
      BY <2>1, <2>2, <2>3, <2>5, <3>1 DEF Contract!AskPermission
    <3>3. QED
      BY <3>2 DEF ContractStep, Contract!Next
  <2>6. QED
    BY <2>4, <2>5
<1>8. CASE resolution_node \/ close_direct_node \/ escalation_node
  BY <1>8, ClosingStep DEF resolution_node, close_direct_node, escalation_node
<1>9. ASSUME NEW n, Run(n), NEW trigger, ToEscalation(trigger) PROVE ContractStep
  BY <1>9, WorkingStep DEF ToEscalation, consent
<1>10. CASE approval_node
  BY <1>9, <1>10, ClosingStep
     DEF approval_node, NothingToApprove, ApproverUnresolved, RequestApproval
<1>11. CASE ticket_status_node
  <2>1. CASE AnswerTicketStatus
    BY <1>11, <2>1, WorkingStep DEF ticket_status_node, AnswerTicketStatus, consent
  <2>2. QED
    BY <1>9, <1>11, <2>1 DEF ticket_status_node, EscalateStaleTicket
<1>12. QED
  BY <1>1, <1>2, <1>3, <1>4, <1>5, <1>6, <1>7, <1>8, <1>10, <1>11 DEF GraphStep

-----------------------------------------------------------------------------

(* Every behaviour of the graph is a behaviour of the contract, failing    *)
(* nodes and crashes after any commit of a superstep included: a closed    *)
(* session stays closed with the outcome it closed with, and an action is  *)
(* performed only under the last answer to it, a yes, and at most once for *)
(* each time it was put to the employee (dispatcher.py, graph/).           *)
THEOREM SessionImplementsContract == Spec => ImplementsContract
<1>1. Init => Contract!Init
  BY DEF Init, Contract!Init, Stage, Permission, NoConfirmation, None, Contract!None
<1>2. Init => RowInv /\ ConsentInv /\ UnusedInv /\ UnansweredInv
  BY DEF Init, RowInv, ConsentInv, ExecutionConsented, UnusedInv, UnansweredInv, NoConfirmation
<1>3. TypeOK /\ RowInv /\ ConsentInv /\ UnusedInv /\ UnansweredInv /\ [Next]_vars
        => RowInv' /\ ConsentInv' /\ UnusedInv' /\ UnansweredInv'
  <2>1. ASSUME RowInv, ConsentInv, UnusedInv, UnansweredInv, UNCHANGED vars
        PROVE  RowInv' /\ ConsentInv' /\ UnusedInv' /\ UnansweredInv'
    BY <2>1 DEF RowInv, ConsentInv, Asked, ExecutionConsented, UnusedInv, UnansweredInv,
       vars, run, records, consent
  <2>2. QED
    BY <2>1, RowInvStep, ConsentInvStep, UnusedInvStep, UnansweredInvStep
<1>4. TypeOK /\ RowInv /\ ConsentInv /\ UnusedInv /\ UnansweredInv /\ [Next]_vars
        => [Contract!Next]_Contract!vars
  <2>1. ASSUME GraphInv, UNCHANGED vars PROVE ContractStep
    <3>1. UNCHANGED <<phase, node, confirmation, session_row>>
      BY <2>1 DEF vars, run, consent, records
    <3>2. QED
      BY <3>1, QuietStep DEF Stage
  <2>2. QED
    BY <2>1, DispatcherStep, SuperstepMaps, AnsweringStep DEF Next, GraphInv, ContractStep
<1>5. QED
  BY <1>1, <1>2, <1>3, <1>4, TypeCorrect, PTL DEF Spec, ImplementsContract, Contract!Spec
=============================================================================

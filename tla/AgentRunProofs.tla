---------------------------- MODULE AgentRunProofs ----------------------------
(***************************************************************************)
(* For every catalogue member, budget and number of runs: the types of     *)
(* AgentRun, the bound on a run's work, that only an authorized call       *)
(* changes what a privileged tool changes, and that the audit trail, the   *)
(* rows of runs and the session agree.                                     *)
(***************************************************************************)
EXTENDS AgentRun, Induction, FiniteSetTheorems

-----------------------------------------------------------------------------
\* Types

(* A handler keeps the world a world.                                      *)
LEMMA AfterType ==
  ASSUME NEW t, NEW w \in World
  PROVE  After(t, w) \in World
<1>1. CASE t = "unlock_account"
  BY <1>1 DEF After, World
<1>2. CASE t = "reset_password"
  BY <1>2 DEF After, World
<1>3. CASE t \in {"revoke_sessions", "revoke_active_sessions"}
  BY <1>3 DEF After, World
<1>4. CASE t = "install_approved_software"
  BY <1>4 DEF After, World
<1>5. CASE t = "restart_managed_service"
  BY <1>5 DEF After, World
<1>6. CASE t = "quarantine_device"
  BY <1>6 DEF After, World
<1>7. CASE t = "flag_account_for_security_review"
  BY <1>7 DEF After, World
<1>8. CASE t = "notify_security_team"
  BY <1>8 DEF After, World
<1>9. CASE t \in Writes
  BY <1>9 DEF After, World, Writes
<1>10. CASE t \notin {"unlock_account", "reset_password", "revoke_sessions",
                      "revoke_active_sessions", "install_approved_software",
                      "restart_managed_service", "quarantine_device",
                      "flag_account_for_security_review", "notify_security_team"} \cup Writes
  BY <1>10 DEF After
<1>11. QED
  BY <1>1, <1>2, <1>3, <1>4, <1>5, <1>6, <1>7, <1>8, <1>9, <1>10

(* Updates of one caller's call.                                           *)
LEMMA CallChanges ==
  ASSUME GateTypeOK, NEW c \in Callers
  PROVE  /\ gate[c] \in Call
         /\ \A step \in {"idle", "announce", "handle", "save", "back"} :
              [gate[c] EXCEPT !.step = step] \in Call
         /\ \A status \in {"none", "succeeded", "failed"} :
              [[gate[c] EXCEPT !.step = "save"] EXCEPT !.status = status] \in Call
<1>1. gate[c] \in Call
  BY DEF GateTypeOK
<1>2. QED
  BY <1>1 DEF Call

(* The audit row of a call is a row.                                       *)
LEMMA EntryType ==
  ASSUME GateTypeOK, NEW c \in Callers, NEW status \in {"succeeded", "failed"}
  PROVE  Entry(c, status) \in ToolRow /\ Entry(c, status) \in Work
<1>1. gate[c] \in Call
  BY DEF GateTypeOK
<1>2. gate[c].run \in Nat /\ gate[c].tool \in Names
  BY <1>1 DEF Call
<1>3. QED
  BY <1>2 DEF Entry, ToolRow, Work

(* A call that passes the gate, or leaves it, is a call.                   *)
LEMMA PassType ==
  ASSUME GateTypeOK, NEW c \in Callers
  PROVE  /\ \A step \in {"idle", "announce", "handle", "save", "back"} :
              Pass(c, step) => gate' \in [Callers -> Call]
         /\ \A status \in {"succeeded", "failed"} :
              Settle(c, status) => gate' \in [Callers -> Call]
         /\ Leave(c) => gate' \in [Callers -> Call]
<1>1. gate \in [Callers -> Call]
  BY DEF GateTypeOK
<1>2. ASSUME NEW step \in {"idle", "announce", "handle", "save", "back"}, Pass(c, step)
      PROVE  gate' \in [Callers -> Call]
  <2>1. gate' = [gate EXCEPT ![c] = [gate[c] EXCEPT !.step = step]]
    BY <1>1, <1>2 DEF Pass
  <2>2. QED
    BY <1>1, <2>1, CallChanges
<1>3. ASSUME NEW status \in {"succeeded", "failed"}, Settle(c, status)
      PROVE  gate' \in [Callers -> Call]
  <2>1. gate' = [gate EXCEPT ![c] =
                   [[gate[c] EXCEPT !.step = "save"] EXCEPT !.status = status]]
    BY <1>1, <1>3 DEF Settle
  <2>2. QED
    BY <1>1, <2>1, CallChanges
<1>4. ASSUME Leave(c) PROVE gate' \in [Callers -> Call]
  <2>1. Idle \in Call
    BY DEF Idle, Call, Names
  <2>2. QED
    BY <1>1, <1>4, <2>1 DEF Leave
<1>5. QED
  BY <1>2, <1>3, <1>4

(* Entering the registry.                                                  *)
LEMMA EnterType ==
  ASSUME GateTypeOK, NEW c \in Callers, NEW t \in Names, NEW run \in Nat,
         NEW authorized \in BOOLEAN, Enter(c, t, run, authorized)
  PROVE  gate' \in [Callers -> Call]
<1> DEFINE new == [step |-> IF t \in Tools THEN "announce" ELSE "save", tool |-> t, run |-> run,
                   authorized |-> authorized, status |-> IF t \in Tools THEN "none" ELSE "failed"]
<1>1. new \in Call
  BY DEF Call
<1>2. gate' = [gate EXCEPT ![c] = new]
  BY DEF Enter
<1> HIDE DEF new
<1>3. QED
  BY <1>1, <1>2 DEF GateTypeOK

(* A call that reaches its row is settled, and one that reaches its        *)
(* handler has passed the privilege gate.                                  *)
GateInv ==
  /\ GateTypeOK
  /\ \A c \in Callers : AtGate(c, "save") => gate[c].status # "none"
  /\ \A c \in Callers : AtGate(c, "handle") => ~Blocked(c)

(* A sequence is a function on its indices.                                *)
LEMMA SequenceIsFunction ==
  ASSUME NEW S, NEW s \in Seq(S)
  PROVE  s \in [1..Len(s) -> S]
  OBVIOUS

(* The row of the last piece of work is lost: the work before it is as it  *)
(* was.                                                                    *)
LEMMA UnauditedLast ==
  ASSUME NEW front \in Seq(Work), NEW x \in Work
  PROVE  /\ [x EXCEPT !.status = "unaudited"] \in Work
         /\ Unaudited(Append(front, x)) = Append(front, [x EXCEPT !.status = "unaudited"])
<1> DEFINE s == Append(front, x)
           y == [x EXCEPT !.status = "unaudited"]
           n == Len(front) + 1
<1>1. y \in Work
  BY DEF Work
<1>2. s \in Seq(Work) /\ Len(s) = n /\ n \in 1..n /\ s[n] = x
  OBVIOUS
<1>3. Unaudited(s) = [s EXCEPT ![n] = y]
  BY <1>2 DEF Unaudited
<1> HIDE DEF y
<1>4. Append(front, y) \in Seq(Work) /\ Len(Append(front, y)) = n
  BY <1>1
<1>5. /\ \A i \in 1..n : i # n => s[i] = Append(front, y)[i]
      /\ Append(front, y)[n] = y
  BY <1>1
<1> DEFINE z == Append(front, y)
<1>6. s \in [1..n -> Work] /\ z \in [1..n -> Work]
  <2> HIDE DEF s, n
  <2>1. z \in Seq(Work) /\ Len(z) = n
    BY <1>4
  <2> HIDE DEF z
  <2> QED
    BY <1>2, <2>1, SequenceIsFunction
<1> HIDE DEF s, z
<1>7. [s EXCEPT ![n] = y] \in [1..n -> Work]
  BY <1>1, <1>6
<1>8. \A i \in 1..n : [s EXCEPT ![n] = y][i] = z[i]
  BY <1>5, <1>6 DEF z
<1>9. [s EXCEPT ![n] = y] = z
  BY <1>6, <1>7, <1>8
<1> QED
  BY <1>1, <1>3, <1>9 DEF y, s, z

(* Work stays work when the last of its rows is lost.                      *)
LEMMA UnauditedType ==
  ASSUME NEW work \in Seq(Work)
  PROVE  Unaudited(work) \in Seq(Work)
<1> DEFINE n == Len(work)
           y == [work[n] EXCEPT !.status = "unaudited"]
<1>1. n \in Nat /\ work \in [1..n -> Work] /\ Unaudited(work) = [work EXCEPT ![n] = y]
  BY DEF Unaudited
<1>2. n \in 1..n => y \in Work
  <2>1. n \in 1..n => work[n] \in Work
    BY <1>1
  <2> QED
    BY <2>1 DEF Work
<1> HIDE DEF y
<1>3. [work EXCEPT ![n] = y] \in [1..n -> Work]
  BY <1>1, <1>2
<1> QED
  BY <1>1, <1>3

(* A step of the registry keeps its types.                                 *)
LEMMA ExecuteToolType ==
  ASSUME GateInv, NEW c \in Callers, ExecuteTool(c)
  PROVE  GateTypeOK'
<1>1. /\ world \in World /\ gate \in [Callers -> Call] /\ faults \in Nat
      /\ rows \in [Callers -> Seq(ToolRow)] /\ did \in [Callers -> Seq(Work)]
      /\ GateTypeOK
  BY DEF GateInv, GateTypeOK
<1>2. \A status \in {"succeeded", "failed"} :
        /\ [did EXCEPT ![c] = Append(@, Entry(c, status))] \in [Callers -> Seq(Work)]
        /\ [rows EXCEPT ![c] = Append(@, Entry(c, status))] \in [Callers -> Seq(ToolRow)]
  <2>1. \A status \in {"succeeded", "failed"} :
          Entry(c, status) \in ToolRow /\ Entry(c, status) \in Work
    BY <1>1, EntryType
  <2> QED
    BY <1>1, <2>1
<1>3. After(gate[c].tool, world) \in World
  BY <1>1, AfterType
<1>4. Breaks => faults' \in Nat
  BY <1>1 DEF Breaks
<1>5. CASE Announce(c)
  BY <1>1, <1>5, PassType DEF Announce, GateTypeOK
<1>6. CASE HandlerWorks(c)
  BY <1>1, <1>2, <1>3, <1>6, PassType DEF HandlerWorks, GateTypeOK
<1>7. CASE HandlerRaises(c)
  BY <1>1, <1>7, PassType DEF HandlerRaises, GateTypeOK
<1>8. CASE HandlerCutOff(c)
  BY <1>1, <1>2, <1>3, <1>4, <1>8, PassType DEF HandlerCutOff, GateTypeOK
<1>9. CASE Save(c)
  <2>1. gate[c].status \in {"succeeded", "failed"}
    <3>1. gate[c] \in Call
      BY <1>1
    <3>2. gate[c].status # "none"
      BY <1>9 DEF GateInv, Save
    <3>3. QED
      BY <3>1, <3>2 DEF Call
  <2>2. QED
    BY <1>1, <1>2, <1>9, <2>1, PassType DEF Save, SaveRow, GateTypeOK
<1>10. CASE SaveFails(c)
  <2>1. [did EXCEPT ![c] = Unaudited(@)] \in [Callers -> Seq(Work)]
    BY <1>1, UnauditedType
  <2> QED
    BY <1>1, <1>4, <1>10, <2>1, PassType DEF SaveFails, GateTypeOK
<1>11. QED
  BY <1>5, <1>6, <1>7, <1>8, <1>9, <1>10 DEF ExecuteTool

(* What a step of the registry makes of a call.                            *)
LEMMA ExecuteToolCall ==
  ASSUME GateInv, NEW c \in Callers, ExecuteTool(c)
  PROVE  /\ \A d \in Callers \ {c} : gate'[d] = gate[d]
         /\ gate'[c].tool = gate[c].tool /\ gate'[c].authorized = gate[c].authorized
         /\ gate'[c].step = "handle" => ~Blocked(c)
         /\ gate'[c].step = "save" => gate'[c].status # "none"
<1>1. gate \in [Callers -> Call] /\ gate[c] \in Call
  BY CallChanges DEF GateInv, GateTypeOK
<1>2. ASSUME NEW status \in {"succeeded", "failed"}, Settle(c, status)
      PROVE  /\ \A d \in Callers \ {c} : gate'[d] = gate[d]
             /\ gate'[c].tool = gate[c].tool /\ gate'[c].authorized = gate[c].authorized
             /\ gate'[c].step = "save" /\ gate'[c].status = status
  <2>1. gate' = [gate EXCEPT ![c] =
                   [[gate[c] EXCEPT !.step = "save"] EXCEPT !.status = status]]
    BY <1>1, <1>2 DEF Settle
  <2>2. QED
    BY <1>1, <2>1 DEF Call
<1>3. ASSUME NEW step \in {"handle", "back"}, Pass(c, step)
      PROVE  /\ \A d \in Callers \ {c} : gate'[d] = gate[d]
             /\ gate'[c].tool = gate[c].tool /\ gate'[c].authorized = gate[c].authorized
             /\ gate'[c].step = step
  <2>1. gate' = [gate EXCEPT ![c] = [gate[c] EXCEPT !.step = step]]
    BY <1>1, <1>3 DEF Pass
  <2>2. QED
    BY <1>1, <2>1 DEF Call
<1>4. CASE Announce(c) /\ Settle(c, "failed")
  BY <1>2, <1>4
<1>5. CASE Announce(c) /\ ~Blocked(c) /\ Pass(c, "handle")
  BY <1>3, <1>5
<1>6. CASE HandlerWorks(c)
  BY <1>2, <1>6 DEF HandlerWorks
<1>7. CASE HandlerRaises(c) \/ HandlerCutOff(c)
  BY <1>2, <1>7 DEF HandlerRaises, HandlerCutOff
<1>8. CASE Save(c) \/ SaveFails(c)
  BY <1>3, <1>8 DEF Save, SaveFails
<1>9. QED
  BY <1>4, <1>5, <1>6, <1>7, <1>8 DEF ExecuteTool, Announce

(* The gate keeps its own invariant.                                       *)
LEMMA ExecuteToolInv ==
  ASSUME GateInv, NEW c \in Callers, ExecuteTool(c)
  PROVE  GateInv'
BY ExecuteToolType, ExecuteToolCall DEF GateInv, AtGate, Blocked

(* Entering the registry and leaving it.                                   *)
LEMMA EnterInv ==
  ASSUME GateInv, NEW c \in Callers, NEW t \in Names, NEW run \in Nat,
         NEW authorized \in BOOLEAN, Enter(c, t, run, authorized),
         UNCHANGED <<world, rows, did, faults>>
  PROVE  GateInv'
<1> DEFINE new == [step |-> IF t \in Tools THEN "announce" ELSE "save", tool |-> t, run |-> run,
                   authorized |-> authorized, status |-> IF t \in Tools THEN "none" ELSE "failed"]
<1>1. gate' = [gate EXCEPT ![c] = new] /\ gate \in [Callers -> Call]
  BY DEF Enter, GateInv, GateTypeOK
<1>2. new.step # "handle" /\ (new.step = "save" => new.status # "none")
  OBVIOUS
<1>3. GateTypeOK'
  BY EnterType DEF GateInv, GateTypeOK
<1> HIDE DEF new
<1>4. QED
  BY <1>1, <1>2, <1>3 DEF GateInv, AtGate, Blocked

(* A caller that takes the result leaves the others in place.              *)
LEMMA LeaveInv ==
  ASSUME GateInv, NEW c \in Callers, Leave(c), UNCHANGED <<world, rows, did, faults>>
  PROVE  GateInv'
<1>1. gate' = [gate EXCEPT ![c] = Idle] /\ gate \in [Callers -> Call]
  BY DEF Leave, GateInv, GateTypeOK
<1>2. Idle.step = "idle"
  BY DEF Idle
<1>3. GateTypeOK'
  BY PassType DEF GateInv, GateTypeOK
<1>4. QED
  BY <1>1, <1>2, <1>3 DEF GateInv, AtGate, Blocked

-----------------------------------------------------------------------------
\* The runner

(* The answers that n rounds may take.                                     *)
Allowed(n) == n * (MaxRetries + 1)

(* Every round allows an answer and its retries.                           *)
LEMMA AllowedFacts ==
  ASSUME NEW n \in Nat
  PROVE  /\ Allowed(n) \in Nat
         /\ Allowed(n + 1) = Allowed(n) + MaxRetries + 1
         /\ \A m \in Nat : m <= n => Allowed(m) <= Allowed(n)
<1>1. MaxRetries \in Nat
  BY RunAssumption
<1>2. Allowed(n + 1) = Allowed(n) + MaxRetries + 1
  BY <1>1 DEF Allowed
<1>3. Allowed(n) \in Nat
  BY <1>1 DEF Allowed
<1>4. ASSUME NEW m \in Nat, m <= n PROVE Allowed(m) <= Allowed(n)
  <2>1. PICK k \in Nat : n = m + k
    <3>1. n - m \in Nat /\ n = m + (n - m)
      BY <1>4
    <3>2. QED
      BY <3>1
  <2>2. Allowed(n) = Allowed(m) + k * (MaxRetries + 1)
    BY <1>1, <2>1 DEF Allowed
  <2>3. k * (MaxRetries + 1) \in Nat /\ Allowed(m) \in Nat
    BY <1>1 DEF Allowed
  <2>4. QED
    BY <2>2, <2>3
<1>5. QED
  BY <1>2, <1>3, <1>4

Ended == {"handoff", "save", "tell"}

(* What is left of the budget at each point of the loop.                   *)
Budget ==
  /\ pc \in {"idle", "announce"} => round = 1 /\ attempt = 0 /\ asks = 0 /\ steps = 0 /\ used = <<>>
  /\ pc # "idle" => round >= 1 /\ round <= LastRound
  /\ pc \in {"think", "note"} =>
       /\ attempt <= MaxRetries + 1 /\ (pc = "think" => attempt <= MaxRetries)
       /\ asks <= Allowed(round - 1) + attempt
       /\ steps <= round - 1
       /\ Len(used) <= steps /\ Len(used) <= MaxSteps
  /\ pc = "tool" =>
       /\ asks <= Allowed(round) /\ steps <= round
       /\ Len(used) < steps /\ steps <= MaxSteps
  /\ pc \in Ended =>
       /\ asks <= Allowed(LastRound) /\ steps <= LastRound
       /\ Len(used) <= MaxSteps

(* The specialist enters the registry with its own tools only, a workflow  *)
(* with an authorization.                                                  *)
CallersInv ==
  /\ gate["specialist"].tool \notin TicketingTools
  /\ ~AtGate("workflow", "idle") => gate["workflow"].authorized

RunInv ==
  /\ AgentRunTypeOK /\ GateInv /\ CallersInv /\ Budget
  /\ pc # "idle" => Len(runs) > 0

-----------------------------------------------------------------------------

(* No run has started.                                                     *)
LEMMA InitInv == Init => RunInv
<1> SUFFICES ASSUME Init PROVE RunInv
  OBVIOUS
<1>1. gate = [c \in Callers |-> Idle] /\ Idle \in Call
  BY DEF Init, GateInit, Idle, Call, Names
<1>2. world \in World
  <2>1. PICK account \in {"active", "locked"} : world = FreshWorld(account)
    BY GateAssumption DEF Init, GateInit
  <2>2. QED
    BY <2>1 DEF FreshWorld, World
<1>3. GateTypeOK
  BY <1>1, <1>2 DEF Init, GateInit, GateTypeOK
<1>4. Idle.step = "idle" /\ Idle.tool = Unknown
  BY DEF Idle
<1>5. GateInv /\ CallersInv
  <2>1. gate["specialist"] = Idle /\ gate["workflow"] = Idle
    BY <1>1 DEF Callers
  <2>2. Unknown \notin TicketingTools
    BY GateAssumption DEF Tools
  <2>3. CallersInv
    BY <2>1, <2>2, <1>4 DEF CallersInv, AtGate
  <2>4. GateInv
    BY <1>1, <1>3, <1>4 DEF GateInv, AtGate
  <2>5. QED
    BY <2>3, <2>4
<1>6. QED
  BY <1>3, <1>5 DEF Init, RunInv, AgentRunTypeOK, Budget, Ended, Results

(* Steps of the registry and of the workflows leave the runner alone.      *)
LEMMA RunnerFrame ==
  ASSUME RunInv, UNCHANGED runVars, GateInv', CallersInv', confirmed' \in Nat
  PROVE  RunInv'
BY DEF RunInv, runVars, loc, AgentRunTypeOK, GateInv, Budget

(* A call on its way through the registry leaves the run alone.            *)
LEMMA GateStepInv ==
  ASSUME RunInv, NEW c \in Callers, GateStep(c)
  PROVE  RunInv'
<1>1. GateInv'
  BY ExecuteToolInv DEF RunInv, GateStep
<1>2. gate'["specialist"].tool = gate["specialist"].tool
  BY ExecuteToolCall DEF RunInv, GateStep, Callers
<1>3. gate'["workflow"].authorized = gate["workflow"].authorized
  BY ExecuteToolCall DEF RunInv, GateStep, Callers
<1>4. ~AtGate("workflow", "idle")' => ~AtGate("workflow", "idle")
  <2>1. CASE c = "workflow"
    BY <2>1 DEF GateStep, ExecuteTool, Announce, HandlerWorks, HandlerRaises, HandlerCutOff,
       Save, SaveFails, AtGate
  <2>2. CASE c # "workflow"
    BY <2>2, ExecuteToolCall DEF RunInv, GateStep, Callers, AtGate
  <2>3. QED
    BY <2>1, <2>2
<1>5. CallersInv'
  BY <1>2, <1>3, <1>4 DEF CallersInv, RunInv
<1>6. QED
  BY <1>1, <1>5, RunnerFrame DEF GateStep, RunInv, AgentRunTypeOK

(* A workflow's call leaves the run alone.                                 *)
LEMMA WorkflowInv ==
  ASSUME RunInv, WorkflowExecutes \/ WorkflowGoesOn
  PROVE  RunInv'
<1> DEFINE w == "workflow"
<1>0. w \in Callers /\ GateInv /\ gate \in [Callers -> Call]
  BY DEF Callers, RunInv, GateInv, GateTypeOK
<1>1. CASE WorkflowExecutes
  <2>1. PICK t \in Names : Enter(w, t, 0, TRUE)
    BY <1>1, RunAssumption DEF WorkflowExecutes
  <2>2. GateInv'
    BY <1>0, <1>1, <2>1, EnterInv DEF WorkflowExecutes
  <2>3. CallersInv'
    BY <1>0, <2>1 DEF Enter, RunInv, CallersInv, AtGate, Callers
  <2>4. QED
    BY <1>1, <2>2, <2>3, RunnerFrame DEF WorkflowExecutes, RunInv, AgentRunTypeOK
<1>2. CASE WorkflowGoesOn
  <2>1. GateInv'
    BY <1>0, <1>2, LeaveInv DEF WorkflowGoesOn
  <2>2. Idle.step = "idle"
    BY DEF Idle
  <2>3. CallersInv'
    BY <1>0, <1>2, <2>2 DEF WorkflowGoesOn, Leave, RunInv, CallersInv, AtGate, Callers
  <2>4. QED
    BY <1>2, <2>1, <2>3, RunnerFrame DEF WorkflowGoesOn, RunInv, AgentRunTypeOK
<1>3. QED
  BY <1>1, <1>2

-----------------------------------------------------------------------------
\* Steps of the runner

(* Steps of the runner that do not enter the registry.                     *)
LEMMA GateFrame ==
  ASSUME RunInv, UNCHANGED <<world, gate, rows, did>>, faults' \in Nat
  PROVE  GateInv' /\ CallersInv' /\ GateTypeOK'
BY DEF RunInv, GateInv, CallersInv, GateTypeOK, AtGate, Blocked

(* Writing the row of the current run.                                     *)
LEMMA RowWritten ==
  ASSUME RunInv, Len(runs) > 0, NEW new \in RunRow, runs' = [runs EXCEPT ![Current] = new]
  PROVE  runs' \in Seq(RunRow) /\ Len(runs') = Len(runs)
<1>1. runs \in Seq(RunRow) /\ Current \in 1..Len(runs)
  BY DEF RunInv, AgentRunTypeOK, Current
<1>2. QED
  BY <1>1

(* The run under way has a row.                                            *)
LEMMA CurrentRow ==
  ASSUME RunInv, Len(runs) > 0
  PROVE  runs[Current] \in RunRow
BY DEF RunInv, AgentRunTypeOK, Current

(* What a run counts are numbers.                                          *)
LEMMA LocalsType ==
  ASSUME RunInv
  PROVE  /\ round \in Nat /\ attempt \in Nat /\ asks \in Nat /\ steps \in Nat
         /\ used \in Seq(Names) /\ result \in Results /\ Len(used) \in Nat
         /\ MaxSteps \in Nat /\ MaxRetries \in Nat /\ LastRound = MaxSteps + 2
BY RunAssumption DEF RunInv, AgentRunTypeOK, LastRound

(* A run starts with nothing spent.                                        *)
LEMMA StartRunInv ==
  ASSUME RunInv, StartRun
  PROVE  RunInv'
<1> DEFINE new == [index |-> previous, status |-> "started", tools |-> <<>>,
                   update |-> "pending"]
<1>1. /\ runs \in Seq(RunRow) /\ previous \in Nat /\ pc = "idle" /\ pc' = "announce"
      /\ runs' = Append(runs, new)
      /\ UNCHANGED <<gateVars, loc, previous, confirmed>>
  BY DEF RunInv, AgentRunTypeOK, StartRun, GoTo
<1>2. new \in RunRow
  BY <1>1 DEF RunRow
<1> HIDE DEF new
<1>3. runs' \in Seq(RunRow) /\ Len(runs') > 0
  BY <1>1, <1>2
<1>4. GateInv' /\ CallersInv' /\ GateTypeOK'
  BY <1>1, GateFrame DEF gateVars, RunInv, GateInv, GateTypeOK
<1>5. Budget'
  BY <1>1, LocalsType DEF RunInv, Budget, Ended, loc
<1>6. QED
  BY <1>1, <1>3, <1>4, <1>5 DEF RunInv, AgentRunTypeOK, loc

Points == {"idle", "announce", "think", "note", "tool", "handoff", "save", "tell"}

LocalsOK ==
  /\ round \in Nat /\ attempt \in Nat /\ asks \in Nat /\ steps \in Nat
  /\ used \in Seq(Names) /\ result \in Results

(* The steps of the loop that leave the row and the registry alone.        *)
LEMMA LoopFrame ==
  ASSUME RunInv, UNCHANGED <<gateVars, runs, previous, confirmed>>,
         pc # "idle", LocalsOK', Budget', pc' \in Points
  PROVE  RunInv'
<1>1. GateInv' /\ CallersInv' /\ GateTypeOK'
  BY GateFrame DEF gateVars, RunInv, GateInv, GateTypeOK
<1>2. QED
  BY <1>1 DEF RunInv, AgentRunTypeOK, LocalsOK, Points

(* What a thought may cost.                                                *)
LEMMA ThinkBudget ==
  ASSUME RunInv, pc = "think"
  PROVE  /\ round >= 1 /\ round <= LastRound /\ attempt <= MaxRetries
         /\ asks + 1 <= Allowed(round - 1) + attempt + 1
         /\ asks + 1 <= Allowed(round) /\ asks + 1 <= Allowed(LastRound)
         /\ steps <= round - 1 /\ Len(used) <= steps /\ Len(used) <= MaxSteps
         /\ Allowed(round - 1) \in Nat
<1>1. /\ round >= 1 /\ round <= LastRound /\ attempt <= MaxRetries
      /\ asks <= Allowed(round - 1) + attempt
      /\ steps <= round - 1 /\ Len(used) <= steps /\ Len(used) <= MaxSteps
  BY DEF RunInv, Budget
<1>2. round - 1 \in Nat /\ (round - 1) + 1 = round /\ LastRound \in Nat
  BY <1>1, LocalsType
<1>3. /\ Allowed(round - 1) \in Nat /\ Allowed(round) = Allowed(round - 1) + MaxRetries + 1
      /\ Allowed(round) <= Allowed(LastRound) /\ Allowed(round) \in Nat
      /\ Allowed(LastRound) \in Nat
  BY <1>1, <1>2, LocalsType, AllowedFacts
<1>4. QED
  BY SMTT(60), <1>1, <1>3, LocalsType

(* An answer of the model spends what it is allowed.                       *)
LEMMA ThinkInv ==
  ASSUME RunInv, Finish \/ RefuseCall \/ InvalidAnswer
  PROVE  RunInv'
<1>1. /\ pc = "think" /\ UNCHANGED <<gateVars, runs, previous, confirmed>>
      /\ UNCHANGED used
  BY DEF Finish, RefuseCall, InvalidAnswer
<1>2. CASE Finish
  <2>1. LocalsOK' /\ pc' \in Points
    BY <1>2, LocalsType DEF Finish, LocalsOK, Results, Points
  <2>2. Budget'
    BY <1>1, <1>2, ThinkBudget, LocalsType DEF Finish, Budget, Ended
  <2>3. QED
    BY <1>1, <2>1, <2>2, LoopFrame
<1>3. CASE InvalidAnswer
  <2>1. LocalsOK' /\ pc' \in Points
    BY <1>3, LocalsType DEF InvalidAnswer, GoTo, LocalsOK, Results, Points
  <2>2. Budget'
    BY SMTT(60), <1>1, <1>3, ThinkBudget, LocalsType DEF InvalidAnswer, GoTo, Budget, Ended
  <2>3. QED
    BY <1>1, <2>1, <2>2, LoopFrame
<1>4. CASE RefuseCall
  <2>1. LocalsOK' /\ pc' \in Points
    BY SMTT(60), <1>4, LocalsType DEF RefuseCall, GoRound, GoTo, LocalsOK, Results, Failures, Points
  <2>2. CASE round < LastRound
    <3>1. /\ pc' = "think" /\ round' = round + 1 /\ attempt' = 0 /\ asks' = asks + 1
          /\ steps' = steps + 1 /\ round' - 1 = round
      BY <1>4, <2>2, LocalsType DEF RefuseCall, GoRound, GoTo
    <3>2. Allowed(round' - 1) = Allowed(round)
      BY <3>1
    <3>3. Allowed(round) \in Nat
      BY LocalsType, AllowedFacts
    <3>4. Budget'
      <4>1. /\ asks + 1 <= Allowed(round) /\ steps <= round - 1 /\ round <= LastRound
            /\ round >= 1 /\ Len(used) <= steps /\ Len(used) <= MaxSteps
        BY <1>1, ThinkBudget
      <4>2. /\ round \in Nat /\ asks \in Nat /\ steps \in Nat /\ Len(used) \in Nat
            /\ MaxSteps \in Nat /\ MaxRetries \in Nat /\ LastRound \in Nat
        BY LocalsType
      <4>3. used' = used
        BY <1>1
      <4>4. asks' <= Allowed(round' - 1) + attempt'
        BY <3>1, <3>2, <3>3, <4>1, <4>2
      <4>5. round' >= 1 /\ round' <= LastRound /\ attempt' <= MaxRetries
        BY <2>2, <3>1, <4>1, <4>2
      <4>6. steps' <= round' - 1 /\ Len(used') <= steps' /\ Len(used') <= MaxSteps
        BY <3>1, <4>1, <4>2, <4>3
      <4>7. QED
        BY <3>1, <4>2, <4>4, <4>5, <4>6 DEF Budget, Ended
    <3>5. QED
      BY <1>1, <2>1, <3>4, LoopFrame
  <2>3. CASE ~(round < LastRound)
    <3>1. Budget'
      BY SMTT(60), <1>1, <1>4, <2>3, ThinkBudget, LocalsType DEF RefuseCall, GoRound, GoTo, Budget, Ended
    <3>2. QED
      BY <1>1, <2>1, <3>1, LoopFrame
  <2>4. QED
    BY <2>2, <2>3
<1>5. QED
  BY <1>2, <1>3, <1>4

(* The specialist calls a tool of its catalog.                             *)
LEMMA CallToolInv ==
  ASSUME RunInv, CallTool
  PROVE  RunInv'
<1>1. PICK t \in Names \cap Catalog : Enter("specialist", t, Current, FALSE)
  BY RunAssumption DEF CallTool
<1>2. Current \in Nat /\ GateInv
  BY DEF RunInv, AgentRunTypeOK, Current
<1>3. GateInv'
  BY <1>1, <1>2, EnterInv DEF CallTool, Callers
<1>4. t \notin TicketingTools
  BY <1>1, RunAssumption DEF Catalog, Catalogue, TicketingTools
<1>5. CallersInv'
  BY <1>1, <1>4 DEF Enter, RunInv, GateInv, GateTypeOK, CallersInv, AtGate, Callers
<1>6. /\ pc = "think" /\ pc' = "tool" /\ asks' = asks + 1 /\ steps' = steps + 1
      /\ steps < MaxSteps /\ UNCHANGED <<round, attempt, used, result, runs, previous, confirmed>>
  BY DEF CallTool, GoTo, WithinBudget
<1>7. Budget'
  BY SMTT(60), <1>6, ThinkBudget, LocalsType DEF Budget, Ended
<1>8. QED
  BY <1>3, <1>5, <1>6, <1>7, LocalsType DEF RunInv, AgentRunTypeOK, GateInv

(* A result taken from the registry ends the round.                        *)
LEMMA ObserveInv ==
  ASSUME RunInv, Observe
  PROVE  RunInv'
<1>1. /\ pc = "tool" /\ Leave("specialist") /\ used' = Append(used, gate["specialist"].tool)
      /\ UNCHANGED <<asks, steps, world, rows, did, faults, runs, previous, confirmed>>
  BY DEF Observe, Noted
<1>2. GateInv'
  BY <1>1, LeaveInv DEF RunInv, Callers
<1>3. Idle.tool = Unknown /\ Unknown \notin TicketingTools
  BY GateAssumption DEF Idle, Tools
<1>4. CallersInv'
  BY <1>1, <1>3 DEF Leave, RunInv, GateInv, GateTypeOK, CallersInv, AtGate, Callers
<1>5. gate["specialist"].tool \in Names
  BY CallChanges DEF RunInv, GateInv, Callers, Call
<1>6. used' \in Seq(Names) /\ Len(used') = Len(used) + 1
  BY <1>1, <1>5, LocalsType
<1>7. /\ round >= 1 /\ round <= LastRound
      /\ asks <= Allowed(round) /\ steps <= round /\ Len(used) < steps /\ steps <= MaxSteps
  BY <1>1 DEF RunInv, Budget
<1>8. /\ round \in Nat /\ LastRound \in Nat /\ Allowed(round) \in Nat
      /\ Allowed(round) <= Allowed(LastRound) /\ Allowed(LastRound) \in Nat
  <2>1. round \in Nat /\ LastRound \in Nat
    BY LocalsType
  <2>2. QED
    BY <1>7, <2>1, AllowedFacts
<1>9. CASE round < LastRound
  <2>1. pc' = "think" /\ round' = round + 1 /\ attempt' = 0 /\ round' - 1 = round
        /\ result' = result
    BY <1>9, LocalsType DEF Observe, GoRound, GoTo
  <2>2. Allowed(round' - 1) = Allowed(round)
    BY <2>1
  <2>3. Budget'
    BY <1>1, <1>6, <1>7, <1>8, <1>9, <2>1, <2>2, LocalsType DEF Budget, Ended, LastRound
  <2>4. QED
    BY <1>1, <1>2, <1>4, <1>6, <2>1, <2>3, LocalsType DEF RunInv, AgentRunTypeOK, GateInv
<1>10. CASE ~(round < LastRound)
  <2>1. pc' = "save" /\ UNCHANGED <<round, attempt>> /\ result' = "budget_exhausted"
    BY <1>10 DEF Observe, GoRound, GoTo
  <2>2. Budget'
    BY <1>1, <1>6, <1>7, <1>8, <2>1, LocalsType DEF Budget, Ended
  <2>3. QED
    BY <1>1, <1>2, <1>4, <1>6, <2>1, <2>2, LocalsType
       DEF RunInv, AgentRunTypeOK, GateInv, Results, Failures
<1>11. QED
  BY <1>9, <1>10

(* The announcements, and a retry or the end of retrying.                  *)
LEMMA RecordInv ==
  ASSUME RunInv, AnnounceRun \/ Retry \/ RecordHandoff
  PROVE  RunInv'
<1>1. /\ pc \in {"announce", "note", "handoff"}
      /\ UNCHANGED <<gateVars, runs, previous, confirmed>>
      /\ UNCHANGED <<round, attempt, asks, steps, used>>
  BY DEF AnnounceRun, Retry, RecordHandoff, loc
<1>2. LocalsOK' /\ pc' \in Points
  BY <1>1, LocalsType
     DEF AnnounceRun, Retry, RecordHandoff, loc, GoTo, LocalsOK, Results, Failures, Points
<1>3. CASE AnnounceRun
  <2>1. Allowed(0) \in Nat /\ round - 1 = 0
    BY <1>3, AllowedFacts DEF AnnounceRun, RunInv, Budget
  <2>2. Allowed(round - 1) \in Nat
    BY <2>1
  <2>3. Budget'
    BY <1>1, <1>3, <2>1, <2>2, LocalsType DEF AnnounceRun, GoTo, RunInv, Budget, Ended
  <2>4. QED
    BY <1>1, <1>2, <2>3, LoopFrame
<1>4. CASE RecordHandoff
  <2>1. Budget'
    BY <1>1, <1>4 DEF RecordHandoff, GoTo, RunInv, Budget, Ended
  <2>2. QED
    BY <1>1, <1>2, <2>1, LoopFrame
<1>5. CASE Retry
  <2>1. /\ round >= 1 /\ round <= LastRound /\ attempt <= MaxRetries + 1
        /\ asks <= Allowed(round - 1) + attempt /\ steps <= round - 1
        /\ Len(used) <= steps /\ Len(used) <= MaxSteps
    BY <1>5 DEF Retry, RunInv, Budget
  <2>2. /\ round - 1 \in Nat /\ (round - 1) + 1 = round /\ LastRound \in Nat
    BY <2>1, LocalsType
  <2>3. /\ Allowed(round - 1) \in Nat /\ Allowed(round) = Allowed(round - 1) + MaxRetries + 1
        /\ Allowed(round) <= Allowed(LastRound) /\ Allowed(LastRound) \in Nat
    BY <2>1, <2>2, LocalsType, AllowedFacts
  <2>4. asks <= Allowed(LastRound) /\ steps <= LastRound
    BY SMTT(60), <2>1, <2>2, <2>3, LocalsType
  <2>5. CASE attempt <= MaxRetries
    BY <1>1, <1>2, <1>5, <2>1, <2>5, LoopFrame DEF Retry, GoTo, Budget, Ended
  <2>6. CASE ~(attempt <= MaxRetries)
    BY <1>1, <1>2, <1>5, <2>1, <2>4, <2>6, LoopFrame DEF Retry, GoTo, Budget, Ended
  <2>7. QED
    BY <2>5, <2>6
<1>6. QED
  BY <1>3, <1>4, <1>5

(* The end of a run.                                                       *)
LEMMA EndInv ==
  ASSUME RunInv, CompleteRun \/ ReturnUpdate \/ RunRaises
  PROVE  RunInv'
<1>1. /\ Len(runs) > 0 /\ runs[Current] \in RunRow /\ runs \in Seq(RunRow)
      /\ faults \in Nat /\ previous \in Nat
  BY CurrentRow DEF CompleteRun, ReturnUpdate, RunRaises, RunInv, AgentRunTypeOK, GateTypeOK
<1>2. faults' \in Nat /\ UNCHANGED <<world, gate, rows, did, confirmed>>
  BY <1>1 DEF CompleteRun, ReturnUpdate, RunRaises, Breaks, gateVars
<1>3. GateInv' /\ CallersInv' /\ GateTypeOK'
  BY <1>2, GateFrame
<1>4. CASE CompleteRun
  <2> DEFINE end == IF result \in Failures THEN "failed" ELSE "completed"
             new == [[runs[Current] EXCEPT !.status = end] EXCEPT !.tools = used]
  <2>1. new \in RunRow
    BY <1>1, LocalsType DEF RunRow
  <2>2. runs' = [runs EXCEPT ![Current] = new]
    BY <1>1, <1>4 DEF CompleteRun, Current
  <2> HIDE DEF new
  <2>3. runs' \in Seq(RunRow) /\ Len(runs') = Len(runs)
    BY <1>1, <2>1, <2>2, RowWritten
  <2>4. pc = "save" /\ pc' = "tell" /\ UNCHANGED loc /\ UNCHANGED previous
    BY <1>4 DEF CompleteRun, GoTo
  <2>5. Budget'
    BY <2>4 DEF RunInv, Budget, Ended, loc
  <2>6. QED
    BY <1>1, <1>2, <1>3, <2>3, <2>4, <2>5 DEF RunInv, AgentRunTypeOK, loc
<1>5. CASE ReturnUpdate
  <2> DEFINE new == [runs[Current] EXCEPT !.update = "returned"]
  <2>1. new \in RunRow
    BY <1>1 DEF RunRow
  <2>2. runs' = [runs EXCEPT ![Current] = new]
    BY <1>1, <1>5 DEF ReturnUpdate, Current
  <2> HIDE DEF new
  <2>3. runs' \in Seq(RunRow)
    BY <1>1, <2>1, <2>2, RowWritten
  <2>4. pc' = "idle" /\ FreshLocals /\ previous' \in Nat
    BY <1>1, <1>5 DEF ReturnUpdate, GoTo, CountRun
  <2>5. Budget'
    BY <2>4 DEF FreshLocals, Budget, Ended
  <2>6. QED
    BY <1>1, <1>2, <1>3, <2>3, <2>4, <2>5 DEF RunInv, AgentRunTypeOK, FreshLocals, Results
<1>6. CASE RunRaises
  <2>1. pc' = "idle" /\ FreshLocals /\ UNCHANGED <<runs, previous>>
    BY <1>6 DEF RunRaises, GoTo
  <2>2. Budget'
    BY <2>1 DEF FreshLocals, Budget, Ended
  <2>3. QED
    BY <1>1, <1>2, <1>3, <2>1, <2>2 DEF RunInv, AgentRunTypeOK, FreshLocals, Results
<1>7. QED
  BY <1>4, <1>5, <1>6

(* Every step keeps the invariant.                                         *)
LEMMA StepInv == RunInv /\ [Next]_vars => RunInv'
<1> SUFFICES ASSUME RunInv, [Next]_vars PROVE RunInv'
  OBVIOUS
<1>1. CASE UNCHANGED vars
  <2>1. GateInv' /\ CallersInv' /\ GateTypeOK'
    BY <1>1, GateFrame DEF vars, gateVars, RunInv, GateInv, GateTypeOK
  <2>2. QED
    BY <1>1, <2>1, RunnerFrame DEF vars, RunInv, AgentRunTypeOK
<1>2. CASE Next
  BY <1>2, StartRunInv, ThinkInv, CallToolInv, ObserveInv, RecordInv, EndInv, WorkflowInv,
     GateStepInv DEF Next, RunStep, Think
<1>3. QED
  BY <1>1, <1>2

(* The types and the bound hold in every reachable state.                  *)
LEMMA InvHolds == Spec => []RunInv
BY InitInv, StepInv, PTL DEF Spec

-----------------------------------------------------------------------------

(* The rows, the calls in the registry and the runner's locals keep their  *)
(* types (runner.py, registry.py).                                         *)
THEOREM AgentRunTypes == Spec => []AgentRunTypeOK
<1>1. RunInv => AgentRunTypeOK
  BY DEF RunInv
<1>2. QED
  BY <1>1, InvHolds, PTL

(* For every budget and whatever the model answers: at most (max_steps+2)  *)
(* * (max_retries+1) answers and max_steps tool calls in one run           *)
(* (runner.py, run_specialist; structured.py, invoke_structured).          *)
THEOREM BoundedWork == Spec => []WorkIsBounded
<1>1. RunInv => WorkIsBounded
  <2> SUFFICES ASSUME RunInv, pc # "idle"
               PROVE  /\ asks <= LastRound * (MaxRetries + 1)
                      /\ Len(used) <= MaxSteps /\ steps <= LastRound
    BY DEF WorkIsBounded
  <2>1. /\ round >= 1 /\ round <= LastRound /\ round \in Nat /\ LastRound \in Nat
    BY LocalsType DEF RunInv, Budget
  <2>2. /\ Allowed(LastRound) \in Nat /\ Allowed(round) <= Allowed(LastRound)
        /\ Allowed(round) \in Nat /\ Allowed(round - 1) \in Nat
        /\ Allowed(round) = Allowed(round - 1) + MaxRetries + 1
    <3>1. round - 1 \in Nat /\ (round - 1) + 1 = round
      BY <2>1
    <3>2. QED
      BY <2>1, <3>1, AllowedFacts
  <2>3. asks <= Allowed(LastRound) /\ Len(used) <= MaxSteps /\ steps <= LastRound
    <3>1. CASE pc = "announce"
      BY <2>1, <2>2, <3>1, LocalsType DEF RunInv, Budget
    <3>2. CASE pc \in {"think", "note"}
      BY SMTT(60), <2>1, <2>2, <3>2, LocalsType DEF RunInv, Budget
    <3>3. CASE pc = "tool"
      BY SMTT(60), <2>1, <2>2, <3>3, LocalsType DEF RunInv, Budget
    <3>4. CASE pc \in Ended
      BY <3>4 DEF RunInv, Budget
    <3>5. QED
      BY <3>1, <3>2, <3>3, <3>4 DEF RunInv, AgentRunTypeOK, Ended
  <2>4. QED
    BY <2>3 DEF Allowed
<1>2. QED
  BY <1>1, InvHolds, PTL

(* For every catalogue: what a privileged or a ticketing tool changes is   *)
(* changed by a call that a workflow authorized (registry.py,              *)
(* execute_tool; specs.py; confirmation.py, execute_action).               *)
THEOREM PrivilegeGate == Spec => PrivilegedNeedsWorkflow
<1> DEFINE Gated ==
      Touched(world') # Touched(world) =>
        \E c \in Callers : AtGate(c, "handle") /\ gate[c].authorized /\ gate'[c].step # "handle"
<1>1. RunInv /\ [Next]_vars => [Gated]_vars
  <2> SUFFICES ASSUME RunInv, Next, Touched(world') # Touched(world) PROVE Gated
    BY DEF vars, gateVars
  <2>1. world' # world
    OBVIOUS
  <2>2. PICK c \in Callers : GateStep(c)
    BY <2>1 DEF Next, StartRun, RunStep, AnnounceRun, Think, Finish, RefuseCall, CallTool,
       InvalidAnswer, Observe, Retry, RecordHandoff, CompleteRun, ReturnUpdate, RunRaises,
       WorkflowExecutes, WorkflowGoesOn, gateVars
  <2>3. /\ AtGate(c, "handle") /\ world' = After(gate[c].tool, world) /\ ~Blocked(c)
        /\ \E status \in {"succeeded", "failed"} : Settle(c, status)
    BY <2>1, <2>2 DEF GateStep, ExecuteTool, Announce, HandlerWorks, HandlerRaises,
       HandlerCutOff, Save, SaveFails, RunInv, GateInv
  <2>4. gate'[c].step # "handle"
    <3>1. gate[c] \in Call /\ gate \in [Callers -> Call]
      BY CallChanges DEF RunInv, GateInv, GateTypeOK
    <3>2. PICK status \in {"succeeded", "failed"} : Settle(c, status)
      BY <2>3
    <3>3. gate' = [gate EXCEPT ![c] =
                     [[gate[c] EXCEPT !.step = "save"] EXCEPT !.status = status]]
      BY <3>1, <3>2 DEF Settle
    <3>4. QED
      BY <3>1, <3>3 DEF Call
  <2>5. gate[c].authorized
    <3>1. CASE gate[c].tool \in Privileged
      BY <2>3, <3>1 DEF Blocked
    <3>2. CASE c = "workflow"
      BY <2>3, <3>2 DEF RunInv, CallersInv, AtGate
    <3>3. CASE gate[c].tool \notin Privileged /\ c = "specialist"
      <4>1. gate[c].tool \notin Writes
        BY <3>3 DEF RunInv, CallersInv, TicketingTools, Writes
      <4>2. world \in World
        BY DEF RunInv, GateInv, GateTypeOK
      <4>3. After(gate[c].tool, world) \in
              {world, [world EXCEPT !.flags = @ \cup {"review"}],
               [world EXCEPT !.team = "notified"]}
        BY <3>3, <4>1 DEF After, Privileged
      <4>4. Touched(world') = Touched(world)
        BY <2>3, <4>2, <4>3 DEF Touched, World
      <4>5. QED
        BY <4>4
    <3>4. QED
      BY <3>1, <3>2, <3>3 DEF Callers
  <2>6. QED
    BY <2>3, <2>4, <2>5
<1>2. QED
  BY <1>1, InvHolds, PTL DEF Spec, PrivilegedNeedsWorkflow
-----------------------------------------------------------------------------
\* The audit trail

(* A success that is about to get its row.                                 *)
Owed(c) == AtGate(c, "save") /\ gate[c].status = "succeeded"

(* Each success has its row, but for one that is still owed it: that is    *)
(* the last piece of work.                                                 *)
Accounted(c) ==
  /\ IF Owed(c)
     THEN \E front \in Seq(Work) : /\ did[c] = Append(front, Entry(c, "succeeded"))
                                   /\ Succeeded(front) = Succeeded(rows[c])
     ELSE Succeeded(did[c]) = Succeeded(rows[c])
  /\ Len(did[c]) <= Len(Succeeded(rows[c])) + faults + (IF Owed(c) THEN 1 ELSE 0)

AuditInv == \A c \in Callers : Accounted(c)

(* A success counts, and nothing else does.                                *)
Counts(s, x) ==
  Succeeded(Append(s, x)) =
    IF x.status = "succeeded" THEN Append(Succeeded(s), x) ELSE Succeeded(s)

(* The successes of a trail grow with each success and with nothing else.  *)
LEMMA SuccessCounts ==
  ASSUME NEW s \in Seq(Work), NEW x \in Work
  PROVE  Counts(s, x) /\ Succeeded(s) \in Seq(Work)
<1>1. x \in Successes <=> x.status = "succeeded"
  BY DEF Successes, Work
<1>2. Succeeded(s) \in Seq(Work)
  BY KeptType DEF Succeeded
<1>3. Succeeded(Append(s, x)) =
        IF x \in Successes THEN Append(Succeeded(s), x) ELSE Succeeded(s)
  BY KeptAppend DEF Succeeded
<1> QED
  BY <1>1, <1>2, <1>3 DEF Counts

(* What a step leaves of a caller's call and rows stays accounted for.     *)
LEMMA StillAccounted ==
  ASSUME NEW c \in Callers, Accounted(c), rows'[c] = rows[c], did'[c] = did[c],
         gate'[c].run = gate[c].run, gate'[c].tool = gate[c].tool, Owed(c)' <=> Owed(c),
         rows[c] \in Seq(ToolRow), did[c] \in Seq(Work),
         faults \in Nat, faults' \in Nat, faults <= faults'
  PROVE  Accounted(c)'
<1>1. Len(did[c]) \in Nat /\ Len(Succeeded(rows[c])) \in Nat
  BY KeptType DEF Succeeded
<1>2. Entry(c, "succeeded")' = Entry(c, "succeeded")
  BY DEF Entry
<1>3. CASE Owed(c)
  BY <1>1, <1>2, <1>3 DEF Accounted
<1>4. CASE ~Owed(c)
  BY <1>1, <1>4 DEF Accounted
<1> QED
  BY <1>3, <1>4

(* A call that owes nothing before and after a step.                       *)
LEMMA NothingOwed ==
  ASSUME NEW c \in Callers, Accounted(c), rows'[c] = rows[c], did'[c] = did[c],
         ~Owed(c), ~Owed(c)', rows[c] \in Seq(ToolRow), did[c] \in Seq(Work),
         faults \in Nat, faults' \in Nat, faults <= faults'
  PROVE  Accounted(c)'
<1>1. Len(did[c]) \in Nat /\ Len(Succeeded(rows[c])) \in Nat
  BY KeptType DEF Succeeded
<1> QED
  BY <1>1 DEF Accounted

(* Where a call stands after one of its steps.                             *)
LEMMA CallMoves ==
  ASSUME GateTypeOK, NEW c \in Callers
  PROVE  /\ \A step : Pass(c, step) =>
              gate'[c].step = step /\ gate'[c].run = gate[c].run /\ gate'[c].tool = gate[c].tool
         /\ \A status : Settle(c, status) =>
              /\ gate'[c].step = "save" /\ gate'[c].status = status
              /\ gate'[c].run = gate[c].run /\ gate'[c].tool = gate[c].tool
         /\ Leave(c) => gate'[c].step = "idle"
<1>1. gate \in [Callers -> Call] /\ gate[c] \in Call
  BY DEF GateTypeOK
<1>2. ASSUME NEW step, Pass(c, step)
      PROVE  gate'[c].step = step /\ gate'[c].run = gate[c].run /\ gate'[c].tool = gate[c].tool
  <2>1. gate'[c] = [gate[c] EXCEPT !.step = step]
    BY <1>1, <1>2 DEF Pass
  <2> QED
    BY <1>1, <2>1 DEF Call
<1>3. ASSUME NEW status, Settle(c, status)
      PROVE  /\ gate'[c].step = "save" /\ gate'[c].status = status
             /\ gate'[c].run = gate[c].run /\ gate'[c].tool = gate[c].tool
  <2>1. gate' = [gate EXCEPT ![c] = [[gate[c] EXCEPT !.step = "save"] EXCEPT !.status = status]]
    BY <1>1, <1>3 DEF Settle
  <2>2. gate'[c] = [[gate[c] EXCEPT !.step = "save"] EXCEPT !.status = status]
    BY <1>1, <2>1
  <2> QED
    BY <1>1, <2>2 DEF Call
<1>4. Leave(c) => gate'[c].step = "idle"
  BY <1>1 DEF Leave, Idle
<1> QED
  BY <1>2, <1>3, <1>4

(* Entering the registry owes nothing.                                     *)
LEMMA EnteringOwesNothing ==
  ASSUME GateTypeOK, NEW c \in Callers, NEW t, NEW run, NEW authorized,
         Enter(c, t, run, authorized)
  PROVE  /\ AtGate(c, "idle")
         /\ gate'[c].run = run /\ gate'[c].tool = t /\ gate'[c].step \in {"announce", "save"}
         /\ ~Owed(c) /\ ~Owed(c)'
BY DEF GateTypeOK, Enter, AtGate, Owed

(* A step of the registry keeps the trail of the caller it serves.         *)
LEMMA ServedAccounted ==
  ASSUME GateTypeOK, GateInv', NEW c \in Callers, Accounted(c), ExecuteTool(c)
  PROVE  Accounted(c)'
<1>1. /\ rows \in [Callers -> Seq(ToolRow)] /\ did \in [Callers -> Seq(Work)]
      /\ faults \in Nat /\ rows[c] \in Seq(ToolRow) /\ did[c] \in Seq(Work)
      /\ Len(did[c]) \in Nat
  BY DEF GateTypeOK
<1>2. Len(Succeeded(rows[c])) \in Nat
  BY <1>1, KeptType DEF Succeeded
<1> DEFINE won  == Entry(c, "succeeded")
           lost == Entry(c, "failed")
<1>3. /\ won \in ToolRow /\ won \in Work /\ lost \in Work
      /\ won.status = "succeeded" /\ lost.status = "failed"
  <2>1. won \in ToolRow /\ won \in Work /\ lost \in Work
    BY EntryType
  <2>2. won.status = "succeeded" /\ lost.status = "failed"
    BY DEF Entry
  <2> QED
    BY <2>1, <2>2
<1>4. CASE Announce(c)
  <2>1. ~Owed(c) /\ ~Owed(c)'
    BY <1>4, CallMoves DEF Announce, Owed, AtGate
  <2> QED
    BY <1>1, <1>4, <2>1, NothingOwed DEF Announce
<1>5. CASE HandlerRaises(c)
  <2>1. ~Owed(c) /\ ~Owed(c)'
    BY <1>5, CallMoves DEF HandlerRaises, Owed, AtGate
  <2> QED
    BY <1>1, <1>5, <2>1, NothingOwed DEF HandlerRaises
<1>6. CASE HandlerWorks(c)
  <2>1. ~Owed(c) /\ Owed(c)' /\ won' = won /\ did'[c] = Append(did[c], won)
    BY <1>1, <1>6, CallMoves DEF HandlerWorks, Owed, AtGate, Entry
  <2>2. rows'[c] = rows[c] /\ faults' = faults
    BY <1>6 DEF HandlerWorks
  <2>3. /\ Succeeded(did[c]) = Succeeded(rows[c])
        /\ Len(did[c]) <= Len(Succeeded(rows[c])) + faults
    BY <1>1, <1>2, <2>1 DEF Accounted
  <2> HIDE DEF won
  <2>4. Len(did'[c]) = Len(did[c]) + 1
    BY <1>1, <1>3, <2>1
  <2>5. \E front \in Seq(Work) :
          did'[c] = Append(front, won) /\ Succeeded(front) = Succeeded(rows'[c])
    BY <1>1, <2>1, <2>2, <2>3
  <2>6. Len(did'[c]) <= Len(Succeeded(rows'[c])) + faults' + 1
    BY <1>1, <1>2, <2>2, <2>3, <2>4
  <2> QED
    BY <2>1, <2>5, <2>6 DEF Accounted, won
<1>7. CASE HandlerCutOff(c)
  <2>1. ~Owed(c) /\ ~Owed(c)' /\ rows'[c] = rows[c] /\ faults' = faults + 1
    BY <1>7, CallMoves DEF HandlerCutOff, Owed, AtGate, Breaks
  <2>2. Succeeded(did'[c]) = Succeeded(did[c]) /\ Len(did'[c]) <= Len(did[c]) + 1
    <3>1. CASE did' = did
      BY <1>1, <3>1
    <3>2. CASE did' = [did EXCEPT ![c] = Append(@, lost)]
      <4>1. did'[c] = Append(did[c], lost)
        BY <1>1, <3>2
      <4>2. Counts(did[c], lost)
        BY <1>1, <1>3, SuccessCounts
      <4> HIDE DEF lost
      <4>3. Len(did'[c]) = Len(did[c]) + 1
        BY <1>1, <1>3, <4>1
      <4> QED
        BY <1>1, <1>3, <4>1, <4>2, <4>3 DEF Counts
    <3> QED
      BY <1>7, <3>1, <3>2 DEF HandlerCutOff
  <2>3. Len(did'[c]) \in Nat
    BY <1>1 DEF GateInv, GateTypeOK
  <2> QED
    BY <1>1, <1>2, <2>1, <2>2, <2>3 DEF Accounted
<1>8. CASE Save(c)
  <2> DEFINE x == Entry(c, gate[c].status)
  <2>1. did'[c] = did[c] /\ faults' = faults /\ ~Owed(c)'
    BY <1>8, CallMoves DEF Save, Owed, AtGate
  <2>2. rows'[c] = Append(rows[c], x)
    BY <1>1, <1>8 DEF Save, SaveRow
  <2>3. rows'[c] \in Seq(ToolRow)
    BY DEF GateInv, GateTypeOK
  <2>4. x \in ToolRow
    <3>1. Len(rows[c]) + 1 \in 1..Len(rows'[c]) /\ rows'[c][Len(rows[c]) + 1] = x
      BY <1>1, <2>2
    <3> HIDE DEF x
    <3> QED
      BY <2>3, <3>1
  <2>5. x.status = gate[c].status
    BY DEF Entry
  <2>6. /\ Succeeded(rows[c]) \in Seq(ToolRow)
        /\ Succeeded(rows'[c]) = IF x.status = "succeeded" THEN Append(Succeeded(rows[c]), x)
                                 ELSE Succeeded(rows[c])
    <3>1. x \in Successes <=> x.status = "succeeded"
      <4> HIDE DEF x
      <4> QED
        BY <2>4 DEF Successes, ToolRow
    <3>2. Succeeded(rows[c]) \in Seq(ToolRow)
      BY <1>1, KeptType DEF Succeeded
    <3>3. Kept(Append(rows[c], x), Successes) =
            IF x \in Successes THEN Append(Kept(rows[c], Successes), x)
                               ELSE Kept(rows[c], Successes)
      <4> HIDE DEF x
      <4> QED
        BY <1>1, <2>4, KeptAppend
    <3> HIDE DEF x
    <3> QED
      BY <2>2, <3>1, <3>2, <3>3 DEF Succeeded
  <2>7. CASE gate[c].status = "succeeded"
    <3>1. Owed(c) /\ x = won
      BY <1>8, <2>7 DEF Owed, Save
    <3>2. PICK front \in Seq(Work) : /\ did[c] = Append(front, won)
                                    /\ Succeeded(front) = Succeeded(rows[c])
      BY <3>1 DEF Accounted
    <3> HIDE DEF won, x
    <3>3. Succeeded(did[c]) = Append(Succeeded(front), won)
      BY <1>3, <3>2, SuccessCounts DEF Counts
    <3>4. Succeeded(rows'[c]) = Append(Succeeded(rows[c]), won)
      BY <2>5, <2>6, <2>7, <3>1
    <3>5. Len(Succeeded(rows'[c])) = Len(Succeeded(rows[c])) + 1
      BY <1>3, <2>6, <3>4
    <3>6. Len(did[c]) <= Len(Succeeded(rows[c])) + faults + 1
      BY <3>1 DEF Accounted
    <3> QED
      BY <1>1, <1>2, <2>1, <3>2, <3>3, <3>4, <3>5, <3>6 DEF Accounted
  <2>8. CASE gate[c].status # "succeeded"
    <3>1. ~Owed(c)
      BY <2>8 DEF Owed
    <3>2. Succeeded(rows'[c]) = Succeeded(rows[c])
      <4> HIDE DEF x
      <4> QED
        BY <2>5, <2>6, <2>8
    <3> QED
      BY <2>1, <3>1, <3>2 DEF Accounted
  <2> QED
    BY <2>7, <2>8
<1>9. CASE SaveFails(c)
  <2>1. ~Owed(c)' /\ rows'[c] = rows[c] /\ faults' = faults + 1
    BY <1>9, CallMoves DEF SaveFails, Owed, AtGate, Breaks
  <2>2. CASE Owed(c)
    <3>1. PICK front \in Seq(Work) : /\ did[c] = Append(front, won)
                                    /\ Succeeded(front) = Succeeded(rows[c])
      BY <2>2 DEF Accounted
    <3>2. did'[c] = Unaudited(did[c])
      BY <1>1, <1>9, <2>2 DEF SaveFails, Owed
    <3> DEFINE gone == [won EXCEPT !.status = "unaudited"]
    <3> HIDE DEF won
    <3>3. gone \in Work /\ did'[c] = Append(front, gone)
      BY <1>3, <3>1, <3>2, UnauditedLast
    <3>4. gone.status # "succeeded"
      BY <1>3 DEF Work
    <3> HIDE DEF gone
    <3>5. Succeeded(did'[c]) = Succeeded(front)
      BY <3>3, <3>4, SuccessCounts DEF Counts
    <3>6. Len(did'[c]) = Len(did[c])
      BY <1>3, <3>1, <3>3
    <3>7. Len(did[c]) <= Len(Succeeded(rows[c])) + faults + 1
      BY <2>2 DEF Accounted
    <3> QED
      BY <1>1, <1>2, <2>1, <3>1, <3>5, <3>6, <3>7 DEF Accounted
  <2>3. CASE ~Owed(c)
    <3>1. did'[c] = did[c]
      BY <1>9, <2>3 DEF SaveFails, Owed
    <3> QED
      BY <1>1, <1>2, <2>1, <2>3, <3>1 DEF Accounted
  <2> QED
    BY <2>2, <2>3
<1> QED
  BY <1>4, <1>5, <1>6, <1>7, <1>8, <1>9 DEF ExecuteTool

(* A step that leaves the rows alone and, of the calls, touches one that   *)
(* owes nothing.                                                           *)
LEMMA UntouchedAccounted ==
  ASSUME GateTypeOK, AuditInv, UNCHANGED <<rows, did>>, faults' \in Nat, faults <= faults',
         \A c \in Callers : gate'[c] = gate[c] \/ (~Owed(c) /\ ~Owed(c)')
  PROVE  AuditInv'
<1> SUFFICES ASSUME NEW c \in Callers PROVE Accounted(c)'
  BY DEF AuditInv
<1>1. /\ Accounted(c) /\ rows'[c] = rows[c] /\ did'[c] = did[c] /\ faults \in Nat
      /\ rows[c] \in Seq(ToolRow) /\ did[c] \in Seq(Work)
  BY DEF AuditInv, GateTypeOK
<1>2. CASE gate'[c] = gate[c]
  <2>1. Owed(c)' <=> Owed(c)
    BY <1>2 DEF Owed, AtGate
  <2> QED
    BY <1>1, <1>2, <2>1, StillAccounted
<1>3. CASE ~Owed(c) /\ ~Owed(c)'
  BY <1>1, <1>3, NothingOwed
<1> QED
  BY <1>2, <1>3

(* Every step keeps the account of work and rows.                          *)
LEMMA AuditStep == RunInv /\ RunInv' /\ AuditInv /\ [Next]_vars => AuditInv'
<1> SUFFICES ASSUME RunInv, RunInv', AuditInv, [Next]_vars PROVE AuditInv'
  OBVIOUS
<1>1. /\ GateTypeOK /\ GateInv' /\ faults \in Nat /\ gate \in [Callers -> Call]
      /\ faults' \in Nat
      /\ rows \in [Callers -> Seq(ToolRow)] /\ did \in [Callers -> Seq(Work)]
  BY DEF RunInv, GateInv, GateTypeOK
<1>2. CASE \E c \in Callers : GateStep(c)
  <2>1. PICK c \in Callers : GateStep(c)
    BY <1>2
  <2>2. ExecuteTool(c)
    BY <2>1 DEF GateStep
  <2>3. Accounted(c)'
    BY <1>1, <2>2, ServedAccounted DEF AuditInv
  <2>4. ASSUME NEW d \in Callers, d # c PROVE Accounted(d)'
    <3>1. gate'[d] = gate[d] /\ rows'[d] = rows[d] /\ did'[d] = did[d]
      BY <1>1, <2>2, <2>4 DEF ExecuteTool, Announce, HandlerWorks, HandlerRaises, HandlerCutOff,
         Save, SaveRow, SaveFails, Pass, Settle
    <3>2. faults <= faults'
      BY <1>1, <2>2 DEF ExecuteTool, Announce, HandlerWorks, HandlerRaises, HandlerCutOff,
         Save, SaveFails, Breaks
    <3>3. Owed(d)' <=> Owed(d)
      BY <3>1 DEF Owed, AtGate
    <3> QED
      BY <1>1, <3>1, <3>2, <3>3, StillAccounted DEF AuditInv
  <2> QED
    BY <2>3, <2>4 DEF AuditInv
<1>3. CASE UNCHANGED vars \/ StartRun \/ AnnounceRun \/ Finish \/ RefuseCall \/ InvalidAnswer
           \/ Retry \/ RecordHandoff \/ CompleteRun \/ ReturnUpdate
  <2>1. UNCHANGED gateVars
    BY <1>3 DEF vars, StartRun, AnnounceRun, Finish, RefuseCall, InvalidAnswer, Retry,
       RecordHandoff, CompleteRun, ReturnUpdate
  <2> QED
    BY <1>1, <2>1, UntouchedAccounted DEF gateVars
<1>4. CASE RunRaises
  <2>1. UNCHANGED <<gate, rows, did>> /\ faults <= faults'
    BY <1>1, <1>4 DEF RunRaises, Breaks
  <2> QED
    BY <1>1, <2>1, UntouchedAccounted
<1>5. CASE CallTool \/ WorkflowExecutes
  <2>1. PICK c \in Callers : \E t, run, authorized : Enter(c, t, run, authorized)
    BY <1>5 DEF CallTool, WorkflowExecutes, Callers
  <2>2. UNCHANGED <<rows, did, faults>>
    BY <1>5 DEF CallTool, WorkflowExecutes
  <2>3. ~Owed(c) /\ ~Owed(c)'
    BY <1>1, <2>1, EnteringOwesNothing
  <2>4. \A d \in Callers : d # c => gate'[d] = gate[d]
    BY <1>1, <2>1 DEF Enter
  <2> QED
    BY <1>1, <2>2, <2>3, <2>4, UntouchedAccounted
<1>6. CASE Observe \/ WorkflowGoesOn
  <2>1. PICK c \in Callers : Leave(c)
    BY <1>6 DEF Observe, WorkflowGoesOn, Callers
  <2>2. UNCHANGED <<rows, did, faults>>
    BY <1>6 DEF Observe, WorkflowGoesOn
  <2>3. ~Owed(c) /\ ~Owed(c)'
    BY <1>1, <2>1, CallMoves DEF Leave, Owed, AtGate
  <2>4. \A d \in Callers : d # c => gate'[d] = gate[d]
    BY <1>1, <2>1 DEF Leave
  <2> QED
    BY <1>1, <2>2, <2>3, <2>4, UntouchedAccounted
<1> QED
  BY <1>2, <1>3, <1>4, <1>5, <1>6 DEF Next, RunStep, Think

(* When a call is over, the rows of its caller say what its handlers did,  *)
(* in order, but for exactly the work whose row the store refused, and     *)
(* each such piece of work took a fault of its own (registry.py,           *)
(* execute_tool).                                                          *)
THEOREM AuditTrailComplete == Spec => []AuditAccountsForWork
<1>1. Init => AuditInv
  <2> SUFFICES ASSUME Init, NEW c \in Callers PROVE Accounted(c)
    BY DEF AuditInv
  <2>1. rows[c] = <<>> /\ did[c] = <<>> /\ gate[c] = Idle /\ faults = 0
    BY DEF Init, GateInit
  <2>2. ~Owed(c)
    BY <2>1 DEF Owed, AtGate, Idle
  <2>3. Succeeded(rows[c]) = <<>>
    BY <2>1, KeptEmpty DEF Succeeded
  <2> QED
    BY <2>1, <2>2, <2>3 DEF Accounted
<1>2. RunInv /\ AuditInv => AuditAccountsForWork
  <2> SUFFICES ASSUME RunInv, AuditInv, NEW c \in Callers, AtGate(c, "idle")
               PROVE  /\ Succeeded(rows[c]) = Succeeded(did[c])
                      /\ Len(did[c]) <= Len(Succeeded(rows[c])) + faults
    BY DEF AuditAccountsForWork
  <2>1. ~Owed(c) /\ Accounted(c)
    BY DEF Owed, AtGate, AuditInv
  <2>2. /\ Len(Succeeded(rows[c])) \in Nat /\ faults \in Nat /\ Len(did[c]) \in Nat
    <3>1. rows[c] \in Seq(ToolRow) /\ did[c] \in Seq(Work) /\ faults \in Nat
      BY DEF RunInv, GateInv, GateTypeOK
    <3> QED
      BY <3>1, KeptType DEF Succeeded
  <2> QED
    BY <2>1, <2>2 DEF Accounted
<1> QED
  BY <1>1, <1>2, AuditStep, InvHolds, PTL DEF Spec

-----------------------------------------------------------------------------
\* The session and its rows

ReturnedRuns == {i \in 1..Len(runs) : Returned(i)}
OpenRuns     == {i \in 1..Len(runs) : ~Returned(i)}
UnderWay     == IF pc = "idle" THEN 0 ELSE 1

(* A run that is under way has the index the session will count next, and  *)
(* its row is started until the run completes it.                          *)
RowsInv ==
  /\ previous = Cardinality(ReturnedRuns)
  /\ Cardinality(OpenRuns) <= faults + UnderWay
  /\ \A i \in ReturnedRuns : runs[i].index < previous /\ runs[i].status # "started"
  /\ \A i, j \in ReturnedRuns : runs[i].index = runs[j].index => i = j
  /\ pc # "idle" => ~Returned(Current) /\ runs[Current].index = previous
  /\ pc = "tell" => runs[Current].status # "started"

(* The rows of runs can be counted.                                        *)
LEMMA RunSets ==
  ASSUME RunInv
  PROVE  /\ IsFiniteSet(ReturnedRuns) /\ Cardinality(ReturnedRuns) \in Nat
         /\ IsFiniteSet(OpenRuns) /\ Cardinality(OpenRuns) \in Nat
         /\ Len(runs) \in Nat /\ runs \in Seq(RunRow) /\ Current = Len(runs)
         /\ pc # "idle" => Current \in 1..Len(runs)
         /\ previous \in Nat /\ faults \in Nat
         /\ \A i \in 1..Len(runs) : runs[i] \in RunRow /\ runs[i].index \in Nat
<1>1. Len(runs) \in Nat /\ runs \in Seq(RunRow)
  BY DEF RunInv, AgentRunTypeOK
<1>2. IsFiniteSet(1..Len(runs))
  BY <1>1, FS_Interval
<1>3. IsFiniteSet(ReturnedRuns) /\ IsFiniteSet(OpenRuns)
  <2>1. ReturnedRuns \subseteq 1..Len(runs) /\ OpenRuns \subseteq 1..Len(runs)
    BY DEF ReturnedRuns, OpenRuns
  <2> QED
    BY <1>2, <2>1, FS_Subset
<1>4. Cardinality(ReturnedRuns) \in Nat /\ Cardinality(OpenRuns) \in Nat
  BY <1>3, FS_CardinalityType
<1>5. ASSUME NEW i \in 1..Len(runs) PROVE runs[i] \in RunRow /\ runs[i].index \in Nat
  <2>1. runs[i] \in RunRow
    BY <1>1
  <2> QED
    BY <2>1 DEF RunRow
<1> QED
  BY <1>1, <1>3, <1>4, <1>5 DEF RunInv, AgentRunTypeOK, GateTypeOK, Current

(* A step that leaves the rows alone.                                      *)
LEMMA RowsFrame ==
  ASSUME RunInv, RunInv', RowsInv, UNCHANGED <<runs, previous>>,
         faults' + UnderWay' >= faults + UnderWay,
         pc' # "idle" => pc # "idle", pc' = "tell" => pc = "tell"
  PROVE  RowsInv'
<1>1. ReturnedRuns' = ReturnedRuns /\ OpenRuns' = OpenRuns
  BY DEF ReturnedRuns, OpenRuns, Returned
<1>2. Cardinality(OpenRuns)' <= faults' + UnderWay'
  <2>1. Cardinality(OpenRuns) \in Nat /\ faults \in Nat /\ faults' \in Nat
    BY RunSets DEF RunInv, AgentRunTypeOK, GateTypeOK
  <2>2. UnderWay \in {0, 1} /\ UnderWay' \in {0, 1}
    BY DEF UnderWay
  <2>3. Cardinality(OpenRuns) <= faults + UnderWay
    BY DEF RowsInv
  <2>4. PICK n \in Nat : n = Cardinality(OpenRuns)
    BY <2>1
  <2>5. PICK u \in Nat, v \in Nat : u = UnderWay /\ v = UnderWay'
    BY <2>2
  <2>6. PICK f \in Nat, g \in Nat : f = faults /\ g = faults'
    BY <2>1
  <2>7. n <= f + u /\ g + v >= f + u
    BY <2>3, <2>4, <2>5, <2>6
  <2>8. n <= g + v
    BY <2>7
  <2> QED
    BY <1>1, <2>4, <2>5, <2>6, <2>8
<1>3. previous' = Cardinality(ReturnedRuns')
  BY <1>1 DEF RowsInv
<1> QED
  BY <1>1, <1>2, <1>3 DEF RowsInv, Returned, Current

(* A new row is open and has the index the session counts next.            *)
LEMMA StartedRows ==
  ASSUME RunInv, RunInv', RowsInv, StartRun
  PROVE  RowsInv'
<1> DEFINE n == Len(runs) + 1
<1>1. /\ pc = "idle" /\ pc' = "announce" /\ previous' = previous /\ faults' = faults
      /\ runs' = Append(runs, [index |-> previous, status |-> "started",
                               tools |-> <<>>, update |-> "pending"])
  BY DEF StartRun, GoTo, gateVars
<1>2. /\ Len(runs') = n /\ \A i \in 1..Len(runs) : runs'[i] = runs[i]
      /\ runs'[n].update = "pending" /\ runs'[n].index = previous
  BY <1>1, RunSets
<1>3. Len(runs) \in Nat
  BY RunSets
<1>4. ReturnedRuns' = ReturnedRuns
  BY <1>2, <1>3 DEF ReturnedRuns, Returned
<1>5. OpenRuns' = OpenRuns \cup {n} /\ n \notin OpenRuns
  BY <1>2, <1>3 DEF OpenRuns, Returned
<1>6. Cardinality(OpenRuns') = Cardinality(OpenRuns) + 1
  BY <1>5, RunSets, FS_AddElement
<1>7. Cardinality(OpenRuns') <= faults' + UnderWay'
  BY <1>1, <1>6, RunSets DEF RowsInv, UnderWay
<1>8. \A i \in ReturnedRuns : runs'[i] = runs[i]
  BY <1>2 DEF ReturnedRuns
<1>9. ~Returned(Current)' /\ runs'[Current'].index = previous'
  BY <1>1, <1>2 DEF Current, Returned
<1>10. previous' = Cardinality(ReturnedRuns')
  BY <1>1, <1>4 DEF RowsInv
<1>11. /\ \A i \in ReturnedRuns' : runs'[i].index < previous' /\ runs'[i].status # "started"
       /\ \A i, j \in ReturnedRuns' : runs'[i].index = runs'[j].index => i = j
  <2>1. previous' = previous
    BY <1>1
  <2> QED
    BY <1>4, <1>8, <2>1 DEF RowsInv
<1> QED
  BY <1>1, <1>7, <1>9, <1>10, <1>11 DEF RowsInv

(* Completing a row does not return it.                                    *)
LEMMA CompletedRows ==
  ASSUME RunInv, RunInv', RowsInv, CompleteRun
  PROVE  RowsInv'
<1>1. /\ pc = "save" /\ pc' = "tell" /\ previous' = previous /\ faults' = faults
  BY DEF CompleteRun, GoTo, gateVars
<1>2. Current \in 1..Len(runs) /\ runs[Current] \in RunRow /\ runs \in Seq(RunRow)
  BY <1>1, RunSets
<1> DEFINE end == IF result \in Failures THEN "failed" ELSE "completed"
           new == [[runs[Current] EXCEPT !.status = end] EXCEPT !.tools = used]
<1>3. runs' = [runs EXCEPT ![Current] = new]
  BY <1>2 DEF CompleteRun
<1>4. /\ new.status # "started" /\ new.index = runs[Current].index
      /\ new.update = runs[Current].update
  BY <1>2 DEF RunRow
<1> HIDE DEF new
<1>5. /\ Len(runs') = Len(runs) /\ runs'[Current] = new
      /\ \A i \in 1..Len(runs) : i # Current => runs'[i] = runs[i]
  BY <1>2, <1>3
<1>6. \A i \in 1..Len(runs) : runs'[i].index = runs[i].index /\ runs'[i].update = runs[i].update
  BY <1>4, <1>5
<1>7. ReturnedRuns' = ReturnedRuns /\ OpenRuns' = OpenRuns
  BY <1>5, <1>6 DEF ReturnedRuns, OpenRuns, Returned
<1>8. \A i \in ReturnedRuns : i \in 1..Len(runs) /\ runs'[i] = runs[i]
  BY <1>1, <1>5 DEF ReturnedRuns, RowsInv
<1>9. Current' = Current
  BY <1>5 DEF Current
<1>10. UnderWay' = UnderWay
  BY <1>1 DEF UnderWay
<1>11. ~Returned(Current)' /\ runs'[Current'].index = previous' /\ runs'[Current'].status # "started"
  BY <1>1, <1>2, <1>4, <1>5, <1>6, <1>9 DEF RowsInv, Returned
<1> QED
  BY <1>1, <1>7, <1>8, <1>10, <1>11 DEF RowsInv

(* The session counts a run when its row is returned.                      *)
LEMMA ReturnedRows ==
  ASSUME RunInv, RunInv', RowsInv, ReturnUpdate
  PROVE  RowsInv'
<1>1. /\ pc = "tell" /\ pc' = "idle" /\ previous' = previous + 1 /\ faults' = faults
  BY DEF ReturnUpdate, GoTo, CountRun, gateVars
<1>2. Current \in 1..Len(runs) /\ runs[Current] \in RunRow /\ runs \in Seq(RunRow)
  BY <1>1, RunSets
<1> DEFINE new == [runs[Current] EXCEPT !.update = "returned"]
<1>3. runs' = [runs EXCEPT ![Current] = new]
  BY <1>2 DEF ReturnUpdate
<1>4. /\ new.status = runs[Current].status /\ new.index = runs[Current].index
      /\ new.update = "returned"
  BY <1>2 DEF RunRow
<1> HIDE DEF new
<1>5. /\ Len(runs') = Len(runs) /\ runs'[Current] = new
      /\ \A i \in 1..Len(runs) : i # Current => runs'[i] = runs[i]
  BY <1>2, <1>3
<1>6. Current \notin ReturnedRuns /\ Current \in OpenRuns
  BY <1>1, <1>2 DEF ReturnedRuns, OpenRuns, RowsInv
<1>7. ReturnedRuns' = ReturnedRuns \cup {Current}
  BY <1>2, <1>4, <1>5 DEF ReturnedRuns, Returned
<1>8. OpenRuns' = OpenRuns \ {Current}
  BY <1>2, <1>4, <1>5 DEF OpenRuns, Returned
<1>9. previous' = Cardinality(ReturnedRuns')
  BY <1>1, <1>6, <1>7, RunSets, FS_AddElement DEF RowsInv
<1>10. Cardinality(OpenRuns') <= faults' + UnderWay'
  <2>1. Cardinality(OpenRuns') = Cardinality(OpenRuns) - 1
    BY <1>6, <1>8, RunSets, FS_RemoveElement
  <2> QED
    BY <1>1, <2>1, RunSets DEF RowsInv, UnderWay
<1>11. \A i \in ReturnedRuns : i \in 1..Len(runs) /\ i # Current /\ runs'[i] = runs[i]
  BY <1>5, <1>6 DEF ReturnedRuns
<1>12. runs'[Current].index = previous /\ runs'[Current].status # "started"
  BY <1>1, <1>4, <1>5 DEF RowsInv
<1>13. \A i \in ReturnedRuns' : runs'[i].index < previous' /\ runs'[i].status # "started"
  <2>1. \A i \in ReturnedRuns : runs'[i].index \in Nat /\ runs'[i].index < previous
                                /\ runs'[i].status # "started"
    BY <1>11, RunSets DEF RowsInv
  <2> QED
    BY <1>1, <1>7, <1>12, <2>1, RunSets
<1>14. ASSUME NEW i \in ReturnedRuns', NEW j \in ReturnedRuns', runs'[i].index = runs'[j].index
       PROVE  i = j
  <2>1. \A k \in ReturnedRuns : runs'[k].index # runs'[Current].index
    BY <1>11, <1>12, RunSets DEF RowsInv
  <2>2. CASE i \in ReturnedRuns /\ j \in ReturnedRuns
    BY <1>11, <1>14, <2>2 DEF RowsInv
  <2> QED
    BY <1>7, <1>14, <2>1, <2>2
<1> QED
  BY <1>1, <1>9, <1>10, <1>13, <1>14 DEF RowsInv

(* Every step keeps the session and its rows together.                     *)
LEMMA RowsStep == RunInv /\ RunInv' /\ RowsInv /\ [Next]_vars => RowsInv'
<1> SUFFICES ASSUME RunInv, RunInv', RowsInv, [Next]_vars PROVE RowsInv'
  OBVIOUS
<1>1. faults \in Nat /\ UnderWay \in {0, 1}
  BY RunSets DEF UnderWay
<1>2. CASE StartRun \/ CompleteRun \/ ReturnUpdate
  BY <1>2, StartedRows, CompletedRows, ReturnedRows
<1>3. CASE RunRaises
  <2>1. /\ pc # "idle" /\ pc' = "idle" /\ faults' = faults + 1
        /\ UNCHANGED <<runs, previous>>
    BY <1>3 DEF RunRaises, GoTo, Breaks
  <2>2. faults' + UnderWay' >= faults + UnderWay
    BY <1>1, <2>1 DEF UnderWay
  <2> QED
    BY <2>1, <2>2, RowsFrame
<1>4. CASE AnnounceRun \/ Think \/ Observe \/ Retry \/ RecordHandoff
  <2>1. /\ pc # "idle" /\ pc' \notin {"idle", "tell"} /\ UNCHANGED <<runs, previous, faults>>
    BY <1>4 DEF AnnounceRun, Think, Finish, RefuseCall, CallTool, InvalidAnswer, Observe, Retry,
       RecordHandoff, GoTo, GoRound, gateVars
  <2>2. faults' + UnderWay' >= faults + UnderWay
    BY <1>1, <2>1 DEF UnderWay
  <2> QED
    BY <2>1, <2>2, RowsFrame
<1>5. CASE UNCHANGED vars \/ WorkflowExecutes \/ WorkflowGoesOn \/ \E c \in Callers : GateStep(c)
  <2>1. UNCHANGED <<runs, previous, pc>>
    BY <1>5 DEF vars, WorkflowExecutes, WorkflowGoesOn, GateStep, runVars
  <2>2. faults' = faults \/ faults' = faults + 1
    BY <1>5 DEF vars, gateVars, WorkflowExecutes, WorkflowGoesOn, GateStep, ExecuteTool, Announce,
       HandlerWorks, HandlerRaises, HandlerCutOff, Save, SaveFails, Breaks
  <2>3. faults' + UnderWay' >= faults + UnderWay
    BY <1>1, <2>1, <2>2 DEF UnderWay
  <2> QED
    BY <2>1, <2>3, RowsFrame
<1> QED
  BY <1>2, <1>3, <1>4, <1>5 DEF Next, RunStep

(* However many runs a session makes and whichever fail: it has counted    *)
(* the runs it took, their rows are completed and no two have one index,   *)
(* and each row it did not take is a failing store call's (runner.py,      *)
(* run_specialist).                                                        *)
THEOREM RowsAndSessionAgree == Spec => []RowsMatchSession
<1>1. Init => RowsInv
  <2> SUFFICES ASSUME Init PROVE RowsInv
    OBVIOUS
  <2>1. runs = <<>> /\ pc = "idle" /\ previous = 0 /\ faults = 0
    BY DEF Init, GateInit
  <2>2. ReturnedRuns = {} /\ OpenRuns = {}
    BY <2>1 DEF ReturnedRuns, OpenRuns
  <2> QED
    BY <2>1, <2>2, FS_EmptySet DEF RowsInv, UnderWay
<1>2. RunInv /\ RowsInv => RowsMatchSession
  <2> SUFFICES ASSUME RunInv, RowsInv PROVE RowsMatchSession
    OBVIOUS
  <2>1. DOMAIN runs = 1..Len(runs)
    BY RunSets
  <2>2. /\ ReturnedRuns = {i \in DOMAIN runs : Returned(i)}
        /\ OpenRuns = {i \in DOMAIN runs : ~Returned(i)}
    BY <2>1 DEF ReturnedRuns, OpenRuns
  <2>3. pc = "idle" => Cardinality(OpenRuns) <= faults
    BY RunSets DEF RowsInv, UnderWay
  <2>4. \A i \in DOMAIN runs : Returned(i) <=> i \in ReturnedRuns
    BY <2>2
  <2> HIDE DEF ReturnedRuns
  <2>5. previous = Cardinality({i \in DOMAIN runs : Returned(i)})
    BY <2>2 DEF RowsInv
  <2> QED
    BY <2>2, <2>3, <2>4, <2>5 DEF RowsInv, RowsMatchSession
<1> QED
  BY <1>1, <1>2, RowsStep, InvHolds, PTL DEF Spec
-----------------------------------------------------------------------------
\* The evidence of a run

(* ToolsOf of any sequence of rows.                                        *)
ToolsIn(s, i) ==
  LET ofRun == Kept(s, OfRun(i)) IN [n \in 1..Len(ofRun) |-> ofRun[n].tool]

(* A row of run i adds its tool, and no other row does.                    *)
AddsTool(s, x, i) ==
  ToolsIn(Append(s, x), i) =
    IF x.run = i THEN Append(ToolsIn(s, i), x.tool) ELSE ToolsIn(s, i)

(* A row adds its tool to those of its run, and to no other run.           *)
LEMMA ToolAdded ==
  ASSUME NEW s \in Seq(ToolRow), NEW x \in ToolRow, NEW i \in Nat
  PROVE  AddsTool(s, x, i) /\ ToolsIn(s, i) \in Seq(Names)
<1>1. x \in OfRun(i) <=> x.run = i
  BY DEF OfRun, ToolRow
<1>2. PICK k \in Seq(ToolRow) : k = Kept(s, OfRun(i))
  BY KeptType
<1>3. ToolsIn(s, i) = [n \in 1..Len(k) |-> k[n].tool]
  BY <1>2 DEF ToolsIn
<1>4. ToolsIn(s, i) \in Seq(Names)
  <2>1. Len(k) \in Nat /\ \A n \in 1..Len(k) : k[n] \in ToolRow
    OBVIOUS
  <2>2. \A r \in ToolRow : r.tool \in Names
    BY DEF ToolRow
  <2> QED
    BY <1>3, <2>1, <2>2
<1>5. PICK l \in Seq(ToolRow) : l = Kept(Append(s, x), OfRun(i))
  <2>1. Append(s, x) \in Seq(ToolRow)
    OBVIOUS
  <2> QED
    BY <2>1, KeptType
<1>6. ToolsIn(Append(s, x), i) = [n \in 1..Len(l) |-> l[n].tool]
  BY <1>5 DEF ToolsIn
<1>7. l = IF x \in OfRun(i) THEN Append(k, x) ELSE k
  BY <1>2, <1>5, KeptAppend
<1>8. CASE x.run = i
  <2>1. l = Append(k, x)
    BY <1>1, <1>7, <1>8
  <2>2. [n \in 1..Len(l) |-> l[n].tool] = Append([n \in 1..Len(k) |-> k[n].tool], x.tool)
    BY <2>1
  <2> QED
    BY <1>3, <1>4, <1>6, <1>8, <2>2 DEF AddsTool
<1>9. CASE x.run # i
  BY <1>1, <1>3, <1>4, <1>6, <1>7, <1>9 DEF AddsTool
<1> QED
  BY <1>8, <1>9

(* The tools of a run, as a function of the trail alone.                   *)
LEMMA ToolsAreIn ==
  /\ \A i : ToolsOf(i) = ToolsIn(rows["specialist"], i)
  /\ \A i : ToolsOf(i)' = ToolsIn(rows'["specialist"], i)
  /\ ToolsOf(Current)' = ToolsIn(rows'["specialist"], Len(runs'))
BY DEF ToolsOf, ToolsIn, Current

(* The specialist is in the registry only for the tool step of its run.    *)
TheCall ==
  /\ pc = "tool" <=> ~AtGate("specialist", "idle")
  /\ pc = "tool" => gate["specialist"].run = Current
  /\ pc \notin {"idle", "tell"} => runs[Current].status = "started"
  /\ \A i \in Nat : i > Current => ToolsOf(i) = <<>>

(* What the current run has noted, and the call it has not yet noted, are  *)
(* on record, and so is what the completed runs say.                       *)
Evidence ==
  /\ \A i \in 1..Current : runs[i].status # "started" => runs[i].tools = ToolsOf(i)
  /\ pc \notin {"idle", "tell"} =>
       ToolsOf(Current) = IF AtGate("specialist", "back")
                          THEN Append(used, gate["specialist"].tool) ELSE used

EvidenceInv == TheCall /\ (faults = 0 => Evidence)

(* Facts of the current run.                                               *)
LEMMA RunFacts ==
  ASSUME RunInv
  PROVE  /\ Current = Len(runs) /\ Current \in Nat /\ runs \in Seq(RunRow)
         /\ pc # "idle" => Current \in 1..Len(runs) /\ runs[Current] \in RunRow
         /\ faults \in Nat /\ used \in Seq(Names) /\ GateTypeOK
         /\ gate \in [Callers -> Call] /\ gate["specialist"] \in Call
         /\ rows \in [Callers -> Seq(ToolRow)] /\ rows["specialist"] \in Seq(ToolRow)
         /\ pc \in {"idle", "announce", "think", "note", "tool", "handoff", "save", "tell"}
<1>1. gate \in [Callers -> Call] /\ rows \in [Callers -> Seq(ToolRow)]
  BY DEF RunInv, GateInv, GateTypeOK
<1>2. "specialist" \in Callers
  BY DEF Callers
<1> QED
  BY <1>1, <1>2 DEF RunInv, AgentRunTypeOK, GateTypeOK, Current

(* A step that leaves the runs, the rows and what is noted alone.          *)
LEMMA EvidenceFrame ==
  ASSUME RunInv, EvidenceInv, UNCHANGED <<runs, used>>,
         rows'["specialist"] = rows["specialist"], gate'["specialist"] = gate["specialist"],
         pc' = pc \/ {pc, pc'} \subseteq {"announce", "think", "note", "handoff", "save"},
         faults' = 0 => faults = 0
  PROVE  EvidenceInv'
<1>1. Current' = Current /\ \A i : ToolsOf(i)' = ToolsOf(i)
  BY ToolsAreIn DEF Current
<1>2. TheCall'
  BY <1>1 DEF EvidenceInv, TheCall, AtGate
<1>3. faults = 0 /\ Evidence => Evidence'
  BY <1>1 DEF Evidence, AtGate
<1> QED
  BY <1>2, <1>3 DEF EvidenceInv

(* A run that starts has used nothing, and no row is of it.                *)
LEMMA StartedEvidence ==
  ASSUME RunInv, RunInv', EvidenceInv, StartRun
  PROVE  EvidenceInv'
<1> DEFINE new == [index |-> previous, status |-> "started", tools |-> <<>>, update |-> "pending"]
<1>1. pc = "idle" /\ pc' = "announce" /\ UNCHANGED <<gateVars, used>> /\ runs' = Append(runs, new)
  BY DEF StartRun, GoTo, loc
<1>2. new.status = "started"
  OBVIOUS
<1> HIDE DEF new
<1>3. /\ Current' = Current + 1 /\ runs'[Current'].status = "started"
      /\ \A i \in 1..Current : runs'[i] = runs[i]
  <2>1. Len(runs') = Len(runs) + 1 /\ runs'[Len(runs) + 1] = new
        /\ \A i \in 1..Len(runs) : runs'[i] = runs[i]
    BY <1>1, RunFacts
  <2> QED
    BY <1>2, <2>1 DEF Current
<1>4. \A i : ToolsOf(i)' = ToolsOf(i)
  BY <1>1, ToolsAreIn DEF gateVars
<1>5. used' = <<>>
  BY <1>1 DEF RunInv, Budget
<1>6. ToolsOf(Current)' = <<>> /\ \A i \in Nat : i > Current' => ToolsOf(i)' = <<>>
  <2>1. Current \in Nat /\ Current' = Len(runs')
    BY RunFacts DEF Current
  <2>2. \A i \in Nat : i > Current => ToolsIn(rows'["specialist"], i) = <<>>
    BY <1>1, ToolsAreIn DEF EvidenceInv, TheCall, gateVars
  <2>3. ToolsIn(rows'["specialist"], Len(runs')) = <<>>
    BY <1>3, <2>1, <2>2
  <2>4. \A i \in Nat : i > Current' => ToolsIn(rows'["specialist"], i) = <<>>
    BY <1>3, <2>1, <2>2
  <2> QED
    BY <2>3, <2>4, ToolsAreIn
<1>7. AtGate("specialist", "idle")'
  BY <1>1 DEF EvidenceInv, TheCall, AtGate, gateVars
<1>8. TheCall'
  BY <1>1, <1>3, <1>6, <1>7 DEF TheCall
<1>9. ASSUME faults' = 0 PROVE Evidence'
  <2>1. Evidence
    BY <1>1, <1>9 DEF EvidenceInv, gateVars
  <2>2. ASSUME NEW i \in 1..Current', runs'[i].status # "started"
        PROVE  runs'[i].tools = ToolsOf(i)'
    <3>1. i \in 1..Current
      BY <1>3, <2>2, RunFacts
    <3> QED
      BY <1>3, <1>4, <2>1, <2>2, <3>1 DEF Evidence
  <2>3. ToolsOf(Current)' = used'
    BY <1>5, <1>6
  <2> QED
    BY <1>7, <2>2, <2>3 DEF Evidence, AtGate
<1> QED
  BY <1>8, <1>9 DEF EvidenceInv
(* Completing a run, taking its update: the tools the row gets are those   *)
(* on record.                                                              *)
LEMMA EndedEvidence ==
  ASSUME RunInv, RunInv', EvidenceInv, CompleteRun \/ ReturnUpdate
  PROVE  EvidenceInv'
<1>1. /\ pc \in {"save", "tell"} /\ pc' \in {"tell", "idle"} /\ UNCHANGED gateVars
      /\ pc' = "tell" => pc = "save"
  BY DEF CompleteRun, ReturnUpdate, GoTo
<1>2. Current \in 1..Len(runs) /\ runs[Current] \in RunRow /\ runs \in Seq(RunRow)
  BY <1>1, RunFacts
<1>3. PICK new : /\ runs' = [runs EXCEPT ![Current] = new]
                 /\ CompleteRun => new.tools = used
                 /\ ReturnUpdate => new.tools = runs[Current].tools /\ new.status = runs[Current].status
  <2>1. CASE CompleteRun
    <3> DEFINE end == IF result \in Failures THEN "failed" ELSE "completed"
               done == [[runs[Current] EXCEPT !.status = end] EXCEPT !.tools = used]
    <3>1. runs' = [runs EXCEPT ![Current] = done] /\ done.tools = used
      BY <1>2, <2>1 DEF CompleteRun, RunRow
    <3>2. ~ReturnUpdate
      BY <2>1 DEF CompleteRun, ReturnUpdate
    <3> HIDE DEF done
    <3> QED
      BY <3>1, <3>2
  <2>2. CASE ReturnUpdate
    <3> DEFINE done == [runs[Current] EXCEPT !.update = "returned"]
    <3>1. /\ runs' = [runs EXCEPT ![Current] = done]
          /\ done.tools = runs[Current].tools /\ done.status = runs[Current].status
      BY <1>2, <2>2 DEF ReturnUpdate, RunRow
    <3>2. ~CompleteRun
      BY <2>2 DEF CompleteRun, ReturnUpdate
    <3> HIDE DEF done
    <3> QED
      BY <3>1, <3>2
  <2> QED
    BY <2>1, <2>2
<1>4. /\ Current' = Current /\ runs'[Current] = new
      /\ \A i \in 1..Len(runs) : i # Current => runs'[i] = runs[i]
  BY <1>2, <1>3 DEF Current
<1>5. \A i : ToolsOf(i)' = ToolsOf(i)
  BY <1>1, ToolsAreIn DEF gateVars
<1>6. AtGate("specialist", "idle")' /\ AtGate("specialist", "idle")
  BY <1>1 DEF EvidenceInv, TheCall, AtGate, gateVars
<1>7. TheCall'
  BY <1>1, <1>4, <1>5, <1>6 DEF EvidenceInv, TheCall
<1>8. ASSUME faults' = 0 PROVE Evidence'
  <2>1. Evidence
    BY <1>1, <1>8 DEF EvidenceInv, gateVars
  <2>2. ASSUME NEW i \in 1..Current, runs'[i].status # "started"
        PROVE  runs'[i].tools = ToolsOf(i)
    <3>1. CASE i # Current
      BY <1>2, <1>4, <2>1, <2>2, <3>1, RunFacts DEF Evidence
    <3>2. CASE i = Current /\ ReturnUpdate
      BY <1>3, <1>4, <2>1, <2>2, <3>2 DEF Evidence
    <3>3. CASE i = Current /\ CompleteRun
      <4>1. ToolsOf(Current) = used
        BY <1>6, <2>1, <3>3 DEF Evidence, AtGate, CompleteRun
      <4> QED
        BY <1>3, <1>4, <3>3, <4>1
    <3> QED
      BY <3>1, <3>2, <3>3
  <2> QED
    BY <1>1, <1>4, <1>5, <2>2 DEF Evidence
<1> QED
  BY <1>7, <1>8 DEF EvidenceInv

(* A run that raises leaves evidence that it did not hand in.              *)
LEMMA RaisedEvidence ==
  ASSUME RunInv, RunInv', EvidenceInv, RunRaises
  PROVE  EvidenceInv'
<1>1. /\ pc \in {"announce", "note", "handoff", "save", "tell"} /\ pc' = "idle"
      /\ faults' # 0 /\ UNCHANGED <<gate, rows, runs>>
  BY RunFacts DEF RunRaises, GoTo, Breaks
<1>2. Current' = Current /\ \A i : ToolsOf(i)' = ToolsOf(i)
  BY <1>1, ToolsAreIn DEF Current
<1> QED
  BY <1>1, <1>2 DEF EvidenceInv, TheCall, AtGate

(* The specialist calls a tool: the call is of its run.                    *)
LEMMA CalledEvidence ==
  ASSUME RunInv, RunInv', EvidenceInv, CallTool
  PROVE  EvidenceInv'
<1>1. /\ pc = "think" /\ pc' = "tool" /\ UNCHANGED <<rows, faults, runs, used>>
  BY DEF CallTool, GoTo
<1>2. PICK t : Enter("specialist", t, Current, FALSE)
  BY DEF CallTool
<1>3. "specialist" \in Callers /\ GateTypeOK
  BY RunFacts DEF Callers
<1>4. /\ AtGate("specialist", "idle") /\ gate'["specialist"].run = Current
      /\ gate'["specialist"].step \in {"announce", "save"}
  BY <1>2, <1>3, EnteringOwesNothing
<1>5. Current' = Current /\ \A i : ToolsOf(i)' = ToolsOf(i)
  BY <1>1, ToolsAreIn DEF Current
<1>6. TheCall'
  BY <1>1, <1>4, <1>5 DEF EvidenceInv, TheCall, AtGate
<1>7. Evidence => Evidence'
  BY <1>1, <1>4, <1>5 DEF Evidence, AtGate
<1> QED
  BY <1>1, <1>6, <1>7 DEF EvidenceInv

(* It takes the result back and notes the tool.                            *)
LEMMA ObservedEvidence ==
  ASSUME RunInv, RunInv', EvidenceInv, Observe
  PROVE  EvidenceInv'
<1>1. /\ pc = "tool" /\ pc' \in {"think", "save"} /\ UNCHANGED <<rows, faults, runs>>
      /\ used' = Append(used, gate["specialist"].tool) /\ AtGate("specialist", "back")
  BY DEF Observe, GoRound, GoTo, Noted, Leave
<1>2. "specialist" \in Callers /\ GateTypeOK
  BY RunFacts DEF Callers
<1>3. gate'["specialist"].step = "idle"
  BY <1>2, CallMoves DEF Observe
<1>4. Current' = Current /\ \A i : ToolsOf(i)' = ToolsOf(i)
  BY <1>1, ToolsAreIn DEF Current
<1>5. TheCall'
  BY <1>1, <1>3, <1>4 DEF EvidenceInv, TheCall, AtGate
<1>6. Evidence => Evidence'
  BY <1>1, <1>3, <1>4 DEF Evidence, AtGate
<1> QED
  BY <1>1, <1>5, <1>6 DEF EvidenceInv

(* A step of the registry for the specialist: the row it saves is the one  *)
(* the run will note.                                                      *)
LEMMA ServedEvidence ==
  ASSUME RunInv, RunInv', EvidenceInv, GateStep("specialist")
  PROVE  EvidenceInv'
<1> DEFINE c == "specialist"
<1>1. /\ c \in Callers /\ ExecuteTool(c) /\ UNCHANGED <<runs, used, pc>> /\ GateTypeOK
  BY RunFacts DEF Callers, GateStep, runVars, loc
<1>2. gate[c].step \in {"announce", "handle", "save"}
  BY <1>1 DEF ExecuteTool, Announce, HandlerWorks, HandlerRaises, HandlerCutOff, Save, SaveFails, AtGate
<1>3. pc = "tool" /\ pc' = "tool" /\ gate[c].run = Current
  BY <1>1, <1>2 DEF EvidenceInv, TheCall, AtGate
<1>4. /\ gate'[c].run = gate[c].run /\ gate'[c].tool = gate[c].tool
      /\ gate'[c].step \in {"handle", "save", "back"}
  BY <1>1, CallMoves DEF ExecuteTool, Announce, HandlerWorks, HandlerRaises, HandlerCutOff, Save, SaveFails
<1>5. Current' = Current /\ Current \in 1..Len(runs) /\ Current \in Nat
  BY <1>1, <1>3, RunFacts DEF Current
<1>6. CASE Save(c)
  <2> DEFINE x == Entry(c, gate[c].status)
  <2>1. rows[c] \in Seq(ToolRow) /\ rows'[c] \in Seq(ToolRow) /\ rows \in [Callers -> Seq(ToolRow)]
    BY RunFacts DEF RunInv, GateInv, GateTypeOK, Callers
  <2>2. rows'[c] = Append(rows[c], x) /\ faults' = faults
    BY <1>1, <1>6, <2>1 DEF Save, SaveRow
  <2>3. x \in ToolRow
    <3>1. Len(rows[c]) + 1 \in 1..Len(rows'[c]) /\ rows'[c][Len(rows[c]) + 1] = x
      BY <2>1, <2>2
    <3> HIDE DEF x
    <3> QED
      BY <2>1, <3>1
  <2>4. x.run = Current /\ x.tool = gate[c].tool
    BY <1>3 DEF Entry
  <2>5. gate'[c].step = "back"
    BY <1>1, <1>6, CallMoves DEF Save
  <2> HIDE DEF x
  <2>6. \A i \in Nat : ToolsIn(rows'[c], i) =
          IF i = Current THEN Append(ToolsIn(rows[c], i), gate[c].tool) ELSE ToolsIn(rows[c], i)
    <3>1. ASSUME NEW i \in Nat PROVE AddsTool(rows[c], x, i)
      <4>1. PICK s \in Seq(ToolRow) : s = rows[c]
        BY <2>1
      <4>2. AddsTool(s, x, i)
        BY <2>3, ToolAdded
      <4> QED
        BY <4>1, <4>2
    <3> QED
      BY <2>2, <2>4, <3>1 DEF AddsTool
  <2>7. \A i \in Nat : i # Current => ToolsOf(i)' = ToolsOf(i)
    BY <2>6, ToolsAreIn
  <2>8. ToolsOf(Current)' = Append(ToolsOf(Current), gate[c].tool)
    <3>1. Len(runs') = Current
      BY <1>1 DEF Current
    <3>2. ToolsIn(rows'[c], Current) = Append(ToolsIn(rows[c], Current), gate[c].tool)
      BY <1>5, <2>6
    <3>3. ToolsOf(Current)' = ToolsIn(rows'[c], Current)
      BY <3>1, ToolsAreIn
    <3>4. ToolsOf(Current) = ToolsIn(rows[c], Current)
      BY ToolsAreIn
    <3> QED
      BY <3>2, <3>3, <3>4
  <2>9. TheCall'
    <3>1. \A i \in Nat : i > Current' => ToolsOf(i)' = <<>>
      BY <1>5, <2>7 DEF EvidenceInv, TheCall
    <3> QED
      BY <1>1, <1>3, <1>4, <1>5, <3>1 DEF EvidenceInv, TheCall, AtGate
  <2>10. ASSUME faults' = 0 PROVE Evidence'
    <3>1. Evidence
      BY <2>2, <2>10 DEF EvidenceInv
    <3>2. runs[Current].status = "started"
      BY <1>3 DEF EvidenceInv, TheCall
    <3>3. \A i \in 1..Current : runs[i].status # "started" => runs[i].tools = ToolsOf(i)'
      BY <1>5, <2>7, <3>1, <3>2 DEF Evidence
    <3>4. ToolsOf(Current) = used
      BY <1>3, <1>6, <3>1 DEF Evidence, Save, AtGate
    <3> QED
      BY <1>1, <1>4, <1>5, <2>5, <2>8, <3>3, <3>4 DEF Evidence, AtGate
  <2> QED
    BY <2>9, <2>10 DEF EvidenceInv
<1>7. CASE ~Save(c)
  <2>1. UNCHANGED rows
    BY <1>1, <1>7 DEF ExecuteTool, Announce, HandlerWorks, HandlerRaises, HandlerCutOff, SaveFails
  <2>2. \A i : ToolsOf(i)' = ToolsOf(i)
    BY <2>1, ToolsAreIn
  <2>3. TheCall'
    BY <1>1, <1>3, <1>4, <1>5, <2>2 DEF EvidenceInv, TheCall, AtGate
  <2>4. ASSUME faults' = 0 PROVE Evidence'
    <3>1. ~SaveFails(c) /\ (faults = 0)
      BY <2>4, RunFacts, <1>1 DEF SaveFails, Breaks, ExecuteTool, Announce, HandlerWorks,
         HandlerRaises, HandlerCutOff, Save
    <3>2. gate'[c].step # "back"
      BY <1>1, <1>7, <3>1, CallMoves DEF ExecuteTool, Announce, HandlerWorks, HandlerRaises,
         HandlerCutOff
    <3>3. Evidence
      BY <3>1 DEF EvidenceInv
    <3> QED
      BY <1>1, <1>2, <1>5, <2>2, <3>2, <3>3 DEF Evidence, AtGate
  <2> QED
    BY <2>3, <2>4 DEF EvidenceInv
<1> QED
  BY <1>6, <1>7

(* Every step keeps what a run noted and what is on record together.       *)
LEMMA EvidenceStep == RunInv /\ RunInv' /\ EvidenceInv /\ [Next]_vars => EvidenceInv'
<1> SUFFICES ASSUME RunInv, RunInv', EvidenceInv, [Next]_vars PROVE EvidenceInv'
  OBVIOUS
<1>1. CASE StartRun \/ CompleteRun \/ ReturnUpdate \/ RunRaises \/ CallTool \/ Observe
           \/ GateStep("specialist")
  BY <1>1, StartedEvidence, EndedEvidence, RaisedEvidence, CalledEvidence, ObservedEvidence,
     ServedEvidence
<1>2. CASE AnnounceRun \/ Finish \/ RefuseCall \/ InvalidAnswer \/ Retry \/ RecordHandoff
  <2>1. /\ UNCHANGED <<runs, used, rows, gate, faults>>
        /\ {pc, pc'} \subseteq {"announce", "think", "note", "handoff", "save"}
    BY <1>2 DEF AnnounceRun, Finish, RefuseCall, InvalidAnswer, Retry, RecordHandoff, GoRound, GoTo,
       gateVars, loc
  <2> QED
    BY <2>1, EvidenceFrame
<1>3. CASE WorkflowExecutes \/ WorkflowGoesOn
  <2>1. UNCHANGED <<runs, used, rows, faults, pc>>
    BY <1>3 DEF WorkflowExecutes, WorkflowGoesOn, runVars, loc
  <2>2. gate'["specialist"] = gate["specialist"]
    BY <1>3, RunFacts DEF WorkflowExecutes, WorkflowGoesOn, Enter, Leave, Callers
  <2> QED
    BY <2>1, <2>2, EvidenceFrame
<1>4. CASE GateStep("workflow")
  <2>1. ExecuteTool("workflow") /\ UNCHANGED <<runs, used, pc>>
    BY <1>4 DEF GateStep, runVars, loc
  <2>2. gate'["specialist"] = gate["specialist"] /\ rows'["specialist"] = rows["specialist"]
    BY <2>1, RunFacts DEF ExecuteTool, Announce, HandlerWorks, HandlerRaises, HandlerCutOff,
       Save, SaveRow, SaveFails, Pass, Settle, Callers
  <2>3. faults' = 0 => faults = 0
    BY <2>1, RunFacts DEF ExecuteTool, Announce, HandlerWorks, HandlerRaises, HandlerCutOff,
       Save, SaveFails, Breaks
  <2> QED
    BY <2>1, <2>2, <2>3, EvidenceFrame
<1>5. CASE UNCHANGED vars
  BY <1>5, EvidenceFrame DEF vars, gateVars, runVars, loc
<1> QED
  BY <1>1, <1>2, <1>3, <1>4, <1>5 DEF Next, RunStep, Think, Callers

(* Whatever the model asks for: while the store works, the tools that a    *)
(* completed run says it used are the rows the registry saved for that     *)
(* run, all of them and in order (runner.py, tools_used; registry.py).     *)
THEOREM EvidenceComplete == Spec => []EvidenceOnRecord
<1>1. Init => EvidenceInv
  <2> SUFFICES ASSUME Init PROVE EvidenceInv
    OBVIOUS
  <2>1. runs = <<>> /\ pc = "idle" /\ Current = 0
    BY DEF Init, Current
  <2>2. "specialist" \in Callers
    BY DEF Callers
  <2>3. rows["specialist"] = <<>> /\ gate["specialist"] = Idle
    BY <2>2 DEF Init, GateInit
  <2>4. ASSUME NEW i PROVE ToolsOf(i) = <<>>
    <3>1. Kept(rows["specialist"], OfRun(i)) = <<>>
      BY <2>3, KeptEmpty
    <3> QED
      BY <3>1 DEF ToolsOf
  <2>5. AtGate("specialist", "idle")
    BY <2>3 DEF AtGate, Idle
  <2> QED
    BY <2>1, <2>4, <2>5 DEF EvidenceInv, TheCall, Evidence
<1>2. RunInv /\ EvidenceInv => EvidenceOnRecord
  <2> SUFFICES ASSUME RunInv, EvidenceInv, faults = 0, NEW i \in DOMAIN runs,
                      runs[i].status # "started"
               PROVE  runs[i].tools = ToolsOf(i)
    BY DEF EvidenceOnRecord
  <2>1. i \in 1..Current
    BY RunFacts
  <2> QED
    BY <2>1 DEF EvidenceInv, Evidence
<1> QED
  BY <1>1, <1>2, EvidenceStep, InvHolds, PTL DEF Spec
===============================================================================

------------------------------- MODULE AgentRun -------------------------------
(***************************************************************************)
(* One specialist of one session: run_specialist (graph/specialists/       *)
(* runner.py) with the bounded retries of invoke_structured                *)
(* (graph/structured.py) over a provider that may answer anything, fail or *)
(* refuse (llm/provider.py), and the calls it makes through ToolGate,      *)
(* while the workflows execute confirmed and approved actions there.       *)
(*                                                                         *)
(* A session runs its specialist several times; a run that a failing store *)
(* call ends leaves its row as it is and returns nothing to the session.   *)
(***************************************************************************)
EXTENDS ToolGate, Filters, FiniteSets

CONSTANTS
  Specialist,    \* whose catalogue it is
  MaxSteps,      \* settings.max_specialist_tool_steps
  MaxRetries,    \* settings.max_structured_output_retries
  Asked,         \* bound: the tools the model asks for
  Confirmed,     \* bound: the names the workflows are told to execute
  MaxRuns,       \* bound: runs of the specialist
  MaxConfirmed   \* bound: actions the workflows execute

ASSUME RunAssumption ==
  /\ Specialist \in DOMAIN Catalogue
  /\ MaxSteps \in Nat /\ MaxRetries \in Nat
  /\ Asked \subseteq Names /\ Confirmed \subseteq Names
  /\ MaxRuns \in Nat /\ MaxConfirmed \in Nat

VARIABLES
  runs,      \* the agent_runs rows, in the order they were created
  pc,        \* where run_specialist is
  round,     \* its local variables: the loop's round,
  attempt,   \*   invalid answers in this round,
  asks,      \*   answers of the model (history),
  steps,     \*   steps_used,
  used,      \*   tools_used,
  result,    \*   how the loop ended
  previous,  \* the length of the session's previous_agents
  confirmed  \* how many actions the workflows have executed

loc     == <<round, attempt, asks, steps, used, result>>
runVars == <<runs, pc, loc, previous>>
vars    == <<gateVars, runVars, confirmed>>

Failures == {"structured_output", "budget_exhausted"}
Results  == {"none", "finished"} \cup Failures

Catalog == Catalogue[Specialist]

RunRow == [index : Nat, status : {"started", "completed", "failed"},
           tools : Seq(Names),
           update : {"pending", "returned"}]   \* history: did the session take it

AgentRunTypeOK ==
  /\ GateTypeOK
  /\ runs \in Seq(RunRow)
  /\ pc \in {"idle", "announce", "think", "note", "tool", "handoff", "save", "tell"}
  /\ round \in Nat /\ attempt \in Nat /\ asks \in Nat /\ steps \in Nat
  /\ used \in Seq(Names) /\ result \in Results
  /\ previous \in Nat
  /\ confirmed \in Nat

Init ==
  /\ GateInit
  /\ runs = <<>> /\ pc = "idle"
  /\ round = 1 /\ attempt = 0 /\ asks = 0 /\ steps = 0 /\ used = <<>> /\ result = "none"
  /\ previous = 0
  /\ confirmed = 0

-----------------------------------------------------------------------------

Current == Len(runs)

GoTo(step) == pc' = step

(* A run starts with fresh locals, and they are gone when it ends.         *)
FreshLocals ==
  /\ round' = 1 /\ attempt' = 0 /\ asks' = 0 /\ steps' = 0
  /\ used' = <<>> /\ result' = "none"

StartRun ==
  /\ pc = "idle" /\ Current < MaxRuns
  /\ runs' = Append(runs, [index |-> previous, status |-> "started",
                           tools |-> <<>>, update |-> "pending"])
  /\ GoTo("announce")
  /\ UNCHANGED <<gateVars, loc, previous, confirmed>>

AnnounceRun ==
  /\ pc = "announce" /\ GoTo("think")
  /\ UNCHANGED <<gateVars, runs, loc, previous, confirmed>>

(* The next round, or the end of the budget: max_steps calls, a decision   *)
(* to finish and one round of grace.                                       *)
LastRound == MaxSteps + 2

-----------------------------------------------------------------------------
\* invoke_structured: the provider answers

(* A result ends the loop.  What the runner makes of it is in Supervisor   *)
(* and SupportState; a handoff is told before the row is completed.        *)
Finish ==
  /\ pc = "think"
  /\ result' = "finished" /\ asks' = asks + 1
  /\ pc' \in {"handoff", "save"}
  /\ UNCHANGED <<round, attempt, steps, used, gateVars, runs, previous, confirmed>>

(* Mutant: a call that is refused leaves the round as it was.              *)
SameRound == attempt' = 0 /\ GoTo("think") /\ UNCHANGED <<round, result>>

(* The loop goes round once more; after its last round it ends without a   *)
(* result.                                                                 *)
GoRound ==
  IF round < LastRound
  THEN round' = round + 1 /\ attempt' = 0 /\ GoTo("think") /\ UNCHANGED result
  ELSE result' = "budget_exhausted" /\ GoTo("save") /\ UNCHANGED <<round, attempt>>

(* A call over the budget, or of a tool that is not in the catalog.        *)
RefuseCall ==
  /\ pc = "think"
  /\ \E t \in Asked : steps >= MaxSteps \/ t \notin Catalog
  /\ GoRound /\ asks' = asks + 1 /\ steps' = steps + 1
  /\ UNCHANGED <<used, gateVars, runs, previous, confirmed>>

WithinBudget == steps < MaxSteps

CallTool ==
  /\ pc = "think" /\ WithinBudget
  /\ \E t \in Asked \cap Catalog : Enter("specialist", t, Current, FALSE)
  /\ asks' = asks + 1 /\ steps' = steps + 1 /\ GoTo("tool")
  /\ UNCHANGED <<round, attempt, used, result, world, rows, did, faults, runs, previous, confirmed>>

(* Mutant: only calls that succeeded are counted as used.                  *)
NotedIfSucceeded ==
  IF gate["specialist"].status = "succeeded"
  THEN Append(used, gate["specialist"].tool) ELSE used

Noted == Append(used, gate["specialist"].tool)

(* The tool's result comes back as an observation.                         *)
Observe ==
  /\ pc = "tool" /\ Leave("specialist")
  /\ used' = Noted /\ GoRound
  /\ UNCHANGED <<asks, steps, world, rows, did, faults, runs, previous, confirmed>>

(* An answer that is no valid step, a refusal, or an error of the provider.*)
InvalidAnswer ==
  /\ pc = "think"
  /\ attempt' = attempt + 1 /\ asks' = asks + 1 /\ GoTo("note")
  /\ UNCHANGED <<round, steps, used, result, gateVars, runs, previous, confirmed>>

(* It is recorded, and retried unless it was the last attempt.             *)
Retry ==
  /\ pc = "note"
  /\ IF attempt <= MaxRetries
     THEN GoTo("think") /\ UNCHANGED result
     ELSE GoTo("save") /\ result' = "structured_output"
  /\ UNCHANGED <<round, attempt, asks, steps, used, gateVars, runs, previous, confirmed>>

-----------------------------------------------------------------------------
\* The run ends.

RecordHandoff ==
  /\ pc = "handoff" /\ GoTo("save")
  /\ UNCHANGED <<gateVars, runs, loc, previous, confirmed>>

CompleteRun ==
  /\ pc = "save" /\ GoTo("tell")
  /\ runs' = [runs EXCEPT ![Current].status =
                              IF result \in Failures THEN "failed" ELSE "completed",
                            ![Current].tools = used]
  /\ UNCHANGED <<gateVars, loc, previous, confirmed>>

(* Mutant: a run that failed is not one of the session's previous agents.  *)
CountResults(n) == IF result \in Failures THEN n ELSE n + 1

CountRun(n) == n + 1

ReturnUpdate ==
  /\ pc = "tell" /\ GoTo("idle")
  /\ previous' = CountRun(previous)
  /\ runs' = [runs EXCEPT ![Current].update = "returned"]
  /\ FreshLocals
  /\ UNCHANGED <<gateVars, confirmed>>

(* A store call of the runner fails and the exception leaves it: before    *)
(* the row is completed, or when the completed row is told.                *)
RunRaises ==
  /\ pc \in {"announce", "note", "handoff", "save", "tell"}
  /\ Breaks /\ GoTo("idle") /\ FreshLocals
  /\ UNCHANGED <<world, gate, rows, did, runs, previous, confirmed>>

-----------------------------------------------------------------------------
\* execute_action and the approval workflow

WorkflowExecutes ==
  /\ confirmed < MaxConfirmed /\ confirmed' = confirmed + 1
  /\ \E t \in Confirmed : Enter("workflow", t, 0, TRUE)
  /\ UNCHANGED <<world, rows, did, faults, runVars>>

WorkflowGoesOn ==
  /\ Leave("workflow")
  /\ UNCHANGED <<world, rows, did, faults, runVars, confirmed>>

-----------------------------------------------------------------------------

Think == Finish \/ RefuseCall \/ CallTool \/ InvalidAnswer

RunStep ==
  \/ AnnounceRun \/ Think \/ Observe \/ Retry
  \/ RecordHandoff \/ CompleteRun \/ ReturnUpdate \/ RunRaises

GateStep(c) == ExecuteTool(c) /\ UNCHANGED <<runVars, confirmed>>

Next ==
  \/ StartRun \/ RunStep
  \/ WorkflowExecutes \/ WorkflowGoesOn
  \/ \E c \in Callers : GateStep(c)

Spec == Init /\ [][Next]_vars

-----------------------------------------------------------------------------

(* The work of a run is bounded whatever the model answers: calls of the   *)
(* model by rounds and attempts, calls of tools by max_steps.              *)
WorkIsBounded ==
  pc # "idle" =>
    /\ asks <= LastRound * (MaxRetries + 1)
    /\ Len(used) <= MaxSteps /\ steps <= LastRound

(* What a run says it used is what the registry has on record for it, in   *)
(* order: every call, also those that failed or were blocked, and no call  *)
(* of another run or of a workflow; unless the store failed in between.    *)
OfRun(i) == [run : {i}, tool : Names, status : {"succeeded", "failed"}]

ToolsOf(i) ==
  LET ofRun == Kept(rows["specialist"], OfRun(i))
  IN [n \in 1..Len(ofRun) |-> ofRun[n].tool]

EvidenceOnRecord ==
  faults = 0 => \A i \in DOMAIN runs :
    runs[i].status # "started" => runs[i].tools = ToolsOf(i)

(* The audit trail accounts for the world: a caller that is not in the     *)
(* registry has, in their order, one succeeded row for each piece of work  *)
(* its handlers finished, but for exactly those whose row the store        *)
(* refused; and work with no such row, lost or cut off, took a fault each. *)
Successes == [run : Nat, tool : Names, status : {"succeeded"}]

Succeeded(entries) == Kept(entries, Successes)

AuditAccountsForWork ==
  \A c \in Callers : AtGate(c, "idle") =>
    /\ Succeeded(rows[c]) = Succeeded(did[c])
    /\ Len(did[c]) <= Len(Succeeded(rows[c])) + faults

(* The session and its agent_runs rows agree: what was returned is what    *)
(* was completed, no two returned runs have one index, and a run is left   *)
(* started, or unreturned, only by a failing store call.                   *)
Returned(i) == runs[i].update = "returned"

RowsMatchSession ==
  /\ previous = Cardinality({i \in DOMAIN runs : Returned(i)})
  /\ \A i, j \in DOMAIN runs :
       Returned(i) /\ Returned(j) /\ runs[i].index = runs[j].index => i = j
  /\ \A i \in DOMAIN runs : Returned(i) => runs[i].status # "started"
  /\ pc = "idle" => Cardinality({i \in DOMAIN runs : ~Returned(i)}) <= faults

(* Whatever the model asks for, a specialist changes nothing but the       *)
(* security flags and notifications: the rest of the world changes in a    *)
(* call of a workflow that was authorized.                                 *)
Touched(w) == [w EXCEPT !.flags = @ \ {"review"}, !.team = "unaware"]

PrivilegedNeedsWorkflow ==
  [][Touched(world') # Touched(world) =>
       \E c \in Callers : AtGate(c, "handle") /\ gate[c].authorized
                          /\ gate'[c].step # "handle"]_vars

-----------------------------------------------------------------------------
\* What the repository says and the code does not keep.

(* docs/DESIGN.md:582: with the store down a request is refused before any *)
(* privileged action, "no unaudited execution".  The store may go down     *)
(* while the handler works: the call then has no row, the exception is     *)
(* swallowed, and the caller takes the result (registry.py:132).           *)
NoUnauditedExecution ==
  \A c \in Callers : AtGate(c, "idle") =>
    \A n \in DOMAIN did[c] : did[c][n].tool \in Privileged =>
      \E m \in DOMAIN rows[c] : rows[c][m].tool = did[c][n].tool
=============================================================================

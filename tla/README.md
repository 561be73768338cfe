# Verification of the IT support desk

This directory holds TLA+ models of the multi-agent IT support backend in
`src/backend/app`, the TLC runs that check them on small instances, and TLAPS
proofs of the properties that matter most. `PROJECT.json` ties every definition
to the lines it models and every property to a run.

Section 1 is the inventory, 2 the modules, 3 the runs, 4 the proofs, 5 what the
code does not keep, 6 what is abstracted or left out, 7 what could follow.

## 1. The system

An employee's message enters through a chat or voice route, the *dispatcher*
takes the session's lock and drives a LangGraph state machine whose state is
checkpointed in Postgres after every superstep. The *supervisor* node makes one
routing decision at a time, proposed by a language model and corrected by code;
*specialists* investigate with tools and return a typed result; *workflow* nodes
do the deterministic part: asking, checking entitlement, executing, verifying,
approving, escalating, closing. Humans act on what a session leaves behind
through the operations API, a periodic sweep escalates tickets nobody touched,
and whoever watches follows the audit events over server-sent streams.

| Component | State it keeps | Operations | Hard behaviour | What makes it correct |
|---|---|---|---|---|
| Supervisor and guards (`graph/supervisor.py`, `guards.py`) | per-turn budgets, decision signatures, routing history | one decision per step: normalise, override, refuse or commit | the order of eleven guards and overrides, any of which an arbitrary model decision may meet | security flags and handoffs survive every override; no route skips consent; runs stay within budget |
| Workflows (`graph/workflows/`) | requested action, privilege check, confirmation, verification flags | prepare/wait pairs around interrupts, execution, terminal nodes | state left by an earlier turn is read by a later one; a turn that resumes an interrupt does not pass `ingest`; rows are committed before the checkpoint, and the process may die between | execution only with consent to that very action; resolution only after an answer; outcome and ticket agree |
| Specialist runner (`graph/specialists/runner.py`, `structured.py`) | `agent_runs` row and the locals of the step loop | reason, act, observe; validate or retry | a bounded loop with a grace round, retries inside each round; a failing store call ends a run half-way | bounded work whatever the model answers; the evidence it reports is on record; rows and session agree |
| Dispatcher (`api/dispatcher.py`, `routes_chat.py`) | one lock per session, pending interrupt, session row | start, continue, fail-safe | the terminal check and the message write precede the lock; the fail-safe runs when anything raises | an answer resumes what was found pending; a session at rest can be answered; replies are true; no request waits for ever |
| Voice bridge (`api/routes_voice.py`) | the call's bridge key on the session row | resume or start by key | two utterances of one call that both find no session | one open session per call |
| Ticket and approval store (`db/repos.py`) | tickets, status history, approvals, confirmations | create, transition, decide, sweep query | read-then-write without row locks; ticket numbers counted from the table | a decision is taken once; the ageing clock runs only while a ticket waits |
| Approval and ageing (`workflows/approval.py`, `escalation.py`, `main.py`) | in-flight decisions, the sweep | decide, execute, notify; sweep | a decision racing a decision, a sweep racing a status query, death between decide and execute | an action runs once and only if approved; a stale ticket is eventually escalated |
| Event bus and recorder (`events/`, `api/routes_stream.py`) | audit rows, bounded subscriber queues | record, publish, subscribe, stream | commit and publication are two steps; a full queue; a client that leaves | persisted before broadcast; a feed has no hole; watchers hold nobody up |
| Tool registry and tools (`tools/`) | tool call rows; accounts, devices, tickets | gate, validate, run with a timeout, audit | a failing audit write, a cut-off after the effect, two callers of one employee's world | privileged tools only with authorization; the rows account for the work |
| Organization directory (`org/`) | none (Neo4j) | privileges, approvers, escalation chain | the graph goes away between two queries; tickets escalated again and again for different systems | checks fail closed; the nearest who may approve is asked; climbs skip nobody |
| Memory (`memory/`) | remembered outcomes | remember at the end | what is remembered after a failed fix | only what worked is remembered |
| Compaction, prompts, seeds, frontend, HTTP wiring | configuration, wording | | none of their own | not modelled |

## 2. The modules

```
SupportState  ->  Supervisor  \
              ->  Workflows   -> SupportGraph -> SupportClaims      \
                                     |        -> SessionRefinement  -> MCSupportGraph
                                     |             (INSTANCE SessionContract)
                                     \-> SupportGraphProofs  ->  SessionProofs

Dispatcher   ->  DispatchRefinement  ->  MCDispatcher, DispatcherProofs
                   (INSTANCE SessionContract)
TicketDesk   ->  DeskProperties  ->  MCTicketDesk, DeskProofs
ToolWorld    ->  ToolGate  \
                 Filters   ->  AgentRun     ->  MCAgentRun, AgentRunProofs
                           \-> EventStream  ->  MCEventStream, EventStreamProofs
Directory    ->  MCDirectory, DirectoryProofs
Filters      ->  Induction  ->  AgentRunProofs, EventStreamProofs, DirectoryProofs
```

* **SupportState** is the session state (`graph/state.py`) with the rows one
  session writes: `phase`, `node` and `steps` are LangGraph's bookkeeping of one
  invocation (idle, running a node, paused at an interrupt, ended, failed), the
  others are named after the fields of the state. `Run(n)` is one superstep.
* **Supervisor** is `supervisor_node`. The model's decision is *any*
  schema-valid decision; `Proposal`, `Converted` and `Overridden` are the code's
  corrections in the code's order (normalise the category, refuse a premature
  close, convert a refused question, then failure, handoff, security, action
  and negative-answer overrides); `LoopDetected`, `HandoffsExhausted` and `Commit`
  are how a decision is settled.
* **Workflows** has one action per remaining node of `graph/build.py`:
  `ingest_node`, `run_specialist`, the prepare/wait pairs, `execute_action`, and
  the terminal nodes with `finalize_session`. A wait node is two actions:
  `interrupt` pauses the invocation and the reply (`ask_wait`,
  `confirmation_wait`, `resolution_verify_wait`) resumes it in a new one.
* **SupportGraph** composes them with the dispatcher's view of one session:
  `StartRun`, `FailSafe` (any node may raise) and `Crash` (the process dies). Both
  may come at any commit of a superstep: `Interrupted` is what a superstep that
  does not reach its checkpoint leaves behind, a prefix of its node's commits. It
  has a disjunct per kind of node: the row that says "waiting" before the pause
  (`QuestionWritten`), the answer and the row "active" before the work it starts
  (`ReplyWritten`), the tool's effect and its row (`ActionWritten`), and ticket,
  approval request, memory and terminal row of a node that ends the session
  (`ResolutionWritten`, `ApprovalWritten`, `EscalationWritten`). After a crash the
  checkpoint is what it was, so an interrupt that was being resumed is pending
  again, and the next reply is recorded over the lost one. `FairSpec` adds
  weak fairness of `GraphStep`: the event loop keeps running an invocation once it
  is started, since every node is a coroutine with bounded calls. Nothing is
  assumed about employees, the model, failures or crashes.
* **SessionContract** is what a session promises whatever happens inside: it takes
  a message, works, may ask a question or ask to confirm an action, closes once with
  one outcome; an action is prepared, allowed or declined in the last answer before
  work resumes, performed at most once and only while allowed; work that is lost
  opens the session again, or leaves its question open for another answer, and
  grants nothing that the employee did not.
  **SessionRefinement** is the mapping: `Stage` from `phase`, `node` and the row (a
  session is closed once its row is terminal, also if the graph never got to its
  end), the outcome from the session row, `Permission` and `performed` from the
  confirmation row.
* **SupportClaims** holds two statements of the repository that the code does not keep.
* **Dispatcher** has several requests at once on the sessions of one employee. A
  call's `step` is the await it is at; each session has a `holder` and a FIFO
  `queue` (`asyncio.Lock`), its `thread` is the checkpoint (is the employee known,
  which question is pending), a run of the graph is one of `RunAsks`, `RunSettles`,
  `RunRaises`. The voice requests of one call look for their session first
  (`FindVoice`). Store calls, the look at the checkpoint and the fail-safe itself may
  fail, and the process may die (`Crash`). A run that raises or dies leaves the
  checkpoint it began from or a later one, with a row that its nodes may have
  written past it (`Begun`, `Advanced`). `Confirming` says whether a question may
  ask for a confirmation, which only `ConfirmsWhatWasSeen` tells apart. `FairSpec`:
  weak fairness of `Work(c)` for each request, as the event loop runs every coroutine
  that is ready and every run of the graph returns, which is `RunSettles` of the
  session graph.
* **DispatchRefinement** maps what the dispatcher does with each session to
  SessionContract: a session is "working" from the start of a run until its request
  is answered or has found what the run left (`Serving`), and otherwise closed,
  asking or open as its row and its checkpoint say (`StageOf`); an outcome counts once
  no request works on the session (`OutcomeOf`). `ServesTheContract`
  demands a step of the contract, or none, of every session on which no two requests
  met, and names the one exception: the fail-safe that follows a failing look at the
  outcome of a run that ended well (`TakenUpAgain`).
* **TicketDesk** is what happens to tickets and approval requests after, and
  beside, the sessions: `approval_node` filing a request, `decide_approval_request`,
  `intervene`, the status query that meets a stale ticket, and the sweep. A
  coroutine's progress is its `job`. Each call of `db/repos.py` is a transaction,
  so a decision and a ticket update are two steps: one reads the row, one writes
  the columns that differ from what was read (`Updated` is what SQLAlchemy's unit
  of work emits), and anything may commit between them, as nothing takes a row
  lock. `Fail` ends a coroutine half-way. `FairSpec` adds weak fairness of the
  sweep's own steps: its loop wakes up every six hours, survives exceptions, and
  the event loop runs what is ready. Nobody else has to decide, ask, intervene or
  finish. **DeskProperties** states what it keeps, and one statement it does not.
* **ToolWorld** is what the handlers change in the world of one employee, and the
  catalogue of each specialist. **ToolGate** is `execute_tool`: announce, gate,
  validate, run, save the row, for two callers at once (the specialist, and the
  confirmation or approval workflow). `did` is the history of what handlers did, and
  marks the work whose row the store refused. **AgentRun** is `run_specialist` with
  `invoke_structured` on top of it: rounds, attempts, refused calls, the handoff
  record, the completed row, and the exceptions of the store that leave it.
* **EventStream** is `record`, the bus and `_event_stream`. A client's frame is
  sent when the client takes it, so a slow reader is one whose `Send` is not fair;
  recording and the generators are fair (`Record`, `Pump`), sending is fair for the
  clients of `Reading` and for those that are gone.
* **Directory** asks the organization's graph one query at a time, while it goes
  and comes: `has_privilege` (`CheckPrivilege`, `FindApprover`, `FindManager`), the
  approver that `approval_node` resolves, and the owner and team of a ticket each
  time it is escalated. `Intervene` is the operator who takes the ticket: he becomes
  its owner, whom the graph does not know, and its team stays.
* **Filters** is what a list comprehension with a condition keeps (`Kept`), written
  as a recursive function so that the proofs can reason about it. **Induction** is
  the library of those proofs, see section 4.
* The **MC** modules name the sets that the configurations use.

Definitions marked `Mutant` in the modules are plausible wrong versions of the
definition after them. They are used by nothing: substituting one shows that the
property it is listed with in `PROJECT.json` depends on that line of the code.

## 3. The runs

The program's settings are small here (cycles 2 or 3, handoffs 1, signature repeats
1 or 2, questions 0 or 1; the program's defaults are 8, 4, 2 and 20) so that
every guard trips within a few steps. The other bounds (`Max...`) are named in the
modules that declare them.

| Run | Instance | What it shows |
|---|---|---|
| Routing | two specialists, no actions, one turn, fair | `TypeOK`; every run stays below the recursion limit and settles; a handoff goes to its target but for the reasons the code names, and a failed specialist is followed by a human, whatever the model decides |
| Restarts | the security specialist, two actions (symmetric), two turns and one more after a crash, one crash at any commit, verification on | an action runs only with consent and a grant for that action, and once for each confirmation; the approver belongs to the action; a session flagged by security only escalates or fails; a resolution follows an answer; outcome, ticket, approval and session row agree; the graph implements the session contract |
| Dispatch | three requests, chat or voice, two questions, one fault, fair | an answer resumes the question found pending; sessions at rest can be answered; one open session per voice call; replies are true; each session is served as the session contract allows; every request is answered |
| Desk | one ticket, one approval request, two request handlers and the sweep, one failure, fair to the sweep | clocks run only while a ticket waits; an action runs once per accepted approval and for no other reason; no ticket is left waiting for a decision that was taken; an escalated ticket stays out of the sweep; an overdue ticket is dealt with |
| Agent | two runs of the security specialist with two steps and one retry, one workflow action, one fault | work is bounded; the evidence of a run is on record; the audit rows are the work of the handlers but for what the store refused; `agent_runs` agree with the session; nothing privileged changes outside an authorized workflow |
| Stream | two writers, the command center's stream and an employee's, queues of 1 for 500, three events, fair | only committed events are shown; a feed has no hole; writers never wait for watchers; the bus forgets who is gone; what is queued is shown |
| Directory | four employees, twenty organizations, two hops for six, one outage, four escalations, an operator at any time | checks fail closed; the nearest who may approve is asked and nobody about himself; climbs skip nobody |
| UnconfirmedAction, DowngradedHandoff, RejectedExecutes, UnseenConfirmation, UnauditedExecution | the smallest that show it | section 5 |

Why the bounds are enough. *Routing*: two specialists are the least that can hand off
to each other; the questions, handoffs and cycles all run out. *Restarts*: two turns
are the least in which state of one turn can be misread by the next; two actions the
least in which an answer, check or approver of one can be taken for another, and no
part of the model tells the two apart, so that permuting them is a symmetry; the
properties checked under it are safety. One crash is the least in which a checkpoint
is reused, and the message it cost is given back (`MaxTurns + crashes`), so that an
answer can be lost, given again and acted on. The security specialist does what the
others do and may flag the session besides. `Strays` is what a decision may carry in a
field that its kind does not use, `EmployeeTickets` the tickets a status question may
find; both are varied in Routing and empty in Restarts, where no property looks at
them. *Dispatch*: one
request starts a session and two more meet on it, which is the least in which one
overtakes another at the lock; two questions are the least in which one is answered
with what was meant for the other; `Confirming` is {FALSE}, since its properties treat
all questions alike (UnseenConfirmation has both kinds). *Desk*: the threshold is 0 days and a day has 2
ticks, so that a ticket may be stale for the query and not yet for the check in
whole days; clocks stop at the first tick at which it is stale for both (`MaxAge`),
as later ones behave alike; two handlers and the sweep are the least in which two
decisions race while a third coroutine escalates. *Agent*: the specialist asks for a
safe write, a privileged tool of its catalogue and one outside it; two runs are the
least in which a call can be counted for the wrong one. *Stream*: with a queue of
one the second event fills it, the third finds the subscriber dropped or gone.
*Directory*: a line and a star of four, with deciders in and out of reach; four
escalations pass the end of the longest chain. One failure (`MaxFaults`,
`MaxFailures`, `MaxOutages`, `MaxCrashes`) can hit any point of any coroutine.

Deadlock is not checked: an ended session stops, answered requests and settled
tickets leave nothing to do, and runs, events, calls and escalations are counted.

## 4. The proofs

Every theorem holds for all values of the constants; the assumptions are
`SpecialistsAssumption`, `LimitsAssumption` and `TicketsAssumption` (SupportState), `DeskAssumption`
(TicketDesk), `CallsAssumption` and `BoundsAssumption` (Dispatcher), `GateAssumption`
(ToolGate), `RunAssumption` (AgentRun), `StreamAssumption` (EventStream) and
`DirectoryAssumption` (Directory). Every safety property of the passing runs, invariant
or action property, is a theorem. Most properties are not inductive and
have their strengthening:

| Theorem | Strengthening | Why it is needed |
|---|---|---|
| `RowFollows` | `RowInv` | the row must say "waiting" before the node pauses, not when it does; what a superstep that died may have left on it is named, so that the next run can begin from it |
| `Consented` | `ConsentInv` | that check, question and action agree must be carried from `confirmation_prepare` through the pause, where nothing may change the action |
| `SecurityKept` | with `RowInv` | a running session must not be terminal already; `FlaggedEscalates` shows no later override undoes the security override |
| `RunBounded` | `LengthInv` | supersteps are bounded by twice the cycles plus the depth of the node below the supervisor, and only an escalation may exceed the cycle budget |
| `ExecutedOnce` | `UnusedInv` | the row in front of an execution is unused |
| `OutcomeTracked` | `OutcomeInv` | no approval exists before the session ends on one, unless the process died after it was requested |
| `ApproverMatches` | `ApproverInv` | an approver found by a check is on the way to the request for that action |
| `HandoffsHonoured` | `HandoffNamed` | a handoff names its target |
| `FailuresEscalated` | `FailureInv` | the specialist that ran was the target of the pending handoff, so none is pending when it fails |
| `ResolutionAnswered` | `AnswerInv` | an awaited verification has its answer when the supervisor reads it |
| `NobodyForgotten` | `CareInv` | every ticket that waits has a pending request or a coroutine that still owes it an update, and an update to "waiting" is followed by its request |
| `SessionsRestAnswerable`, `TruthIsTold` | `RestInv` | what a request has learnt before it is answered (`Knowing`); a session on which no two requests met has one request at a time and no question once settled (`Orderly`); without a fault an open session can take an answer or somebody drives it on (`Alive`) |
| `SessionsServed` | `BaseInv` and `RestInv` | whoever starts a run on a session alone finds it without an outcome, so a run never begins on a closed one |
| `AuditTrailComplete` | `AuditInv` | a call between its handler and its row owes exactly one row; a refused row turns what is owed into work marked unaudited, and takes a fault |
| `RowsAndSessionAgree` | `RowsInv` | open rows are at most the faults and the run under way, which has the index the session counts next |
| `EvidenceComplete` | `EvidenceInv` | the tools noted, with the call that is on record and not yet noted, are the rows of the current run; the rows of later runs are none |
| `FeedsAreWhole`, `OnlyTruthShown` | `StreamInv` | a client without a stream has nothing; what a client was shown, is sent and has queued is, as one sequence, what was published for it since it subscribed |
| `ChecksFailClosed`, `NearestAsked` | `QueryInv` | what the first query of a check found (entitled, no decider in reach) is still so at the second |
| `ClimbsLevelByLevel` | `ClimbInv` | the climb so far is a piece of one chain and ends at the ticket's owner, who is in no other chain unless he is the last |
| `SessionImplementsContract` | `GraphInv`: types, `RowInv`, `ConsentInv` and `UnusedInv` with `UnansweredInv` | a question about an action has no answer before it is put, so every step of the graph is a step of the contract or none; a superstep that is cut short is a `Decide`, `Perform`, `Close`, `Lose` or nothing |
| `FoundIsResumed` | `BaseInv` (`CallsOK`) | whoever is past the wait holds the session's lock, so no other run moves the pending question |
| `OneVoice` | `VoiceInv` | nobody is about to create a voice session while one is open, and only one request is |
| `ClockStops` | `ClockInv` | a clock that an update saw stopped stays stopped until the update writes, since no update asks for "pending" |
| `EscalatedOut` | `FlagInv` | an update that read a set flag finds it set, so the columns it leaves out are right |
| `RunsOnlyGranted` | `RunInv` | a coroutine that decides has not approved yet, one that executes has and has not run; one coroutine files a request |
| `BoundedWork` | `Budget` | answers so far are bounded by the rounds done and the attempts in this one |
| `PrivilegeGate` | `GateInv`, `CallersInv` | a call at its handler passed the gate; a workflow is authorized; a specialist never calls a ticketing tool |

`TypeCorrect`, `DeskTypeCorrect`, `DirectoryTypeCorrect`, `StreamTypeCorrect`,
`DispatcherTypeCorrect` and `AgentRunTypes` are the type invariants; those of Directory,
Dispatcher and AgentRun are proved and not in the runs. `SupervisorStepShape` states
once what any supervisor step does, however the overrides combine, and carries the
supervisor case of every proof.

The contract is implemented twice. SessionProofs shows it of the graph of one session,
with permissions and their use; DispatcherProofs shows it of every session that
concurrent requests meet one after the other. `ContractMoves` reduces a step of the
contract to the stages before and after it, `ServedByOne` says that a session on which
no two requests met is served by the request that moves or by nobody, and one lemma
per group of actions (`QuietServed`, `StartServed`, `RunServed`, `FailureServed`,
`CrashServed`) finds the step. A crash may be a `Lose`, an `Ask` or a `Close` of the
contract, as the checkpoint and the row have it.

Proofs about data. The library's induction theorems take an operator and cannot be
used; Induction states what is needed with sets instead. `NatInduct` says that a set of
naturals with 0 and all successors is Nat, `RecursionExists` that a recursion given by a
function has a solution, and `RecursionUnique` that it has one only. From these follow
what `Kept` returns for the empty sequence, an appended value and a removed head
(`KeptEmpty`, `KeptAppend`, `KeptFirst`), which carry the proofs about audit rows,
evidence and feeds, and, in DirectoryProofs, what the line above an employee is
(`SuperiorLine`): everybody above him is in it (`AboveIsInLine`), and those in reach
come first (`InReachIsInLine`). A selection
by a set of records is therefore the form in which AgentRun and EventStream write
the code's filters.

What the proofs changed. `ClimbSkipsNobody` is false for an organization in which
somebody in the middle of one chain is in another, which no small instance had:
`Sound` now says what the seed's chains are (whoever is in two is the last of both, as
the CTO is), and the property no longer bounds where a climb begins by a number that
longer chains exceed. `WaitsForSomeone` needs that no coroutine failed, and its
strengthening shows why: the coroutine that dies is the one that owed the update.

Only model-checked: liveness, which is out of the prover's reach (`RunSettles`,
`OverdueSettles`, `RequestsDrain`, `WatchersNeverBlock`, `GoneAreForgotten`,
`QueuedIsShown`), and the violated claims of section 5.

## 5. What the code does not keep

With a run that shows the behaviour (`findings` in `PROJECT.json` quote both sides):

* **UnconfirmedAction**: after one action was answered, the next requested action
  is treated as answered too and the session resolves past it (`supervisor.py:311`).
* **RejectedExecutes**: two approvers decide at once; `decide_approval` tests the
  status on a row read without a lock, both decisions are accepted, the action
  runs, and the request is recorded as rejected (`repos.py:296`).
* **DowngradedHandoff**: a question that may not be asked again is escalated before the
  override that honours a pending handoff is reached, so that the model's wish to ask
  sends the case to a human and the target is never consulted (`supervisor.py:241`).
* **UnauditedExecution**: the handler of `_finish` that swallows a failing audit row
  lets the caller go on: a privileged action was performed and no row shows it
  (`registry.py:132`). The row of the confirmed action itself, `action_executions`, is
  likewise written after the call (`confirmation.py:214`).
* **UnseenConfirmation**: what is pending is read when the lock is free; an answer
  typed before a confirmation was asked resumes it (`dispatcher.py:219`).

Seen while modelling, with no run of their own.

In the session graph:

* A reply is recorded before the work it starts is checkpointed, so a crash there
  leaves the question pending and the session shown as active; the employee's next
  reply is recorded over the first, which is lost (`confirmation.py:155-162`,
  `repos.py:351-359`, `need_info.py:38-44`). No action runs on an answer that was
  replaced (`SessionContract`, `ExecutionConsented`).
* A crash after the terminal row leaves a graph that never reached its end, and a
  session that takes no more messages (`common.py:143`).
* `privilege_check` outlives its action: if the process dies between the check and
  the approval node, an action that a later turn sends straight to approval goes to
  the approver found for the earlier one (`approval.py:32`); `ApproverMatchesAction`
  excepts crashes for this reason only.
* A crash between asking "did that fix it?" and the interrupt leaves the session
  awaiting, and the next message counts as the approval (`supervisor.py:342`).
* Memory stores the last recommended fix even if the employee reported that it did
  not work (`memory/policy.py:68`).
* A guard that trips before the security override, or the model's category, leaves
  a security case's ticket unmarked (`escalation.py:83`).
* The supervisor may enter the approval workflow with no entitlement check behind
  it (`approval.py:32`).
* `ingest_node` clears `employee_confirmation`, but a turn that resumes
  `ask_wait` or `resolution_verify_wait` does not pass `ingest`: a declined
  confirmation lingers into later turns (`common.py:100-103`, `need_info.py:45`)
  and lets the supervisor close the session without verification.
* The bound on questions is checked for an `ask_employee` decision only. The
  `need_info` workflow and the negative-answer veto reach `ask_prepare` unchecked
  (`supervisor.py:172-174`, `:318-335`, `:503`), so `information_request_count` can
  exceed its limit (the cycle budget still ends the turn).
* `resolution_node` commits the resolved ticket before `finalize_session` writes
  to memory (`resolution.py:61`, `common.py:124-127`): a failing memory call
  leaves a resolved ticket and a failed session with a second, escalated ticket.
* The privilege was checked before the employee answered and is not checked again
  (`confirmation.py:210`).

At the desk:

* Two decisions that read the pending request before either commits may both accept
  it, and the action runs once for each (`repos.py:294`): `RunsGranted` counts runs
  against accepted decisions, not against requests.
* The sweep and a status query may find the same ticket before either writes, and
  both escalate it (`escalation.py:202`); a ticket resolved by an operator after
  `escalate_stale_ticket` read it is set to `escalated` all the same (`:201-217`).
* A decision can be taken as soon as the request is committed, while the session
  that filed it is still in `finalize_session`: its `waiting_approval` then overwrites
  the decision's `completed` (`approval.py:93-130`, `:242`, `common.py:143`).
* An approval whose coroutine dies between the decision and the execution is
  never executed: a second decision is refused (`approval.py:147-177`).
* `approval_node` creates its ticket as `waiting_approval`, which gets no
  `pending_since` (`repos.py:133`): such a ticket never ages, although the sweep's
  query lists the status (`repos.py:223`) and `docs/REQUIREMENTS.md:45` speaks of
  tickets pending over the threshold. Outside the seeds only a status change to
  "pending" by a tool that no specialist is given would start a clock.
* The query compares moments, the check whole days (`repos.py:219`,
  `escalation.py:194`): for a day each sweep finds a ticket and passes it over.

In the dispatcher:

* A message that passed the terminal check and waited for the lock behind the run
  that settles the session enters it again (`dispatcher.py:207`), although the
  comment at `:208-211` says that a completed graph must not be re-entered.
  `RestsAnswerable` and `ServesTheContract` except the sessions on which two requests
  met.
* Two first utterances of a voice call start two sessions when the second looks
  before the first has created its row (`routes_voice.py:65-68`); `OneVoiceSession`
  states this as its one exception.
* A session that was entered again after it settled may ask a question that nobody
  can answer: the next request is refused (`RestsAnswerable` excepts it).
* A store call that fails between the session row and the lock leaves an open
  session that no run was started for (`dispatcher.py:175-181`). If a later message
  comes before a run has checkpointed who asks, the state does not validate and the
  fail-safe ends the session.
* When the look at the pending interrupt fails after a run that ended well, the
  fail-safe files a second ticket and overwrites the outcome (`dispatcher.py:226-229`).

In the tools, the specialists and the streams:

* A ticketing tool that is cut off by the timeout after its transaction committed
  is reported as failed (`registry.py:174-175`). No specialist is given one.
* `invoke_structured` promises a result and never an exception, but records an
  event on each invalid answer, and that may raise. A run that raises leaves its
  `agent_runs` row "started", and the next run takes its index again (`runner.py:25-27`).
* A client whose queue is full is dropped by the bus and keeps an open stream with
  nothing but heartbeats; it is never told (`bus.py:27-29`).
* The audit page drops events that stream in while its first load is in flight
  (`frontend/app/ops/audit/page.tsx:143-171`).

In the directory:

* If no manager within six hops may approve, the request goes to the direct manager
  whatever his role (`org/service.py:106`); `docs/DESIGN.md:353` puts the manager of
  the owning team before him. `NearestApproverAsked` says whom the code asks; that he
  may approve is said only when somebody in reach may.
* An operator who intervenes becomes the owner of a ticket by his user name, and the
  team stays (`routes_ops.py:155-159`): owner and team need not belong together, and
  since no chain knows him, the next escalation starts at level 1 again.
* An approver that is known is discarded when only the lookup of his name fails, and
  the session escalates (`approval.py:44-47`).
* An exhausted chain, an unknown system or an outage sends every ticket, also a
  security one, to the IT support queue without an owner (`escalation.py:59-60`); from
  there the next escalation starts at level 1 again.

## 6. Abstractions and omissions

* Text is reduced to what code decides on: a question repeats an earlier one or
  not, a reply is clearly negative or not, findings are new or not. The wording
  guards of `guards.py` are inputs of the supervisor step.
* SupportGraph: the last checkpoint is assumed durable. What a superstep that was cut
  short leaves is a prefix of its commits; of the rows, those that no property looks at
  are left out (an audit event that a lost reply records twice, a second ticket
  filed by a terminal node that runs again: `ticket` is the one the state names). A
  fail-safe that itself fails is a `Crash`; Dispatcher has it as a step. Decision signatures carry the turn and the evidence count, so those
  of earlier turns and evidence, which nothing can equal, are dropped. Tickets for
  secondary intents, message rows, audit events and replies to the employee are
  left out. Only `resolution_recommended` results set `fix`.
* TicketDesk: no caller of `update_ticket_status` passes "pending" (the tool that could is on
  no specialist's list), so no action does; tickets become pending
  by creation. Seeds and sessions create tickets in any state their outcome asks
  for. A tool run and its `action_executions` row are one step, and the network
  call that finds the human target of an escalation falls between two steps.
  A session that resolves its own earlier ticket (`resolution.py:61`) makes the
  update that `Intervene` makes; one that escalates it for another reason than age
  (`escalation.py:116`) is left out, and so are ticket numbers, messages, audit
  events and the fail-safe of a session whose approval node raises.
  `granted` is a history variable: the coroutines whose approval was accepted.
* Dispatcher: consecutive store calls before the lock that touch nothing in common
  are one step (`StoreMessage`, `CreateSession`); of several open voice sessions
  `FindVoice` takes any; a run of the graph is one step between the lock's taking
  and release, as nothing outside the session's lock reads its checkpoint; messages
  are not modelled; there is one process, as the locks are of one process
  (`docs/DEPLOYMENT.md` runs a single worker).
* ToolGate and AgentRun: the events that `execute_tool` records have no effect on
  it, whether they succeed or not; what the runner makes of a result is in
  Supervisor and SupportState; the world is one employee's, since the runner and the
  workflows put the session's employee into the parameters, and starts as one seed
  profile does; readings of diagnostic tools are left out.
* EventStream: the disconnect check and the get are one step, a heartbeat is a
  stuttering step, what a closed stream had is forgotten; an event is its session,
  its type and the detail its copy depends on.
* Directory: the graph itself changes only by seeding, which is not modelled; an
  operator is one person, the administrator; the manager of a team, which the code
  never asks for, is left out; one
  privilege and one ticket stand for all; four systems stand for eleven; two hops
  for six; reporting is acyclic and nobody is twice in a chain, as in the seed.
* Not modelled: conversation compaction (a slice of a list that only changes the
  prompt; with `recent_messages_to_retain = 0` the slice keeps everything,
  `compaction.py:55`), memory retrieval (a similarity search in an external
  service), authentication and tokens, providers' wire formats, prompts, seeds,
  migrations, the frontend, and the read-only queries of the operations API (one of
  which filters pending approvals after its own limit, `ops_queries.py:239-248`).
  They hold no control the properties depend on.

## 7. What could follow

Done: the session graph with its contract, the dispatcher with the voice bridge,
the ticket desk, the specialist run over the tool gate, the event stream, the
directory. Left:

1. Ticket numbers counted from the table, in TicketDesk.
2. A proof that one run of Dispatcher is an invocation of SupportGraph: today each
   of them implements SessionContract, the one between runs and the other inside
   them.
3. A directory that changes while a session waits for its answer.

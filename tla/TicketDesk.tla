----------------------------- MODULE TicketDesk -----------------------------
(***************************************************************************)
(* What happens to tickets and approval requests after, and beside, the    *)
(* sessions that file them: the approval node, approvers' decisions and    *)
(* their execution (workflows/approval.py), operators (routes_ops.py), the *)
(* ageing sweep (main.py, workflows/escalation.py) and status queries that *)
(* meet a stale ticket (workflows/ticket_status.py).                       *)
(*                                                                         *)
(* All of them are coroutines of one process.  Each call of db/repos.py is *)
(* a transaction of its own, which reads a row, changes the object and     *)
(* writes the columns that differ from what it read; it takes no row lock, *)
(* so another coroutine may commit between the read and the write.         *)
(***************************************************************************)
EXTENDS Integers, FiniteSets

CONSTANTS
  Tickets,
  Requests,       \* approval requests, each filed by a session of its own
  TicketOf,       \* the ticket a request is filed on
  WithTool,       \* the requests whose action_key is not empty
  Handlers,       \* coroutines that serve HTTP requests
  Sweeper,        \* the task _aging_sweep_loop
  Threshold,      \* settings.pending_escalation_days
  TicksPerDay,    \* resolution of the clock; code compares times and whole days
  MaxAge,         \* bound: the age, in ticks, at which clocks stop
  MaxFailures     \* bound: coroutines that raise or are cancelled half-way

ASSUME DeskAssumption ==
  /\ TicketOf \in [Requests -> Tickets] /\ WithTool \subseteq Requests
  /\ Sweeper \notin Handlers /\ "none" \notin Tickets \cup Requests
  /\ Threshold \in Nat /\ TicksPerDay \in Nat \ {0} /\ MaxFailures \in Nat
  /\ MaxAge \in Nat /\ MaxAge >= (Threshold + 1) * TicksPerDay

VARIABLES
  ticket,       \* the rows of tickets
  request,      \* approval_requests.status
  session,      \* support_sessions.status of the session behind a request
  ran,          \* how often each coroutine invoked the tool of each request
  granted,      \* the coroutines whose approval of a request was accepted
  events,       \* escalation_events with trigger pending_age, per ticket
  job,          \* what each coroutine is doing
  failures

vars == <<ticket, request, session, ran, granted, events, job, failures>>

Processes == Handlers \cup {Sweeper}

None == "none"
Off == -1                  \* pending_since is NULL
Waiting == {"pending", "waiting_approval"}
Statuses == {"open", "pending", "in_progress", "waiting_approval",
             "resolved", "closed", "escalated"}
Steps == {"idle", "check", "read", "write", "file", "finalize", "decide", "execute",
          "notify", "event", "sweep"}

Row == [status : Statuses \cup {None}, clock : Off..MaxAge, escalated : BOOLEAN]
NoRow == [status |-> None, clock |-> Off, escalated |-> FALSE]

Job == [step : Steps, ticket : Tickets \cup {None}, request : Requests \cup {None},
        approve : BOOLEAN, to : Statuses, seen : Row,
        after : {"idle", "file", "notify", "event"}, todo : SUBSET Tickets]

Idle == [step |-> "idle", ticket |-> None, request |-> None, approve |-> FALSE,
         to |-> "open", seen |-> NoRow, after |-> "idle", todo |-> {}]

(* The declared types hold: rows, clocks and the progress of coroutines.   *)
DeskTypeOK ==
  /\ ticket \in [Tickets -> Row]
  /\ request \in [Requests -> {"absent", "pending", "approved", "rejected"}]
  /\ session \in [Requests -> {"active", "waiting_approval", "completed"}]
  /\ ran \in [Requests -> [Processes -> Nat]]
  /\ granted \in [Requests -> SUBSET Processes]
  /\ events \in [Tickets -> Nat]
  /\ job \in [Processes -> Job]
  /\ failures \in Nat

Init ==
  /\ ticket = [t \in Tickets |-> NoRow]
  /\ request = [r \in Requests |-> "absent"]
  /\ session = [r \in Requests |-> "active"]
  /\ ran = [r \in Requests |-> [p \in Processes |-> 0]]
  /\ granted = [r \in Requests |-> {}]
  /\ events = [t \in Tickets |-> 0]
  /\ job = [p \in Processes |-> Idle]
  /\ failures = 0

-----------------------------------------------------------------------------
(* Coroutines.  A status change is two steps, "read" and "write".          *)

At(p, step) == job[p].step = step

Continue(p, j) == job' = [job EXCEPT ![p] = j]

Go(p, step) == Continue(p, [job[p] EXCEPT !.step = step])

(* The sweep goes on with the rest of its list, a request is answered.     *)
Done(p) ==
  Continue(p, IF job[p].todo = {} THEN Idle
              ELSE [Idle EXCEPT !.step = "sweep", !.todo = job[p].todo])

Change(j, t, to, after) ==
  [j EXCEPT !.step = "read", !.ticket = t, !.to = to, !.after = after]

-----------------------------------------------------------------------------
(* Tickets.                                                                *)

Created(status) ==
  [status |-> status, clock |-> IF status = "pending" THEN 0 ELSE Off,
   escalated |-> status = "escalated"]

(* Sessions and seeds open tickets in the state their outcome asks for.    *)
CreateTicket(t) ==
  /\ ticket[t].status = None
  /\ \E status \in {"open", "pending", "resolved", "escalated"} :
       ticket' = [ticket EXCEPT ![t] = Created(status)]
  /\ UNCHANGED <<request, session, ran, granted, events, job, failures>>

(* Mutant: a clock that was started is never stopped.                      *)
ClockNeverStopped(seen, to, now) ==
  IF to = "pending" /\ seen.clock = Off THEN 0 ELSE now.clock

(* pending_since as an update from seen to the status to leaves it.        *)
ClockAfter(seen, to, now) ==
  IF to = "pending" /\ seen.clock = Off THEN 0
  ELSE IF to \notin Waiting /\ seen.clock # Off THEN Off
  ELSE now.clock

(* Mutant: the flag follows the status.                                    *)
FlagFollowsStatus(seen, to, now) ==
  [status |-> to, clock |-> ClockAfter(seen, to, now), escalated |-> to = "escalated"]

(* The row an update leaves behind: columns that do not differ from what   *)
(* was read keep whatever another transaction committed.                   *)
Updated(seen, to, now) ==
  [status |-> IF to = seen.status THEN now.status ELSE to,
   clock |-> ClockAfter(seen, to, now),
   escalated |-> now.escalated \/ (to = "escalated" /\ ~seen.escalated)]

ReadTicket(p) ==
  /\ At(p, "read")
  /\ Continue(p, [job[p] EXCEPT !.step = "write", !.seen = ticket[job[p].ticket]])
  /\ UNCHANGED <<ticket, request, session, ran, granted, events, failures>>

WriteTicket(p) ==
  /\ At(p, "write")
  /\ ticket' = [ticket EXCEPT ![job[p].ticket] = Updated(job[p].seen, job[p].to, @)]
  /\ IF job[p].after = "idle" THEN Done(p)
     ELSE Continue(p, [job[p] EXCEPT !.step = job[p].after, !.seen = NoRow])
  /\ UNCHANGED <<request, session, ran, granted, events, failures>>

-----------------------------------------------------------------------------
(* Filing an approval request: approval_node and finalize_session.         *)

RequestApproval(p, r) ==
  /\ At(p, "idle") /\ request[r] = "absent"
  /\ \A q \in Processes : job[q].request # r
  /\ LET j == [Idle EXCEPT !.request = r, !.ticket = TicketOf[r]]
     IN  \/ /\ ticket[TicketOf[r]].status = None
            /\ ticket' = [ticket EXCEPT ![TicketOf[r]] = Created("waiting_approval")]
            /\ Continue(p, [j EXCEPT !.step = "file"])
         \/ /\ ticket[TicketOf[r]].status # None
            /\ Continue(p, Change(j, TicketOf[r], "waiting_approval", "file"))
            /\ UNCHANGED ticket
  /\ UNCHANGED <<request, session, ran, granted, events, failures>>

FileRequest(p) ==
  /\ At(p, "file")
  /\ request' = [request EXCEPT ![job[p].request] = "pending"]
  /\ Go(p, "finalize")
  /\ UNCHANGED <<ticket, session, ran, granted, events, failures>>

FinalizeSession(p) ==
  /\ At(p, "finalize")
  /\ session' = [session EXCEPT ![job[p].request] = "waiting_approval"]
  /\ Done(p)
  /\ UNCHANGED <<ticket, request, ran, granted, events, failures>>

-----------------------------------------------------------------------------
(* Deciding it: decide_approval_request.                                   *)

(* Mutant: any request that exists can be decided.                         *)
DecidableAgain(r) == request[r] # "absent"

Decidable(r) == request[r] = "pending"

ReadDecision(p, r) ==
  /\ At(p, "idle") /\ Decidable(r)
  /\ \E approve \in BOOLEAN :
       Continue(p, [Idle EXCEPT !.step = "decide", !.request = r, !.approve = approve])
  /\ UNCHANGED <<ticket, request, session, ran, granted, events, failures>>

(* Mutant: the word that the employee is told is stored.                   *)
Told(approve) == IF approve THEN "approved" ELSE "declined"

Decision(approve) == IF approve THEN "approved" ELSE "rejected"

(* Mutant: a rejection notifies the employee and leaves the ticket alone.  *)
RejectionOnlyNotified(j) ==
  IF j.approve THEN [j EXCEPT !.step = "execute"] ELSE [j EXCEPT !.step = "notify"]

AfterDecision(j) ==
  IF j.approve THEN [j EXCEPT !.step = "execute"]
  ELSE Change(j, TicketOf[j.request], "closed", "notify")

Decide(p) ==
  /\ At(p, "decide")
  /\ LET r == job[p].request
     IN  /\ request' = [request EXCEPT ![r] = Decision(job[p].approve)]
         /\ granted' = IF job[p].approve THEN [granted EXCEPT ![r] = @ \cup {p}] ELSE granted
  /\ Continue(p, AfterDecision(job[p]))
  /\ UNCHANGED <<ticket, session, ran, events, failures>>

Execute(p) ==
  /\ At(p, "execute")
  /\ LET r == job[p].request
     IN  \/ /\ r \in WithTool
            /\ ran' = [ran EXCEPT ![r][p] = @ + 1]
            /\ \E to \in {"resolved", "in_progress"} :
                 Continue(p, Change(job[p], TicketOf[r], to, "notify"))
         \/ /\ r \notin WithTool
            /\ Continue(p, Change(job[p], TicketOf[r], "in_progress", "notify"))
            /\ UNCHANGED ran
  /\ UNCHANGED <<ticket, request, session, granted, events, failures>>

Notify(p) ==
  /\ At(p, "notify")
  /\ session' = [session EXCEPT ![job[p].request] = "completed"]
  /\ Done(p)
  /\ UNCHANGED <<ticket, request, ran, granted, events, failures>>

-----------------------------------------------------------------------------
(* Operators, status queries and the sweep.                                *)

Intervene(p, t) ==
  /\ At(p, "idle") /\ ticket[t].status # None
  /\ \E to \in {"resolved", "in_progress"} : Continue(p, Change(Idle, t, to, "idle"))
  /\ UNCHANGED <<ticket, request, session, ran, granted, events, failures>>

(* pending_age_days(t.pending_since) > threshold                           *)
Overdue(row) == row.clock # Off /\ row.clock \div TicksPerDay > Threshold

EscalateStale(j, t) == Change(j, t, "escalated", "event")

(* One ticket goes to the escalation node, which does not look at it again;*)
(* a list of tickets has its stale one escalated by escalate_stale_ticket. *)
QueryStatus(p, t) ==
  /\ At(p, "idle")
  /\ ticket[t].status \in Waiting /\ ~ticket[t].escalated /\ Overdue(ticket[t])
  /\ \/ Continue(p, EscalateStale(Idle, t))
     \/ Continue(p, [Idle EXCEPT !.step = "check", !.ticket = t])
  /\ UNCHANGED <<ticket, request, session, ran, granted, events, failures>>

(* Mutant: the query forgets tickets that wait for an approval.            *)
PendingOnly ==
  {t \in Tickets : /\ ticket[t].status = "pending" /\ ~ticket[t].escalated
                   /\ ticket[t].clock > Threshold * TicksPerDay}

(* The query compares pending_since with a moment, not with whole days.    *)
StaleTickets ==
  {t \in Tickets : /\ ticket[t].status \in Waiting /\ ~ticket[t].escalated
                   /\ ticket[t].clock > Threshold * TicksPerDay}

Sweep ==
  /\ At(Sweeper, "idle") /\ StaleTickets # {}
  /\ Continue(Sweeper, [Idle EXCEPT !.step = "sweep", !.todo = StaleTickets])
  /\ UNCHANGED <<ticket, request, session, ran, granted, events, failures>>

SweepNext ==
  /\ At(Sweeper, "sweep")
  /\ \E t \in job[Sweeper].todo :
       Continue(Sweeper, [job[Sweeper] EXCEPT !.step = "check", !.ticket = t, !.todo = @ \ {t}])
  /\ UNCHANGED <<ticket, request, session, ran, granted, events, failures>>

CheckStale(p) ==
  /\ At(p, "check")
  /\ LET t == job[p].ticket
     IN  \/ /\ ~ticket[t].escalated /\ Overdue(ticket[t])
            /\ Continue(p, EscalateStale(job[p], t))
         \/ /\ ticket[t].escalated \/ ~Overdue(ticket[t])
            /\ Done(p)
  /\ UNCHANGED <<ticket, request, session, ran, granted, events, failures>>

RecordEscalation(p) ==
  /\ At(p, "event")
  /\ events' = [events EXCEPT ![job[p].ticket] = @ + 1]
  /\ Done(p)
  /\ UNCHANGED <<ticket, request, session, ran, granted, failures>>

-----------------------------------------------------------------------------
(* Time passes, and a coroutine may raise, or be cancelled, at any await.  *)

Tick ==
  /\ \E t \in Tickets : ticket[t].clock \in 0..(MaxAge - 1)
  /\ ticket' = [t \in Tickets |->
       IF ticket[t].clock \in 0..(MaxAge - 1) THEN [ticket[t] EXCEPT !.clock = @ + 1]
       ELSE ticket[t]]
  /\ UNCHANGED <<request, session, ran, granted, events, job, failures>>

Fail(p) ==
  /\ ~At(p, "idle") /\ failures < MaxFailures
  /\ Continue(p, Idle)
  /\ failures' = failures + 1
  /\ UNCHANGED <<ticket, request, session, ran, granted, events>>

(* What a coroutine does once it has begun.                                *)
Advance(p) ==
  \/ ReadTicket(p) \/ WriteTicket(p) \/ FileRequest(p) \/ FinalizeSession(p)
  \/ Decide(p) \/ Execute(p) \/ Notify(p) \/ CheckStale(p) \/ RecordEscalation(p)

Begin(p) ==
  \/ \E r \in Requests : RequestApproval(p, r) \/ ReadDecision(p, r)
  \/ \E t \in Tickets : Intervene(p, t) \/ QueryStatus(p, t)

SweepStep == Sweep \/ SweepNext \/ Advance(Sweeper)

Next ==
  \/ \E t \in Tickets : CreateTicket(t)
  \/ \E p \in Handlers : Begin(p) \/ Advance(p)
  \/ SweepStep
  \/ \E p \in Processes : Fail(p)
  \/ Tick

Spec == Init /\ [][Next]_vars

(* The sweep wakes up every six hours and the event loop runs it when it   *)
(* is ready; nobody else has to decide, ask, intervene or even finish.     *)
FairSpec == Spec /\ WF_vars(SweepStep)

=============================================================================

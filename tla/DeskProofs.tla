----------------------------- MODULE DeskProofs -----------------------------
(* Proofs about TicketDesk, for any tickets, requests, handlers, limits    *)
(* and number of failures: type correctness, then each safety property from *)
(* a strengthening of its own.                                             *)
EXTENDS DeskProperties, TLAPS

(* What a coroutine is working on is there for it to work on.              *)
TicketThere(p) ==
  job[p].step \in {"check", "read", "write", "event"} =>
    job[p].ticket \in Tickets /\ ticket[job[p].ticket].status # None

RequestThere(p) ==
  /\ job[p].step \in {"file", "finalize", "decide", "execute", "notify"} =>
       job[p].request # None
  /\ job[p].step \in {"read", "write"} /\ job[p].after \in {"file", "notify"} =>
       job[p].request # None
  /\ job[p].request # None => /\ job[p].request \in Requests
                              /\ ticket[TicketOf[job[p].request]].status # None

TodoThere(p) == \A t \in job[p].todo : ticket[t].status # None

There ==
  /\ \A p \in Processes : TicketThere(p) /\ RequestThere(p) /\ TodoThere(p)
  /\ \A r \in Requests : request[r] # "absent" => ticket[TicketOf[r]].status # None

BaseInv == DeskTypeOK /\ There

-----------------------------------------------------------------------------
(* A coroutine may have nothing to do.                                     *)
LEMMA IdleIsAJob == Idle \in Job
BY DeskAssumption DEF Idle, Job, Steps, Statuses, Row, NoRow, Off, None

(* The rows that coroutines write are rows.                                *)
LEMMA RowTypes ==
  ASSUME NEW status \in Statuses, NEW to \in Statuses, NEW seen \in Row, NEW now \in Row
  PROVE  /\ Created(status) \in Row /\ Created(status).status # None
         /\ Updated(seen, to, now) \in Row
         /\ now.status # None => Updated(seen, to, now).status # None
         /\ now.escalated => Updated(seen, to, now).escalated
BY DeskAssumption DEF Created, Updated, ClockAfter, Row, Statuses, Off, None

(* Answering a request, or turning to the rest of the list, leaves a job   *)
(* that needs nothing but its list.                                        *)
LEMMA DoneLeaves ==
  ASSUME BaseInv, NEW p \in Processes, Done(p)
  PROVE  /\ job' \in [Processes -> Job]
         /\ \A q \in Processes \ {p} : job'[q] = job[q]
         /\ job'[p].step \in {"idle", "sweep"} /\ job'[p].request = None
         /\ job'[p].todo = job[p].todo
BY IdleIsAJob DEF BaseInv, DeskTypeOK, Done, Continue, Idle, Job, Steps

(* Going on with a job changes no other job.                               *)
LEMMA ContinueLeaves ==
  ASSUME DeskTypeOK, NEW p \in Processes, NEW j \in Job, Continue(p, j)
  PROVE  /\ job' \in [Processes -> Job] /\ job'[p] = j
         /\ \A q \in Processes \ {p} : job'[q] = job[q]
BY DEF DeskTypeOK, Continue

(* Asking for an update of a ticket is a job.                              *)
LEMMA ChangeIsAJob ==
  ASSUME NEW j \in Job, NEW t \in Tickets, NEW to \in Statuses,
         NEW after \in {"idle", "file", "notify", "event"}
  PROVE  Change(j, t, to, after) \in Job
BY DEF Change, Job, Steps

(* A step of one coroutine keeps the others' work in place when it removes *)
(* no ticket.                                                              *)
LEMMA ThereStep ==
  ASSUME BaseInv, DeskTypeOK', NEW p \in Processes,
         \A t \in Tickets : ticket[t].status # None => ticket'[t].status # None,
         \A q \in Processes \ {p} : job'[q] = job[q],
         TicketThere(p)', RequestThere(p)', TodoThere(p)',
         \A r \in Requests : request'[r] # "absent" =>
           request[r] # "absent" \/ ticket[TicketOf[r]].status # None
  PROVE  BaseInv'
<1>1. \A q \in Processes : (TicketThere(q) /\ RequestThere(q) /\ TodoThere(q))'
  <2> TAKE q \in Processes
  <2>1. CASE q = p
    BY <2>1
  <2>2. CASE q # p
    <3>1. job'[q] = job[q] /\ TicketThere(q) /\ RequestThere(q) /\ TodoThere(q)
      BY <2>2 DEF BaseInv, There
    <3>2. job[q].todo \subseteq Tickets
      BY DEF BaseInv, DeskTypeOK, Job
    <3>3. RequestThere(q)'
      BY <3>1, DeskAssumption DEF RequestThere
    <3>4. TicketThere(q)' /\ TodoThere(q)'
      BY <3>1, <3>2 DEF TicketThere, TodoThere
    <3> QED  BY <3>3, <3>4
  <2> QED  BY <2>1, <2>2
<1>2. \A r \in Requests : request'[r] # "absent" => ticket'[TicketOf[r]].status # None
  BY DeskAssumption DEF BaseInv, There
<1> QED  BY <1>1, <1>2 DEF BaseInv, There

(* A step that changes no ticket and no request, and only the job of p.    *)
LEMMA ThereFrame ==
  ASSUME BaseInv, DeskTypeOK', NEW p \in Processes, UNCHANGED ticket,
         \A q \in Processes \ {p} : job'[q] = job[q],
         TicketThere(p)', RequestThere(p)', TodoThere(p)',
         UNCHANGED request
  PROVE  BaseInv'
BY ThereStep

(* A job that was answered needs nothing but its list.                     *)
LEMMA DoneThere ==
  ASSUME BaseInv, NEW p \in Processes, Done(p),
         \A t \in Tickets : ticket[t].status # None => ticket'[t].status # None
  PROVE  TicketThere(p)' /\ RequestThere(p)' /\ TodoThere(p)'
<1>1. job'[p].step \in {"idle", "sweep"} /\ job'[p].request = None /\ job'[p].todo = job[p].todo
  BY DoneLeaves
<1>2. TodoThere(p) /\ job[p].todo \subseteq Tickets
  BY DEF BaseInv, There, DeskTypeOK, Job
<1> QED  BY <1>1, <1>2 DEF TicketThere, RequestThere, TodoThere

-----------------------------------------------------------------------------
(* Nothing is in the store.                                                *)
LEMMA BaseInit == Init => BaseInv
<1> SUFFICES ASSUME Init PROVE BaseInv
  OBVIOUS
<1>1. DeskTypeOK
  BY IdleIsAJob, DeskAssumption DEF Init, DeskTypeOK, Row, NoRow, Off
<1>2. There
  BY DEF Init, There, TicketThere, RequestThere, TodoThere, Idle
<1> QED  BY <1>1, <1>2 DEF BaseInv

(* A created ticket is there.                                              *)
LEMMA CreateTicketBase ==
  ASSUME BaseInv, NEW t \in Tickets, CreateTicket(t)
  PROVE  BaseInv'
<1>1. PICK status \in {"open", "pending", "resolved", "escalated"} :
        ticket' = [ticket EXCEPT ![t] = Created(status)]
  BY DEF CreateTicket
<1>2. status \in Statuses /\ Created(status) \in Row /\ Created(status).status # None
  <2>1. status \in Statuses
    BY DEF Statuses
  <2>2. ticket[t] \in Row
    BY DEF BaseInv, DeskTypeOK
  <2> QED  BY <2>1, <2>2, RowTypes
<1>3. DeskTypeOK'
  BY <1>1, <1>2 DEF CreateTicket, BaseInv, DeskTypeOK
<1>4. \A u \in Tickets : ticket[u].status # None => ticket'[u].status # None
  BY <1>1, <1>2 DEF BaseInv, DeskTypeOK
<1>5. UNCHANGED <<job, request>>
  BY DEF CreateTicket
<1>6. (\A p \in Processes : TicketThere(p) /\ RequestThere(p) /\ TodoThere(p))'
  BY <1>4, <1>5, DeskAssumption
     DEF BaseInv, There, TicketThere, RequestThere, TodoThere, DeskTypeOK, Job
<1>7. \A r \in Requests : request'[r] # "absent" => ticket'[TicketOf[r]].status # None
  BY <1>4, <1>5, DeskAssumption DEF BaseInv, There
<1> QED  BY <1>3, <1>6, <1>7 DEF BaseInv, There

(* A tick keeps every row a row, with its status and its flag.             *)
LEMMA TickRows ==
  ASSUME DeskTypeOK, Tick
  PROVE  \A t \in Tickets : ticket'[t] \in Row /\ ticket'[t].status = ticket[t].status
                            /\ ticket'[t].escalated = ticket[t].escalated
<1> TAKE t \in Tickets
<1>1. ticket[t] \in Row /\ MaxAge \in Nat
  BY DeskAssumption DEF DeskTypeOK
<1>2. CASE ticket[t].clock \in 0..(MaxAge - 1)
  <2>1. ticket'[t] = [ticket[t] EXCEPT !.clock = @ + 1]
    BY <1>2 DEF Tick
  <2>2. ticket[t].clock + 1 \in Off..MaxAge
    BY <1>1, <1>2 DEF Off
  <2> QED  BY <1>1, <2>1, <2>2 DEF Row
<1>3. CASE ticket[t].clock \notin 0..(MaxAge - 1)
  BY <1>1, <1>3 DEF Tick
<1> QED  BY <1>2, <1>3

(* Time touches only clocks.                                               *)
LEMMA TickBase ==
  ASSUME BaseInv, Tick
  PROVE  BaseInv'
<1>1. \A t \in Tickets : ticket'[t] \in Row /\ ticket'[t].status = ticket[t].status
                         /\ ticket'[t].escalated = ticket[t].escalated
  BY TickRows DEF BaseInv
<1>2. DeskTypeOK'
  BY <1>1 DEF Tick, BaseInv, DeskTypeOK
<1>3. (\A p \in Processes : TicketThere(p) /\ RequestThere(p) /\ TodoThere(p))'
  BY <1>1, DeskAssumption
     DEF Tick, BaseInv, There, TicketThere, RequestThere, TodoThere, DeskTypeOK, Job
<1>4. \A r \in Requests : request'[r] # "absent" => ticket'[TicketOf[r]].status # None
  BY <1>1, DeskAssumption DEF Tick, BaseInv, There
<1> QED  BY <1>2, <1>3, <1>4 DEF BaseInv, There

-----------------------------------------------------------------------------
(* The steps of a coroutine, in the order of a request's life.             *)

(* Who asks for an approval asks it of a ticket that is there.             *)
LEMMA RequestApprovalBase ==
  ASSUME BaseInv, NEW p \in Handlers, NEW r \in Requests, RequestApproval(p, r)
  PROVE  BaseInv'
<1> DEFINE j == [Idle EXCEPT !.request = r, !.ticket = TicketOf[r]]
           t == TicketOf[r]
<1>1. p \in Processes /\ t \in Tickets /\ DeskTypeOK /\ ticket[t] \in Row
  BY DeskAssumption DEF Processes, BaseInv, DeskTypeOK
<1>2. j \in Job
  BY <1>1, IdleIsAJob DEF Job, Idle
<1>3. CASE /\ ticket[t].status = None
           /\ ticket' = [ticket EXCEPT ![t] = Created("waiting_approval")]
           /\ Continue(p, [j EXCEPT !.step = "file"])
  <2>1. Created("waiting_approval") \in Row /\ Created("waiting_approval").status # None
    BY <1>1, RowTypes DEF Statuses
  <2>2. [j EXCEPT !.step = "file"] \in Job
    BY <1>2 DEF Job, Steps
  <2>3. job' \in [Processes -> Job] /\ job'[p] = [j EXCEPT !.step = "file"]
        /\ \A q \in Processes \ {p} : job'[q] = job[q]
    BY <1>1, <1>3, <2>2, ContinueLeaves
  <2>4. DeskTypeOK'
    BY <1>1, <1>3, <2>1, <2>3 DEF RequestApproval, DeskTypeOK
  <2>5. \A u \in Tickets : ticket[u].status # None => ticket'[u].status # None
    BY <1>1, <1>3, <2>1 DEF DeskTypeOK
  <2>6. ticket'[t].status # None
    BY <1>1, <1>3, <2>1 DEF DeskTypeOK
  <2>7. TicketThere(p)' /\ RequestThere(p)' /\ TodoThere(p)'
    <3>1. job'[p].step = "file" /\ job'[p].request = r /\ job'[p].todo = {}
      BY <2>3 DEF Idle
    <3>2. r # None
      BY DeskAssumption DEF None
    <3> QED  BY <2>6, <3>1, <3>2 DEF TicketThere, RequestThere, TodoThere
  <2>8. request' = request
    BY DEF RequestApproval
  <2> QED  BY <1>1, <2>3, <2>4, <2>5, <2>7, <2>8, ThereStep
<1>4. CASE /\ ticket[t].status # None
           /\ Continue(p, Change(j, t, "waiting_approval", "file"))
           /\ UNCHANGED ticket
  <2>1. Change(j, t, "waiting_approval", "file") \in Job
    BY <1>1, <1>2, ChangeIsAJob DEF Statuses
  <2>2. job' \in [Processes -> Job] /\ job'[p] = Change(j, t, "waiting_approval", "file")
        /\ \A q \in Processes \ {p} : job'[q] = job[q]
    BY <1>1, <1>4, <2>1, ContinueLeaves
  <2>3. DeskTypeOK'
    BY <1>1, <1>4, <2>2 DEF RequestApproval, DeskTypeOK
  <2>4. TicketThere(p)' /\ RequestThere(p)' /\ TodoThere(p)'
    <3>1. job'[p].step = "read" /\ job'[p].request = r /\ job'[p].ticket = t /\ job'[p].todo = {}
      BY <2>2 DEF Change, Idle
    <3>2. r # None
      BY DeskAssumption DEF None
    <3> QED  BY <1>1, <1>4, <3>1, <3>2 DEF TicketThere, RequestThere, TodoThere
  <2>5. request' = request
    BY DEF RequestApproval
  <2> QED  BY <1>1, <1>4, <2>2, <2>3, <2>4, <2>5, ThereFrame
<1> QED  BY <1>3, <1>4 DEF RequestApproval

(* Filing a request or taking a session back keeps the base invariant.     *)
LEMMA FilingBase ==
  ASSUME BaseInv, NEW p \in Processes, FileRequest(p) \/ FinalizeSession(p)
  PROVE  BaseInv'
<1>0. DeskTypeOK /\ TicketThere(p) /\ RequestThere(p) /\ TodoThere(p) /\ job[p] \in Job
  BY DEF BaseInv, There, DeskTypeOK
<1>1. CASE FileRequest(p)
  <2>1. [job[p] EXCEPT !.step = "finalize"] \in Job
    BY <1>0 DEF Job, Steps
  <2>2. job' \in [Processes -> Job] /\ job'[p] = [job[p] EXCEPT !.step = "finalize"]
        /\ \A q \in Processes \ {p} : job'[q] = job[q]
    BY <1>0, <1>1, <2>1, ContinueLeaves DEF FileRequest, Go
  <2>3. DeskTypeOK'
    BY <1>0, <1>1, <2>2 DEF FileRequest, DeskTypeOK
  <2>4. TicketThere(p)' /\ RequestThere(p)' /\ TodoThere(p)'
    BY <1>0, <1>1, <2>2 DEF FileRequest, At, TicketThere, RequestThere, TodoThere, Job
  <2>5. \A r \in Requests : request'[r] # "absent" =>
          request[r] # "absent" \/ ticket[TicketOf[r]].status # None
    BY <1>0, <1>1 DEF FileRequest, At, RequestThere, DeskTypeOK
  <2>6. ticket' = ticket
    BY <1>1 DEF FileRequest
  <2> QED  BY <2>2, <2>3, <2>4, <2>5, <2>6, ThereStep
<1>2. CASE FinalizeSession(p)
  <2>1. job' \in [Processes -> Job] /\ \A q \in Processes \ {p} : job'[q] = job[q]
    BY <1>2, DoneLeaves DEF FinalizeSession
  <2>2. DeskTypeOK'
    BY <1>0, <1>2, <2>1 DEF FinalizeSession, DeskTypeOK
  <2>3. TicketThere(p)' /\ RequestThere(p)' /\ TodoThere(p)'
    BY <1>2, DoneThere DEF FinalizeSession
  <2>4. UNCHANGED <<ticket, request>>
    BY <1>2 DEF FinalizeSession
  <2> QED  BY <2>1, <2>2, <2>3, <2>4, ThereFrame
<1> QED  BY <1>1, <1>2

(* The steps that only turn one coroutine to something else.               *)
LEMMA TurnBase ==
  ASSUME BaseInv, NEW p \in Processes, NEW j \in Job, Continue(p, j), DeskTypeOK',
         UNCHANGED <<ticket, request>>,
         j.step \in {"check", "read", "write", "event"} =>
           j.ticket \in Tickets /\ ticket[j.ticket].status # None,
         j.step \in {"file", "finalize", "decide", "execute", "notify"} => j.request # None,
         j.step \in {"read", "write"} /\ j.after \in {"file", "notify"} => j.request # None,
         j.request # None => /\ j.request \in Requests
                             /\ ticket[TicketOf[j.request]].status # None,
         \A t \in j.todo : ticket[t].status # None
  PROVE  BaseInv'
<1>1. job'[p] = j /\ \A q \in Processes \ {p} : job'[q] = job[q]
  BY ContinueLeaves DEF BaseInv
<1>2. TicketThere(p)' /\ RequestThere(p)' /\ TodoThere(p)'
  BY <1>1 DEF TicketThere, RequestThere, TodoThere
<1> QED  BY <1>1, <1>2, ThereFrame

(* A decision is about a request that was filed.                           *)
LEMMA ReadDecisionBase ==
  ASSUME BaseInv, NEW p \in Handlers, NEW r \in Requests, ReadDecision(p, r)
  PROVE  BaseInv'
<1>1. PICK approve \in BOOLEAN :
        Continue(p, [Idle EXCEPT !.step = "decide", !.request = r, !.approve = approve])
  BY DEF ReadDecision
<1> DEFINE j == [Idle EXCEPT !.step = "decide", !.request = r, !.approve = approve]
<1>2. p \in Processes /\ j \in Job /\ DeskTypeOK
  BY IdleIsAJob DEF Processes, Job, Steps, BaseInv
<1>3. j.step = "decide" /\ j.request = r /\ j.todo = {} /\ r # None
  BY DeskAssumption DEF Idle, None
<1>4. job' \in [Processes -> Job]
  BY <1>1, <1>2, ContinueLeaves
<1>5. DeskTypeOK' /\ UNCHANGED <<ticket, request>>
  BY <1>2, <1>4 DEF ReadDecision, DeskTypeOK
<1>6. ticket[TicketOf[r]].status # None
  BY DEF ReadDecision, Decidable, BaseInv, There
<1> HIDE DEF j
<1> QED  BY <1>1, <1>2, <1>3, <1>5, <1>6, TurnBase DEF j

(* Recording a decision keeps the base invariant.                          *)
LEMMA DecideBase ==
  ASSUME BaseInv, NEW p \in Processes, Decide(p)
  PROVE  BaseInv'
<1> DEFINE r == job[p].request
<1>1. DeskTypeOK /\ job[p] \in Job /\ r \in Requests /\ r # None
      /\ TicketOf[r] \in Tickets /\ ticket[TicketOf[r]].status # None
      /\ TodoThere(p)
  BY DeskAssumption DEF Decide, At, BaseInv, There, RequestThere, DeskTypeOK
<1>2. AfterDecision(job[p]) \in Job
  <2>1. Change(job[p], TicketOf[r], "closed", "notify") \in Job
    BY <1>1, ChangeIsAJob DEF Statuses
  <2>2. [job[p] EXCEPT !.step = "execute"] \in Job
    BY <1>1 DEF Job, Steps
  <2> QED  BY <2>1, <2>2 DEF AfterDecision
<1>3. job' \in [Processes -> Job] /\ job'[p] = AfterDecision(job[p])
      /\ \A q \in Processes \ {p} : job'[q] = job[q]
  BY <1>1, <1>2, ContinueLeaves DEF Decide
<1>4. request' \in [Requests -> {"absent", "pending", "approved", "rejected"}]
  BY <1>1 DEF Decide, Decision, DeskTypeOK
<1>5. granted' \in [Requests -> SUBSET Processes]
  BY <1>1 DEF Decide, DeskTypeOK
<1>6. DeskTypeOK' /\ ticket' = ticket
  BY <1>1, <1>3, <1>4, <1>5 DEF Decide, DeskTypeOK
<1>7. TicketThere(p)' /\ RequestThere(p)' /\ TodoThere(p)'
  BY <1>1, <1>3, <1>6
     DEF AfterDecision, Change, TicketThere, RequestThere, TodoThere, Job
<1>8. \A q \in Requests : request'[q] # "absent" =>
        request[q] # "absent" \/ ticket[TicketOf[q]].status # None
  BY <1>1 DEF Decide, DeskTypeOK
<1> QED  BY <1>3, <1>6, <1>7, <1>8, ThereStep

(* Running an approved action keeps the base invariant.                    *)
LEMMA ExecuteBase ==
  ASSUME BaseInv, NEW p \in Processes, Execute(p)
  PROVE  BaseInv'
<1> DEFINE r == job[p].request
<1>1. DeskTypeOK /\ job[p] \in Job /\ r \in Requests /\ r # None
      /\ TicketOf[r] \in Tickets /\ ticket[TicketOf[r]].status # None
      /\ TodoThere(p)
  BY DeskAssumption DEF Execute, At, BaseInv, There, RequestThere, DeskTypeOK
<1>2. PICK to \in {"resolved", "in_progress"} :
        Continue(p, Change(job[p], TicketOf[r], to, "notify"))
  BY DEF Execute
<1> DEFINE j == Change(job[p], TicketOf[r], to, "notify")
<1>3. j \in Job
  BY <1>1, ChangeIsAJob DEF Statuses
<1>4. job' \in [Processes -> Job]
  BY <1>1, <1>2, <1>3, ContinueLeaves
<1>5. ran' \in [Requests -> [Processes -> Nat]]
  <2>1. CASE ran' = [ran EXCEPT ![r][p] = @ + 1]
    <3>1. ran \in [Requests -> [Processes -> Nat]]
      BY <1>1 DEF DeskTypeOK
    <3>2. [ran[r] EXCEPT ![p] = @ + 1] \in [Processes -> Nat]
      BY <1>1, <3>1
    <3> QED  BY <2>1, <3>1, <3>2
  <2>2. CASE ran' = ran
    BY <1>1, <2>2 DEF DeskTypeOK
  <2> QED  BY <2>1, <2>2 DEF Execute
<1>6. DeskTypeOK' /\ UNCHANGED <<ticket, request>>
  BY <1>1, <1>4, <1>5 DEF Execute, DeskTypeOK
<1>7. j.step = "read" /\ j.ticket = TicketOf[r] /\ j.request = r /\ j.todo = job[p].todo
  BY <1>1 DEF Change, Job
<1> HIDE DEF j
<1> QED  BY <1>1, <1>2, <1>3, <1>6, <1>7, TurnBase DEF j, TodoThere

(* A coroutine that is through has nothing left to work on.                *)
LEMMA LeaveBase ==
  ASSUME BaseInv, NEW p \in Processes, Notify(p) \/ RecordEscalation(p)
  PROVE  BaseInv'
<1>1. Done(p) /\ UNCHANGED <<ticket, request>>
  BY DEF Notify, RecordEscalation
<1>2. job' \in [Processes -> Job] /\ \A q \in Processes \ {p} : job'[q] = job[q]
  BY <1>1, DoneLeaves
<1>3. DeskTypeOK'
  <2>1. CASE Notify(p)
    BY <1>2, <2>1 DEF Notify, BaseInv, DeskTypeOK
  <2>2. CASE RecordEscalation(p)
    <3>1. job[p].ticket \in Tickets /\ events \in [Tickets -> Nat]
      BY <2>2 DEF RecordEscalation, At, BaseInv, There, TicketThere, DeskTypeOK
    <3>2. events' \in [Tickets -> Nat]
      BY <2>2, <3>1 DEF RecordEscalation
    <3> QED  BY <1>2, <2>2, <3>2 DEF RecordEscalation, BaseInv, DeskTypeOK
  <2> QED  BY <2>1, <2>2
<1>4. TicketThere(p)' /\ RequestThere(p)' /\ TodoThere(p)'
  BY <1>1, DoneThere
<1> QED  BY <1>1, <1>2, <1>3, <1>4, ThereFrame

(* A coroutine that takes up a ticket finds it there.                      *)
LEMMA TakeTicketBase ==
  ASSUME BaseInv, NEW p \in Handlers, NEW t \in Tickets, Intervene(p, t) \/ QueryStatus(p, t)
  PROVE  BaseInv'
<1>1. p \in Processes /\ DeskTypeOK /\ ticket[t].status # None
  BY DEF Processes, BaseInv, Intervene, QueryStatus, Waiting, None
<1>2. \E j \in Job : /\ Continue(p, j) /\ j.step \in {"read", "check"} /\ j.ticket = t
                     /\ j.request = None /\ j.todo = {} /\ j.after \in {"idle", "event"}
  <2>1. CASE Intervene(p, t)
    <3>1. PICK to \in {"resolved", "in_progress"} : Continue(p, Change(Idle, t, to, "idle"))
      BY <2>1 DEF Intervene
    <3>2. Change(Idle, t, to, "idle") \in Job
      BY IdleIsAJob, ChangeIsAJob DEF Statuses
    <3> QED  BY <3>1, <3>2 DEF Change, Idle
  <2>2. CASE QueryStatus(p, t)
    <3>1. EscalateStale(Idle, t) \in Job
      BY IdleIsAJob, ChangeIsAJob DEF EscalateStale, Statuses
    <3>2. [Idle EXCEPT !.step = "check", !.ticket = t] \in Job
      BY IdleIsAJob DEF Job, Steps
    <3> QED  BY <2>2, <3>1, <3>2 DEF QueryStatus, EscalateStale, Change, Idle
  <2> QED  BY <2>1, <2>2
<1>3. PICK j \in Job : /\ Continue(p, j) /\ j.step \in {"read", "check"} /\ j.ticket = t
                       /\ j.request = None /\ j.todo = {} /\ j.after \in {"idle", "event"}
  BY <1>2
<1>4. job' \in [Processes -> Job]
  BY <1>1, <1>3, ContinueLeaves
<1>5. DeskTypeOK' /\ UNCHANGED <<ticket, request>>
  BY <1>1, <1>4 DEF Intervene, QueryStatus, DeskTypeOK
<1> QED  BY <1>1, <1>3, <1>5, TurnBase

(* The sweep takes up tickets that are there.                              *)
LEMMA SweepBase ==
  ASSUME BaseInv, Sweep \/ SweepNext
  PROVE  BaseInv'
<1> DEFINE p == Sweeper
<1>0. p \in Processes /\ DeskTypeOK /\ job[p] \in Job
  BY DEF Processes, BaseInv, DeskTypeOK
<1>1. CASE Sweep
  <2> DEFINE j == [Idle EXCEPT !.step = "sweep", !.todo = StaleTickets]
  <2>1. j \in Job
    BY IdleIsAJob DEF Job, Steps, StaleTickets
  <2>2. j.step = "sweep" /\ j.request = None /\ j.todo = StaleTickets
    BY DEF Idle
  <2>3. \A t \in StaleTickets : ticket[t].status # None
    BY DEF StaleTickets, Waiting, None
  <2>4. job' \in [Processes -> Job] /\ Continue(p, j)
    BY <1>0, <1>1, <2>1, ContinueLeaves DEF Sweep
  <2>5. DeskTypeOK' /\ UNCHANGED <<ticket, request>>
    BY <1>0, <1>1, <2>4 DEF Sweep, DeskTypeOK
  <2> HIDE DEF j
  <2> QED  BY <1>0, <2>1, <2>2, <2>3, <2>4, <2>5, TurnBase
<1>2. CASE SweepNext
  <2>1. PICK t \in job[p].todo :
          Continue(p, [job[p] EXCEPT !.step = "check", !.ticket = t, !.todo = @ \ {t}])
    BY <1>2 DEF SweepNext
  <2> DEFINE j == [job[p] EXCEPT !.step = "check", !.ticket = t, !.todo = @ \ {t}]
  <2>2. t \in Tickets /\ RequestThere(p) /\ \A u \in job[p].todo : ticket[u].status # None
    BY <1>0 DEF Job, BaseInv, There, TodoThere
  <2>3. j \in Job
    BY <1>0, <2>2 DEF Job, Steps
  <2>4. j.step = "check" /\ j.ticket = t /\ j.request = job[p].request /\ j.todo \subseteq job[p].todo
    BY <1>0 DEF Job
  <2>5. job' \in [Processes -> Job]
    BY <1>0, <2>1, <2>3, ContinueLeaves
  <2>6. DeskTypeOK' /\ UNCHANGED <<ticket, request>>
    BY <1>0, <1>2, <2>5 DEF SweepNext, DeskTypeOK
  <2> HIDE DEF j
  <2> QED  BY <1>0, <2>1, <2>2, <2>3, <2>4, <2>6, TurnBase DEF j, RequestThere
<1> QED  BY <1>1, <1>2

(* The check of a stale ticket keeps the base invariant.                   *)
LEMMA CheckStaleBase ==
  ASSUME BaseInv, NEW p \in Processes, CheckStale(p)
  PROVE  BaseInv'
<1> DEFINE t == job[p].ticket
           j == EscalateStale(job[p], t)
<1>0. /\ DeskTypeOK /\ job[p] \in Job /\ t \in Tickets /\ ticket[t].status # None
      /\ RequestThere(p) /\ TodoThere(p) /\ UNCHANGED <<ticket, request>>
  BY DEF CheckStale, At, BaseInv, There, TicketThere, DeskTypeOK
<1>1. CASE Continue(p, j)
  <2>1. j \in Job
    BY <1>0, ChangeIsAJob DEF EscalateStale, Statuses
  <2>2. /\ j.step = "read" /\ j.after = "event" /\ j.ticket = t
        /\ j.request = job[p].request /\ j.todo = job[p].todo
    BY <1>0 DEF EscalateStale, Change, Job
  <2>3. job' \in [Processes -> Job]
    BY <1>0, <1>1, <2>1, ContinueLeaves
  <2>4. DeskTypeOK'
    BY <1>0, <2>3 DEF CheckStale, DeskTypeOK
  <2> HIDE DEF j
  <2> QED  BY <1>0, <1>1, <2>1, <2>2, <2>4, TurnBase DEF RequestThere, TodoThere
<1>2. CASE Done(p)
  <2>1. job' \in [Processes -> Job] /\ \A q \in Processes \ {p} : job'[q] = job[q]
    BY <1>2, DoneLeaves
  <2>2. DeskTypeOK'
    BY <1>0, <2>1 DEF CheckStale, DeskTypeOK
  <2>3. TicketThere(p)' /\ RequestThere(p)' /\ TodoThere(p)'
    BY <1>0, <1>2, DoneThere
  <2> QED  BY <1>0, <2>1, <2>2, <2>3, ThereFrame
<1> QED  BY <1>1, <1>2 DEF CheckStale

(* Reading a row for an update keeps the base invariant.                   *)
LEMMA ReadTicketBase ==
  ASSUME BaseInv, NEW p \in Processes, ReadTicket(p)
  PROVE  BaseInv'
<1> DEFINE t == job[p].ticket
           j == [job[p] EXCEPT !.step = "write", !.seen = ticket[t]]
<1>0. /\ DeskTypeOK /\ job[p] \in Job /\ t \in Tickets /\ ticket[t].status # None
      /\ RequestThere(p) /\ TodoThere(p) /\ UNCHANGED <<ticket, request>>
  BY DEF ReadTicket, At, BaseInv, There, TicketThere, DeskTypeOK
<1>1. j \in Job
  BY <1>0 DEF Job, Steps, DeskTypeOK
<1>2. /\ job[p].step = "read" /\ j.step = "write" /\ j.after = job[p].after
      /\ j.ticket = t /\ j.request = job[p].request /\ j.todo = job[p].todo
  BY <1>0 DEF ReadTicket, At, Job
<1>3. Continue(p, j)
  BY DEF ReadTicket
<1>4. job' \in [Processes -> Job]
  BY <1>0, <1>1, <1>3, ContinueLeaves
<1>5. DeskTypeOK'
  BY <1>0, <1>4 DEF ReadTicket, DeskTypeOK
<1> HIDE DEF j
<1> QED  BY <1>0, <1>1, <1>2, <1>3, <1>5, TurnBase DEF RequestThere, TodoThere

(* The transaction that writes keeps every ticket and every flag.          *)
LEMMA WriteTicketKeeps ==
  ASSUME BaseInv, NEW p \in Processes, WriteTicket(p)
  PROVE  /\ job[p].ticket \in Tickets /\ ticket' \in [Tickets -> Row]
         /\ ticket'[job[p].ticket] = Updated(job[p].seen, job[p].to, ticket[job[p].ticket])
         /\ \A t \in Tickets \ {job[p].ticket} : ticket'[t] = ticket[t]
         /\ \A t \in Tickets : ticket[t].status # None => ticket'[t].status # None
         /\ \A t \in Tickets : ticket[t].escalated => ticket'[t].escalated
<1>1. /\ job[p].ticket \in Tickets /\ job[p].seen \in Row /\ job[p].to \in Statuses
      /\ ticket \in [Tickets -> Row]
  BY DEF WriteTicket, At, BaseInv, There, TicketThere, DeskTypeOK, Job
<1> DEFINE t == job[p].ticket
           new == Updated(job[p].seen, job[p].to, ticket[t])
<1>2. new \in Row /\ (ticket[t].status # None => new.status # None)
      /\ (ticket[t].escalated => new.escalated)
  BY <1>1, RowTypes
<1>3. ticket' = [ticket EXCEPT ![t] = new]
  BY DEF WriteTicket
<1> HIDE DEF new
<1>4. ticket' \in [Tickets -> Row] /\ ticket'[t] = new
      /\ \A u \in Tickets \ {t} : ticket'[u] = ticket[u]
  BY <1>1, <1>2, <1>3
<1> QED  BY <1>1, <1>2, <1>4 DEF new

(* Writing a row keeps the base invariant.                                 *)
LEMMA WriteTicketBase ==
  ASSUME BaseInv, NEW p \in Processes, WriteTicket(p)
  PROVE  BaseInv'
<1> DEFINE j == [job[p] EXCEPT !.step = job[p].after, !.seen = NoRow]
<1>0. /\ DeskTypeOK /\ job[p] \in Job /\ request' = request
      /\ TicketThere(p) /\ RequestThere(p) /\ TodoThere(p) /\ job[p].step = "write"
  BY DEF WriteTicket, At, BaseInv, There, DeskTypeOK
<1>1. /\ ticket' \in [Tickets -> Row] /\ job[p].ticket \in Tickets
      /\ \A t \in Tickets : ticket[t].status # None => ticket'[t].status # None
  BY WriteTicketKeeps
<1>2. CASE job[p].after = "idle" /\ Done(p)
  <2>1. job' \in [Processes -> Job] /\ \A q \in Processes \ {p} : job'[q] = job[q]
    BY <1>2, DoneLeaves
  <2>2. DeskTypeOK'
    BY <1>0, <1>1, <2>1 DEF WriteTicket, DeskTypeOK
  <2>3. TicketThere(p)' /\ RequestThere(p)' /\ TodoThere(p)'
    BY <1>1, <1>2, DoneThere
  <2> QED  BY <1>0, <1>1, <2>1, <2>2, <2>3, ThereStep
<1>3. CASE job[p].after # "idle" /\ Continue(p, j)
  <2>1. j \in Job
    BY <1>0, IdleIsAJob DEF Job, Idle, Steps
  <2>2. job' \in [Processes -> Job] /\ job'[p] = j /\ \A q \in Processes \ {p} : job'[q] = job[q]
    BY <1>0, <1>3, <2>1, ContinueLeaves
  <2>3. DeskTypeOK'
    BY <1>0, <1>1, <2>2 DEF WriteTicket, DeskTypeOK
  <2>4. /\ j.step = job[p].after /\ j.ticket = job[p].ticket
        /\ j.request = job[p].request /\ j.todo = job[p].todo
    BY <1>0 DEF Job
  <2> HIDE DEF j
  <2>5. TicketThere(p)' /\ RequestThere(p)' /\ TodoThere(p)'
    <3>1. /\ job'[p].step = job[p].after /\ job'[p].ticket = job[p].ticket
          /\ job'[p].request = job[p].request /\ job'[p].todo = job[p].todo
      BY <2>2, <2>4
    <3>2. job[p].after \in {"file", "notify", "event"} /\ job[p].todo \subseteq Tickets
      BY <1>0, <1>3 DEF Job
    <3>3. TicketThere(p)' /\ TodoThere(p)'
      BY <1>0, <1>1, <3>1, <3>2 DEF TicketThere, TodoThere
    <3>4. RequestThere(p)'
      BY <1>0, <1>1, <3>1, <3>2, DeskAssumption DEF RequestThere
    <3> QED  BY <3>3, <3>4
  <2> QED  BY <1>0, <1>1, <2>2, <2>3, <2>5, ThereStep
<1> QED  BY <1>2, <1>3 DEF WriteTicket

(* A coroutine that fails drops what it worked on.                         *)
LEMMA FailBase ==
  ASSUME BaseInv, NEW p \in Processes, Fail(p)
  PROVE  BaseInv'
<1>1. DeskTypeOK /\ Continue(p, Idle) /\ UNCHANGED <<ticket, request>>
  BY DEF Fail, BaseInv
<1>2. job' \in [Processes -> Job]
  BY <1>1, IdleIsAJob, ContinueLeaves
<1>3. DeskTypeOK'
  BY <1>1, <1>2 DEF Fail, DeskTypeOK
<1>4. Idle.step = "idle" /\ Idle.request = None /\ Idle.todo = {}
  BY DEF Idle
<1> QED  BY <1>1, <1>3, <1>4, IdleIsAJob, TurnBase

(* Every step of a coroutine under way keeps the base invariant.           *)
LEMMA AdvanceBase ==
  ASSUME BaseInv, NEW p \in Processes, Advance(p)
  PROVE  BaseInv'
BY ReadTicketBase, WriteTicketBase, FilingBase, DecideBase, ExecuteBase, LeaveBase,
   CheckStaleBase DEF Advance

(* Every step keeps the base invariant.                                    *)
LEMMA BaseNext == BaseInv /\ [Next]_vars => BaseInv'
<1> SUFFICES ASSUME BaseInv, [Next]_vars PROVE BaseInv'
  OBVIOUS
<1>1. ASSUME NEW t \in Tickets, CreateTicket(t) PROVE BaseInv'
  BY <1>1, CreateTicketBase
<1>2. ASSUME NEW p \in Handlers, Begin(p) PROVE BaseInv'
  BY <1>2, RequestApprovalBase, ReadDecisionBase, TakeTicketBase DEF Begin
<1>3. ASSUME NEW p \in Handlers, Advance(p) PROVE BaseInv'
  BY <1>3, AdvanceBase DEF Processes
<1>4. ASSUME SweepStep PROVE BaseInv'
  BY <1>4, SweepBase, AdvanceBase DEF SweepStep, Processes
<1>5. ASSUME NEW p \in Processes, Fail(p) PROVE BaseInv'
  BY <1>5, FailBase
<1>6. ASSUME Tick PROVE BaseInv'
  BY <1>6, TickBase
<1>7. ASSUME UNCHANGED vars PROVE BaseInv'
  BY <1>7 DEF vars, BaseInv, DeskTypeOK, There, TicketThere, RequestThere, TodoThere
<1> QED  BY <1>1, <1>2, <1>3, <1>4, <1>5, <1>6, <1>7 DEF Next

(* The base invariant holds in every reachable state.                      *)
LEMMA BaseHolds == Spec => []BaseInv
BY BaseInit, BaseNext, PTL DEF Spec

(* The rows, the clocks and the progress of every coroutine stay within    *)
(* their types: no step reads a row that was never created, no clock       *)
(* passes its bound (db/repos.py, workflows/approval.py, escalation.py).   *)
THEOREM DeskTypeCorrect == Spec => []DeskTypeOK
<1>1. BaseInv => DeskTypeOK
  BY DEF BaseInv
<1> QED  BY <1>1, BaseHolds, PTL

-----------------------------------------------------------------------------
\* The safety properties.

(* The steps of p that neither begin nor end the update of a row.          *)
Aside(p) ==
  \/ \E r \in Requests : RequestApproval(p, r) \/ ReadDecision(p, r)
  \/ \E t \in Tickets : Intervene(p, t) \/ QueryStatus(p, t)
  \/ FileRequest(p) \/ FinalizeSession(p) \/ Decide(p) \/ Execute(p)
  \/ Notify(p) \/ CheckStale(p) \/ RecordEscalation(p) \/ Fail(p)
  \/ p = Sweeper /\ (Sweep \/ SweepNext)

(* The steps, by what they do to the row of a ticket.                      *)
LEMMA NextCases ==
  ASSUME Next
  PROVE  \/ \E t \in Tickets : CreateTicket(t)
         \/ \E p \in Processes : Aside(p) \/ ReadTicket(p) \/ WriteTicket(p)
         \/ Tick
BY DEF Next, Begin, Advance, SweepStep, Aside, Processes

(* After such a step p asks for no update that starts a clock, and for one *)
(* that leads to an escalation event only to escalate.                     *)
Reasonable(j) ==
  /\ j.step \notin {"write", "event"}
  /\ j.step = "read" => j.to # "pending" /\ (j.after = "event" => j.to = "escalated")

(* So is an update that starts no clock and records only an escalation.    *)
LEMMA ReasonableChange ==
  ASSUME NEW j \in Job, NEW t, NEW to, NEW after,
         to # "pending" /\ (after = "event" => to = "escalated")
  PROVE  Reasonable(Change(j, t, to, after))
BY DEF Reasonable, Change, Job

(* Who goes on to a reasonable job leaves the jobs of the others.          *)
LEMMA GoesOn ==
  ASSUME DeskTypeOK, NEW p \in Processes, NEW j, Continue(p, j), Reasonable(j)
  PROVE  Reasonable(job'[p]) /\ \A q \in Processes \ {p} : job'[q] = job[q]
BY DEF DeskTypeOK, Continue

(* A step that touches no row asks for reasonable updates only.            *)
LEMMA AsideJob ==
  ASSUME BaseInv, NEW p \in Processes, Aside(p)
  PROVE  Reasonable(job'[p]) /\ \A q \in Processes \ {p} : job'[q] = job[q]
<1> DEFINE Goal == Reasonable(job'[p]) /\ \A q \in Processes \ {p} : job'[q] = job[q]
<1>0. DeskTypeOK /\ job[p] \in Job /\ Idle \in Job
  BY IdleIsAJob DEF BaseInv, DeskTypeOK
<1>1. ASSUME NEW r \in Requests, RequestApproval(p, r) PROVE Goal
  <2> DEFINE j == [Idle EXCEPT !.request = r, !.ticket = TicketOf[r]]
  <2>1. j \in Job
    BY <1>0, DeskAssumption DEF Job
  <2>2. Reasonable([j EXCEPT !.step = "file"])
    BY DEF Idle, Reasonable
  <2>3. Reasonable(Change(j, TicketOf[r], "waiting_approval", "file"))
    BY <2>1, ReasonableChange
  <2>4. \/ Continue(p, [j EXCEPT !.step = "file"])
        \/ Continue(p, Change(j, TicketOf[r], "waiting_approval", "file"))
    BY <1>1 DEF RequestApproval
  <2> HIDE DEF j
  <2> QED  BY <1>0, <2>2, <2>3, <2>4, GoesOn
<1>2. ASSUME NEW r \in Requests, ReadDecision(p, r) PROVE Goal
  <2>1. PICK approve \in BOOLEAN :
          Continue(p, [Idle EXCEPT !.step = "decide", !.request = r, !.approve = approve])
    BY <1>2 DEF ReadDecision
  <2>2. Reasonable([Idle EXCEPT !.step = "decide", !.request = r, !.approve = approve])
    BY DEF Idle, Reasonable
  <2> QED  BY <1>0, <2>1, <2>2, GoesOn
<1>3. ASSUME NEW t \in Tickets, Intervene(p, t) PROVE Goal
  <2>1. PICK to \in {"resolved", "in_progress"} : Continue(p, Change(Idle, t, to, "idle"))
    BY <1>3 DEF Intervene
  <2> QED  BY <1>0, <2>1, ReasonableChange, GoesOn
<1>4. ASSUME NEW j \in Job, NEW t, Continue(p, EscalateStale(j, t)) PROVE Goal
  <2>1. Reasonable(EscalateStale(j, t))
    BY ReasonableChange DEF EscalateStale
  <2> QED  BY <1>0, <1>4, <2>1, GoesOn
<1>5. ASSUME NEW t \in Tickets, QueryStatus(p, t) PROVE Goal
  <2>1. Reasonable([Idle EXCEPT !.step = "check", !.ticket = t])
    BY DEF Idle, Reasonable
  <2>2. Continue(p, EscalateStale(Idle, t)) \/ Continue(p, [Idle EXCEPT !.step = "check", !.ticket = t])
    BY <1>5 DEF QueryStatus
  <2> QED  BY <1>0, <1>4, <2>1, <2>2, GoesOn
<1>6. CASE FileRequest(p)
  <2>1. Reasonable([job[p] EXCEPT !.step = "finalize"])
    BY <1>0 DEF Reasonable, Job
  <2> QED  BY <1>0, <1>6, <2>1, GoesOn DEF FileRequest, Go
<1>7. CASE Done(p)
  BY <1>7, DoneLeaves DEF Reasonable
<1>8. CASE Decide(p)
  <2>1. Reasonable([job[p] EXCEPT !.step = "execute"])
    BY <1>0 DEF Reasonable, Job
  <2>2. Reasonable(AfterDecision(job[p]))
    BY <1>0, <2>1, ReasonableChange DEF AfterDecision
  <2> QED  BY <1>0, <1>8, <2>2, GoesOn DEF Decide
<1>9. CASE Execute(p)
  <2>1. PICK to \in {"resolved", "in_progress"} :
          Continue(p, Change(job[p], TicketOf[job[p].request], to, "notify"))
    BY <1>9 DEF Execute
  <2> QED  BY <1>0, <2>1, ReasonableChange, GoesOn
<1>10. CASE CheckStale(p)
  BY <1>0, <1>4, <1>7, <1>10 DEF CheckStale
<1>11. CASE Fail(p)
  <2>1. Reasonable(Idle)
    BY DEF Idle, Reasonable
  <2> QED  BY <1>0, <1>11, <2>1, GoesOn DEF Fail
<1>12. CASE p = Sweeper /\ Sweep
  <2>1. Reasonable([Idle EXCEPT !.step = "sweep", !.todo = StaleTickets])
    BY DEF Idle, Reasonable
  <2> QED  BY <1>0, <1>12, <2>1, GoesOn DEF Sweep
<1>13. CASE p = Sweeper /\ SweepNext
  <2>1. PICK t \in job[p].todo :
          Continue(p, [job[p] EXCEPT !.step = "check", !.ticket = t, !.todo = @ \ {t}])
    BY <1>13 DEF SweepNext
  <2>2. Reasonable([job[p] EXCEPT !.step = "check", !.ticket = t, !.todo = @ \ {t}])
    BY <1>0 DEF Reasonable, Job
  <2> QED  BY <1>0, <2>1, <2>2, GoesOn
<1> QED
  BY <1>1, <1>2, <1>3, <1>5, <1>6, <1>7, <1>8, <1>9, <1>10, <1>11, <1>12, <1>13
     DEF Aside, FinalizeSession, Notify, RecordEscalation

(* Creating a ticket, or a step aside, leaves every row that exists alone, *)
(* and starts a clock only on a ticket that waits.                         *)
LEMMA RowsKept ==
  ASSUME BaseInv, (\E t \in Tickets : CreateTicket(t)) \/ (\E p \in Processes : Aside(p))
  PROVE  /\ \A t \in Tickets : ticket[t].status # None => ticket'[t] = ticket[t]
         /\ ClockMeansWaiting => ClockMeansWaiting'
<1>0. ticket \in [Tickets -> Row]
  BY DEF BaseInv, DeskTypeOK
<1>1. \/ UNCHANGED ticket
      \/ \E t \in Tickets, status \in Statuses : /\ ticket[t].status = None
                                                 /\ ticket' = [ticket EXCEPT ![t] = Created(status)]
  <2>1. ASSUME NEW t \in Tickets, CreateTicket(t)
        PROVE  \E status \in Statuses : /\ ticket[t].status = None
                                        /\ ticket' = [ticket EXCEPT ![t] = Created(status)]
    BY <2>1 DEF CreateTicket, Statuses
  <2>2. ASSUME NEW p \in Processes, NEW r \in Requests, RequestApproval(p, r)
        PROVE  \/ UNCHANGED ticket
               \/ \E t \in Tickets, status \in Statuses :
                    ticket[t].status = None /\ ticket' = [ticket EXCEPT ![t] = Created(status)]
    BY <2>2, DeskAssumption DEF RequestApproval, Statuses
  <2>3. ASSUME NEW p \in Processes, Aside(p), ~\E r \in Requests : RequestApproval(p, r)
        PROVE  UNCHANGED ticket
    BY <2>3 DEF Aside, ReadDecision, Intervene, QueryStatus, FileRequest, FinalizeSession, Decide,
                Execute, Notify, CheckStale, RecordEscalation, Fail, Sweep, SweepNext
  <2> QED  BY <2>1, <2>2, <2>3
<1>2. CASE UNCHANGED ticket
  BY <1>2 DEF ClockMeansWaiting
<1>3. ASSUME NEW t \in Tickets, NEW status \in Statuses, ticket[t].status = None,
             ticket' = [ticket EXCEPT ![t] = Created(status)]
      PROVE  /\ \A u \in Tickets : ticket[u].status # None => ticket'[u] = ticket[u]
             /\ ClockMeansWaiting => ClockMeansWaiting'
  <2>1. ticket'[t] = Created(status) /\ \A u \in Tickets \ {t} : ticket'[u] = ticket[u]
    BY <1>0, <1>3
  <2>2. Created(status).clock # Off => Created(status).status \in Waiting
    BY DEF Created, Waiting
  <2> QED  BY <1>3, <2>1, <2>2 DEF ClockMeansWaiting
<1> QED  BY <1>1, <1>2, <1>3

-----------------------------------------------------------------------------
(* Clocks.                                                                 *)

(* No update starts a clock, and a clock that an update saw stopped stays  *)
(* stopped until the update writes.                                        *)
ClockKnown(p) ==
  /\ job[p].step \in {"read", "write"} => job[p].to # "pending"
  /\ job[p].step = "write" /\ job[p].seen.clock = Off => ticket[job[p].ticket].clock = Off

ClockInv == ClockMeansWaiting /\ \A p \in Processes : ClockKnown(p)

(* A step of p keeps it when it starts no clock that others saw stopped.   *)
LEMMA ClockStep ==
  ASSUME BaseInv, ClockInv, NEW p \in Processes,
         \A q \in Processes \ {p} : job'[q] = job[q],
         \A t \in Tickets : ticket[t].status # None /\ ticket[t].clock = Off =>
           ticket'[t].clock = Off,
         ClockMeansWaiting', ClockKnown(p)'
  PROVE  ClockInv'
<1>1. ASSUME NEW q \in Processes \ {p} PROVE ClockKnown(q)'
  <2>1. job'[q] = job[q] /\ ClockKnown(q) /\ TicketThere(q)
    BY DEF BaseInv, There, ClockInv
  <2> QED  BY <2>1 DEF ClockKnown, TicketThere
<1> QED  BY <1>1 DEF ClockInv

(* Writing a row keeps the clocks right, whatever was seen of it.          *)
LEMMA ClockWrite ==
  ASSUME BaseInv, ClockInv, NEW p \in Processes, WriteTicket(p)
  PROVE  ClockInv'
<1> DEFINE t == job[p].ticket
           seen == job[p].seen
           to == job[p].to
           now == ticket[t]
<1>1. /\ t \in Tickets /\ ticket'[t] = Updated(seen, to, now)
      /\ \A u \in Tickets \ {t} : ticket'[u] = ticket[u]
  BY WriteTicketKeeps
<1>2. /\ to # "pending" /\ (seen.clock = Off => now.clock = Off)
      /\ (now.clock # Off => now.status \in Waiting)
  BY <1>1 DEF WriteTicket, At, ClockInv, ClockKnown, ClockMeansWaiting
<1> HIDE DEF t, seen, to, now
<1>3. Updated(seen, to, now).clock \in {Off, now.clock}
  BY <1>2 DEF Updated, ClockAfter
<1>4. Updated(seen, to, now).clock # Off => Updated(seen, to, now).status \in Waiting
  BY <1>2 DEF Updated, ClockAfter
<1>5. ClockMeansWaiting'
  BY <1>1, <1>4 DEF ClockInv, ClockMeansWaiting
<1>6. \A u \in Tickets : ticket[u].status # None /\ ticket[u].clock = Off => ticket'[u].clock = Off
  BY <1>1, <1>3 DEF now
<1>7. ClockKnown(p)' /\ \A q \in Processes \ {p} : job'[q] = job[q]
  <2>0. DeskTypeOK /\ job[p] \in Job
    BY DEF BaseInv, DeskTypeOK
  <2>1. CASE Done(p)
    BY <2>1, DoneLeaves DEF ClockKnown
  <2>2. CASE job[p].after # "idle" /\ Continue(p, [job[p] EXCEPT !.step = job[p].after, !.seen = NoRow])
    BY <2>0, <2>2 DEF DeskTypeOK, Continue, ClockKnown, Job
  <2> QED  BY <2>1, <2>2 DEF WriteTicket
<1> QED  BY <1>5, <1>6, <1>7, ClockStep

(* Time keeps the clocks right.                                            *)
LEMMA ClockTick ==
  ASSUME BaseInv, ClockInv, Tick
  PROVE  ClockInv'
<1>1. \A t \in Tickets : /\ ticket'[t].status = ticket[t].status
                         /\ ticket[t].clock = Off <=> ticket'[t].clock = Off
  <2> TAKE t \in Tickets
  <2>0. ticket[t] \in Row /\ MaxAge \in Nat
    BY DeskAssumption DEF BaseInv, DeskTypeOK
  <2>1. CASE ticket[t].clock \in 0..(MaxAge - 1)
    <3>1. ticket'[t] = [ticket[t] EXCEPT !.clock = @ + 1]
      BY <2>1 DEF Tick
    <3>2. ticket'[t].clock = ticket[t].clock + 1 /\ ticket'[t].status = ticket[t].status
      BY <2>0, <3>1 DEF Row
    <3> QED  BY <2>0, <2>1, <3>2 DEF Off
  <2>2. CASE ticket[t].clock \notin 0..(MaxAge - 1)
    BY <2>2 DEF Tick
  <2> QED  BY <2>1, <2>2
<1>2. ClockMeansWaiting'
  BY <1>1 DEF ClockInv, ClockMeansWaiting
<1>3. ASSUME NEW p \in Processes PROVE ClockKnown(p)'
  <2>1. job' = job /\ ClockKnown(p) /\ TicketThere(p)
    BY DEF Tick, BaseInv, There, ClockInv
  <2> QED  BY <1>1, <2>1 DEF ClockKnown, TicketThere
<1> QED  BY <1>2, <1>3 DEF ClockInv

(* Every step keeps the clocks right.                                      *)
LEMMA ClockNext == BaseInv /\ ClockInv /\ [Next]_vars => ClockInv'
<1> SUFFICES ASSUME BaseInv, ClockInv, [Next]_vars PROVE ClockInv'
  OBVIOUS
<1>1. ASSUME NEW t \in Tickets, CreateTicket(t) PROVE ClockInv'
  <2>1. /\ \A u \in Tickets : ticket[u].status # None => ticket'[u] = ticket[u]
        /\ ClockMeansWaiting' /\ job' = job
    BY <1>1, RowsKept DEF ClockInv, CreateTicket
  <2>2. ASSUME NEW p \in Processes PROVE ClockKnown(p)'
    BY <2>1 DEF ClockInv, ClockKnown, BaseInv, There, TicketThere
  <2> QED  BY <2>1, <2>2 DEF ClockInv
<1>2. ASSUME NEW p \in Processes, Aside(p) PROVE ClockInv'
  <2>1. /\ \A u \in Tickets : ticket[u].status # None => ticket'[u] = ticket[u]
        /\ ClockMeansWaiting'
    BY <1>2, RowsKept DEF ClockInv
  <2>2. Reasonable(job'[p]) /\ \A q \in Processes \ {p} : job'[q] = job[q]
    BY <1>2, AsideJob
  <2>3. ClockKnown(p)'
    BY <2>2 DEF ClockKnown, Reasonable
  <2> QED  BY <2>1, <2>2, <2>3, ClockStep
<1>3. ASSUME NEW p \in Processes, ReadTicket(p) PROVE ClockInv'
  <2>1. job[p].step = "read" /\ job[p] \in Job /\ job \in [Processes -> Job] /\ ticket' = ticket
    BY <1>3 DEF ReadTicket, At, BaseInv, DeskTypeOK
  <2>2. /\ job'[p] = [job[p] EXCEPT !.step = "write", !.seen = ticket[job[p].ticket]]
        /\ \A q \in Processes \ {p} : job'[q] = job[q]
    BY <1>3, <2>1 DEF ReadTicket, Continue
  <2>3. /\ job'[p].seen = ticket[job[p].ticket] /\ job'[p].ticket = job[p].ticket
        /\ job'[p].to = job[p].to
    BY <2>1, <2>2 DEF Job
  <2>4. ClockKnown(p)'
    BY <2>1, <2>3 DEF ClockInv, ClockKnown
  <2> QED  BY <2>1, <2>2, <2>4, ClockStep DEF ClockInv, ClockMeansWaiting
<1>4. ASSUME NEW p \in Processes, WriteTicket(p) PROVE ClockInv'
  BY <1>4, ClockWrite
<1>5. CASE Tick
  BY <1>5, ClockTick
<1>6. CASE UNCHANGED vars
  BY <1>6 DEF vars, ClockInv, ClockMeansWaiting, ClockKnown
<1> QED  BY <1>1, <1>2, <1>3, <1>4, <1>5, <1>6, NextCases

(* A ticket whose ageing clock runs is waiting, in whatever order the      *)
(* column writes of concurrent updates land (db/repos.py:188-193).         *)
THEOREM ClockStops == Spec => []ClockMeansWaiting
<1>1. Init => ClockInv
  BY DEF Init, ClockInv, ClockMeansWaiting, ClockKnown, NoRow, Idle
<1>2. ClockInv => ClockMeansWaiting
  BY DEF ClockInv
<1> QED  BY <1>1, <1>2, BaseHolds, ClockNext, PTL DEF Spec

-----------------------------------------------------------------------------
(* Escalations.                                                            *)

(* An update that will be followed by an escalation event escalates, and a *)
(* flag that an update saw set is set.                                     *)
FlagKnown(p) ==
  /\ job[p].step \in {"read", "write"} /\ job[p].after = "event" => job[p].to = "escalated"
  /\ job[p].step = "write" /\ job[p].seen.escalated => ticket[job[p].ticket].escalated
  /\ job[p].step = "event" => ticket[job[p].ticket].escalated

Flagged == \A t \in Tickets : events[t] > 0 => ticket[t].status # None /\ ticket[t].escalated

FlagInv == Flagged /\ \A p \in Processes : FlagKnown(p)

(* An update to "escalated" sets the flag that it saw unset.               *)
LEMMA EscalationFlags ==
  ASSUME NEW seen \in Row, NEW now \in Row, ~seen.escalated
  PROVE  Updated(seen, "escalated", now).escalated
BY DEF Updated, Row

(* A step that keeps set flags, and what its coroutine saw, keeps FlagInv. *)
LEMMA FlagStep ==
  ASSUME BaseInv, FlagInv, NEW p \in Processes,
         \A q \in Processes \ {p} : job'[q] = job[q],
         \A t \in Tickets : ticket[t].status # None /\ ticket[t].escalated =>
           ticket'[t].status # None /\ ticket'[t].escalated,
         UNCHANGED events, FlagKnown(p)'
  PROVE  FlagInv'
<1>1. ASSUME NEW q \in Processes \ {p} PROVE FlagKnown(q)'
  <2>1. job'[q] = job[q] /\ FlagKnown(q) /\ TicketThere(q)
    BY DEF BaseInv, There, FlagInv
  <2> QED  BY <2>1 DEF FlagKnown, TicketThere
<1>2. Flagged'
  BY DEF FlagInv, Flagged
<1> QED  BY <1>1, <1>2 DEF FlagInv

(* An update never takes back a recorded escalation.                       *)
LEMMA FlagWrite ==
  ASSUME BaseInv, FlagInv, NEW p \in Processes, WriteTicket(p)
  PROVE  FlagInv'
<1> DEFINE t == job[p].ticket
<1>0. job[p] \in Job /\ DeskTypeOK /\ FlagKnown(p) /\ job[p].step = "write" /\ UNCHANGED events
  BY DEF WriteTicket, At, BaseInv, DeskTypeOK, FlagInv
<1>1. /\ t \in Tickets /\ ticket'[t] = Updated(job[p].seen, job[p].to, ticket[t])
      /\ \A u \in Tickets : ticket[u].status # None => ticket'[u].status # None
      /\ \A u \in Tickets : ticket[u].escalated => ticket'[u].escalated
  BY WriteTicketKeeps
<1>2. job[p].after = "event" => ticket'[t].escalated
  <2>1. job[p].after = "event" => job[p].to = "escalated"
    BY <1>0 DEF FlagKnown
  <2>2. job[p].seen.escalated => ticket[t].escalated
    BY <1>0 DEF FlagKnown
  <2>3. job[p].to = "escalated" /\ ~job[p].seen.escalated => ticket'[t].escalated
    BY <1>0, <1>1, EscalationFlags DEF Job, DeskTypeOK
  <2> QED  BY <1>1, <2>1, <2>2, <2>3
<1>3. FlagKnown(p)' /\ \A q \in Processes \ {p} : job'[q] = job[q]
  <2>1. CASE Done(p)
    BY <2>1, DoneLeaves DEF FlagKnown
  <2>2. CASE job[p].after # "idle" /\ Continue(p, [job[p] EXCEPT !.step = job[p].after, !.seen = NoRow])
    <3>1. /\ job'[p] = [job[p] EXCEPT !.step = job[p].after, !.seen = NoRow]
          /\ \A q \in Processes \ {p} : job'[q] = job[q]
      BY <1>0, <2>2 DEF DeskTypeOK, Continue
    <3>2. job'[p].step = job[p].after /\ job'[p].ticket = t /\ job[p].after \notin {"read", "write"}
      BY <1>0, <3>1 DEF Job
    <3> QED  BY <1>2, <3>1, <3>2 DEF FlagKnown
  <2> QED  BY <2>1, <2>2 DEF WriteTicket
<1> QED  BY <1>0, <1>1, <1>3, FlagStep

(* Recording an escalation sets its flag.                                  *)
LEMMA FlagRecord ==
  ASSUME BaseInv, FlagInv, NEW p \in Processes, RecordEscalation(p)
  PROVE  FlagInv'
<1>1. /\ job[p].ticket \in Tickets /\ ticket[job[p].ticket].status # None
      /\ ticket[job[p].ticket].escalated /\ events \in [Tickets -> Nat] /\ ticket' = ticket
  BY DEF RecordEscalation, At, BaseInv, DeskTypeOK, There, TicketThere, FlagInv, FlagKnown
<1>2. Flagged'
  BY <1>1 DEF RecordEscalation, FlagInv, Flagged
<1>3. Reasonable(job'[p]) /\ \A q \in Processes \ {p} : job'[q] = job[q]
  BY AsideJob DEF Aside
<1>4. ASSUME NEW q \in Processes PROVE FlagKnown(q)'
  BY <1>1, <1>3 DEF FlagInv, FlagKnown, Reasonable
<1> QED  BY <1>2, <1>4 DEF FlagInv

(* Every step keeps the flags right.                                       *)
LEMMA FlagNext == BaseInv /\ FlagInv /\ [Next]_vars => FlagInv'
<1> SUFFICES ASSUME BaseInv, FlagInv, [Next]_vars PROVE FlagInv'
  OBVIOUS
<1>1. ASSUME NEW t \in Tickets, CreateTicket(t) PROVE FlagInv'
  <2>1. /\ \A u \in Tickets : ticket[u].status # None => ticket'[u] = ticket[u]
        /\ job' = job /\ events' = events
    BY <1>1, RowsKept DEF CreateTicket
  <2>2. ASSUME NEW p \in Processes PROVE FlagKnown(p)'
    BY <2>1 DEF FlagInv, FlagKnown, BaseInv, There, TicketThere
  <2> QED  BY <2>1, <2>2 DEF FlagInv, Flagged
<1>2. ASSUME NEW p \in Processes, Aside(p), ~RecordEscalation(p) PROVE FlagInv'
  <2>1. \A u \in Tickets : ticket[u].status # None => ticket'[u] = ticket[u]
    BY <1>2, RowsKept
  <2>2. Reasonable(job'[p]) /\ \A q \in Processes \ {p} : job'[q] = job[q]
    BY <1>2, AsideJob
  <2>3. FlagKnown(p)'
    BY <2>2 DEF FlagKnown, Reasonable
  <2>4. UNCHANGED events
    BY <1>2 DEF Aside, RequestApproval, ReadDecision, Intervene, QueryStatus, FileRequest,
                FinalizeSession, Decide, Execute, Notify, CheckStale, Fail, Sweep, SweepNext
  <2> QED  BY <2>1, <2>2, <2>3, <2>4, FlagStep
<1>3. ASSUME NEW p \in Processes, ReadTicket(p) PROVE FlagInv'
  <2>1. /\ job[p].step = "read" /\ job[p] \in Job /\ job \in [Processes -> Job]
        /\ UNCHANGED <<ticket, events>>
    BY <1>3 DEF ReadTicket, At, BaseInv, DeskTypeOK
  <2>2. /\ job'[p] = [job[p] EXCEPT !.step = "write", !.seen = ticket[job[p].ticket]]
        /\ \A q \in Processes \ {p} : job'[q] = job[q]
    BY <1>3, <2>1 DEF ReadTicket, Continue
  <2>3. /\ job'[p].seen = ticket[job[p].ticket] /\ job'[p].ticket = job[p].ticket
        /\ job'[p].step = "write" /\ job'[p].to = job[p].to /\ job'[p].after = job[p].after
    BY <2>1, <2>2 DEF Job
  <2>4. FlagKnown(p)'
    BY <2>1, <2>3 DEF FlagInv, FlagKnown
  <2> QED  BY <2>1, <2>2, <2>4, FlagStep
<1>4. ASSUME NEW p \in Processes, WriteTicket(p) PROVE FlagInv'
  BY <1>4, FlagWrite
<1>5. ASSUME NEW p \in Processes, RecordEscalation(p) PROVE FlagInv'
  BY <1>5, FlagRecord
<1>6. CASE Tick
  <2>1. /\ \A t \in Tickets : /\ ticket'[t].status = ticket[t].status
                              /\ ticket'[t].escalated = ticket[t].escalated
        /\ job' = job /\ events' = events
    BY <1>6, TickRows DEF Tick, BaseInv
  <2>2. ASSUME NEW p \in Processes PROVE FlagKnown(p)'
    BY <2>1 DEF FlagInv, FlagKnown, BaseInv, There, TicketThere
  <2> QED  BY <2>1, <2>2 DEF FlagInv, Flagged
<1>7. CASE UNCHANGED vars
  BY <1>7 DEF vars, FlagInv, Flagged, FlagKnown
<1> QED  BY <1>1, <1>2, <1>3, <1>4, <1>5, <1>6, <1>7, NextCases

(* A ticket with a recorded ageing escalation never comes back into the    *)
(* sweep's query, whichever updates of it were under way when it was       *)
(* escalated (db/repos.py:194-195, :226).                                  *)
THEOREM EscalatedOut == Spec => []EscalatedStaysOut
<1>1. Init => FlagInv
  BY DEF Init, FlagInv, Flagged, FlagKnown, Idle
<1>2. FlagInv => EscalatedStaysOut
  BY DEF FlagInv, Flagged, EscalatedStaysOut, StaleTickets
<1> QED  BY <1>1, <1>2, BaseHolds, FlagNext, PTL DEF Spec
-----------------------------------------------------------------------------
\* Executions.

Filing(p) ==
  \/ job[p].step = "file"
  \/ job[p].step \in {"read", "write"} /\ job[p].after = "file"

(* A coroutine that decides has not approved that request before; one that *)
(* executes has, and has not run the action; one that files a request has  *)
(* it to itself.                                                           *)
Accountable(p) ==
  /\ job[p].step = "decide" => p \notin granted[job[p].request]
  /\ job[p].step = "execute" =>
       p \in granted[job[p].request] /\ ran[job[p].request][p] = 0
  /\ Filing(p) => request[job[p].request] = "absent"

UndecidedNotGranted ==
  \A r \in Requests : request[r] \in {"absent", "pending"} => granted[r] = {}

OneFiler ==
  \A p, q \in Processes :
    /\ job[p].request \in Requests /\ job[q].request = job[p].request
    /\ request[job[p].request] = "absent"
    => p = q

RunInv ==
  /\ RunsGranted /\ UndecidedNotGranted /\ OneFiler
  /\ \A p \in Processes : Accountable(p)

(* A step of p that touches no request, no grant and no run.               *)
LEMMA RunFrame ==
  ASSUME RunInv, NEW p \in Processes, UNCHANGED <<request, granted, ran>>,
         \A q \in Processes \ {p} : job'[q] = job[q],
         \/ job'[p].request \in {None, job[p].request}
         \/ request[job'[p].request] # "absent"
         \/ \A q \in Processes : job[q].request # job'[p].request,
         Accountable(p)'
  PROVE  RunInv'
<1>1. ASSUME NEW q \in Processes \ {p} PROVE Accountable(q)'
  BY DEF RunInv, Accountable, Filing
<1>2. OneFiler'
  <2> SUFFICES ASSUME NEW q \in Processes, NEW s \in Processes, job'[q].request \in Requests,
                      job'[s].request = job'[q].request, request[job'[q].request] = "absent"
               PROVE  q = s
    BY DEF OneFiler
  <2>1. CASE q # p /\ s # p
    BY <2>1 DEF RunInv, OneFiler
  <2>2. CASE q = p \/ s = p
    BY <2>2, DeskAssumption DEF RunInv, OneFiler, None
  <2> QED  BY <2>1, <2>2
<1>3. RunsGranted' /\ UndecidedNotGranted'
  BY DEF RunInv, RunsGranted, UndecidedNotGranted
<1> QED  BY <1>1, <1>2, <1>3 DEF RunInv

(* Jobs that neither file, decide nor execute have nothing to account for. *)
Plain(j) ==
  /\ j.step \notin {"file", "decide", "execute"}
  /\ j.step \in {"read", "write"} => j.after # "file"

(* Who goes on to a step without a grant leaves the balance as it is.      *)
LEMMA PlainFrame ==
  ASSUME BaseInv, RunInv, NEW p \in Processes, NEW j, Continue(p, j), Plain(j),
         j.request \in {None, job[p].request}, UNCHANGED <<request, granted, ran>>
  PROVE  RunInv'
<1>1. job'[p] = j /\ \A q \in Processes \ {p} : job'[q] = job[q]
  BY DEF BaseInv, DeskTypeOK, Continue
<1>2. Accountable(p)'
  BY <1>1 DEF Plain, Accountable, Filing
<1> QED  BY <1>1, <1>2, RunFrame

(* Who is through leaves the others their grants.                          *)
LEMMA DoneFrame ==
  ASSUME BaseInv, RunInv, NEW p \in Processes, Done(p), UNCHANGED <<request, granted, ran>>
  PROVE  RunInv'
<1>1. /\ job'[p].step \in {"idle", "sweep"} /\ job'[p].request = None
      /\ \A q \in Processes \ {p} : job'[q] = job[q]
  BY DoneLeaves
<1>2. Accountable(p)'
  BY <1>1 DEF Accountable, Filing
<1> QED  BY <1>1, <1>2, RunFrame

(* Asking for an approval grants nothing.                                  *)
LEMMA RequestApprovalRuns ==
  ASSUME BaseInv, RunInv, NEW p \in Processes, NEW r \in Requests, RequestApproval(p, r)
  PROVE  RunInv'
<1>1. /\ request[r] = "absent" /\ (\A q \in Processes : job[q].request # r)
      /\ UNCHANGED <<request, granted, ran>>
  BY DEF RequestApproval
<1>2. \A q \in Processes \ {p} : job'[q] = job[q]
  BY DEF RequestApproval, BaseInv, DeskTypeOK, Continue
<1>3. job'[p].request = r /\ job'[p].step \in {"file", "read"}
  <2> DEFINE j == [Idle EXCEPT !.request = r, !.ticket = TicketOf[r]]
             fj == [j EXCEPT !.step = "file"]
             cj == Change(j, TicketOf[r], "waiting_approval", "file")
  <2>1. fj.request = r /\ fj.step = "file" /\ cj.request = r /\ cj.step = "read"
    BY DEF Idle, Change
  <2>2. Continue(p, fj) \/ Continue(p, cj)
    BY DEF RequestApproval
  <2> HIDE DEF fj, cj
  <2>3. job' = [job EXCEPT ![p] = fj] \/ job' = [job EXCEPT ![p] = cj]
    BY <2>2 DEF Continue
  <2> QED  BY <2>1, <2>3 DEF BaseInv, DeskTypeOK
<1>4. Accountable(p)'
  BY <1>1, <1>3 DEF Accountable
<1> QED  BY <1>1, <1>2, <1>3, <1>4, RunFrame

(* Reading a request for a decision grants nothing.                        *)
LEMMA ReadDecisionRuns ==
  ASSUME BaseInv, RunInv, NEW p \in Processes, NEW r \in Requests, ReadDecision(p, r)
  PROVE  RunInv'
<1>1. request[r] = "pending" /\ granted[r] = {} /\ UNCHANGED <<request, granted, ran>>
  BY DEF ReadDecision, Decidable, RunInv, UndecidedNotGranted
<1>2. \A q \in Processes \ {p} : job'[q] = job[q]
  BY DEF ReadDecision, BaseInv, DeskTypeOK, Continue
<1>3. job'[p].request = r /\ job'[p].step = "decide"
  BY DEF ReadDecision, BaseInv, DeskTypeOK, Continue, Idle
<1>4. Accountable(p)'
  BY <1>1, <1>3 DEF Accountable, Filing
<1> QED  BY <1>1, <1>2, <1>3, <1>4, RunFrame

(* Filing a request grants nothing.                                        *)
LEMMA FileRequestRuns ==
  ASSUME BaseInv, RunInv, NEW p \in Processes, FileRequest(p)
  PROVE  RunInv'
<1> DEFINE r == job[p].request
<1>1. /\ r \in Requests /\ request[r] = "absent" /\ granted[r] = {}
      /\ request \in [Requests -> {"absent", "pending", "approved", "rejected"}]
      /\ job[p] \in Job /\ UNCHANGED <<granted, ran>>
  BY DEF FileRequest, At, BaseInv, DeskTypeOK, There, RequestThere, RunInv, Accountable, Filing,
         UndecidedNotGranted
<1>2. request'[r] = "pending" /\ \A s \in Requests \ {r} : request'[s] = request[s]
  BY <1>1 DEF FileRequest
<1>3. /\ job'[p].step = "finalize" /\ job'[p].request = r
      /\ \A q \in Processes \ {p} : job'[q] = job[q]
  BY <1>1 DEF FileRequest, Go, Continue, BaseInv, DeskTypeOK, Job
<1>4. ASSUME NEW q \in Processes PROVE Accountable(q)'
  <2>1. CASE q = p
    BY <1>3, <2>1 DEF Accountable, Filing
  <2>2. CASE q # p
    <3>1. job'[q] = job[q] /\ Accountable(q) /\ RequestThere(q)
      BY <1>3, <2>2 DEF RunInv, BaseInv, There
    <3>2. Filing(q) => job[q].request \in Requests /\ job[q].request # r
      BY <1>1, <2>2, <3>1 DEF Filing, RequestThere, RunInv, OneFiler
    <3>3. Filing(q)' <=> Filing(q)
      BY <3>1 DEF Filing
    <3> QED  BY <1>1, <1>2, <3>1, <3>2, <3>3 DEF Accountable
  <2> QED  BY <2>1, <2>2
<1>5. UndecidedNotGranted' /\ RunsGranted'
  BY <1>1, <1>2 DEF RunInv, UndecidedNotGranted, RunsGranted
<1>6. OneFiler'
  <2>1. \A q \in Processes : job'[q].request = job[q].request
    BY <1>3
  <2>2. \A s \in Requests : request'[s] = "absent" => request[s] = "absent"
    BY <1>1, <1>2
  <2> QED  BY <2>1, <2>2 DEF RunInv, OneFiler
<1> QED  BY <1>4, <1>5, <1>6 DEF RunInv

(* Deciding grants the action to who decides, once.                        *)
LEMMA DecideRuns ==
  ASSUME BaseInv, RunInv, NEW p \in Processes, Decide(p)
  PROVE  RunInv'
<1> DEFINE r == job[p].request
<1>1. /\ r \in Requests /\ p \notin granted[r] /\ job[p] \in Job
      /\ request \in [Requests -> {"absent", "pending", "approved", "rejected"}]
      /\ granted \in [Requests -> SUBSET Processes] /\ ran \in [Requests -> [Processes -> Nat]]
      /\ ran' = ran
  BY DEF Decide, At, BaseInv, DeskTypeOK, There, RequestThere, RunInv, Accountable
<1>2. request'[r] \in {"approved", "rejected"} /\ \A s \in Requests \ {r} : request'[s] = request[s]
  BY <1>1 DEF Decide, Decision
<1>3. /\ job[p].approve => p \in granted'[r]
      /\ \A s \in Requests, q \in Processes \ {p} : q \in granted'[s] <=> q \in granted[s]
      /\ \A s \in Requests : granted[s] \subseteq granted'[s]
      /\ \A s \in Requests \ {r} : granted'[s] = granted[s]
  BY <1>1 DEF Decide
<1>4. /\ job'[p].step = IF job[p].approve THEN "execute" ELSE "read"
      /\ ~job[p].approve => job'[p].after = "notify"
      /\ job'[p].request = r
      /\ \A q \in Processes \ {p} : job'[q] = job[q]
  BY <1>1 DEF Decide, AfterDecision, Change, Continue, BaseInv, DeskTypeOK, Job
<1>5. ran[r][p] = 0
  BY <1>1 DEF RunInv, RunsGranted
<1>6. ASSUME NEW q \in Processes PROVE Accountable(q)'
  <2>1. CASE q = p
    BY <1>1, <1>3, <1>4, <1>5, <2>1 DEF Accountable, Filing
  <2>2. CASE q # p
    <3>1. job'[q] = job[q] /\ Accountable(q) /\ RequestThere(q)
      BY <1>4, <2>2 DEF RunInv, BaseInv, There
    <3>2. Filing(q) => job[q].request \in Requests /\ job[q].request # r
      BY <1>1, <2>2, <3>1 DEF Filing, RequestThere, RunInv, OneFiler, Accountable
    <3>3. job[q].step \in {"decide", "execute"} => job[q].request \in Requests
      BY <3>1 DEF RequestThere
    <3>4. Filing(q)' <=> Filing(q)
      BY <3>1 DEF Filing
    <3> QED  BY <1>1, <1>2, <1>3, <2>2, <3>1, <3>2, <3>3, <3>4 DEF Accountable
  <2> QED  BY <2>1, <2>2
<1>7. RunsGranted'
  BY <1>1, <1>3 DEF RunInv, RunsGranted
<1>8. UndecidedNotGranted'
  BY <1>2, <1>3 DEF RunInv, UndecidedNotGranted
<1>9. OneFiler'
  <2>1. \A q \in Processes : job'[q].request = job[q].request
    BY <1>4
  <2>2. \A s \in Requests : request'[s] = "absent" => request[s] = "absent"
    BY <1>1, <1>2
  <2> QED  BY <2>1, <2>2 DEF RunInv, OneFiler
<1> QED  BY <1>6, <1>7, <1>8, <1>9 DEF RunInv

(* Executing spends the grant.                                             *)
LEMMA ExecuteRuns ==
  ASSUME BaseInv, RunInv, NEW p \in Processes, Execute(p)
  PROVE  RunInv'
<1> DEFINE r == job[p].request
<1>1. /\ r \in Requests /\ p \in granted[r] /\ ran[r][p] = 0 /\ job[p] \in Job
      /\ ran \in [Requests -> [Processes -> Nat]]
      /\ UNCHANGED <<request, granted>>
  BY DEF Execute, At, BaseInv, DeskTypeOK, There, RequestThere, RunInv, Accountable
<1>2. /\ job'[p].step = "read" /\ job'[p].after = "notify" /\ job'[p].request = r
      /\ \A q \in Processes \ {p} : job'[q] = job[q]
  <2>1. PICK to \in {"resolved", "in_progress"} : Continue(p, Change(job[p], TicketOf[r], to, "notify"))
    BY DEF Execute
  <2>2. job'[p] = Change(job[p], TicketOf[r], to, "notify") /\ \A q \in Processes \ {p} : job'[q] = job[q]
    BY <2>1 DEF Continue, BaseInv, DeskTypeOK
  <2> QED  BY <1>1, <2>2 DEF Change, Job
<1>3. /\ ran'[r][p] \in {0, 1}
      /\ \A s \in Requests, q \in Processes : s # r \/ q # p => ran'[s][q] = ran[s][q]
  <2>1. CASE ran' = [ran EXCEPT ![r][p] = @ + 1]
    BY <1>1, <2>1
  <2>2. CASE ran' = ran
    BY <1>1, <2>2
  <2> QED  BY <2>1, <2>2 DEF Execute
<1>4. ASSUME NEW q \in Processes PROVE Accountable(q)'
  <2>1. CASE q = p
    BY <1>2, <2>1 DEF Accountable, Filing
  <2>2. CASE q # p
    <3>1. job'[q] = job[q] /\ Accountable(q) /\ RequestThere(q)
      BY <1>2, <2>2 DEF RunInv, BaseInv, There
    <3> QED  BY <1>1, <1>3, <2>2, <3>1 DEF Accountable, Filing, RequestThere
  <2> QED  BY <2>1, <2>2
<1>5. RunsGranted'
  BY <1>1, <1>3 DEF RunInv, RunsGranted
<1>6. UndecidedNotGranted' /\ OneFiler'
  BY <1>1, <1>2 DEF RunInv, UndecidedNotGranted, OneFiler
<1> QED  BY <1>4, <1>5, <1>6 DEF RunInv

(* The two halves of an update pass the request on.                        *)
LEMMA UpdateRuns ==
  ASSUME BaseInv, RunInv, NEW p \in Processes, ReadTicket(p) \/ WriteTicket(p)
  PROVE  RunInv'
<1>0. job[p] \in Job /\ Accountable(p) /\ UNCHANGED <<request, granted, ran>>
  BY DEF ReadTicket, WriteTicket, BaseInv, DeskTypeOK, RunInv
<1>1. CASE ReadTicket(p)
  <2>1. /\ job[p].step = "read" /\ job'[p].step = "write" /\ job'[p].after = job[p].after
        /\ job'[p].request = job[p].request /\ \A q \in Processes \ {p} : job'[q] = job[q]
    BY <1>0, <1>1 DEF ReadTicket, At, Continue, BaseInv, DeskTypeOK, Job
  <2>2. Accountable(p)'
    BY <1>0, <2>1 DEF Accountable, Filing
  <2> QED  BY <1>0, <2>1, <2>2, RunFrame
<1>2. CASE WriteTicket(p) /\ Done(p)
  BY <1>0, <1>2, DoneFrame
<1>3. CASE WriteTicket(p) /\ Continue(p, [job[p] EXCEPT !.step = job[p].after, !.seen = NoRow])
  <2>1. /\ job[p].step = "write" /\ job'[p].step = job[p].after
        /\ job'[p].request = job[p].request /\ \A q \in Processes \ {p} : job'[q] = job[q]
    BY <1>0, <1>3 DEF WriteTicket, At, Continue, BaseInv, DeskTypeOK, Job
  <2>2. job[p].after \in {"idle", "file", "notify", "event"}
    BY <1>0 DEF Job
  <2>3. Accountable(p)'
    BY <1>0, <2>1, <2>2 DEF Accountable, Filing
  <2> QED  BY <1>0, <2>1, <2>3, RunFrame
<1> QED  BY <1>1, <1>2, <1>3 DEF WriteTicket

(* The other steps neither grant nor execute.                              *)
LEMMA OtherRuns ==
  ASSUME BaseInv, RunInv, NEW p \in Processes,
         \/ FinalizeSession(p) \/ Notify(p) \/ RecordEscalation(p) \/ CheckStale(p) \/ Fail(p)
         \/ \E t \in Tickets : Intervene(p, t) \/ QueryStatus(p, t)
         \/ p = Sweeper /\ (Sweep \/ SweepNext)
  PROVE  RunInv'
<1>0. job[p] \in Job
  BY DEF BaseInv, DeskTypeOK
<1>1. CASE FinalizeSession(p) \/ Notify(p) \/ RecordEscalation(p)
  BY <1>1, DoneFrame DEF FinalizeSession, Notify, RecordEscalation
<1>2. CASE CheckStale(p)
  <2>1. /\ Plain(EscalateStale(job[p], job[p].ticket))
        /\ EscalateStale(job[p], job[p].ticket).request = job[p].request
    BY <1>0 DEF EscalateStale, Change, Plain, Job
  <2> QED  BY <1>2, <2>1, PlainFrame, DoneFrame DEF CheckStale
<1>3. CASE Fail(p)
  <2>1. Plain(Idle) /\ Idle.request = None
    BY DEF Plain, Idle
  <2> QED  BY <1>3, <2>1, PlainFrame DEF Fail
<1>4. ASSUME NEW t \in Tickets, Intervene(p, t) PROVE RunInv'
  <2>1. PICK to \in {"resolved", "in_progress"} : Continue(p, Change(Idle, t, to, "idle"))
    BY <1>4 DEF Intervene
  <2>2. Plain(Change(Idle, t, to, "idle")) /\ Change(Idle, t, to, "idle").request = None
    BY DEF Plain, Change, Idle
  <2> QED  BY <1>4, <2>1, <2>2, PlainFrame DEF Intervene
<1>5. ASSUME NEW t \in Tickets, QueryStatus(p, t) PROVE RunInv'
  <2> DEFINE j == [Idle EXCEPT !.step = "check", !.ticket = t]
  <2>1. Plain(EscalateStale(Idle, t)) /\ EscalateStale(Idle, t).request = None
    BY DEF Plain, EscalateStale, Change, Idle
  <2>2. Plain(j) /\ j.request = None
    BY DEF Plain, Idle
  <2>3. Continue(p, EscalateStale(Idle, t)) \/ Continue(p, j)
    BY <1>5 DEF QueryStatus
  <2> HIDE DEF j
  <2> QED  BY <1>5, <2>1, <2>2, <2>3, PlainFrame DEF QueryStatus
<1>6. CASE p = Sweeper /\ Sweep
  <2> DEFINE j == [Idle EXCEPT !.step = "sweep", !.todo = StaleTickets]
  <2>1. Plain(j) /\ j.request = None /\ Continue(p, j)
    BY <1>6 DEF Plain, Idle, Sweep
  <2> HIDE DEF j
  <2> QED  BY <1>6, <2>1, PlainFrame DEF Sweep
<1>7. CASE p = Sweeper /\ SweepNext
  <2>1. PICK t \in job[p].todo :
          Continue(p, [job[p] EXCEPT !.step = "check", !.ticket = t, !.todo = @ \ {t}])
    BY <1>7 DEF SweepNext
  <2> DEFINE j == [job[p] EXCEPT !.step = "check", !.ticket = t, !.todo = @ \ {t}]
  <2>2. Plain(j) /\ j.request = job[p].request /\ Continue(p, j)
    BY <1>0, <2>1 DEF Plain, Job
  <2> HIDE DEF j
  <2> QED  BY <1>7, <2>2, PlainFrame DEF SweepNext
<1> QED  BY <1>1, <1>2, <1>3, <1>4, <1>5, <1>6, <1>7

(* Every step keeps the grants and the runs in balance.                    *)
LEMMA RunNext == BaseInv /\ RunInv /\ [Next]_vars => RunInv'
<1> SUFFICES ASSUME BaseInv, RunInv, [Next]_vars PROVE RunInv'
  OBVIOUS
<1>1. ASSUME NEW p \in Processes, Advance(p) PROVE RunInv'
  BY <1>1, FileRequestRuns, DecideRuns, ExecuteRuns, UpdateRuns, OtherRuns DEF Advance
<1>2. ASSUME NEW p \in Handlers, Begin(p) PROVE RunInv'
  BY <1>2, RequestApprovalRuns, ReadDecisionRuns, OtherRuns DEF Begin, Processes
<1>3. CASE SweepStep
  BY <1>1, <1>3, OtherRuns DEF SweepStep, Processes
<1>4. ASSUME NEW p \in Processes, Fail(p) PROVE RunInv'
  BY <1>4, OtherRuns
<1>5. CASE UNCHANGED vars \/ Tick \/ \E t \in Tickets : CreateTicket(t)
  <2>1. UNCHANGED <<request, granted, ran, job>>
    BY <1>5 DEF vars, Tick, CreateTicket
  <2> QED  BY <2>1 DEF RunInv, RunsGranted, UndecidedNotGranted, OneFiler, Accountable, Filing
<1> QED  BY <1>1, <1>2, <1>3, <1>4, <1>5 DEF Next, Processes

(* Whatever fails, and however many approvers decide at the same time, the *)
(* tool of a request runs at most once for each approval that was accepted *)
(* (workflows/approval.py:148-183).                                        *)
THEOREM RunsOnlyGranted == Spec => []RunsGranted
<1>1. Init => RunInv
  <2> SUFFICES ASSUME Init PROVE RunInv
    OBVIOUS
  <2>1. RunsGranted /\ UndecidedNotGranted
    BY DEF Init, RunsGranted, UndecidedNotGranted
  <2>2. OneFiler /\ \A p \in Processes : Accountable(p)
    BY DeskAssumption DEF Init, OneFiler, Accountable, Filing, Idle, None
  <2> QED  BY <2>1, <2>2 DEF RunInv
<1>2. RunInv => RunsGranted
  BY DEF RunInv
<1> QED  BY <1>1, <1>2, BaseHolds, RunNext, PTL DEF Spec
-----------------------------------------------------------------------------
\* Decisions that are waited for.

(* p will file a request on t, or change its status before it is done: it  *)
(* is not the update that meets the status it was to set.                  *)
Caring(p, t) ==
  \/ job[p].step \in {"file", "execute"} /\ TicketOf[job[p].request] = t
  \/ /\ job[p].ticket = t /\ job[p].to # "waiting_approval"
     /\ \/ job[p].step = "read"
        \/ job[p].step = "write" /\ job[p].seen.status # job[p].to

PendingOn(t) == \E r \in Requests : TicketOf[r] = t /\ request[r] = "pending"

(* An update to waiting_approval is followed by the request.               *)
FilerKnown(p) ==
  job[p].step \in {"read", "write"} /\ job[p].to = "waiting_approval" =>
    job[p].after = "file" /\ job[p].ticket = TicketOf[job[p].request]

Cared(t) == PendingOn(t) \/ \E p \in Processes : Caring(p, t)

CareInv ==
  /\ \A p \in Processes : FilerKnown(p)
  /\ failures = 0 => \A t \in Tickets : ticket[t].status = "waiting_approval" => Cared(t)

(* A step of p that no failure is: each ticket that waits afterwards is    *)
(* cared for by p, or waited before and was cared for by another.          *)
LEMMA CareStep ==
  ASSUME CareInv, NEW p \in Processes, \A q \in Processes \ {p} : job'[q] = job[q],
         failures' = failures, FilerKnown(p)',
         \A t \in Tickets : ticket'[t].status = "waiting_approval" =>
           \/ Caring(p, t)' \/ PendingOn(t)'
           \/ ticket[t].status = "waiting_approval" /\ ~Caring(p, t) /\ ~PendingOn(t)
  PROVE  CareInv'
<1>1. ASSUME NEW q \in Processes PROVE FilerKnown(q)'
  BY DEF CareInv, FilerKnown
<1>2. ASSUME failures' = 0, NEW t \in Tickets, ticket'[t].status = "waiting_approval"
      PROVE  Cared(t)'
  <2>1. CASE Caring(p, t)' \/ PendingOn(t)'
    BY <2>1 DEF Cared
  <2>2. CASE ticket[t].status = "waiting_approval" /\ ~Caring(p, t) /\ ~PendingOn(t)
    <3>1. PICK q \in Processes : Caring(q, t) /\ q # p
      BY <1>2, <2>2 DEF CareInv, Cared
    <3>2. Caring(q, t)'
      BY <3>1 DEF Caring
    <3> QED
      BY <3>2 DEF Cared
  <2> QED
    BY <1>2, <2>1, <2>2
<1> QED
  BY <1>1, <1>2 DEF CareInv

(* A step that changes no ticket and no request, of a process that cares   *)
(* for none and begins no update to waiting_approval.                      *)
LEMMA BystanderCares ==
  ASSUME BaseInv, CareInv, NEW p \in Processes, UNCHANGED <<ticket, request, failures>>,
         job[p].step \notin {"file", "execute", "read", "write"},
         \/ Done(p)
         \/ \E j : Continue(p, j) /\ (j.step \in {"read", "write"} => j.to # "waiting_approval")
  PROVE  CareInv'
<1>1. \A q \in Processes \ {p} : job'[q] = job[q]
  BY DoneLeaves DEF Continue, BaseInv, DeskTypeOK
<1>2. FilerKnown(p)'
  <2>1. CASE Done(p)
    BY <2>1, DoneLeaves DEF FilerKnown
  <2>2. CASE \E j : Continue(p, j) /\ (j.step \in {"read", "write"} => j.to # "waiting_approval")
    BY <2>2 DEF Continue, FilerKnown, BaseInv, DeskTypeOK
  <2> QED
    BY <2>1, <2>2
<1>3. \A t \in Tickets : ~Caring(p, t)
  BY DEF Caring
<1>4. \A t \in Tickets : PendingOn(t)' <=> PendingOn(t)
  BY DEF PendingOn
<1> QED
  BY <1>1, <1>2, <1>3, <1>4, CareStep

(* A step away from requests and rows forgets no waiting ticket.           *)
LEMMA OthersCare ==
  ASSUME BaseInv, CareInv, NEW p \in Processes,
         \/ \E r \in Requests : ReadDecision(p, r)
         \/ FinalizeSession(p) \/ Notify(p) \/ RecordEscalation(p) \/ CheckStale(p)
         \/ \E t \in Tickets : Intervene(p, t) \/ QueryStatus(p, t)
         \/ p = Sweeper /\ (Sweep \/ SweepNext)
  PROVE  CareInv'
<1> DEFINE Goes == \E j : Continue(p, j) /\ (j.step \in {"read", "write"} => j.to # "waiting_approval")
<1>0. job[p] \in Job /\ Idle \in Job
  BY IdleIsAJob DEF BaseInv, DeskTypeOK
<1>1. ASSUME NEW j \in Job, NEW t, NEW to, NEW after, to # "waiting_approval",
             Continue(p, Change(j, t, to, after))
      PROVE  Goes
  <2>1. Change(j, t, to, after).to = to
    BY DEF Change, Job
  <2> QED
    BY <1>1, <2>1
<1>2. ASSUME NEW j, j.step \notin {"read", "write"}, Continue(p, j) PROVE Goes
  BY <1>2
<1>3. ASSUME NEW r \in Requests, ReadDecision(p, r) PROVE CareInv'
  <2>1. PICK approve \in BOOLEAN :
          Continue(p, [Idle EXCEPT !.step = "decide", !.request = r, !.approve = approve])
    BY <1>3 DEF ReadDecision
  <2> DEFINE j == [Idle EXCEPT !.step = "decide", !.request = r, !.approve = approve]
  <2>2. j.step = "decide"
    BY DEF Idle
  <2> HIDE DEF j
  <2>3. Continue(p, j)
    BY <2>1 DEF j
  <2>4. Goes
    BY <1>2, <2>2, <2>3
  <2> QED
    BY <1>3, <2>4, BystanderCares DEF ReadDecision, At
<1>4. CASE FinalizeSession(p) \/ Notify(p) \/ RecordEscalation(p)
  BY <1>4, BystanderCares DEF FinalizeSession, Notify, RecordEscalation, At
<1>5. CASE CheckStale(p)
  <2>1. Done(p) \/ Goes
    BY <1>0, <1>1, <1>5 DEF CheckStale, EscalateStale
  <2> QED
    BY <1>5, <2>1, BystanderCares DEF CheckStale, At
<1>6. ASSUME NEW t \in Tickets, Intervene(p, t) PROVE CareInv'
  <2>1. Goes
    BY <1>0, <1>1, <1>6 DEF Intervene
  <2> QED
    BY <1>6, <2>1, BystanderCares DEF Intervene, At
<1>7. ASSUME NEW t \in Tickets, QueryStatus(p, t) PROVE CareInv'
  <2> DEFINE j == [Idle EXCEPT !.step = "check", !.ticket = t]
  <2>1. j.step = "check"
    BY DEF Idle
  <2>2. Continue(p, EscalateStale(Idle, t)) \/ Continue(p, j)
    BY <1>7 DEF QueryStatus
  <2> HIDE DEF j
  <2>3. Goes
    BY <1>0, <1>1, <1>2, <2>1, <2>2 DEF EscalateStale
  <2> QED
    BY <1>7, <2>3, BystanderCares DEF QueryStatus, At
<1>8. CASE p = Sweeper /\ Sweep
  <2> DEFINE j == [Idle EXCEPT !.step = "sweep", !.todo = StaleTickets]
  <2>1. j.step = "sweep" /\ Continue(p, j)
    BY <1>8 DEF Idle, Sweep
  <2> HIDE DEF j
  <2>2. Goes
    BY <1>2, <2>1
  <2> QED
    BY <1>8, <2>2, BystanderCares DEF Sweep, At
<1>9. CASE p = Sweeper /\ SweepNext
  <2>1. PICK t \in job[p].todo :
          Continue(p, [job[p] EXCEPT !.step = "check", !.ticket = t, !.todo = @ \ {t}])
    BY <1>9 DEF SweepNext
  <2> DEFINE j == [job[p] EXCEPT !.step = "check", !.ticket = t, !.todo = @ \ {t}]
  <2>2. j.step = "check" /\ Continue(p, j)
    BY <1>0, <2>1 DEF Job
  <2> HIDE DEF j
  <2>3. Goes
    BY <1>2, <2>2
  <2> QED
    BY <1>9, <2>3, BystanderCares DEF SweepNext, At
<1> QED
  BY <1>3, <1>4, <1>5, <1>6, <1>7, <1>8, <1>9

(* Who asks for an approval will make its ticket wait for it.              *)
LEMMA RequestCares ==
  ASSUME BaseInv, CareInv, NEW p \in Processes, NEW r \in Requests, RequestApproval(p, r)
  PROVE  CareInv'
<1> DEFINE t == TicketOf[r]
           j == [Idle EXCEPT !.request = r, !.ticket = t]
           fj == [j EXCEPT !.step = "file"]
           cj == Change(j, t, "waiting_approval", "file")
<1>1. /\ t \in Tickets /\ UNCHANGED <<request, failures>> /\ job[p].step = "idle"
      /\ ticket \in [Tickets -> Row] /\ job \in [Processes -> Job]
  BY DeskAssumption DEF RequestApproval, At, BaseInv, DeskTypeOK
<1>2. /\ fj.step = "file" /\ fj.request = r
      /\ cj.step = "read" /\ cj.after = "file" /\ cj.ticket = t /\ cj.request = r
  BY DEF Idle, Change
<1>3. \/ ticket' = [ticket EXCEPT ![t] = Created("waiting_approval")] /\ Continue(p, fj)
      \/ UNCHANGED ticket /\ Continue(p, cj)
  BY DEF RequestApproval
<1> HIDE DEF fj, cj
<1>4. \A q \in Processes \ {p} : job'[q] = job[q]
  BY <1>1, <1>3 DEF Continue
<1>5. job'[p] = fj \/ job'[p] = cj
  BY <1>1, <1>3 DEF Continue
<1>6. FilerKnown(p)'
  BY <1>2, <1>5 DEF FilerKnown
<1>7. ASSUME NEW u \in Tickets
      PROVE  Caring(p, u)' \/ (ticket'[u] = ticket[u] /\ ~Caring(p, u))
  <2>1. ~Caring(p, u)
    BY <1>1 DEF Caring
  <2>2. CASE UNCHANGED ticket
    BY <2>1, <2>2
  <2>3. CASE Continue(p, fj) /\ ticket' = [ticket EXCEPT ![t] = Created("waiting_approval")]
    <3>1. job'[p] = fj
      BY <1>1, <2>3 DEF Continue
    <3>2. u = t => Caring(p, u)'
      BY <1>2, <3>1 DEF Caring
    <3> QED
      BY <1>1, <2>1, <2>3, <3>2
  <2> QED
    BY <1>3, <2>2, <2>3
<1>8. \A u \in Tickets : PendingOn(u)' <=> PendingOn(u)
  BY <1>1 DEF PendingOn
<1> QED
  BY <1>1, <1>4, <1>6, <1>7, <1>8, CareStep

(* Filing, deciding and executing hand a ticket over.                      *)
LEMMA HandoverCares ==
  ASSUME BaseInv, CareInv, NEW p \in Processes, FileRequest(p) \/ Decide(p) \/ Execute(p)
  PROVE  CareInv'
<1>0. /\ job[p].request \in Requests /\ TicketOf[job[p].request] \in Tickets
      /\ job[p].step \in {"file", "decide", "execute"}
  BY DeskAssumption DEF FileRequest, Decide, Execute, At, BaseInv, There, RequestThere
<1>1. PICK r \in Requests, t \in Tickets : r = job[p].request /\ t = TicketOf[r]
  BY <1>0
<1>2. /\ job[p] \in Job /\ job \in [Processes -> Job] /\ UNCHANGED <<ticket, failures>>
      /\ request \in [Requests -> {"absent", "pending", "approved", "rejected"}]
  BY DEF FileRequest, Decide, Execute, BaseInv, DeskTypeOK
<1>3. \A s \in Requests \ {r} : request'[s] = request[s]
  BY <1>0, <1>1, <1>2 DEF FileRequest, Decide, Execute
<1>4. \A u \in Tickets : Caring(p, u) => u = t
  BY <1>0, <1>1, <1>2 DEF Caring
<1>5. /\ \A q \in Processes \ {p} : job'[q] = job[q]
      /\ FilerKnown(p)'
      /\ Caring(p, t)' \/ PendingOn(t)'
  <2>1. CASE FileRequest(p)
    <3>1. job'[p].step = "finalize" /\ \A q \in Processes \ {p} : job'[q] = job[q]
      BY <1>0, <1>1, <1>2, <2>1 DEF FileRequest, Go, Continue, Job
    <3>2. request'[r] = "pending"
      BY <1>0, <1>1, <1>2, <2>1 DEF FileRequest
    <3> QED
      BY <1>0, <1>1, <1>2, <3>1, <3>2 DEF FilerKnown, PendingOn
  <2>2. CASE Decide(p)
    <3>1. job'[p] = AfterDecision(job[p]) /\ \A q \in Processes \ {p} : job'[q] = job[q]
      BY <1>0, <1>1, <1>2, <2>2 DEF Decide, Continue
    <3>2. CASE job[p].approve
      <4>1. job'[p].step = "execute" /\ job'[p].request = r
        BY <1>0, <1>1, <1>2, <3>1, <3>2 DEF AfterDecision, Job
      <4> QED
        BY <1>1, <3>1, <4>1 DEF FilerKnown, Caring
    <3>3. CASE ~job[p].approve
      <4>1. job'[p].step = "read" /\ job'[p].ticket = t /\ job'[p].to = "closed"
        BY <1>0, <1>1, <1>2, <3>1, <3>3 DEF AfterDecision, Change, Job
      <4> QED
        BY <1>1, <3>1, <4>1 DEF FilerKnown, Caring
    <3> QED
      BY <3>2, <3>3
  <2>3. CASE Execute(p)
    <3>1. PICK to \in {"resolved", "in_progress"} : Continue(p, Change(job[p], t, to, "notify"))
      BY <1>1, <2>3 DEF Execute
    <3>2. job'[p] = Change(job[p], t, to, "notify") /\ \A q \in Processes \ {p} : job'[q] = job[q]
      BY <1>0, <1>1, <1>2, <3>1 DEF Continue
    <3>3. job'[p].step = "read" /\ job'[p].ticket = t /\ job'[p].to # "waiting_approval"
      BY <1>0, <1>1, <1>2, <3>2 DEF Change, Job
    <3> QED
      BY <1>1, <3>2, <3>3 DEF FilerKnown, Caring
  <2> QED
    BY <2>1, <2>2, <2>3
<1>6. \A u \in Tickets : u # t => (PendingOn(u)' <=> PendingOn(u))
  BY <1>3, <1>1 DEF PendingOn
<1> QED
  BY <1>2, <1>4, <1>5, <1>6, CareStep

(* Reading a row forgets no waiting ticket.                                *)
LEMMA ReadingCares ==
  ASSUME BaseInv, CareInv, NEW p \in Processes, ReadTicket(p)
  PROVE  CareInv'
<1> DEFINE t == job[p].ticket
<1>1. /\ job[p] \in Job /\ job \in [Processes -> Job] /\ job[p].step = "read"
      /\ UNCHANGED <<ticket, request, failures>> /\ FilerKnown(p)
  BY DEF ReadTicket, At, BaseInv, DeskTypeOK, CareInv
<1>2. /\ job'[p] = [job[p] EXCEPT !.step = "write", !.seen = ticket[t]]
      /\ \A q \in Processes \ {p} : job'[q] = job[q]
  BY <1>1 DEF ReadTicket, Continue
<1>3. /\ job'[p].step = "write" /\ job'[p].seen = ticket[t] /\ job'[p].ticket = t
      /\ job'[p].to = job[p].to /\ job'[p].after = job[p].after /\ job'[p].request = job[p].request
  BY <1>1, <1>2 DEF Job
<1>4. FilerKnown(p)'
  BY <1>1, <1>3 DEF FilerKnown
<1>5. ASSUME NEW u \in Tickets, ticket[u].status = "waiting_approval", Caring(p, u)
      PROVE  Caring(p, u)'
  BY <1>1, <1>3, <1>5 DEF Caring
<1>6. \A u \in Tickets : PendingOn(u)' <=> PendingOn(u)
  BY <1>1 DEF PendingOn
<1> QED
  BY <1>1, <1>2, <1>4, <1>5, <1>6, CareStep

(* An update that leaves a ticket waiting for an approval is its filer's,  *)
(* or met the status it was to set.                                        *)
LEMMA WritingCares ==
  ASSUME BaseInv, CareInv, NEW p \in Processes, WriteTicket(p)
  PROVE  CareInv'
<1> DEFINE t == job[p].ticket
<1>1. /\ job[p] \in Job /\ job \in [Processes -> Job] /\ job[p].step = "write"
      /\ UNCHANGED <<request, failures>> /\ FilerKnown(p)
  BY DEF WriteTicket, At, BaseInv, DeskTypeOK, CareInv
<1>2. /\ t \in Tickets /\ ticket'[t] = Updated(job[p].seen, job[p].to, ticket[t])
      /\ \A u \in Tickets \ {t} : ticket'[u] = ticket[u]
  BY WriteTicketKeeps
<1>3. ticket'[t].status = IF job[p].to = job[p].seen.status THEN ticket[t].status ELSE job[p].to
  BY <1>2 DEF Updated
<1>4. /\ FilerKnown(p)' /\ \A q \in Processes \ {p} : job'[q] = job[q]
      /\ job[p].after = "file" => job'[p].step = "file" /\ job'[p].request = job[p].request
  <2>1. CASE job[p].after = "idle" /\ Done(p)
    BY <2>1, DoneLeaves DEF FilerKnown
  <2>2. CASE job[p].after # "idle" /\ Continue(p, [job[p] EXCEPT !.step = job[p].after, !.seen = NoRow])
    <3>1. /\ job'[p] = [job[p] EXCEPT !.step = job[p].after, !.seen = NoRow]
          /\ \A q \in Processes \ {p} : job'[q] = job[q]
      BY <1>1, <2>2 DEF Continue
    <3>2. /\ job'[p].step = job[p].after /\ job'[p].request = job[p].request
          /\ job[p].after \notin {"read", "write"}
      BY <1>1, <3>1 DEF Job
    <3> QED
      BY <3>1, <3>2 DEF FilerKnown
  <2> QED
    BY <2>1, <2>2 DEF WriteTicket
<1>5. ASSUME NEW u \in Tickets, ticket'[u].status = "waiting_approval"
      PROVE  Caring(p, u)' \/ (ticket[u].status = "waiting_approval" /\ ~Caring(p, u))
  <2>1. CASE u # t
    BY <1>1, <1>2, <1>5, <2>1 DEF Caring
  <2>2. CASE u = t /\ job[p].to = job[p].seen.status
    BY <1>1, <1>3, <1>5, <2>2 DEF Caring
  <2>3. CASE u = t /\ job[p].to # job[p].seen.status
    <3>1. job[p].to = "waiting_approval"
      BY <1>3, <1>5, <2>3
    <3>2. job[p].after = "file" /\ t = TicketOf[job[p].request]
      BY <1>1, <3>1 DEF FilerKnown
    <3> QED
      BY <1>4, <2>3, <3>2 DEF Caring
  <2> QED
    BY <2>1, <2>2, <2>3
<1>6. \A u \in Tickets : PendingOn(u)' <=> PendingOn(u)
  BY <1>1 DEF PendingOn
<1> QED
  BY <1>1, <1>4, <1>5, <1>6, CareStep

(* Every step keeps somebody to wait for.                                  *)
LEMMA CareNext == BaseInv /\ CareInv /\ [Next]_vars => CareInv'
<1> SUFFICES ASSUME BaseInv, CareInv, [Next]_vars PROVE CareInv'
  OBVIOUS
<1>1. ASSUME NEW p \in Processes, Aside(p), ~Fail(p) PROVE CareInv'
  BY <1>1, RequestCares, HandoverCares, OthersCare DEF Aside
<1>2. ASSUME NEW p \in Processes, Fail(p) PROVE CareInv'
  <2>1. failures' # 0
    BY <1>2 DEF Fail, BaseInv, DeskTypeOK
  <2>2. job'[p] = Idle /\ \A q \in Processes \ {p} : job'[q] = job[q]
    BY <1>2 DEF Fail, Continue, BaseInv, DeskTypeOK
  <2> QED
    BY <2>1, <2>2 DEF CareInv, FilerKnown, Idle
<1>3. ASSUME NEW p \in Processes, ReadTicket(p) \/ WriteTicket(p) PROVE CareInv'
  BY <1>3, ReadingCares, WritingCares
<1>4. ASSUME UNCHANGED <<job, request, failures>>,
             \A t \in Tickets : ticket'[t].status = "waiting_approval" =>
                                ticket[t].status = "waiting_approval"
      PROVE  CareInv'
  BY <1>4 DEF CareInv, Cared, PendingOn, Caring, FilerKnown
<1>5. ASSUME NEW t \in Tickets, CreateTicket(t) PROVE CareInv'
  <2>1. PICK status \in {"open", "pending", "resolved", "escalated"} :
          ticket' = [ticket EXCEPT ![t] = Created(status)]
    BY <1>5 DEF CreateTicket
  <2>2. Created(status).status # "waiting_approval"
    BY DEF Created
  <2>3. \A u \in Tickets : ticket'[u] = IF u = t THEN Created(status) ELSE ticket[u]
    BY <2>1 DEF BaseInv, DeskTypeOK
  <2> QED
    BY <1>4, <1>5, <2>2, <2>3 DEF CreateTicket
<1>6. CASE Tick
  BY <1>4, <1>6, TickRows DEF Tick, BaseInv
<1>7. CASE UNCHANGED vars
  BY <1>4, <1>7 DEF vars
<1> QED
  BY <1>1, <1>2, <1>3, <1>5, <1>6, <1>7, NextCases

(* For any number of tickets, requests, approvers and operators: unless a  *)
(* coroutine failed, a ticket that waits for an approval when nobody works *)
(* has a request that can be decided (workflows/approval.py:208-218).      *)
THEOREM NobodyForgotten == Spec => []WaitsForSomeone
<1>1. Init => CareInv
  BY DeskAssumption DEF Init, CareInv, FilerKnown, Idle, NoRow, None
<1>2. CareInv => WaitsForSomeone
  <2> SUFFICES ASSUME CareInv, failures = 0, \A p \in Processes : At(p, "idle"),
                      NEW t \in Tickets, ticket[t].status = "waiting_approval"
               PROVE  \E r \in Requests : TicketOf[r] = t /\ request[r] = "pending"
    BY DEF WaitsForSomeone
  <2>1. \A p \in Processes : ~Caring(p, t)
    BY DEF At, Caring
  <2> QED
    BY <2>1 DEF CareInv, Cared, PendingOn
<1> QED  BY <1>1, <1>2, BaseHolds, CareNext, PTL DEF Spec
=============================================================================

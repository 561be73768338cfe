----------------------------- MODULE EventStream -----------------------------
(***************************************************************************)
(* How what happens in the backend reaches the people who watch: record    *)
(* (events/recorder.py) commits a row of audit_events and then publishes   *)
(* it on the EventBus (events/bus.py), which puts it in the bounded queue  *)
(* of every subscribed stream (api/routes_stream.py); a stream shows a     *)
(* client the events of its session that have friendly copy                *)
(* (api/friendly.py), or, to an administrator, all of them.                *)
(*                                                                         *)
(* The commit and the publication are two steps: other tasks run between   *)
(* them, so events may be published in another order than their rows have. *)
(***************************************************************************)
EXTENDS Naturals, Sequences, SequencesExt, FiniteSets, Filters

CONSTANTS
  Writers,     \* tasks that record events: a run, the sweep, a route
  Clients,     \* connections to a stream, one stream each
  Filter,      \* client -> the session it follows, or AllSessions
  AllSessions, \* the administrators' stream
  Reading,     \* the clients that take what they are sent
  Happenings,  \* bound: writer -> the events it records: [session, type, detail]
  Capacity,    \* maxsize of a subscriber's queue (500)
  MaxEvents    \* bound: events recorded

Occurring == UNION Range(Happenings)

Sessions == {e.session : e \in Occurring}

ASSUME StreamAssumption ==
  /\ DOMAIN Happenings = Writers
  /\ Filter \in [Clients -> Sessions \cup {AllSessions}] /\ AllSessions \notin Sessions
  /\ Reading \subseteq Clients
  /\ Capacity \in Nat \ {0} /\ MaxEvents \in Nat

VARIABLES
  events,    \* every event recorded or being recorded, by number
  trail,     \* the rows of audit_events, in the order they were committed
  writing,   \* writer -> the event it records, 0 when none
  published, \* history: the events in the order they were broadcast
  subscribers, \* the bus's queues, by client
  queue,     \* client -> what is in its queue
  stream,    \* client -> where its _event_stream generator is
  taken,     \* client -> the event it is about to be shown, 0 when none
  gone,      \* the clients that have disconnected
  shown,     \* client -> the events it has been shown
  since      \* history: client -> how many were broadcast before it subscribed

writerVars == <<events, trail, writing>>
busVars    == <<published, subscribers, queue>>
clientVars == <<stream, taken, gone, shown, since>>
vars       == <<writerVars, busVars, clientVars>>

Events == DOMAIN events

StreamTypeOK ==
  /\ events \in Seq(Occurring)
  /\ trail \in Seq(Events) /\ published \in Seq(Events)
  /\ writing \in [Writers -> Events \cup {0}]
  /\ subscribers \subseteq Clients
  /\ queue \in [Clients -> Seq(Events)] /\ shown \in [Clients -> Seq(Events)]
  /\ \A c \in Clients : Len(queue[c]) <= Capacity
  /\ stream \in [Clients -> {"unopened", "open", "send", "closed"}]
  /\ taken \in [Clients -> Events \cup {0}]
  /\ gone \subseteq Clients
  /\ since \in [Clients -> Nat]

Init ==
  /\ events = <<>> /\ trail = <<>> /\ writing = [w \in Writers |-> 0]
  /\ published = <<>> /\ subscribers = {}
  /\ queue = [c \in Clients |-> <<>>] /\ shown = [c \in Clients |-> <<>>]
  /\ stream = [c \in Clients |-> "unopened"]
  /\ taken = [c \in Clients |-> 0] /\ gone = {}
  /\ since = [c \in Clients |-> 0]

-----------------------------------------------------------------------------
\* friendly_copy and the filters of a stream

CopiedTools == {
  "get_account_status", "get_recent_auth_events", "unlock_account", "reset_password",
  "revoke_sessions", "get_device_details", "run_device_health_check", "check_disk_space",
  "install_approved_software", "restart_managed_service", "check_vpn_status",
  "run_connectivity_diagnostics", "check_dns", "check_proxy", "inspect_recent_vpn_session",
  "get_recent_security_events", "revoke_active_sessions", "quarantine_device",
  "flag_account_for_security_review", "notify_security_team", "create_ticket",
  "get_ticket_status", "update_ticket"}

(* The events an employee gets to see.  An event's detail is its cycle,    *)
(* its actor or its tool, by its type.                                     *)
HasCopy(e) ==
  \/ e.type = "SUPERVISOR_DECISION" /\ e.detail = "first cycle"
  \/ e.type = "AGENT_STARTED" /\ e.detail \in {"identity", "endpoint", "network", "security"}
  \/ e.type = "TOOL_CALLED" /\ e.detail \in CopiedTools
  \/ e.type \in {"APPROVAL_REQUESTED", "ESCALATION_TRIGGERED",
                 "USER_CONFIRMATION_REQUESTED", "MEMORY_RETRIEVED"}

Wanted(c, n) ==
  \/ Filter[c] = AllSessions
  \/ events[n].session = Filter[c] /\ HasCopy(events[n])

-----------------------------------------------------------------------------
\* record

StartRecord(w) ==
  /\ writing[w] = 0 /\ Len(events) < MaxEvents
  /\ \E e \in Happenings[w] : events' = Append(events, e)
  /\ writing' = [writing EXCEPT ![w] = Len(events) + 1]
  /\ UNCHANGED <<trail, busVars, clientVars>>

Committed(n) == n \in Range(trail)

Commit(w) ==
  /\ writing[w] # 0 /\ ~Committed(writing[w])
  /\ trail' = Append(trail, writing[w])
  /\ UNCHANGED <<events, writing, busVars, clientVars>>

(* The store fails and the exception leaves record.                        *)
CommitFails(w) ==
  /\ writing[w] # 0 /\ ~Committed(writing[w])
  /\ writing' = [writing EXCEPT ![w] = 0]
  /\ UNCHANGED <<events, trail, busVars, clientVars>>

Full(c) == Len(queue[c]) >= Capacity

(* Mutant: a subscriber that is behind misses the event and stays.         *)
PutOrSkip(n) ==
  /\ queue' = [c \in Clients |-> IF c \in subscribers /\ ~Full(c)
                                 THEN Append(queue[c], n) ELSE queue[c]]
  /\ UNCHANGED subscribers

(* Mutant: the queue has no bound.                                         *)
PutAnyway(n) ==
  /\ queue' = [c \in Clients |-> IF c \in subscribers THEN Append(queue[c], n) ELSE queue[c]]
  /\ UNCHANGED subscribers

(* Mutant: the broadcast waits for room in every queue.                    *)
PutWhenRoom(n) ==
  /\ \A c \in subscribers : ~Full(c)
  /\ queue' = [c \in Clients |-> IF c \in subscribers THEN Append(queue[c], n) ELSE queue[c]]
  /\ UNCHANGED subscribers

(* Every queue with room gets the event; a subscriber whose queue is full  *)
(* is dropped.                                                             *)
Put(n) ==
  /\ queue' = [c \in Clients |-> IF c \in subscribers /\ ~Full(c)
                                 THEN Append(queue[c], n) ELSE queue[c]]
  /\ subscribers' = {c \in subscribers : ~Full(c)}

(* Mutant: the event is broadcast before its row is committed.             *)
AnyTime(w) == ~\E i \in DOMAIN published : published[i] = writing[w]

Publishable(w) == Committed(writing[w])

Publish(w) ==
  /\ writing[w] # 0 /\ Publishable(w)
  /\ Put(writing[w]) /\ published' = Append(published, writing[w])
  /\ writing' = [writing EXCEPT ![w] = 0]
  /\ UNCHANGED <<events, trail, clientVars>>

-----------------------------------------------------------------------------
\* _event_stream

At(c, step)   == stream[c] = step
GoTo(c, step) == stream' = [stream EXCEPT ![c] = step]

Subscribe(c) ==
  /\ At(c, "unopened") /\ GoTo(c, "open")
  /\ subscribers' = subscribers \cup {c}
  /\ since' = [since EXCEPT ![c] = Len(published)]
  /\ UNCHANGED <<writerVars, published, queue, taken, gone, shown>>

(* Mutant: the queue of a stream that ends stays on the bus.               *)
StayOnTheBus(c) == UNCHANGED subscribers

Unsubscribe(c) == subscribers' = subscribers \ {c}

(* The generator ends, and its queue with it; so does what is on screen.   *)
Close(c) ==
  /\ GoTo(c, "closed") /\ Unsubscribe(c)
  /\ queue' = [queue EXCEPT ![c] = <<>>] /\ taken' = [taken EXCEPT ![c] = 0]
  /\ shown' = [shown EXCEPT ![c] = <<>>] /\ since' = [since EXCEPT ![c] = 0]
  /\ UNCHANGED <<writerVars, published, gone>>

(* The client's disconnection is seen between two events, and when         *)
(* HEARTBEAT_SECONDS have passed without one.                              *)
Disconnected(c) == At(c, "open") /\ c \in gone /\ Close(c)

(* The server may cancel the response of a client that is gone.            *)
Cancelled(c) == At(c, "send") /\ c \in gone /\ Close(c)

(* Mutant: an event that is not for this client ends its stream.           *)
EndOnSkip(c) == IF Wanted(c, Head(queue[c])) THEN "send" ELSE "closed"

AfterGet(c) == IF Wanted(c, Head(queue[c])) THEN "send" ELSE "open"

Get(c) ==
  /\ At(c, "open") /\ c \notin gone /\ queue[c] # <<>>
  /\ queue' = [queue EXCEPT ![c] = Tail(@)]
  /\ GoTo(c, AfterGet(c))
  /\ taken' = [taken EXCEPT ![c] = IF Wanted(c, Head(queue[c])) THEN Head(queue[c]) ELSE 0]
  /\ UNCHANGED <<writerVars, published, subscribers, gone, shown, since>>

(* The frame is sent when the client takes it, or is gone.                 *)
Send(c) ==
  /\ At(c, "send") /\ GoTo(c, "open")
  /\ shown' = IF c \notin gone
              THEN [shown EXCEPT ![c] = Append(@, taken[c])] ELSE shown
  /\ taken' = [taken EXCEPT ![c] = 0]
  /\ UNCHANGED <<writerVars, busVars, gone, since>>

Leave(c) ==
  /\ stream[c] \notin {"unopened", "closed"} /\ c \notin gone
  /\ gone' = gone \cup {c}
  /\ UNCHANGED <<writerVars, busVars, stream, taken, shown, since>>

-----------------------------------------------------------------------------

Record(w) == Commit(w) \/ CommitFails(w) \/ Publish(w)

Pump(c) == Disconnected(c) \/ Get(c)

Next ==
  \/ \E w \in Writers : StartRecord(w) \/ Record(w)
  \/ \E c \in Clients : Subscribe(c) \/ Pump(c) \/ Send(c) \/ Leave(c) \/ Cancelled(c)

Spec == Init /\ [][Next]_vars

(* Tasks go on; a frame is taken by a client that reads, or dropped for a  *)
(* client that is gone.  No client has to read, connect or leave.          *)
FairSpec ==
  /\ Spec
  /\ \A w \in Writers : WF_vars(Record(w))
  /\ \A c \in Clients : /\ WF_vars(Pump(c))
                        /\ WF_vars((c \in Reading \/ c \in gone) /\ Send(c))

-----------------------------------------------------------------------------

(* What was never persisted is never shown as live truth: whatever is in a *)
(* queue, on its way or on a screen has its row in audit_events.           *)
OnlyTruthIsShown ==
  \A c \in Clients : Range(shown[c]) \cup Range(queue[c]) \cup ({taken[c]} \ {0}) \subseteq Range(trail)

(* A feed has no hole: what a client has been shown, is being sent and has *)
(* queued is what was broadcast for it since it subscribed, in that order; *)
(* for a client that was dropped for being slow, the first part of it.     *)
WantedBy(c) == {n \in Events : Wanted(c, n)}

OnTheWay(c) == IF taken[c] = 0 THEN <<>> ELSE <<taken[c]>>

FeedOf(c) == (shown[c] \o OnTheWay(c)) \o Kept(queue[c], WantedBy(c))

BroadcastFor(c) ==
  Kept(SubSeq(published, since[c] + 1, Len(published)), WantedBy(c))

FeedHasNoHole ==
  \A c \in Clients : stream[c] \notin {"unopened", "closed"} /\ c \notin gone =>
    /\ IsPrefix(FeedOf(c), BroadcastFor(c))
    /\ c \in subscribers => FeedOf(c) = BroadcastFor(c)

(* Whoever watches cannot hold up the work: a task that records an event   *)
(* goes on, though no client ever reads.                                   *)
WatchersNeverBlock == \A w \in Writers : writing[w] # 0 ~> writing[w] = 0

(* The bus forgets a client that is gone, also when nothing happens any    *)
(* more.                                                                   *)
GoneAreForgotten == \A c \in Clients : c \in gone ~> c \notin subscribers

(* An event in the queue of a client that reads is shown to it, unless it  *)
(* leaves.                                                                 *)
QueuedIsShown ==
  \A c \in Reading, n \in 1..MaxEvents :
    n \in Range(queue[c]) /\ Wanted(c, n) ~> n \in Range(shown[c]) \/ c \in gone
=============================================================================

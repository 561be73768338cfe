----------------------------- MODULE Dispatcher -----------------------------
(***************************************************************************)
(* Several callers of one employee: the dispatcher (api/dispatcher.py)     *)
(* with the chat and voice routes in front of it (api/routes_chat.py,      *)
(* api/routes_voice.py), the session rows and the checkpointed graph of    *)
(* each session behind it.                                                 *)
(*                                                                         *)
(* A call is one HTTP request.  Every await of the code that another       *)
(* coroutine can overtake ends a step; each session has one asyncio.Lock,  *)
(* which serves its waiters in order.  What a run of the graph does is     *)
(* SupportGraph; here it asks a question, settles the session or raises.   *)
(* A session is named after the call that starts it.  The voice calls      *)
(* belong to one conversation: they carry one bridge token.                *)
(***************************************************************************)
EXTENDS Naturals, Sequences

CONSTANTS
  Calls,         \* requests; each is sent once
  Confirming,    \* whether a question may ask for a confirmation
  MaxQuestions,  \* bound: questions the graph of one session raises
  MaxFaults      \* bound: failing store calls and crashes

None == "none"

ASSUME CallsAssumption == None \notin Calls

ASSUME BoundsAssumption ==
  Confirming \subseteq BOOLEAN /\ MaxQuestions \in Nat /\ MaxFaults \in Nat

VARIABLES
  row,       \* the support_sessions row of a session
  tickets,   \* the tickets that the fail-safe filed for it
  thread,    \* its checkpoint: does it know who asks, the pending question
  asked,     \* how many questions its graph has raised
  holder,    \* who holds its lock
  queue,     \* who waits for it, in order
  call,      \* the progress of each request
  faults,
  \* History.
  crowded,   \* the sessions that two requests worked on at a time
  raced      \* a voice lookup missed a session about to be created

store   == <<row, tickets>>
graph   == <<thread, asked>>
locks   == <<holder, queue>>
history == <<crowded, raced>>
vars    == <<store, graph, locks, call, faults, history>>

NoRow      == [status |-> None, terminal |-> None, voice |-> FALSE]
NoQuestion == [number |-> 0, confirms |-> FALSE]
NotSent    == [step |-> "new", session |-> None, voice |-> FALSE,
               seen |-> 0, answers |-> 0, reply |-> None]

Steps == {"new", "find", "create", "get", "store", "wait", "activate",
          "invoke", "inspect", "ticket", "fail", "done"}

(* The steps that run inside "async with _lock_for(session_id)".           *)
Critical == {"activate", "invoke", "inspect", "ticket", "fail"}

Replies == {"refused", "error", "question", "outcome", "failed", "unavailable", "lost"}

Row == [status : {None, "active", "waiting_employee", "settled", "failed"},
        terminal : {None, "settled", "failed"}, voice : BOOLEAN]

Question == [number : Nat, confirms : BOOLEAN]

Call == [step : Steps, session : Calls \cup {None}, voice : BOOLEAN,
         seen : Nat, answers : Nat, reply : Replies \cup {None}]

DispatcherTypeOK ==
  /\ row \in [Calls -> Row] /\ tickets \in [Calls -> Nat]
  /\ thread \in [Calls -> [known : BOOLEAN, question : Question]]
  /\ asked \in [Calls -> Nat]
  /\ holder \in [Calls -> Calls \cup {None}] /\ queue \in [Calls -> Seq(Calls)]
  /\ call \in [Calls -> Call]
  /\ faults \in Nat /\ crowded \subseteq Calls /\ raced \in BOOLEAN

Init ==
  /\ row = [s \in Calls |-> NoRow] /\ tickets = [s \in Calls |-> 0]
  /\ thread = [s \in Calls |-> [known |-> FALSE, question |-> NoQuestion]]
  /\ asked = [s \in Calls |-> 0]
  /\ holder = [s \in Calls |-> None] /\ queue = [s \in Calls |-> <<>>]
  /\ call = [c \in Calls |-> NotSent]
  /\ faults = 0 /\ crowded = {} /\ raced = FALSE

-----------------------------------------------------------------------------

At(c, step)    == call[c].step = step
InFlight(c)    == ~At(c, "new") /\ ~At(c, "done")
Session(c)     == call[c].session
WorkingOn(s)   == {c \in Calls : InFlight(c) /\ Session(c) = s}
Exists(s)      == row[s] # NoRow
Pending(s)     == thread[s].question

GoOn(c, step) == call' = [call EXCEPT ![c].step = step]

(* A request that is answered leaves nothing else behind.                  *)
Answered(reply) == [NotSent EXCEPT !.step = "done", !.reply = reply]

Done(c, reply) == call' = [call EXCEPT ![c] = Answered(reply)]

(* Request c turns to session s; others may be at work on it.              *)
TurnTo(c, s, step) ==
  /\ call' = [call EXCEPT ![c].session = s, ![c].step = step]
  /\ crowded' = IF WorkingOn(s) # {} THEN crowded \cup {s} ELSE crowded
  /\ UNCHANGED raced

-----------------------------------------------------------------------------
\* asyncio.Lock

Join(c, s) ==
  IF holder[s] = None
  THEN holder' = [holder EXCEPT ![s] = c] /\ UNCHANGED queue
  ELSE queue' = [queue EXCEPT ![s] = Append(@, c)] /\ UNCHANGED holder

(* Mutant: the lock is released on the way out that does not fail.         *)
ReleaseUnlessFailing(c) ==
  LET s == Session(c)
  IN IF At(c, "fail") \/ queue[s] = <<>>
     THEN holder' = [holder EXCEPT ![s] = IF At(c, "fail") THEN c ELSE None] /\ UNCHANGED queue
     ELSE /\ holder' = [holder EXCEPT ![s] = Head(queue[s])]
          /\ queue'  = [queue EXCEPT ![s] = Tail(@)]

Release(c) ==
  LET s == Session(c)
  IN IF queue[s] = <<>>
     THEN holder' = [holder EXCEPT ![s] = None] /\ UNCHANGED queue
     ELSE /\ holder' = [holder EXCEPT ![s] = Head(queue[s])]
          /\ queue'  = [queue EXCEPT ![s] = Tail(@)]

(* Mutant: the pending interrupt is read before the lock is taken.         *)
HoldsOrNot(c) == TRUE

Holds(c) == holder[Session(c)] = c

-----------------------------------------------------------------------------
\* The routes: a request arrives.

SendStart(c) ==
  /\ At(c, "new") /\ GoOn(c, "create")
  /\ UNCHANGED <<store, graph, locks, faults, history>>

(* A message or a confirmation for session s, typed by somebody who sees   *)
(* the confirmation that is pending now, if one is.  Voice clients may     *)
(* name the session too.                                                   *)
SendReply(c, s) ==
  /\ At(c, "new") /\ Exists(s)
  /\ call' = [call EXCEPT ![c].session = s, ![c].step = "get",
                          ![c].seen = IF Pending(s).confirms THEN Pending(s).number ELSE 0]
  /\ crowded' = IF WorkingOn(s) # {} THEN crowded \cup {s} ELSE crowded
  /\ UNCHANGED <<store, graph, locks, faults, raced>>

SendVoice(c) ==
  /\ At(c, "new")
  /\ call' = [call EXCEPT ![c].step = "find", ![c].voice = TRUE]
  /\ UNCHANGED <<store, graph, locks, faults, history>>

(* An expired token, no employee message, somebody else's session.         *)
Refuse(c) ==
  /\ At(c, "new") /\ Done(c, "refused")
  /\ UNCHANGED <<store, graph, locks, faults, history>>

(* Mutant: sessions that wait for their employee are not looked for.       *)
BusyVoiceSessions == {s \in Calls : row[s].voice /\ row[s].terminal = None
                                      /\ row[s].status # "waiting_employee"}

OpenVoiceSessions == {s \in Calls : row[s].voice /\ row[s].terminal = None}

(* Of several open sessions the query takes the one updated last; here it  *)
(* takes any.                                                              *)
FindVoice(c) ==
  /\ At(c, "find")
  /\ \/ \E s \in OpenVoiceSessions : TurnTo(c, s, "get")
     \/ /\ OpenVoiceSessions = {}
        /\ GoOn(c, "create")
        /\ raced' = (raced \/ \E d \in Calls : At(d, "create") /\ call[d].voice)
        /\ UNCHANGED crowded
  /\ UNCHANGED <<store, graph, locks, faults>>

-----------------------------------------------------------------------------
\* start_session and continue_session, up to the lock

CreateSession(c) ==
  /\ At(c, "create") /\ ~Exists(c)
  /\ row' = [row EXCEPT ![c] = [NoRow EXCEPT !.status = "active", !.voice = call[c].voice]]
  /\ TurnTo(c, c, "store")
  /\ UNCHANGED <<tickets, graph, locks, faults>>

(* Mutant: the check of the terminal status is dropped.                    *)
AnySessionOpen(c) ==
  /\ At(c, "get") /\ GoOn(c, "store")
  /\ UNCHANGED <<store, graph, locks, faults, history>>

CheckOpen(c) ==
  /\ At(c, "get")
  /\ IF row[Session(c)].terminal # None THEN Done(c, "refused") ELSE GoOn(c, "store")
  /\ UNCHANGED <<store, graph, locks, faults, history>>

(* The employee's message is stored and the request joins the lock.        *)
StoreMessage(c) ==
  /\ At(c, "store") /\ GoOn(c, "wait")
  /\ Join(c, Session(c))
  /\ UNCHANGED <<store, graph, faults, history>>

(* A store call before the lock raises: the request is a server error.     *)
StoreFails(c) ==
  /\ call[c].step \in {"find", "create", "get", "store"} /\ faults < MaxFaults
  /\ Done(c, "error") /\ faults' = faults + 1
  /\ UNCHANGED <<store, graph, locks, history>>

-----------------------------------------------------------------------------
\* Under the lock

Starts(c) == Session(c) = c

BeginStart(c) ==
  /\ At(c, "wait") /\ Holds(c) /\ Starts(c)
  /\ GoOn(c, "invoke")
  /\ UNCHANGED <<store, graph, locks, faults, history>>

(* The pending interrupt decides between Command(resume) and a new input.  *)
LookAtPending(c) ==
  /\ At(c, "wait") /\ Holds(c) /\ ~Starts(c)
  /\ IF Pending(Session(c)) # NoQuestion
     THEN call' = [call EXCEPT ![c].step = "invoke", ![c].answers = Pending(Session(c)).number]
     ELSE GoOn(c, "activate")
  /\ UNCHANGED <<store, graph, locks, faults, history>>

Activate(c) ==
  /\ At(c, "activate") /\ GoOn(c, "invoke")
  /\ row' = [row EXCEPT ![Session(c)].status = "active"]
  /\ UNCHANGED <<tickets, graph, locks, faults, history>>

(* The input of a message that starts no session names no employee: the    *)
(* state is valid only if an earlier input did.                            *)
Identified(c) == Starts(c) \/ thread[Session(c)].known

RunAsks(c) ==
  LET s == Session(c)
      n == asked[s] + 1
  IN /\ At(c, "invoke") /\ Identified(c) /\ n <= MaxQuestions
     /\ \E confirms \in Confirming :
          thread' = [thread EXCEPT ![s] = [known |-> TRUE,
                                           question |-> [number |-> n, confirms |-> confirms]]]
     /\ asked' = [asked EXCEPT ![s] = n]
     /\ row' = [row EXCEPT ![s].status = "waiting_employee"]
     /\ GoOn(c, "inspect")
     /\ UNCHANGED <<tickets, locks, faults, history>>

(* What a run that does not return leaves of its session: the checkpoint   *)
(* it began from, or a later one, and in either case what the next node    *)
(* committed to the row before it stopped (Interrupted of SupportGraph).   *)
StatusNow(s, status) == [row[s] EXCEPT !.status = status]

SettledRow(s) == [row[s] EXCEPT !.status = "settled", !.terminal = "settled"]

Begun(s) == [thread : {thread[s]}, row : {row[s], StatusNow(s, "active")}]

Advanced(s) ==
  [thread : {[known |-> TRUE, question |-> NoQuestion]},
   row : {StatusNow(s, "active"), StatusNow(s, "waiting_employee"), SettledRow(s)}]

LeftBehind(s) == Begun(s) \cup Advanced(s)

RunSettles(c) ==
  LET s == Session(c)
  IN /\ At(c, "invoke") /\ Identified(c)
     /\ thread' = [thread EXCEPT ![s] = [known |-> TRUE, question |-> NoQuestion]]
     /\ row' = [row EXCEPT ![s] = SettledRow(s)]
     /\ GoOn(c, "inspect")
     /\ UNCHANGED <<asked, tickets, locks, faults, history>>

(* A node raises; one that does not know who asks does so at once.         *)
RunRaises(c) ==
  LET s == Session(c)
  IN /\ At(c, "invoke")
     /\ \E left \in (IF Identified(c) THEN LeftBehind(s) ELSE Begun(s)) :
          /\ thread' = [thread EXCEPT ![s] = left.thread]
          /\ row' = [row EXCEPT ![s] = left.row]
     /\ GoOn(c, "ticket")
     /\ UNCHANGED <<asked, tickets, locks, faults, history>>

(* Mutant: the question the run was resumed with is reported again.        *)
ReportOldQuestion(s, c) == IF call[c].answers # 0 THEN "question" ELSE "outcome"

Report(s, c) == IF Pending(s) # NoQuestion THEN "question" ELSE "outcome"

Inspect(c) ==
  /\ At(c, "inspect") /\ Done(c, Report(Session(c), c)) /\ Release(c)
  /\ UNCHANGED <<store, graph, faults, history>>

(* The checkpointer, or the store, does not answer before the run or after *)
(* it: the fail-safe takes over.                                           *)
LookFails(c) ==
  /\ \/ At(c, "wait") /\ Holds(c) /\ ~Starts(c)
     \/ call[c].step \in {"activate", "inspect"}
  /\ faults < MaxFaults
  /\ GoOn(c, "ticket") /\ faults' = faults + 1
  /\ UNCHANGED <<store, graph, locks, history>>

-----------------------------------------------------------------------------
\* _fail_safe

FileTicket(c) ==
  /\ At(c, "ticket") /\ GoOn(c, "fail")
  /\ tickets' = [tickets EXCEPT ![Session(c)] = @ + 1]
  /\ UNCHANGED <<row, graph, locks, faults, history>>

(* Mutant: the row says failed and stays open.                             *)
FailedNotTerminal(s) == row' = [row EXCEPT ![s].status = "failed"]

MarkFailed(s) == row' = [row EXCEPT ![s].status = "failed", ![s].terminal = "failed"]

FailSession(c) ==
  /\ At(c, "fail") /\ Done(c, "failed") /\ Release(c)
  /\ MarkFailed(Session(c))
  /\ UNCHANGED <<tickets, graph, faults, history>>

(* The store goes down before the row is written, or after.                *)
FailSafeFails(c) ==
  /\ call[c].step \in {"ticket", "fail"} /\ faults < MaxFaults
  /\ Done(c, "unavailable") /\ Release(c) /\ faults' = faults + 1
  /\ (At(c, "fail") /\ MarkFailed(Session(c))) \/ UNCHANGED row
  /\ UNCHANGED <<tickets, graph, history>>

-----------------------------------------------------------------------------

(* The sessions whose graph a request is running.                          *)
Running == {s \in Calls : \E c \in Calls : At(c, "invoke") /\ Identified(c) /\ Session(c) = s}

(* The process dies: requests and locks are gone, rows and checkpoints     *)
(* stay as the runs in progress leave them.                                *)
Crash ==
  /\ faults < MaxFaults /\ faults' = faults + 1
  /\ call' = [c \in Calls |-> IF InFlight(c) THEN Answered("lost") ELSE call[c]]
  /\ holder' = [s \in Calls |-> None] /\ queue' = [s \in Calls |-> <<>>]
  /\ \E left \in [Running -> UNION {LeftBehind(s) : s \in Running}] :
       /\ \A s \in Running : left[s] \in LeftBehind(s)
       /\ thread' = [s \in Calls |-> IF s \in Running THEN left[s].thread ELSE thread[s]]
       /\ row' = [s \in Calls |-> IF s \in Running THEN left[s].row ELSE row[s]]
  /\ UNCHANGED <<tickets, asked, history>>

Send(c) ==
  \/ SendStart(c) \/ SendVoice(c) \/ Refuse(c)
  \/ \E s \in Calls : SendReply(c, s)

(* What request c does when the event loop runs it.                        *)
Work(c) ==
  \/ FindVoice(c) \/ CreateSession(c) \/ CheckOpen(c) \/ StoreMessage(c)
  \/ BeginStart(c) \/ LookAtPending(c) \/ Activate(c)
  \/ RunAsks(c) \/ RunSettles(c) \/ RunRaises(c) \/ Inspect(c)
  \/ FileTicket(c) \/ FailSession(c)

Fault(c) == StoreFails(c) \/ LookFails(c) \/ FailSafeFails(c)

Next ==
  \/ \E c \in Calls : Send(c) \/ Work(c) \/ Fault(c)
  \/ Crash

Spec == Init /\ [][Next]_vars

(* The event loop runs every coroutine that is ready, and every run of the *)
(* graph returns (RunSettles of SupportGraph).                             *)
FairSpec == Spec /\ \A c \in Calls : WF_vars(Work(c))

-----------------------------------------------------------------------------

(* The answer a run is resumed with goes to the question that was found    *)
(* pending under the lock: no other run of the session comes between the   *)
(* look and the resume, whatever is queued, fails or is lost.              *)
ResumesWhatItFound ==
  \A c \in Calls : (At(c, "invoke") /\ call[c].answers # 0) =>
    Pending(Session(c)).number = call[c].answers

(* A session at rest with no fault behind it is open only if it waits for  *)
(* an answer it can take; if two requests never met on it, it is settled   *)
(* only with no question left that nobody could answer any more.           *)
AtRest(s) == Exists(s) /\ WorkingOn(s) = {}

RestsAnswerable ==
  faults = 0 => \A s \in Calls : AtRest(s) =>
    /\ row[s].terminal = None =>
         Pending(s) # NoQuestion /\ row[s].status = "waiting_employee"
    /\ (row[s].terminal = "settled" /\ s \notin crowded) => Pending(s) = NoQuestion

(* A voice conversation has one open session, unless one lookup missed the *)
(* session that another was about to create; crashes, failed runs and      *)
(* sessions entered again after they were settled do not make a second.    *)
OneVoiceSession ==
  raced \/ \A s, t \in Calls :
    /\ row[s].voice /\ row[s].terminal = None
    /\ row[t].voice /\ row[t].terminal = None
    => s = t

(* What a request is told is what the store and the checkpoint say when it *)
(* is told: a question is pending, in a session that takes an answer if no *)
(* two requests met on it; an outcome is on the row; a failure has its     *)
(* ticket and its row.                                                     *)
RepliesAreTrue ==
  [][\A c \in Calls : (call'[c].reply # call[c].reply) =>
       LET s == Session(c) IN
       CASE call'[c].reply = "question" ->
              /\ thread'[s].question # NoQuestion
              /\ row'[s].terminal = None \/ s \in crowded \/ faults > 0
         [] call'[c].reply = "outcome" -> row'[s].terminal # None
         [] call'[c].reply = "failed"  -> tickets'[s] > 0 /\ row'[s].terminal = "failed"
         [] OTHER -> TRUE]_vars

(* Every request that was sent is answered in the end, however many wait   *)
(* for the same session and whatever fails in front of them: again and     *)
(* again nothing is in flight.                                             *)
RequestsDrain == []<>(\A c \in Calls : ~InFlight(c))

-----------------------------------------------------------------------------
\* What the repository says and the code does not keep.

(* README.md:45: a privileged action is performed only after "getting the  *)
(* employee's explicit confirmation".  An answer typed before a            *)
(* confirmation was asked, and queued behind the run that asks it, resumes *)
(* that confirmation.                                                      *)
ConfirmsWhatWasSeen ==
  [][\A c \in Calls : (At(c, "wait") /\ call'[c].step = "invoke" /\ call'[c].answers # 0
                        /\ Pending(Session(c)).confirms)
       => call[c].seen = call'[c].answers]_vars
=============================================================================

-------------------------- MODULE DispatcherProofs --------------------------
(***************************************************************************)
(* Theorems about Dispatcher, for any number of requests, questions and    *)
(* faults: type correctness, what the session lock is for, the voice       *)
(* conversation's one session, what sessions at rest and replies say, and  *)
(* the contract that each session keeps.                                   *)
(***************************************************************************)
EXTENDS DispatchRefinement, TLAPS

Placed == Steps \ {"new", "find", "create", "done"}

(* A request that is past its lookup has a session; whoever is inside the  *)
(* lock holds it; only a resumed run has a question to answer.             *)
CallOK(c) ==
  /\ call[c].step \in Placed => Session(c) \in Calls
  /\ call[c].step \in Critical => Holds(c)
  /\ call[c].answers # 0 => call[c].step \in {"invoke", "inspect", "ticket", "fail"}
  /\ At(c, "new") => ~call[c].voice

CallsOK == \A c \in Calls : CallOK(c)

BaseInv == DispatcherTypeOK /\ CallsOK /\ ResumesWhatItFound

-----------------------------------------------------------------------------
\* How the building blocks of the steps change the requests and locks.

(* The names of the steps and the shape of a request.                      *)
LEMMA CallTypes ==
  ASSUME DispatcherTypeOK, NEW c \in Calls
  PROVE  /\ call[c] \in Call /\ call[c].step \in Steps /\ call[c].answers \in Nat
         /\ call[c].voice \in BOOLEAN /\ call[c].seen \in Nat
         /\ call[c].session \in Calls \cup {None} /\ call[c].reply \in Replies \cup {None}
         /\ Answered("lost") \in Call
BY DEF DispatcherTypeOK, Call, Answered, NotSent, Steps, Replies

(* A request goes on to another step and keeps the rest.                   *)
LEMMA GoOnChanges ==
  ASSUME DispatcherTypeOK, NEW c \in Calls, NEW step \in Steps, GoOn(c, step)
  PROVE  /\ call' \in [Calls -> Call]
         /\ call'[c].step = step /\ call'[c].session = call[c].session
         /\ call'[c].answers = call[c].answers /\ call'[c].voice = call[c].voice
         /\ \A d \in Calls \ {c} : call'[d] = call[d]
<1> DEFINE new == [call[c] EXCEPT !.step = step]
<1>1. call[c] \in Call /\ call \in [Calls -> Call]
  BY DEF DispatcherTypeOK
<1>2. /\ new \in Call /\ new.step = step /\ new.session = call[c].session
      /\ new.answers = call[c].answers /\ new.voice = call[c].voice
  BY <1>1 DEF Call
<1>3. call' = [call EXCEPT ![c] = new]
  BY <1>1 DEF GoOn
<1> HIDE DEF new
<1> QED
  BY <1>1, <1>2, <1>3

(* A request is answered.                                                  *)
LEMMA DoneChanges ==
  ASSUME DispatcherTypeOK, NEW c \in Calls, NEW reply \in Replies, Done(c, reply)
  PROVE  /\ call' \in [Calls -> Call]
         /\ call'[c].step = "done" /\ call'[c].answers = 0
         /\ \A d \in Calls \ {c} : call'[d] = call[d]
BY DEF DispatcherTypeOK, Call, Done, Answered, NotSent, Steps

(* A request turns to a session.                                           *)
LEMMA TurnToChanges ==
  ASSUME DispatcherTypeOK, NEW c \in Calls, NEW s \in Calls, NEW step \in Steps,
         TurnTo(c, s, step)
  PROVE  /\ call' \in [Calls -> Call] /\ crowded' \subseteq Calls
         /\ call'[c].step = step /\ call'[c].session = s
         /\ call'[c].answers = call[c].answers /\ call'[c].voice = call[c].voice
         /\ \A d \in Calls \ {c} : call'[d] = call[d]
BY ZenonT(60) DEF DispatcherTypeOK, Call, TurnTo

(* Joining and releasing a lock keeps its types; nobody but the releasing  *)
(* request stops holding a lock.                                           *)
LEMMA LockTypes ==
  ASSUME DispatcherTypeOK, NEW c \in Calls, NEW s \in Calls, Session(c) = s,
         Join(c, s) \/ Release(c)
  PROVE  /\ holder' \in [Calls -> Calls \cup {None}] /\ queue' \in [Calls -> Seq(Calls)]
         /\ \A t \in Calls \ {s} : holder'[t] = holder[t]
<1>1. queue[s] \in Seq(Calls) /\ holder \in [Calls -> Calls \cup {None}]
      /\ queue \in [Calls -> Seq(Calls)]
  BY DEF DispatcherTypeOK
<1>2. CASE Join(c, s)
  <2>1. Append(queue[s], c) \in Seq(Calls)
    BY <1>1
  <2>2. QED
    BY <1>1, <1>2, <2>1 DEF Join
<1>3. CASE Release(c)
  <2>1. queue[s] # <<>> => Head(queue[s]) \in Calls /\ Tail(queue[s]) \in Seq(Calls)
    BY <1>1
  <2>2. QED
    BY <1>1, <1>3, <2>1 DEF Release
<1>4. QED
  BY <1>2, <1>3

(* The row of s is rewritten: it keeps its channel, and stays terminal.    *)
RowWritten(s) ==
  \E new \in Row : /\ row' = [row EXCEPT ![s] = new] /\ new.voice = row[s].voice
                   /\ row[s].terminal # None => new.terminal # None

(* What a run that stops leaves of its session: a settled row asks nothing.*)
LEMMA LeftTypes ==
  ASSUME DispatcherTypeOK, NEW s \in Calls, NEW left \in LeftBehind(s)
  PROVE  /\ left.row \in Row /\ left.row.voice = row[s].voice
         /\ left.row.terminal \in {row[s].terminal, "settled"}
         /\ left.thread \in [known : BOOLEAN, question : Question]
         /\ left.thread.question \in {Pending(s), NoQuestion}
         /\ left.row.terminal = row[s].terminal \/ left.thread.question = NoQuestion
<1>1. /\ row[s] \in Row /\ thread[s] \in [known : BOOLEAN, question : Question]
      /\ NoQuestion \in Question
  BY DEF DispatcherTypeOK, NoQuestion, Question
<1>2. ASSUME NEW status \in {"active", "waiting_employee"}
      PROVE  /\ StatusNow(s, status) \in Row /\ StatusNow(s, status).voice = row[s].voice
             /\ StatusNow(s, status).terminal = row[s].terminal
  BY <1>1 DEF StatusNow, Row
<1>3. /\ SettledRow(s) \in Row /\ SettledRow(s).voice = row[s].voice
      /\ SettledRow(s).terminal = "settled"
  BY <1>1 DEF SettledRow, Row
<1>4. CASE left \in Begun(s)
  BY <1>1, <1>2, <1>4 DEF Begun, Pending
<1>5. CASE left \in Advanced(s)
  <2>1. /\ left.thread = [known |-> TRUE, question |-> NoQuestion]
        /\ left.row \in {StatusNow(s, "active"), StatusNow(s, "waiting_employee"), SettledRow(s)}
    BY <1>5 DEF Advanced
  <2>2. CASE left.row = SettledRow(s)
    BY <1>1, <1>3, <2>1, <2>2
  <2>3. CASE left.row # SettledRow(s)
    BY <1>1, <1>2, <2>1, <2>3
  <2> QED
    BY <2>2, <2>3
<1> QED
  BY <1>4, <1>5 DEF LeftBehind

(* The steps that may write the row of the session they serve.             *)
LEMMA RowWriters ==
  ASSUME DispatcherTypeOK, NEW c \in Calls, NEW s \in Calls, Session(c) = s,
         \/ Activate(c) \/ RunAsks(c) \/ RunSettles(c) \/ RunRaises(c)
         \/ FailSession(c) \/ FailSafeFails(c)
  PROVE  RowWritten(s)
<1>1. row \in [Calls -> Row] /\ row[s] \in Row
  BY DEF DispatcherTypeOK
<1>2. ASSUME NEW status \in {"active", "waiting_employee"},
             row' = [row EXCEPT ![s].status = status]
      PROVE  RowWritten(s)
  <2> DEFINE new == [row[s] EXCEPT !.status = status]
  <2>1. new \in Row /\ new.voice = row[s].voice /\ new.terminal = row[s].terminal
    BY <1>1 DEF Row
  <2>2. row' = [row EXCEPT ![s] = new]
    BY <1>2
  <2> HIDE DEF new
  <2> QED
    BY <2>1, <2>2 DEF RowWritten
<1>3. ASSUME NEW end \in {"settled", "failed"}, NEW new,
             row' = [row EXCEPT ![s] = new],
             new = [row[s] EXCEPT !.status = end, !.terminal = end]
      PROVE  RowWritten(s)
  <2>1. new \in Row /\ new.voice = row[s].voice /\ new.terminal # None
    BY <1>1, <1>3 DEF Row, None
  <2> QED
    BY <1>3, <2>1 DEF RowWritten
<1>4. CASE Activate(c) \/ RunAsks(c)
  BY <1>2, <1>4 DEF Activate, RunAsks
<1>5. CASE RunSettles(c)
  BY <1>3, <1>5 DEF RunSettles, SettledRow
<1>6. CASE RunRaises(c)
  <2>1. PICK left \in LeftBehind(s) : row' = [row EXCEPT ![s] = left.row]
    BY <1>6 DEF RunRaises, LeftBehind
  <2>2. /\ left.row \in Row /\ left.row.voice = row[s].voice
        /\ left.row.terminal \in {row[s].terminal, "settled"}
    BY <2>1, LeftTypes
  <2> QED
    BY <2>1, <2>2 DEF RowWritten, None
<1>7. ASSUME MarkFailed(s) PROVE RowWritten(s)
  <2> DEFINE new == [row[s] EXCEPT !.status = "failed", !.terminal = "failed"]
  <2>1. row' = [row EXCEPT ![s] = new]
    BY <1>1, <1>7 DEF MarkFailed
  <2> QED
    BY <1>3, <2>1
<1>8. CASE row' = row
  BY <1>1, <1>8 DEF RowWritten
<1> QED
  BY <1>4, <1>5, <1>6, <1>7, <1>8 DEF FailSession, FailSafeFails

(* A write to a row keeps whose call it is, and a settled row settled.     *)
LEMMA RowWrites ==
  ASSUME DispatcherTypeOK, NEW s \in Calls, RowWritten(s)
  PROVE  /\ row' \in [Calls -> Row]
         /\ \A t \in Calls \ {s} : row'[t] = row[t]
         /\ \A t \in Calls : /\ row'[t].voice = row[t].voice
                             /\ row[t].terminal # None => row'[t].terminal # None
BY DEF DispatcherTypeOK, RowWritten

(* A lock that somebody holds is not taken from them.                      *)
LEMMA JoinKeepsHolder ==
  ASSUME DispatcherTypeOK, NEW c \in Calls, NEW s \in Calls, Join(c, s)
  PROVE  \A t \in Calls : holder[t] # None => holder'[t] = holder[t]
BY DEF DispatcherTypeOK, Join

-----------------------------------------------------------------------------
\* The frame of a step of c: what it must not disturb of the others.

Framed(c) ==
  /\ call' \in [Calls -> Call]
  /\ \A d \in Calls \ {c} : call'[d] = call[d]
  /\ \A t \in Calls : (holder[t] \notin {c, None}) => holder'[t] = holder[t]
  /\ \A t \in Calls : thread'[t] # thread[t] => holder[t] = c

(* The other requests stay in order, and so does what they resume.         *)
LEMMA OthersKept ==
  ASSUME BaseInv, NEW c \in Calls, Framed(c), NEW d \in Calls \ {c}
  PROVE  /\ CallOK(d)'
         /\ (At(d, "invoke") /\ call[d].answers # 0)'
              => (Pending(Session(d)).number = call[d].answers)'
<1>1. call'[d] = call[d] /\ CallOK(d) /\ c # None /\ d # None
  BY CallsAssumption DEF BaseInv, CallsOK, Framed
<1>2. call[d].step \in Critical => /\ Session(d) \in Calls
                                   /\ holder[Session(d)] = d /\ holder'[Session(d)] = d
  BY <1>1 DEF CallOK, Holds, Session, Framed, Critical, Placed, Steps
<1>3. CallOK(d)'
  BY <1>1, <1>2 DEF CallOK, Holds, Session, At
<1>4. ASSUME (At(d, "invoke") /\ call[d].answers # 0)'
      PROVE  (Pending(Session(d)).number = call[d].answers)'
  <2>1. At(d, "invoke") /\ call[d].answers # 0
    BY <1>1, <1>4 DEF At
  <2>2. thread'[Session(d)] = thread[Session(d)]
    BY <1>2, <2>1 DEF At, Critical, Framed
  <2>3. QED
    BY <1>1, <2>1, <2>2 DEF BaseInv, ResumesWhatItFound, Pending, Session
<1>5. QED
  BY <1>3, <1>4

(* A step of c that frames the others and leaves c in order is in order.   *)
LEMMA StepInOrder ==
  ASSUME BaseInv, NEW c \in Calls, Framed(c), CallOK(c)',
         (At(c, "invoke") /\ call[c].answers # 0)'
              => (Pending(Session(c)).number = call[c].answers)'
  PROVE  CallsOK' /\ ResumesWhatItFound'
BY OthersKept DEF CallsOK, ResumesWhatItFound

-----------------------------------------------------------------------------
\* One lemma per group of actions.

(* Steps that change the requests only.                                    *)
LEMMA PlainBase ==
  ASSUME BaseInv, NEW c \in Calls,
         \/ SendStart(c) \/ SendVoice(c) \/ Refuse(c) \/ CheckOpen(c) \/ BeginStart(c)
  PROVE  BaseInv'
<1> USE DEF At, Session
<1>1. DispatcherTypeOK /\ CallOK(c) /\ call[c] \in Call
  BY CallTypes DEF BaseInv, CallsOK
<1>2. UNCHANGED <<store, graph, locks, faults, history>>
  BY DEF SendStart, SendVoice, Refuse, CheckOpen, BeginStart
<1>3. /\ call' \in [Calls -> Call]
      /\ \A d \in Calls \ {c} : call'[d] = call[d]
      /\ call'[c].answers = 0
      /\ \/ call'[c].step \in {"create", "find", "done"}
         \/ /\ call'[c].step \in {"store", "invoke"} /\ call'[c].session \in Calls
            /\ call'[c].step = "invoke" => holder[call'[c].session] = c
  <2>1. CASE SendStart(c)
    BY <1>1, <2>1, GoOnChanges DEF SendStart, CallOK, Steps
  <2>2. CASE SendVoice(c)
    BY <1>1, <2>2 DEF SendVoice, CallOK, DispatcherTypeOK, Call, Steps
  <2>3. CASE Refuse(c)
    BY <1>1, <2>3, DoneChanges DEF Refuse, Replies
  <2>4. CASE CheckOpen(c)
    <3>1. CASE Done(c, "refused")
      BY <1>1, <3>1, DoneChanges DEF Replies
    <3>2. CASE GoOn(c, "store")
      BY <1>1, <2>4, <3>2, GoOnChanges DEF CheckOpen, CallOK, Steps, Placed
    <3>3. QED
      BY <2>4, <3>1, <3>2 DEF CheckOpen
  <2>5. CASE BeginStart(c)
    BY <1>1, <2>5, GoOnChanges DEF BeginStart, CallOK, Steps, Placed, Holds
  <2>6. QED
    BY <2>1, <2>2, <2>3, <2>4, <2>5
<1>4. DispatcherTypeOK'
  BY <1>1, <1>2, <1>3 DEF DispatcherTypeOK, store, graph, locks, history
<1>5. Framed(c)
  BY <1>2, <1>3 DEF Framed, locks, graph
<1>6. CallOK(c)'
  BY <1>2, <1>3 DEF CallOK, Holds, Critical, Placed, Steps, locks
<1>7. QED
  BY <1>3, <1>4, <1>5, <1>6, StepInOrder DEF BaseInv

(* Steps by which a request comes to a session.                            *)
LEMMA PlacingBase ==
  ASSUME BaseInv, NEW c \in Calls,
         FindVoice(c) \/ CreateSession(c) \/ \E s \in Calls : SendReply(c, s)
  PROVE  BaseInv'
<1> USE DEF At, Session
<1>1. DispatcherTypeOK /\ CallOK(c) /\ call[c] \in Call
  BY CallTypes DEF BaseInv, CallsOK
<1>2. /\ call[c].answers = 0 /\ UNCHANGED <<graph, locks, faults, tickets>>
      /\ row' \in [Calls -> Row] /\ raced' \in BOOLEAN
  <2>1. CASE CreateSession(c)
    BY <1>1, <2>1
       DEF CreateSession, TurnTo, CallOK, DispatcherTypeOK, Row, NoRow, Call
  <2>2. CASE FindVoice(c) \/ \E s \in Calls : SendReply(c, s)
    BY <1>1, <2>2 DEF FindVoice, TurnTo, SendReply, CallOK, DispatcherTypeOK, store
  <2>3. QED
    BY <2>1, <2>2
<1> DEFINE Shape ==
         /\ call' \in [Calls -> Call] /\ crowded' \subseteq Calls
         /\ \A d \in Calls \ {c} : call'[d] = call[d]
         /\ call'[c].answers = 0
         /\ \/ call'[c].step = "create"
            \/ call'[c].step \in {"get", "store"} /\ call'[c].session \in Calls
<1>3. Shape
  <2>1. ASSUME NEW s \in Calls, NEW step \in {"get", "store"}, TurnTo(c, s, step)
        PROVE  Shape
    BY <1>1, <1>2, <2>1, TurnToChanges DEF Steps
  <2>2. CASE FindVoice(c)
    <3>1. CASE \E s \in OpenVoiceSessions : TurnTo(c, s, "get")
      BY <2>1, <3>1 DEF OpenVoiceSessions
    <3>2. CASE GoOn(c, "create") /\ UNCHANGED crowded
      BY <1>1, <1>2, <3>2, GoOnChanges DEF Steps, DispatcherTypeOK
    <3>3. QED
      BY <2>2, <3>1, <3>2 DEF FindVoice
  <2>3. CASE CreateSession(c)
    BY <2>1, <2>3 DEF CreateSession
  <2>4. ASSUME NEW s \in Calls, SendReply(c, s) PROVE Shape
    <3>1. Pending(s).number \in Nat
      BY <1>1 DEF DispatcherTypeOK, Pending, Question
    <3>2. QED
      BY ZenonT(60), <1>1, <1>2, <2>4, <3>1 DEF SendReply, DispatcherTypeOK, Call, Steps
  <2>5. QED
    BY <2>2, <2>3, <2>4
<1>4. DispatcherTypeOK'
  BY <1>1, <1>2, <1>3 DEF DispatcherTypeOK, graph, locks
<1>5. Framed(c)
  BY <1>2, <1>3 DEF Framed, locks, graph
<1>6. CallOK(c)'
  BY <1>3 DEF CallOK, Critical, Placed
<1>7. QED
  BY <1>3, <1>4, <1>5, <1>6, StepInOrder DEF BaseInv

(* The message is stored and the request queues for the lock.              *)
LEMMA StoreMessageBase ==
  ASSUME BaseInv, NEW c \in Calls, StoreMessage(c)
  PROVE  BaseInv'
<1> USE DEF At, Session
<1>1. /\ DispatcherTypeOK /\ CallOK(c) /\ call[c].session \in Calls /\ call[c].answers = 0
  BY DEF BaseInv, CallsOK, CallOK, StoreMessage, Placed, Steps
<1>2. /\ call' \in [Calls -> Call] /\ call'[c].step = "wait" /\ call'[c].answers = 0
      /\ call'[c].session = call[c].session
      /\ \A d \in Calls \ {c} : call'[d] = call[d]
  BY <1>1, GoOnChanges DEF StoreMessage, Steps
<1>3. /\ holder' \in [Calls -> Calls \cup {None}] /\ queue' \in [Calls -> Seq(Calls)]
      /\ \A t \in Calls : holder[t] # None => holder'[t] = holder[t]
  BY <1>1, LockTypes, JoinKeepsHolder DEF StoreMessage
<1>4. DispatcherTypeOK'
  BY <1>1, <1>2, <1>3 DEF StoreMessage, DispatcherTypeOK, store, graph, history
<1>5. Framed(c)
  BY <1>2, <1>3 DEF Framed, StoreMessage, graph
<1>6. CallOK(c)'
  BY <1>1, <1>2 DEF CallOK, Critical, Placed, Steps
<1>7. QED
  BY <1>2, <1>4, <1>5, <1>6, StepInOrder DEF BaseInv

(* The request looks at what is pending, and remembers which question.     *)
LEMMA LookBase ==
  ASSUME BaseInv, NEW c \in Calls, LookAtPending(c)
  PROVE  BaseInv'
<1> USE DEF At, Session
<1>1. /\ DispatcherTypeOK /\ CallOK(c) /\ call[c].session \in Calls /\ call[c].answers = 0
      /\ call[c] \in Call
  BY CallTypes DEF BaseInv, CallsOK, CallOK, LookAtPending, Placed, Steps
<1>2. Pending(call[c].session).number \in Nat
  BY <1>1 DEF DispatcherTypeOK, Pending, Question
<1>3. /\ call' \in [Calls -> Call] /\ call'[c].session = call[c].session
      /\ \A d \in Calls \ {c} : call'[d] = call[d]
      /\ \/ call'[c].step = "activate" /\ call'[c].answers = 0
         \/ call'[c].step = "invoke" /\ call'[c].answers = Pending(call[c].session).number
  <2>1. CASE GoOn(c, "activate")
    BY <1>1, <2>1, GoOnChanges DEF Steps
  <2>2. CASE call' = [call EXCEPT ![c].step = "invoke",
                                  ![c].answers = Pending(Session(c)).number]
    BY <1>1, <1>2, <2>2 DEF DispatcherTypeOK, Call, Steps
  <2>3. QED
    BY <2>1, <2>2 DEF LookAtPending
<1>4. UNCHANGED <<store, graph, locks, faults, history>>
  BY DEF LookAtPending
<1>5. DispatcherTypeOK'
  BY <1>1, <1>3, <1>4 DEF DispatcherTypeOK, store, graph, locks, history
<1>6. Framed(c)
  BY <1>3, <1>4 DEF Framed, locks, graph
<1>7. CallOK(c)'
  BY <1>1, <1>3, <1>4 DEF CallOK, LookAtPending, Holds, Critical, Placed, Steps, locks
<1>8. (call'[c].step = "invoke" /\ call'[c].answers # 0)
         => thread'[call'[c].session].question.number = call'[c].answers
  BY <1>3, <1>4 DEF Pending, graph
<1>9. QED
  BY <1>5, <1>6, <1>7, <1>8, StepInOrder DEF BaseInv, Pending

(* The row is marked active; the lock is held and nothing is resumed.      *)
LEMMA ActivateBase ==
  ASSUME BaseInv, NEW c \in Calls, Activate(c)
  PROVE  BaseInv'
<1> USE DEF At, Session
<1>1. /\ DispatcherTypeOK /\ CallOK(c) /\ call[c].session \in Calls /\ call[c].answers = 0
      /\ holder[call[c].session] = c
  BY DEF BaseInv, CallsOK, CallOK, Activate, Placed, Steps, Critical, Holds
<1>2. /\ call' \in [Calls -> Call] /\ call'[c].step = "invoke" /\ call'[c].answers = 0
      /\ call'[c].session = call[c].session
      /\ \A d \in Calls \ {c} : call'[d] = call[d]
  BY <1>1, GoOnChanges DEF Activate, Steps
<1>3. DispatcherTypeOK'
  BY ZenonT(60), <1>1, <1>2 DEF Activate, DispatcherTypeOK, Row, graph, locks, history
<1>4. Framed(c)
  BY <1>2 DEF Framed, Activate, locks, graph
<1>5. CallOK(c)'
  BY <1>1, <1>2 DEF CallOK, Activate, Holds, Critical, Placed, Steps, locks
<1>6. QED
  BY <1>2, <1>3, <1>4, <1>5, StepInOrder DEF BaseInv

(* A run of the graph ends in one of its three ways: the thread of the     *)
(* session changes, which the lock has to itself.                          *)
LEMMA RunBase ==
  ASSUME BaseInv, NEW c \in Calls, RunAsks(c) \/ RunSettles(c) \/ RunRaises(c)
  PROVE  BaseInv'
<1> USE DEF At, Session
<1> DEFINE s == call[c].session
<1>1. /\ DispatcherTypeOK /\ CallOK(c) /\ s \in Calls /\ holder[s] = c
  BY DEF BaseInv, CallsOK, CallOK, RunAsks, RunSettles, RunRaises, Placed, Steps, Critical, Holds
<1>2. /\ call' \in [Calls -> Call] /\ call'[c].step \in {"inspect", "ticket"}
      /\ call'[c].session = s /\ \A d \in Calls \ {c} : call'[d] = call[d]
  BY <1>1, GoOnChanges DEF RunAsks, RunSettles, RunRaises, Steps
<1>3. /\ row' \in [Calls -> Row] /\ asked' \in [Calls -> Nat]
      /\ UNCHANGED <<tickets, locks, faults, history>>
  <2>1. RowWritten(s)
    BY <1>1, RowWriters
  <2>2. row' \in [Calls -> Row]
    BY <1>1, <2>1, RowWrites
  <2>3. asked' \in [Calls -> Nat] /\ UNCHANGED <<tickets, locks, faults, history>>
    <3>1. CASE RunAsks(c)
      <4>1. asked' = [asked EXCEPT ![s] = asked[s] + 1]
        BY <3>1 DEF RunAsks
      <4>2. asked \in [Calls -> Nat] /\ asked[s] + 1 \in Nat
        BY <1>1 DEF DispatcherTypeOK
      <4> QED
        BY <3>1, <4>1, <4>2 DEF RunAsks
    <3>2. CASE RunSettles(c) \/ RunRaises(c)
      BY <1>1, <3>2 DEF RunSettles, RunRaises, DispatcherTypeOK
    <3> QED
      BY <3>1, <3>2
  <2>4. QED
    BY <2>2, <2>3
<1>4. /\ thread' \in [Calls -> [known : BOOLEAN, question : Question]]
      /\ \A t \in Calls \ {s} : thread'[t] = thread[t]
  <2>1. NoQuestion \in Question /\ asked[s] + 1 \in Nat
    BY <1>1 DEF DispatcherTypeOK, NoQuestion, Question
  <2>2. CASE RunAsks(c)
    <3>1. PICK confirms \in BOOLEAN :
            thread' = [thread EXCEPT ![s] =
              [known |-> TRUE, question |-> [number |-> asked[s] + 1, confirms |-> confirms]]]
      BY <2>2, BoundsAssumption DEF RunAsks
    <3>2. [number |-> asked[s] + 1, confirms |-> confirms] \in Question
      BY <2>1 DEF Question
    <3>3. QED
      BY <1>1, <3>1, <3>2 DEF DispatcherTypeOK
  <2>3. CASE RunSettles(c)
    BY <1>1, <2>1, <2>3 DEF RunSettles, DispatcherTypeOK
  <2>4. CASE RunRaises(c)
    <3>1. PICK left \in LeftBehind(s) : thread' = [thread EXCEPT ![s] = left.thread]
      BY <2>4 DEF RunRaises, LeftBehind
    <3>2. left.thread \in [known : BOOLEAN, question : Question]
      BY <1>1, <3>1, LeftTypes
    <3> QED
      BY <1>1, <3>1, <3>2 DEF DispatcherTypeOK
  <2>5. QED
    BY <2>2, <2>3, <2>4
<1>5. DispatcherTypeOK'
  BY <1>1, <1>2, <1>3, <1>4 DEF DispatcherTypeOK, locks, history
<1>6. Framed(c)
  BY <1>1, <1>2, <1>3, <1>4 DEF Framed, locks
<1>7. CallOK(c)'
  BY <1>1, <1>2, <1>3 DEF CallOK, Holds, Critical, Placed, Steps, locks
<1>8. QED
  BY <1>2, <1>5, <1>6, <1>7, StepInOrder DEF BaseInv

(* Inside the fail-safe the lock is kept.                                  *)
LEMMA FailingBase ==
  ASSUME BaseInv, NEW c \in Calls, LookFails(c) \/ FileTicket(c)
  PROVE  BaseInv'
<1> USE DEF At, Session
<1>1. /\ DispatcherTypeOK /\ CallOK(c) /\ call[c].session \in Calls
      /\ holder[call[c].session] = c
  BY DEF BaseInv, CallsOK, CallOK, LookFails, FileTicket, Placed, Steps, Critical, Holds
<1>2. /\ call' \in [Calls -> Call] /\ call'[c].step \in {"ticket", "fail"}
      /\ call'[c].session = call[c].session
      /\ \A d \in Calls \ {c} : call'[d] = call[d]
  BY <1>1, GoOnChanges DEF LookFails, FileTicket, Steps
<1>3. /\ tickets' \in [Calls -> Nat] /\ faults' \in Nat
      /\ UNCHANGED <<row, graph, locks, history>>
  <2>1. CASE LookFails(c)
    BY <1>1, <2>1 DEF LookFails, DispatcherTypeOK, store
  <2>2. CASE FileTicket(c)
    BY <1>1, <2>2 DEF FileTicket, DispatcherTypeOK
  <2> QED
    BY <2>1, <2>2
<1>4. DispatcherTypeOK'
  BY <1>1, <1>2, <1>3 DEF DispatcherTypeOK, graph, locks, history
<1>5. Framed(c)
  BY <1>2, <1>3 DEF Framed, locks, graph
<1>6. CallOK(c)'
  BY <1>1, <1>2, <1>3 DEF CallOK, Holds, Critical, Placed, Steps, locks
<1>7. QED
  BY <1>2, <1>4, <1>5, <1>6, StepInOrder DEF BaseInv

(* A request is answered, and its lock, if it has it, goes to the next.    *)
LEMMA AnsweredBase ==
  ASSUME BaseInv, NEW c \in Calls,
         StoreFails(c) \/ Inspect(c) \/ FailSession(c) \/ FailSafeFails(c)
  PROVE  BaseInv'
<1> USE DEF At, Session
<1>1. DispatcherTypeOK /\ CallOK(c)
  BY DEF BaseInv, CallsOK
<1>2. /\ call' \in [Calls -> Call] /\ call'[c].step = "done" /\ call'[c].answers = 0
      /\ \A d \in Calls \ {c} : call'[d] = call[d]
  <2>1. \E reply \in Replies : Done(c, reply)
    <3>1. Report(call[c].session, c) \in Replies
      BY DEF Report, Replies
    <3>2. QED
      BY <3>1 DEF StoreFails, Inspect, FailSession, FailSafeFails, Replies
  <2>2. QED
    BY <1>1, <2>1, DoneChanges
<1>3. /\ holder' \in [Calls -> Calls \cup {None}] /\ queue' \in [Calls -> Seq(Calls)]
      /\ \A t \in Calls : (holder[t] \notin {c, None}) => holder'[t] = holder[t]
  <2>1. CASE StoreFails(c)
    BY <1>1, <2>1 DEF StoreFails, locks, DispatcherTypeOK
  <2>2. CASE Inspect(c) \/ FailSession(c) \/ FailSafeFails(c)
    <3>1. call[c].session \in Calls /\ holder[call[c].session] = c /\ Release(c)
      BY <1>1, <2>2
         DEF Inspect, FailSession, FailSafeFails, CallOK, Placed, Steps, Critical, Holds
    <3>2. QED
      BY <1>1, <3>1, LockTypes
  <2>3. QED
    BY <2>1, <2>2
<1>4. /\ row' \in [Calls -> Row] /\ faults' \in Nat
      /\ UNCHANGED <<tickets, graph, history>>
  <2>1. (call[c].session \in Calls /\ RowWritten(call[c].session)) \/ UNCHANGED row
    <3>1. CASE FailSession(c) \/ FailSafeFails(c)
      <4>1. call[c].session \in Calls
        BY <1>1, <3>1 DEF FailSession, FailSafeFails, CallOK, Placed, Steps
      <4> QED
        BY <1>1, <3>1, <4>1, RowWriters
    <3>2. CASE StoreFails(c) \/ Inspect(c)
      BY <3>2 DEF StoreFails, Inspect, store
    <3> QED
      BY <3>1, <3>2
  <2>2. row' \in [Calls -> Row]
    BY <1>1, <2>1, RowWrites DEF DispatcherTypeOK
  <2>3. faults' \in Nat /\ UNCHANGED <<tickets, graph, history>>
    BY <1>1 DEF StoreFails, Inspect, FailSession, FailSafeFails, DispatcherTypeOK, store
  <2>4. QED
    BY <2>2, <2>3
<1>5. DispatcherTypeOK'
  BY <1>1, <1>2, <1>3, <1>4 DEF DispatcherTypeOK, graph, history
<1>6. Framed(c)
  BY <1>2, <1>3, <1>4 DEF Framed, graph
<1>7. CallOK(c)'
  BY <1>2 DEF CallOK, Critical, Placed
<1>8. QED
  BY <1>2, <1>5, <1>6, <1>7, StepInOrder DEF BaseInv

(* What a crash does to a session: it stops a run, or nothing.             *)
Stopped(s) ==
  /\ s \in Running
  /\ \E left \in LeftBehind(s) : thread'[s] = left.thread /\ row'[s] = left.row

Spared(s) == s \notin Running /\ thread'[s] = thread[s] /\ row'[s] = row[s]

(* A crash does one or the other to each session.                          *)
LEMMA CrashLeaves ==
  ASSUME Crash
  PROVE  \A s \in Calls : Stopped(s) \/ Spared(s)
<1>1. PICK left \in [Running -> UNION {LeftBehind(s) : s \in Running}] :
        /\ \A s \in Running : left[s] \in LeftBehind(s)
        /\ thread' = [s \in Calls |-> IF s \in Running THEN left[s].thread ELSE thread[s]]
        /\ row' = [s \in Calls |-> IF s \in Running THEN left[s].row ELSE row[s]]
  BY DEF Crash
<1>2. ASSUME NEW s \in Calls PROVE Stopped(s) \/ Spared(s)
  <2>1. CASE s \in Running
    BY <1>1, <2>1 DEF Stopped
  <2>2. CASE s \notin Running
    BY <1>1, <2>2 DEF Spared
  <2> QED
    BY <2>1, <2>2
<1> QED
  BY <1>2

(* A crash leaves no request inside a lock.                                *)
LEMMA CrashBase ==
  ASSUME BaseInv, Crash
  PROVE  BaseInv'
<1> USE DEF At, Session
<1>1. DispatcherTypeOK /\ CallsOK
  BY DEF BaseInv
<1>2. /\ Answered("lost") \in Call
      /\ Answered("lost").step = "done" /\ Answered("lost").answers = 0
  BY DEF Answered, NotSent, Call, Steps, Replies
<1>3. /\ call' \in [Calls -> Call]
      /\ \A c \in Calls : /\ call'[c].step \in {"new", "done"} /\ call'[c].answers = 0
                          /\ call'[c].step = "new" => ~call'[c].voice
  BY <1>1, <1>2 DEF Crash, DispatcherTypeOK, CallsOK, CallOK, InFlight
<1>4. /\ thread' \in [Calls -> [known : BOOLEAN, question : Question]]
      /\ row' \in [Calls -> Row]
  <2>1. \A s \in Calls : Stopped(s) \/ Spared(s)
    BY CrashLeaves
  <2>2. \A s \in Calls : /\ thread'[s] \in [known : BOOLEAN, question : Question]
                         /\ row'[s] \in Row
    BY <1>1, <2>1, LeftTypes DEF Stopped, Spared, DispatcherTypeOK
  <2>3. /\ thread' = [s \in Calls |-> thread'[s]] /\ row' = [s \in Calls |-> row'[s]]
    BY DEF Crash
  <2> QED
    BY <2>2, <2>3
<1>5. DispatcherTypeOK'
  BY <1>1, <1>3, <1>4 DEF Crash, DispatcherTypeOK, history
<1>6. CallsOK' /\ ResumesWhatItFound'
  BY <1>3 DEF CallsOK, CallOK, Critical, Placed, ResumesWhatItFound
<1>7. QED
  BY <1>5, <1>6 DEF BaseInv

(* Every step keeps the requests and the locks in order.                   *)
LEMMA BaseStep ==
  ASSUME BaseInv, [Next]_vars
  PROVE  BaseInv'
<1>1. CASE UNCHANGED vars
  BY <1>1 DEF vars, store, graph, locks, history, BaseInv, DispatcherTypeOK, CallsOK, CallOK,
     ResumesWhatItFound, Holds, Session, At, Pending
<1>2. CASE Crash
  BY <1>2, CrashBase
<1>3. ASSUME NEW c \in Calls, Send(c) \/ Work(c) \/ Fault(c) PROVE BaseInv'
  BY <1>3, PlainBase, PlacingBase, StoreMessageBase, LookBase, ActivateBase, RunBase,
     FailingBase, AnsweredBase DEF Send, Work, Fault
<1>4. QED
  BY <1>1, <1>2, <1>3 DEF Next

(* No request has come in.                                                 *)
LEMMA BaseInit ==
  ASSUME Init
  PROVE  BaseInv
<1>1. /\ NoRow \in Row /\ NoQuestion \in Question /\ NotSent \in Call
  BY DEF NoRow, Row, NoQuestion, Question, NotSent, Call, Steps
<1>2. DispatcherTypeOK
  <2>1. <<>> \in Seq(Calls)
    OBVIOUS
  <2>2. thread \in [Calls -> [known : BOOLEAN, question : Question]]
    BY <1>1 DEF Init
  <2>3. call \in [Calls -> Call] /\ row \in [Calls -> Row]
    BY <1>1 DEF Init
  <2>4. QED
    BY <2>1, <2>2, <2>3 DEF Init, DispatcherTypeOK
<1>3. \A c \in Calls : call[c] = NotSent
  BY DEF Init
<1>4. CallsOK /\ ResumesWhatItFound
  BY <1>3 DEF CallsOK, CallOK, ResumesWhatItFound, At, NotSent, Placed, Critical
<1>5. QED
  BY <1>2, <1>4 DEF BaseInv

(* The types, and what a request holds, hold in every reachable state.     *)
LEMMA BaseHolds == Spec => []BaseInv
<1>1. QED
  BY BaseInit, BaseStep, PTL DEF Spec

(* Rows, checkpoints, locks and requests keep their types, with any number *)
(* of requests in flight and faults (dispatcher.py).                       *)
THEOREM DispatcherTypeCorrect == Spec => []DispatcherTypeOK
<1>1. BaseInv => DispatcherTypeOK
  BY DEF BaseInv
<1>2. QED
  BY <1>1, BaseHolds, PTL

(* The lock of a session keeps the question that a request found pending   *)
(* until the run that its answer resumes takes it (continue_session).      *)
THEOREM FoundIsResumed == Spec => []ResumesWhatItFound
<1>1. BaseInv => ResumesWhatItFound
  BY DEF BaseInv
<1>2. QED
  BY <1>1, BaseHolds, PTL

-----------------------------------------------------------------------------
\* One session per voice conversation.

IsOpenVoice(s) == row[s].voice /\ row[s].terminal = None

AboutToCreate(c) == At(c, "create") /\ call[c].voice

(* Nobody is about to create a session while one is open.                  *)
VoiceInv ==
  raced \/ /\ \A s, t \in Calls : IsOpenVoice(s) /\ IsOpenVoice(t) => s = t
           /\ \A c, d \in Calls : AboutToCreate(c) /\ AboutToCreate(d) => c = d
           /\ \A c, s \in Calls : ~(AboutToCreate(c) /\ IsOpenVoice(s))

(* Steps that open no session and bring nobody to create one.              *)
LEMMA VoiceFrame ==
  ASSUME VoiceInv, raced => raced',
         \A s \in Calls : IsOpenVoice(s)' => IsOpenVoice(s),
         \A c \in Calls : AboutToCreate(c)' => AboutToCreate(c)
  PROVE  VoiceInv'
BY DEF VoiceInv

(* A request moves, and not to the creation of a session.                  *)
Moved(c) == call'[c].step # "create" /\ \A d \in Calls \ {c} : call'[d] = call[d]

(* A request that goes on, or is done, creates no row and moves nobody.    *)
LEMMA MovesOn ==
  ASSUME BaseInv, NEW c \in Calls,
         \/ \E step \in {"store", "wait", "activate", "invoke", "inspect", "ticket", "fail"} :
              GoOn(c, step)
         \/ \E reply : Done(c, reply)
  PROVE  Moved(c)
<1>1. DispatcherTypeOK
  BY DEF BaseInv
<1>2. CASE \E reply : Done(c, reply)
  BY <1>1, <1>2 DEF Done, Answered, NotSent, Moved, DispatcherTypeOK
<1>3. ASSUME NEW step \in {"store", "wait", "activate", "invoke", "inspect", "ticket", "fail"},
             GoOn(c, step)
      PROVE  Moved(c)
  BY <1>1, <1>3, GoOnChanges DEF Moved, Steps
<1>4. QED
  BY <1>2, <1>3

(* Every step keeps the conversation to one session.                       *)
LEMMA VoiceStep ==
  ASSUME BaseInv, VoiceInv, [Next]_vars
  PROVE  VoiceInv'
<1> USE DEF At, Session, AboutToCreate, IsOpenVoice
<1>1. DispatcherTypeOK /\ CallsOK
  BY DEF BaseInv
<1>2. CASE UNCHANGED vars
  BY <1>2, VoiceFrame DEF vars, store, history
<1>3. CASE Crash
  <2>1. \A s \in Calls : IsOpenVoice(s)' => IsOpenVoice(s)
    <3>1. \A s \in Calls : row[s].terminal \in {None, "settled", "failed"}
      BY <1>1 DEF DispatcherTypeOK, Row
    <3> QED
      BY <1>1, <1>3, <3>1, CrashLeaves, LeftTypes DEF Stopped, Spared, None
  <2>2. \A c \in Calls : AboutToCreate(c)' => AboutToCreate(c)
    BY <1>1, <1>3 DEF Crash, Answered, NotSent, InFlight
  <2> QED
    BY <1>3, <2>1, <2>2, VoiceFrame DEF Crash, history
<1>4. ASSUME NEW c \in Calls, FindVoice(c) PROVE VoiceInv'
  <2>1. UNCHANGED row
    BY <1>4 DEF FindVoice, store
  <2>2. CASE \E s \in OpenVoiceSessions : TurnTo(c, s, "get")
    <3>1. PICK s \in Calls : TurnTo(c, s, "get")
      BY <2>2 DEF OpenVoiceSessions
    <3>2. /\ call'[c].step = "get" /\ \A d \in Calls \ {c} : call'[d] = call[d]
          /\ UNCHANGED raced
      BY ZenonT(60), <1>1, <3>1, TurnToChanges DEF Steps, TurnTo
    <3>3. QED
      BY <2>1, <3>2, VoiceFrame
  <2>3. CASE OpenVoiceSessions = {} /\ GoOn(c, "create")
    <3>1. /\ raced' = (raced \/ \E d \in Calls : AboutToCreate(d))
          /\ \A s \in Calls : ~IsOpenVoice(s)
      BY <1>1, <1>4, <2>3, GoOnChanges DEF FindVoice, OpenVoiceSessions, TurnTo, Steps
    <3>2. \A d \in Calls \ {c} : call'[d] = call[d]
      BY <1>1, <2>3, GoOnChanges DEF Steps
    <3>3. QED
      BY <2>1, <3>1, <3>2 DEF VoiceInv
  <2>4. QED
    BY <1>4, <2>2, <2>3 DEF FindVoice
<1>5. ASSUME NEW c \in Calls, CreateSession(c) PROVE VoiceInv'
  <2>1. /\ call'[c].step = "store" /\ \A d \in Calls \ {c} : call'[d] = call[d]
        /\ UNCHANGED raced
    <3>1. TurnTo(c, c, "store") /\ UNCHANGED raced
      BY <1>5 DEF CreateSession, TurnTo
    <3> QED
      BY <1>1, <3>1, TurnToChanges DEF Steps
  <2>2. /\ row'[c].voice = call[c].voice /\ \A s \in Calls \ {c} : row'[s] = row[s]
    BY <1>1, <1>5 DEF CreateSession, DispatcherTypeOK, NoRow
  <2>3. CASE ~call[c].voice
    BY <2>1, <2>2, <2>3, VoiceFrame
  <2>4. CASE call[c].voice
    BY <1>5, <2>1, <2>2, <2>4 DEF CreateSession, VoiceInv
  <2>5. QED
    BY <2>3, <2>4
<1>6. ASSUME NEW c \in Calls, SendStart(c) PROVE VoiceInv'
  <2>1. ~call'[c].voice /\ \A d \in Calls \ {c} : call'[d] = call[d]
    BY <1>1, <1>6, GoOnChanges DEF SendStart, Steps, CallsOK, CallOK
  <2>2. QED
    BY <1>6, <2>1, VoiceFrame DEF SendStart, store, history
<1>8. ASSUME NEW c \in Calls,
             \/ SendVoice(c) \/ Refuse(c) \/ CheckOpen(c) \/ StoreMessage(c) \/ BeginStart(c)
             \/ LookAtPending(c) \/ Inspect(c) \/ FileTicket(c) \/ StoreFails(c) \/ LookFails(c)
             \/ \E s \in Calls : SendReply(c, s)
      PROVE  VoiceInv'
  <2>1. UNCHANGED <<row, raced>>
    BY <1>8 DEF SendVoice, Refuse, CheckOpen, StoreMessage, BeginStart, LookAtPending,
       Inspect, FileTicket, StoreFails, LookFails, SendReply, store, history
  <2>2. Moved(c)
    <3>1. ASSUME NEW new, call' = [call EXCEPT ![c] = new], new.step # "create" PROVE Moved(c)
      BY <1>1, <3>1 DEF Moved, DispatcherTypeOK
    <3>2. call[c] \in Call
      BY <1>1, CallTypes
    <3>3. CASE SendVoice(c)
      <4> DEFINE new == [[call[c] EXCEPT !.step = "find"] EXCEPT !.voice = TRUE]
      <4>1. call' = [call EXCEPT ![c] = new]
        BY <1>1, <3>3 DEF SendVoice, DispatcherTypeOK
      <4>2. new.step = "find"
        BY <3>2 DEF Call
      <4>3. new.step # "create"
        BY <4>2
      <4> HIDE DEF new
      <4>4. QED
        BY <3>1, <4>1, <4>3
    <3>4. ASSUME NEW s \in Calls, SendReply(c, s) PROVE Moved(c)
      <4> DEFINE new == [[[call[c] EXCEPT !.session = s] EXCEPT !.step = "get"]
                           EXCEPT !.seen = IF Pending(s).confirms THEN Pending(s).number ELSE 0]
      <4>1. call' = [call EXCEPT ![c] = new]
        BY <1>1, <3>4 DEF SendReply, DispatcherTypeOK
      <4>2. new.step = "get"
        BY <3>2 DEF Call
      <4>3. new.step # "create"
        BY <4>2
      <4> HIDE DEF new
      <4>4. QED
        BY <3>1, <4>1, <4>3
    <3>5. CASE LookAtPending(c)
      BY <3>1, <3>2, <3>5, MovesOn DEF LookAtPending, Call
    <3>6. CASE CheckOpen(c) \/ StoreMessage(c) \/ BeginStart(c) \/ FileTicket(c)
      BY <3>6, MovesOn DEF CheckOpen, StoreMessage, BeginStart, FileTicket
    <3>7. CASE StoreFails(c) \/ LookFails(c) \/ Refuse(c) \/ Inspect(c)
      BY <3>7, MovesOn DEF StoreFails, LookFails, Refuse, Inspect
    <3>8. QED
      BY <1>8, <3>3, <3>4, <3>5, <3>6, <3>7
  <2>3. QED
    BY <2>1, <2>2, VoiceFrame DEF Moved
<1>9. ASSUME NEW c \in Calls,
             \/ Activate(c) \/ RunAsks(c) \/ RunSettles(c) \/ RunRaises(c)
             \/ FailSession(c) \/ FailSafeFails(c)
      PROVE  VoiceInv'
  <2>1. Session(c) \in Calls /\ RowWritten(Session(c)) /\ UNCHANGED raced
    <3>1. Session(c) \in Calls /\ UNCHANGED raced
      BY <1>1, <1>9 DEF Activate, RunAsks, RunSettles, RunRaises, FailSession, FailSafeFails,
         history, CallsOK, CallOK, Placed, Steps
    <3> QED
      BY <1>1, <1>9, <3>1, RowWriters
  <2>2. \A s \in Calls : IsOpenVoice(s)' => IsOpenVoice(s)
    BY <1>1, <2>1, RowWrites
  <2>3. Moved(c)
    BY <1>9, MovesOn DEF Activate, RunAsks, RunSettles, RunRaises, FailSession, FailSafeFails
  <2>4. QED
    BY <2>1, <2>2, <2>3, VoiceFrame DEF Moved
<1>10. QED
  BY <1>2, <1>3, <1>4, <1>5, <1>6, <1>8, <1>9 DEF Next, Send, Work, Fault

(* A voice conversation has one open session unless one lookup missed the  *)
(* session that another was about to create (routes_voice.py,              *)
(* _resume_voice_session; find_active_voice_session).                      *)
THEOREM OneVoice == Spec => []OneVoiceSession
<1>1. Init => VoiceInv
  BY DEF Init, VoiceInv, IsOpenVoice, AboutToCreate, NoRow, NotSent, At
<1>2. VoiceInv => OneVoiceSession
  BY DEF VoiceInv, OneVoiceSession, IsOpenVoice
<1>3. QED
  BY <1>1, <1>2, BaseHolds, VoiceStep, PTL DEF Spec

-----------------------------------------------------------------------------
\* Sessions at rest and what requests are told.

Early == {"store", "wait", "activate", "invoke"}

(* The requests that will still make the session answerable or end it.     *)
Driving == Early \cup {"get", "ticket", "fail"}

Unplaced == {"new", "find", "create"}

Answerable(s) == Pending(s) # NoQuestion /\ row[s].status = "waiting_employee"

(* What request c knows when it is about to be answered, and that it has   *)
(* no session before it turns to one.                                      *)
Knowing(c) ==
  /\ At(c, "inspect") => Pending(Session(c)) # NoQuestion \/ row[Session(c)].terminal # None
  /\ At(c, "fail") => tickets[Session(c)] > 0
  /\ call[c].step \in Unplaced => Session(c) = None

(* A session on which no two requests met has one request at a time, runs  *)
(* only while it is open, and asks nothing once it is settled.             *)
Orderly(s) ==
  /\ \A c, d \in WorkingOn(s) : c = d
  /\ row[s].terminal = "settled" => Pending(s) = NoQuestion
  /\ \A c \in WorkingOn(s) : /\ call[c].step \in Early => row[s].terminal = None
                             /\ At(c, "inspect") => row[s].terminal # "failed"

(* An open session can take an answer, or somebody drives it on.           *)
Alive(s) ==
  Exists(s) /\ row[s].terminal = None =>
    Answerable(s) \/ \E c \in Calls : Session(c) = s /\ call[c].step \in Driving

RestInv ==
  /\ \A c \in Calls : Knowing(c)
  /\ \A s \in Calls : s \notin crowded => Orderly(s)
  /\ faults = 0 => \A s \in Calls : Alive(s)

(* What a step of c changes: the call of c, and the row, checkpoint and    *)
(* tickets of session s, the checkpoint and row only under the lock if     *)
(* somebody else works on s.                                               *)
Touches(c, s) ==
  /\ call' \in [Calls -> Call] /\ \A d \in Calls \ {c} : call'[d] = call[d]
  /\ crowded \subseteq crowded' /\ (faults' = 0 => faults = 0)
  /\ row' \in [Calls -> Row]
  /\ \A t \in Calls \ {s} : row'[t] = row[t] /\ thread'[t] = thread[t] /\ tickets'[t] = tickets[t]
  /\ tickets[s] > 0 => tickets'[s] > 0

Guarded(c, s) == holder[s] = c \/ (row'[s] = row[s] /\ thread'[s] = thread[s])

(* The other requests still know what they knew.                           *)
LEMMA OthersKnow ==
  ASSUME BaseInv, RestInv, NEW c \in Calls, NEW s \in Calls, Touches(c, s), Guarded(c, s),
         NEW d \in Calls \ {c}
  PROVE  Knowing(d)'
<1>1. Knowing(d) /\ CallOK(d) /\ call'[d] = call[d]
  BY DEF RestInv, BaseInv, CallsOK, Touches
<1>2. At(d, "inspect") \/ At(d, "fail") => Session(d) \in Calls /\ holder[Session(d)] = d
  BY <1>1 DEF CallOK, At, Critical, Placed, Steps, Holds
<1>3. At(d, "inspect") => /\ row'[Session(d)] = row[Session(d)]
                          /\ thread'[Session(d)] = thread[Session(d)]
  BY <1>2 DEF Touches, Guarded
<1>4. At(d, "fail") /\ tickets[Session(d)] > 0 => tickets'[Session(d)] > 0
  BY <1>2 DEF Touches
<1> QED
  BY <1>1, <1>3, <1>4 DEF Knowing, At, Session, Pending

(* The other sessions stay in order and alive, if c comes to no other.     *)
LEMMA OtherSessions ==
  ASSUME BaseInv, RestInv, NEW c \in Calls, NEW s \in Calls, Touches(c, s),
         NEW t \in Calls \ {s}, call'[c].session # t,
         call[c].session = t => call[c].step \notin Driving
  PROVE  /\ t \notin crowded' => Orderly(t)'
         /\ faults' = 0 => Alive(t)'
<1>1. /\ \A d \in Calls \ {c} : call'[d] = call[d]
      /\ row'[t] = row[t] /\ thread'[t] = thread[t]
  BY DEF Touches
<1>2. ASSUME t \notin crowded' PROVE Orderly(t)'
  <2>1. Orderly(t)
    BY <1>2 DEF RestInv, Touches
  <2>2. \A d \in Calls : d \in WorkingOn(t)' => d # c /\ d \in WorkingOn(t)
    BY <1>1 DEF WorkingOn, InFlight, At, Session
  <2> QED
    BY <1>1, <2>1, <2>2 DEF Orderly, Pending, At, WorkingOn
<1>3. ASSUME faults' = 0 PROVE Alive(t)'
  <2>1. Alive(t)
    BY <1>3 DEF RestInv, Touches
  <2> QED
    BY <1>1, <2>1 DEF Alive, Answerable, Exists, Pending, Session
<1> QED
  BY <1>2, <1>3

(* A request that stays on its session.                                    *)
LEMMA InPlaceRests ==
  ASSUME BaseInv, RestInv, NEW c \in Calls, NEW s \in Calls, Session(c) = s, InFlight(c),
         Touches(c, s), Guarded(c, s), crowded' = crowded,
         call'[c].session = s, call'[c].step \in Steps \ {"new", "done", "find", "create"},
         Knowing(c)', 
         s \notin crowded =>
           /\ row'[s].terminal = "settled" => Pending(s)' = NoQuestion
           /\ call'[c].step \in Early => row'[s].terminal = None
           /\ call'[c].step = "inspect" => row'[s].terminal # "failed",
         faults' = 0 /\ row'[s].terminal = None => Answerable(s)' \/ call'[c].step \in Driving
  PROVE  RestInv'
<1>1. \A d \in Calls : Knowing(d)'
  BY OthersKnow
<1>2. ASSUME NEW t \in Calls \ {s}
      PROVE  /\ t \notin crowded' => Orderly(t)'
             /\ faults' = 0 => Alive(t)'
  BY OtherSessions DEF Session
<1>3. s \notin crowded' => Orderly(s)'
  <2> SUFFICES ASSUME s \notin crowded PROVE Orderly(s)'
    OBVIOUS
  <2>1. Orderly(s) /\ c \in WorkingOn(s)
    BY DEF RestInv, WorkingOn
  <2>2. \A d \in Calls : d \in WorkingOn(s)' => d = c
    BY <2>1 DEF WorkingOn, InFlight, At, Session, Orderly, Touches
  <2> QED
    BY <2>2 DEF Orderly, WorkingOn, At
<1>4. faults' = 0 => Alive(s)'
  BY DEF Alive, Session
<1> QED
  BY <1>1, <1>2, <1>3, <1>4 DEF RestInv

(* A request that is answered.                                             *)
LEMMA LeavesRests ==
  ASSUME BaseInv, RestInv, NEW c \in Calls, NEW s \in Calls, Touches(c, s), Guarded(c, s),
         crowded' = crowded, call'[c].step = "done", thread' = thread,
         call[c].session \in Calls => call[c].session = s,
         row'[s] = row[s] \/ (row'[s].terminal = "failed" /\ c \in WorkingOn(s)),
         faults' = 0 /\ row'[s].terminal = None /\ Session(c) = s => call[c].step \notin Driving
  PROVE  RestInv'
<1>1. Knowing(c)'
  BY DEF Knowing, At, Unplaced
<1>2. \A d \in Calls : Knowing(d)'
  BY <1>1, OthersKnow
<1>3. ASSUME NEW t \in Calls, t \notin crowded' PROVE Orderly(t)'
  <2>1. Orderly(t)
    BY <1>3 DEF RestInv
  <2>2. \A d \in Calls : d \in WorkingOn(t)' => d # c /\ d \in WorkingOn(t) /\ call'[d] = call[d]
    BY DEF WorkingOn, InFlight, At, Session, Touches
  <2>3. row'[t] = row[t] \/ (t = s /\ row'[t].terminal = "failed")
    BY DEF Touches
  <2>4. CASE row'[t] = row[t]
    BY <2>1, <2>2, <2>4 DEF Orderly, Pending, At, WorkingOn
  <2>5. CASE t = s /\ row'[t].terminal = "failed" /\ row'[s] # row[s]
    <3>1. ASSUME NEW d \in Calls, d \in WorkingOn(t)' PROVE FALSE
      <4>1. d # c /\ d \in WorkingOn(t) /\ c \in WorkingOn(t)
        BY <2>2, <2>5, <3>1
      <4> QED
        BY <2>1, <4>1 DEF Orderly
    <3> QED
      BY <2>5, <3>1 DEF Orderly, WorkingOn
  <2> QED
    BY <2>3, <2>4, <2>5
<1>4. ASSUME NEW t \in Calls, faults' = 0 PROVE Alive(t)'
  <2>1. Alive(t)
    BY <1>4 DEF RestInv, Touches
  <2>2. row'[t] = row[t] \/ row'[t].terminal = "failed"
    BY DEF Touches
  <2>3. "failed" # None
    BY DEF None
  <2> QED
    BY <1>4, <2>1, <2>2, <2>3 DEF Alive, Answerable, Exists, Pending, Session, Touches
<1> QED
  BY <1>2, <1>3, <1>4 DEF RestInv

(* A request that turns to a session, or is about to create one.           *)
LEMMA ArrivesRests ==
  ASSUME BaseInv, RestInv, NEW c \in Calls, NEW s \in Calls, Touches(c, s),
         call[c].step \in Unplaced, thread' = thread,
         row'[s] = row[s] \/ (row[s] = NoRow /\ row'[s].terminal = None),
         \/ /\ call'[c].session = call[c].session /\ call'[c].step \in {"find", "create"}
            /\ row' = row
         \/ /\ call'[c].session = s /\ call'[c].step \in {"get", "store"}
            /\ WorkingOn(s) # {} => s \in crowded'
            /\ call'[c].step = "store" => row'[s] # row[s]
  PROVE  RestInv'
<1>1. call[c].session = None /\ ~(None \in Calls)
  BY CallsAssumption DEF RestInv, Knowing, Session
<1>2. \A d \in Calls : d # c => call'[d] = call[d]
  BY DEF Touches
<1>3. ASSUME NEW d \in Calls PROVE Knowing(d)'
  <2>1. CASE d = c
    BY <1>1, <2>1 DEF Knowing, At, Session, Unplaced
  <2>2. CASE d # c
    <3>1. Knowing(d) /\ call'[d] = call[d] /\ CallOK(d)
      BY <1>2, <2>2 DEF RestInv, BaseInv, CallsOK
    <3>2. At(d, "inspect") \/ At(d, "fail") => Session(d) \in Calls
      BY <3>1 DEF CallOK, At, Placed, Steps
    <3>3. /\ At(d, "inspect") => /\ thread'[Session(d)] = thread[Session(d)]
                                 /\ row[Session(d)].terminal # None
                                      => row'[Session(d)] = row[Session(d)]
          /\ At(d, "fail") /\ tickets[Session(d)] > 0 => tickets'[Session(d)] > 0
      BY <3>2 DEF Touches, NoRow
    <3> QED
      BY <3>1, <3>3 DEF Knowing, At, Session, Pending
  <2> QED
    BY <2>1, <2>2
<1>4. ASSUME NEW t \in Calls, t \notin crowded' PROVE Orderly(t)'
  <2>1. Orderly(t)
    BY <1>4 DEF RestInv, Touches
  <2>2. CASE t = s /\ call'[c].session = s
    <3>1. WorkingOn(s) = {}
      BY <1>1, <1>4, <2>2
    <3>2. \A d \in Calls : d \in WorkingOn(t)' => d = c
      BY <1>2, <2>2, <3>1 DEF WorkingOn, InFlight, At, Session
    <3>3. row'[t].terminal = "settled" => Pending(t)' = NoQuestion
      BY <2>1, <2>2 DEF Orderly, Pending, None
    <3>4. call'[c].step \in Early => row'[t].terminal = None
      BY <1>1, <2>2 DEF Early
    <3>5. ~At(c, "inspect")'
      BY <1>1, <2>2 DEF At
    <3> QED
      BY <3>2, <3>3, <3>4, <3>5 DEF Orderly, WorkingOn
  <2>3. CASE ~(t = s /\ call'[c].session = s)
    <3>1. \A d \in Calls : d \in WorkingOn(t)' => d # c /\ d \in WorkingOn(t) /\ call'[d] = call[d]
      BY <1>1, <1>2, <2>3 DEF WorkingOn, InFlight, At, Session
    <3>2. row'[t] = row[t]
      BY <1>1, <2>3 DEF Touches
    <3> QED
      BY <2>1, <3>1, <3>2 DEF Orderly, Pending, At, WorkingOn
  <2> QED
    BY <2>2, <2>3
<1>5. ASSUME NEW t \in Calls, faults' = 0 PROVE Alive(t)'
  <2>1. Alive(t)
    BY <1>5 DEF RestInv, Touches
  <2>2. CASE row'[t] = row[t]
    <3>1. \A d \in Calls : Session(d) = t /\ call[d].step \in Driving
                             => d # c
      BY <1>1 DEF Session
    <3> QED
      BY <1>2, <2>1, <2>2, <3>1 DEF Alive, Answerable, Exists, Pending, Session
  <2>3. CASE row'[t] # row[t]
    <3>1. t = s /\ call'[c].session = t /\ call'[c].step \in Driving
      BY <1>1, <2>3 DEF Touches, Driving, Early
    <3> QED
      BY <3>1 DEF Alive, Session
  <2> QED
    BY <2>2, <2>3
<1> QED
  BY <1>3, <1>4, <1>5 DEF RestInv

(* Requests arrive, look a session up, and create one.                     *)
LEMMA ArrivalsRest ==
  ASSUME BaseInv, RestInv, NEW c \in Calls,
         \/ SendStart(c) \/ SendVoice(c) \/ FindVoice(c) \/ CreateSession(c)
         \/ \E s \in Calls : SendReply(c, s)
  PROVE  RestInv'
<1>1. DispatcherTypeOK /\ CallOK(c) /\ call[c] \in Call
  BY CallTypes DEF BaseInv, CallsOK
<1>2. CASE SendStart(c)
  <2>1. /\ UNCHANGED <<row, tickets, thread, crowded, faults>>
        /\ call[c].step = "new" /\ GoOn(c, "create")
    BY <1>2 DEF SendStart, store, graph, history, At
  <2>2. /\ call' \in [Calls -> Call] /\ call'[c].step = "create"
        /\ call'[c].session = call[c].session /\ \A d \in Calls \ {c} : call'[d] = call[d]
    BY <1>1, <2>1, GoOnChanges DEF Steps
  <2>3. Touches(c, c)
    BY <1>1, <2>1, <2>2 DEF Touches, DispatcherTypeOK
  <2> QED
    BY <2>1, <2>2, <2>3, ArrivesRests DEF Unplaced
<1>3. CASE SendVoice(c)
  <2>1. UNCHANGED <<row, tickets, thread, crowded, faults>> /\ call[c].step = "new"
    BY <1>3 DEF SendVoice, store, graph, history, At
  <2>2. /\ call' \in [Calls -> Call] /\ call'[c].step = "find"
        /\ call'[c].session = call[c].session /\ \A d \in Calls \ {c} : call'[d] = call[d]
    BY <1>1, <1>3 DEF SendVoice, DispatcherTypeOK, Call, Steps
  <2>3. Touches(c, c)
    BY <1>1, <2>1, <2>2 DEF Touches, DispatcherTypeOK
  <2> QED
    BY <2>1, <2>2, <2>3, ArrivesRests DEF Unplaced
<1>4. ASSUME NEW s \in Calls, NEW step \in {"get", "store"}, TurnTo(c, s, step),
             call[c].step \in {"find", "create"}, UNCHANGED <<tickets, thread, faults>>,
             row' \in [Calls -> Row], \A t \in Calls \ {s} : row'[t] = row[t],
             row'[s] = row[s] \/ (row[s] = NoRow /\ row'[s].terminal = None),
             step = "store" => row'[s] # row[s]
      PROVE  RestInv'
  <2>1. /\ call' \in [Calls -> Call]
        /\ call'[c].step = step /\ call'[c].session = s
        /\ \A d \in Calls \ {c} : call'[d] = call[d]
    BY <1>1, <1>4, TurnToChanges DEF Steps
  <2>2. crowded \subseteq crowded' /\ (WorkingOn(s) # {} => s \in crowded')
    BY <1>4, Zenon DEF TurnTo
  <2>3. Touches(c, s)
    BY <1>4, <2>1, <2>2 DEF Touches
  <2> QED
    BY <1>4, <2>1, <2>2, <2>3, ArrivesRests DEF Unplaced
<1>5. CASE FindVoice(c)
  <2>1. UNCHANGED <<row, tickets, thread, faults>> /\ call[c].step = "find"
    BY <1>5 DEF FindVoice, store, graph, At
  <2>2. CASE \E s \in OpenVoiceSessions : TurnTo(c, s, "get")
    <3>1. PICK s \in Calls : TurnTo(c, s, "get")
      BY <2>2 DEF OpenVoiceSessions
    <3> QED
      BY <1>1, <1>4, <2>1, <3>1 DEF DispatcherTypeOK
  <2>3. CASE GoOn(c, "create") /\ UNCHANGED crowded
    <3>1. /\ call' \in [Calls -> Call] /\ call'[c].step = "create"
          /\ call'[c].session = call[c].session /\ \A d \in Calls \ {c} : call'[d] = call[d]
      BY <1>1, <2>3, GoOnChanges DEF Steps
    <3>2. Touches(c, c)
      BY <1>1, <2>1, <2>3, <3>1 DEF Touches, DispatcherTypeOK
    <3> QED
      BY <2>1, <3>1, <3>2, ArrivesRests DEF Unplaced
  <2> QED
    BY <1>5, <2>2, <2>3 DEF FindVoice
<1>6. CASE CreateSession(c)
  <2>1. /\ UNCHANGED <<tickets, thread, faults>> /\ call[c].step = "create" /\ TurnTo(c, c, "store")
        /\ row[c] = NoRow
        /\ row' = [row EXCEPT ![c] = [NoRow EXCEPT !.status = "active", !.voice = call[c].voice]]
    BY <1>6 DEF CreateSession, graph, At, Exists
  <2>2. /\ row' \in [Calls -> Row] /\ \A t \in Calls \ {c} : row'[t] = row[t]
        /\ row'[c].terminal = None /\ row'[c].status = "active"
    BY <1>1, <2>1 DEF DispatcherTypeOK, Row, NoRow, Call
  <2>3. row'[c] # row[c]
    <3>1. NoRow.status = None /\ None # "active"
      BY DEF NoRow, None
    <3> QED
      BY <2>1, <2>2, <3>1
  <2> QED
    BY <1>4, <2>1, <2>2, <2>3
<1>7. ASSUME NEW s \in Calls, SendReply(c, s) PROVE RestInv'
  <2>1. UNCHANGED <<row, tickets, thread, faults>> /\ call[c].step = "new"
    BY <1>7 DEF SendReply, store, graph, At
  <2>2. Pending(s).number \in Nat
    BY <1>1 DEF DispatcherTypeOK, Pending, Question
  <2>3. /\ call' \in [Calls -> Call] /\ call'[c].step = "get" /\ call'[c].session = s
        /\ \A d \in Calls \ {c} : call'[d] = call[d]
    BY ZenonT(60), <1>1, <1>7, <2>2 DEF SendReply, DispatcherTypeOK, Call, Steps
  <2>4. crowded \subseteq crowded' /\ (WorkingOn(s) # {} => s \in crowded')
    BY <1>7, Zenon DEF SendReply
  <2>5. Touches(c, s)
    BY <1>1, <2>1, <2>3, <2>4 DEF Touches, DispatcherTypeOK
  <2> QED
    BY <2>1, <2>3, <2>4, <2>5, ArrivesRests DEF Unplaced
<1> QED
  BY <1>2, <1>3, <1>5, <1>6, <1>7

(* A request goes on before its run, and nothing but its progress changes. *)
LEMMA WaitingRests ==
  ASSUME BaseInv, RestInv, NEW c \in Calls,
         \/ (CheckOpen(c) /\ row[Session(c)].terminal = None)
         \/ StoreMessage(c) \/ BeginStart(c) \/ LookAtPending(c)
  PROVE  RestInv'
<1>1. DispatcherTypeOK /\ CallOK(c) /\ call[c] \in Call
  BY CallTypes DEF BaseInv, CallsOK
<1>2. PICK s \in Calls : s = Session(c)
  BY <1>1 DEF CheckOpen, StoreMessage, BeginStart, LookAtPending, CallOK, Placed, Steps, At
<1>3. UNCHANGED <<row, tickets, thread, faults, crowded>>
  BY DEF CheckOpen, StoreMessage, BeginStart, LookAtPending, store, graph, history
<1>4. /\ call' \in [Calls -> Call] /\ \A d \in Calls \ {c} : call'[d] = call[d]
      /\ call'[c].session = s /\ call'[c].step \in Early
  <2>1. CASE \E step \in Early : GoOn(c, step)
    BY <1>1, <1>2, <2>1, GoOnChanges DEF Steps, Early, Session
  <2>2. CASE call' = [call EXCEPT ![c].step = "invoke", ![c].answers = Pending(Session(c)).number]
    <3>1. Pending(s).number \in Nat
      BY <1>1 DEF DispatcherTypeOK, Pending, Question
    <3> QED
      BY ZenonT(60), <1>1, <1>2, <2>2, <3>1 DEF DispatcherTypeOK, Call, Steps, Early, Session
  <2> QED
    BY <2>1, <2>2 DEF CheckOpen, StoreMessage, BeginStart, LookAtPending, Early
<1>5. Touches(c, s) /\ Guarded(c, s)
  BY <1>1, <1>3, <1>4 DEF Touches, Guarded, DispatcherTypeOK
<1>6. InFlight(c) /\ c \in WorkingOn(s)
  BY <1>2 DEF CheckOpen, StoreMessage, BeginStart, LookAtPending, InFlight, At, WorkingOn
<1>7. Knowing(c)'
  BY <1>4 DEF Knowing, At, Early, Unplaced
<1>8. s \notin crowded => /\ row[s].terminal = "settled" => Pending(s) = NoQuestion
                          /\ row[s].terminal = None
  <2>1. CASE CheckOpen(c) /\ row[Session(c)].terminal = None
    BY <1>2, <2>1 DEF RestInv, Orderly
  <2>2. CASE StoreMessage(c) \/ BeginStart(c) \/ LookAtPending(c)
    <3>1. call[c].step \in Early
      BY <2>2 DEF StoreMessage, BeginStart, LookAtPending, Early, At
    <3> QED
      BY <1>6, <3>1 DEF RestInv, Orderly
  <2> QED
    BY <2>1, <2>2
<1>9. call'[c].step # "inspect" /\ call'[c].step \in Driving
      /\ call'[c].step \in Steps \ {"new", "done", "find", "create"}
  BY <1>4 DEF Early, Driving, Steps
<1> QED
  BY <1>2, <1>3, <1>4, <1>5, <1>6, <1>7, <1>8, <1>9, InPlaceRests DEF Pending

(* A request works under the lock.                                         *)
LEMMA RunningRests ==
  ASSUME BaseInv, RestInv, NEW c \in Calls,
         \/ Activate(c) \/ RunAsks(c) \/ RunSettles(c) \/ RunRaises(c)
         \/ LookFails(c) \/ FileTicket(c)
  PROVE  RestInv'
<1>1. DispatcherTypeOK /\ CallOK(c) /\ call[c] \in Call
  BY CallTypes DEF BaseInv, CallsOK
<1>2. PICK s \in Calls : s = Session(c) /\ holder[s] = c
  BY <1>1 DEF Activate, RunAsks, RunSettles, RunRaises, LookFails, FileTicket, CallOK, Placed,
     Critical, Holds, Steps, At
<1>3. UNCHANGED crowded /\ (faults' = 0 => faults = 0)
  BY <1>1 DEF Activate, RunAsks, RunSettles, RunRaises, LookFails, FileTicket, history,
     DispatcherTypeOK
<1>4. PICK step \in {"invoke", "inspect", "ticket", "fail"} : GoOn(c, step)
  BY DEF Activate, RunAsks, RunSettles, RunRaises, LookFails, FileTicket
<1>5. /\ call' \in [Calls -> Call] /\ \A d \in Calls \ {c} : call'[d] = call[d]
      /\ call'[c].session = s /\ call'[c].step = step
  BY <1>1, <1>2, <1>4, GoOnChanges DEF Steps, Session
<1>6. /\ InFlight(c) /\ c \in WorkingOn(s) /\ Guarded(c, s)
      /\ step \in Steps \ {"new", "done", "find", "create"}
  BY <1>2 DEF Activate, RunAsks, RunSettles, RunRaises, LookFails, FileTicket, InFlight, At,
     WorkingOn, Guarded, Steps
<1>7. /\ row' \in [Calls -> Row]
      /\ \A t \in Calls \ {s} : row'[t] = row[t] /\ thread'[t] = thread[t]
                                /\ tickets'[t] = tickets[t]
      /\ tickets[s] > 0 => tickets'[s] > 0
  <2>1. row' = row \/ RowWritten(s)
    BY <1>1, <1>2, RowWriters DEF LookFails, FileTicket, store
  <2>2. row' \in [Calls -> Row]
    BY <1>1, <2>1, RowWrites DEF DispatcherTypeOK
  <2>3. \A t \in Calls \ {s} : row'[t] = row[t]
    BY <1>1, <2>1, RowWrites
  <2>4. \A t \in Calls \ {s} : thread'[t] = thread[t]
    BY <1>1, <1>2 DEF Activate, RunAsks, RunSettles, RunRaises, LookFails, FileTicket, graph,
       DispatcherTypeOK
  <2>5. tickets' = tickets \/ tickets' = [tickets EXCEPT ![s] = @ + 1]
    BY <1>2 DEF Activate, RunAsks, RunSettles, RunRaises, LookFails, FileTicket, store, Session
  <2> QED
    BY <1>1, <2>2, <2>3, <2>4, <2>5 DEF DispatcherTypeOK
<1>8. Touches(c, s)
  BY <1>3, <1>5, <1>7 DEF Touches
<1>9. s \notin crowded => /\ row[s].terminal = "settled" => Pending(s) = NoQuestion
                          /\ call[c].step \in Early => row[s].terminal = None
                          /\ call[c].step = "inspect" => row[s].terminal # "failed"
  BY <1>6 DEF RestInv, Orderly, At
<1> DEFINE Goal ==
      /\ step = "inspect" => Pending(s)' # NoQuestion \/ row'[s].terminal # None
      /\ step = "fail" => tickets'[s] > 0
      /\ s \notin crowded =>
           /\ row'[s].terminal = "settled" => Pending(s)' = NoQuestion
           /\ step \in Early => row'[s].terminal = None
           /\ step = "inspect" => row'[s].terminal # "failed"
      /\ faults' = 0 /\ row'[s].terminal = None => Answerable(s)' \/ step \in Driving
<1>10. ASSUME Activate(c) PROVE Goal
  <2>1. call[c].step = "activate" /\ step = "invoke" /\ thread' = thread
    BY <1>1, <1>5, <1>10, GoOnChanges DEF Activate, At, graph, Steps
  <2>2. row'[s].terminal = row[s].terminal
    BY <1>1, <1>2, <1>10 DEF Activate, DispatcherTypeOK, Row
  <2>3. Goal
    BY <1>9, <2>1, <2>2 DEF Early, Driving, Pending
  <2> QED
    BY <2>3
<1>11. ASSUME RunAsks(c) PROVE Goal
  <2>1. call[c].step = "invoke" /\ step = "inspect"
    BY <1>1, <1>5, <1>11, GoOnChanges DEF RunAsks, At, Steps
  <2>2. row'[s].terminal = row[s].terminal /\ row'[s].status = "waiting_employee"
    BY <1>1, <1>2, <1>11 DEF RunAsks, DispatcherTypeOK, Row
  <2>3. thread'[s].question # NoQuestion
    <3>1. asked[s] + 1 # 0
      BY <1>1 DEF DispatcherTypeOK
    <3>2. thread'[s].question.number = asked[s] + 1
      BY <1>1, <1>2, <1>11 DEF RunAsks, DispatcherTypeOK
    <3> QED
      BY <3>1, <3>2 DEF NoQuestion
  <2>4. Goal
    BY <1>9, <2>1, <2>2, <2>3 DEF Early, Driving, Pending, Answerable, None
  <2> QED
    BY <2>4
<1>12. ASSUME RunSettles(c) PROVE Goal
  <2>1. call[c].step = "invoke" /\ step = "inspect"
    BY <1>1, <1>5, <1>12, GoOnChanges DEF RunSettles, At, Steps
  <2>2. row'[s].terminal = "settled"
    BY <1>1, <1>2, <1>12 DEF RunSettles, SettledRow, DispatcherTypeOK, Row
  <2>3. thread'[s].question = NoQuestion
    BY <1>1, <1>2, <1>12 DEF RunSettles, DispatcherTypeOK
  <2>4. Goal
    BY <2>1, <2>2, <2>3 DEF Early, Pending, None
  <2> QED
    BY <2>4
<1>13. ASSUME RunRaises(c) PROVE Goal
  <2>1. call[c].step = "invoke" /\ step = "ticket"
    BY <1>1, <1>5, <1>13, GoOnChanges DEF RunRaises, At, Steps
  <2>2. PICK left \in LeftBehind(s) : row'[s] = left.row /\ thread'[s] = left.thread
    <3>1. PICK left \in LeftBehind(s) : /\ thread' = [thread EXCEPT ![s] = left.thread]
                                       /\ row' = [row EXCEPT ![s] = left.row]
      BY <1>2, <1>13 DEF RunRaises, LeftBehind
    <3> QED
      BY <1>1, <3>1 DEF DispatcherTypeOK
  <2>3. left.row.terminal = row[s].terminal \/ left.thread.question = NoQuestion
    BY <1>1, LeftTypes
  <2>4. s \notin crowded /\ row'[s].terminal = "settled" => Pending(s)' = NoQuestion
    BY <1>9, <2>1, <2>2, <2>3 DEF Early, None, Pending
  <2>5. Goal
    BY <2>1, <2>4 DEF Early, Driving
  <2> QED
    BY <2>5
<1>14. ASSUME LookFails(c) PROVE Goal
  <2>1. step = "ticket" /\ row' = row /\ thread' = thread
    BY <1>1, <1>5, <1>14, GoOnChanges DEF LookFails, Steps, store, graph
  <2>2. Goal
    BY <1>9, <2>1 DEF Early, Driving, Pending
  <2> QED
    BY <2>2
<1>15. ASSUME FileTicket(c) PROVE Goal
  <2>1. step = "fail" /\ row' = row /\ thread' = thread
    BY <1>1, <1>5, <1>15, GoOnChanges DEF FileTicket, Steps, graph
  <2>2. tickets'[s] > 0
    BY <1>1, <1>2, <1>15 DEF FileTicket, DispatcherTypeOK
  <2>3. Goal
    BY <1>9, <2>1, <2>2 DEF Early, Driving, Pending
  <2> QED
    BY <2>3
<1>16. Goal
  BY <1>10, <1>11, <1>12, <1>13, <1>14, <1>15
<1>17. Knowing(c)'
  BY <1>5, <1>16 DEF Knowing, At, Unplaced, Session
<1> QED
  BY <1>2, <1>3, <1>5, <1>6, <1>8, <1>16, <1>17, InPlaceRests

(* A request is answered.                                                  *)
LEMMA AnswersRest ==
  ASSUME BaseInv, RestInv, NEW c \in Calls,
         \/ Refuse(c) \/ (CheckOpen(c) /\ row[Session(c)].terminal # None)
         \/ StoreFails(c) \/ Inspect(c) \/ FailSession(c) \/ FailSafeFails(c)
  PROVE  RestInv'
<1>1. DispatcherTypeOK /\ CallOK(c) /\ call[c] \in Call /\ Knowing(c)
  BY CallTypes DEF BaseInv, CallsOK, RestInv
<1>2. PICK s \in Calls : call[c].session \in Calls => call[c].session = s
  OBVIOUS
<1>3. /\ call' \in [Calls -> Call] /\ call'[c].step = "done"
      /\ \A d \in Calls \ {c} : call'[d] = call[d]
  <2>1. \E reply \in Replies : Done(c, reply)
    <3>1. Report(call[c].session, c) \in Replies
      BY DEF Report, Replies
    <3> QED
      BY <3>1 DEF Refuse, CheckOpen, StoreFails, Inspect, FailSession, FailSafeFails, Replies,
         Session
  <2> QED
    BY <1>1, <2>1, DoneChanges
<1>4. UNCHANGED <<thread, tickets, crowded>> /\ (faults' = 0 => faults = 0)
  BY <1>1 DEF Refuse, CheckOpen, StoreFails, Inspect, FailSession, FailSafeFails, graph, store,
     history, DispatcherTypeOK
<1>5. CASE (FailSession(c) \/ FailSafeFails(c)) /\ MarkFailed(Session(c))
  <2>1. Session(c) = s /\ InFlight(c) /\ holder[s] = c
    BY <1>1, <1>2, <1>5 DEF FailSession, FailSafeFails, CallOK, Placed, Steps, At, Session,
       InFlight, Critical, Holds
  <2>2. RowWritten(s)
    BY <1>1, <1>5, <2>1, RowWriters
  <2>3. row' \in [Calls -> Row] /\ row'[s].terminal = "failed" /\ \A t \in Calls \ {s} : row'[t] = row[t]
    BY <1>1, <1>5, <2>1, <2>2, RowWrites DEF MarkFailed, DispatcherTypeOK, Row
  <2>4. Touches(c, s) /\ Guarded(c, s)
    BY <1>3, <1>4, <2>1, <2>3 DEF Touches, Guarded
  <2>5. c \in WorkingOn(s) /\ "failed" # None
    BY <2>1 DEF WorkingOn, None
  <2> QED
    BY <1>2, <1>3, <1>4, <2>3, <2>4, <2>5, LeavesRests
<1>6. CASE ~FailSession(c) /\ row' = row
  <2>1. row' = row
    BY <1>6
  <2>2. Touches(c, s) /\ Guarded(c, s)
    BY <1>1, <1>3, <1>4, <2>1 DEF Touches, Guarded, DispatcherTypeOK
  <2>3. faults' = 0 /\ row'[s].terminal = None /\ Session(c) = s => call[c].step \notin Driving
    <3>1. CASE Refuse(c) \/ Inspect(c)
      BY <3>1 DEF Refuse, Inspect, At, Driving, Early
    <3>2. CASE CheckOpen(c) /\ row[Session(c)].terminal # None
      BY <2>1, <3>2
    <3>3. CASE StoreFails(c) \/ FailSafeFails(c)
      BY <1>1, <3>3 DEF StoreFails, FailSafeFails, DispatcherTypeOK
    <3> QED
      BY <1>6, <3>1, <3>2, <3>3
  <2> QED
    BY <1>2, <1>3, <1>4, <2>1, <2>2, <2>3, LeavesRests DEF Session
<1> QED
  BY <1>5, <1>6 DEF Refuse, CheckOpen, StoreFails, Inspect, FailSession, FailSafeFails, store

(* A crash leaves nobody at work and takes nothing back that was settled.  *)
LEMMA CrashRests ==
  ASSUME BaseInv, RestInv, Crash
  PROVE  RestInv'
<1>1. DispatcherTypeOK
  BY DEF BaseInv
<1>2. faults' # 0 /\ UNCHANGED crowded
  BY <1>1 DEF Crash, DispatcherTypeOK, history
<1>3. ASSUME NEW c \in Calls
      PROVE  /\ call'[c].step \in {"new", "done"}
             /\ call'[c].step = "new" => call'[c] = call[c]
  BY DEF Crash, InFlight, At, Answered, NotSent
<1>4. ASSUME NEW c \in Calls PROVE Knowing(c)'
  BY <1>3 DEF RestInv, Knowing, At, Session, Unplaced
<1>5. ASSUME NEW s \in Calls, s \notin crowded' PROVE Orderly(s)'
  <2>1. Orderly(s)
    BY <1>2, <1>5 DEF RestInv
  <2>2. row'[s].terminal = "settled" => Pending(s)' = NoQuestion
    <3>1. CASE Spared(s)
      BY <2>1, <3>1 DEF Spared, Orderly, Pending
    <3>2. CASE Stopped(s)
      BY <1>1, <2>1, <3>2, LeftTypes DEF Stopped, Orderly, Pending
    <3> QED
      BY <3>1, <3>2, CrashLeaves
  <2> QED
    BY <1>3, <2>2 DEF Orderly, WorkingOn, InFlight, At
<1> QED
  BY <1>2, <1>4, <1>5 DEF RestInv

(* Every step keeps the sessions answerable and the requests informed.     *)
LEMMA RestStep ==
  ASSUME BaseInv, RestInv, [Next]_vars
  PROVE  RestInv'
<1>1. CASE UNCHANGED vars
  BY <1>1 DEF vars, store, graph, locks, history, RestInv, Knowing, Orderly, Alive, Answerable,
     Exists, Pending, Session, At, WorkingOn, InFlight
<1>2. CASE Crash
  BY <1>2, CrashRests
<1>3. ASSUME NEW c \in Calls, Send(c) \/ Work(c) \/ Fault(c) PROVE RestInv'
  BY <1>3, ArrivalsRest, WaitingRests, RunningRests, AnswersRest DEF Send, Work, Fault
<1> QED
  BY <1>1, <1>2, <1>3 DEF Next

(* RestInv holds in every reachable state.                                 *)
LEMMA RestHolds == Spec => []RestInv
<1>1. ASSUME Init PROVE RestInv
  <2>1. /\ \A c \in Calls : call[c].step = "new" /\ call[c].session = None
        /\ \A s \in Calls : row[s] = NoRow /\ thread[s].question = NoQuestion
    BY <1>1 DEF Init, NotSent
  <2>2. \A c \in Calls : Knowing(c)
    BY <2>1 DEF Knowing, At, Session
  <2>3. \A s \in Calls : Orderly(s)
    BY <2>1 DEF Orderly, WorkingOn, InFlight, At, Pending
  <2>4. \A s \in Calls : Alive(s)
    BY <2>1 DEF Alive, Exists
  <2> QED
    BY <2>2, <2>3, <2>4 DEF RestInv
<1> QED
  BY <1>1, BaseHolds, RestStep, PTL DEF Spec

(* A session at rest is open only if it waits for an answer it can take,   *)
(* and settled with no question left where two requests never met          *)
(* (continue_session, _fail_safe).                                         *)
THEOREM SessionsRestAnswerable == Spec => []RestsAnswerable
<1>1. RestInv => RestsAnswerable
  <2> SUFFICES ASSUME RestInv, faults = 0, NEW s \in Calls, AtRest(s)
               PROVE  /\ row[s].terminal = None =>
                           Pending(s) # NoQuestion /\ row[s].status = "waiting_employee"
                      /\ row[s].terminal = "settled" /\ s \notin crowded => Pending(s) = NoQuestion
    BY DEF RestsAnswerable
  <2>1. \A c \in Calls : ~(Session(c) = s /\ call[c].step \in Driving)
    BY DEF AtRest, WorkingOn, InFlight, At, Driving, Early
  <2> QED
    BY <2>1 DEF RestInv, Alive, Answerable, AtRest, Orderly
<1> QED
  BY <1>1, RestHolds, PTL

(* What a request is told is what the rows and the checkpoint say then     *)
(* (_outcome, _fail_safe).                                                 *)
THEOREM TruthIsTold == Spec => RepliesAreTrue
<1> DEFINE Told(c) ==
      LET s == Session(c) IN
      CASE call'[c].reply = "question" ->
             /\ thread'[s].question # NoQuestion
             /\ row'[s].terminal = None \/ s \in crowded \/ faults > 0
        [] call'[c].reply = "outcome" -> row'[s].terminal # None
        [] call'[c].reply = "failed"  -> tickets'[s] > 0 /\ row'[s].terminal = "failed"
        [] OTHER -> TRUE
<1>1. ASSUME BaseInv, RestInv, [Next]_vars, NEW c \in Calls, call'[c].reply # call[c].reply
      PROVE  Told(c)
  <2>1. DispatcherTypeOK /\ CallOK(c) /\ Knowing(c)
    BY <1>1 DEF BaseInv, CallsOK, RestInv
  <2>2. CASE Inspect(c)
    <3>1. PICK s \in Calls : s = Session(c)
      BY <2>1, <2>2 DEF Inspect, CallOK, Placed, Steps, At
    <3>2. call'[c].reply = Report(s, c) /\ row' = row /\ thread' = thread
      BY <2>1, <2>2, <3>1 DEF Inspect, Done, Answered, NotSent, store, graph, DispatcherTypeOK
    <3>3. c \in WorkingOn(s)
      BY <2>2, <3>1 DEF Inspect, WorkingOn, InFlight, At
    <3>4. s \notin crowded /\ Pending(s) # NoQuestion => row[s].terminal = None
      <4>1. s \notin crowded => Orderly(s)
        BY <1>1 DEF RestInv
      <4>2. row[s].terminal \in {None, "settled", "failed"}
        BY <2>1 DEF DispatcherTypeOK, Row
      <4> QED
        BY <2>2, <3>3, <4>1, <4>2 DEF Orderly, Inspect
    <3>5. Pending(s) = NoQuestion => row[s].terminal # None
      BY <2>1, <2>2, <3>1 DEF Knowing, Inspect
    <3>6. CASE Pending(s) # NoQuestion
      BY <3>1, <3>2, <3>4, <3>6 DEF Report, Pending
    <3>7. CASE Pending(s) = NoQuestion
      BY <3>1, <3>2, <3>5, <3>7 DEF Report, Pending
    <3> QED
      BY <3>6, <3>7
  <2>3. CASE FailSession(c)
    <3>1. PICK s \in Calls : s = Session(c)
      BY <2>1, <2>3 DEF FailSession, CallOK, Placed, Steps, At
    <3>2. call'[c].reply = "failed" /\ tickets' = tickets /\ row'[s].terminal = "failed"
      BY <2>1, <2>3, <3>1 DEF FailSession, MarkFailed, Done, Answered, NotSent, DispatcherTypeOK, Row
    <3>3. tickets[s] > 0
      BY <2>1, <2>3, <3>1 DEF Knowing, FailSession
    <3> QED
      BY <3>1, <3>2, <3>3
  <2>4. CASE ~Inspect(c) /\ ~FailSession(c)
    <3>1. call'[c].reply \in {"refused", "error", "unavailable", "lost"}
      <4>1. ASSUME NEW d \in Calls, Send(d) \/ Work(d) \/ Fault(d)
            PROVE  call'[c].reply \in {"refused", "error", "unavailable", "lost"}
        <5>1. CASE d # c
          <6>1. \E new : call' = [call EXCEPT ![d] = new]
            BY <4>1 DEF Send, Work, Fault, SendStart, SendVoice, Refuse, SendReply, FindVoice,
               CreateSession, CheckOpen, StoreMessage, BeginStart, LookAtPending, Activate,
               RunAsks, RunSettles, RunRaises, Inspect, FileTicket, FailSession, StoreFails,
               LookFails, FailSafeFails, GoOn, Done, TurnTo
          <6> QED
            BY <1>1, <2>1, <5>1, <6>1 DEF DispatcherTypeOK
        <5>2. CASE d = c
          <6>1. CASE \E reply \in {"refused", "error", "unavailable"} : Done(c, reply)
            BY <1>1, <2>1, <6>1 DEF Done, Answered, NotSent, DispatcherTypeOK
          <6>2. CASE \E step : GoOn(c, step)
            BY <1>1, <2>1, <6>2 DEF GoOn, DispatcherTypeOK, Call
          <6>3. CASE \E s, step : call' = [call EXCEPT ![c].session = s, ![c].step = step]
            <7>1. PICK s, step : call' = [call EXCEPT ![c].session = s, ![c].step = step]
              BY <6>3
            <7> DEFINE new == [[call[c] EXCEPT !.session = s] EXCEPT !.step = step]
            <7>2. call' = [call EXCEPT ![c] = new]
              BY <2>1, <7>1 DEF DispatcherTypeOK
            <7>3. new.reply = call[c].reply
              BY <2>1 DEF DispatcherTypeOK, Call
            <7> HIDE DEF new
            <7> QED
              BY <1>1, <2>1, <7>2, <7>3 DEF DispatcherTypeOK
          <6>4. CASE \E s, n : call' = [call EXCEPT ![c].session = s, ![c].step = "get", ![c].seen = n]
            <7>1. PICK s, n :
                    call' = [call EXCEPT ![c].session = s, ![c].step = "get", ![c].seen = n]
              BY <6>4
            <7> DEFINE new == [[[call[c] EXCEPT !.session = s] EXCEPT !.step = "get"]
                                 EXCEPT !.seen = n]
            <7>2. call' = [call EXCEPT ![c] = new]
              BY <2>1, <7>1 DEF DispatcherTypeOK
            <7>3. new.reply = call[c].reply
              BY <2>1 DEF DispatcherTypeOK, Call
            <7> HIDE DEF new
            <7> QED
              BY <1>1, <2>1, <7>2, <7>3 DEF DispatcherTypeOK
          <6>5. CASE call' = [call EXCEPT ![c].step = "find", ![c].voice = TRUE]
            BY ZenonT(60), <1>1, <2>1, <6>5 DEF DispatcherTypeOK, Call
          <6>6. CASE \E n : call' = [call EXCEPT ![c].step = "invoke", ![c].answers = n]
            BY ZenonT(60), <1>1, <2>1, <6>6 DEF DispatcherTypeOK, Call
          <6>7. CASE Send(c)
            BY <6>1, <6>2, <6>4, <6>5, <6>7 DEF Send, SendStart, SendVoice, Refuse, SendReply
          <6>8. CASE FindVoice(c) \/ CreateSession(c) \/ CheckOpen(c) \/ StoreMessage(c)
            BY <6>1, <6>2, <6>3, <6>8 DEF FindVoice, CreateSession, CheckOpen, StoreMessage, TurnTo
          <6>9. CASE BeginStart(c) \/ LookAtPending(c) \/ Activate(c) \/ FileTicket(c)
            BY <6>2, <6>6, <6>9 DEF BeginStart, LookAtPending, Activate, FileTicket
          <6>10. CASE RunAsks(c) \/ RunSettles(c) \/ RunRaises(c)
            BY <6>2, <6>10 DEF RunAsks, RunSettles, RunRaises
          <6>11. CASE Fault(c)
            BY <6>1, <6>2, <6>11 DEF Fault, StoreFails, LookFails, FailSafeFails
          <6> QED
            BY <2>4, <4>1, <5>2, <6>7, <6>8, <6>9, <6>10, <6>11 DEF Work
        <5> QED
          BY <5>1, <5>2
      <4>2. CASE Crash
        BY <1>1, <4>2 DEF Crash, Answered, NotSent
      <4> QED
        BY <1>1, <4>1, <4>2 DEF Next, vars
    <3> QED
      BY <3>1
  <2> QED
    BY <2>2, <2>3, <2>4
<1>2. BaseInv /\ RestInv /\ [Next]_vars =>
        [\A c \in Calls : call'[c].reply # call[c].reply => Told(c)]_vars
  BY <1>1
<1> QED
  BY <1>2, BaseHolds, RestHolds, PTL DEF Spec, RepliesAreTrue
-----------------------------------------------------------------------------
\* The session contract

ServingSteps == {"invoke", "ticket", "fail"}

(* The stage of a session that nobody serves.                              *)
Left(terminal, question) ==
  IF terminal # None THEN "closed" ELSE IF question # NoQuestion THEN "asking" ELSE "open"

(* The stage of a session, before and after a step.                        *)
LEMMA Stages ==
  ASSUME NEW s \in Calls
  PROVE  /\ Serving(s) => StageOf(s) = "working"
         /\ ~Serving(s) => StageOf(s) = Left(row[s].terminal, Pending(s))
         /\ Serving(s)' => StageOf(s)' = "working"
         /\ ~Serving(s)' => StageOf(s)' = Left(row'[s].terminal, Pending(s)')
         /\ OutcomeOf(s) = IF Serving(s) THEN None ELSE row[s].terminal
         /\ OutcomeOf(s)' = IF Serving(s)' THEN None ELSE row'[s].terminal
         /\ Serving(s) \in BOOLEAN
BY DEF StageOf, OutcomeOf, Left, Serving

(* The steps of the contract, by the stages that they lead from and to.    *)
LEMMA ContractMoves ==
  ASSUME NEW s \in Calls,
         \/ /\ <<StageOf(s), StageOf(s)'>> \in {<<"open", "working">>, <<"asking", "working">>,
                                                <<"working", "asking">>, <<"working", "open">>}
            /\ OutcomeOf(s)' = OutcomeOf(s)
         \/ /\ StageOf(s) = "working" /\ StageOf(s)' = "closed"
            /\ OutcomeOf(s)' \in {"settled", "failed"}
  PROVE  Contract(s)!Next
<1>1. CASE StageOf(s) = "open" /\ StageOf(s)' = "working" /\ OutcomeOf(s)' = OutcomeOf(s)
  <2>1. Contract(s)!Receive
    BY <1>1 DEF Contract!Receive
  <2> QED
    BY <2>1 DEF Contract!Next
<1>2. CASE StageOf(s) = "asking" /\ StageOf(s)' = "working" /\ OutcomeOf(s)' = OutcomeOf(s)
  <2>1. Contract(s)!Answer
    BY <1>2 DEF Contract!Answer
  <2> QED
    BY <2>1 DEF Contract!Next
<1>3. CASE StageOf(s) = "working" /\ StageOf(s)' = "asking" /\ OutcomeOf(s)' = OutcomeOf(s)
  <2>1. Contract(s)!Ask
    BY <1>3 DEF Contract!Ask
  <2> QED
    BY <2>1 DEF Contract!Next
<1>4. CASE StageOf(s) = "working" /\ StageOf(s)' = "open" /\ OutcomeOf(s)' = OutcomeOf(s)
  <2>1. Contract(s)!Lose
    BY <1>4 DEF Contract!Lose
  <2> QED
    BY <2>1 DEF Contract!Next
<1>5. CASE /\ StageOf(s) = "working" /\ StageOf(s)' = "closed"
           /\ OutcomeOf(s)' \in {"settled", "failed"}
  <2>1. \E o \in {"settled", "failed"} : Contract(s)!Close(o)
    BY <1>5 DEF Contract!Close
  <2> QED
    BY <2>1 DEF Contract!Next
<1> QED
  BY <1>1, <1>2, <1>3, <1>4, <1>5

Serves(c, s) == call[c].step \in ServingSteps /\ Session(c) = s

(* A session whose row and checkpoint stay, and that c neither takes up    *)
(* nor leaves, stays at its stage.                                         *)
LEMMA StageStays ==
  ASSUME NEW c \in Calls, NEW s \in Calls, \A d \in Calls \ {c} : call'[d] = call[d],
         Serves(c, s)' <=> Serves(c, s),
         row'[s].terminal = row[s].terminal, thread'[s].question = thread[s].question
  PROVE  UNCHANGED <<StageOf(s), OutcomeOf(s)>>
<1>1. \A d \in Calls : Serves(d, s)' <=> Serves(d, s)
  BY DEF Serves, Session
<1>2. /\ Serving(s) <=> \E d \in Calls : Serves(d, s)
      /\ Serving(s)' <=> \E d \in Calls : Serves(d, s)'
  BY DEF Serving, Serves, ServingSteps
<1>3. Serving(s)' <=> Serving(s)
  BY <1>1, <1>2
<1> QED
  BY <1>3, Stages DEF Pending

(* A session on which no two requests met is served by c or by nobody.     *)
LEMMA ServedByOne ==
  ASSUME RestInv, NEW c \in Calls, NEW s \in Calls, s \notin crowded, c \in WorkingOn(s),
         \A d \in Calls \ {c} : call'[d] = call[d],
         call'[c].session = s \/ call'[c].step = "done"
  PROVE  /\ Serving(s) <=> call[c].step \in ServingSteps
         /\ Serving(s)' <=> call'[c].step \in ServingSteps
<1>1. \A d \in WorkingOn(s) : d = c
  BY DEF RestInv, Orderly
<1>2. \A d \in WorkingOn(s)' : d = c
  BY <1>1 DEF WorkingOn, InFlight, At, Session
<1>3. \A d \in Calls : call[d].step \in ServingSteps /\ Session(d) = s => d \in WorkingOn(s)
  BY DEF ServingSteps, WorkingOn, InFlight, At
<1>4. \A d \in Calls :
        call'[d].step \in ServingSteps /\ Session(d)' = s => d \in WorkingOn(s)'
  BY DEF ServingSteps, WorkingOn, InFlight, At
<1>5. Session(c) = s /\ (call'[c].step \in ServingSteps => Session(c)' = s)
  BY DEF WorkingOn, ServingSteps, Session
<1> QED
  BY <1>1, <1>2, <1>3, <1>4, <1>5 DEF Serving, ServingSteps

Served(s) ==
  \/ UNCHANGED <<StageOf(s), OutcomeOf(s)>>
  \/ Contract(s)!Next
  \/ TakenUpAgain(s)

(* What c does for its session is nothing to another session.              *)
LEMMA ElsewhereServed ==
  ASSUME NEW c \in Calls, NEW s \in Calls, \A d \in Calls \ {c} : call'[d] = call[d],
         Session(c) # s, call'[c].session = Session(c) \/ call'[c].step = "done",
         row'[s].terminal = row[s].terminal, thread'[s].question = thread[s].question
  PROVE  Served(s)
<1>1. ~Serves(c, s) /\ ~Serves(c, s)'
  BY DEF Serves, ServingSteps, Session
<1> QED
  BY <1>1, StageStays DEF Served

(* Before the lock, and on the way out of it, a request moves no session.  *)
LEMMA QuietServed ==
  ASSUME BaseInv, NEW c \in Calls, NEW s \in Calls,
         \/ Send(c) \/ FindVoice(c) \/ CreateSession(c) \/ CheckOpen(c) \/ StoreMessage(c)
         \/ StoreFails(c) \/ Inspect(c)
         \/ (LookAtPending(c) /\ Pending(Session(c)) = NoQuestion)
  PROVE  Served(s)
<1>1. DispatcherTypeOK /\ call[c] \in Call
  BY CallTypes DEF BaseInv
<1>2. call[c].step \notin ServingSteps
  BY DEF Send, SendStart, SendReply, SendVoice, Refuse, FindVoice, CreateSession, CheckOpen,
     StoreMessage, StoreFails, Inspect, LookAtPending, At, ServingSteps
<1>3. call'[c].step \notin ServingSteps /\ \A d \in Calls \ {c} : call'[d] = call[d]
  <2>1. CASE \E step \in {"create", "get", "store", "wait", "activate"} : GoOn(c, step)
    BY <1>1, <2>1, GoOnChanges DEF Steps, ServingSteps
  <2>2. CASE \E reply \in Replies : Done(c, reply)
    BY <1>1, <2>2, DoneChanges DEF ServingSteps
  <2>3. CASE \E t \in Calls, step \in {"get", "store"} : TurnTo(c, t, step)
    BY <1>1, <2>3, TurnToChanges DEF Steps, ServingSteps
  <2>4. CASE SendVoice(c)
    BY ZenonT(60), <1>1, <2>4 DEF SendVoice, ServingSteps, DispatcherTypeOK, Call
  <2>5. CASE \E t \in Calls : SendReply(c, t)
    <3>1. PICK t, n :
            call' = [call EXCEPT ![c].session = t, ![c].step = "get", ![c].seen = n]
      BY <2>5 DEF SendReply
    <3>2. call \in [Calls -> Call]
      BY <1>1 DEF DispatcherTypeOK
    <3>3. call'[c].step = "get" /\ \A d \in Calls \ {c} : call'[d] = call[d]
      BY ZenonT(60), <3>1, <3>2 DEF Call
    <3> QED
      BY <3>3 DEF ServingSteps
  <2> QED
    <3>1. Inspect(c) => \E reply \in Replies : Done(c, reply)
      BY DEF Inspect, Report, Replies
    <3>2. Refuse(c) \/ StoreFails(c) => \E reply \in Replies : Done(c, reply)
      BY DEF Refuse, StoreFails, Replies
    <3>3. CheckOpen(c) => (\E reply \in Replies : Done(c, reply)) \/ GoOn(c, "store")
      BY DEF CheckOpen, Replies
    <3>4. SendStart(c) \/ StoreMessage(c) => GoOn(c, "create") \/ GoOn(c, "wait")
      BY DEF SendStart, StoreMessage
    <3>5. FindVoice(c) => GoOn(c, "create") \/ \E t \in Calls : TurnTo(c, t, "get")
      BY DEF FindVoice, OpenVoiceSessions
    <3>6. CreateSession(c) => TurnTo(c, c, "store")
      BY DEF CreateSession
    <3>7. LookAtPending(c) /\ Pending(Session(c)) = NoQuestion => GoOn(c, "activate")
      BY DEF LookAtPending
    <3> QED
      BY <2>1, <2>2, <2>3, <2>4, <2>5, <3>1, <3>2, <3>3, <3>4, <3>5, <3>6, <3>7 DEF Send
<1>4. ~Serves(c, s) /\ ~Serves(c, s)'
  BY <1>2, <1>3 DEF Serves
<1>5. row'[s].terminal = row[s].terminal
  <2>1. CASE CreateSession(c)
    <3>1. row[c].terminal = None /\ row'[c].terminal = None
      BY <1>1, <2>1 DEF CreateSession, Exists, NoRow, DispatcherTypeOK
    <3>2. s # c => row'[s] = row[s]
      BY <1>1, <2>1 DEF CreateSession, DispatcherTypeOK
    <3> QED
      BY <3>1, <3>2
  <2>2. CASE ~CreateSession(c)
    BY <2>2 DEF Send, SendStart, SendReply, SendVoice, Refuse, FindVoice, CheckOpen, StoreMessage,
       StoreFails, Inspect, LookAtPending, store
  <2> QED
    BY <2>1, <2>2
<1>6. thread' = thread
  BY DEF Send, SendStart, SendReply, SendVoice, Refuse, FindVoice, CreateSession, CheckOpen,
     StoreMessage, StoreFails, Inspect, LookAtPending, graph
<1> QED
  BY <1>3, <1>4, <1>5, <1>6, StageStays DEF Served

(* A request whose run starts takes up an open or asking session.          *)
LEMMA StartServed ==
  ASSUME BaseInv, RestInv, NEW c \in Calls, NEW s \in Calls, s \notin crowded',
         \/ BeginStart(c) \/ Activate(c)
         \/ (LookAtPending(c) /\ Pending(Session(c)) # NoQuestion)
         \/ (LookFails(c) /\ ~At(c, "inspect"))
  PROVE  Served(s)
<1>1. DispatcherTypeOK /\ CallOK(c) /\ call[c] \in Call
  BY CallTypes DEF BaseInv, CallsOK
<1>2. /\ call[c].step \in {"wait", "activate"} /\ thread' = thread /\ crowded' = crowded
      /\ \A t \in Calls : row'[t].terminal = row[t].terminal
  <2>1. CASE Activate(c)
    BY <1>1, <2>1 DEF Activate, DispatcherTypeOK, Row, At, graph, history
  <2>2. CASE ~Activate(c)
    BY <2>2 DEF BeginStart, LookAtPending, LookFails, At, store, graph, history
  <2> QED
    BY <2>1, <2>2
<1>3. Session(c) \in Calls
  BY <1>1, <1>2 DEF CallOK, Placed, Steps
<1>4. /\ \A d \in Calls \ {c} : call'[d] = call[d]
      /\ call'[c].session = Session(c) /\ call'[c].step \in ServingSteps
  <2>1. CASE GoOn(c, "invoke") \/ GoOn(c, "ticket")
    BY <1>1, <2>1, GoOnChanges DEF Steps, Session, ServingSteps
  <2>2. CASE call' = [call EXCEPT ![c].step = "invoke", ![c].answers = Pending(Session(c)).number]
    <3>1. Pending(Session(c)).number \in Nat /\ call \in [Calls -> Call]
      BY <1>1, <1>3 DEF DispatcherTypeOK, Pending, Question
    <3> QED
      BY <2>2, <3>1 DEF Call, Session, ServingSteps
  <2> QED
    BY <2>1, <2>2 DEF BeginStart, Activate, LookAtPending, LookFails
<1>5. CASE Session(c) # s
  BY <1>2, <1>4, <1>5, ElsewhereServed
<1>6. CASE Session(c) = s
  <2>1. c \in WorkingOn(s)
    BY <1>2, <1>6 DEF WorkingOn, InFlight, At
  <2>2. row[s].terminal = None
    BY <1>2, <2>1 DEF RestInv, Orderly, Early
  <2>3. ~Serving(s) /\ Serving(s)'
    BY <1>2, <1>4, <1>6, <2>1, ServedByOne DEF ServingSteps
  <2>4. /\ StageOf(s) \in {"open", "asking"} /\ StageOf(s)' = "working"
        /\ OutcomeOf(s)' = OutcomeOf(s)
    BY <2>2, <2>3, Stages DEF Left
  <2> QED
    BY <1>2, <2>4, ContractMoves DEF Served
<1> QED
  BY <1>5, <1>6

(* A run asks, settles or raises, and the fail-safe files its ticket; the  *)
(* look at what the run left may fail.                                     *)
LEMMA RunServed ==
  ASSUME BaseInv, RestInv, NEW c \in Calls, NEW s \in Calls, s \notin crowded',
         \/ RunAsks(c) \/ RunSettles(c) \/ RunRaises(c) \/ FileTicket(c)
         \/ (LookFails(c) /\ At(c, "inspect"))
  PROVE  Served(s)
<1>1. DispatcherTypeOK /\ CallOK(c) /\ call[c] \in Call
  BY CallTypes DEF BaseInv, CallsOK
<1>2. /\ call[c].step \in {"invoke", "ticket", "inspect"} /\ crowded' = crowded
      /\ Session(c) \in Calls
  BY <1>1 DEF RunAsks, RunSettles, RunRaises, FileTicket, LookFails, At, history, CallOK, Placed,
     Steps
<1>3. PICK step \in {"inspect", "ticket", "fail"} : GoOn(c, step)
  BY DEF RunAsks, RunSettles, RunRaises, FileTicket, LookFails
<1>4. /\ \A d \in Calls \ {c} : call'[d] = call[d]
      /\ call'[c].session = Session(c) /\ call'[c].step = step
  BY <1>1, <1>3, GoOnChanges DEF Steps, Session
<1>5. CASE Session(c) # s
  <2>1. row'[s] = row[s] /\ thread'[s] = thread[s]
    <3>1. row' = row \/ RowWritten(Session(c))
      BY <1>1, <1>2, RowWriters DEF FileTicket, LookFails, store
    <3>2. thread' = thread \/ \E new : thread' = [thread EXCEPT ![Session(c)] = new]
      BY DEF RunAsks, RunSettles, RunRaises, FileTicket, LookFails, graph
    <3> QED
      BY <1>1, <1>2, <1>5, <3>1, <3>2, RowWrites DEF DispatcherTypeOK
  <2> QED
    BY <1>4, <1>5, <2>1, ElsewhereServed
<1>6. CASE Session(c) = s
  <2>1. c \in WorkingOn(s)
    BY <1>2, <1>6 DEF WorkingOn, InFlight, At
  <2>2. /\ Serving(s) <=> call[c].step \in ServingSteps
        /\ Serving(s)' <=> step \in ServingSteps
    BY <1>2, <1>4, <1>6, <2>1, ServedByOne
  <2>3. call[c].step = "invoke" => row[s].terminal = None
    BY <1>2, <2>1 DEF RestInv, Orderly, Early
  <2>4. CASE RunAsks(c)
    <3>1. step = "inspect" /\ StageOf(s) = "working" /\ row'[s].terminal = None
      BY <1>1, <1>2, <1>4, <1>6, <2>2, <2>3, <2>4, GoOnChanges, Stages
         DEF RunAsks, At, ServingSteps, Steps, DispatcherTypeOK, Row
    <3>2. Pending(s)' # NoQuestion
      <4>1. asked[s] + 1 # 0
        BY <1>1 DEF DispatcherTypeOK
      <4>2. thread'[s].question.number = asked[s] + 1
        BY <1>1, <1>6, <2>4 DEF RunAsks, DispatcherTypeOK
      <4> QED
        BY <4>1, <4>2 DEF NoQuestion, Pending
    <3>3. StageOf(s)' = "asking" /\ OutcomeOf(s)' = OutcomeOf(s)
      BY <2>2, <2>4, <3>1, <3>2, Stages DEF ServingSteps, Left, RunAsks, At
    <3> QED
      BY <3>1, <3>3, ContractMoves DEF Served
  <2>5. CASE RunSettles(c)
    <3>1. /\ step = "inspect" /\ StageOf(s) = "working"
      BY <1>1, <1>2, <1>4, <2>2, <2>5, GoOnChanges, Stages DEF RunSettles, At, ServingSteps, Steps
    <3>2. row'[s].terminal = "settled"
      BY <1>1, <1>6, <2>5 DEF RunSettles, SettledRow, DispatcherTypeOK, Row
    <3>3. StageOf(s)' = "closed" /\ OutcomeOf(s)' = "settled"
      BY <2>2, <3>1, <3>2, Stages DEF ServingSteps, Left, None
    <3> QED
      BY <3>1, <3>2, <3>3, ContractMoves DEF Served
  <2>6. CASE RunRaises(c) \/ FileTicket(c)
    <3>1. call[c].step \in ServingSteps /\ step \in ServingSteps
      BY <1>1, <1>4, <2>6, GoOnChanges DEF RunRaises, FileTicket, At, ServingSteps, Steps
    <3> QED
      BY <2>2, <3>1, Stages DEF Served
  <2>7. CASE LookFails(c) /\ At(c, "inspect")
    <3>1. /\ call[c].step = "inspect" /\ step = "ticket" /\ row' = row
          /\ faults' > faults
      <4>1. GoOn(c, "ticket") /\ faults' = faults + 1 /\ row' = row /\ call[c].step = "inspect"
        BY <2>7 DEF LookFails, At, store
      <4>2. call'[c].step = "ticket"
        BY <1>1, <4>1, GoOnChanges DEF Steps
      <4>3. faults \in Nat
        BY <1>1 DEF DispatcherTypeOK
      <4> QED
        BY <1>4, <4>1, <4>2, <4>3
    <3>2. /\ StageOf(s) = Left(row[s].terminal, Pending(s)) /\ StageOf(s)' = "working"
          /\ OutcomeOf(s) = row[s].terminal /\ OutcomeOf(s)' = None
      BY <2>2, <3>1, Stages DEF ServingSteps
    <3>3. CASE row[s].terminal = None
      BY <3>1, <3>2, <3>3, ContractMoves DEF Left, Served
    <3>4. CASE row[s].terminal # None
      BY <1>4, <2>1, <3>1, <3>2, <3>4 DEF Left, Served, TakenUpAgain, At
    <3> QED
      BY <3>3, <3>4
  <2> QED
    BY <2>4, <2>5, <2>6, <2>7
<1> QED
  BY <1>5, <1>6

(* The fail-safe closes the session, or leaves it where it is if the store *)
(* is down.                                                                *)
LEMMA FailureServed ==
  ASSUME BaseInv, RestInv, NEW c \in Calls, NEW s \in Calls, s \notin crowded',
         FailSession(c) \/ FailSafeFails(c)
  PROVE  Served(s)
<1>1. DispatcherTypeOK /\ CallOK(c) /\ call[c] \in Call
  BY CallTypes DEF BaseInv, CallsOK
<1>2. /\ call[c].step \in {"ticket", "fail"} /\ crowded' = crowded /\ thread' = thread
      /\ Session(c) \in Calls
  BY <1>1 DEF FailSession, FailSafeFails, At, history, graph, CallOK, Placed, Steps
<1>3. /\ \A d \in Calls \ {c} : call'[d] = call[d]
      /\ call'[c].step = "done"
  BY <1>1, DoneChanges DEF FailSession, FailSafeFails, Replies
<1>4. /\ \A t \in Calls : t # Session(c) => row'[t].terminal = row[t].terminal
      /\ \/ row' = row
         \/ row'[Session(c)].terminal = "failed"
  BY <1>1, <1>2 DEF FailSession, FailSafeFails, MarkFailed, DispatcherTypeOK, Row
<1>5. CASE Session(c) # s
  BY <1>2, <1>3, <1>4, <1>5, ElsewhereServed
<1>6. CASE Session(c) = s
  <2>1. c \in WorkingOn(s)
    BY <1>2, <1>6 DEF WorkingOn, InFlight, At
  <2>2. Serving(s) /\ ~Serving(s)'
    BY <1>2, <1>3, <2>1, ServedByOne DEF ServingSteps
  <2>3. /\ StageOf(s) = "working" /\ StageOf(s)' = Left(row'[s].terminal, Pending(s)')
        /\ OutcomeOf(s) = None /\ OutcomeOf(s)' = row'[s].terminal
    BY <2>2, Stages
  <2>4. row[s].terminal \in {None, "settled", "failed"}
    BY <1>1 DEF DispatcherTypeOK, Row
  <2>5. CASE row'[s].terminal \in {"settled", "failed"}
    BY <2>3, <2>5, ContractMoves DEF Left, None, Served
  <2>6. CASE row' = row /\ row[s].terminal = None
    BY <2>3, <2>6, ContractMoves DEF Left, Served
  <2> QED
    BY <1>4, <1>6, <2>4, <2>5, <2>6
<1> QED
  BY <1>5, <1>6

(* A crash leaves nobody at work: a session that was served is open, asks  *)
(* what its checkpoint asks, or is closed as its row says.                 *)
LEMMA CrashServed ==
  ASSUME BaseInv, Crash, NEW s \in Calls
  PROVE  Served(s)
<1>1. \A c \in Calls : call'[c].step \in {"new", "done"}
  BY DEF Crash, InFlight, At, Answered, NotSent
<1>2. ~Serving(s)'
  BY <1>1 DEF Serving
<1>3. StageOf(s)' = Left(row'[s].terminal, Pending(s)') /\ OutcomeOf(s)' = row'[s].terminal
  BY <1>2, Stages
<1>4. CASE ~Serving(s)
  <2>1. s \notin Running
    BY <1>4 DEF Serving, Running, At
  <2>2. thread'[s] = thread[s] /\ row'[s] = row[s]
    BY <2>1, CrashLeaves DEF Stopped, Spared
  <2> QED
    BY <1>3, <1>4, <2>2, Stages DEF Pending, Served
<1>5. CASE Serving(s)
  <2>1. StageOf(s) = "working" /\ OutcomeOf(s) = None
    BY <1>5, Stages
  <2>2. row'[s].terminal \in {None, "settled", "failed"}
    BY CrashBase DEF BaseInv, DispatcherTypeOK, Row
  <2> QED
    BY <1>3, <2>1, <2>2, ContractMoves DEF Left, None, Served
<1> QED
  BY <1>4, <1>5

(* What a served session goes through is what the contract allows          *)
(* (start_session, continue_session, _fail_safe).                          *)
THEOREM SessionsServed == Spec => ServesTheContract
<1>1. ASSUME BaseInv, RestInv, [Next]_vars, NEW s \in Calls, s \notin crowded'
      PROVE  Served(s)
  <2>1. CASE UNCHANGED vars
    <3>1. UNCHANGED <<StageOf(s), OutcomeOf(s)>>
      BY <2>1 DEF vars, store, graph, StageOf, OutcomeOf, Serving, Session, Pending
    <3> QED
      BY <3>1 DEF Served
  <2>2. CASE Crash
    BY <1>1, <2>2, CrashServed
  <2>3. ASSUME NEW c \in Calls, Send(c) \/ Work(c) \/ Fault(c) PROVE Served(s)
    BY <1>1, <2>3, QuietServed, StartServed, RunServed, FailureServed DEF Work, Fault
  <2> QED
    BY <1>1, <2>1, <2>2, <2>3 DEF Next
<1>2. ASSUME BaseInv, RestInv, [Next]_vars
      PROVE  [\A s \in Calls : s \notin crowded' =>
                \/ UNCHANGED <<StageOf(s), OutcomeOf(s)>>
                \/ Contract(s)!Next
                \/ TakenUpAgain(s)]_vars
  BY <1>1, <1>2 DEF Served
<1> QED
  BY <1>2, BaseHolds, RestHolds, PTL DEF Spec, ServesTheContract
=============================================================================

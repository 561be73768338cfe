-------------------------- MODULE EventStreamProofs --------------------------
(***************************************************************************)
(* Every feed is whole and shows only what was recorded, for any number of *)
(* writers and clients, any events and any capacity.  A feed is compared   *)
(* with what the bus broadcast by lemmas about sequences alone (Feed,      *)
(* Owed); the invariant then follows client by client.                     *)
(***************************************************************************)
EXTENDS EventStream, Induction

-----------------------------------------------------------------------------
\* Sequences

(* A sequence over a set is one over a larger set.                         *)
LEMMA SeqGrows ==
  ASSUME NEW S, NEW T, S \subseteq T, NEW s \in Seq(S)
  PROVE  s \in Seq(T)
OBVIOUS

(* What Append adds to the range.                                          *)
LEMMA RangeAppend ==
  ASSUME NEW T, NEW s \in Seq(T), NEW x \in T
  PROVE  Range(Append(s, x)) = Range(s) \cup {x}
<1>1. \A i \in 1..Len(s) : Append(s, x)[i] = s[i]
  OBVIOUS
<1>2. Append(s, x)[Len(s) + 1] = x
  OBVIOUS
<1>3. DOMAIN Append(s, x) = 1..(Len(s) + 1) /\ DOMAIN s = 1..Len(s) /\ Len(s) \in Nat
  OBVIOUS
<1>4. Range(Append(s, x)) \subseteq Range(s) \cup {x}
  BY <1>1, <1>2, <1>3 DEF Range
<1>5. Range(s) \cup {x} \subseteq Range(Append(s, x))
  BY <1>1, <1>2, <1>3 DEF Range
<1> QED
  BY <1>4, <1>5

(* The range grows, and stays within what contains the new element.        *)
Extends(s, x) ==
  /\ Range(s) \subseteq Range(Append(s, x))
  /\ \A R : Range(s) \subseteq R /\ x \in R => Range(Append(s, x)) \subseteq R

(* Appending adds the appended value and nothing else.                     *)
LEMMA RangeExtends ==
  ASSUME NEW T, NEW s \in Seq(T), NEW x \in T
  PROVE  Extends(s, x)
<1>1. Range(Append(s, x)) = Range(s) \cup {x}
  BY RangeAppend
<1> QED
  BY <1>1, Zenon DEF Extends

(* The first element and the rest come from the sequence.                  *)
LEMMA RangeTail ==
  ASSUME NEW T, NEW s \in Seq(T), s # <<>>
  PROVE  Head(s) \in Range(s) /\ Range(Tail(s)) \subseteq Range(s)
<1>1. Len(s) \in Nat /\ Len(s) # 0 /\ DOMAIN s = 1..Len(s) /\ Head(s) = s[1]
  BY EmptySeq
<1>2. /\ DOMAIN Tail(s) = 1..(Len(s) - 1)
      /\ \A i \in 1..(Len(s) - 1) : Tail(s)[i] = s[i + 1] /\ i + 1 \in 1..Len(s)
  BY HeadTailProperties, LenProperties
<1>3. Head(s) \in Range(s)
  BY <1>1 DEF Range
<1>4. Range(Tail(s)) \subseteq Range(s)
  BY <1>1, <1>2 DEF Range
<1> QED
  BY <1>3, <1>4

(* A sequence is a prefix of itself.                                       *)
LEMMA PrefixOfItself ==
  ASSUME NEW T, NEW s \in Seq(T)
  PROVE  IsPrefix(s, s)
BY DEF IsPrefix

(* What is a prefix stays one when more is appended.                       *)
LEMMA PrefixOfAppend ==
  ASSUME NEW T, NEW s \in Seq(T), NEW t \in Seq(T), NEW x \in T, IsPrefix(s, t)
  PROVE  IsPrefix(s, Append(t, x))
<1>1. Len(s) \in Nat /\ Len(t) \in Nat /\ Len(s) <= Len(t) /\ Len(Append(t, x)) = Len(t) + 1
  BY DEF IsPrefix
<1>2. SubSeq(Append(t, x), 1, Len(s)) = SubSeq(t, 1, Len(s))
  BY <1>1
<1> QED
  BY <1>1, <1>2 DEF IsPrefix

-----------------------------------------------------------------------------
\* What one client has of what was broadcast

(* What a client that was shown sh, is being sent tk and has qu queued     *)
(* gets of them, and what it is owed of the events p, broadcast since a.   *)
Sending(tk) == IF tk = 0 THEN <<>> ELSE <<tk>>

Feed(sh, tk, qu, keep) == (sh \o Sending(tk)) \o Kept(qu, keep)

Owed(p, a, keep) == Kept(SubSeq(p, a + 1, Len(p)), keep)

(* The client has all that it is owed; it has the first part of it.        *)
Even(sh, tk, qu, p, a, keep) == Feed(sh, tk, qu, keep) = Owed(p, a, keep)

Behind(sh, tk, qu, p, a, keep) == IsPrefix(Feed(sh, tk, qu, keep), Owed(p, a, keep))

(* Feeds and what is owed are sequences of the events.                     *)
LEMMA FeedType ==
  ASSUME NEW T, NEW sh \in Seq(T), NEW tk \in T \cup {0}, NEW qu \in Seq(T), NEW keep
  PROVE  sh \o Sending(tk) \in Seq(T) /\ Feed(sh, tk, qu, keep) \in Seq(T)
<1>1. Sending(tk) \in Seq(T)
  BY DEF Sending
<1>2. Kept(qu, keep) \in Seq(T)
  BY KeptType
<1> QED
  BY <1>1, <1>2 DEF Feed

(* What is owed to a client are notices.                                   *)
LEMMA OwedType ==
  ASSUME NEW T, NEW p \in Seq(T), NEW a \in Nat, NEW keep
  PROVE  SubSeq(p, a + 1, Len(p)) \in Seq(T) /\ Owed(p, a, keep) \in Seq(T)
<1>1. \A i \in (a + 1)..Len(p) : p[i] \in T
  OBVIOUS
<1>2. SubSeq(p, a + 1, Len(p)) \in Seq(T)
  BY <1>1, SubSeqProperties
<1> QED
  BY <1>2, KeptType DEF Owed

(* The last part of a sequence grows with it.                              *)
LEMMA SubSeqOfAppend ==
  ASSUME NEW T, NEW p \in Seq(T), NEW a \in Nat, a <= Len(p), NEW n \in T
  PROVE  SubSeq(Append(p, n), a + 1, Len(Append(p, n))) = Append(SubSeq(p, a + 1, Len(p)), n)
<1>1. PICK q \in Seq(T) : q = Append(p, n)
  <2>1. Append(p, n) \in Seq(T)
    OBVIOUS
  <2> QED
    BY <2>1, Zenon
<1>2. /\ Len(p) \in Nat /\ Len(q) = Len(p) + 1 /\ q[Len(p) + 1] = n
      /\ \A i \in 1..Len(p) : q[i] = p[i]
  BY <1>1
<1>3. PICK s \in Seq(T) : s = SubSeq(p, a + 1, Len(p))
  BY OwedType
<1>4. PICK u \in Seq(T) : u = SubSeq(q, a + 1, Len(q))
  BY OwedType
<1>5. PICK v \in Seq(T) : v = Append(s, n)
  <2>1. Append(s, n) \in Seq(T)
    OBVIOUS
  <2> QED
    BY <2>1, Zenon
<1>6. Len(s) = Len(p) - a /\ \A i \in 1..(Len(p) - a) : s[i] = p[a + i]
  <2>1. \A i \in (a + 1)..Len(p) : p[i] \in T
    OBVIOUS
  <2>2. /\ Len(s) = IF a + 1 <= Len(p) THEN Len(p) - (a + 1) + 1 ELSE 0
        /\ \A i \in 1..(Len(p) - (a + 1) + 1) : s[i] = p[(a + 1) + i - 1]
    BY <1>2, <1>3, <2>1, SubSeqProperties
  <2> QED
    BY <1>2, <2>2
<1>7. Len(u) = Len(q) - a /\ \A i \in 1..(Len(q) - a) : u[i] = q[a + i]
  <2>1. \A i \in (a + 1)..Len(q) : q[i] \in T
    OBVIOUS
  <2>2. /\ Len(u) = IF a + 1 <= Len(q) THEN Len(q) - (a + 1) + 1 ELSE 0
        /\ \A i \in 1..(Len(q) - (a + 1) + 1) : u[i] = q[(a + 1) + i - 1]
    BY <1>2, <1>4, <2>1, SubSeqProperties
  <2> QED
    BY <1>2, <2>2
<1>8. /\ Len(v) = Len(s) + 1 /\ v[Len(s) + 1] = n
      /\ \A i \in 1..Len(s) : v[i] = s[i]
  BY <1>5
<1>9. Len(u) = Len(v)
  BY <1>2, <1>6, <1>7, <1>8
<1>10. ASSUME NEW i \in 1..Len(u) PROVE u[i] = v[i]
  <2>1. CASE i <= Len(s)
    <3>1. /\ i \in 1..Len(s) /\ i \in 1..(Len(p) - a) /\ i \in 1..(Len(q) - a)
          /\ a + i \in 1..Len(p)
      BY <1>2, <1>6, <1>7, <2>1
    <3> QED
      BY <1>2, <1>6, <1>7, <1>8, <3>1
  <2>2. CASE ~ (i <= Len(s))
    <3>1. i = Len(s) + 1 /\ i \in 1..(Len(q) - a) /\ a + i = Len(p) + 1
      BY <1>2, <1>6, <1>7, <2>2
    <3> QED
      BY <1>2, <1>7, <1>8, <3>1
  <2> QED
    BY <2>1, <2>2
<1>11. u = v
  BY <1>9, <1>10, SeqEqual
<1> QED
  BY <1>1, <1>3, <1>4, <1>5, <1>11

(* Two tests that agree on the events keep the same of them.               *)
LEMMA KeptAlike ==
  ASSUME NEW T, NEW s \in Seq(T), NEW keep, NEW stay, \A n \in T : n \in keep <=> n \in stay
  PROVE  Kept(s, keep) = Kept(s, stay)
<1>1. \A i \in 1..Len(s) : s[i] \in T
  OBVIOUS
<1>2. \A i \in 1..Len(s) : s[i] \in keep <=> s[i] \in stay
  BY <1>1
<1> QED
  BY <1>2, KeptSame

(* Whoever has all it is owed has the first part of it.                    *)
LEMMA EvenIsBehind ==
  ASSUME NEW T, NEW p \in Seq(T), NEW a \in Nat, NEW keep,
         NEW sh, NEW tk, NEW qu, Even(sh, tk, qu, p, a, keep)
  PROVE  Behind(sh, tk, qu, p, a, keep)
<1>1. PICK o \in Seq(T) : o = Owed(p, a, keep)
  BY OwedType
<1> QED
  BY <1>1, PrefixOfItself DEF Even, Behind

(* An event more is owed when it is wanted.                                *)
OwedMore(p, a, keep, n) ==
  Owed(Append(p, n), a, keep) = IF n \in keep THEN Append(Owed(p, a, keep), n) ELSE Owed(p, a, keep)

(* A client is owed a new notice exactly when it is for him.               *)
LEMMA OwedGrows ==
  ASSUME NEW T, NEW p \in Seq(T), NEW a \in Nat, a <= Len(p), NEW keep, NEW n \in T
  PROVE  OwedMore(p, a, keep, n)
<1>1. SubSeq(Append(p, n), a + 1, Len(Append(p, n))) = Append(SubSeq(p, a + 1, Len(p)), n)
  BY SubSeqOfAppend
<1>2. PICK s \in Seq(T) : s = SubSeq(p, a + 1, Len(p))
  BY OwedType
<1>3. Kept(Append(s, n), keep) = IF n \in keep THEN Append(Kept(s, keep), n) ELSE Kept(s, keep)
  BY KeptAppend
<1> QED
  BY <1>1, <1>2, <1>3 DEF Owed, OwedMore

(* An event more in the queue is one more of the feed when it is wanted.   *)
FeedMore(sh, tk, qu, keep, n) ==
  Feed(sh, tk, Append(qu, n), keep) =
    IF n \in keep THEN Append(Feed(sh, tk, qu, keep), n) ELSE Feed(sh, tk, qu, keep)

(* Queueing a notice extends what the client is going to see.              *)
LEMMA FeedGrows ==
  ASSUME NEW T, NEW sh \in Seq(T), NEW tk \in T \cup {0}, NEW qu \in Seq(T), NEW keep,
         NEW n \in T
  PROVE  FeedMore(sh, tk, qu, keep, n)
<1>0. AppendsLast(T)
  BY AppendToConcat
<1>1. PICK f \in Seq(T) : f = sh \o Sending(tk)
  BY FeedType
<1>2. PICK v \in Seq(T) : v = Kept(qu, keep)
  BY KeptType
<1>3. Append(f \o v, n) = f \o Append(v, n)
  BY <1>0, Zenon DEF AppendsLast
<1>4. Kept(Append(qu, n), keep) = IF n \in keep THEN Append(v, n) ELSE v
  BY <1>2, KeptAppend
<1> QED
  BY <1>1, <1>2, <1>3, <1>4 DEF Feed, FeedMore

(* Who subscribes now is owed nothing and has nothing.                     *)
LEMMA NothingOwed ==
  ASSUME NEW T, NEW p \in Seq(T), NEW keep
  PROVE  Even(<<>>, 0, <<>>, p, Len(p), keep)
<1>1. Kept(<<>>, keep) = <<>>
  BY KeptEmpty
<1>2. SubSeq(p, Len(p) + 1, Len(p)) = <<>>
  <2>1. Len(p) \in Int /\ Len(p) + 1 \in Int /\ Len(p) < Len(p) + 1
    OBVIOUS
  <2> QED
    BY <2>1, SubSeqEmpty
<1>3. (<<>> \o <<>>) \o <<>> = <<>>
  OBVIOUS
<1> QED
  BY <1>1, <1>2, <1>3 DEF Even, Feed, Owed, Sending

(* Whoever gets what is broadcast stays even; whoever does not is behind.  *)
LEMMA EvenMore ==
  ASSUME NEW T, NEW sh \in Seq(T), NEW tk \in T \cup {0}, NEW qu \in Seq(T), NEW keep,
         NEW p \in Seq(T), NEW a \in Nat, a <= Len(p), NEW n \in T,
         Even(sh, tk, qu, p, a, keep)
  PROVE  Even(sh, tk, Append(qu, n), Append(p, n), a, keep)
<1>1. FeedMore(sh, tk, qu, keep, n) /\ OwedMore(p, a, keep, n)
  BY FeedGrows, OwedGrows
<1>2. PICK f : f = Feed(sh, tk, qu, keep) /\ f = Owed(p, a, keep)
  BY DEF Even
<1>3. Feed(sh, tk, Append(qu, n), keep) = IF n \in keep THEN Append(f, n) ELSE f
  BY <1>1, <1>2 DEF FeedMore
<1>4. Owed(Append(p, n), a, keep) = IF n \in keep THEN Append(f, n) ELSE f
  BY <1>1, <1>2 DEF OwedMore
<1> QED
  BY <1>3, <1>4 DEF Even

(* A client that is behind stays so when there is more to be behind of.    *)
LEMMA BehindMore ==
  ASSUME NEW T, NEW sh \in Seq(T), NEW tk \in T \cup {0}, NEW qu \in Seq(T), NEW keep,
         NEW p \in Seq(T), NEW a \in Nat, a <= Len(p), NEW n \in T,
         Behind(sh, tk, qu, p, a, keep)
  PROVE  Behind(sh, tk, qu, Append(p, n), a, keep)
<1>1. PICK f \in Seq(T) : f = Feed(sh, tk, qu, keep)
  BY FeedType
<1>2. PICK o \in Seq(T) : o = Owed(p, a, keep)
  BY OwedType
<1>3. IsPrefix(f, o)
  BY <1>1, <1>2 DEF Behind
<1>4. IsPrefix(f, Append(o, n))
  BY <1>3, PrefixOfAppend
<1>5. OwedMore(p, a, keep, n)
  BY OwedGrows
<1> QED
  BY <1>1, <1>2, <1>3, <1>4, <1>5, Zenon DEF Behind, OwedMore

(* Taking the next event from the queue changes no feed: it is on its way, *)
(* or it was not wanted.                                                   *)
Taking(sh, tk, qu, keep) == Feed(sh, tk, Tail(qu), keep) = Feed(sh, 0, qu, keep)

(* Taking a notice off the queue leaves what the client is going to see.   *)
LEMMA FeedTakes ==
  ASSUME NEW T, 0 \notin T, NEW sh \in Seq(T), NEW qu \in Seq(T), qu # <<>>, NEW keep,
         NEW tk, tk = IF Head(qu) \in keep THEN Head(qu) ELSE 0
  PROVE  Taking(sh, tk, qu, keep)
<1>0. Associates(T)
  BY Associativity
<1>1. PICK h \in T : h = Head(qu)
  BY HeadTailProperties
<1>2. PICK rest \in Seq(T) : rest = Kept(Tail(qu), keep)
  BY KeptType, HeadTailProperties
<1>3. PICK first \in Seq(T) : first = Sending(IF h \in keep THEN h ELSE 0)
  <2>1. \A t \in T \cup {0} : Sending(t) \in Seq(T)
    BY DEF Sending
  <2>2. (IF h \in keep THEN h ELSE 0) \in T \cup {0}
    OBVIOUS
  <2> QED
    BY <2>1, <2>2, Zenon
<1>4. first = IF h \in keep THEN <<h>> ELSE <<>>
  BY <1>3 DEF Sending
<1>5. Kept(qu, keep) = first \o rest
  BY <1>1, <1>2, <1>4, KeptFirst
<1>6. sh \o <<>> = sh
  BY ConcatEmptySeq
<1>7. (sh \o first) \o rest = sh \o (first \o rest)
  BY <1>0, Zenon DEF Associates
<1>8. Feed(sh, tk, Tail(qu), keep) = (sh \o first) \o rest
  BY <1>1, <1>2, <1>3 DEF Feed
<1>9. Feed(sh, 0, qu, keep) = sh \o (first \o rest)
  BY <1>5, <1>6 DEF Feed, Sending
<1> QED
  BY <1>7, <1>8, <1>9 DEF Taking

(* Showing the event on its way changes no feed.                           *)
Showing(sh, tk, qu, keep) == Feed(Append(sh, tk), 0, qu, keep) = Feed(sh, tk, qu, keep)

(* Showing a notice leaves what the client is going to see.                *)
LEMMA FeedShows ==
  ASSUME NEW T, 0 \notin T, NEW sh \in Seq(T), NEW tk \in T, NEW qu, NEW keep
  PROVE  Showing(sh, tk, qu, keep)
<1>1. Append(sh, tk) = sh \o <<tk>>
  BY AppendIsConcat
<1>2. Append(sh, tk) \in Seq(T)
  OBVIOUS
<1>3. Append(sh, tk) \o <<>> = Append(sh, tk)
  BY <1>2, ConcatEmptySeq
<1>4. Sending(tk) = <<tk>> /\ Sending(0) = <<>>
  BY DEF Sending
<1> QED
  BY <1>1, <1>3, <1>4, Zenon DEF Feed, Showing

-----------------------------------------------------------------------------
\* The invariant

(* A client that has no stream has nothing and is not on the bus; what is  *)
(* on its way is being sent; and it subscribed at some time before now.    *)
ClientInv ==
  \A c \in Clients :
    /\ stream[c] = "unopened" => queue[c] = <<>> /\ shown[c] = <<>>
    /\ stream[c] \in {"unopened", "closed"} => c \notin subscribers
    /\ stream[c] = "send" <=> taken[c] # 0
    /\ since[c] <= Len(published)

(* What FeedHasNoHole says, by the operators of this module.               *)
Whole(c) ==
  /\ Behind(shown[c], taken[c], queue[c], published, since[c], WantedBy(c))
  /\ c \in subscribers => Even(shown[c], taken[c], queue[c], published, since[c], WantedBy(c))

FeedInv ==
  \A c \in Clients : stream[c] \notin {"unopened", "closed"} /\ c \notin gone => Whole(c)

StreamInv == StreamTypeOK /\ ClientInv /\ FeedInv

(* The events are numbered from 1.                                         *)
LEMMA EventNumbers ==
  ASSUME StreamTypeOK
  PROVE  Events = 1..Len(events) /\ Len(events) \in Nat /\ 0 \notin Events
BY DEF StreamTypeOK, Events

(* What a task writes is an event.                                         *)
LEMMA WritingAnEvent ==
  ASSUME StreamTypeOK, NEW w \in Writers, writing[w] # 0
  PROVE  writing[w] \in Events
BY DEF StreamTypeOK

(* The invariant says what FeedHasNoHole says.                             *)
LEMMA WholeIsNoHole ==
  ASSUME NEW c \in Clients
  PROVE  Whole(c) <=> /\ IsPrefix(FeedOf(c), BroadcastFor(c))
                      /\ c \in subscribers => FeedOf(c) = BroadcastFor(c)
BY DEF Whole, Behind, Even, Feed, Owed, Sending, FeedOf, OnTheWay, BroadcastFor

(* The invariant holds at the start.                                       *)
LEMMA StreamInvInit == Init => StreamInv
<1> SUFFICES ASSUME Init PROVE StreamInv
  OBVIOUS
<1>1. StreamTypeOK
  <2>1. Events = {} /\ <<>> \in Seq(Occurring)
    BY DEF Init, Events
  <2>2. <<>> \in Seq(Events) /\ Len(<<>>) = 0
    OBVIOUS
  <2>3. Capacity \in Nat
    BY StreamAssumption
  <2> QED
    BY <2>1, <2>2, <2>3 DEF Init, StreamTypeOK
<1>2. ClientInv
  BY DEF Init, ClientInv
<1>3. FeedInv
  BY DEF Init, FeedInv
<1> QED
  BY <1>1, <1>2, <1>3 DEF StreamInv

(* An event that starts to be recorded is wanted by nobody yet: the feeds  *)
(* are what they were.                                                     *)
LEMMA StartRecordKeeps ==
  ASSUME StreamInv, NEW w \in Writers, StartRecord(w)
  PROVE  StreamInv'
<1> USE DEF StreamInv
<1>1. Events = 1..Len(events) /\ Len(events) \in Nat
  BY EventNumbers
<1>2. PICK e \in Happenings[w] : events' = Append(events, e)
  BY DEF StartRecord
<1>3. e \in Occurring
  BY <1>2, StreamAssumption DEF Occurring, Range
<1>4. /\ events' \in Seq(Occurring) /\ Events' = 1..(Len(events) + 1)
      /\ \A n \in Events : events'[n] = events[n]
  BY <1>1, <1>2, <1>3 DEF StreamTypeOK, Events
<1>5. Events \subseteq Events'
  BY <1>1, <1>4
<1>6. StreamTypeOK'
  <2>1. \A s \in Seq(Events) : s \in Seq(Events')
    BY <1>5, SeqGrows
  <2>2. /\ trail' \in Seq(Events') /\ published' \in Seq(Events')
        /\ queue' \in [Clients -> Seq(Events')] /\ shown' \in [Clients -> Seq(Events')]
    <3> HIDE DEF Events
    <3> QED
      BY <2>1 DEF StreamTypeOK, StartRecord, busVars, clientVars
  <2>3. writing' \in [Writers -> Events' \cup {0}] /\ taken' \in [Clients -> Events' \cup {0}]
    <3>1. Len(events) + 1 \in Events'
      BY <1>1, <1>4
    <3> HIDE DEF Events
    <3> QED
      BY <1>5, <3>1 DEF StreamTypeOK, StartRecord, busVars, clientVars
  <2> QED
    BY <1>4, <2>2, <2>3 DEF StreamTypeOK, StartRecord, busVars, clientVars
<1>7. ClientInv'
  BY DEF ClientInv, StartRecord, busVars, clientVars
<1>8. FeedInv'
  <2> SUFFICES ASSUME NEW c \in Clients, stream'[c] \notin {"unopened", "closed"}, c \notin gone'
               PROVE  Whole(c)'
    BY DEF FeedInv
  <2>1. Whole(c)
    BY DEF FeedInv, StartRecord, clientVars
  <2>2. PICK keep : keep = WantedBy(c)
    OBVIOUS
  <2>3. PICK stay : stay = WantedBy(c)'
    OBVIOUS
  <2>4. \A n \in Events : n \in keep <=> n \in stay
    BY <1>4, <1>5, <2>2, <2>3 DEF WantedBy, Wanted
  <2>5. /\ UNCHANGED <<shown, taken, queue, published, since, subscribers>>
        /\ queue[c] \in Seq(Events) /\ published \in Seq(Events) /\ since[c] \in Nat
    BY DEF StartRecord, busVars, clientVars, StreamTypeOK
  <2>6. Kept(queue[c], keep) = Kept(queue[c], stay)
    BY <2>4, <2>5, KeptAlike
  <2>7. Owed(published, since[c], keep) = Owed(published, since[c], stay)
    <3>1. PICK s \in Seq(Events) : s = SubSeq(published, since[c] + 1, Len(published))
      BY <2>5, OwedType
    <3>2. Kept(s, keep) = Kept(s, stay)
      BY <2>4, KeptAlike
    <3> QED
      BY <3>1, <3>2 DEF Owed
  <2> QED
    BY <2>1, <2>2, <2>3, <2>5, <2>6, <2>7 DEF Whole, Behind, Even, Feed
<1> QED
  BY <1>6, <1>7, <1>8

(* A step that changes nothing of a client's feed leaves it whole.         *)
LEMMA WholeStays ==
  ASSUME NEW c \in Clients, Whole(c), events' = events, published' = published,
         shown'[c] = shown[c], taken'[c] = taken[c], queue'[c] = queue[c], since'[c] = since[c],
         c \in subscribers' => c \in subscribers
  PROVE  Whole(c)'
<1>1. WantedBy(c)' = WantedBy(c)
  BY DEF WantedBy, Wanted, Events
<1> QED
  BY <1>1 DEF Whole

(* Committing a row, or failing to, changes no feed.                       *)
LEMMA CommitKeeps ==
  ASSUME StreamInv, NEW w \in Writers, Commit(w) \/ CommitFails(w)
  PROVE  StreamInv'
<1> USE DEF StreamInv
<1>1. UNCHANGED <<events, published, subscribers, queue, stream, taken, gone, shown, since>>
  BY DEF Commit, CommitFails, busVars, clientVars
<1>2. StreamTypeOK'
  <2>1. Events' = Events
    BY <1>1 DEF Events
  <2>2. trail' \in Seq(Events)
    <3>1. writing[w] \in Events
      BY DEF Commit, CommitFails, StreamTypeOK
    <3>2. trail \in Seq(Events) /\ (trail' = Append(trail, writing[w]) \/ trail' = trail)
      BY DEF Commit, CommitFails, StreamTypeOK
    <3> HIDE DEF Events
    <3> QED
      BY <3>1, <3>2
  <2>3. writing' \in [Writers -> Events \cup {0}]
    BY DEF Commit, CommitFails, StreamTypeOK
  <2> QED
    BY <1>1, <2>1, <2>2, <2>3 DEF StreamTypeOK
<1>3. ClientInv'
  BY <1>1 DEF ClientInv
<1>4. FeedInv'
  BY <1>1, WholeStays DEF FeedInv
<1> QED
  BY <1>2, <1>3, <1>4

(* Publishing gives the event to every subscriber with room, which stays   *)
(* even; the others leave the bus and are behind from now on.              *)
LEMMA PublishKeeps ==
  ASSUME StreamInv, NEW w \in Writers, Publish(w)
  PROVE  StreamInv'
<1> USE DEF StreamInv
<1>1. PICK n \in Events : n = writing[w]
  BY WritingAnEvent DEF Publish
<1>2. /\ UNCHANGED <<events, trail, stream, taken, gone, shown, since>>
      /\ published' = Append(published, n)
      /\ writing' = [writing EXCEPT ![w] = 0]
      /\ queue' = [c \in Clients |-> IF c \in subscribers /\ ~Full(c)
                                     THEN Append(queue[c], n) ELSE queue[c]]
      /\ subscribers' = {c \in subscribers : ~Full(c)}
  BY <1>1 DEF Publish, Put, clientVars
<1>3. Events' = Events
  BY <1>2 DEF Events
<1>4. StreamTypeOK'
  <2>1. published' \in Seq(Events)
    <3> HIDE DEF Events
    <3> QED
      BY <1>2 DEF StreamTypeOK
  <2>2. queue' \in [Clients -> Seq(Events)]
    <3>1. \A c \in Clients : Append(queue[c], n) \in Seq(Events) /\ queue[c] \in Seq(Events)
      <4> HIDE DEF Events
      <4> QED
        BY DEF StreamTypeOK
    <3> QED
      BY <1>2, <3>1
  <2>3. ASSUME NEW c \in Clients PROVE Len(queue'[c]) <= Capacity
    <3>1. queue[c] \in Seq(Events) /\ Len(queue[c]) \in Nat /\ Len(queue[c]) <= Capacity
      BY DEF StreamTypeOK
    <3>2. Capacity \in Nat
      BY StreamAssumption
    <3>3. Len(Append(queue[c], n)) = Len(queue[c]) + 1
      BY <3>1
    <3> QED
      BY <1>2, <3>1, <3>2, <3>3 DEF Full
  <2> QED
    BY <1>2, <1>3, <2>1, <2>2, <2>3 DEF StreamTypeOK
<1>5. ClientInv'
  <2> SUFFICES ASSUME NEW c \in Clients
               PROVE  /\ stream'[c] = "unopened" => queue'[c] = <<>> /\ shown'[c] = <<>>
                      /\ stream'[c] \in {"unopened", "closed"} => c \notin subscribers'
                      /\ stream'[c] = "send" <=> taken'[c] # 0
                      /\ since'[c] <= Len(published')
    BY DEF ClientInv
  <2>1. Len(published') = Len(published) + 1 /\ Len(published) \in Nat /\ since[c] \in Nat
    BY <1>2 DEF StreamTypeOK
  <2> QED
    BY <1>2, <2>1 DEF ClientInv
<1>6. FeedInv'
  <2> SUFFICES ASSUME NEW c \in Clients, stream'[c] \notin {"unopened", "closed"}, c \notin gone'
               PROVE  Whole(c)'
    BY DEF FeedInv
  <2>1. Whole(c)
    BY <1>2 DEF FeedInv
  <2>2. PICK keep : keep = WantedBy(c) /\ keep = WantedBy(c)'
    BY <1>2 DEF WantedBy, Wanted, Events
  <2>3. /\ published \in Seq(Events) /\ queue[c] \in Seq(Events) /\ shown[c] \in Seq(Events)
        /\ taken[c] \in Events \cup {0} /\ since[c] \in Nat /\ since[c] <= Len(published)
    BY DEF StreamTypeOK, ClientInv
  <2>4. Behind(shown[c], taken[c], queue[c], published', since[c], keep)
    BY <1>2, <2>1, <2>2, <2>3, BehindMore DEF Whole
  <2>5. CASE c \in subscribers /\ ~Full(c)
    <3>1. queue'[c] = Append(queue[c], n)
      BY <1>2, <2>5
    <3>2. Even(shown[c], taken[c], queue'[c], published', since[c], keep)
      BY <1>2, <2>1, <2>2, <2>3, <2>5, <3>1, EvenMore DEF Whole
    <3>3. published' \in Seq(Events)
      BY <1>3, <1>4 DEF StreamTypeOK
    <3>4. Behind(shown[c], taken[c], queue'[c], published', since[c], keep)
      BY <2>3, <3>2, <3>3, EvenIsBehind
    <3> QED
      BY <1>2, <2>2, <3>2, <3>4 DEF Whole
  <2>6. CASE ~ (c \in subscribers /\ ~Full(c))
    <3>1. queue'[c] = queue[c] /\ c \notin subscribers'
      BY <1>2, <2>6
    <3> QED
      BY <1>2, <2>2, <2>4, <3>1 DEF Whole
  <2> QED
    BY <2>5, <2>6
<1> QED
  BY <1>4, <1>5, <1>6

(* Whoever subscribes is owed nothing yet and has nothing yet.             *)
LEMMA SubscribeKeeps ==
  ASSUME StreamInv, NEW c \in Clients, Subscribe(c)
  PROVE  StreamInv'
<1> USE DEF StreamInv
<1>1. /\ UNCHANGED <<events, trail, writing, published, queue, taken, gone, shown>>
      /\ stream[c] = "unopened" /\ stream' = [stream EXCEPT ![c] = "open"]
      /\ subscribers' = subscribers \cup {c}
      /\ since' = [since EXCEPT ![c] = Len(published)]
  BY DEF Subscribe, At, GoTo, writerVars
<1>2. published \in Seq(Events) /\ Len(published) \in Nat
  BY DEF StreamTypeOK
<1>3. StreamTypeOK'
  <2>1. Events' = Events
    BY <1>1 DEF Events
  <2>2. stream' \in [Clients -> {"unopened", "open", "send", "closed"}]
    BY <1>1 DEF StreamTypeOK
  <2>3. since' \in [Clients -> Nat]
    BY <1>1, <1>2 DEF StreamTypeOK
  <2> HIDE DEF Events
  <2> QED
    BY <1>1, <2>1, <2>2, <2>3 DEF StreamTypeOK
<1>4. ClientInv'
  <2> SUFFICES ASSUME NEW d \in Clients
               PROVE  /\ stream'[d] = "unopened" => queue'[d] = <<>> /\ shown'[d] = <<>>
                      /\ stream'[d] \in {"unopened", "closed"} => d \notin subscribers'
                      /\ stream'[d] = "send" <=> taken'[d] # 0
                      /\ since'[d] <= Len(published')
    BY DEF ClientInv
  <2>1. CASE d = c
    BY <1>1, <1>2, <2>1 DEF ClientInv, StreamTypeOK
  <2>2. CASE d # c
    BY <1>1, <2>2 DEF ClientInv, StreamTypeOK
  <2> QED
    BY <2>1, <2>2
<1>5. FeedInv'
  <2> SUFFICES ASSUME NEW d \in Clients, stream'[d] \notin {"unopened", "closed"}, d \notin gone'
               PROVE  Whole(d)'
    BY DEF FeedInv
  <2>1. CASE d = c
    <3>1. PICK keep : keep = WantedBy(c)'
      OBVIOUS
    <3>2. /\ shown'[c] = <<>> /\ taken'[c] = 0 /\ queue'[c] = <<>>
          /\ since'[c] = Len(published) /\ published' = published
      BY <1>1 DEF ClientInv, StreamTypeOK
    <3>3. Even(<<>>, 0, <<>>, published, Len(published), keep)
      BY <1>2, NothingOwed
    <3>4. Behind(<<>>, 0, <<>>, published, Len(published), keep)
      BY <1>2, <3>3, EvenIsBehind
    <3> QED
      BY <2>1, <3>1, <3>2, <3>3, <3>4, Zenon DEF Whole
  <2>2. CASE d # c
    <3>1. stream[d] = stream'[d] /\ since'[d] = since[d]
      BY <1>1, <2>2 DEF StreamTypeOK
    <3> QED
      BY <1>1, <2>2, <3>1, WholeStays DEF FeedInv
  <2> QED
    BY <2>1, <2>2
<1> QED
  BY <1>3, <1>4, <1>5

(* The stream of a client that is gone ends, whatever it was doing.        *)
LEMMA CloseKeeps ==
  ASSUME StreamInv, NEW c \in Clients, Close(c)
  PROVE  StreamInv'
<1> USE DEF StreamInv
<1>1. /\ UNCHANGED <<events, trail, writing, published, gone>>
      /\ stream' = [stream EXCEPT ![c] = "closed"] /\ subscribers' = subscribers \ {c}
      /\ queue' = [queue EXCEPT ![c] = <<>>] /\ taken' = [taken EXCEPT ![c] = 0]
      /\ shown' = [shown EXCEPT ![c] = <<>>] /\ since' = [since EXCEPT ![c] = 0]
  BY DEF Close, GoTo, Unsubscribe, writerVars
<1>2. StreamTypeOK'
  <2>1. Events' = Events
    BY <1>1 DEF Events
  <2>2. stream' \in [Clients -> {"unopened", "open", "send", "closed"}]
    BY <1>1 DEF StreamTypeOK
  <2>3. \A S : <<>> \in Seq(S)
    OBVIOUS
  <2>4. /\ since' \in [Clients -> Nat] /\ taken' \in [Clients -> Events \cup {0}]
        /\ queue' \in [Clients -> Seq(Events)] /\ shown' \in [Clients -> Seq(Events)]
    <3> HIDE DEF Events
    <3> QED
      BY <1>1, <2>3 DEF StreamTypeOK
  <2>5. ASSUME NEW d \in Clients PROVE Len(queue'[d]) <= Capacity
    <3>1. Len(<<>>) = 0 /\ Capacity \in Nat
      BY StreamAssumption
    <3> QED
      BY <1>1, <3>1 DEF StreamTypeOK
  <2> HIDE DEF Events
  <2> QED
    BY <1>1, <2>1, <2>2, <2>4, <2>5 DEF StreamTypeOK
<1>3. ClientInv'
  <2>1. Len(published) \in Nat
    BY DEF StreamTypeOK
  <2> QED
    BY <1>1, <2>1 DEF ClientInv, StreamTypeOK
<1>4. FeedInv'
  <2> SUFFICES ASSUME NEW d \in Clients, stream'[d] \notin {"unopened", "closed"}, d \notin gone'
               PROVE  Whole(d)'
    BY DEF FeedInv
  <2>1. /\ d # c /\ stream'[d] = stream[d] /\ since'[d] = since[d] /\ shown'[d] = shown[d]
        /\ taken'[d] = taken[d] /\ queue'[d] = queue[d]
    BY <1>1 DEF StreamTypeOK
  <2> QED
    BY <1>1, <2>1, WholeStays DEF FeedInv
<1> QED
  BY <1>2, <1>3, <1>4

(* The event taken from the queue is on its way, or nobody wanted it.      *)
LEMMA GetKeeps ==
  ASSUME StreamInv, NEW c \in Clients, Get(c)
  PROVE  StreamInv'
<1> USE DEF StreamInv
<1>1. /\ UNCHANGED <<events, trail, writing, published, subscribers, gone, shown, since>>
      /\ stream[c] = "open" /\ queue[c] # <<>> /\ c \notin gone
      /\ queue' = [queue EXCEPT ![c] = Tail(queue[c])]
  BY DEF Get, At, writerVars
<1>2. PICK keep : keep = WantedBy(c)
  OBVIOUS
<1>3. queue[c] \in Seq(Events) /\ Head(queue[c]) \in Events /\ Tail(queue[c]) \in Seq(Events)
  <2> HIDE DEF Events
  <2> QED
    BY <1>1, HeadTailProperties DEF StreamTypeOK
<1>4. Wanted(c, Head(queue[c])) <=> Head(queue[c]) \in keep
  BY <1>2, <1>3 DEF WantedBy
<1>5. 0 \notin Events
  BY EventNumbers
<1>6. PICK tk \in Events \cup {0} : tk = IF Head(queue[c]) \in keep THEN Head(queue[c]) ELSE 0
  BY <1>3
<1>7. /\ taken' = [taken EXCEPT ![c] = tk]
      /\ stream' = [stream EXCEPT ![c] = IF tk # 0 THEN "send" ELSE "open"]
  BY <1>3, <1>4, <1>5, <1>6 DEF Get, GoTo, AfterGet
<1>8. StreamTypeOK'
  <2>1. Events' = Events
    BY <1>1 DEF Events
  <2>2. stream' \in [Clients -> {"unopened", "open", "send", "closed"}]
    BY <1>7 DEF StreamTypeOK
  <2>3. taken' \in [Clients -> Events \cup {0}]
    BY <1>7 DEF StreamTypeOK
  <2>4. queue' \in [Clients -> Seq(Events)]
    <3> HIDE DEF Events
    <3> QED
      BY <1>1, <1>3 DEF StreamTypeOK
  <2>5. ASSUME NEW d \in Clients PROVE Len(queue'[d]) <= Capacity
    <3>1. Len(Tail(queue[c])) = Len(queue[c]) - 1 /\ Len(queue[c]) \in Nat
      BY <1>1, <1>3, HeadTailProperties
    <3>2. Capacity \in Nat /\ Len(queue[c]) <= Capacity
      BY StreamAssumption DEF StreamTypeOK
    <3>3. Len(queue[c]) - 1 <= Capacity
      BY <3>1, <3>2
    <3>4. queue'[d] = IF d = c THEN Tail(queue[c]) ELSE queue[d]
      BY <1>1 DEF StreamTypeOK
    <3> QED
      BY <3>1, <3>3, <3>4 DEF StreamTypeOK
  <2> HIDE DEF Events
  <2> QED
    BY <1>1, <2>1, <2>2, <2>3, <2>4, <2>5 DEF StreamTypeOK
<1>9. ClientInv'
  <2> SUFFICES ASSUME NEW d \in Clients
               PROVE  /\ stream'[d] = "unopened" => queue'[d] = <<>> /\ shown'[d] = <<>>
                      /\ stream'[d] \in {"unopened", "closed"} => d \notin subscribers'
                      /\ stream'[d] = "send" <=> taken'[d] # 0
                      /\ since'[d] <= Len(published')
    BY DEF ClientInv
  <2>1. CASE d = c
    BY <1>1, <1>7, <2>1 DEF ClientInv, StreamTypeOK
  <2>2. CASE d # c
    BY <1>1, <1>7, <2>2 DEF ClientInv, StreamTypeOK
  <2> QED
    BY <2>1, <2>2
<1>10. FeedInv'
  <2> SUFFICES ASSUME NEW d \in Clients, stream'[d] \notin {"unopened", "closed"}, d \notin gone'
               PROVE  Whole(d)'
    BY DEF FeedInv
  <2>1. CASE d = c
    <3>1. Whole(c)
      BY <1>1 DEF FeedInv
    <3>2. taken[c] = 0 /\ taken'[c] = tk /\ queue'[c] = Tail(queue[c])
      BY <1>1, <1>7 DEF ClientInv, StreamTypeOK
    <3>3. WantedBy(c)' = keep
      BY <1>1, <1>2 DEF WantedBy, Wanted, Events
    <3>4. Taking(shown[c], tk, queue[c], keep)
      <4>1. shown[c] \in Seq(Events)
        BY DEF StreamTypeOK
      <4> HIDE DEF Events
      <4> QED
        BY <1>1, <1>3, <1>5, <1>6, <4>1, FeedTakes
    <3>5. Feed(shown[c], tk, Tail(queue[c]), keep) = Feed(shown[c], 0, queue[c], keep)
      BY <3>4 DEF Taking
    <3> QED
      BY <1>1, <1>2, <2>1, <3>1, <3>2, <3>3, <3>5 DEF Whole, Behind, Even
  <2>2. CASE d # c
    <3>1. /\ stream'[d] = stream[d] /\ taken'[d] = taken[d] /\ queue'[d] = queue[d]
      BY <1>1, <1>7, <2>2 DEF StreamTypeOK
    <3> QED
      BY <1>1, <3>1, WholeStays DEF FeedInv
  <2> QED
    BY <2>1, <2>2
<1> QED
  BY <1>8, <1>9, <1>10

(* The frame that is sent is shown, unless the client is gone.             *)
LEMMA SendKeeps ==
  ASSUME StreamInv, NEW c \in Clients, Send(c)
  PROVE  StreamInv'
<1> USE DEF StreamInv
<1>1. /\ UNCHANGED <<events, trail, writing, published, subscribers, queue, gone, since>>
      /\ stream[c] = "send" /\ stream' = [stream EXCEPT ![c] = "open"]
      /\ shown' = IF c \notin gone
                  THEN [shown EXCEPT ![c] = Append(shown[c], taken[c])] ELSE shown
      /\ taken' = [taken EXCEPT ![c] = 0]
  BY DEF Send, At, GoTo, writerVars, busVars
<1>2. 0 \notin Events
  BY EventNumbers
<1>3. taken[c] \in Events /\ shown[c] \in Seq(Events)
  BY <1>1 DEF ClientInv, StreamTypeOK
<1>4. StreamTypeOK'
  <2>1. Events' = Events
    BY <1>1 DEF Events
  <2>2. stream' \in [Clients -> {"unopened", "open", "send", "closed"}]
    BY <1>1 DEF StreamTypeOK
  <2>3. taken' \in [Clients -> Events \cup {0}]
    BY <1>1 DEF StreamTypeOK
  <2>4. shown' \in [Clients -> Seq(Events)]
    <3> HIDE DEF Events
    <3>1. Append(shown[c], taken[c]) \in Seq(Events)
      BY <1>3
    <3> QED
      BY <1>1, <3>1 DEF StreamTypeOK
  <2> HIDE DEF Events
  <2> QED
    BY <1>1, <2>1, <2>2, <2>3, <2>4 DEF StreamTypeOK
<1>5. ClientInv'
  BY <1>1 DEF ClientInv, StreamTypeOK
<1>6. FeedInv'
  <2> SUFFICES ASSUME NEW d \in Clients, stream'[d] \notin {"unopened", "closed"}, d \notin gone'
               PROVE  Whole(d)'
    BY DEF FeedInv
  <2>1. CASE d = c
    <3>1. Whole(c)
      BY <1>1, <2>1 DEF FeedInv
    <3>2. taken'[c] = 0 /\ shown'[c] = Append(shown[c], taken[c])
      BY <1>1, <2>1 DEF StreamTypeOK
    <3>3. WantedBy(c)' = WantedBy(c)
      BY <1>1 DEF WantedBy, Wanted, Events
    <3>4. Showing(shown[c], taken[c], queue[c], WantedBy(c))
      <4> HIDE DEF Events
      <4> QED
        BY <1>2, <1>3, FeedShows
    <3> QED
      BY <1>1, <2>1, <3>1, <3>2, <3>3, <3>4 DEF Whole, Behind, Even, Showing
  <2>2. CASE d # c
    <3>1. stream'[d] = stream[d] /\ taken'[d] = taken[d] /\ shown'[d] = shown[d]
      BY <1>1, <2>2 DEF StreamTypeOK
    <3> QED
      BY <1>1, <3>1, WholeStays DEF FeedInv
  <2> QED
    BY <2>1, <2>2
<1> QED
  BY <1>4, <1>5, <1>6

(* A client that leaves keeps nothing whole.                               *)
LEMMA LeaveKeeps ==
  ASSUME StreamInv, NEW c \in Clients, Leave(c)
  PROVE  StreamInv'
<1> USE DEF StreamInv
<1>1. /\ UNCHANGED <<events, trail, writing, published, subscribers, queue, stream, taken,
                     shown, since>>
      /\ gone' = gone \cup {c}
  BY DEF Leave, writerVars, busVars
<1>2. StreamTypeOK'
  BY <1>1 DEF StreamTypeOK, Events
<1>3. ClientInv'
  BY <1>1 DEF ClientInv
<1>4. FeedInv'
  BY <1>1, WholeStays DEF FeedInv
<1> QED
  BY <1>2, <1>3, <1>4

-----------------------------------------------------------------------------
\* The theorems

(* Every step keeps the invariant.                                         *)
LEMMA StreamInvStep == StreamInv /\ [Next]_vars => StreamInv'
<1> SUFFICES ASSUME StreamInv, [Next]_vars PROVE StreamInv'
  OBVIOUS
<1>1. ASSUME NEW w \in Writers, StartRecord(w) \/ Record(w) PROVE StreamInv'
  BY <1>1, StartRecordKeeps, CommitKeeps, PublishKeeps DEF Record
<1>2. ASSUME NEW c \in Clients, Subscribe(c) \/ Pump(c) \/ Send(c) \/ Leave(c) \/ Cancelled(c)
      PROVE  StreamInv'
  BY <1>2, SubscribeKeeps, CloseKeeps, GetKeeps, SendKeeps, LeaveKeeps
     DEF Pump, Disconnected, Cancelled
<1>3. CASE UNCHANGED vars
  <2>1. UNCHANGED <<events, trail, writing, published, subscribers, queue, stream, taken, gone,
                    shown, since>>
    BY <1>3 DEF vars, writerVars, busVars, clientVars
  <2> QED
    BY <2>1 DEF StreamInv, StreamTypeOK, ClientInv, FeedInv, Whole, Behind, Even, WantedBy,
                Wanted, Events
<1> QED
  BY <1>1, <1>2, <1>3 DEF Next

(* The variables of the streams have their types, and the invariant holds, *)
(* in every reachable state.                                               *)
THEOREM StreamTypeCorrect == Spec => [](StreamTypeOK /\ StreamInv)
<1>1. StreamInv => StreamTypeOK
  BY DEF StreamInv
<1> QED
  BY <1>1, StreamInvInit, StreamInvStep, PTL DEF Spec

(* A feed has no hole: a client gets everything that is broadcast for it,  *)
(* in order, or is dropped and has the first part of it.                   *)
THEOREM FeedsAreWhole == Spec => []FeedHasNoHole
<1>1. StreamInv => FeedHasNoHole
  BY WholeIsNoHole DEF StreamInv, FeedInv, FeedHasNoHole
<1> QED
  BY <1>1, StreamInvInit, StreamInvStep, PTL DEF Spec

(* Rows are never taken back, and what reaches a client comes from what    *)
(* already has its row.                                                    *)
LEMMA TruthStep ==
  ASSUME StreamInv, OnlyTruthIsShown, [Next]_vars
  PROVE  OnlyTruthIsShown'
<1> USE DEF StreamInv
<1>1. SUFFICES ASSUME NEW d \in Clients
               PROVE  /\ Range(shown'[d]) \subseteq Range(trail')
                      /\ Range(queue'[d]) \subseteq Range(trail')
                      /\ taken'[d] # 0 => taken'[d] \in Range(trail')
  BY DEF OnlyTruthIsShown
<1>2. /\ Range(shown[d]) \subseteq Range(trail) /\ Range(queue[d]) \subseteq Range(trail)
      /\ taken[d] # 0 => taken[d] \in Range(trail)
  BY DEF OnlyTruthIsShown
<1>3. /\ trail \in Seq(Events) /\ queue[d] \in Seq(Events) /\ shown[d] \in Seq(Events)
      /\ \A w \in Writers : writing[w] # 0 => writing[w] \in Events
      /\ taken[d] # 0 => taken[d] \in Events
  BY DEF StreamTypeOK
<1>4. Range(trail) \subseteq Range(trail')
  <2>1. trail' = trail \/ \E w \in Writers : writing[w] # 0 /\ trail' = Append(trail, writing[w])
    BY DEF Next, StartRecord, Record, Commit, CommitFails, Publish, Subscribe, Pump, Send, Leave,
           Cancelled, Disconnected, Get, Close, vars, writerVars
  <2> HIDE DEF Events
  <2>2. Range(trail) \subseteq Range(trail')
    <3>1. CASE trail' = trail
      BY <3>1
    <3>2. ASSUME NEW w \in Writers, writing[w] # 0, trail' = Append(trail, writing[w])
          PROVE  Range(trail) \subseteq Range(trail')
      <4>1. Extends(trail, writing[w])
        BY <1>3, <3>2, RangeExtends
      <4> QED
        BY <3>2, <4>1 DEF Extends
    <3> QED
      BY <2>1, <3>1, <3>2
  <2> QED
    BY <2>2
<1>5. Range(<<>>) = {}
  BY DEF Range
<1>6. \/ shown'[d] = shown[d] \/ shown'[d] = <<>>
      \/ taken[d] # 0 /\ shown'[d] = Append(shown[d], taken[d])
  BY DEF Next, StartRecord, Record, Commit, CommitFails, Publish, Subscribe, Pump, Send, Leave,
         Cancelled, Disconnected, Get, Close, vars, writerVars, clientVars, StreamTypeOK, At,
         ClientInv
<1>7. \/ queue'[d] = queue[d] \/ queue'[d] = <<>>
      \/ queue[d] # <<>> /\ queue'[d] = Tail(queue[d])
      \/ \E w \in Writers : /\ writing[w] # 0 /\ writing[w] \in Range(trail)
                            /\ queue'[d] = Append(queue[d], writing[w])
  BY DEF Next, StartRecord, Record, Commit, CommitFails, Publish, Publishable, Committed, Put,
         Subscribe, Pump, Send, Leave, Cancelled, Disconnected, Get, Close, vars, writerVars,
         busVars, StreamTypeOK
<1>8. \/ taken'[d] = taken[d] \/ taken'[d] = 0
      \/ queue[d] # <<>> /\ taken'[d] = Head(queue[d])
  BY DEF Next, StartRecord, Record, Commit, CommitFails, Publish, Subscribe, Pump, Send, Leave,
         Cancelled, Disconnected, Get, Close, vars, writerVars, clientVars, StreamTypeOK
<1>9. Range(shown'[d]) \subseteq Range(trail')
  <2> HIDE DEF Events
  <2>1. CASE taken[d] # 0 /\ shown'[d] = Append(shown[d], taken[d])
    <3>1. Extends(shown[d], taken[d])
      BY <1>3, <2>1, RangeExtends
    <3> QED
      BY <1>2, <1>4, <2>1, <3>1 DEF Extends
  <2> QED
    BY <1>2, <1>4, <1>5, <1>6, <2>1
<1>10. Range(queue'[d]) \subseteq Range(trail')
  <2> HIDE DEF Events
  <2>1. ASSUME NEW w \in Writers, writing[w] # 0, writing[w] \in Range(trail),
               queue'[d] = Append(queue[d], writing[w])
        PROVE  Range(queue'[d]) \subseteq Range(trail')
    <3>1. Extends(queue[d], writing[w])
      BY <1>3, <2>1, RangeExtends
    <3> QED
      BY <1>2, <1>4, <2>1, <3>1 DEF Extends
  <2>2. CASE queue[d] # <<>> /\ queue'[d] = Tail(queue[d])
    BY <1>2, <1>3, <1>4, <2>2, RangeTail
  <2> QED
    BY <1>2, <1>4, <1>5, <1>7, <2>1, <2>2
<1>11. taken'[d] # 0 => taken'[d] \in Range(trail')
  <2> HIDE DEF Events
  <2> QED
    BY <1>2, <1>3, <1>4, <1>8, RangeTail
<1> QED
  BY <1>9, <1>10, <1>11

(* What was never persisted is never shown as live truth.                  *)
THEOREM OnlyTruthShown == Spec => []OnlyTruthIsShown
<1>1. Init => OnlyTruthIsShown
  BY DEF Init, OnlyTruthIsShown, Range
<1> QED
  BY <1>1, TruthStep, StreamInvInit, StreamInvStep, PTL DEF Spec
=============================================================================

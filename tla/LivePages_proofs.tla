-------------------------- MODULE LivePages_proofs --------------------------
(* What the pages may rely on, for every number of requests, writes, records, *)
(* restarts and rebalances.                                                   *)
EXTENDS LivePages, TLAPS

-----------------------------------------------------------------------------
(* The endpoint. *)

\* A request under way was asked at a value that is not newer than Redis's, and past the
\* existence check there is one.
RequestOK(r) ==
  /\ request[r].since \in 0..redis
  /\ request[r].at = "get" => redis > 0
  /\ request[r].at = "answered" =>
       IF request[r].answer = NoSuchSensor THEN request[r].since = 0
       ELSE request[r].answer \in (request[r].since .. redis) \ {0}

DeviceInv ==
  /\ redis \in Nat
  /\ request \in [Requests -> [at : {"none", "exists", "get", "answered"}, since : Nat,
                               answer : Nat \cup {NoSuchSensor, Nothing}]]
  /\ \A r \in Requests : RequestOK(r)

LEMMA InitDevice == Init => DeviceInv
BY DEF Init, DeviceInv, RequestOK, NoRequest

LEMMA NextDevice == DeviceInv /\ [Next]_vars => DeviceInv'
<1> SUFFICES ASSUME DeviceInv, [Next]_vars PROVE DeviceInv'
  OBVIOUS
<1> USE NamesAssumption, BoundsAssumption DEF DeviceInv, RequestOK, NoRequest
<1>1. CASE SetLatest
  BY <1>1 DEF SetLatest
<1>2. ASSUME NEW r \in Requests, UpdateLatestMeasurement(r) PROVE DeviceInv'
  BY <1>2 DEF UpdateLatestMeasurement
<1>3. ASSUME NEW r \in Requests, Exists(r) PROVE DeviceInv'
  BY <1>3 DEF Exists, Reply
<1>4. ASSUME NEW r \in Requests, Get(r) PROVE DeviceInv'
  BY <1>4 DEF Get, Reply
<1>5. ASSUME NEW r \in Requests, Success(r) \/ Fails(r) PROVE DeviceInv'
  BY <1>5 DEF Success, Fails
<1>6. CASE Restart
  BY <1>6 DEF Restart
<1>7. CASE UNCHANGED deviceVars
  BY <1>7 DEF deviceVars
<1>8. CASE Produce \/ Container \/ RawPage
  BY <1>8, <1>7 DEF Produce, Container, PollRecords, Consume, CommitBatch, RawPage,
     Connect, Disconnect, Reload, Draw
<1> QED
  BY <1>1, <1>2, <1>3, <1>4, <1>5, <1>6, <1>7, <1>8 DEF Next, Ask, Answer, vars

\* An answer of getLatestMeasurement, made of two calls, is one that a single read of Redis
\* during the request could have given.
THEOREM AnswersAreCurrent == Spec => []AnswerIsCurrent
<1>1. DeviceInv => AnswerIsCurrent
  BY DEF DeviceInv, RequestOK, AnswerIsCurrent
<1> QED
  BY InitDevice, NextDevice, <1>1, PTL DEF Spec

-----------------------------------------------------------------------------
(* The raw data. *)

\* The container is in the middle of a batch, or between two.
ListenerInv ==
  /\ produced \in 0..MaxRecords
  /\ listener \in [position : Nat, batch : Nat, committed : Nat]
  /\ listener.committed <= listener.position
  /\ listener.position <= listener.batch
  /\ listener.batch <= produced

LEMMA InitListener == Init => ListenerInv
BY BoundsAssumption DEF Init, ListenerInv

LEMMA NextListener == ListenerInv /\ [Next]_vars => ListenerInv'
<1> SUFFICES ASSUME ListenerInv, [Next]_vars PROVE ListenerInv'
  OBVIOUS
<1> USE BoundsAssumption DEF ListenerInv
<1>1. CASE Produce
  BY <1>1 DEF Produce
<1>2. CASE PollRecords
  <2>1. PICK end \in listener.batch + 1 .. produced :
          listener' = [listener EXCEPT !.batch = end]
    BY <1>2 DEF PollRecords
  <2>2. /\ listener' \in [position : Nat, batch : Nat, committed : Nat]
        /\ listener'.position = listener.position
        /\ listener'.committed = listener.committed
        /\ listener'.batch = end
    BY <2>1
  <2>3. listener.position <= end /\ end <= produced
    BY <2>1
  <2> QED
    BY <1>2, <2>2, <2>3 DEF PollRecords
<1>3. CASE Consume
  <2>1. /\ listener.position < listener.batch
        /\ listener' = [listener EXCEPT !.position = @ + 1]
        /\ UNCHANGED produced
    BY <1>3 DEF Consume
  <2>2. /\ listener' \in [position : Nat, batch : Nat, committed : Nat]
        /\ listener'.position = listener.position + 1
        /\ listener'.committed = listener.committed
        /\ listener'.batch = listener.batch
    BY <2>1
  <2> QED
    BY <2>1, <2>2
<1>a. ASSUME listener' = [listener EXCEPT !.position = listener.committed,
                                           !.batch = listener.committed],
             UNCHANGED produced
      PROVE  ListenerInv'
  <2>1. /\ listener' \in [position : Nat, batch : Nat, committed : Nat]
        /\ listener'.position = listener.committed
        /\ listener'.committed = listener.committed
        /\ listener'.batch = listener.committed
    BY <1>a
  <2> QED
    BY <1>a, <2>1
<1>4. CASE CommitBatch
  <2>1. CASE listener' = [listener EXCEPT !.committed = listener.batch]
    <3>1. /\ listener' \in [position : Nat, batch : Nat, committed : Nat]
          /\ listener'.position = listener.position
          /\ listener'.committed = listener.batch
          /\ listener'.batch = listener.batch
      BY <2>1
    <3> QED
      BY <1>4, <3>1 DEF CommitBatch
  <2> QED
    BY <1>4, <1>a, <2>1 DEF CommitBatch
<1>5. CASE Restart
  BY <1>5, <1>a DEF Restart
<1>6. CASE UNCHANGED <<produced, listener>>
  BY <1>6
<1>7. CASE SetLatest \/ Ask \/ \E r \in Requests : Answer(r) \/ Fails(r)
  BY <1>7, <1>6 DEF SetLatest, Ask, UpdateLatestMeasurement, Answer, Exists, Get, Reply,
     Success, Fails, rawVars
<1>8. CASE RawPage
  BY <1>8, <1>6 DEF RawPage, Connect, Disconnect, Reload, Draw
<1> QED
  BY <1>1, <1>2, <1>3, <1>4, <1>5, <1>6, <1>7, <1>8 DEF Next, Container, vars, rawVars

\* What the page has of a record, drawn or under way.  A connected page has one copy for
\* each rebalance at most, and one more if the listener is past the record; and it has one
\* if the listener passed it since the page subscribed.
Copies(o) == chart[o] + messages[o]
Past(o)   == IF o < listener.position THEN 1 ELSE 0

CountInv ==
  /\ rebalances \in Nat /\ subscribed \in Nat
  /\ messages \in [Offsets -> Nat] /\ chart \in [Offsets -> Nat]
  /\ \A o \in Offsets :
       /\ Copies(o) <= 1 + rebalances
       /\ connection = "none" => Copies(o) = 0
       /\ connection = "open" => Copies(o) <= rebalances + Past(o)
       /\ connection = "open" /\ subscribed <= o /\ o < listener.position => Copies(o) > 0

LEMMA InitCount == Init => CountInv
BY BoundsAssumption DEF Init, CountInv, Copies, Past, NoMessages, Offsets

LEMMA NextCount == ListenerInv /\ CountInv /\ [Next]_vars => CountInv'
<1> SUFFICES ASSUME ListenerInv, CountInv, [Next]_vars PROVE CountInv'
  OBVIOUS
<1>p. /\ listener.position \in Nat /\ listener.committed \in Nat
      /\ listener.committed <= listener.position
  BY DEF ListenerInv
<1>o. \A o \in Offsets : o \in Nat
  BY BoundsAssumption DEF Offsets
<1> USE DEF CountInv, Copies, Past
<1>1. CASE UNCHANGED <<listener.position, messages, chart, connection, subscribed, rebalances>>
  BY <1>1
<1>2. CASE Produce
  BY <1>2, <1>1 DEF Produce
<1>3. CASE PollRecords
  <2>1. PICK end \in listener.batch + 1 .. produced :
          listener' = [listener EXCEPT !.batch = end]
    BY <1>3 DEF PollRecords
  <2>2. listener'.position = listener.position
    BY <2>1 DEF ListenerInv
  <2> QED
    BY <1>3, <1>1, <2>2 DEF PollRecords
<1>4. CASE Consume
  <2> DEFINE p == listener.position
  <2>1. p \in Offsets
    BY <1>4, BoundsAssumption DEF Consume, ListenerInv, Offsets
  <2>2. /\ listener'.position = p + 1
        /\ UNCHANGED <<chart, connection, subscribed, rebalances>>
    BY <1>4 DEF Consume, ListenerInv
  <2>3. CASE connection = "open"
    <3>1. messages' = [messages EXCEPT ![p] = @ + 1]
      BY <1>4, <2>3 DEF Consume
    <3>2. messages' \in [Offsets -> Nat]
      BY <3>1, <2>1
    <3>3. \A o \in Offsets : messages'[o] = IF o = p THEN messages[o] + 1 ELSE messages[o]
      BY <3>1
    <3> QED
      BY <1>p, <1>o, <2>1, <2>2, <2>3, <3>2, <3>3
  <2>4. CASE connection # "open"
    BY <1>4, <1>p, <1>o, <2>2, <2>4 DEF Consume
  <2> QED
    BY <2>3, <2>4
<1>5. CASE CommitBatch
  <2>1. CASE listener' = [listener EXCEPT !.committed = listener.batch] /\ UNCHANGED rebalances
    <3>1. listener'.position = listener.position
      BY <2>1 DEF ListenerInv
    <3> QED
      BY <1>5, <1>1, <2>1, <3>1 DEF CommitBatch
  <2>2. CASE /\ rebalances' = rebalances + 1
             /\ listener' = [listener EXCEPT !.position = listener.committed,
                                             !.batch = listener.committed]
    <3>1. listener'.position = listener.committed
      BY <2>2 DEF ListenerInv
    <3>2. UNCHANGED <<messages, chart, connection, subscribed>>
      BY <1>5 DEF CommitBatch
    <3> QED
      BY <1>p, <1>o, <2>2, <3>1, <3>2
  <2> QED
    BY <1>5, <2>1, <2>2 DEF CommitBatch
<1>6. CASE Connect
  BY <1>6, <1>p, <1>o DEF Connect
<1>7. ASSUME NEW d \in Offsets, Draw(d) PROVE CountInv'
  <2>1. /\ UNCHANGED <<listener, connection, subscribed, rebalances>>
        /\ messages[d] > 0
        /\ messages' = [messages EXCEPT ![d] = @ - 1]
        /\ chart' = [chart EXCEPT ![d] = @ + 1]
    BY <1>7 DEF Draw
  <2>2. messages' \in [Offsets -> Nat] /\ chart' \in [Offsets -> Nat]
    BY <2>1
  <2>3. \A o \in Offsets : chart'[o] + messages'[o] = chart[o] + messages[o]
    BY <2>1
  <2> QED
    BY <2>1, <2>2, <2>3
<1>8. CASE Disconnect
  BY <1>8, <1>o DEF Disconnect, NoMessages
<1>9. CASE Reload
  BY <1>9, <1>o DEF Reload, NoMessages
<1>10. CASE Restart
  <2>1. /\ UNCHANGED <<chart, subscribed, rebalances>>
        /\ messages' = NoMessages
        /\ connection' # "open"
        /\ connection' = "none" => connection = "none"
    BY <1>10 DEF Restart
  <2> QED
    BY <2>1 DEF NoMessages
<1>11. CASE SetLatest \/ Ask \/ \E r \in Requests : Answer(r) \/ Fails(r)
  BY <1>11, <1>1 DEF SetLatest, Ask, UpdateLatestMeasurement, Answer, Exists, Get, Reply,
     Success, Fails, rawVars
<1>12. CASE UNCHANGED vars
  BY <1>12, <1>1 DEF vars, rawVars
<1> QED
  BY <1>2, <1>3, <1>4, <1>5, <1>6, <1>7, <1>8, <1>9, <1>10, <1>11, <1>12
     DEF Next, Container, RawPage

\* A connected page has drawn, or has on its way, every record consumed since it
\* subscribed, in whatever order the messages come.
THEOREM NothingIsMissing == Spec => []NothingMissing
<1>1. ListenerInv /\ CountInv => NothingMissing
  <2> SUFFICES ASSUME ListenerInv, CountInv, connection = "open",
                      NEW o \in subscribed .. listener.position - 1
               PROVE  chart[o] + messages[o] > 0
    BY DEF NothingMissing
  <2>1. o \in Offsets /\ subscribed <= o /\ o < listener.position
    BY BoundsAssumption DEF ListenerInv, CountInv, Offsets
  <2> QED
    BY <2>1 DEF CountInv, Copies
<1> QED
  BY InitListener, NextListener, InitCount, NextCount, <1>1, PTL DEF Spec

\* A restart of the process, which consumes records again, never makes a page count one of
\* them twice: only a rebalance does.
THEOREM DuplicatesNeedARebalance == Spec => []DuplicatesNeedRebalance
<1>1. CountInv => DuplicatesNeedRebalance
  BY DEF CountInv, Copies, DuplicatesNeedRebalance
<1> QED
  BY InitListener, NextListener, InitCount, NextCount, <1>1, PTL DEF Spec
=============================================================================

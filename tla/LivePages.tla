------------------------------ MODULE LivePages ------------------------------
(***************************************************************************)
(* The two live pages and the process that feeds them.  device-details.html*)
(* polls RedisController for the latest measurement of its sensor, without *)
(* waiting for one answer before it asks again.  raw-data.html subscribes  *)
(* to a websocket topic on which RawDataConsumer forwards every record of  *)
(* the temperature topic; the broker hands messages to a pool of threads,  *)
(* so a page may get them in any order.  A restart of the process loses    *)
(* its requests and connections; raw-data.html does not connect again.     *)
(*                                                                         *)
(* The values written to Redis are numbered in the order of the writes.    *)
(* Records are known by their offset.                                      *)
(***************************************************************************)
EXTENDS Integers, FiniteSets

CONSTANTS
  Requests,     \* identities of the device page's requests: how many may be under way
  MaxWrites,    \* bound: values the pipelines write for the sensor
  MaxRecords,   \* bound: records of the temperature topic
  MaxRestarts,  \* bound: restarts of the process
  MaxRebalances, \* bound: times the consumer's partitions are taken and given back
  NoSuchSensor, \* the answer when the key does not exist
  Nothing       \* no answer yet

ASSUME BoundsAssumption ==
  MaxWrites \in Nat /\ MaxRecords \in Nat /\ MaxRestarts \in Nat /\ MaxRebalances \in Nat

ASSUME NamesAssumption == NoSuchSensor \notin Int

VARIABLES
  redis,       \* the value under the sensor's key; 0 when there is no such key
  request,     \* request[r]: [at, since, answer], where `since` is the value when the page asked
  latestValue, \* what the device page shows
  produced,    \* the number of records in the topic
  listener,    \* [position, batch, committed]: the Kafka listener's container
  connection,  \* of the raw data page: "none", "open" or "lost"
  subscribed,  \* the first offset not yet forwarded when the page subscribed
  messages,    \* messages[o]: copies of record o forwarded to the page and not received
  chart,       \* chart[o]: how often record o counts in the page's labels, data and average
  restarts, rebalances

deviceVars == <<redis, request, latestValue>>
rawVars    == <<produced, listener, connection, subscribed, messages, chart, rebalances>>
vars       == <<deviceVars, rawVars, restarts>>

NoRequest  == [at |-> "none", since |-> 0, answer |-> Nothing]
Offsets    == 0..MaxRecords - 1
NoMessages == [o \in Offsets |-> 0]

Init ==
  /\ redis = 0
  /\ request = [r \in Requests |-> NoRequest]
  /\ latestValue = Nothing
  /\ produced = 0
  /\ listener = [position |-> 0, committed |-> 0, batch |-> 0]
  /\ connection = "none" /\ subscribed = 0
  /\ messages = NoMessages /\ chart = NoMessages
  /\ restarts = 0 /\ rebalances = 0

-----------------------------------------------------------------------------
(* The latest measurement. *)

\* A flushed window: redisCommands.set, ProcessStream's WriteRedis.
SetLatest ==
  /\ redis < MaxWrites
  /\ redis' = redis + 1
  /\ UNCHANGED <<request, latestValue, rawVars, restarts>>

\* Mutated form: the page asks once and sets no interval.
UpdateLatestMeasurement_Once(r) ==
  /\ latestValue = Nothing /\ \A q \in Requests : request[q] = NoRequest
  /\ request' = [request EXCEPT ![r] = [at |-> "exists", since |-> redis, answer |-> Nothing]]
  /\ UNCHANGED <<redis, latestValue, rawVars, restarts>>

\* Every five seconds, and once when the page is drawn.
UpdateLatestMeasurement(r) ==
  /\ request[r] = NoRequest
  /\ request' = [request EXCEPT ![r] = [at |-> "exists", since |-> redis, answer |-> Nothing]]
  /\ UNCHANGED <<redis, latestValue, rawVars, restarts>>

Reply(r, at, answer) ==
  /\ request' = [request EXCEPT ![r] = [at |-> at, since |-> @.since, answer |-> answer]]
  /\ UNCHANGED <<redis, latestValue, rawVars, restarts>>

\* Mutated form: the handler reads without asking whether the key exists.
Exists_Unchecked(r) ==
  /\ request[r].at = "exists"
  /\ Reply(r, "get", Nothing)

\* getLatestMeasurement: exists, and then get.
Exists(r) ==
  /\ request[r].at = "exists"
  /\ IF redis = 0 THEN Reply(r, "answered", NoSuchSensor) ELSE Reply(r, "get", Nothing)

Get(r) ==
  /\ request[r].at = "get"
  /\ Reply(r, "answered", redis)

\* Redis is out of reach: the call throws, and the page has no error callback.
Fails(r) ==
  /\ request[r].at \in {"exists", "get"}
  /\ request' = [request EXCEPT ![r] = NoRequest]
  /\ UNCHANGED <<redis, latestValue, rawVars, restarts>>

\* The success callback; answers come in any order.
Success(r) ==
  /\ request[r].at = "answered"
  /\ latestValue' = request[r].answer
  /\ request' = [request EXCEPT ![r] = NoRequest]
  /\ UNCHANGED <<redis, rawVars, restarts>>

-----------------------------------------------------------------------------
(* The raw data. *)

Produce ==
  /\ produced < MaxRecords
  /\ produced' = produced + 1
  /\ UNCHANGED <<deviceVars, listener, connection, subscribed, messages, chart, rebalances, restarts>>

\* The container polls when the batch before is committed.
PollRecords ==
  /\ listener.position = listener.batch /\ listener.committed = listener.batch
  /\ \E end \in listener.batch + 1 .. produced :
       listener' = [listener EXCEPT !.batch = end]
  /\ UNCHANGED <<deviceVars, produced, connection, subscribed, messages, chart, rebalances, restarts>>

\* consume(): convertAndSend reaches the pages that are subscribed, and needs none.
Consume ==
  /\ listener.position < listener.batch
  /\ listener' = [listener EXCEPT !.position = @ + 1]
  /\ messages' = IF connection = "open" THEN [messages EXCEPT ![listener.position] = @ + 1]
                                        ELSE messages
  /\ UNCHANGED <<deviceVars, produced, connection, subscribed, chart, rebalances, restarts>>

\* The offsets are committed after the batch; when the partitions were taken away in the
\* meantime they are not, and the batch is polled again.
CommitBatch ==
  /\ listener.position = listener.batch /\ listener.committed < listener.batch
  /\ \/ /\ listener' = [listener EXCEPT !.committed = listener.batch]
        /\ UNCHANGED rebalances
     \/ /\ rebalances < MaxRebalances
        /\ rebalances' = rebalances + 1
        /\ listener' = [listener EXCEPT !.position = listener.committed, !.batch = listener.committed]
  /\ UNCHANGED <<deviceVars, produced, connection, subscribed, messages, chart, restarts>>

\* Mutated form: the page connects again when it lost its connection.
Connect_Again ==
  /\ connection \in {"none", "lost"}
  /\ connection' = "open"
  /\ subscribed' = IF connection = "none" THEN listener.position ELSE subscribed
  /\ UNCHANGED <<deviceVars, produced, listener, messages, chart, rebalances, restarts>>

\* stompClient.connect and subscribe, once per load of the page.
Connect ==
  /\ connection = "none"
  /\ connection' = "open"
  /\ subscribed' = listener.position
  /\ UNCHANGED <<deviceVars, produced, listener, messages, chart, rebalances, restarts>>

\* Mutated form: a message older than one already drawn is dropped.
Draw_NewestOnly(o) ==
  /\ messages[o] > 0
  /\ messages' = [messages EXCEPT ![o] = @ - 1]
  /\ chart' = IF \E p \in Offsets : p > o /\ chart[p] > 0
              THEN chart ELSE [chart EXCEPT ![o] = @ + 1]
  /\ UNCHANGED <<deviceVars, produced, listener, connection, subscribed, rebalances, restarts>>

\* The subscription's callback; messages come in any order.
Draw(o) ==
  /\ messages[o] > 0
  /\ messages' = [messages EXCEPT ![o] = @ - 1]
  /\ chart' = [chart EXCEPT ![o] = @ + 1]
  /\ UNCHANGED <<deviceVars, produced, listener, connection, subscribed, rebalances, restarts>>

\* The connection breaks; what is under way on it is lost.
Disconnect ==
  /\ connection = "open"
  /\ connection' = "lost" /\ messages' = NoMessages
  /\ UNCHANGED <<deviceVars, produced, listener, subscribed, chart, rebalances, restarts>>

\* The user loads the page again: a new chart, and an average that starts anew.
Reload ==
  /\ connection # "none"
  /\ connection' = "none" /\ subscribed' = 0
  /\ messages' = NoMessages /\ chart' = NoMessages
  /\ UNCHANGED <<deviceVars, produced, listener, rebalances, restarts>>

-----------------------------------------------------------------------------

\* The process starts again: the pages' requests fail, which nothing handles, their
\* connections break, and the listener goes on from the committed offset.
Restart ==
  /\ restarts < MaxRestarts
  /\ restarts' = restarts + 1
  /\ request' = [r \in Requests |-> NoRequest]
  /\ listener' = [listener EXCEPT !.position = listener.committed, !.batch = listener.committed]
  /\ connection' = IF connection = "open" THEN "lost" ELSE connection
  /\ messages' = NoMessages
  /\ UNCHANGED <<redis, latestValue, produced, subscribed, chart, rebalances>>

Ask       == \E r \in Requests : UpdateLatestMeasurement(r)
Answer(r) == Exists(r) \/ Get(r) \/ Success(r)
Container == PollRecords \/ Consume \/ CommitBatch
RawPage   == Connect \/ Disconnect \/ Reload \/ \E o \in Offsets : Draw(o)

Next ==
  \/ SetLatest \/ Ask \/ \E r \in Requests : Answer(r) \/ Fails(r)
  \/ Produce \/ Container \/ RawPage
  \/ Restart
Spec == Init /\ [][Next]_vars

\* The device page stays open, so its interval fires again and again, and the process
\* answers what reaches it, when Redis does.
FairSpec == Spec /\ WF_vars(Ask) /\ \A r \in Requests : WF_vars(Answer(r))

-----------------------------------------------------------------------------
(* Properties. *)

\* The endpoint answers as if it read Redis once: no value older than the one that was
\* there when it was asked, none that was never there, and "No such sensor" only when
\* there was none.
AnswerIsCurrent ==
  \A r \in Requests : request[r].at = "answered" =>
    IF request[r].answer = NoSuchSensor THEN request[r].since = 0
    ELSE request[r].answer \in (request[r].since .. redis) \ {0}

\* Answers overtake each other, so the page may go back to an older value; but once the
\* sensor's value stays and Redis is within reach for good, the page comes to show it and
\* stays with it, whatever restarts and failed requests came before.
RedisAnswers == <>[][~ \E r \in Requests : Fails(r)]_vars

PageCatchesUp ==
  \A v \in 0..MaxWrites :
    RedisAnswers /\ <>[](redis = v) =>
      <>[](latestValue = IF v = 0 THEN NoSuchSensor ELSE v)

\* Whatever order the messages come in, and however often the consumer starts over, a
\* connected page misses no record consumed since it subscribed.
NothingMissing ==
  connection = "open" =>
    \A o \in subscribed .. listener.position - 1 : chart[o] + messages[o] > 0

\* A record counts twice in the page's average only if the consumer lost its partitions
\* in between: a restart alone never does it, although records are consumed again.
DuplicatesNeedRebalance == \A o \in Offsets : chart[o] + messages[o] <= 1 + rebalances
=============================================================================

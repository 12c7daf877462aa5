---------------------------- MODULE ProcessStream ----------------------------
(***************************************************************************)
(* ProcessStreamService: the three Kafka Streams pipelines that turn raw   *)
(* measurements into windowed aggregates, raise alerts, and publish to     *)
(* InfluxDB, Redis and the output topics.  They are three topologies of    *)
(* ONE KafkaStreams client with ONE stream thread: what kills one kills    *)
(* all, and they commit together.                                          *)
(*                                                                         *)
(* Temperature and pressure publish an average each time the record cache  *)
(* is flushed, power publishes a total once its window has closed.  One    *)
(* partition of each topic is modelled: a key lives in one partition, and  *)
(* keys share it, so they share its stream time.                           *)
(*                                                                         *)
(* A window w is <<key, start>>.  Its aggregate is [count, sum, time,      *)
(* from]: the code's CountAndSum, the largest record time in it, and, as   *)
(* history, the offsets folded into it.                                    *)
(***************************************************************************)
EXTENDS AlertService, Sequences, FiniteSetsExt

CONSTANTS
  Pipelines,    \* the topics in play, a subset of Categories
  Keys,         \* the sensor ids configured for each category, 1 .. devicesNum
  Logs,         \* what the input topics may hold: [p -> sequence of [key, value, time]]
  MaxLogLength, \* bound on their length
  NoValue,      \* a null key or value
  WindowSize,   \* aggregateWindowSizeSec
  Grace,        \* gracePeriodSec
  MayFail,      \* what may fail: "mail", "influx", "redis", "streams" for Kafka Streams itself
  MaxToggles,   \* bound on the operator's toggles
  MaxRestarts   \* bound on restarts of the process

\* Readings are integers; event times are the producers' clocks, in seconds.
ASSUME LogsAssumption ==
  \A log \in Logs : \A p \in Pipelines :
    /\ log[p] \in Seq({log[p][i] : i \in DOMAIN log[p]})
    /\ \A i \in DOMAIN log[p] : /\ log[p][i].value \in Int \cup {NoValue}
                                 /\ log[p][i].time \in Nat
ASSUME WindowAssumption == WindowSize \in Nat \ {0} /\ Grace \in Nat
ASSUME PipelinesAssumption == Pipelines \subseteq Categories

VARIABLES
  topic,             \* topic[p]: the records of p's input topic
  activeDevicesMap,  \* the shared device map, Null where there is no key
  client,            \* the Streams client: "running", "committing" or "dead"
  position,          \* position[p]: records read by the task
  committed,         \* committed[p]: the committed offset
  observed,          \* observed[p]: stream time seen by the aggregator, -1 at start
  agg,               \* agg[p]: window -> aggregate, as the task sees it (cache over store)
  dirty,             \* dirty[p]: windows changed since the last flush -> offset of the change
  store,             \* store[p]: window -> aggregate, flushed to store and changelog
  buffer,            \* buffer[p]: windows suppress() holds back until they close
  closing,           \* closing[p]: stream time seen by suppress(), -1 at start
  saved,             \* saved[p]: store and buffer that the changelogs hold for sure
  sending,           \* the update on its way through peek() and to(), or Nothing
  influx,            \* influx[p]: points written, [w, value]
  redis,             \* redis key <<category, id>> -> what was set last, [w, agg]
  output,            \* output[p]: the output topic, [w, agg]
  accepted,          \* history: accepted[p], offsets folded in and not lost to a restart
  toggles, restarts  \* counters behind MaxToggles and MaxRestarts

taskVars   == <<position, observed, agg, dirty, accepted>>
bufferVars == <<buffer, closing>>
sinkVars   == <<influx, redis, output>>
bounds     == <<toggles, restarts>>
vars == <<topic, activeDevicesMap, client, committed, store, saved, sending,
          taskVars, bufferVars, sinkVars, bounds>>

Null       == "null"
Nothing    == [stage |-> "nothing"]
DeviceKeys == {DeviceKey(p, k) : p \in Pipelines, k \in Keys}
MapKeys    == DeviceKeys \cup {AlertKey(k) : k \in Keys}
AllActive  == [d \in MapKeys |-> IF d \in DeviceKeys THEN "ACTIVE" ELSE Null]

Empty         == [w \in {} |-> Null]
With(f, w, v) == [x \in DOMAIN f \cup {w} |-> IF x = w THEN v ELSE f[x]]
Without(f, w) == [x \in DOMAIN f \ {w} |-> f[x]]
Larger(a, b)  == IF a > b THEN a ELSE b

WindowOf(r)    == <<r.key, (r.time \div WindowSize) * WindowSize>>
Start(w)       == w[2]
Closed(w, now) == Start(w) + WindowSize + Grace <= now
Suppressing_Nothing(p) == FALSE
Suppressing(p) == p = "power"

\* Mutated form: the sum is passed on where the average is meant.
Reading_Sum(p, a) == [sum |-> a.sum, count |-> 1]

\* What checkForAlerts is given: the average, or the total.
Reading(p, a) == IF Suppressing(p) THEN [sum |-> a.sum, count |-> 1]
                 ELSE [sum |-> a.sum, count |-> a.count]

\* value.intValue(): towards zero.
IntValue(r) == IF r.sum >= 0 THEN r.sum \div r.count ELSE -((-r.sum) \div r.count)

Init ==
  /\ topic \in Logs
  /\ activeDevicesMap = AllActive
  /\ client = "running"
  /\ position = [p \in Pipelines |-> 0]  /\ committed = position
  /\ observed = [p \in Pipelines |-> -1] /\ closing = observed
  /\ agg = [p \in Pipelines |-> Empty]   /\ dirty = agg /\ store = agg /\ buffer = agg
  /\ saved = [p \in Pipelines |-> [store |-> Empty, buffer |-> Empty]]
  /\ sending = Nothing
  /\ influx = [p \in Pipelines |-> <<>>] /\ output = influx
  /\ redis = Empty
  /\ accepted = [p \in Pipelines |-> {}]
  /\ toggles = 0 /\ restarts = 0

-----------------------------------------------------------------------------
(* One record: the two filters, then the windowed aggregate. *)

\* key and value present, and the device known and ACTIVE when the record is processed.
PassesFilters(p, r) ==
  /\ r.key # NoValue /\ r.value # NoValue
  /\ DeviceKey(p, r.key) \in MapKeys
  /\ activeDevicesMap[DeviceKey(p, r.key)] = "ACTIVE"

\* Mutated form: the aggregator reads the store behind the cache.
Fold_BehindCache(p, r, offset) ==
  LET w   == WindowOf(r)
      old == IF w \in DOMAIN store[p] THEN store[p][w]
             ELSE [count |-> 0, sum |-> 0, time |-> -1, from |-> {}]
  IN  [count |-> old.count + 1, sum |-> old.sum + r.value,
       time |-> Larger(old.time, r.time), from |-> old.from \cup {offset}]

\* The initializer and the aggregator.
Fold(p, r, offset) ==
  LET w   == WindowOf(r)
      old == IF w \in DOMAIN agg[p] THEN agg[p][w]
             ELSE [count |-> 0, sum |-> 0, time |-> -1, from |-> {}]
  IN  [count |-> old.count + 1, sum |-> old.sum + r.value,
       time |-> Larger(old.time, r.time), from |-> old.from \cup {offset}]

\* Mutated form: a window that was flushed before is not marked as changed again.
MarkChanged_Once(p, w, offset) ==
  IF w \in DOMAIN agg[p] THEN dirty[p] ELSE With(dirty[p], w, offset)

\* The record cache keeps the latest value of a window, at the place of its last change.
MarkChanged(p, w, offset) == With(dirty[p], w, offset)

Process(p) ==
  /\ client = "running"
  /\ position[p] < Len(topic[p])
  /\ LET offset == position[p] + 1
         r      == topic[p][offset]
         now    == Larger(observed[p], r.time)
         w      == WindowOf(r)
     IN  /\ position' = [position EXCEPT ![p] = offset]
         /\ observed' = [observed EXCEPT ![p] = IF PassesFilters(p, r) THEN now ELSE @]
         /\ IF PassesFilters(p, r) /\ ~Closed(w, now)
            THEN /\ agg' = [agg EXCEPT ![p] = With(@, w, Fold(p, r, offset))]
                 /\ dirty' = [dirty EXCEPT ![p] = MarkChanged(p, w, offset)]
                 /\ accepted' = [accepted EXCEPT ![p] = @ \cup {offset}]
            ELSE UNCHANGED <<agg, dirty, accepted>>
  /\ UNCHANGED <<topic, activeDevicesMap, client, committed, store, saved, sending,
                 bufferVars, sinkVars, bounds>>

-----------------------------------------------------------------------------
(* A commit flushes the cache of every task, in the order of the topologies,  *)
(* pushes each flushed update downstream, and commits all offsets at once.    *)

Rank == [temperature |-> 1, power |-> 2, pressure |-> 3]

BeginCommit ==
  /\ client = "running"
  /\ \E p \in Pipelines : position[p] # committed[p]
  /\ client' = "committing"
  /\ UNCHANGED <<topic, activeDevicesMap, committed, store, saved, sending,
                 taskVars, bufferVars, sinkVars, bounds>>

Update(p, w, a) == [pipeline |-> p, w |-> w, agg |-> a, stage |-> "alert"]

\* Mutated form: closed windows are let go newest first.
EmittedBefore_Newest(v, w) == Start(v) > Start(w) \/ (Start(v) = Start(w) /\ v[1] < w[1])

EmittedBefore(v, w) == Start(v) < Start(w) \/ (Start(v) = Start(w) /\ v[1] < w[1])

\* Mutated form: windows are let go when they end, before the grace period is over.
Ready_WithoutGrace(p) == {w \in DOMAIN buffer[p] : Start(w) + WindowSize <= closing[p]}

\* The windows suppress() lets go of: they are closed by the stream time it has seen.
Ready(p) == {w \in DOMAIN buffer[p] : Closed(w, closing[p])}

\* The change that comes first in the cache is written to the store and goes on to
\* peek(), or, for power, to suppress().
FlushWindow(p) ==
  /\ client = "committing" /\ sending = Nothing /\ Ready(p) = {}
  /\ \A q \in Pipelines : Rank[q] < Rank[p] => DOMAIN dirty[q] = {} /\ Ready(q) = {}
  /\ \E w \in DOMAIN dirty[p] :
       /\ \A v \in DOMAIN dirty[p] : dirty[p][w] <= dirty[p][v]
       /\ store' = [store EXCEPT ![p] = With(@, w, agg[p][w])]
       /\ dirty' = [dirty EXCEPT ![p] = Without(@, w)]
       /\ \/ /\ Suppressing(p)
             /\ buffer' = [buffer EXCEPT ![p] = With(@, w, agg[p][w])]
             /\ closing' = [closing EXCEPT ![p] = Larger(@, agg[p][w].time)]
             /\ UNCHANGED sending
          \/ /\ ~Suppressing(p)
             /\ sending' = Update(p, w, agg[p][w])
             /\ UNCHANGED bufferVars
  /\ UNCHANGED <<topic, activeDevicesMap, client, committed, saved, position, observed,
                 agg, accepted, sinkVars, bounds>>

\* untilWindowCloses: closed windows leave the buffer one by one, oldest first.
EmitClosed(p) ==
  /\ client = "committing" /\ sending = Nothing
  /\ \E w \in Ready(p) :
       /\ \A v \in Ready(p) \ {w} : EmittedBefore(w, v)
       /\ sending' = Update(p, w, buffer[p][w])
       /\ buffer' = [buffer EXCEPT ![p] = Without(@, w)]
  /\ UNCHANGED <<topic, activeDevicesMap, client, committed, store, saved, taskVars,
                 closing, sinkVars, bounds>>

Flushed_Always == TRUE   \* Mutated form: the offsets are committed without waiting for the flush
Flushed == \A p \in Pipelines : DOMAIN dirty[p] = {} /\ Ready(p) = {}

CommitOffset_OneAhead(p) == position[p] + 1   \* Mutated form: off by one
CommitOffset(p) == position[p]

FinishCommit ==
  /\ client = "committing" /\ sending = Nothing
  /\ Flushed
  /\ committed' = [p \in Pipelines |-> CommitOffset(p)]
  /\ saved' = [p \in Pipelines |-> [store |-> store[p], buffer |-> buffer[p]]]
  /\ client' = "running"
  /\ UNCHANGED <<topic, activeDevicesMap, store, sending, taskVars, bufferVars,
                 sinkVars, bounds>>

-----------------------------------------------------------------------------
(* The peek() of an update, one external call at a time, then to().          *)

InHand(stage) == client = "committing" /\ sending.stage = stage
NextStage(s)  == sending' = [sending EXCEPT !.stage = s]
Level         == AlertLevel(sending.pipeline, Reading(sending.pipeline, sending.agg))

\* checkForAlerts up to and including the mail.  It is outside the try blocks: when the
\* mail server refuses, the exception leaves peek() and shuts the client down.
CheckForAlerts ==
  /\ InHand("alert")
  /\ \/ /\ NextStage(IF Level = "CRITICAL" THEN "deactivate" ELSE "influx")
        /\ UNCHANGED client
     \/ /\ Mails(Level) /\ "mail" \in MayFail
        /\ client' = "dead"
        /\ UNCHANGED sending
  /\ UNCHANGED <<topic, activeDevicesMap, committed, store, saved, taskVars, bufferVars,
                 sinkVars, bounds>>

\* The put that follows a CRITICAL alert.
Deactivate ==
  /\ InHand("deactivate")
  /\ activeDevicesMap' = With(activeDevicesMap, AlertKey(sending.w[1]), "INACTIVE")
  /\ NextStage("influx")
  /\ UNCHANGED <<topic, client, committed, store, saved, taskVars, bufferVars, sinkVars, bounds>>

\* influxDBWriter.writeAggregatedData; an exception is caught.
WriteInflux ==
  /\ InHand("influx")
  /\ LET u == sending IN
     \/ influx' = [influx EXCEPT ![u.pipeline] =
                     Append(@, [w |-> u.w, value |-> IntValue(Reading(u.pipeline, u.agg))])]
     \/ "influx" \in MayFail /\ UNCHANGED influx
  /\ NextStage("redis")
  /\ UNCHANGED <<topic, activeDevicesMap, client, committed, store, saved, taskVars,
                 bufferVars, redis, output, bounds>>

\* redisCommands.set("<category>-<key - 1>", ...); an exception is caught.
WriteRedis ==
  /\ InHand("redis")
  /\ LET u == sending IN
     \/ redis' = With(redis, <<u.pipeline, u.w[1] - 1>>, [w |-> u.w, agg |-> u.agg])
     \/ "redis" \in MayFail /\ UNCHANGED redis
  /\ NextStage("output")
  /\ UNCHANGED <<topic, activeDevicesMap, client, committed, store, saved, taskVars,
                 bufferVars, influx, output, bounds>>

SendOutput ==
  /\ InHand("output")
  /\ LET u == sending IN
     output' = [output EXCEPT ![u.pipeline] = Append(@, [w |-> u.w, agg |-> u.agg])]
  /\ sending' = Nothing
  /\ UNCHANGED <<topic, activeDevicesMap, client, committed, store, saved, taskVars,
                 bufferVars, influx, redis, bounds>>

\* What Kafka Streams or a serde throws is caught nowhere and shuts the client down as well:
\* a record that does not deserialize, the Schema Registry behind countAndSumSerde, a send
\* to an output topic, the commit.  peek() itself calls none of them.
StreamsFail ==
  /\ "streams" \in MayFail
  /\ client # "dead"
  /\ sending = Nothing \/ InHand("output")
  /\ client' = "dead"
  /\ UNCHANGED <<topic, activeDevicesMap, committed, store, saved, sending, taskVars,
                 bufferVars, sinkVars, bounds>>

-----------------------------------------------------------------------------
(* The operator and the process. *)

\* A request handler's put, atomic by DeviceRegistry's refinement.
Toggle(d, s) ==
  /\ toggles < MaxToggles
  /\ activeDevicesMap[d] \notin {Null, s}
  /\ activeDevicesMap' = [activeDevicesMap EXCEPT ![d] = s]
  /\ toggles' = toggles + 1
  /\ UNCHANGED <<topic, client, committed, store, saved, sending, taskVars, bufferVars,
                 sinkVars, restarts>>

\* What comes back of a table from its changelog: what was there at the last commit or
\* restart, overwritten by those later writes and removals that reached the broker.
Restored(old, new, reached) ==
  [w \in (DOMAIN old \ reached) \cup (DOMAIN new \cap reached) |->
     IF w \in reached THEN new[w] ELSE old[w]]

\* The windows suppress() may have logged since the last commit: it logs its buffer, the
\* removals included, when the pipeline is flushed.
Logged(p) ==
  IF DOMAIN dirty[p] = {} /\ Ready(p) = {} /\ (sending # Nothing => sending.pipeline # p)
  THEN DOMAIN buffer[p] \cup DOMAIN saved[p].buffer ELSE {}

\* A crash, or a stop, and a new process: the map is rebuilt, reading resumes at the
\* committed offsets, and the stores come back from their changelogs.
Restart ==
  /\ restarts < MaxRestarts
  /\ restarts' = restarts + 1
  /\ \E reached \in [Pipelines -> SUBSET UNION {DOMAIN store[p] : p \in Pipelines}] :
       /\ \A p \in Pipelines : reached[p] \subseteq DOMAIN store[p]
       /\ store' = [p \in Pipelines |-> Restored(saved[p].store, store[p], reached[p])]
  /\ \E reached \in [Pipelines -> SUBSET UNION {Logged(p) : p \in Pipelines}] :
       /\ \A p \in Pipelines : reached[p] \subseteq Logged(p)
       /\ buffer' = [p \in Pipelines |-> Restored(saved[p].buffer, buffer[p], reached[p])]
  /\ saved' = [p \in Pipelines |-> [store |-> store'[p], buffer |-> buffer'[p]]]
  /\ agg' = store'
  /\ position' = committed
  /\ accepted' = [p \in Pipelines |-> {o \in accepted[p] : o <= committed[p]}]
  /\ observed' = [p \in Pipelines |-> -1] /\ closing' = observed'
  /\ dirty' = [p \in Pipelines |-> Empty]
  /\ sending' = Nothing
  /\ client' = "running"
  /\ activeDevicesMap' = AllActive
  /\ UNCHANGED <<topic, committed, sinkVars, toggles>>

StreamThread ==
  \/ \E p \in Pipelines : Process(p) \/ FlushWindow(p) \/ EmitClosed(p)
  \/ BeginCommit \/ FinishCommit
  \/ CheckForAlerts \/ Deactivate \/ WriteInflux \/ WriteRedis \/ SendOutput
  \/ StreamsFail

Next ==
  \/ StreamThread
  \/ \E d \in MapKeys, s \in {"ACTIVE", "INACTIVE"} : Toggle(d, s)
  \/ Restart

Spec     == Init /\ [][Next]_vars
FairSpec == Spec /\ WF_vars(StreamThread)
-----------------------------------------------------------------------------
(* Properties. *)

Published(p)   == UNION {output[p][i].agg.from : i \in 1..Len(output[p])}
HeldBack(p)    == UNION {buffer[p][w].from : w \in DOMAIN buffer[p]}
OnItsWay(p)    == IF sending # Nothing /\ sending.pipeline = p THEN sending.agg.from ELSE {}
RecordsIn(p, w) == {o \in accepted[p] : WindowOf(topic[p][o]) = w}

Aggregates == [count : Nat, sum : Int, time : Nat, from : SUBSET Nat]
IsTable(f) == \A w \in DOMAIN f : w \in Keys \X Nat /\ f[w] \in Aggregates

\* Offsets and stream times are ordered as the code relies on: a task never reads past its
\* topic nor commits past what it read, and suppress(), which sees a record only when the
\* cache is flushed, does not run ahead of the aggregator.  After a restart it may: both
\* clocks start anew, and suppress() hears at once of the latest time in a restored window.
TypeOK ==
  /\ client \in {"running", "committing", "dead"}
  /\ activeDevicesMap \in [MapKeys -> {"ACTIVE", "INACTIVE", Null}]
  /\ \A p \in Pipelines :
       /\ position[p] \in 0..Len(topic[p])
       /\ committed[p] \in 0..position[p]
       /\ observed[p] \in Nat \cup {-1}
       /\ closing[p] \in Nat \cup {-1}
       /\ restarts = 0 => closing[p] <= observed[p]
       /\ IsTable(agg[p]) /\ IsTable(store[p]) /\ IsTable(buffer[p])
       /\ DOMAIN dirty[p] \subseteq DOMAIN agg[p]
       /\ accepted[p] \subseteq 1..position[p]

\* The sum of the readings at some offsets.
Total(log, S) == MapThenSumSet(LAMBDA o : log[o].value, S)

\* As long as the process is not restarted, a power window reaches the output topic at
\* most once, and then with the total of every record that was ever folded into it:
\* the window is not let go while a record can still be folded in.
PowerTotalsAreFinal ==
  ("power" \in Pipelines /\ restarts = 0) =>
    \A i \in 1..Len(output["power"]) :
      LET out == output["power"][i] IN
      /\ out.agg.from = RecordsIn("power", out.w)
      /\ out.agg.sum = Total(topic["power"], RecordsIn("power", out.w))
      /\ \A j \in 1..Len(output["power"]) : output["power"][j].w = out.w => j = i

\* As long as the process is not restarted, what is published of a window, average or
\* total, is the exact count and sum of all its records up to some offset: through the
\* cache, the flushes and suppress() none of them is skipped and none counted twice.
ResultsAreExact ==
  restarts = 0 =>
    \A p \in Pipelines : \A i \in 1..Len(output[p]) :
      LET out == output[p][i] IN
      /\ out.agg.count = Cardinality(out.agg.from)
      /\ out.agg.sum = Total(topic[p], out.agg.from)
      /\ \E n \in 0..position[p] : out.agg.from = {o \in RecordsIn(p, out.w) : o <= n}

\* Whatever is counted twice after a crash, an alert for an average is raised only when one
\* of the readings behind it is above the threshold of its level.
AlertHasACause ==
  sending # Nothing /\ ~Suppressing(sending.pipeline) /\ Level # "NONE" =>
    LET p == sending.pipeline
        threshold == IF Level = "WARNING" THEN WarningThreshold[p] ELSE CriticalThreshold[p]
    IN  \E o \in sending.agg.from : topic[p][o].value > threshold

\* As long as the process is not restarted and InfluxDB does not fail, the i-th point it
\* has is of the window published i-th, and is that average without its fraction.
SinksAgree ==
  restarts = 0 /\ "influx" \notin MayFail =>
    \A p \in Pipelines : \A i \in 1..Len(output[p]) :
      /\ i <= Len(influx[p]) /\ influx[p][i].w = output[p][i].w
      /\ LET sum == output[p][i].agg.sum
             n   == IF p = "power" THEN 1 ELSE output[p][i].agg.count
             v   == influx[p][i].value
         IN  IF sum >= 0 THEN v * n <= sum /\ sum < (v + 1) * n
             ELSE (v - 1) * n < sum /\ sum <= v * n

NewestInRedis(p) ==
  \A slot \in DOMAIN redis : \A i \in 1..Len(output[p]) :
    slot[1] = p /\ output[p][i].w[1] = redis[slot].w[1] =>
      Start(output[p][i].w) <= Start(redis[slot].w)

Promise == INSTANCE WindowedAggregation
             WITH taken <- position, contents <- agg, published <- output

\* Caches, commits, suppress() and the two stream times are invisible to who reads the
\* output topics, as long as the process is not restarted: in particular an update that
\* reaches the topic is still what its window holds, and a power window that was published
\* is changed and published no more.
AggregatesAsPromised == Promise!Spec

\* What Redis holds for a sensor is never older than what the pipeline has published
\* for it.
RedisHoldsNewest == \A p \in Pipelines : NewestInRedis(p)

\* As long as the process is not restarted and Redis does not fail, the power total in Redis
\* is never older than a total that was published, in whatever order the windows were
\* changed and flushed.
RedisHoldsNewestTotal ==
  "power" \in Pipelines /\ restarts = 0 /\ "redis" \notin MayFail => NewestInRedis("power")

\* The entry under "<category>-<id>", which GET /redis/latest-measurement answers with
\* for that sensor, is a reading of that sensor.
RedisHoldsOwnSensor ==
  \A slot \in DOMAIN redis : redis[slot].w[1] = slot[2]

\* At least once: when the offset of a record is committed, an aggregate that
\* includes the record has been published, or suppress() still holds it, whatever
\* failed, and whatever was lost, in restarts on the way.
CommittedIsReported ==
  \A p \in Pipelines : \A o \in accepted[p] :
    o <= committed[p] => o \in Published(p) \cup HeldBack(p) \cup OnItsWay(p)

\* An average that includes a record the filters let through is published, as long as
\* the thread runs.
AveragesArePublished ==
  \A p \in Pipelines \ {"power"} : \A o \in 1..MaxLogLength :
    (o \in accepted[p]) ~> (o \in Published(p))

\* A reading above the critical threshold has stopped its device once checkForAlerts is
\* through with it.
CriticalStopsDevice ==
  sending.stage \in {"influx", "redis", "output"} =>
    LET u == sending IN
    Above(Reading(u.pipeline, u.agg), CriticalThreshold[u.pipeline])
      => activeDevicesMap[DeviceKey(u.pipeline, u.w[1])] = "INACTIVE"
=============================================================================

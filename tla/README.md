# A verification of the IIoT data processing system in TLA+

The program reads simulated sensors over Modbus, sends the readings to Kafka, aggregates them
per sensor and time window with Kafka Streams, raises alerts, and publishes the aggregates to
InfluxDB, Redis and Kafka; operators stop and start devices over HTTP. It is a Spring Boot
application (`src/src/main/java`) with a Python generator (`src/custom_images/modbus-client`)
and a Modbus server (`src/virtual_modbus`). This directory holds TLA+ models of its core, the
TLC runs that check them on small instances, and TLAPS proofs of what holds for every instance.

Paths below are relative to the repository; Java classes are named without their package.

## 1. Inventory

| component | state it keeps | operations | talks to |
|---|---|---|---|
| Device registry: the `activeDevicesMap` bean (`AppBeans`), `DevicesAPIController`, `DevicesController` | a `ConcurrentHashMap` from `"<category>-<id>"` to ACTIVE/INACTIVE, in memory | activate, deactivate, isActive, details, three listings; put by the alerts | shared by the producers, the pipelines, the alerts and every request thread |
| Stream pipelines: `ProcessStreamService` | three windowed stores, their record caches, the suppress buffer of power, committed offsets (Kafka Streams keeps them) | filter, aggregate, commit, then per flushed window: alert, InfluxDB, Redis, output topic | reads the input topics and the registry; calls the alerts and the sinks |
| Alerts: `AlertService`, `EmailService` | the thresholds (configuration) | checkForAlerts, sendEmail | writes the registry; called inside the pipelines |
| Modbus chain: `generate_sensor_data.py`, `server_async.py`, `Plc4xProducer` | the holding registers; the poller's response; the records its Kafka producer has yet to get through | write a row, poll, send, transmit | reads the registry, writes the input topics |
| Faker producer: `FakerProducerService` | none | a random record every second | reads the registry, writes the input topics |
| Startup: `StreamingIotApplication`, event listeners, shutdown hook | where the main thread is, the context, readiness | refresh, started and ready events, startup mail, failure, close | the producers run inside a listener |
| Raw feed: `RawDataConsumer`, the websocket, `raw-data.html` | the listener's offsets; the page's sum and count, the chart's labels and values | poll, forward, commit; connect, draw, reload | reads the temperature topic |
| Latest measurement: `RedisController`, `device-details.html` | Redis keys (written by the pipelines); the value the page shows | exists + get, poll every 5 s | reads Redis |
| Devices page: `devices.html`, `custom-table.js` | in each tab the rows as rendered and the table's page, length, search and order; the last of these also in the browser's local storage | open, search, order, change page or length, activate, deactivate | reads and writes the registry |
| `CustomWindowTransformer` | a list of values per key | transform | used by no topology |
| Utilities: `Utils`, `EmptyUtils`, `GenericResponse`, integer-array serdes, `MetricsConfiguration` | none | pure functions, wiring | everything |
| Device database: `DeviceService`, `DeviceRepository`, `DevicesAPIController_v2` | a JPA table | pass-through | nothing else |
| Dead letter topic | a topic nobody writes | none (the handler is not a bean) | - |
| `custom-alert.js`, `chart.js` | none | a function no page includes; a library | - |
| Other pages, configuration, deployment, monitoring | - | - | - |

How they interact. The producers put records on one topic per category; one Kafka Streams client
with one stream thread runs the three topologies and calls the mail server, InfluxDB and Redis
synchronously from `peek()`. The registry is the only state shared by everything: request
threads, the polling thread and the stream thread read and write it with no lock beyond the
atomicity of each map call. Redis connects the pipelines with the pages. The tabs of one browser
share the saved state of the devices table.

What is hard here: check-then-act on the shared map; reads and writes of registers that no one
synchronizes; two stream clocks with a cache between them; a commit that covers three pipelines
and may be cut short by an exception or a crash; records that wait in a producer; late records; external calls that fail one by
one; key conventions (`"power-2"`, `"2"`, `key-1`, register 7 + i) that must agree across files; a
list that goes back to a page of a list that is no longer the same; two scripts that both
initialise one table.

What makes each component correct:
registry - a request takes effect at one instant and what it checked stays true until it acts;
pipelines - no committed record is lost, whatever fails half way, a power total is published
once and whole, an average is republished when it changes, Redis shows the newest value of the
sensor it names; alerts - a critical reading stops its device; Modbus chain - a record
carries the current reading of the sensor it names, and a stopped device falls silent;
Faker - the device checked is the device sent; startup - a process without its poller does not
go on, and what waits for readiness runs; raw feed - a connected page misses nothing and counts
nothing twice without a cause; latest measurement - the endpoint answers as one read, and the
page ends at the newest value when Redis answers in the end; devices page - it shows what was pressed and what was chosen, and
never an empty page of a list that has rows.

## 2. Modules

| module | models | state and actions, against the code |
|---|---|---|
| `RegistryInterface` | the vocabulary of the endpoints | identifiers, statuses, operations, answers |
| `AtomicRegistry` | the abstract promise | `Invoke`, `Effect`, `Return`, `Trip`, `Restart` |
| `DeviceRegistry` | the handlers as they are | one action per map call: `CheckExists`, `CheckAlready`, `Put`, `ReadStatus`, `DeviceDetails`; listings iterate the live map entry by entry; `AlertPut`; `Restart` rebuilds the bean |
| `AlertService` | the alert decision | `AlertLevel` compares in the code's order; `AlertKey` is the key the put uses |
| `WindowedAggregation` | the abstract promise of the pipelines | `Take` a record into its window or drop it, `Publish` a window as it is; a published power window is final |
| `ProcessStream` | the three pipelines | `Process` is a record through the filters and the aggregator; `BeginCommit`, `FlushWindow`, `EmitClosed`, `FinishCommit` are a commit; `CheckForAlerts`, `Deactivate`, `WriteInflux`, `WriteRedis`, `SendOutput` are the calls of `peek()` and `to()`, `StreamsFail` an exception of Kafka Streams or a serde; `Toggle`, `Restart` |
| `ModbusPolling` | generator, registers, poller, the poller's Kafka producer | `NextRow`, `WriteRegister`; `StartPoll`, `ReadItem`, `Respond`, `PollFails`, `CheckStatus`, `Send`, `SendFails`, `FinishPoll`; `Transmit` is an attempt of the producer's own thread at one record (`Attempt`): it arrives, or it may have arrived and is tried again or given up; `Toggle` |
| `Startup` | the process: main thread, listeners, faker's timer, SIGTERM, around the poller of `ModbusPolling` | `Refresh`, `Generate`, `ReadModbus`, `PollStep`, `Ready`, `HandleRunFailure` are `SpringApplication.run`; `FakerFails`; `Terminate` is SIGTERM and the shutdown hook that closes the context |
| `LivePages` | the two live pages and what feeds them | `UpdateLatestMeasurement`, `Exists`, `Get`, `Success` are one request of the device page, `Fails` one whose call to Redis throws; `PollRecords`, `Consume`, `CommitBatch` the Kafka listener; `Connect`, `Draw`, `Disconnect`, `Reload` the raw data page; `Restart` |
| `DevicesPage` | the devices page in several tabs of a browser | `DetailedOptions`, `SimpleOptions`, `InlineOptions` are the three scripts' tables and `Options` the one that counts; `Open`, `GetActiveDevices`, `RenderRow`, `Ready` a load of the page; `Search`, `Order`, `PageLength`, `NextPage`, `PreviousPage` the operator and the list; `Press`, `HandleForm` a form; `AlertPut`, `Expire`, `Restart` |
| `MC_*` | instances for TLC | constants of the runs |
| `DeviceRegistry_proofs`, `ProcessStream_proofs`, `Aggregation_proofs`, `Totals_proofs`, `Results_proofs`, `Startup_proofs`, `LivePages_proofs`, `DevicesPage_proofs` | the theorems | section 6 |

`ProcessStream` extends `AlertService`, and `Startup` extends `ModbusPolling`: the poller is the
main thread, so its steps are `PollStep` and its end is the end of `run`. `ProcessStream`,
`ModbusPolling` and `DevicesPage` use the put of a handler as one atomic step (`Toggle`,
`HandleForm`); that this is sound is what the refinement of `DeviceRegistry` establishes.
Operators named `X_Something` next to an `X`, with a comment that says "Mutated form", are
deliberately wrong variants that show a property can fail; no specification uses them.

Abstractions. A reading is a number; an average is the pair of its sum and count (floating
point is not modelled); messages, mails and formats are left out. One partition per topic: a
key lives in one partition, and sharing it with other keys is the harder case. Kafka, Kafka
Streams, PLC4X and pymodbus are not in the repository; they are modelled from how the code uses
them (at-least-once processing, the default, since no configuration file changes it; commit =
flush caches, push updates downstream, commit offsets; an uncaught exception shuts the client
down; unsigned 16-bit registers written, signed 16-bit read; PLC4X numbers registers from 1). Spring
Boot is modelled the same way: a failed run closes the context, the ready event follows the last
listener of the started one, a Kafka listener commits after each batch, the simple broker sends
from a pool of threads and so in any order. DataTables is modelled from the options the scripts
give it: a table is initialised once and later options are dropped with a warning; every draw
saves page, length, search and order in the local storage, which all tabs share and which forgets
them after two hours; a saved page beyond the rows becomes the first; everything but paging goes
back to the first page. Which rows the order puts on a page is left open, as no property is about
it, and the columns' visibility and the exports are left out.
`ProcessStream` takes a record that was sent to an output topic to be there: Kafka Streams flushes
its producer before it commits, but after a crash between the two the changelogs may be ahead of
the commit (`Restored`), and that the broker then has the update it was removed from
`suppress()` for is assumed. InfluxDB is a list of points: that a point with the same tags and the
same millisecond overwrites another is left out. A null key on the raw data page, on which its
callback throws (raw-data.html:82), is not among the records of `LivePages`. The exit of the JVM
is not modelled: after the context is closed, the threads that nothing stops go on.
In `ProcessStream` each window carries, as a history variable, the offsets folded into it
(`from`), and `accepted` the offsets the filters let through; the properties are about them.

## 3. Runs

All properties were also checked to fail on a plausible bug (the mutated forms).

| run | instance | shows |
|---|---|---|
| `registry_api` | 2 devices, 1 alert key, 1 unknown id, 2 requests, all operations, restarts | `CheckedStaysMapped`: no interleaving invalidates an existence check. `ListingComplete`: a listing shows every device. `TakesEffectAtomically`: the handlers refine `AtomicRegistry`, with the one weakening `Races` names: a REST toggle can be told "activated" when another request got there first. |
| `stream_results` | all topics of 4 power records of one key with times 0..3, of 3 power records of two values or of two keys, and of 3 temperature records with null and unknown keys and null values; commits anywhere; 1 toggle; weak fairness of the stream thread | `AggregatesAsPromised`: the pipelines refine `WindowedAggregation`, so caches, commits and `suppress()` cannot be seen in the output. `PowerTotalsAreFinal`: a window is published once, with every accepted record. `ResultsAreExact`: each published count and sum is that of the window's records up to some offset. `SinksAgree`: InfluxDB has the same results in the same order, without the fraction. `RedisHoldsNewestTotal`: totals reach Redis oldest first, unlike averages. `AveragesArePublished`: an accepted record reaches a published average. |
| `stream_faults` | temperature and power in one client, two records of one window in one pipeline and in the other a second record that closes the window of the first, all three services may refuse and Kafka Streams may fail, crash and restart anywhere, with changelogs ahead of the commit | `CommittedIsReported`: a mail that is refused, or an exception of Kafka Streams, ends a flush half way, and no record is lost by it. `AlertHasACause`: a crash counts records twice, and still no average raises an alert unless one of its readings is above the threshold. `TypeOK` orders offsets and stream times. |
| `startup_polling` | pressure 3 and power 1, a reading of 40000, failing writes, items, polls, sends and connections, one record of each sensor in the producer and one retry, toggles, SIGTERM, the shipped configuration and the 8 without the poller | `PressureAndPowerAreOwn`. `AtMostOneAfterStop`: the poller hands over one record of a stopped device and no second; `StoppedFallsSilent`: what waits in the producer then arrives or is given up, and the topic hears no more of the device. `ReadyIsNotPolling`: readiness waits for the poller, for ever. `DeadPollerClosesContext`: a poller that dies, however late, takes the web server and the pipelines with it. `TypeOK`: 16 bits at each end, signed at one of them. |
| `live_pages` | 2 requests under way, 2 writes, 2 records, 1 restart, 1 rebalance; calls to Redis fail, connections break and pages reload at will | `AnswerIsCurrent`: `exists` and `get` answer as one read. `PageCatchesUp`: answers overtake each other and requests fail, but once the value stays and no call fails any more, the newest value is what stays. `NothingMissing`, `DuplicatesNeedRebalance`: what counts in the raw page's average. |
| `devices_page` | 2 tabs, 2 devices and a bare alert id, page lengths 1 and 2, two orders; 5 moves of the operator, 1 restart, alerts and expiry at will | `NoEmptyPage`, `PagesAligned`: the page a tab comes back to is a page of the list it has. `OwnPressIsShown`: nobody sees the status from before his own press. `ChoiceIsKept`: search, order and length stay as chosen. `TypeOK`: no row without a status. |
| `alert_shipped`, `redis_sensor`, `redis_latest`, `modbus_temperature`, `modbus_negative`, `startup_mail` | small instances of the same modules | each finds the violation section 4 describes |

Bounds and why they are enough. Two requests are the fewest that race, and the handlers share
nothing but one entry of the map, so a third adds no new kind of interleaving (the proofs cover
any number). Windows have length 1 and grace 1: a record is in time, late within the grace, or too
late, and the last time closes the first window; four records let a window be filled, flushed,
changed again by a late record, and closed by a newer one. In `stream_faults` windows have length
2, so that two records of a window differ in time. `MaxToggles` and `MaxRestarts` bound what the
environment does; `MaxLogLength` only bounds the quantifier of `AveragesArePublished`. In
`live_pages` two requests are enough to overtake each other, two writes to tell a stale answer,
and two records, in one batch or two, to be forwarded out of order and again. In `devices_page`
the lengths 1 and 2 stand for the menu's 5, 7, 10 and 25, 1 being also the 5 of the simple tables
and 2 the 7 of the page's own script: three rows (the third is the bare id an alert may
put) make up to three pages, and two tabs are enough to leave each other a page that the other
does not have; `MaxMoves` counts what the operator does. The pressure and power sensors of
`startup_polling` are the ones where the two address maps meet; one reading is enough, since a
register and a record know the sensors they come from, and 40000 is one that a Short cannot hold.
`Retries` (3 as shipped) and `MaxQueued` (for `buffer-memory`) are 1: a record can be tried again
and given up, and wait while the poller wants to hand over the next. The stream runs, `live_pages` and
`devices_page` do not check for deadlock: with its topic read, the stream thread really waits, a
dead client stays dead, and a page may have nothing to draw or nobody to use it. The Modbus and
registry runs do check it.

Symmetry is used for the devices and the requests of `registry_api`, and for the tabs and the
devices of `devices_page`, whose properties do not
tell them apart; the property of `registry_api` beyond invariants is the safety formula
`TakesEffectAtomically`, for which it is sound.

Fairness. `FairSpec` assumes weak fairness of the stream thread as a whole, which is what a
running thread is: it polls, processes and commits in a loop with a commit interval.
`FairStartup`, for `startup_mail`, lets the main thread run. That lets a read end, which
`execute().get()`, having no timeout, does not promise, but the mail is not sent even so.
`FairEndings`, for `startup_polling`, assumes less: an exception that has left `run` is handled, and
the producer's thread goes on with every partition it has records for, where each attempt
may be the one that fails; nothing is assumed of the poller. In `LivePages` the page's interval
fires and the process answers each request that reaches it, or lets it fail; nothing is assumed
of the order of answers, of the raw data page, of the listener, or that a process restarts.
No fairness makes an external call succeed: where a property needs that in the end, its premise
says so (`RedisAnswers` in `PageCatchesUp`, and `MayFail` is empty where `AveragesArePublished` is
checked).

## 4. Findings

1. `redis_sensor` - the pipelines set `"<category>-<key-1>"` (ProcessStreamService.java:134,
   188, 243) and the endpoint and the device page ask for the sensor's own id: sensor 1 shows
   sensor 2's value and the last sensor has none.
2. `redis_latest` - a record that is late within the grace changes an older window after a newer
   one; the cache flushes windows in the order of their last change, so the old value is
   written last. Power is not affected: `suppress()` lets windows go oldest first.
3. `alert_shipped` - the WARNING comparison comes first, so with WARNING below CRITICAL, as
   shipped, CRITICAL is never raised and no device is ever stopped (AlertService.java:54-58;
   proved for every such pair of thresholds). With the thresholds reversed CRITICAL is raised,
   mailed with "Device is now Inactive" (line 89), and the put goes to the bare id, a key no
   reader uses: theorem `AlertNeverStopsADevice`.
4. `modbus_temperature` - the generator writes temperature i at address 7 + i
   (generate_sensor_data.py:120), the poller reads 6 + i (Plc4xProducer.java:85-88): temperature
   1 reports a register no one writes, the others report their neighbour's reading.
5. `modbus_negative` - a negative reading raises in `write_register` and the exception is
   swallowed; the register keeps an earlier reading, which is polled as current. The same
   `except` swallows a connection that fails, and an error response is not looked at: then the
   register keeps its value whatever the reading was.
6. `startup_mail` - "send email on startup" waits for `ApplicationReadyEvent` (AppBeans.java:138),
   which Spring Boot publishes after every listener of `ApplicationStartedEvent` has returned; the
   polling loop is such a listener and never returns (Plc4xProducer.java:59, 93). With the shipped
   configuration the mail is never sent and the application never reports itself ready.

## 5. Not covered, and why

Behaviours that are in the models and that no property calls an error, because nothing in the
repository promises otherwise: a restart forgets deactivations; after a restart `suppress()` may
let a power window go before the aggregator's grace is over (a restored window brings its latest
time with it); the last window of a power sensor waits for a later record; after a crash a sum may
count a record twice and alerts may repeat (but see `AlertHasACause`); a record is kept or dropped by the status at
processing time; a reading above 32767 arrives negative; a record the Kafka producer gives up is lost without a
word; a send that throws cancels the faker's timer without a word; the raw data page
does not connect again; a search for ACTIVE on the devices page finds INACTIVE as well, and every
load of that page warns that its table is initialised twice. Not modelled yet: the components of
the plan below, and with them the ids the faker draws: its records are among those any producer
may send in `ProcessStream`. Not planned: the device database (pass-through, connected to
nothing), the dead letter topic (never written), pages without logic, property holders and
framework configuration, deployment and dashboards.

## 6. Proofs

Checked by TLAPS with Z3, Zenon and LS4. Besides what a theorem itself states, it rests on the
`ASSUME`s about the constants, which the runs evaluate: thresholds are integers
(`ThresholdsAssumption`), the pipelines are among the three categories (`PipelinesAssumption`), the
values of a topic are integers or null and its times natural numbers (`LogsAssumption`), a window
has a length (`WindowAssumption`), the producer's retries and room are numbers
(`ProducerAssumption`), the sensors are among the ten and readings are integers
(`SensorsAssumption`), the lengths of the menu are positive and the scripts' lengths are among them (`MenuAssumption`), the devices are
finitely many and none is a bare id (`KeysAssumption`), the default order is one of the orders
(`OrderAssumption`), a missing key's answer is no number (`NamesAssumption`), bounds are numbers.

`DeviceRegistry_proofs`, for all sets of devices, ids, requests and operations:
- `TypeCorrect`: `Spec => []TypeOK`. `TypeOK` is inductive: each action decides one request's
  locals, and `HandlerStep`, `GotoLine` and `AnswerType` say what that does to `req`.
- `CheckedDevicesStay`: `Spec => []CheckedStaysMapped`, by the invariant `TypeOK /\
  CheckedStaysMapped`. The one fact behind it is `MapOnlyGrows`: no action takes an id out of
  the map within a process, and a restart ends the requests with the map.
- `ListingsAreComplete`: `Spec => []ListingComplete`. A device is mapped throughout, so a listing
  under way has either visited it or has it among the entries still to visit (`ListInv`).
- `Refinement`: `Spec => TakesEffectAtomically`, for operations among the six and `Races`, or
  no REST toggle. `callBar` shows a request as pending until the read or put that decides its
  answer. `GotoStutters` covers the handlers' moves, `AnswerTakesEffect` and `ReadTakesEffect`
  the deciding steps. The invariant is needed at `Put`: it puts on an id that is still mapped.

`ProcessStream_proofs`, for all pipelines, topics, thresholds, window sizes and bounds:
- `TypeCorrect`: `Spec => []TypeOK`. The invariant adds the saved tables and the update on its way,
  and, for a process that was not restarted, that no window is newer than what the aggregator has
  seen: this is what keeps `suppress()`, which takes its time from the windows, behind it.
- `CriticalIsNeverRaised`: arithmetic on the two thresholds.
- `AlertNeverStopsADevice`: an action property; it needs that every device stays in the map.
- `CommittedReported`: `Spec => []CommittedIsReported`. The property is not inductive: a restart
  throws away the running state, so one has to know what the changelogs hold. `IInv` adds
  that every accepted record is published, held back, on its way, or in a changed window not
  yet flushed (`AllCovered`); that stores only grow along the chain saved store, store, cache
  (`Nested`) and each window keeps to its own records (`OwnRecords`, `Folded`), so overwriting a
  buffered window or restoring one of several versions loses nothing; and that what is committed is
  published or in the saved buffer (`CommittedCovered`). `RestartFacts` says what comes back of
  a table of which any part of the later writes and removals was logged, and `RestartKeeps` that
  a window whose removal was logged is published. One lemma per action; the steps that touch
  none of this share `QuietStep`.
- `AlertsHaveACause`: `Spec => []AlertHasACause`, restarts included. After a crash neither count nor
  sum are those of the records, so the invariant says less and survives: an average lies between
  two readings of its own records (`Among`), in every table, saved or not (`AverageInv`); a reading
  that is folded in, again or for the first time, keeps it so (`OneMore`).

`Aggregation_proofs`, for the same, as long as the process is not restarted:
- `PromiseKept`: `Spec => ([](restarts = 0) => AggregatesAsPromised)`. A power window is closed by
  one clock and accepts records by another, ahead of it by what the cache holds. `SealInv` says
  what makes that safe: a window still to be flushed is closed neither by what `suppress()` has
  seen nor by the windows that are flushed before it (`DirtyIsOpen`), what `suppress()` holds is
  what the window holds but for unflushed changes (`BufferIsCurrent`), and what it let go is closed
  and older than what it holds of that sensor (`EmittedIsClosed`). Then `Process` is `Take`,
  `SendOutput` is `Publish`, and every other step a stutter.
- `RedisTotalIsNewest`: `Spec => []RedisHoldsNewestTotal`, from `SealInv` and the order in which an
  update is written to Redis and to the topic.

`Totals_proofs`: the sum over a finite set of offsets, `Total`, is a fold that the community module
defines by a recursive function chosen over all subsets. `TotalStep` shows that the functions
chosen for a set and for its subsets agree, by induction over finite sets written with
`FS_StrictSubsetOrderingWellFounded` and an explicit set of counterexamples (`SetInduction`), so
that no operator is a parameter. `TotalAdded` and `TotalRemoved`, which hold whatever element the
fold picks first, are what the other proofs cite.

`Results_proofs`, for all pipelines, topics, window sizes and failures, until a restart:
- `ExactResults`: `Spec => []ResultsAreExact`. `ExactInv` says of every window that its `from` are
  the accepted records of that window, its count their number and its sum their `Total`, and of
  every published result the same up to the offset at which it was flushed, or, for power, let go.
- `PowerTotalsFinal`: `Spec => []PowerTotalsAreFinal`, from the same invariant and `SealInv`: what
  was published of a power window is still what the window holds, and is published only once.
- `SinksInStep`: `Spec => []SinksAgree`. `InfluxInv` keeps the points one ahead of the topic exactly
  between the two calls; `PositiveInv` says that an average has something to be divided by, and
  `Truncation` what the conversion to an integer does to either sign.
- `OrderedResultsAreNewest`: for topics that have each sensor's records in the order of their times
  (`InOrder`), and a Redis that does not fail, `RedisHoldsNewest` holds, averages included: what
  finding 2 needs is a late record, or a `set` that fails. `OrderInv` says that a window waits to be flushed at the
  place of one of its records, and that what was sent is not newer than what still waits.

`Startup_proofs`, for all sensors, readings and configurations:
- `PollingIsNeverReady`: `StartupSpec => []ReadyIsNotPolling`. The invariant adds where the
  poller's listener can be (`PollerComesFirst`): with the poller configured, the main thread is
  past the listeners only by failing, because the one that polls never returns normally.
- `TypeCorrect`: `StartupSpec => []TypeOK`, with what the poller has read and chosen (`Reads`).
- `PressureAndPower`: `StartupSpec => []PressureAndPowerAreOwn`. The two address maps agree on the
  pressure and power sensors and keep them apart from every other (`Registers`), so a register,
  what was read of it and what was sent all come from the sensor itself (`CarriedInv`).
- `TemperatureIsShifted`: what finding 4 says, for every run. By the same invariant a temperature
  record carries the reading of the sensor with the number before, never its own, and that of
  sensor 1 none at all.
- `RegistersKeepUp`: with readings that fit a register, and no call that fails, `StartupSpec =>
  []RegistersAreCurrent`: what finding 5 needs is one of the two. `RowInv` says that what is written
  of a row is in its registers, and that no later write of the row undoes it.
- `DeadPollerIsHeard`: the safety half of `DeadPollerClosesContext`. Once a poll has failed the main
  thread can only fail, and it does not end before the context is closed.
- `OneMoreIsHandedOver`: `StartupSpec => []AtMostOneAfterStop`, about the calls of `send()`.
  `SilentInv` adds that once a record was handed over after the stop, the device is still INACTIVE
  and no other record of it has passed the status check; a send needs one that has. What the
  producer still has by then is the subject of `StoppedFallsSilent`.

`LivePages_proofs`, for all numbers of requests, writes, records, restarts and rebalances:
- `AnswersAreCurrent`: `Spec => []AnswerIsCurrent`. `DeviceInv` knows for each request that Redis
  is no older than when it was asked, and that past the existence check there is a value.
- `NothingIsMissing` and `DuplicatesNeedARebalance`. `ListenerInv` orders committed offset,
  position, end of batch and end of topic. `CountInv` counts the copies of a record that a
  connected page has, drawn or under way: at most one for each rebalance and one more once the
  listener is past it, and at least one if it passed while the page was subscribed. The case of
  interest is a restart: the listener goes back without a rebalance, but the connection is lost
  with it, and a page that connects again starts from nothing.

`DevicesPage_proofs`, for all tabs, devices, menus of lengths, orders and bounds:
- `TypeCorrect`: `Spec => []TypeOK`, inductive.
- `PagesHaveRows`: `Spec => []NoEmptyPage`, by the types and the definitions of `Restore`,
  `NextPage` and the moves that go back to the first page: the rows of a shown page do not change.
- `PagesStartRight`: `Spec => []PagesAligned`, by the same of the saved state (`SavedAligned`).
- `PressIsShown`: `Spec => []OwnPressIsShown`. `PressesHold` follows a press through the put, the
  request and the rendering: a row not yet visited will be read from a map that has the status.
- `ChoiceStays`: `Spec => []ChoiceIsKept`. `ChoiceInv` says that the saved state and the views of
  the sharing tabs agree with the last choice.

Only model-checked, because they rest on fairness, which is out of the prover's reach:
`AveragesArePublished`, `DeadPollerClosesContext`, `StoppedFallsSilent` and `PageCatchesUp`. Every invariant, action
property and refinement that a passing run checks is a theorem. Of the violated properties of
section 4, `RedisHoldsNewest`, `TemperatureIsOwn`, `RegistersAreCurrent` and `CriticalStopsDevice`
have a theorem that says what holds instead, or on what condition they hold (`OrderedResultsAreNewest`,
`TemperatureIsShifted`, `RegistersKeepUp`, `CriticalIsNeverRaised` with `AlertNeverStopsADevice`);
`RedisHoldsOwnSensor` and `StartupMailIsSent` are shown violated and no more, though
`PollingIsNeverReady` proves that while the poller polls the mail is not sent.

## 7. Plan

In order:
1. `FakerProducer`, composed with the registry: the id whose status is checked is not the id
   that is sent, and 0 and the swapped counts are among the ids.
2. The raw data page's chart: labels shared by all keys against values per key.
3. The operators: `Utils`, `EmptyUtils`, `GenericResponse`, the integer-array serdes,
   `CustomWindowTransformer`, `MetricsConfiguration`, each against a reference definition over
   bounded inputs, in one run.
4. A composition of registry, poller and pipelines: what a deactivation achieves end to end,
   and what it does not when there are two processes.

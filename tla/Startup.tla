------------------------------ MODULE Startup ------------------------------
(***************************************************************************)
(* The life of the process: SpringApplication.run on the main thread, the  *)
(* listeners of its events, the faker's timer, and SIGTERM.                *)
(* Plc4xProducer polls inside a listener of ApplicationStartedEvent, so    *)
(* the poller of ModbusPolling is the main thread, and what throws in it   *)
(* throws in SpringApplication.run.                                        *)
(*                                                                         *)
(* Spring Boot is not in the repository: a failure of run closes the       *)
(* context; the ready event is published after every listener of the       *)
(* started event has returned.  The exit of the JVM is not modelled: after *)
(* the context is closed the other threads go on, as they do until then.   *)
(***************************************************************************)
EXTENDS ModbusPolling

CONSTANTS
  Configs   \* the configurations: [plc4xProducer, fakerProducer, fakeProducer, email]

VARIABLES
  config,     \* the configuration of this process
  main,       \* where the main thread is
  listeners,  \* listeners of ApplicationStartedEvent not called yet
  context,    \* the application context, with the web server and the pipelines
  faker,      \* the faker's Flux.interval
  ready       \* whether the application accepts traffic, and its startup mail

modbusVars  == <<genVars, registers, activeDevicesMap, poll, queued, topic, sentStopped>>
processVars == <<config, main, listeners, context, faker, ready>>
startupVars == <<modbusVars, processVars>>

\* The producers are beans only when their property is set; the faker's condition reads
\* fakerProducer.enabled, the field that generate() tests fakeProducer.enabled.
StartedListeners(c) ==
  (IF c.plc4xProducer THEN {"readModbus"} ELSE {}) \cup
  (IF c.fakerProducer THEN {"generate"} ELSE {})

StartupInit ==
  /\ Init
  /\ config \in Configs
  /\ main = "refreshing" /\ context = "new"
  /\ listeners = {}
  /\ faker = "off"
  /\ ready = [accepting |-> FALSE, mailed |-> FALSE]

-----------------------------------------------------------------------------
(* The main thread. *)

\* The beans are made and started; RedisConfig connects while it is made, and throws
\* when there is no server.
Refresh ==
  /\ main = "refreshing"
  /\ \/ main' = "started" /\ context' = "open" /\ listeners' = StartedListeners(config)
     \/ Fragile /\ main' = "failed" /\ UNCHANGED <<context, listeners>>
  /\ UNCHANGED <<modbusVars, config, faker, ready>>

\* generate(): the timer runs on a thread of its own and the listener returns.
Generate ==
  /\ main = "started" /\ "generate" \in listeners
  /\ listeners' = listeners \ {"generate"}
  /\ faker' = IF config.fakeProducer THEN "ticking" ELSE "off"
  /\ UNCHANGED <<modbusVars, config, main, context, ready>>

\* readModbus(): connect, then poll for as long as nothing throws.
ReadModbus ==
  /\ main = "started" /\ "readModbus" \in listeners
  /\ listeners' = listeners \ {"readModbus"}
  /\ \/ main' = "polling"
     \/ Fragile /\ main' = "failed"
  /\ UNCHANGED <<modbusVars, config, context, faker, ready>>

\* Mutated form: the catch clause of readModbus logs and returns.
PollStep_Swallowed ==
  /\ main = "polling"
  /\ Poller
  /\ main' = IF poll'.at = "failed" THEN "started" ELSE main
  /\ UNCHANGED <<config, listeners, context, faker, ready>>

\* A step of the poller; readModbus rethrows what ends it.
PollStep ==
  /\ main = "polling"
  /\ Poller
  /\ main' = IF poll'.at = "failed" THEN "failed" ELSE main
  /\ UNCHANGED <<config, listeners, context, faker, ready>>

\* Mutated form: the ready event does not wait for the listeners of the started one.
Ready_AtOnce ==
  /\ main \in {"started", "polling"} /\ ~ready.accepting
  /\ ready' = [accepting |-> TRUE, mailed |-> config.email]
  /\ UNCHANGED <<modbusVars, config, main, listeners, context, faker>>

\* ApplicationReadyEvent: the startup mail, whose exception fails the run.
Ready ==
  /\ main = "started" /\ listeners = {}
  /\ \/ /\ main' = "returned"
        /\ ready' = [accepting |-> TRUE, mailed |-> config.email]
     \/ Fragile /\ config.email /\ main' = "failed" /\ UNCHANGED ready
  /\ UNCHANGED <<modbusVars, config, listeners, context, faker>>

\* The exception that left run closes the context and ends the main thread.
HandleRunFailure ==
  /\ main = "failed"
  /\ main' = "ended" /\ context' = "closed"
  /\ UNCHANGED <<modbusVars, config, listeners, faker, ready>>

MainThread ==
  \/ Refresh \/ Generate \/ ReadModbus \/ PollStep \/ Ready \/ HandleRunFailure

-----------------------------------------------------------------------------
(* The other threads. *)

\* A tick of the faker throws (a send that times out): the subscription is cancelled and
\* no one is told.  A tick that sends or skips changes nothing here.
FakerFails ==
  /\ Fragile
  /\ faker = "ticking"
  /\ faker' = "cancelled"
  /\ UNCHANGED <<modbusVars, config, main, listeners, context, ready>>

\* SIGTERM: the shutdown hook closes the context, once a refresh under way is over.
Terminate ==
  /\ context = "open"
  /\ context' = "closed"
  /\ UNCHANGED <<modbusVars, config, main, listeners, faker, ready>>

StartupNext ==
  \/ MainThread
  \/ FakerFails \/ Terminate
  \/ Generator /\ UNCHANGED processVars
  \/ (\E s \in Sensors : Transmit(s)) /\ UNCHANGED processVars
  \/ context = "open" /\ (\E s \in Sensors : Toggle(s)) /\ UNCHANGED processVars

StartupSpec == StartupInit /\ [][StartupNext]_startupVars

\* The main thread runs.
FairStartup == StartupSpec /\ WF_startupVars(MainThread)

\* Only what ends on its own: an exception that has left run is handled, and the producer's
\* thread serves every partition it has records for.
FairEndings ==
  /\ StartupSpec
  /\ WF_main(HandleRunFailure)
  /\ \A s \in Sensors : WF_queued(Transmit(s))

-----------------------------------------------------------------------------
(* Properties. *)

\* The web server and the pipelines never go on without the poller they were configured
\* with: when a poll ends in an exception, however late, the context is closed.
DeadPollerClosesContext == (poll.at = "failed") ~> (context = "closed")

\* While the process polls Modbus it is not ready: it neither accepts traffic nor has it
\* mailed, and once it is ready nothing polls.
ReadyIsNotPolling ==
  ready.accepting \/ ready.mailed => main = "returned" /\ ~config.plc4xProducer

\* An enabled startup mail is sent when the application has started, unless something
\* fails or stops it first.
StartupMailIsSent ==
  (main = "started" /\ config.email) ~> (ready.mailed \/ context = "closed")
=============================================================================

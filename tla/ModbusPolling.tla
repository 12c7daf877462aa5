---------------------------- MODULE ModbusPolling ----------------------------
(***************************************************************************)
(* From the simulated sensors to the Kafka input topics: the generator     *)
(* (generate_sensor_data.py) writes a row of readings into the registers   *)
(* of the Modbus server, one register at a time, while Plc4xProducer polls *)
(* the registers it is configured for and sends what it read, for devices  *)
(* that are ACTIVE.  Nothing synchronizes the two loops, nor the operator. *)
(* send() only hands a record to the Kafka producer, whose own thread      *)
(* transmits it later, again when it gets no acknowledgement, and gives it *)
(* up without a word after so many attempts.                               *)
(*                                                                         *)
(* A register holds [from, value]: the 16-bit word, and, as history, the   *)
(* sensors it came from: one, or none before the first write.              *)
(***************************************************************************)
EXTENDS Integers, FiniteSets, SequencesExt

CONSTANTS
  Sensors,    \* the sensors in play, a subset of AllSensors
  Readings,   \* what a sensor may measure: integers, after int(...)
  Fragile,    \* TRUE when calls to the Modbus server and to the broker may fail
  Retries,    \* the producer's retries
  MaxQueued   \* bound: records of a sensor in the producer, for its buffer-memory

AllSensors == ({"pressure", "power"} \X (1..3)) \cup ({"temperature"} \X (1..4))
ASSUME SensorsAssumption == Sensors \subseteq AllSensors /\ \A v \in Readings : v \in Int
ASSUME ProducerAssumption == Retries \in Nat /\ MaxQueued \in Nat \ {0}

VARIABLES
  current,           \* current[s]: the reading of s in the generator's row
  unwritten,         \* the sensors of the row still to be written
  registers,         \* the server's holding registers, by protocol address
  activeDevicesMap,  \* the status of each sensor's device, Null when none is configured
  poll,              \* the poller: [at, got, chosen]
  queued,            \* queued[s]: what the producer has yet to get through, [record, attempts]
  topic,             \* topic[s]: the latest record to arrive with the key of s, or None
  sentStopped        \* history: send() calls for s since its device was last toggled, if INACTIVE

genVars == <<current, unwritten>>
vars == <<genVars, registers, activeDevicesMap, poll, queued, topic, sentStopped>>

Null      == "null"
None      == [from |-> {}, value |-> 0]
Unwritten == [from |-> {}, value |-> 17]   \* what the server fills its registers with

NoPoll(at) == [at |-> at, got |-> [s \in {} |-> None], chosen |-> {}]

-----------------------------------------------------------------------------
(* Addresses.  Registers are numbered from 1 in PLC4X and from 0 on the wire. *)

temp_sensors  == 4
power_sensors == 3

\* Mutated form of WriteAddress: the power sensors start where the last pressure sensor is.
WriteAddress_Overlapping(s) ==
  CASE s[1] = "pressure"    -> s[2]
    [] s[1] = "power"       -> 2 + s[2]
    [] s[1] = "temperature" -> temp_sensors + power_sensors + s[2]

\* Where the generator writes the reading of a sensor.
WriteAddress(s) ==
  CASE s[1] = "pressure"    -> s[2]
    [] s[1] = "power"       -> power_sensors + s[2]
    [] s[1] = "temperature" -> temp_sensors + power_sensors + s[2]

\* The holding register of the read request's item of a sensor.
HoldingRegister(s) ==
  CASE s[1] = "pressure"    -> 1 + s[2]
    [] s[1] = "power"       -> 4 + s[2]
    [] s[1] = "temperature" -> 7 + s[2]

ProtocolAddress(register) == register - 1

\* The order of the write_register calls of one row: pressure and power of each number in
\* turn, then the temperatures.
WrittenBefore(s, t) ==
  \/ s[1] # "temperature" /\ t[1] = "temperature"
  \/ (s[1] = "temperature") = (t[1] = "temperature") /\ s[2] < t[2]
  \/ s[2] = t[2] /\ s[1] = "pressure" /\ t[1] = "power"

\* The 16-bit integers.
SignBit  == 32768
Unsigned == 0..(2 * SignBit - 1)
Signed   == -SignBit..(SignBit - 1)

\* write_register packs its value into an unsigned 16-bit word; the read gives it back as
\* a Short.
FitsRegister(v) == v \in Unsigned
Short_Unsigned(word) == word   \* Mutated form: the word is read as it was written
Short(word)     == IF word < SignBit THEN word ELSE word - 2 * SignBit

Init ==
  /\ current \in [Sensors -> Readings]
  /\ unwritten = Sensors
  /\ registers = [a \in 1..11 |-> Unwritten]
  /\ activeDevicesMap \in [Sensors -> {"ACTIVE", Null}]
  /\ poll = NoPoll("sleeping")
  /\ queued = [s \in Sensors |-> <<>>]
  /\ topic = [s \in Sensors |-> None]
  /\ sentStopped = [s \in Sensors |-> 0]

-----------------------------------------------------------------------------
(* The generator. *)

NextRow ==
  /\ unwritten = {}
  /\ current' \in [Sensors -> Readings]
  /\ unwritten' = Sensors
  /\ UNCHANGED <<registers, activeDevicesMap, poll, queued, topic, sentStopped>>

\* A value that does not fit raises, as does a server that does not answer; the exception
\* is swallowed, an error response is not looked at, and the loop goes on.
WriteRegister ==
  \E s \in unwritten :
    /\ \A t \in unwritten \ {s} : WrittenBefore(s, t)
    /\ unwritten' = unwritten \ {s}
    /\ \/ /\ FitsRegister(current[s])
          /\ registers' = [registers EXCEPT
                             ![WriteAddress(s)] = [from |-> {s}, value |-> current[s]]]
       \/ (Fragile \/ ~FitsRegister(current[s])) /\ UNCHANGED registers
    /\ UNCHANGED <<current, activeDevicesMap, poll, queued, topic, sentStopped>>

-----------------------------------------------------------------------------
(* The poller: one thread, reading then processing. *)

Keep(got, s, item) == [x \in DOMAIN got \cup {s} |-> IF x = s THEN item ELSE got[x]]
Forget(got, s)     == [x \in DOMAIN got \ {s} |-> got[x]]

StartPoll ==
  /\ poll.at = "sleeping"
  /\ poll' = [poll EXCEPT !.at = "reading"]
  /\ UNCHANGED <<genVars, registers, activeDevicesMap, queued, topic, sentStopped>>

\* One item of the request.  An item may come back with a code other than OK: it is
\* logged, and left out of what is processed.
ReadItem(s) ==
  /\ poll.at = "reading"
  /\ s \notin poll.chosen
  /\ \/ poll' = [poll EXCEPT
          !.chosen = @ \cup {s},
          !.got = Keep(@, s, registers[ProtocolAddress(HoldingRegister(s))])]
     \/ Fragile /\ poll' = [poll EXCEPT !.chosen = @ \cup {s}]
  /\ UNCHANGED <<genVars, registers, activeDevicesMap, queued, topic, sentStopped>>

\* execute().get() returns.
Respond ==
  /\ poll.at = "reading" /\ poll.chosen = Sensors
  /\ poll' = [poll EXCEPT !.at = "processing", !.chosen = {}]
  /\ UNCHANGED <<genVars, registers, activeDevicesMap, queued, topic, sentStopped>>

\* execute().get() throws: the exception leaves the listener and the loop is over.
PollFails ==
  /\ Fragile
  /\ poll.at = "reading"
  /\ poll' = NoPoll("failed")
  /\ UNCHANGED <<genVars, registers, activeDevicesMap, queued, topic, sentStopped>>

\* Mutated form: the status is not read for each record.
CheckStatus_Once(s) ==
  /\ poll.at = "processing" /\ poll.chosen = {}
  /\ s \in DOMAIN poll.got
  /\ sentStopped[s] < 3
  /\ poll' = [poll EXCEPT !.chosen = {s}]
  /\ UNCHANGED <<genVars, registers, activeDevicesMap, queued, topic, sentStopped>>

\* processPlcResponse takes the items in the order of the request.  Up to the decision to
\* send: the status is read here ...
CheckStatus(s) ==
  /\ poll.at = "processing" /\ poll.chosen = {}
  /\ s \in DOMAIN poll.got
  /\ \A t \in DOMAIN poll.got : HoldingRegister(s) <= HoldingRegister(t)
  /\ poll' = IF activeDevicesMap[s] \in {Null, "INACTIVE"}
             THEN [poll EXCEPT !.got = Forget(@, s)]
             ELSE [poll EXCEPT !.chosen = {s}]
  /\ UNCHANGED <<genVars, registers, activeDevicesMap, queued, topic, sentStopped>>

\* ... and the record is handed to the producer here, whatever the status is by now, when
\* there is room for it.
Send(s) ==
  /\ poll.at = "processing" /\ poll.chosen = {s}
  /\ Len(queued[s]) < MaxQueued
  /\ queued' = [queued EXCEPT ![s] =
       Append(@, [record |-> [poll.got[s] EXCEPT !.value = Short(@)], attempts |-> 0])]
  /\ poll' = [poll EXCEPT !.chosen = {}, !.got = Forget(@, s)]
  /\ sentStopped' = [sentStopped EXCEPT ![s] = IF activeDevicesMap[s] = "INACTIVE"
                                               THEN @ + 1 ELSE @]
  /\ UNCHANGED <<genVars, registers, activeDevicesMap, topic>>

\* send throws (no metadata from the broker, or no room, in time): the loop is over as well.
SendFails(s) ==
  /\ Fragile
  /\ poll.at = "processing" /\ poll.chosen = {s}
  /\ poll' = NoPoll("failed")
  /\ UNCHANGED <<genVars, registers, activeDevicesMap, queued, topic, sentStopped>>

\* Every item is processed: sleep for a second.
FinishPoll ==
  /\ poll.at = "processing" /\ poll.chosen = {}
  /\ DOMAIN poll.got = {}
  /\ poll' = [poll EXCEPT !.at = "sleeping"]
  /\ UNCHANGED <<genVars, registers, activeDevicesMap, queued, topic, sentStopped>>

-----------------------------------------------------------------------------
(* The producer's own thread. *)

\* Mutated form: the count of attempts starts over, so that a record is never given up.
Attempt_StartsOver(s, i) ==
  LET sent == queued[s][i] IN
  /\ \A j \in 1..(i - 1) : queued[s][j].attempts > 0
  /\ \/ /\ topic' = [topic EXCEPT ![s] = sent.record]
        /\ queued' = [queued EXCEPT ![s] = RemoveAt(@, i)]
     \/ /\ Fragile
        /\ topic' \in {topic, [topic EXCEPT ![s] = sent.record]}
        /\ queued' = [queued EXCEPT ![s][i].attempts = (sent.attempts + 1) % (Retries + 1)]
  /\ UNCHANGED <<genVars, registers, activeDevicesMap, poll, sentStopped>>

\* Records go out in order, but for those that wait for another attempt.  One that is not
\* acknowledged may have arrived; it is retried, and dropped in the end: the poller does
\* not look at the future that send() returned.
Attempt(s, i) ==
  LET sent == queued[s][i] IN
  /\ \A j \in 1..(i - 1) : queued[s][j].attempts > 0
  /\ \/ /\ topic' = [topic EXCEPT ![s] = sent.record]
        /\ queued' = [queued EXCEPT ![s] = RemoveAt(@, i)]
     \/ /\ Fragile
        /\ topic' \in {topic, [topic EXCEPT ![s] = sent.record]}
        /\ queued' = [queued EXCEPT ![s] = IF sent.attempts < Retries
                                           THEN [@ EXCEPT ![i].attempts = sent.attempts + 1]
                                           ELSE RemoveAt(@, i)]
  /\ UNCHANGED <<genVars, registers, activeDevicesMap, poll, sentStopped>>

Transmit(s) == \E i \in 1..Len(queued[s]) : Attempt(s, i)

-----------------------------------------------------------------------------
\* A request handler's put, atomic by DeviceRegistry's refinement.
Toggle(s) ==
  /\ activeDevicesMap[s] # Null
  /\ activeDevicesMap' = [activeDevicesMap EXCEPT
                            ![s] = IF @ = "ACTIVE" THEN "INACTIVE" ELSE "ACTIVE"]
  /\ sentStopped' = [sentStopped EXCEPT ![s] = 0]
  /\ UNCHANGED <<genVars, registers, poll, queued, topic>>

Poller    == StartPoll \/ Respond \/ PollFails \/ FinishPoll
               \/ \E s \in Sensors : ReadItem(s) \/ CheckStatus(s) \/ Send(s) \/ SendFails(s)
Generator == NextRow \/ WriteRegister

Next == Generator \/ Poller \/ \E s \in Sensors : Transmit(s) \/ Toggle(s)
Spec == Init /\ [][Next]_vars

-----------------------------------------------------------------------------
(* Properties. *)

Words   == [from : SUBSET Sensors, value : Unsigned]
Records == [from : SUBSET Sensors, value : Signed]
Pending == [record : Records, attempts : 0..Retries]

\* The registers hold words, the producer and the topic signed numbers of the same width,
\* and the poller sends only what it has read.
TypeOK ==
  /\ unwritten \subseteq Sensors
  /\ registers \in [1..11 -> Words]
  /\ \E S \in SUBSET Sensors :
       poll \in [at : {"sleeping", "reading", "processing", "failed"}, got : [S -> Words],
                chosen : SUBSET Sensors]
  /\ poll.at = "processing" => poll.chosen \subseteq DOMAIN poll.got
  /\ activeDevicesMap \in [Sensors -> {"ACTIVE", "INACTIVE", Null}]
  /\ queued \in [Sensors -> Seq(Pending)]
  /\ topic \in [Sensors -> Records]

Own(category) ==
  \A s \in Sensors : s[1] = category => topic[s].from \subseteq {s}

\* A record under a pressure or power key never carries another sensor's reading,
\* however the generator's writes and the poller's reads interleave.
PressureAndPowerAreOwn == Own("pressure") /\ Own("power")

\* The same for temperature.
TemperatureIsOwn == Own("temperature")

\* Once a device is INACTIVE the poller hands at most one more record of it to the
\* producer: the one whose status check came before.
AtMostOneAfterStop == \A s \in Sensors : sentStopped[s] <= 1

\* A device that stays INACTIVE falls silent, also on the topic: what is in the producer by
\* then arrives or is given up, and nothing follows it.
StoppedFallsSilent ==
  \A s \in Sensors : <>[](activeDevicesMap[s] = "INACTIVE") => <>[](queued[s] = <<>>)

\* Between two rows each sensor's register holds its current reading.
RegistersAreCurrent ==
  unwritten = {} =>
    \A s \in Sensors : registers[WriteAddress(s)].value = current[s]
=============================================================================

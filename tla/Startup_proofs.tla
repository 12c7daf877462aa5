--------------------------- MODULE Startup_proofs ---------------------------
(* What holds of the process for all sensors, readings and configurations: it *)
(* is not ready while it polls, hands over one more record at most of a       *)
(* stopped device, and a pressure or power record carries its own sensor's    *)
(* reading.                                                                   *)
EXTENDS Startup, SequenceTheorems, TLAPS

\* What keeps Ready from happening: the listener that polls has not been called as long as
\* the main thread is between listeners.
PollerComesFirst ==
  main = "started" /\ config.plc4xProducer => "readModbus" \in listeners

IInv == ReadyIsNotPolling /\ PollerComesFirst

LEMMA InitIInv == StartupInit => IInv
BY DEF StartupInit, IInv, ReadyIsNotPolling, PollerComesFirst

LEMMA NextIInv == IInv /\ [StartupNext]_startupVars => IInv'
<1> SUFFICES ASSUME IInv, [StartupNext]_startupVars PROVE IInv'
  OBVIOUS
<1> USE DEF IInv, ReadyIsNotPolling, PollerComesFirst
<1>1. CASE Refresh
  BY <1>1 DEF Refresh, StartedListeners
<1>2. CASE Generate
  BY <1>2 DEF Generate
<1>3. CASE ReadModbus
  BY <1>3 DEF ReadModbus
<1>4. CASE PollStep
  BY <1>4 DEF PollStep
<1>5. CASE Ready
  BY <1>5 DEF Ready
<1>6. CASE HandleRunFailure
  BY <1>6 DEF HandleRunFailure
<1>7. CASE FakerFails \/ Terminate
  BY <1>7 DEF FakerFails, Terminate
<1>8. CASE UNCHANGED processVars
  BY <1>8 DEF processVars
<1> QED
  BY <1>1, <1>2, <1>3, <1>4, <1>5, <1>6, <1>7, <1>8
     DEF StartupNext, MainThread, startupVars

\* However the process is configured and whatever fails, it is not ready, and has not sent
\* its startup mail, while it polls Modbus.
THEOREM PollingIsNeverReady == StartupSpec => []ReadyIsNotPolling
<1>1. IInv => ReadyIsNotPolling
  BY DEF IInv
<1> QED
  BY InitIInv, NextIInv, <1>1, PTL DEF StartupSpec

-----------------------------------------------------------------------------
(* A stopped device. *)

\* When a record was handed over after the device was stopped, the device is still INACTIVE
\* and no other record of it has passed the status check.
SilentOK(s) ==
  /\ sentStopped[s] \in {0, 1}
  /\ sentStopped[s] = 1 =>
       activeDevicesMap[s] = "INACTIVE" /\ ~(poll.at = "processing" /\ s \in poll.chosen)

SilentInv ==
  /\ poll = [at |-> poll.at, got |-> poll.got, chosen |-> poll.chosen]
  /\ activeDevicesMap \in [Sensors -> {"ACTIVE", "INACTIVE", Null}]
  /\ sentStopped \in [Sensors -> Nat]
  /\ \A s \in Sensors : SilentOK(s)

LEMMA InitSilent == Init => SilentInv
BY DEF Init, SilentInv, SilentOK, NoPoll, Null

LEMMA PollerSilent == SilentInv /\ Poller => SilentInv'
<1> SUFFICES ASSUME SilentInv, Poller PROVE SilentInv'
  OBVIOUS
<1> USE DEF SilentInv, SilentOK
<1>1. CASE StartPoll
  BY <1>1 DEF StartPoll
<1>2. CASE Respond
  BY <1>2 DEF Respond
<1>3. CASE PollFails
  BY <1>3 DEF PollFails, NoPoll
<1>4. CASE FinishPoll
  BY <1>4 DEF FinishPoll
<1>5. ASSUME NEW s \in Sensors, ReadItem(s) PROVE SilentInv'
  BY <1>5 DEF ReadItem
<1>6. ASSUME NEW s \in Sensors, CheckStatus(s) PROVE SilentInv'
  BY <1>6 DEF CheckStatus, Forget
<1>7. ASSUME NEW s \in Sensors, Send(s) PROVE SilentInv'
  <2>1. /\ poll'.chosen = {}
        /\ poll' = [at |-> poll'.at, got |-> poll'.got, chosen |-> poll'.chosen]
        /\ UNCHANGED activeDevicesMap
    BY <1>7 DEF Send
  <2>2. sentStopped[s] = 0
    BY <1>7 DEF Send
  <2>3. sentStopped' = [sentStopped EXCEPT ![s] = IF activeDevicesMap[s] = "INACTIVE"
                                                  THEN @ + 1 ELSE @]
    BY <1>7 DEF Send
  <2> QED
    BY <2>1, <2>2, <2>3
<1>8. ASSUME NEW s \in Sensors, SendFails(s) PROVE SilentInv'
  BY <1>8 DEF SendFails, NoPoll
<1> QED
  BY <1>1, <1>2, <1>3, <1>4, <1>5, <1>6, <1>7, <1>8 DEF Poller

LEMMA NextSilent == SilentInv /\ [StartupNext]_startupVars => SilentInv'
<1> SUFFICES ASSUME SilentInv, [StartupNext]_startupVars PROVE SilentInv'
  OBVIOUS
<1>1. CASE UNCHANGED <<activeDevicesMap, poll, sentStopped>>
  BY <1>1 DEF SilentInv, SilentOK
<1>2. CASE PollStep
  BY <1>2, PollerSilent DEF PollStep
<1>3. ASSUME NEW s \in Sensors, Toggle(s) PROVE SilentInv'
  BY <1>3 DEF Toggle, SilentInv, SilentOK
<1>4. CASE Generator
  BY <1>4, <1>1 DEF Generator, NextRow, WriteRegister
<1>5. CASE Refresh \/ Generate \/ ReadModbus \/ Ready \/ HandleRunFailure
  BY <1>5, <1>1 DEF Refresh, Generate, ReadModbus, Ready, HandleRunFailure, modbusVars
<1>6. CASE FakerFails \/ Terminate
  BY <1>6, <1>1 DEF FakerFails, Terminate, modbusVars
<1>7. CASE \E s \in Sensors : Transmit(s)
  BY <1>7, <1>1 DEF Transmit, Attempt
<1> QED
  BY <1>1, <1>2, <1>3, <1>4, <1>5, <1>6, <1>7
     DEF StartupNext, MainThread, startupVars, modbusVars

\* However the poller, the operator and the rest of the process interleave, at most one
\* record of a device is handed to the producer after the device was stopped.
THEOREM OneMoreIsHandedOver == StartupSpec => []AtMostOneAfterStop
<1>1. StartupInit => SilentInv
  BY InitSilent DEF StartupInit
<1>2. SilentInv => AtMostOneAfterStop
  BY DEF SilentInv, SilentOK, AtMostOneAfterStop
<1> QED
  BY <1>1, NextSilent, <1>2, PTL DEF StartupSpec

-----------------------------------------------------------------------------
(* Types. *)

Reads == UNION {[S -> Words] : S \in SUBSET Sensors}

\* TypeOK, with the set of what a poll may have read.
TypeInv ==
  /\ unwritten \subseteq Sensors
  /\ registers \in [1..11 -> Words]
  /\ poll \in [at : {"sleeping", "reading", "processing", "failed"}, got : Reads,
               chosen : SUBSET Sensors]
  /\ poll.at = "processing" => poll.chosen \subseteq DOMAIN poll.got
  /\ activeDevicesMap \in [Sensors -> {"ACTIVE", "INACTIVE", Null}]
  /\ queued \in [Sensors -> Seq(Pending)]
  /\ topic \in [Sensors -> Records]

LEMMA ShortIsSigned == \A word \in Unsigned : Short(word) \in Signed
<1>1. SignBit \in Nat
  BY DEF SignBit
<1> QED
  BY <1>1 DEF Short, Unsigned, Signed

LEMMA Addresses ==
  \A s \in Sensors : /\ WriteAddress(s) \in 1..11
                     /\ ProtocolAddress(HoldingRegister(s)) \in 1..11
<1> SUFFICES ASSUME NEW s \in Sensors
             PROVE  /\ WriteAddress(s) \in 1..11
                    /\ ProtocolAddress(HoldingRegister(s)) \in 1..11
  OBVIOUS
<1>1. s \in AllSensors
  BY SensorsAssumption
<1>2. CASE s \in {"pressure", "power"} \X (1..3)
  BY <1>2 DEF WriteAddress, HoldingRegister, ProtocolAddress, power_sensors
<1>3. CASE s \in {"temperature"} \X (1..4)
  BY <1>3 DEF WriteAddress, HoldingRegister, ProtocolAddress, power_sensors, temp_sensors
<1> QED
  BY <1>1, <1>2, <1>3 DEF AllSensors

\* What the poller holds: nothing, one item more, or one less.
LEMMA ReadsFacts ==
  /\ [s \in {} |-> None] \in Reads
  /\ \A got \in Reads, s \in Sensors :
       /\ \A item \in Words : Keep(got, s, item) \in Reads
       /\ Forget(got, s) \in Reads
       /\ s \in DOMAIN got => got[s] \in Words
<1>0. \A S \in SUBSET Sensors : \A got \in [S -> Words] : got \in Reads
  BY DEF Reads
<1>1. [s \in {} |-> None] \in [{} -> Words] /\ {} \in SUBSET Sensors
  OBVIOUS
<1>2. ASSUME NEW got \in Reads, NEW s \in Sensors
      PROVE  /\ \A item \in Words : Keep(got, s, item) \in Reads
             /\ Forget(got, s) \in Reads
             /\ s \in DOMAIN got => got[s] \in Words
  <2>1. PICK S \in SUBSET Sensors : got \in [S -> Words]
    BY DEF Reads
  <2>2. ASSUME NEW item \in Words
        PROVE  Keep(got, s, item) \in Reads
    <3>1. Keep(got, s, item) \in [S \cup {s} -> Words] /\ S \cup {s} \in SUBSET Sensors
      BY <2>1 DEF Keep
    <3> QED
      BY <1>0, <3>1
  <2>3. Forget(got, s) \in [S \ {s} -> Words] /\ S \ {s} \in SUBSET Sensors
    BY <2>1 DEF Forget
  <2> QED
    BY <1>0, <2>1, <2>2, <2>3
<1> QED
  BY <1>0, <1>1, <1>2

\* A sequence of pending records stays one when a record is appended.
LEMMA AppendPending ==
  ASSUME NEW R, NEW q \in Seq([record : R, attempts : 0..Retries]), NEW record \in R
  PROVE  Append(q, [record |-> record, attempts |-> 0])
           \in Seq([record : R, attempts : 0..Retries])
<1>1. [record |-> record, attempts |-> 0] \in [record : R, attempts : 0..Retries]
  BY ProducerAssumption
<1> QED
  BY <1>1, AppendProperties

\* The same when one is removed.
LEMMA RemovePending ==
  ASSUME NEW S, NEW q \in Seq(S), NEW i \in 1..Len(q)
  PROVE  RemoveAt(q, i) \in Seq(S)
<1>1. SubSeq(q, 1, i - 1) \in Seq(S) /\ SubSeq(q, i + 1, Len(q)) \in Seq(S)
  <2>1. i \in Nat /\ i >= 1 /\ i <= Len(q) /\ Len(q) \in Nat
    BY LenProperties
  <2>2. \A j \in 1..Len(q) : q[j] \in S
    BY ElementOfSeq
  <2> QED
    BY <2>1, <2>2, SubSeqProperties
<1> QED
  BY <1>1, ConcatProperties DEF RemoveAt

\* What an attempt does, R being what the pending records of the sensor are taken from: one
\* of them may arrive, and the others stay.
LEMMA AttemptFacts ==
  ASSUME NEW R, NEW s \in Sensors, NEW i \in 1..Len(queued[s]), Attempt(s, i),
         queued = [t \in Sensors |-> queued[t]], topic = [t \in Sensors |-> topic[t]],
         queued[s] \in Seq([record : R, attempts : 0..Retries])
  PROVE  /\ UNCHANGED <<genVars, registers, activeDevicesMap, poll, sentStopped>>
         /\ queued' = [queued EXCEPT ![s] = queued'[s]]
         /\ queued'[s] \in Seq([record : R, attempts : 0..Retries])
         /\ \E record \in R : topic' \in {topic, [topic EXCEPT ![s] = record]}
<1> DEFINE P == [record : R, attempts : 0..Retries]
           sent == queued[s][i]
<1>1. sent \in P
  BY ElementOfSeq
<1>2. sent.record \in R /\ sent.attempts \in 0..Retries
  BY <1>1
<1>3. UNCHANGED <<genVars, registers, activeDevicesMap, poll, sentStopped>>
  BY DEF Attempt
<1>4. topic' \in {topic, [topic EXCEPT ![s] = sent.record]}
  BY DEF Attempt
<1>5. \/ queued' = [queued EXCEPT ![s] = RemoveAt(queued[s], i)]
      \/ /\ sent.attempts < Retries
         /\ queued' = [queued EXCEPT
              ![s] = [queued[s] EXCEPT ![i].attempts = sent.attempts + 1]]
  BY DEF Attempt
<1>6. RemoveAt(queued[s], i) \in Seq(P)
  BY RemovePending
<1>7. ASSUME sent.attempts < Retries
      PROVE  [queued[s] EXCEPT ![i].attempts = sent.attempts + 1] \in Seq(P)
  <2>1. [sent EXCEPT !.attempts = sent.attempts + 1] \in P
    <3>1. sent.attempts + 1 \in 0..Retries
      BY <1>2, <1>7, ProducerAssumption
    <3>2. [sent EXCEPT !.attempts = sent.attempts + 1]
            = [record |-> sent.record, attempts |-> sent.attempts + 1]
      BY <1>1
    <3> QED
      BY <1>2, <3>1, <3>2
  <2>2. [queued[s] EXCEPT ![i].attempts = sent.attempts + 1]
          = [queued[s] EXCEPT ![i] = [sent EXCEPT !.attempts = sent.attempts + 1]]
    OBVIOUS
  <2>3. \A e \in P : [queued[s] EXCEPT ![i] = e] \in Seq(P)
    <3>1. queued[s] \in Seq(P)
      OBVIOUS
    <3> HIDE DEF P
    <3> QED
      BY <3>1, ExceptSeq
  <2> HIDE DEF P, sent
  <2> QED
    BY <2>1, <2>2, <2>3
<1> HIDE DEF P, sent
<1>8. queued' = [queued EXCEPT ![s] = queued'[s]] /\ queued'[s] \in Seq(P)
  BY <1>5, <1>6, <1>7
<1> QED
  BY <1>2, <1>3, <1>4, <1>8 DEF P

LEMMA NoPollType ==
  /\ NoPoll("sleeping").at = "sleeping" /\ NoPoll("failed").at = "failed"
  /\ \A at : NoPoll(at).got \in Reads /\ NoPoll(at).chosen = {}
  /\ \A at : NoPoll(at) = [at |-> at, got |-> NoPoll(at).got, chosen |-> {}]
  BY ReadsFacts DEF NoPoll

LEMMA InitTypes == Init => TypeInv
<1> SUFFICES ASSUME Init PROVE TypeInv
  OBVIOUS
<1>1. Unwritten \in Words
  <2>1. SignBit \in Nat /\ SignBit > 17
    BY DEF SignBit
  <2> QED
    BY <2>1 DEF Unwritten, Words, Unsigned
<1>2. None \in Records
  <2>1. SignBit \in Nat /\ SignBit > 17
    BY DEF SignBit
  <2> QED
    BY <2>1 DEF None, Records, Signed
<1>3. <<>> \in Seq(Pending)
  BY EmptySeq
<1> QED
  BY <1>1, <1>2, <1>3, NoPollType DEF Init, TypeInv

LEMMA PollerTypes == TypeInv /\ Poller => TypeInv'
<1> SUFFICES ASSUME TypeInv, Poller PROVE TypeInv'
  OBVIOUS
<1> USE DEF TypeInv, genVars
<1>1. CASE StartPoll
  BY <1>1 DEF StartPoll
<1>2. CASE Respond
  BY <1>2 DEF Respond
<1>3. CASE PollFails \/ \E s \in Sensors : SendFails(s)
  <2>1. poll' = NoPoll("failed") /\ UNCHANGED <<unwritten, registers, activeDevicesMap, queued, topic>>
    BY <1>3 DEF PollFails, SendFails
  <2> QED
    BY <2>1, NoPollType
<1>4. CASE FinishPoll
  BY <1>4 DEF FinishPoll
<1>5. ASSUME NEW s \in Sensors, ReadItem(s)
      PROVE  TypeInv'
  <2> DEFINE item == registers[ProtocolAddress(HoldingRegister(s))]
  <2>1. item \in Words
    BY Addresses
  <2>2. poll.at = "reading" /\ UNCHANGED <<unwritten, registers, activeDevicesMap, queued, topic>>
    BY <1>5 DEF ReadItem
  <2>3. poll.got \in Reads /\ poll.chosen \cup {s} \subseteq Sensors
    OBVIOUS
  <2>4. Keep(poll.got, s, item) \in Reads
    BY <2>1, <2>3, ReadsFacts
  <2>5. \/ poll' = [poll EXCEPT !.chosen = @ \cup {s}, !.got = Keep(@, s, item)]
        \/ poll' = [poll EXCEPT !.chosen = @ \cup {s}]
    BY <1>5 DEF ReadItem
  <2> HIDE DEF item
  <2> QED
    BY <2>2, <2>3, <2>4, <2>5
<1>6. ASSUME NEW s \in Sensors, CheckStatus(s)
      PROVE  TypeInv'
  <2>1. UNCHANGED <<unwritten, registers, activeDevicesMap, queued, topic>>
    BY <1>6 DEF CheckStatus
  <2>2. \/ poll' = [poll EXCEPT !.got = Forget(poll.got, s)] /\ poll.chosen = {}
        \/ poll' = [poll EXCEPT !.chosen = {s}] /\ s \in DOMAIN poll.got
    BY <1>6 DEF CheckStatus
  <2> DEFINE Polls == [at : {"sleeping", "reading", "processing", "failed"}, got : Reads,
                       chosen : SUBSET Sensors]
             got   == Forget(poll.got, s)
  <2>3. poll \in Polls /\ got \in Reads
    BY ReadsFacts
  <2> HIDE DEF TypeInv, got
  <2>4. poll' \in Polls /\ poll'.chosen \subseteq DOMAIN poll'.got
    BY <2>2, <2>3 DEF got
  <2> USE DEF TypeInv
  <2> QED
    BY <2>1, <2>4
<1>7. ASSUME NEW s \in Sensors, Send(s)
      PROVE  TypeInv'
  <2>1. UNCHANGED <<unwritten, registers, activeDevicesMap, topic>> /\ s \in DOMAIN poll.got
    BY <1>7 DEF Send
  <2>2. poll' = [poll EXCEPT !.chosen = {}, !.got = Forget(poll.got, s)]
    BY <1>7 DEF Send
  <2>3. poll.got[s] \in Words
    BY <2>1, ReadsFacts
  <2> DEFINE record == [poll.got[s] EXCEPT !.value = Short(@)]
  <2>4. record \in Records
    <3>1. poll.got[s].from \in SUBSET Sensors /\ poll.got[s].value \in Unsigned
      BY <2>3 DEF Words
    <3>2. Short(poll.got[s].value) \in Signed
      BY <3>1, ShortIsSigned
    <3> DEFINE word == poll.got[s]
    <3>3. word = [from |-> word.from, value |-> word.value]
      BY <2>3 DEF Words
    <3> HIDE DEF word
    <3>4. [word EXCEPT !.value = Short(@)] = [from |-> word.from, value |-> Short(word.value)]
      BY <3>3
    <3>5. record = [from |-> poll.got[s].from, value |-> Short(poll.got[s].value)]
      BY <3>4 DEF word
    <3> QED
      BY <3>1, <3>2, <3>5 DEF Records
  <2>5. queued' = [queued EXCEPT
          ![s] = Append(queued[s], [record |-> record, attempts |-> 0])]
    BY <1>7 DEF Send
  <2> HIDE DEF record
  <2>6. queued' \in [Sensors -> Seq(Pending)]
    <3>1. Append(queued[s], [record |-> record, attempts |-> 0]) \in Seq(Pending)
      BY <2>4, AppendPending DEF Pending
    <3> QED
      BY <2>5, <3>1
  <2> QED
    BY <2>1, <2>2, <2>6, ReadsFacts
<1> QED
  BY <1>1, <1>2, <1>3, <1>4, <1>5, <1>6, <1>7 DEF Poller

LEMMA GeneratorTypes == TypeInv /\ Generator => TypeInv'
<1> SUFFICES ASSUME TypeInv, Generator PROVE TypeInv'
  OBVIOUS
<1>1. CASE NextRow
  BY <1>1 DEF NextRow, TypeInv
<1>2. CASE WriteRegister
  <2>1. PICK s \in unwritten :
          /\ unwritten' = unwritten \ {s}
          /\ UNCHANGED <<activeDevicesMap, poll, queued, topic>>
          /\ \/ /\ FitsRegister(current[s])
                /\ registers' = [registers EXCEPT
                                   ![WriteAddress(s)] = [from |-> {s}, value |-> current[s]]]
             \/ UNCHANGED registers
    BY <1>2 DEF WriteRegister
  <2>2. s \in Sensors
    BY DEF TypeInv
  <2>3. FitsRegister(current[s]) => [from |-> {s}, value |-> current[s]] \in Words
    BY <2>2 DEF FitsRegister, Words
  <2>4. registers' \in [1..11 -> Words]
    BY <2>1, <2>3 DEF TypeInv
  <2> QED
    BY <2>1, <2>4 DEF TypeInv
<1> QED
  BY <1>1, <1>2 DEF Generator

LEMMA TransmitTypes == ASSUME TypeInv, NEW s \in Sensors, Transmit(s) PROVE TypeInv'
<1>1. PICK i \in 1..Len(queued[s]) : Attempt(s, i)
  BY DEF Transmit
<1>2. /\ queued = [t \in Sensors |-> queued[t]] /\ topic = [t \in Sensors |-> topic[t]]
      /\ queued[s] \in Seq([record : Records, attempts : 0..Retries])
  BY DEF TypeInv, Pending
<1>3. /\ UNCHANGED <<genVars, registers, activeDevicesMap, poll, sentStopped>>
      /\ queued' = [queued EXCEPT ![s] = queued'[s]]
      /\ queued'[s] \in Seq(Pending)
      /\ \E record \in Records : topic' \in {topic, [topic EXCEPT ![s] = record]}
  BY <1>1, <1>2, AttemptFacts DEF Pending
<1> QED
  BY <1>3 DEF TypeInv, genVars

\* Every other step of the process leaves the registers, the poller and its producer alone.
LEMMA ProcessSteps ==
  [StartupNext]_startupVars =>
    \/ Poller \/ Generator \/ \E s \in Sensors : Transmit(s) \/ Toggle(s)
    \/ UNCHANGED modbusVars
<1> SUFFICES ASSUME [StartupNext]_startupVars, ~Poller, ~Generator,
                    ~(\E s \in Sensors : Transmit(s) \/ Toggle(s))
             PROVE  UNCHANGED modbusVars
  OBVIOUS
<1> USE DEF modbusVars, genVars
<1>1. CASE Refresh \/ Generate \/ ReadModbus \/ Ready \/ HandleRunFailure
  BY <1>1 DEF Refresh, Generate, ReadModbus, Ready, HandleRunFailure
<1>2. CASE FakerFails \/ Terminate
  BY <1>2 DEF FakerFails, Terminate
<1>3. CASE UNCHANGED startupVars
  BY <1>3 DEF startupVars
<1> QED
  BY <1>1, <1>2, <1>3 DEF StartupNext, MainThread, PollStep

LEMMA NextTypes == TypeInv /\ [StartupNext]_startupVars => TypeInv'
<1>1. TypeInv /\ UNCHANGED modbusVars => TypeInv'
  BY DEF TypeInv, modbusVars, genVars
<1>2. TypeInv /\ (\E s \in Sensors : Toggle(s)) => TypeInv'
  BY DEF TypeInv, Toggle, genVars
<1> QED
  BY <1>1, <1>2, ProcessSteps, PollerTypes, GeneratorTypes, TransmitTypes

\* The registers hold 16-bit words, and the producer and the topic the signed numbers the
\* poller makes of them, whatever the sensors measure.
THEOREM TypeCorrect == StartupSpec => []TypeOK
<1>1. StartupInit => TypeInv
  BY InitTypes DEF StartupInit
<1>2. TypeInv => TypeOK
  BY DEF TypeInv, TypeOK, Reads
<1> QED
  BY <1>1, NextTypes, <1>2, PTL DEF StartupSpec

-----------------------------------------------------------------------------
(* Whose reading a record carries. *)

\* The sensors whose readings are written where a sensor is read.
Carried(s) == {t \in Sensors : WriteAddress(t) = ProtocolAddress(HoldingRegister(s))}

\* A pressure or power sensor is read where it is written, a temperature sensor where the
\* one before it is; and no two sensors are written to one register.
LEMMA Registers ==
  ASSUME NEW s \in Sensors, NEW t \in Sensors
  PROVE  /\ WriteAddress(t) = WriteAddress(s) => t = s
         /\ WriteAddress(t) = ProtocolAddress(HoldingRegister(s)) =>
              IF s[1] = "temperature" THEN t = <<"temperature", s[2] - 1>> ELSE t = s
<1> USE DEF WriteAddress, HoldingRegister, ProtocolAddress, power_sensors, temp_sensors
<1>1. \A x \in Sensors : /\ x = <<x[1], x[2]>>
                          /\ \/ x[1] \in {"pressure", "power"} /\ x[2] \in 1..3
                             \/ x[1] = "temperature" /\ x[2] \in 1..4
  BY SensorsAssumption DEF AllSensors
<1>2. \A x, y \in Sensors : x[1] = y[1] /\ x[2] = y[2] => x = y
  BY <1>1
<1>3. WriteAddress(t) = WriteAddress(s) => t[1] = s[1] /\ t[2] = s[2]
  BY <1>1
<1>4. ASSUME s[1] = "temperature", WriteAddress(t) = ProtocolAddress(HoldingRegister(s))
      PROVE  t = <<"temperature", s[2] - 1>>
  <2>1. t[1] = "temperature" /\ t[2] = s[2] - 1
    BY <1>1, <1>4
  <2> QED
    BY <1>1, <2>1
<1>5. ASSUME s[1] # "temperature", WriteAddress(t) = ProtocolAddress(HoldingRegister(s))
      PROVE  t = s
  BY <1>1, <1>2, <1>5
<1> QED
  BY <1>2, <1>3, <1>4, <1>5

\* Registers hold readings of the sensors written there; the poller, the producer and the
\* topic hold, for each sensor, a reading of what is written where it is read.
CarriedBy(s) == [from : SUBSET Carried(s), value : Signed]

CarriedInv ==
  /\ \A a \in 1..11 : \A s \in registers[a].from : WriteAddress(s) = a
  /\ \A s \in Sensors :
       /\ s \in DOMAIN poll.got => poll.got[s].from \subseteq Carried(s)
       /\ queued[s] \in Seq([record : CarriedBy(s), attempts : 0..Retries])
       /\ topic[s].from \subseteq Carried(s)

LEMMA PollerCarries == TypeInv /\ CarriedInv /\ Poller => CarriedInv'
<1> SUFFICES ASSUME TypeInv, CarriedInv, Poller PROVE CarriedInv'
  OBVIOUS
<1> USE DEF CarriedInv, genVars
<1>0. poll.got \in Reads /\ registers \in [1..11 -> Words]
  BY DEF TypeInv
<1>1. ASSUME poll'.got = poll.got, UNCHANGED <<registers, queued, topic>>
      PROVE  CarriedInv'
  BY <1>1
<1>2. CASE StartPoll \/ Respond \/ FinishPoll
  <2>1. poll'.got = poll.got /\ UNCHANGED <<registers, queued, topic>>
    BY <1>2 DEF StartPoll, Respond, FinishPoll, TypeInv
  <2> QED
    BY <1>1, <2>1
<1>3. CASE PollFails \/ \E s \in Sensors : SendFails(s)
  <2>1. DOMAIN poll'.got = {} /\ UNCHANGED <<registers, queued, topic>>
    BY <1>3 DEF PollFails, SendFails, NoPoll
  <2> QED
    BY <2>1
<1>4. ASSUME NEW s \in Sensors, ReadItem(s)
      PROVE  CarriedInv'
  <2> DEFINE item == registers[ProtocolAddress(HoldingRegister(s))]
  <2>1. UNCHANGED <<registers, queued, topic>>
    BY <1>4 DEF ReadItem
  <2>2. poll'.got = Keep(poll.got, s, item) \/ poll'.got = poll.got
    BY <1>4 DEF ReadItem, TypeInv
  <2>3. item.from \subseteq Carried(s)
    <3>1. ProtocolAddress(HoldingRegister(s)) \in 1..11
      BY Addresses
    <3>2. item.from \subseteq Sensors
      BY <1>0, <3>1 DEF Words
    <3> QED
      BY <3>1, <3>2 DEF Carried
  <2> HIDE DEF item
  <2>4. CASE poll'.got = Keep(poll.got, s, item)
    <3>1. \A t \in DOMAIN poll'.got :
            poll'.got[t] = IF t = s THEN item ELSE poll.got[t]
      BY <2>4 DEF Keep
    <3>2. \A t \in DOMAIN poll'.got : t = s \/ t \in DOMAIN poll.got
      BY <2>4 DEF Keep
    <3> QED
      BY <2>1, <2>3, <3>1, <3>2
  <2> QED
    BY <1>1, <2>1, <2>2, <2>4
<1>5. ASSUME NEW s \in Sensors
      PROVE  /\ DOMAIN Forget(poll.got, s) \subseteq DOMAIN poll.got
             /\ \A t \in DOMAIN Forget(poll.got, s) : Forget(poll.got, s)[t] = poll.got[t]
  BY DEF Forget
<1>6. ASSUME NEW s \in Sensors, CheckStatus(s)
      PROVE  CarriedInv'
  <2>1. /\ poll'.got = Forget(poll.got, s) \/ poll'.got = poll.got
        /\ UNCHANGED <<registers, queued, topic>>
    BY <1>6 DEF CheckStatus, TypeInv
  <2> QED
    BY <1>5, <2>1
<1>7. ASSUME NEW s \in Sensors, Send(s)
      PROVE  CarriedInv'
  <2>1. /\ poll'.got = Forget(poll.got, s) /\ s \in DOMAIN poll.got
        /\ UNCHANGED <<registers, topic>>
    BY <1>7 DEF Send, TypeInv
  <2> DEFINE record == [poll.got[s] EXCEPT !.value = Short(@)]
  <2>2. record \in CarriedBy(s)
    <3>1. poll.got[s] \in Words /\ poll.got[s].from \subseteq Carried(s)
      BY <1>0, <2>1, ReadsFacts
    <3>2. Short(poll.got[s].value) \in Signed
      BY <3>1, ShortIsSigned DEF Words
    <3>3. record = [from |-> poll.got[s].from, value |-> Short(poll.got[s].value)]
      BY <3>1 DEF Words
    <3> QED
      BY <3>1, <3>2, <3>3 DEF CarriedBy
  <2>3. queued' = [queued EXCEPT
          ![s] = Append(queued[s], [record |-> record, attempts |-> 0])]
    BY <1>7 DEF Send
  <2> HIDE DEF record
  <2>4. \A t \in Sensors : queued'[t] = IF t = s
          THEN Append(queued[s], [record |-> record, attempts |-> 0]) ELSE queued[t]
    BY <2>3 DEF TypeInv
  <2>5. \A t \in Sensors : queued'[t] \in Seq([record : CarriedBy(t), attempts : 0..Retries])
    BY <2>2, <2>4, AppendPending
  <2> QED
    BY <1>5, <2>1, <2>5
<1> QED
  BY <1>2, <1>3, <1>4, <1>6, <1>7 DEF Poller

LEMMA TransmitCarries ==
  ASSUME TypeInv, CarriedInv, NEW s \in Sensors, Transmit(s)
  PROVE  CarriedInv'
<1>1. PICK i \in 1..Len(queued[s]) : Attempt(s, i)
  BY DEF Transmit
<1>2. /\ queued = [t \in Sensors |-> queued[t]] /\ topic = [t \in Sensors |-> topic[t]]
      /\ queued[s] \in Seq([record : CarriedBy(s), attempts : 0..Retries])
  BY DEF TypeInv, CarriedInv
<1>3. /\ UNCHANGED <<registers, poll>>
      /\ queued' = [queued EXCEPT ![s] = queued'[s]]
      /\ queued'[s] \in Seq([record : CarriedBy(s), attempts : 0..Retries])
      /\ \E record \in CarriedBy(s) : topic' \in {topic, [topic EXCEPT ![s] = record]}
  BY <1>1, <1>2, AttemptFacts
<1>4. PICK record \in CarriedBy(s) : topic' \in {topic, [topic EXCEPT ![s] = record]}
  BY <1>3
<1>5. \A t \in Sensors : topic'[t] \in {topic[t], record} /\ (t # s => topic'[t] = topic[t])
  BY <1>2, <1>4
<1>6. \A t \in Sensors : topic'[t].from \subseteq Carried(t)
  BY <1>5 DEF CarriedInv, CarriedBy
<1>7. \A t \in Sensors : queued'[t] = IF t = s THEN queued'[s] ELSE queued[t]
  BY <1>2, <1>3
<1>8. \A t \in Sensors : queued'[t] \in Seq([record : CarriedBy(t), attempts : 0..Retries])
  BY <1>3, <1>7 DEF CarriedInv
<1> QED
  BY <1>3, <1>6, <1>8 DEF CarriedInv

LEMMA NextCarries == TypeInv /\ CarriedInv /\ [StartupNext]_startupVars => CarriedInv'
<1> SUFFICES ASSUME TypeInv, CarriedInv, [StartupNext]_startupVars PROVE CarriedInv'
  OBVIOUS
<1>1. CASE WriteRegister
  <2>1. PICK s \in unwritten :
          /\ UNCHANGED <<poll, queued, topic>>
          /\ \/ registers' = [registers EXCEPT
                             ![WriteAddress(s)] = [from |-> {s}, value |-> current[s]]]
             \/ UNCHANGED registers
    BY <1>1 DEF WriteRegister
  <2>2. \A a \in 1..11 : \/ registers'[a] = registers[a]
                         \/ WriteAddress(s) = a /\ registers'[a].from = {s}
    <3> DEFINE word == [from |-> {s}, value |-> current[s]]
    <3>1. word.from = {s} /\ registers \in [1..11 -> Words]
      BY DEF TypeInv
    <3> HIDE DEF word
    <3>2. registers' = [registers EXCEPT ![WriteAddress(s)] = word] \/ UNCHANGED registers
      BY <2>1 DEF word
    <3> QED
      BY <3>1, <3>2
  <2>3. \A a \in 1..11 : \A t \in registers'[a].from : WriteAddress(t) = a
    BY <2>2 DEF CarriedInv
  <2> QED
    BY <2>1, <2>3 DEF CarriedInv
<1>2. CASE NextRow
  BY <1>2 DEF NextRow, CarriedInv
<1>3. CASE UNCHANGED modbusVars \/ \E s \in Sensors : Toggle(s)
  BY <1>3 DEF CarriedInv, modbusVars, Toggle
<1> QED
  BY <1>1, <1>2, <1>3, PollerCarries, TransmitCarries, ProcessSteps DEF Generator

LEMMA CarriedIsInvariant == StartupSpec => []CarriedInv
<1>1. StartupInit => CarriedInv
  BY EmptySeq DEF StartupInit, Init, CarriedInv, NoPoll, Unwritten, None
<1>2. StartupInit => TypeInv
  BY InitTypes DEF StartupInit
<1> QED
  BY <1>1, <1>2, NextTypes, NextCarries, PTL DEF StartupSpec

\* However writes and polls interleave, a pressure or power record carries the reading of
\* the sensor in its key, or of none.
THEOREM PressureAndPower == StartupSpec => []PressureAndPowerAreOwn
<1>1. CarriedInv => PressureAndPowerAreOwn
  BY Registers DEF CarriedInv, Carried, PressureAndPowerAreOwn, Own
<1> QED
  BY <1>1, CarriedIsInvariant, PTL

\* A temperature record never carries the reading of its own sensor (TemperatureIsOwn is
\* violated): whenever it carries one it is that of the sensor with the number before, and
\* the first sensor's records carry none.
TemperatureIsTheOneBefore ==
  \A s \in Sensors : s[1] = "temperature" =>
    topic[s].from \subseteq {<<"temperature", s[2] - 1>>} \ {s, <<"temperature", 0>>}

THEOREM TemperatureIsShifted == StartupSpec => []TemperatureIsTheOneBefore
<1>1. CarriedInv => TemperatureIsTheOneBefore
  <2> SUFFICES ASSUME CarriedInv, NEW s \in Sensors, s[1] = "temperature",
                      NEW t \in topic[s].from
               PROVE  t = <<"temperature", s[2] - 1>> /\ t # s /\ t # <<"temperature", 0>>
    BY DEF TemperatureIsTheOneBefore
  <2>1. t \in Sensors /\ t = <<"temperature", s[2] - 1>>
    BY Registers DEF CarriedInv, Carried
  <2>2. s[2] \in 1..4 /\ t[2] = s[2] - 1 /\ t[2] \in 1..4
    <3>1. \A x \in Sensors : x[1] = "temperature" => x[2] \in 1..4
      BY SensorsAssumption DEF AllSensors
    <3>2. t[1] = "temperature" /\ t[2] = s[2] - 1
      BY <2>1
    <3> QED
      BY <2>1, <3>1, <3>2
  <2>3. t[2] # s[2] /\ t[2] # 0
    BY <2>2
  <2>4. <<"temperature", 0>>[2] = 0
    OBVIOUS
  <2> QED
    BY <2>1, <2>3, <2>4
<1> QED
  BY <1>1, CarriedIsInvariant, PTL

-----------------------------------------------------------------------------
(* What the registers hold between two rows. *)

\* What has been written of the row is there.
RowInv ==
  /\ current \in [Sensors -> Readings]
  /\ \A s \in Sensors \ unwritten : registers[WriteAddress(s)].value = current[s]

LEMMA NextRowInv ==
  ASSUME Readings \subseteq Unsigned, ~Fragile, TypeInv, RowInv, [StartupNext]_startupVars
  PROVE  RowInv'
<1>1. CASE NextRow
  BY <1>1 DEF NextRow, RowInv
<1>2. CASE WriteRegister
  <2>1. PICK s \in unwritten :
          /\ unwritten' = unwritten \ {s} /\ UNCHANGED current
          /\ FitsRegister(current[s]) =>
               registers' = [registers EXCEPT
                               ![WriteAddress(s)] = [from |-> {s}, value |-> current[s]]]
    BY <1>2 DEF WriteRegister
  <2>2. s \in Sensors /\ FitsRegister(current[s])
    BY DEF TypeInv, RowInv, FitsRegister
  <2>3. registers' = [registers EXCEPT
                        ![WriteAddress(s)] = [from |-> {s}, value |-> current[s]]]
    BY <2>1, <2>2
  <2>4. ASSUME NEW t \in Sensors \ unwritten'
        PROVE  registers'[WriteAddress(t)].value = current[t]
    <3>1. WriteAddress(t) \in 1..11 /\ registers \in [1..11 -> Words]
      BY Addresses DEF TypeInv
    <3>2. CASE t = s
      BY <2>3, <3>1, <3>2
    <3>3. CASE t # s
      <4>1. WriteAddress(t) # WriteAddress(s)
        BY <2>2, <3>3, Registers
      <4>2. registers[WriteAddress(t)].value = current[t]
        BY <2>1, <3>3 DEF RowInv
      <4> QED
        BY <2>3, <3>1, <4>1, <4>2
    <3> QED
      BY <3>2, <3>3
  <2> QED
    BY <2>1, <2>4 DEF RowInv
<1>3. CASE Poller
  <2>1. UNCHANGED <<current, unwritten, registers>>
    BY <1>3 DEF Poller, StartPoll, Respond, PollFails, FinishPoll, ReadItem, CheckStatus,
       Send, SendFails, genVars
  <2> QED
    BY <2>1 DEF RowInv
<1>4. CASE ~Generator /\ ~Poller
  <2>1. UNCHANGED <<current, unwritten, registers>>
    BY <1>4 DEF StartupNext, MainThread, Refresh, Generate, ReadModbus, Ready, PollStep,
       HandleRunFailure, FakerFails, Terminate, Transmit, Attempt, Toggle, startupVars,
       modbusVars, genVars
  <2> QED
    BY <2>1 DEF RowInv
<1> QED
  BY <1>1, <1>2, <1>3, <1>4 DEF Generator

\* Between two rows every register holds its sensor's current reading, if no sensor measures
\* what does not fit an unsigned word (a negative temperature does not: then
\* RegistersAreCurrent is violated) and no call to the server fails: the generator swallows
\* both.  No write of a row undoes another one.
THEOREM RegistersKeepUp ==
  ASSUME Readings \subseteq Unsigned, ~Fragile
  PROVE  StartupSpec => []RegistersAreCurrent
<1>1. StartupInit => TypeInv /\ RowInv
  BY InitTypes DEF StartupInit, Init, RowInv
<1>2. TypeInv /\ RowInv /\ [StartupNext]_startupVars => RowInv'
  BY NextRowInv
<1>3. RowInv => RegistersAreCurrent
  BY DEF RowInv, RegistersAreCurrent
<1> QED
  BY <1>1, <1>2, <1>3, NextTypes, PTL DEF StartupSpec

-----------------------------------------------------------------------------
(* A poller that has failed. *)

\* From the exception of a poll on nothing but the closing of the context is ahead of the
\* main thread, it happens before the thread ends, and the context stays closed.
FailureIsPassedOn ==
  /\ poll.at = "failed" => main \in {"failed", "ended"}
  /\ main = "ended" => context = "closed"

LEMMA PollFailuresEnd ==
  ASSUME FailureIsPassedOn, [StartupNext]_startupVars
  PROVE  FailureIsPassedOn'
<1> USE DEF FailureIsPassedOn
<1>1. CASE PollStep
  BY <1>1 DEF PollStep
<1>2. CASE Refresh \/ Generate \/ ReadModbus \/ Ready \/ HandleRunFailure
  BY <1>2 DEF Refresh, Generate, ReadModbus, Ready, HandleRunFailure, modbusVars
<1>3. CASE FakerFails \/ Terminate
  BY <1>3 DEF FakerFails, Terminate, modbusVars
<1>4. CASE Generator /\ UNCHANGED processVars
  BY <1>4 DEF Generator, NextRow, WriteRegister, processVars
<1>5. CASE (\E s \in Sensors : Toggle(s) \/ Transmit(s)) /\ UNCHANGED processVars
  BY <1>5 DEF Toggle, Transmit, Attempt, processVars
<1>6. CASE UNCHANGED startupVars
  BY <1>6 DEF startupVars, modbusVars, processVars
<1> QED
  BY <1>1, <1>2, <1>3, <1>4, <1>5, <1>6 DEF StartupNext, MainThread

\* The safety half of DeadPollerClosesContext: whatever else is configured, the exception
\* of a poll reaches the main thread, which neither goes on to the ready event nor ends
\* before the web server and the pipelines are closed.
THEOREM DeadPollerIsHeard == StartupSpec => []FailureIsPassedOn
<1>1. StartupInit => FailureIsPassedOn
  BY DEF StartupInit, Init, NoPoll, FailureIsPassedOn
<1> QED
  BY <1>1, PollFailuresEnd, PTL DEF StartupSpec
=============================================================================

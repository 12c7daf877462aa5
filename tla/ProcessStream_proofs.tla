------------------------ MODULE ProcessStream_proofs ------------------------
(***************************************************************************)
(* Proofs about ProcessStream and AlertService, for every set of           *)
(* pipelines and keys, every content of the topics, every window size and  *)
(* grace, every threshold, and however many toggles and restarts.          *)
(***************************************************************************)
EXTENDS ProcessStream, TLAPS

-----------------------------------------------------------------------------
(* The alert levels. *)

\* With the thresholds in their natural order, as the configuration ships them, no
\* reading is CRITICAL, however high: the WARNING comparison comes first.
THEOREM CriticalIsNeverRaised ==
  ASSUME NEW category \in Categories, NEW reading,
         reading.sum \in Int, reading.count \in Nat \ {0},
         WarningThreshold[category] \in Int, CriticalThreshold[category] \in Int,
         WarningThreshold[category] <= CriticalThreshold[category]
  PROVE  AlertLevel(category, reading) # "CRITICAL"
<1> DEFINE warning == WarningThreshold[category]
           critical == CriticalThreshold[category]
           count == reading.count
           sum == reading.sum
<1>1. warning * count <= critical * count
  <2>1. warning \in Int /\ critical \in Int /\ count \in Nat /\ warning <= critical
    OBVIOUS
  <2> HIDE DEF warning, critical, count
  <2> QED
    BY <2>1
<1>2. warning * count \in Int /\ critical * count \in Int /\ sum \in Int
  OBVIOUS
<1>3. sum > critical * count => sum > warning * count
  <2> HIDE DEF warning, critical, count, sum
  <2> QED
    BY <1>1, <1>2
<1> QED
  BY <1>3 DEF AlertLevel, Above

\* The put of a CRITICAL alert never changes the status of a configured device: its key
\* is the bare sensor id, and no device has such a key.
AlertMissesDevices ==
  [][Deactivate => \A d \in DeviceKeys : activeDevicesMap'[d] = activeDevicesMap[d]]_vars

THEOREM AlertNeverStopsADevice == Spec => AlertMissesDevices
<1> DEFINE Inv == DeviceKeys \subseteq DOMAIN activeDevicesMap
<1>1. Init => Inv
  BY DEF Init, AllActive, MapKeys
<1>2. Inv /\ [Next]_vars => Inv'
  <2> SUFFICES ASSUME Inv, [Next]_vars PROVE Inv'
    OBVIOUS
  <2>1. ASSUME UNCHANGED activeDevicesMap
        PROVE  Inv'
    BY <2>1
  <2>2. CASE \E p \in Pipelines : Process(p) \/ FlushWindow(p) \/ EmitClosed(p)
    BY <2>2, <2>1 DEF Process, FlushWindow, EmitClosed
  <2>3. CASE BeginCommit \/ FinishCommit \/ CheckForAlerts \/ WriteInflux \/ WriteRedis
             \/ SendOutput \/ StreamsFail
    BY <2>3, <2>1 DEF BeginCommit, FinishCommit, CheckForAlerts, WriteInflux, WriteRedis,
       SendOutput, StreamsFail
  <2>4. CASE Deactivate
    BY <2>4 DEF Deactivate, With
  <2>5. CASE \E d \in MapKeys, s \in {"ACTIVE", "INACTIVE"} : Toggle(d, s)
    BY <2>5 DEF Toggle
  <2>6. CASE Restart
    BY <2>6 DEF Restart, AllActive, MapKeys
  <2>7. CASE UNCHANGED vars
    BY <2>7, <2>1 DEF vars
  <2> QED
    BY <2>2, <2>3, <2>4, <2>5, <2>6, <2>7 DEF Next, StreamThread
<1>3. ASSUME Inv, Deactivate, NEW d \in DeviceKeys
      PROVE  activeDevicesMap'[d] = activeDevicesMap[d]
  <2> DEFINE key == AlertKey(sending.w[1])
  <2>1. activeDevicesMap' = With(activeDevicesMap, key, "INACTIVE")
    BY <1>3 DEF Deactivate
  <2>2. d # key
    <3>1. PICK p \in Pipelines, k \in Keys : d = <<p, k>>
      BY <1>3 DEF DeviceKeys, DeviceKey
    <3>2. Len(d) = 2 /\ Len(key) = 1
      BY <3>1 DEF AlertKey
    <3> QED
      BY <3>2
  <2> QED
    BY <1>3, <2>1, <2>2 DEF With
<1>4. Inv /\ [Next]_vars =>
        [Deactivate => \A d \in DeviceKeys : activeDevicesMap'[d] = activeDevicesMap[d]]_vars
  BY <1>3
<1> QED
  BY <1>1, <1>2, <1>4, PTL DEF Spec, AlertMissesDevices

-----------------------------------------------------------------------------
(* At least once.  A record that was folded in is, at every moment, published, *)
(* held back by suppress(), on its way, or in a changed window that is not     *)
(* flushed yet.  What a changelog holds after a crash may be newer than the    *)
(* last commit, for some windows and not for others; a record whose offset is  *)
(* committed is never among what is missing.                                   *)

\* The offsets of the windows that are changed and not flushed, and of the windows that
\* suppress()'s changelog holds for sure.
Unflushed(p) == UNION {agg[p][w].from : w \in DOMAIN dirty[p]}
Saved(p)     == UNION {saved[p].buffer[w].from : w \in DOMAIN saved[p].buffer}
Reported(p)  == Published(p) \cup HeldBack(p) \cup OnItsWay(p)

\* Every window of f is one of g, with at least the records f has.
Grows(f, g) == \A w \in DOMAIN f : w \in DOMAIN g /\ f[w].from \subseteq g[w].from

\* The window of the record at an offset, and whether a table has the record in it.
WindowAt(p, o)    == WindowOf(topic[p][o])
Contains(f, p, o) == WindowAt(p, o) \in DOMAIN f /\ o \in f[WindowAt(p, o)].from
OwnWindows(p, f)  == \A w \in DOMAIN f : \A o \in f[w].from : WindowAt(p, o) = w

IsUpdate(u)   == u = [pipeline |-> u.pipeline, w |-> u.w, agg |-> u.agg, stage |-> u.stage]
IsSequence(s) == \E S : s \in Seq(S)

Shapes ==
  /\ DOMAIN position = Pipelines /\ DOMAIN committed = Pipelines
  /\ DOMAIN agg = Pipelines /\ DOMAIN dirty = Pipelines /\ DOMAIN store = Pipelines
  /\ DOMAIN buffer = Pipelines /\ DOMAIN saved = Pipelines
  /\ DOMAIN output = Pipelines /\ DOMAIN accepted = Pipelines
  /\ \A p \in Pipelines : IsSequence(output[p])
  /\ sending # Nothing => IsUpdate(sending)

OffsetsOrdered ==
  \A p \in Pipelines : position[p] \in Nat /\ committed[p] \in Nat
                        /\ committed[p] <= position[p]

DirtyKnown == \A p \in Pipelines : DOMAIN dirty[p] \subseteq DOMAIN agg[p]

\* What is not marked as changed is in the store.
Nested ==
  \A p \in Pipelines :
    /\ Grows(store[p], agg[p]) /\ Grows(saved[p].store, store[p])
    /\ \A w \in DOMAIN agg[p] \ DOMAIN dirty[p] :
         w \in DOMAIN store[p] /\ agg[p][w].from \subseteq store[p][w].from

OwnRecords ==
  \A p \in Pipelines :
    /\ OwnWindows(p, agg[p]) /\ OwnWindows(p, store[p]) /\ OwnWindows(p, buffer[p])
    /\ OwnWindows(p, saved[p].store) /\ OwnWindows(p, saved[p].buffer)

Folded ==
  \A p \in Pipelines : \A o \in accepted[p] :
    /\ Contains(agg[p], p, o)
    /\ o <= committed[p] => Contains(saved[p].store, p, o)

AllCovered == \A p \in Pipelines : accepted[p] \subseteq Reported(p) \cup Unflushed(p)

CommittedCovered ==
  \A p \in Pipelines : \A o \in accepted[p] :
    o <= committed[p] => o \in Published(p) \cup Saved(p)

IInv == /\ Shapes /\ OffsetsOrdered /\ DirtyKnown /\ Nested /\ OwnRecords /\ Folded
        /\ AllCovered /\ CommittedCovered /\ CommittedIsReported

LEMMA InitCovered == Init => IInv
<1> SUFFICES ASSUME Init PROVE IInv
  OBVIOUS
<1>1. Shapes
  <2>1. <<>> \in Seq({})
    OBVIOUS
  <2> QED
    BY <2>1 DEF Init, Shapes, IsSequence
<1>2. OffsetsOrdered /\ DirtyKnown
  BY DEF Init, OffsetsOrdered, DirtyKnown, Empty
<1>3. Nested /\ OwnRecords
  BY DEF Init, Nested, Grows, OwnRecords, OwnWindows, Empty
<1>4. Folded /\ AllCovered /\ CommittedCovered /\ CommittedIsReported
  BY DEF Init, Folded, AllCovered, CommittedCovered, CommittedIsReported
<1> QED
  BY <1>1, <1>2, <1>3, <1>4 DEF IInv

\* A step that changes at most the stage of the update on its way, the sinks other than
\* the topic, the devices' statuses and the counters, keeps the invariant.
LEMMA QuietStep ==
  ASSUME IInv, sending # Nothing => sending' # Nothing /\ IsUpdate(sending'),
         sending # Nothing => sending'.pipeline = sending.pipeline /\ sending'.agg = sending.agg,
         sending = Nothing => sending' = Nothing,
         UNCHANGED <<topic, position, committed, agg, dirty, store, buffer, saved, output,
                     accepted>>
  PROVE  IInv'
<1>1. Shapes' /\ OffsetsOrdered' /\ DirtyKnown' /\ Nested'
  BY DEF IInv, Shapes, OffsetsOrdered, DirtyKnown, Nested
<1>2. OwnRecords' /\ Folded'
  BY DEF IInv, OwnRecords, OwnWindows, Folded, Contains, WindowAt
<1>3. \A p : OnItsWay(p)' = OnItsWay(p)
  BY DEF OnItsWay
<1>4. \A p : Published(p)' = Published(p) /\ HeldBack(p)' = HeldBack(p)
              /\ Unflushed(p)' = Unflushed(p) /\ Saved(p)' = Saved(p)
  BY DEF Published, HeldBack, Unflushed, Saved
<1>5. \A p : Reported(p)' = Reported(p)
  BY <1>3, <1>4 DEF Reported
<1>6. AllCovered' /\ CommittedCovered' /\ CommittedIsReported'
  BY <1>3, <1>4, <1>5 DEF IInv, AllCovered, CommittedCovered, CommittedIsReported
<1> QED
  BY <1>1, <1>2, <1>6 DEF IInv

\* Reading a record: its window grows, and is marked as changed.
LEMMA ProcessKeeps ==
  ASSUME IInv, NEW p \in Pipelines, Process(p)
  PROVE  IInv'
<1> USE DEF IInv
<1>1. /\ DOMAIN position = Pipelines /\ DOMAIN agg = Pipelines /\ DOMAIN dirty = Pipelines
      /\ DOMAIN accepted = Pipelines /\ position[p] \in Nat
  BY DEF Shapes, OffsetsOrdered
<1> DEFINE offset == position[p] + 1
           r == topic[p][offset]
           w == WindowOf(r)
           a == Fold(p, r, offset)
<1>2. UNCHANGED <<topic, committed, store, buffer, saved, output, sending>>
  BY DEF Process, sinkVars, bufferVars
<1>3. position' = [position EXCEPT ![p] = offset]
  BY DEF Process
<1>4. \/ UNCHANGED <<agg, dirty, accepted>>
      \/ /\ agg' = [agg EXCEPT ![p] = With(agg[p], w, a)]
         /\ dirty' = [dirty EXCEPT ![p] = With(dirty[p], w, offset)]
         /\ accepted' = [accepted EXCEPT ![p] = accepted[p] \cup {offset}]
  BY DEF Process, MarkChanged
<1>5. /\ offset \in a.from
      /\ w \in DOMAIN agg[p] => agg[p][w].from \subseteq a.from
      /\ a.from \subseteq {offset} \cup (IF w \in DOMAIN agg[p] THEN agg[p][w].from ELSE {})
      /\ w = WindowAt(p, offset)
  BY DEF Fold, WindowAt
<1> HIDE DEF r, w, a
<1>6. Shapes'
  BY <1>2, <1>3, <1>4 DEF Shapes
<1>7. OffsetsOrdered'
  BY <1>1, <1>2, <1>3 DEF Shapes, OffsetsOrdered
<1>8. \A q \in Pipelines : Grows(agg[q], agg'[q])
  BY <1>1, <1>4, <1>5 DEF Grows, With
<1>9. \A q \in Pipelines : /\ DOMAIN dirty[q] \subseteq DOMAIN dirty'[q]
                           /\ DOMAIN dirty'[q] \subseteq DOMAIN agg'[q]
  BY <1>1, <1>4 DEF With, DirtyKnown
<1>10. DirtyKnown'
  BY <1>9 DEF DirtyKnown
<1>11. Nested'
  <2>1. \A q \in Pipelines : \A v \in DOMAIN agg'[q] \ DOMAIN dirty'[q] :
          v \in DOMAIN agg[q] \ DOMAIN dirty[q] /\ agg'[q][v] = agg[q][v]
    BY <1>1, <1>4 DEF With
  <2> QED
    BY <1>2, <1>8, <2>1 DEF Nested, Grows
<1>11a. OwnRecords'
  <2>1. \A q, o : WindowAt(q, o)' = WindowAt(q, o)
    BY <1>2 DEF WindowAt
  <2>2. \A q \in Pipelines : OwnWindows(q, agg[q]) => OwnWindows(q, agg[q])'
    BY <1>1, <1>4, <1>5, <2>1 DEF OwnWindows, With
  <2> QED
    BY <1>2, <2>1, <2>2 DEF OwnRecords, OwnWindows
<1>12. \A q : /\ Published(q)' = Published(q) /\ HeldBack(q)' = HeldBack(q)
              /\ OnItsWay(q)' = OnItsWay(q) /\ Saved(q)' = Saved(q)
  BY <1>2 DEF Published, HeldBack, OnItsWay, Saved
<1>13. \A q : Reported(q)' = Reported(q)
  BY <1>12 DEF Reported
<1>14. \A q \in Pipelines : Unflushed(q) \subseteq Unflushed(q)'
  BY <1>8, <1>9 DEF Unflushed, Grows, DirtyKnown
<1>15. \A q \in Pipelines : \A o \in accepted'[q] :
         o \in accepted[q] \/ (o \in Unflushed(q)' /\ o > committed'[q])
  <2>1. CASE UNCHANGED <<agg, dirty, accepted>>
    BY <2>1
  <2>2. CASE /\ agg' = [agg EXCEPT ![p] = With(agg[p], w, a)]
             /\ dirty' = [dirty EXCEPT ![p] = With(dirty[p], w, offset)]
             /\ accepted' = [accepted EXCEPT ![p] = accepted[p] \cup {offset}]
    <3>1. offset \in Unflushed(p)'
      BY <2>2, <1>1, <1>5 DEF Unflushed, With
    <3>2. offset > committed'[p]
      BY <1>1, <1>2 DEF OffsetsOrdered
    <3> QED
      BY <2>2, <3>1, <3>2, <1>1
  <2> QED
    BY <1>4, <2>1, <2>2
<1>16. AllCovered'
  BY <1>13, <1>14, <1>15 DEF AllCovered
<1>17. \A q \in Pipelines : \A o \in accepted'[q] :
         \/ o \in accepted[q]
         \/ /\ q = p /\ o = offset /\ ~(o <= committed'[q])
            /\ agg' = [agg EXCEPT ![p] = With(agg[p], w, a)]
  <2>1. ~(offset <= committed'[p])
    BY <1>1, <1>2 DEF OffsetsOrdered
  <2> HIDE DEF offset
  <2> QED
    BY <1>1, <1>4, <2>1
<1>18. CommittedCovered' /\ CommittedIsReported'
  BY <1>2, <1>12, <1>17 DEF CommittedCovered, CommittedIsReported
<1>20. Folded'
  <2>1. \A q, o : WindowAt(q, o)' = WindowAt(q, o)
    BY <1>2 DEF WindowAt
  <2>2. \A q \in Pipelines : \A o : Contains(agg[q], q, o) => Contains(agg'[q], q, o)
    BY <1>8 DEF Contains, Grows
  <2>3. agg' = [agg EXCEPT ![p] = With(agg[p], w, a)] => Contains(agg'[p], p, offset)
    BY <1>1, <1>5 DEF Contains, With
  <2>4. \A q \in Pipelines : \A o \in accepted'[q] :
          /\ Contains(agg'[q], q, o)
          /\ o <= committed'[q] => Contains(saved'[q].store, q, o)
    <3> HIDE DEF offset
    <3> QED
      BY <1>2, <1>17, <2>2, <2>3 DEF Folded
  <2> QED
    BY <2>1, <2>4 DEF Folded, Contains
<1> QED
  BY <1>6, <1>7, <1>10, <1>11, <1>16, <1>11a, <1>18, <1>20

\* Flushing a window: its records go from the cache to suppress(), or on their way.
LEMMA FlushKeeps ==
  ASSUME IInv, NEW p \in Pipelines, FlushWindow(p)
  PROVE  IInv'
<1> USE DEF IInv
<1>1. DOMAIN store = Pipelines /\ DOMAIN buffer = Pipelines /\ DOMAIN dirty = Pipelines
  BY DEF Shapes
<1>2. sending = Nothing /\ UNCHANGED <<topic, position, committed, agg, saved, output, accepted>>
  BY DEF FlushWindow, sinkVars
<1>3. PICK w \in DOMAIN dirty[p] :
        /\ store' = [store EXCEPT ![p] = With(store[p], w, agg[p][w])]
        /\ dirty' = [dirty EXCEPT ![p] = Without(dirty[p], w)]
        /\ \/ /\ buffer' = [buffer EXCEPT ![p] = With(buffer[p], w, agg[p][w])]
              /\ UNCHANGED sending
           \/ /\ sending' = Update(p, w, agg[p][w])
              /\ UNCHANGED buffer
  BY DEF FlushWindow, bufferVars
<1>4. w \in DOMAIN agg[p]
  BY DEF DirtyKnown
<1>5. Shapes'
  BY <1>2, <1>3 DEF Shapes, IsUpdate, Update
<1>6. OffsetsOrdered'
  BY <1>2 DEF OffsetsOrdered
<1>7. DirtyKnown'
  BY <1>1, <1>2, <1>3 DEF DirtyKnown, Without
<1>8. \A q \in Pipelines : Grows(store[q], store'[q]) /\ Grows(store'[q], agg'[q])
  BY <1>1, <1>2, <1>3, <1>4 DEF Nested, Grows, With
<1>9. Nested'
  <2>1. \A q \in Pipelines : \A v \in DOMAIN agg'[q] \ DOMAIN dirty'[q] :
          v \in DOMAIN store'[q] /\ agg'[q][v].from \subseteq store'[q][v].from
    BY <1>1, <1>2, <1>3 DEF Nested, With, Without
  <2> QED
    BY <1>2, <1>8, <2>1 DEF Nested, Grows
<1>10. \A q, o : WindowAt(q, o)' = WindowAt(q, o)
  BY <1>2 DEF WindowAt
<1>11. OwnRecords' /\ Folded'
  <2>1. \A q \in Pipelines : OwnWindows(q, store'[q]) /\ OwnWindows(q, buffer'[q])
    BY <1>1, <1>3, <1>4 DEF OwnRecords, OwnWindows, With
  <2> QED
    BY <1>2, <1>10, <2>1 DEF OwnRecords, OwnWindows, Folded, Contains
<1>12. \A q \in Pipelines : /\ Published(q)' = Published(q) /\ Saved(q)' = Saved(q)
                            /\ OnItsWay(q) = {}
  BY <1>2 DEF Published, Saved, OnItsWay
<1>12a. \A q \in Pipelines : \A o \in accepted[q] : o \in HeldBack(q) => o \in HeldBack(q)'
  <2> SUFFICES ASSUME NEW q \in Pipelines, NEW o \in accepted[q],
                      NEW v \in DOMAIN buffer[q], o \in buffer[q][v].from
               PROVE  o \in HeldBack(q)'
    BY DEF HeldBack
  <2>1. v = WindowAt(q, o) /\ o \in agg[q][v].from
    BY DEF OwnRecords, OwnWindows, Folded, Contains
  <2>2. v \in DOMAIN buffer'[q] /\ buffer'[q][v] \in {buffer[q][v], agg[q][v]}
    BY <1>1, <1>3 DEF With
  <2> QED
    BY <2>1, <2>2 DEF HeldBack
<1>13. \A q \in Pipelines : \A o \in accepted[q] : o \in Reported(q) => o \in Reported(q)'
  BY <1>12, <1>12a DEF Reported
<1>14. agg[p][w].from \subseteq Reported(p)'
  <2>1. CASE buffer' = [buffer EXCEPT ![p] = With(buffer[p], w, agg[p][w])]
    BY <1>1, <2>1 DEF Reported, HeldBack, With
  <2>2. CASE sending' = Update(p, w, agg[p][w])
    <3>1. sending' # Nothing /\ sending'.pipeline = p /\ sending'.agg = agg[p][w]
      BY <2>2 DEF Update, Nothing
    <3> QED
      BY <3>1 DEF Reported, OnItsWay
  <2> QED
    BY <1>3, <2>1, <2>2
<1>15. \A q \in Pipelines : Unflushed(q) \subseteq Unflushed(q)' \cup Reported(q)'
  BY <1>1, <1>2, <1>3, <1>14 DEF Unflushed, Without
<1>16. AllCovered'
  BY <1>2, <1>13, <1>15 DEF AllCovered
<1>17. CommittedCovered' /\ CommittedIsReported'
  BY <1>2, <1>12, <1>13 DEF CommittedCovered, CommittedIsReported, Reported
<1> QED
  BY <1>5, <1>6, <1>7, <1>9, <1>11, <1>16, <1>17

\* A closed window leaves suppress() and is on its way.
LEMMA EmitKeeps ==
  ASSUME IInv, NEW p \in Pipelines, EmitClosed(p)
  PROVE  IInv'
<1> USE DEF IInv
<1>1. DOMAIN buffer = Pipelines
  BY DEF Shapes
<1>2. /\ sending = Nothing
      /\ UNCHANGED <<topic, position, committed, agg, dirty, store, saved, output, accepted>>
  BY DEF EmitClosed, sinkVars, taskVars
<1>3. PICK w \in DOMAIN buffer[p] : /\ sending' = Update(p, w, buffer[p][w])
                                   /\ buffer' = [buffer EXCEPT ![p] = Without(buffer[p], w)]
  BY DEF EmitClosed, Ready
<1>4. sending' # Nothing /\ sending'.pipeline = p /\ sending'.agg = buffer[p][w]
  BY <1>3 DEF Update, Nothing
<1>5. Shapes'
  BY <1>2, <1>3 DEF Shapes, IsUpdate, Update
<1>6. OffsetsOrdered' /\ DirtyKnown'
  BY <1>2 DEF OffsetsOrdered, DirtyKnown
<1>7. Nested' /\ OwnRecords' /\ Folded'
  <2>1. \A q, o : WindowAt(q, o)' = WindowAt(q, o)
    BY <1>2 DEF WindowAt
  <2>2. \A q \in Pipelines : OwnWindows(q, buffer'[q])
    BY <1>1, <1>3 DEF OwnRecords, OwnWindows, Without
  <2> QED
    BY <1>2, <2>1, <2>2 DEF Nested, OwnRecords, OwnWindows, Folded, Contains
<1>8. \A q \in Pipelines : /\ Published(q)' = Published(q) /\ Saved(q)' = Saved(q)
                           /\ Unflushed(q)' = Unflushed(q) /\ OnItsWay(q) = {}
  BY <1>2 DEF Published, Saved, Unflushed, OnItsWay
<1>9. \A q \in Pipelines : HeldBack(q) \subseteq HeldBack(q)' \cup OnItsWay(q)'
  BY <1>1, <1>3, <1>4 DEF HeldBack, OnItsWay, Without
<1>10. \A q \in Pipelines : Reported(q) \subseteq Reported(q)'
  BY <1>8, <1>9 DEF Reported
<1>11. AllCovered' /\ CommittedCovered' /\ CommittedIsReported'
  BY <1>2, <1>8, <1>10 DEF AllCovered, CommittedCovered, CommittedIsReported, Reported
<1> QED
  BY <1>5, <1>6, <1>7, <1>11

\* What was on its way is published.
LEMMA SendKeeps ==
  ASSUME IInv, SendOutput
  PROVE  IInv'
<1> USE DEF IInv
<1>1. /\ sending # Nothing /\ sending' = Nothing
      /\ UNCHANGED <<topic, position, committed, agg, dirty, store, buffer, saved, accepted>>
  BY DEF SendOutput, InHand, Nothing, taskVars, bufferVars
<1> DEFINE p == sending.pipeline
           out == [w |-> sending.w, agg |-> sending.agg]
<1>2. output' = [output EXCEPT ![p] = Append(output[p], out)]
  BY DEF SendOutput
<1>3. \A q \in Pipelines : \A S : output[q] \in Seq(S) =>
        /\ output'[q] \in Seq(S \cup {out})
        /\ Len(output[q]) \in Nat
        /\ q = p => /\ Len(output'[q]) = Len(output[q]) + 1
                   /\ output'[q][Len(output[q]) + 1] = out
                   /\ \A i \in 1..Len(output[q]) : output'[q][i] = output[q][i]
        /\ q # p => output'[q] = output[q]
  <2> SUFFICES ASSUME NEW q \in Pipelines, NEW S, output[q] \in Seq(S)
               PROVE  /\ output'[q] \in Seq(S \cup {out})
                      /\ Len(output[q]) \in Nat
                      /\ q = p => /\ Len(output'[q]) = Len(output[q]) + 1
                                 /\ output'[q][Len(output[q]) + 1] = out
                                 /\ \A i \in 1..Len(output[q]) : output'[q][i] = output[q][i]
                      /\ q # p => output'[q] = output[q]
    OBVIOUS
  <2>1. output[q] \in Seq(S \cup {out}) /\ out \in S \cup {out}
    OBVIOUS
  <2>2. q \in DOMAIN output
    BY DEF Shapes
  <2> HIDE DEF out, p
  <2> QED
    BY <1>2, <2>1, <2>2
<1> HIDE DEF p, out
<1>4. Shapes'
  BY <1>1, <1>2, <1>3 DEF Shapes, IsSequence
<1>5. OffsetsOrdered' /\ DirtyKnown' /\ Nested' /\ OwnRecords' /\ Folded'
  BY <1>1 DEF OffsetsOrdered, DirtyKnown, Nested, OwnRecords, OwnWindows, Folded, Contains,
     WindowAt
<1>6. \A q \in Pipelines : Published(q) \cup OnItsWay(q) \subseteq Published(q)'
  <2> SUFFICES ASSUME NEW q \in Pipelines, NEW o \in Published(q) \cup OnItsWay(q)
               PROVE  \E i \in 1..Len(output'[q]) : o \in output'[q][i].agg.from
    BY DEF Published
  <2>1. PICK S : output[q] \in Seq(S)
    BY DEF Shapes, IsSequence
  <2> DEFINE n == Len(output[q])
  <2>2. /\ n \in Nat
        /\ q = p => /\ Len(output'[q]) = n + 1 /\ output'[q][n + 1] = out
                   /\ \A i \in 1..n : output'[q][i] = output[q][i]
        /\ q # p => output'[q] = output[q]
    BY <2>1, <1>3
  <2>3. CASE o \in Published(q)
    <3>1. PICK i \in 1..n : o \in output[q][i].agg.from
      BY <2>3 DEF Published
    <3>2. i \in 1..Len(output'[q]) /\ output'[q][i] = output[q][i]
      BY <2>2
    <3> QED
      BY <3>1, <3>2
  <2>4. CASE o \in OnItsWay(q)
    <3>1. q = p /\ o \in sending.agg.from
      BY <2>4 DEF OnItsWay, p
    <3>2. o \in out.agg.from
      BY <3>1 DEF out
    <3>3. n + 1 \in 1..Len(output'[q])
      BY <2>2, <3>1
    <3> QED
      BY <2>2, <3>1, <3>2, <3>3
  <2> QED
    BY <2>3, <2>4
<1>7. \A q : HeldBack(q)' = HeldBack(q) /\ Unflushed(q)' = Unflushed(q) /\ Saved(q)' = Saved(q)
  BY <1>1 DEF HeldBack, Unflushed, Saved
<1>8. \A q \in Pipelines : Reported(q) \subseteq Reported(q)'
  BY <1>6, <1>7 DEF Reported
<1>9. AllCovered' /\ CommittedCovered' /\ CommittedIsReported'
  BY <1>1, <1>6, <1>7, <1>8
     DEF AllCovered, CommittedCovered, CommittedIsReported, Reported
<1> QED
  BY <1>4, <1>5, <1>9

\* A commit: everything is flushed, so whatever is not published is in what is saved.
LEMMA CommitKeeps ==
  ASSUME IInv, FinishCommit
  PROVE  IInv'
<1> USE DEF IInv
<1>1. /\ sending = Nothing
      /\ \A p \in Pipelines : DOMAIN dirty[p] = {}
      /\ committed' = [p \in Pipelines |-> position[p]]
      /\ saved' = [p \in Pipelines |-> [store |-> store[p], buffer |-> buffer[p]]]
      /\ UNCHANGED <<topic, position, agg, dirty, store, buffer, sending, output, accepted>>
  BY DEF FinishCommit, Flushed, CommitOffset, taskVars, bufferVars, sinkVars
<1>2. Shapes' /\ OffsetsOrdered' /\ DirtyKnown'
  BY <1>1 DEF Shapes, OffsetsOrdered, DirtyKnown
<1>3. Nested' /\ OwnRecords' /\ Folded'
  <2>1. \A q, o : WindowAt(q, o)' = WindowAt(q, o)
    BY <1>1 DEF WindowAt
  <2>2. \A q \in Pipelines : \A o : Contains(agg[q], q, o) => Contains(store[q], q, o)
    BY <1>1 DEF Nested, Contains
  <2>3. Nested'
    BY <1>1 DEF Nested, Grows
  <2>4. OwnRecords'
    BY <1>1, <2>1 DEF OwnRecords, OwnWindows
  <2>5. Folded'
    BY <1>1, <2>1, <2>2 DEF Folded, Contains
  <2> QED
    BY <2>3, <2>4, <2>5
<1>4. \A p \in Pipelines : /\ Published(p)' = Published(p) /\ HeldBack(p)' = HeldBack(p)
                           /\ OnItsWay(p) = {} /\ OnItsWay(p)' = {}
                           /\ Unflushed(p) = {} /\ Saved(p)' = HeldBack(p)
  BY <1>1 DEF Published, HeldBack, OnItsWay, Unflushed, Saved
<1>5. AllCovered' /\ CommittedCovered' /\ CommittedIsReported'
  BY <1>1, <1>4 DEF AllCovered, CommittedCovered, CommittedIsReported, Reported
<1> QED
  BY <1>2, <1>3, <1>5

\* Every window of a restored table is as it was at the commit, or as it was before the
\* crash.
LEMMA RestoredWindows ==
  ASSUME NEW old, NEW new, NEW reached
  PROVE  \A w \in DOMAIN Restored(old, new, reached) :
           \/ w \in DOMAIN old /\ w \notin reached /\ Restored(old, new, reached)[w] = old[w]
           \/ w \in DOMAIN new /\ w \in reached /\ Restored(old, new, reached)[w] = new[w]
BY DEF Restored

\* What a restart finds.
LEMMA RestartFacts ==
  ASSUME Restart
  PROVE  /\ position' = committed /\ agg' = store' /\ sending' = Nothing
         /\ saved' = [p \in Pipelines |-> [store |-> store'[p], buffer |-> buffer'[p]]]
         /\ accepted' = [p \in Pipelines |-> {o \in accepted[p] : o <= committed[p]}]
         /\ dirty' = [p \in Pipelines |-> Empty]
         /\ UNCHANGED <<topic, committed, output>>
         /\ \E reached : /\ \A p \in Pipelines : reached[p] \subseteq DOMAIN store[p]
                         /\ store' = [p \in Pipelines |->
                              Restored(saved[p].store, store[p], reached[p])]
         /\ \E reached : /\ \A p \in Pipelines : reached[p] \subseteq Logged(p)
                         /\ buffer' = [p \in Pipelines |->
                              Restored(saved[p].buffer, buffer[p], reached[p])]
BY DEF Restart, sinkVars

\* A restart: what is not committed is read again.  What is committed and not published was
\* saved with suppress()'s buffer; if the changelog has got ahead for its window, all the
\* pipeline's changes were flushed, and the window is still held back or was published.
LEMMA RestartKeeps ==
  ASSUME IInv, Restart
  PROVE  IInv'
<1> USE DEF IInv
<1>1. /\ position' = committed /\ agg' = store' /\ sending' = Nothing
      /\ saved' = [p \in Pipelines |-> [store |-> store'[p], buffer |-> buffer'[p]]]
      /\ accepted' = [p \in Pipelines |-> {o \in accepted[p] : o <= committed[p]}]
      /\ dirty' = [p \in Pipelines |-> Empty]
      /\ UNCHANGED <<topic, committed, output>>
  BY RestartFacts
<1>2. PICK stored :
        /\ \A p \in Pipelines : stored[p] \subseteq DOMAIN store[p]
        /\ store' = [p \in Pipelines |-> Restored(saved[p].store, store[p], stored[p])]
  BY RestartFacts
<1>3. PICK logged :
        /\ \A p \in Pipelines : logged[p] \subseteq Logged(p)
        /\ buffer' = [p \in Pipelines |-> Restored(saved[p].buffer, buffer[p], logged[p])]
  BY RestartFacts
<1>4. Shapes' /\ OffsetsOrdered'
  BY <1>1, <1>2, <1>3 DEF Shapes, OffsetsOrdered
<1>5. DirtyKnown' /\ Nested'
  BY <1>1 DEF DirtyKnown, Nested, Grows, Empty
<1>6. \A q, o : WindowAt(q, o)' = WindowAt(q, o)
  BY <1>1 DEF WindowAt
<1>7. OwnRecords'
  <2>1. \A p \in Pipelines : OwnWindows(p, store'[p])
    BY <1>2, RestoredWindows DEF OwnRecords, OwnWindows
  <2>2. \A p \in Pipelines : OwnWindows(p, buffer'[p])
    BY <1>3, RestoredWindows DEF OwnRecords, OwnWindows
  <2> QED
    BY <1>1, <1>6, <2>1, <2>2 DEF OwnRecords, OwnWindows
<1>8. Folded'
  <2> SUFFICES ASSUME NEW p \in Pipelines, NEW o \in accepted'[p]
               PROVE  Contains(store'[p], p, o)
    BY <1>1, <1>6 DEF Folded, Contains
  <2> DEFINE w == WindowAt(p, o)
  <2>1. w \in DOMAIN saved[p].store /\ o \in saved[p].store[w].from
    BY <1>1 DEF Folded, Contains
  <2>2. w \in DOMAIN store[p] /\ o \in store[p][w].from
    BY <2>1 DEF Nested, Grows
  <2>3. store'[p] = Restored(saved[p].store, store[p], stored[p])
    BY <1>2
  <2>4. w \in DOMAIN store'[p] /\ store'[p][w] \in {saved[p].store[w], store[p][w]}
    BY <2>1, <2>2, <2>3 DEF Restored
  <2> QED
    BY <2>1, <2>2, <2>4 DEF Contains
<1>9. ASSUME NEW p \in Pipelines, NEW o \in accepted[p], o <= committed[p]
      PROVE  o \in Published(p) \cup HeldBack(p)'
  <2> SUFFICES ASSUME o \notin Published(p)
               PROVE  \E v \in DOMAIN buffer'[p] : o \in buffer'[p][v].from
    BY DEF HeldBack
  <2>1. PICK v \in DOMAIN saved[p].buffer : o \in saved[p].buffer[v].from
    BY <1>9 DEF CommittedCovered, Saved
  <2>2. v = WindowAt(p, o)
    BY <2>1 DEF OwnRecords, OwnWindows
  <2>3. buffer'[p] = Restored(saved[p].buffer, buffer[p], logged[p])
    BY <1>3
  <2>4. CASE v \notin logged[p]
    BY <2>1, <2>3, <2>4 DEF Restored
  <2>5. CASE v \in logged[p]
    <3>1. DOMAIN dirty[p] = {} /\ (sending # Nothing => sending.pipeline # p)
      BY <1>3, <2>5 DEF Logged
    <3>2. Unflushed(p) = {} /\ OnItsWay(p) = {}
      BY <3>1 DEF Unflushed, OnItsWay
    <3>3. PICK u \in DOMAIN buffer[p] : o \in buffer[p][u].from
      BY <3>2 DEF AllCovered, Reported, HeldBack
    <3>4. u = v
      BY <2>2, <3>3 DEF OwnRecords, OwnWindows
    <3> QED
      BY <2>3, <2>5, <3>3, <3>4 DEF Restored
  <2> QED
    BY <2>4, <2>5
<1>10. \A p \in Pipelines : Published(p)' = Published(p) /\ Saved(p)' = HeldBack(p)'
  BY <1>1 DEF Published, Saved, HeldBack
<1>11. AllCovered' /\ CommittedCovered' /\ CommittedIsReported'
  BY <1>1, <1>9, <1>10 DEF AllCovered, CommittedCovered, CommittedIsReported, Reported
<1> QED
  BY <1>4, <1>5, <1>7, <1>8, <1>11

LEMMA StepKeepsCovered == IInv /\ [Next]_vars => IInv'
<1> SUFFICES ASSUME IInv, [Next]_vars PROVE IInv'
  OBVIOUS
<1>1. ASSUME NEW s \in {"deactivate", "influx", "redis", "output"},
             sending.stage # "nothing", NextStage(s),
             UNCHANGED <<topic, position, committed, agg, dirty, store, buffer, saved, output,
                       accepted>>
      PROVE  IInv'
  <2>1. sending # Nothing /\ IsUpdate(sending)
    BY <1>1 DEF Nothing, IInv, Shapes
  <2>2. sending' = [pipeline |-> sending.pipeline, w |-> sending.w,
                    agg |-> sending.agg, stage |-> s]
    BY <1>1, <2>1 DEF NextStage, IsUpdate
  <2>3. sending' # Nothing /\ IsUpdate(sending')
    BY <2>2 DEF Nothing, IsUpdate
  <2> QED
    BY <1>1, <2>1, <2>2, <2>3, QuietStep
<1>2. ASSUME UNCHANGED <<topic, position, committed, agg, dirty, store, buffer, saved, output,
                         accepted, sending>>
      PROVE  IInv'
  BY <1>2, QuietStep DEF IInv, Shapes
<1>3. ASSUME CheckForAlerts
      PROVE  IInv'
  <2>1. UNCHANGED <<topic, position, committed, agg, dirty, store, buffer, saved, output,
                       accepted>>
    BY <1>3 DEF CheckForAlerts, taskVars, bufferVars, sinkVars
  <2>2. sending.stage # "nothing"
    BY <1>3 DEF CheckForAlerts, InHand
  <2> QED
    BY <1>1, <1>2, <1>3, <2>1, <2>2 DEF CheckForAlerts
<1>4. ASSUME Deactivate \/ WriteInflux \/ WriteRedis
      PROVE  IInv'
  BY <1>1, <1>4
     DEF Deactivate, WriteInflux, WriteRedis, InHand, taskVars, bufferVars, sinkVars
<1>5. ASSUME BeginCommit \/ (\E d \in MapKeys, s \in {"ACTIVE", "INACTIVE"} : Toggle(d, s))
             \/ StreamsFail \/ UNCHANGED vars
      PROVE  IInv'
  BY <1>2, <1>5 DEF BeginCommit, Toggle, StreamsFail, vars, taskVars, bufferVars, sinkVars
<1> QED
  BY <1>3, <1>4, <1>5, ProcessKeeps, FlushKeeps, EmitKeeps, SendKeeps, CommitKeeps,
     RestartKeeps DEF Next, StreamThread

\* At least once, for every log, window size and grace, and through any number of failed
\* mails, dead clients and restarts, from whatever the changelogs hold by then: no offset is
\* committed before the record it stands for is published in an aggregate or saved with the
\* windows that wait to be published.
THEOREM CommittedReported == Spec => []CommittedIsReported
<1>1. IInv => CommittedIsReported
  BY DEF IInv
<1> QED
  BY <1>1, InitCovered, StepKeepsCovered, PTL DEF Spec
-----------------------------------------------------------------------------
(* Types.  What a task restores and what it has read keep their types through *)
(* every failure; the order of the two stream times is the part that needs    *)
(* more: what is in a window has been seen by the aggregator.                  *)

TaskType(p) ==
  /\ position[p] \in 0..Len(topic[p])
  /\ committed[p] \in 0..position[p]
  /\ accepted[p] \subseteq 1..position[p]

TablesType(p) ==
  /\ IsTable(agg[p]) /\ IsTable(store[p]) /\ IsTable(buffer[p])
  /\ IsTable(saved[p].store) /\ IsTable(saved[p].buffer)
  /\ DOMAIN dirty[p] \subseteq DOMAIN agg[p]

ClocksType(p) ==
  /\ observed[p] \in Nat \cup {-1} /\ closing[p] \in Nat \cup {-1}
  /\ restarts = 0 => /\ closing[p] <= observed[p]
                     /\ \A w \in DOMAIN agg[p] : agg[p][w].time <= observed[p]

SharedType ==
  /\ topic \in Logs /\ restarts \in Nat
  /\ client \in {"running", "committing", "dead"}
  /\ activeDevicesMap \in [MapKeys -> {"ACTIVE", "INACTIVE", Null}]
  /\ DOMAIN position = Pipelines /\ DOMAIN observed = Pipelines
  /\ DOMAIN agg = Pipelines /\ DOMAIN dirty = Pipelines /\ DOMAIN store = Pipelines
  /\ DOMAIN buffer = Pipelines /\ DOMAIN closing = Pipelines
  /\ DOMAIN committed = Pipelines /\ DOMAIN accepted = Pipelines
  /\ sending # Nothing => /\ IsUpdate(sending)
                          /\ sending.pipeline \in Pipelines /\ sending.w \in Keys \X Nat

PipelineType(p) == TaskType(p) /\ TablesType(p) /\ ClocksType(p)

TypeInv == SharedType /\ \A p \in Pipelines : PipelineType(p)

\* The start of the window of a time is a time.
LEMMA StartIsATime ==
  ASSUME NEW t \in Nat
  PROVE  (t \div WindowSize) * WindowSize \in Nat
<1> DEFINE q == t \div WindowSize
<1>1. q \in Nat
  BY WindowAssumption
<1> HIDE DEF q
<1>2. q * WindowSize \in Nat
  BY <1>1, WindowAssumption
<1> QED
  BY <1>2 DEF q

\* What a topic holds at an offset up to its end.
LEMMA RecordTypes ==
  ASSUME topic \in Logs, NEW p \in Pipelines
  PROVE  /\ Len(topic[p]) \in Nat
         /\ \A i \in 1..Len(topic[p]) :
              /\ topic[p][i].value \in Int \cup {NoValue}
              /\ topic[p][i].time \in Nat
              /\ WindowOf(topic[p][i]) = <<topic[p][i].key, WindowOf(topic[p][i])[2]>>
              /\ WindowOf(topic[p][i])[2] \in Nat
<1>1. topic[p] \in Seq({topic[p][j] : j \in DOMAIN topic[p]})
  BY LogsAssumption
<1>2. ASSUME NEW i \in 1..Len(topic[p])
      PROVE  /\ topic[p][i].value \in Int \cup {NoValue}
             /\ topic[p][i].time \in Nat
             /\ WindowOf(topic[p][i]) = <<topic[p][i].key, WindowOf(topic[p][i])[2]>>
             /\ WindowOf(topic[p][i])[2] \in Nat
  <2>1. i \in DOMAIN topic[p]
    BY <1>1, <1>2
  <2>2. topic[p][i].value \in Int \cup {NoValue} /\ topic[p][i].time \in Nat
    BY <2>1, LogsAssumption
  <2> QED
    BY <2>2, StartIsATime DEF WindowOf
<1> QED
  BY <1>1, <1>2

\* The filters let through records of configured sensors only.
LEMMA FilteredKeys ==
  ASSUME NEW p \in Pipelines, NEW r, PassesFilters(p, r)
  PROVE  r.key \in Keys
<1>1. DeviceKey(p, r.key) \in MapKeys
  BY DEF PassesFilters
<1>2. CASE DeviceKey(p, r.key) \in DeviceKeys
  BY <1>2 DEF DeviceKeys, DeviceKey
<1>3. ASSUME NEW k, DeviceKey(p, r.key) = AlertKey(k)
      PROVE  FALSE
  <2>1. Len(DeviceKey(p, r.key)) = 2 /\ Len(AlertKey(k)) = 1
    BY DEF DeviceKey, AlertKey
  <2> QED
    BY <1>3, <2>1
<1> QED
  BY <1>1, <1>2, <1>3 DEF MapKeys

\* One more row.
LEMMA TableWith ==
  ASSUME NEW f, IsTable(f), NEW w \in Keys \X Nat, NEW a \in Aggregates
  PROVE  IsTable(With(f, w, a))
  BY DEF IsTable, With

LEMMA InitTyped == Init => TypeInv
<1> SUFFICES ASSUME Init PROVE TypeInv
  OBVIOUS
<1>1. SharedType
  BY DEF Init, SharedType, AllActive, Null
<1>2. ASSUME NEW p \in Pipelines
      PROVE  PipelineType(p)
  <2>1. Len(topic[p]) \in Nat
    BY RecordTypes DEF Init
  <2> QED
    BY <2>1 DEF Init, PipelineType, TaskType, TablesType, ClocksType, IsTable, Empty
<1> QED
  BY <1>1, <1>2 DEF TypeInv

\* A pipeline whose state a step leaves alone, within a process.
LEMMA OthersTyped ==
  ASSUME TypeInv, NEW q \in Pipelines,
         UNCHANGED <<topic, restarts, position[q], committed[q], accepted[q], observed[q],
                     closing[q], agg[q], dirty[q], store[q], buffer[q], saved[q]>>
  PROVE  PipelineType(q)'
<1>1. PipelineType(q)
  BY DEF TypeInv
<1>2. TaskType(q)'
  BY <1>1 DEF PipelineType, TaskType
<1>3. TablesType(q)'
  BY <1>1 DEF PipelineType, TablesType
<1>4. ClocksType(q)'
  BY <1>1 DEF PipelineType, ClocksType
<1> QED
  BY <1>2, <1>3, <1>4 DEF PipelineType

\* A step of the peek() calls or of the environment: the tasks do not move.
LEMMA QuietTyped ==
  ASSUME TypeInv, SharedType',
         UNCHANGED <<topic, restarts, committed, store, saved, taskVars, bufferVars>>
  PROVE  TypeInv'
<1>1. ASSUME NEW q \in Pipelines PROVE PipelineType(q)'
  BY OthersTyped DEF taskVars, bufferVars
<1> QED
  BY <1>1 DEF TypeInv

LEMMA ProcessTyped ==
  ASSUME TypeInv, NEW p \in Pipelines, Process(p)
  PROVE  TypeInv'
<1> DEFINE offset == position[p] + 1
           r == topic[p][offset]
           now == Larger(observed[p], r.time)
           w == WindowOf(r)
           a == Fold(p, r, offset)
<1>1. SharedType /\ TaskType(p) /\ TablesType(p) /\ ClocksType(p)
  BY DEF TypeInv, PipelineType
<1>2. UNCHANGED <<topic, activeDevicesMap, client, committed, store, saved, sending, buffer,
                  closing, restarts>>
  BY DEF Process, bufferVars, bounds
<1>3. /\ Len(topic[p]) \in Nat /\ offset \in 1..Len(topic[p])
      /\ r.value \in Int \cup {NoValue} /\ r.time \in Nat
      /\ w = <<r.key, w[2]>> /\ w[2] \in Nat
  <2>1. Len(topic[p]) \in Nat /\ offset \in 1..Len(topic[p])
    BY <1>1, RecordTypes DEF Process, SharedType, TaskType
  <2> QED
    BY <1>1, <2>1, RecordTypes DEF SharedType
<1>4. /\ position' = [position EXCEPT ![p] = offset]
      /\ \/ /\ observed' = [observed EXCEPT ![p] = now]
               \/ observed' = [observed EXCEPT ![p] = observed[p]]
            /\ UNCHANGED <<agg, dirty, accepted>>
         \/ /\ PassesFilters(p, r)
            /\ observed' = [observed EXCEPT ![p] = now]
            /\ agg' = [agg EXCEPT ![p] = With(agg[p], w, a)]
            /\ dirty' = [dirty EXCEPT ![p] = With(dirty[p], w, offset)]
            /\ accepted' = [accepted EXCEPT ![p] = @ \cup {offset}]
  <2>1. CASE PassesFilters(p, r) /\ ~Closed(w, now)
    BY <2>1 DEF Process, MarkChanged
  <2>2. CASE PassesFilters(p, r) /\ Closed(w, now)
    BY <2>2 DEF Process
  <2>3. CASE ~PassesFilters(p, r)
    BY <2>3 DEF Process
  <2> QED
    BY <2>1, <2>2, <2>3
<1>5. now \in Nat /\ observed[p] <= now /\ r.time <= now
  BY <1>1, <1>3 DEF Larger, ClocksType
<1>6. PassesFilters(p, r) => w \in Keys \X Nat /\ a \in Aggregates
  <2> SUFFICES ASSUME PassesFilters(p, r) PROVE w \in Keys \X Nat /\ a \in Aggregates
    OBVIOUS
  <2>1. r.value \in Int
    BY <1>3 DEF PassesFilters
  <2>2. w \in Keys \X Nat
    BY <1>3, FilteredKeys
  <2>3. w \in DOMAIN agg[p] => agg[p][w] \in Aggregates
    BY <1>1 DEF TablesType, IsTable
  <2>4. offset \in Nat
    BY <1>3
  <2> DEFINE before == IF w \in DOMAIN agg[p] THEN agg[p][w]
                       ELSE [count |-> 0, sum |-> 0, time |-> -1, from |-> {}]
  <2>5. /\ before.count \in Nat /\ before.sum \in Int
        /\ before.time \in Nat \cup {-1} /\ before.from \subseteq Nat
    BY <2>3 DEF Aggregates
  <2>6. a = [count |-> before.count + 1, sum |-> before.sum + r.value,
             time |-> Larger(before.time, r.time), from |-> before.from \cup {offset}]
    BY DEF Fold
  <2> HIDE DEF w, a, r, before, offset
  <2>7. Larger(before.time, r.time) \in Nat
    BY <1>3, <2>5 DEF Larger
  <2> QED
    BY <2>1, <2>2, <2>4, <2>5, <2>6, <2>7 DEF Aggregates
<1>7. restarts = 0 /\ PassesFilters(p, r) => a.time <= now
  <2>1. restarts = 0 /\ w \in DOMAIN agg[p] =>
          agg[p][w].time \in Nat /\ agg[p][w].time <= observed[p]
    BY <1>1 DEF ClocksType, TablesType, IsTable, Aggregates
  <2> QED
    BY <1>1, <1>3, <1>5, <2>1 DEF Fold, Larger, ClocksType
<1> HIDE DEF r, w, a, now
<1>8. SharedType'
  BY <1>1, <1>2, <1>4 DEF SharedType
<1>9. TaskType(p)'
  <2>1. position'[p] = offset /\ position[p] \in Nat /\ committed'[p] = committed[p]
    BY <1>1, <1>2, <1>3, <1>4 DEF SharedType, TaskType
  <2>2. accepted'[p] \subseteq accepted[p] \cup {offset}
    BY <1>1, <1>4 DEF SharedType
  <2>3. committed[p] \in 0..offset /\ accepted[p] \cup {offset} \subseteq 1..offset
    BY <1>1, <2>1 DEF TaskType
  <2> QED
    BY <1>2, <1>3, <2>1, <2>2, <2>3 DEF TaskType
<1>10. TablesType(p)'
  <2>1. CASE UNCHANGED <<agg, dirty, accepted>>
    BY <1>1, <1>2, <2>1 DEF TablesType
  <2>2. CASE /\ PassesFilters(p, r)
             /\ agg' = [agg EXCEPT ![p] = With(agg[p], w, a)]
             /\ dirty' = [dirty EXCEPT ![p] = With(dirty[p], w, offset)]
    <3>1. agg'[p] = With(agg[p], w, a) /\ dirty'[p] = With(dirty[p], w, offset)
      BY <1>1, <2>2 DEF SharedType
    <3>2. IsTable(agg'[p])
      BY <1>1, <1>6, <2>2, <3>1, TableWith DEF TablesType
    <3>3. DOMAIN dirty'[p] \subseteq DOMAIN agg'[p]
      BY <1>1, <3>1 DEF TablesType, With
    <3> QED
      BY <1>1, <1>2, <3>2, <3>3 DEF TablesType, IsTable
  <2> QED
    BY <1>4, <2>1, <2>2
<1>11. ClocksType(p)'
  <2>1. /\ observed'[p] \in Nat \cup {-1} /\ observed[p] <= observed'[p]
        /\ closing'[p] = closing[p] /\ restarts' = restarts
    BY <1>1, <1>2, <1>4, <1>5 DEF SharedType, ClocksType
  <2>2. ASSUME restarts = 0, NEW v \in DOMAIN agg'[p]
        PROVE  agg'[p][v].time <= observed'[p]
    <3>1. ASSUME agg'[p][v] = agg[p][v], v \in DOMAIN agg[p]
          PROVE  agg'[p][v].time <= observed'[p]
      <4>1. agg[p][v].time \in Nat /\ agg[p][v].time <= observed[p]
        BY <1>1, <2>2, <3>1 DEF ClocksType, TablesType, IsTable, Aggregates
      <4>2. observed[p] \in Int /\ observed'[p] \in Int
        BY <1>1, <2>1 DEF ClocksType
      <4> QED
        BY <2>1, <3>1, <4>1, <4>2
    <3>2. CASE UNCHANGED <<agg, dirty, accepted>>
      BY <2>2, <3>1, <3>2
    <3>3. CASE /\ PassesFilters(p, r)
               /\ observed' = [observed EXCEPT ![p] = now]
               /\ agg' = [agg EXCEPT ![p] = With(agg[p], w, a)]
      <4>1. agg'[p] = With(agg[p], w, a) /\ observed'[p] = now
        BY <1>1, <3>3 DEF SharedType
      <4>2. CASE v = w
        BY <1>7, <2>2, <3>3, <4>1, <4>2 DEF With
      <4>3. CASE v # w
        BY <3>1, <4>1, <4>3 DEF With
      <4> QED
        BY <4>2, <4>3
    <3> QED
      BY <1>4, <3>2, <3>3
  <2>3. closing[p] \in Nat \cup {-1} /\ (restarts = 0 => closing[p] <= observed'[p])
    BY <1>1, <2>1 DEF ClocksType
  <2> QED
    BY <2>1, <2>2, <2>3 DEF ClocksType
<1>12. ASSUME NEW q \in Pipelines, q # p PROVE PipelineType(q)'
  BY <1>1, <1>2, <1>4, <1>12, OthersTyped DEF SharedType
<1> QED
  BY <1>8, <1>9, <1>10, <1>11, <1>12 DEF TypeInv, PipelineType

LEMMA FlushTyped ==
  ASSUME TypeInv, NEW p \in Pipelines, FlushWindow(p)
  PROVE  TypeInv'
<1>1. SharedType /\ TaskType(p) /\ TablesType(p) /\ ClocksType(p)
  BY DEF TypeInv, PipelineType
<1>2. /\ UNCHANGED <<topic, activeDevicesMap, client, committed, saved, position, observed,
                     agg, accepted, restarts>>
      /\ sending = Nothing
  BY DEF FlushWindow, bounds
<1>3. PICK w \in DOMAIN dirty[p] :
        /\ store' = [store EXCEPT ![p] = With(store[p], w, agg[p][w])]
        /\ dirty' = [dirty EXCEPT ![p] = Without(dirty[p], w)]
        /\ \/ /\ buffer' = [buffer EXCEPT ![p] = With(buffer[p], w, agg[p][w])]
              /\ closing' = [closing EXCEPT ![p] = Larger(closing[p], agg[p][w].time)]
              /\ UNCHANGED sending
           \/ /\ sending' = Update(p, w, agg[p][w])
              /\ UNCHANGED <<buffer, closing>>
  BY DEF FlushWindow, bufferVars
<1>4. /\ w \in DOMAIN agg[p] /\ w \in Keys \X Nat /\ agg[p][w] \in Aggregates
      /\ agg[p][w].time \in Nat
  BY <1>1 DEF TablesType, IsTable, Aggregates
<1>5. SharedType'
  <2>1. \/ UNCHANGED sending /\ DOMAIN buffer' = DOMAIN buffer /\ DOMAIN closing' = DOMAIN closing
        \/ sending' = Update(p, w, agg[p][w]) /\ UNCHANGED <<buffer, closing>>
    BY <1>3
  <2> QED
    BY <1>1, <1>2, <1>3, <1>4, <2>1 DEF SharedType, IsUpdate, Update
<1>6. TaskType(p)'
  BY <1>1, <1>2 DEF TaskType
<1>7. TablesType(p)'
  <2>1. /\ store'[p] = With(store[p], w, agg[p][w])
        /\ dirty'[p] = Without(dirty[p], w)
        /\ buffer'[p] = buffer[p] \/ buffer'[p] = With(buffer[p], w, agg[p][w])
    BY <1>1, <1>3 DEF SharedType
  <2>2. IsTable(store'[p]) /\ IsTable(buffer'[p])
    BY <1>1, <1>4, <2>1, TableWith DEF TablesType
  <2>3. DOMAIN dirty'[p] \subseteq DOMAIN agg[p]
    BY <1>1, <2>1 DEF TablesType, Without
  <2> QED
    BY <1>1, <1>2, <2>2, <2>3 DEF TablesType, IsTable
<1>8. ClocksType(p)'
  <2>1. closing'[p] = closing[p] \/ closing'[p] = Larger(closing[p], agg[p][w].time)
    BY <1>1, <1>3 DEF SharedType
  <2> QED
    BY <1>1, <1>2, <1>4, <2>1 DEF ClocksType, Larger
<1>9. ASSUME NEW q \in Pipelines, q # p PROVE PipelineType(q)'
  BY <1>1, <1>2, <1>3, <1>9, OthersTyped DEF SharedType
<1> QED
  BY <1>5, <1>6, <1>7, <1>8, <1>9 DEF TypeInv, PipelineType

LEMMA EmitTyped ==
  ASSUME TypeInv, NEW p \in Pipelines, EmitClosed(p)
  PROVE  TypeInv'
<1>1. SharedType /\ TaskType(p) /\ TablesType(p) /\ ClocksType(p)
  BY DEF TypeInv, PipelineType
<1>2. UNCHANGED <<topic, activeDevicesMap, client, committed, store, saved, position,
                  observed, agg, dirty, accepted, closing, restarts>>
  BY DEF EmitClosed, taskVars, bounds
<1>3. PICK w \in DOMAIN buffer[p] :
        /\ sending' = Update(p, w, buffer[p][w])
        /\ buffer' = [buffer EXCEPT ![p] = Without(buffer[p], w)]
  BY DEF EmitClosed, Ready
<1>4. w \in Keys \X Nat
  BY <1>1 DEF TablesType, IsTable
<1>5. SharedType'
  BY <1>1, <1>2, <1>3, <1>4 DEF SharedType, IsUpdate, Update
<1>6. TaskType(p)'
  BY <1>1, <1>2 DEF TaskType
<1>7. TablesType(p)'
  <2>1. buffer'[p] = Without(buffer[p], w)
    BY <1>1, <1>3 DEF SharedType
  <2>2. IsTable(buffer'[p])
    BY <1>1, <2>1 DEF TablesType, IsTable, Without
  <2> QED
    BY <1>1, <1>2, <2>2 DEF TablesType, IsTable
<1>8. ClocksType(p)'
  BY <1>1, <1>2 DEF ClocksType
<1>9. ASSUME NEW q \in Pipelines, q # p PROVE PipelineType(q)'
  BY <1>1, <1>2, <1>3, <1>9, OthersTyped DEF SharedType
<1> QED
  BY <1>5, <1>6, <1>7, <1>8, <1>9 DEF TypeInv, PipelineType

LEMMA CommitTyped ==
  ASSUME TypeInv, FinishCommit
  PROVE  TypeInv'
<1>1. /\ client' = "running"
      /\ UNCHANGED <<topic, activeDevicesMap, store, sending, position, observed, agg, dirty,
                     accepted, buffer, closing, restarts>>
      /\ committed' = [p \in Pipelines |-> position[p]]
      /\ saved' = [p \in Pipelines |-> [store |-> store[p], buffer |-> buffer[p]]]
  BY DEF FinishCommit, CommitOffset, taskVars, bufferVars, bounds
<1>2. SharedType'
  BY <1>1 DEF TypeInv, SharedType
<1>3. ASSUME NEW p \in Pipelines PROVE PipelineType(p)'
  <2>1. TaskType(p) /\ TablesType(p) /\ ClocksType(p)
    BY DEF TypeInv, PipelineType
  <2>2. TaskType(p)'
    <3>1. Len(topic[p]) \in Nat
      BY RecordTypes DEF TypeInv, SharedType
    <3>2. position[p] \in Nat /\ committed'[p] = position[p]
      BY <1>1, <2>1, <3>1 DEF TaskType
    <3>3. position'[p] = position[p] /\ accepted'[p] = accepted[p] /\ topic'[p] = topic[p]
      BY <1>1
    <3> QED
      BY <2>1, <3>1, <3>2, <3>3 DEF TaskType
  <2>3. TablesType(p)'
    <3>1. saved'[p].store = store[p] /\ saved'[p].buffer = buffer[p]
      BY <1>1
    <3>2. UNCHANGED <<agg[p], store[p], buffer[p], dirty[p]>>
      BY <1>1
    <3> QED
      BY <2>1, <3>1, <3>2 DEF TablesType, IsTable
  <2>4. ClocksType(p)'
    BY <1>1, <2>1 DEF ClocksType
  <2> QED
    BY <2>2, <2>3, <2>4 DEF PipelineType
<1> QED
  BY <1>2, <1>3 DEF TypeInv

LEMMA RestartTyped ==
  ASSUME TypeInv, Restart
  PROVE  TypeInv'
<1>1. /\ UNCHANGED <<topic, committed>>
      /\ restarts' = restarts + 1 /\ client' = "running"
      /\ activeDevicesMap' = AllActive /\ sending' = Nothing
      /\ position' = committed /\ agg' = store'
      /\ saved' = [p \in Pipelines |-> [store |-> store'[p], buffer |-> buffer'[p]]]
      /\ accepted' = [p \in Pipelines |-> {o \in accepted[p] : o <= committed[p]}]
      /\ observed' = [p \in Pipelines |-> -1] /\ closing' = observed'
      /\ dirty' = [p \in Pipelines |-> Empty]
  BY DEF Restart
<1>2. PICK stored, logged :
        /\ store' = [p \in Pipelines |-> Restored(saved[p].store, store[p], stored[p])]
        /\ buffer' = [p \in Pipelines |-> Restored(saved[p].buffer, buffer[p], logged[p])]
  BY RestartFacts
<1>3. SharedType
  BY DEF TypeInv
<1>4. DOMAIN committed = Pipelines
  BY <1>3 DEF SharedType
<1>5. SharedType'
  BY <1>1, <1>2, <1>3, <1>4 DEF SharedType, AllActive
<1>6. restarts' # 0
  BY <1>1, <1>3 DEF SharedType
<1>7. ASSUME NEW p \in Pipelines PROVE PipelineType(p)'
  <2>1. TaskType(p) /\ TablesType(p)
    BY DEF TypeInv, PipelineType
  <2>2. Len(topic[p]) \in Nat
    BY <1>3, RecordTypes DEF SharedType
  <2>3. TaskType(p)'
    BY <1>1, <2>1, <2>2 DEF TaskType
  <2>4. IsTable(store'[p]) /\ IsTable(buffer'[p])
    BY <1>2, <2>1, RestoredWindows DEF TablesType, IsTable
  <2>5. TablesType(p)'
    BY <1>1, <2>1, <2>4 DEF TablesType, IsTable, Empty
  <2>6. ClocksType(p)'
    BY <1>1, <1>6 DEF ClocksType
  <2> QED
    BY <2>3, <2>5, <2>6 DEF PipelineType
<1> QED
  BY <1>5, <1>7 DEF TypeInv

LEMMA StepTyped == TypeInv /\ [Next]_vars => TypeInv'
<1> SUFFICES ASSUME TypeInv, [Next]_vars PROVE TypeInv'
  OBVIOUS
<1>1. SharedType
  BY DEF TypeInv
<1>2. ASSUME NEW stage, sending # Nothing, NextStage(stage)
      PROVE  /\ IsUpdate(sending') /\ sending'.pipeline = sending.pipeline
             /\ sending'.w = sending.w
  BY <1>1, <1>2 DEF SharedType, IsUpdate, NextStage
<1>3. CASE \E p \in Pipelines : Process(p) \/ FlushWindow(p) \/ EmitClosed(p)
  BY <1>3, ProcessTyped, FlushTyped, EmitTyped
<1>4. CASE BeginCommit
  BY <1>1, <1>4, QuietTyped DEF BeginCommit, SharedType, taskVars, bufferVars, bounds
<1>5. CASE FinishCommit
  BY <1>5, CommitTyped
<1>6. CASE CheckForAlerts
  <2>1. /\ sending # Nothing /\ client' \in {client, "dead"}
        /\ sending' = sending \/ \E stage : NextStage(stage)
        /\ UNCHANGED <<topic, activeDevicesMap, committed, store, saved, taskVars, bufferVars,
                       restarts>>
    BY <1>6 DEF CheckForAlerts, InHand, Nothing, bounds
  <2> QED
    BY <1>1, <1>2, <2>1, QuietTyped DEF SharedType, taskVars, bufferVars
<1>7. CASE Deactivate
  <2>1. /\ sending # Nothing /\ NextStage("influx")
        /\ activeDevicesMap' = With(activeDevicesMap, AlertKey(sending.w[1]), "INACTIVE")
        /\ UNCHANGED <<topic, client, committed, store, saved, taskVars, bufferVars, restarts>>
    BY <1>7 DEF Deactivate, InHand, Nothing, bounds
  <2>2. AlertKey(sending.w[1]) \in MapKeys
    BY <1>1, <2>1 DEF SharedType, MapKeys
  <2>3. activeDevicesMap' \in [MapKeys -> {"ACTIVE", "INACTIVE", Null}]
    BY <1>1, <2>1, <2>2 DEF SharedType, With
  <2> QED
    BY <1>1, <1>2, <2>1, <2>3, QuietTyped DEF SharedType, taskVars, bufferVars
<1>8. CASE WriteInflux \/ WriteRedis
  <2>1. /\ sending # Nothing /\ \E stage : NextStage(stage)
        /\ UNCHANGED <<topic, activeDevicesMap, client, committed, store, saved, taskVars,
                       bufferVars, restarts>>
    BY <1>8 DEF WriteInflux, WriteRedis, InHand, Nothing, bounds
  <2> QED
    BY <1>1, <1>2, <2>1, QuietTyped DEF SharedType, taskVars, bufferVars
<1>9. CASE SendOutput \/ StreamsFail
  BY <1>1, <1>9, QuietTyped
     DEF SendOutput, StreamsFail, SharedType, taskVars, bufferVars, bounds
<1>10. CASE \E d \in MapKeys, s \in {"ACTIVE", "INACTIVE"} : Toggle(d, s)
  <2>1. PICK d \in MapKeys, s \in {"ACTIVE", "INACTIVE"} : Toggle(d, s)
    BY <1>10
  <2> QED
    BY <1>1, <2>1, QuietTyped DEF Toggle, SharedType, taskVars, bufferVars
<1>11. CASE Restart
  BY <1>11, RestartTyped
<1>12. CASE UNCHANGED vars
  BY <1>1, <1>12, QuietTyped DEF vars, SharedType, taskVars, bufferVars, bounds
<1> QED
  BY <1>3, <1>4, <1>5, <1>6, <1>7, <1>8, <1>9, <1>10, <1>11, <1>12 DEF Next, StreamThread

\* Offsets, stream times and tables keep their types and their order, for every content of
\* the topics, however services fail and the process restarts; that suppress() does not run
\* ahead of the aggregator needs a process that was not restarted.
THEOREM TypeCorrect == Spec => []TypeOK
<1>1. TypeInv => TypeOK
  BY DEF TypeInv, SharedType, PipelineType, TaskType, TablesType, ClocksType, TypeOK
<1> QED
  BY <1>1, InitTyped, StepTyped, PTL DEF Spec

-----------------------------------------------------------------------------
(* Averages.  A crash may count a record twice, and so falsify counts and     *)
(* sums, but an average stays among the readings it is made of.               *)

Among(p, a) ==
  /\ a.count \in Nat \ {0} /\ a.sum \in Int
  /\ \E lo, hi \in a.from :
       /\ topic[p][lo].value \in Int /\ topic[p][lo].value * a.count <= a.sum
       /\ topic[p][hi].value \in Int /\ a.sum <= topic[p][hi].value * a.count

AllAmong(p, f) == \A w \in DOMAIN f : Among(p, f[w])

TablesAmong(p) ==
  /\ AllAmong(p, agg[p]) /\ AllAmong(p, store[p]) /\ AllAmong(p, buffer[p])
  /\ AllAmong(p, saved[p].store) /\ AllAmong(p, saved[p].buffer)

AverageInv ==
  /\ TypeInv /\ DOMAIN saved = Pipelines
  /\ \A p \in Pipelines : TablesAmong(p)
  /\ sending # Nothing => Among(sending.pipeline, sending.agg)

\* One reading more: the least and the greatest are still bounds, or it is the new bound.
LEMMA OneMore ==
  ASSUME NEW x \in Int, NEW v \in Int, NEW n \in Nat, NEW sum \in Int
  PROVE  /\ sum <= x * n => (v <= x => sum + v <= x * (n + 1))
                            /\ (x <= v => sum + v <= v * (n + 1))
         /\ x * n <= sum => (x <= v => x * (n + 1) <= sum + v)
                            /\ (v <= x => v * (n + 1) <= sum + v)
<1>1. x * (n + 1) = x * n + x /\ v * (n + 1) = v * n + v
  OBVIOUS
<1>2. x * n \in Int /\ v * n \in Int
  OBVIOUS
<1>3. (x <= v => x * n <= v * n) /\ (v <= x => v * n <= x * n)
  OBVIOUS
<1> QED
  BY <1>1, <1>2, <1>3

LEMMA FoldAmong ==
  ASSUME NEW p \in Pipelines, AllAmong(p, agg[p]), NEW offset,
         topic[p][offset].value \in Int
  PROVE  Among(p, Fold(p, topic[p][offset], offset))
<1> DEFINE v == topic[p][offset].value
           w == WindowOf(topic[p][offset])
           a == Fold(p, topic[p][offset], offset)
<1>1. CASE w \in DOMAIN agg[p]
  <2> DEFINE n == agg[p][w].count
             sum == agg[p][w].sum
             old == agg[p][w].from
             val(o) == topic[p][o].value
  <2>1. /\ n \in Nat \ {0} /\ sum \in Int
        /\ \E lo, hi \in old : /\ val(lo) \in Int /\ val(lo) * n <= sum
                               /\ val(hi) \in Int /\ sum <= val(hi) * n
    BY <1>1 DEF AllAmong, Among
  <2>2. PICK lo, hi \in old : /\ val(lo) \in Int /\ val(lo) * n <= sum
                              /\ val(hi) \in Int /\ sum <= val(hi) * n
    BY <2>1
  <2>3. a.count = n + 1 /\ a.sum = sum + v /\ a.from = old \cup {offset}
    BY <1>1 DEF Fold
  <2>4. v = val(offset) /\ v \in Int
    OBVIOUS
  <2> HIDE DEF v, n, sum, old, a, val
  <2>5. \E h \in old \cup {offset} : val(h) \in Int /\ sum + v <= val(h) * (n + 1)
    <3>1. CASE v <= val(hi)
      <4>1. sum + v <= val(hi) * (n + 1)
        BY <2>1, <2>2, <2>4, <3>1, OneMore
      <4> QED
        BY <2>2, <4>1
    <3>2. CASE val(hi) <= v
      <4>1. sum + v <= v * (n + 1)
        BY <2>1, <2>2, <2>4, <3>2, OneMore
      <4> QED
        BY <2>4, <4>1
    <3> QED
      BY <2>2, <2>4, <3>1, <3>2
  <2>6. \E l \in old \cup {offset} : val(l) \in Int /\ val(l) * (n + 1) <= sum + v
    <3>1. CASE val(lo) <= v
      <4>1. val(lo) * (n + 1) <= sum + v
        BY <2>1, <2>2, <2>4, <3>1, OneMore
      <4> QED
        BY <2>2, <4>1
    <3>2. CASE v <= val(lo)
      <4>1. v * (n + 1) <= sum + v
        BY <2>1, <2>2, <2>4, <3>2, OneMore
      <4> QED
        BY <2>4, <4>1
    <3> QED
      BY <2>2, <2>4, <3>1, <3>2
  <2>7. a.count \in Nat \ {0} /\ a.sum \in Int
    BY <2>1, <2>3, <2>4
  <2>8. /\ \A o : val(o) = topic[p][o].value
        /\ a = Fold(p, topic[p][offset], offset)
    BY DEF val, a
  <2> QED
    BY <2>3, <2>5, <2>6, <2>7, <2>8 DEF Among
<1>2. CASE w \notin DOMAIN agg[p]
  <2>1. a.count = 1 /\ a.sum = v /\ a.from = {offset}
    BY <1>2 DEF Fold
  <2>2. v \in Int /\ v * 1 = v
    OBVIOUS
  <2>3. Among(p, a)
    <3> HIDE DEF a
    <3> QED
      BY <2>1, <2>2 DEF Among
  <2> QED
    BY <2>3
<1> QED
  BY <1>1, <1>2

LEMMA AmongWith ==
  ASSUME NEW p, NEW f, AllAmong(p, f), NEW w, NEW a, Among(p, a)
  PROVE  AllAmong(p, With(f, w, a))
  BY DEF AllAmong, With

LEMMA InitAverages == Init => AverageInv
<1> SUFFICES ASSUME Init PROVE AverageInv
  OBVIOUS
<1>1. \A p \in Pipelines : TablesAmong(p)
  BY DEF Init, TablesAmong, AllAmong, Empty
<1> QED
  BY <1>1, InitTyped DEF Init, AverageInv

\* What a step makes of the tables and the update is made of what they were, and of Fold.
LEMMA StepAverages == AverageInv /\ [Next]_vars => AverageInv'
<1> SUFFICES ASSUME AverageInv, [Next]_vars PROVE AverageInv'
  OBVIOUS
<1>1. TypeInv' /\ SharedType /\ DOMAIN saved = Pipelines
  BY StepTyped DEF AverageInv, TypeInv
<1>2. UNCHANGED topic
  BY DEF Next, StreamThread, Process, FlushWindow, EmitClosed, BeginCommit,
     FinishCommit, CheckForAlerts, Deactivate, WriteInflux, WriteRedis, SendOutput,
     StreamsFail, Toggle, Restart, vars
<1>3. ASSUME DOMAIN saved' = Pipelines,
             \A q \in Pipelines :
               /\ AllAmong(q, agg'[q]) /\ AllAmong(q, store'[q]) /\ AllAmong(q, buffer'[q])
               /\ AllAmong(q, saved'[q].store) /\ AllAmong(q, saved'[q].buffer),
             sending' # Nothing => Among(sending'.pipeline, sending'.agg)
      PROVE  AverageInv'
  BY <1>1, <1>2, <1>3 DEF AverageInv, TablesAmong, AllAmong, Among
<1>4. \A q \in Pipelines :
        /\ AllAmong(q, agg[q]) /\ AllAmong(q, store[q]) /\ AllAmong(q, buffer[q])
        /\ AllAmong(q, saved[q].store) /\ AllAmong(q, saved[q].buffer)
  BY DEF AverageInv, TablesAmong
<1>5. sending # Nothing => Among(sending.pipeline, sending.agg)
  BY DEF AverageInv
<1>6. ASSUME UNCHANGED <<agg, store, buffer, saved>>,
             \/ sending' \in {Nothing, sending}
             \/ sending # Nothing /\ \E stage : NextStage(stage)
      PROVE  AverageInv'
  <2>1. sending' # Nothing => Among(sending'.pipeline, sending'.agg)
    <3>1. ASSUME sending # Nothing, NEW stage, NextStage(stage)
          PROVE  Among(sending'.pipeline, sending'.agg)
      <4>1. IsUpdate(sending) /\ sending' = [sending EXCEPT !.stage = stage]
        BY <1>1, <3>1 DEF SharedType, NextStage
      <4>2. sending'.pipeline = sending.pipeline /\ sending'.agg = sending.agg
        BY <4>1 DEF IsUpdate
      <4> QED
        BY <1>5, <3>1, <4>2
    <3> QED
      BY <1>5, <1>6, <3>1
  <2> QED
    BY <1>1, <1>3, <1>4, <1>6, <2>1
<1>7. ASSUME NEW p \in Pipelines, Process(p)
      PROVE  AverageInv'
  <2> DEFINE offset == position[p] + 1
             r == topic[p][offset]
             w == WindowOf(r)
             a == Fold(p, r, offset)
  <2>1. /\ UNCHANGED <<store, buffer, saved, sending>>
        /\ \/ UNCHANGED agg
           \/ PassesFilters(p, r) /\ agg' = [agg EXCEPT ![p] = With(agg[p], w, a)]
    BY <1>7 DEF Process, bufferVars
  <2>2. CASE UNCHANGED agg
    BY <1>6, <2>1, <2>2
  <2>3. CASE PassesFilters(p, r) /\ agg' = [agg EXCEPT ![p] = With(agg[p], w, a)]
    <3>1. TaskType(p) /\ Len(topic[p]) \in Nat /\ position[p] < Len(topic[p])
      BY <1>1, <1>7, RecordTypes DEF AverageInv, TypeInv, PipelineType, SharedType, Process
    <3>2. offset \in 1..Len(topic[p])
      BY <3>1 DEF TaskType
    <3>3. r.value \in Int
      BY <1>1, <2>3, <3>2, RecordTypes DEF PassesFilters, SharedType
    <3>4. Among(p, a)
      BY <1>4, <3>3, FoldAmong
    <3> HIDE DEF a, w, r
    <3>5. AllAmong(p, With(agg[p], w, a))
      BY <1>4, <3>4, AmongWith
    <3>6. \A q \in Pipelines : AllAmong(q, agg'[q])
      BY <1>1, <1>4, <2>3, <3>5 DEF SharedType
    <3> QED
      BY <1>1, <1>3, <1>4, <1>5, <2>1, <3>6
  <2> QED
    BY <2>1, <2>2, <2>3
<1>8. ASSUME NEW p \in Pipelines, FlushWindow(p)
      PROVE  AverageInv'
  <2>1. UNCHANGED <<agg, saved>> /\ sending = Nothing
    BY <1>8 DEF FlushWindow
  <2>2. PICK w \in DOMAIN dirty[p] :
          /\ store' = [store EXCEPT ![p] = With(store[p], w, agg[p][w])]
          /\ \/ UNCHANGED sending /\ buffer' = [buffer EXCEPT ![p] = With(buffer[p], w, agg[p][w])]
             \/ UNCHANGED buffer /\ sending' = Update(p, w, agg[p][w])
    BY <1>8 DEF FlushWindow, bufferVars
  <2>3. w \in DOMAIN agg[p]
    BY DEF AverageInv, TypeInv, PipelineType, TablesType
  <2>4. Among(p, agg[p][w])
    BY <1>4, <2>3 DEF AllAmong
  <2>5. AllAmong(p, With(store[p], w, agg[p][w])) /\ AllAmong(p, With(buffer[p], w, agg[p][w]))
    BY <1>4, <2>4, AmongWith
  <2>6. \A q \in Pipelines : AllAmong(q, store'[q]) /\ AllAmong(q, buffer'[q])
    BY <1>1, <1>4, <2>2, <2>5 DEF SharedType
  <2>7. sending' # Nothing => Among(sending'.pipeline, sending'.agg)
    BY <2>1, <2>2, <2>4 DEF Update
  <2> QED
    BY <1>1, <1>3, <1>4, <2>1, <2>6, <2>7
<1>9. ASSUME NEW p \in Pipelines, EmitClosed(p)
      PROVE  AverageInv'
  <2>1. UNCHANGED <<agg, store, saved>>
    BY <1>9 DEF EmitClosed, taskVars
  <2>2. PICK w \in DOMAIN buffer[p] :
          /\ sending' = Update(p, w, buffer[p][w])
          /\ buffer' = [buffer EXCEPT ![p] = Without(buffer[p], w)]
    BY <1>9 DEF EmitClosed, Ready
  <2>3. Among(p, buffer[p][w]) /\ AllAmong(p, Without(buffer[p], w))
    BY <1>4 DEF AllAmong, Without
  <2>4. \A q \in Pipelines : AllAmong(q, buffer'[q])
    BY <1>1, <1>4, <2>2, <2>3 DEF SharedType
  <2>5. Among(sending'.pipeline, sending'.agg)
    BY <2>2, <2>3 DEF Update
  <2> QED
    BY <1>1, <1>3, <1>4, <2>1, <2>4, <2>5
<1>10. CASE FinishCommit
  <2>1. /\ UNCHANGED <<agg, store, buffer, sending>>
        /\ saved' = [p \in Pipelines |-> [store |-> store[p], buffer |-> buffer[p]]]
    BY <1>10 DEF FinishCommit, taskVars, bufferVars
  <2> QED
    BY <1>3, <1>4, <1>5, <2>1
<1>11. CASE Restart
  <2>1. /\ agg' = store' /\ sending' = Nothing
        /\ saved' = [p \in Pipelines |-> [store |-> store'[p], buffer |-> buffer'[p]]]
    BY <1>11, RestartFacts
  <2>2. PICK stored, logged :
          /\ store' = [p \in Pipelines |-> Restored(saved[p].store, store[p], stored[p])]
          /\ buffer' = [p \in Pipelines |-> Restored(saved[p].buffer, buffer[p], logged[p])]
    BY <1>11, RestartFacts
  <2>3. \A q \in Pipelines : AllAmong(q, store'[q]) /\ AllAmong(q, buffer'[q])
    BY <1>4, <2>2, RestoredWindows DEF AllAmong
  <2> QED
    BY <1>1, <1>3, <1>4, <2>1, <2>3
<1>12. CASE \/ BeginCommit \/ SendOutput \/ StreamsFail
            \/ \E d \in MapKeys, s \in {"ACTIVE", "INACTIVE"} : Toggle(d, s)
            \/ UNCHANGED vars
  BY <1>6, <1>12 DEF BeginCommit, SendOutput, StreamsFail, Toggle, vars, taskVars, bufferVars
<1>13. CASE CheckForAlerts \/ Deactivate \/ WriteInflux \/ WriteRedis
  <2>1. UNCHANGED <<agg, store, buffer, saved>>
    BY <1>13 DEF CheckForAlerts, Deactivate, WriteInflux, WriteRedis, taskVars, bufferVars
  <2>2. UNCHANGED sending \/ (sending # Nothing /\ \E stage : NextStage(stage))
    BY <1>13 DEF CheckForAlerts, Deactivate, WriteInflux, WriteRedis, InHand, Nothing
  <2> QED
    BY <1>6, <2>1, <2>2
<1> QED
  BY <1>7, <1>8, <1>9, <1>10, <1>11, <1>12, <1>13 DEF Next, StreamThread

\* An alert for an average has a reading behind it that is above its threshold, however
\* often crashes make the pipeline count records twice.
THEOREM AlertsHaveACause == Spec => []AlertHasACause
<1>1. AverageInv => AlertHasACause
  <2> SUFFICES ASSUME AverageInv, sending # Nothing, ~Suppressing(sending.pipeline),
                      Level # "NONE"
               PROVE  LET p == sending.pipeline
                          threshold == IF Level = "WARNING" THEN WarningThreshold[p]
                                       ELSE CriticalThreshold[p]
                      IN  \E o \in sending.agg.from : topic[p][o].value > threshold
    BY DEF AlertHasACause
  <2> DEFINE p == sending.pipeline
             n == sending.agg.count
             sum == sending.agg.sum
             threshold == IF Level = "WARNING" THEN WarningThreshold[p] ELSE CriticalThreshold[p]
  <2>1. PICK hi \in sending.agg.from :
          /\ n \in Nat \ {0} /\ sum \in Int
          /\ topic[p][hi].value \in Int /\ sum <= topic[p][hi].value * n
    BY DEF AverageInv, Among
  <2>2. sum > threshold * n
    BY DEF Level, AlertLevel, Above, Reading
  <2>3. threshold \in Int
    BY ThresholdsAssumption, PipelinesAssumption DEF AverageInv, TypeInv, SharedType
  <2> DEFINE v == topic[p][hi].value
  <2>4. v > threshold
    <3> SUFFICES ASSUME v <= threshold PROVE FALSE
      BY <2>1, <2>3
    <3>1. v \in Int /\ n \in Nat /\ sum \in Int /\ sum <= v * n /\ threshold \in Int
      BY <2>1, <2>3
    <3> HIDE DEF v, n, sum, threshold
    <3>2. v * n <= threshold * n /\ v * n \in Int /\ threshold * n \in Int
      BY <3>1
    <3> QED
      BY <2>2, <3>1, <3>2
  <2> QED
    BY <2>4
<1> QED
  BY <1>1, InitAverages, StepAverages, PTL DEF Spec
=============================================================================

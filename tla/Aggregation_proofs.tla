------------------------- MODULE Aggregation_proofs -------------------------
(***************************************************************************)
(* ProcessStream keeps what WindowedAggregation promises, for every set of *)
(* pipelines and keys, every content of the topics, every window size and  *)
(* grace, and whatever fails, as long as the process is not restarted.     *)
(*                                                                         *)
(* The difficulty is that a power window is closed by one clock, closing,  *)
(* and accepts records by another, observed, which is ahead of it by what  *)
(* the cache holds.  The window that suppress() lets go of must have been  *)
(* flushed since it last changed.  So it must be known of every window     *)
(* that is still to be flushed that neither the flushes made so far nor    *)
(* those that come before its own can close it.                            *)
(***************************************************************************)
EXTENDS ProcessStream, TLAPS

IsUpdate(u)   == u = [pipeline |-> u.pipeline, w |-> u.w, agg |-> u.agg, stage |-> u.stage]
IsSequence(s) == \E S : s \in Seq(S)

Shapes ==
  /\ topic \in Logs
  /\ DOMAIN position = Pipelines /\ DOMAIN observed = Pipelines
  /\ DOMAIN agg = Pipelines      /\ DOMAIN dirty = Pipelines
  /\ DOMAIN buffer = Pipelines   /\ DOMAIN closing = Pipelines
  /\ DOMAIN output = Pipelines
  /\ \A p \in Pipelines : IsSequence(output[p])
  /\ sending # Nothing => IsUpdate(sending) /\ client # "running"

\* The two clocks of a pipeline, and its tables.
Clocks(p) ==
  /\ position[p] \in Nat /\ observed[p] \in Int
  /\ closing[p] \in Int /\ closing[p] <= observed[p]

Tables(p) ==
  /\ \A w \in DOMAIN agg[p] :
       /\ w = <<w[1], w[2]>> /\ Start(w) \in Int
       /\ agg[p][w].time \in Int /\ agg[p][w].time <= observed[p]
  /\ \A w \in DOMAIN dirty[p] :
       w \in DOMAIN agg[p] /\ dirty[p][w] \in Nat /\ dirty[p][w] <= position[p]
  /\ \A w \in DOMAIN buffer[p] : w \in DOMAIN agg[p] /\ Suppressing(p)

\* A window that is still to be flushed is not closed, neither by what suppress() has
\* seen, nor by the windows that will be flushed before it.
DirtyIsOpen(p) ==
  Suppressing(p) =>
    \A v \in DOMAIN dirty[p] :
      /\ ~Closed(v, closing[p])
      /\ \A w \in DOMAIN dirty[p] : dirty[p][w] <= dirty[p][v] => ~Closed(v, agg[p][w].time)

\* What suppress() holds is what the window holds, but for the changes not yet flushed.
BufferIsCurrent(p) ==
  \A w \in DOMAIN buffer[p] : w \notin DOMAIN dirty[p] => buffer[p][w] = agg[p][w]

Emitted(p) == {output[p][i].w : i \in 1..Len(output[p])}

\* What suppress() let go of is closed, and older than what it still holds of that sensor.
EmittedIsClosed(p) ==
  Suppressing(p) =>
    \A v \in Emitted(p) :
      /\ Start(v) \in Int /\ Closed(v, closing[p])
      /\ \A w \in DOMAIN buffer[p] : v[1] = w[1] => Start(v) < Start(w)

\* The same of the update on its way, which is what its window holds.
SendingIsCurrent ==
  sending # Nothing =>
    LET p == sending.pipeline  w == sending.w IN
    /\ p \in Pipelines /\ w \in DOMAIN agg[p] /\ sending.agg = agg[p][w]
    /\ Suppressing(p) =>
         /\ Closed(w, closing[p])
         /\ \A v \in DOMAIN buffer[p] : w[1] = v[1] => Start(w) < Start(v)
         /\ \A v \in Emitted(p) : v[1] = w[1] => Start(v) < Start(w)

SealInv ==
  /\ Shapes /\ SendingIsCurrent
  /\ \A p \in Pipelines : /\ Clocks(p) /\ Tables(p)
                          /\ DirtyIsOpen(p) /\ BufferIsCurrent(p) /\ EmittedIsClosed(p)

\* A record of a topic has a time, and its window a start.
LEMMA RecordTimes ==
  ASSUME topic \in Logs, NEW p \in Pipelines, NEW i \in 1..Len(topic[p])
  PROVE  /\ topic[p][i].time \in Nat
         /\ Start(WindowOf(topic[p][i])) \in Int
<1>1. topic[p] \in Seq({topic[p][j] : j \in DOMAIN topic[p]})
  BY LogsAssumption
<1>2. i \in DOMAIN topic[p]
  BY <1>1
<1>3. topic[p][i].time \in Nat
  BY <1>2, LogsAssumption
<1> DEFINE t == topic[p][i].time
           q == t \div WindowSize
<1>4. q \in Int
  BY <1>3, WindowAssumption
<1> HIDE DEF q
<1>5. q * WindowSize \in Int
  BY <1>4, WindowAssumption
<1> QED
  BY <1>3, <1>5 DEF Start, WindowOf, q

\* A window that a later time does not close is not closed earlier.
LEMMA ClosedLater ==
  ASSUME NEW w, Start(w) \in Int, NEW a \in Int, NEW b \in Int, a <= b, Closed(w, a)
  PROVE  Closed(w, b)
  BY WindowAssumption DEF Closed

LEMMA InitSeals == Init => SealInv
<1> SUFFICES ASSUME Init PROVE SealInv
  OBVIOUS
<1>1. <<>> \in Seq({})
  OBVIOUS
<1>2. Shapes /\ SendingIsCurrent
  BY <1>1 DEF Init, Shapes, IsSequence, SendingIsCurrent
<1>3. ASSUME NEW p \in Pipelines
      PROVE  /\ Clocks(p) /\ Tables(p)
             /\ DirtyIsOpen(p) /\ BufferIsCurrent(p) /\ EmittedIsClosed(p)
  <2>1. /\ position[p] = 0 /\ observed[p] = -1 /\ closing[p] = -1
        /\ DOMAIN agg[p] = {} /\ DOMAIN dirty[p] = {} /\ DOMAIN buffer[p] = {}
        /\ Len(output[p]) = 0
    BY DEF Init, Empty
  <2> QED
    BY <2>1 DEF Clocks, Tables, DirtyIsOpen, BufferIsCurrent, EmittedIsClosed, Emitted
<1> QED
  BY <1>2, <1>3 DEF SealInv

\* A step that changes at most the stage of the update on its way, the sinks other than
\* the topic, the devices' statuses and the counters.
LEMMA QuietSeals ==
  ASSUME SealInv,
         sending # Nothing => /\ sending' # Nothing /\ IsUpdate(sending')
                              /\ sending'.pipeline = sending.pipeline
                              /\ sending'.agg = sending.agg /\ sending'.w = sending.w
                              /\ client' # "running",
         sending = Nothing => sending' = Nothing,
         UNCHANGED <<topic, position, observed, agg, dirty, buffer, closing, output>>
  PROVE  SealInv'
<1>1. Shapes'
  BY DEF SealInv, Shapes
<1>2. \A p : Emitted(p)' = Emitted(p)
  BY DEF Emitted
<1>3. SendingIsCurrent'
  BY <1>2 DEF SealInv, SendingIsCurrent
<1>4. \A p \in Pipelines :
        /\ Clocks(p)' /\ Tables(p)'
        /\ DirtyIsOpen(p)' /\ BufferIsCurrent(p)' /\ EmittedIsClosed(p)'
  BY <1>2 DEF SealInv, Clocks, Tables, DirtyIsOpen, BufferIsCurrent, EmittedIsClosed
<1> QED
  BY <1>1, <1>3, <1>4 DEF SealInv

\* A pipeline whose clocks, tables and topic a step leaves alone keeps its part.
LEMMA OthersKeep ==
  ASSUME SealInv, NEW q \in Pipelines,
         UNCHANGED <<position[q], observed[q], agg[q], dirty[q], buffer[q], closing[q], output[q]>>
  PROVE  /\ Clocks(q)' /\ Tables(q)'
         /\ DirtyIsOpen(q)' /\ BufferIsCurrent(q)' /\ EmittedIsClosed(q)'
<1>1. Emitted(q)' = Emitted(q)
  BY DEF Emitted
<1>2. Clocks(q)' /\ Tables(q)'
  BY DEF SealInv, Clocks, Tables, Suppressing
<1>3. DirtyIsOpen(q)' /\ BufferIsCurrent(q)'
  BY DEF SealInv, DirtyIsOpen, BufferIsCurrent, Suppressing
<1>4. EmittedIsClosed(q)'
  BY <1>1 DEF SealInv, EmittedIsClosed, Suppressing
<1> QED
  BY <1>2, <1>3, <1>4

\* A record changes a window only when the aggregator's clock, which is the later one,
\* does not close it; and no other change is as recent.
LEMMA ProcessSeals ==
  ASSUME SealInv, NEW p \in Pipelines, Process(p)
  PROVE  SealInv'
<1> DEFINE offset == position[p] + 1
           r == topic[p][offset]
           now == Larger(observed[p], r.time)
           w == WindowOf(r)
           a == Fold(p, r, offset)
<1>1. Shapes /\ Clocks(p) /\ Tables(p)
  BY DEF SealInv
<1>2. UNCHANGED <<topic, client, buffer, closing, sending, output>> /\ sending = Nothing
  BY <1>1 DEF Process, sinkVars, bufferVars, Shapes
<1>3. /\ offset \in 1..Len(topic[p])
      /\ position' = [position EXCEPT ![p] = offset]
      /\ \/ /\ observed' = [observed EXCEPT ![p] = now]
               \/ observed' = [observed EXCEPT ![p] = observed[p]]
            /\ UNCHANGED <<agg, dirty>>
         \/ /\ observed' = [observed EXCEPT ![p] = now]
            /\ ~Closed(w, now)
            /\ agg' = [agg EXCEPT ![p] = With(agg[p], w, a)]
            /\ dirty' = [dirty EXCEPT ![p] = With(dirty[p], w, offset)]
  <2>1. topic[p] \in Seq({topic[p][j] : j \in DOMAIN topic[p]})
    BY <1>1, LogsAssumption DEF Shapes
  <2>2. offset \in 1..Len(topic[p])
    BY <1>1, <2>1 DEF Process, Clocks
  <2>3. CASE PassesFilters(p, r) /\ ~Closed(w, now)
    BY <2>2, <2>3 DEF Process, MarkChanged
  <2>4. CASE ~(PassesFilters(p, r) /\ ~Closed(w, now))
    <3>1. CASE PassesFilters(p, r)
      BY <2>2, <2>4, <3>1 DEF Process
    <3>2. CASE ~PassesFilters(p, r)
      BY <2>2, <3>2 DEF Process
    <3> QED
      BY <3>1, <3>2
  <2> QED
    BY <2>3, <2>4
<1>4. r.time \in Nat /\ Start(w) \in Int /\ w = <<w[1], w[2]>>
  BY <1>1, <1>3, RecordTimes DEF Shapes, WindowOf
<1>5. now \in Int /\ observed[p] <= now /\ r.time <= now
  BY <1>1, <1>4 DEF Larger, Clocks
<1>6. a.time \in Int /\ a.time <= now
  <2>1. w \in DOMAIN agg[p] => agg[p][w].time \in Int /\ agg[p][w].time <= observed[p]
    BY <1>1 DEF Tables
  <2> QED
    BY <1>4, <1>5, <2>1, <1>1 DEF Fold, Larger, Clocks
<1> HIDE DEF r, w, a, now
<1>7. Shapes'
  BY <1>1, <1>2, <1>3 DEF Shapes
<1>8. SendingIsCurrent'
  BY <1>2 DEF SendingIsCurrent
<1>9. /\ offset \in Nat /\ position[p] \in Nat /\ position'[p] = offset
      /\ observed'[p] \in Int /\ observed[p] <= observed'[p]
  BY <1>1, <1>3, <1>5 DEF Shapes, Clocks
<1>10. Clocks(p)'
  BY <1>1, <1>2, <1>9 DEF Clocks
<1>11. CASE UNCHANGED <<agg, dirty>>
  <2>1. Tables(p)'
    <3>1. \A v \in DOMAIN agg[p] : agg[p][v].time <= observed'[p]
      BY <1>1, <1>9 DEF Tables, Clocks
    <3>2. \A v \in DOMAIN dirty[p] : dirty[p][v] <= offset
      BY <1>1, <1>9 DEF Tables
    <3> QED
      BY <1>1, <1>2, <1>9, <1>11, <3>1, <3>2 DEF Tables
  <2>2. DirtyIsOpen(p)' /\ BufferIsCurrent(p)' /\ EmittedIsClosed(p)'
    BY <1>2, <1>11 DEF SealInv, DirtyIsOpen, BufferIsCurrent, EmittedIsClosed, Emitted
  <2>3. \A q \in Pipelines \ {p} :
          /\ Clocks(q)' /\ Tables(q)'
          /\ DirtyIsOpen(q)' /\ BufferIsCurrent(q)' /\ EmittedIsClosed(q)'
    BY <1>1, <1>2, <1>3, <1>11, OthersKeep DEF Shapes
  <2> QED
    BY <1>7, <1>8, <1>10, <2>1, <2>2, <2>3 DEF SealInv
<1>12. CASE /\ observed' = [observed EXCEPT ![p] = now]
            /\ ~Closed(w, now)
            /\ agg' = [agg EXCEPT ![p] = With(agg[p], w, a)]
            /\ dirty' = [dirty EXCEPT ![p] = With(dirty[p], w, offset)]
  <2>1. /\ agg'[p] = With(agg[p], w, a) /\ dirty'[p] = With(dirty[p], w, offset)
        /\ observed'[p] = now
    BY <1>1, <1>12 DEF Shapes
  <2>2. \A v \in DOMAIN agg'[p] :
          /\ v = <<v[1], v[2]>> /\ Start(v) \in Int
          /\ agg'[p][v].time \in Int /\ agg'[p][v].time <= now
          /\ v # w => v \in DOMAIN agg[p] /\ agg'[p][v] = agg[p][v]
    BY <2>1, <1>1, <1>4, <1>5, <1>6 DEF With, Tables, Clocks
  <2>3. \A v \in DOMAIN dirty'[p] :
          /\ v \in DOMAIN agg'[p] /\ dirty'[p][v] \in Nat /\ dirty'[p][v] <= offset
          /\ v # w => v \in DOMAIN dirty[p] /\ dirty'[p][v] = dirty[p][v]
                        /\ dirty'[p][v] < offset
          /\ v = w => dirty'[p][v] = offset
    BY <2>1, <1>1, <1>9 DEF With, Tables, Clocks
  <2>4. Tables(p)'
    BY <2>1, <2>2, <2>3, <1>1, <1>2, <1>9 DEF Tables, With
  <2>5. DirtyIsOpen(p)'
    <3> SUFFICES ASSUME Suppressing(p), NEW v \in DOMAIN dirty'[p]
                 PROVE  /\ ~Closed(v, closing[p])
                        /\ \A x \in DOMAIN dirty'[p] :
                             dirty'[p][x] <= dirty'[p][v] => ~Closed(v, agg'[p][x].time)
      BY <1>2 DEF DirtyIsOpen, Suppressing
    <3>1. CASE v = w
      <4>1. ~Closed(w, closing[p])
        BY <1>1, <1>4, <1>5, <1>12, ClosedLater DEF Clocks
      <4>2. ASSUME NEW x \in DOMAIN dirty'[p]
            PROVE  ~Closed(w, agg'[p][x].time)
        BY <1>4, <1>5, <1>12, <2>2, <2>3, ClosedLater
      <4> QED
        BY <3>1, <4>1, <4>2
    <3>2. CASE v # w
      <4>1. v \in DOMAIN dirty[p] /\ dirty'[p][v] = dirty[p][v] /\ dirty[p][v] < offset
        BY <3>2, <2>3
      <4>2. ASSUME NEW x \in DOMAIN dirty'[p], dirty'[p][x] <= dirty'[p][v]
            PROVE  /\ x \in DOMAIN dirty[p] /\ dirty'[p][x] = dirty[p][x]
                   /\ agg'[p][x] = agg[p][x]
        BY <4>1, <4>2, <2>2, <2>3, <1>9
      <4> QED
        BY <4>1, <4>2 DEF SealInv, DirtyIsOpen
    <3> QED
      BY <3>1, <3>2
  <2>6. BufferIsCurrent(p)'
    <3> SUFFICES ASSUME NEW v \in DOMAIN buffer[p], v \notin DOMAIN dirty'[p]
                 PROVE  buffer[p][v] = agg'[p][v]
      BY <1>2 DEF BufferIsCurrent
    <3>1. v \notin DOMAIN dirty[p] /\ v # w
      BY <2>1 DEF With
    <3>2. v \in DOMAIN agg[p] /\ buffer[p][v] = agg[p][v]
      BY <3>1, <1>1 DEF SealInv, BufferIsCurrent, Tables
    <3> QED
      BY <3>1, <3>2, <2>1 DEF With
  <2>7. EmittedIsClosed(p)'
    BY <1>2 DEF SealInv, EmittedIsClosed, Emitted
  <2>8. \A q \in Pipelines \ {p} :
          /\ Clocks(q)' /\ Tables(q)'
          /\ DirtyIsOpen(q)' /\ BufferIsCurrent(q)' /\ EmittedIsClosed(q)'
    BY <1>1, <1>2, <1>3, <1>12, OthersKeep DEF Shapes
  <2> QED
    BY <1>7, <1>8, <1>10, <2>4, <2>5, <2>6, <2>7, <2>8 DEF SealInv
<1> QED
  BY <1>3, <1>11, <1>12

\* The window that comes first in the cache may close windows in the buffer, but none
\* that is still in the cache.
LEMMA FlushSeals ==
  ASSUME SealInv, NEW p \in Pipelines, FlushWindow(p)
  PROVE  SealInv'
<1>1. Shapes /\ Clocks(p) /\ Tables(p) /\ DirtyIsOpen(p) /\ BufferIsCurrent(p)
      /\ EmittedIsClosed(p)
  BY DEF SealInv
<1>2. /\ UNCHANGED <<topic, client, position, observed, agg, output>>
      /\ sending = Nothing /\ client = "committing" /\ Ready(p) = {}
  BY DEF FlushWindow, sinkVars
<1>3. PICK w \in DOMAIN dirty[p] :
        /\ \A v \in DOMAIN dirty[p] : dirty[p][w] <= dirty[p][v]
        /\ dirty' = [dirty EXCEPT ![p] = Without(dirty[p], w)]
        /\ \/ /\ Suppressing(p)
              /\ buffer' = [buffer EXCEPT ![p] = With(buffer[p], w, agg[p][w])]
              /\ closing' = [closing EXCEPT ![p] = Larger(closing[p], agg[p][w].time)]
              /\ UNCHANGED sending
           \/ /\ ~Suppressing(p)
              /\ sending' = Update(p, w, agg[p][w])
              /\ UNCHANGED <<buffer, closing>>
  BY DEF FlushWindow, bufferVars
<1> DEFINE time == agg[p][w].time
<1>4. /\ w \in DOMAIN agg[p] /\ Start(w) \in Int
      /\ time \in Int /\ time <= observed[p]
  BY <1>1 DEF Tables
<1>5. Shapes'
  BY <1>1, <1>2, <1>3 DEF Shapes, IsUpdate, Update
<1>6. dirty'[p] = Without(dirty[p], w)
  BY <1>1, <1>3 DEF Shapes
<1>7. \A q \in Pipelines \ {p} :
        /\ Clocks(q)' /\ Tables(q)'
        /\ DirtyIsOpen(q)' /\ BufferIsCurrent(q)' /\ EmittedIsClosed(q)'
  BY <1>1, <1>2, <1>3, OthersKeep DEF Shapes
<1>8. CASE /\ Suppressing(p)
           /\ buffer' = [buffer EXCEPT ![p] = With(buffer[p], w, agg[p][w])]
           /\ closing' = [closing EXCEPT ![p] = Larger(closing[p], time)]
           /\ UNCHANGED sending
  <2>1. /\ buffer'[p] = With(buffer[p], w, agg[p][w])
        /\ closing'[p] = Larger(closing[p], time)
    BY <1>1, <1>8 DEF Shapes
  <2>2. closing'[p] \in Int /\ closing[p] <= closing'[p] /\ closing'[p] \in {closing[p], time}
    BY <2>1, <1>1, <1>4 DEF Larger, Clocks
  <2>3. Clocks(p)'
    BY <2>2, <1>1, <1>2, <1>4 DEF Clocks
  <2>4. Tables(p)'
    BY <2>1, <1>1, <1>2, <1>4, <1>6, <1>8 DEF Tables, With, Without, Suppressing
  <2>5. DirtyIsOpen(p)'
    <3> SUFFICES ASSUME NEW v \in DOMAIN dirty'[p]
                 PROVE  /\ ~Closed(v, closing'[p])
                        /\ \A x \in DOMAIN dirty'[p] :
                             dirty'[p][x] <= dirty'[p][v] => ~Closed(v, agg[p][x].time)
      BY <1>2 DEF DirtyIsOpen
    <3>1. v \in DOMAIN dirty[p] /\ dirty'[p][v] = dirty[p][v]
          /\ \A x \in DOMAIN dirty'[p] : x \in DOMAIN dirty[p] /\ dirty'[p][x] = dirty[p][x]
      BY <1>6 DEF Without
    <3>2. ~Closed(v, closing[p]) /\ ~Closed(v, time)
      BY <3>1, <1>1, <1>3, <1>8 DEF DirtyIsOpen
    <3> QED
      BY <3>1, <3>2, <2>2, <1>1, <1>8 DEF DirtyIsOpen
  <2>6. BufferIsCurrent(p)'
    BY <2>1, <1>1, <1>2, <1>6 DEF BufferIsCurrent, With, Without
  <2>7. EmittedIsClosed(p)'
    <3> SUFFICES ASSUME NEW v \in Emitted(p)
                 PROVE  /\ Start(v) \in Int /\ Closed(v, closing'[p])
                        /\ \A x \in DOMAIN buffer'[p] : v[1] = x[1] => Start(v) < Start(x)
      BY <1>2 DEF EmittedIsClosed, Emitted
    <3>1. /\ Start(v) \in Int /\ Closed(v, closing[p])
          /\ \A x \in DOMAIN buffer[p] : v[1] = x[1] => Start(v) < Start(x)
      BY <1>1, <1>8 DEF EmittedIsClosed
    <3>2. Closed(v, closing'[p])
      BY <3>1, <2>2, <1>1, ClosedLater DEF Clocks
    <3>3. ~Closed(w, closing[p])
      BY <1>1, <1>8 DEF DirtyIsOpen
    <3>4. Start(v) < Start(w)
      BY <3>1, <3>3, <1>1, <1>4, WindowAssumption DEF Closed, Clocks
    <3> QED
      BY <3>1, <3>2, <3>4, <2>1 DEF With
  <2>8. SendingIsCurrent'
    BY <1>2, <1>8 DEF SendingIsCurrent
  <2> QED
    BY <1>5, <1>7, <2>3, <2>4, <2>5, <2>6, <2>7, <2>8 DEF SealInv
<1>9. CASE /\ ~Suppressing(p)
           /\ sending' = Update(p, w, agg[p][w])
           /\ UNCHANGED <<buffer, closing>>
  <2>1. Clocks(p)'
    BY <1>1, <1>2, <1>9 DEF Clocks
  <2>2. Tables(p)'
    BY <1>1, <1>2, <1>6, <1>9 DEF Tables, Without, Suppressing
  <2>3. DirtyIsOpen(p)' /\ EmittedIsClosed(p)'
    BY <1>9 DEF DirtyIsOpen, EmittedIsClosed, Suppressing
  <2>4. BufferIsCurrent(p)'
    BY <1>1, <1>9 DEF BufferIsCurrent, Tables
  <2>5. SendingIsCurrent'
    <3>1. sending'.pipeline = p /\ sending'.w = w /\ sending'.agg = agg[p][w]
      BY <1>9 DEF Update
    <3> QED
      BY <3>1, <1>2, <1>4, <1>9 DEF SendingIsCurrent, Suppressing
  <2> QED
    BY <1>5, <1>7, <2>1, <2>2, <2>3, <2>4, <2>5 DEF SealInv
<1> QED
  BY <1>3, <1>8, <1>9

\* The oldest closed window leaves the buffer: it has no change to be flushed, so it is
\* what its window holds, and what stays behind of its sensor is newer.
LEMMA EmitSeals ==
  ASSUME SealInv, NEW p \in Pipelines, EmitClosed(p)
  PROVE  SealInv'
<1>1. Shapes /\ Clocks(p) /\ Tables(p) /\ DirtyIsOpen(p) /\ BufferIsCurrent(p)
      /\ EmittedIsClosed(p)
  BY DEF SealInv
<1>2. /\ UNCHANGED <<topic, client, position, observed, agg, dirty, closing, output>>
      /\ client = "committing"
  BY DEF EmitClosed, sinkVars, taskVars
<1>3. PICK w \in Ready(p) :
        /\ \A v \in Ready(p) \ {w} : EmittedBefore(w, v)
        /\ sending' = Update(p, w, buffer[p][w])
        /\ buffer' = [buffer EXCEPT ![p] = Without(buffer[p], w)]
  BY DEF EmitClosed
<1>4. /\ w \in DOMAIN buffer[p] /\ w \in DOMAIN agg[p] /\ Start(w) \in Int
      /\ Suppressing(p) /\ Closed(w, closing[p])
  BY <1>1 DEF Ready, Tables
<1>5. w \notin DOMAIN dirty[p] /\ buffer[p][w] = agg[p][w]
  BY <1>1, <1>4 DEF DirtyIsOpen, BufferIsCurrent
<1>6. buffer'[p] = Without(buffer[p], w)
  BY <1>1, <1>3 DEF Shapes
<1>7. Shapes'
  BY <1>1, <1>2, <1>3 DEF Shapes, IsUpdate, Update
<1>8. Clocks(p)' /\ Tables(p)' /\ DirtyIsOpen(p)'
  BY <1>1, <1>2, <1>6 DEF Clocks, Tables, DirtyIsOpen, Without, Suppressing
<1>9. BufferIsCurrent(p)'
  BY <1>1, <1>2, <1>6 DEF BufferIsCurrent, Without
<1>10. EmittedIsClosed(p)'
  BY <1>1, <1>2, <1>6 DEF EmittedIsClosed, Emitted, Without, Suppressing
<1>11. \A v \in DOMAIN buffer'[p] : w[1] = v[1] => Start(w) < Start(v)
  <2> SUFFICES ASSUME NEW v \in DOMAIN buffer[p], v # w, w[1] = v[1]
               PROVE  Start(w) < Start(v)
    BY <1>6 DEF Without
  <2>1. Start(v) \in Int /\ Start(v) # Start(w)
    BY <1>1, <1>4 DEF Tables, Start
  <2>2. CASE v \in Ready(p)
    BY <2>1, <2>2, <1>3, <1>4 DEF EmittedBefore
  <2>3. CASE ~Closed(v, closing[p])
    BY <2>1, <2>3, <1>1, <1>4, WindowAssumption DEF Closed, Clocks
  <2> QED
    BY <2>2, <2>3 DEF Ready
<1>12. SendingIsCurrent'
  <2>1. sending'.pipeline = p /\ sending'.w = w /\ sending'.agg = agg[p][w]
    BY <1>3, <1>5 DEF Update
  <2>2. \A v \in Emitted(p) : v[1] = w[1] => Start(v) < Start(w)
    BY <1>1, <1>4 DEF EmittedIsClosed
  <2> QED
    BY <2>1, <2>2, <1>2, <1>4, <1>11 DEF SendingIsCurrent, Emitted, Suppressing
<1>13. \A q \in Pipelines \ {p} :
        /\ Clocks(q)' /\ Tables(q)'
        /\ DirtyIsOpen(q)' /\ BufferIsCurrent(q)' /\ EmittedIsClosed(q)'
  BY <1>1, <1>2, <1>3, OthersKeep DEF Shapes
<1> QED
  BY <1>7, <1>8, <1>9, <1>10, <1>12, <1>13 DEF SealInv

\* What the topic gets is the update on its way.
LEMMA SendSeals ==
  ASSUME SealInv, SendOutput, NEW p \in Pipelines, sending.pipeline = p
  PROVE  /\ SealInv'
         /\ Emitted(p)' = Emitted(p) \cup {sending.w}
         /\ \A q \in Pipelines \ {p} : Emitted(q)' = Emitted(q)
<1> DEFINE out == [w |-> sending.w, agg |-> sending.agg]
<1>1. /\ UNCHANGED <<topic, client, position, observed, agg, dirty, buffer, closing>>
      /\ sending' = Nothing /\ sending # Nothing
      /\ output' = [output EXCEPT ![p] = Append(output[p], out)]
  BY DEF SendOutput, InHand, taskVars, bufferVars, Nothing
<1>2. sending.w \in DOMAIN agg[p]
  BY <1>1 DEF SealInv, SendingIsCurrent
<1>3. Shapes /\ Tables(p) /\ Clocks(p)
  BY DEF SealInv
<1>4. PICK S : output[p] \in Seq(S)
  BY <1>3 DEF Shapes, IsSequence
<1>5. output[p] \in Seq(S \cup {out}) /\ out \in S \cup {out}
  BY <1>4
<1> HIDE DEF out
<1>6. output'[p] = Append(output[p], out)
  BY <1>1, <1>3 DEF Shapes
<1>7. output'[p] \in Seq(S \cup {out})
  BY <1>5, <1>6
<1>8. Emitted(p)' = Emitted(p) \cup {sending.w}
  <2>1. /\ Len(output'[p]) = Len(output[p]) + 1 /\ Len(output[p]) \in Nat
        /\ \A i \in 1..Len(output[p]) : output'[p][i] = output[p][i]
        /\ output'[p][Len(output[p]) + 1] = out
    BY <1>5, <1>6
  <2>2. out.w = sending.w
    BY DEF out
  <2> QED
    BY <2>1, <2>2 DEF Emitted
<1>9. \A q \in Pipelines \ {p} : output'[q] = output[q] /\ Emitted(q)' = Emitted(q)
  BY <1>1, <1>3 DEF Shapes, Emitted
<1>10. Shapes'
  BY <1>1, <1>3, <1>7, <1>9 DEF Shapes, IsSequence
<1>11. SendingIsCurrent'
  BY <1>1 DEF SendingIsCurrent
<1>12. \A q \in Pipelines :
         Clocks(q)' /\ Tables(q)' /\ DirtyIsOpen(q)' /\ BufferIsCurrent(q)'
  BY <1>1 DEF SealInv, Clocks, Tables, DirtyIsOpen, BufferIsCurrent
<1>13. EmittedIsClosed(p)'
  <2>1. ASSUME Suppressing(p)
        PROVE  /\ Start(sending.w) \in Int /\ Closed(sending.w, closing[p])
               /\ \A v \in DOMAIN buffer[p] : sending.w[1] = v[1] => Start(sending.w) < Start(v)
    BY <2>1, <1>1, <1>2, <1>3 DEF SealInv, SendingIsCurrent, Tables
  <2> QED
    BY <2>1, <1>1, <1>8 DEF SealInv, EmittedIsClosed
<1>14. \A q \in Pipelines \ {p} : EmittedIsClosed(q)'
  BY <1>1, <1>9 DEF SealInv, EmittedIsClosed
<1> QED
  BY <1>8, <1>9, <1>10, <1>11, <1>12, <1>13, <1>14 DEF SealInv

-----------------------------------------------------------------------------
(* Every step keeps the invariant and is a step of the promise, or invisible. *)

\* The steps that leave the tables and the output topics alone.
LEMMA InvisibleSteps ==
  ASSUME SealInv,
         \/ BeginCommit \/ FinishCommit \/ StreamsFail \/ CheckForAlerts \/ Deactivate
         \/ WriteInflux \/ WriteRedis
         \/ \E d \in MapKeys, s \in {"ACTIVE", "INACTIVE"} : Toggle(d, s)
         \/ UNCHANGED vars
  PROVE  SealInv' /\ UNCHANGED <<topic, position, agg, output>>
<1>1. UNCHANGED <<topic, position, observed, agg, dirty, buffer, closing, output>>
  BY DEF BeginCommit, FinishCommit, StreamsFail, CheckForAlerts, Deactivate, WriteInflux,
     WriteRedis,
     Toggle, vars, taskVars, bufferVars, sinkVars
<1>2. sending = Nothing => sending' = Nothing
  BY DEF BeginCommit, FinishCommit, StreamsFail, CheckForAlerts, Deactivate, WriteInflux,
     WriteRedis,
     Toggle, vars, InHand, Nothing
<1>3. ASSUME sending # Nothing
      PROVE  /\ sending' # Nothing /\ IsUpdate(sending') /\ client' # "running"
             /\ sending'.pipeline = sending.pipeline
             /\ sending'.agg = sending.agg /\ sending'.w = sending.w
  <2>1. IsUpdate(sending) /\ client # "running"
    BY <1>3 DEF SealInv, Shapes
  <2>2. UNCHANGED sending \/ \E stage \in {"deactivate", "influx", "redis", "output"} :
                               sending' = [sending EXCEPT !.stage = stage]
    BY <1>3 DEF BeginCommit, FinishCommit, StreamsFail, CheckForAlerts, Deactivate,
       WriteInflux,
       WriteRedis, Toggle, vars, NextStage
  <2>3. client' # "running"
    BY <1>3, <2>1 DEF BeginCommit, FinishCommit, StreamsFail, CheckForAlerts, Deactivate,
       WriteInflux,
       WriteRedis, Toggle, vars
  <2>4. CASE UNCHANGED sending
    BY <1>3, <2>1, <2>3, <2>4
  <2>5. ASSUME NEW stage \in {"deactivate", "influx", "redis", "output"},
               sending' = [sending EXCEPT !.stage = stage]
        PROVE  /\ sending' # Nothing /\ IsUpdate(sending')
               /\ sending'.pipeline = sending.pipeline
               /\ sending'.agg = sending.agg /\ sending'.w = sending.w
    <3>1. sending' = [pipeline |-> sending.pipeline, w |-> sending.w, agg |-> sending.agg,
                      stage |-> stage]
      BY <2>1, <2>5 DEF IsUpdate
    <3> QED
      BY <3>1 DEF IsUpdate, Nothing
  <2> QED
    BY <2>2, <2>3, <2>4, <2>5
<1> QED
  BY <1>1, <1>2, <1>3, QuietSeals

\* A power record that is folded in belongs to no window that was published.
LEMMA OpenIsNotEmitted ==
  ASSUME SealInv, NEW p \in Pipelines, Suppressing(p), position[p] < Len(topic[p]),
         ~Closed(WindowOf(topic[p][position[p] + 1]),
                 Larger(observed[p], topic[p][position[p] + 1].time))
  PROVE  WindowOf(topic[p][position[p] + 1]) \notin Emitted(p)
<1> DEFINE offset == position[p] + 1
           r == topic[p][offset]
           now == Larger(observed[p], r.time)
           w == WindowOf(r)
<1>1. Shapes /\ Clocks(p) /\ EmittedIsClosed(p)
  BY DEF SealInv
<1>2. topic[p] \in Seq({topic[p][j] : j \in DOMAIN topic[p]})
  BY <1>1, LogsAssumption DEF Shapes
<1>3. offset \in 1..Len(topic[p])
  BY <1>1, <1>2 DEF Clocks
<1>4. r.time \in Nat /\ Start(w) \in Int
  BY <1>1, <1>3, RecordTimes DEF Shapes
<1>5. now \in Int /\ closing[p] \in Int /\ closing[p] <= now
  BY <1>1, <1>4 DEF Larger, Clocks
<1>6. ~Closed(w, closing[p])
  BY <1>4, <1>5, ClosedLater
<1> QED
  BY <1>1, <1>6 DEF EmittedIsClosed

LEMMA ProcessIsTake ==
  ASSUME SealInv, NEW p \in Pipelines, Process(p)
  PROVE  Promise!Take(p)
<1> DEFINE offset == position[p] + 1
           r == topic[p][offset]
           now == Larger(observed[p], r.time)
           w == WindowOf(r)
<1>1. /\ position[p] < Len(topic[p]) /\ position' = [position EXCEPT ![p] = offset]
      /\ UNCHANGED <<topic, output>>
  BY DEF Process, sinkVars
<1>2. CASE UNCHANGED agg
  BY <1>1, <1>2 DEF Promise!Take
<1>3. CASE /\ ~Closed(w, now)
           /\ agg' = [agg EXCEPT ![p] = With(agg[p], w, Fold(p, r, offset))]
  <2>1. ~Promise!IsFinal(p, w)
    BY <1>1, <1>3, OpenIsNotEmitted
       DEF Promise!IsFinal, Promise!Published, Emitted, Suppressing
  <2>2. w = Promise!WindowOf(r)
    BY DEF WindowOf, Promise!WindowOf
  <2>3. With(agg[p], w, Fold(p, r, offset)) =
          Promise!Replace(agg[p], w, Promise!Add(
            IF w \in DOMAIN agg[p] THEN agg[p][w] ELSE Promise!EmptyWindow, r, offset))
    BY DEF With, Fold, Larger, Promise!Replace, Promise!Add, Promise!Later,
       Promise!EmptyWindow
  <2> HIDE DEF w
  <2> QED
    BY <1>1, <1>3, <2>1, <2>2, <2>3 DEF Promise!Take
<1> QED
  BY <1>2, <1>3 DEF Process

LEMMA SendIsPublish ==
  ASSUME SealInv, SendOutput
  PROVE  \E p \in Pipelines : \E w \in DOMAIN agg[p] : Promise!Publish(p, w)
<1> DEFINE p == sending.pipeline
           w == sending.w
<1>1. /\ sending # Nothing /\ UNCHANGED <<topic, position, agg>>
      /\ output' = [output EXCEPT ![p] = Append(@, [w |-> w, agg |-> sending.agg])]
  BY DEF SendOutput, InHand, taskVars, Nothing
<1>2. p \in Pipelines /\ w \in DOMAIN agg[p] /\ sending.agg = agg[p][w]
  BY <1>1 DEF SealInv, SendingIsCurrent
<1>3. p = "power" => \A v \in Promise!Published(p) : v[1] = w[1] => v[2] < w[2]
  BY <1>1 DEF SealInv, SendingIsCurrent, Suppressing, Emitted, Promise!Published, Start
<1>4. Promise!Publish(p, w)
  BY <1>1, <1>2, <1>3 DEF Promise!Publish
<1> QED
  BY <1>2, <1>4

LEMMA StepPromised ==
  ASSUME SealInv, [Next]_vars, ~Restart
  PROVE  SealInv' /\ [Promise!Next]_(Promise!vars)
<1>1. CASE \E p \in Pipelines : Process(p)
  BY <1>1, ProcessSeals, ProcessIsTake DEF Promise!Next
<1>2. CASE \E p \in Pipelines : FlushWindow(p)
  <2>1. UNCHANGED <<topic, position, agg, output>>
    BY <1>2 DEF FlushWindow, sinkVars
  <2> QED
    BY <1>2, <2>1, FlushSeals DEF Promise!vars
<1>3. CASE \E p \in Pipelines : EmitClosed(p)
  <2>1. UNCHANGED <<topic, position, agg, output>>
    BY <1>3 DEF EmitClosed, sinkVars, taskVars
  <2> QED
    BY <1>3, <2>1, EmitSeals DEF Promise!vars
<1>4. CASE SendOutput
  <2>1. sending.pipeline \in Pipelines
    BY <1>4 DEF SealInv, SendingIsCurrent, SendOutput, InHand, Nothing
  <2>2. SealInv'
    BY <1>4, <2>1, SendSeals
  <2> QED
    BY <1>4, <2>2, SendIsPublish DEF Promise!Next
<1>5. CASE \/ BeginCommit \/ FinishCommit \/ StreamsFail \/ CheckForAlerts \/ Deactivate
           \/ WriteInflux \/ WriteRedis
           \/ \E d \in MapKeys, s \in {"ACTIVE", "INACTIVE"} : Toggle(d, s)
           \/ UNCHANGED vars
  BY <1>5, InvisibleSteps DEF Promise!vars
<1> QED
  BY <1>1, <1>2, <1>3, <1>4, <1>5 DEF Next, StreamThread

\* Whoever reads the output topics sees records taken in order and added to their windows,
\* and windows published as they are at that instant; nothing of caches, commits and
\* suppress().  In particular a power total that was published is final.
THEOREM PromiseKept == Spec => ([](restarts = 0) => AggregatesAsPromised)
<1>1. Init => SealInv /\ Promise!Init
  <2>1. Init => Promise!Init
    BY DEF Init, Promise!Init, Empty
  <2> QED
    BY <2>1, InitSeals
<1>2. SealInv /\ restarts = 0 /\ (restarts = 0)' /\ [Next]_vars
        => SealInv' /\ [Promise!Next]_(Promise!vars)
  <2>1. restarts = 0 /\ restarts' = 0 => ~Restart
    BY DEF Restart
  <2> QED
    BY <2>1, StepPromised
<1> QED
  BY <1>1, <1>2, PTL DEF Spec, AggregatesAsPromised, Promise!Spec

-----------------------------------------------------------------------------
(* Redis. *)

RedisInv(p) ==
  /\ \A slot \in DOMAIN redis : slot = <<slot[1], redis[slot].w[1] - 1>>
  /\ \A slot \in DOMAIN redis : slot[1] = p =>
       \A v \in Emitted(p) : v[1] = redis[slot].w[1] => Start(v) <= Start(redis[slot].w)
  /\ sending.stage = "output" /\ sending.pipeline = p =>
       LET slot == <<p, sending.w[1] - 1>> IN
       slot \in DOMAIN redis /\ redis[slot].w = sending.w

\* The update on its way is of no older window than what was published for the sensor.
NewestIsSent(p) ==
  sending # Nothing /\ sending.pipeline = p =>
    \A v \in Emitted(p) : v[1] = sending.w[1] => Start(v) <= Start(sending.w)

\* The windows of a power sensor are let go oldest first.
LEMMA NewestTotalIsSent ==
  ASSUME SealInv, "power" \in Pipelines
  PROVE  NewestIsSent("power")
<1> SUFFICES ASSUME sending # Nothing, sending.pipeline = "power", NEW v \in Emitted("power"),
                    v[1] = sending.w[1]
             PROVE  Start(v) <= Start(sending.w)
  BY DEF NewestIsSent
<1>1. Start(v) < Start(sending.w) /\ Start(v) \in Int /\ Start(sending.w) \in Int
  BY DEF SealInv, SendingIsCurrent, EmittedIsClosed, Tables, Suppressing
<1> QED
  BY <1>1

\* Redis is written before the topic, with what is about to be published.
LEMMA StepKeepsRedis ==
  ASSUME SealInv, NEW p \in Pipelines, NewestIsSent(p), RedisInv(p), "redis" \notin MayFail,
         [Next]_vars, ~Restart
  PROVE  RedisInv(p)'
<1>1. ASSUME UNCHANGED <<redis, output>>,
             sending' = sending \/ sending'.stage # "output"
      PROVE  RedisInv(p)'
  <2>1. Emitted(p)' = Emitted(p)
    BY <1>1 DEF Emitted
  <2> QED
    BY <1>1, <2>1 DEF RedisInv
<1>2. CASE \E q \in Pipelines : Process(q)
  BY <1>1, <1>2 DEF Process, sinkVars
<1>3. CASE \E q \in Pipelines : FlushWindow(q) \/ EmitClosed(q)
  <2>1. UNCHANGED <<redis, output>>
    BY <1>3 DEF FlushWindow, EmitClosed, sinkVars
  <2>2. sending' = sending \/ sending'.stage = "alert"
    BY <1>3 DEF FlushWindow, EmitClosed, Update
  <2> QED
    BY <1>1, <2>1, <2>2
<1>4. CASE \/ BeginCommit \/ FinishCommit \/ StreamsFail
           \/ \E d \in MapKeys, s \in {"ACTIVE", "INACTIVE"} : Toggle(d, s)
           \/ UNCHANGED vars
  BY <1>1, <1>4 DEF BeginCommit, FinishCommit, StreamsFail, Toggle, vars, sinkVars
<1>5. ASSUME NEW stage \in {"deactivate", "influx", "redis"}, SealInv, sending # Nothing,
             sending' = [sending EXCEPT !.stage = stage]
      PROVE  sending'.stage # "output"
  BY <1>5 DEF SealInv, Shapes, IsUpdate
<1>6. CASE CheckForAlerts \/ Deactivate
  BY <1>1, <1>5, <1>6 DEF CheckForAlerts, Deactivate, NextStage, InHand, Nothing, sinkVars
<1>7. CASE WriteInflux
  BY <1>1, <1>5, <1>7 DEF WriteInflux, NextStage, InHand, Nothing
<1>8. CASE WriteRedis
  <2> DEFINE own == <<sending.pipeline, sending.w[1] - 1>>
             new == [w |-> sending.w, agg |-> sending.agg]
  <2>1. /\ sending # Nothing /\ redis' = With(redis, own, new) /\ UNCHANGED output
        /\ sending' = [sending EXCEPT !.stage = "output"]
    BY <1>8 DEF WriteRedis, NextStage, InHand, Nothing
  <2>2. sending'.pipeline = sending.pipeline /\ sending'.w = sending.w
    BY <2>1 DEF SealInv, Shapes, IsUpdate
  <2>3. /\ DOMAIN redis' = DOMAIN redis \cup {own} /\ redis'[own] = new
        /\ \A slot \in DOMAIN redis \ {own} : redis'[slot] = redis[slot]
    BY <2>1 DEF With
  <2>4. own[1] = p =>
          \A v \in Emitted(p) : v[1] = sending.w[1] => Start(v) <= Start(sending.w)
    BY <2>1 DEF NewestIsSent
  <2>5. Emitted(p)' = Emitted(p)
    BY <2>1 DEF Emitted
  <2> HIDE DEF own
  <2>6. own = <<sending.pipeline, sending.w[1] - 1>> /\ new.w = sending.w
    BY DEF own
  <2> HIDE DEF new
  <2> QED
    BY <2>2, <2>3, <2>4, <2>5, <2>6 DEF RedisInv
<1>9. CASE SendOutput
  <2>1. sending # Nothing /\ sending' = Nothing /\ UNCHANGED redis
        /\ sending.stage = "output" /\ sending.pipeline \in Pipelines
    BY <1>9 DEF SealInv, SendingIsCurrent, SendOutput, InHand, Nothing
  <2>2. sending'.stage # "output"
    BY <2>1 DEF Nothing
  <2>3. CASE sending.pipeline # p
    BY <1>9, <2>1, <2>2, <2>3, SendSeals DEF RedisInv
  <2>4. CASE sending.pipeline = p
    <3>1. Emitted(p)' = Emitted(p) \cup {sending.w}
      BY <1>9, <2>4, SendSeals
    <3>2. Start(sending.w) \in Int
      BY <2>1, <2>4 DEF SealInv, SendingIsCurrent, Tables
    <3>3. ASSUME NEW slot \in DOMAIN redis, slot[1] = p, redis[slot].w[1] = sending.w[1]
          PROVE  redis[slot].w = sending.w
      BY <2>1, <2>4, <3>3 DEF RedisInv
    <3> QED
      BY <2>1, <2>2, <3>1, <3>2, <3>3 DEF RedisInv
  <2> QED
    BY <2>3, <2>4
<1> QED
  BY <1>2, <1>3, <1>4, <1>6, <1>7, <1>8, <1>9 DEF Next, StreamThread

\* What a restart does, and what nothing else does.
LEMMA OnlyRestartCounts == [Next]_vars /\ ~Restart => UNCHANGED restarts
  BY DEF Next, StreamThread, Process, FlushWindow, EmitClosed, BeginCommit,
     FinishCommit, StreamsFail, CheckForAlerts, Deactivate, WriteInflux, WriteRedis,
     SendOutput,
     Toggle, vars, bounds

\* The power total in Redis is never older than one that was published.
THEOREM RedisTotalIsNewest == Spec => []RedisHoldsNewestTotal
<1> DEFINE Holds == "power" \in Pipelines /\ "redis" \notin MayFail => RedisInv("power")
           Inv == restarts \in Nat /\ (restarts = 0 => SealInv /\ Holds)
<1>1. Init => Inv
  <2>1. Init => restarts = 0 /\ RedisInv("power")
    BY DEF Init, RedisInv, Empty, Nothing, Emitted
  <2> QED
    BY <2>1, InitSeals
<1>2. Inv /\ [Next]_vars => Inv'
  <2> SUFFICES ASSUME Inv, [Next]_vars PROVE Inv'
    OBVIOUS
  <2>1. CASE Restart
    BY <2>1 DEF Restart
  <2>2. CASE ~Restart
    BY <2>2, OnlyRestartCounts, StepPromised, NewestTotalIsSent, StepKeepsRedis
  <2> QED
    BY <2>1, <2>2
<1>3. Inv => RedisHoldsNewestTotal
  BY DEF RedisInv, RedisHoldsNewestTotal, NewestInRedis, Emitted
<1> QED
  BY <1>1, <1>2, <1>3, PTL DEF Spec
=============================================================================

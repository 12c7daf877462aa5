--------------------------- MODULE Results_proofs ---------------------------
(***************************************************************************)
(* What the published results are made of, for every set of pipelines and  *)
(* keys, every content of the topics, every window size and grace, and     *)
(* whatever fails.  As long as the process is not restarted each of them   *)
(* is the exact sum and count of the records of its window; what is left   *)
(* of that after a restart, when records are counted twice, is that an     *)
(* average lies among the readings it is made of.                          *)
(***************************************************************************)
EXTENDS Aggregation_proofs, Totals_proofs

IsExact(p, a) == a.count = Cardinality(a.from) /\ a.sum = Total(topic[p], a.from)

\* Every window holds exactly the records accepted into it.
WindowsExact(p) ==
  /\ \A o \in accepted[p] : /\ o \in 1..position[p] /\ topic[p][o].value \in Int
                            /\ WindowOf(topic[p][o]) \in DOMAIN agg[p]
  /\ \A w \in DOMAIN agg[p] : agg[p][w].from = RecordsIn(p, w) /\ IsExact(p, agg[p][w])

\* What was published of a window were its records up to some offset; of a power window,
\* what it still holds, and that once.
OutputExact(p) ==
  \A i \in 1..Len(output[p]) :
    LET out == output[p][i] IN
    /\ out.w \in DOMAIN agg[p] /\ IsExact(p, out.agg)
    /\ \E n \in 0..position[p] : out.agg.from = {o \in RecordsIn(p, out.w) : o <= n}
    /\ Suppressing(p) =>
         /\ out.agg = agg[p][out.w]
         /\ \A j \in 1..Len(output[p]) : output[p][j].w = out.w => j = i

ExactInv ==
  DOMAIN accepted = Pipelines /\ \A p \in Pipelines : WindowsExact(p) /\ OutputExact(p)

\* A record that passes the filters has an integer for its value.
LEMMA AcceptedValues ==
  ASSUME topic \in Logs, NEW p \in Pipelines, NEW i \in 1..Len(topic[p]),
         PassesFilters(p, topic[p][i])
  PROVE  topic[p][i].value \in Int
<1>1. topic[p] \in Seq({topic[p][j] : j \in DOMAIN topic[p]})
  BY LogsAssumption
<1>2. i \in DOMAIN topic[p]
  BY <1>1
<1> QED
  BY <1>2, LogsAssumption DEF PassesFilters

\* The records of a window are a finite set of offsets with integers for values.
LEMMA RecordsAreFinite ==
  ASSUME NEW p \in Pipelines, WindowsExact(p), position[p] \in Nat, NEW w
  PROVE  /\ IsFiniteSet(RecordsIn(p, w)) /\ RecordsIn(p, w) \subseteq 1..position[p]
         /\ \A o \in RecordsIn(p, w) : topic[p][o].value \in Int
<1>1. RecordsIn(p, w) \subseteq 1..position[p]
  BY DEF RecordsIn, WindowsExact
<1>2. IsFiniteSet(1..position[p])
  BY FS_Interval
<1>3. IsFiniteSet(RecordsIn(p, w))
  BY <1>1, <1>2, FS_Subset
<1> QED
  BY <1>1, <1>3 DEF RecordsIn, WindowsExact

LEMMA InitExact == Init => ExactInv
<1> SUFFICES ASSUME Init, NEW p \in Pipelines PROVE WindowsExact(p) /\ OutputExact(p)
  BY DEF Init, ExactInv
<1>1. accepted[p] = {} /\ DOMAIN agg[p] = {} /\ Len(output[p]) = 0
  BY DEF Init, Empty
<1> QED
  BY <1>1 DEF WindowsExact, OutputExact

\* Folding in one record more, which was not in the window.
LEMMA FoldIsExact ==
  ASSUME NEW p \in Pipelines, WindowsExact(p), position[p] \in Nat,
         topic[p][position[p] + 1].value \in Int
  PROVE  LET offset == position[p] + 1
             w == WindowOf(topic[p][offset])
             a == Fold(p, topic[p][offset], offset)
         IN  a.from = RecordsIn(p, w) \cup {offset} /\ IsExact(p, a)
<1> DEFINE offset == position[p] + 1
           r == topic[p][offset]
           w == WindowOf(r)
           R == RecordsIn(p, w)
           a == Fold(p, r, offset)
<1>1. /\ IsFiniteSet(R) /\ R \subseteq 1..position[p]
      /\ \A o \in R : topic[p][o].value \in Int
  BY RecordsAreFinite
<1>2. offset \notin R
  BY <1>1
<1>3. /\ a.from = R \cup {offset} /\ a.count = Cardinality(R) + 1
      /\ a.sum = Total(topic[p], R) + r.value
  <2>1. CASE w \in DOMAIN agg[p]
    BY <2>1 DEF Fold, WindowsExact, IsExact
  <2>2. CASE w \notin DOMAIN agg[p]
    <3>1. R = {}
      BY <2>2 DEF WindowsExact, RecordsIn
    <3>2. Cardinality(R) = 0 /\ Total(topic[p], R) = 0
      BY <3>1, FS_EmptySet, TotalOfNone
    <3> HIDE DEF R
    <3> QED
      BY <2>2, <3>1, <3>2 DEF Fold
  <2> QED
    BY <2>1, <2>2
<1> HIDE DEF R, a
<1>4. Cardinality(R \cup {offset}) = Cardinality(R) + 1
  BY <1>1, <1>2, FS_AddElement
<1>5. Total(topic[p], R \cup {offset}) = Total(topic[p], R) + r.value
  BY <1>1, <1>2, TotalAdded
<1>6. IsExact(p, a)
  BY <1>3, <1>4, <1>5 DEF IsExact
<1> QED
  BY <1>3, <1>6 DEF R, a

\* A pipeline of which nothing changes, but that records may have been read and dropped.
LEMMA SameExact ==
  ASSUME NEW q \in Pipelines, WindowsExact(q), OutputExact(q),
         UNCHANGED <<topic[q], agg[q], accepted[q], output[q]>>,
         position[q] \in Nat, position'[q] \in Nat, position[q] <= position'[q]
  PROVE  WindowsExact(q)' /\ OutputExact(q)'
<1>1. \A v : RecordsIn(q, v)' = RecordsIn(q, v)
  BY DEF RecordsIn
<1>2. \A a : IsExact(q, a)' = IsExact(q, a)
  BY DEF IsExact
<1>3. WindowsExact(q)'
  BY <1>1, <1>2 DEF WindowsExact, IsExact
<1>4. OutputExact(q)'
  <2> SUFFICES ASSUME NEW i \in 1..Len(output[q])
               PROVE  LET out == output[q][i] IN
                      /\ out.w \in DOMAIN agg[q] /\ IsExact(q, out.agg)
                      /\ \E n \in 0..position'[q] :
                           out.agg.from = {o \in RecordsIn(q, out.w) : o <= n}
                      /\ Suppressing(q) =>
                           /\ out.agg = agg[q][out.w]
                           /\ \A j \in 1..Len(output[q]) : output[q][j].w = out.w => j = i
    BY <1>1, <1>2 DEF OutputExact, IsExact
  <2> QED
    BY DEF OutputExact
<1> QED
  BY <1>3, <1>4

\* A record that is folded in joins the records of its window; those before it, and so what
\* was published of them, stay what they were.
LEMMA ProcessExact ==
  ASSUME SealInv, ExactInv, NEW p \in Pipelines, Process(p)
  PROVE  ExactInv'
<1> DEFINE offset == position[p] + 1
           r == topic[p][offset]
           now == Larger(observed[p], r.time)
           w == WindowOf(r)
           a == Fold(p, r, offset)
<1>1. Shapes /\ Clocks(p) /\ WindowsExact(p) /\ OutputExact(p)
  BY DEF SealInv, ExactInv
<1>2. /\ UNCHANGED <<topic, output>> /\ position' = [position EXCEPT ![p] = offset]
      /\ position[p] < Len(topic[p])
      /\ \/ UNCHANGED <<agg, accepted>>
         \/ /\ PassesFilters(p, r) /\ ~Closed(w, now)
            /\ agg' = [agg EXCEPT ![p] = With(agg[p], w, a)]
            /\ accepted' = [accepted EXCEPT ![p] = accepted[p] \cup {offset}]
  BY DEF Process, sinkVars
<1>3. position[p] \in Nat /\ position'[p] = offset
  BY <1>1, <1>2 DEF Shapes, Clocks
<1>4. DOMAIN accepted' = Pipelines
  BY <1>2 DEF ExactInv
<1>5. ASSUME NEW q \in Pipelines, q # p
      PROVE  WindowsExact(q)' /\ OutputExact(q)'
  <2>1. position[q] \in Nat /\ WindowsExact(q) /\ OutputExact(q)
    BY DEF SealInv, Clocks, ExactInv
  <2>2. UNCHANGED <<topic[q], output[q], position[q], agg[q], accepted[q]>>
    BY <1>1, <1>2, <1>5 DEF Shapes, ExactInv
  <2> QED
    BY <2>1, <2>2, SameExact
<1>6. CASE UNCHANGED <<agg, accepted>>
  BY <1>1, <1>2, <1>3, <1>4, <1>5, <1>6, SameExact DEF ExactInv
<1>7. CASE /\ PassesFilters(p, r) /\ ~Closed(w, now)
           /\ agg' = [agg EXCEPT ![p] = With(agg[p], w, a)]
           /\ accepted' = [accepted EXCEPT ![p] = accepted[p] \cup {offset}]
  <2>1. agg'[p] = With(agg[p], w, a) /\ accepted'[p] = accepted[p] \cup {offset}
    BY <1>1, <1>7 DEF Shapes, ExactInv
  <2>2. topic[p] \in Seq({topic[p][j] : j \in DOMAIN topic[p]})
    BY <1>1, LogsAssumption DEF Shapes
  <2>3. offset \in 1..Len(topic[p])
    BY <1>2, <1>3, <2>2
  <2>4. r.value \in Int
    BY <1>1, <1>7, <2>3, AcceptedValues DEF Shapes
  <2>5. a.from = RecordsIn(p, w) \cup {offset} /\ IsExact(p, a)
    BY <1>1, <1>3, <2>4, FoldIsExact
  <2>6. \A v : RecordsIn(p, v)' = RecordsIn(p, v) \cup (IF v = w THEN {offset} ELSE {})
    BY <1>2, <2>1 DEF RecordsIn
  <2>7. /\ DOMAIN agg'[p] = DOMAIN agg[p] \cup {w}
        /\ \A v \in DOMAIN agg'[p] : agg'[p][v] = IF v = w THEN a ELSE agg[p][v]
    BY <2>1 DEF With
  <2>8. Suppressing(p) => w \notin Emitted(p)
    BY <1>2, <1>7, OpenIsNotEmitted
  <2> HIDE DEF w, a, r
  <2>10. WindowsExact(p)'
    <3>1. \A o \in accepted'[p] : /\ o \in 1..offset /\ topic[p][o].value \in Int
                                  /\ WindowOf(topic[p][o]) \in DOMAIN agg'[p]
      <4>1. \A o \in accepted[p] : o \in 1..position[p]
        BY <1>1 DEF WindowsExact
      <4> QED
        BY <1>1, <1>3, <2>1, <2>4, <2>7, <4>1 DEF WindowsExact, r, w
    <3>2. ASSUME NEW v \in DOMAIN agg'[p]
          PROVE  agg'[p][v].from = RecordsIn(p, v)' /\ IsExact(p, agg'[p][v])
      <4>1. CASE v = w
        BY <2>5, <2>6, <2>7, <4>1
      <4>2. CASE v # w
        <5>1. v \in DOMAIN agg[p] /\ agg'[p][v] = agg[p][v] /\ RecordsIn(p, v)' = RecordsIn(p, v)
          BY <2>6, <2>7, <4>2
        <5> QED
          BY <1>1, <5>1 DEF WindowsExact
      <4> QED
        BY <4>1, <4>2
    <3> QED
      BY <1>2, <1>3, <3>1, <3>2 DEF WindowsExact, IsExact
  <2>11. OutputExact(p)'
    <3> SUFFICES ASSUME NEW i \in 1..Len(output[p])
                 PROVE  LET out == output[p][i] IN
                        /\ out.w \in DOMAIN agg'[p] /\ IsExact(p, out.agg)
                        /\ \E n \in 0..offset :
                             out.agg.from = {o \in RecordsIn(p, out.w)' : o <= n}
                        /\ Suppressing(p) =>
                             /\ out.agg = agg'[p][out.w]
                             /\ \A j \in 1..Len(output[p]) : output[p][j].w = out.w => j = i
      BY <1>2, <1>3 DEF OutputExact, IsExact
    <3> DEFINE out == output[p][i]
    <3>1. /\ out.w \in DOMAIN agg[p] /\ IsExact(p, out.agg)
          /\ \E n \in 0..position[p] : out.agg.from = {o \in RecordsIn(p, out.w) : o <= n}
          /\ Suppressing(p) =>
               /\ out.agg = agg[p][out.w]
               /\ \A j \in 1..Len(output[p]) : output[p][j].w = out.w => j = i
      BY <1>1 DEF OutputExact
    <3>2. PICK n \in 0..position[p] : out.agg.from = {o \in RecordsIn(p, out.w) : o <= n}
      BY <3>1
    <3>3. {o \in RecordsIn(p, out.w)' : o <= n} = {o \in RecordsIn(p, out.w) : o <= n}
      <4>1. ~(offset <= n)
        BY <1>3, <3>2
      <4>2. RecordsIn(p, out.w)' = RecordsIn(p, out.w) \cup (IF out.w = w THEN {offset} ELSE {})
        BY <1>2, <2>1 DEF RecordsIn, w, r
      <4> QED
        BY <4>1, <4>2
    <3>4. n \in 0..offset
      BY <1>3, <3>2
    <3>5. Suppressing(p) => out.w # w
      BY <2>8 DEF Emitted
    <3> HIDE DEF out
    <3>6. Suppressing(p) => out.agg = agg'[p][out.w]
      BY <2>7, <3>1, <3>5
    <3>7. \E m \in 0..offset : out.agg.from = {o \in RecordsIn(p, out.w)' : o <= m}
      BY <3>2, <3>3, <3>4
    <3> QED
      BY <2>7, <3>1, <3>6, <3>7 DEF out
  <2> QED
    BY <1>4, <1>5, <2>10, <2>11 DEF ExactInv
<1> QED
  BY <1>2, <1>6, <1>7

\* SendOutput adds the update on its way at the end of its pipeline's topic.
LEMMA SendAppends ==
  ASSUME Shapes, SendOutput, NEW p \in Pipelines, sending.pipeline = p
  PROVE  /\ Len(output[p]) \in Nat /\ Len(output'[p]) = Len(output[p]) + 1
         /\ \A i \in 1..Len(output[p]) : output'[p][i] = output[p][i]
         /\ output'[p][Len(output[p]) + 1] = [w |-> sending.w, agg |-> sending.agg]
         /\ \A q \in Pipelines \ {p} : output'[q] = output[q]
<1> DEFINE new == [w |-> sending.w, agg |-> sending.agg]
<1>1. output' = [output EXCEPT ![p] = Append(output[p], new)]
  BY DEF SendOutput
<1>2. PICK S : output[p] \in Seq(S)
  BY DEF Shapes, IsSequence
<1> HIDE DEF new
<1>3. output[p] \in Seq(S \cup {new}) /\ new \in S \cup {new}
  BY <1>2
<1>4. output'[p] = Append(output[p], new) /\ \A q \in Pipelines \ {p} : output'[q] = output[q]
  BY <1>1 DEF Shapes
<1> QED
  BY <1>3, <1>4 DEF new

\* The update that is published is what its window holds; a total is the first of its window.
LEMMA SendExact ==
  ASSUME SealInv, ExactInv, SendOutput, NEW p \in Pipelines, sending.pipeline = p
  PROVE  ExactInv'
<1> DEFINE w == sending.w
           new == [w |-> w, agg |-> sending.agg]
           out == output[p]
<1>1. sending # Nothing /\ UNCHANGED <<topic, position, agg, accepted>>
  BY DEF SendOutput, InHand, taskVars, Nothing
<1>2. Shapes /\ Tables(p) /\ Clocks(p) /\ SendingIsCurrent
  BY DEF SealInv
<1>3. /\ w \in DOMAIN agg[p] /\ sending.agg = agg[p][w]
      /\ Suppressing(p) => \A v \in Emitted(p) : v[1] = w[1] => Start(v) < Start(w)
  BY <1>1, <1>2 DEF SendingIsCurrent
<1>4. Suppressing(p) => w \notin Emitted(p)
  BY <1>2, <1>3 DEF Tables
<1>5. /\ Len(out) \in Nat /\ Len(output'[p]) = Len(out) + 1
      /\ \A i \in 1..Len(out) : output'[p][i] = out[i]
      /\ output'[p][Len(out) + 1] = new
      /\ \A q \in Pipelines \ {p} : output'[q] = output[q]
  BY <1>2, SendAppends
<1>6. new.w = w /\ new.agg = agg[p][w]
  BY <1>3
<1>7. Suppressing(p) => \A i \in 1..Len(out) : out[i].w # w
  BY <1>4 DEF Emitted
<1>8. \A q \in Pipelines : WindowsExact(q)'
  <2> SUFFICES ASSUME NEW q \in Pipelines PROVE WindowsExact(q)'
    OBVIOUS
  <2>1. WindowsExact(q)
    BY DEF ExactInv
  <2> QED
    BY <1>1, <2>1 DEF WindowsExact, RecordsIn, IsExact
<1>9. WindowsExact(p) /\ OutputExact(p) /\ position[p] \in Nat
  BY <1>2 DEF ExactInv, Clocks
<1> HIDE DEF w, new, out
<1>10. ASSUME NEW i \in 1..Len(out) + 1
       PROVE  LET x == output'[p][i] IN
              /\ x.w \in DOMAIN agg[p] /\ IsExact(p, x.agg)
              /\ \E n \in 0..position[p] : x.agg.from = {o \in RecordsIn(p, x.w) : o <= n}
              /\ Suppressing(p) =>
                   /\ x.agg = agg[p][x.w]
                   /\ \A j \in 1..Len(out) + 1 : output'[p][j].w = x.w => j = i
  <2>1. CASE i \in 1..Len(out)
    <3>1. /\ out[i].w \in DOMAIN agg[p] /\ IsExact(p, out[i].agg)
          /\ \E n \in 0..position[p] : out[i].agg.from = {o \in RecordsIn(p, out[i].w) : o <= n}
          /\ Suppressing(p) =>
               /\ out[i].agg = agg[p][out[i].w]
               /\ \A j \in 1..Len(out) : out[j].w = out[i].w => j = i
      BY <1>9, <2>1 DEF OutputExact, out
    <3>2. ASSUME Suppressing(p), NEW j \in 1..Len(out) + 1, output'[p][j].w = out[i].w
          PROVE  j = i
      <4>1. j # Len(out) + 1
        BY <1>5, <1>6, <1>7, <2>1, <3>2
      <4>2. j \in 1..Len(out)
        BY <1>5, <4>1
      <4> QED
        BY <1>5, <3>1, <3>2, <4>2
    <3>3. output'[p][i] = out[i]
      BY <1>5, <2>1
    <3> QED
      BY <3>1, <3>2, <3>3
  <2>2. CASE i = Len(out) + 1
    <3>1. output'[p][i] = new
      BY <1>5, <2>2
    <3>2. ASSUME Suppressing(p), NEW j \in 1..Len(out) + 1, output'[p][j].w = w
          PROVE  j = i
      BY <1>5, <1>7, <2>2, <3>2
    <3>3. agg[p][w].from = {o \in RecordsIn(p, w) : o <= position[p]} /\ IsExact(p, agg[p][w])
      BY <1>3, <1>9, RecordsAreFinite DEF WindowsExact
    <3>4. position[p] \in 0..position[p]
      BY <1>9
    <3> QED
      BY <1>3, <1>6, <3>1, <3>2, <3>3, <3>4
  <2> QED
    BY <1>5, <2>1, <2>2
<1>11. OutputExact(p)'
  <2>1. \A v : RecordsIn(p, v)' = RecordsIn(p, v)
    BY <1>1 DEF RecordsIn
  <2>2. \A a : IsExact(p, a)' = IsExact(p, a)
    BY <1>1 DEF IsExact
  <2> QED
    BY <1>1, <1>5, <1>10, <2>1, <2>2 DEF OutputExact, RecordsIn, IsExact
<1>12. \A q \in Pipelines \ {p} : OutputExact(q)'
  <2> SUFFICES ASSUME NEW q \in Pipelines, q # p PROVE OutputExact(q)'
    OBVIOUS
  <2>1. OutputExact(q) /\ output'[q] = output[q]
    BY <1>5 DEF ExactInv
  <2> QED
    BY <1>1, <2>1 DEF OutputExact, RecordsIn, IsExact
<1> QED
  BY <1>1, <1>8, <1>11, <1>12 DEF ExactInv

LEMMA StepExact ==
  ASSUME SealInv, ExactInv, [Next]_vars, ~Restart
  PROVE  ExactInv'
<1>1. CASE \E p \in Pipelines : Process(p)
  BY <1>1, ProcessExact
<1>2. CASE SendOutput
  <2>1. sending.pipeline \in Pipelines
    BY <1>2 DEF SealInv, SendingIsCurrent, SendOutput, InHand, Nothing
  <2> QED
    BY <1>2, <2>1, SendExact
<1>3. ASSUME UNCHANGED <<topic, position, agg, accepted, output>>
      PROVE  ExactInv'
  BY <1>3, SameExact DEF ExactInv, SealInv, Clocks
<1>4. CASE \E p \in Pipelines : FlushWindow(p) \/ EmitClosed(p)
  BY <1>3, <1>4 DEF FlushWindow, EmitClosed, taskVars, sinkVars
<1>5. CASE \/ BeginCommit \/ FinishCommit \/ StreamsFail \/ CheckForAlerts \/ Deactivate
           \/ WriteInflux \/ WriteRedis
           \/ \E d \in MapKeys, s \in {"ACTIVE", "INACTIVE"} : Toggle(d, s)
           \/ UNCHANGED vars
  BY <1>3, <1>5 DEF BeginCommit, FinishCommit, StreamsFail, CheckForAlerts, Deactivate,
     WriteInflux,
     WriteRedis, Toggle, vars, taskVars, sinkVars
<1> QED
  BY <1>1, <1>2, <1>4, <1>5 DEF Next, StreamThread

\* As long as the process is not restarted.
UnrestartedInv == restarts \in Nat /\ (restarts = 0 => SealInv /\ ExactInv)

LEMMA UnrestartedIsInvariant == Spec => []UnrestartedInv
<1>1. Init => UnrestartedInv
  <2>1. Init => restarts = 0
    BY DEF Init
  <2> QED
    BY <2>1, InitSeals, InitExact DEF UnrestartedInv
<1>2. UnrestartedInv /\ [Next]_vars => UnrestartedInv'
  <2> SUFFICES ASSUME UnrestartedInv, [Next]_vars PROVE UnrestartedInv'
    OBVIOUS
  <2>1. CASE Restart
    BY <2>1 DEF Restart, UnrestartedInv
  <2>2. CASE ~Restart
    BY <2>2, OnlyRestartCounts, StepPromised, StepExact DEF UnrestartedInv
  <2> QED
    BY <2>1, <2>2
<1> QED
  BY <1>1, <1>2, PTL DEF Spec

\* Averages and totals are exact, whatever services fail.
THEOREM ExactResults == Spec => []ResultsAreExact
<1>1. UnrestartedInv => ResultsAreExact
  BY DEF UnrestartedInv, ExactInv, OutputExact, IsExact, ResultsAreExact
<1> QED
  BY <1>1, UnrestartedIsInvariant, PTL

\* A power window is published at most once, with the total of every record that is ever
\* folded into it, whatever services fail.
THEOREM PowerTotalsFinal == Spec => []PowerTotalsAreFinal
<1>1. UnrestartedInv => PowerTotalsAreFinal
  <2> SUFFICES ASSUME UnrestartedInv, "power" \in Pipelines, restarts = 0,
                      NEW i \in 1..Len(output["power"])
               PROVE  LET out == output["power"][i] IN
                      /\ out.agg.from = RecordsIn("power", out.w)
                      /\ out.agg.sum = Total(topic["power"], RecordsIn("power", out.w))
                      /\ \A j \in 1..Len(output["power"]) : output["power"][j].w = out.w => j = i
    BY DEF PowerTotalsAreFinal
  <2> DEFINE out == output["power"][i]
  <2>1. /\ out.w \in DOMAIN agg["power"] /\ out.agg = agg["power"][out.w]
        /\ \A j \in 1..Len(output["power"]) : output["power"][j].w = out.w => j = i
    BY DEF UnrestartedInv, ExactInv, OutputExact, Suppressing
  <2>2. WindowsExact("power")
    BY DEF UnrestartedInv, ExactInv
  <2> QED
    BY <2>1, <2>2 DEF WindowsExact, IsExact
<1> QED
  BY <1>1, UnrestartedIsInvariant, PTL

-----------------------------------------------------------------------------
(* InfluxDB.  Its points run one ahead of the topic while an update is on its *)
(* way from the one to the other.                                              *)

LEMMA Division ==
  ASSUME NEW a \in Nat, NEW n \in Nat \ {0}
  PROVE  /\ a \div n \in Nat
         /\ (a \div n) * n <= a /\ a < (a \div n + 1) * n
<1>1. a \div n \in Int /\ a % n \in 0..(n - 1)
  OBVIOUS
<1>2. a = n * (a \div n) + (a % n)
  OBVIOUS
<1> DEFINE q == a \div n
<1> HIDE DEF q
<1>3. q * n <= a /\ a < (q + 1) * n
  BY <1>1, <1>2 DEF q
<1> QED
  BY <1>1, <1>3 DEF q

\* intValue() drops the fraction, towards zero.
LEMMA Truncation ==
  ASSUME NEW r, r.sum \in Int, r.count \in Nat \ {0}
  PROVE  LET v == IntValue(r) IN
         IF r.sum >= 0 THEN v * r.count <= r.sum /\ r.sum < (v + 1) * r.count
         ELSE (v - 1) * r.count < r.sum /\ r.sum <= v * r.count
<1>1. CASE r.sum >= 0
  <2>1. r.sum \in Nat
    BY <1>1
  <2> QED
    BY <1>1, <2>1, Division DEF IntValue
<1>2. CASE ~(r.sum >= 0)
  <2> DEFINE n == r.count
             sum == r.sum
             q == (-r.sum) \div r.count
  <2>0. -sum \in Nat /\ n \in Nat \ {0}
    BY <1>2
  <2>1. q \in Nat /\ q * n <= -sum /\ -sum < (q + 1) * n
    <3> HIDE DEF n, sum
    <3>1. (-sum) \div n \in Nat /\ ((-sum) \div n) * n <= -sum
          /\ -sum < ((-sum) \div n + 1) * n
      BY <2>0, Division
    <3> QED
      BY <3>1 DEF n, sum
  <2>2. IntValue(r) = -q
    BY <1>2 DEF IntValue
  <2>3. n \in Nat /\ sum \in Int
    OBVIOUS
  <2> HIDE DEF n, sum, q
  <2>4. (-q) * n = -(q * n) /\ (-q - 1) * n = -((q + 1) * n)
        /\ q * n \in Int /\ (q + 1) * n \in Int
    BY <2>1, <2>3
  <2>5. (-q - 1) * n < sum /\ sum <= (-q) * n
    BY <2>1, <2>3, <2>4
  <2> QED
    BY <1>2, <2>2, <2>5 DEF n, sum
<1> QED
  BY <1>1, <1>2

\* An average has something to be divided by.
Positive(a) == a.count \in Nat \ {0} /\ a.sum \in Int

PositiveInv ==
  \A p \in Pipelines : /\ \A w \in DOMAIN agg[p] : Positive(agg[p][w])
                       /\ \A i \in 1..Len(output[p]) : Positive(output[p][i].agg)

LEMMA StepPositive ==
  ASSUME SealInv, PositiveInv, [Next]_vars, ~Restart
  PROVE  PositiveInv'
<1>1. ASSUME UNCHANGED <<agg, output>>
      PROVE  PositiveInv'
  BY <1>1 DEF PositiveInv
<1>2. ASSUME NEW p \in Pipelines, Process(p)
      PROVE  PositiveInv'
  <2> DEFINE offset == position[p] + 1
             r == topic[p][offset]
             w == WindowOf(r)
             a == Fold(p, r, offset)
  <2>1. /\ UNCHANGED output
        /\ \/ UNCHANGED agg
           \/ PassesFilters(p, r) /\ agg' = [agg EXCEPT ![p] = With(agg[p], w, a)]
    BY <1>2 DEF Process, sinkVars
  <2>2. ASSUME PassesFilters(p, r), agg' = [agg EXCEPT ![p] = With(agg[p], w, a)]
        PROVE  PositiveInv'
    <3>1. Shapes /\ Clocks(p)
      BY DEF SealInv
    <3>2. topic[p] \in Seq({topic[p][j] : j \in DOMAIN topic[p]})
      BY <3>1, LogsAssumption DEF Shapes
    <3>3. offset \in 1..Len(topic[p])
      BY <1>2, <3>1, <3>2 DEF Process, Clocks
    <3>4. r.value \in Int
      BY <2>2, <3>1, <3>3, AcceptedValues DEF Shapes
    <3>5. w \in DOMAIN agg[p] => Positive(agg[p][w])
      BY DEF PositiveInv
    <3>6. Positive(a)
      BY <3>4, <3>5 DEF Fold, Positive
    <3> HIDE DEF a, w
    <3>7. \A q \in Pipelines : \A v \in DOMAIN agg'[q] : Positive(agg'[q][v])
      BY <2>2, <3>1, <3>6 DEF PositiveInv, Shapes, With
    <3> QED
      BY <2>1, <3>7 DEF PositiveInv
  <2> QED
    BY <1>1, <2>1, <2>2
<1>3. CASE SendOutput
  <2> DEFINE p == sending.pipeline
  <2>1. UNCHANGED agg /\ p \in Pipelines /\ Positive(sending.agg)
    BY <1>3 DEF SealInv, SendingIsCurrent, SendOutput, InHand, Nothing, taskVars, PositiveInv
  <2>2. Shapes
    BY DEF SealInv
  <2>3. /\ Len(output[p]) \in Nat /\ Len(output'[p]) = Len(output[p]) + 1
        /\ \A i \in 1..Len(output[p]) : output'[p][i] = output[p][i]
        /\ output'[p][Len(output[p]) + 1] = [w |-> sending.w, agg |-> sending.agg]
        /\ \A q \in Pipelines \ {p} : output'[q] = output[q]
    BY <1>3, <2>1, <2>2, SendAppends
  <2> HIDE DEF p
  <2>4. \A i \in 1..Len(output'[p]) : Positive(output'[p][i].agg)
    BY <2>1, <2>3 DEF PositiveInv
  <2> QED
    BY <2>1, <2>3, <2>4 DEF PositiveInv
<1>4. CASE \E p \in Pipelines : FlushWindow(p) \/ EmitClosed(p)
  BY <1>1, <1>4 DEF FlushWindow, EmitClosed, taskVars, sinkVars
<1>5. CASE \/ BeginCommit \/ FinishCommit \/ StreamsFail \/ CheckForAlerts \/ Deactivate
           \/ WriteInflux \/ WriteRedis
           \/ \E d \in MapKeys, s \in {"ACTIVE", "INACTIVE"} : Toggle(d, s)
           \/ UNCHANGED vars
  BY <1>1, <1>5 DEF BeginCommit, FinishCommit, StreamsFail, CheckForAlerts, Deactivate,
     WriteInflux,
     WriteRedis, Toggle, vars, taskVars, sinkVars
<1> QED
  BY <1>2, <1>3, <1>4, <1>5 DEF Next, StreamThread

\* The update has been written to InfluxDB and is not yet in the topic.
Ahead(p) == sending.stage \in {"redis", "output"} /\ sending.pipeline = p

Point(p, out) == [w |-> out.w, value |-> IntValue(Reading(p, out.agg))]

PointsMatch(p) ==
  /\ IsSequence(influx[p])
  /\ Len(influx[p]) = Len(output[p]) + (IF Ahead(p) THEN 1 ELSE 0)
  /\ \A i \in 1..Len(output[p]) : influx[p][i] = Point(p, output[p][i])
  /\ Ahead(p) => influx[p][Len(output[p]) + 1] = Point(p, sending)

InfluxInv == DOMAIN influx = Pipelines /\ \A p \in Pipelines : PointsMatch(p)

LEMMA StepKeepsInflux ==
  ASSUME SealInv, InfluxInv, "influx" \notin MayFail, [Next]_vars, ~Restart
  PROVE  InfluxInv'
<1>1. ASSUME UNCHANGED <<influx, output>>,
             \/ UNCHANGED sending
             \/ sending.stage \notin {"redis", "output"}
                  /\ sending'.stage \notin {"redis", "output"}
             \/ /\ sending.stage \in {"redis", "output"} /\ sending'.stage \in {"redis", "output"}
                /\ sending'.pipeline = sending.pipeline
                /\ sending'.w = sending.w /\ sending'.agg = sending.agg
      PROVE  InfluxInv'
  <2> SUFFICES ASSUME NEW p \in Pipelines PROVE PointsMatch(p)'
    BY <1>1 DEF InfluxInv
  <2>1. PointsMatch(p)
    BY DEF InfluxInv
  <2>2. Ahead(p)' = Ahead(p)
    BY <1>1 DEF Ahead
  <2>3. Ahead(p) => Point(p, sending)' = Point(p, sending)
    BY <1>1 DEF Ahead, Point, IntValue, Reading, Suppressing
  <2>4. \A i : Point(p, output[p][i])' = Point(p, output[p][i])
    BY <1>1 DEF Point, IntValue, Reading, Suppressing
  <2> QED
    BY <1>1, <2>1, <2>2, <2>3, <2>4 DEF PointsMatch
<1>2. CASE \E p \in Pipelines : Process(p)
  BY <1>1, <1>2 DEF Process, sinkVars
<1>3. CASE \E p \in Pipelines : FlushWindow(p) \/ EmitClosed(p)
  <2>1. UNCHANGED <<influx, output>> /\ sending = Nothing
    BY <1>3 DEF FlushWindow, EmitClosed, sinkVars
  <2>2. sending' = sending \/ sending'.stage = "alert"
    BY <1>3 DEF FlushWindow, EmitClosed, Update
  <2> QED
    BY <1>1, <2>1, <2>2 DEF Nothing
<1>4. CASE \/ BeginCommit \/ FinishCommit \/ StreamsFail
           \/ \E d \in MapKeys, s \in {"ACTIVE", "INACTIVE"} : Toggle(d, s)
           \/ UNCHANGED vars
  BY <1>1, <1>4 DEF BeginCommit, FinishCommit, StreamsFail, Toggle, vars, sinkVars
<1>5. ASSUME NEW stage, sending # Nothing, NextStage(stage)
      PROVE  /\ sending'.stage = stage /\ sending'.pipeline = sending.pipeline
             /\ sending'.w = sending.w /\ sending'.agg = sending.agg
  <2>1. IsUpdate(sending) /\ sending' = [sending EXCEPT !.stage = stage]
    BY <1>5 DEF SealInv, Shapes, NextStage
  <2> QED
    BY <2>1 DEF IsUpdate
<1>6. CASE CheckForAlerts \/ Deactivate
  <2>1. UNCHANGED <<influx, output>> /\ sending.stage \in {"alert", "deactivate"}
        /\ sending # Nothing
    BY <1>6 DEF CheckForAlerts, Deactivate, InHand, Nothing, sinkVars
  <2>2. UNCHANGED sending \/ \E stage \in {"deactivate", "influx"} : NextStage(stage)
    BY <1>6 DEF CheckForAlerts, Deactivate
  <2> QED
    BY <1>1, <1>5, <2>1, <2>2
<1>7. CASE WriteRedis
  <2>1. UNCHANGED <<influx, output>> /\ sending.stage = "redis" /\ sending # Nothing
        /\ NextStage("output")
    BY <1>7 DEF WriteRedis, InHand, Nothing
  <2> QED
    BY <1>1, <1>5, <2>1
<1>8. CASE WriteInflux
  <2>1. sending.stage = "influx" /\ sending # Nothing /\ NextStage("redis") /\ UNCHANGED output
    BY <1>8 DEF WriteInflux, InHand, Nothing
  <2>2. PICK p \in Pipelines : p = sending.pipeline
    BY <2>1 DEF SealInv, SendingIsCurrent
  <2> DEFINE new == [w |-> sending.w, value |-> IntValue(Reading(p, sending.agg))]
  <2>3. /\ sending'.stage = "redis" /\ sending'.pipeline = p
        /\ sending'.w = sending.w /\ sending'.agg = sending.agg
    BY <1>5, <2>1, <2>2
  <2>4. influx' = [influx EXCEPT ![p] = Append(influx[p], new)] /\ Point(p, sending)' = new
    <3>1. influx' = [influx EXCEPT ![p] = Append(influx[p], new)]
      BY <1>8, <2>2 DEF WriteInflux
    <3>2. Point(p, sending)' = new
      BY <2>3 DEF Point, IntValue, Reading, Suppressing
    <3> QED
      BY <3>1, <3>2
  <2>5. ASSUME NEW q \in Pipelines, q # p
        PROVE  PointsMatch(q)'
    <3>1. ~Ahead(q) /\ ~Ahead(q)' /\ influx'[q] = influx[q]
      BY <2>2, <2>3, <2>4, <2>5 DEF Ahead, InfluxInv
    <3>2. PointsMatch(q)
      BY DEF InfluxInv
    <3>3. \A i : Point(q, output[q][i])' = Point(q, output[q][i])
      BY <2>1 DEF Point, IntValue, Reading, Suppressing
    <3> QED
      BY <2>1, <3>1, <3>2, <3>3 DEF PointsMatch
  <2>6. PointsMatch(p)'
    <3>1. PointsMatch(p) /\ ~Ahead(p) /\ Ahead(p)'
      BY <2>1, <2>2, <2>3 DEF InfluxInv, Ahead
    <3>2. influx'[p] = Append(influx[p], new)
      BY <2>2, <2>4 DEF InfluxInv
    <3> HIDE DEF new
    <3>3. PICK S : influx[p] \in Seq(S)
      BY <3>1 DEF PointsMatch, IsSequence
    <3>4. influx[p] \in Seq(S \cup {new}) /\ new \in S \cup {new}
      BY <3>3
    <3>5. /\ Len(influx[p]) \in Nat /\ Len(influx'[p]) = Len(influx[p]) + 1
          /\ \A i \in 1..Len(influx[p]) : influx'[p][i] = influx[p][i]
          /\ influx'[p][Len(influx[p]) + 1] = new
          /\ influx'[p] \in Seq(S \cup {new})
      BY <3>2, <3>4
    <3>6. \E T : influx'[p] \in Seq(T)
      BY <3>5
    <3>7. Len(influx[p]) = Len(output[p])
      BY <3>1 DEF PointsMatch, SealInv, Shapes, IsSequence
    <3>8. \A i : Point(p, output[p][i])' = Point(p, output[p][i])
      BY <2>1 DEF Point, IntValue, Reading, Suppressing
    <3> QED
      BY <2>1, <2>4, <3>1, <3>5, <3>6, <3>7, <3>8 DEF PointsMatch, IsSequence
  <2>7. DOMAIN influx' = Pipelines
    BY <2>4 DEF InfluxInv
  <2> QED
    BY <2>5, <2>6, <2>7 DEF InfluxInv
<1>9. CASE SendOutput
  <2> DEFINE new == [w |-> sending.w, agg |-> sending.agg]
  <2>1. /\ sending.stage = "output" /\ sending # Nothing /\ sending' = Nothing
        /\ UNCHANGED influx
    BY <1>9 DEF SendOutput, InHand, Nothing
  <2>2. Shapes /\ \E p \in Pipelines : p = sending.pipeline
    BY <2>1 DEF SealInv, SendingIsCurrent
  <2> PICK p \in Pipelines : p = sending.pipeline
    BY <2>2
  <2>3. /\ Len(output[p]) \in Nat /\ Len(output'[p]) = Len(output[p]) + 1
        /\ \A i \in 1..Len(output[p]) : output'[p][i] = output[p][i]
        /\ output'[p][Len(output[p]) + 1] = new
        /\ \A q \in Pipelines \ {p} : output'[q] = output[q]
    BY <1>9, <2>2, SendAppends
  <2>4. \A q : ~Ahead(q)'
    BY <2>1 DEF Ahead, Nothing
  <2>5. ASSUME NEW q \in Pipelines, q # p
        PROVE  PointsMatch(q)'
    <3>1. PointsMatch(q) /\ ~Ahead(q)
      BY <2>5 DEF InfluxInv, Ahead
    <3>2. output'[q] = output[q]
      BY <2>3, <2>5
    <3>3. \A i : Point(q, output[q][i])' = Point(q, output[q][i])
      BY <3>2 DEF Point, IntValue, Reading, Suppressing
    <3> QED
      BY <2>1, <2>4, <3>1, <3>2, <3>3 DEF PointsMatch
  <2>6. PointsMatch(p)'
    <3>1. PointsMatch(p) /\ Ahead(p)
      BY <2>1, <2>2 DEF InfluxInv, Ahead
    <3>2. new.w = sending.w /\ new.agg = sending.agg
      OBVIOUS
    <3> HIDE DEF new
    <3>3. Point(p, new) = Point(p, sending)
      BY <3>2 DEF Point, IntValue, Reading, Suppressing
    <3>4. /\ IsSequence(influx[p]) /\ Len(influx[p]) = Len(output[p]) + 1
          /\ \A i \in 1..Len(output[p]) : influx[p][i] = Point(p, output[p][i])
          /\ influx[p][Len(output[p]) + 1] = Point(p, new)
      BY <3>1, <3>3 DEF PointsMatch
    <3>5. ASSUME NEW i \in 1..Len(output'[p])
          PROVE  influx[p][i] = Point(p, output'[p][i])
      <4>1. CASE i \in 1..Len(output[p])
        BY <2>3, <3>4, <4>1
      <4>2. CASE i = Len(output[p]) + 1
        BY <2>3, <3>4, <4>2
      <4> QED
        BY <2>3, <4>1, <4>2
    <3>6. \A i : Point(p, output[p][i])' = Point(p, output'[p][i])
      BY DEF Point, IntValue, Reading, Suppressing
    <3>7. \A i \in 1..Len(output'[p]) : influx'[p][i] = Point(p, output[p][i])'
      BY <2>1, <3>5, <3>6
    <3>8. IsSequence(influx'[p]) /\ Len(influx'[p]) = Len(output'[p])
      BY <2>1, <2>3, <3>4
    <3>9. Len(influx'[p]) = Len(output'[p]) + (IF Ahead(p)' THEN 1 ELSE 0)
      <4>1. Len(output'[p]) \in Nat /\ ~Ahead(p)'
        BY <2>3, <2>4
      <4> QED
        BY <3>8, <4>1
    <3> QED
      BY <2>4, <3>7, <3>8, <3>9 DEF PointsMatch, IsSequence
  <2> QED
    BY <2>1, <2>5, <2>6 DEF InfluxInv
<1> QED
  BY <1>2, <1>3, <1>4, <1>6, <1>7, <1>8, <1>9 DEF Next, StreamThread

\* The points in InfluxDB are the averages and totals of the output topic, in their order
\* and without their fractions.
THEOREM SinksInStep == Spec => []SinksAgree
<1> DEFINE Holds == "influx" \notin MayFail => InfluxInv
           Inv == restarts \in Nat /\ (restarts = 0 => SealInv /\ PositiveInv /\ Holds)
<1>1. Init => Inv
  <2> SUFFICES ASSUME Init PROVE Inv
    OBVIOUS
  <2>1. restarts = 0 /\ PositiveInv
    BY DEF Init, PositiveInv, Empty
  <2>2. InfluxInv
    <3>1. <<>> \in Seq({})
      OBVIOUS
    <3>2. sending.stage = "nothing" /\ \A p \in Pipelines : influx[p] = <<>> /\ output[p] = <<>>
      BY DEF Init, Nothing
    <3>4. ASSUME NEW p \in Pipelines PROVE PointsMatch(p)
      <4>1. influx[p] = <<>> /\ output[p] = <<>> /\ ~Ahead(p)
        BY <3>2 DEF Ahead
      <4>2. Len(influx[p]) = 0 /\ Len(output[p]) = 0 /\ influx[p] \in Seq({})
        BY <3>1, <4>1
      <4> QED
        BY <4>1, <4>2 DEF PointsMatch, IsSequence
    <3>3. DOMAIN influx = Pipelines
      BY DEF Init
    <3> QED
      BY <3>3, <3>4 DEF InfluxInv
  <2> QED
    BY <2>1, <2>2, InitSeals
<1>2. Inv /\ [Next]_vars => Inv'
  <2> SUFFICES ASSUME Inv, [Next]_vars PROVE Inv'
    OBVIOUS
  <2>1. CASE Restart
    BY <2>1 DEF Restart
  <2>2. CASE ~Restart
    BY <2>2, OnlyRestartCounts, StepPromised, StepPositive, StepKeepsInflux
  <2> QED
    BY <2>1, <2>2
<1>3. Inv => SinksAgree
  <2> SUFFICES ASSUME SealInv, PositiveInv, InfluxInv,
                      NEW p \in Pipelines, NEW i \in 1..Len(output[p])
               PROVE  /\ i <= Len(influx[p]) /\ influx[p][i].w = output[p][i].w
                      /\ LET sum == output[p][i].agg.sum
                             n   == IF p = "power" THEN 1 ELSE output[p][i].agg.count
                             v   == influx[p][i].value
                         IN  IF sum >= 0 THEN v * n <= sum /\ sum < (v + 1) * n
                             ELSE (v - 1) * n < sum /\ sum <= v * n
    BY DEF SinksAgree
  <2> DEFINE r == Reading(p, output[p][i].agg)
  <2>1. Positive(output[p][i].agg) /\ PointsMatch(p)
    BY DEF PositiveInv, InfluxInv
  <2>2. influx[p][i].w = output[p][i].w /\ influx[p][i].value = IntValue(r)
    <3>1. influx[p][i] = Point(p, output[p][i])
      BY <2>1 DEF PointsMatch
    <3> QED
      BY <3>1 DEF Point
  <2>3. /\ r.sum = output[p][i].agg.sum
        /\ r.count = IF p = "power" THEN 1 ELSE output[p][i].agg.count
    BY DEF Reading, Suppressing
  <2>4. r.sum \in Int /\ r.count \in Nat \ {0}
    BY <2>1, <2>3 DEF Positive
  <2>5. i <= Len(influx[p])
    BY <2>1 DEF PointsMatch, SealInv, Shapes, IsSequence
  <2> HIDE DEF r
  <2>6. LET v == IntValue(r) IN
        IF r.sum >= 0 THEN v * r.count <= r.sum /\ r.sum < (v + 1) * r.count
        ELSE (v - 1) * r.count < r.sum /\ r.sum <= v * r.count
    BY <2>4, Truncation
  <2> QED
    BY <2>2, <2>3, <2>5, <2>6
<1> QED
  BY <1>1, <1>2, <1>3, PTL DEF Spec

-----------------------------------------------------------------------------
(* Redis, for averages.  A late record reopens an old window, and its average *)
(* then replaces a newer one (RedisHoldsNewest is violated).  That is the only *)
(* way: it holds when the records of each sensor are in the order of their     *)
(* times.                                                                      *)

InOrder ==
  \A log \in Logs : \A p \in Pipelines : \A i, j \in DOMAIN log[p] :
    i < j /\ log[p][i].key = log[p][j].key => log[p][i].time <= log[p][j].time

LEMMA LaterStart ==
  ASSUME NEW a \in Nat, NEW b \in Nat, a <= b
  PROVE  (a \div WindowSize) * WindowSize <= (b \div WindowSize) * WindowSize
<1> DEFINE n == WindowSize
           x == a \div n
           y == b \div n
<1>1. n \in Nat \ {0}
  BY WindowAssumption
<1>2. x \in Nat /\ y \in Nat /\ x * n <= a /\ b < (y + 1) * n
  BY <1>1, Division
<1> HIDE DEF x, y, n
<1>3. x <= y
  <2> SUFFICES ASSUME y + 1 <= x PROVE FALSE
    BY <1>2
  <2>1. (y + 1) * n <= x * n /\ (y + 1) * n \in Int /\ x * n \in Int
    BY <1>1, <1>2
  <2> QED
    BY <1>2, <2>1
<1>4. x * n <= y * n
  BY <1>1, <1>2, <1>3
<1> QED
  BY <1>4 DEF x, y, n

\* Of two records of a sensor the later one is in no older window.
LEMMA LaterWindow ==
  ASSUME InOrder, topic \in Logs, NEW p \in Pipelines,
         NEW i \in 1..Len(topic[p]), NEW j \in 1..Len(topic[p]), i <= j,
         WindowOf(topic[p][i])[1] = WindowOf(topic[p][j])[1]
  PROVE  Start(WindowOf(topic[p][i])) <= Start(WindowOf(topic[p][j]))
<1>1. i \in DOMAIN topic[p] /\ j \in DOMAIN topic[p]
  BY LogsAssumption
<1>2. topic[p][i].key = topic[p][j].key
  BY DEF WindowOf
<1>3. topic[p][i].time \in Nat /\ topic[p][j].time \in Nat
  BY RecordTimes
<1>4. topic[p][i].time <= topic[p][j].time
  <2>1. CASE i < j
    BY <1>1, <1>2, <2>1 DEF InOrder
  <2>2. CASE i = j
    BY <1>3, <2>2
  <2> QED
    BY <2>1, <2>2
<1> QED
  BY <1>3, <1>4, LaterStart DEF Start, WindowOf

\* The windows of which something was published, or is about to be.
Sent(p) == Emitted(p) \cup (IF sending # Nothing /\ sending.pipeline = p THEN {sending.w} ELSE {})

\* A window waits to be flushed at the place of one of its records, and those that were
\* sent are not newer.
OrderInv(p) ==
  /\ position[p] <= Len(topic[p])
  /\ \A w \in DOMAIN dirty[p] :
       dirty[p][w] \in 1..position[p] /\ WindowOf(topic[p][dirty[p][w]]) = w
  /\ \A v \in Sent(p) :
       /\ \E o \in 1..position[p] : WindowOf(topic[p][o]) = v
       /\ \A w \in DOMAIN dirty[p] : v[1] = w[1] => Start(v) <= Start(w)
  /\ NewestIsSent(p)

LEMMA ProcessInOrder ==
  ASSUME InOrder, SealInv, NEW p \in Pipelines, OrderInv(p), Process(p)
  PROVE  OrderInv(p)'
<1> DEFINE offset == position[p] + 1
           w == WindowOf(topic[p][offset])
<1>1. Shapes /\ position[p] \in Nat /\ topic \in Logs
  BY DEF SealInv, Clocks, Shapes
<1>2. /\ UNCHANGED <<topic, sending, output>> /\ position' = [position EXCEPT ![p] = offset]
      /\ position[p] < Len(topic[p])
      /\ UNCHANGED dirty \/ dirty' = [dirty EXCEPT ![p] = With(dirty[p], w, offset)]
  BY DEF Process, sinkVars, MarkChanged
<1>3. position'[p] = offset /\ offset \in 1..Len(topic[p]) /\ Len(topic[p]) \in Nat
  <2>1. Len(topic[p]) \in Nat
    BY <1>1, LogsAssumption
  <2> QED
    BY <1>1, <1>2, <2>1 DEF Shapes
<1>4. Sent(p)' = Sent(p) /\ (NewestIsSent(p)' <=> NewestIsSent(p))
  BY <1>2 DEF Sent, Emitted, NewestIsSent
<1>5. dirty'[p] = dirty[p] \/ dirty'[p] = With(dirty[p], w, offset)
  BY <1>1, <1>2 DEF Shapes
<1> HIDE DEF w
<1>6. \A x \in DOMAIN dirty'[p] : \/ x \in DOMAIN dirty[p] /\ dirty'[p][x] = dirty[p][x]
                                  \/ x = w /\ dirty'[p][x] = offset
  BY <1>5 DEF With
<1>7. \A x \in DOMAIN dirty'[p] :
        dirty'[p][x] \in 1..offset /\ WindowOf(topic[p][dirty'[p][x]]) = x
  <2> SUFFICES ASSUME NEW x \in DOMAIN dirty'[p]
               PROVE  dirty'[p][x] \in 1..offset /\ WindowOf(topic[p][dirty'[p][x]]) = x
    OBVIOUS
  <2>1. CASE x \in DOMAIN dirty[p] /\ dirty'[p][x] = dirty[p][x]
    BY <1>1, <2>1 DEF OrderInv
  <2>2. CASE x = w /\ dirty'[p][x] = offset
    BY <1>3, <2>2 DEF w
  <2> QED
    BY <1>6, <2>1, <2>2
<1>8. ASSUME NEW v \in Sent(p)
      PROVE  /\ \E o \in 1..offset : WindowOf(topic[p][o]) = v
             /\ \A x \in DOMAIN dirty'[p] : v[1] = x[1] => Start(v) <= Start(x)
  <2>1. PICK o \in 1..position[p] : WindowOf(topic[p][o]) = v
    BY DEF OrderInv
  <2>2. o \in 1..offset /\ o \in 1..Len(topic[p]) /\ o <= offset
    BY <1>1, <1>3, <2>1
  <2>3. v[1] = w[1] => Start(v) <= Start(w)
    BY <1>1, <1>3, <2>1, <2>2, LaterWindow DEF w
  <2>4. \A x \in DOMAIN dirty[p] : v[1] = x[1] => Start(v) <= Start(x)
    BY DEF OrderInv
  <2> QED
    BY <1>6, <2>1, <2>2, <2>3, <2>4
<1> QED
  BY <1>2, <1>3, <1>4, <1>7, <1>8 DEF OrderInv

LEMMA FlushInOrder ==
  ASSUME InOrder, SealInv, NEW p \in Pipelines, OrderInv(p), ~Suppressing(p), FlushWindow(p)
  PROVE  OrderInv(p)'
<1>1. Shapes /\ position[p] \in Nat /\ topic \in Logs /\ Len(topic[p]) \in Nat
  BY LogsAssumption DEF SealInv, Clocks, Shapes
<1>2. UNCHANGED <<topic, position, output>> /\ sending = Nothing
  BY DEF FlushWindow, sinkVars
<1>3. PICK w \in DOMAIN dirty[p] :
        /\ \A v \in DOMAIN dirty[p] : dirty[p][w] <= dirty[p][v]
        /\ dirty' = [dirty EXCEPT ![p] = Without(dirty[p], w)]
        /\ sending' = Update(p, w, agg[p][w])
  BY DEF FlushWindow
<1>4. /\ DOMAIN dirty'[p] = DOMAIN dirty[p] \ {w}
      /\ \A x \in DOMAIN dirty'[p] : dirty'[p][x] = dirty[p][x]
  BY <1>1, <1>3 DEF Shapes, Without
<1>5. /\ sending' # Nothing /\ sending'.pipeline = p /\ sending'.w = w
      /\ Emitted(p)' = Emitted(p) /\ Sent(p) = Emitted(p)
  BY <1>2, <1>3 DEF Update, Nothing, Sent, Emitted
<1>6. Sent(p)' = Sent(p) \cup {w}
  BY <1>5 DEF Sent
<1>7. ASSUME NEW x \in DOMAIN dirty[p]
      PROVE  /\ dirty[p][x] \in 1..position[p] /\ dirty[p][x] \in 1..Len(topic[p])
             /\ WindowOf(topic[p][dirty[p][x]]) = x
  BY <1>1 DEF OrderInv
<1>8. \A x \in DOMAIN dirty[p] : w[1] = x[1] => Start(w) <= Start(x)
  BY <1>1, <1>3, <1>7, LaterWindow
<1>9. \A v \in Sent(p) : \A x \in DOMAIN dirty[p] : v[1] = x[1] => Start(v) <= Start(x)
  BY DEF OrderInv
<1>10. NewestIsSent(p)'
  BY <1>5, <1>9 DEF NewestIsSent
<1>11. \A v \in Sent(p)' : /\ \E o \in 1..position[p] : WindowOf(topic[p][o]) = v
                            /\ \A x \in DOMAIN dirty'[p] : v[1] = x[1] => Start(v) <= Start(x)
  <2>1. \A v \in Sent(p) : \E o \in 1..position[p] : WindowOf(topic[p][o]) = v
    BY DEF OrderInv
  <2> QED
    BY <1>4, <1>6, <1>7, <1>8, <1>9, <2>1
<1> QED
  BY <1>2, <1>4, <1>7, <1>10, <1>11 DEF OrderInv

\* A step that neither reads nor flushes a record of the pipeline.
LEMMA SameOrder ==
  ASSUME NEW p \in Pipelines, OrderInv(p), UNCHANGED <<topic, position[p], dirty[p]>>,
         Sent(p)' = Sent(p), NewestIsSent(p)'
  PROVE  OrderInv(p)'
  BY DEF OrderInv

LEMMA StepInOrder ==
  ASSUME InOrder, SealInv, NEW p \in Pipelines, ~Suppressing(p), OrderInv(p),
         [Next]_vars, ~Restart
  PROVE  OrderInv(p)'
<1>1. Shapes /\ NewestIsSent(p)
  BY DEF SealInv, OrderInv
<1>2. ASSUME UNCHANGED <<topic, position[p], dirty[p], output>>,
             sending # Nothing => /\ sending' # Nothing
                                  /\ sending'.pipeline = sending.pipeline
                                  /\ sending'.w = sending.w,
             sending = Nothing => sending' = Nothing \/ sending'.pipeline # p
      PROVE  OrderInv(p)'
  <2>1. Emitted(p)' = Emitted(p)
    BY <1>2 DEF Emitted
  <2>2. Sent(p)' = Sent(p)
    BY <1>2, <2>1 DEF Sent
  <2>3. NewestIsSent(p)'
    BY <1>1, <1>2, <2>1 DEF NewestIsSent
  <2> QED
    BY <1>2, <2>2, <2>3, SameOrder
<1>3. ASSUME NEW q \in Pipelines, Process(q)
      PROVE  OrderInv(p)'
  <2>1. CASE q = p
    BY <1>3, <2>1, ProcessInOrder
  <2>2. CASE q # p
    <3>1. UNCHANGED <<topic, position[p], dirty[p], output, sending>>
      BY <1>1, <1>3, <2>2 DEF Process, sinkVars, Shapes
    <3> QED
      BY <1>2, <3>1
  <2> QED
    BY <2>1, <2>2
<1>4. ASSUME NEW q \in Pipelines, FlushWindow(q)
      PROVE  OrderInv(p)'
  <2>1. CASE q = p
    BY <1>4, <2>1, FlushInOrder
  <2>2. CASE q # p
    <3>1. UNCHANGED <<topic, position[p], dirty[p], output>> /\ sending = Nothing
      BY <1>1, <1>4, <2>2 DEF FlushWindow, sinkVars, Shapes
    <3>2. sending' = sending \/ sending'.pipeline = q
      BY <1>4 DEF FlushWindow, Update
    <3> QED
      BY <1>2, <2>2, <3>1, <3>2
  <2> QED
    BY <2>1, <2>2
<1>5. ASSUME NEW q \in Pipelines, EmitClosed(q)
      PROVE  OrderInv(p)'
  <2>1. Suppressing(q)
    BY <1>5 DEF EmitClosed, Ready, SealInv, Tables
  <2>2. UNCHANGED <<topic, position[p], dirty[p], output>> /\ sending = Nothing
    BY <1>5 DEF EmitClosed, sinkVars, taskVars
  <2>3. sending'.pipeline = q
    BY <1>5 DEF EmitClosed, Update
  <2>4. q # p
    BY <2>1
  <2> QED
    BY <1>2, <2>2, <2>3, <2>4
<1>6. CASE SendOutput
  <2>1. /\ sending # Nothing /\ sending' = Nothing /\ sending.pipeline \in Pipelines
        /\ UNCHANGED <<topic, position, dirty>>
    BY <1>6 DEF SealInv, SendingIsCurrent, SendOutput, InHand, Nothing, taskVars
  <2>2. NewestIsSent(p)'
    BY <2>1 DEF NewestIsSent
  <2>3. Sent(p)' = Emitted(p)'
    BY <2>1 DEF Sent
  <2>4. Emitted(p)' = Sent(p)
    <3>1. CASE sending.pipeline = p
      BY <1>6, <2>1, <3>1, SendSeals DEF Sent
    <3>2. CASE sending.pipeline # p
      BY <1>6, <2>1, <3>2, SendSeals DEF Sent
    <3> QED
      BY <3>1, <3>2
  <2> QED
    BY <2>1, <2>2, <2>3, <2>4, SameOrder
<1>7. CASE \/ BeginCommit \/ FinishCommit \/ StreamsFail \/ CheckForAlerts \/ Deactivate
           \/ WriteInflux \/ WriteRedis
           \/ \E d \in MapKeys, s \in {"ACTIVE", "INACTIVE"} : Toggle(d, s)
           \/ UNCHANGED vars
  <2>1. UNCHANGED <<topic, position, dirty, output>>
    BY <1>7 DEF BeginCommit, FinishCommit, StreamsFail, CheckForAlerts, Deactivate,
       WriteInflux, WriteRedis,
       Toggle, vars, taskVars, sinkVars
  <2>2. \/ UNCHANGED sending
        \/ sending # Nothing /\ \E stage \in {"deactivate", "influx", "redis", "output"} :
                                  sending' = [sending EXCEPT !.stage = stage]
    BY <1>7 DEF BeginCommit, FinishCommit, StreamsFail, CheckForAlerts, Deactivate,
       WriteInflux, WriteRedis,
       Toggle, vars, InHand, NextStage, Nothing
  <2>3. ASSUME sending # Nothing, NEW stage \in {"deactivate", "influx", "redis", "output"},
               sending' = [sending EXCEPT !.stage = stage]
        PROVE  /\ sending' # Nothing
               /\ sending'.pipeline = sending.pipeline /\ sending'.w = sending.w
    <3>1. IsUpdate(sending)
      BY <1>1, <2>3 DEF Shapes
    <3>2. sending' = [pipeline |-> sending.pipeline, w |-> sending.w, agg |-> sending.agg,
                      stage |-> stage]
      BY <2>3, <3>1 DEF IsUpdate
    <3> QED
      BY <3>2 DEF Nothing
  <2> QED
    BY <1>2, <2>1, <2>2, <2>3
<1> QED
  BY <1>3, <1>4, <1>5, <1>6, <1>7 DEF Next, StreamThread

\* What Redis holds for a sensor is never older than what was published for it, averages
\* too, when no record is late, Redis does not fail and the process is not restarted.
THEOREM OrderedResultsAreNewest ==
  InOrder /\ "redis" \notin MayFail /\ Spec => [](restarts = 0 => RedisHoldsNewest)
<1> SUFFICES ASSUME InOrder, "redis" \notin MayFail
             PROVE  Spec => [](restarts = 0 => RedisHoldsNewest)
  OBVIOUS
<1> DEFINE Ordered(p) == RedisInv(p) /\ (~Suppressing(p) => OrderInv(p))
           Inv == /\ restarts \in Nat
                  /\ restarts = 0 => SealInv /\ \A p \in Pipelines : Ordered(p)
<1>1. Init => Inv
  <2> SUFFICES ASSUME Init PROVE restarts = 0 /\ \A p \in Pipelines : Ordered(p)
    BY InitSeals
  <2>1. restarts = 0 /\ sending = Nothing /\ topic \in Logs /\ DOMAIN redis = {}
    BY DEF Init, Empty
  <2>2. ASSUME NEW p \in Pipelines PROVE Ordered(p)
    <3>1. position[p] = 0 /\ DOMAIN dirty[p] = {} /\ Emitted(p) = {} /\ Len(topic[p]) \in Nat
      BY LogsAssumption DEF Init, Empty, Emitted
    <3>2. Sent(p) = {} /\ NewestIsSent(p)
      BY <2>1, <3>1 DEF Sent, NewestIsSent
    <3>3. RedisInv(p)
      BY <2>1 DEF RedisInv, Nothing
    <3> QED
      BY <3>1, <3>2, <3>3 DEF OrderInv
  <2> QED
    BY <2>1, <2>2
<1>2. Inv /\ [Next]_vars => Inv'
  <2> SUFFICES ASSUME Inv, [Next]_vars PROVE Inv'
    OBVIOUS
  <2>1. CASE Restart
    BY <2>1 DEF Restart
  <2>2. CASE ~Restart
    <3> SUFFICES ASSUME restarts = 0 PROVE SealInv' /\ \A p \in Pipelines : Ordered(p)'
      BY <2>2, OnlyRestartCounts
    <3>1. SealInv'
      BY <2>2, StepPromised
    <3>2. ASSUME NEW p \in Pipelines PROVE Ordered(p)'
      <4>1. NewestIsSent(p)
        BY NewestTotalIsSent DEF OrderInv, Suppressing
      <4>2. RedisInv(p)'
        BY <2>2, <4>1, StepKeepsRedis
      <4>3. ~Suppressing(p) => OrderInv(p)'
        BY <2>2, StepInOrder
      <4> QED
        BY <4>2, <4>3 DEF Suppressing
    <3> QED
      BY <3>1, <3>2
  <2> QED
    BY <2>1, <2>2
<1>3. Inv => (restarts = 0 => RedisHoldsNewest)
  BY DEF RedisInv, RedisHoldsNewest, NewestInRedis, Emitted
<1> QED
  BY <1>1, <1>2, <1>3, PTL DEF Spec
=============================================================================

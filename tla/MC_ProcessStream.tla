-------------------------- MODULE MC_ProcessStream --------------------------
(***************************************************************************)
(* Windows of length 1 with grace 1: a record at time t falls in window t, *)
(* which closes when stream time reaches t + 2.  Times 0 .. 3 let a record *)
(* be in time, late within the grace, and too late.  With failures windows *)
(* have length 2.                                                          *)
(***************************************************************************)
EXTENDS ProcessStream

Records(keys, values, times) == [key : keys, value : values, time : times]
SeqsUpTo(n, S) == UNION {[1..m -> S] : m \in 1..n}

\* Shipped order of the thresholds: warning below critical.
ShippedWarning   == [c \in Categories |-> 2]
ShippedCritical  == [c \in Categories |-> 4]
\* The other order, the only one in which CRITICAL can be raised.
SwappedWarning   == ShippedCritical
SwappedCritical  == ShippedWarning
NoThreshold      == [c \in Categories |-> 100]

TemperatureOnly == {"temperature"}
TwoPipelines    == {"temperature", "power"}

OneKey    == {1}
TwoKeys   == {1, 2}
PowerLogs == [1..4 -> Records({1}, {1}, 0..3)]
               \cup [1..3 -> Records({1}, {1, 5}, {0, 1, 3})]
               \cup [1..3 -> Records({1, 2}, {1}, {0, 1, 3})]
\* Among them a record of no device, one with no key and one with no value.
ReadLogs  == [1..3 -> Records({1, 2}, {1}, {0, 1}) \cup Records({0, NoValue}, {1}, {0})
                        \cup Records({1}, {NoValue}, {0})]
OneOf(p, logs, q) == {[x \in {p, q} |-> IF x = p THEN log ELSE <<>>] : log \in logs}
\* Power records, or temperature records.
ResultLogs == OneOf("power", PowerLogs, "temperature") \cup OneOf("temperature", ReadLogs, "power")

\* With windows of length 2: one pipeline has two records of one window, the other one has
\* a second record that closes the window of the first.
FailLog(t) == <<[key |-> 1, value |-> 3, time |-> 0], [key |-> 1, value |-> 3, time |-> t]>>
FailLogs   == {[x \in TwoPipelines |-> FailLog(IF x = p THEN 4 ELSE 1)] : p \in TwoPipelines}
LateLogs  == [TemperatureOnly ->
                {<<[key |-> 1, value |-> 3, time |-> 0], [key |-> 1, value |-> 5, time |-> 1],
                   [key |-> 1, value |-> 3, time |-> 0]>>}]
HotLogs   == [TemperatureOnly -> SeqsUpTo(2, Records({1, 2}, {1, 5}, {0, 1}))]
=============================================================================

------------------------- MODULE WindowedAggregation -------------------------
(***************************************************************************)
(* What the pipelines promise, without caches, commits, suppress() or      *)
(* stream time: each record is taken once, in the order of its topic, and  *)
(* either dropped or added to its window; what is published of a window is *)
(* what the window holds at that instant.  A power window is final: once   *)
(* it is published nothing is added to it, it is not published again, and  *)
(* no earlier window of the same sensor is published after it.             *)
(***************************************************************************)
EXTENDS Integers, Sequences

CONSTANTS Pipelines, Logs, WindowSize

VARIABLES
  topic,      \* topic[p]: the records of p's input topic
  taken,      \* taken[p]: how many of them have been taken
  contents,   \* contents[p]: window -> [count, sum, time, from]
  published   \* published[p]: sequence of [w, agg]

vars == <<topic, taken, contents, published>>

WindowOf(r)     == <<r.key, (r.time \div WindowSize) * WindowSize>>
Later(a, b)     == IF a > b THEN a ELSE b
Replace(f, w, v) == [x \in DOMAIN f \cup {w} |-> IF x = w THEN v ELSE f[x]]
EmptyWindow     == [count |-> 0, sum |-> 0, time |-> -1, from |-> {}]

Add(a, r, offset) == [count |-> a.count + 1, sum |-> a.sum + r.value,
                      time |-> Later(a.time, r.time), from |-> a.from \cup {offset}]

Published(p)  == {published[p][i].w : i \in 1..Len(published[p])}
IsFinal(p, w) == p = "power" /\ w \in Published(p)

Init ==
  /\ topic \in Logs
  /\ taken = [p \in Pipelines |-> 0]
  /\ contents = [p \in Pipelines |-> [w \in {} |-> EmptyWindow]]
  /\ published = [p \in Pipelines |-> <<>>]

Take(p) ==
  LET offset == taken[p] + 1
      r      == topic[p][offset]
      w      == WindowOf(r)
      held   == IF w \in DOMAIN contents[p] THEN contents[p][w] ELSE EmptyWindow
  IN  /\ taken[p] < Len(topic[p])
      /\ taken' = [taken EXCEPT ![p] = offset]
      /\ \/ UNCHANGED contents
         \/ /\ ~IsFinal(p, w)
            /\ contents' = [contents EXCEPT ![p] = Replace(@, w, Add(held, r, offset))]
      /\ UNCHANGED <<topic, published>>

Publish(p, w) ==
  /\ w \in DOMAIN contents[p]
  /\ p = "power" => \A v \in Published(p) : v[1] = w[1] => v[2] < w[2]
  /\ published' = [published EXCEPT ![p] = Append(@, [w |-> w, agg |-> contents[p][w]])]
  /\ UNCHANGED <<topic, taken, contents>>

Next == \E p \in Pipelines : Take(p) \/ \E w \in DOMAIN contents[p] : Publish(p, w)

Spec == Init /\ [][Next]_vars
=============================================================================

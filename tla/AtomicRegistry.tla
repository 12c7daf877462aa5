--------------------------- MODULE AtomicRegistry ---------------------------
(***************************************************************************)
(* What the device-activity endpoints promise to concurrent clients: each  *)
(* request takes effect, and has its answer decided, at ONE instant        *)
(* between its arrival and its response.  Requests that overlap may take   *)
(* effect in any order; a restart of the process drops the requests in     *)
(* flight and forgets every toggle.                                        *)
(*                                                                         *)
(* Races is the one place where the promise is weakened.  With Races =     *)
(* FALSE a REST toggle is told "done" only if it changed the status; with  *)
(* Races = TRUE it may also be told "done" when another request got there  *)
(* first.                                                                  *)
(***************************************************************************)
EXTENDS RegistryInterface

CONSTANT Races

VARIABLES
  status,   \* status[id]: the device's status, Null when the id is unknown
  call      \* call[r]: the request r being served

vars == <<status, call>>

Idle == [phase |-> "idle"]

\* The answers op may get on an id that holds s, each with what the id then holds.
Outcomes(op, s) ==
  CASE op = "webDetails"  -> {<<s, s>>}
    [] op = "apiIsActive" -> {<<IF s = Null THEN "does not exist" ELSE s, s>>}
    [] op \in WebToggles  -> {<<"redirect", IF s = Null THEN Null ELSE Target(op)>>}
    [] op \in ApiToggles  ->
         IF s = Null THEN {<<"does not exist", Null>>}
         ELSE IF s = Target(op)
              THEN {<<"already", s>>} \cup (IF Races THEN {<<"done", s>>} ELSE {})
              ELSE {<<"done", Target(op)>>}

Init == /\ status = InitialMap
        /\ call = [r \in Requests |-> Idle]

Invoke(r, op, id) ==
  /\ call[r].phase = "idle"
  /\ call' = [call EXCEPT ![r] = [phase |-> "pending", op |-> op, id |-> id]]
  /\ UNCHANGED status

Effect(r) ==
  /\ call[r].phase = "pending"
  /\ \E out \in Outcomes(call[r].op, status[call[r].id]) :
       /\ status' = [status EXCEPT ![call[r].id] = out[2]]
       /\ call' = [call EXCEPT ![r] = [phase |-> "answered", op |-> @.op,
                                       id |-> @.id, answer |-> out[1]]]

Return(r) ==
  /\ call[r].phase = "answered"
  /\ call' = [call EXCEPT ![r] = Idle]
  /\ UNCHANGED status

\* The alert service stops a sensor.
Trip(k) ==
  /\ status' = [status EXCEPT ![k] = "INACTIVE"]
  /\ UNCHANGED call

Restart ==
  /\ status' = InitialMap
  /\ call' = [r \in Requests |-> Idle]

Next ==
  \/ \E r \in Requests : \E op \in Ops, id \in Ids : Invoke(r, op, id)
  \/ \E r \in Requests : Effect(r) \/ Return(r)
  \/ \E k \in AlertKeys : Trip(k)
  \/ Restart

Spec == Init /\ [][Next]_vars
=============================================================================

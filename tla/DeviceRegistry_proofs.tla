------------------------ MODULE DeviceRegistry_proofs ------------------------
(***************************************************************************)
(* Proofs about DeviceRegistry, for every set of devices, alert keys,      *)
(* requests and operations.                                                *)
(***************************************************************************)
EXTENDS DeviceRegistry, TLAPS

\* The bean AppBeans builds is a map of statuses.
LEMMA InitialMapType == InitialMap \in [Ids -> Status \cup {Null}]
  BY DEF InitialMap, Status

\* The locals of a handler that serves one device.
LEMMA OneDeviceLocals ==
  ASSUME TypeOK, NEW r \in Requests, req[r].at \in OneDevicePcs
  PROVE  /\ req[r] = [at |-> req[r].at, op |-> req[r].op, id |-> req[r].id]
         /\ req[r].op \in Ops
         /\ req[r].id \in Ids
         /\ Held(r) \in Status \cup {Null}
  BY DEF TypeOK, Handlers, OneDevicePcs, Held

\* The locals of a handler that iterates over the map.
LEMMA ListingLocals ==
  ASSUME TypeOK, NEW r \in Requests, req[r].at \in {"listing", "listed"}
  PROVE  /\ req[r] = [at |-> req[r].at, left |-> req[r].left, seen |-> req[r].seen]
         /\ req[r].left \in SUBSET Ids
         /\ \E shown \in SUBSET Ids : req[r].seen \in [shown -> Status]
  BY DEF TypeOK, Handlers, OneDevicePcs

\* A step of one handler leaves the other handlers' locals typed.
LEMMA HandlerStep ==
  ASSUME TypeOK, NEW r \in Requests, NEW h \in Handlers, req' = [req EXCEPT ![r] = h]
  PROVE  req' \in [Requests -> Handlers]
  BY DEF TypeOK

\* Moving to another line changes the program counter only, and keeps the types.
LEMMA GotoLine ==
  ASSUME TypeOK, NEW r \in Requests, req[r].at \in OneDevicePcs,
         NEW pc \in OneDevicePcs, Goto(r, pc)
  PROVE  /\ req'[r] = [at |-> pc, op |-> req[r].op, id |-> req[r].id]
         /\ req' \in [Requests -> Handlers]
<1> DEFINE h == [at |-> pc, op |-> req[r].op, id |-> req[r].id]
<1>1. h \in Handlers
  BY OneDeviceLocals DEF Handlers
<1>2. [req[r] EXCEPT !.at = pc] = h
  <2> DEFINE old == [at |-> req[r].at, op |-> req[r].op, id |-> req[r].id]
  <2>1. [old EXCEPT !.at = pc] = h
    OBVIOUS
  <2>2. req[r] = old
    BY OneDeviceLocals
  <2> HIDE DEF old, h
  <2> QED
    BY <2>1, <2>2
<1>3. req' = [req EXCEPT ![r] = h]
  BY <1>2 DEF Goto
<1>4. req'[r] = h
  BY <1>3 DEF TypeOK
<1> QED
  BY <1>1, <1>3, <1>4, HandlerStep

\* Deciding an answer keeps the operation and the device the request named.
LEMMA AnswerType ==
  ASSUME TypeOK, NEW r \in Requests, req[r].at \in OneDevicePcs,
         NEW reply \in Answers, Answer(r, reply)
  PROVE  req' \in [Requests -> Handlers]
<1> DEFINE h == [at |-> "answered", op |-> req[r].op, id |-> req[r].id, answer |-> reply]
<1>1. h \in Handlers
  BY OneDeviceLocals DEF Handlers
<1>2. req' = [req EXCEPT ![r] = h]
  BY DEF Answer
<1> QED
  BY <1>1, <1>2, HandlerStep

\* The map and the program counters keep their types through every step.
THEOREM TypeCorrect == Spec => []TypeOK
<1>1. Init => TypeOK
  BY InitialMapType DEF Init, TypeOK, Free, Handlers
<1>2. TypeOK /\ [Next]_vars => TypeOK'
  <2> SUFFICES ASSUME TypeOK, [Next]_vars PROVE TypeOK'
    OBVIOUS
  <2> USE DEF TypeOK
  <2>1. ASSUME NEW r \in Requests, NEW op \in Ops, NEW id \in Ids, Receive(r, op, id)
        PROVE  TypeOK'
    BY <2>1 DEF Receive, Handlers, OneDevicePcs
  <2>2. ASSUME NEW r \in Requests, CheckExists(r) PROVE TypeOK'
    <3>1. NotFound(req[r].op) \in Answers
      BY DEF NotFound, Answers
    <3> QED
      BY <2>2, <3>1, GotoLine, AnswerType DEF CheckExists, OneDevicePcs
  <2>3. ASSUME NEW r \in Requests, CheckAlready(r) PROVE TypeOK'
    BY <2>3, GotoLine, AnswerType DEF CheckAlready, OneDevicePcs, Answers
  <2>4. ASSUME NEW r \in Requests, Put(r) PROVE TypeOK'
    <3>1. req' \in [Requests -> Handlers]
      BY <2>4, AnswerType DEF Put, OneDevicePcs, Answers
    <3>2. Target(req[r].op) \in Status
      BY DEF Target, Status
    <3> QED
      BY <2>4, <3>1, <3>2 DEF Put
  <2>5. ASSUME NEW r \in Requests, ReadStatus(r) PROVE TypeOK'
    <3>1. Held(r) \in Answers
      BY <2>5, OneDeviceLocals DEF ReadStatus, OneDevicePcs, Answers
    <3> QED
      BY <2>5, <3>1, GotoLine, AnswerType DEF ReadStatus, OneDevicePcs
  <2>6. ASSUME NEW r \in Requests, DeviceDetails(r) PROVE TypeOK'
    <3>1. Held(r) \in Answers
      BY <2>6, OneDeviceLocals DEF DeviceDetails, OneDevicePcs, Answers
    <3> QED
      BY <2>6, <3>1, AnswerType DEF DeviceDetails, OneDevicePcs
  <2>7. ASSUME NEW r \in Requests, Respond(r) PROVE TypeOK'
    BY <2>7 DEF Respond, Free, Handlers
  <2>8. ASSUME NEW r \in Requests, StartListing(r) PROVE TypeOK'
    <3> DEFINE h == [at |-> "listing", left |-> Keys, seen |-> [id \in {} |-> Null]]
    <3>1. h.seen \in [{} -> Status]
      OBVIOUS
    <3>2. h.seen \in UNION {[shown -> Status] : shown \in SUBSET Ids}
      BY <3>1
    <3>3. h \in Handlers
      BY <3>2 DEF Handlers, Keys
    <3> QED
      BY <2>8, <3>3, HandlerStep DEF StartListing
  <2>9. ASSUME NEW r \in Requests, NEW id \in Ids, VisitEntry(r, id) PROVE TypeOK'
    <3> DEFINE old == req[r].seen
               new == [i \in DOMAIN old \cup {id} |->
                         IF i = id THEN activeDevicesMap[id] ELSE old[i]]
               h   == [at |-> "listing", left |-> req[r].left \ {id}, seen |-> new]
    <3>1. PICK shown \in SUBSET Ids : old \in [shown -> Status]
      BY <2>9, ListingLocals DEF VisitEntry
    <3>2. activeDevicesMap[id] \in Status
      BY <2>9 DEF VisitEntry, Keys
    <3>3. new \in [shown \cup {id} -> Status]
      BY <3>1, <3>2
    <3>4. shown \cup {id} \in SUBSET Ids
      OBVIOUS
    <3>5. new \in UNION {[s -> Status] : s \in SUBSET Ids}
      BY <3>3, <3>4
    <3>6. h \in Handlers
      BY <2>9, <3>5, ListingLocals DEF Handlers, VisitEntry
    <3>7. req' = [req EXCEPT ![r] = h]
      BY <2>9, ListingLocals DEF VisitEntry
    <3> QED
      BY <2>9, <3>6, <3>7, HandlerStep DEF VisitEntry
  <2>10. ASSUME NEW r \in Requests, FinishListing(r) PROVE TypeOK'
    <3> DEFINE h == [at |-> "listed", left |-> req[r].left, seen |-> req[r].seen]
    <3>1. h \in Handlers
      BY <2>10, ListingLocals DEF FinishListing, Handlers
    <3>2. [req[r] EXCEPT !.at = "listed"] = h
      BY <2>10, ListingLocals DEF FinishListing
    <3>3. req' = [req EXCEPT ![r] = h]
      BY <2>10, <3>2 DEF FinishListing, Goto
    <3> QED
      BY <2>10, <3>1, <3>3, HandlerStep DEF FinishListing
  <2>11. ASSUME NEW k \in AlertKeys, AlertPut(k) PROVE TypeOK'
    BY <2>11 DEF AlertPut, Ids, Status
  <2>12. CASE Restart
    BY <2>12, InitialMapType DEF Restart, Free, Handlers
  <2>13. CASE UNCHANGED vars
    BY <2>13 DEF vars
  <2> QED
    BY <2>1, <2>2, <2>3, <2>4, <2>5, <2>6, <2>7, <2>8, <2>9, <2>10, <2>11, <2>12, <2>13
       DEF Next, Handle, List
<1> QED
  BY <1>1, <1>2, PTL DEF Spec

-----------------------------------------------------------------------------
(* No handler, alert or listing takes an id out of the map. *)

\* As long as the process lives, an id that is in the map stays in it.
LEMMA MapOnlyGrows ==
  ASSUME TypeOK, [Next]_vars, ~Restart
  PROVE  \A id \in Ids : activeDevicesMap[id] # Null => activeDevicesMap'[id] # Null
<1>1. ASSUME NEW r \in Requests, Put(r)
      PROVE  \A id \in Ids : activeDevicesMap[id] # Null => activeDevicesMap'[id] # Null
  BY <1>1 DEF TypeOK, Put, Target, Null
<1>2. ASSUME NEW k \in AlertKeys, AlertPut(k)
      PROVE  \A id \in Ids : activeDevicesMap[id] # Null => activeDevicesMap'[id] # Null
  BY <1>2 DEF TypeOK, AlertPut, Null
<1> QED
  BY <1>1, <1>2
     DEF Next, Handle, List, vars, Receive, CheckExists, CheckAlready, ReadStatus,
         DeviceDetails, Respond, StartListing, VisitEntry, FinishListing

\* What a handler checked before its second read or its put is still so.  TypeOK
\* is what makes the invariant inductive: it ties each program counter to a
\* request that names an id of the map's domain.
IInv == TypeOK /\ CheckedStaysMapped

\* A listing handler stays a listing handler.
LEMMA ListPcs ==
  ASSUME TypeOK, NEW r \in Requests, List(r)
  PROVE  req'[r].at \in {"listing", "listed"}
<1>1. ASSUME StartListing(r) PROVE req'[r].at = "listing"
  BY <1>1 DEF StartListing, TypeOK
<1>2. ASSUME NEW id \in Ids, VisitEntry(r, id) PROVE req'[r].at = "listing"
  <2>1. req[r] = [at |-> "listing", left |-> req[r].left, seen |-> req[r].seen]
    BY <1>2, ListingLocals DEF VisitEntry
  <2> QED
    BY <1>2, <2>1 DEF VisitEntry, TypeOK
<1>3. ASSUME FinishListing(r) PROVE req'[r].at = "listed"
  <2>1. [req[r] EXCEPT !.at = "listed"].at = "listed"
    BY <1>3, ListingLocals DEF FinishListing
  <2> QED
    BY <1>3, <2>1 DEF FinishListing, Goto, TypeOK
<1> QED
  BY <1>1, <1>2, <1>3 DEF List

\* A request that has not passed the existence check is not at a later line.
LEMMA CheckedStep ==
  ASSUME IInv, [Next]_vars PROVE CheckedStaysMapped'
<1> USE DEF IInv
<1>1. CASE Restart
  BY <1>1 DEF Restart, Free, CheckedStaysMapped
<1>2. CASE ~Restart
  <2> SUFFICES ASSUME NEW q \in Requests
               PROVE  /\ req'[q].at \in {"compare", "put"} => activeDevicesMap'[req'[q].id] # Null
                      /\ req'[q].at # "npe"
    BY DEF CheckedStaysMapped, Held
  <2>1. CASE req'[q] = req[q]
    <3>1. req[q].at \in {"compare", "put"} => req[q].id \in Ids
      BY OneDeviceLocals DEF OneDevicePcs
    <3> QED
      BY <1>2, <2>1, <3>1, MapOnlyGrows DEF CheckedStaysMapped, Held
  <2>2. ASSUME NEW op \in Ops, NEW id \in Ids, Receive(q, op, id)
        PROVE  req'[q].at = "exists"
    BY <2>2 DEF Receive, TypeOK
  <2>3. ASSUME CheckExists(q)
        PROVE  \/ req'[q].at = "answered"
               \/ /\ req'[q].at \in {"put", "compare"}
                  /\ activeDevicesMap'[req'[q].id] # Null
    <3>1. CASE Held(q) = Null
      BY <2>3, <3>1 DEF CheckExists, Answer, TypeOK
    <3>2. CASE Held(q) # Null
      <4> DEFINE pc == IF req[q].op \in WebToggles THEN "put" ELSE "compare"
      <4>1. pc \in OneDevicePcs /\ pc \in {"put", "compare"}
        BY DEF OneDevicePcs
      <4>2. Goto(q, pc) /\ req[q].at \in OneDevicePcs
        BY <2>3, <3>2 DEF CheckExists, OneDevicePcs
      <4>3. req'[q] = [at |-> pc, op |-> req[q].op, id |-> req[q].id]
        BY <4>1, <4>2, GotoLine
      <4>4. activeDevicesMap' = activeDevicesMap
        BY <2>3 DEF CheckExists
      <4> HIDE DEF pc
      <4> QED
        BY <3>2, <4>1, <4>3, <4>4 DEF Held
    <3> QED
      BY <3>1, <3>2
  <2>4. ASSUME CheckAlready(q)
        PROVE  \/ req'[q].at = "answered"
               \/ /\ req'[q].at = "put"
                  /\ activeDevicesMap'[req'[q].id] # Null
    <3>1. CASE Held(q) = Target(req[q].op)
      BY <2>4, <3>1 DEF CheckAlready, Answer, TypeOK
    <3>2. CASE Held(q) # Target(req[q].op)
      <4>1. Goto(q, "put") /\ activeDevicesMap' = activeDevicesMap
        BY <2>4, <3>2 DEF CheckAlready
      <4>2. req'[q] = [at |-> "put", op |-> req[q].op, id |-> req[q].id]
        BY <2>4, <4>1, GotoLine DEF CheckAlready, OneDevicePcs
      <4>3. Held(q) # Null
        BY <2>4 DEF CheckAlready, CheckedStaysMapped
      <4> QED
        BY <4>1, <4>2, <4>3 DEF Held
    <3> QED
      BY <3>1, <3>2
  <2>5. ASSUME Put(q) \/ ReadStatus(q) \/ DeviceDetails(q) PROVE req'[q].at = "answered"
    BY <2>5 DEF Put, ReadStatus, DeviceDetails, Answer, TypeOK, CheckedStaysMapped
  <2>6. ASSUME Respond(q) PROVE req'[q].at = "idle"
    BY <2>6 DEF Respond, Free, TypeOK
  <2>7. ASSUME List(q) PROVE req'[q].at \in {"listing", "listed"}
    BY <2>7, ListPcs
  <2>8. \A r \in Requests \ {q} :
           Handle(r) \/ List(r) \/ (\E op \in Ops, id \in Ids : Receive(r, op, id))
             => req'[q] = req[q]
    BY DEF Handle, List, Receive, CheckExists, CheckAlready, Put, ReadStatus, DeviceDetails,
           Respond, StartListing, VisitEntry, FinishListing, Goto, Answer, TypeOK
  <2>9. (\E k \in AlertKeys : AlertPut(k)) \/ UNCHANGED vars => req' = req
    BY DEF AlertPut, vars
  <2> QED
    BY <1>2, <2>1, <2>2, <2>3, <2>4, <2>5, <2>6, <2>7, <2>8, <2>9 DEF Next, Handle
<1> QED
  BY <1>1, <1>2

\* A device a handler found in the map is still there when the handler reads it
\* again or puts, whatever the other servlet threads and the alert service do.
THEOREM CheckedDevicesStay == Spec => []CheckedStaysMapped
<1>1. Init => CheckedStaysMapped
  BY DEF Init, Free, CheckedStaysMapped
<1>2. TypeOK /\ CheckedStaysMapped /\ [Next]_vars => CheckedStaysMapped'
  BY CheckedStep DEF IInv
<1> QED
  BY <1>1, <1>2, TypeCorrect, PTL DEF Spec

-----------------------------------------------------------------------------
(* A listing that is complete. *)

\* The configured devices are in the map throughout, and an iteration has each of them
\* behind it or still ahead.
ListInv ==
  /\ \A d \in Devices : activeDevicesMap[d] # Null
  /\ \A r \in Requests :
       /\ req[r].at = "listing" => \A d \in Devices : d \in req[r].left \cup DOMAIN req[r].seen
       /\ req[r].at = "listed" => \A d \in Devices : d \in DOMAIN req[r].seen

\* What the listing of request r has seen, or has still to see.
LEMMA ListingStep ==
  ASSUME TypeOK, ListInv, NEW r \in Requests, List(r)
  PROVE  /\ req'[r].at = "listing" =>
              \A d \in Devices : d \in req'[r].left \cup DOMAIN req'[r].seen
         /\ req'[r].at = "listed" => \A d \in Devices : d \in DOMAIN req'[r].seen
<1>0. Devices \subseteq Keys
  BY DEF ListInv, Keys, Ids
<1>1. CASE StartListing(r)
  <2>1. req'[r] = [at |-> "listing", left |-> Keys, seen |-> [id \in {} |-> Null]]
    BY <1>1 DEF StartListing, TypeOK
  <2> QED
    BY <1>0, <2>1
<1>2. ASSUME NEW id \in Ids, VisitEntry(r, id)
      PROVE  /\ req'[r].at = "listing"
             /\ \A d \in Devices : d \in req'[r].left \cup DOMAIN req'[r].seen
  <2> DEFINE new == [i \in DOMAIN req[r].seen \cup {id} |->
                       IF i = id THEN activeDevicesMap[id] ELSE req[r].seen[i]]
  <2>1. req[r] = [at |-> "listing", left |-> req[r].left, seen |-> req[r].seen]
    BY <1>2, ListingLocals DEF VisitEntry
  <2>2. DOMAIN new = DOMAIN req[r].seen \cup {id}
    OBVIOUS
  <2>3. req'[r] = [req[r] EXCEPT !.left = req[r].left \ {id}, !.seen = new]
    BY <1>2 DEF VisitEntry, TypeOK
  <2> HIDE DEF new
  <2>4. req'[r].at = "listing" /\ req'[r].left = req[r].left \ {id} /\ req'[r].seen = new
    BY <2>1, <2>3
  <2> QED
    BY <2>1, <2>2, <2>4 DEF ListInv
<1>3. CASE FinishListing(r)
  <2>1. req[r] = [at |-> "listing", left |-> req[r].left, seen |-> req[r].seen]
    BY <1>3, ListingLocals DEF FinishListing
  <2>2. req'[r].at = "listed" /\ req'[r].seen = req[r].seen
    BY <1>3, <2>1 DEF FinishListing, Goto, TypeOK
  <2>3. \A d \in Devices : d \notin req[r].left
    BY <1>0, <1>3 DEF FinishListing
  <2> QED
    BY <2>1, <2>2, <2>3 DEF ListInv
<1> QED
  BY <1>1, <1>2, <1>3 DEF List

LEMMA ListInvStep ==
  ASSUME TypeOK, ListInv, [Next]_vars PROVE ListInv'
<1>1. CASE Restart
  <2>1. \A d \in Devices : d \in Ids /\ InitialMap[d] = "ACTIVE"
    BY DEF InitialMap, Ids
  <2> QED
    BY <1>1, <2>1 DEF Restart, Free, ListInv, Null
<1>2. CASE ~Restart
  <2>1. \A d \in Devices : activeDevicesMap'[d] # Null
    BY <1>2, MapOnlyGrows DEF ListInv, Ids
  <2> SUFFICES ASSUME NEW q \in Requests
               PROVE  /\ req'[q].at = "listing" =>
                           \A d \in Devices : d \in req'[q].left \cup DOMAIN req'[q].seen
                      /\ req'[q].at = "listed" => \A d \in Devices : d \in DOMAIN req'[q].seen
    BY <2>1 DEF ListInv
  <2>2. CASE req'[q] = req[q]
    BY <2>2 DEF ListInv
  <2>3. CASE List(q)
    BY <2>3, ListingStep
  <2>4. ASSUME NEW op \in Ops, NEW id \in Ids, Receive(q, op, id)
        PROVE  req'[q].at = "exists"
    BY <2>4 DEF Receive, TypeOK
  <2>5. ASSUME Handle(q)
        PROVE  req'[q].at \notin {"listing", "listed"}
    <3>1. ASSUME NEW pc \in {"compare", "put", "npe"}, Goto(q, pc), req[q].at \in OneDevicePcs
          PROVE  req'[q].at = pc
      <4>1. req'[q] = [at |-> pc, op |-> req[q].op, id |-> req[q].id]
        BY <3>1, GotoLine DEF OneDevicePcs
      <4> QED
        BY <4>1
    <3>2. ASSUME NEW reply, Answer(q, reply) PROVE req'[q].at = "answered"
      BY <3>2 DEF Answer, TypeOK
    <3>3. Respond(q) => req'[q].at = "idle"
      BY DEF Respond, Free, TypeOK
    <3> QED
      BY <2>5, <3>1, <3>2, <3>3
         DEF Handle, CheckExists, CheckAlready, Put, ReadStatus, DeviceDetails, OneDevicePcs
  <2>6. \A r \in Requests \ {q} :
           Handle(r) \/ List(r) \/ (\E op \in Ops, id \in Ids : Receive(r, op, id))
             => req'[q] = req[q]
    BY DEF Handle, List, Receive, CheckExists, CheckAlready, Put, ReadStatus, DeviceDetails,
           Respond, StartListing, VisitEntry, FinishListing, Goto, Answer, TypeOK
  <2>7. (\E k \in AlertKeys : AlertPut(k)) \/ UNCHANGED vars => req' = req
    BY DEF AlertPut, vars
  <2> QED
    BY <1>2, <2>2, <2>3, <2>4, <2>5, <2>6, <2>7 DEF Next
<1> QED
  BY <1>1, <1>2

\* A complete listing shows every configured device, whatever others put meanwhile.
THEOREM ListingsAreComplete == Spec => []ListingComplete
<1>1. Init => ListInv
  <2>1. \A d \in Devices : d \in Ids /\ InitialMap[d] = "ACTIVE"
    BY DEF InitialMap, Ids
  <2> QED
    BY <2>1 DEF Init, ListInv, Free, Null
<1>2. TypeOK /\ ListInv /\ [Next]_vars => ListInv'
  BY ListInvStep
<1>3. ListInv => ListingComplete
  BY DEF ListInv, ListingComplete
<1> QED
  BY <1>1, <1>2, <1>3, TypeCorrect, PTL DEF Spec

-----------------------------------------------------------------------------
(* The handlers implement the atomic promise. *)

\* A step of one handler changes that request only in the promise's view.
LEMMA VisibleStep ==
  ASSUME TypeOK, NEW r \in Requests, NEW h, req' = [req EXCEPT ![r] = h]
  PROVE  callBar' = [callBar EXCEPT ![r] = Visible(h)]
  BY DEF TypeOK, callBar

\* What the promise sees of a handler that serves one device.
LEMMA PendingView ==
  ASSUME TypeOK, NEW r \in Requests, req[r].at \in OneDevicePcs
  PROVE  callBar[r] = [phase |-> "pending", op |-> req[r].op, id |-> req[r].id]
  BY DEF callBar, Visible, OneDevicePcs

\* A handler that moves on to another line of its own is a stutter of the promise.
LEMMA GotoStutters ==
  ASSUME TypeOK, NEW r \in Requests, req[r].at \in OneDevicePcs,
         NEW pc \in OneDevicePcs, Goto(r, pc)
  PROVE  callBar' = callBar
<1> DEFINE h == [at |-> pc, op |-> req[r].op, id |-> req[r].id]
<1>1. \A q \in Requests \ {r} : req'[q] = req[q]
  BY DEF Goto, TypeOK
<1>2. Visible(req'[r]) = Visible(req[r])
  <2>1. req'[r] = h
    BY GotoLine
  <2>2. Visible(h) = [phase |-> "pending", op |-> req[r].op, id |-> req[r].id]
    BY DEF Visible, OneDevicePcs
  <2>3. Visible(req[r]) = [phase |-> "pending", op |-> req[r].op, id |-> req[r].id]
    BY DEF Visible, OneDevicePcs
  <2> QED
    BY <2>1, <2>2, <2>3
<1> QED
  BY <1>1, <1>2 DEF callBar

\* A handler that decides an outcome the promise allows is its Effect.
LEMMA AnswerTakesEffect ==
  ASSUME TypeOK, NEW r \in Requests, req[r].at \in OneDevicePcs,
         NEW reply, NEW s, Answer(r, reply),
         activeDevicesMap' = [activeDevicesMap EXCEPT ![req[r].id] = s],
         <<reply, s>> \in Promise!Outcomes(req[r].op, Held(r))
  PROVE  Promise!Effect(r)
<1> DEFINE h    == [at |-> "answered", op |-> req[r].op, id |-> req[r].id, answer |-> reply]
           done == [phase |-> "answered", op |-> req[r].op, id |-> req[r].id, answer |-> reply]
<1>1. callBar' = [callBar EXCEPT ![r] = done]
  <2>1. req' = [req EXCEPT ![r] = h]
    BY DEF Answer
  <2>2. Visible(h) = done
    BY DEF Visible
  <2> QED
    BY <2>1, <2>2, VisibleStep
<1>2. callBar[r] = [phase |-> "pending", op |-> req[r].op, id |-> req[r].id]
  BY PendingView
<1>3. /\ callBar[r].phase = "pending"
      /\ callBar[r].op = req[r].op
      /\ callBar[r].id = req[r].id
  BY <1>2
<1> DEFINE out == <<reply, s>>
<1>4. /\ out \in Promise!Outcomes(callBar[r].op, activeDevicesMap[callBar[r].id])
      /\ activeDevicesMap' = [activeDevicesMap EXCEPT ![callBar[r].id] = out[2]]
      /\ callBar' = [callBar EXCEPT ![r] = [phase |-> "answered", op |-> callBar[r].op,
                                            id |-> callBar[r].id, answer |-> out[1]]]
  BY <1>1, <1>3 DEF Held
<1> QED
  BY <1>3, <1>4 DEF Promise!Effect

\* Reading decides an outcome that leaves the map alone.
LEMMA ReadTakesEffect ==
  ASSUME TypeOK, NEW r \in Requests, req[r].at \in OneDevicePcs,
         NEW reply, Answer(r, reply), activeDevicesMap' = activeDevicesMap,
         <<reply, Held(r)>> \in Promise!Outcomes(req[r].op, Held(r))
  PROVE  Promise!Effect(r)
<1>1. activeDevicesMap' = [activeDevicesMap EXCEPT ![req[r].id] = Held(r)]
  BY OneDeviceLocals DEF TypeOK, Held
<1> QED
  BY <1>1, AnswerTakesEffect

\* Every step of the handlers is a step, or a stutter, of the promise.
LEMMA StepImplements ==
  ASSUME Ops \subseteq AllOps, Races \/ Ops \cap ApiToggles = {}, IInv, [Next]_vars
  PROVE  [Promise!Next]_(Promise!vars)
<1> USE DEF IInv
<1>1. ASSUME NEW r \in Requests, NEW op \in Ops, NEW id \in Ids, Receive(r, op, id)
      PROVE  Promise!Invoke(r, op, id)
  <2> DEFINE h == [at |-> "exists", op |-> op, id |-> id]
  <2>1. Visible(h) = [phase |-> "pending", op |-> op, id |-> id]
    BY DEF Visible, OneDevicePcs
  <2>2. callBar' = [callBar EXCEPT ![r] = Visible(h)]
    BY <1>1, VisibleStep DEF Receive
  <2>3. callBar[r].phase = "idle"
    BY <1>1 DEF Receive, callBar, Visible, OneDevicePcs
  <2> QED
    BY <1>1, <2>1, <2>2, <2>3 DEF Receive, Promise!Invoke
<1>2. ASSUME NEW r \in Requests, CheckExists(r)
      PROVE  Promise!Effect(r) \/ (UNCHANGED Promise!vars)
  <2>1. /\ req[r].at \in OneDevicePcs
        /\ req[r].op # "webDetails"
        /\ activeDevicesMap' = activeDevicesMap
    BY <1>2 DEF CheckExists, OneDevicePcs
  <2>2. CASE Held(r) = Null
    <3>1. req[r].op \in AllOps
      BY <2>1, OneDeviceLocals
    <3>2. <<NotFound(req[r].op), Null>> \in Promise!Outcomes(req[r].op, Null)
      BY <2>1, <3>1
         DEF AllOps, ApiToggles, WebToggles, NotFound, Null, Promise!Outcomes,
             Promise!ApiToggles, Promise!WebToggles, Promise!Null
    <3>3. Answer(r, NotFound(req[r].op))
      BY <1>2, <2>2 DEF CheckExists
    <3> QED
      BY <2>1, <2>2, <3>2, <3>3, ReadTakesEffect
  <2>3. CASE Held(r) # Null
    <3>1. Goto(r, IF req[r].op \in WebToggles THEN "put" ELSE "compare")
      BY <1>2, <2>3 DEF CheckExists
    <3>2. callBar' = callBar
      BY <2>1, <3>1, GotoStutters DEF OneDevicePcs
    <3> QED
      BY <2>1, <3>2 DEF Promise!vars
  <2> QED
    BY <2>2, <2>3
<1>3. ASSUME NEW r \in Requests, CheckAlready(r)
      PROVE  Promise!Effect(r) \/ (UNCHANGED Promise!vars)
  <2>1. /\ req[r].at \in OneDevicePcs
        /\ req[r].op \in ApiToggles
        /\ Held(r) # Null
        /\ activeDevicesMap' = activeDevicesMap
    BY <1>3 DEF CheckAlready, OneDevicePcs, CheckedStaysMapped
  <2>2. CASE Held(r) = Target(req[r].op)
    <3>1. <<"already", Held(r)>> \in Promise!Outcomes(req[r].op, Held(r))
      BY <2>1, <2>2
         DEF ApiToggles, Target, Null, Promise!Outcomes, Promise!ApiToggles,
             Promise!WebToggles, Promise!Null, Promise!Target
    <3>2. Answer(r, "already")
      BY <1>3, <2>2 DEF CheckAlready
    <3> QED
      BY <2>1, <3>1, <3>2, ReadTakesEffect
  <2>3. CASE Held(r) # Target(req[r].op)
    <3>1. Goto(r, "put")
      BY <1>3, <2>3 DEF CheckAlready
    <3>2. callBar' = callBar
      BY <2>1, <3>1, GotoStutters DEF OneDevicePcs
    <3> QED
      BY <2>1, <3>2 DEF Promise!vars
  <2> QED
    BY <2>2, <2>3
<1>4. ASSUME NEW r \in Requests, Put(r) PROVE Promise!Effect(r)
  <2> DEFINE reply == IF req[r].op \in ApiToggles THEN "done" ELSE "redirect"
             s     == Target(req[r].op)
  <2>1. /\ req[r].at \in OneDevicePcs
        /\ Held(r) # Null
        /\ activeDevicesMap' = [activeDevicesMap EXCEPT ![req[r].id] = s]
        /\ Answer(r, reply)
    BY <1>4 DEF Put, OneDevicePcs, CheckedStaysMapped
  <2>2. CASE req[r].op \in WebToggles
    <3>1. <<reply, s>> \in Promise!Outcomes(req[r].op, Held(r))
      BY <2>1, <2>2
         DEF ApiToggles, WebToggles, Target, Null, Promise!Outcomes, Promise!ApiToggles,
             Promise!WebToggles, Promise!Null, Promise!Target
    <3> QED
      BY <2>1, <3>1, AnswerTakesEffect
  <2>3. CASE req[r].op \in ApiToggles
    <3>1. Races
      BY <2>1, <2>3, OneDeviceLocals
    <3>2. <<reply, s>> \in Promise!Outcomes(req[r].op, Held(r))
      BY <2>1, <2>3, <3>1
         DEF ApiToggles, Target, Null, Promise!Outcomes, Promise!ApiToggles,
             Promise!WebToggles, Promise!Null, Promise!Target
    <3> QED
      BY <2>1, <3>2, AnswerTakesEffect
  <2> QED
    BY <1>4, <2>2, <2>3 DEF Put
<1>5. ASSUME NEW r \in Requests, ReadStatus(r) PROVE Promise!Effect(r)
  <2>1. /\ req[r].at \in OneDevicePcs
        /\ req[r].op = "apiIsActive"
        /\ Held(r) # Null
        /\ Answer(r, Held(r))
        /\ activeDevicesMap' = activeDevicesMap
    BY <1>5 DEF ReadStatus, OneDevicePcs, CheckedStaysMapped
  <2>2. <<Held(r), Held(r)>> \in Promise!Outcomes(req[r].op, Held(r))
    BY <2>1 DEF Null, Promise!Outcomes, Promise!Null, Promise!ApiToggles, Promise!WebToggles
  <2> QED
    BY <2>1, <2>2, ReadTakesEffect
<1>6. ASSUME NEW r \in Requests, DeviceDetails(r) PROVE Promise!Effect(r)
  <2>1. /\ req[r].at \in OneDevicePcs
        /\ req[r].op = "webDetails"
        /\ Answer(r, Held(r))
        /\ activeDevicesMap' = activeDevicesMap
    BY <1>6 DEF DeviceDetails, OneDevicePcs
  <2>2. <<Held(r), Held(r)>> \in Promise!Outcomes(req[r].op, Held(r))
    BY <2>1 DEF Promise!Outcomes, Promise!ApiToggles, Promise!WebToggles
  <2> QED
    BY <2>1, <2>2, ReadTakesEffect
<1>7. ASSUME NEW r \in Requests, Respond(r)
      PROVE  Promise!Return(r) \/ (UNCHANGED Promise!vars)
  <2>1. callBar' = [callBar EXCEPT ![r] = [phase |-> "idle"]]
    <3>1. Visible(Free) = [phase |-> "idle"]
      BY DEF Free, Visible, OneDevicePcs
    <3> QED
      BY <1>7, <3>1, VisibleStep DEF Respond
  <2>2. CASE req[r].at = "answered"
    BY <1>7, <2>1, <2>2 DEF Respond, callBar, Visible, Promise!Return, Promise!Idle
  <2>3. CASE req[r].at = "listed"
    <3>1. callBar[r] = [phase |-> "idle"]
      BY <2>3 DEF callBar, Visible, OneDevicePcs
    <3>2. callBar' = callBar
      BY <2>1, <3>1 DEF callBar
    <3> QED
      BY <1>7, <3>2 DEF Respond, Promise!vars
  <2> QED
    BY <1>7, <2>2, <2>3 DEF Respond, CheckedStaysMapped
<1>8. ASSUME NEW r \in Requests, List(r) PROVE UNCHANGED Promise!vars
  <2>1. activeDevicesMap' = activeDevicesMap
    BY <1>8 DEF List, StartListing, VisitEntry, FinishListing
  <2>2. \A q \in Requests \ {r} : req'[q] = req[q]
    BY <1>8 DEF List, StartListing, VisitEntry, FinishListing, Goto, TypeOK
  <2>3. req[r].at \in {"idle", "listing"}
    BY <1>8 DEF List, StartListing, VisitEntry, FinishListing
  <2>4. req'[r].at \in {"listing", "listed"}
    BY <1>8, ListPcs
  <2>5. Visible(req'[r]) = Visible(req[r])
    BY <2>3, <2>4 DEF Visible, OneDevicePcs
  <2>6. callBar' = callBar
    BY <2>2, <2>5 DEF callBar
  <2> QED
    BY <2>1, <2>6 DEF Promise!vars
<1>9. ASSUME NEW k \in AlertKeys, AlertPut(k) PROVE Promise!Trip(k)
  BY <1>9 DEF AlertPut, callBar, Promise!Trip
<1>10. CASE Restart
  <2>1. Visible(Free) = Promise!Idle
    BY DEF Free, Visible, OneDevicePcs, Promise!Idle
  <2>2. callBar' = [r \in Requests |-> Promise!Idle]
    BY <1>10, <2>1 DEF Restart, callBar
  <2>3. activeDevicesMap' = Promise!InitialMap
    BY <1>10 DEF Restart, InitialMap, Ids, Null, Promise!InitialMap, Promise!Ids, Promise!Null
  <2> QED
    BY <2>2, <2>3 DEF Promise!Restart, Promise!Next
<1>11. CASE UNCHANGED vars
  BY <1>11 DEF vars, callBar, Promise!vars
<1> QED
  BY <1>1, <1>2, <1>3, <1>4, <1>5, <1>6, <1>7, <1>8, <1>9, <1>10, <1>11
     DEF Next, Handle, Promise!Next, Promise!Ids, Ids

\* For every set of devices, requests and operations, the handlers take effect
\* atomically: strictly (Races = FALSE) when clients use the pages and the
\* queries only, and with the one weakening Races names when REST toggles run.
THEOREM Refinement ==
  ASSUME Ops \subseteq AllOps, Races \/ Ops \cap ApiToggles = {}
  PROVE  Spec => TakesEffectAtomically
<1>1. Init => Promise!Init
  <2>1. Visible(Free) = Promise!Idle
    BY DEF Free, Visible, OneDevicePcs, Promise!Idle
  <2> QED
    BY <2>1 DEF Init, callBar, InitialMap, Ids, Null, Promise!Init, Promise!InitialMap,
                Promise!Ids, Promise!Null
<1>2. TypeOK /\ CheckedStaysMapped /\ [Next]_vars => [Promise!Next]_(Promise!vars)
  BY StepImplements DEF IInv
<1> QED
  BY <1>1, <1>2, TypeCorrect, CheckedDevicesStay, PTL DEF Spec, TakesEffectAtomically, Promise!Spec
=============================================================================

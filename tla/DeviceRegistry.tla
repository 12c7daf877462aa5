--------------------------- MODULE DeviceRegistry ---------------------------
(***************************************************************************)
(* The activeDevicesMap bean and the request handlers that share it:       *)
(* DevicesAPIController (REST), DevicesController (pages), and the put of  *)
(* AlertService.  Each ConcurrentHashMap call is atomic; a handler is a    *)
(* sequence of such calls, and other handlers run between them.            *)
(*                                                                         *)
(*   at = "idle"      the servlet thread is free                           *)
(*        "exists"    about to run activeDevicesMap.get(id) == null        *)
(*        "compare"   about to read the status a second time               *)
(*        "put"       both checks passed, about to put                     *)
(*        "listing"   iterating over the entries of the live map           *)
(*        "answered"  the response is decided                              *)
(*        "npe"       the second read found no entry: HTTP 500             *)
(***************************************************************************)
EXTENDS RegistryInterface

CONSTANT Races   \* passed to the promise: see AtomicRegistry

VARIABLES
  activeDevicesMap,   \* [Ids -> Status or Null]
  req                 \* [Requests -> the handler's program counter and locals]

vars == <<activeDevicesMap, req>>

Free == [at |-> "idle"]

\* The handler of request r goes on to pc, or decides its answer.
Goto(r, pc)      == req' = [req EXCEPT ![r].at = pc]
Answer(r, reply) == req' = [req EXCEPT ![r] = [at |-> "answered", op |-> @.op,
                                               id |-> @.id, answer |-> reply]]
Held(r) == activeDevicesMap[req[r].id]

Init == /\ activeDevicesMap = InitialMap
        /\ req = [r \in Requests |-> Free]

-----------------------------------------------------------------------------
(* The handlers that name one device. *)

Receive(r, op, id) ==
  /\ req[r].at = "idle"
  /\ req' = [req EXCEPT ![r] = [at |-> "exists", op |-> op, id |-> id]]
  /\ UNCHANGED activeDevicesMap

\* Mutated form: the toggles do not check that the device exists.
CheckExists_IsActiveOnly(r) ==
  /\ req[r].at = "exists"
  /\ req[r].op # "webDetails"
  /\ IF req[r].op = "apiIsActive" /\ Held(r) = Null
     THEN Answer(r, NotFound(req[r].op))
     ELSE Goto(r, IF req[r].op \in WebToggles THEN "put" ELSE "compare")
  /\ UNCHANGED activeDevicesMap

\* get(deviceId) == null, the first line of every toggle and of isActive.
CheckExists(r) ==
  /\ req[r].at = "exists"
  /\ req[r].op # "webDetails"
  /\ \/ /\ Held(r) = Null
        /\ Answer(r, NotFound(req[r].op))
     \/ /\ Held(r) # Null
        /\ Goto(r, IF req[r].op \in WebToggles THEN "put" ELSE "compare")
  /\ UNCHANGED activeDevicesMap

\* get(deviceId) == ACTIVE (INACTIVE): the "already" check of the REST toggles only.
CheckAlready(r) ==
  /\ req[r].at = "compare"
  /\ req[r].op \in ApiToggles
  /\ \/ /\ Held(r) = Target(req[r].op)
        /\ Answer(r, "already")
     \/ /\ Held(r) # Target(req[r].op)
        /\ Goto(r, "put")
  /\ UNCHANGED activeDevicesMap

\* Mutated form: a device is deactivated by taking it out of the map.
Put_Removes(r) ==
  /\ req[r].at = "put"
  /\ req[r].op \in ApiToggles \cup WebToggles
  /\ activeDevicesMap' = [activeDevicesMap EXCEPT ![req[r].id] =
       IF Target(req[r].op) = "ACTIVE" THEN "ACTIVE" ELSE Null]
  /\ Answer(r, IF req[r].op \in ApiToggles THEN "done" ELSE "redirect")

\* put(deviceId, ACTIVE) or put(deviceId, INACTIVE), then the response.
Put(r) ==
  /\ req[r].at = "put"
  /\ req[r].op \in ApiToggles \cup WebToggles
  /\ activeDevicesMap' = [activeDevicesMap EXCEPT ![req[r].id] = Target(req[r].op)]
  /\ Answer(r, IF req[r].op \in ApiToggles THEN "done" ELSE "redirect")

\* isActive: get(deviceId).equals(INACTIVE) dereferences what it reads.
ReadStatus(r) ==
  /\ req[r].at = "compare"
  /\ req[r].op = "apiIsActive"
  /\ IF Held(r) = Null THEN Goto(r, "npe") ELSE Answer(r, Held(r))
  /\ UNCHANGED activeDevicesMap

\* deviceDetails: one read, and an unknown device is shown with no status.
DeviceDetails(r) ==
  /\ req[r].at = "exists"
  /\ req[r].op = "webDetails"
  /\ Answer(r, Held(r))
  /\ UNCHANGED activeDevicesMap

Respond(r) ==
  /\ req[r].at \in {"answered", "npe", "listed"}
  /\ req' = [req EXCEPT ![r] = Free]
  /\ UNCHANGED activeDevicesMap

-----------------------------------------------------------------------------
(* /api/devices/list, /devices and /devices/data/raw hand the live map to   *)
(* the serializer or the template, which iterates it while others put: an   *)
(* entry present when the iteration starts is visited once, one added later *)
(* may be.                                                                  *)

Keys == {id \in Ids : activeDevicesMap[id] # Null}

StartListing(r) ==
  /\ req[r].at = "idle"
  /\ req' = [req EXCEPT ![r] = [at |-> "listing", left |-> Keys, seen |-> [id \in {} |-> Null]]]
  /\ UNCHANGED activeDevicesMap

\* Mutated form: the listing asks for every id instead of iterating over the entries.
VisitEntry_AnyId(r, id) ==
  /\ req[r].at = "listing"
  /\ id \notin DOMAIN req[r].seen
  /\ req' = [req EXCEPT
       ![r].left = @ \ {id},
       ![r].seen = [i \in DOMAIN @ \cup {id} |-> IF i = id THEN activeDevicesMap[id] ELSE @[i]]]
  /\ UNCHANGED activeDevicesMap

VisitEntry(r, id) ==
  /\ req[r].at = "listing"
  /\ id \in Keys \ DOMAIN req[r].seen
  /\ req' = [req EXCEPT
       ![r].left = @ \ {id},
       ![r].seen = [i \in DOMAIN @ \cup {id} |-> IF i = id THEN activeDevicesMap[id] ELSE @[i]]]
  /\ UNCHANGED activeDevicesMap

\* The iterator is exhausted: what it had to visit is visited, or is no longer there.
FinishListing(r) ==
  /\ req[r].at = "listing"
  /\ req[r].left \cap Keys = {}
  /\ Goto(r, "listed")
  /\ UNCHANGED activeDevicesMap

-----------------------------------------------------------------------------
(* The other writers of the map, and the specification. *)

\* AlertService on a CRITICAL value: put(sensorId, INACTIVE), under the bare sensor id.
AlertPut(k) ==
  /\ activeDevicesMap' = [activeDevicesMap EXCEPT ![k] = "INACTIVE"]
  /\ UNCHANGED req

\* The map is a bean, in memory only: a new process builds it again.
Restart ==
  /\ activeDevicesMap' = InitialMap
  /\ req' = [r \in Requests |-> Free]

Handle(r) ==
  \/ CheckExists(r) \/ CheckAlready(r) \/ Put(r) \/ ReadStatus(r)
  \/ DeviceDetails(r) \/ Respond(r)

List(r) == StartListing(r) \/ (\E id \in Ids : VisitEntry(r, id)) \/ FinishListing(r)

Next ==
  \/ \E r \in Requests : \E op \in Ops, id \in Ids : Receive(r, op, id)
  \/ \E r \in Requests : Handle(r)
  \/ \E r \in Requests : List(r)
  \/ \E k \in AlertKeys : AlertPut(k)
  \/ Restart

Spec == Init /\ [][Next]_vars

-----------------------------------------------------------------------------
(* Properties. *)

OneDevicePcs == {"exists", "compare", "put", "npe"}
Handlers ==
  [at : {"idle"}]
    \cup [at : OneDevicePcs, op : Ops, id : Ids]
    \cup [at : {"answered"}, op : Ops, id : Ids, answer : Answers]
    \cup [at : {"listing", "listed"}, left : SUBSET Ids,
          seen : UNION {[shown -> Status] : shown \in SUBSET Ids}]

\* The map holds a status or nothing under each id, and each request is at a
\* line of its handler with that handler's locals.
TypeOK ==
  /\ activeDevicesMap \in [Ids -> Status \cup {Null}]
  /\ req \in [Requests -> Handlers]

\* What the existence check at the top of a handler established is still true
\* when the handler reads again or puts: no interleaving of handlers, alerts and
\* listings takes a device out of the map between the two, so isActive never
\* dereferences null and a toggle never creates a device.
CheckedStaysMapped ==
  \A r \in Requests :
    /\ req[r].at \in {"compare", "put"} => Held(r) # Null
    /\ req[r].at # "npe"

\* A listing that is complete shows every configured device, with a status,
\* whatever was toggled while the entries were being iterated.
ListingComplete ==
  \A r \in Requests :
    req[r].at = "listed" => \A d \in Devices : d \in DOMAIN req[r].seen

-----------------------------------------------------------------------------
(* The promise, through a refinement mapping: a request is pending from its   *)
(* arrival until the read or the put that decides its answer; listings are    *)
(* not part of the promise.                                                   *)

Visible(h) ==
  IF h.at = "answered"
  THEN [phase |-> "answered", op |-> h.op, id |-> h.id, answer |-> h.answer]
  ELSE IF h.at \in OneDevicePcs
  THEN [phase |-> "pending", op |-> h.op, id |-> h.id]
  ELSE [phase |-> "idle"]

callBar == [r \in Requests |-> Visible(req[r])]

Promise == INSTANCE AtomicRegistry WITH status <- activeDevicesMap, call <- callBar

\* Every request takes effect at one instant: the put, or the read that decided
\* the answer.  The check-then-act handlers cost only what Races names.
TakesEffectAtomically == Promise!Spec
=============================================================================

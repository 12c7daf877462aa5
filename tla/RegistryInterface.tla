-------------------------- MODULE RegistryInterface --------------------------
(***************************************************************************)
(* The vocabulary of the device-activity endpoints: which identifiers a    *)
(* request may name, what the shared activeDevicesMap can hold under one,  *)
(* and which operations the two controllers offer.  Shared by the promise  *)
(* (AtomicRegistry) and by the code (DeviceRegistry).                      *)
(***************************************************************************)
EXTENDS Naturals

CONSTANTS
  Devices,      \* the keys AppBeans fills in: "temperature-1", "power-2", ...
  AlertKeys,    \* the bare sensor ids AlertService uses as keys: "1", "2", ...
  UnknownIds,   \* path variables that are never a key of the map
  Requests,     \* the HTTP requests the servlet threads are serving
  Ops           \* the operations clients call, a subset of AllOps

Ids == Devices \cup AlertKeys \cup UnknownIds

Null   == "null"                  \* what ConcurrentHashMap.get answers for no key
Status == {"ACTIVE", "INACTIVE"}

ApiToggles == {"apiActivate", "apiDeactivate"}   \* DevicesAPIController
WebToggles == {"webActivate", "webDeactivate"}   \* DevicesController
AllOps     == ApiToggles \cup WebToggles \cup {"apiIsActive", "webDetails"}

\* The status a toggle asks for.
Target(op) == IF op \in {"apiActivate", "webActivate"} THEN "ACTIVE" ELSE "INACTIVE"

\* The map AppBeans builds when the process starts: every configured device ACTIVE.
InitialMap == [id \in Ids |-> IF id \in Devices THEN "ACTIVE" ELSE Null]

\* What a request that named no key is told: HTTP 400 by the API, a redirect by the pages.
NotFound(op) == IF op \in WebToggles THEN "redirect" ELSE "does not exist"
Answers      == Status \cup {Null, "does not exist", "already", "done", "redirect"}
=============================================================================

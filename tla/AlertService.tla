---------------------------- MODULE AlertService ----------------------------
(***************************************************************************)
(* The alert rules of AlertService: which level a reading raises, whether  *)
(* that level is mailed, and the key under which a CRITICAL reading writes *)
(* INACTIVE into the shared activeDevicesMap.  ProcessStream performs the  *)
(* mail and the put as steps of its own; this module is the decision.      *)
(*                                                                         *)
(* A reading is a quotient [sum, count]: an average for temperature and    *)
(* pressure, a total with count 1 for power.                               *)
(***************************************************************************)
EXTENDS Integers

CONSTANTS
  WarningThreshold,   \* [Categories -> Int], application.alerts.threshold.warning
  CriticalThreshold,  \* [Categories -> Int], application.alerts.threshold.critical
  EmailEnabled        \* both e-mail switches, of the alerts and of EmailService, are on

Categories == {"temperature", "power", "pressure"}

\* Thresholds are given in the unit in which readings are counted.
ASSUME ThresholdsAssumption ==
  \A c \in Categories : WarningThreshold[c] \in Int /\ CriticalThreshold[c] \in Int

Above(reading, threshold) == reading.sum > threshold * reading.count

\* The three check...Alert methods: the WARNING threshold is compared first.
AlertLevel(category, reading) ==
  IF Above(reading, WarningThreshold[category]) THEN "WARNING"
  ELSE IF Above(reading, CriticalThreshold[category]) THEN "CRITICAL"
  ELSE "NONE"

\* Every level that is raised is mailed, with emailEnabled.
Mails(level) == EmailEnabled /\ level # "NONE"

\* The map's keys.  A device of a category has the key "<category>-<id>", as AppBeans
\* builds it; AlertService.put uses the sensor id it was given, "<id>", as it is.
DeviceKey(category, id) == <<category, id>>
AlertKey(id)            == <<id>>
=============================================================================

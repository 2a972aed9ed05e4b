---------------------------- MODULE NodeLifecycle ----------------------------
(***************************************************************************)
(* A node from its power-on: the Wi-Fi, the start-up in app_main(), the    *)
(* firmware update and the sensor, with lost connections, resets and power *)
(* cuts at any step.  What a node does with its messages and its audio is  *)
(* in NodeSession, NodeCommands and NodeClock.                             *)
(*                                                                         *)
(* A master node has the sensor, and its partition table, the default one  *)
(* of the build, has no partition for updates; a listener has two.         *)
(***************************************************************************)
EXTENDS WifiManager, OtaManager, Shtc3

CONSTANT MaxFaults   (* bound: lost connections, failed attempts and resets    *)

ASSUME FaultsAssumption == MaxFaults \in Nat

VARIABLES
  master,    (* NODE_IS_MASTER                                                 *)
  started,   (* app_main() got past wifi_wait_for_connection() and returned    *)
  faults     (* faults so far                                                  *)

nodeVars == <<master, started, faults>>
vars == <<wifiVars, otaVars, sensorVars, nodeVars>>

Init ==
  /\ WifiInit
  /\ OtaInit
  /\ SensorOff
  /\ master \in BOOLEAN
  /\ started = FALSE
  /\ faults = 0

(* The processor starts anew, up to wifi_wait_for_connection().            *)
Boot ==
  /\ BootOta
  /\ WifiManagerInit
  /\ started' = FALSE
  /\ UNCHANGED master

Fault ==
  /\ faults < MaxFaults
  /\ faults' = faults + 1

PowerCut ==
  /\ Fault
  /\ Boot
  /\ ReaderReset("asleep")

(* A reset button, a panic: the sensor keeps its supply.                   *)
Reset ==
  /\ Fault
  /\ Boot
  /\ ReaderReset(sensor)

(* esp_restart(), a second after the answer.                               *)
RestartAfterUpdate ==
  /\ handler.pc = "restart"
  /\ Boot
  /\ UNCHANGED <<sensorVars, faults>>

(* The rest of app_main(): the HTTP server and the tasks.                  *)
StartUp ==
  /\ ~started
  /\ connected
  /\ started' = TRUE
  /\ IF master THEN Shtc3Init ELSE UNCHANGED sensorVars
  /\ UNCHANGED <<wifiVars, otaVars, master, faults>>

Wifi ==
  /\ WifiEventTask \/ Associate
  /\ UNCHANGED <<otaVars, sensorVars, nodeVars>>

ConnectionLost ==
  /\ Fault
  /\ LoseLink
  /\ UNCHANGED <<otaVars, sensorVars, master, started>>

Update ==
  /\ started /\ HandlerStep(~master)
  /\ UNCHANGED <<wifiVars, sensorVars, nodeVars>>

Upload(f) ==
  /\ StartUpload(f)
  /\ UNCHANGED <<wifiVars, sensorVars, nodeVars>>

Tool ==
  /\ ToolStep(link = "online")
  /\ UNCHANGED <<wifiVars, sensorVars, nodeVars>>

(* api_client_task() gathers the telemetry.                                *)
Telemetry ==
  /\ started /\ master
  /\ Shtc3Read
  /\ UNCHANGED <<wifiVars, otaVars, nodeVars>>

Sensor ==
  /\ MeasurementEnds
  /\ UNCHANGED <<wifiVars, otaVars, nodeVars>>

Next ==
  \/ PowerCut \/ Reset \/ RestartAfterUpdate \/ StartUp
  \/ Wifi \/ ConnectionLost
  \/ Update \/ Tool \/ \E f \in Files : Upload(f)
  \/ Telemetry \/ Sensor

Spec == Init /\ [][Next]_vars

(* The node's tasks and the tool run, and the access point takes a node in *)
(* that asks often enough.  Nothing is assumed of users and of faults,     *)
(* which are bounded.                                                      *)
FairSpec ==
  /\ Spec
  /\ WF_vars(Wifi) /\ WF_vars(StartUp)
  /\ WF_vars(Update) /\ WF_vars(RestartAfterUpdate) /\ WF_vars(Tool)

-----------------------------------------------------------------------------
TypeOK ==
  /\ WifiTypeOK /\ OtaTypeOK /\ SensorTypeOK
  /\ {master, started} \subseteq BOOLEAN
  /\ faults \in 0 .. MaxFaults

(* Whatever was lost, cut off or updated, the node ends up online and      *)
(* running, and knows it.                                                  *)
NodeComesBack == <>[](started /\ link = "online" /\ connected)

(* An upload ends, whatever becomes of the node; and the handler ends its  *)
(* request, or the tool went away while the node could not learn of it.    *)
UpdateEnds ==
  /\ (tool.pc = "sending") ~> (tool.pc = "idle")
  /\ (handler.pc # "idle") ~> (handler.pc = "idle" \/ handler.peer = "gone")
=============================================================================

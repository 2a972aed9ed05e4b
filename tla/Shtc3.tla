-------------------------------- MODULE Shtc3 --------------------------------
(***************************************************************************)
(* The temperature sensor of a master node, shtc3.c: a read wakes the      *)
(* sensor, starts a measurement, waits, fetches the result and puts the    *)
(* sensor to sleep; a command that fails ends the read at once.            *)
(*                                                                         *)
(* The sensor is external.  It acknowledges no command while it measures,  *)
(* and has a result to fetch once after a measurement.  Any transfer may   *)
(* fail on the bus.  A reset of the processor leaves the sensor as it is.  *)
(***************************************************************************)
EXTENDS Naturals

CONSTANTS TickMs,            (* length of a FreeRTOS tick: 10, the default     *)
          MeasurementMs      (* the longest measurement, rounded up: 13        *)

ASSUME SensorAssumption == TickMs \in Nat \ {0} /\ MeasurementMs \in Nat

VARIABLES
  sensor,    (* "asleep", "awake", "measuring" or "ready"                      *)
  result,    (* whose measurement it is that runs or is ready: "mine", the     *)
             (* read's that is under way, or "old"                             *)
  reader,    (* shtc3_read(): "idle", "woken", "waiting" or "fetched"          *)
  reading    (* what the last read returned: "error", "mine" or "old"          *)

sensorVars == <<sensor, result, reader, reading>>

SensorOff == sensor = "asleep" /\ result = "old" /\ reader = "idle" /\ reading = "error"

(* A reset of the processor finds the sensor in the given state.           *)
ReaderReset(state) ==
  sensor' = state /\ result' = "old" /\ reader' = "idle" /\ reading' = "error"

(* vTaskDelay(pdMS_TO_TICKS(ms)) ends with a tick, and the first one may   *)
(* come at once.                                                           *)
ShortestDelay(ms) == IF ms < TickMs THEN 0 ELSE (ms \div TickMs - 1) * TickMs

Acknowledges == sensor # "measuring"

(* The sensor after a wake-up command.                                     *)
Woken == IF sensor = "asleep" THEN "awake" ELSE sensor

(* shtc3_init(): wake-up and sleep, to see whether there is a sensor.      *)
Shtc3Init ==
  \E state \in {sensor} \cup (IF Acknowledges THEN {Woken, "asleep"} ELSE {}) : ReaderReset(state)

MeasurementEnds ==
  /\ sensor = "measuring"
  /\ sensor' = "ready"
  /\ UNCHANGED <<result, reader, reading>>

(* Mutation: a failing measurement command does not end the read.          *)
GoesOn == IF reader = "woken" THEN "waiting" ELSE "idle"

Returns == "idle"

(* A command fails: the read returns, and leaves the sensor as it is.      *)
CommandFails ==
  /\ reader \in {"idle", "woken"}
  /\ reader' = Returns
  /\ reading' = "error"
  /\ result' = "old"
  /\ UNCHANGED sensor

WakeUp ==
  /\ reader = "idle"
  /\ Acknowledges
  /\ sensor' = Woken
  /\ reader' = "woken"
  /\ UNCHANGED <<result, reading>>

StartMeasurement ==
  /\ reader = "woken"
  /\ Acknowledges
  /\ sensor' = "measuring"
  /\ result' = "mine"
  /\ reader' = "waiting"
  /\ UNCHANGED reading

(* The delay of 25 ms is over.                                             *)
DelayOver == sensor = "measuring" => ShortestDelay(25) < MeasurementMs

(* i2c_master_receive(): fetches a result that is ready, or fails.         *)
Fetch ==
  /\ reader = "waiting"
  /\ DelayOver
  /\ \/ sensor = "ready" /\ sensor' = "awake" /\ reading' = result
     \/ reading' = "error" /\ UNCHANGED sensor
  /\ reader' = "fetched"
  /\ UNCHANGED result

(* The sleep command, whose failure is ignored; the read returns.          *)
GoToSleep ==
  /\ reader = "fetched"
  /\ sensor' \in (IF Acknowledges THEN {sensor, "asleep"} ELSE {sensor})
  /\ reader' = "idle"
  /\ result' = "old"
  /\ UNCHANGED reading

Shtc3Read == CommandFails \/ WakeUp \/ StartMeasurement \/ Fetch \/ GoToSleep

SensorTypeOK ==
  /\ sensor \in {"asleep", "awake", "measuring", "ready"}
  /\ result \in {"mine", "old"}
  /\ reader \in {"idle", "woken", "waiting", "fetched"}
  /\ reading \in {"error", "mine", "old"}

(* A value that a read returns was measured for that read: a result that a *)
(* read which failed, or a reset, left in the sensor is never reported.    *)
ReadingIsItsOwn == reading # "old"

(* `We wait 25ms to be absolutely safe across all tick rates': when the    *)
(* delay is over the measurement is complete.                              *)
MeasurementIsReady == reader = "fetched" => sensor # "measuring"
=============================================================================

------------------------ MODULE NodeLifecycle_proofs ------------------------
(***************************************************************************)
(* The safety properties of a node's start-up, update and sensor, for any  *)
(* files, any number of pieces, uploads and faults.  Wi-Fi, update and     *)
(* sensor share no variable: each has an invariant of its own, which the   *)
(* actions of NodeLifecycle keep one by one.                               *)
(***************************************************************************)
EXTENDS NodeLifecycle, TLAPS

-----------------------------------------------------------------------------
(* Wi-Fi: the last event that was reported tells whether the station is    *)
(* online, and once no event waits the bit does, unless the handler of a   *)
(* disconnection is about to clear it.                                     *)
LastEventTells ==
  IF events = <<>>
  THEN (link = "online" => connected /\ ~handling) /\ (link # "online" => handling \/ ~connected)
  ELSE link = "online" <=> events[Len(events)] = "GOT_IP"

(* The station starts once, before anything else happens.                  *)
StartsFirst ==
  \A i \in DOMAIN events : events[i] = "STA_START" => i = 1 /\ ~connected /\ ~handling

WifiInv == WifiTypeOK /\ LastEventTells /\ StartsFirst

WifiNext == WifiEventTask \/ Associate \/ LoseLink \/ WifiManagerInit \/ UNCHANGED wifiVars

(* Every step of the driver and of the handler keeps the invariant.        *)
LEMMA WifiStep == WifiInv /\ WifiNext => WifiInv'
<1> SUFFICES ASSUME WifiInv, WifiNext PROVE WifiInv'
  OBVIOUS
<1> USE DEF WifiInv, WifiTypeOK, LastEventTells, StartsFirst
<1>1. CASE HandleEvent
  <2> DEFINE E == {"STA_START", "DISCONNECTED", "GOT_IP"}
  <2>1. /\ events \in Seq(E) /\ events # <<>> /\ ~handling
        /\ events' = Tail(events)
        /\ link' = IF ConnectsOn(Head(events)) /\ link = "down" THEN "connecting" ELSE link
        /\ handling' = (Head(events) = "DISCONNECTED")
        /\ connected' = (connected \/ Head(events) = "GOT_IP")
    BY <1>1 DEF HandleEvent
  <2>2. /\ events' \in Seq(E) /\ Len(events') = Len(events) - 1 /\ Len(events) \in Nat \ {0}
        /\ \A i \in 1 .. Len(events') : events'[i] = events[i + 1]
        /\ Head(events) = events[1] /\ Head(events) \in E
    BY <2>1
  <2>3. WifiTypeOK'
    BY <2>1, <2>2
  <2>4. link' = "online" <=> link = "online"
    BY <2>1
  <2>5. \A i \in 1 .. Len(events') : events'[i] # "STA_START"
    <3> SUFFICES ASSUME NEW i \in 1 .. Len(events') PROVE events'[i] # "STA_START"
      OBVIOUS
    <3>1. i + 1 \in DOMAIN events /\ i + 1 # 1
      BY <2>1, <2>2
    <3> QED
      BY <2>2, <3>1
  <2>6. StartsFirst'
    BY <2>2, <2>5
  <2>7. CASE events' = <<>>
    <3>0. Len(events') = 0
      BY <2>7
    <3>1. Len(events) = 1 /\ events[Len(events)] = Head(events)
      <4>1. Len(events) = 1
        BY <2>2, <3>0
      <4> QED
        BY <2>2, <4>1
    <3>2. Head(events) = "STA_START" => ~connected
      BY <2>1, <3>1
    <3> QED
      BY <2>1, <2>2, <2>3, <2>4, <2>6, <2>7, <3>1, <3>2
  <2>8. CASE events' # <<>>
    <3>1. Len(events') \in Nat \ {0} /\ events'[Len(events')] = events[Len(events)]
      BY <2>2, <2>8
    <3> QED
      BY <2>1, <2>3, <2>4, <2>6, <2>8, <3>1
  <2> QED
    BY <2>7, <2>8
<1>2. CASE ClearBit
  BY <1>2 DEF ClearBit, BitWhenDisconnected
<1>3. ASSUME NEW e \in {"GOT_IP", "DISCONNECTED"}, events' = Append(events, e),
             link' \in {"down", "online"}, link' = "online" <=> e = "GOT_IP",
             UNCHANGED <<handling, connected>>
      PROVE  WifiInv'
  <2>1. /\ Len(events) \in Nat /\ Len(events') = Len(events) + 1 /\ events'[Len(events')] = e
        /\ events' # <<>> /\ events' \in Seq({"STA_START", "DISCONNECTED", "GOT_IP"})
        /\ DOMAIN events' = 1 .. Len(events) + 1
        /\ \A i \in DOMAIN events : i \in 1 .. Len(events) /\ events'[i] = events[i]
    BY <1>3
  <2>2. StartsFirst'
    BY <1>3, <2>1
  <2> QED
    BY <1>3, <2>1, <2>2
<1>4. CASE Associate \/ LoseLink
  BY <1>3, <1>4 DEF Associate, LoseLink
<1>5. CASE WifiManagerInit
  <2>1. /\ events' = <<"STA_START">> /\ events' # <<>> /\ Len(events') = 1 /\ events'[1] = "STA_START"
        /\ link' = "down" /\ handling' = FALSE /\ connected' = FALSE
    BY <1>5 DEF WifiManagerInit
  <2>2. StartsFirst'
    BY <2>1
  <2>3. WifiTypeOK'
    <3>1. <<"STA_START">> \in Seq({"STA_START", "DISCONNECTED", "GOT_IP"})
      OBVIOUS
    <3>2. events' \in Seq({"STA_START", "DISCONNECTED", "GOT_IP"})
      BY <2>1, <3>1, Zenon
    <3> QED
      BY <2>1, <3>2
  <2>4. LastEventTells'
    BY <2>1
  <2> QED
    BY <2>2, <2>3, <2>4
<1>6. CASE UNCHANGED wifiVars
  BY <1>6 DEF wifiVars
<1> QED
  BY <1>1, <1>2, <1>4, <1>5, <1>6 DEF WifiNext, WifiEventTask

-----------------------------------------------------------------------------
(* The update: the handler writes only to the partition that is neither    *)
(* running nor booted next, and what it has verified is the file that it   *)
(* received.  A tool that the handler still serves uploads that very file  *)
(* and has no answer yet; one that has read a success has nobody left who  *)
(* writes.                                                                 *)
BootsWhatRuns ==
  /\ IsBootable(slots[bootSlot])
  /\ handler.pc \notin {"respond", "restart"} => runSlot = bootSlot

HandlerHasFile ==
  /\ handler.pc = "receive" /\ handler.received > 0 =>
       slots[UpdatePartition] = Image(handler.file, handler.received)
  /\ handler.pc \in {"end", "setBoot"} =>
       slots[UpdatePartition] = Image(handler.file, Chunks)
  /\ handler.pc = "respond" => slots[bootSlot] = Image(handler.file, Chunks)

ServesTool ==
  Serving =>
    /\ tool.pc = "sending" /\ tool.file = handler.file
    /\ handler.available <= tool.sent
    /\ handler.pc # "restart" => tool.reply = "none"

Succeeded ==
  /\ tool.pc = "sending" => tool.result = "none"
  /\ (tool.reply = "ok" \/ tool.result = "SUCCESS") =>
       handler.pc \in {"idle", "restart"} /\ slots[bootSlot] = Image(tool.file, Chunks)

OtaInv == OtaTypeOK /\ BootsWhatRuns /\ HandlerHasFile /\ ServesTool /\ Succeeded

OtaNext ==
  \/ \E b \in BOOLEAN : HandlerStep(b) \/ ToolStep(b)
  \/ \E f \in Files : StartUpload(f)
  \/ BootOta
  \/ UNCHANGED otaVars

(* Answering and giving the request up touch nothing but the reply.        *)
LEMMA AnswerReply ==
  ASSUME OtaTypeOK, NEW reply \in {"ok", "error"}, Answer(reply)
  PROVE  /\ ~Serving => tool' = tool
         /\ tool'.pc = tool.pc /\ tool'.file = tool.file /\ tool'.sent = tool.sent
         /\ tool'.result = tool.result
         /\ tool'.reply \in {tool.reply, reply, "closed"}
         /\ Serving => tool'.reply \in {reply, "closed"}
         /\ tool' \in [pc : {"idle", "sending"}, file : Files, sent : 0 .. Chunks,
                       reply : {"none", "ok", "error", "closed"},
                       result : {"none", "SUCCESS", "FAILED", "ERROR"}]
BY DEF OtaTypeOK, Answer

(* Every step of the tool, of the handler and of the boot loader keeps the *)
(* invariant.                                                              *)
LEMMA OtaStep == OtaInv /\ OtaNext => OtaInv'
<1> SUFFICES ASSUME OtaInv, OtaNext PROVE OtaInv'
  OBVIOUS
<1> USE UpdateAssumption DEF Slots, Image, IsBootable, Serving, UpdatePartition
<1>a. /\ OtaTypeOK /\ BootsWhatRuns /\ HandlerHasFile /\ ServesTool /\ Succeeded
      /\ bootSlot \in Slots /\ runSlot \in Slots
  BY DEF OtaInv, OtaTypeOK
<1>1. ASSUME NEW f \in Files, StartUpload(f) PROVE OtaInv'
  <2> USE <1>a, <1>1 DEF StartUpload, flashVars
  <2>1. OtaTypeOK'
    BY DEF OtaTypeOK
  <2>2. BootsWhatRuns' /\ HandlerHasFile'
    BY DEF BootsWhatRuns, HandlerHasFile
  <2>3. ServesTool' /\ Succeeded'
    BY DEF ServesTool, Succeeded
  <2> QED
    BY <2>1, <2>2, <2>3 DEF OtaInv
<1>2. CASE SendChunk
  <2> USE <1>a, <1>2 DEF SendChunk, flashVars
  <2>1. OtaTypeOK'
    BY DEF OtaTypeOK, ServesTool
  <2>2. BootsWhatRuns' /\ HandlerHasFile'
    BY DEF BootsWhatRuns, HandlerHasFile, OtaTypeOK
  <2>3. ServesTool' /\ Succeeded'
    BY DEF ServesTool, Succeeded, OtaTypeOK
  <2> QED
    BY <2>1, <2>2, <2>3 DEF OtaInv
<1>3. CASE GetResponse
  <2> USE <1>a, <1>3 DEF GetResponse, ResultOf, flashVars
  <2>1. OtaTypeOK'
    BY DEF OtaTypeOK
  <2>2. BootsWhatRuns' /\ HandlerHasFile'
    BY DEF BootsWhatRuns, HandlerHasFile, OtaTypeOK
  <2>3. ServesTool' /\ Succeeded'
    BY DEF ServesTool, Succeeded, OtaTypeOK
  <2> QED
    BY <2>1, <2>2, <2>3 DEF OtaInv
<1>4. ASSUME NEW b \in BOOLEAN, UploadFails(b) PROVE OtaInv'
  <2> USE <1>a, <1>4 DEF UploadFails, flashVars
  <2>1. OtaTypeOK'
    BY DEF OtaTypeOK
  <2>2. BootsWhatRuns' /\ HandlerHasFile'
    BY DEF BootsWhatRuns, HandlerHasFile, OtaTypeOK
  <2>3. ServesTool' /\ Succeeded'
    BY DEF ServesTool, Succeeded, OtaTypeOK
  <2> QED
    BY <2>1, <2>2, <2>3 DEF OtaInv
<1>5. ASSUME NEW b \in BOOLEAN, BeginUpdate(b) PROVE OtaInv'
  <2> USE <1>a, <1>5 DEF BeginUpdate, RequestWaits, flashVars
  <2>1. OtaTypeOK'
    BY DEF OtaTypeOK
  <2>2. BootsWhatRuns' /\ HandlerHasFile'
    BY DEF BootsWhatRuns, HandlerHasFile, OtaTypeOK
  <2>3. ServesTool' /\ Succeeded'
    BY DEF ServesTool, Succeeded, OtaTypeOK
  <2> QED
    BY <2>1, <2>2, <2>3 DEF OtaInv
<1>6. CASE BeginFails
  <2> USE <1>a, <1>6 DEF BeginFails, RequestWaits, flashVars
  <2>1. OtaTypeOK'
    BY DEF OtaTypeOK
  <2>2. BootsWhatRuns' /\ HandlerHasFile'
    BY DEF BootsWhatRuns, HandlerHasFile
  <2>3. ServesTool' /\ Succeeded'
    BY DEF ServesTool, Succeeded, OtaTypeOK
  <2> QED
    BY <2>1, <2>2, <2>3 DEF OtaInv
<1>7. CASE WriteChunk
  <2> USE <1>a, <1>7 DEF WriteChunk
  <2>1. OtaTypeOK'
    <3>1. handler.received + 1 \in 0 .. Chunks
      BY DEF OtaTypeOK
    <3>2. slots' \in [Slots -> [file : Files, written : 0 .. Chunks]]
      BY <3>1 DEF OtaTypeOK
    <3>3. handler' \in [pc : {"idle", "receive", "end", "setBoot", "respond", "restart"},
                        file : Files, received : 0 .. Chunks, available : 0 .. Chunks,
                        peer : {"alive", "closed", "gone"}]
      BY <3>1 DEF OtaTypeOK
    <3> QED
      BY <3>2, <3>3 DEF OtaTypeOK
  <2>2. 1 - runSlot # bootSlot /\ slots'[bootSlot] = slots[bootSlot]
    BY DEF BootsWhatRuns, OtaTypeOK
  <2>3. BootsWhatRuns'
    BY <2>2 DEF BootsWhatRuns, OtaTypeOK
  <2>4. HandlerHasFile'
    BY DEF HandlerHasFile, OtaTypeOK
  <2>5. ServesTool' /\ Succeeded'
    BY <2>2 DEF ServesTool, Succeeded, OtaTypeOK
  <2> QED
    BY <2>1, <2>3, <2>4, <2>5 DEF OtaInv
<1>8. CASE handler.pc \in {"receive", "end", "setBoot"} /\ Fail
  <2>1. Answer("error") /\ handler' = NoRequest /\ UNCHANGED <<flashVars, uploads>>
    BY <1>8 DEF Fail
  <2> USE <1>a, <1>8, <2>1 DEF NoRequest, flashVars
  <2>2. OtaTypeOK'
    BY AnswerReply DEF OtaTypeOK
  <2>3. BootsWhatRuns' /\ HandlerHasFile'
    BY DEF BootsWhatRuns, HandlerHasFile
  <2>4. ServesTool' /\ Succeeded'
    BY AnswerReply DEF ServesTool, Succeeded
  <2> QED
    BY <2>2, <2>3, <2>4 DEF OtaInv
<1>9. CASE EndUpdate
  <2> USE <1>a, <1>9 DEF EndUpdate, flashVars
  <2>1. OtaTypeOK'
    BY DEF OtaTypeOK
  <2>2. BootsWhatRuns' /\ HandlerHasFile'
    BY DEF BootsWhatRuns, HandlerHasFile, OtaTypeOK
  <2>3. ServesTool' /\ Succeeded'
    BY DEF ServesTool, Succeeded, OtaTypeOK
  <2> QED
    BY <2>1, <2>2, <2>3 DEF OtaInv
<1>10. CASE SetBootPartition
  <2> USE <1>a, <1>10 DEF SetBootPartition
  <2>1. OtaTypeOK'
    BY DEF OtaTypeOK
  <2>2. BootsWhatRuns' /\ HandlerHasFile'
    BY DEF BootsWhatRuns, HandlerHasFile, OtaTypeOK
  <2>3. ServesTool' /\ Succeeded'
    BY DEF ServesTool, Succeeded, OtaTypeOK
  <2> QED
    BY <2>1, <2>2, <2>3 DEF OtaInv
<1>11. CASE Respond
  <2>1. /\ handler.pc = "respond" /\ Answer("ok")
        /\ handler' = [handler EXCEPT !.pc = "restart"] /\ UNCHANGED <<flashVars, uploads>>
    BY <1>11 DEF Respond
  <2> USE <1>a, <2>1 DEF flashVars
  <2>2. OtaTypeOK'
    BY AnswerReply DEF OtaTypeOK
  <2>3. BootsWhatRuns' /\ HandlerHasFile'
    BY DEF BootsWhatRuns, HandlerHasFile, OtaTypeOK
  <2>4. ServesTool' /\ Succeeded'
    BY AnswerReply DEF ServesTool, Succeeded, HandlerHasFile, OtaTypeOK
  <2> QED
    BY <2>2, <2>3, <2>4 DEF OtaInv
<1>12. CASE BootOta
  <2> USE <1>a, <1>12 DEF BootOta, NoRequest
  <2>1. OtaTypeOK'
    BY DEF OtaTypeOK
  <2>2. BootsWhatRuns' /\ HandlerHasFile'
    BY DEF BootsWhatRuns, HandlerHasFile
  <2>3. ServesTool' /\ Succeeded'
    BY DEF ServesTool, Succeeded, OtaTypeOK
  <2> QED
    BY <2>1, <2>2, <2>3 DEF OtaInv
<1>13. CASE UNCHANGED otaVars
  BY <1>13 DEF otaVars, flashVars, OtaInv, OtaTypeOK, BootsWhatRuns, HandlerHasFile, ServesTool, Succeeded
<1> QED
  BY <1>1, <1>2, <1>3, <1>4, <1>5, <1>6, <1>7, <1>8, <1>9, <1>10, <1>11, <1>12, <1>13
  DEF OtaNext, HandlerStep, ToolStep, ReceiveOrWriteFails, EndOrSetBootFails

-----------------------------------------------------------------------------
(* The sensor: whoever waits for a measurement started it himself.         *)
SensorInv == SensorTypeOK /\ ReadingIsItsOwn /\ (reader = "waiting" => result = "mine")

SensorNext ==
  \/ Shtc3Read \/ MeasurementEnds \/ Shtc3Init
  \/ \E state \in {"asleep", sensor} : ReaderReset(state)
  \/ UNCHANGED sensorVars

(* Every step of the driver and of the sensor keeps the invariant.         *)
LEMMA SensorStep == SensorInv /\ SensorNext => SensorInv'
<1> SUFFICES ASSUME SensorInv, SensorNext PROVE SensorInv'
  OBVIOUS
<1> USE DEF SensorInv, SensorTypeOK, ReadingIsItsOwn
<1>1. CASE Shtc3Read
  BY <1>1 DEF Shtc3Read, CommandFails, WakeUp, StartMeasurement, Fetch, GoToSleep, Returns, Woken
<1>2. CASE MeasurementEnds
  BY <1>2 DEF MeasurementEnds
<1>3. CASE Shtc3Init
  BY <1>3 DEF Shtc3Init, ReaderReset, Woken
<1>4. CASE \E state \in {"asleep", sensor} : ReaderReset(state)
  BY <1>4 DEF ReaderReset
<1>5. CASE UNCHANGED sensorVars
  BY <1>5 DEF sensorVars
<1> QED
  BY <1>1, <1>2, <1>3, <1>4, <1>5 DEF SensorNext

-----------------------------------------------------------------------------
NodeInv == master \in BOOLEAN /\ started \in BOOLEAN /\ faults \in 0 .. MaxFaults

Inv == WifiInv /\ OtaInv /\ SensorInv /\ NodeInv

(* The invariant holds at power-on.                                        *)
LEMMA InitInv == Init => Inv
<1> SUFFICES ASSUME Init PROVE Inv
  OBVIOUS
<1>1. WifiInv
  <2>1. <<"STA_START">> \in Seq({"STA_START", "DISCONNECTED", "GOT_IP"})
    OBVIOUS
  <2>2. /\ events = <<"STA_START">> /\ link = "down" /\ handling = FALSE /\ connected = FALSE
    BY DEF Init, WifiInit
  <2>3. events \in Seq({"STA_START", "DISCONNECTED", "GOT_IP"})
    BY <2>1, <2>2, Zenon
  <2>4. Len(events) = 1 /\ events[1] = "STA_START" /\ DOMAIN events = {1} /\ events # <<>>
    BY <2>2
  <2> QED
    BY <2>2, <2>3, <2>4 DEF WifiInv, WifiTypeOK, LastEventTells, StartsFirst
<1>2. OtaInv
  BY UpdateAssumption DEF Init, OtaInit, NoRequest, OtaInv, OtaTypeOK, BootsWhatRuns, HandlerHasFile,
    ServesTool, Succeeded, Serving, IsBootable, Image, Slots
<1>3. SensorInv
  BY DEF Init, SensorOff, SensorInv, SensorTypeOK, ReadingIsItsOwn
<1>4. NodeInv
  <2>1. 0 \in 0 .. MaxFaults
    BY FaultsAssumption
  <2> QED
    BY <2>1, Zenon DEF Init, NodeInv
<1> QED
  BY <1>1, <1>2, <1>3, <1>4 DEF Inv

(* Each step of a node is a step of its Wi-Fi, its update and its sensor,  *)
(* or leaves them alone.                                                   *)
LEMMA StepInv == Inv /\ [Next]_vars => Inv'
<1> SUFFICES ASSUME Inv, [Next]_vars PROVE Inv'
  OBVIOUS
<1>1. ASSUME Next
      PROVE  WifiNext /\ OtaNext /\ SensorNext /\ NodeInv'
  <2> USE FaultsAssumption DEF Inv, NodeInv, nodeVars
  <2>1. CASE PowerCut \/ Reset
    <3>1. faults' \in 0 .. MaxFaults
      BY <2>1 DEF PowerCut, Reset, Fault
    <3>2. /\ BootOta /\ WifiManagerInit /\ started' = FALSE /\ master' = master
          /\ \E state \in {"asleep", sensor} : ReaderReset(state)
      BY <2>1 DEF PowerCut, Reset, Boot
    <3> QED
      BY <3>1, <3>2, Zenon DEF WifiNext, OtaNext, SensorNext
  <2>2. CASE RestartAfterUpdate
    BY <2>2 DEF RestartAfterUpdate, Boot, WifiNext, OtaNext, SensorNext
  <2>3. CASE StartUp
    BY <2>3 DEF StartUp, WifiNext, OtaNext, SensorNext
  <2>4. CASE Wifi
    BY <2>4 DEF Wifi, WifiNext, OtaNext, SensorNext
  <2>5. CASE ConnectionLost
    BY <2>5 DEF ConnectionLost, Fault, WifiNext, OtaNext, SensorNext
  <2>6. CASE Update
    <3>1. (~master) \in BOOLEAN
      OBVIOUS
    <3>2. HandlerStep(~master)
      BY <2>6 DEF Update
    <3> QED
      BY <2>6, <3>1, <3>2, Zenon DEF Update, WifiNext, OtaNext, SensorNext
  <2>7. CASE Tool
    <3>1. (link = "online") \in BOOLEAN /\ ToolStep(link = "online")
      BY <2>7 DEF Tool
    <3> QED
      BY <2>7, <3>1 DEF Tool, WifiNext, OtaNext, SensorNext
  <2>8. CASE \E f \in Files : Upload(f)
    BY <2>8 DEF Upload, WifiNext, OtaNext, SensorNext
  <2>9. CASE Telemetry
    BY <2>9 DEF Telemetry, WifiNext, OtaNext, SensorNext
  <2>10. CASE Sensor
    BY <2>10 DEF Sensor, WifiNext, OtaNext, SensorNext
  <2> QED
    BY <1>1, <2>1, <2>2, <2>3, <2>4, <2>5, <2>6, <2>7, <2>8, <2>9, <2>10 DEF Next
<1>2. ASSUME UNCHANGED vars
      PROVE  WifiNext /\ OtaNext /\ SensorNext /\ NodeInv'
  BY <1>2 DEF Inv, NodeInv, vars, nodeVars, WifiNext, OtaNext, SensorNext
<1>3. WifiNext /\ OtaNext /\ SensorNext /\ NodeInv'
  BY <1>1, <1>2
<1> QED
  BY <1>3, WifiStep, OtaStep, SensorStep DEF Inv

(* The invariant holds in every state, whatever is lost, cut off or fails. *)
THEOREM Invariance == Spec => []Inv
<1>1. Inv /\ [Next]_vars => Inv'
  BY StepInv
<1> QED
  BY InitInv, <1>1, PTL DEF Spec

(* All variables keep their types: no upload is received or written beyond *)
(* its length.                                                             *)
THEOREM TypeCorrect == Spec => []TypeOK
<1>1. Inv => TypeOK
  BY DEF Inv, WifiInv, OtaInv, SensorInv, NodeInv, TypeOK
<1> QED
  BY Invariance, <1>1, PTL

(* The bit follows the link once every event is handled, in whatever order *)
(* losses and connections fall between the handler's steps.                *)
THEOREM BitIsRight == Spec => []BitFollowsLink
<1>1. Inv => BitFollowsLink
  BY DEF Inv, WifiInv, WifiTypeOK, LastEventTells, BitFollowsLink
<1> QED
  BY Invariance, <1>1, PTL

(* The partition to boot holds a complete image, however an update ends.   *)
THEOREM AlwaysBootable == Spec => []BootImageIsComplete
<1>1. Inv => BootImageIsComplete
  BY DEF Inv, OtaInv, BootsWhatRuns, BootImageIsComplete
<1> QED
  BY Invariance, <1>1, PTL

(* What the tool reports as a success is the image that will be booted.    *)
THEOREM SuccessIsTrue == Spec => []SuccessIsInstalled
<1>1. Inv => SuccessIsInstalled
  BY DEF Inv, OtaInv, Succeeded, SuccessIsInstalled
<1> QED
  BY Invariance, <1>1, PTL

(* No read ever returns what another one measured.                         *)
THEOREM ReadingsAreFresh == Spec => []ReadingIsItsOwn
<1>1. Inv => ReadingIsItsOwn
  BY DEF Inv, SensorInv
<1> QED
  BY Invariance, <1>1, PTL
=============================================================================

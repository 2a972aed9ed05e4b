---------------------------- MODULE NodeSession ----------------------------
(***************************************************************************)
(* The WebSocket session of one node with the backend: the backend's       *)
(* stored configuration and its registry of connections (server.js), the   *)
(* firmware's telemetry task and its command dispatcher (api_client.c).    *)
(* Everything the backend keeps is keyed by the node's address, so nodes   *)
(* do not interact and one is enough.                                      *)
(*                                                                         *)
(* A node that loses its connection opens another one, and the backend may *)
(* see the end of the old one, and what was still under way on it, after   *)
(* the new one.  On each connection messages come in order.  Of a          *)
(* configuration only the volume is kept; triggers (beep, identify) carry  *)
(* the configuration with them.                                            *)
(***************************************************************************)
EXTENDS Integers, Sequences

CONSTANTS Volumes,            (* volumes that the users send, in 0 .. 100 or not  *)
          MaxConnections,     (* bound: connections the node opens                *)
          MaxChanges,         (* bound: configurations and triggers sent by users *)
          MaxUnderway,        (* bound: telemetry messages on one connection      *)
          MaxReboots,         (* bound: reboots of the node                       *)
          MaxBackendRestarts  (* bound: restarts of the backend                   *)

ASSUME SessionAssumption ==
  /\ Volumes \subseteq Nat
  /\ {MaxConnections, MaxUnderway} \subseteq Nat \ {0}
  /\ {MaxChanges, MaxReboots, MaxBackendRestarts} \subseteq Nat

Connections == 1 .. MaxConnections
None        == 0    (* no connection                                   *)
Absent      == -1   (* no entry in currentConfigs: the default applies *)

DefaultVolume == 1

VARIABLES
  stored,      (* backend: the volume in currentConfigs[node]                 *)
  registered,  (* backend: esp32Connections.get(node)                         *)
  status,      (* backend: the readyState of each connection, "new" if unused *)
  configSent,  (* backend: isConfigSent of each connection                    *)
  up,          (* what the backend has still to read of each connection       *)
  down,        (* what the node has still to read of each connection          *)
  client,      (* node: its connection, or None                               *)
  disconnects, (* node: consecutive_disconnects                               *)
  volume,      (* node: the volume that current_duty stands for               *)
  changes, reboots, restarts,  (* counters of the bounds                      *)
  announced    (* history: the connection that announced itself last          *)

backend  == <<stored, registered, status, configSent, announced, restarts>>
channels == <<up, down>>
node     == <<client, disconnects, volume, reboots>>
vars     == <<backend, channels, node, changes>>

Init ==
  /\ stored = Absent
  /\ registered = None
  /\ status = [c \in Connections |-> "new"]
  /\ configSent = [c \in Connections |-> FALSE]
  /\ up = [c \in Connections |-> <<>>]
  /\ down = [c \in Connections |-> <<>>]
  /\ client = None
  /\ disconnects = 0
  /\ volume = DefaultVolume
  /\ changes = 0 /\ reboots = 0 /\ restarts = 0
  /\ announced = None

-----------------------------------------------------------------------------
(* The node                                                                *)

(* The client library connects, and after a disconnect tries again.        *)
Connect ==
  /\ client = None
  /\ \E c \in Connections :
       /\ status[c] = "new"
       /\ \A d \in 1 .. c - 1 : status[d] # "new"
       /\ status' = [status EXCEPT ![c] = "open"]
       /\ client' = c
  /\ UNCHANGED <<stored, registered, configSent, announced, restarts, channels,
                 disconnects, volume, reboots, changes>>

(* The node's side of its connection is gone.  The backend still reads     *)
(* some of what was under way, and then the end of the stream.             *)
DropConnection ==
  /\ client' = None
  /\ \E n \in 0 .. Len(up[client]) :
       up' = [up EXCEPT ![client] =
                IF status[client] = "open" THEN Append(SubSeq(@, 1, n), "fin") ELSE <<>>]
  /\ down' = [down EXCEPT ![client] = <<>>]

Disconnect ==
  /\ client # None
  /\ DropConnection
  /\ UNCHANGED <<backend, disconnects, volume, reboots, changes>>

(* A pass of api_client_task() while connected.  A failing send stops and  *)
(* restarts the client.                                                    *)
SendTelemetry ==
  /\ client # None
  /\ disconnects' = 0
  /\ \/ /\ Len(up[client]) < MaxUnderway
        /\ up' = [up EXCEPT ![client] =
                    IF status[client] = "open" THEN Append(@, "telemetry") ELSE @]
        /\ UNCHANGED <<client, down>>
     \/ DropConnection
  /\ UNCHANGED <<backend, volume, reboots, changes>>

(* A pass while disconnected: the third in a row restarts the client, that *)
(* goes on trying to connect.                                              *)
CountDisconnect ==
  /\ client = None
  /\ disconnects' = IF disconnects + 1 >= 3 THEN 0 ELSE disconnects + 1
  /\ UNCHANGED <<backend, channels, client, volume, reboots, changes>>

IsValidVolume(v) == v \in 0 .. 100

(* Mutation: the upper end of the range is refused.                        *)
VolumeBelowMaximum(old, v) == IF v \in 0 .. 99 THEN v ELSE old

(* handle_buzzer_volume() of the dispatcher.                               *)
VolumeAfter(old, v) == IF IsValidVolume(v) THEN v ELSE old

ReceiveConfig ==
  /\ client # None
  /\ down[client] # <<>>
  /\ volume' = VolumeAfter(volume, Head(down[client]))
  /\ down' = [down EXCEPT ![client] = Tail(@)]
  /\ UNCHANGED <<backend, up, client, disconnects, reboots, changes>>

(* Power is lost, or an update was installed.                              *)
Reboot ==
  /\ reboots < MaxReboots
  /\ reboots' = reboots + 1
  /\ volume' = DefaultVolume
  /\ disconnects' = 0
  /\ IF client = None THEN UNCHANGED <<client, channels>> ELSE DropConnection
  /\ UNCHANGED <<backend, changes>>

-----------------------------------------------------------------------------
(* The backend: one callback at a time                                     *)

Config == IF stored = Absent THEN DefaultVolume ELSE stored

(* ws.send(): lost if the node has already given the connection up.        *)
SendTo(c, v) == down' = IF c = client THEN [down EXCEPT ![c] = Append(@, v)] ELSE down

(* A telemetry message.  The first one of a connection announces it: it    *)
(* replaces what was registered, and is sent the configuration.            *)
OnMessage(c) ==
  /\ status[c] = "open"
  /\ up[c] # <<>> /\ Head(up[c]) = "telemetry"
  /\ up' = [up EXCEPT ![c] = Tail(@)]
  /\ IF configSent[c] THEN UNCHANGED <<configSent, registered, announced, down>>
     ELSE /\ configSent' = [configSent EXCEPT ![c] = TRUE]
          /\ registered' = c
          /\ announced' = c
          /\ SendTo(c, Config)
  /\ UNCHANGED <<stored, status, restarts, node, changes>>

(* The end of the stream: the connection is closing ...                    *)
OnEnd(c) ==
  /\ status[c] = "open"
  /\ up[c] # <<>> /\ Head(up[c]) = "fin"
  /\ status' = [status EXCEPT ![c] = "closing"]
  /\ up' = [up EXCEPT ![c] = Tail(@)]
  /\ UNCHANGED <<stored, registered, configSent, announced, restarts, down, node, changes>>

(* Mutation: the entry goes with whichever connection closes.              *)
NoneLeft(c) == None

(* What the close of connection c leaves of the node's registration.       *)
RegisteredWithout(c) == IF registered = c THEN None ELSE registered

(* ... and its `close' event removes its own registration only.            *)
OnClose(c) ==
  /\ status[c] = "closing"
  /\ status' = [status EXCEPT ![c] = "closed"]
  /\ registered' = RegisteredWithout(c)
  /\ UNCHANGED <<stored, configSent, announced, restarts, channels, node, changes>>

(* To the registered connection, if it is open.                            *)
Push(v) ==
  IF registered # None /\ status[registered] = "open" THEN SendTo(registered, v)
  ELSE UNCHANGED down

CountChange == changes < MaxChanges /\ changes' = changes + 1

(* POST /config, and set_volume of the UI's WebSocket.                     *)
SetVolume(v) ==
  /\ CountChange
  /\ stored' = v
  /\ Push(v)
  /\ UNCHANGED <<registered, status, configSent, announced, restarts, up, node>>

(* Mutation: a trigger is sent with the default configuration.             *)
TriggerWithDefaults ==
  /\ CountChange
  /\ Push(DefaultVolume)
  /\ UNCHANGED <<backend, up, node>>

(* beep and identify of the UI's WebSocket: sent, and not stored.          *)
Trigger ==
  /\ CountChange
  /\ Push(Config)
  /\ UNCHANGED <<backend, up, node>>

(* The backend keeps everything in memory.                                 *)
RestartBackend ==
  /\ restarts < MaxBackendRestarts
  /\ restarts' = restarts + 1
  /\ stored' = Absent
  /\ registered' = None
  /\ announced' = None
  /\ status' = [c \in Connections |-> IF status[c] = "new" THEN "new" ELSE "closed"]
  /\ up' = [c \in Connections |-> <<>>]
  /\ UNCHANGED <<configSent, down, node, changes>>

Callback(c) == OnMessage(c) \/ OnEnd(c) \/ OnClose(c)

Next ==
  \/ Connect \/ Disconnect \/ SendTelemetry \/ CountDisconnect \/ ReceiveConfig \/ Reboot
  \/ \E c \in Connections : Callback(c)
  \/ \E v \in Volumes : SetVolume(v)
  \/ Trigger
  \/ RestartBackend

Spec == Init /\ [][Next]_vars

(* The node's client reads what arrives, and the backend's event loop runs *)
(* the callbacks of every connection.  That a connection comes about or    *)
(* lasts is not assumed.                                                   *)
FairSpec ==
  /\ Spec
  /\ WF_vars(ReceiveConfig)
  /\ \A c \in Connections : WF_vars(Callback(c))

-----------------------------------------------------------------------------
TypeOK ==
  /\ stored \in Volumes \cup {Absent}
  /\ {registered, client, announced} \subseteq Connections \cup {None}
  /\ status \in [Connections -> {"new", "open", "closing", "closed"}]
  /\ configSent \in [Connections -> BOOLEAN]
  /\ up \in [Connections -> Seq({"telemetry", "fin"})]
  /\ \A c \in Connections : Len(up[c]) <= MaxUnderway + 1
  /\ down \in [Connections -> Seq(Volumes \cup {DefaultVolume})]
  /\ disconnects \in 0 .. 2
  /\ IsValidVolume(volume)
  /\ changes \in 0 .. MaxChanges /\ reboots \in 0 .. MaxReboots
  /\ restarts \in 0 .. MaxBackendRestarts

(* The connection that announced itself last is the one the backend pushes *)
(* to until it closes: the late end of an older connection does not take a *)
(* newer one out of the registry.                                          *)
LastAnnouncedIsRegistered ==
  announced # None /\ status[announced] # "closed" => registered = announced

(* The registry holds no connection whose close was seen: nothing is left  *)
(* behind however connections overlap.                                     *)
NoClosedIsRegistered == registered # None => status[registered] \in {"open", "closing"}

(* v is the last volume the node can play at among its own and those under *)
(* way to it.                                                              *)
LastHeard(v) ==
  LET coming == down[client]
  IN  \/ volume = v /\ \A i \in DOMAIN coming : ~IsValidVolume(coming[i])
      \/ \E i \in DOMAIN coming :
           coming[i] = v /\ \A j \in DOMAIN coming : j > i => ~IsValidVolume(coming[j])

(* Once the node has read what is under way to it on its registered        *)
(* connection, it plays at the stored volume, after any sequence of        *)
(* changes, triggers, reconnects, reboots and restarts of the backend.     *)
NodeWillHaveConfig ==
  client # None /\ registered = client /\ IsValidVolume(Config) => LastHeard(Config)

(* A valid volume that is stored while the node's connection is registered *)
(* gets to the node, unless the connection or the volume changes first.    *)
VolumeIsApplied ==
  \A v \in Volumes \cap (0 .. 100) :
    (client # None /\ registered = client /\ stored = v)
      ~> (volume = v \/ stored # v \/ registered # client)

-----------------------------------------------------------------------------
(* API.md: a configuration update is pushed to the node.  So once the      *)
(* backend has read a message of the node's connection and has seen the    *)
(* close of every other one, that connection should be the registered one. *)
TalkingNodeIsRegistered ==
  (/\ client # None /\ configSent[client] /\ status[client] = "open"
   /\ \A c \in Connections \ {client} : status[c] \in {"new", "closed"})
    => registered = client
=============================================================================

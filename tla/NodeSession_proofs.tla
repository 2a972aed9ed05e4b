------------------------- MODULE NodeSession_proofs -------------------------
(***************************************************************************)
(* Proofs about the session of a node with the backend, for any number of  *)
(* connections, changes, reboots and restarts, and any set of volumes.     *)
(***************************************************************************)
EXTENDS NodeSession, SequenceTheorems, TLAPS

-----------------------------------------------------------------------------
(* The bound on what is under way is inductive only together with where a  *)
(* connection is in its life: nothing is under way on one that is not      *)
(* opened yet, and no end of stream on the one the node still uses.        *)
ConnectionLives ==
  /\ \A c \in Connections : status[c] = "new" => up[c] = <<>>
  /\ client # None => Len(up[client]) <= MaxUnderway

IInv ==
  /\ TypeOK
  /\ ConnectionLives
  /\ LastAnnouncedIsRegistered
  /\ NoClosedIsRegistered

LEMMA ConnectionFacts ==
  /\ Connections \subseteq Nat
  /\ None \notin Connections
  /\ MaxUnderway \in Nat /\ MaxUnderway > 0
  /\ MaxChanges \in Nat /\ MaxReboots \in Nat /\ MaxBackendRestarts \in Nat
  /\ Volumes \subseteq Nat
BY SessionAssumption DEF Connections, None

LEMMA InitInv == Init => IInv
<1> SUFFICES ASSUME Init PROVE IInv
  OBVIOUS
<1>1. <<>> \in Seq({"telemetry", "fin"}) /\ <<>> \in Seq(Volumes \cup {DefaultVolume})
      /\ Len(<<>>) = 0
  OBVIOUS
<1>2. TypeOK
  BY <1>1, ConnectionFacts DEF Init, TypeOK, IsValidVolume, DefaultVolume
<1>3. ConnectionLives
  BY DEF Init, ConnectionLives
<1> QED
  BY <1>2, <1>3 DEF Init, IInv, LastAnnouncedIsRegistered, NoClosedIsRegistered

-----------------------------------------------------------------------------
(* What the node's side of a connection leaves behind is of bounded length *)
(* and goes to the channel of that connection only.                        *)
LEMMA DropFacts ==
  ASSUME TypeOK, ConnectionLives, client # None, DropConnection
  PROVE  /\ client' = None
         /\ up' \in [Connections -> Seq({"telemetry", "fin"})]
         /\ \A c \in Connections : Len(up'[c]) <= MaxUnderway + 1
         /\ down' \in [Connections -> Seq(Volumes \cup {DefaultVolume})]
         /\ \A c \in Connections : status[c] = "new" => up'[c] = <<>>
<1> DEFINE Msgs == {"telemetry", "fin"}
<1>1. client \in Connections /\ up[client] \in Seq(Msgs) /\ Len(up[client]) <= MaxUnderway
  BY DEF TypeOK, ConnectionLives
<1>2. PICK n \in 0 .. Len(up[client]) :
        up' = [up EXCEPT ![client] =
                IF status[client] = "open" THEN Append(SubSeq(@, 1, n), "fin") ELSE <<>>]
  BY DEF DropConnection
<1>3. /\ SubSeq(up[client], 1, n) \in Seq(Msgs)
      /\ Len(SubSeq(up[client], 1, n)) = n
  BY <1>1
<1>4. /\ Append(SubSeq(up[client], 1, n), "fin") \in Seq(Msgs)
      /\ Len(Append(SubSeq(up[client], 1, n), "fin")) = n + 1
  BY <1>3
<1>5. <<>> \in Seq(Msgs) /\ Len(<<>>) = 0 /\ n \in Nat /\ n <= MaxUnderway
  BY <1>1, ConnectionFacts
<1>6. up'[client] \in Seq(Msgs) /\ Len(up'[client]) <= MaxUnderway + 1
  BY <1>1, <1>2, <1>4, <1>5, ConnectionFacts DEF TypeOK
<1>7. \A c \in Connections \ {client} : up'[c] = up[c]
  BY <1>2 DEF TypeOK
<1>8. up' \in [Connections -> Seq(Msgs)]
  BY <1>2, <1>6, <1>7 DEF TypeOK
<1>9. \A c \in Connections : Len(up'[c]) <= MaxUnderway + 1
  BY <1>6, <1>7 DEF TypeOK
<1>10. \A c \in Connections : status[c] = "new" => up'[c] = <<>>
  BY <1>1, <1>2, <1>7 DEF TypeOK, ConnectionLives
<1>11. down' \in [Connections -> Seq(Volumes \cup {DefaultVolume})]
  BY DEF DropConnection, TypeOK
<1> QED
  BY <1>8, <1>9, <1>10, <1>11 DEF DropConnection

(* What the backend sends is always a configuration it stores.             *)
LEMMA ConfigIsVolume ==
  ASSUME TypeOK
  PROVE  Config \in Volumes \cup {DefaultVolume}
BY DEF TypeOK, Config

LEMMA SendToFacts ==
  ASSUME TypeOK, NEW c \in Connections, NEW v \in Volumes \cup {DefaultVolume}, SendTo(c, v)
  PROVE  down' \in [Connections -> Seq(Volumes \cup {DefaultVolume})]
<1>1. Append(down[c], v) \in Seq(Volumes \cup {DefaultVolume})
  BY DEF TypeOK
<1> QED
  BY <1>1 DEF TypeOK, SendTo

LEMMA PushFacts ==
  ASSUME TypeOK, NEW v \in Volumes \cup {DefaultVolume}, Push(v)
  PROVE  down' \in [Connections -> Seq(Volumes \cup {DefaultVolume})]
<1>1. CASE registered # None /\ status[registered] = "open"
  BY <1>1, SendToFacts DEF Push, TypeOK
<1>2. CASE ~(registered # None /\ status[registered] = "open")
  BY <1>2 DEF Push, TypeOK
<1> QED
  BY <1>1, <1>2

(* A message or an end of stream is taken off the front of its channel.    *)
LEMMA ReadFacts ==
  ASSUME TypeOK, ConnectionLives, NEW c \in Connections, up[c] # <<>>,
         up' = [up EXCEPT ![c] = Tail(@)]
  PROVE  /\ up' \in [Connections -> Seq({"telemetry", "fin"})]
         /\ \A d \in Connections : Len(up'[d]) <= MaxUnderway + 1
         /\ client # None => Len(up'[client]) <= MaxUnderway
         /\ \A d \in Connections : status[d] = "new" => up'[d] = up[d]
<1>1. Tail(up[c]) \in Seq({"telemetry", "fin"}) /\ Len(Tail(up[c])) <= Len(up[c])
  BY DEF TypeOK
<1>2. \A d \in Connections : up'[d] = IF d = c THEN Tail(up[c]) ELSE up[d]
  BY DEF TypeOK
<1>3. \A d \in Connections : Len(up[d]) \in Nat
  BY DEF TypeOK
<1>4. \A d \in Connections : Len(up'[d]) <= Len(up[d]) /\ Len(up'[d]) \in Nat
  BY <1>1, <1>2, <1>3
<1>5. \A d \in Connections : Len(up'[d]) <= MaxUnderway + 1
  <2> TAKE d \in Connections
  <2>1. Len(up[d]) <= MaxUnderway + 1
    BY DEF TypeOK
  <2> QED
    BY <1>3, <1>4, <2>1, ConnectionFacts
<1>6. client # None => Len(up'[client]) <= MaxUnderway
  <2> SUFFICES ASSUME client # None PROVE Len(up'[client]) <= MaxUnderway
    OBVIOUS
  <2>1. client \in Connections /\ Len(up[client]) <= MaxUnderway
    BY DEF TypeOK, ConnectionLives
  <2> QED
    BY <1>3, <1>4, <2>1, ConnectionFacts
<1> QED
  BY <1>1, <1>2, <1>5, <1>6, ConnectionFacts DEF TypeOK, ConnectionLives

-----------------------------------------------------------------------------
(* Each step keeps the invariant.                                          *)

LEMMA NodeStepInv ==
  IInv /\ (Connect \/ Disconnect \/ SendTelemetry \/ CountDisconnect \/ ReceiveConfig \/ Reboot)
    => IInv'
<1> SUFFICES ASSUME IInv,
                    Connect \/ Disconnect \/ SendTelemetry \/ CountDisconnect
                      \/ ReceiveConfig \/ Reboot
             PROVE  IInv'
  OBVIOUS
<1> USE ConnectionFacts DEF IInv
<1>1. CASE Connect
  <2>1. PICK c \in Connections : /\ status[c] = "new"
                                 /\ status' = [status EXCEPT ![c] = "open"]
                                 /\ client' = c
    BY <1>1 DEF Connect
  <2>2. TypeOK'
    BY <1>1, <2>1 DEF Connect, TypeOK, channels
  <2>3. ConnectionLives'
    BY <1>1, <2>1 DEF Connect, ConnectionLives, TypeOK, channels
  <2>4. LastAnnouncedIsRegistered'
    BY <1>1, <2>1 DEF Connect, LastAnnouncedIsRegistered, TypeOK
  <2>5. NoClosedIsRegistered'
    BY <1>1, <2>1 DEF Connect, NoClosedIsRegistered, TypeOK
  <2> QED
    BY <2>2, <2>3, <2>4, <2>5
<1>2. ASSUME client # None, DropConnection, UNCHANGED backend,
             volume' \in 0 .. 100, disconnects' \in 0 .. 2,
             changes' \in 0 .. MaxChanges, reboots' \in 0 .. MaxReboots
      PROVE  IInv'
  <2>1. TypeOK'
    BY <1>2, DropFacts DEF TypeOK, backend, IsValidVolume
  <2>2. ConnectionLives'
    BY <1>2, DropFacts DEF ConnectionLives, backend
  <2> QED
    BY <1>2, <2>1, <2>2 DEF backend, LastAnnouncedIsRegistered, NoClosedIsRegistered
<1>3. CASE Disconnect
  BY <1>2, <1>3 DEF Disconnect, TypeOK, IsValidVolume
<1>4. CASE SendTelemetry
  <2>1. CASE DropConnection
    BY <1>2, <1>4, <2>1 DEF SendTelemetry, TypeOK, IsValidVolume
  <2>2. CASE /\ Len(up[client]) < MaxUnderway
             /\ up' = [up EXCEPT ![client] =
                         IF status[client] = "open" THEN Append(@, "telemetry") ELSE @]
             /\ UNCHANGED <<client, down>>
    <3>1. client \in Connections /\ up[client] \in Seq({"telemetry", "fin"})
      BY <1>4 DEF SendTelemetry, TypeOK
    <3>2. /\ Append(up[client], "telemetry") \in Seq({"telemetry", "fin"})
          /\ Len(Append(up[client], "telemetry")) = Len(up[client]) + 1
          /\ Len(up[client]) \in Nat
      BY <3>1
    <3>3. up'[client] \in Seq({"telemetry", "fin"}) /\ Len(up'[client]) <= MaxUnderway
      BY <2>2, <3>1, <3>2 DEF TypeOK
    <3>4. \A c \in Connections \ {client} : up'[c] = up[c]
      BY <2>2 DEF TypeOK
    <3>5. up' \in [Connections -> Seq({"telemetry", "fin"})]
      BY <2>2, <3>3, <3>4 DEF TypeOK
    <3>6. \A c \in Connections : Len(up'[c]) <= MaxUnderway + 1
      <4>1. Len(up'[client]) \in Nat
        BY <3>3
      <4> QED
        BY <3>3, <3>4, <4>1 DEF TypeOK
    <3>7. status[client] = "new" => up'[client] = <<>>
      BY <2>2, <3>1 DEF TypeOK, ConnectionLives
    <3>8. TypeOK'
      BY <1>4, <2>2, <3>5, <3>6 DEF SendTelemetry, TypeOK, backend
    <3>9. ConnectionLives'
      BY <1>4, <2>2, <3>3, <3>4, <3>7 DEF SendTelemetry, ConnectionLives, backend
    <3> QED
      BY <1>4, <3>8, <3>9
         DEF SendTelemetry, backend, LastAnnouncedIsRegistered, NoClosedIsRegistered
  <2> QED
    BY <1>4, <2>1, <2>2 DEF SendTelemetry
<1>5. CASE CountDisconnect
  <2>1. disconnects' \in 0 .. 2
    BY <1>5 DEF CountDisconnect, TypeOK
  <2>2. TypeOK'
    BY <1>5, <2>1 DEF CountDisconnect, TypeOK, backend, channels
  <2> QED
    BY <1>5, <2>2 DEF CountDisconnect, backend, channels, ConnectionLives,
                      LastAnnouncedIsRegistered, NoClosedIsRegistered
<1>6. CASE ReceiveConfig
  <2>1. client \in Connections /\ down[client] \in Seq(Volumes \cup {DefaultVolume})
    BY <1>6 DEF ReceiveConfig, TypeOK
  <2>2. Tail(down[client]) \in Seq(Volumes \cup {DefaultVolume})
    BY <1>6, <2>1 DEF ReceiveConfig
  <2>3. down' \in [Connections -> Seq(Volumes \cup {DefaultVolume})]
    BY <1>6, <2>1, <2>2 DEF ReceiveConfig, TypeOK
  <2>4. IsValidVolume(volume')
    BY <1>6 DEF ReceiveConfig, VolumeAfter, TypeOK
  <2>5. TypeOK'
    BY <1>6, <2>3, <2>4 DEF ReceiveConfig, TypeOK, backend, IsValidVolume
  <2> QED
    BY <1>6, <2>5 DEF ReceiveConfig, backend, ConnectionLives,
                      LastAnnouncedIsRegistered, NoClosedIsRegistered
<1>7. CASE Reboot
  <2>1. /\ volume' \in 0 .. 100 /\ disconnects' \in 0 .. 2 /\ changes' \in 0 .. MaxChanges
        /\ reboots' \in 0 .. MaxReboots /\ UNCHANGED backend
    BY <1>7 DEF Reboot, TypeOK, DefaultVolume
  <2>2. CASE client # None
    BY <1>2, <1>7, <2>1, <2>2 DEF Reboot
  <2>3. CASE client = None
    <3>1. TypeOK'
      BY <1>7, <2>1, <2>3 DEF Reboot, TypeOK, backend, channels, IsValidVolume
    <3> QED
      BY <1>7, <2>1, <2>3, <3>1 DEF Reboot, backend, channels, ConnectionLives,
                                    LastAnnouncedIsRegistered, NoClosedIsRegistered
  <2> QED
    BY <2>2, <2>3
<1> QED
  BY <1>1, <1>3, <1>4, <1>5, <1>6, <1>7

LEMMA CallbackInv ==
  ASSUME IInv, NEW c \in Connections, Callback(c)
  PROVE  IInv'
<1> USE ConnectionFacts DEF IInv
<1>1. CASE OnMessage(c)
  <2>1. /\ up' \in [Connections -> Seq({"telemetry", "fin"})]
        /\ \A d \in Connections : Len(up'[d]) <= MaxUnderway + 1
        /\ client # None => Len(up'[client]) <= MaxUnderway
        /\ \A d \in Connections : status[d] = "new" => up'[d] = up[d]
    BY <1>1, ReadFacts DEF OnMessage
  <2>2. down' \in [Connections -> Seq(Volumes \cup {DefaultVolume})]
    BY <1>1, SendToFacts, ConfigIsVolume DEF OnMessage, TypeOK
  <2>3. TypeOK'
    <3>1. /\ {registered', announced'} \subseteq Connections \cup {None}
          /\ configSent' \in [Connections -> BOOLEAN]
      BY <1>1 DEF OnMessage, TypeOK
    <3>2. UNCHANGED <<stored, status, restarts, client, disconnects, volume, reboots, changes>>
      BY <1>1 DEF OnMessage, node
    <3> QED
      BY <2>1, <2>2, <3>1, <3>2 DEF TypeOK, IsValidVolume
  <2>4. ConnectionLives'
    BY <1>1, <2>1 DEF OnMessage, ConnectionLives, node
  <2>5. LastAnnouncedIsRegistered' /\ NoClosedIsRegistered'
    BY <1>1 DEF OnMessage, LastAnnouncedIsRegistered, NoClosedIsRegistered
  <2> QED
    BY <2>3, <2>4, <2>5
<1>2. CASE OnEnd(c)
  <2>1. /\ up' \in [Connections -> Seq({"telemetry", "fin"})]
        /\ \A d \in Connections : Len(up'[d]) <= MaxUnderway + 1
        /\ client # None => Len(up'[client]) <= MaxUnderway
        /\ \A d \in Connections : status[d] = "new" => up'[d] = up[d]
    BY <1>2, ReadFacts DEF OnEnd
  <2>2. \A d \in Connections : status'[d] = IF d = c THEN "closing" ELSE status[d]
    BY <1>2 DEF OnEnd, TypeOK
  <2>3. TypeOK'
    BY <1>2, <2>1 DEF OnEnd, TypeOK, node
  <2>4. ConnectionLives'
    BY <1>2, <2>1, <2>2 DEF OnEnd, ConnectionLives, node
  <2>5. LastAnnouncedIsRegistered'
    BY <1>2, <2>2 DEF OnEnd, LastAnnouncedIsRegistered, TypeOK
  <2>6. NoClosedIsRegistered'
    BY <1>2, <2>2 DEF OnEnd, NoClosedIsRegistered, TypeOK
  <2> QED
    BY <2>3, <2>4, <2>5, <2>6
<1>3. CASE OnClose(c)
  <2>1. \A d \in Connections : status'[d] = IF d = c THEN "closed" ELSE status[d]
    BY <1>3 DEF OnClose, RegisteredWithout, TypeOK
  <2>2. TypeOK'
    BY <1>3 DEF OnClose, RegisteredWithout, TypeOK, node, channels
  <2>3. ConnectionLives'
    BY <1>3, <2>1 DEF OnClose, RegisteredWithout, ConnectionLives, node, channels
  <2>4. LastAnnouncedIsRegistered'
    BY <1>3, <2>1 DEF OnClose, RegisteredWithout, LastAnnouncedIsRegistered, TypeOK
  <2>5. NoClosedIsRegistered'
    BY <1>3, <2>1 DEF OnClose, RegisteredWithout, NoClosedIsRegistered, TypeOK
  <2> QED
    BY <2>2, <2>3, <2>4, <2>5
<1> QED
  BY <1>1, <1>2, <1>3 DEF Callback

LEMMA UserStepInv ==
  IInv /\ ((\E v \in Volumes : SetVolume(v)) \/ Trigger \/ RestartBackend) => IInv'
<1> SUFFICES ASSUME IInv, (\E v \in Volumes : SetVolume(v)) \/ Trigger \/ RestartBackend
             PROVE  IInv'
  OBVIOUS
<1> USE ConnectionFacts DEF IInv
<1>1. ASSUME NEW v \in Volumes, SetVolume(v)
      PROVE  IInv'
  <2>1. down' \in [Connections -> Seq(Volumes \cup {DefaultVolume})]
    BY <1>1, PushFacts DEF SetVolume
  <2>2. changes' \in 0 .. MaxChanges
    BY <1>1 DEF SetVolume, CountChange, TypeOK
  <2>3. TypeOK'
    BY <1>1, <2>1, <2>2 DEF SetVolume, TypeOK, node
  <2> QED
    BY <1>1, <2>3 DEF SetVolume, node, ConnectionLives, LastAnnouncedIsRegistered,
                      NoClosedIsRegistered
<1>2. CASE Trigger
  <2>1. down' \in [Connections -> Seq(Volumes \cup {DefaultVolume})]
    BY <1>2, PushFacts, ConfigIsVolume DEF Trigger
  <2>2. changes' \in 0 .. MaxChanges
    BY <1>2 DEF Trigger, CountChange, TypeOK
  <2>3. TypeOK'
    BY <1>2, <2>1, <2>2 DEF Trigger, TypeOK, backend, node
  <2> QED
    BY <1>2, <2>3 DEF Trigger, backend, node, ConnectionLives, LastAnnouncedIsRegistered,
                      NoClosedIsRegistered
<1>3. CASE RestartBackend
  <2>1. <<>> \in Seq({"telemetry", "fin"}) /\ Len(<<>>) = 0
    OBVIOUS
  <2>2. TypeOK'
    BY <1>3, <2>1 DEF RestartBackend, TypeOK, node
  <2>3. ConnectionLives'
    BY <1>3, <2>1 DEF RestartBackend, ConnectionLives, TypeOK, node
  <2> QED
    BY <1>3, <2>2, <2>3 DEF RestartBackend, LastAnnouncedIsRegistered, NoClosedIsRegistered
<1> QED
  BY <1>1, <1>2, <1>3

-----------------------------------------------------------------------------
THEOREM Invariance == Spec => []IInv
<1>1. IInv /\ [Next]_vars => IInv'
  <2>1. IInv /\ UNCHANGED vars => IInv'
    BY DEF vars, backend, channels, node, IInv, TypeOK, ConnectionLives, IsValidVolume,
           LastAnnouncedIsRegistered, NoClosedIsRegistered
  <2> QED
    BY <2>1, NodeStepInv, CallbackInv, UserStepInv DEF Next
<1> QED
  BY <1>1, InitInv, PTL DEF Spec

(* What is under way stays bounded, and the node's volume stays playable   *)
(* whatever the backend sends it (handle_buzzer_volume).                   *)
THEOREM TypeCorrect == Spec => []TypeOK
<1>1. IInv => TypeOK
  BY DEF IInv
<1> QED
  BY <1>1, Invariance, PTL

(* The late close of an old connection never unregisters a newer one: the  *)
(* identity test of the backend's `close' handler suffices.                *)
THEOREM LateCloseIsHarmless == Spec => []LastAnnouncedIsRegistered
<1>1. IInv => LastAnnouncedIsRegistered
  BY DEF IInv
<1> QED
  BY <1>1, Invariance, PTL

(* No closed connection is left in esp32Connections.                       *)
THEOREM RegistryIsLive == Spec => []NoClosedIsRegistered
<1>1. IInv => NoClosedIsRegistered
  BY DEF IInv
<1> QED
  BY <1>1, Invariance, PTL

-----------------------------------------------------------------------------
(* The node's volume and its registration.  That the last volume under way *)
(* is the stored one is inductive once the backend is known not to close a *)
(* connection that the node still uses: a registered one is then open, and *)
(* what is stored is pushed to it.                                         *)

ClientUses ==
  client # None =>
    /\ status[client] \in {"open", "closed"}
    /\ \A i \in DOMAIN up[client] : up[client][i] = "telemetry"

(* One more message under way.                                             *)
LEMMA AppendHeard ==
  ASSUME TypeOK, client # None, client' = client, NEW w \in Volumes \cup {DefaultVolume},
         down'[client] = Append(down[client], w), IsValidVolume(w)
  PROVE  LastHeard(w)'
<1> DEFINE s == down[client]
           k == Len(s) + 1
<1>1. s \in Seq(Volumes \cup {DefaultVolume})
  BY DEF TypeOK
<1>2. /\ Append(s, w) \in Seq(Volumes \cup {DefaultVolume})
      /\ Len(Append(s, w)) = k /\ Append(s, w)[k] = w
  BY <1>1, AppendProperties
<1>3. DOMAIN Append(s, w) = 1 .. k /\ k \in 1 .. k /\ \A j \in 1 .. k : ~(j > k)
  BY <1>1, <1>2
<1>4. down'[client'] = Append(s, w)
  OBVIOUS
<1> HIDE DEF s, k
<1> QED
  BY <1>2, <1>3, <1>4 DEF LastHeard

(* The node reads the next one.                                            *)
LEMMA ReadHeard ==
  ASSUME TypeOK, ReceiveConfig, NEW v, IsValidVolume(v), LastHeard(v)
  PROVE  LastHeard(v)'
<1> DEFINE s == down[client]
           r == Tail(s)
<1>1. /\ client # None /\ s # <<>> /\ client \in Connections /\ client' = client
      /\ volume' = VolumeAfter(volume, Head(s))
      /\ down' = [down EXCEPT ![client] = Tail(@)]
      /\ s \in Seq(Volumes \cup {DefaultVolume})
  BY DEF ReceiveConfig, TypeOK
<1>2. down'[client'] = r
  BY <1>1 DEF TypeOK
<1>3. /\ Head(s) = s[1] /\ Len(s) \in Nat /\ Len(s) > 0 /\ DOMAIN s = 1 .. Len(s)
      /\ Len(r) = Len(s) - 1 /\ r \in Seq(Volumes \cup {DefaultVolume})
      /\ \A i \in 1 .. Len(r) : r[i] = s[i + 1]
  BY <1>1, HeadTailProperties
<1>4. /\ DOMAIN r = 1 .. Len(s) - 1
      /\ \A i \in DOMAIN r : i + 1 \in DOMAIN s /\ r[i] = s[i + 1]
      /\ 1 \in DOMAIN s
  BY <1>3
<1>5. \/ volume = v /\ \A i \in DOMAIN s : ~IsValidVolume(s[i])
      \/ \E i \in DOMAIN s : s[i] = v /\ \A j \in DOMAIN s : j > i => ~IsValidVolume(s[j])
  BY DEF LastHeard
<1>6. SUFFICES
        \/ volume' = v /\ \A i \in DOMAIN r : ~IsValidVolume(r[i])
        \/ \E i \in DOMAIN r : r[i] = v /\ \A j \in DOMAIN r : j > i => ~IsValidVolume(r[j])
  <2> HIDE DEF r
  <2> QED
    BY <1>2, Zenon DEF LastHeard, IsValidVolume
<1> HIDE DEF s, r
<1>7. CASE volume = v /\ \A i \in DOMAIN s : ~IsValidVolume(s[i])
  BY <1>1, <1>3, <1>4, <1>7 DEF VolumeAfter
<1>8. ASSUME NEW i \in DOMAIN s, s[i] = v, \A j \in DOMAIN s : j > i => ~IsValidVolume(s[j])
      PROVE  \/ volume' = v /\ \A k \in DOMAIN r : ~IsValidVolume(r[k])
             \/ \E k \in DOMAIN r :
                  r[k] = v /\ \A j \in DOMAIN r : j > k => ~IsValidVolume(r[j])
  <2>1. CASE i = 1
    <3>1. volume' = v
      BY <1>1, <1>3, <1>8, <2>1 DEF VolumeAfter
    <3>2. \A k \in DOMAIN r : k + 1 > 1
      BY <1>4, <1>3
    <3> QED
      BY <1>4, <1>8, <2>1, <3>1, <3>2
  <2>2. CASE i # 1
    <3>1. i - 1 \in DOMAIN r /\ (i - 1) + 1 = i
      BY <1>3, <1>4, <2>2
    <3>2. r[i - 1] = v
      BY <1>4, <1>8, <3>1
    <3>3. \A j \in DOMAIN r : j > i - 1 => j + 1 > i
      BY <1>3, <1>4
    <3>4. \A j \in DOMAIN r : j > i - 1 => ~IsValidVolume(r[j])
      BY <1>4, <1>8, <3>3
    <3> QED
      BY <3>1, <3>2, <3>4
  <2> QED
    BY <2>1, <2>2
<1> QED
  BY <1>5, <1>7, <1>8

(* The backend does not close a connection before the node gave it up.     *)
LEMMA NextClientUses == IInv /\ ClientUses /\ [Next]_vars => ClientUses'
<1> SUFFICES ASSUME IInv, ClientUses, [Next]_vars PROVE ClientUses'
  OBVIOUS
<1>0. TypeOK /\ ConnectionLives /\ (client # None => client \in Connections)
  BY DEF IInv, TypeOK
<1>1. CASE Connect
  BY <1>0, <1>1, ConnectionFacts DEF Connect, ClientUses, ConnectionLives, TypeOK, channels
<1>2. ASSUME DropConnection PROVE ClientUses'
  BY <1>2 DEF DropConnection, ClientUses
<1>3. CASE SendTelemetry
  <2>1. CASE /\ up' = [up EXCEPT ![client] =
                         IF status[client] = "open" THEN Append(@, "telemetry") ELSE @]
             /\ client' = client
    <3>1. /\ client # None /\ client \in Connections /\ status' = status
          /\ up[client] \in Seq({"telemetry", "fin"})
      BY <1>0, <1>3 DEF SendTelemetry, backend, TypeOK
    <3>2. up'[client] = up[client] \/ up'[client] = Append(up[client], "telemetry")
      BY <1>0, <2>1, <3>1 DEF TypeOK
    <3>3. \A i \in DOMAIN up'[client] : up'[client][i] = "telemetry"
      <4>1. CASE up'[client] = up[client]
        BY <3>1, <4>1 DEF ClientUses
      <4>2. CASE up'[client] = Append(up[client], "telemetry")
        <5>1. /\ Len(Append(up[client], "telemetry")) = Len(up[client]) + 1
              /\ \A i \in 1 .. Len(up[client]) :
                   Append(up[client], "telemetry")[i] = up[client][i]
              /\ Append(up[client], "telemetry")[Len(up[client]) + 1] = "telemetry"
              /\ Append(up[client], "telemetry") \in Seq({"telemetry", "fin"})
          BY <3>1, AppendProperties
        <5>2. \A i \in 1 .. Len(up[client]) : up[client][i] = "telemetry"
          BY <3>1 DEF ClientUses
        <5>3. /\ DOMAIN Append(up[client], "telemetry") = 1 .. Len(up[client]) + 1
              /\ \A i \in 1 .. Len(up[client]) + 1 :
                   i \in 1 .. Len(up[client]) \/ i = Len(up[client]) + 1
          BY <3>1, <5>1
        <5> QED
          BY <4>2, <5>1, <5>2, <5>3
      <4> QED
        BY <3>2, <4>1, <4>2
    <3> QED
      BY <2>1, <3>1, <3>3 DEF ClientUses
  <2> QED
    BY <1>2, <1>3, <2>1 DEF SendTelemetry
<1>4. CASE Disconnect \/ Reboot
  BY <1>2, <1>4 DEF Disconnect, Reboot, backend, channels, ClientUses
<1>5. CASE CountDisconnect
  BY <1>5 DEF CountDisconnect, ClientUses
<1>6. CASE ReceiveConfig
  BY <1>6 DEF ReceiveConfig, ClientUses, backend
<1>7. ASSUME NEW c \in Connections, OnMessage(c) PROVE ClientUses'
  <2> SUFFICES ASSUME client # None
               PROVE  \A i \in DOMAIN up'[client] : up'[client][i] = "telemetry"
    BY <1>7 DEF OnMessage, ClientUses, node
  <2>1. up[client] \in Seq({"telemetry", "fin"}) /\ client \in Connections
    BY <1>0 DEF TypeOK
  <2>2. CASE c = client
    <3>1. up'[client] = Tail(up[client]) /\ up[client] # <<>>
      BY <1>0, <1>7, <2>1, <2>2 DEF OnMessage, TypeOK
    <3>2. /\ Len(Tail(up[client])) = Len(up[client]) - 1 /\ Len(up[client]) \in Nat
          /\ \A i \in 1 .. Len(Tail(up[client])) : Tail(up[client])[i] = up[client][i + 1]
          /\ DOMAIN Tail(up[client]) = 1 .. Len(Tail(up[client]))
          /\ DOMAIN up[client] = 1 .. Len(up[client])
      BY <2>1, <3>1, HeadTailProperties
    <3>3. \A i \in DOMAIN Tail(up[client]) : i + 1 \in DOMAIN up[client]
      BY <3>2
    <3> QED
      BY <3>1, <3>2, <3>3 DEF ClientUses
  <2>3. CASE c # client
    BY <1>0, <1>7, <2>1, <2>3 DEF OnMessage, TypeOK, ClientUses
  <2> QED
    BY <2>2, <2>3
<1>8. ASSUME NEW c \in Connections, OnEnd(c) PROVE ClientUses'
  <2>1. c # client
    <3> SUFFICES ASSUME c = client PROVE FALSE
      OBVIOUS
    <3>1. /\ up[client] # <<>> /\ Head(up[client]) = "fin"
          /\ up[client] \in Seq({"telemetry", "fin"}) /\ client # None
      BY <1>0, <1>8, ConnectionFacts DEF OnEnd, TypeOK
    <3>2. Head(up[client]) = up[client][1] /\ 1 \in DOMAIN up[client]
      BY <3>1
    <3> QED
      BY <3>1, <3>2 DEF ClientUses
  <2> QED
    BY <1>0, <1>8, <2>1 DEF OnEnd, ClientUses, TypeOK, node
<1>9. ASSUME NEW c \in Connections, OnClose(c) PROVE ClientUses'
  BY <1>0, <1>9 DEF OnClose, ClientUses, TypeOK, node, channels
<1>10. ASSUME NEW v \in Volumes, SetVolume(v) PROVE ClientUses'
  BY <1>10 DEF SetVolume, ClientUses, node
<1>11. CASE Trigger
  BY <1>11 DEF Trigger, ClientUses, node, backend
<1>12. CASE RestartBackend
  BY <1>0, <1>12 DEF RestartBackend, ClientUses, node
<1>13. CASE UNCHANGED vars
  BY <1>13 DEF vars, backend, channels, node, ClientUses
<1> QED
  BY <1>1, <1>3, <1>4, <1>5, <1>6, <1>7, <1>8, <1>9, <1>10, <1>11, <1>12, <1>13
     DEF Next, Callback

(* What is stored reaches the node's channel when it is sent.              *)
LEMMA RegisteredHears ==
  ASSUME IInv, ClientUses, client # None, registered = client, client' = client,
         NEW w \in Volumes \cup {DefaultVolume}, Push(w), IsValidVolume(w)
  PROVE  LastHeard(w)'
<1>1. client \in Connections /\ status[client] = "open" /\ TypeOK
  BY DEF IInv, TypeOK, NoClosedIsRegistered, ClientUses
<1>2. down'[client] = Append(down[client], w)
  BY <1>1 DEF Push, SendTo, TypeOK
<1> QED
  BY <1>1, <1>2, AppendHeard

(* Every step keeps the last volume under way the stored one.              *)
LEMMA NextWillHaveConfig ==
  IInv /\ ClientUses /\ NodeWillHaveConfig /\ [Next]_vars => NodeWillHaveConfig'
<1> SUFFICES ASSUME IInv, ClientUses, NodeWillHaveConfig, [Next]_vars,
                    client' # None, registered' = client', IsValidVolume(Config)'
             PROVE  LastHeard(Config)'
  BY DEF NodeWillHaveConfig
<1>0. TypeOK /\ NoClosedIsRegistered /\ Config \in Volumes \cup {DefaultVolume}
  BY ConfigIsVolume DEF IInv
<1> PICK w : w = Config'
  OBVIOUS
<1>v. IsValidVolume(w)
  BY DEF IsValidVolume
<1> SUFFICES LastHeard(w)'
  BY DEF LastHeard
<1>1. ASSUME UNCHANGED <<down, client, volume, stored>>, registered' # None => registered' = registered
      PROVE  LastHeard(w)'
  <2>1. registered = client /\ client # None /\ w = Config
    BY <1>1 DEF Config
  <2>2. LastHeard(w)
    BY <2>1, <1>v DEF NodeWillHaveConfig
  <2> QED
    BY <1>1, <2>2 DEF LastHeard
<1>2. CASE Connect
  BY <1>0, <1>2 DEF Connect, NoClosedIsRegistered
<1>3. CASE Disconnect \/ SendTelemetry \/ Reboot
  BY <1>1, <1>3 DEF Disconnect, SendTelemetry, Reboot, DropConnection, backend, channels
<1>4. CASE CountDisconnect
  BY <1>1, <1>4 DEF CountDisconnect, backend, channels
<1>5. CASE ReceiveConfig
  <2>1. client' = client /\ registered' = registered /\ w = Config /\ client # None
    BY <1>5 DEF ReceiveConfig, backend, Config
  <2>2. LastHeard(w)
    BY <2>1, <1>v DEF NodeWillHaveConfig
  <2> QED
    BY <1>0, <1>5, <1>v, <2>2, ReadHeard
<1>6. ASSUME NEW c \in Connections, OnMessage(c) PROVE LastHeard(w)'
  <2>1. UNCHANGED <<client, volume, stored>> /\ w = Config
    BY <1>6 DEF OnMessage, node, Config
  <2>2. CASE configSent[c]
    BY <1>1, <1>6, <2>1, <2>2 DEF OnMessage
  <2>3. CASE ~configSent[c]
    <3>1. registered' = c /\ c = client /\ SendTo(c, w)
      BY <1>6, <2>1, <2>3 DEF OnMessage, SendTo
    <3>2. down'[client] = Append(down[client], w) /\ client # None
      BY <1>0, <2>1, <3>1 DEF SendTo, TypeOK
    <3> QED
      BY <1>0, <1>v, <2>1, <3>2, AppendHeard
  <2> QED
    BY <2>2, <2>3
<1>7. ASSUME NEW c \in Connections, OnEnd(c) PROVE LastHeard(w)'
  BY <1>1, <1>7 DEF OnEnd, node
<1>8. ASSUME NEW c \in Connections, OnClose(c) PROVE LastHeard(w)'
  BY <1>1, <1>8 DEF OnClose, RegisteredWithout, node, channels
<1>9. ASSUME NEW v \in Volumes, SetVolume(v) PROVE LastHeard(w)'
  <2>1. UNCHANGED <<registered, client, volume>> /\ stored' = v /\ Push(v) /\ client # None
    BY <1>9 DEF SetVolume, node
  <2>2. w = v
    BY <2>1, ConnectionFacts DEF Config, Absent
  <2> QED
    BY <1>v, <2>1, <2>2, RegisteredHears
<1>10. CASE Trigger
  <2>1. registered' = registered /\ client' = client /\ stored' = stored /\ client # None
    BY <1>10, Zenon DEF Trigger, node, backend
  <2>2. w = Config
    BY <2>1 DEF Config
  <2>3. Push(w)
    BY <1>10, <2>2 DEF Trigger, Push, SendTo
  <2> QED
    BY <1>0, <1>v, <2>1, <2>2, <2>3, RegisteredHears
<1>11. CASE RestartBackend
  BY <1>11 DEF RestartBackend
<1>12. CASE UNCHANGED vars
  <2>1. /\ down' = down /\ client' = client /\ volume' = volume
        /\ stored' = stored /\ registered' = registered
    BY <1>12, Zenon DEF vars, backend, channels, node
  <2> QED
    BY <1>1, <2>1
<1> QED
  BY <1>2, <1>3, <1>4, <1>5, <1>6, <1>7, <1>8, <1>9, <1>10, <1>11, <1>12 DEF Next, Callback

(* The configuration that was stored last, however it got there, is what   *)
(* the node will play at: no trigger, reconnect, reboot or restart leaves  *)
(* another one behind it on the registered connection.                     *)
THEOREM NodeGetsItsConfig == Spec => []NodeWillHaveConfig
<1>1. Init => ClientUses /\ NodeWillHaveConfig
  BY DEF Init, ClientUses, NodeWillHaveConfig
<1> QED
  BY <1>1, NextClientUses, NextWillHaveConfig, Invariance, PTL DEF Spec
=============================================================================

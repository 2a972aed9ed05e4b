---------------------- MODULE SimulationControl_proofs ----------------------
(***************************************************************************)
(* Proofs about toggles and node configurations, for any number of clicks, *)
(* loads of the page, saves, failures, losses and restarts.                *)
(***************************************************************************)
EXTENDS SimulationControl, SequenceTheorems, TLAPS

-----------------------------------------------------------------------------
(* Types.                                                                  *)

Requests == [Toggles -> {"new", "sent", "handled", "over"}]
Forwards == [Toggles -> {"new", "sent", "handled", "orphaned", "over"}]
Statuses == [Fetches -> {"sent", "on", "off", "over"}]

Flags ==
  /\ simulationActive \in BOOLEAN /\ isSimulationActive \in BOOLEAN /\ active \in BOOLEAN
  /\ up \in BOOLEAN /\ disturbed \in BOOLEAN /\ saved \in BOOLEAN /\ missed \in BOOLEAN

Bounds ==
  /\ loads \in 0 .. MaxLoads /\ saves \in 0 .. MaxSaves
  /\ failures \in 0 .. MaxFailures /\ losses \in 0 .. MaxLosses

(* The types of the requests, and those of the configurations.             *)
LegTypes ==
  /\ mine \subseteq Toggles
  /\ status \in Statuses
  /\ want \in [Toggles -> BOOLEAN]
  /\ request \in Requests /\ forward \in Forwards

ConfigTypes ==
  /\ currentNodesConfig \in Configs
  /\ datagrams \in Seq(Configs)
  /\ pipeline \in Configs /\ Readable(pipeline)

Types == Flags /\ Bounds /\ LegTypes /\ ConfigTypes

(* A step of one request keeps the function one.                           *)
LEMMA RequestStep ==
  ASSUME NEW leg \in Requests, NEW t \in Toggles, NEW s \in {"sent", "handled", "over"}
  PROVE  [leg EXCEPT ![t] = s] \in Requests
BY DEF Requests

LEMMA ForwardStep ==
  ASSUME NEW leg \in Forwards, NEW t \in Toggles, NEW s \in {"sent", "handled", "over"}
  PROVE  [leg EXCEPT ![t] = s] \in Forwards
BY DEF Forwards

LEMMA StatusOfOne ==
  ASSUME NEW leg \in Statuses, NEW f \in Fetches, NEW s \in {"on", "off", "over"}
  PROVE  [leg EXCEPT ![f] = s] \in Statuses
BY DEF Statuses

LEMMA NamesAreConfigs ==
  /\ NoNodes \in Configs /\ SimulationNodes \in Configs
  /\ Readable(NoNodes) /\ Readable(SimulationNodes)
  /\ \A c \in UserConfigs : c \in Configs
BY ControlAssumption DEF Configs, Readable

LEMMA FailCounts ==
  ASSUME Bounds, Fail
  PROVE  failures' \in 0 .. MaxFailures /\ disturbed' = TRUE
BY ControlAssumption DEF Fail, Bounds

LEMMA LoseCounts ==
  ASSUME Bounds, Lose
  PROVE  losses' \in 0 .. MaxLosses
BY ControlAssumption DEF Lose, Bounds

(* A configuration is set: it is the last one under way, or lost.          *)
LEMMA ConfigIsQueued ==
  ASSUME ConfigTypes, up \in BOOLEAN, NEW c \in Configs, SetNodesConfig(c)
  PROVE  /\ currentNodesConfig' = c /\ ConfigTypes'
         /\ missed' = ~up /\ missed' \in BOOLEAN /\ UNCHANGED up
         /\ up => Len(datagrams') \in Nat \ {0} /\ datagrams'[Len(datagrams')] = c
<1>1. /\ currentNodesConfig' = c /\ UNCHANGED <<up, pipeline>> /\ missed' = ~up
      /\ datagrams' = IF up THEN Append(datagrams, c) ELSE datagrams
  BY DEF SetNodesConfig
<1>2. datagrams \in Seq(Configs) /\ Len(datagrams) \in Nat
  BY LenProperties DEF ConfigTypes
<1>3. CASE up
  <2>1. datagrams' = Append(datagrams, c)
    BY <1>1, <1>3
  <2>2. /\ datagrams' \in Seq(Configs) /\ Len(datagrams') = Len(datagrams) + 1
        /\ datagrams'[Len(datagrams) + 1] = c
    BY <1>2, <2>1, AppendProperties
  <2> QED
    BY <1>1, <1>2, <1>3, <2>2 DEF ConfigTypes
<1>4. CASE ~up
  BY <1>1, <1>2, <1>4 DEF ConfigTypes
<1> QED
  BY <1>3, <1>4

(* What the process of the C++ server leaves behind.                       *)
LEMMA DownTypes ==
  ASSUME ConfigTypes, ServerDown, UNCHANGED currentNodesConfig
  PROVE  ConfigTypes' /\ up' \in BOOLEAN /\ missed' \in BOOLEAN
BY EmptySeq, NamesAreConfigs DEF ConfigTypes, ServerDown

(* The configuration thread's datagram.                                    *)
LEMMA QueueFacts ==
  ASSUME ConfigTypes, datagrams # <<>>
  PROVE  /\ Head(datagrams) \in Configs /\ Head(datagrams) = datagrams[1]
         /\ Tail(datagrams) \in Seq(Configs)
         /\ Len(datagrams) \in Nat \ {0} /\ Len(Tail(datagrams)) = Len(datagrams) - 1
         /\ Tail(datagrams) = <<>> <=> Len(datagrams) = 1
         /\ Tail(datagrams) # <<>> =>
              Tail(datagrams)[Len(Tail(datagrams))] = datagrams[Len(datagrams)]
<1>1. /\ datagrams \in Seq(Configs) /\ Len(datagrams) \in Nat
      /\ Head(datagrams) \in Configs /\ Head(datagrams) = datagrams[1]
      /\ Tail(datagrams) \in Seq(Configs) /\ Len(Tail(datagrams)) = Len(datagrams) - 1
      /\ \A i \in 1 .. Len(Tail(datagrams)) : Tail(datagrams)[i] = datagrams[i + 1]
  BY HeadTailProperties, LenProperties DEF ConfigTypes
<1>2. Len(datagrams) # 0
  BY <1>1, EmptySeq
<1>3. Tail(datagrams) = <<>> <=> Len(Tail(datagrams)) = 0
  BY <1>1, EmptySeq
<1>4. Len(datagrams) # 1 =>
        /\ Len(Tail(datagrams)) \in 1 .. Len(Tail(datagrams))
        /\ Len(Tail(datagrams)) + 1 = Len(datagrams)
  BY <1>1, <1>2
<1> QED
  BY <1>1, <1>2, <1>3, <1>4

LEMMA TypeInit == Init => Types
<1> SUFFICES ASSUME Init PROVE Types
  OBVIOUS
<1>1. LegTypes
  BY DEF Init, LegTypes, Requests, Forwards, Statuses
<1>2. ConfigTypes
  BY EmptySeq, NamesAreConfigs DEF Init, ConfigTypes
<1>3. Bounds
  BY ControlAssumption DEF Init, Bounds
<1>4. Flags
  BY DEF Init, Flags
<1> QED
  BY <1>1, <1>2, <1>3, <1>4 DEF Types

(* One lemma per part of the system.                                       *)
LEMMA PageTypes ==
  ASSUME Types,
         \/ Click \/ Load
         \/ \E t \in Toggles : Answered(t) \/ RequestFails(t)
         \/ \E f \in Fetches : StatusStep(f)
  PROVE  Types'
<1> USE DEF Types, Flags
<1>1. CASE Click
  <2>1. PICK t \in Toggles :
          /\ want' = [want EXCEPT ![t] = ~simulationActive]
          /\ mine' = mine \cup {t}
          /\ request' = [request EXCEPT ![t] = "sent"]
    BY <1>1 DEF Click
  <2>2. LegTypes'
    BY <1>1, <2>1, RequestStep DEF Click, LegTypes
  <2>3. simulationActive' \in BOOLEAN /\ disturbed' \in BOOLEAN /\ saved' \in BOOLEAN
    BY <1>1 DEF Click, Settled, Asking, Toggling
  <2> QED
    BY <1>1, <2>2, <2>3 DEF Click, backend, cpp, counters, Bounds, ConfigTypes
<1>2. CASE Load
  <2>1. LegTypes'
    BY <1>2 DEF Load, legs, LegTypes, Statuses
  <2>2. simulationActive' \in BOOLEAN /\ disturbed' \in BOOLEAN
    BY <1>2 DEF Load, Toggling
  <2>3. Bounds'
    BY <1>2, ControlAssumption DEF Load, Bounds
  <2> QED
    BY <1>2, <2>1, <2>2, <2>3 DEF Load, backend, cpp, ConfigTypes
<1>3. ASSUME NEW t \in Toggles, Answered(t) PROVE Types'
  BY <1>3, RequestStep DEF Answered, page, backend, cpp, counters, Bounds, LegTypes, ConfigTypes
<1>4. ASSUME NEW t \in Toggles, RequestFails(t) PROVE Types'
  <2>1. LegTypes'
    BY <1>4, RequestStep DEF RequestFails, LegTypes
  <2>2. simulationActive' \in BOOLEAN
    BY <1>4 DEF RequestFails, LegTypes
  <2> QED
    BY <1>4, <2>1, <2>2, FailCounts DEF RequestFails, backend, cpp, Bounds, ConfigTypes
<1>5. ASSUME NEW f \in Fetches, HandleStatus(f) PROVE Types'
  <2>1. LegTypes'
    BY <1>5, StatusOfOne DEF HandleStatus, legs, LegTypes
  <2> QED
    BY <1>5, <2>1 DEF HandleStatus, legs, backend, cpp, counters, Bounds, ConfigTypes
<1>6. ASSUME NEW f \in Fetches, StatusAnswered(f) PROVE Types'
  <2>1. LegTypes' /\ simulationActive' \in BOOLEAN
    BY <1>6, StatusOfOne DEF StatusAnswered, legs, LegTypes
  <2> QED
    BY <1>6, <2>1 DEF StatusAnswered, legs, backend, cpp, counters, Bounds, ConfigTypes
<1>7. ASSUME NEW f \in Fetches, StatusFails(f) PROVE Types'
  <2>1. LegTypes'
    BY <1>7, StatusOfOne DEF StatusFails, legs, LegTypes
  <2> QED
    BY <1>7, <2>1, FailCounts DEF StatusFails, legs, backend, cpp, Bounds, ConfigTypes
<1> QED
  BY <1>1, <1>2, <1>3, <1>4, <1>5, <1>6, <1>7 DEF StatusStep

(* What the restart of the backend does to its requests to the twin.       *)
LEMMA RestartLegs ==
  ASSUME LegTypes, RestartBackend
  PROVE  /\ forward' \in Forwards
         /\ \A t \in Toggles : forward[t] = "new" <=> forward'[t] = "new"
<1>1. PICK through \in SUBSET {t \in Toggles : forward[t] = "sent"} :
        forward' = [t \in Toggles |->
          CASE t \in through -> "orphaned"
            [] UnderWay(forward, t) /\ forward[t] # "orphaned" /\ t \notin through -> "over"
            [] OTHER -> forward[t]]
  BY DEF RestartBackend
<1>2. ASSUME NEW t \in Toggles
      PROVE  /\ forward'[t] \in {"new", "sent", "handled", "orphaned", "over"}
             /\ forward[t] = "new" <=> forward'[t] = "new"
  <2>1. forward[t] \in {"new", "sent", "handled", "orphaned", "over"}
    BY DEF LegTypes, Forwards
  <2>2. CASE t \in through
    BY <1>1, <2>2
  <2>3. CASE t \notin through /\ UnderWay(forward, t) /\ forward[t] # "orphaned"
    BY <1>1, <2>3 DEF UnderWay
  <2>4. CASE t \notin through /\ ~(UnderWay(forward, t) /\ forward[t] # "orphaned")
    BY <1>1, <2>1, <2>4
  <2> QED
    BY <2>2, <2>3, <2>4
<1>3. forward' = [t \in Toggles |-> forward'[t]]
  BY <1>1
<1> QED
  BY <1>2, <1>3 DEF Forwards

LEMMA BackendTypes ==
  ASSUME Types,
         \/ \E t \in Toggles : HandleToggle(t) \/ TwinAnswered(t) \/ ForwardFails(t)
         \/ \E c \in UserConfigs : SaveNodesConfig(c)
         \/ RestartBackend
  PROVE  Types'
<1> USE DEF Types, Flags
<1>1. ASSUME NEW t \in Toggles, HandleToggle(t) PROVE Types'
  <2>1. LegTypes' /\ isSimulationActive' \in BOOLEAN
    BY <1>1, RequestStep, ForwardStep DEF HandleToggle, page, LegTypes
  <2> QED
    BY <1>1, <2>1 DEF HandleToggle, page, cpp, counters, Bounds, ConfigTypes
<1>2. ASSUME NEW t \in Toggles, TwinAnswered(t) PROVE Types'
  <2>1. LegTypes'
    BY <1>2, ForwardStep DEF TwinAnswered, page, LegTypes
  <2>2. ConfigTypes' /\ up' \in BOOLEAN /\ missed' \in BOOLEAN
    <3>1. CASE want[t]
      BY <1>2, <3>1, ConfigIsQueued, NamesAreConfigs DEF TwinAnswered
    <3>2. CASE ~want[t]
      BY <1>2, <3>2 DEF TwinAnswered, cpp, ConfigTypes
    <3> QED
      BY <3>1, <3>2
  <2> QED
    BY <1>2, <2>1, <2>2 DEF TwinAnswered, page, counters, Bounds
<1>3. ASSUME NEW t \in Toggles, ForwardFails(t) PROVE Types'
  <2>1. LegTypes'
    BY <1>3, ForwardStep DEF ForwardFails, page, LegTypes
  <2> QED
    BY <1>3, <2>1, FailCounts DEF ForwardFails, page, backend, cpp, Bounds, ConfigTypes
<1>4. ASSUME NEW c \in UserConfigs, SaveNodesConfig(c) PROVE Types'
  <2>1. ConfigTypes' /\ up' \in BOOLEAN /\ missed' \in BOOLEAN
    BY <1>4, ConfigIsQueued, NamesAreConfigs DEF SaveNodesConfig
  <2>2. Bounds'
    BY <1>4, ControlAssumption DEF SaveNodesConfig, Bounds
  <2> QED
    BY <1>4, <2>1, <2>2 DEF SaveNodesConfig, page, legs, LegTypes
<1>5. CASE RestartBackend
  <2>1. ConfigTypes'
    BY <1>5, NamesAreConfigs DEF RestartBackend, ConfigTypes
  <2>2. LegTypes'
    BY <1>5, RestartLegs DEF RestartBackend, page, LegTypes
  <2> QED
    BY <1>5, <2>1, <2>2, FailCounts DEF RestartBackend, page, Bounds
<1> QED
  BY <1>1, <1>2, <1>3, <1>4, <1>5

LEMMA TwinTypes ==
  ASSUME Types, RestartTwin \/ \E t \in Toggles : TwinToggle(t)
  PROVE  Types'
<1> USE DEF Types, Flags
<1>1. ASSUME NEW t \in Toggles, TwinToggle(t) PROVE Types'
  <2>1. forward' \in Forwards
    <3>1. (IF forward[t] = "sent" THEN "handled" ELSE "over") \in {"sent", "handled", "over"}
      OBVIOUS
    <3>2. forward' = [forward EXCEPT ![t] = IF forward[t] = "sent" THEN "handled" ELSE "over"]
      BY <1>1 DEF TwinToggle
    <3> QED
      BY <3>1, <3>2, ForwardStep DEF LegTypes
  <2>2. LegTypes' /\ active' \in BOOLEAN
    BY <1>1, <2>1 DEF TwinToggle, ActiveAfter, page, LegTypes
  <2> QED
    BY <1>1, <2>2 DEF TwinToggle, page, backend, cpp, counters, Bounds, ConfigTypes
<1>2. CASE RestartTwin
  BY <1>2, FailCounts
  DEF RestartTwin, page, legs, backend, cpp, Bounds, LegTypes, ConfigTypes
<1> QED
  BY <1>1, <1>2

CppStep == ConfigThread \/ LoseDatagram \/ StopServer \/ StartServer

LEMMA CppTypes ==
  ASSUME Types, CppStep
  PROVE  Types'
<1> USE DEF Types, Flags
<1>1. CppOnly
  BY DEF CppStep, ConfigThread, ReceiveConfig, AbortOnConfig, LoseDatagram, StopServer,
     StartServer
<1>2. SUFFICES /\ ConfigTypes' /\ up' \in BOOLEAN /\ missed' \in BOOLEAN
               /\ losses' \in 0 .. MaxLosses
  BY <1>1 DEF CppOnly, page, legs, backend, LegTypes, Bounds
<1>3. CASE ReceiveConfig
  <2>1. Head(datagrams) \in Configs /\ datagrams' \in Seq(Configs)
    BY <1>3, QueueFacts DEF ReceiveConfig, DatagramsLeft
  <2>2. pipeline' \in Configs /\ Readable(pipeline')
    BY <1>3, <2>1 DEF ReceiveConfig, PipelineFrom, ConfigTypes
  <2> QED
    BY <1>1, <1>3, <2>1, <2>2 DEF ReceiveConfig, CppOnly, backend, Bounds, ConfigTypes
<1>4. CASE AbortOnConfig
  BY <1>1, <1>4, DownTypes DEF AbortOnConfig, CppOnly, backend, Bounds
<1>5. CASE LoseDatagram
  <2>1. ConfigTypes'
    BY <1>1, <1>5, QueueFacts DEF LoseDatagram, CppOnly, backend, ConfigTypes
  <2>2. missed' \in BOOLEAN /\ up' \in BOOLEAN
    BY <1>5 DEF LoseDatagram
  <2> QED
    BY <1>5, <2>1, <2>2, LoseCounts DEF LoseDatagram
<1>6. CASE StopServer
  BY <1>1, <1>6, DownTypes, LoseCounts DEF StopServer, CppOnly, backend
<1>7. CASE StartServer
  BY <1>1, <1>7 DEF StartServer, CppOnly, backend, Bounds, ConfigTypes
<1> QED
  BY <1>3, <1>4, <1>5, <1>6, <1>7 DEF CppStep, ConfigThread

LEMMA TypeStep == Types /\ [Next]_vars => Types'
<1> SUFFICES ASSUME Types, [Next]_vars PROVE Types'
  OBVIOUS
<1>1. CASE UNCHANGED vars
  BY <1>1 DEF vars, page, legs, backend, cpp, counters, Types, Flags, Bounds, LegTypes,
     ConfigTypes
<1> QED
  BY <1>1, PageTypes, BackendTypes, TwinTypes, CppTypes DEF Next, Progress, CppStep

LEMMA TypesAlways == Spec => []Types
BY TypeInit, TypeStep, PTL DEF Spec

(* The flags stay flags, the requests in their states, and what the C++    *)
(* server's stages work from is a configuration that could be read         *)
(* (configListenerTask()), whatever else was sent to it.                   *)
THEOREM TypeCorrect == Spec => []TypeOK
<1>1. Types => TypeOK
  BY DEF Types, Flags, Bounds, LegTypes, ConfigTypes, TypeOK, Requests, Forwards, Statuses
<1> QED
  BY TypesAlways, <1>1, PTL

-----------------------------------------------------------------------------
(* What the C++ server uses, or will use when it has read what is under    *)
(* way. Every way in which the last configuration may get lost sets        *)
(* `missed': it is sent to no process, lost, or goes with the process.     *)

LastUnderWay == datagrams # <<>> => datagrams[Len(datagrams)] = currentNodesConfig

InUse == datagrams = <<>> /\ Readable(currentNodesConfig) => pipeline = currentNodesConfig

Follows == ~missed => up /\ LastUnderWay /\ InUse

LEMMA SetConfigFollows ==
  ASSUME Types, NEW c \in Configs, SetNodesConfig(c)
  PROVE  Follows'
<1>1. /\ currentNodesConfig' = c /\ missed' = ~up /\ UNCHANGED up
      /\ ConfigTypes'
      /\ up => Len(datagrams') \in Nat \ {0} /\ datagrams'[Len(datagrams')] = c
  BY ConfigIsQueued DEF Types, Flags
<1>2. up => datagrams' # <<>>
  BY <1>1, EmptySeq DEF ConfigTypes
<1> QED
  BY <1>1, <1>2 DEF Follows, LastUnderWay, InUse

LEMMA FollowsKept ==
  ASSUME Follows, UNCHANGED <<cpp, currentNodesConfig>>
  PROVE  Follows'
BY DEF Follows, LastUnderWay, InUse, cpp

LEMMA CppFollows ==
  ASSUME Types, Follows, CppStep
  PROVE  Follows'
<1>1. UNCHANGED currentNodesConfig
  BY DEF CppStep, ConfigThread, ReceiveConfig, AbortOnConfig, LoseDatagram, StopServer,
     StartServer, CppOnly, backend
<1>2. CASE ReceiveConfig
  <2>1. /\ datagrams # <<>> /\ datagrams' = Tail(datagrams) /\ UNCHANGED <<up, missed>>
        /\ pipeline' = PipelineFrom(Head(datagrams))
    BY <1>2 DEF ReceiveConfig, DatagramsLeft
  <2>2. ASSUME ~missed PROVE LastUnderWay'
    BY <1>1, <2>1, <2>2, QueueFacts DEF Follows, LastUnderWay, Types
  <2>3. ASSUME ~missed PROVE InUse'
    <3>1. SUFFICES ASSUME Tail(datagrams) = <<>>, Readable(currentNodesConfig)
                   PROVE  pipeline' = currentNodesConfig
      BY <1>1, <2>1 DEF InUse, Readable
    <3>2. Head(datagrams) = currentNodesConfig
      BY <2>1, <2>3, <3>1, QueueFacts DEF Follows, LastUnderWay, Types
    <3> QED
      BY <2>1, <3>1, <3>2 DEF PipelineFrom
  <2> QED
    BY <2>1, <2>2, <2>3 DEF Follows
<1>3. CASE AbortOnConfig
  BY <1>3 DEF AbortOnConfig, ServerDown, Follows
<1>4. CASE LoseDatagram
  <2>1. /\ datagrams # <<>> /\ datagrams' = Tail(datagrams) /\ UNCHANGED <<up, pipeline>>
        /\ missed' = (missed \/ Tail(datagrams) = <<>>)
    BY <1>4 DEF LoseDatagram
  <2>2. SUFFICES ASSUME ~missed, Tail(datagrams) # <<>> PROVE LastUnderWay'
    BY <1>1, <2>1 DEF Follows, InUse
  <2> QED
    BY <1>1, <2>1, <2>2, QueueFacts DEF Follows, LastUnderWay, Types
<1>5. CASE StopServer
  BY <1>5 DEF StopServer, ServerDown, Follows
<1>6. CASE StartServer
  BY <1>1, <1>6 DEF StartServer, Follows, LastUnderWay, InUse, Readable
<1> QED
  BY <1>2, <1>3, <1>4, <1>5, <1>6 DEF CppStep, ConfigThread

LEMMA FollowsInit == Init => Follows
BY DEF Init, Follows, LastUnderWay, InUse

LEMMA FollowsStep == Types /\ Follows /\ [Next]_vars => Follows'
<1> SUFFICES ASSUME Types, Follows, [Next]_vars PROVE Follows'
  OBVIOUS
<1>1. CASE Click \/ Load
  BY <1>1, FollowsKept DEF Click, Load, backend
<1>2. ASSUME NEW t \in Toggles, HandleToggle(t) \/ Answered(t) \/ TwinToggle(t)
      PROVE  Follows'
  BY <1>2, FollowsKept DEF HandleToggle, Answered, TwinToggle, backend
<1>3. ASSUME NEW t \in Toggles, TwinAnswered(t) PROVE Follows'
  <2>1. CASE want[t]
    BY <1>3, <2>1, SetConfigFollows, NamesAreConfigs DEF TwinAnswered
  <2>2. CASE ~want[t]
    BY <1>3, <2>2, FollowsKept DEF TwinAnswered
  <2> QED
    BY <2>1, <2>2
<1>4. ASSUME NEW t \in Toggles, RequestFails(t) \/ ForwardFails(t) PROVE Follows'
  BY <1>4, FollowsKept DEF RequestFails, ForwardFails, backend
<1>5. ASSUME NEW f \in Fetches, StatusStep(f) PROVE Follows'
  BY <1>5, FollowsKept DEF StatusStep, HandleStatus, StatusAnswered, StatusFails, backend
<1>6. ASSUME NEW c \in UserConfigs, SaveNodesConfig(c) PROVE Follows'
  BY <1>6, SetConfigFollows, NamesAreConfigs DEF SaveNodesConfig
<1>7. CASE RestartTwin
  BY <1>7, FollowsKept DEF RestartTwin, backend
<1>8. CASE RestartBackend
  BY <1>8 DEF RestartBackend, Follows
<1>9. CASE CppStep
  BY <1>9, CppFollows
<1>10. CASE UNCHANGED vars
  BY <1>10, FollowsKept DEF vars, backend
<1> QED
  BY <1>1, <1>2, <1>3, <1>4, <1>5, <1>6, <1>7, <1>8, <1>9, <1>10
  DEF Next, Progress, CppStep

(* Unless it got lost, the configuration that the backend set last is what *)
(* the stages of the C++ server are built from once what is under way has  *)
(* been read (SetNodesConfig, configListenerTask()): after any crash, loss *)
(* or restart, the next configuration that gets through puts it right.     *)
THEOREM ServerFollows == Spec => []PipelineFollowsBackend
<1>1. Spec => []Follows
  BY FollowsInit, FollowsStep, TypesAlways, PTL DEF Spec
<1>2. Follows => PipelineFollowsBackend
  BY DEF Follows, LastUnderWay, InUse, PipelineFollowsBackend
<1> QED
  BY <1>1, <1>2, PTL

-----------------------------------------------------------------------------
(* What a click that meets nothing else, or a load of the page, still has  *)
(* to do.                                                                  *)

Idle(t) == ~UnderWay(request, t) /\ ~UnderWay(forward, t)

(* A simulation that is on has its nodes configured.                       *)
HasItsNodes(on) == on /\ ~saved => currentNodesConfig = SimulationNodes

Agreed ==
  /\ isSimulationActive = simulationActive
  /\ active = simulationActive
  /\ HasItsNodes(simulationActive)

(* Toggle t is the only request under way, it asks for what the page shows,*)
(* and has brought it as far as its two legs have come.                    *)
Carries(t) ==
  /\ ~Asking
  /\ \A u \in Toggles \ {t} : Idle(u)
  /\ want[t] = simulationActive
  /\ \/ request[t] = "sent"
     \/ /\ request[t] \in {"handled", "over"}
        /\ isSimulationActive = want[t]
        /\ \/ forward[t] = "sent"
           \/ forward[t] = "handled" /\ active = want[t]
           \/ forward[t] = "over" /\ active = want[t] /\ HasItsNodes(want[t])

(* The page is being told of a flag on which backend and twin agree.       *)
Loading ==
  /\ ~Toggling
  /\ isSimulationActive = active
  /\ HasItsNodes(isSimulationActive)
  /\ \A f \in Fetches :
       /\ status[f] = "on" => isSimulationActive
       /\ status[f] = "off" => ~isSimulationActive
       /\ status[f] = "over" => isSimulationActive = simulationActive

(* The twin is asked by the handler of a request, so never before it.      *)
AskedInOrder == \A t \in Toggles : request[t] \in {"new", "sent"} => forward[t] = "new"

Heals ==
  /\ AskedInOrder
  /\ ~disturbed => (Settled /\ Agreed) \/ (\E t \in Toggles : Carries(t)) \/ Loading

LEMMA HealsInit == Init => Heals
BY DEF Init, Heals, AskedInOrder, Loading, Toggling, UnderWay, HasItsNodes

LEMMA DisturbedHeals ==
  ASSUME AskedInOrder', disturbed' = TRUE
  PROVE  Heals'
BY DEF Heals

LEMMA ClickHeals ==
  ASSUME Types, Heals, Click
  PROVE  Heals'
<1>1. PICK t \in Toggles :
        /\ request[t] = "new"
        /\ want' = [want EXCEPT ![t] = ~simulationActive]
        /\ simulationActive' = ~simulationActive
        /\ request' = [request EXCEPT ![t] = "sent"]
        /\ UNCHANGED <<forward, status>>
        /\ disturbed' = ~Settled
  BY DEF Click
<1>2. /\ request'[t] = "sent" /\ want'[t] = simulationActive'
      /\ \A u \in Toggles \ {t} : request'[u] = request[u]
  BY <1>1 DEF Types, LegTypes, Requests
<1>3. AskedInOrder'
  BY <1>1, <1>2 DEF Heals, AskedInOrder
<1>4. CASE Settled
  <2>1. \A u \in Toggles \ {t} : Idle(u)'
    BY <1>1, <1>2, <1>4 DEF Settled, Toggling, Idle, UnderWay
  <2>2. ~Asking'
    BY <1>1, <1>4 DEF Settled, Asking
  <2>3. Carries(t)'
    BY <1>2, <2>1, <2>2 DEF Carries
  <2> QED
    BY <1>3, <2>3 DEF Heals
<1>5. CASE ~Settled
  BY <1>1, <1>3, <1>5 DEF Heals
<1> QED
  BY <1>4, <1>5

(* One leg of toggle t goes on: nothing is settled before, and if a toggle *)
(* is being carried it is t.                                               *)
LEMMA OnlyTheCarried ==
  ASSUME Heals, ~disturbed, NEW t \in Toggles, ~Idle(t)
  PROVE  Carries(t)
<1>1. ~Settled /\ ~Loading
  BY DEF Settled, Loading, Toggling, Idle
<1>2. PICK u \in Toggles : Carries(u)
  BY <1>1 DEF Heals
<1>3. u = t
  BY <1>2 DEF Carries
<1> QED
  BY <1>2, <1>3

LEMMA ProgressHeals ==
  ASSUME Types, Heals, NEW t \in Toggles, Progress(t)
  PROVE  Heals'
<1> USE DEF Types, LegTypes, Requests, Forwards
<1>1. UNCHANGED <<simulationActive, status, want, disturbed, saved>>
  BY DEF Progress, HandleToggle, Answered, TwinToggle, TwinAnswered, page
<1>2. ~Idle(t)
  BY DEF Progress, HandleToggle, Answered, TwinToggle, TwinAnswered, Idle, UnderWay
<1>3. \A u \in Toggles \ {t} : request'[u] = request[u] /\ forward'[u] = forward[u]
  BY DEF Progress, HandleToggle, Answered, TwinToggle, TwinAnswered
<1>4. /\ request'[t] \in {"handled", "over"} \/ request'[t] = request[t]
      /\ request'[t] = "sent" => forward'[t] = forward[t]
      /\ request'[t] # "new"
  <2>1. CASE HandleToggle(t)
    BY <2>1 DEF HandleToggle
  <2>2. CASE Answered(t)
    BY <2>2 DEF Answered
  <2>3. CASE TwinToggle(t)
    BY <2>3 DEF TwinToggle, Heals, AskedInOrder
  <2>4. CASE TwinAnswered(t)
    BY <2>4 DEF TwinAnswered, Heals, AskedInOrder
  <2> QED
    BY <2>1, <2>2, <2>3, <2>4 DEF Progress
<1>5. AskedInOrder'
  BY <1>3, <1>4 DEF Heals, AskedInOrder
<1>6. CASE disturbed
  BY <1>1, <1>5, <1>6 DEF Heals
<1>7. CASE ~disturbed
  <2>1. Carries(t)
    BY <1>2, <1>7, OnlyTheCarried
  <2>2. ~Asking' /\ \A u \in Toggles \ {t} : Idle(u)'
    BY <1>1, <1>3, <2>1 DEF Carries, Asking, Idle, UnderWay
  <2>3. Carries(t)'
    <3>1. CASE HandleToggle(t)
      <4>1. request'[t] = "handled" /\ forward'[t] = "sent" /\ isSimulationActive' = want[t]
        BY <3>1 DEF HandleToggle
      <4> QED
        BY <1>1, <2>1, <2>2, <4>1 DEF Carries
    <3>2. CASE Answered(t)
      <4>1. /\ request[t] = "handled" /\ request'[t] = "over"
            /\ UNCHANGED <<forward, isSimulationActive, active, currentNodesConfig>>
        BY <3>2 DEF Answered, backend
      <4> QED
        BY <1>1, <2>1, <2>2, <4>1 DEF Carries, HasItsNodes
    <3>3. CASE TwinToggle(t)
      <4>1. /\ forward[t] \in {"sent", "orphaned"} /\ active' = want[t]
            /\ UNCHANGED <<request, isSimulationActive>>
        BY <3>3 DEF TwinToggle, ActiveAfter, backend
      <4>2. request[t] # "sent"
        BY <4>1 DEF Heals, AskedInOrder
      <4>3. forward[t] = "sent"
        BY <2>1, <4>1, <4>2 DEF Carries
      <4>4. forward'[t] = "handled"
        BY <3>3, <4>3 DEF TwinToggle
      <4> QED
        BY <1>1, <2>1, <2>2, <4>1, <4>2, <4>4 DEF Carries
    <3>4. CASE TwinAnswered(t)
      <4>1. /\ forward[t] = "handled" /\ forward'[t] = "over"
            /\ want[t] => currentNodesConfig' = SimulationNodes
            /\ UNCHANGED <<request, isSimulationActive, active>>
        BY <3>4 DEF TwinAnswered, SetNodesConfig
      <4>2. request[t] # "sent"
        BY <4>1 DEF Heals, AskedInOrder
      <4> QED
        BY <1>1, <2>1, <2>2, <4>1, <4>2 DEF Carries, HasItsNodes
    <3> QED
      BY <3>1, <3>2, <3>3, <3>4 DEF Progress
  <2> QED
    BY <1>5, <2>3 DEF Heals
<1> QED
  BY <1>6, <1>7

LEMMA FailureHeals ==
  ASSUME Types, Heals, NEW t \in Toggles, RequestFails(t) \/ ForwardFails(t)
  PROVE  Heals'
<1> USE DEF Types, LegTypes, Requests, Forwards
<1>1. disturbed' = TRUE
  BY FailCounts DEF RequestFails, ForwardFails
<1>2. AskedInOrder'
  <2>1. CASE RequestFails(t)
    <3>1. request'[t] = "over" /\ \A u \in Toggles \ {t} : request'[u] = request[u]
      BY <2>1 DEF RequestFails
    <3> QED
      BY <2>1, <3>1 DEF RequestFails, Heals, AskedInOrder
  <2>2. CASE ForwardFails(t)
    <3>1. forward[t] # "new" /\ \A u \in Toggles \ {t} : forward'[u] = forward[u]
      BY <2>2 DEF ForwardFails, UnderWay
    <3> QED
      BY <2>2, <3>1 DEF ForwardFails, page, Heals, AskedInOrder
  <2> QED
    BY <2>1, <2>2
<1> QED
  BY <1>1, <1>2, DisturbedHeals

(* The page is loaded while no toggle is under way: whether it had settled *)
(* or not, backend and twin agree on what it will be told.                 *)
LEMMA LoadHeals ==
  ASSUME Types, Heals, Load
  PROVE  Heals'
<1>1. /\ disturbed' = (disturbed \/ Toggling)
      /\ status' = [f \in Fetches |-> "sent"]
      /\ UNCHANGED <<want, request, forward, isSimulationActive, currentNodesConfig, active, saved>>
  BY DEF Load, legs, backend
<1>2. AskedInOrder'
  BY <1>1 DEF Heals, AskedInOrder
<1>3. CASE disturbed \/ Toggling
  BY <1>1, <1>2, <1>3, DisturbedHeals
<1>4. CASE ~disturbed /\ ~Toggling
  <2>1. isSimulationActive = active /\ HasItsNodes(isSimulationActive)
    <3>1. ASSUME NEW t \in Toggles, Carries(t)
          PROVE  isSimulationActive = active /\ HasItsNodes(isSimulationActive)
      <4>1. request[t] \notin {"sent", "handled"} /\ forward[t] \notin {"sent", "handled"}
        BY <1>4 DEF Toggling, UnderWay
      <4> QED
        BY <3>1, <4>1 DEF Carries
    <3> QED
      BY <1>4, <3>1 DEF Heals, Agreed, Loading
  <2>2. ~Toggling'
    BY <1>1, <1>4 DEF Toggling, UnderWay
  <2>3. Loading'
    BY <1>1, <2>1, <2>2 DEF Loading, HasItsNodes
  <2> QED
    BY <1>2, <2>3 DEF Heals
<1> QED
  BY <1>3, <1>4

LEMMA StatusHeals ==
  ASSUME Types, Heals, NEW f \in Fetches, StatusStep(f)
  PROVE  Heals'
<1> USE DEF Types, LegTypes, Statuses
<1>1. /\ UNCHANGED <<want, request, forward, isSimulationActive, currentNodesConfig, active, saved>>
      /\ \A g \in Fetches \ {f} : status'[g] = status[g]
      /\ status[f] # "over"
  BY DEF StatusStep, HandleStatus, StatusAnswered, StatusFails, legs, backend
<1>2. AskedInOrder'
  BY <1>1 DEF Heals, AskedInOrder
<1>3. CASE disturbed
  <2>1. disturbed' = TRUE
    BY <1>3, FailCounts DEF StatusStep, HandleStatus, StatusAnswered, StatusFails
  <2> QED
    BY <1>2, <2>1, DisturbedHeals
<1>4. CASE StatusFails(f)
  BY <1>2, <1>4, FailCounts, DisturbedHeals DEF StatusFails
<1>5. CASE ~disturbed /\ (HandleStatus(f) \/ StatusAnswered(f))
  <2>1. Loading
    <3>1. Asking
      BY <1>1 DEF Asking
    <3> QED
      BY <1>5, <3>1 DEF Heals, Settled, Carries
  <2>2. ~Toggling'
    BY <1>1, <2>1 DEF Loading, Toggling, UnderWay
  <2>3. /\ status'[f] = "on" => isSimulationActive
        /\ status'[f] = "off" => ~isSimulationActive
        /\ status'[f] = "over" => isSimulationActive = simulationActive'
        /\ isSimulationActive = simulationActive => isSimulationActive = simulationActive'
    <3>1. CASE HandleStatus(f)
      BY <3>1 DEF HandleStatus
    <3>2. CASE StatusAnswered(f)
      <4>1. simulationActive' = isSimulationActive
        BY <2>1, <3>2 DEF StatusAnswered, Loading, Flags
      <4>2. status'[f] = "over"
        BY <3>2 DEF StatusAnswered
      <4> QED
        BY <4>1, <4>2
    <3> QED
      BY <1>5, <3>1, <3>2
  <2>4. Loading'
    BY <1>1, <2>1, <2>2, <2>3 DEF Loading, HasItsNodes
  <2> QED
    BY <1>2, <2>4 DEF Heals
<1> QED
  BY <1>3, <1>4, <1>5 DEF StatusStep

(* Steps of neither the page, the toggles nor the twin.                    *)
LEMMA HealsKept ==
  ASSUME Heals,
         UNCHANGED <<simulationActive, status, want, request, forward, isSimulationActive,
                     active, disturbed>>,
         saved' \/ (UNCHANGED <<saved, currentNodesConfig>>)
  PROVE  Heals'
<1>1. AskedInOrder' /\ (Asking' <=> Asking) /\ (Toggling' <=> Toggling)
  BY DEF Heals, AskedInOrder, Asking, Toggling, UnderWay
<1>2. ASSUME NEW on, HasItsNodes(on) PROVE on /\ ~saved' => currentNodesConfig' = SimulationNodes
  BY <1>2 DEF HasItsNodes
<1>3. ASSUME Settled, Agreed PROVE Settled' /\ Agreed'
  BY <1>1, <1>2, <1>3 DEF Settled, Agreed, HasItsNodes
<1>4. ASSUME NEW t \in Toggles, Carries(t) PROVE Carries(t)'
  BY <1>1, <1>2, <1>4 DEF Carries, Idle, UnderWay, HasItsNodes
<1>5. ASSUME Loading PROVE Loading'
  BY <1>1, <1>2, <1>5 DEF Loading, HasItsNodes
<1> QED
  BY <1>1, <1>3, <1>4, <1>5 DEF Heals

LEMMA HealsStep == Types /\ Heals /\ [Next]_vars => Heals'
<1> SUFFICES ASSUME Types, Heals, [Next]_vars PROVE Heals'
  OBVIOUS
<1>1. CASE Click
  BY <1>1, ClickHeals
<1>2. CASE Load
  BY <1>2, LoadHeals
<1>3. ASSUME NEW t \in Toggles, Progress(t) PROVE Heals'
  BY <1>3, ProgressHeals
<1>4. ASSUME NEW t \in Toggles, RequestFails(t) \/ ForwardFails(t) PROVE Heals'
  BY <1>4, FailureHeals
<1>5. ASSUME NEW f \in Fetches, StatusStep(f) PROVE Heals'
  BY <1>5, StatusHeals
<1>6. ASSUME NEW c \in UserConfigs, SaveNodesConfig(c) PROVE Heals'
  BY <1>6, HealsKept DEF SaveNodesConfig, page, legs
<1>7. CASE RestartTwin
  <2>1. AskedInOrder' /\ disturbed' = TRUE
    BY <1>7, FailCounts DEF RestartTwin, legs, Heals, AskedInOrder, Types
  <2> QED
    BY <2>1, DisturbedHeals
<1>8. CASE RestartBackend
  <2>1. UNCHANGED request /\ disturbed' = TRUE
    BY <1>8, FailCounts DEF RestartBackend, Types
  <2>2. AskedInOrder'
    BY <1>8, <2>1, RestartLegs DEF Heals, AskedInOrder, Types
  <2> QED
    BY <2>1, <2>2, DisturbedHeals
<1>9. CASE CppStep
  <2>1. CppOnly
    BY <1>9 DEF CppStep, ConfigThread, ReceiveConfig, AbortOnConfig, LoseDatagram, StopServer,
       StartServer
  <2> QED
    BY <2>1, HealsKept DEF CppOnly, page, legs, backend
<1>10. CASE UNCHANGED vars
  BY <1>10, HealsKept DEF vars, page, legs, backend
<1> QED
  BY <1>1, <1>2, <1>3, <1>4, <1>5, <1>6, <1>7, <1>8, <1>9, <1>10 DEF Next, CppStep

(* However far page, backend and twin have drifted apart, a toggle that    *)
(* meets no other, no status request (fetchStatus()) and no failure brings *)
(* them together, and the simulation's nodes into the configuration (POST  *)
(* /simulation/toggle, handle_toggle()); and a page that is loaded while   *)
(* they agree is told so.                                                  *)
THEOREM ToggleHeals == Spec => []LoneToggleHeals
<1>1. Spec => []Heals
  BY HealsInit, HealsStep, TypesAlways, PTL DEF Spec
<1>2. Types /\ Heals => LoneToggleHeals
  <2> SUFFICES ASSUME Types, Heals, Settled, ~disturbed PROVE Agreed
    BY DEF LoneToggleHeals, Agreed, HasItsNodes
  <2>1. ASSUME NEW t \in Toggles, Carries(t) PROVE Agreed
    <3>1. request[t] \notin {"sent", "handled"} /\ forward[t] \notin {"sent", "handled"}
      BY DEF Settled, Toggling, UnderWay
    <3> QED
      BY <2>1, <3>1 DEF Carries, Agreed
  <2>2. ASSUME Loading PROVE Agreed
    <3>1. PICK f \in Fetches : status[f] = "over"
      BY ControlAssumption DEF Settled, Asking
    <3> QED
      BY <2>2, <3>1 DEF Loading, Agreed
  <2> QED
    BY <2>1, <2>2 DEF Heals
<1> QED
  BY TypesAlways, <1>1, <1>2, PTL
=============================================================================

------------------------- MODULE SimulationControl -------------------------
(***************************************************************************)
(* Who is switched on and where the nodes are: the header of the web page, *)
(* which toggles the simulation and asks for its state when it is loaded;  *)
(* the backend, which keeps the flag and the node configuration; the       *)
(* digital twin, which is told of every toggle in an HTTP request of its   *)
(* own; and the configuration thread of the C++ server, which is told of   *)
(* every node configuration in a UDP datagram.                             *)
(*                                                                         *)
(* Requests go over connections of their own, so that overlapping ones may *)
(* be handled in any order and any of them may fail; the datagrams of one  *)
(* machine stay in order and may be lost.  A configuration is a name.      *)
(***************************************************************************)
EXTENDS Integers, Sequences

CONSTANTS UserConfigs,   (* configurations that users save                       *)
          Malformed,     (* those the server's parser throws at: a field of a    *)
                         (* wrong type, or more text than a datagram's buffer    *)
          Incomplete,    (* those with a node that lacks a field                 *)
          Fetches,       (* the status requests of a load of the page: the       *)
                         (* development build runs every effect twice            *)
          MaxToggles,    (* bound: clicks on the toggle                          *)
          MaxLoads,      (* bound: times the page is loaded anew                 *)
          MaxSaves,      (* bound: configurations saved                          *)
          MaxFailures,   (* bound: failed requests, restarts of twin or backend  *)
          MaxLosses      (* bound: lost datagrams and stops of the C++ server    *)

NoNodes         == "none"        (* { nodes: [] }                           *)
SimulationNodes == "simulation"  (* the four corners at 127.0.0.2 - .5      *)

ASSUME ControlAssumption ==
  /\ Malformed \subseteq UserConfigs /\ Incomplete \subseteq UserConfigs
  /\ Malformed \cap Incomplete = {}
  /\ {NoNodes, SimulationNodes} \cap UserConfigs = {}
  /\ Fetches # {}
  /\ {MaxToggles, MaxLoads, MaxSaves, MaxFailures, MaxLosses} \subseteq Nat

Toggles     == 1 .. MaxToggles
Configs     == UserConfigs \cup {NoNodes, SimulationNodes}
Readable(c) == c \notin Malformed \cup Incomplete

VARIABLES
  simulationActive,    (* page: simulationActive of the header                *)
  mine,                (* page: the toggles clicked since it was loaded       *)
  status,              (* page: its status requests: "sent", answered "on" or *)
                       (* "off", "over"                                       *)
  want,                (* toggle -> the value that was asked for              *)
  request,             (* toggle -> the page's request: "new", "sent" (not    *)
                       (* handled yet), "handled" (not answered yet), "over"  *)
  forward,             (* toggle -> the backend's request to the twin, alike; *)
                       (* "orphaned": sent by a backend that is gone          *)
  isSimulationActive,  (* backend                                             *)
  currentNodesConfig,  (* backend                                             *)
  active,              (* twin: self.active                                   *)
  up,                  (* the C++ server runs                                 *)
  datagrams,           (* configurations under way to port 5011               *)
  pipeline,            (* C++ server: the configuration of its stages         *)
  loads, saves, failures, losses,  (* counters of the bounds                  *)
  disturbed,           (* history: since the last click with nothing else     *)
                       (* under way, something else was, or failed            *)
  saved,               (* history: a configuration was saved since a click    *)
  missed               (* history: the configuration that the backend set     *)
                       (* last is lost to the C++ server                      *)

page     == <<simulationActive, mine, status, want>>
legs     == <<request, forward>>
backend  == <<isSimulationActive, currentNodesConfig>>
cpp      == <<up, datagrams, pipeline, missed>>
counters == <<loads, saves, failures, losses>>
vars == <<page, legs, backend, active, cpp, counters, disturbed, saved>>

Init ==
  /\ simulationActive = FALSE
  /\ mine = {}
  /\ status = [f \in Fetches |-> "sent"]
  /\ want = [t \in Toggles |-> FALSE]
  /\ request = [t \in Toggles |-> "new"]
  /\ forward = [t \in Toggles |-> "new"]
  /\ isSimulationActive = FALSE
  /\ currentNodesConfig = NoNodes
  /\ active = FALSE
  /\ up = TRUE
  /\ datagrams = <<>>
  /\ pipeline = NoNodes
  /\ loads = 0 /\ saves = 0 /\ failures = 0 /\ losses = 0
  /\ disturbed = FALSE /\ saved = FALSE /\ missed = FALSE

UnderWay(leg, t) == leg[t] \in {"sent", "handled", "orphaned"}
Asking  == \E f \in Fetches : status[f] # "over"
Toggling == \E t \in Toggles : UnderWay(request, t) \/ UnderWay(forward, t)
Settled == ~Toggling /\ ~Asking

Fail == failures < MaxFailures /\ failures' = failures + 1 /\ disturbed' = TRUE

-----------------------------------------------------------------------------
(* The page                                                                *)

(* The optimistic update: the page shows the new value and asks for it.    *)
Click ==
  \E t \in Toggles :
    /\ request[t] = "new"
    /\ \A u \in 1 .. t - 1 : request[u] # "new"
    /\ want' = [want EXCEPT ![t] = ~simulationActive]
    /\ simulationActive' = ~simulationActive
    /\ mine' = mine \cup {t}
    /\ request' = [request EXCEPT ![t] = "sent"]
    /\ disturbed' = ~Settled
    /\ saved' = FALSE
    /\ UNCHANGED <<status, forward, backend, active, cpp, counters>>

Answered(t) ==
  /\ request[t] = "handled"
  /\ request' = [request EXCEPT ![t] = "over"]
  /\ UNCHANGED <<page, forward, backend, active, cpp, counters, disturbed, saved>>

(* The request or its answer is lost: the page reverts to the value it had *)
(* when the request was made, unless it was loaded anew in between.        *)
RequestFails(t) ==
  /\ Fail
  /\ UnderWay(request, t)
  /\ simulationActive' = IF t \in mine THEN ~want[t] ELSE simulationActive
  /\ request' = [request EXCEPT ![t] = "over"]
  /\ UNCHANGED <<mine, status, want, forward, backend, active, cpp, loads, saves, losses, saved>>

(* The page is loaded: its flag is off until it has been told.  Requests   *)
(* of the page before go on without it.                                    *)
Load ==
  /\ loads < MaxLoads
  /\ loads' = loads + 1
  /\ simulationActive' = FALSE
  /\ mine' = {}
  /\ status' = [f \in Fetches |-> "sent"]
  /\ disturbed' = (disturbed \/ Toggling)
  /\ UNCHANGED <<want, legs, backend, active, cpp, saves, failures, losses, saved>>

(* fetchStatus(): whatever was clicked since, the page shows the answer.   *)
StatusAnswered(f) ==
  /\ status[f] \in {"on", "off"}
  /\ status' = [status EXCEPT ![f] = "over"]
  /\ simulationActive' = (status[f] = "on")
  /\ UNCHANGED <<mine, want, legs, backend, active, cpp, counters, disturbed, saved>>

(* The request or its answer is lost: the page goes on with what it shows. *)
StatusFails(f) ==
  /\ Fail
  /\ status[f] # "over"
  /\ status' = [status EXCEPT ![f] = "over"]
  /\ UNCHANGED <<simulationActive, mine, want, legs, backend, active, cpp, loads, saves, losses,
                 saved>>

-----------------------------------------------------------------------------
(* The backend                                                             *)

(* GET /simulation/status                                                  *)
HandleStatus(f) ==
  /\ status[f] = "sent"
  /\ status' = [status EXCEPT ![f] = IF isSimulationActive THEN "on" ELSE "off"]
  /\ UNCHANGED <<simulationActive, mine, want, legs, backend, active, cpp, counters, disturbed,
                 saved>>

(* POST /simulation/toggle: the flag is set before the twin is asked.      *)
HandleToggle(t) ==
  /\ request[t] = "sent"
  /\ request' = [request EXCEPT ![t] = "handled"]
  /\ isSimulationActive' = want[t]
  /\ forward' = [forward EXCEPT ![t] = "sent"]
  /\ UNCHANGED <<page, currentNodesConfig, active, cpp, counters, disturbed, saved>>

(* Mutation: the configuration is stored and not sent on.                  *)
SetNodesConfigUnsent(c) ==
  /\ currentNodesConfig' = c
  /\ missed' = ~up
  /\ UNCHANGED <<up, datagrams, pipeline>>

(* currentNodesConfig is replaced and sent to the C++ server, if there is  *)
(* one.                                                                    *)
SetNodesConfig(c) ==
  /\ currentNodesConfig' = c
  /\ datagrams' = IF up THEN Append(datagrams, c) ELSE datagrams
  /\ missed' = ~up
  /\ UNCHANGED <<up, pipeline>>

(* The twin's answer: a simulation that was switched on is configured.     *)
TwinAnswered(t) ==
  /\ forward[t] = "handled"
  /\ forward' = [forward EXCEPT ![t] = "over"]
  /\ IF want[t] THEN SetNodesConfig(SimulationNodes) ELSE UNCHANGED <<currentNodesConfig, cpp>>
  /\ UNCHANGED <<page, request, isSimulationActive, active, counters, disturbed, saved>>

(* The twin cannot be reached, or its answer is lost: logged, no more.     *)
ForwardFails(t) ==
  /\ Fail
  /\ UnderWay(forward, t)
  /\ forward' = [forward EXCEPT ![t] = "over"]
  /\ UNCHANGED <<page, request, backend, active, cpp, loads, saves, losses, saved>>

(* POST /nodes/config: only that `nodes' is an array is checked.           *)
SaveNodesConfig(c) ==
  /\ saves < MaxSaves
  /\ saves' = saves + 1
  /\ SetNodesConfig(c)
  /\ saved' = TRUE
  /\ UNCHANGED <<page, legs, isSimulationActive, active, loads, failures, losses, disturbed>>

(* Flag and configuration are variables of the process.  Nobody is left to *)
(* hear the twin's answers, and requests to it may get through or not; the *)
(* page's requests find the new process or fail.                           *)
RestartBackend ==
  /\ Fail
  /\ isSimulationActive' = FALSE
  /\ currentNodesConfig' = NoNodes
  /\ missed' = TRUE
  /\ \E through \in SUBSET {t \in Toggles : forward[t] = "sent"} :
       forward' = [t \in Toggles |->
         CASE t \in through -> "orphaned"
           [] UnderWay(forward, t) /\ forward[t] # "orphaned" /\ t \notin through -> "over"
           [] OTHER -> forward[t]]
  /\ UNCHANGED <<page, request, active, up, datagrams, pipeline, loads, saves, losses, saved>>

-----------------------------------------------------------------------------
(* The digital twin                                                        *)

(* Mutation: a running simulation is never switched off.                   *)
ActiveOnceAsked(t) == active \/ want[t]

ActiveAfter(t) == want[t]

(* handle_toggle(): the tasks of the simulation are started or cancelled   *)
(* when the value changes, nothing happens when it does not.               *)
TwinToggle(t) ==
  /\ forward[t] \in {"sent", "orphaned"}
  /\ forward' = [forward EXCEPT ![t] = IF @ = "sent" THEN "handled" ELSE "over"]
  /\ active' = ActiveAfter(t)
  /\ UNCHANGED <<page, request, backend, cpp, counters, disturbed, saved>>

RestartTwin ==
  /\ Fail
  /\ active' = FALSE
  /\ UNCHANGED <<page, legs, backend, cpp, loads, saves, losses, saved>>

-----------------------------------------------------------------------------
(* The C++ server                                                          *)

CppOnly == UNCHANGED <<page, legs, backend, active, loads, saves, failures, disturbed, saved>>

(* The process is gone, with its stages and what its socket held.          *)
ServerDown ==
  /\ up' = FALSE
  /\ datagrams' = <<>>
  /\ pipeline' = NoNodes
  /\ missed' = TRUE

(* A configuration is read completely before updatePipeline() uses it; one *)
(* that makes the parser throw is reported and leaves the stages.          *)
PipelineFrom(c) == IF Readable(c) THEN c ELSE pipeline

(* Mutation: what cannot be parsed is never got past.                      *)
DatagramsUpToMalformed == IF Readable(Head(datagrams)) THEN Tail(datagrams) ELSE datagrams

DatagramsLeft == Tail(datagrams)

(* configListenerTask()                                                    *)
ReceiveConfig ==
  /\ datagrams # <<>>
  /\ Head(datagrams) \notin Incomplete
  /\ datagrams' = DatagramsLeft
  /\ pipeline' = PipelineFrom(Head(datagrams))
  /\ UNCHANGED <<up, missed, losses>>
  /\ CppOnly

(* A field that is missing is looked up with the const operator[], whose   *)
(* JSON_ASSERT ends the process: CMakeLists.txt does not define NDEBUG.    *)
AbortOnConfig ==
  /\ datagrams # <<>>
  /\ Head(datagrams) \in Incomplete
  /\ ServerDown
  /\ UNCHANGED losses
  /\ CppOnly

Lose == losses < MaxLosses /\ losses' = losses + 1

LoseDatagram ==
  /\ Lose
  /\ datagrams # <<>>
  /\ datagrams' = Tail(datagrams)
  /\ missed' = (missed \/ Tail(datagrams) = <<>>)
  /\ UNCHANGED <<up, pipeline>>
  /\ CppOnly

StopServer ==
  /\ Lose
  /\ up
  /\ ServerDown
  /\ CppOnly

(* The C++ server starts without a configuration and asks nobody for one.  *)
(* Nothing starts it again by itself.                                      *)
StartServer ==
  /\ ~up
  /\ up' = TRUE
  /\ UNCHANGED <<datagrams, pipeline, missed, losses>>
  /\ CppOnly

-----------------------------------------------------------------------------
Progress(t) == HandleToggle(t) \/ Answered(t) \/ TwinToggle(t) \/ TwinAnswered(t)

StatusStep(f) == HandleStatus(f) \/ StatusAnswered(f) \/ StatusFails(f)

ConfigThread == ReceiveConfig \/ AbortOnConfig

Next ==
  \/ Click \/ Load
  \/ \E t \in Toggles : Progress(t) \/ RequestFails(t) \/ ForwardFails(t)
  \/ \E f \in Fetches : StatusStep(f)
  \/ \E c \in UserConfigs : SaveNodesConfig(c)
  \/ RestartTwin \/ RestartBackend
  \/ ConfigThread \/ LoseDatagram \/ StopServer \/ StartServer

Spec == Init /\ [][Next]_vars

(* The configuration thread reads its socket for as long as it runs.       *)
FairSpec == Spec /\ WF_vars(ConfigThread)

-----------------------------------------------------------------------------
TypeOK ==
  /\ {simulationActive, isSimulationActive, active, up, disturbed, saved, missed} \subseteq BOOLEAN
  /\ mine \subseteq Toggles
  /\ status \in [Fetches -> {"sent", "on", "off", "over"}]
  /\ want \in [Toggles -> BOOLEAN]
  /\ request \in [Toggles -> {"new", "sent", "handled", "over"}]
  /\ forward \in [Toggles -> {"new", "sent", "handled", "orphaned", "over"}]
  /\ currentNodesConfig \in Configs
  /\ datagrams \in Seq(Configs)
  /\ pipeline \in Configs /\ Readable(pipeline)
  /\ loads \in 0 .. MaxLoads /\ saves \in 0 .. MaxSaves
  /\ failures \in 0 .. MaxFailures /\ losses \in 0 .. MaxLosses

(* Unless it was lost to the C++ server, the configuration that the        *)
(* backend set last is what that uses, or will use when it has read what   *)
(* is under way, whatever toggles, late answers, saves, crashes of the     *)
(* server and restarts of the backend came before.                         *)
PipelineFollowsBackend ==
  (~missed /\ Readable(currentNodesConfig)) =>
    /\ up
    /\ IF datagrams = <<>> THEN pipeline = currentNodesConfig
       ELSE datagrams[Len(datagrams)] = currentNodesConfig

(* A configuration the C++ server can read is in use soon after it was set *)
(* unless it is superseded or lost: one before it that makes the parser    *)
(* throw does not keep it out.  (One that makes the server abort does: it  *)
(* is lost with the process.)                                              *)
ConfigIsApplied ==
  \A c \in {d \in Configs : Readable(d)} :
    (currentNodesConfig = c /\ ~missed) ~> (pipeline = c \/ currentNodesConfig # c \/ missed)

(* A toggle heals: however far page, backend and twin have drifted apart,  *)
(* one that meets no other toggle, no status request and no failure leaves *)
(* all three agreed, and a simulation that is on has its nodes configured  *)
(* unless somebody saved others since.  A page that is loaded afterwards   *)
(* agrees, too, once it has been told.                                     *)
LoneToggleHeals ==
  (Settled /\ ~disturbed) =>
    /\ isSimulationActive = simulationActive
    /\ active = simulationActive
    /\ simulationActive /\ ~saved => currentNodesConfig = SimulationNodes

=============================================================================

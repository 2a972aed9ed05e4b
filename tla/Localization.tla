---------------------------- MODULE Localization ----------------------------
(***************************************************************************)
(* The stages of the pipeline: VADFilter, GCCPhat and PositionSolver, as   *)
(* the sets of contexts each can leave behind.  What they compute in       *)
(* floating point (energies, correlations, coordinates) is a free choice;  *)
(* which nodes and which reference they compute it from is not.            *)
(*                                                                         *)
(* A context holds node_audio, vad_active, the keys of tdoa_results, and   *)
(* for the solver the keys it used and where the source was found.         *)
(* A configuration holds the configured nodes and the reference among them.*)
(***************************************************************************)
EXTENDS Integers, FiniteSets, Sequences

NoWhere == "nowhere"   (* no location was computed                          *)
Inside  == "inside"    (* within the range of the nodes, and published      *)
Outside == "outside"   (* location_valid is false                           *)

NewContext(audio) ==
  [audio |-> audio, vad_active |-> FALSE, tdoa |-> {}, used |-> {}, location |-> NoWhere]

(* Only a frame with a sample that is not a filler has any energy.         *)
VADFilter(c) ==
  {[c EXCEPT !.vad_active = v] :
     v \in IF \E n \in DOMAIN c.audio : DOMAIN c.audio[n] # {} THEN BOOLEAN ELSE {FALSE}}

(* The configured reference if it is in the frame, else the first node of  *)
(* an unordered map.                                                       *)
References(c, configuration) ==
  IF configuration.reference \in DOMAIN c.audio THEN {configuration.reference}
  ELSE DOMAIN c.audio

(* Every node is measured against the reference, in both directions.       *)
GCCPhat(c, configuration) ==
  IF Cardinality(DOMAIN c.audio) < 2 THEN {c}
  ELSE {[c EXCEPT !.tdoa = {<<n, r>> : n \in DOMAIN c.audio \ {r}}
                             \cup {<<r, n>> : n \in DOMAIN c.audio \ {r}}] :
          r \in References(c, configuration)}

(* Mutation: a measurement against whatever reference is taken.            *)
UsableWithAny(c, configuration) ==
  {p \in c.tdoa : p[1] \in configuration.nodes \ {configuration.reference}}

(* The measurements of the other configured nodes against the reference.   *)
Usable(c, configuration) ==
  {p \in c.tdoa : /\ p[1] \in configuration.nodes \ {configuration.reference}
                  /\ p[2] = configuration.reference}

Solvable(c, configuration) ==
  /\ Cardinality(configuration.nodes) >= 3
  /\ Cardinality(Usable(c, configuration)) >= 2

PositionSolver(c, configuration) ==
  IF ~Solvable(c, configuration) THEN {c}
  ELSE {[c EXCEPT !.used = Usable(c, configuration), !.location = l] : l \in {Inside, Outside}}

(* process() of a stage, and whether it lets the pipeline go on.           *)
Process(s, c) ==
  CASE s.name = "VAD"            -> VADFilter(c)
    [] s.name = "GCCPhat"        -> GCCPhat(c, s.configuration)
    [] s.name = "PositionSolver" -> PositionSolver(c, s.configuration)

GoesOn(s, c) ==
  CASE s.name = "VAD"            -> c.vad_active
    [] s.name = "GCCPhat"        -> c.tdoa # {}
    [] s.name = "PositionSolver" -> c.location # NoWhere

(* The stages updatePipeline() builds: only the VAD without a node.        *)
NoConfiguration == [nodes |-> {}, reference |-> 0]

StageNames(configuration) ==
  IF configuration.nodes = {} THEN <<"VAD">> ELSE <<"VAD", "GCCPhat", "PositionSolver">>

Stages(configuration) ==
  [i \in DOMAIN StageNames(configuration) |->
     [name |-> StageNames(configuration)[i], configuration |-> configuration]]
=============================================================================

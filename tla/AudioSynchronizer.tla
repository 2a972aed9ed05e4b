-------------------------- MODULE AudioSynchronizer --------------------------
(***************************************************************************)
(* AudioSynchronizer: places the samples of every node on one time line of *)
(* absolute sample indices, cuts the line into frames once every known     *)
(* node has reached the frame's end, and runs the pipeline stages on each  *)
(* frame.  Two threads use it: the drain thread calls pushPacket() (under  *)
(* NodeManager's mutex_, so one call at a time), the configuration thread  *)
(* replaces the stages (under pipeline_mutex_, which the drain thread      *)
(* holds while it runs them).                                              *)
(*                                                                         *)
(* A sample is abstracted to the index at which it was really captured, so *)
(* that a stored sample shows how far from its place it was put.           *)
(***************************************************************************)
EXTENDS Integers, FiniteSetsExt, Sequences, Localization

CONSTANTS Nodes,             (* the nodes that may stream                      *)
          RequiredNodes,     (* frames need this many known nodes: 3           *)
          SamplesPerPacket,  (* MAX_SAMPLES_PER_PACKET: 256                    *)
          FrameSize,         (* frame_size_: 2048                              *)
          MaxDrift,          (* a larger drift re-aligns a node: 1000          *)
          SampleRate,        (* sample_rate_: 48000                            *)
          TicksPerSecond,    (* TSF ticks: 1000000                             *)
          Stream,            (* node -> number -> packet, [tsf, at]            *)
          TimestampError,    (* bound: samples that a timestamp is off by      *)
          MaxReplays,        (* bound: packets a node's stream goes back for   *)
          Configurations,    (* the node configurations that may be received   *)
          MaxConfigurations  (* bound: configurations received                 *)

ASSUME SynchronizerAssumption ==
  /\ RequiredNodes \in Nat \ {0}
  /\ {SamplesPerPacket, FrameSize, SampleRate, TicksPerSecond} \subseteq Nat \ {0}
  /\ {MaxDrift, MaxReplays, MaxConfigurations} \subseteq Nat
  /\ \A c \in Configurations : c.reference \in c.nodes
  /\ Stream \in [Nodes -> Seq([tsf : Nat, at : Nat])]

VARIABLES
  node_buffers,       (* node_buffers_: filled by a node's first packet        *)
  next_frame_start,   (* next_frame_start_idx_                                 *)
  initialized,        (* initialized_                                          *)
  pipeline_stages,    (* pipeline_stages_: a sequence of stages                *)
  pc,                 (* the drain thread: "idle", "emit" or "stages"          *)
  stage,              (* the stage of the frame at hand that runs next         *)
  frame,              (* the frame at hand, or the last one: start and context *)
  position,           (* the senders: node -> number of its next packet        *)
  replays,            (* packets sent out of order so far                      *)
  configurations,     (* configurations received so far                        *)
  arrived,            (* history: node -> indices ever stored                  *)
  ran                 (* history: the stages run on the last frame              *)

buffers  == <<node_buffers, next_frame_start, initialized>>
sender   == <<position, replays>>
pipeline == <<pipeline_stages, configurations>>
vars == <<buffers, pipeline, pc, stage, frame, sender, arrived, ran>>

Known == DOMAIN node_buffers

NoFrame == [start |-> 0, context |-> NewContext([n \in {} |-> n])]

Init ==
  /\ node_buffers = [n \in {} |-> n]
  /\ next_frame_start = 0
  /\ initialized = FALSE
  /\ pipeline_stages = Stages(NoConfiguration)
  /\ pc = "idle"
  /\ stage = 1
  /\ frame = NoFrame
  /\ position = [n \in Nodes |-> 1]
  /\ replays = 0
  /\ configurations = 0
  /\ arrived = [n \in Nodes |-> {}]
  /\ ran = <<>>

-----------------------------------------------------------------------------
(* pushPacket()                                                            *)

RawIdx(tsf) == (tsf * SampleRate) \div TicksPerSecond

Distance(a, b) == IF a < b THEN b - a ELSE a - b

(* How far the timestamps of the streams are from the true capture index.  *)
ASSUME TimestampAssumption ==
  /\ TimestampError \in Nat
  /\ \A n \in Nodes : \A k \in DOMAIN Stream[n] :
       Distance(RawIdx(Stream[n][k].tsf), Stream[n][k].at) <= TimestampError

NewBuffer(raw) == [samples |-> [i \in {} |-> i], max_sample_index |-> 0, expected_next_idx |-> raw]

(* Mutation: the drift is compared without std::abs.                       *)
StartIdxOneSided(buf, raw) ==
  IF raw - buf.expected_next_idx > MaxDrift THEN raw ELSE buf.expected_next_idx

(* A first packet, and one that drifted too far, is placed by its          *)
(* timestamp; every other one right behind its predecessor.                *)
StartIdx(buf, raw) ==
  IF Distance(raw, buf.expected_next_idx) > MaxDrift THEN raw ELSE buf.expected_next_idx

Overwrite(samples, new) ==
  [i \in DOMAIN samples \cup DOMAIN new |-> IF i \in DOMAIN new THEN new[i] ELSE samples[i]]

ReachesEnd(start) == start + SamplesPerPacket

Fill(buf, start, p) ==
  LET new == [i \in start .. start + SamplesPerPacket - 1 |-> p.at + (i - start)]
  IN  [samples           |-> Overwrite(buf.samples, new),
       max_sample_index  |-> Max({buf.max_sample_index, ReachesEnd(start)}),
       expected_next_idx |-> start + SamplesPerPacket]

(* The packets of a node come in the order of its stream with any of them  *)
(* missing, except that the stream may go back: what the jitter buffer of  *)
(* the node hands out.                                                     *)
Arrives(n, k) ==
  /\ k \in DOMAIN Stream[n]
  /\ \/ k >= position[n] /\ UNCHANGED replays
     \/ k < position[n] /\ replays < MaxReplays /\ replays' = replays + 1
  /\ position' = [position EXCEPT ![n] = k + 1]

PushPacket(n, k) ==
  /\ pc = "idle"
  /\ Arrives(n, k)
  /\ LET p     == Stream[n][k]
         buf   == IF n \in Known THEN node_buffers[n] ELSE NewBuffer(RawIdx(p.tsf))
         start == StartIdx(buf, RawIdx(p.tsf))
     IN  /\ node_buffers' = [m \in Known \cup {n} |->
                               IF m = n THEN Fill(buf, start, p) ELSE node_buffers[m]]
         /\ next_frame_start' = IF initialized THEN next_frame_start ELSE start
         /\ arrived' = [arrived EXCEPT ![n] = @ \cup (start .. start + SamplesPerPacket - 1)]
  /\ initialized' = TRUE
  /\ pc' = "emit"
  /\ UNCHANGED <<pipeline, stage, frame, ran>>

-----------------------------------------------------------------------------
(* tryEmitFrame()                                                          *)

TargetEnd == next_frame_start + FrameSize

FrameReady ==
  /\ Cardinality(Known) >= RequiredNodes
  /\ \A n \in Known : node_buffers[n].max_sample_index >= TargetEnd

RestrictTo(samples, S) == [i \in DOMAIN samples \cap S |-> samples[i]]

(* Mutation: the first sample of the next frame is erased with this one.   *)
BehindNextStart(samples) == {i \in DOMAIN samples : i > TargetEnd}

BehindFrame(samples) == {i \in DOMAIN samples : i >= TargetEnd}

(* One turn of the loop: every node's samples of the frame (a missing one  *)
(* is zero) go into the context, they and the strays before them leave the *)
(* buffers, and pipeline_mutex_ is taken.                                  *)
EmitFrame ==
  /\ pc = "emit"
  /\ FrameReady
  /\ frame' = [start |-> next_frame_start,
               context |-> NewContext([n \in Known |->
                 RestrictTo(node_buffers[n].samples, next_frame_start .. TargetEnd - 1)])]
  /\ node_buffers' = [n \in Known |->
       [node_buffers[n] EXCEPT !.samples = RestrictTo(@, BehindFrame(@))]]
  /\ next_frame_start' = TargetEnd
  /\ pc' = "stages"
  /\ stage' = 1
  /\ ran' = <<>>
  /\ UNCHANGED <<initialized, pipeline, sender, arrived>>

EndOfFrame == pc' = "emit" /\ stage' = 1

(* The next stage processes the frame.  A stage that returns false (no     *)
(* voice, too few measurements) ends it, as does the last stage.           *)
RunStage ==
  /\ pc = "stages"
  /\ stage <= Len(pipeline_stages)
  /\ LET s == pipeline_stages[stage]
     IN  /\ ran' = Append(ran, s)
         /\ \E c \in Process(s, frame.context) :
              /\ frame' = [frame EXCEPT !.context = c]
              /\ IF GoesOn(s, c) THEN pc' = "stages" /\ stage' = stage + 1 ELSE EndOfFrame
  /\ UNCHANGED <<buffers, pipeline, sender, arrived>>

StagesDone ==
  /\ pc = "stages"
  /\ stage > Len(pipeline_stages)
  /\ EndOfFrame
  /\ UNCHANGED <<buffers, pipeline, frame, sender, arrived, ran>>

(* Mutation: one frame at most is cut per packet.                          *)
OneFrameAtMost ==
  /\ pc = "emit"
  /\ ~FrameReady \/ ran # <<>>
  /\ pc' = "idle"
  /\ ran' = <<>>
  /\ frame' = NoFrame
  /\ UNCHANGED <<buffers, pipeline, stage, sender, arrived>>

NoMoreFrames ==
  /\ pc = "emit"
  /\ ~FrameReady
  /\ pc' = "idle"
  /\ ran' = <<>>
  /\ frame' = NoFrame
  /\ UNCHANGED <<buffers, pipeline, stage, sender, arrived>>

DrainThread == EmitFrame \/ RunStage \/ StagesDone \/ NoMoreFrames

-----------------------------------------------------------------------------
(* The configuration thread: a configuration was received, updatePipeline()*)
(* calls setPipelineStages().                                              *)

(* Mutation: the stages are replaced without the mutex.                    *)
PipelineMutexIgnored == TRUE

PipelineMutexFree == pc # "stages"

SetPipelineStages(c) ==
  /\ configurations < MaxConfigurations
  /\ PipelineMutexFree
  /\ pipeline_stages' = Stages(c)
  /\ configurations' = configurations + 1
  /\ UNCHANGED <<buffers, pc, stage, frame, sender, arrived, ran>>

Next ==
  \/ \E n \in Nodes : \E k \in DOMAIN Stream[n] : PushPacket(n, k)
  \/ DrainThread
  \/ \E c \in Configurations : SetPipelineStages(c)

Spec == Init /\ [][Next]_vars

(* The drain thread runs: once in tryEmitFrame() it waits for nothing but  *)
(* the configuration thread, whose critical section is one assignment.     *)
FairSpec == Spec /\ WF_vars(DrainThread)

-----------------------------------------------------------------------------
TypeOK ==
  /\ Known \subseteq Nodes
  /\ \A n \in Known :
       /\ node_buffers[n].max_sample_index \in Nat
       /\ node_buffers[n].expected_next_idx \in Nat
       /\ DOMAIN node_buffers[n].samples \subseteq 0 .. node_buffers[n].max_sample_index - 1
  /\ next_frame_start \in Nat
  /\ initialized \in BOOLEAN
  /\ pc \in {"idle", "emit", "stages"}
  /\ stage \in 1 .. Len(pipeline_stages) + 1
  /\ \A n \in Nodes : arrived[n] \subseteq Nat
  /\ configurations \in 0 .. MaxConfigurations /\ replays \in 0 .. MaxReplays

(* However packets go missing or come twice, no sample is ever put further *)
(* from its true place than the drift that is tolerated plus the error of  *)
(* the timestamps: errors do not add up along the stream.                  *)
PlacedNearCapture ==
  /\ \A n \in Known : \A i \in DOMAIN node_buffers[n].samples :
       Distance(i, node_buffers[n].samples[i]) <= MaxDrift + TimestampError
  /\ \A n \in DOMAIN frame.context.audio : \A i \in DOMAIN frame.context.audio[n] :
       Distance(i, frame.context.audio[n][i]) <= MaxDrift + TimestampError

(* A sample that arrived before its frame was cut is in that frame, or is  *)
(* still stored for it: cutting frames and clearing strays lose nothing,   *)
(* and zeros stand only where nothing arrived in time.                     *)
NoArrivedSampleIsLost ==
  /\ \A n \in Known :
       {i \in arrived[n] : i >= next_frame_start} =
         {i \in DOMAIN node_buffers[n].samples : i >= next_frame_start}
  /\ pc = "stages" =>
       \A n \in Known :
         DOMAIN frame.context.audio[n] = arrived[n] \cap (frame.start .. frame.start + FrameSize - 1)

(* A frame is processed by the stages of one configuration, in their       *)
(* order, however configurations are swapped while frames are processed.   *)
FrameUsesOneConfiguration ==
  \E c \in Configurations \cup {NoConfiguration} :
    /\ Len(ran) <= Len(Stages(c))
    /\ ran = SubSeq(Stages(c), 1, Len(ran))

(* A location is computed from all configured nodes of the frame, at least *)
(* three, each measured against the reference of the configuration whose   *)
(* stages ran: never against one that GCCPhat picked instead.              *)
LocationIsOfItsConfiguration ==
  frame.context.location # NoWhere =>
    \E c \in Configurations :
      LET heard == c.nodes \cap DOMAIN frame.context.audio
      IN  /\ ran = Stages(c)
          /\ c.reference \in heard
          /\ Cardinality(heard) >= 3
          /\ frame.context.used = (heard \ {c.reference}) \X {c.reference}

(* When all known nodes have reached an index, every frame that ends there *)
(* or before comes out, without waiting for another packet.                *)
ReachedIsEmitted ==
  \A end \in UNION {{Stream[n][k].at + SamplesPerPacket : k \in DOMAIN Stream[n]} : n \in Nodes} :
    (/\ Cardinality(Known) >= RequiredNodes
     /\ \A n \in Known : node_buffers[n].max_sample_index >= end)
      ~> (next_frame_start + FrameSize > end)

-----------------------------------------------------------------------------
(* PositionSolver.cpp: at least two measurements are needed, three nodes   *)
(* in total; GCCPhat.cpp: a reference is picked if the configured one is   *)
(* not found.  So a frame that gets to the solver with three configured    *)
(* nodes should be located, whichever nodes they are.                      *)
ThreeNodesLocate ==
  \A c \in Configurations :
    (ran = Stages(c) /\ Cardinality(c.nodes \cap DOMAIN frame.context.audio) >= 3)
      => frame.context.location # NoWhere
=============================================================================

---------------------- MODULE AudioSynchronizer_proofs ----------------------
(***************************************************************************)
(* Proofs about the synchronizer, for any nodes, streams, sizes of packets *)
(* and frames, drift tolerance and configurations.                         *)
(***************************************************************************)
EXTENDS AudioSynchronizer, FiniteSetTheorems, SequenceTheorems, TLAPS

-----------------------------------------------------------------------------
(* Numbers and measurements.                                               *)

(* Max of a pair is the greater of its elements.                           *)
LEMMA MaxOfTwo ==
  ASSUME NEW a \in Int, NEW b \in Int
  PROVE  /\ Max({a, b}) \in {a, b}
         /\ a <= Max({a, b})
         /\ b <= Max({a, b})
<1>1. \E m \in {a, b} : \A k \in {a, b} : m >= k
  <2>1. CASE a <= b
    BY <2>1
  <2>2. CASE ~(a <= b)
    BY <2>2
  <2> QED
    BY <2>1, <2>2
<1>2. Max({a, b}) \in {a, b} /\ \A k \in {a, b} : Max({a, b}) >= k
  BY <1>1 DEF Max
<1> QED
  BY <1>2

(* A timestamp names a sample index.                                       *)
LEMMA RawIdxIsIndex ==
  ASSUME NEW tsf \in Nat
  PROVE  RawIdx(tsf) \in Nat
<1>1. \A a \in Nat, b \in Nat \ {0} : a \div b \in Nat
  OBVIOUS
<1>2. tsf * SampleRate \in Nat /\ TicksPerSecond \in Nat \ {0}
  BY SynchronizerAssumption
<1> QED
  BY <1>1, <1>2 DEF RawIdx

(* Distances add up at most.                                               *)
LEMMA DistanceTriangle ==
  ASSUME NEW a \in Int, NEW b \in Int, NEW c \in Int,
         NEW d \in Int, NEW e \in Int,
         Distance(a, b) <= d, Distance(b, c) <= e
  PROVE  Distance(a, c) <= d + e
BY DEF Distance
-----------------------------------------------------------------------------
(* The inductive invariant.                                                *)

Near(samples) ==
  \A i \in DOMAIN samples :
    i \in Nat /\ samples[i] \in Nat /\ Distance(i, samples[i]) <= MaxDrift + TimestampError

IsBuffer(buf) ==
  /\ buf = [samples           |-> buf.samples,
            max_sample_index  |-> buf.max_sample_index,
            expected_next_idx |-> buf.expected_next_idx]
  /\ buf.max_sample_index \in Nat /\ buf.expected_next_idx \in Nat
  /\ DOMAIN buf.samples \subseteq 0 .. buf.max_sample_index - 1
  /\ Near(buf.samples)

BuffersOK ==
  /\ IsFiniteSet(Known) /\ Known \subseteq Nodes
  /\ next_frame_start \in Nat /\ initialized \in BOOLEAN
  /\ ~initialized => Known = {}
  /\ \A n \in Known : IsBuffer(node_buffers[n])
  /\ arrived \in [Nodes -> SUBSET Nat]
  /\ \A n \in Nodes \ Known : arrived[n] = {}

ControlOK ==
  /\ pc \in {"idle", "emit", "stages"}
  /\ configurations \in 0 .. MaxConfigurations /\ replays \in 0 .. MaxReplays

FrameOK ==
  /\ frame = [start |-> frame.start, context |-> frame.context]
  /\ frame.start \in Nat
  /\ IsFiniteSet(DOMAIN frame.context.audio)
  /\ \A n \in DOMAIN frame.context.audio : Near(frame.context.audio[n])
  /\ pc = "stages" => DOMAIN frame.context.audio = Known

IsContext(c) ==
  c = [audio |-> c.audio, vad_active |-> c.vad_active, tdoa |-> c.tdoa, used |-> c.used,
       location |-> c.location]

(* What GCCPhat measures against a reference, and that c holds just that.  *)
Pairs(c, r) == {<<n, r>> : n \in DOMAIN c.audio \ {r}} \cup {<<r, n>> : n \in DOMAIN c.audio \ {r}}

Measured(c, configuration) ==
  \E r \in References(c, configuration) : c.tdoa = Pairs(c, r)

(* How far the stages of configuration c have come with the frame.         *)
Within(c) ==
  /\ ran = SubSeq(Stages(c), 1, stage - 1)
  /\ stage <= 3 => frame.context.location = NoWhere
  /\ stage <= 2 => frame.context.tdoa = {}
  /\ stage = 3 => Measured(frame.context, c)

StagesOK ==
  /\ IsContext(frame.context)
  /\ \E c \in Configurations \cup {NoConfiguration} :
       /\ pipeline_stages = Stages(c)
       /\ stage \in 1 .. Len(Stages(c)) + 1
       /\ IF pc = "stages" THEN Within(c) ELSE stage = 1

IInv ==
  /\ BuffersOK /\ ControlOK /\ FrameOK /\ StagesOK
  /\ NoArrivedSampleIsLost /\ FrameUsesOneConfiguration /\ LocationIsOfItsConfiguration

-----------------------------------------------------------------------------
(* The operators on a buffer.                                              *)

LEMMA NewBufferIsBuffer ==
  ASSUME NEW raw \in Nat
  PROVE  IsBuffer(NewBuffer(raw)) /\ DOMAIN NewBuffer(raw).samples = {}
BY DEF IsBuffer, NewBuffer, Near

(* A packet is placed at most the tolerated drift from its timestamp.      *)
LEMMA StartIsNear ==
  ASSUME NEW buf, IsBuffer(buf), NEW p \in [tsf : Nat, at : Nat],
         Distance(RawIdx(p.tsf), p.at) <= TimestampError
  PROVE  /\ StartIdx(buf, RawIdx(p.tsf)) \in Nat
         /\ Distance(StartIdx(buf, RawIdx(p.tsf)), p.at) <= MaxDrift + TimestampError
<1> DEFINE raw == RawIdx(p.tsf)
           start == StartIdx(buf, raw)
<1>1. raw \in Nat /\ p.at \in Nat /\ buf.expected_next_idx \in Nat
  BY RawIdxIsIndex DEF IsBuffer
<1>2. MaxDrift \in Nat /\ TimestampError \in Nat
  BY SynchronizerAssumption, TimestampAssumption
<1>3. Distance(raw, p.at) <= TimestampError
  OBVIOUS
<1>4. start \in Nat /\ Distance(start, raw) <= MaxDrift
  <2> HIDE DEF raw
  <2> QED
    BY <1>1, <1>2 DEF StartIdx, Distance
<1> HIDE DEF raw, start
<1>5. Distance(start, p.at) <= MaxDrift + TimestampError
  BY <1>1, <1>2, <1>3, <1>4, DistanceTriangle
<1> QED
  BY <1>4, <1>5 DEF raw, start

(* The samples of a packet, stored from a near start, are near as well.    *)
LEMMA FillIsBuffer ==
  ASSUME NEW buf, IsBuffer(buf), NEW p \in [tsf : Nat, at : Nat], NEW start \in Nat,
         Distance(start, p.at) <= MaxDrift + TimestampError
  PROVE  /\ IsBuffer(Fill(buf, start, p))
         /\ DOMAIN Fill(buf, start, p).samples =
              DOMAIN buf.samples \cup (start .. start + SamplesPerPacket - 1)
<1> DEFINE new == [i \in start .. start + SamplesPerPacket - 1 |-> p.at + (i - start)]
           all == Overwrite(buf.samples, new)
           max == Max({buf.max_sample_index, ReachesEnd(start)})
<1>1. p.at \in Nat /\ SamplesPerPacket \in Nat \ {0} /\ MaxDrift + TimestampError \in Nat
  BY SynchronizerAssumption, TimestampAssumption
<1>2. buf.max_sample_index \in Nat /\ ReachesEnd(start) = start + SamplesPerPacket
  BY DEF IsBuffer, ReachesEnd
<1>3. max \in Nat /\ buf.max_sample_index <= max /\ start + SamplesPerPacket <= max
  <2>1. buf.max_sample_index \in Int /\ ReachesEnd(start) \in Int /\ ReachesEnd(start) \in Nat
    BY <1>1, <1>2
  <2>2. /\ max \in {buf.max_sample_index, ReachesEnd(start)}
        /\ buf.max_sample_index <= max /\ ReachesEnd(start) <= max
    BY <2>1, MaxOfTwo
  <2> QED
    BY <1>2, <2>1, <2>2
<1>4. Near(new)
  BY <1>1 DEF Near, Distance
<1>5. Near(buf.samples) /\ DOMAIN buf.samples \subseteq 0 .. buf.max_sample_index - 1
  BY DEF IsBuffer
<1>6. DOMAIN new = start .. start + SamplesPerPacket - 1
  OBVIOUS
<1>7. Fill(buf, start, p) = [samples |-> all, max_sample_index |-> max,
                            expected_next_idx |-> start + SamplesPerPacket]
  BY DEF Fill
<1> HIDE DEF new, max
<1>8. Near(all) /\ DOMAIN all = DOMAIN buf.samples \cup (start .. start + SamplesPerPacket - 1)
  BY <1>4, <1>5, <1>6 DEF Near, Overwrite
<1> HIDE DEF all
<1>9. DOMAIN all \subseteq 0 .. max - 1
  BY <1>1, <1>2, <1>3, <1>5, <1>8
<1> QED
  BY <1>1, <1>3, <1>7, <1>8, <1>9 DEF IsBuffer

(* Erasing samples leaves the others where they are.                       *)
LEMMA RestrictionIsNear ==
  ASSUME NEW samples, Near(samples), NEW S
  PROVE  /\ Near(RestrictTo(samples, S))
         /\ DOMAIN RestrictTo(samples, S) = DOMAIN samples \cap S
BY DEF Near, RestrictTo

Erased(buf, S) == [buf EXCEPT !.samples = RestrictTo(@, S)]

LEMMA ErasedIsBuffer ==
  ASSUME NEW buf, IsBuffer(buf), NEW S
  PROVE  /\ IsBuffer(Erased(buf, S))
         /\ DOMAIN Erased(buf, S).samples = DOMAIN buf.samples \cap S
<1> DEFINE all == RestrictTo(buf.samples, S)
<1>1. Near(all) /\ DOMAIN all = DOMAIN buf.samples \cap S
  BY RestrictionIsNear DEF IsBuffer
<1>2. Erased(buf, S) =
        [samples |-> all, max_sample_index |-> buf.max_sample_index,
         expected_next_idx |-> buf.expected_next_idx]
  <2> HIDE DEF all
  <2>1. [buf EXCEPT !.samples = all] =
          [samples |-> all, max_sample_index |-> buf.max_sample_index,
           expected_next_idx |-> buf.expected_next_idx]
    BY DEF IsBuffer
  <2> QED
    BY <2>1 DEF all, Erased
<1> HIDE DEF all
<1> QED
  BY <1>1, <1>2 DEF IsBuffer
-----------------------------------------------------------------------------
(* Steps that leave a part of the state alone.                             *)

LEMMA BuffersUnchanged ==
  ASSUME BuffersOK, UNCHANGED <<buffers, arrived>>
  PROVE  BuffersOK'
BY DEF BuffersOK, buffers, Known

LEMMA FrameKept ==
  ASSUME FrameOK, UNCHANGED <<frame, node_buffers>>, pc' = "stages" => pc = "stages"
  PROVE  FrameOK'
BY DEF FrameOK, Known

LEMMA RanKept ==
  ASSUME FrameUsesOneConfiguration, LocationIsOfItsConfiguration, UNCHANGED <<ran, frame>>
  PROVE  FrameUsesOneConfiguration' /\ LocationIsOfItsConfiguration'
BY DEF FrameUsesOneConfiguration, LocationIsOfItsConfiguration

LEMMA NothingLostUnchanged ==
  ASSUME NoArrivedSampleIsLost, UNCHANGED <<buffers, arrived>>,
         pc' = "stages" => pc = "stages",
         pc' = "stages" => frame'.start = frame.start,
         pc' = "stages" => frame'.context.audio = frame.context.audio
  PROVE  NoArrivedSampleIsLost'
BY DEF NoArrivedSampleIsLost, buffers, Known

(* Outside of the stages the pipeline at hand need only be somebody's.     *)
LEMMA StagesKept ==
  ASSUME StagesOK, UNCHANGED <<pipeline_stages, stage, frame>>,
         pc # "stages", pc' # "stages"
  PROVE  StagesOK'
BY DEF StagesOK

-----------------------------------------------------------------------------
(* A packet is pushed.                                                     *)

LEMMA StreamHoldsPackets ==
  ASSUME NEW n \in Nodes, NEW k \in DOMAIN Stream[n]
  PROVE  /\ Stream[n][k] \in [tsf : Nat, at : Nat]
         /\ Distance(RawIdx(Stream[n][k].tsf), Stream[n][k].at) <= TimestampError
<1>1. Stream[n] \in Seq([tsf : Nat, at : Nat])
  BY SynchronizerAssumption
<1>2. k \in 1 .. Len(Stream[n])
  BY <1>1, LenProperties
<1> QED
  BY <1>1, <1>2, ElementOfSeq, TimestampAssumption

LEMMA PushStores ==
  ASSUME BuffersOK, NEW n \in Nodes, NEW k \in DOMAIN Stream[n], PushPacket(n, k)
  PROVE  \E start \in Nat :
           /\ Known' = Known \cup {n}
           /\ \A m \in Known \ {n} : node_buffers'[m] = node_buffers[m]
           /\ IsBuffer(node_buffers'[n])
           /\ DOMAIN node_buffers'[n].samples =
                (IF n \in Known THEN DOMAIN node_buffers[n].samples ELSE {})
                  \cup (start .. start + SamplesPerPacket - 1)
           /\ next_frame_start' = IF initialized THEN next_frame_start ELSE start
           /\ arrived' = [arrived EXCEPT ![n] = @ \cup (start .. start + SamplesPerPacket - 1)]
           /\ initialized' = TRUE
<1> DEFINE p     == Stream[n][k]
           raw   == RawIdx(p.tsf)
           buf   == IF n \in Known THEN node_buffers[n] ELSE NewBuffer(raw)
           start == StartIdx(buf, raw)
<1>1. p \in [tsf : Nat, at : Nat] /\ Distance(raw, p.at) <= TimestampError
  BY StreamHoldsPackets
<1>2. raw \in Nat
  BY <1>1, RawIdxIsIndex
<1>3. /\ IsBuffer(buf)
      /\ DOMAIN buf.samples = IF n \in Known THEN DOMAIN node_buffers[n].samples ELSE {}
  <2>1. CASE n \in Known
    BY <2>1 DEF BuffersOK
  <2>2. CASE n \notin Known
    BY <2>2, <1>2, NewBufferIsBuffer
  <2> QED
    BY <2>1, <2>2
<1>4. start \in Nat /\ Distance(start, p.at) <= MaxDrift + TimestampError
  <2> HIDE DEF buf, p
  <2> QED
    BY <1>1, <1>3, StartIsNear
<1>5. /\ IsBuffer(Fill(buf, start, p))
      /\ DOMAIN Fill(buf, start, p).samples =
           DOMAIN buf.samples \cup (start .. start + SamplesPerPacket - 1)
  <2> HIDE DEF buf, p, start
  <2> QED
    BY <1>1, <1>3, <1>4, FillIsBuffer
<1>6. /\ node_buffers' = [m \in Known \cup {n} |->
                            IF m = n THEN Fill(buf, start, p) ELSE node_buffers[m]]
      /\ next_frame_start' = IF initialized THEN next_frame_start ELSE start
      /\ arrived' = [arrived EXCEPT ![n] = @ \cup (start .. start + SamplesPerPacket - 1)]
      /\ initialized' = TRUE
  BY DEF PushPacket
<1> HIDE DEF p, raw, buf, start
<1>7. Known' = Known \cup {n}
  BY <1>6 DEF Known
<1>8. node_buffers'[n] = Fill(buf, start, p) /\ \A m \in Known \ {n} : node_buffers'[m] = node_buffers[m]
  BY <1>6
<1> QED
  BY <1>3, <1>4, <1>5, <1>6, <1>7, <1>8

LEMMA PushKeepsBuffers ==
  ASSUME BuffersOK, NoArrivedSampleIsLost,
         NEW n \in Nodes, NEW k \in DOMAIN Stream[n], PushPacket(n, k)
  PROVE  BuffersOK' /\ NoArrivedSampleIsLost'
<1>1. PICK start \in Nat :
           /\ Known' = Known \cup {n}
           /\ \A m \in Known \ {n} : node_buffers'[m] = node_buffers[m]
           /\ IsBuffer(node_buffers'[n])
           /\ DOMAIN node_buffers'[n].samples =
                (IF n \in Known THEN DOMAIN node_buffers[n].samples ELSE {})
                  \cup (start .. start + SamplesPerPacket - 1)
           /\ next_frame_start' = IF initialized THEN next_frame_start ELSE start
           /\ arrived' = [arrived EXCEPT ![n] = @ \cup (start .. start + SamplesPerPacket - 1)]
           /\ initialized' = TRUE
  BY PushStores
<1>2. SamplesPerPacket \in Nat
  BY SynchronizerAssumption
<1>3. /\ arrived'[n] = arrived[n] \cup (start .. start + SamplesPerPacket - 1)
      /\ \A m \in Nodes \ {n} : arrived'[m] = arrived[m]
      /\ arrived' \in [Nodes -> SUBSET Nat]
  BY <1>1, <1>2 DEF BuffersOK
<1>4. IsFiniteSet(Known') /\ Known' \subseteq Nodes
  BY <1>1, FS_AddElement DEF BuffersOK
<1>5. \A m \in Known' : IsBuffer(node_buffers'[m])
  BY <1>1 DEF BuffersOK
<1>6. BuffersOK'
  <2>1. next_frame_start' \in Nat /\ initialized' \in BOOLEAN
    BY <1>1 DEF BuffersOK
  <2>2. \A m \in Nodes \ Known' : arrived'[m] = {}
    BY <1>1, <1>3 DEF BuffersOK
  <2>3. ~initialized' => Known' = {}
    BY <1>1
  <2> QED
    BY <1>3, <1>4, <1>5, <2>1, <2>2, <2>3 DEF BuffersOK
<1>7. \A m \in Known' : {i \in arrived'[m] : i >= next_frame_start'} =
                          {i \in DOMAIN node_buffers'[m].samples : i >= next_frame_start'}
  <2> TAKE m \in Known'
  <2>1. CASE m = n
    <3>1. CASE n \in Known
      <4>1. next_frame_start' = next_frame_start
        BY <1>1, <3>1 DEF BuffersOK
      <4>2. {i \in arrived[n] : i >= next_frame_start} =
              {i \in DOMAIN node_buffers[n].samples : i >= next_frame_start}
        BY <3>1 DEF NoArrivedSampleIsLost
      <4> QED
        BY <1>1, <1>3, <2>1, <3>1, <4>1, <4>2
    <3>2. CASE n \notin Known
      BY <1>1, <1>3, <2>1, <3>2 DEF BuffersOK
    <3> QED
      BY <3>1, <3>2
  <2>2. CASE m # n
    <3>1. m \in Known /\ m \in Nodes /\ next_frame_start' = next_frame_start
      BY <1>1, <2>2 DEF BuffersOK
    <3> QED
      BY <1>1, <1>3, <2>2, <3>1 DEF NoArrivedSampleIsLost
  <2> QED
    BY <2>1, <2>2
<1>8. pc' # "stages"
  BY DEF PushPacket
<1> QED
  BY <1>6, <1>7, <1>8 DEF NoArrivedSampleIsLost

LEMMA PushKeepsInvariant ==
  ASSUME IInv, NEW n \in Nodes, NEW k \in DOMAIN Stream[n], PushPacket(n, k)
  PROVE  IInv'
<1>1. BuffersOK' /\ NoArrivedSampleIsLost'
  BY PushKeepsBuffers DEF IInv
<1>2. pc = "idle" /\ pc' = "emit" /\ UNCHANGED <<pipeline_stages, configurations, stage, frame, ran>>
  BY DEF PushPacket, pipeline
<1>3. replays' \in 0 .. MaxReplays
  <2>1. replays' = replays \/ (replays < MaxReplays /\ replays' = replays + 1)
    BY DEF PushPacket, Arrives
  <2>2. replays \in 0 .. MaxReplays /\ MaxReplays \in Nat
    BY SynchronizerAssumption DEF IInv, ControlOK
  <2> QED
    BY ONLY <2>1, <2>2
<1>4. ControlOK'
  BY <1>2, <1>3 DEF IInv, ControlOK
<1>5. FrameOK'
  BY <1>2 DEF IInv, FrameOK
<1>6. StagesOK' /\ FrameUsesOneConfiguration' /\ LocationIsOfItsConfiguration'
  BY <1>2, StagesKept, RanKept DEF IInv
<1> QED
  BY <1>1, <1>4, <1>5, <1>6 DEF IInv

-----------------------------------------------------------------------------
(* A frame is cut, or not.                                                 *)

LEMMA EmitKeepsBuffers ==
  ASSUME BuffersOK, NoArrivedSampleIsLost, EmitFrame
  PROVE  BuffersOK' /\ NoArrivedSampleIsLost' /\ FrameOK'
<1>1. /\ Known' = Known
      /\ \A n \in Known : node_buffers'[n] = [node_buffers[n] EXCEPT !.samples = RestrictTo(@, BehindFrame(@))]
  BY DEF EmitFrame, Known
<1>2. /\ next_frame_start' = next_frame_start + FrameSize
      /\ UNCHANGED <<initialized, arrived>>
      /\ next_frame_start \in Nat /\ FrameSize \in Nat
      /\ arrived \in [Nodes -> SUBSET Nat] /\ Known \subseteq Nodes
  BY SynchronizerAssumption DEF EmitFrame, TargetEnd, BuffersOK
<1>3. \A n \in Known : IsBuffer(node_buffers[n])
  BY DEF BuffersOK
<1>4. \A n \in Known :
        /\ IsBuffer(node_buffers'[n])
        /\ DOMAIN node_buffers'[n].samples =
             {i \in DOMAIN node_buffers[n].samples : i >= next_frame_start + FrameSize}
  <2> TAKE n \in Known
  <2> DEFINE S == BehindFrame(node_buffers[n].samples)
  <2>1. S = {i \in DOMAIN node_buffers[n].samples : i >= next_frame_start + FrameSize}
    BY DEF BehindFrame, TargetEnd
  <2>2. node_buffers'[n] = Erased(node_buffers[n], S)
    BY <1>1 DEF Erased
  <2> HIDE DEF S
  <2>3. IsBuffer(node_buffers'[n]) /\ DOMAIN node_buffers'[n].samples = DOMAIN node_buffers[n].samples \cap S
    BY <1>3, <2>2, ErasedIsBuffer
  <2> QED
    BY <2>1, <2>3
<1>5. BuffersOK'
  BY <1>1, <1>2, <1>4 DEF BuffersOK
<1>6. \A n \in Known :
        {i \in arrived[n] : i >= next_frame_start} =
          {i \in DOMAIN node_buffers[n].samples : i >= next_frame_start}
  BY DEF NoArrivedSampleIsLost
<1>7. \A n \in Known : arrived[n] \subseteq Nat /\ DOMAIN node_buffers[n].samples \subseteq Nat
  <2> TAKE n \in Known
  <2>1. arrived[n] \subseteq Nat
    BY <1>2
  <2>2. Near(node_buffers[n].samples)
    BY <1>3 DEF IsBuffer
  <2> QED
    BY <2>1, <2>2 DEF Near
<1> DEFINE cut == [n \in Known |->
             RestrictTo(node_buffers[n].samples, next_frame_start .. TargetEnd - 1)]
<1>8. frame' = [start |-> next_frame_start, context |-> NewContext(cut)]
  BY DEF EmitFrame
<1>9. frame'.start = next_frame_start /\ frame'.context.audio = cut
  <2> HIDE DEF cut
  <2> QED
    BY <1>8 DEF NewContext
<1>10. \A n \in Known :
         /\ Near(cut[n])
         /\ DOMAIN cut[n] = DOMAIN node_buffers[n].samples
                              \cap (next_frame_start .. next_frame_start + FrameSize - 1)
  <2> TAKE n \in Known
  <2> DEFINE S == next_frame_start .. TargetEnd - 1
  <2>1. Near(node_buffers[n].samples) /\ cut[n] = RestrictTo(node_buffers[n].samples, S)
    BY <1>3 DEF IsBuffer
  <2>2. S = next_frame_start .. next_frame_start + FrameSize - 1
    BY <1>2 DEF TargetEnd
  <2> HIDE DEF S, cut
  <2>3. Near(RestrictTo(node_buffers[n].samples, S))
        /\ DOMAIN RestrictTo(node_buffers[n].samples, S) = DOMAIN node_buffers[n].samples \cap S
    BY <2>1, RestrictionIsNear
  <2> QED
    BY <2>1, <2>2, <2>3
<1>11. DOMAIN cut = Known
  OBVIOUS
<1> HIDE DEF cut
<1>12. \A n \in Known : {i \in arrived'[n] : i >= next_frame_start'} =
                           {i \in DOMAIN node_buffers'[n].samples : i >= next_frame_start'}
  BY <1>2, <1>4, <1>6, <1>7
<1>13. \A n \in Known : DOMAIN cut[n] = arrived[n] \cap (next_frame_start .. next_frame_start + FrameSize - 1)
  BY <1>2, <1>6, <1>7, <1>10
<1>14. NoArrivedSampleIsLost'
  BY <1>1, <1>2, <1>9, <1>12, <1>13 DEF NoArrivedSampleIsLost
<1>15. FrameOK'
  <2>1. IsFiniteSet(DOMAIN frame'.context.audio)
    BY <1>9, <1>11 DEF BuffersOK
  <2>2. frame' = [start |-> frame'.start, context |-> frame'.context]
    BY <1>8
  <2> QED
    BY <1>1, <1>2, <1>9, <1>10, <1>11, <2>1, <2>2 DEF FrameOK
<1> QED
  BY <1>5, <1>14, <1>15

LEMMA EmptyPrefix ==
  ASSUME NEW c
  PROVE  /\ SubSeq(Stages(c), 1, 0) = <<>>
         /\ Len(<<>>) = 0
BY SubSeqEmpty

LEMMA EmitKeepsInvariant ==
  ASSUME IInv, EmitFrame
  PROVE  IInv'
<1>1. BuffersOK' /\ NoArrivedSampleIsLost' /\ FrameOK'
  BY EmitKeepsBuffers DEF IInv
<1>2. /\ pc' = "stages" /\ stage' = 1 /\ ran' = <<>>
      /\ UNCHANGED <<pipeline_stages, configurations, replays>>
  BY DEF EmitFrame, pipeline, sender
<1>3. ControlOK'
  BY <1>2 DEF IInv, ControlOK
<1>4. PICK audio : frame'.context = NewContext(audio)
  BY DEF EmitFrame
<1>5. frame'.context.location = NoWhere /\ frame'.context.tdoa = {} /\ IsContext(frame'.context)
  BY <1>4 DEF NewContext, IsContext
<1>6. StagesOK'
  <2>1. PICK c \in Configurations \cup {NoConfiguration} :
          pipeline_stages = Stages(c) /\ stage \in 1 .. Len(Stages(c)) + 1
    BY DEF IInv, StagesOK
  <2>2. pipeline_stages' = Stages(c) /\ stage' \in 1 .. Len(Stages(c)) + 1
    BY <1>2, <2>1
  <2>3. ran' = SubSeq(Stages(c), 1, stage' - 1)
    BY <1>2, EmptyPrefix
  <2>4. Within(c)'
    BY <1>2, <1>5, <2>3 DEF Within
  <2> QED
    BY <1>2, <1>5, <2>2, <2>4 DEF StagesOK
<1>7. FrameUsesOneConfiguration'
  <2>1. Len(ran') <= Len(Stages(NoConfiguration)) /\ ran' = SubSeq(Stages(NoConfiguration), 1, Len(ran'))
    <3>1. Len(Stages(NoConfiguration)) \in Nat
      BY DEF Stages, StageNames, NoConfiguration
    <3> QED
      BY <1>2, <3>1, EmptyPrefix
  <2> QED
    BY <2>1 DEF FrameUsesOneConfiguration
<1>8. LocationIsOfItsConfiguration'
  BY <1>5 DEF LocationIsOfItsConfiguration
<1> QED
  BY <1>1, <1>3, <1>6, <1>7, <1>8 DEF IInv

LEMMA NoFrameKeepsInvariant ==
  ASSUME IInv, NoMoreFrames
  PROVE  IInv'
<1>1. /\ pc = "emit" /\ pc' = "idle" /\ ran' = <<>> /\ frame' = NoFrame
      /\ UNCHANGED <<buffers, arrived, pipeline_stages, configurations, replays, stage>>
  BY DEF NoMoreFrames, pipeline, sender
<1>2. BuffersOK' /\ NoArrivedSampleIsLost'
  BY <1>1, BuffersUnchanged, NothingLostUnchanged DEF IInv
<1>3. ControlOK'
  BY <1>1 DEF IInv, ControlOK
<1>4. /\ frame'.start = 0 /\ DOMAIN frame'.context.audio = {}
      /\ frame'.context.location = NoWhere /\ IsContext(frame'.context)
      /\ frame' = [start |-> frame'.start, context |-> frame'.context]
  BY <1>1 DEF NoFrame, NewContext, IsContext
<1>5. FrameOK'
  BY <1>1, <1>4, FS_EmptySet DEF FrameOK
<1>6. StagesOK'
  BY <1>1, <1>4 DEF IInv, StagesOK
<1>7. FrameUsesOneConfiguration'
  <2>1. Len(Stages(NoConfiguration)) \in Nat
    BY DEF Stages, StageNames, NoConfiguration
  <2> QED
    BY <1>1, <2>1, EmptyPrefix DEF FrameUsesOneConfiguration
<1>8. LocationIsOfItsConfiguration'
  BY <1>4 DEF LocationIsOfItsConfiguration
<1> QED
  BY <1>2, <1>3, <1>5, <1>6, <1>7, <1>8 DEF IInv

LEMMA StagesDoneKeepsInvariant ==
  ASSUME IInv, StagesDone
  PROVE  IInv'
<1>1. /\ pc = "stages" /\ pc' = "emit" /\ stage' = 1
      /\ UNCHANGED <<buffers, arrived, pipeline_stages, configurations, replays, frame, ran>>
  BY DEF StagesDone, EndOfFrame, pipeline, sender
<1>2. BuffersOK' /\ NoArrivedSampleIsLost'
  BY <1>1, BuffersUnchanged, NothingLostUnchanged DEF IInv
<1>3. ControlOK' /\ FrameOK'
  BY <1>1 DEF IInv, ControlOK, FrameOK
<1>4. StagesOK'
  <2>1. PICK c \in Configurations \cup {NoConfiguration} :
          pipeline_stages = Stages(c) /\ stage \in 1 .. Len(Stages(c)) + 1
    BY DEF IInv, StagesOK
  <2>2. Len(Stages(c)) \in Nat
    BY DEF Stages, StageNames
  <2> QED
    BY <1>1, <2>1, <2>2 DEF IInv, StagesOK
<1>5. FrameUsesOneConfiguration' /\ LocationIsOfItsConfiguration'
  BY <1>1, RanKept DEF IInv
<1> QED
  BY <1>2, <1>3, <1>4, <1>5 DEF IInv

(* The configuration thread.                                               *)
LEMMA SetPipelineKeepsInvariant ==
  ASSUME IInv, NEW c \in Configurations, SetPipelineStages(c)
  PROVE  IInv'
<1>1. /\ pc # "stages" /\ pipeline_stages' = Stages(c)
      /\ configurations < MaxConfigurations /\ configurations' = configurations + 1
      /\ UNCHANGED <<buffers, arrived, replays, pc, stage, frame, ran>>
  BY DEF SetPipelineStages, PipelineMutexFree, sender
<1>2. BuffersOK' /\ NoArrivedSampleIsLost'
  BY <1>1, BuffersUnchanged, NothingLostUnchanged DEF IInv
<1>3. ControlOK'
  <2>1. configurations' \in 0 .. MaxConfigurations
    BY <1>1, SynchronizerAssumption DEF IInv, ControlOK
  <2> QED
    BY <1>1, <2>1 DEF IInv, ControlOK
<1>4. FrameOK'
  BY <1>1 DEF IInv, FrameOK
<1>5. StagesOK'
  <2>1. Len(Stages(c)) \in Nat
    BY DEF Stages, StageNames
  <2>2. stage = 1
    BY <1>1 DEF IInv, StagesOK
  <2> QED
    BY <1>1, <2>1, <2>2 DEF IInv, StagesOK
<1>6. FrameUsesOneConfiguration' /\ LocationIsOfItsConfiguration'
  BY <1>1, RanKept DEF IInv
<1> QED
  BY <1>2, <1>3, <1>4, <1>5, <1>6 DEF IInv

-----------------------------------------------------------------------------
(* The stages of a pipeline.                                               *)

LEMMA FunctionIsSeq ==
  ASSUME NEW S, NEW n \in Nat, NEW f \in [1 .. n -> S]
  PROVE  f \in Seq(S) /\ Len(f) = n
<1>1. f \in Seq(S)
  BY SeqDef, Zenon
<1>2. DOMAIN f = 1 .. Len(f) /\ Len(f) \in Nat
  BY <1>1, LenProperties
<1>3. DOMAIN f = 1 .. n
  OBVIOUS
<1> QED
  BY <1>1, <1>2, <1>3

LEMMA StagesOfNothing ==
  ASSUME NEW c, c.nodes = {}
  PROVE  /\ Len(Stages(c)) = 1
         /\ Stages(c)[1] = [name |-> "VAD", configuration |-> c]
         /\ Stages(c) \in Seq({Stages(c)[1]})
<1>1. StageNames(c) = <<"VAD">> /\ DOMAIN StageNames(c) = {1}
  BY DEF StageNames
<1>2. Stages(c) = [i \in {1} |-> [name |-> <<"VAD">>[i], configuration |-> c]]
  BY <1>1 DEF Stages
<1>3. Stages(c)[1] = [name |-> "VAD", configuration |-> c]
  BY <1>2
<1>4. {1} = 1 .. 1
  OBVIOUS
<1>5. Stages(c) \in [1 .. 1 -> {Stages(c)[1]}]
  BY <1>2, <1>4
<1>6. Len(Stages(c)) = 1 /\ Stages(c) \in Seq({Stages(c)[1]})
  <2> DEFINE S == {Stages(c)[1]}
             n == 1
  <2>1. Stages(c) \in [1 .. n -> S] /\ n \in Nat
    BY <1>5
  <2> HIDE DEF S, n
  <2>2. Stages(c) \in Seq(S) /\ Len(Stages(c)) = n
    BY <2>1, FunctionIsSeq
  <2> QED
    BY <2>2 DEF S, n
<1> QED
  BY <1>3, <1>6

LEMMA StagesOfNodes ==
  ASSUME NEW c, c.nodes # {}
  PROVE  /\ Len(Stages(c)) = 3
         /\ Stages(c)[1] = [name |-> "VAD", configuration |-> c]
         /\ Stages(c)[2] = [name |-> "GCCPhat", configuration |-> c]
         /\ Stages(c)[3] = [name |-> "PositionSolver", configuration |-> c]
         /\ Stages(c) \in Seq({Stages(c)[1], Stages(c)[2], Stages(c)[3]})
<1>1. StageNames(c) = <<"VAD", "GCCPhat", "PositionSolver">> /\ DOMAIN StageNames(c) = 1 .. 3
  BY DEF StageNames
<1>2. Stages(c) = [i \in 1 .. 3 |-> [name |-> StageNames(c)[i], configuration |-> c]]
  BY <1>1 DEF Stages
<1>3. /\ Stages(c)[1] = [name |-> "VAD", configuration |-> c]
      /\ Stages(c)[2] = [name |-> "GCCPhat", configuration |-> c]
      /\ Stages(c)[3] = [name |-> "PositionSolver", configuration |-> c]
  BY <1>1, <1>2
<1>4. \A i \in 1 .. 3 : i = 1 \/ i = 2 \/ i = 3
  OBVIOUS
<1>5. Stages(c) \in [1 .. 3 -> {Stages(c)[1], Stages(c)[2], Stages(c)[3]}]
  BY <1>2, <1>4
<1>6. Len(Stages(c)) = 3 /\ Stages(c) \in Seq({Stages(c)[1], Stages(c)[2], Stages(c)[3]})
  <2> DEFINE S == {Stages(c)[1], Stages(c)[2], Stages(c)[3]}
           n == 3
  <2>1. Stages(c) \in [1 .. n -> S] /\ n \in Nat
    BY <1>5
  <2> HIDE DEF S, n
  <2>2. Stages(c) \in Seq(S) /\ Len(Stages(c)) = n
    BY <2>1, FunctionIsSeq
  <2> QED
    BY <2>2 DEF S, n
<1> QED
  BY <1>3, <1>6

(* Running the next stage extends the prefix of the stages that ran.       *)
LEMMA PrefixGrows ==
  ASSUME NEW c, NEW k \in 1 .. Len(Stages(c))
  PROVE  /\ Append(SubSeq(Stages(c), 1, k - 1), Stages(c)[k]) = SubSeq(Stages(c), 1, k)
         /\ Len(SubSeq(Stages(c), 1, k)) = k
         /\ SubSeq(Stages(c), 1, Len(Stages(c))) = Stages(c)
         /\ Len(Stages(c)) \in Nat
<1>1. PICK S : Stages(c) \in Seq(S)
  <2>1. CASE c.nodes = {}
    BY <2>1, StagesOfNothing, Zenon
  <2>2. CASE c.nodes # {}
    BY <2>2, StagesOfNodes, Zenon
  <2> QED
    BY <2>1, <2>2
<1>2. Len(Stages(c)) \in Nat /\ \A i \in 1 .. Len(Stages(c)) : Stages(c)[i] \in S
  BY <1>1, LenProperties, ElementOfSeq
<1>3. SubSeq(Stages(c), 1, k - 1) \in Seq(S) /\ Stages(c)[k] \in S
  BY <1>2, SubSeqProperties
<1>4. SubSeq(Stages(c), 1, k) = SubSeq(Stages(c), 1, k - 1) \o <<Stages(c)[k]>>
  BY <1>1, <1>2, SubSeqRecursiveSecond
<1>5. Append(SubSeq(Stages(c), 1, k - 1), Stages(c)[k]) =
        SubSeq(Stages(c), 1, k - 1) \o <<Stages(c)[k]>>
  BY <1>3, AppendIsConcat
<1>6. Len(SubSeq(Stages(c), 1, k)) = k
  BY <1>2, SubSeqProperties
<1> QED
  BY <1>1, <1>2, <1>4, <1>5, <1>6, SubSeqFull

-----------------------------------------------------------------------------
(* What each stage does to a context.                                      *)

LEMMA VADKeeps ==
  ASSUME NEW c, IsContext(c), NEW d \in VADFilter(c)
  PROVE  IsContext(d) /\ d.audio = c.audio /\ d.tdoa = c.tdoa /\ d.location = c.location
<1>1. PICK v : d = [c EXCEPT !.vad_active = v]
  BY DEF VADFilter
<1> QED
  BY <1>1 DEF IsContext

LEMMA GCCPhatMeasures ==
  ASSUME NEW c, IsContext(c), c.tdoa = {}, NEW configuration, NEW d \in GCCPhat(c, configuration)
  PROVE  /\ IsContext(d) /\ d.audio = c.audio /\ d.location = c.location
         /\ d.tdoa # {} => Measured(d, configuration)
<1>1. CASE d = c
  BY <1>1
<1>2. CASE d # c
  <2>1. PICK r \in References(c, configuration) : d = [c EXCEPT !.tdoa = Pairs(c, r)]
    BY <1>2 DEF GCCPhat, Pairs
  <2>2. IsContext(d) /\ d.audio = c.audio /\ d.location = c.location /\ d.tdoa = Pairs(c, r)
    BY <2>1 DEF IsContext
  <2>3. r \in References(d, configuration) /\ d.tdoa = Pairs(d, r)
    BY <2>2 DEF References, Pairs
  <2> QED
    BY <2>2, <2>3 DEF Measured
<1> QED
  BY <1>1, <1>2

(* The measurements used are those of all nodes of c that were heard, at   *)
(* least three, against c's own reference.                                 *)
LocatedBy(audio, used, c) ==
  LET heard == c.nodes \cap DOMAIN audio
  IN  /\ c.reference \in heard
      /\ Cardinality(heard) >= 3
      /\ used = (heard \ {c.reference}) \X {c.reference}

(* Measurements that the solver can use are against its own reference, one *)
(* of each other configured node of the frame.                             *)
LEMMA UsableIsWhatWasHeard ==
  ASSUME NEW c, IsFiniteSet(DOMAIN c.audio), NEW configuration,
         configuration.reference \in configuration.nodes,
         Measured(c, configuration), Cardinality(Usable(c, configuration)) >= 2
  PROVE  LocatedBy(c.audio, Usable(c, configuration), configuration)
<1> DEFINE D == DOMAIN c.audio
           ref == configuration.reference
           heard == configuration.nodes \cap D
           use == Usable(c, configuration)
<1>1. PICK r \in References(c, configuration) : c.tdoa = Pairs(c, r)
  BY DEF Measured
<1>2. r \in D /\ (ref \in D => r = ref)
  BY <1>1 DEF References
<1>3. use = {p \in Pairs(c, r) : p[1] \in configuration.nodes \ {ref} /\ p[2] = ref}
  BY <1>1 DEF Usable
<1>4. use # {}
  <2>1. Cardinality({}) = 0
    BY FS_EmptySet
  <2> QED
    BY <2>1
<1>5. ref \in D
  <2>1. PICK p \in Pairs(c, r) : p[2] = ref
    BY <1>3, <1>4
  <2> QED
    BY <1>2, <2>1 DEF Pairs
<1>6. r = ref
  BY <1>2, <1>5
<1>7. use = (heard \ {ref}) \X {ref}
  <2>1. \A p \in use : p \in (heard \ {ref}) \X {ref}
    BY <1>3, <1>6 DEF Pairs
  <2>2. \A p \in (heard \ {ref}) \X {ref} : p \in use
    <3> TAKE p \in (heard \ {ref}) \X {ref}
    <3>1. PICK n \in heard \ {ref} : p = <<n, ref>>
      OBVIOUS
    <3>2. p \in Pairs(c, r)
      BY <1>6, <3>1 DEF Pairs
    <3> QED
      BY <1>3, <3>1, <3>2
  <2> HIDE DEF use, heard, ref
  <2> QED
    BY <2>1, <2>2
<1>8. IsFiniteSet(heard) /\ Cardinality(heard) \in Nat
  BY FS_Subset, FS_CardinalityType
<1>9. ref \in heard
  BY <1>5
<1>10. IsFiniteSet(heard \ {ref}) /\ Cardinality(heard \ {ref}) = Cardinality(heard) - 1
  BY <1>8, <1>9, FS_RemoveElement
<1>11. IsFiniteSet({ref}) /\ Cardinality({ref}) = 1
  BY FS_Singleton
<1>12. Cardinality(use) = Cardinality(heard \ {ref}) * Cardinality({ref})
  <2> HIDE DEF use, heard, ref
  <2> QED
    BY <1>7, <1>10, <1>11, FS_Product
<1>13. Cardinality(heard) >= 3
  <2>1. Cardinality(use) >= 2
    OBVIOUS
  <2> HIDE DEF use, heard, ref
  <2> QED
    BY <1>8, <1>10, <1>11, <1>12, <2>1
<1> QED
  BY <1>7, <1>9, <1>13 DEF LocatedBy

LEMMA PositionSolverLocates ==
  ASSUME NEW c, IsContext(c), IsFiniteSet(DOMAIN c.audio), c.location = NoWhere,
         NEW configuration, configuration.reference \in configuration.nodes,
         Measured(c, configuration), NEW d \in PositionSolver(c, configuration)
  PROVE  /\ IsContext(d) /\ d.audio = c.audio
         /\ d.location # NoWhere => LocatedBy(d.audio, d.used, configuration)
<1>1. CASE d = c
  BY <1>1
<1>2. CASE d # c
  <2>1. /\ Cardinality(Usable(c, configuration)) >= 2
        /\ \E l \in {Inside, Outside} :
             d = [c EXCEPT !.used = Usable(c, configuration), !.location = l]
    BY <1>2 DEF PositionSolver, Solvable
  <2>2. IsContext(d) /\ d.audio = c.audio /\ d.used = Usable(c, configuration)
    BY <2>1 DEF IsContext
  <2>3. LocatedBy(d.audio, d.used, configuration)
    BY <2>1, <2>2, UsableIsWhatWasHeard
  <2> QED
    BY <2>2, <2>3
<1> QED
  BY <1>1, <1>2

-----------------------------------------------------------------------------
(* A stage runs.                                                           *)

(* What holds of a frame when the stage that is named s.name has left the  *)
(* context d: it ends there, or the next stage finds what it needs.        *)
LEMMA StageRuns ==
  ASSUME IInv, NEW c \in Configurations \cup {NoConfiguration},
         pipeline_stages = Stages(c), Within(c), stage \in 1 .. Len(Stages(c)),
         NEW d \in Process(Stages(c)[stage], frame.context)
  PROVE  /\ IsContext(d) /\ d.audio = frame.context.audio
         /\ GoesOn(Stages(c)[stage], d) =>
              /\ stage + 1 <= 3 => d.location = NoWhere
              /\ stage + 1 <= 2 => d.tdoa = {}
              /\ stage + 1 = 3 => Measured(d, c)
         /\ d.location # NoWhere =>
              stage = 3 /\ Len(Stages(c)) = 3 /\ c \in Configurations /\ LocatedBy(d.audio, d.used, c)
<1>1. IsContext(frame.context) /\ IsFiniteSet(DOMAIN frame.context.audio)
  BY DEF IInv, StagesOK, FrameOK
<1>2. CASE stage = 1
  <2>1. Stages(c)[stage] = [name |-> "VAD", configuration |-> c]
    BY <1>2, StagesOfNothing, StagesOfNodes
  <2>2. d \in VADFilter(frame.context)
    BY <2>1 DEF Process
  <2>3. frame.context.location = NoWhere /\ frame.context.tdoa = {}
    BY <1>2 DEF Within
  <2> QED
    BY <1>1, <1>2, <2>2, <2>3, VADKeeps
<1>3. CASE stage # 1
  <2>1. c.nodes # {}
    <3> SUFFICES ASSUME c.nodes = {} PROVE FALSE
      OBVIOUS
    <3>1. Len(Stages(c)) = 1
      BY StagesOfNothing
    <3> QED
      BY ONLY <1>3, <3>1, stage \in 1 .. Len(Stages(c))
  <2>2. c \in Configurations /\ c.reference \in c.nodes
    BY <2>1, SynchronizerAssumption DEF NoConfiguration
  <2>3. /\ Len(Stages(c)) = 3
        /\ Stages(c)[2] = [name |-> "GCCPhat", configuration |-> c]
        /\ Stages(c)[3] = [name |-> "PositionSolver", configuration |-> c]
    BY <2>1, StagesOfNodes
  <2>4. stage = 2 \/ stage = 3
    BY <1>3, <2>3
  <2>5. frame.context.location = NoWhere
    BY <2>4 DEF Within
  <2>6. CASE stage = 2
    <3>1. d \in GCCPhat(frame.context, c) /\ (GoesOn(Stages(c)[stage], d) => d.tdoa # {})
      <4> DEFINE s == Stages(c)[stage]
      <4>1. s.name = "GCCPhat" /\ s.configuration = c
        BY <2>3, <2>6
      <4> HIDE DEF s
      <4>2. Process(s, frame.context) = GCCPhat(frame.context, c) /\ (GoesOn(s, d) => d.tdoa # {})
        BY <4>1 DEF Process, GoesOn
      <4> QED
        BY <4>2 DEF s
    <3>2. frame.context.tdoa = {}
      BY <2>6 DEF Within
    <3> QED
      BY <1>1, <2>5, <2>6, <3>1, <3>2, GCCPhatMeasures
  <2>7. CASE stage = 3
    <3>1. d \in PositionSolver(frame.context, c)
      BY <2>3, <2>7 DEF Process
    <3>2. Measured(frame.context, c)
      BY <2>7 DEF Within
    <3> QED
      BY <1>1, <2>2, <2>3, <2>5, <2>7, <3>1, <3>2, PositionSolverLocates
  <2> QED
    BY <2>4, <2>6, <2>7
<1> QED
  BY <1>2, <1>3

LEMMA RunStageKeepsInvariant ==
  ASSUME IInv, RunStage
  PROVE  IInv'
<1>1. PICK c \in Configurations \cup {NoConfiguration} :
        /\ pipeline_stages = Stages(c)
        /\ Within(c)
  BY DEF RunStage, IInv, StagesOK
<1>2. /\ pc = "stages" /\ stage \in 1 .. Len(Stages(c))
      /\ ran' = Append(ran, Stages(c)[stage])
      /\ UNCHANGED <<buffers, pipeline_stages, configurations, replays, arrived>>
  BY <1>1 DEF RunStage, IInv, StagesOK, pipeline, sender
<1>3. PICK d \in Process(Stages(c)[stage], frame.context) :
        /\ frame' = [frame EXCEPT !.context = d]
        /\ \/ GoesOn(Stages(c)[stage], d) /\ pc' = "stages" /\ stage' = stage + 1
           \/ pc' = "emit" /\ stage' = 1
  BY <1>1 DEF RunStage, EndOfFrame
<1>4. /\ IsContext(d) /\ d.audio = frame.context.audio
      /\ GoesOn(Stages(c)[stage], d) =>
           /\ stage + 1 <= 3 => d.location = NoWhere
           /\ stage + 1 <= 2 => d.tdoa = {}
           /\ stage + 1 = 3 => Measured(d, c)
      /\ d.location # NoWhere =>
           stage = 3 /\ Len(Stages(c)) = 3 /\ c \in Configurations /\ LocatedBy(d.audio, d.used, c)
  BY <1>1, <1>2, StageRuns
<1>5. frame' = [start |-> frame.start, context |-> d] /\ frame'.start = frame.start /\ frame'.context = d
  BY <1>3 DEF IInv, FrameOK
<1>6. BuffersOK' /\ NoArrivedSampleIsLost'
  BY <1>2, <1>4, <1>5, BuffersUnchanged, NothingLostUnchanged DEF IInv
<1>7. ControlOK'
  BY <1>2, <1>3 DEF IInv, ControlOK
<1>8. FrameOK'
  BY <1>2, <1>4, <1>5 DEF IInv, FrameOK, Known, buffers
<1>9. ran' = SubSeq(Stages(c), 1, stage) /\ Len(ran') = stage
  BY <1>1, <1>2, PrefixGrows DEF Within
<1>10. StagesOK'
  <2>1. CASE pc' = "stages"
    <3>1. GoesOn(Stages(c)[stage], d) /\ stage' = stage + 1
      BY <1>3, <2>1
    <3>2. stage' \in 1 .. Len(Stages(c)) + 1 /\ stage' - 1 = stage
      BY <1>2, <3>1, PrefixGrows
    <3>3. Within(c)'
      BY <1>4, <1>5, <1>9, <3>1, <3>2 DEF Within
    <3> QED
      BY <1>1, <1>2, <1>4, <1>5, <2>1, <3>2, <3>3 DEF StagesOK
  <2>2. CASE pc' # "stages"
    <3>1. stage' = 1 /\ stage' \in 1 .. Len(Stages(c)) + 1
      BY <1>2, <1>3, <2>2, PrefixGrows
    <3> QED
      BY <1>1, <1>2, <1>4, <1>5, <2>2, <3>1 DEF StagesOK
  <2> QED
    BY <2>1, <2>2
<1>11. FrameUsesOneConfiguration'
  BY <1>2, <1>9, PrefixGrows DEF FrameUsesOneConfiguration
<1>12. LocationIsOfItsConfiguration'
  <2>1. CASE d.location = NoWhere
    BY <1>5, <2>1 DEF LocationIsOfItsConfiguration
  <2>2. CASE d.location # NoWhere
    <3>1. ran' = Stages(c)
      BY <1>2, <1>4, <1>9, <2>2, PrefixGrows
    <3> QED
      BY <1>4, <1>5, <2>2, <3>1 DEF LocationIsOfItsConfiguration, LocatedBy
  <2> QED
    BY <2>1, <2>2
<1> QED
  BY <1>6, <1>7, <1>8, <1>10, <1>11, <1>12 DEF IInv

-----------------------------------------------------------------------------
(* The theorems.                                                           *)

LEMMA InitEstablishes == Init => IInv
<1> SUFFICES ASSUME Init PROVE IInv
  OBVIOUS
<1>1. Known = {} /\ pc = "idle" /\ stage = 1 /\ ran = <<>> /\ frame = NoFrame
  BY DEF Init, Known
<1>2. BuffersOK
  BY <1>1, FS_EmptySet DEF Init, BuffersOK
<1>3. ControlOK
  BY SynchronizerAssumption DEF Init, ControlOK
<1>4. /\ frame = [start |-> frame.start, context |-> frame.context]
      /\ frame.start = 0 /\ DOMAIN frame.context.audio = {}
      /\ frame.context.location = NoWhere /\ IsContext(frame.context)
  BY <1>1 DEF NoFrame, NewContext, IsContext
<1>5. FrameOK
  BY <1>1, <1>4, FS_EmptySet DEF FrameOK
<1>6. Len(Stages(NoConfiguration)) = 1
  BY StagesOfNothing DEF NoConfiguration
<1>7. StagesOK
  <2>1. pipeline_stages = Stages(NoConfiguration)
    BY DEF Init
  <2> QED
    BY <1>1, <1>4, <1>6, <2>1 DEF StagesOK
<1>8. NoArrivedSampleIsLost
  BY <1>1 DEF NoArrivedSampleIsLost
<1>9. FrameUsesOneConfiguration
  BY <1>1, <1>6, EmptyPrefix DEF FrameUsesOneConfiguration
<1>10. LocationIsOfItsConfiguration
  BY <1>4 DEF LocationIsOfItsConfiguration
<1> QED
  BY <1>2, <1>3, <1>5, <1>7, <1>8, <1>9, <1>10 DEF IInv

LEMMA StepKeepsInvariant == IInv /\ [Next]_vars => IInv'
<1> SUFFICES ASSUME IInv, [Next]_vars PROVE IInv'
  OBVIOUS
<1>1. ASSUME NEW n \in Nodes, NEW k \in DOMAIN Stream[n], PushPacket(n, k) PROVE IInv'
  BY <1>1, PushKeepsInvariant
<1>2. CASE EmitFrame
  BY <1>2, EmitKeepsInvariant
<1>3. CASE RunStage
  BY <1>3, RunStageKeepsInvariant
<1>4. CASE StagesDone
  BY <1>4, StagesDoneKeepsInvariant
<1>5. CASE NoMoreFrames
  BY <1>5, NoFrameKeepsInvariant
<1>6. ASSUME NEW c \in Configurations, SetPipelineStages(c) PROVE IInv'
  BY <1>6, SetPipelineKeepsInvariant
<1>7. CASE UNCHANGED vars
  <2>1. UNCHANGED <<buffers, pipeline_stages, configurations, pc, stage, frame, replays, arrived, ran>>
    BY <1>7 DEF vars, pipeline, sender
  <2>2. BuffersOK' /\ NoArrivedSampleIsLost' /\ FrameUsesOneConfiguration' /\ LocationIsOfItsConfiguration'
    BY <2>1, BuffersUnchanged, NothingLostUnchanged, RanKept DEF IInv
  <2>3. ControlOK' /\ FrameOK' /\ StagesOK'
    BY <2>1 DEF IInv, ControlOK, FrameOK, StagesOK, Within, Known, buffers
  <2> QED
    BY <2>2, <2>3 DEF IInv
<1> QED
  BY <1>1, <1>2, <1>3, <1>4, <1>5, <1>6, <1>7 DEF Next, DrainThread

(* The invariant holds for every number of nodes, every stream whose       *)
(* timestamps keep their bound and every sequence of configurations.       *)
THEOREM Invariance == Spec => []IInv
BY InitEstablishes, StepKeepsInvariant, PTL DEF Spec

(* Known nodes, buffers, indices and stages keep their types: no sample is *)
(* stored behind max_sample_index, by which tryEmitFrame() decides.        *)
THEOREM TypeCorrect == Spec => []TypeOK
<1>1. IInv => TypeOK
  <2> SUFFICES ASSUME IInv PROVE TypeOK
    OBVIOUS
  <2>1. \A n \in Known :
          /\ node_buffers[n].max_sample_index \in Nat
          /\ node_buffers[n].expected_next_idx \in Nat
          /\ DOMAIN node_buffers[n].samples \subseteq 0 .. node_buffers[n].max_sample_index - 1
    BY DEF IInv, BuffersOK, IsBuffer
  <2>2. stage \in 1 .. Len(pipeline_stages) + 1
    BY DEF IInv, StagesOK
  <2>3. \A n \in Nodes : arrived[n] \subseteq Nat
    BY DEF IInv, BuffersOK
  <2> QED
    BY <2>1, <2>2, <2>3 DEF IInv, BuffersOK, ControlOK, TypeOK
<1> QED
  BY Invariance, <1>1, PTL

(* However packets go missing or come twice, every stored or framed sample *)
(* stays within the tolerated drift plus the error of the timestamps of    *)
(* its capture (pushPacket()).                                             *)
THEOREM SamplesStayNear == Spec => []PlacedNearCapture
<1>1. IInv => PlacedNearCapture
  BY DEF IInv, BuffersOK, FrameOK, IsBuffer, Near, PlacedNearCapture
<1> QED
  BY Invariance, <1>1, PTL

(* What arrived before its frame was cut is in the frame or still stored,  *)
(* and nothing else is (tryEmitFrame(), and clearing of strays).           *)
THEOREM NothingIsLost == Spec => []NoArrivedSampleIsLost
<1>1. IInv => NoArrivedSampleIsLost
  BY DEF IInv
<1> QED
  BY Invariance, <1>1, PTL

(* No frame meets the stages of two configurations (pipeline_mutex_).      *)
THEOREM OneConfigurationPerFrame == Spec => []FrameUsesOneConfiguration
<1>1. IInv => FrameUsesOneConfiguration
  BY DEF IInv
<1> QED
  BY Invariance, <1>1, PTL

(* A location rests on the measurements of at least three nodes of one     *)
(* configuration against the reference of that configuration (GCCPhat.cpp, *)
(* PositionSolver.cpp).                                                    *)
THEOREM LocationsAreConsistent == Spec => []LocationIsOfItsConfiguration
<1>1. IInv => LocationIsOfItsConfiguration
  BY DEF IInv
<1> QED
  BY Invariance, <1>1, PTL
=============================================================================

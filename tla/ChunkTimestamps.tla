--------------------------- MODULE ChunkTimestamps ---------------------------
(***************************************************************************)
(* The time stamps of a node's audio: i2s_mic_reader_task() reads the      *)
(* Wi-Fi's TSF clock when a chunk of samples has been read, takes off the  *)
(* time that the samples read so far should have taken, and filters what   *)
(* is left, the offset, by its minimum over the last reads and by a moving *)
(* average, to get rid of the delays of scheduling.  audio_transmitter.c   *)
(* numbers the chunks.                                                     *)
(*                                                                         *)
(* The TSF is the time that the samples are judged by: the sampling is     *)
(* taken to run at its nominal rate.  A read comes up to MaxDelay ticks    *)
(* late, and samples may be lost before a read, which then are not counted.*)
(***************************************************************************)
EXTENDS Integers, Sequences

CONSTANTS SamplesPerChunk,  (* read_frames: 256                               *)
          SampleRate,       (* 48000                                          *)
          TicksPerSecond,   (* of the TSF: 1000000                            *)
          HistoryLength,    (* of offset_history: 100                         *)
          Inertia,          (* weight of the smoothed offset: 127, out of 128 *)
          Boot,             (* the TSF when the sampling starts               *)
          MaxDelay,         (* how late a read may come, in ticks             *)
          MaxChunks,        (* bound: chunks read                             *)
          MaxLost           (* bound: samples lost                            *)

ASSUME TimestampsAssumption ==
  /\ {SamplesPerChunk, SampleRate, TicksPerSecond, HistoryLength} \subseteq Nat \ {0}
  /\ {Inertia, Boot, MaxDelay, MaxChunks, MaxLost} \subseteq Nat

VARIABLES
  total_samples_read,
  offset_history,    (* the last offsets, at most HistoryLength of them       *)
  smoothed_offset,   (* 0 as long as there is none                            *)
  current_seq_id,
  packet,            (* the last chunk sent: [seq, tsf], and start, the true  *)
                     (* time of its first sample                              *)
  lost               (* samples lost so far                                   *)

micVars == <<total_samples_read, offset_history, smoothed_offset, current_seq_id, packet, lost>>

NoPacket == [seq |-> -1, tsf |-> 0, start |-> 0]

MicInit ==
  /\ total_samples_read = 0
  /\ offset_history = <<>>
  /\ smoothed_offset = 0
  /\ current_seq_id = 0
  /\ packet = NoPacket
  /\ lost = 0

(* The ticks that a number of samples takes, rounded down.                 *)
Ticks(samples) == (samples * TicksPerSecond) \div SampleRate

Range(s) == {s[i] : i \in DOMAIN s}

IsMinimum(m, S) == m \in S /\ \A o \in S : m <= o

(* Mutation: the history keeps every offset.                               *)
RecentAll(s) == s

Recent(s) == IF Len(s) > HistoryLength THEN Tail(s) ELSE s

(* The quotient of C, which cuts towards 0.                                *)
Quotient(a, b) == IF a >= 0 THEN a \div b ELSE -((-a) \div b)

(* Mutation: the average starts from its initial value.                    *)
SmoothedFromZero(s, m) == Quotient(s * Inertia + m, Inertia + 1)

(* Mutation: no average is taken.                                          *)
SmoothedNot(s, m) == m

Smoothed(s, m) == IF s = 0 THEN m ELSE Quotient(s * Inertia + m, Inertia + 1)

ChunkEnd == total_samples_read + SamplesPerChunk

(* What a read that comes `delay' ticks late finds the TSF to be ahead of  *)
(* the samples.                                                            *)
Offset(delay) == Boot + Ticks(ChunkEnd + lost) + delay - Ticks(ChunkEnd)

(* audio_transmitter_send(): numbers the packet.  `start' is when its first *)
(* sample was captured.                                                    *)
AudioTransmitterSend(tsf_time) ==
  /\ packet' = [seq |-> current_seq_id, tsf |-> tsf_time,
                start |-> Boot + Ticks(total_samples_read + lost)]
  /\ current_seq_id' = current_seq_id + 1

(* The read of a chunk finds the given offset: the chunk is stamped with   *)
(* the time of its first sample and sent.                                  *)
ReadAt(offset) ==
  /\ current_seq_id < MaxChunks
  /\ offset_history' = Recent(Append(offset_history, offset))
  /\ \E min_offset \in Range(offset_history') :
       /\ IsMinimum(min_offset, Range(offset_history'))
       /\ smoothed_offset' = Smoothed(smoothed_offset, min_offset)
  /\ total_samples_read' = ChunkEnd
  /\ AudioTransmitterSend(smoothed_offset' + Ticks(total_samples_read))
  /\ UNCHANGED lost

(* A chunk was read, its last sample was captured `delay' ticks ago.       *)
ReadChunk(delay) == ReadAt(Offset(delay))

(* The buffers of the driver overflow, or a read fails.                    *)
LoseSamples(n) ==
  /\ lost + n <= MaxLost
  /\ lost' = lost + n
  /\ UNCHANGED <<total_samples_read, offset_history, smoothed_offset, current_seq_id, packet>>

MicNext ==
  \/ \E delay \in 0 .. MaxDelay : ReadChunk(delay)
  \/ \E n \in 1 .. MaxLost : LoseSamples(n)

-----------------------------------------------------------------------------
MicTypeOK ==
  /\ {total_samples_read, smoothed_offset, current_seq_id, lost} \subseteq Nat
  /\ offset_history \in Seq(Nat) /\ Len(offset_history) <= HistoryLength
  /\ packet = NoPacket \/ packet \in [seq : Nat, tsf : Nat, start : Nat]

(* A chunk's time stamp is late by no more than the longest delay of a     *)
(* read, whatever was read before, and early only by the time that lost    *)
(* samples took, which no later chunk makes up for at once.                *)
StampNearCapture ==
  packet # NoPacket =>
    /\ packet.tsf <= packet.start + MaxDelay + 1
    /\ packet.tsf >= packet.start - Ticks(lost) - 1
=============================================================================

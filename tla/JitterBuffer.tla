---------------------------- MODULE JitterBuffer ----------------------------
(***************************************************************************)
(* The class JitterBuffer of application/cpp_server as operators over a    *)
(* value, so that one buffer (module Playout) and the map of buffers, one  *)
(* per sender (module UDPServer), are built from the same definitions.     *)
(*                                                                         *)
(* A buffer is a record of the class's three data members.  `buffer' is    *)
(* the std::map: a function from the buffered sequence numbers to packets. *)
(* A packet carries its sequence number and its TSF timestamp; the samples *)
(* are abstracted to whether they are the memset silence of a dummy.       *)
(***************************************************************************)
EXTENDS Integers, FiniteSetsExt

CONSTANTS TargetBufferSize, (* buffer_size of the constructor, 5 by default   *)
          SeqMod,           (* uint32_t sequence numbers wrap here: 2^32      *)
          TsfMod,           (* uint64_t timestamps wrap here: 2^64            *)
          PacketPeriod      (* timestamp distance of two packets: 5333 us     *)

ASSUME JitterBufferAssumption ==
  /\ TargetBufferSize \in Nat \ {0}
  /\ SeqMod \in Nat \ {0, 1}
  /\ TsfMod \in Nat \ {0}
  /\ PacketPeriod \in Nat

Seqs    == 0 .. SeqMod - 1
Tsfs    == 0 .. TsfMod - 1
Packets == [seq : Seqs, tsf : Tsfs, silent : BOOLEAN]

(* A default-constructed buffer, and what reset() restores.                *)
NewJitterBuffer ==
  [buffer |-> [s \in {} |-> s], next_play_seq |-> 0, buffering |-> TRUE]

Buffered(jb) == DOMAIN jb.buffer

(* The values of the class's members; SUBSET and function sets over all    *)
(* keys are avoided so that TLC can evaluate it.                           *)
IsJitterBuffer(jb) ==
  /\ jb = [buffer |-> jb.buffer, next_play_seq |-> jb.next_play_seq,
           buffering |-> jb.buffering]
  /\ Buffered(jb) \subseteq Seqs
  /\ jb.buffer \in [Buffered(jb) -> Packets]
  /\ jb.next_play_seq \in Seqs
  /\ jb.buffering \in BOOLEAN

(* buffer_[packet.sequence_id] = packet                                    *)
Store(buffer, p) ==
  [s \in DOMAIN buffer \cup {p.seq} |-> IF s = p.seq THEN p ELSE buffer[s]]

(* The uint32_t distance of the map's last and first key, plus one.        *)
Span(S) == (Max(S) - Min(S) + 1) % SeqMod

IsLate(jb, seq) == ~jb.buffering /\ seq < jb.next_play_seq

(* Mutation: the first packet into an empty buffer re-bases the position   *)
(* although play-out is running.                                           *)
PushRebasing(jb, p) ==
  LET stored == Store(jb.buffer, p)
      starts == jb.buffering /\ Span(DOMAIN stored) >= TargetBufferSize
  IN  IF Buffered(jb) # {} /\ IsLate(jb, p.seq) THEN jb
      ELSE [buffer        |-> stored,
            buffering     |-> jb.buffering /\ ~starts,
            next_play_seq |-> CASE starts -> Min(DOMAIN stored)
                                [] ~starts /\ Buffered(jb) = {} -> p.seq
                                [] OTHER -> jb.next_play_seq]

(* Mutation: play-out starts at the first packet that came, not the lowest.*)
PushFromFirst(jb, p) ==
  LET stored == Store(jb.buffer, p)
  IN  IF IsLate(jb, p.seq) THEN jb
      ELSE [buffer        |-> stored,
            buffering     |-> jb.buffering /\ Span(DOMAIN stored) < TargetBufferSize,
            next_play_seq |-> IF jb.buffering /\ Buffered(jb) = {} THEN p.seq
                              ELSE jb.next_play_seq]

(***************************************************************************)
(* push(): a late packet is dropped, any other is stored.  While buffering *)
(* the packet that makes the span reach the target starts the play-out at  *)
(* the lowest buffered sequence number; the first packet into an empty     *)
(* buffer re-bases next_play_seq.                                          *)
(***************************************************************************)
Push(jb, p) ==
  LET stored == Store(jb.buffer, p)
      starts == jb.buffering /\ Span(DOMAIN stored) >= TargetBufferSize
  IN  IF IsLate(jb, p.seq) THEN jb
      ELSE [buffer        |-> stored,
            buffering     |-> jb.buffering /\ ~starts,
            next_play_seq |-> CASE starts -> Min(DOMAIN stored)
                                [] jb.buffering /\ ~starts /\ Buffered(jb) = {} -> p.seq
                                [] OTHER -> jb.next_play_seq]

-----------------------------------------------------------------------------
(* Mutation: silence is made up before the test for an empty buffer.       *)
CanPopConcealing(jb) == ~jb.buffering

(* pop() returns a packet exactly in these states ...                      *)
CanPop(jb) == ~jb.buffering /\ Buffered(jb) # {}

(* ... and finds itself out of packets in these.                           *)
IsUnderrun(jb) == ~jb.buffering /\ Buffered(jb) = {}

AfterUnderrun(jb) ==
  [buffer |-> jb.buffer, next_play_seq |-> jb.next_play_seq, buffering |-> TRUE]

Ahead(jb) == {s \in Buffered(jb) : s > jb.next_play_seq}

(* Mutation: counted back from the packet before the next one.             *)
DummyTsfOffByOne(jb) ==
  IF Ahead(jb) = {} THEN 0
  ELSE LET next == Min(Ahead(jb))
       IN  (jb.buffer[next].tsf - (next - jb.next_play_seq - 1) * PacketPeriod) % TsfMod

(* The timestamp of a dummy is counted back from the next buffered packet  *)
(* in uint64_t; 0 is the fallback when there is none.                      *)
DummyTsf(jb) ==
  IF Ahead(jb) = {} THEN 0
  ELSE LET next == Min(Ahead(jb))
       IN  (jb.buffer[next].tsf - (next - jb.next_play_seq) * PacketPeriod) % TsfMod

Dummy(jb) == [seq |-> jb.next_play_seq, tsf |-> DummyTsf(jb), silent |-> TRUE]

(* The packet a successful pop() hands out, and the buffer it leaves.      *)
Popped(jb) ==
  IF jb.next_play_seq \in Buffered(jb) THEN jb.buffer[jb.next_play_seq] ELSE Dummy(jb)

(* Mutation: a packet handed out stays in the buffer.                      *)
EraseNothing(buffer, seq) == buffer

Erase(buffer, seq) == [s \in DOMAIN buffer \ {seq} |-> buffer[s]]

NextSeq(seq) == (seq + 1) % SeqMod

(* Mutation: a dummy erases the packet its timestamp was taken from.       *)
AfterPopErasingNext(jb) ==
  [buffer        |-> Erase(jb.buffer, IF jb.next_play_seq \in Buffered(jb) \/ Ahead(jb) = {}
                                      THEN jb.next_play_seq ELSE Min(Ahead(jb))),
   next_play_seq |-> NextSeq(jb.next_play_seq),
   buffering     |-> jb.buffering]

(* Mutation: a dummy does not advance the play position.                   *)
AfterPopWaiting(jb) ==
  [buffer        |-> Erase(jb.buffer, jb.next_play_seq),
   next_play_seq |-> IF jb.next_play_seq \in Buffered(jb) THEN NextSeq(jb.next_play_seq)
                     ELSE jb.next_play_seq,
   buffering     |-> jb.buffering]

AfterPop(jb) ==
  [buffer        |-> Erase(jb.buffer, jb.next_play_seq),
   next_play_seq |-> NextSeq(jb.next_play_seq),
   buffering     |-> jb.buffering]
=============================================================================

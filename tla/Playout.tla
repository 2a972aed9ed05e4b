------------------------------- MODULE Playout -------------------------------
(***************************************************************************)
(* One jitter buffer between its producer, which pushes whatever the       *)
(* network delivers (lost, duplicated, reordered packets, and the packets  *)
(* of a sender that has restarted), and its consumer, which pops.  Pushes  *)
(* and pops are atomic: the server holds jb_mutex_ around each             *)
(* (module UDPServer).                                                     *)
(***************************************************************************)
EXTENDS JitterBuffer

CONSTANTS Arriving,   (* the packets the network may ever deliver          *)
          PeriodNum,  (* the time of a packet's samples, as a fraction of  *)
          PeriodDen,  (* ticks: 16000 / 3 us                               *)
          MaxJitter   (* ticks by which stamps miss their sender's clock   *)

ASSUME ArrivingAssumption == Arriving \subseteq [seq : Seqs, tsf : Tsfs, silent : {FALSE}]

(* The buffer counts silence back in whole ticks: 5333 of 5333 1/3 us.     *)
ASSUME ClockAssumption ==
  /\ PeriodNum \in Nat /\ PeriodDen \in Nat \ {0} /\ MaxJitter \in Nat
  /\ PacketPeriod * PeriodDen <= PeriodNum

VARIABLES jb,      (* the buffer                                            *)
          out,     (* the caller's out_packet: the last packet popped       *)
          midrun   (* history: a packet was popped since play-out began     *)

vars == <<jb, out, midrun>>

NoPacket == [seq |-> 0, tsf |-> 0, silent |-> FALSE]

Init ==
  /\ jb = NewJitterBuffer
  /\ out = NoPacket
  /\ midrun = FALSE

Receive(p) ==
  /\ jb' = Push(jb, p)
  /\ UNCHANGED <<out, midrun>>

(* pop() returns true.                                                     *)
Play ==
  /\ CanPop(jb)
  /\ out' = Popped(jb)
  /\ jb' = AfterPop(jb)
  /\ midrun' = TRUE

(* pop() returns false after a play-out: the run is over.                  *)
RunDry ==
  /\ IsUnderrun(jb)
  /\ jb' = AfterUnderrun(jb)
  /\ midrun' = FALSE
  /\ UNCHANGED out

Pop == Play \/ RunDry

Next == (\E p \in Arriving : Receive(p)) \/ Pop

Spec == Init /\ [][Next]_vars

(* The server calls pop() every 2 ms for as long as it runs.               *)
FairSpec == Spec /\ WF_vars(Pop)

-----------------------------------------------------------------------------
TypeOK ==
  /\ IsJitterBuffer(jb)
  /\ out \in Packets
  /\ midrun \in BOOLEAN

(* During play-out nothing buffered lies behind the play position, even    *)
(* across the wrap of the sequence number.  Hence pop() never takes the    *)
(* "Fallback" branch that stamps a dummy with time 0, and a run never ends *)
(* with a packet still buffered.                                           *)
NothingBehind == ~jb.buffering => \A s \in Buffered(jb) : jb.next_play_seq <= s

(* A run hands out consecutive sequence numbers: late, duplicate and       *)
(* reordered pushes in the middle of a run never move the play position.   *)
RunIsConsecutive == midrun => ~jb.buffering /\ jb.next_play_seq = NextSeq(out.seq)

(* What is held back while buffering is never enough to play: each push    *)
(* re-evaluates the span, so no playable backlog survives an underrun.     *)
HeldBackIsShort ==
  jb.buffering /\ Buffered(jb) # {} => Span(Buffered(jb)) < TargetBufferSize

(* When a clock that stood at base for packet 0 captured the one numbered  *)
(* seq: clocks count the time of their samples in whole ticks.             *)
Captured(base, seq) == base + (seq * PeriodNum) \div PeriodDen

OnClock(p, base, early, late) ==
  \E e \in -early .. late : p.tsf = (Captured(base, p.seq) + e) % TsfMod

(* What k whole periods fall short of the time of k packets, at most.      *)
Rounding(k) == (k * (PeriodNum - PacketPeriod * PeriodDen) + PeriodDen - 1) \div PeriodDen

(* In a stream that keeps its sender's clock but for its jitter, silence   *)
(* does too: it is never stamped earlier, and later only by what the whole *)
(* periods up to a packet that is still to be played are rounded by.       *)
(* Timestamps may wrap; numbers that wrap begin another stream, since 2^32 *)
(* packets (264 days) are no whole number of ticks.                        *)
SilenceOnSenderClock ==
  \A base \in Tsfs :
    (\A p \in Arriving : OnClock(p, base, MaxJitter, MaxJitter)) /\ out.silent =>
      \E s \in Buffered(jb) :
        s > out.seq /\ OnClock(out, base, MaxJitter, MaxJitter + Rounding(s - out.seq))

(* Silence only ever fills a gap between two received packets: when pop()  *)
(* gives up a run, the last packet it handed out was a received one.       *)
RunEndsWithReceived == [][midrun /\ ~midrun' => ~out.silent]_vars

(* An accepted packet leaves the buffer only by being handed out.          *)
LeavesOnlyByPlaying ==
  [][\A s \in Buffered(jb) : s \notin Buffered(jb)' => out' = jb.buffer[s]]_vars

(* Once play-out runs, everything buffered is handed out, whatever keeps   *)
(* arriving: the gaps in front of it are filled and never waited for.      *)
BufferedIsPlayed ==
  \A s \in Seqs :
    (~jb.buffering /\ s \in Buffered(jb)) ~> (s \notin Buffered(jb))

-----------------------------------------------------------------------------
(* The buffer implements the abstract stream of runs: span counting, the   *)
(* play position and the late test refine "lowest pending first, then one  *)
(* sequence number at a time".                                             *)
Runs == INSTANCE OrderedRuns WITH pending <- jb.buffer, live <- midrun

ImplementsRuns == Runs!Spec
=============================================================================

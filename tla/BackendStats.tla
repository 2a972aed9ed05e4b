---------------------------- MODULE BackendStats ----------------------------
(***************************************************************************)
(* What server.js computes from a node's datagrams on port 5008: the       *)
(* packets lost and the drift and jitter of the node's clock.  Its maps    *)
(* from nodes are one map to records.  lastSeqIds and lastRawSeqs are      *)
(* always equal and are one field; the windows of a second in which losses *)
(* and jitter are shown are added up, each loss being in one of them.      *)
(* Times are in parts of a tick, PeriodDen of them.                        *)
(***************************************************************************)
EXTENDS Integers, FiniteSetsExt

CONSTANTS PeriodNum, PeriodDen  \* a packet's time: 256 * 1000000 / 48000, 16000 / 3 us

Magnitude(x) == IF x < 0 THEN -x ELSE x

(* The first datagram of a node sets the baseline.                         *)
Baseline(p) ==
  [lastRawTsf |-> p.tsf, lastRawSeq |-> p.seq, latestTsf |-> 0, maxJitter |-> 0, lost |-> 0]

(* Mutation: the time of one packet is expected, however many are missing. *)
ElapsedOfOne(seqDiff) == PeriodNum

ExpectedTimeElapsed(seqDiff) == seqDiff * PeriodNum

IsContinued(seqDiff) == seqDiff > 0 /\ seqDiff < 1000

(* A stream that goes back, or jumps far, sets the baseline anew.          *)
DriftDelta(stats, p) ==
  LET seqDiff == p.seq - stats.lastRawSeq
  IN  IF IsContinued(seqDiff)
      THEN (p.tsf - stats.lastRawTsf) * PeriodDen - ExpectedTimeElapsed(seqDiff)
      ELSE 0

(* Mutation: a gap counts the packet that ends it as lost.                 *)
NewLossesInclusive(last, seq) == IF seq > last + 1 THEN seq - last ELSE 0

NewLosses(last, seq) == IF seq > last + 1 THEN seq - (last + 1) ELSE 0

OnMessage(stats, p) ==
  LET delta == DriftDelta(stats, p)
  IN  [lastRawTsf |-> p.tsf,
       lastRawSeq |-> p.seq,
       latestTsf  |-> stats.latestTsf + delta,
       maxJitter  |-> Max({stats.maxJitter, Magnitude(delta)}),
       lost       |-> stats.lost + NewLosses(stats.lastRawSeq, p.seq)]

(* The maps before any datagram, and after a node's next one.              *)
NoStats == [n \in {} |-> n]

Heard(stats, n, p) ==
  [m \in DOMAIN stats \cup {n} |->
     IF m # n THEN stats[m] ELSE IF n \in DOMAIN stats THEN OnMessage(stats[n], p) ELSE Baseline(p)]
=============================================================================

----------------------------- MODULE MCUDPServer -----------------------------
(***************************************************************************)
(* Two senders with steady clocks.  With a target of one packet every      *)
(* order of three packets is a stream of its own: with gaps, with silence, *)
(* and going back.  The second sender makes the drain loop over two        *)
(* buffers and the batch mix nodes.                                        *)
(***************************************************************************)
EXTENDS UDPServer

CONSTANTS Seqs1, Seqs2  \* sequence numbers of the packets of node 1 and of node 2

(* A node's clock counts whole ticks of its samples' time.                 *)
SentBy(seqs) ==
  {[seq |-> s, tsf |-> (s * PeriodNum) \div PeriodDen, silent |-> FALSE] : s \in seqs}

TwoSenders == [n \in {1, 2} |-> SentBy(IF n = 1 THEN Seqs1 ELSE Seqs2)]

(* Every node's buffer in the server behaves as module Playout says.       *)
Playout1 == INSTANCE Playout WITH
  jb <- BufferOf(1), out <- LastPlayed(1), midrun <- InRun(1), Arriving <- Sent[1],
  MaxJitter <- 0

Playout2 == INSTANCE Playout WITH
  jb <- BufferOf(2), out <- LastPlayed(2), midrun <- InRun(2), Arriving <- Sent[2],
  MaxJitter <- 0

EachBufferPlaysOut == Playout1!Spec /\ Playout2!Spec
=============================================================================

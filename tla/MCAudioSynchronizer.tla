------------------------ MODULE MCAudioSynchronizer ------------------------
(***************************************************************************)
(* Streams of a few packets from index 10 on.  A TSF tick is half a sample *)
(* and timestamps are off by up to Jitter samples, to either side in turn. *)
(***************************************************************************)
EXTENDS AudioSynchronizer

CONSTANTS Packets, Jitter

Error(n, k) == CASE (n + k) % 3 = 0 -> 0 [] (n + k) % 3 = 1 -> Jitter [] OTHER -> -Jitter

(* The nodes of 1 .. 4, of which the first is the reference, and a room of *)
(* three.                                                                  *)
AllFour == {[nodes |-> 1 .. 4, reference |-> 1]}
Three   == {[nodes |-> 1 .. 3, reference |-> 1]}

JitteryStreams ==
  [n \in Nodes |-> [k \in 1 .. Packets |->
     LET at == 10 + (k - 1) * SamplesPerPacket
     IN  [at |-> at, tsf |-> 2 * (at + Error(n, k))]]]
=============================================================================

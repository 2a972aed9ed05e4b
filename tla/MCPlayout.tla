------------------------------ MODULE MCPlayout ------------------------------
(***************************************************************************)
(* A sender that counts the time of its samples in whole ticks, 2 1/3 for  *)
(* a packet, and whose stamps are early, right or late by a tick in turn.  *)
(* Sequence numbers and timestamps wrap within reach of every behaviour.   *)
(***************************************************************************)
EXTENDS Playout

ClockBase == 5

JitteringSender ==
  {[seq |-> s, tsf |-> (Captured(ClockBase, s) + (s % 3) - 1) % TsfMod, silent |-> FALSE] :
     s \in Seqs}
=============================================================================

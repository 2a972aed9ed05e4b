----------------------------- MODULE OrderedRuns -----------------------------
(***************************************************************************)
(* What a jitter buffer promises, without how it keeps the promise: a      *)
(* sender's packets come out in runs.  A run starts with the lowest packet *)
(* pending, continues one sequence number at a time, has silence exactly   *)
(* where the packet is not pending, and ends, when nothing is pending any  *)
(* more, with a packet that was received.  When a run starts, and so how   *)
(* much is held back first, is left open; a packet behind the position of  *)
(* a run is not taken.                                                     *)
(***************************************************************************)
EXTENDS Integers

CONSTANTS SeqMod, Tsfs

VARIABLES pending,  (* accepted packets that are still to come out          *)
          out,      (* the last packet that came out                        *)
          live      (* a run is in progress                                 *)

vars == <<pending, out, live>>

RunSeqs    == 0 .. SeqMod - 1
RunPackets == [seq : RunSeqs, tsf : Tsfs, silent : BOOLEAN]

Position == (out.seq + 1) % SeqMod

Init ==
  /\ pending = [s \in {} |-> s]
  /\ out \in RunPackets
  /\ live = FALSE

Accept(p) ==
  /\ live => Position <= p.seq
  /\ pending' = [s \in DOMAIN pending \cup {p.seq} |-> IF s = p.seq THEN p ELSE pending[s]]
  /\ UNCHANGED <<out, live>>

Deliver(s) ==
  /\ out' = pending[s]
  /\ pending' = [t \in DOMAIN pending \ {s} |-> pending[t]]
  /\ live' = TRUE

Begin ==
  /\ ~live
  /\ \E s \in DOMAIN pending : (\A t \in DOMAIN pending : s <= t) /\ Deliver(s)

Continue ==
  /\ live
  /\ \/ Position \in DOMAIN pending /\ Deliver(Position)
     \/ /\ DOMAIN pending # {}
        /\ \A s \in DOMAIN pending : Position < s
        /\ out' \in [seq : {Position}, tsf : Tsfs, silent : {TRUE}]
        /\ UNCHANGED <<pending, live>>

End ==
  /\ live
  /\ DOMAIN pending = {}
  /\ ~out.silent
  /\ live' = FALSE
  /\ UNCHANGED <<pending, out>>

Next ==
  \/ \E p \in [seq : RunSeqs, tsf : Tsfs, silent : {FALSE}] : Accept(p)
  \/ Begin
  \/ Continue
  \/ End

Spec == Init /\ [][Next]_vars /\ WF_vars(Continue \/ End)
=============================================================================

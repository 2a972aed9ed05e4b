--------------------------- MODULE MCNodeCommands ---------------------------
(***************************************************************************)
(* The effects of a node with few repetitions, and the kinds of messages   *)
(* that the backend sends: beep, identify, a volume with a state, and what *)
(* the node does not understand.                                           *)
(***************************************************************************)
EXTENDS NodeCommands

MCEffects  == {"chirp", "fast_beeps", "pitch"}
MCBeeps    == [e \in MCEffects |-> IF e = "pitch" THEN 1 ELSE 2]
MCBlocking == {"chirp"}

Beep(e) == [volume |-> 1, state |-> "off", mode |-> e, identify |-> FALSE]

MCMessages ==
  {Beep(e) : e \in MCEffects}
    \cup {[volume |-> 1, state |-> "off", mode |-> NoMode, identify |-> TRUE],
          [volume |-> 80, state |-> "on", mode |-> NoMode, identify |-> FALSE],
          [volume |-> 80, state |-> NotBool, mode |-> NoMode, identify |-> FALSE],
          [volume |-> 101, state |-> "on", mode |-> "pitch", identify |-> FALSE]}
=============================================================================

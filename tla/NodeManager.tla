----------------------------- MODULE NodeManager -----------------------------
(***************************************************************************)
(* The statistics NodeManager keeps per node.  Every operation holds       *)
(* mutex_ from beginning to end, so an operation is one operator here and  *)
(* one step of the modules that use it.  last_tsf_time and total_samples   *)
(* (a fixed multiple of packets_received, because the caller always passes *)
(* sizeof(AudioPacket)) are only printed and are left out; the 32-bit      *)
(* counters stay far from their width within the bounds of the runs.       *)
(***************************************************************************)
EXTENDS Integers

CONSTANTS SeqMod  (* uint32_t sequence numbers wrap here *)

(* nodes_ before any packet: the map is filled by the first packet of each *)
NoNodes == [n \in {} |-> n]

(* A node discovered by a packet numbered seq: nothing lost before it.     *)
Discovered(seq) ==
  [last_seq_id |-> (seq - 1) % SeqMod, packets_lost |-> 0,
   packets_received |-> 0, packets_since_last_check |-> 0]

StatsOf(nodes, n, seq) == IF n \in DOMAIN nodes THEN nodes[n] ELSE Discovered(seq)

(* Mutation: a jump over one packet is not noticed.                        *)
NewlyLostOffByOne(last, seq) ==
  IF seq # (last + 1) % SeqMod /\ seq > last THEN seq - last - 2 ELSE 0

(* A jump ahead is loss; a step back is not counted.                       *)
NewlyLost(last, seq) ==
  IF seq # (last + 1) % SeqMod /\ seq > last THEN seq - last - 1 ELSE 0

(* processPacket(), up to the call of the synchronizer.                    *)
ProcessPacket(nodes, n, seq) ==
  LET stats == StatsOf(nodes, n, seq)
      updated ==
        [last_seq_id              |-> seq,
         packets_lost             |-> stats.packets_lost + NewlyLost(stats.last_seq_id, seq),
         packets_received         |-> stats.packets_received + 1,
         packets_since_last_check |-> stats.packets_since_last_check + 1]
  IN  [m \in DOMAIN nodes \cup {n} |-> IF m = n THEN updated ELSE nodes[m]]

(* Mutation: the report starts the total over as well.                     *)
PrintAndResetTotals(nodes) ==
  [n \in DOMAIN nodes |->
     [nodes[n] EXCEPT !.packets_since_last_check = 0, !.packets_received = 0]]

(* printAndResetStats(): the periodic counter of every node starts over.   *)
PrintAndResetStats(nodes) ==
  [n \in DOMAIN nodes |-> [nodes[n] EXCEPT !.packets_since_last_check = 0]]
=============================================================================

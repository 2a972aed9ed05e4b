------------------------------ MODULE NodeClock ------------------------------
(***************************************************************************)
(* What a listener node does with the Wi-Fi's TSF clock: the stamps of its *)
(* audio, ChunkTimestamps, and the datagrams of tsf_sender.c, one for each *)
(* interval of the TSF, numbered by it, which let tools/tsf_analyzer.py    *)
(* compare the clocks of two nodes.  Both tasks run on one core, where the *)
(* sender has the higher priority: while it is ready, or waits busily, no  *)
(* chunk is read.                                                          *)
(*                                                                         *)
(* The clock is external: it reads 0 while the node is not online.  Time   *)
(* advances with the samples, a chunk or a loss at a time.                 *)
(***************************************************************************)
EXTENDS ChunkTimestamps

CONSTANTS Interval,      (* ticks between two datagrams: 100000                *)
          MaxOutages     (* bound: connections lost                            *)

ASSUME ClockAssumption == Interval \in Nat \ {0} /\ MaxOutages \in Nat

VARIABLES
  online,          (* the TSF can be read                                      *)
  outages,         (* connections lost so far                                  *)
  clean,           (* reads of a chunk since the last one that found a TSF of 0 *)
  next_boundary,   (* of the sender's iteration                                *)
  wakes,           (* when the sender's wait ends                              *)
  busy,            (* it waits in esp_rom_delay_us()                           *)
  whole,           (* the node has been online since the iteration began       *)
  payload          (* the last datagram sent: [sequence_id, tsf_time, whole]   *)

senderVars == <<next_boundary, wakes, busy, whole, payload>>
vars == <<micVars, online, outages, clean, senderVars>>

Now == Boot + Ticks(total_samples_read + lost)

TsfTime == IF online THEN Now ELSE 0

(* Mutation: an interval from now, wherever in its interval the clock is.  *)
BoundaryFromNow(t) == t + Interval

BoundaryAfter(t) == (t \div Interval + 1) * Interval

NoPayload == [sequence_id |-> 0, tsf_time |-> 0, whole |-> FALSE]

Init ==
  /\ MicInit
  /\ online = TRUE /\ outages = 0
  /\ clean = HistoryLength
  /\ next_boundary = BoundaryAfter(Boot) /\ wakes = BoundaryAfter(Boot)
  /\ busy = FALSE /\ whole = TRUE
  /\ payload = NoPayload

SenderReady == Now >= wakes

(* The chunk ends while the sender lets the other task run.                *)
Read(offset) ==
  /\ ~busy /\ ~SenderReady
  /\ ReadAt(offset)
  /\ UNCHANGED <<online, outages, senderVars>>

ReadOnline(delay) ==
  /\ online
  /\ Read(Offset(delay))
  /\ clean' = IF clean < HistoryLength THEN clean + 1 ELSE clean

ReadOffline ==
  /\ ~online
  /\ Read(0 - Ticks(ChunkEnd))
  /\ clean' = 0

Lose(n) ==
  /\ ~SenderReady
  /\ LoseSamples(n)
  /\ UNCHANGED <<online, outages, clean, senderVars>>

SequenceId == next_boundary \div Interval

(* The wait is over: a datagram is sent, which is lost while the node is   *)
(* not online, and the next iteration waits for the boundary that the      *)
(* clock will hit next.                                                    *)
Send ==
  /\ payload' = IF online
                THEN [sequence_id |-> SequenceId, tsf_time |-> TsfTime, whole |-> whole]
                ELSE payload
  /\ next_boundary' = BoundaryAfter(TsfTime)
  /\ wakes' = Now + BoundaryAfter(TsfTime) - TsfTime
  /\ busy' = FALSE
  /\ whole' = online
  /\ UNCHANGED <<micVars, online, outages, clean>>

(* vTaskDelay() has returned.  The clock is read once more, and what seems *)
(* to be left until the boundary is waited for busily: when the clock      *)
(* reads 0, for as long as the clock had been running.                     *)
SenderWakes ==
  /\ SenderReady
  /\ IF busy \/ next_boundary <= TsfTime
     THEN Send
     ELSE /\ busy' = TRUE
          /\ wakes' = Now + next_boundary - TsfTime
          /\ UNCHANGED <<micVars, online, outages, clean, next_boundary, whole, payload>>

LoseConnection ==
  /\ online
  /\ outages < MaxOutages
  /\ online' = FALSE
  /\ outages' = outages + 1
  /\ whole' = FALSE
  /\ UNCHANGED <<micVars, clean, next_boundary, wakes, busy, payload>>

Reconnect ==
  /\ ~online
  /\ online' = TRUE
  /\ UNCHANGED <<micVars, outages, clean, senderVars>>

Next ==
  \/ \E delay \in 0 .. MaxDelay : ReadOnline(delay)
  \/ ReadOffline
  \/ \E n \in 1 .. MaxLost : Lose(n)
  \/ SenderWakes
  \/ LoseConnection \/ Reconnect

Spec == Init /\ [][Next]_vars

-----------------------------------------------------------------------------
(* As long as the node has been online, a chunk's time stamp is late by no *)
(* more than the longest delay of a read, and early only by the time that  *)
(* lost samples took.                                                      *)
StampsAreGood == outages = 0 => StampNearCapture

(* As long as the node has been online, time stamps follow the order of    *)
(* the chunks: the filter never takes back more than a chunk's time,       *)
(* although the delays it removes may be longer.                           *)
StampsInOrder ==
  [][(outages' = 0 /\ packet # NoPacket /\ packet' # packet) =>
       packet'.tsf > packet.tsf /\ packet'.seq = packet.seq + 1]_vars

(* How far the average offset, on which the stamps rest, is from what the  *)
(* clock and the samples read and lost allow for.                          *)
Off(offset) ==
  LET latest == Boot + Ticks(lost) + MaxDelay + 1
  IN  IF offset < Boot THEN Boot - offset ELSE IF offset > latest THEN offset - latest ELSE 0

(* A clock that read 0 throws the stamps off by as long as the node has    *)
(* been up.  Once the history holds no offset of then, every further chunk *)
(* brings them nearer to the capture, until what is left is less than the  *)
(* integer average can tell apart.                                         *)
StampsRecover ==
  [][(packet' # packet /\ clean' = HistoryLength) =>
       /\ Off(smoothed_offset') <= Off(smoothed_offset)
       /\ Off(smoothed_offset) > Inertia => Off(smoothed_offset') < Off(smoothed_offset)]_vars

(* While the node stays online it sends one datagram in each interval of   *)
(* the TSF, in turn, and numbers it by the interval, so that two nodes'    *)
(* datagrams of the same number were stamped within an interval.           *)
SendsInEachInterval ==
  [][(payload' # payload /\ payload'.whole) =>
       /\ payload'.tsf_time \div Interval = payload'.sequence_id
       /\ payload.whole => payload'.sequence_id = payload.sequence_id + 1]_vars
=============================================================================

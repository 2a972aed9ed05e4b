-------------------------- MODULE NodeClock_proofs --------------------------
(***************************************************************************)
(* Proofs about the time stamps of a node's audio while it is online, for  *)
(* any rates, lengths of the history and of the chunks, delays and losses. *)
(***************************************************************************)
EXTENDS NodeClock, TLAPS

-----------------------------------------------------------------------------
(* Arithmetic of the conversion and of the moving average.                 *)

LEMMA ConstantFacts ==
  /\ SamplesPerChunk \in Nat /\ SamplesPerChunk > 0
  /\ SampleRate \in Nat /\ SampleRate > 0
  /\ TicksPerSecond \in Nat /\ TicksPerSecond > 0
  /\ HistoryLength \in Nat /\ HistoryLength > 0
  /\ Inertia \in Nat /\ Boot \in Nat /\ MaxDelay \in Nat
  /\ MaxChunks \in Nat /\ MaxLost \in Nat
BY TimestampsAssumption

(* What \div returns: the quotient and the rest it leaves.                 *)
LEMMA Division ==
  ASSUME NEW x \in Nat, NEW n \in Nat, n > 0
  PROVE  /\ x \div n \in Nat
         /\ n * (x \div n) <= x
         /\ x < n * (x \div n) + n
OBVIOUS

(* A quotient lies between the bounds that the dividend's bounds give.     *)
LEMMA QuotientBounds ==
  ASSUME NEW x \in Nat, NEW n \in Nat, n > 0, NEW q \in Int
  PROVE  /\ n * q <= x => q <= x \div n
         /\ x < n * q + n => x \div n <= q
<1> DEFINE d == x \div n
<1>1. d \in Nat /\ n * d <= x /\ x < n * d + n
  BY Division
<1> HIDE DEF d
<1>2. ASSUME n * q <= x, d < q PROVE FALSE
  <2>1. d + 1 <= q
    BY <1>1, <1>2
  <2>2. n * (d + 1) <= n * q
    BY <1>1, <2>1
  <2> QED
    BY <1>1, <1>2, <2>2
<1>3. ASSUME x < n * q + n, q < d PROVE FALSE
  <2>1. q + 1 <= d
    BY <1>1, <1>3
  <2>2. n * (q + 1) <= n * d
    BY <1>1, <2>1
  <2> QED
    BY <1>1, <1>3, <2>2
<1> QED
  BY <1>1, <1>2, <1>3 DEF d

(* The time of two stretches of samples is that of both together, up to    *)
(* one tick of rounding.                                                   *)
LEMMA TicksAdd ==
  ASSUME NEW a \in Nat, NEW b \in Nat
  PROVE  /\ Ticks(a) \in Nat
         /\ Ticks(a) + Ticks(b) <= Ticks(a + b)
         /\ Ticks(a + b) <= Ticks(a) + Ticks(b) + 1
<1> DEFINE x == a * TicksPerSecond
           y == b * TicksPerSecond
           n == SampleRate
<1>1. x \in Nat /\ y \in Nat /\ n \in Nat /\ n > 0 /\ x + y = (a + b) * TicksPerSecond
  BY ConstantFacts
<1>2. Ticks(a) = x \div n /\ Ticks(b) = y \div n /\ Ticks(a + b) = (x + y) \div n
  BY <1>1 DEF Ticks
<1> HIDE DEF x, y, n
<1>3. /\ x \div n \in Nat /\ n * (x \div n) <= x /\ x < n * (x \div n) + n
      /\ y \div n \in Nat /\ n * (y \div n) <= y /\ y < n * (y \div n) + n
  BY <1>1, Division
<1> DEFINE p == x \div n
           q == y \div n
<1> HIDE DEF p, q
<1>4. /\ p \in Nat /\ n * p <= x /\ x < n * p + n
      /\ q \in Nat /\ n * q <= y /\ y < n * q + n
  BY <1>3 DEF p, q
<1>5. n * (p + q) = n * p + n * q /\ n * (p + q + 1) = n * p + n * q + n
  BY <1>1, <1>4
<1>6. n * (p + q) <= x + y /\ x + y < n * (p + q + 1) + n
  BY <1>1, <1>4, <1>5
<1>7. p + q <= (x + y) \div n /\ (x + y) \div n <= p + q + 1
  <2>1. x + y \in Nat /\ p + q \in Int /\ p + q + 1 \in Int
    BY <1>1, <1>4
  <2> QED
    BY <1>1, <1>6, <2>1, QuotientBounds
<1> QED
  BY <1>2, <1>3, <1>7 DEF p, q

LEMMA TicksMonotone ==
  ASSUME NEW a \in Nat, NEW b \in Nat, a <= b
  PROVE  Ticks(a) <= Ticks(b)
<1>1. b - a \in Nat /\ a + (b - a) = b
  OBVIOUS
<1>2. Ticks(a) \in Nat /\ Ticks(b - a) \in Nat /\ Ticks(b) \in Nat
  BY <1>1, TicksAdd
<1>3. Ticks(a) + Ticks(b - a) <= Ticks(a + (b - a))
  BY <1>1, TicksAdd
<1> QED
  BY <1>1, <1>2, <1>3

(* The moving average lies between its two arguments, and below the old    *)
(* one by no more than one part of Inertia + 1 of the difference.          *)
LEMMA SmoothedBetween ==
  ASSUME NEW s \in Nat, NEW m \in Nat, NEW lo \in Nat, NEW hi \in Nat,
         s = 0 \/ (lo <= s /\ s <= hi), lo <= m, m <= hi
  PROVE  /\ Smoothed(s, m) \in Nat
         /\ lo <= Smoothed(s, m) /\ Smoothed(s, m) <= hi
<1> DEFINE n == Inertia + 1
           x == s * Inertia + m
<1>1. CASE s = 0
  BY <1>1 DEF Smoothed
<1>2. CASE s # 0
  <2>1. n \in Nat /\ n > 0 /\ x \in Nat
    BY ConstantFacts
  <2>2. lo * Inertia <= s * Inertia /\ s * Inertia <= hi * Inertia
    BY <1>2, ConstantFacts
  <2>3. n * lo <= x /\ x < n * hi + n
    BY <2>1, <2>2, ConstantFacts
  <2>4. lo <= x \div n /\ x \div n <= hi /\ x \div n \in Nat
    BY <2>1, <2>3, QuotientBounds, Division
  <2> QED
    BY <1>2, <2>1, <2>4 DEF Smoothed, Quotient
<1> QED
  BY <1>1, <1>2

LEMMA SmoothedFalls ==
  ASSUME NEW s \in Nat, NEW m \in Nat, NEW k \in Nat,
         s <= m + (Inertia + 1) * k
  PROVE  s <= Smoothed(s, m) + k
<1> DEFINE n == Inertia + 1
           x == s * Inertia + m
<1>1. CASE s = 0
  BY <1>1 DEF Smoothed
<1>2. CASE s # 0
  <2>1. n \in Nat /\ n > 0 /\ x \in Nat /\ s - k \in Int
    BY ConstantFacts
  <2>2. n * (s - k) = n * s - n * k /\ n * s = s * Inertia + s
    BY ConstantFacts
  <2>3. n * (s - k) <= x
    BY <2>1, <2>2, ConstantFacts
  <2>4. s - k <= x \div n /\ x \div n \in Nat
    BY <2>1, <2>3, QuotientBounds, Division
  <2> QED
    BY <1>2, <2>1, <2>4 DEF Smoothed, Quotient
<1> QED
  BY <1>1, <1>2

-----------------------------------------------------------------------------
(* The inductive invariant.  No offset is early, none is later than a late *)
(* read makes it; the average stays among them, and above none of them by  *)
(* more than a delay, since losses only ever move the offsets up; and the  *)
(* last chunk carries the stamp that the average had when it was read.     *)

Latest == Boot + Ticks(lost) + MaxDelay + 1

OffsetsFollow ==
  \A i \in DOMAIN offset_history :
    /\ Boot <= offset_history[i] /\ offset_history[i] <= Latest
    /\ smoothed_offset <= offset_history[i] + MaxDelay + 1

AverageFollows ==
  IF packet = NoPacket
  THEN offset_history = <<>> /\ smoothed_offset = 0
  ELSE Boot <= smoothed_offset /\ smoothed_offset <= Latest

PacketIsLastChunk ==
  packet # NoPacket =>
    /\ total_samples_read >= SamplesPerChunk
    /\ packet.tsf = smoothed_offset + Ticks(total_samples_read - SamplesPerChunk)
    /\ packet.seq = current_seq_id - 1

IInv ==
  /\ MicTypeOK
  /\ OffsetsFollow
  /\ AverageFollows
  /\ PacketIsLastChunk
  /\ StampNearCapture

LEMMA InitInv == MicInit => IInv
<1> SUFFICES ASSUME MicInit PROVE IInv
  OBVIOUS
<1>1. <<>> \in Seq(Nat) /\ Len(<<>>) = 0 /\ DOMAIN <<>> = {}
  OBVIOUS
<1>2. MicTypeOK
  BY <1>1, ConstantFacts DEF MicInit, MicTypeOK
<1> QED
  BY <1>1, <1>2 DEF MicInit, IInv, OffsetsFollow, AverageFollows, PacketIsLastChunk, StampNearCapture

(* What the history holds after a read: offsets of before and the new one. *)
LEMMA RecentFacts ==
  ASSUME NEW s \in Seq(Nat), Len(s) <= HistoryLength, NEW o \in Nat
  PROVE  /\ Recent(Append(s, o)) \in Seq(Nat)
         /\ Len(Recent(Append(s, o))) <= HistoryLength
         /\ \A i \in DOMAIN Recent(Append(s, o)) :
              \/ Recent(Append(s, o))[i] = o
              \/ \E j \in DOMAIN s : Recent(Append(s, o))[i] = s[j]
         /\ \E i \in DOMAIN Recent(Append(s, o)) : Recent(Append(s, o))[i] = o
<1> DEFINE t == Append(s, o)
<1>1. t \in Seq(Nat) /\ Len(t) = Len(s) + 1 /\ t[Len(s) + 1] = o
      /\ \A j \in 1 .. Len(s) : t[j] = s[j]
  OBVIOUS
<1>2. CASE Len(t) > HistoryLength
  <2>1. Recent(t) = Tail(t)
    BY <1>2 DEF Recent
  <2>2. Tail(t) \in Seq(Nat) /\ Len(Tail(t)) = Len(s)
        /\ \A i \in 1 .. Len(s) : Tail(t)[i] = t[i + 1]
    BY <1>1
  <2>3. Len(s) >= 1 /\ Len(s) \in Nat
    BY <1>1, <1>2, ConstantFacts
  <2>4. \A i \in 1 .. Len(s) : i = Len(s) \/ i + 1 \in 1 .. Len(s)
    BY <2>3
  <2>5. \A i \in 1 .. Len(s) : Tail(t)[i] = o \/ \E j \in 1 .. Len(s) : Tail(t)[i] = s[j]
    BY <1>1, <2>2, <2>3, <2>4
  <2>6. Len(s) \in 1 .. Len(s) /\ Tail(t)[Len(s)] = o
    BY <1>1, <2>2, <2>3
  <2>7. DOMAIN Tail(t) = 1 .. Len(s) /\ DOMAIN s = 1 .. Len(s)
    BY <2>2
  <2> QED
    BY <2>1, <2>2, <2>5, <2>6, <2>7
<1>3. CASE ~(Len(t) > HistoryLength)
  <2>1. Recent(t) = t
    BY <1>3 DEF Recent
  <2>2. Len(t) <= HistoryLength
    BY <1>1, <1>3, ConstantFacts
  <2>3. DOMAIN s = 1 .. Len(s) /\ DOMAIN t = 1 .. Len(s) + 1 /\ Len(s) \in Nat
    BY <1>1
  <2> HIDE DEF t
  <2>4. \A i \in 1 .. Len(s) + 1 : i = Len(s) + 1 \/ i \in 1 .. Len(s)
    BY <2>3
  <2>5. Len(s) + 1 \in 1 .. Len(s) + 1
    BY <2>3
  <2> QED
    BY <1>1, <2>1, <2>2, <2>3, <2>4, <2>5 DEF t
<1> QED
  BY <1>2, <1>3

(* What one read does, in the terms of the invariant.                      *)
LEMMA ReadFacts ==
  ASSUME IInv, NEW delay \in 0 .. MaxDelay, ReadChunk(delay)
  PROVE  \E m \in Nat :
           /\ smoothed_offset' = Smoothed(smoothed_offset, m)
           /\ Boot <= m /\ m <= Latest
           /\ smoothed_offset <= m + MaxDelay + 1
           /\ offset_history' \in Seq(Nat) /\ Len(offset_history') <= HistoryLength
           /\ \A i \in DOMAIN offset_history' :
                /\ m <= offset_history'[i] /\ offset_history'[i] <= Latest
                /\ smoothed_offset <= offset_history'[i] + MaxDelay + 1
<1> DEFINE new == Offset(delay)
           recent == Recent(Append(offset_history, new))
<1>1. /\ total_samples_read \in Nat /\ lost \in Nat /\ smoothed_offset \in Nat
      /\ offset_history \in Seq(Nat) /\ Len(offset_history) <= HistoryLength
  BY DEF IInv, MicTypeOK
<1>2. ChunkEnd \in Nat /\ ChunkEnd + lost \in Nat
  BY <1>1, ConstantFacts DEF ChunkEnd
<1>3. /\ Ticks(ChunkEnd) \in Nat /\ Ticks(lost) \in Nat /\ Ticks(ChunkEnd + lost) \in Nat
      /\ Ticks(ChunkEnd) + Ticks(lost) <= Ticks(ChunkEnd + lost)
      /\ Ticks(ChunkEnd + lost) <= Ticks(ChunkEnd) + Ticks(lost) + 1
  BY <1>1, <1>2, TicksAdd
<1>4. new \in Nat /\ Boot + Ticks(lost) <= new /\ new <= Latest
  BY <1>3, ConstantFacts DEF Offset, Latest
<1>5. smoothed_offset <= Boot + Ticks(lost) + MaxDelay + 1
  <2>1. smoothed_offset = 0 \/ smoothed_offset <= Latest
    BY DEF IInv, AverageFollows
  <2>2. Boot + Ticks(lost) + MaxDelay + 1 \in Nat
    BY <1>3, ConstantFacts
  <2> QED
    BY <2>1, <2>2 DEF Latest
<1>6. offset_history' = recent
  BY DEF ReadChunk, ReadAt, AudioTransmitterSend
<1> HIDE DEF new, recent
<1>7. PICK m \in Range(recent) :
         IsMinimum(m, Range(recent)) /\ smoothed_offset' = Smoothed(smoothed_offset, m)
  BY <1>6 DEF ReadChunk, ReadAt, AudioTransmitterSend
<1>8. /\ recent \in Seq(Nat) /\ Len(recent) <= HistoryLength
      /\ \A i \in DOMAIN recent :
           recent[i] = new \/ \E j \in DOMAIN offset_history : recent[i] = offset_history[j]
  BY <1>1, <1>4, RecentFacts DEF recent
<1>9. \A i \in DOMAIN recent :
        /\ recent[i] \in Nat /\ Boot <= recent[i] /\ recent[i] <= Latest
        /\ smoothed_offset <= recent[i] + MaxDelay + 1
  <2> TAKE i \in DOMAIN recent
  <2>1. CASE recent[i] = new
    <3>1. new + MaxDelay + 1 \in Nat /\ Boot <= new
          /\ Boot + Ticks(lost) + MaxDelay + 1 <= new + MaxDelay + 1
      BY <1>3, <1>4, ConstantFacts
    <3>2. Boot + Ticks(lost) + MaxDelay + 1 \in Nat
      BY <1>3, ConstantFacts
    <3>3. smoothed_offset <= new + MaxDelay + 1
      <4> HIDE DEF Latest
      <4>1. PICK a \in Nat, b \in Nat :
              a = Boot + Ticks(lost) + MaxDelay + 1 /\ b = new + MaxDelay + 1
        BY <3>1, <3>2
      <4>2. smoothed_offset <= a /\ a <= b /\ smoothed_offset \in Nat
        BY <1>1, <1>5, <3>1, <4>1
      <4> QED
        BY <4>1, <4>2
    <3> QED
      BY <1>4, <2>1, <3>1, <3>3
  <2>2. CASE \E j \in DOMAIN offset_history : recent[i] = offset_history[j]
    BY <1>1, <2>2 DEF IInv, OffsetsFollow
  <2> QED
    BY <1>8, <2>1, <2>2
<1>10. m \in Nat /\ Boot <= m /\ m <= Latest /\ smoothed_offset <= m + MaxDelay + 1
  BY <1>9, <1>7 DEF Range
<1>11. \A i \in DOMAIN recent : m <= recent[i]
  BY <1>7 DEF IsMinimum, Range
<1> QED
  BY <1>6, <1>7, <1>8, <1>9, <1>10, <1>11

LEMMA StepInv == IInv /\ [MicNext]_micVars => IInv'
<1> SUFFICES ASSUME IInv, [MicNext]_micVars PROVE IInv'
  OBVIOUS
<1>1. /\ total_samples_read \in Nat /\ lost \in Nat /\ smoothed_offset \in Nat
      /\ current_seq_id \in Nat
  BY DEF IInv, MicTypeOK
<1>2. Ticks(lost) \in Nat
  BY <1>1, TicksAdd
<1>3. ASSUME NEW delay \in 0 .. MaxDelay, ReadChunk(delay) PROVE IInv'
  <2>1. PICK m \in Nat :
          /\ smoothed_offset' = Smoothed(smoothed_offset, m)
          /\ Boot <= m /\ m <= Latest
          /\ smoothed_offset <= m + MaxDelay + 1
          /\ offset_history' \in Seq(Nat) /\ Len(offset_history') <= HistoryLength
          /\ \A i \in DOMAIN offset_history' :
               /\ m <= offset_history'[i] /\ offset_history'[i] <= Latest
               /\ smoothed_offset <= offset_history'[i] + MaxDelay + 1
    BY <1>3, ReadFacts
  <2>2. /\ total_samples_read' = total_samples_read + SamplesPerChunk
        /\ current_seq_id' = current_seq_id + 1
        /\ lost' = lost
        /\ packet' = [seq |-> current_seq_id,
                      tsf |-> smoothed_offset' + Ticks(total_samples_read),
                      start |-> Boot + Ticks(total_samples_read + lost)]
    BY <1>3 DEF ReadChunk, ReadAt, AudioTransmitterSend, ChunkEnd
  <2>3. /\ total_samples_read' \in Nat /\ current_seq_id' \in Nat /\ lost' \in Nat
        /\ Latest' = Latest /\ Latest \in Nat
    BY <1>1, <1>2, <2>2, ConstantFacts DEF Latest
  <2>4. smoothed_offset = 0 \/ (Boot <= smoothed_offset /\ smoothed_offset <= Latest)
    BY DEF IInv, AverageFollows
  <2>5. smoothed_offset' \in Nat /\ Boot <= smoothed_offset' /\ smoothed_offset' <= Latest
    BY <1>1, <2>1, <2>3, <2>4, ConstantFacts, SmoothedBetween
  <2>6. smoothed_offset' <= m + MaxDelay + 1
    <3>1. m + MaxDelay + 1 \in Nat /\ 0 <= m /\ m <= m + MaxDelay + 1 /\ 0 \in Nat
      BY ConstantFacts
    <3>2. smoothed_offset = 0 \/ (0 <= smoothed_offset /\ smoothed_offset <= m + MaxDelay + 1)
      BY <1>1, <2>1
    <3> QED
      BY <1>1, <2>1, <3>1, <3>2, SmoothedBetween
  <2>7. /\ Ticks(total_samples_read) \in Nat /\ Ticks(total_samples_read + lost) \in Nat
        /\ Ticks(total_samples_read) + Ticks(lost) <= Ticks(total_samples_read + lost)
        /\ Ticks(total_samples_read + lost) <= Ticks(total_samples_read) + Ticks(lost) + 1
    <3>1. total_samples_read + lost \in Nat
      BY <1>1
    <3> QED
      BY <1>1, <3>1, TicksAdd
  <2>8. packet' \in [seq : Nat, tsf : Nat, start : Nat] /\ packet' # NoPacket
    <3>1. packet'.seq # -1
      BY <1>1, <2>2
    <3>2. packet' \in [seq : Nat, tsf : Nat, start : Nat]
      BY <1>1, <2>2, <2>5, <2>7, ConstantFacts
    <3> QED
      BY <3>1, <3>2 DEF NoPacket
  <2>9. MicTypeOK'
    BY <2>1, <2>3, <2>5, <2>8 DEF MicTypeOK
  <2>10. OffsetsFollow'
    <3> SUFFICES ASSUME NEW i \in DOMAIN offset_history'
                 PROVE  /\ Boot <= offset_history'[i] /\ offset_history'[i] <= Latest'
                        /\ smoothed_offset' <= offset_history'[i] + MaxDelay + 1
      BY DEF OffsetsFollow
    <3> DEFINE o == offset_history'[i]
    <3>1. o \in Nat /\ m <= o /\ o <= Latest
      BY <2>1
    <3> HIDE DEF o
    <3>2. Boot <= o /\ smoothed_offset' <= o + MaxDelay + 1
      <4>1. PICK q \in Nat : q = smoothed_offset'
        BY <2>5
      <4>2. q <= m + MaxDelay + 1 /\ Boot <= m
        BY <2>1, <2>6, <4>1
      <4>3. Boot <= o /\ q <= o + MaxDelay + 1
        BY <3>1, <4>2, ConstantFacts
      <4> QED
        BY <4>1, <4>3
    <3> QED
      BY <2>3, <3>1, <3>2 DEF o
  <2>11. AverageFollows'
    BY <2>3, <2>5, <2>8 DEF AverageFollows
  <2>12. PacketIsLastChunk'
    <3>1. total_samples_read' - SamplesPerChunk = total_samples_read
      BY <1>1, <2>2, ConstantFacts
    <3>2. current_seq_id' - 1 = current_seq_id /\ total_samples_read' >= SamplesPerChunk
      BY <1>1, <2>2, ConstantFacts
    <3> QED
      BY <2>2, <3>1, <3>2 DEF PacketIsLastChunk
  <2>13. StampNearCapture'
    BY <1>2, <2>2, <2>5, <2>7, ConstantFacts DEF StampNearCapture, Latest
  <2> QED
    BY <2>9, <2>10, <2>11, <2>12, <2>13 DEF IInv
<1>4. ASSUME NEW n \in 1 .. MaxLost, LoseSamples(n) PROVE IInv'
  <2>1. lost' = lost + n /\ lost' \in Nat /\ lost <= lost'
    BY <1>1, <1>4, ConstantFacts DEF LoseSamples
  <2>2. UNCHANGED <<total_samples_read, offset_history, smoothed_offset, current_seq_id, packet>>
    BY <1>4 DEF LoseSamples
  <2>3. Ticks(lost') \in Nat /\ Ticks(lost) <= Ticks(lost')
    BY <1>1, <2>1, TicksAdd, TicksMonotone
  <2>4. Latest <= Latest' /\ Latest \in Nat /\ Latest' \in Nat
    BY <1>2, <2>3, ConstantFacts DEF Latest
  <2>5. MicTypeOK'
    BY <2>1, <2>2 DEF IInv, MicTypeOK
  <2>6. OffsetsFollow'
    <3>1. \A i \in DOMAIN offset_history : offset_history[i] \in Nat
      BY DEF IInv, MicTypeOK
    <3> QED
      BY <2>2, <2>4, <3>1 DEF IInv, OffsetsFollow
  <2>7. AverageFollows'
    BY <1>1, <2>2, <2>4 DEF IInv, AverageFollows
  <2>8. PacketIsLastChunk'
    BY <2>2 DEF IInv, PacketIsLastChunk
  <2>9. StampNearCapture'
    <3>1. packet # NoPacket => packet.tsf \in Nat /\ packet.start \in Nat
      BY DEF IInv, MicTypeOK
    <3> QED
      BY <1>2, <2>2, <2>3, <3>1 DEF IInv, StampNearCapture
  <2> QED
    BY <2>5, <2>6, <2>7, <2>8, <2>9 DEF IInv
<1>5. CASE UNCHANGED micVars
  BY <1>5 DEF micVars, IInv, MicTypeOK, OffsetsFollow, AverageFollows, PacketIsLastChunk,
              StampNearCapture, Latest
<1> QED
  BY <1>3, <1>4, <1>5 DEF MicNext

-----------------------------------------------------------------------------

-----------------------------------------------------------------------------
(* What the order of the stamps rests on: a delay is shorter than the      *)
(* average takes to fall by a chunk's time.  With the values of the code,  *)
(* 128 * 5332 us, it is 0.68 s.                                            *)
DelaysAreFiltered == MaxDelay + 1 <= (Inertia + 1) * (Ticks(SamplesPerChunk) - 1)

LEMMA NextStampIsLater ==
  ASSUME DelaysAreFiltered, IInv, MicNext, packet # NoPacket, packet' # packet
  PROVE  packet'.tsf > packet.tsf /\ packet'.seq = packet.seq + 1
<1>1. PICK delay \in 0 .. MaxDelay : ReadChunk(delay)
  BY DEF MicNext, LoseSamples
<1> DEFINE before == total_samples_read - SamplesPerChunk
           k == Ticks(SamplesPerChunk) - 1
<1>2. /\ total_samples_read \in Nat /\ smoothed_offset \in Nat /\ current_seq_id \in Nat
      /\ before \in Nat /\ before + SamplesPerChunk = total_samples_read
      /\ packet.tsf = smoothed_offset + Ticks(before)
      /\ packet.seq = current_seq_id - 1
  BY ConstantFacts DEF IInv, MicTypeOK, PacketIsLastChunk
<1>3. /\ packet'.seq = current_seq_id
      /\ packet'.tsf = smoothed_offset' + Ticks(total_samples_read)
  BY <1>1 DEF ReadChunk, ReadAt, AudioTransmitterSend
<1> HIDE DEF before
<1>4. /\ Ticks(before) \in Nat /\ Ticks(SamplesPerChunk) \in Nat
      /\ Ticks(total_samples_read) \in Nat
      /\ Ticks(before) + Ticks(SamplesPerChunk) <= Ticks(total_samples_read)
  BY <1>2, ConstantFacts, TicksAdd
<1>5. PICK m \in Nat : /\ smoothed_offset' = Smoothed(smoothed_offset, m)
                       /\ smoothed_offset <= m + MaxDelay + 1
  BY <1>1, ReadFacts
<1>6. k \in Nat
  <2>1. k \in Int /\ Inertia + 1 \in Nat /\ Inertia + 1 > 0 /\ (Inertia + 1) * k > 0
    BY <1>4, ConstantFacts DEF DelaysAreFiltered
  <2> HIDE DEF k
  <2>2. k > 0
    BY <2>1
  <2> QED
    BY <2>1, <2>2
<1>7. smoothed_offset <= m + (Inertia + 1) * k
  <2>1. (Inertia + 1) * k \in Nat /\ MaxDelay + 1 <= (Inertia + 1) * k
    BY <1>6, ConstantFacts DEF DelaysAreFiltered
  <2> HIDE DEF k
  <2> QED
    BY <1>2, <1>5, <2>1, ConstantFacts
<1>8. smoothed_offset <= smoothed_offset' + k
  BY <1>2, <1>5, <1>6, <1>7, SmoothedFalls
<1>9. smoothed_offset' \in Nat
  <2>1. IInv'
    BY <1>1, StepInv DEF MicNext
  <2> QED
    BY <2>1 DEF IInv, MicTypeOK
<1> QED
  BY <1>2, <1>3, <1>4, <1>8, <1>9

-----------------------------------------------------------------------------
(* The node's clock: as long as the node has been online, its steps are    *)
(* those of the time stamps, or leave them alone.                          *)
ClockInv == outages \in Nat /\ (outages = 0 => online /\ IInv)

LEMMA ClockStep ==
  ASSUME ClockInv, [Next]_vars, outages' = 0
  PROVE  outages = 0 /\ online' /\ IInv /\ [MicNext]_micVars
<1>1. ASSUME NEW delay \in 0 .. MaxDelay, ReadOnline(delay)
      PROVE  outages = 0 /\ online' /\ IInv /\ MicNext
  BY <1>1 DEF ClockInv, ReadOnline, Read, ReadChunk, MicNext
<1>2. ASSUME NEW n \in 1 .. MaxLost, Lose(n)
      PROVE  outages = 0 /\ online' /\ IInv /\ MicNext
  BY <1>2 DEF ClockInv, Lose, MicNext
<1>3. CASE SenderWakes
  BY <1>3 DEF ClockInv, SenderWakes, Send
<1>4. CASE ReadOffline
  BY <1>4 DEF ClockInv, ReadOffline, Read
<1>5. CASE LoseConnection
  BY <1>5 DEF ClockInv, LoseConnection
<1>6. CASE Reconnect
  BY <1>6 DEF ClockInv, Reconnect
<1>7. CASE UNCHANGED vars
  BY <1>7 DEF ClockInv, vars
<1> QED
  BY <1>1, <1>2, <1>3, <1>4, <1>5, <1>6, <1>7 DEF Next

LEMMA ClockInvariant == Spec => []ClockInv
<1>1. Init => ClockInv
  BY InitInv DEF Init, ClockInv
<1>2. ClockInv /\ [Next]_vars => ClockInv'
  <2> SUFFICES ASSUME ClockInv, [Next]_vars PROVE ClockInv'
    OBVIOUS
  <2>1. outages' \in Nat
    BY DEF ClockInv, Next, vars, ReadOnline, ReadOffline, Read, Lose, SenderWakes, Send,
           LoseConnection, Reconnect
  <2>2. ASSUME outages' = 0 PROVE online' /\ IInv'
    BY <2>2, ClockStep, StepInv
  <2> QED
    BY <2>1, <2>2 DEF ClockInv
<1> QED
  BY <1>1, <1>2, PTL DEF Spec

(* As long as the node is online the filter's state keeps its types: the   *)
(* history never outgrows its array, and no stamp is negative.             *)
THEOREM TypeCorrect == Spec => [](outages = 0 => MicTypeOK)
<1>1. ClockInv => (outages = 0 => MicTypeOK)
  BY DEF ClockInv, IInv
<1> QED
  BY <1>1, ClockInvariant, PTL

(* However late reads come, and whatever is lost, a stamp is off by no     *)
(* more than the longest delay and the time of what was lost.              *)
THEOREM StampsAreNearCapture == Spec => []StampsAreGood
<1>1. ClockInv => StampsAreGood
  BY DEF ClockInv, IInv, StampsAreGood
<1> QED
  BY <1>1, ClockInvariant, PTL

(* Time stamps follow the order of the chunks, whatever the delays, as     *)
(* long as each is shorter than the average filters.                       *)
THEOREM StampsAreOrdered == DelaysAreFiltered => (Spec => StampsInOrder)
<1> SUFFICES ASSUME DelaysAreFiltered PROVE Spec => StampsInOrder
  OBVIOUS
<1> DEFINE InOrder == (outages' = 0 /\ packet # NoPacket /\ packet' # packet) =>
                        packet'.tsf > packet.tsf /\ packet'.seq = packet.seq + 1
<1>1. ClockInv /\ [Next]_vars => [InOrder]_vars
  <2> SUFFICES ASSUME ClockInv, Next, outages' = 0, packet # NoPacket, packet' # packet
               PROVE  packet'.tsf > packet.tsf /\ packet'.seq = packet.seq + 1
    OBVIOUS
  <2>1. IInv /\ [MicNext]_micVars
    BY ClockStep
  <2>2. MicNext
    BY <2>1 DEF micVars
  <2> QED
    BY <2>1, <2>2, NextStampIsLater
<1> QED
  BY <1>1, ClockInvariant, PTL DEF Spec, StampsInOrder

-----------------------------------------------------------------------------
(* The datagrams of tsf_sender.c.  Time advances a chunk or a loss at a    *)
(* time, and the sender, which has the higher priority, runs in between:   *)
(* no such step is as long as an interval.  With the values of the code a  *)
(* chunk takes 5333 us, an interval 100 ms.                                *)
StepsAreShort == Ticks(SamplesPerChunk) < Interval /\ Ticks(MaxLost) < Interval

(* While the node has been online since the sender's iteration began, the  *)
(* sender sleeps until the boundary it computed, which the clock has not   *)
(* passed by an interval, and which follows that of the last datagram.     *)
SenderInv ==
  /\ total_samples_read \in Nat /\ lost \in Nat
  /\ whole =>
       /\ online /\ ~busy
       /\ wakes = next_boundary
       /\ Now < next_boundary + Interval
       /\ \E k \in Nat :
            /\ next_boundary = k * Interval
            /\ payload.whole => k = payload.sequence_id + 1

(* The boundary computed at time t is the first one after t.               *)
LEMMA BoundaryIsNext ==
  ASSUME NEW t \in Nat
  PROVE  /\ t \div Interval + 1 \in Nat
         /\ BoundaryAfter(t) = (t \div Interval + 1) * Interval
         /\ BoundaryAfter(t) \in Nat /\ t < BoundaryAfter(t)
<1>1. Interval \in Nat /\ Interval > 0
  BY ClockAssumption
<1>2. t \div Interval \in Nat /\ t < Interval * (t \div Interval) + Interval
  BY <1>1, Division
<1> DEFINE d == t \div Interval
<1> HIDE DEF d
<1>3. d \in Nat /\ t < Interval * d + Interval
  BY <1>2 DEF d
<1>4. (d + 1) * Interval = Interval * d + Interval /\ (d + 1) * Interval \in Nat
  BY <1>1, <1>3
<1> QED
  BY <1>3, <1>4 DEF BoundaryAfter, d

(* A boundary that the clock has reached, but not passed by an interval,   *)
(* begins the interval the clock is in.                                    *)
LEMMA BoundaryBegins ==
  ASSUME NEW t \in Nat, NEW k \in Nat, k * Interval <= t, t < k * Interval + Interval
  PROVE  t \div Interval = k /\ (k * Interval) \div Interval = k
<1>1. Interval \in Nat /\ Interval > 0
  BY ClockAssumption
<1>2. k * Interval = Interval * k /\ k * Interval \in Nat /\ k \in Int
  BY <1>1
<1>3. k <= t \div Interval /\ t \div Interval <= k
  BY <1>1, <1>2, QuotientBounds
<1>4. k <= (k * Interval) \div Interval /\ (k * Interval) \div Interval <= k
  <2> DEFINE x == k * Interval
  <2>1. x \in Nat /\ Interval * k <= x /\ x < Interval * k + Interval
    BY <1>1, <1>2
  <2> HIDE DEF x
  <2>2. k <= x \div Interval /\ x \div Interval <= k
    BY <1>1, <2>1, QuotientBounds
  <2> QED
    BY <2>2 DEF x
<1>5. t \div Interval \in Nat /\ (k * Interval) \div Interval \in Nat
  BY <1>1, <1>2, Division
<1> QED
  BY <1>3, <1>4, <1>5

(* n samples later the clock has advanced by their time, rounded up.       *)
LEMMA NowAdvances ==
  ASSUME NEW a \in Nat, NEW n \in Nat
  PROVE  /\ Boot + Ticks(a) \in Nat
         /\ Boot + Ticks(a + n) <= Boot + Ticks(a) + Ticks(n) + 1
         /\ Boot + Ticks(a + n) \in Nat /\ Ticks(n) \in Nat
<1>1. a + n \in Nat
  OBVIOUS
<1>2. /\ Ticks(a) \in Nat /\ Ticks(n) \in Nat
      /\ Ticks(a + n) <= Ticks(a) + Ticks(n) + 1
  BY TicksAdd
<1>3. Ticks(a + n) \in Nat
  BY <1>1, TicksAdd
<1> QED
  BY <1>2, <1>3, ConstantFacts

LEMMA SenderInit == Init => SenderInv
<1> SUFFICES ASSUME Init PROVE SenderInv
  OBVIOUS
<1>1. total_samples_read = 0 /\ lost = 0
  BY DEF Init, MicInit
<1>2. Now = Boot
  <2>1. Ticks(0) \in Nat /\ Ticks(0) + Ticks(0) <= Ticks(0 + 0)
    BY TicksAdd
  <2>2. Ticks(0) = 0
    BY <2>1
  <2> QED
    BY <1>1, <2>2, ConstantFacts DEF Now
<1>3. /\ Boot \div Interval + 1 \in Nat
      /\ BoundaryAfter(Boot) = (Boot \div Interval + 1) * Interval
      /\ BoundaryAfter(Boot) \in Nat /\ Boot < BoundaryAfter(Boot)
  BY ConstantFacts, BoundaryIsNext
<1>4. Now < next_boundary + Interval
  BY <1>2, <1>3, ConstantFacts, ClockAssumption DEF Init
<1>5. ~payload.whole
  BY DEF Init, NoPayload
<1> QED
  BY <1>1, <1>3, <1>4, <1>5 DEF Init, SenderInv

(* A step of the samples, of n of them, that the sender was not ready for. *)
LEMMA SenderSleeps ==
  ASSUME SenderInv, StepsAreShort, ~SenderReady, NEW n \in Nat, Ticks(n) < Interval,
         total_samples_read' \in Nat, lost' \in Nat,
         total_samples_read' + lost' = total_samples_read + lost + n,
         UNCHANGED <<online, senderVars>>
  PROVE  SenderInv'
<1>1. /\ UNCHANGED online /\ UNCHANGED next_boundary /\ UNCHANGED wakes
      /\ UNCHANGED busy /\ UNCHANGED whole /\ UNCHANGED payload
  BY DEF senderVars
<1>2. ASSUME whole PROVE Now' < next_boundary + Interval
  <2>1. PICK k \in Nat : next_boundary = k * Interval
    BY <1>2 DEF SenderInv
  <2>2. next_boundary \in Nat /\ Interval \in Nat
    BY <2>1, ClockAssumption
  <2> DEFINE a == total_samples_read + lost
  <2>3. a \in Nat
    BY DEF SenderInv
  <2>4. Now' = Boot + Ticks(a + n) /\ Now = Boot + Ticks(a)
    BY DEF Now
  <2> HIDE DEF a
  <2>5. /\ Boot + Ticks(a) \in Nat /\ Boot + Ticks(a + n) \in Nat /\ Ticks(n) \in Nat
        /\ Boot + Ticks(a + n) <= Boot + Ticks(a) + Ticks(n) + 1
    BY <2>3, NowAdvances
  <2>6. Now \in Nat /\ Now' \in Nat /\ Now' <= Now + Ticks(n) + 1
    BY <2>4, <2>5
  <2>7. Now < next_boundary
    BY <1>2, <2>2, <2>6 DEF SenderReady, SenderInv
  <2> QED
    BY <2>2, <2>5, <2>6, <2>7
<1> QED
  BY <1>1, <1>2 DEF SenderInv

(* The sender's wait is over while the node has been online throughout:    *)
(* it sends, numbered by the interval that has just begun.                 *)
LEMMA WholeSends ==
  ASSUME SenderInv, SenderWakes, whole
  PROVE  /\ Send
         /\ payload' = [sequence_id |-> SequenceId, tsf_time |-> Now, whole |-> TRUE]
         /\ Now \in Nat /\ SequenceId \in Nat
         /\ Now \div Interval = SequenceId
         /\ payload.whole => SequenceId = payload.sequence_id + 1
<1>1. PICK k \in Nat :
        /\ next_boundary = k * Interval
        /\ payload.whole => k = payload.sequence_id + 1
  BY DEF SenderInv
<1>2. Now \in Nat
  <2>1. total_samples_read + lost \in Nat
    BY DEF SenderInv
  <2>2. Boot + Ticks(total_samples_read + lost) \in Nat
    BY <2>1, NowAdvances
  <2> QED
    BY <2>2 DEF Now
<1>3. online /\ TsfTime = Now /\ next_boundary <= Now /\ Now < next_boundary + Interval
  BY DEF SenderInv, SenderWakes, SenderReady, TsfTime
<1>4. Send
  BY <1>3 DEF SenderWakes
<1>5. SequenceId = k /\ Now \div Interval = k
  BY <1>1, <1>2, <1>3, BoundaryBegins DEF SequenceId
<1>6. payload' = [sequence_id |-> SequenceId, tsf_time |-> Now, whole |-> TRUE]
  BY <1>3, <1>4 DEF Send
<1> QED
  BY <1>1, <1>2, <1>4, <1>5, <1>6

LEMMA SenderWakesStep == SenderInv /\ SenderWakes => SenderInv'
<1> SUFFICES ASSUME SenderInv, SenderWakes PROVE SenderInv'
  OBVIOUS
<1>1. UNCHANGED total_samples_read /\ UNCHANGED lost /\ UNCHANGED online
  BY DEF SenderWakes, Send, micVars
<1>2. Now' = Now /\ Now \in Nat
  <2>1. total_samples_read + lost \in Nat
    BY DEF SenderInv
  <2>2. Boot + Ticks(total_samples_read + lost) \in Nat
    BY <2>1, NowAdvances
  <2> QED
    BY <1>1, <2>2 DEF Now
<1>3. CASE Send
  <2>1. CASE online
    <3>1. TsfTime = Now
      BY <2>1 DEF TsfTime
    <3>2. /\ Now \div Interval + 1 \in Nat
          /\ BoundaryAfter(Now) = (Now \div Interval + 1) * Interval
          /\ BoundaryAfter(Now) \in Nat /\ Now < BoundaryAfter(Now)
      BY <1>2, BoundaryIsNext
    <3>3. /\ next_boundary' = BoundaryAfter(Now) /\ ~busy'
          /\ wakes' = Now + BoundaryAfter(Now) - Now
      BY <1>3, <3>1 DEF Send
    <3>4. wakes' = next_boundary'
      BY <1>2, <3>2, <3>3
    <3>5. Now' < next_boundary' + Interval
      BY <1>2, <3>2, <3>3, ClockAssumption
    <3>6. payload'.whole => Now \div Interval + 1 = payload'.sequence_id + 1
      <4>1. CASE whole
        BY <4>1, WholeSends
      <4>2. CASE ~whole
        BY <1>3, <2>1, <4>2 DEF Send
      <4> QED
        BY <4>1, <4>2
    <3> QED
      BY <1>1, <2>1, <3>2, <3>3, <3>4, <3>5, <3>6 DEF SenderInv
  <2>2. CASE ~online
    BY <1>1, <1>3, <2>2 DEF Send, SenderInv
  <2> QED
    BY <2>1, <2>2
<1>4. CASE ~Send
  <2>1. ~whole /\ whole' = whole
    BY <1>4, WholeSends DEF SenderWakes
  <2> QED
    BY <1>1, <2>1 DEF SenderInv
<1> QED
  BY <1>3, <1>4

LEMMA SenderStep ==
  ASSUME StepsAreShort, SenderInv, [Next]_vars
  PROVE  SenderInv'
<1>1. ASSUME NEW offset, Read(offset) PROVE SenderInv'
  <2>1. /\ total_samples_read' = total_samples_read + SamplesPerChunk
        /\ lost' = lost /\ ~SenderReady
        /\ UNCHANGED <<online, senderVars>>
    BY <1>1 DEF Read, ReadAt, ChunkEnd
  <2>2. total_samples_read \in Nat /\ lost \in Nat /\ SamplesPerChunk \in Nat
    BY ConstantFacts DEF SenderInv
  <2>3. /\ total_samples_read' \in Nat /\ lost' \in Nat
        /\ total_samples_read' + lost' = total_samples_read + lost + SamplesPerChunk
    BY <2>1, <2>2
  <2> QED
    BY <2>1, <2>2, <2>3, SenderSleeps DEF StepsAreShort
<1>2. ASSUME NEW n \in 1 .. MaxLost, Lose(n) PROVE SenderInv'
  <2>1. /\ lost' = lost + n /\ lost + n <= MaxLost
        /\ total_samples_read' = total_samples_read /\ ~SenderReady
        /\ UNCHANGED <<online, senderVars>>
    BY <1>2 DEF Lose, LoseSamples
  <2>2. /\ total_samples_read \in Nat /\ lost \in Nat /\ n \in Nat /\ MaxLost \in Nat
        /\ n <= MaxLost
    BY ConstantFacts DEF SenderInv
  <2>3. /\ total_samples_read' \in Nat /\ lost' \in Nat
        /\ total_samples_read' + lost' = total_samples_read + lost + n
    BY <2>1, <2>2
  <2>4. Ticks(n) < Interval
    <3>1. Ticks(n) \in Nat /\ Ticks(MaxLost) \in Nat /\ Ticks(n) <= Ticks(MaxLost)
      BY <2>2, TicksAdd, TicksMonotone
    <3> QED
      BY <3>1, ClockAssumption DEF StepsAreShort
  <2> QED
    BY <2>1, <2>2, <2>3, <2>4, SenderSleeps
<1>3. CASE LoseConnection
  <2>1. ~whole' /\ UNCHANGED total_samples_read /\ UNCHANGED lost
    BY <1>3 DEF LoseConnection, micVars
  <2> QED
    BY <2>1 DEF SenderInv
<1>4. CASE Reconnect
  <2>1. /\ ~whole /\ whole' = whole
        /\ UNCHANGED total_samples_read /\ UNCHANGED lost
    BY <1>4 DEF Reconnect, SenderInv, micVars, senderVars
  <2> QED
    BY <2>1 DEF SenderInv
<1>5. CASE UNCHANGED vars
  BY <1>5 DEF vars, micVars, senderVars, SenderInv, Now
<1> QED
  BY <1>1, <1>2, <1>3, <1>4, <1>5, SenderWakesStep DEF Next, ReadOnline, ReadOffline

(* While the node stays online, one datagram goes out in each interval of  *)
(* the TSF, none is skipped, and each carries its interval's number.       *)
THEOREM DatagramsFollowIntervals == StepsAreShort => (Spec => SendsInEachInterval)
<1> SUFFICES ASSUME StepsAreShort PROVE Spec => SendsInEachInterval
  OBVIOUS
<1> DEFINE InTurn == (payload' # payload /\ payload'.whole) =>
                       /\ payload'.tsf_time \div Interval = payload'.sequence_id
                       /\ payload.whole => payload'.sequence_id = payload.sequence_id + 1
<1>1. SenderInv /\ [Next]_vars => [InTurn]_vars
  <2> SUFFICES ASSUME SenderInv, Next, payload' # payload, payload'.whole
               PROVE  /\ payload'.tsf_time \div Interval = payload'.sequence_id
                      /\ payload.whole => payload'.sequence_id = payload.sequence_id + 1
    OBVIOUS
  <2>1. SenderWakes /\ Send /\ online
    BY DEF Next, ReadOnline, ReadOffline, Read, Lose, LoseConnection, Reconnect, senderVars,
           SenderWakes, Send
  <2>2. whole
    BY <2>1 DEF Send
  <2> QED
    BY <2>1, <2>2, WholeSends
<1>2. SenderInv /\ [Next]_vars => SenderInv'
  BY SenderStep
<1> QED
  BY <1>1, <1>2, SenderInit, PTL DEF Spec, SendsInEachInterval

-----------------------------------------------------------------------------
(* How the stamps recover from a clock that read 0.  Whatever the average  *)
(* is then, the last offsets of the history, one for each read since, are  *)
(* those of a running clock.                                               *)

Sound(offset) == offset \in Nat /\ Boot <= offset /\ offset <= Latest

RecoveryInv ==
  /\ total_samples_read \in Nat /\ lost \in Nat /\ smoothed_offset \in Int
  /\ offset_history \in Seq(Int) /\ Len(offset_history) <= HistoryLength
  /\ clean \in Nat
  /\ \A i \in DOMAIN offset_history :
       i > Len(offset_history) - clean => Sound(offset_history[i])

(* The quotient of C keeps between integer bounds whatever their signs     *)
(* are: it is rounded towards 0, never past an integer.                    *)
LEMMA QuotientKeepsBounds ==
  ASSUME NEW x \in Int, NEW n \in Nat, n > 0, NEW lo \in Int, NEW hi \in Int,
         n * lo <= x, x <= n * hi
  PROVE  /\ Quotient(x, n) \in Int
         /\ lo <= Quotient(x, n) /\ Quotient(x, n) <= hi
<1>1. CASE x >= 0
  <2>1. x \in Nat /\ x < n * hi + n
    <3>1. n * hi \in Int
      OBVIOUS
    <3> QED
      BY <1>1, <3>1
  <2>2. lo <= x \div n /\ x \div n <= hi /\ x \div n \in Nat
    BY <2>1, QuotientBounds, Division
  <2> QED
    BY <1>1, <2>2 DEF Quotient
<1>2. CASE x < 0
  <2> DEFINE y == -x
  <2>1. y \in Nat /\ n * (-hi) <= y /\ y < n * (-lo) + n /\ -hi \in Int /\ -lo \in Int
    <3>1. n * (-hi) = -(n * hi) /\ n * (-lo) = -(n * lo) /\ n * hi \in Int /\ n * lo \in Int
      OBVIOUS
    <3> QED
      BY <1>2, <3>1
  <2> HIDE DEF y
  <2>2. -hi <= y \div n /\ y \div n <= -lo /\ y \div n \in Nat
    BY <2>1, QuotientBounds, Division
  <2>3. Quotient(x, n) = -(y \div n)
    BY <1>2 DEF Quotient, y
  <2> DEFINE d == y \div n
  <2> HIDE DEF d
  <2>4. d \in Nat /\ -hi <= d /\ d <= -lo /\ Quotient(x, n) = -d
    BY <2>2, <2>3 DEF d
  <2> QED
    BY <2>4
<1> QED
  BY <1>1, <1>2

(* One step of the average towards m, which is sound, from below or above  *)
(* the sound offsets lo .. hi.  It moves towards them and not past them,   *)
(* and moves at all when it is more than Inertia away.                     *)
LEMMA SmoothedApproaches ==
  ASSUME NEW s \in Int, s # 0, NEW lo \in Nat, NEW hi \in Nat,
         NEW m \in Nat, lo <= m, m <= hi
  PROVE  /\ Smoothed(s, m) \in Int
         /\ lo <= s \/ s <= Smoothed(s, m)
         /\ s <= hi \/ Smoothed(s, m) <= s
         /\ lo <= Smoothed(s, m) \/ s < lo
         /\ Smoothed(s, m) <= hi \/ hi < s
         /\ lo - s > Inertia => s < Smoothed(s, m)
         /\ s - hi > Inertia => Smoothed(s, m) < s
<1> DEFINE n == Inertia + 1
           x == s * Inertia + m
           q == Smoothed(s, m)
<1>1. n \in Nat /\ n > 0 /\ x \in Int /\ q = Quotient(x, n)
  BY ConstantFacts DEF Smoothed
<1>2. /\ s * Inertia \in Int /\ n * s = s * Inertia + s
      /\ x = n * s + (m - s)
      /\ n * (s + 1) = n * s + n /\ n * (s - 1) = n * s - n
  BY ConstantFacts
<1>3. n * s \in Int
  BY <1>1
<1>4. CASE lo <= s /\ s <= hi
  <2>1. lo * Inertia <= s * Inertia /\ s * Inertia <= hi * Inertia
    BY <1>4, ConstantFacts
  <2>2. n * lo = lo * Inertia + lo /\ n * hi = hi * Inertia + hi
        /\ lo * Inertia \in Int /\ hi * Inertia \in Int
    BY ConstantFacts
  <2>3. n * lo <= x /\ x <= n * hi
    BY <1>2, <2>1, <2>2
  <2>4. q \in Int /\ lo <= q /\ q <= hi
    BY <1>1, <2>3, QuotientKeepsBounds
  <2> QED
    BY <1>4, <2>4, ConstantFacts
<1>5. CASE s < lo
  <2>1. n * lo = lo * Inertia + lo /\ n * hi = hi * Inertia + hi
        /\ lo * Inertia \in Int /\ hi * Inertia \in Int
    BY ConstantFacts
  <2>2. s * Inertia <= hi * Inertia
    BY <1>5, ConstantFacts
  <2>3. n * s <= x /\ x <= n * hi
    BY <1>2, <1>3, <1>5, <2>1, <2>2
  <2>4. q \in Int /\ s <= q /\ q <= hi
    BY <1>1, <2>3, QuotientKeepsBounds
  <2>5. ASSUME lo - s > Inertia PROVE s < q
    <3>1. m - s >= n
      BY <2>5, ConstantFacts
    <3>2. n * (s + 1) <= x
      BY <1>1, <1>2, <1>3, <3>1
    <3>3. s + 1 \in Int /\ hi \in Int
      OBVIOUS
    <3> HIDE DEF n, x, q
    <3>4. s + 1 <= q
      BY ONLY <1>1, <2>3, <3>2, <3>3, QuotientKeepsBounds
    <3> QED
      BY <2>4, <3>4
  <2> QED
    BY <1>5, <2>4, <2>5, ConstantFacts
<1>6. CASE hi < s
  <2>1. n * lo = lo * Inertia + lo /\ lo * Inertia \in Int
    BY ConstantFacts
  <2>2. lo * Inertia <= s * Inertia
    BY <1>6, ConstantFacts
  <2>3. n * lo <= x /\ x <= n * s
    BY <1>2, <1>3, <1>6, <2>1, <2>2
  <2>4. q \in Int /\ lo <= q /\ q <= s
    BY <1>1, <2>3, QuotientKeepsBounds
  <2>5. ASSUME s - hi > Inertia PROVE q < s
    <3>1. s - m >= n
      BY <2>5, ConstantFacts
    <3>2. x <= n * (s - 1)
      BY <1>1, <1>2, <1>3, <3>1
    <3>3. s - 1 \in Int /\ lo \in Int
      OBVIOUS
    <3> HIDE DEF n, x, q
    <3>4. q <= s - 1
      BY ONLY <1>1, <2>3, <3>2, <3>3, QuotientKeepsBounds
    <3> QED
      BY <2>4, <3>4
  <2> QED
    BY <1>6, <2>4, <2>5, ConstantFacts
<1> QED
  BY <1>4, <1>5, <1>6

(* What a read appends is the last offset of the history, and the others   *)
(* keep their distances from the end.                                      *)
LEMMA RecentKeepsOrder ==
  ASSUME NEW s \in Seq(Int), Len(s) <= HistoryLength, NEW o \in Int
  PROVE  LET t == Recent(Append(s, o))
         IN  /\ t \in Seq(Int) /\ Len(t) <= HistoryLength /\ Len(t) > 0
             /\ t[Len(t)] = o
             /\ \A i \in DOMAIN t : i = Len(t) \/
                  \E j \in DOMAIN s : t[i] = s[j] /\ Len(s) - j = Len(t) - 1 - i
<1> DEFINE a == Append(s, o)
<1>1. a \in Seq(Int) /\ Len(a) = Len(s) + 1 /\ a[Len(s) + 1] = o
      /\ \A j \in 1 .. Len(s) : a[j] = s[j]
  OBVIOUS
<1>2. Len(s) \in Nat /\ DOMAIN s = 1 .. Len(s)
  OBVIOUS
<1> HIDE DEF a
<1>3. CASE Len(a) > HistoryLength
  <2>1. Recent(a) = Tail(a)
    BY <1>3 DEF Recent
  <2>2. Tail(a) \in Seq(Int) /\ Len(Tail(a)) = Len(s) /\ DOMAIN Tail(a) = 1 .. Len(s)
        /\ \A i \in 1 .. Len(s) : Tail(a)[i] = a[i + 1]
    BY <1>1, <1>2
  <2>3. Len(s) > 0
    BY <1>1, <1>2, <1>3, ConstantFacts
  <2>4. Tail(a)[Len(s)] = o
    BY <1>1, <1>2, <2>2, <2>3
  <2>5. ASSUME NEW i \in 1 .. Len(s), i # Len(s)
        PROVE  \E j \in DOMAIN s : Tail(a)[i] = s[j] /\ Len(s) - j = Len(s) - 1 - i
    <3>1. i + 1 \in 1 .. Len(s) /\ Len(s) - (i + 1) = Len(s) - 1 - i
      <4>0. Len(s) \in Nat
        BY <1>2
      <4>1. PICK k \in Nat : k = Len(s)
        BY ONLY <4>0
      <4>2. i \in 1 .. k /\ i # k
        BY <2>5, <4>1
      <4>3. i + 1 \in 1 .. k /\ k - (i + 1) = k - 1 - i
        BY <4>2
      <4> QED
        BY <4>1, <4>3
    <3>2. Tail(a)[i] = s[i + 1]
      BY <1>1, <2>2, <3>1
    <3> QED
      BY <1>2, <3>1, <3>2
  <2> QED
    BY <2>1, <2>2, <2>3, <2>4, <2>5 DEF a
<1>4. CASE ~(Len(a) > HistoryLength)
  <2>1. Recent(a) = a
    BY <1>4 DEF Recent
  <2>2. DOMAIN a = 1 .. Len(s) + 1
    BY <1>1
  <2>3. Len(a) <= HistoryLength /\ Len(a) > 0
    BY <1>1, <1>2, <1>4, ConstantFacts
  <2>4. ASSUME NEW i \in 1 .. Len(s) + 1, i # Len(s) + 1
        PROVE  \E j \in DOMAIN s : a[i] = s[j] /\ Len(s) - j = Len(s) + 1 - 1 - i
    <3>1. i \in 1 .. Len(s) /\ Len(s) - i = Len(s) + 1 - 1 - i
      <4>0. Len(s) \in Nat
        BY <1>2
      <4>1. PICK k \in Nat : k = Len(s)
        BY ONLY <4>0
      <4>2. i \in 1 .. k + 1 /\ i # k + 1
        BY <2>4, <4>1
      <4>3. i \in 1 .. k /\ k - i = k + 1 - 1 - i
        BY <4>2
      <4> QED
        BY <4>1, <4>3
    <3> QED
      BY <1>1, <1>2, <3>1
  <2> QED
    BY <1>1, <2>1, <2>2, <2>3, <2>4 DEF a
<1> QED
  BY <1>3, <1>4

(* What a read while the clock runs finds.                                 *)
LEMMA OnlineOffset ==
  ASSUME RecoveryInv, NEW delay \in 0 .. MaxDelay
  PROVE  Sound(Offset(delay)) /\ Ticks(ChunkEnd) \in Nat /\ Latest \in Nat
<1>1. ChunkEnd \in Nat /\ lost \in Nat /\ ChunkEnd + lost \in Nat
  BY ConstantFacts DEF RecoveryInv, ChunkEnd
<1>2. /\ Ticks(ChunkEnd) \in Nat /\ Ticks(lost) \in Nat
      /\ Ticks(ChunkEnd) + Ticks(lost) <= Ticks(ChunkEnd + lost)
      /\ Ticks(ChunkEnd + lost) <= Ticks(ChunkEnd) + Ticks(lost) + 1
  BY <1>1, TicksAdd
<1>3. Ticks(ChunkEnd + lost) \in Nat
  BY <1>1, TicksAdd
<1> QED
  BY <1>2, <1>3, ConstantFacts DEF Sound, Offset, Latest

(* A read, of a running clock or not, keeps the history as it is counted.  *)
LEMMA RecoveryRead ==
  ASSUME RecoveryInv, NEW offset \in Int, ReadAt(offset), clean' \in Nat,
         clean' = 0 \/ (Sound(offset) /\ clean' <= clean + 1)
  PROVE  RecoveryInv'
<1> DEFINE s == offset_history
<1>1. offset_history' = Recent(Append(s, offset)) /\ lost' = lost
      /\ total_samples_read' = total_samples_read + SamplesPerChunk
  BY DEF ReadAt, ChunkEnd
<1>2. s \in Seq(Int) /\ Len(s) <= HistoryLength /\ Len(s) \in Nat
  BY DEF RecoveryInv
<1>3. PICK t : t = Recent(Append(s, offset))
  OBVIOUS
<1>4. /\ t \in Seq(Int) /\ Len(t) <= HistoryLength /\ Len(t) > 0
      /\ t[Len(t)] = offset
      /\ \A i \in DOMAIN t : i = Len(t) \/
           \E j \in DOMAIN s : t[i] = s[j] /\ Len(s) - j = Len(t) - 1 - i
  BY <1>2, <1>3, RecentKeepsOrder
<1>5. Latest' = Latest
  BY <1>1 DEF Latest
<1>6. ASSUME NEW i \in DOMAIN t, i > Len(t) - clean' PROVE Sound(t[i])
  <2>1. i \in Nat /\ Len(t) \in Nat /\ clean \in Nat /\ i <= Len(t)
    BY <1>4 DEF RecoveryInv
  <2>2. Sound(offset) /\ clean' <= clean + 1
    BY <1>6, <2>1
  <2>3. CASE i = Len(t)
    BY <1>4, <2>2, <2>3
  <2>4. CASE i # Len(t)
    <3>1. PICK j \in DOMAIN s : t[i] = s[j] /\ Len(s) - j = Len(t) - 1 - i
      BY <1>4, <2>4
    <3>2. j \in Nat
      BY <1>2
    <3>3. j > Len(s) - clean
      <4>1. PICK ls \in Nat, lt \in Nat, c \in Nat, d \in Nat :
              ls = Len(s) /\ lt = Len(t) /\ c = clean /\ d = clean'
        BY <1>2, <2>1
      <4>2. ls - j = lt - 1 - i /\ d <= c + 1 /\ i > lt - d /\ i \in Nat
        BY <1>6, <2>1, <2>2, <3>1, <4>1
      <4>3. j > ls - c
        BY <3>2, <4>2
      <4> QED
        BY <4>1, <4>3
    <3> QED
      BY <3>1, <3>3 DEF RecoveryInv
  <2> QED
    BY <2>3, <2>4
<1>7. smoothed_offset' \in Int
  <2>1. PICK m \in Range(offset_history') : smoothed_offset' = Smoothed(smoothed_offset, m)
    BY DEF ReadAt
  <2>2. m \in Int
    BY <1>1, <1>3, <1>4, <2>1 DEF Range
  <2>3. smoothed_offset * Inertia + m \in Int /\ Inertia + 1 \in Nat /\ Inertia + 1 > 0
        /\ smoothed_offset \in Int
    BY <2>2, ConstantFacts DEF RecoveryInv
  <2> DEFINE x == smoothed_offset * Inertia + m
             n == Inertia + 1
  <2> HIDE DEF x, n
  <2>4. x \in Int /\ n \in Nat /\ n > 0
    BY <2>3 DEF x, n
  <2>5. Quotient(x, n) \in Int
    <3>1. x >= 0 => x \in Nat /\ x \div n \in Int
      BY <2>4, Division
    <3>2. x < 0 => -x \in Nat /\ -((-x) \div n) \in Int
      BY <2>4, Division
    <3> QED
      BY <2>4, <3>1, <3>2 DEF Quotient
  <2> QED
    BY <2>1, <2>2, <2>5 DEF Smoothed, x, n
<1>8. offset_history' = t
  BY <1>1, <1>3
<1>9. total_samples_read' \in Nat /\ lost' \in Nat
  BY <1>1, ConstantFacts DEF RecoveryInv
<1>10. \A i \in DOMAIN t :
         i > Len(t) - clean' => t[i] \in Nat /\ Boot <= t[i] /\ t[i] <= Latest'
  BY <1>5, <1>6 DEF Sound
<1> QED
  BY <1>4, <1>7, <1>8, <1>9, <1>10 DEF RecoveryInv, Sound

LEMMA RecoveryStep == RecoveryInv /\ [Next]_vars => RecoveryInv'
<1> SUFFICES ASSUME RecoveryInv, [Next]_vars PROVE RecoveryInv'
  OBVIOUS
<1>1. ASSUME NEW delay \in 0 .. MaxDelay, ReadOnline(delay) PROVE RecoveryInv'
  <2>1. Sound(Offset(delay)) /\ ReadAt(Offset(delay)) /\ Offset(delay) \in Int
    BY <1>1, OnlineOffset DEF ReadOnline, Read, Sound
  <2>2. clean' \in Nat /\ clean' <= clean + 1
    BY <1>1 DEF ReadOnline, RecoveryInv
  <2> QED
    BY <2>1, <2>2, RecoveryRead
<1>2. CASE ReadOffline
  <2>1. ReadAt(0 - Ticks(ChunkEnd)) /\ clean' = 0
    BY <1>2 DEF ReadOffline, Read
  <2>2. 0 - Ticks(ChunkEnd) \in Int
    <3>1. 0 \in 0 .. MaxDelay
      BY ConstantFacts
    <3>2. Ticks(ChunkEnd) \in Nat
      BY <3>1, OnlineOffset
    <3> QED
      BY <3>2
  <2>3. clean' \in Nat
    BY <2>1
  <2> QED
    BY <2>1, <2>2, <2>3, RecoveryRead
<1>3. ASSUME NEW n \in 1 .. MaxLost, Lose(n) PROVE RecoveryInv'
  <2>1. /\ lost' = lost + n
        /\ UNCHANGED total_samples_read /\ UNCHANGED offset_history
        /\ UNCHANGED smoothed_offset /\ UNCHANGED clean
    BY <1>3 DEF Lose, LoseSamples
  <2>2. lost \in Nat /\ lost' \in Nat /\ lost <= lost'
    BY <2>1 DEF RecoveryInv
  <2>3. Ticks(lost) \in Nat /\ Ticks(lost') \in Nat /\ Ticks(lost) <= Ticks(lost')
    BY <2>2, TicksAdd, TicksMonotone
  <2>4. Latest \in Nat /\ Latest' \in Nat /\ Latest <= Latest'
    BY <2>3, ConstantFacts DEF Latest
  <2>5. \A o : Sound(o) => Sound(o)'
    BY <2>4, ConstantFacts DEF Sound
  <2> QED
    BY <2>1, <2>2, <2>5 DEF RecoveryInv
<1>4. CASE SenderWakes \/ LoseConnection \/ Reconnect \/ UNCHANGED vars
  <2>1. /\ UNCHANGED lost /\ UNCHANGED total_samples_read /\ UNCHANGED offset_history
        /\ UNCHANGED smoothed_offset /\ UNCHANGED clean
    BY <1>4 DEF SenderWakes, Send, LoseConnection, Reconnect, vars, micVars
  <2>2. Latest' = Latest
    BY <2>1 DEF Latest
  <2> QED
    BY <2>1, <2>2 DEF RecoveryInv, Sound
<1> QED
  BY <1>1, <1>2, <1>3, <1>4 DEF Next

LEMMA RecoveryInit == Init => RecoveryInv
<1> SUFFICES ASSUME Init PROVE RecoveryInv
  OBVIOUS
<1>1. <<>> \in Seq(Int) /\ Len(<<>>) = 0 /\ DOMAIN <<>> = {}
  OBVIOUS
<1> QED
  BY <1>1, ConstantFacts DEF Init, MicInit, RecoveryInv

(* Off as a distance from the sound offsets.                               *)
LEMMA OffFalls ==
  ASSUME NEW s \in Int, NEW m \in Int, Sound(m), Latest \in Nat
  PROVE  /\ Off(Smoothed(s, m)) <= Off(s)
         /\ Off(s) > Inertia => Off(Smoothed(s, m)) < Off(s)
<1>1. /\ Boot \in Nat /\ m \in Nat /\ Boot <= m /\ m <= Latest /\ Inertia \in Nat
  BY ConstantFacts DEF Sound
<1>2. PICK latest \in Nat : latest = Latest
  OBVIOUS
<1>3. \A o \in Int :
        Off(o) = IF o < Boot THEN Boot - o ELSE IF o > latest THEN o - latest ELSE 0
  BY <1>2 DEF Off, Latest
<1>4. CASE s = 0
  <2>1. Smoothed(s, m) = m
    BY <1>4 DEF Smoothed
  <2>2. Off(m) = 0
    BY <1>1, <1>2, <1>3
  <2>3. Off(s) \in Nat
    BY <1>1, <1>3
  <2> QED
    BY <1>1, <2>1, <2>2, <2>3
<1>5. CASE s # 0
  <2>1. PICK q : q = Smoothed(s, m)
    OBVIOUS
  <2>2. /\ q \in Int
        /\ Boot <= s \/ s <= q
        /\ s <= latest \/ q <= s
        /\ Boot <= q \/ s < Boot
        /\ q <= latest \/ latest < s
        /\ Boot - s > Inertia => s < q
        /\ s - latest > Inertia => q < s
    BY <1>1, <1>2, <1>5, <2>1, SmoothedApproaches
  <2>3. /\ Off(s) = IF s < Boot THEN Boot - s ELSE IF s > latest THEN s - latest ELSE 0
        /\ Off(q) = IF q < Boot THEN Boot - q ELSE IF q > latest THEN q - latest ELSE 0
    BY <1>3, <2>2
  <2>4. Boot <= latest
    BY <1>1, <1>2
  <2>5. Off(q) <= Off(s) /\ (Off(s) > Inertia => Off(q) < Off(s))
    BY <1>1, <2>2, <2>3, <2>4
  <2> QED
    BY <2>1, <2>5
<1> QED
  BY <1>4, <1>5

(* As soon as no offset of an outage is left in the history, every chunk   *)
(* brings the stamps nearer to what the clock allows, or leaves them less  *)
(* than Inertia away from it; none drives them off again, whatever the     *)
(* delays and losses, on which nothing is assumed.                         *)
THEOREM StampsComeBack == Spec => StampsRecover
<1> DEFINE Nearer == (packet' # packet /\ clean' = HistoryLength) =>
                       /\ Off(smoothed_offset') <= Off(smoothed_offset)
                       /\ Off(smoothed_offset) > Inertia =>
                            Off(smoothed_offset') < Off(smoothed_offset)
<1>1. RecoveryInv /\ [Next]_vars => [Nearer]_vars
  <2> SUFFICES ASSUME RecoveryInv, Next, packet' # packet, clean' = HistoryLength
               PROVE  /\ Off(smoothed_offset') <= Off(smoothed_offset)
                      /\ Off(smoothed_offset) > Inertia =>
                           Off(smoothed_offset') < Off(smoothed_offset)
    OBVIOUS
  <2>1. PICK offset : Read(offset)
    BY DEF Next, Lose, LoseSamples, SenderWakes, Send, LoseConnection, Reconnect, micVars,
           ReadOnline, ReadOffline
  <2>2. PICK m \in Range(offset_history') : smoothed_offset' = Smoothed(smoothed_offset, m)
    BY <2>1 DEF Read, ReadAt
  <2>3. Latest' = Latest
    BY <2>1 DEF Read, ReadAt, Latest
  <2>4. RecoveryInv'
    BY RecoveryStep
  <2>5. PICK i \in DOMAIN offset_history' : m = offset_history'[i]
    BY <2>2 DEF Range
  <2>6. PICK t : t = offset_history'
    OBVIOUS
  <2>7. t \in Seq(Int) /\ Len(t) \in Nat /\ Len(t) <= HistoryLength
    BY <2>4, <2>6 DEF RecoveryInv
  <2>8. i \in DOMAIN t /\ i > Len(t) - HistoryLength
    <3>1. i \in 1 .. Len(t)
      BY <2>5, <2>6, <2>7
    <3> QED
      BY <2>7, <3>1, ConstantFacts
  <2>9. Sound(t[i])'
    BY <2>4, <2>6, <2>8 DEF RecoveryInv
  <2>10. Sound(m) /\ m \in Int
    BY <2>3, <2>5, <2>6, <2>9 DEF Sound
  <2>11. smoothed_offset \in Int /\ Latest \in Nat
    <3>1. 0 \in 0 .. MaxDelay
      BY ConstantFacts
    <3> QED
      BY <3>1, OnlineOffset DEF RecoveryInv
  <2>12. /\ Off(Smoothed(smoothed_offset, m)) <= Off(smoothed_offset)
         /\ Off(smoothed_offset) > Inertia =>
              Off(Smoothed(smoothed_offset, m)) < Off(smoothed_offset)
    BY <2>10, <2>11, OffFalls
  <2> QED
    BY <2>2, <2>12
<1> QED
  BY <1>1, RecoveryInit, RecoveryStep, PTL DEF Spec, StampsRecover
=============================================================================

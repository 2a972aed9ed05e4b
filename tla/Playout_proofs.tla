--------------------------- MODULE Playout_proofs ---------------------------
(***************************************************************************)
(* Proofs about one jitter buffer, for every target size, every modulus    *)
(* and every set of packets the network may deliver.                       *)
(***************************************************************************)
EXTENDS Playout, WellFoundedInduction, TLAPS

-----------------------------------------------------------------------------
(* Least and greatest elements: what makes begin(), rbegin() and           *)
(* upper_bound() of a nonempty map well defined.                           *)

LEMMA LessThanRelation ==
  \E R : /\ IsWellFoundedOn(R, Nat)
         /\ \A a, b \in Nat : a < b => <<a, b>> \in R
<1>1. IsWellFoundedOn(OpToRel(<, Nat), Nat)
  BY NatLessThanWellFounded
<1>2. \A a, b \in Nat : a < b => <<a, b>> \in OpToRel(<, Nat)
  BY Zenon DEF OpToRel
<1> QED
  BY Zenon, <1>1, <1>2

LEMMA LeastExists ==
  ASSUME NEW S \in SUBSET Nat, S # {}
  PROVE  \E m \in S : \A k \in S : m <= k
<1>1. PICK R : /\ IsWellFoundedOn(R, Nat)
               /\ \A a, b \in Nat : a < b => <<a, b>> \in R
  BY LessThanRelation
<1>2. \E m \in S : \A k \in S : ~(<<k, m>> \in R)
  <2>1. IsWellFoundedOn(R, Nat)
    BY <1>1
  <2>2. S \subseteq Nat
    OBVIOUS
  <2> QED
    BY ONLY <2>1, <2>2, S # {}, WFMin, Zenon
<1>3. \A m, k \in Nat : ~(k < m) => m <= k
  OBVIOUS
<1> QED
  BY <1>1, <1>2, <1>3

(* Min of a nonempty set of naturals is its least element.                 *)
LEMMA MinIsLeast ==
  ASSUME NEW S \in SUBSET Nat, S # {}
  PROVE  Min(S) \in S /\ \A k \in S : Min(S) <= k
BY LeastExists DEF Min

(* A nonempty set of sequence numbers has a greatest element: the least of *)
(* its mirror image.                                                       *)
LEMMA MaxIsGreatest ==
  ASSUME NEW S \in SUBSET Seqs, S # {}
  PROVE  Max(S) \in S /\ \A k \in S : k <= Max(S)
<1> DEFINE Mirror == {SeqMod - 1 - k : k \in S}
<1>0. SeqMod \in Nat /\ \A k \in S : k \in Nat /\ SeqMod - 1 - k \in Nat
  BY JitterBufferAssumption DEF Seqs
<1>1. Mirror \in SUBSET Nat /\ Mirror # {}
  BY <1>0
<1>2. PICK m \in Mirror : \A k \in Mirror : m <= k
  BY <1>1, LeastExists
<1>3. PICK g \in S : m = SeqMod - 1 - g
  BY <1>2
<1>4. \A k \in S : k <= g
  <2> TAKE k \in S
  <2>1. m <= SeqMod - 1 - k
    BY <1>2
  <2> QED
    BY <2>1, <1>3, <1>0
<1> QED
  BY <1>4 DEF Max

-----------------------------------------------------------------------------
(* What the class's operations do to a well-formed buffer.                 *)

LEMMA NewIsJitterBuffer == IsJitterBuffer(NewJitterBuffer)
<1>1. 0 \in Seqs
  BY JitterBufferAssumption DEF Seqs
<1>2. NewJitterBuffer.buffer \in [{} -> Packets] /\ Buffered(NewJitterBuffer) = {}
  BY DEF NewJitterBuffer, Buffered
<1> QED
  BY <1>1, <1>2 DEF NewJitterBuffer, IsJitterBuffer

(* Storing a packet touches its own key only.                              *)
LEMMA StoreFacts ==
  ASSUME NEW j, IsJitterBuffer(j), NEW p \in Packets
  PROVE  /\ DOMAIN Store(j.buffer, p) = Buffered(j) \cup {p.seq}
         /\ DOMAIN Store(j.buffer, p) \subseteq Seqs
         /\ DOMAIN Store(j.buffer, p) # {}
         /\ Store(j.buffer, p) \in [DOMAIN Store(j.buffer, p) -> Packets]
         /\ Store(j.buffer, p)[p.seq] = p
         /\ \A s \in Buffered(j) : s # p.seq => Store(j.buffer, p)[s] = j.buffer[s]
<1>1. p.seq \in Seqs
  BY DEF Packets
<1> QED
  BY <1>1 DEF Store, IsJitterBuffer, Buffered

(* The lowest key of a map of packets is a sequence number.                *)
LEMMA LowestKey ==
  ASSUME NEW S \in SUBSET Seqs, S # {}
  PROVE  Min(S) \in S /\ Min(S) \in Seqs /\ \A k \in S : Min(S) <= k
<1>1. S \in SUBSET Nat
  BY JitterBufferAssumption DEF Seqs
<1> QED
  BY <1>1, MinIsLeast

(* The four ways through push().                                           *)
PushDrops(j, p) == IsLate(j, p.seq) /\ Push(j, p) = j

PushExtendsRun(j, p) ==
  /\ ~j.buffering /\ ~(p.seq < j.next_play_seq)
  /\ Push(j, p) = [buffer |-> Store(j.buffer, p), next_play_seq |-> j.next_play_seq,
                   buffering |-> FALSE]

PushStarts(j, p) ==
  /\ j.buffering
  /\ Push(j, p) = [buffer |-> Store(j.buffer, p),
                   next_play_seq |-> Min(DOMAIN Store(j.buffer, p)), buffering |-> FALSE]

PushHolds(j, p) ==
  /\ j.buffering
  /\ ~(Span(DOMAIN Store(j.buffer, p)) >= TargetBufferSize)
  /\ \E n \in Seqs :
       Push(j, p) = [buffer |-> Store(j.buffer, p), next_play_seq |-> n, buffering |-> TRUE]

LEMMA PushCases ==
  ASSUME NEW j, IsJitterBuffer(j), NEW p \in Packets
  PROVE  PushDrops(j, p) \/ PushExtendsRun(j, p) \/ PushStarts(j, p) \/ PushHolds(j, p)
<1> DEFINE stored == Store(j.buffer, p)
           enough == Span(DOMAIN stored) >= TargetBufferSize
<1>0. /\ j.buffering \in BOOLEAN
      /\ j.next_play_seq \in Seqs
      /\ p.seq \in Seqs
  BY DEF IsJitterBuffer, Packets
<1>1. CASE ~j.buffering /\ p.seq < j.next_play_seq
  BY <1>1 DEF PushDrops, Push, IsLate
<1>2. CASE ~j.buffering /\ ~(p.seq < j.next_play_seq)
  BY <1>2, <1>0 DEF PushExtendsRun, Push, IsLate
<1>3. CASE j.buffering /\ enough
  BY <1>3, <1>0 DEF PushStarts, Push, IsLate
<1>4. CASE j.buffering /\ ~enough
  <2>1. CASE Buffered(j) = {}
    BY <1>4, <2>1, <1>0 DEF PushHolds, Push, IsLate
  <2>2. CASE Buffered(j) # {}
    BY <1>4, <2>2, <1>0 DEF PushHolds, Push, IsLate
  <2> QED
    BY <2>1, <2>2
<1> QED
  BY <1>0, <1>1, <1>2, <1>3, <1>4

LEMMA PushIsJitterBuffer ==
  ASSUME NEW j, IsJitterBuffer(j), NEW p \in Packets
  PROVE  IsJitterBuffer(Push(j, p))
<1>1. Min(DOMAIN Store(j.buffer, p)) \in Seqs
  BY StoreFacts, LowestKey
<1>2. \A n \in Seqs, b \in BOOLEAN :
        IsJitterBuffer([buffer |-> Store(j.buffer, p), next_play_seq |-> n, buffering |-> b])
  BY StoreFacts DEF IsJitterBuffer, Buffered
<1>3. j.next_play_seq \in Seqs
  BY DEF IsJitterBuffer
<1> QED
  BY <1>1, <1>2, <1>3, PushCases DEF PushDrops, PushExtendsRun, PushStarts, PushHolds

(* The successor of a sequence number, and where it wraps.                 *)
LEMMA NextSeqFacts ==
  ASSUME NEW q \in Seqs
  PROVE  /\ NextSeq(q) \in Seqs
         /\ NextSeq(q) = 0 \/ NextSeq(q) = q + 1
<1>1. SeqMod \in Nat /\ SeqMod > 1 /\ q \in 0 .. SeqMod - 1
  BY JitterBufferAssumption DEF Seqs
<1>2. CASE q = SeqMod - 1
  BY <1>1, <1>2 DEF NextSeq, Seqs
<1>3. CASE q < SeqMod - 1
  BY <1>1, <1>3 DEF NextSeq, Seqs
<1> QED
  BY <1>1, <1>2, <1>3

LEMMA PoppedIsPacket ==
  ASSUME NEW j, IsJitterBuffer(j)
  PROVE  Popped(j) \in Packets
<1>0. /\ j.next_play_seq \in Seqs
      /\ \A s \in Buffered(j) : j.buffer[s] \in Packets
  BY DEF IsJitterBuffer
<1>1. CASE j.next_play_seq \in Buffered(j)
  BY <1>0, <1>1 DEF Popped
<1>2. CASE j.next_play_seq \notin Buffered(j)
  <2>1. DummyTsf(j) \in Tsfs
    <3>1. CASE Ahead(j) = {}
      BY <3>1, JitterBufferAssumption DEF DummyTsf, Tsfs
    <3>2. CASE Ahead(j) # {}
      <4> DEFINE next == Min(Ahead(j))
                 back == j.buffer[next].tsf - (next - j.next_play_seq) * PacketPeriod
      <4>1. Ahead(j) \in SUBSET Seqs /\ Ahead(j) \subseteq Buffered(j)
        BY DEF Ahead, IsJitterBuffer
      <4>2. next \in Buffered(j) /\ next \in Seqs
        BY <3>2, <4>1, LowestKey
      <4>3. j.buffer[next].tsf \in Int /\ next \in Int /\ j.next_play_seq \in Int
        BY <4>2, <1>0, JitterBufferAssumption DEF Packets, Tsfs, Seqs
      <4>4. back \in Int
        <5>1. next - j.next_play_seq \in Int /\ PacketPeriod \in Int
          BY <4>3, JitterBufferAssumption
        <5>2. \A a, b \in Int : a * b \in Int
          OBVIOUS
        <5> QED
          BY <5>1, <5>2, <4>3
      <4>5. \A x \in Int : x % TsfMod \in Tsfs
        BY JitterBufferAssumption DEF Tsfs
      <4> QED
        BY <3>2, <4>4, <4>5 DEF DummyTsf
    <3> QED
      BY <3>1, <3>2
  <2> QED
    BY <1>0, <1>2, <2>1 DEF Popped, Dummy, Packets
<1> QED
  BY <1>1, <1>2

(* A successful pop() advances the position by one and takes at most the   *)
(* packet at the old position out of the map.                              *)
LEMMA AfterPopFacts ==
  ASSUME NEW j, IsJitterBuffer(j)
  PROVE  /\ IsJitterBuffer(AfterPop(j))
         /\ AfterPop(j).buffering = j.buffering
         /\ AfterPop(j).next_play_seq = NextSeq(j.next_play_seq)
         /\ Buffered(AfterPop(j)) = Buffered(j) \ {j.next_play_seq}
         /\ \A s \in Buffered(AfterPop(j)) : AfterPop(j).buffer[s] = j.buffer[s]
<1>1. AfterPop(j) = [buffer |-> Erase(j.buffer, j.next_play_seq),
                     next_play_seq |-> NextSeq(j.next_play_seq), buffering |-> j.buffering]
  BY DEF AfterPop
<1>2. NextSeq(j.next_play_seq) \in Seqs
  BY NextSeqFacts DEF IsJitterBuffer
<1>3. Erase(j.buffer, j.next_play_seq) \in [Buffered(j) \ {j.next_play_seq} -> Packets]
  BY DEF Erase, IsJitterBuffer, Buffered
<1>4. \A s \in Buffered(j) \ {j.next_play_seq} :
        Erase(j.buffer, j.next_play_seq)[s] = j.buffer[s]
  BY DEF Erase, Buffered
<1>5. /\ AfterPop(j).buffer = Erase(j.buffer, j.next_play_seq)
      /\ AfterPop(j).buffering = j.buffering
      /\ AfterPop(j).next_play_seq = NextSeq(j.next_play_seq)
      /\ Buffered(AfterPop(j)) = Buffered(j) \ {j.next_play_seq}
  BY <1>1, <1>3 DEF Buffered
<1>6. Buffered(j) \subseteq Seqs /\ j.buffering \in BOOLEAN
  BY DEF IsJitterBuffer
<1>7. IsJitterBuffer(AfterPop(j))
  BY <1>1, <1>2, <1>3, <1>5, <1>6 DEF IsJitterBuffer
<1> QED
  BY <1>4, <1>5, <1>7

LEMMA AfterUnderrunFacts ==
  ASSUME NEW j, IsJitterBuffer(j)
  PROVE  /\ AfterUnderrun(j) = [buffer |-> j.buffer, next_play_seq |-> j.next_play_seq,
                                buffering |-> TRUE]
         /\ IsJitterBuffer(AfterUnderrun(j))
<1>1. AfterUnderrun(j) = [buffer |-> j.buffer, next_play_seq |-> j.next_play_seq,
                          buffering |-> TRUE]
  BY DEF AfterUnderrun
<1>2. \A f, n : f = j.buffer /\ n = j.next_play_seq =>
        IsJitterBuffer([buffer |-> f, next_play_seq |-> n, buffering |-> TRUE])
  BY DEF IsJitterBuffer, Buffered
<1> QED
  BY <1>1, <1>2

-----------------------------------------------------------------------------
(* The inductive invariant.  TypeOK, NothingBehind, RunIsConsecutive and   *)
(* HeldBackIsShort are not inductive together: the packets stored must be  *)
(* received ones under their own key, a silence handed out must still have *)
(* something buffered ahead of it, and a run must start on a packet.       *)

StoredReceived ==
  \A s \in Buffered(jb) : jb.buffer[s].seq = s /\ jb.buffer[s].silent = FALSE

SilenceThenMore == midrun /\ out.silent => Buffered(jb) # {}

RunStartsOnPacket == ~jb.buffering /\ ~midrun => jb.next_play_seq \in Buffered(jb)

IInv ==
  /\ TypeOK
  /\ StoredReceived
  /\ NothingBehind
  /\ RunIsConsecutive
  /\ HeldBackIsShort
  /\ SilenceThenMore
  /\ RunStartsOnPacket

LEMMA InitIInv == Init => IInv
<1> SUFFICES ASSUME Init PROVE IInv
  OBVIOUS
<1>1. TypeOK
  <2>1. NoPacket \in Packets
    BY JitterBufferAssumption DEF NoPacket, Packets, Seqs, Tsfs
  <2> QED
    BY <2>1, NewIsJitterBuffer DEF Init, TypeOK
<1> QED
  BY <1>1 DEF Init, IInv, NewJitterBuffer, Buffered, StoredReceived, NothingBehind,
     RunIsConsecutive, HeldBackIsShort, SilenceThenMore, RunStartsOnPacket

(* Every push, whatever arrives, preserves the invariant.                  *)
LEMMA ReceiveIInv ==
  ASSUME IInv, NEW p \in Arriving, Receive(p)
  PROVE  IInv'
<1> DEFINE S == DOMAIN Store(jb.buffer, p)
<1>1. p \in Packets /\ p.silent = FALSE /\ p.seq \in Seqs
  BY ArrivingAssumption DEF Packets
<1>2. IsJitterBuffer(jb) /\ jb' = Push(jb, p) /\ out' = out /\ midrun' = midrun
  BY DEF IInv, TypeOK, Receive
<1>3. TypeOK'
  BY <1>1, <1>2, PushIsJitterBuffer DEF IInv, TypeOK
<1>4. /\ S = Buffered(jb) \cup {p.seq} /\ S \subseteq Seqs /\ S # {}
      /\ \A s \in S : Store(jb.buffer, p)[s].seq = s /\ Store(jb.buffer, p)[s].silent = FALSE
  <2> IsJitterBuffer(jb) /\ p \in Packets
    BY <1>1, <1>2
  <2>1. /\ S = Buffered(jb) \cup {p.seq} /\ S \subseteq Seqs /\ S # {}
        /\ Store(jb.buffer, p)[p.seq] = p
        /\ \A s \in Buffered(jb) : s # p.seq => Store(jb.buffer, p)[s] = jb.buffer[s]
    BY ONLY IsJitterBuffer(jb), p \in Packets, StoreFacts
  <2> HIDE DEF S
  <2> QED
    BY <1>1, <2>1 DEF IInv, StoredReceived
<1>5. CASE PushDrops(jb, p)
  BY <1>2, <1>3, <1>5 DEF PushDrops, IInv, StoredReceived, NothingBehind, RunIsConsecutive,
     HeldBackIsShort, SilenceThenMore, RunStartsOnPacket
<1>6. CASE PushExtendsRun(jb, p)
  <2>1. /\ Buffered(jb)' = S /\ jb'.buffer = Store(jb.buffer, p)
        /\ jb'.next_play_seq = jb.next_play_seq /\ jb'.buffering = FALSE
        /\ ~jb.buffering
    BY <1>2, <1>6 DEF PushExtendsRun, Buffered
  <2>2. jb.next_play_seq <= p.seq
    BY <1>1, <1>2, <1>6, JitterBufferAssumption DEF PushExtendsRun, IsJitterBuffer, Seqs
  <2>3. StoredReceived'
    BY <1>4, <2>1 DEF StoredReceived
  <2>4. NothingBehind' /\ RunStartsOnPacket' /\ HeldBackIsShort'
    BY <1>2, <1>4, <2>1, <2>2 DEF IInv, NothingBehind, RunStartsOnPacket, HeldBackIsShort
  <2> QED
    BY <1>2, <1>3, <1>4, <2>1, <2>3, <2>4 DEF IInv, RunIsConsecutive, SilenceThenMore
<1>7. CASE PushStarts(jb, p)
  <2>1. /\ Buffered(jb)' = S /\ jb'.buffer = Store(jb.buffer, p)
        /\ jb'.next_play_seq = Min(S) /\ jb'.buffering = FALSE /\ jb.buffering
    BY <1>2, <1>7 DEF PushStarts, Buffered
  <2>2. ~midrun
    BY <2>1 DEF IInv, RunIsConsecutive
  <2>3. Min(S) \in S /\ \A k \in S : Min(S) <= k
    BY <1>4, LowestKey
  <2>4. StoredReceived'
    BY <1>4, <2>1 DEF StoredReceived
  <2>5. NothingBehind' /\ RunStartsOnPacket' /\ HeldBackIsShort'
    BY <2>1, <2>3 DEF NothingBehind, RunStartsOnPacket, HeldBackIsShort
  <2> QED
    BY <1>2, <1>3, <2>2, <2>4, <2>5 DEF IInv, RunIsConsecutive, SilenceThenMore
<1>8. CASE PushHolds(jb, p)
  <2>1. /\ Buffered(jb)' = S /\ jb'.buffer = Store(jb.buffer, p)
        /\ jb'.buffering = TRUE /\ jb.buffering
        /\ ~(Span(S) >= TargetBufferSize)
    BY <1>2, <1>8 DEF PushHolds, Buffered
  <2>2. ~midrun
    BY <2>1 DEF IInv, RunIsConsecutive
  <2>3. Span(S) < TargetBufferSize
    <3>1. Max(S) \in Seqs /\ Min(S) \in Seqs
      BY <1>4, MaxIsGreatest, LowestKey
    <3>2. Max(S) - Min(S) + 1 \in Int
      BY <3>1, JitterBufferAssumption DEF Seqs
    <3>3. Span(S) \in Int
      BY <3>2, JitterBufferAssumption DEF Span
    <3> QED
      BY <2>1, <3>3, JitterBufferAssumption
  <2>4. HeldBackIsShort'
    BY <2>1, <2>3 DEF HeldBackIsShort
  <2>5. StoredReceived'
    BY <1>4, <2>1 DEF StoredReceived
  <2> QED
    BY <1>2, <1>3, <2>1, <2>2, <2>4, <2>5 DEF IInv, NothingBehind, RunIsConsecutive,
       SilenceThenMore, RunStartsOnPacket
<1> QED
  BY <1>1, <1>2, <1>5, <1>6, <1>7, <1>8, PushCases

(* Every successful pop() preserves the invariant.                         *)
LEMMA PlayIInv ==
  ASSUME IInv, Play
  PROVE  IInv'
<1>1. /\ IsJitterBuffer(jb) /\ jb' = AfterPop(jb) /\ out' = Popped(jb) /\ midrun' = TRUE
      /\ ~jb.buffering /\ Buffered(jb) # {}
  BY DEF IInv, TypeOK, Play, CanPop
<1>2. TypeOK'
  BY <1>1, AfterPopFacts, PoppedIsPacket DEF TypeOK
<1>3. /\ jb'.buffering = jb.buffering /\ jb'.next_play_seq = NextSeq(jb.next_play_seq)
      /\ Buffered(jb)' = Buffered(jb) \ {jb.next_play_seq}
      /\ \A s \in Buffered(jb)' : jb'.buffer[s] = jb.buffer[s]
  BY <1>1, AfterPopFacts DEF Buffered
<1>4. StoredReceived'
  BY <1>3 DEF IInv, StoredReceived
<1>5. NothingBehind'
  <2>1. Buffered(jb) \subseteq Seqs /\ jb.next_play_seq \in Seqs
    BY <1>1 DEF IsJitterBuffer
  <2>2. \A s \in Buffered(jb)' : s \in Nat /\ jb.next_play_seq + 1 <= s
    BY <1>1, <1>3, <2>1, JitterBufferAssumption DEF IInv, NothingBehind, Seqs
  <2> QED
    BY <1>3, <2>1, <2>2, NextSeqFacts DEF NothingBehind
<1>6. out'.seq = jb.next_play_seq
  BY <1>1 DEF Popped, Dummy, IInv, StoredReceived
<1>7. RunIsConsecutive'
  BY <1>1, <1>3, <1>6 DEF RunIsConsecutive
<1>8. SilenceThenMore'
  <2>1. CASE jb.next_play_seq \in Buffered(jb)
    BY <1>1, <2>1 DEF Popped, IInv, StoredReceived, SilenceThenMore
  <2>2. CASE jb.next_play_seq \notin Buffered(jb)
    BY <1>1, <1>3, <2>2 DEF SilenceThenMore
  <2> QED
    BY <2>1, <2>2
<1> QED
  BY <1>1, <1>2, <1>3, <1>4, <1>5, <1>7, <1>8 DEF IInv, HeldBackIsShort, RunStartsOnPacket

(* An underrun empties nothing: it finds the buffer empty already.         *)
LEMMA RunDryIInv ==
  ASSUME IInv, RunDry
  PROVE  IInv'
<1>1. /\ IsJitterBuffer(jb) /\ jb' = AfterUnderrun(jb) /\ out' = out /\ midrun' = FALSE
      /\ Buffered(jb) = {}
  BY DEF IInv, TypeOK, RunDry, IsUnderrun
<1>2. IsJitterBuffer(jb') /\ Buffered(jb)' = {} /\ jb'.buffering = TRUE
  BY <1>1, AfterUnderrunFacts DEF Buffered
<1> QED
  BY <1>1, <1>2 DEF IInv, TypeOK, StoredReceived, NothingBehind, RunIsConsecutive,
     HeldBackIsShort, SilenceThenMore, RunStartsOnPacket

LEMMA NextIInv == IInv /\ [Next]_vars => IInv'
<1> SUFFICES ASSUME IInv, [Next]_vars PROVE IInv'
  OBVIOUS
<1>1. ASSUME NEW p \in Arriving, Receive(p) PROVE IInv'
  BY <1>1, ReceiveIInv
<1>2. CASE Play
  BY <1>2, PlayIInv
<1>3. CASE RunDry
  BY <1>3, RunDryIInv
<1>4. CASE UNCHANGED vars
  BY <1>4 DEF vars, IInv, TypeOK, StoredReceived, NothingBehind, RunIsConsecutive,
     HeldBackIsShort, SilenceThenMore, RunStartsOnPacket, Buffered
<1> QED
  BY <1>1, <1>2, <1>3, <1>4 DEF Next, Pop

THEOREM Invariance == Spec => []IInv
BY InitIInv, NextIInv, PTL DEF Spec

-----------------------------------------------------------------------------
(* Every state of a jitter buffer has the types of the class's members.    *)
THEOREM TypeCorrect == Spec => []TypeOK
BY Invariance, PTL DEF IInv

(* During play-out no buffered packet lies behind the play position, for   *)
(* every modulus of the sequence number.                                   *)
THEOREM NeverBehind == Spec => []NothingBehind
BY Invariance, PTL DEF IInv

(* Pushes never move the position of a run in progress.                    *)
THEOREM RunsAreConsecutive == Spec => []RunIsConsecutive
BY Invariance, PTL DEF IInv

(* No playable backlog is held back while buffering.                       *)
THEOREM HoldsBackLittle == Spec => []HeldBackIsShort
BY Invariance, PTL DEF IInv

(* In front of a gap there is always a packet to count a dummy's time back *)
(* from.                                                                   *)
LEMMA AheadOfGap ==
  IInv => (CanPop(jb) /\ jb.next_play_seq \notin Buffered(jb) => Ahead(jb) # {})
<1> SUFFICES ASSUME IInv, CanPop(jb), jb.next_play_seq \notin Buffered(jb)
             PROVE  Ahead(jb) # {}
  OBVIOUS
<1>1. PICK s \in Buffered(jb) : jb.next_play_seq <= s /\ s # jb.next_play_seq
  BY DEF CanPop, IInv, NothingBehind
<1>2. s \in Int /\ jb.next_play_seq \in Int
  BY JitterBufferAssumption DEF IInv, TypeOK, IsJitterBuffer, Seqs
<1> QED
  BY <1>1, <1>2 DEF Ahead

(* The branch of pop() that stamps a dummy with time 0 because no later    *)
(* packet is buffered is dead code.                                        *)
THEOREM FallbackUnreachable ==
  Spec => [](CanPop(jb) /\ jb.next_play_seq \notin Buffered(jb) => Ahead(jb) # {})
BY AheadOfGap, Invariance, PTL

-----------------------------------------------------------------------------
(* Arithmetic modulo T, for the time stamps of silence.                    *)

LEMMA SmallMultiple ==
  ASSUME NEW T \in Nat \ {0}, NEW k \in Int, -T < T * k, T * k < T
  PROVE  k = 0
<1>1. CASE k >= 1
  <2>1. T * k >= T
    BY <1>1
  <2> QED
    BY <2>1
<1>2. CASE k <= -1
  <2>1. T * k <= -T
    BY <1>2
  <2> QED
    BY <2>1
<1> QED
  BY <1>1, <1>2

LEMMA DivMod ==
  ASSUME NEW T \in Nat \ {0}, NEW x \in Int
  PROVE  /\ x \div T \in Int /\ x % T \in 0 .. T-1
        /\ x = T * (x \div T) + (x % T)
OBVIOUS

LEMMA ModUnique ==
  ASSUME NEW T \in Nat \ {0}, NEW x \in Int, NEW k \in Int,
         NEW r \in 0 .. T - 1, x = T * k + r
  PROVE  x % T = r
<1> DEFINE d == x \div T
           m == x % T
<1>1. d \in Int /\ m \in 0 .. T - 1 /\ x = T * d + m
  BY DivMod
<1> HIDE DEF d, m
<1>2. T * d \in Int /\ T * k \in Int /\ T * (d - k) = T * d - T * k /\ d - k \in Int
  BY <1>1
<1>3. T * (d - k) = r - m
  BY <1>1, <1>2
<1>4. d - k = 0
  BY <1>1, <1>2, <1>3, SmallMultiple
<1>5. r = m
  BY <1>1, <1>2, <1>3, <1>4
<1> QED
  BY <1>5 DEF m

(* What is computed from a time stamp does not depend on where that wrapped. *)
LEMMA ModOfDifference ==
  ASSUME NEW T \in Nat \ {0}, NEW a \in Int, NEW b \in Int
  PROVE  ((a % T) - b) % T = (a - b) % T
<1> DEFINE d == a \div T
           c == a - b
           e == c \div T
           r == c % T
           m == a % T
<1>1. d \in Int /\ m \in 0 .. T - 1 /\ a = T * d + m
  BY DivMod
<1>2. c \in Int /\ e \in Int /\ r \in 0 .. T - 1 /\ c = T * e + r
  <2>1. c \in Int
    OBVIOUS
  <2> HIDE DEF c
  <2> QED BY <2>1, DivMod
<1>3. c = a - b
  OBVIOUS
<1> HIDE DEF c, d, e, r, m
<1>4. T * (e - d) = T * e - T * d /\ e - d \in Int /\ T * e \in Int /\ T * d \in Int
  BY <1>1, <1>2
<1>5. m - b = T * (e - d) + r /\ m - b \in Int
  BY <1>1, <1>2, <1>3, <1>4
<1>6. (m - b) % T = r
  BY <1>2, <1>4, <1>5, ModUnique
<1> QED
  BY <1>6 DEF m, r, c

(* For the time stamps what is buffered must be what was sent.             *)
StoredArrived == \A s \in Buffered(jb) : jb.buffer[s] \in Arriving

LEMMA NextStoredArrived ==
  ASSUME IInv, StoredArrived, [Next]_vars
  PROVE  StoredArrived'
<1>0. IsJitterBuffer(jb)
  BY DEF IInv, TypeOK
<1>1. ASSUME NEW p \in Arriving, Receive(p) PROVE StoredArrived'
  <2>1. p \in Packets /\ jb' = Push(jb, p)
    BY <1>1, ArrivingAssumption DEF Packets, Receive
  <2>2. jb' = jb \/ jb'.buffer = Store(jb.buffer, p)
    BY <1>0, <2>1, PushCases DEF PushDrops, PushExtendsRun, PushStarts, PushHolds
  <2>3. /\ DOMAIN Store(jb.buffer, p) = DOMAIN jb.buffer \cup {p.seq}
        /\ Store(jb.buffer, p)[p.seq] = p
        /\ \A s \in DOMAIN jb.buffer : s # p.seq => Store(jb.buffer, p)[s] = jb.buffer[s]
    BY <1>0, <2>1, StoreFacts DEF Buffered
  <2> QED
    BY <2>1, <2>2, <2>3 DEF StoredArrived, Buffered
<1>2. CASE Play
  BY <1>0, <1>2, AfterPopFacts DEF Play, StoredArrived
<1>3. CASE RunDry
  BY <1>0, <1>3, AfterUnderrunFacts DEF RunDry, StoredArrived, Buffered
<1>4. CASE UNCHANGED vars
  BY <1>4 DEF vars, StoredArrived, Buffered
<1> QED
  BY <1>1, <1>2, <1>3, <1>4 DEF Next, Pop

(* What \div returns.                                                      *)
LEMMA Quotient ==
  ASSUME NEW x \in Nat, NEW d \in Nat \ {0}
  PROVE  x \div d \in Nat /\ d * (x \div d) <= x /\ x < d * (x \div d) + d
OBVIOUS

(* Multiples of d are ordered as their factors.                            *)
LEMMA FactorsOrdered ==
  ASSUME NEW d \in Nat \ {0}, NEW a \in Int, NEW b \in Int, d * a < d * b + d
  PROVE  a <= b
<1> SUFFICES ASSUME b + 1 <= a PROVE FALSE
  OBVIOUS
<1>1. d * (b + 1) <= d * a
  OBVIOUS
<1>2. d * (b + 1) = d * b + d /\ d * a \in Int /\ d * b \in Int
  OBVIOUS
<1> QED
  BY <1>1, <1>2

(* Whole periods fall short of the time between two packets, and by no     *)
(* more than Rounding says.                                                *)
LEMMA PeriodsFallShort ==
  ASSUME NEW q \in Nat, NEW k \in Nat, NEW base \in Int
  PROVE  /\ Rounding(k) \in Nat
         /\ \E r \in 0 .. Rounding(k) :
              Captured(base, q + k) - k * PacketPeriod = Captured(base, q) + r
<1> DEFINE N == PeriodNum
           D == PeriodDen
           P == PacketPeriod
           c == k * (N - P * D)
           x == q * N
           y == (q + k) * N
           a == x \div D
           b == y \div D
           up == c + D - 1
           R == up \div D
           r == b - a - k * P
<1>1. N \in Nat /\ D \in Nat \ {0} /\ P \in Nat /\ P * D \in Nat /\ N - P * D \in Nat
  <2>1. N \in Nat /\ D \in Nat \ {0} /\ P \in Nat
    BY ClockAssumption, JitterBufferAssumption
  <2>2. P * D \in Nat
    BY <2>1
  <2> QED
    BY <2>1, <2>2, ClockAssumption
<1> HIDE DEF N, D, P
<1>2. c \in Nat /\ x \in Nat /\ y \in Nat /\ k * P \in Nat
  BY <1>1
<1>3. y = x + c + D * (k * P)
  <2>1. y = x + k * N
    BY <1>1
  <2>2. k * (N - P * D) = k * N - k * (P * D)
    BY <1>1
  <2>3. k * (P * D) = D * (k * P)
    BY <1>1
  <2>4. k * N \in Nat /\ k * (P * D) \in Nat
    BY <1>1
  <2> QED
    BY <1>2, <2>1, <2>2, <2>3, <2>4
<1>4. up \in Nat
  BY <1>1, <1>2
<1> DEFINE kP == k * P
<1> HIDE DEF c, x, y, up, kP
<1>5. a \in Nat /\ D * a <= x /\ x < D * a + D
  BY <1>1, <1>2, Quotient
<1>6. b \in Nat /\ D * b <= y /\ y < D * b + D
  BY <1>1, <1>2, Quotient
<1>7. R \in Nat /\ D * R <= up /\ up < D * R + D
  BY <1>1, <1>4, Quotient
<1> HIDE DEF a, b, R
<1>8. /\ D * (b - a - kP) = D * b - D * a - D * kP
      /\ D * a \in Nat /\ D * b \in Nat /\ D * R \in Nat /\ D * kP \in Nat
      /\ kP \in Nat /\ y = x + c + D * kP
  <2>1. kP \in Nat /\ y = x + c + D * kP
    BY <1>2, <1>3 DEF kP
  <2> QED
    BY <1>1, <1>5, <1>6, <1>7, <2>1
<1>9. r \in Int /\ r = b - a - kP
  BY <1>5, <1>6, <1>8 DEF kP
<1> HIDE DEF r
<1>10. 0 <= r
  <2>1. D * 0 < D * r + D
    BY <1>1, <1>2, <1>5, <1>6, <1>8, <1>9
  <2> QED
    BY <1>1, <1>9, <2>1, FactorsOrdered
<1>11. r <= R
  <2>1. up = c + D - 1
    BY DEF up
  <2>2. D * r < D * R + D
    BY <1>1, <1>2, <1>5, <1>6, <1>7, <1>8, <1>9, <2>1
  <2> QED
    BY <1>1, <1>7, <1>9, <2>2, FactorsOrdered
<1>12. Rounding(k) = R
  BY DEF Rounding, R, up, c, N, D, P
<1>13. Captured(base, q) = base + a /\ Captured(base, q + k) = base + b
  BY DEF Captured, a, b, x, y, N, D
<1>14. base + b - kP = base + a + r
  BY <1>5, <1>6, <1>8, <1>9
<1> QED
  <2>1. r \in 0 .. Rounding(k)
    BY <1>7, <1>9, <1>10, <1>11, <1>12
  <2>2. Captured(base, q + k) - k * PacketPeriod = Captured(base, q) + r
    BY <1>1, <1>2, <1>5, <1>6, <1>9, <1>13, <1>14 DEF kP, P
  <2> QED
    BY <1>7, <1>12, <2>1, <2>2

(* The time stamp of a dummy, on the clock of the packet it is counted     *)
(* back from.                                                              *)
LEMMA DummyOnClock ==
  ASSUME IInv, StoredArrived, NEW base \in Tsfs,
         \A p \in Arriving : OnClock(p, base, MaxJitter, MaxJitter),
         Ahead(jb) # {}
  PROVE  \E s \in Buffered(jb) :
           /\ s > jb.next_play_seq
           /\ OnClock(Dummy(jb), base, MaxJitter, MaxJitter + Rounding(s - jb.next_play_seq))
<1> DEFINE q == jb.next_play_seq
           next == Min(Ahead(jb))
           k == next - q
           back == k * PacketPeriod
           T == TsfMod
<1>1. Ahead(jb) \in SUBSET Seqs /\ Ahead(jb) \subseteq Buffered(jb) /\ q \in Seqs
  BY DEF Ahead, IInv, TypeOK, IsJitterBuffer
<1>2. next \in Ahead(jb) /\ next \in Buffered(jb) /\ next \in Seqs
  BY <1>1, LowestKey
<1>3. /\ T \in Nat \ {0} /\ next \in Nat /\ q \in Nat /\ base \in Int /\ next > q
      /\ k \in Nat /\ q + k = next /\ back \in Int
  <2>1. next \in Nat /\ q \in Nat /\ base \in Int /\ T \in Nat \ {0} /\ PacketPeriod \in Nat
    BY <1>1, <1>2, JitterBufferAssumption DEF Seqs, Tsfs
  <2>2. next > q
    BY <1>2 DEF Ahead
  <2> HIDE DEF q, next
  <2> QED
    BY <2>1, <2>2
<1>4. PICK e \in -MaxJitter .. MaxJitter : jb.buffer[next].tsf = (Captured(base, next) + e) % T
  BY <1>2 DEF OnClock, StoredArrived, IInv, StoredReceived
<1>5. DummyTsf(jb) = (jb.buffer[next].tsf - back) % T
  BY DEF DummyTsf
<1> HIDE DEF next, q, T, k
<1>6. PICK r \in 0 .. Rounding(k) : Captured(base, q + k) - back = Captured(base, q) + r
  BY <1>3, PeriodsFallShort
<1>7. Rounding(k) \in Nat /\ MaxJitter \in Nat
  BY <1>3, PeriodsFallShort, ClockAssumption
<1>8. Captured(base, next) \in Int /\ Captured(base, q) \in Int
  <2>1. ASSUME NEW s \in Nat PROVE Captured(base, s) \in Int
    <3>1. PeriodNum \in Nat /\ PeriodDen \in Nat \ {0} /\ s * PeriodNum \in Nat
      BY ClockAssumption
    <3>2. (s * PeriodNum) \div PeriodDen \in Nat
      BY <3>1, Quotient
    <3> QED
      BY <1>3, <3>2 DEF Captured
  <2> QED
    BY <1>3, <2>1
<1> DEFINE there == Captured(base, next) + e
<1>9. there \in Int /\ there - back = Captured(base, q) + (e + r)
  BY <1>3, <1>6, <1>7, <1>8
<1>10. DummyTsf(jb) = ((there % T) - back) % T
  BY <1>4, <1>5
<1> HIDE DEF there, back
<1>11. DummyTsf(jb) = (there - back) % T
  BY <1>3, <1>9, <1>10, ModOfDifference
<1>12. DummyTsf(jb) = (Captured(base, q) + (e + r)) % T
  BY <1>9, <1>11
<1>13. e + r \in -MaxJitter .. MaxJitter + Rounding(k)
  BY <1>7
<1>14. OnClock(Dummy(jb), base, MaxJitter, MaxJitter + Rounding(k))
  BY <1>12, <1>13 DEF OnClock, Dummy, q, T
<1> QED
  BY <1>2, <1>3, <1>14 DEF k, q

LEMMA NextSilenceOnClock ==
  ASSUME IInv, StoredArrived, SilenceOnSenderClock, [Next]_vars
  PROVE  SilenceOnSenderClock'
<1> SUFFICES ASSUME NEW base \in Tsfs,
                    \A p \in Arriving : OnClock(p, base, MaxJitter, MaxJitter), out'.silent
             PROVE  \E s \in Buffered(jb)' :
                      /\ s > out'.seq
                      /\ OnClock(out', base, MaxJitter, MaxJitter + Rounding(s - out'.seq))
  BY DEF SilenceOnSenderClock, OnClock, Captured, Rounding
<1>1. ASSUME UNCHANGED out, Buffered(jb) \subseteq Buffered(jb)'
      PROVE  \E s \in Buffered(jb)' :
               /\ s > out'.seq
               /\ OnClock(out', base, MaxJitter, MaxJitter + Rounding(s - out'.seq))
  BY <1>1 DEF SilenceOnSenderClock
<1>2. ASSUME NEW p \in Arriving, Receive(p)
      PROVE  UNCHANGED out /\ Buffered(jb) \subseteq Buffered(jb)'
  <2>1. p \in Packets /\ jb' = Push(jb, p) /\ UNCHANGED out
    BY <1>2, ArrivingAssumption DEF Packets, Receive
  <2>2. IsJitterBuffer(jb)
    BY DEF IInv, TypeOK
  <2>3. jb' = jb \/ jb'.buffer = Store(jb.buffer, p)
    BY <2>1, <2>2, PushCases DEF PushDrops, PushExtendsRun, PushStarts, PushHolds
  <2>4. DOMAIN Store(jb.buffer, p) = DOMAIN jb.buffer \cup {p.seq}
    BY <2>1, <2>2, StoreFacts DEF Buffered
  <2> QED
    BY <2>1, <2>3, <2>4 DEF Buffered
<1>3. CASE Play
  <2>1. CASE jb.next_play_seq \in Buffered(jb)
    BY <1>3, <2>1 DEF Play, Popped, IInv, StoredReceived
  <2>2. CASE jb.next_play_seq \notin Buffered(jb)
    <3>1. out' = Dummy(jb) /\ out'.seq = jb.next_play_seq
      BY <1>3, <2>2 DEF Play, Popped, Dummy
    <3>2. Ahead(jb) # {}
      BY <1>3, <2>2, AheadOfGap DEF Play
    <3>3. Buffered(jb) \subseteq Buffered(jb)'
      BY <1>3, <2>2 DEF Play, AfterPop, Erase, Buffered
    <3> QED
      BY <3>1, <3>2, <3>3, DummyOnClock
  <2> QED
    BY <2>1, <2>2
<1>4. CASE RunDry
  <2>1. Buffered(jb) = {} /\ UNCHANGED out
    BY <1>4 DEF RunDry, IsUnderrun
  <2> QED
    BY <2>1 DEF SilenceOnSenderClock
<1>5. CASE UNCHANGED vars
  BY <1>1, <1>5 DEF vars, Buffered
<1> QED
  BY <1>1, <1>2, <1>3, <1>4, <1>5 DEF Next, Pop

(* Silence is stamped with the time that the sender would have given the   *)
(* packets it stands for, but for the stream's own jitter and what whole   *)
(* periods are rounded by (DummyTsf), across the wrap of the timestamps    *)
(* and however many packets are missing.                                   *)
THEOREM SilenceKeepsTime == Spec => []SilenceOnSenderClock
<1>1. Init => StoredArrived /\ SilenceOnSenderClock
  BY DEF Init, StoredArrived, SilenceOnSenderClock, NewJitterBuffer, Buffered, NoPacket
<1> QED
  BY <1>1, NextStoredArrived, NextSilenceOnClock, Invariance, PTL DEF Spec

-----------------------------------------------------------------------------
(* A run that pop() gives up ended with a packet the sender sent.          *)
THEOREM RunsEndWithReceived == Spec => RunEndsWithReceived
<1>1. IInv /\ [Next]_vars => (midrun /\ ~midrun' => ~out.silent)
  <2> SUFFICES ASSUME IInv, [Next]_vars, midrun, ~midrun' PROVE ~out.silent
    OBVIOUS
  <2>1. ASSUME NEW p \in Arriving, Receive(p) PROVE FALSE
    BY <2>1 DEF Receive
  <2>2. CASE Play
    BY <2>2 DEF Play
  <2>3. CASE RunDry
    BY <2>3 DEF RunDry, IsUnderrun, IInv, SilenceThenMore
  <2>4. CASE UNCHANGED vars
    BY <2>4 DEF vars
  <2> QED
    BY <2>1, <2>2, <2>3, <2>4 DEF Next, Pop
<1> QED
  BY <1>1, Invariance, PTL DEF Spec, RunEndsWithReceived

(* No accepted packet is lost inside the buffer: it leaves by being popped. *)
THEOREM NoPacketVanishes == Spec => LeavesOnlyByPlaying
<1> DEFINE A == \A s \in Buffered(jb) : s \notin Buffered(jb)' => out' = jb.buffer[s]
<1>1. IInv /\ [Next]_vars => A
  <2> SUFFICES ASSUME IInv, [Next]_vars PROVE A
    OBVIOUS
  <2>0. IsJitterBuffer(jb)
    BY DEF IInv, TypeOK
  <2>1. ASSUME NEW p \in Arriving, Receive(p) PROVE Buffered(jb) \subseteq Buffered(jb)'
    <3>1. p \in Packets /\ jb' = Push(jb, p)
      BY <2>1, ArrivingAssumption DEF Packets, Receive
    <3>2. jb' = jb \/ jb'.buffer = Store(jb.buffer, p)
      BY <2>0, <3>1, PushCases DEF PushDrops, PushExtendsRun, PushStarts, PushHolds
    <3>3. Buffered(jb) \subseteq DOMAIN Store(jb.buffer, p)
      BY DEF Store, Buffered
    <3> QED
      BY <3>2, <3>3 DEF Buffered
  <2>2. CASE Play
    BY <2>0, <2>2, AfterPopFacts DEF Play, Popped, Buffered
  <2>3. CASE RunDry
    BY <2>3 DEF RunDry, IsUnderrun
  <2>4. CASE UNCHANGED vars
    BY <2>4 DEF vars, Buffered
  <2> QED
    BY <2>1, <2>2, <2>3, <2>4 DEF Next, Pop
<1> QED
  BY <1>1, Invariance, PTL DEF Spec, LeavesOnlyByPlaying

-----------------------------------------------------------------------------
(* Every step of the buffer is a step, or a stutter, of the abstract       *)
(* stream of runs: a dropped late packet is the stutter.                   *)
THEOREM RefinesRuns == Spec => Runs!Init /\ [][Runs!Next]_(Runs!vars)
<1>1. Init => Runs!Init
  <2>1. NoPacket \in Packets
    BY JitterBufferAssumption DEF NoPacket, Packets, Seqs, Tsfs
  <2> QED
    BY <2>1 DEF Init, Runs!Init, Runs!RunPackets, Runs!RunSeqs, Packets, Seqs, NewJitterBuffer
<1>2. IInv /\ IInv' /\ [Next]_vars => [Runs!Next]_(Runs!vars)
  <2> SUFFICES ASSUME IInv, IInv', [Next]_vars PROVE [Runs!Next]_(Runs!vars)
    OBVIOUS
  <2>0. /\ IsJitterBuffer(jb)
        /\ midrun => ~jb.buffering /\ jb.next_play_seq = Runs!Position
    BY DEF IInv, TypeOK, RunIsConsecutive, NextSeq, Runs!Position
  <2>1. ASSUME NEW p \in Arriving, Receive(p) PROVE [Runs!Next]_(Runs!vars)
    <3>1. p \in Packets /\ p \in [seq : Seqs, tsf : Tsfs, silent : {FALSE}]
      BY ArrivingAssumption DEF Packets
    <3>2. jb' = Push(jb, p) /\ UNCHANGED <<out, midrun>>
      BY <2>1 DEF Receive
    <3>3. CASE PushDrops(jb, p)
      BY <3>2, <3>3 DEF PushDrops, Runs!vars
    <3>4. CASE ~PushDrops(jb, p)
      <4>1. jb'.buffer = Store(jb.buffer, p)
        BY <2>0, <3>1, <3>2, <3>4, PushCases DEF PushExtendsRun, PushStarts, PushHolds
      <4>2. midrun => Runs!Position <= p.seq
        <5>1. ~jb.buffering => ~(p.seq < jb.next_play_seq)
          BY <2>0, <3>1, <3>4, PushCases DEF PushExtendsRun, PushStarts, PushHolds
        <5>2. p.seq \in Int /\ jb.next_play_seq \in Int
          BY <2>0, <3>1, JitterBufferAssumption DEF Seqs, IsJitterBuffer
        <5> QED
          BY <2>0, <5>1, <5>2
      <4>3. Runs!Accept(p)
        BY <3>2, <4>1, <4>2 DEF Runs!Accept, Store
      <4> QED
        BY <3>1, <4>3 DEF Runs!Next, Runs!RunSeqs, Seqs
    <3> QED
      BY <3>3, <3>4
  <2>2. CASE Play
    <3>1. /\ ~jb.buffering /\ Buffered(jb) # {}
          /\ out' = Popped(jb) /\ midrun' = TRUE
          /\ jb'.buffer = Erase(jb.buffer, jb.next_play_seq)
      BY <2>2 DEF Play, CanPop, AfterPop
    <3>2. CASE jb.next_play_seq \in Buffered(jb)
      <4>1. Runs!Deliver(jb.next_play_seq)
        BY <3>1, <3>2 DEF Runs!Deliver, Popped, Erase
      <4>2. CASE midrun
        BY <2>0, <3>2, <4>1, <4>2 DEF Runs!Next, Runs!Continue, Buffered
      <4>3. CASE ~midrun
        BY <3>1, <3>2, <4>1, <4>3 DEF Runs!Next, Runs!Begin, Buffered, IInv, NothingBehind
      <4> QED
        BY <4>2, <4>3
    <3>3. CASE jb.next_play_seq \notin Buffered(jb)
      <4>1. midrun
        BY <3>1, <3>3 DEF IInv, RunStartsOnPacket
      <4>2. \A s \in Buffered(jb) : jb.next_play_seq < s
        <5>1. \A s \in Buffered(jb) : s \in Int /\ jb.next_play_seq \in Int
          BY <2>0, JitterBufferAssumption DEF Seqs, IsJitterBuffer
        <5> QED
          BY <3>1, <3>3, <5>1 DEF IInv, NothingBehind
      <4>3. out' \in [seq : {Runs!Position}, tsf : Tsfs, silent : {TRUE}]
        <5>1. Popped(jb) = [seq |-> jb.next_play_seq, tsf |-> DummyTsf(jb), silent |-> TRUE]
          BY <3>3 DEF Popped, Dummy
        <5>2. DummyTsf(jb) \in Tsfs
          BY <2>0, <5>1, PoppedIsPacket DEF Packets
        <5> QED
          BY <2>0, <3>1, <4>1, <5>1, <5>2
      <4>4. jb'.buffer = jb.buffer
        BY <2>0, <3>1, <3>3 DEF Erase, IsJitterBuffer, Buffered
      <4> QED
        BY <2>0, <3>1, <4>1, <4>2, <4>3, <4>4 DEF Runs!Next, Runs!Continue, Buffered
    <3> QED
      BY <3>2, <3>3
  <2>3. CASE RunDry
    <3>1. Buffered(jb) = {} /\ jb'.buffer = jb.buffer /\ out' = out /\ midrun' = FALSE /\ midrun
      BY <2>3 DEF RunDry, IsUnderrun, AfterUnderrun, IInv, RunStartsOnPacket
    <3>2. Runs!End
      BY <3>1 DEF Runs!End, Buffered, IInv, SilenceThenMore
    <3> QED
      BY <3>2 DEF Runs!Next
  <2>4. CASE UNCHANGED vars
    BY <2>4 DEF vars, Runs!vars
  <2> QED
    BY <2>1, <2>2, <2>3, <2>4 DEF Next, Pop
<1> QED
  BY <1>1, <1>2, Invariance, PTL DEF Spec
=============================================================================

--------------------------- MODULE UDPServer_proofs ---------------------------
(***************************************************************************)
(* Proofs about the three threads of the server, for any senders, any      *)
(* delivery of their packets and any constants of the buffers.             *)
(***************************************************************************)
EXTENDS UDPServer, FiniteSetTheorems, FunctionTheorems, SequenceTheorems, TLAPS

-----------------------------------------------------------------------------
(* The operators of module JitterBuffer.  What Playout_proofs proves of    *)
(* them does not depend on the state of the buffer there.                  *)

Single == INSTANCE Playout_proofs WITH
  jb <- NewJitterBuffer, out <- Idle.packet, midrun <- FALSE, Arriving <- {},
  MaxJitter <- 0

(* What the buffer's module assumes of its clock, of this module's.        *)
LEMMA SamePeriod ==
  /\ PeriodNum \in Nat /\ PeriodDen \in Nat \ {0} /\ 0 \in Nat
  /\ PacketPeriod * PeriodDen <= PeriodNum
BY SentAssumption, PeriodAssumption

LEMMA LeastOfNodes ==
  ASSUME NEW S \in SUBSET Nodes, S # {}
  PROVE  Min(S) \in S
<1>1. S \in SUBSET Nat
  BY SentAssumption
<1>2. \E m \in S : \A k \in S : m <= k
  BY <1>1, Single!LeastExists, JitterBufferAssumption, SamePeriod
<1> QED
  BY <1>2 DEF Min

LEMMA SameTypes ==
  /\ \A j : Single!IsJitterBuffer(j) <=> IsJitterBuffer(j)
  /\ \A j : Single!Buffered(j) = Buffered(j)
  /\ Single!Packets = Packets
  /\ Single!Seqs = Seqs
BY DEF IsJitterBuffer, Buffered, Packets, Seqs, Tsfs, Single!IsJitterBuffer, Single!Buffered,
   Single!Packets, Single!Seqs, Single!Tsfs

(* A buffer is one of a set of records.                                    *)
Buffers ==
  [buffer : UNION {[S -> Packets] : S \in SUBSET Seqs}, next_play_seq : Seqs,
   buffering : BOOLEAN]

LEMMA BuffersAreBuffers ==
  ASSUME NEW j
  PROVE  j \in Buffers <=> IsJitterBuffer(j)
<1>1. ASSUME j \in Buffers PROVE IsJitterBuffer(j)
  BY <1>1 DEF Buffers, IsJitterBuffer, Buffered
<1>2. ASSUME IsJitterBuffer(j) PROVE j \in Buffers
  <2>1. j.buffer \in UNION {[S -> Packets] : S \in SUBSET Seqs}
    BY <1>2 DEF IsJitterBuffer, Buffered
  <2>2. j = [buffer |-> j.buffer, next_play_seq |-> j.next_play_seq,
             buffering |-> j.buffering]
    BY <1>2 DEF IsJitterBuffer
  <2>3. j.next_play_seq \in Seqs /\ j.buffering \in BOOLEAN
    BY <1>2 DEF IsJitterBuffer
  <2>4. \A f \in UNION {[S -> Packets] : S \in SUBSET Seqs}, n \in Seqs, b \in BOOLEAN :
          [buffer |-> f, next_play_seq |-> n, buffering |-> b] \in Buffers
    BY DEF Buffers
  <2> QED
    BY <2>1, <2>2, <2>3, <2>4
<1> QED
  BY <1>1, <1>2

LEMMA NewIsBuffer == NewJitterBuffer \in Buffers
<1>1. Single!IsJitterBuffer(Single!NewJitterBuffer)
  BY Single!NewIsJitterBuffer, JitterBufferAssumption, SamePeriod
<1>2. Single!NewJitterBuffer = NewJitterBuffer
  BY DEF NewJitterBuffer, Single!NewJitterBuffer
<1> QED
  BY <1>1, <1>2, SameTypes, BuffersAreBuffers

(* push() keeps what is buffered, and adds at most its packet.             *)
LEMMA PushFacts ==
  ASSUME NEW j \in Buffers, NEW p \in Packets
  PROVE  /\ Push(j, p) \in Buffers
         /\ \A s \in Buffered(Push(j, p)) :
              \/ s = p.seq /\ Push(j, p).buffer[s] = p
              \/ s \in Buffered(j) /\ Push(j, p).buffer[s] = j.buffer[s]
<1> DEFINE stored == Store(j.buffer, p)
           low == Min(DOMAIN stored)
<1>1. IsJitterBuffer(j)
  BY BuffersAreBuffers
<1>2. p.seq \in Seqs /\ j.next_play_seq \in Seqs /\ j.buffering \in BOOLEAN
  BY DEF Packets, Buffers
<1>3. /\ DOMAIN stored = Buffered(j) \cup {p.seq} /\ DOMAIN stored \subseteq Seqs
      /\ stored \in [DOMAIN stored -> Packets]
      /\ \A s \in DOMAIN stored : \/ s = p.seq /\ stored[s] = p
                                  \/ s \in Buffered(j) /\ stored[s] = j.buffer[s]
  BY <1>1, <1>2 DEF Store, Buffered, IsJitterBuffer
<1>4. low \in Seqs
  <2>1. low \in DOMAIN stored
    <3>1. \E m \in DOMAIN stored : \A k \in DOMAIN stored : m <= k
      <4>1. DOMAIN stored \in SUBSET Nat /\ DOMAIN stored # {}
        BY <1>3, JitterBufferAssumption DEF Seqs
      <4> QED
        BY ONLY <4>1, Single!LeastExists, JitterBufferAssumption, SamePeriod
    <3> QED
      BY <3>1 DEF Min
  <2> QED
    BY <1>3, <2>1
<1> HIDE DEF stored, low
<1>5. \/ Push(j, p) = j
      \/ /\ Push(j, p).buffer = stored
         /\ \E n \in Seqs, b \in BOOLEAN :
              Push(j, p) = [buffer |-> stored, buffering |-> b, next_play_seq |-> n]
  BY <1>2, <1>4 DEF Push, stored, low
<1>6. ASSUME NEW n \in Seqs, NEW b \in BOOLEAN
      PROVE  [buffer |-> stored, buffering |-> b, next_play_seq |-> n] \in Buffers
  BY <1>3 DEF Buffers
<1>7. CASE Push(j, p) = j
  BY <1>7
<1>8. CASE Push(j, p) # j
  BY <1>3, <1>5, <1>6, <1>8 DEF Buffered
<1> QED
  BY <1>7, <1>8

(* pop() hands out what is buffered at its position or makes silence, and  *)
(* what stays buffered is what was.                                        *)
LEMMA PopFacts ==
  ASSUME NEW j \in Buffers
  PROVE  /\ AfterPop(j) \in Buffers
         /\ Popped(j) \in Packets
         /\ AfterPop(j).buffering = j.buffering
         /\ Buffered(AfterPop(j)) = Buffered(j) \ {j.next_play_seq}
         /\ \A s \in Buffered(AfterPop(j)) : AfterPop(j).buffer[s] = j.buffer[s]
         /\ Popped(j).silent # TRUE =>
              /\ j.next_play_seq \in Buffered(j)
              /\ Popped(j) = j.buffer[j.next_play_seq]
<1>1. Single!IsJitterBuffer(j)
  BY BuffersAreBuffers, SameTypes
<1>2. /\ Single!IsJitterBuffer(Single!AfterPop(j))
      /\ Single!AfterPop(j).buffering = j.buffering
      /\ Single!Buffered(Single!AfterPop(j)) = Single!Buffered(j) \ {j.next_play_seq}
      /\ \A s \in Single!Buffered(Single!AfterPop(j)) :
           Single!AfterPop(j).buffer[s] = j.buffer[s]
  BY <1>1, Single!AfterPopFacts, JitterBufferAssumption, SamePeriod
<1>3. Single!Popped(j) \in Single!Packets
  BY <1>1, Single!PoppedIsPacket, JitterBufferAssumption, SamePeriod
<1>4. Single!AfterPop(j) = AfterPop(j)
  BY DEF AfterPop, Single!AfterPop, Erase, Single!Erase, NextSeq, Single!NextSeq
<1>5. Single!Popped(j) = Popped(j)
  BY DEF Popped, Single!Popped, Buffered, Single!Buffered, Dummy, Single!Dummy, DummyTsf,
     Single!DummyTsf, Ahead, Single!Ahead, Min, Single!Min
<1>6. AfterPop(j) \in Buffers
  BY <1>2, <1>4, SameTypes, BuffersAreBuffers
<1>7. Popped(j).silent # TRUE =>
        j.next_play_seq \in Buffered(j) /\ Popped(j) = j.buffer[j.next_play_seq]
  BY DEF Popped, Dummy
<1> QED
  BY <1>2, <1>3, <1>4, <1>5, <1>6, <1>7, SameTypes

(* When pop() has failed the buffer is buffering, and nothing else has     *)
(* changed.                                                                *)
LEMMA FailedPopFacts ==
  ASSUME NEW j \in Buffers, ~CanPop(j)
  PROVE  /\ AfterFailedPop(j) \in Buffers
         /\ AfterFailedPop(j).buffering
         /\ AfterFailedPop(j).buffer = j.buffer
<1>1. CASE IsUnderrun(j)
  <2>1. AfterFailedPop(j) = [buffer |-> j.buffer, next_play_seq |-> j.next_play_seq,
                             buffering |-> TRUE]
    BY <1>1 DEF AfterFailedPop, AfterUnderrun
  <2> QED
    BY <2>1 DEF Buffers
<1>2. CASE ~IsUnderrun(j)
  BY <1>2 DEF AfterFailedPop, IsUnderrun, CanPop, Buffers
<1> QED
  BY <1>1, <1>2

-----------------------------------------------------------------------------
(* The types, and how the drain thread's position, its loop over the       *)
(* buffers and its batch go together.                                      *)

BatchItems == [node : Nodes, packet : Packets]

Types ==
  /\ inflight \in [Nodes -> SUBSET Packets]
  /\ \A n \in Nodes : inflight[n] \subseteq Sent[n]
  /\ duplicates \in 0 .. MaxDuplicates /\ reports \in 0 .. MaxReports
  /\ running \in BOOLEAN /\ socketOpen \in BOOLEAN /\ forwardOpen \in BOOLEAN
  /\ rx.pc \in {"call", "recvfrom", "push", "done"}
  /\ rx = [pc |-> rx.pc, node |-> rx.node, packet |-> rx.packet]
  /\ rx.pc = "push" => rx.node \in Nodes /\ rx.packet \in Sent[rx.node]
  /\ DOMAIN jitter_buffers \subseteq Nodes
  /\ jitter_buffers \in [DOMAIN jitter_buffers -> Buffers]
  /\ jbPc \in {"sleep", "drain", "process", "forward", "done"}
  /\ undrained \subseteq DOMAIN jitter_buffers
  /\ batch \in Seq(BatchItems)
  /\ DOMAIN nodes \subseteq Nodes
  /\ mainPc \in {"running", "closeSocket", "closeForward", "joinRecv", "joinJb", "stopped"}
  /\ played \in [Nodes -> Seq(Packets)]
  /\ forwarded \in [Nodes -> Seq(Packets)]

(* Only a drain has buffers left to visit; a batch is there from a drain   *)
(* until it has been handed on.                                            *)
BatchInHand ==
  /\ jbPc # "drain" => undrained = {}
  /\ jbPc \in {"sleep", "done"} => batch = <<>>
  /\ jbPc = "forward" => batch # <<>>

(* What is buffered came from the node, under its own sequence number.     *)
StoredAsSent ==
  \A n \in DOMAIN jitter_buffers : \A s \in Buffered(jitter_buffers[n]) :
    /\ jitter_buffers[n].buffer[s] \in Sent[n]
    /\ jitter_buffers[n].buffer[s].seq = s

(* In a drain, a buffer the loop is done with is buffering ...             *)
Drained ==
  jbPc = "drain" => \A n \in DOMAIN jitter_buffers \ undrained : jitter_buffers[n].buffering

(* ... and one that has handed out a packet is still playing.              *)
RunsPlay ==
  \A n \in undrained : Waiting(n) # {} => ~jitter_buffers[n].buffering

Basic == Types /\ BatchInHand /\ StoredAsSent /\ Drained /\ RunsPlay

LEMMA SentArePackets ==
  ASSUME NEW n \in Nodes, NEW p \in Sent[n]
  PROVE  p \in Packets /\ p.silent = FALSE
BY SentAssumption DEF Packets

LEMMA TypesGiveTypeOK == Types => TypeOK
<1> SUFFICES ASSUME Types PROVE TypeOK
  OBVIOUS
<1>1. \A n \in DOMAIN jitter_buffers : IsJitterBuffer(jitter_buffers[n])
  BY BuffersAreBuffers DEF Types
<1> QED
  BY <1>1 DEF Types, TypeOK

LEMMA InitBasic == Init => Basic
<1> SUFFICES ASSUME Init PROVE Basic
  OBVIOUS
<1>1. Sent \in [Nodes -> SUBSET Packets]
  <2>1. \A n \in Nodes : Sent[n] \subseteq Packets
    BY SentArePackets
  <2>2. Sent = [n \in Nodes |-> Sent[n]]
    BY SentAssumption
  <2> QED
    BY <2>1, <2>2
<1>2. Types
  BY <1>1, SentAssumption DEF Init, Types, Idle, NM!NoNodes
<1> QED
  BY <1>2 DEF Init, Basic, BatchInHand, StoredAsSent, Drained, RunsPlay

(* The receiving thread takes a datagram off the socket.                   *)
LEMMA RecvFromBasic ==
  ASSUME Basic, NEW n \in Nodes, NEW p \in inflight[n], RecvFrom(n, p)
  PROVE  Basic'
<1>1. /\ rx' = [pc |-> "push", node |-> n, packet |-> p] /\ p \in Sent[n]
      /\ UNCHANGED <<sockets, jitter_buffers, jbPc, undrained, batch, nodes, mainPc, reports,
                     history>>
  BY DEF RecvFrom, Basic, Types
<1>2. /\ inflight' \in [Nodes -> SUBSET Packets]
      /\ \A m \in Nodes : inflight'[m] \subseteq Sent[m]
      /\ duplicates' \in 0 .. MaxDuplicates
  <2>1. /\ inflight \in [Nodes -> SUBSET Packets] /\ duplicates \in 0 .. MaxDuplicates
        /\ \A m \in Nodes : inflight[m] \subseteq Sent[m]
        /\ MaxDuplicates \in Nat
    BY SentAssumption DEF Basic, Types
  <2>2. CASE inflight' = [inflight EXCEPT ![n] = @ \ {p}] /\ duplicates' = duplicates
    BY <2>1, <2>2
  <2>3. CASE inflight' = inflight /\ duplicates < MaxDuplicates /\ duplicates' = duplicates + 1
    BY <2>1, <2>3
  <2> QED
    BY <2>2, <2>3 DEF RecvFrom
<1>3. Types'
  BY <1>1, <1>2 DEF Basic, Types, sockets, history
<1> QED
  BY <1>1, <1>3 DEF Basic, BatchInHand, StoredAsSent, Drained, RunsPlay, Waiting, Buffered

(* The other steps of the receiving thread leave the buffers alone.        *)
LEMMA RecvBasic ==
  ASSUME Basic, CallRecvFrom \/ RecvError
  PROVE  Basic'
<1>1. /\ \E pc \in {"recvfrom", "done"} : rx' = [rx EXCEPT !.pc = pc]
      /\ UNCHANGED <<network, sockets, jitter_buffers, jbPc, undrained, batch, nodes, mainPc,
                     reports, history>>
  BY DEF CallRecvFrom, RecvError
<1>2. rx'.pc \in {"recvfrom", "done"} /\ rx' = [pc |-> rx'.pc, node |-> rx'.node, packet |-> rx'.packet]
  BY <1>1 DEF Basic, Types
<1>3. Types'
  BY <1>1, <1>2 DEF Basic, Types, network, sockets, history
<1> QED
  BY <1>1, <1>3 DEF Basic, BatchInHand, StoredAsSent, Drained, RunsPlay, Waiting, Buffered

(* push() cannot get into a drain, and stores a packet of its sender.      *)
LEMMA PushPacketBasic ==
  ASSUME Basic, PushPacket
  PROVE  Basic'
<1> DEFINE n == rx.node
           p == rx.packet
           j == BufferOf(n)
<1>1. /\ n \in Nodes /\ p \in Sent[n] /\ p \in Packets /\ jbPc # "drain"
      /\ UNCHANGED <<network, sockets, jbPc, undrained, batch, nodes, mainPc, reports, history>>
  BY SentArePackets DEF PushPacket, MutexFree, Basic, Types
<1>2. undrained = {}
  BY <1>1 DEF Basic, BatchInHand
<1>3. j \in Buffers
  BY NewIsBuffer DEF BufferOf, Basic, Types
<1>4. /\ DOMAIN jitter_buffers' = DOMAIN jitter_buffers \cup {n}
      /\ jitter_buffers' = [m \in DOMAIN jitter_buffers' |-> jitter_buffers'[m]]
      /\ jitter_buffers'[n] = Push(j, p)
      /\ \A m \in DOMAIN jitter_buffers : m # n => jitter_buffers'[m] = jitter_buffers[m]
  BY DEF PushPacket
<1>5. /\ Push(j, p) \in Buffers
      /\ \A s \in Buffered(Push(j, p)) :
           \/ s = p.seq /\ Push(j, p).buffer[s] = p
           \/ s \in Buffered(j) /\ Push(j, p).buffer[s] = j.buffer[s]
  BY <1>1, <1>3, PushFacts
<1>6. \A s \in Buffered(j) : j.buffer[s] \in Sent[n] /\ j.buffer[s].seq = s
  BY DEF BufferOf, Basic, StoredAsSent, NewJitterBuffer, Buffered
<1>7. StoredAsSent'
  <2> SUFFICES ASSUME NEW m \in DOMAIN jitter_buffers', NEW s \in Buffered(jitter_buffers'[m])
               PROVE  /\ jitter_buffers'[m].buffer[s] \in Sent[m]
                      /\ jitter_buffers'[m].buffer[s].seq = s
    BY DEF StoredAsSent, Buffered
  <2>1. CASE m = n
    BY <1>1, <1>4, <1>5, <1>6, <2>1
  <2>2. CASE m # n
    BY <1>4, <2>2 DEF Basic, StoredAsSent
  <2> QED
    BY <2>1, <2>2
<1>8. rx'.pc \in {"call", "done"} /\ rx' = [pc |-> rx'.pc, node |-> rx'.node, packet |-> rx'.packet]
  BY DEF PushPacket, Idle
<1> HIDE DEF n, p, j
<1>9. Types'
  <2>1. jitter_buffers' \in [DOMAIN jitter_buffers' -> Buffers]
    BY <1>4, <1>5 DEF Basic, Types
  <2>2. DOMAIN jitter_buffers' \subseteq Nodes
    BY <1>1, <1>4 DEF Basic, Types
  <2> QED
    BY <1>1, <1>2, <1>8, <2>1, <2>2 DEF Basic, Types, network, sockets, history
<1> QED
  BY <1>1, <1>2, <1>7, <1>9 DEF Basic, BatchInHand, Drained, RunsPlay

(* The drain thread's steps on the buffers.                                *)
LEMMA WakeAndLockBasic ==
  ASSUME Basic, WakeAndLock
  PROVE  Basic'
<1>1. /\ jbPc = "sleep" /\ batch = <<>>
      /\ UNCHANGED <<network, sockets, rx, mainPc, reports, jitter_buffers, batch, nodes, history>>
  BY DEF WakeAndLock, JbUnchanged, Basic, BatchInHand
<1>2. \/ jbPc' \in {"sleep", "done"} /\ undrained' = undrained /\ undrained = {}
      \/ jbPc' = "drain" /\ undrained' = DOMAIN jitter_buffers
  BY <1>1 DEF WakeAndLock, NextPass, BuffersToDrain, Basic, BatchInHand
<1>3. Types'
  BY <1>1, <1>2 DEF Basic, Types, network, sockets, history
<1> QED
  BY <1>1, <1>2, <1>3 DEF Basic, BatchInHand, StoredAsSent, Drained, RunsPlay, Waiting, Buffered

(* A packet appended to the batch is waiting behind the others.            *)
LEMMA AppendedWaits ==
  ASSUME Types, NEW item \in BatchItems, batch' = Append(batch, item), NEW m
  PROVE  /\ batch' \in Seq(BatchItems) /\ batch' # <<>>
         /\ Len(batch') = Len(batch) + 1
         /\ \A i \in DOMAIN batch : batch'[i] = batch[i]
         /\ batch'[Len(batch) + 1] = item
         /\ m = item.node => Waiting(m)' = Waiting(m) \cup {Len(batch) + 1}
         /\ m # item.node => Waiting(m)' = Waiting(m)
<1>1. batch \in Seq(BatchItems)
  BY DEF Types
<1>2. /\ batch' \in Seq(BatchItems) /\ batch' # <<>> /\ Len(batch') = Len(batch) + 1
      /\ \A i \in 1 .. Len(batch) : batch'[i] = batch[i]
      /\ batch'[Len(batch) + 1] = item
  BY <1>1, AppendProperties
<1>3. /\ Len(batch) \in Nat /\ DOMAIN batch = 1 .. Len(batch)
      /\ DOMAIN batch' = 1 .. Len(batch) + 1
  BY <1>1, <1>2
<1>4. DOMAIN batch' = DOMAIN batch \cup {Len(batch) + 1}
  BY <1>3
<1> QED
  BY <1>2, <1>3, <1>4 DEF Waiting

(* What a pop() does to the state, for the node the loop is at.            *)
LEMMA DrainPopEffect ==
  ASSUME Basic, DrainPop
  PROVE  \E n \in undrained :
           LET j == jitter_buffers[n]
           IN  /\ jbPc = "drain" /\ n \in Nodes /\ n \in DOMAIN jitter_buffers
               /\ j \in Buffers /\ CanPop(j) /\ Popped(j) \in Packets
               /\ batch' = Append(batch, [node |-> n, packet |-> Popped(j)])
               /\ played' = [played EXCEPT ![n] = Append(@, Popped(j))]
               /\ jitter_buffers' = [jitter_buffers EXCEPT ![n] = AfterPop(j)]
<1>1. undrained # {} /\ undrained \subseteq DOMAIN jitter_buffers
      /\ DOMAIN jitter_buffers \subseteq Nodes
      /\ jitter_buffers \in [DOMAIN jitter_buffers -> Buffers]
  BY DEF DrainPop, Basic, Types
<1> DEFINE n == Min(undrained)
<1>2. n \in undrained
  BY <1>1, LeastOfNodes
<1>3. n \in Nodes /\ n \in DOMAIN jitter_buffers /\ jitter_buffers[n] \in Buffers
  BY <1>1, <1>2
<1>4. Popped(jitter_buffers[n]) \in Packets
  BY <1>3, PopFacts
<1> QED
  BY <1>2, <1>3, <1>4 DEF DrainPop

LEMMA DrainPopBasic ==
  ASSUME Basic, DrainPop
  PROVE  Basic'
<1>0. PICK n \in undrained :
        LET j == jitter_buffers[n]
        IN  /\ jbPc = "drain" /\ n \in Nodes /\ n \in DOMAIN jitter_buffers
            /\ j \in Buffers /\ CanPop(j) /\ Popped(j) \in Packets
            /\ batch' = Append(batch, [node |-> n, packet |-> Popped(j)])
            /\ played' = [played EXCEPT ![n] = Append(@, Popped(j))]
            /\ jitter_buffers' = [jitter_buffers EXCEPT ![n] = AfterPop(j)]
  BY DrainPopEffect
<1> DEFINE j == jitter_buffers[n]
           item == [node |-> n, packet |-> Popped(j)]
<1>1. UNCHANGED <<network, sockets, rx, mainPc, reports, jbPc, undrained, nodes, forwarded>>
  BY DEF DrainPop, JbUnchanged
<1>2. /\ AfterPop(j) \in Buffers /\ AfterPop(j).buffering = j.buffering
      /\ Buffered(AfterPop(j)) = Buffered(j) \ {j.next_play_seq}
      /\ \A s \in Buffered(AfterPop(j)) : AfterPop(j).buffer[s] = j.buffer[s]
  BY <1>0, PopFacts
<1>3. /\ DOMAIN jitter_buffers' = DOMAIN jitter_buffers
      /\ jitter_buffers' \in [DOMAIN jitter_buffers -> Buffers]
      /\ jitter_buffers'[n] = AfterPop(j)
      /\ \A m \in DOMAIN jitter_buffers : m # n => jitter_buffers'[m] = jitter_buffers[m]
  BY <1>0, <1>2 DEF Basic, Types
<1>4. item \in BatchItems
  BY <1>0 DEF BatchItems
<1>5. ~j.buffering
  BY <1>0 DEF CanPop
<1>6. batch' = Append(batch, item) /\ jbPc = "drain" /\ n \in Nodes /\ Popped(j) \in Packets
  BY <1>0
<1>7. played' \in [Nodes -> Seq(Packets)]
  <2>1. played[n] \in Seq(Packets) /\ played \in [Nodes -> Seq(Packets)]
    BY <1>6 DEF Basic, Types
  <2>2. Append(played[n], Popped(j)) \in Seq(Packets)
    BY <1>6, <2>1, AppendProperties
  <2> QED
    BY <1>0, <2>1, <2>2
<1> HIDE DEF j, item
<1>8. batch' \in Seq(BatchItems) /\ batch' # <<>>
  BY <1>4, <1>6, AppendedWaits DEF Basic
<1>9. Types'
  BY <1>1, <1>3, <1>7, <1>8 DEF Basic, Types, network, sockets
<1>10. StoredAsSent'
  <2> SUFFICES ASSUME NEW m \in DOMAIN jitter_buffers', NEW s \in Buffered(jitter_buffers'[m])
               PROVE  /\ jitter_buffers'[m].buffer[s] \in Sent[m]
                      /\ jitter_buffers'[m].buffer[s].seq = s
    BY DEF StoredAsSent, Buffered
  <2>1. CASE m = n
    BY <1>2, <1>3, <2>1 DEF Basic, StoredAsSent, j
  <2>2. CASE m # n
    BY <1>3, <2>2 DEF Basic, StoredAsSent
  <2> QED
    BY <2>1, <2>2
<1>11. Drained'
  BY <1>1, <1>3, n \in undrained DEF Basic, Drained
<1>12. RunsPlay'
  <2> SUFFICES ASSUME NEW m \in undrained, Waiting(m)' # {}
               PROVE  ~jitter_buffers'[m].buffering
    BY <1>1 DEF RunsPlay
  <2>1. CASE m = n
    BY <1>2, <1>3, <1>5, <2>1
  <2>2. CASE m # n
    <3>1. Waiting(m)' = Waiting(m)
      BY <1>4, <1>6, <2>2, AppendedWaits DEF Basic, item
    <3>2. m \in DOMAIN jitter_buffers
      BY DEF Basic, Types
    <3> QED
      BY <1>3, <2>2, <3>1, <3>2 DEF Basic, RunsPlay
  <2> QED
    BY <2>1, <2>2
<1> QED
  BY <1>1, <1>6, <1>8, <1>9, <1>10, <1>11, <1>12 DEF Basic, BatchInHand

(* What a failed pop() does to the state, for the node the loop is at.     *)
LEMMA DrainNextEffect ==
  ASSUME Basic, DrainNext
  PROVE  \E n \in undrained :
           LET j == jitter_buffers[n]
           IN  /\ jbPc = "drain" /\ n \in Nodes /\ n \in DOMAIN jitter_buffers
               /\ j \in Buffers /\ ~CanPop(j)
               /\ undrained' = undrained \ {n}
               /\ jitter_buffers' = [jitter_buffers EXCEPT ![n] = AfterFailedPop(j)]
<1>1. undrained # {} /\ undrained \subseteq DOMAIN jitter_buffers
      /\ DOMAIN jitter_buffers \subseteq Nodes
      /\ jitter_buffers \in [DOMAIN jitter_buffers -> Buffers]
  BY DEF DrainNext, Basic, Types
<1> DEFINE n == Min(undrained)
<1>2. n \in undrained
  BY <1>1, LeastOfNodes
<1>3. n \in Nodes /\ n \in DOMAIN jitter_buffers /\ jitter_buffers[n] \in Buffers
  BY <1>1, <1>2
<1> QED
  BY <1>2, <1>3 DEF DrainNext

LEMMA DrainNextBasic ==
  ASSUME Basic, DrainNext
  PROVE  Basic'
<1>0. PICK n \in undrained :
        LET j == jitter_buffers[n]
        IN  /\ jbPc = "drain" /\ n \in Nodes /\ n \in DOMAIN jitter_buffers
            /\ j \in Buffers /\ ~CanPop(j)
            /\ undrained' = undrained \ {n}
            /\ jitter_buffers' = [jitter_buffers EXCEPT ![n] = AfterFailedPop(j)]
  BY DrainNextEffect
<1> DEFINE j == jitter_buffers[n]
<1>1. UNCHANGED <<network, sockets, rx, mainPc, reports, jbPc, batch, nodes, history>>
  BY DEF DrainNext, JbUnchanged
<1>2. /\ AfterFailedPop(j) \in Buffers /\ AfterFailedPop(j).buffering
      /\ AfterFailedPop(j).buffer = j.buffer
  BY <1>0, FailedPopFacts
<1>3. /\ DOMAIN jitter_buffers' = DOMAIN jitter_buffers
      /\ jitter_buffers' \in [DOMAIN jitter_buffers -> Buffers]
      /\ jitter_buffers'[n] = AfterFailedPop(j)
      /\ \A m \in DOMAIN jitter_buffers : m # n => jitter_buffers'[m] = jitter_buffers[m]
  BY <1>0, <1>2 DEF Basic, Types
<1>4. undrained' = undrained \ {n} /\ n \in DOMAIN jitter_buffers /\ jbPc = "drain"
  BY <1>0
<1> HIDE DEF j
<1>5. Types'
  BY <1>1, <1>3, <1>4 DEF Basic, Types, network, sockets, history
<1>6. \A m \in DOMAIN jitter_buffers : jitter_buffers'[m].buffer = jitter_buffers[m].buffer
  BY <1>2, <1>3 DEF j
<1>7. StoredAsSent'
  BY <1>3, <1>6 DEF Basic, StoredAsSent, Buffered
<1>8. Drained'
  BY <1>1, <1>2, <1>3, <1>4 DEF Basic, Drained
<1>9. RunsPlay'
  <2> SUFFICES ASSUME NEW m \in undrained', Waiting(m)' # {}
               PROVE  ~jitter_buffers'[m].buffering
    BY DEF RunsPlay
  <2>1. m \in undrained /\ m # n /\ m \in DOMAIN jitter_buffers /\ Waiting(m) # {}
    BY <1>1, <1>4 DEF Waiting, Basic, Types
  <2> QED
    BY <1>3, <2>1 DEF Basic, RunsPlay
<1> QED
  BY <1>1, <1>4, <1>5, <1>7, <1>8, <1>9 DEF Basic, BatchInHand

(* The next packet of the batch and the rest of it.                        *)
LEMMA BatchHeadFacts ==
  ASSUME Types, batch # <<>>
  PROVE  /\ Head(batch) = batch[1]
         /\ Head(batch).node \in Nodes /\ Head(batch).packet \in Packets
         /\ Tail(batch) \in Seq(BatchItems)
         /\ Len(batch) \in Nat /\ Len(batch) > 0 /\ DOMAIN batch = 1 .. Len(batch)
         /\ DOMAIN Tail(batch) = 1 .. Len(batch) - 1
         /\ \A i \in 1 .. Len(batch) - 1 : Tail(batch)[i] = batch[i + 1]
<1>1. batch \in Seq(BatchItems)
  BY DEF Types
<1>2. /\ Head(batch) \in BatchItems /\ Tail(batch) \in Seq(BatchItems)
      /\ Len(Tail(batch)) = Len(batch) - 1
      /\ \A i \in 1 .. Len(Tail(batch)) : Tail(batch)[i] = batch[i + 1]
  BY <1>1, HeadTailProperties
<1>3. Head(batch).node \in Nodes /\ Head(batch).packet \in Packets
  BY <1>2 DEF BatchItems
<1> QED
  BY <1>1, <1>2, <1>3

(* The drain thread's steps without the mutex.                             *)
LEMMA HandOnBasic ==
  ASSUME Basic, Unlock \/ Process \/ Forward \/ BatchDone
  PROVE  Basic'
<1>1. UNCHANGED <<network, sockets, rx, mainPc, reports, jitter_buffers, undrained, played>>
  BY DEF Unlock, Process, Forward, BatchDone, JbUnchanged, history
<1>2. undrained = {} /\ batch \in Seq(BatchItems)
  BY DEF Unlock, Process, Forward, BatchDone, Basic, Types, BatchInHand
<1>3. CASE Unlock
  <2>1. jbPc' = "process" /\ UNCHANGED <<batch, nodes, forwarded>>
    BY <1>3 DEF Unlock, history
  <2>2. Types'
    BY <1>1, <2>1 DEF Basic, Types, network, sockets
  <2> QED
    BY <1>1, <1>2, <2>1, <2>2 DEF Basic, BatchInHand, StoredAsSent, Drained, RunsPlay, Buffered
<1>4. CASE Process
  <2>1. jbPc' = "forward" /\ batch # <<>> /\ UNCHANGED <<batch, forwarded>>
    BY <1>4 DEF Process, history
  <2>2. DOMAIN nodes' \subseteq Nodes
    <3>1. Head(batch).node \in Nodes
      BY <2>1, BatchHeadFacts DEF Basic
    <3>2. DOMAIN nodes' = DOMAIN nodes \cup {Head(batch).node}
      BY <1>4 DEF Process, NM!ProcessPacket
    <3> QED
      BY <3>1, <3>2 DEF Basic, Types
  <2>3. Types'
    BY <1>1, <2>1, <2>2 DEF Basic, Types, network, sockets
  <2> QED
    BY <1>1, <1>2, <2>1, <2>3 DEF Basic, BatchInHand, StoredAsSent, Drained, RunsPlay, Buffered
<1>5. CASE Forward
  <2>1. /\ jbPc = "forward" /\ jbPc' = "process" /\ batch' = Tail(batch) /\ UNCHANGED nodes
        /\ batch # <<>>
    BY <1>5 DEF Forward, RestOfBatch, Basic, BatchInHand
  <2>2. /\ batch' \in Seq(BatchItems)
        /\ Head(batch).node \in Nodes /\ Head(batch).packet \in Packets
    BY <2>1, BatchHeadFacts DEF Basic
  <2>3. forwarded' \in [Nodes -> Seq(Packets)]
    <3> DEFINE n == Head(batch).node
               p == Head(batch).packet
    <3>1. forwarded \in [Nodes -> Seq(Packets)] /\ forwarded[n] \in Seq(Packets)
      BY <2>2 DEF Basic, Types
    <3>2. Append(forwarded[n], p) \in Seq(Packets)
      BY <2>2, <3>1, AppendProperties
    <3>3. forwarded' = forwarded \/ forwarded' = [forwarded EXCEPT ![n] = Append(forwarded[n], p)]
      BY <1>5 DEF Forward
    <3> QED
      BY <2>2, <3>1, <3>2, <3>3
  <2>4. Types'
    BY <1>1, <2>1, <2>2, <2>3 DEF Basic, Types, network, sockets
  <2> QED
    BY <1>1, <1>2, <2>1, <2>4 DEF Basic, BatchInHand, StoredAsSent, Drained, RunsPlay, Buffered
<1>6. CASE BatchDone
  <2>1. jbPc' \in {"sleep", "done"} /\ batch = <<>> /\ UNCHANGED <<batch, nodes, forwarded>>
    BY <1>6 DEF BatchDone, NextPass, history
  <2>2. Types'
    BY <1>1, <2>1 DEF Basic, Types, network, sockets
  <2> QED
    BY <1>1, <1>2, <2>1, <2>2 DEF Basic, BatchInHand, StoredAsSent, Drained, RunsPlay, Buffered
<1> QED
  BY <1>3, <1>4, <1>5, <1>6

MainStep == Report \/ StopRunning \/ StopStep

(* The main thread touches neither the buffers nor the batch.              *)
LEMMA MainBasic ==
  ASSUME Basic, MainStep
  PROVE  Basic'
<1>1. UNCHANGED <<network, rx, jitter_buffers, jbPc, undrained, batch, history>>
  BY DEF MainStep, Report, StopRunning, StopStep, CloseSocket, CloseForward, JoinRecv, JoinJb,
     MainUnchanged
<1>2. /\ running' \in BOOLEAN /\ socketOpen' \in BOOLEAN /\ forwardOpen' \in BOOLEAN
      /\ mainPc' \in {"running", "closeSocket", "closeForward", "joinRecv", "joinJb", "stopped"}
      /\ reports' \in 0 .. MaxReports
      /\ DOMAIN nodes' \subseteq Nodes
  <2>1. CASE Report
    BY <2>1, SentAssumption DEF Report, Basic, Types, sockets, NM!PrintAndResetStats
  <2>2. CASE StopRunning
    BY <2>2 DEF StopRunning, Basic, Types
  <2>3. CASE StopStep
    BY <2>3 DEF StopStep, CloseSocket, CloseForward, JoinRecv, JoinJb, Basic, Types, sockets
  <2> QED
    BY <2>1, <2>2, <2>3 DEF MainStep
<1>3. Types'
  BY <1>1, <1>2 DEF Basic, Types, network, history
<1> QED
  BY <1>1, <1>3 DEF Basic, BatchInHand, StoredAsSent, Drained, RunsPlay, Waiting, Buffered

(* The actions of the three threads, for the case splits of the proofs.    *)
LEMMA NextCases ==
  ASSUME Next
  PROVE  \/ \E n \in Nodes : \E p \in inflight[n] : RecvFrom(n, p)
         \/ CallRecvFrom \/ RecvError
         \/ PushPacket
         \/ WakeAndLock
         \/ DrainPop
         \/ DrainNext
         \/ Unlock \/ Process \/ Forward \/ BatchDone
         \/ MainStep
BY DEF Next, JbStep, MainStep

LEMMA NextBasic == Basic /\ [Next]_vars => Basic'
<1> SUFFICES ASSUME Basic, [Next]_vars PROVE Basic'
  OBVIOUS
<1>1. CASE UNCHANGED vars
  BY <1>1 DEF vars, network, sockets, history, Basic, Types, BatchInHand, StoredAsSent, Drained,
     RunsPlay, Waiting, Buffered
<1>2. CASE Next
  BY <1>2, NextCases, RecvFromBasic, RecvBasic, PushPacketBasic, WakeAndLockBasic,
     DrainPopBasic, DrainNextBasic, HandOnBasic, MainBasic
<1> QED
  BY <1>1, <1>2

(* The variables have their types, and the drain thread's position, its    *)
(* loop and its batch go together, whatever the other threads do.          *)
THEOREM BasicInvariance == Spec => []Basic
BY InitBasic, NextBasic, PTL DEF Spec

(* The types of the server's state.                                        *)
THEOREM TypeCorrect == Spec => []TypeOK
BY BasicInvariance, TypesGiveTypeOK, PTL DEF Basic

(* When the drain releases the mutex every buffer is buffering: nothing    *)
(* playable is left out of the batch, and no push gets into a drain.       *)
THEOREM DrainsAreComplete == Spec => DrainIsComplete
<1>1. Basic /\ [Next]_vars =>
        (jbPc = "drain" /\ jbPc' # "drain" =>
           \A n \in DOMAIN jitter_buffers : jitter_buffers[n].buffering)
  <2> SUFFICES ASSUME Basic, [Next]_vars, jbPc = "drain", jbPc' # "drain"
               PROVE  \A n \in DOMAIN jitter_buffers : jitter_buffers[n].buffering
    OBVIOUS
  <2>1. undrained = {}
    BY DEF Next, RecvFrom, CallRecvFrom, RecvError, PushPacket, JbStep, WakeAndLock, DrainPop,
       DrainNext, Unlock, Process, Forward, BatchDone, Report, StopRunning, StopStep,
       CloseSocket, CloseForward, JoinRecv, JoinJb, MainUnchanged, vars
  <2> QED
    BY <2>1 DEF Basic, Drained
<1> QED
  BY <1>1, BasicInvariance, PTL DEF Spec, DrainIsComplete

-----------------------------------------------------------------------------
(* How often a packet has been played is not inductive: the copies of it   *)
(* that the network, the receiving thread and the buffer still hold count  *)
(* as well, and together they only grow when the network duplicates.       *)

Times(n, p) == {i \in DOMAIN played[n] : played[n][i] = p}

IsBuffered(n, p) ==
  /\ n \in DOMAIN jitter_buffers
  /\ p.seq \in Buffered(jitter_buffers[n])
  /\ jitter_buffers[n].buffer[p.seq] = p

IsReceived(n, p) == rx.pc = "push" /\ rx.node = n /\ rx.packet = p

One(b) == IF b THEN 1 ELSE 0

Copies(n, p) ==
  Cardinality(Times(n, p)) + One(IsBuffered(n, p)) + One(IsReceived(n, p))
    + One(p \in inflight[n])

FewCopies == \A n \in Nodes : \A p \in Sent[n] : Copies(n, p) <= 1 + duplicates

LEMMA TimesIsFinite ==
  ASSUME Types, NEW n \in Nodes, NEW p
  PROVE  IsFiniteSet(Times(n, p)) /\ Cardinality(Times(n, p)) \in Nat
<1>1. played[n] \in Seq(Packets)
  BY DEF Types
<1>2. Len(played[n]) \in Nat /\ DOMAIN played[n] = 1 .. Len(played[n])
  BY <1>1
<1>3. IsFiniteSet(1 .. Len(played[n]))
  BY <1>2, FS_Interval
<1>4. Times(n, p) \in SUBSET (1 .. Len(played[n]))
  BY <1>2 DEF Times
<1>5. IsFiniteSet(Times(n, p))
  BY <1>3, <1>4, FS_Subset
<1> QED
  BY <1>5, FS_CardinalityType

(* x is played for node m.                                                 *)
Plays(m, x) == played' = [played EXCEPT ![m] = Append(@, x)]

(* A pop of the packet counts once, any other not at all.                  *)
LEMMA TimesAfterPop ==
  ASSUME Types, NEW m \in Nodes, NEW x \in Packets, Plays(m, x), NEW n \in Nodes, NEW p
  PROVE  /\ n = m /\ x = p => Cardinality(Times(n, p)') = Cardinality(Times(n, p)) + 1
         /\ ~(n = m /\ x = p) => Cardinality(Times(n, p)') = Cardinality(Times(n, p))
<1>1. CASE n # m
  <2>1. Times(n, p)' = Times(n, p)
    BY <1>1 DEF Types, Times, Plays
  <2> QED
    BY <1>1, <2>1
<1>2. CASE n = m
  <2> DEFINE s == played[n]
             k == Len(s) + 1
  <2>1. s \in Seq(Packets) /\ played'[n] = Append(s, x)
    BY <1>2 DEF Types, Plays
  <2>2. /\ Len(Append(s, x)) = k /\ Append(s, x) \in Seq(Packets)
        /\ \A i \in 1 .. Len(s) : Append(s, x)[i] = s[i]
        /\ Append(s, x)[k] = x
    BY <2>1, AppendProperties
  <2>3. /\ Len(s) \in Nat /\ DOMAIN s = 1 .. Len(s) /\ DOMAIN Append(s, x) = 1 .. k
    BY <2>1, <2>2
  <2> HIDE DEF s
  <2>4. DOMAIN played'[n] = DOMAIN s \cup {k} /\ k \notin DOMAIN s
    BY <2>1, <2>3
  <2>5. Times(n, p) = {i \in DOMAIN s : s[i] = p}
    BY DEF Times, s
  <2>6. k \notin Times(n, p)
    BY <2>4, <2>5
  <2>7. Times(n, p)' = {i \in DOMAIN s \cup {k} : played'[n][i] = p}
    BY <2>4 DEF Times
  <2>8. CASE x = p
    <3>1. Times(n, p)' = Times(n, p) \cup {k}
      BY <2>1, <2>2, <2>3, <2>5, <2>7, <2>8
    <3> QED
      BY <1>2, <2>6, <2>8, <3>1, TimesIsFinite, FS_AddElement
  <2>9. CASE x # p
    <3>1. Times(n, p)' = Times(n, p)
      BY <2>1, <2>2, <2>3, <2>5, <2>7, <2>9
    <3> QED
      BY <2>9, <3>1
  <2> QED
    BY <2>8, <2>9, <1>2
<1> QED
  BY <1>1, <1>2

LEMMA CopiesAreCounted ==
  ASSUME Types, NEW n \in Nodes, NEW p
  PROVE  /\ Copies(n, p) \in Nat /\ Cardinality(Times(n, p)) \in Nat
         /\ Cardinality(Times(n, p)) <= Copies(n, p)
<1>1. Cardinality(Times(n, p)) \in Nat
  BY TimesIsFinite
<1>2. One(IsBuffered(n, p)) \in Nat /\ One(IsReceived(n, p)) \in Nat
      /\ One(p \in inflight[n]) \in Nat
  BY DEF One
<1> QED
  BY <1>1, <1>2 DEF Copies

(* A step that creates no copy: what the copies are replaced by.           *)
LEMMA NoNewCopy ==
  ASSUME Basic, NEW n \in Nodes, NEW p,
         Cardinality(Times(n, p)') = Cardinality(Times(n, p)),
         IsBuffered(n, p)' => IsBuffered(n, p) \/ (IsReceived(n, p) /\ ~IsReceived(n, p)'),
         IsReceived(n, p)' => IsReceived(n, p),
         p \in inflight'[n] => p \in inflight[n]
  PROVE  Copies(n, p)' <= Copies(n, p)
<1>1. Cardinality(Times(n, p)) \in Nat /\ Cardinality(Times(n, p)') = Cardinality(Times(n, p))
  BY TimesIsFinite DEF Basic
<1>2. CASE IsBuffered(n, p)' => IsBuffered(n, p)
  BY <1>1, <1>2 DEF Copies, One
<1>3. CASE IsReceived(n, p) /\ ~IsReceived(n, p)'
  BY <1>1, <1>3 DEF Copies, One
<1> QED
  BY <1>2, <1>3

(* Nothing that holds a copy changes.                                      *)
LEMMA SameCopies ==
  ASSUME UNCHANGED <<inflight, jitter_buffers, played>>,
         rx'.pc # "push" \/ rx' = rx, NEW n \in Nodes, NEW p
  PROVE  /\ Cardinality(Times(n, p)') = Cardinality(Times(n, p))
         /\ IsBuffered(n, p)' => IsBuffered(n, p)
         /\ IsReceived(n, p)' => IsReceived(n, p)
         /\ p \in inflight'[n] => p \in inflight[n]
<1>1. Times(n, p)' = Times(n, p)
  BY DEF Times
<1> QED
  BY <1>1 DEF IsBuffered, IsReceived, Buffered

(* A datagram off the socket: the copy changes hands, or the network made  *)
(* another.                                                                *)
LEMMA RecvFromCopies ==
  ASSUME Basic, NEW m \in Nodes, NEW q \in inflight[m], RecvFrom(m, q),
         NEW n \in Nodes, NEW p \in Sent[n], Copies(n, p) <= 1 + duplicates
  PROVE  Copies(n, p)' <= 1 + duplicates'
<1>1. /\ rx.pc = "recvfrom" /\ rx' = [pc |-> "push", node |-> m, packet |-> q]
      /\ UNCHANGED <<jitter_buffers, played>>
      /\ inflight \in [Nodes -> SUBSET Packets]
      /\ duplicates \in Nat
  BY SentAssumption DEF RecvFrom, history, Basic, Types
<1>2. /\ Times(n, p)' = Times(n, p) /\ (IsBuffered(n, p)' <=> IsBuffered(n, p))
      /\ ~IsReceived(n, p)
      /\ IsReceived(n, p)' <=> m = n /\ q = p
  BY <1>1 DEF Times, IsBuffered, IsReceived, Buffered
<1>3. \/ /\ duplicates' = duplicates /\ inflight' = [inflight EXCEPT ![m] = @ \ {q}]
      \/ duplicates' = duplicates + 1 /\ inflight' = inflight
  BY DEF RecvFrom
<1>4. Cardinality(Times(n, p)) \in Nat /\ Cardinality(Times(n, p)') = Cardinality(Times(n, p))
  BY <1>2, TimesIsFinite DEF Basic
<1>5. CASE inflight' = [inflight EXCEPT ![m] = @ \ {q}] /\ duplicates' = duplicates
  <2>1. CASE m = n /\ q = p
    <3>1. p \in inflight[n] /\ p \notin inflight'[n]
      BY <1>1, <1>5, <2>1
    <3> QED
      BY <1>1, <1>2, <1>4, <1>5, <2>1, <3>1 DEF Copies, One
  <2>2. CASE ~(m = n /\ q = p)
    <3>1. p \in inflight'[n] <=> p \in inflight[n]
      BY <1>1, <1>5, <2>2
    <3> QED
      BY <1>1, <1>2, <1>4, <1>5, <2>2, <3>1 DEF Copies, One
  <2> QED
    BY <2>1, <2>2
<1>6. CASE inflight' = inflight /\ duplicates' = duplicates + 1
  BY <1>1, <1>2, <1>4, <1>6 DEF Copies, One
<1> QED
  BY <1>3, <1>5, <1>6

(* A push: the copy the receiving thread holds gets into the buffer, or is *)
(* dropped as late, or takes the place of one that is there already.       *)
LEMMA PushPacketCopies ==
  ASSUME Basic, PushPacket, NEW n \in Nodes, NEW p \in Sent[n]
  PROVE  Copies(n, p)' <= Copies(n, p)
<1> DEFINE m == rx.node
           q == rx.packet
           j == BufferOf(m)
<1>1. /\ m \in Nodes /\ q \in Packets /\ rx.pc = "push" /\ rx'.pc # "push"
      /\ UNCHANGED <<inflight, duplicates, played>>
  BY SentArePackets DEF PushPacket, Idle, Basic, Types, network, history
<1>2. j \in Buffers
  BY NewIsBuffer DEF BufferOf, Basic, Types
<1>3. /\ DOMAIN jitter_buffers' = DOMAIN jitter_buffers \cup {m}
      /\ jitter_buffers'[m] = Push(j, q)
      /\ \A k \in DOMAIN jitter_buffers : k # m => jitter_buffers'[k] = jitter_buffers[k]
  BY DEF PushPacket
<1>4. \A s \in Buffered(Push(j, q)) :
        \/ s = q.seq /\ Push(j, q).buffer[s] = q
        \/ s \in Buffered(j) /\ Push(j, q).buffer[s] = j.buffer[s]
  BY <1>1, <1>2, PushFacts
<1>5. \A s \in Buffered(j) : m \in DOMAIN jitter_buffers /\ j = jitter_buffers[m]
  BY DEF BufferOf, NewJitterBuffer, Buffered
<1>6. ~IsReceived(n, p)' /\ (IsReceived(n, p) <=> m = n /\ q = p)
  BY <1>1 DEF IsReceived
<1>7. /\ Cardinality(Times(n, p)') = Cardinality(Times(n, p))
      /\ p \in inflight'[n] => p \in inflight[n]
  <2>1. Times(n, p)' = Times(n, p)
    BY <1>1 DEF Times
  <2> QED
    BY <1>1, <2>1
<1> HIDE DEF m, q, j
<1>8. IsBuffered(n, p)' => IsBuffered(n, p) \/ (m = n /\ q = p)
  <2> SUFFICES ASSUME IsBuffered(n, p)', ~(m = n /\ q = p) PROVE IsBuffered(n, p)
    OBVIOUS
  <2>1. /\ n \in DOMAIN jitter_buffers' /\ p.seq \in Buffered(jitter_buffers'[n])
        /\ jitter_buffers'[n].buffer[p.seq] = p
    BY DEF IsBuffered, Buffered
  <2>2. CASE n # m
    BY <1>3, <2>1, <2>2 DEF IsBuffered
  <2>3. CASE n = m
    <3>1. p.seq \in Buffered(j) /\ j.buffer[p.seq] = p
      BY <1>3, <1>4, <2>1, <2>3
    <3> QED
      BY <1>5, <2>3, <3>1 DEF IsBuffered
  <2> QED
    BY <2>2, <2>3
<1> QED
  BY <1>6, <1>7, <1>8, NoNewCopy

(* A pop: the packet handed out is no longer buffered.                     *)
LEMMA DrainPopCopies ==
  ASSUME Basic, DrainPop, NEW n \in Nodes, NEW p \in Sent[n]
  PROVE  Copies(n, p)' <= Copies(n, p)
<1>0. PICK m \in undrained :
        LET j == jitter_buffers[m]
        IN  /\ jbPc = "drain" /\ m \in Nodes /\ m \in DOMAIN jitter_buffers
            /\ j \in Buffers /\ CanPop(j) /\ Popped(j) \in Packets
            /\ batch' = Append(batch, [node |-> m, packet |-> Popped(j)])
            /\ played' = [played EXCEPT ![m] = Append(@, Popped(j))]
            /\ jitter_buffers' = [jitter_buffers EXCEPT ![m] = AfterPop(j)]
  BY DrainPopEffect
<1> DEFINE j == jitter_buffers[m]
           x == Popped(j)
<1>1. UNCHANGED <<inflight, rx>> /\ Types
  BY DEF DrainPop, JbUnchanged, network, Basic
<1>2. /\ Buffered(AfterPop(j)) = Buffered(j) \ {j.next_play_seq}
      /\ \A s \in Buffered(AfterPop(j)) : AfterPop(j).buffer[s] = j.buffer[s]
      /\ x.silent # TRUE => j.next_play_seq \in Buffered(j) /\ x = j.buffer[j.next_play_seq]
  BY <1>0, PopFacts
<1>3. /\ DOMAIN jitter_buffers' = DOMAIN jitter_buffers
      /\ jitter_buffers'[m] = AfterPop(j)
      /\ \A k \in DOMAIN jitter_buffers : k # m => jitter_buffers'[k] = jitter_buffers[k]
      /\ m \in DOMAIN jitter_buffers
  BY <1>0 DEF Types
<1>4. \A s \in Buffered(j) : j.buffer[s].seq = s
  BY <1>3 DEF Basic, StoredAsSent
<1>5. x \in Packets /\ m \in Nodes /\ Plays(m, x)
  BY <1>0 DEF Plays
<1> HIDE DEF j, x
<1>6. IsReceived(n, p)' <=> IsReceived(n, p)
  BY <1>1 DEF IsReceived
<1>7. IsBuffered(n, p)' => IsBuffered(n, p) /\ ~(n = m /\ p.seq = j.next_play_seq)
  <2> SUFFICES ASSUME IsBuffered(n, p)'
               PROVE  IsBuffered(n, p) /\ ~(n = m /\ p.seq = j.next_play_seq)
    OBVIOUS
  <2>1. /\ n \in DOMAIN jitter_buffers' /\ p.seq \in Buffered(jitter_buffers'[n])
        /\ jitter_buffers'[n].buffer[p.seq] = p
    BY DEF IsBuffered, Buffered
  <2>2. CASE n # m
    BY <1>3, <2>1, <2>2 DEF IsBuffered
  <2>3. CASE n = m
    BY <1>2, <1>3, <2>1, <2>3 DEF IsBuffered, j
  <2> QED
    BY <2>2, <2>3
<1>8. CASE n = m /\ x = p
  <2>1. j.next_play_seq \in Buffered(j) /\ p = j.buffer[j.next_play_seq]
    BY <1>2, <1>8, SentArePackets
  <2>2. p.seq = j.next_play_seq
    BY <1>4, <2>1
  <2>3. IsBuffered(n, p) /\ ~IsBuffered(n, p)'
    BY <1>3, <1>7, <1>8, <2>1, <2>2 DEF IsBuffered, j
  <2>4. Cardinality(Times(n, p)') = Cardinality(Times(n, p)) + 1
    BY <1>1, <1>5, <1>8, TimesAfterPop
  <2>5. Cardinality(Times(n, p)) \in Nat
    BY <1>1, TimesIsFinite
  <2> QED
    BY <1>1, <1>6, <2>3, <2>4, <2>5 DEF Copies, One
<1>9. CASE ~(n = m /\ x = p)
  <2>1. Cardinality(Times(n, p)') = Cardinality(Times(n, p))
    BY <1>1, <1>5, <1>9, TimesAfterPop
  <2> QED
    BY <1>1, <1>6, <1>7, <2>1, NoNewCopy
<1> QED
  BY <1>8, <1>9

(* A failed pop takes nothing out of the buffer.                           *)
LEMMA DrainNextCopies ==
  ASSUME Basic, DrainNext, NEW n \in Nodes, NEW p \in Sent[n]
  PROVE  Copies(n, p)' <= Copies(n, p)
<1>0. PICK m \in undrained :
        LET j == jitter_buffers[m]
        IN  /\ jbPc = "drain" /\ m \in Nodes /\ m \in DOMAIN jitter_buffers
            /\ j \in Buffers /\ ~CanPop(j)
            /\ undrained' = undrained \ {m}
            /\ jitter_buffers' = [jitter_buffers EXCEPT ![m] = AfterFailedPop(j)]
  BY DrainNextEffect
<1>1. UNCHANGED <<inflight, rx, played>>
  BY DEF DrainNext, JbUnchanged, network, history
<1>2. /\ DOMAIN jitter_buffers' = DOMAIN jitter_buffers
      /\ \A k \in DOMAIN jitter_buffers : jitter_buffers'[k].buffer = jitter_buffers[k].buffer
  BY <1>0, FailedPopFacts DEF Basic, Types
<1>3. IsBuffered(n, p)' => IsBuffered(n, p)
  BY <1>2 DEF IsBuffered, Buffered
<1>4. Times(n, p)' = Times(n, p)
  BY <1>1 DEF Times
<1>5. Cardinality(Times(n, p)') = Cardinality(Times(n, p))
  BY <1>4
<1> QED
  BY <1>1, <1>3, <1>5, NoNewCopy DEF IsReceived

LEMMA NextFewCopies == Basic /\ FewCopies /\ [Next]_vars => FewCopies'
<1> SUFFICES ASSUME Basic, FewCopies, [Next]_vars, NEW n \in Nodes, NEW p \in Sent[n]
             PROVE  Copies(n, p)' <= 1 + duplicates'
  BY DEF FewCopies
<1>1. Copies(n, p) <= 1 + duplicates /\ Copies(n, p) \in Nat /\ duplicates \in Nat
  BY CopiesAreCounted, SentAssumption DEF FewCopies, Basic, Types
<1>2. ASSUME NEW m \in Nodes, NEW q \in inflight[m], RecvFrom(m, q)
      PROVE  Copies(n, p)' <= 1 + duplicates'
  BY <1>1, <1>2, RecvFromCopies
<1>3. ASSUME Copies(n, p)' <= Copies(n, p), duplicates' = duplicates
      PROVE  Copies(n, p)' <= 1 + duplicates'
  <2>1. Copies(n, p)' \in Nat
    <3>1. Types'
      BY NextBasic DEF Basic
    <3>2. Cardinality(Times(n, p)') \in Nat
      <4>1. played'[n] \in Seq(Packets)
        BY <3>1 DEF Types
      <4>2. Len(played'[n]) \in Nat /\ DOMAIN played'[n] = 1 .. Len(played'[n])
        BY <4>1
      <4>3. IsFiniteSet(1 .. Len(played'[n]))
        BY <4>2, FS_Interval
      <4>4. Times(n, p)' \in SUBSET (1 .. Len(played'[n]))
        BY <4>2 DEF Times
      <4> QED
        BY <4>3, <4>4, FS_Subset, FS_CardinalityType
    <3> QED
      BY <3>2 DEF Copies, One
  <2> QED
    BY <1>1, <1>3, <2>1
<1>4. CASE PushPacket
  BY <1>3, <1>4, PushPacketCopies DEF PushPacket, network
<1>5. CASE DrainPop
  BY <1>3, <1>5, DrainPopCopies DEF DrainPop, JbUnchanged, network
<1>6. CASE DrainNext
  BY <1>3, <1>6, DrainNextCopies DEF DrainNext, JbUnchanged, network
<1>7. ASSUME UNCHANGED <<inflight, duplicates, jitter_buffers, played>>,
             rx'.pc # "push" \/ rx' = rx
      PROVE  Copies(n, p)' <= 1 + duplicates'
  BY <1>3, <1>7, SameCopies, NoNewCopy
<1>8. CASE CallRecvFrom \/ RecvError
  BY <1>7, <1>8 DEF CallRecvFrom, RecvError, network, history, Basic, Types
<1>9. CASE WakeAndLock \/ Unlock \/ Process \/ Forward \/ BatchDone
  BY <1>7, <1>9 DEF WakeAndLock, Unlock, Process, Forward, BatchDone, JbUnchanged, network,
     history
<1>10. CASE MainStep
  BY <1>7, <1>10 DEF MainStep, Report, StopRunning, StopStep, CloseSocket, CloseForward,
     JoinRecv, JoinJb, MainUnchanged, network, history
<1>11. CASE UNCHANGED vars
  BY <1>7, <1>11 DEF vars, network, history
<1> QED
  BY <1>2, <1>4, <1>5, <1>6, <1>8, <1>9, <1>10, <1>11, NextCases

LEMMA InitFewCopies == Init => FewCopies
<1> SUFFICES ASSUME Init, NEW n \in Nodes, NEW p \in Sent[n]
             PROVE  Copies(n, p) <= 1 + duplicates
  BY DEF FewCopies
<1>1. Times(n, p) = {} /\ ~IsBuffered(n, p) /\ ~IsReceived(n, p) /\ duplicates = 0
  BY DEF Init, Times, IsBuffered, IsReceived, Idle
<1>2. Cardinality(Times(n, p)) = 0
  BY <1>1, FS_EmptySet
<1> QED
  BY <1>1, <1>2 DEF Copies, One

(* A packet is played at most once more often than the network duplicates  *)
(* datagrams: the buffer, the batch and the threads never repeat one.      *)
THEOREM NothingIsRepeated == Spec => []PlayedAtMostAsOftenAsDelivered
<1>1. Basic /\ FewCopies => PlayedAtMostAsOftenAsDelivered
  <2> SUFFICES ASSUME Basic, FewCopies, NEW n \in Nodes, NEW p \in Sent[n]
               PROVE  Cardinality(Times(n, p)) <= 1 + duplicates
    BY DEF PlayedAtMostAsOftenAsDelivered, Times
  <2>1. /\ Copies(n, p) \in Nat /\ Cardinality(Times(n, p)) \in Nat /\ duplicates \in Nat
        /\ Cardinality(Times(n, p)) <= Copies(n, p) /\ Copies(n, p) <= 1 + duplicates
    BY CopiesAreCounted, SentAssumption DEF FewCopies, Basic, Types
  <2> QED
    BY <2>1
<1> QED
  BY <1>1, InitFewCopies, NextFewCopies, BasicInvariance, PTL DEF Spec

-----------------------------------------------------------------------------
(* The batch and the history of what was played: the node's packets in the *)
(* batch are, each at its place, those played after the first gone ones.   *)

Rest(n, gone) == gone + 1 .. Len(played[n])

Places(n, gone, place) ==
  /\ place \in [Waiting(n) -> Rest(n, gone)]
  /\ \A i, j \in Waiting(n) : i < j => place[i] < place[j]
  /\ \A k \in Rest(n, gone) : \E i \in Waiting(n) : place[i] = k
  /\ \A i \in Waiting(n) : played[n][place[i]] = batch[i].packet

InBatch(n, gone) == gone \in 0 .. Len(played[n]) /\ \E place : Places(n, gone, place)

LEMMA HistoryTypes ==
  ASSUME Types, NEW n \in Nodes
  PROVE  /\ played[n] \in Seq(Packets) /\ forwarded[n] \in Seq(Packets)
         /\ Len(played[n]) \in Nat /\ Len(forwarded[n]) \in Nat
         /\ Len(batch) \in Nat /\ DOMAIN batch = 1 .. Len(batch)
         /\ Waiting(n) \subseteq DOMAIN batch
<1>1. played[n] \in Seq(Packets) /\ forwarded[n] \in Seq(Packets) /\ batch \in Seq(BatchItems)
  BY DEF Types
<1> QED
  BY <1>1 DEF Waiting

(* A step that leaves the batch and the history alone.                     *)
LEMMA InBatchUnchanged ==
  ASSUME UNCHANGED <<batch, played>>, NEW n, NEW gone, InBatch(n, gone)
  PROVE  InBatch(n, gone)'
<1>1. Waiting(n)' = Waiting(n) /\ Rest(n, gone)' = Rest(n, gone)
  BY DEF Waiting, Rest
<1>2. ASSUME NEW place, Places(n, gone, place) PROVE Places(n, gone, place)'
  BY <1>1, <1>2 DEF Places
<1> QED
  BY <1>2 DEF InBatch

(* A pop of another node's buffer leaves the places as they are, and one   *)
(* of this node's buffer adds a place at the end.                          *)
LEMMA DrainPopInBatch ==
  ASSUME Basic, DrainPop, NEW n \in Nodes, NEW gone, InBatch(n, gone)
  PROVE  InBatch(n, gone)'
<1>0. PICK m \in undrained :
        LET j == jitter_buffers[m]
        IN  /\ jbPc = "drain" /\ m \in Nodes /\ m \in DOMAIN jitter_buffers
            /\ j \in Buffers /\ CanPop(j) /\ Popped(j) \in Packets
            /\ batch' = Append(batch, [node |-> m, packet |-> Popped(j)])
            /\ played' = [played EXCEPT ![m] = Append(@, Popped(j))]
            /\ jitter_buffers' = [jitter_buffers EXCEPT ![m] = AfterPop(j)]
  BY DrainPopEffect
<1> DEFINE x == Popped(jitter_buffers[m])
           item == [node |-> m, packet |-> x]
           last == Len(batch) + 1
           top == Len(played[n]) + 1
<1>1. Types /\ gone \in Nat /\ gone <= Len(played[n])
  <2>1. Types /\ gone \in 0 .. Len(played[n])
    BY DEF Basic, InBatch
  <2> QED
    BY <2>1, HistoryTypes
<1>2. /\ item \in BatchItems /\ item.node = m /\ item.packet = x /\ x \in Packets
      /\ batch' = Append(batch, item) /\ m \in Nodes
      /\ played' = [played EXCEPT ![m] = Append(@, x)]
  BY <1>0 DEF BatchItems
<1> HIDE DEF x, item
<1>3. /\ played[n] \in Seq(Packets) /\ Len(played[n]) \in Nat
      /\ Len(batch) \in Nat /\ DOMAIN batch = 1 .. Len(batch) /\ Waiting(n) \subseteq DOMAIN batch
  BY <1>1, HistoryTypes
<1>4. /\ \A i \in DOMAIN batch : batch'[i] = batch[i]
      /\ batch'[last] = item
      /\ n = m => Waiting(n)' = Waiting(n) \cup {last}
      /\ n # m => Waiting(n)' = Waiting(n)
  BY <1>1, <1>2, AppendedWaits
<1>5. CASE n # m
  <2>1. played'[n] = played[n]
    BY <1>1, <1>2, <1>5 DEF Types
  <2>2. Rest(n, gone)' = Rest(n, gone) /\ Waiting(n)' = Waiting(n)
    BY <1>4, <1>5, <2>1 DEF Rest
  <2>3. ASSUME NEW place, Places(n, gone, place) PROVE Places(n, gone, place)'
    BY <1>3, <1>4, <2>1, <2>2, <2>3 DEF Places
  <2> QED
    BY <2>1, <2>3 DEF InBatch
<1>6. CASE n = m
  <2>1. /\ Len(played'[n]) = top
        /\ \A k \in 1 .. Len(played[n]) : played'[n][k] = played[n][k]
        /\ played'[n][top] = x
    <3>1. played'[n] = Append(played[n], x)
      BY <1>2, <1>6 DEF Types, Basic
    <3> QED
      BY <1>2, <1>3, <3>1, AppendProperties
  <2>2. PICK place : Places(n, gone, place)
    BY DEF InBatch
  <2>3. PICK q : q = [i \in Waiting(n) \cup {last} |-> IF i = last THEN top ELSE place[i]]
    OBVIOUS
  <2>4. /\ Rest(n, gone) = gone + 1 .. Len(played[n])
        /\ Rest(n, gone)' = gone + 1 .. top
    BY <2>1 DEF Rest
  <2>5. /\ top \in Rest(n, gone)' /\ Rest(n, gone) \subseteq Rest(n, gone)'
        /\ \A k \in Rest(n, gone)' : k \in Rest(n, gone) \/ k = top
        /\ \A k \in Rest(n, gone) : k < top /\ k \in 1 .. Len(played[n])
    BY <1>1, <1>3, <2>4
  <2>6. /\ last \notin Waiting(n)
        /\ \A i \in Waiting(n) : i < last /\ ~(last < i) /\ i \in DOMAIN batch
    BY <1>3
  <2>7. /\ q[last] = top
        /\ \A i \in Waiting(n) : q[i] = place[i] /\ place[i] \in Rest(n, gone)
    BY <2>2, <2>3, <2>6 DEF Places
  <2>8. q \in [Waiting(n)' -> Rest(n, gone)']
    BY <1>4, <1>6, <2>3, <2>5, <2>7
  <2>9. gone \in 0 .. top
    BY <1>1, <1>3
  <2> HIDE DEF last, top
  <2>10. \A i, j \in Waiting(n)' : i < j => q[i] < q[j]
    <3> SUFFICES ASSUME NEW i \in Waiting(n)', NEW j \in Waiting(n)', i < j
                 PROVE  q[i] < q[j]
      OBVIOUS
    <3>1. i \in Waiting(n) /\ (j \in Waiting(n) \/ j = last)
      BY <1>3, <1>4, <1>6, <2>6 DEF last
    <3> QED
      BY <2>2, <2>5, <2>7, <3>1 DEF Places
  <2>11. \A k \in Rest(n, gone)' : \E i \in Waiting(n)' : q[i] = k
    <3> SUFFICES ASSUME NEW k \in Rest(n, gone)' PROVE \E i \in Waiting(n)' : q[i] = k
      OBVIOUS
    <3>1. CASE k = top
      BY <1>4, <1>6, <2>7, <3>1
    <3>2. CASE k \in Rest(n, gone)
      BY <1>4, <1>6, <2>2, <2>7, <3>2 DEF Places
    <3> QED
      BY <2>5, <3>1, <3>2
  <2>12. \A i \in Waiting(n)' : played'[n][q[i]] = batch'[i].packet
    <3> SUFFICES ASSUME NEW i \in Waiting(n)' PROVE played'[n][q[i]] = batch'[i].packet
      OBVIOUS
    <3>1. CASE i = last
      BY <1>2, <1>4, <2>1, <2>7, <3>1
    <3>2. CASE i \in Waiting(n)
      <4>1. q[i] = place[i] /\ place[i] \in 1 .. Len(played[n]) /\ i \in DOMAIN batch
        BY <2>5, <2>6, <2>7, <3>2
      <4> QED
        BY <1>4, <2>1, <2>2, <3>2, <4>1 DEF Places
    <3> QED
      BY <1>4, <1>6, <3>1, <3>2
  <2>13. Places(n, gone, q)'
    BY <2>8, <2>10, <2>11, <2>12 DEF Places
  <2> QED
    BY <2>1, <2>9, <2>13 DEF InBatch
<1> QED
  BY <1>5, <1>6

(* The packets behind the head of the batch move up by one.                *)
LEMMA WaitingMovesUp ==
  ASSUME Types, batch # <<>>, batch' = Tail(batch), NEW n
  PROVE  /\ \A i \in Waiting(n)' : /\ i \in Nat /\ i > 0 /\ i + 1 \in Waiting(n)
                                   /\ batch'[i] = batch[i + 1]
         /\ \A i \in Waiting(n) : i \in Nat /\ i > 0 /\ (i # 1 => i - 1 \in Waiting(n)')
         /\ 1 \in Waiting(n) <=> Head(batch).node = n
<1>1. /\ Head(batch) = batch[1] /\ Len(batch) \in Nat /\ Len(batch) > 0
      /\ DOMAIN batch = 1 .. Len(batch) /\ DOMAIN batch' = 1 .. Len(batch) - 1
      /\ \A i \in 1 .. Len(batch) - 1 : batch'[i] = batch[i + 1]
  BY BatchHeadFacts
<1>2. ASSUME NEW i \in Waiting(n)'
      PROVE  i \in Nat /\ i > 0 /\ i + 1 \in Waiting(n) /\ batch'[i] = batch[i + 1]
  <2>1. i \in 1 .. Len(batch) - 1 /\ batch'[i].node = n
    BY <1>1, <1>2 DEF Waiting
  <2>2. batch'[i] = batch[i + 1] /\ i + 1 \in 1 .. Len(batch)
    BY <1>1, <2>1
  <2> QED
    BY <1>1, <2>1, <2>2 DEF Waiting
<1>3. ASSUME NEW i \in Waiting(n)
      PROVE  i \in Nat /\ i > 0 /\ (i # 1 => i - 1 \in Waiting(n)')
  <2>1. i \in 1 .. Len(batch) /\ batch[i].node = n
    BY <1>1 DEF Waiting
  <2>2. i # 1 => i - 1 \in 1 .. Len(batch) - 1 /\ batch'[i - 1] = batch[i]
    <3>1. i # 1 => i - 1 \in 1 .. Len(batch) - 1 /\ (i - 1) + 1 = i
      BY <1>1, <2>1
    <3> QED
      BY <1>1, <3>1
  <2> QED
    BY <1>1, <2>1, <2>2 DEF Waiting
<1> QED
  BY <1>1, <1>2, <1>3 DEF Waiting

(* The head of the batch is the first packet of its node that has not gone *)
(* yet.                                                                    *)
LEMMA HeadIsNext ==
  ASSUME Types, batch # <<>>, NEW gone, InBatch(Head(batch).node, gone)
  PROVE  LET n == Head(batch).node
         IN  /\ gone + 1 \in 1 .. Len(played[n])
             /\ played[n][gone + 1] = Head(batch).packet
             /\ \A place : Places(n, gone, place) => place[1] = gone + 1
<1> DEFINE n == Head(batch).node
<1>1. /\ n \in Nodes /\ Head(batch) = batch[1] /\ 1 \in Waiting(n)
      /\ Len(played[n]) \in Nat /\ gone \in 0 .. Len(played[n])
      /\ \A i \in Waiting(n) : i # 1 => 1 < i
  <2>1. n \in Nodes /\ Head(batch) = batch[1] /\ Len(batch) > 0 /\ Len(batch) \in Nat
        /\ DOMAIN batch = 1 .. Len(batch)
    BY BatchHeadFacts
  <2>2. Len(played[n]) \in Nat /\ Waiting(n) \subseteq DOMAIN batch
    BY <2>1, HistoryTypes
  <2> QED
    BY <2>1, <2>2 DEF Waiting, InBatch
<1> HIDE DEF n
<1>2. ASSUME NEW place, Places(n, gone, place)
      PROVE  place[1] = gone + 1 /\ gone + 1 \in Rest(n, gone)
  <2>1. /\ place \in [Waiting(n) -> Rest(n, gone)]
        /\ \A i, j \in Waiting(n) : i < j => place[i] < place[j]
        /\ \A k \in Rest(n, gone) : \E i \in Waiting(n) : place[i] = k
    BY <1>2 DEF Places
  <2>2. Rest(n, gone) = gone + 1 .. Len(played[n])
    BY DEF Rest
  <2>3. place[1] \in Rest(n, gone)
    BY <1>1, <2>1
  <2>4. gone + 1 \in Rest(n, gone) /\ gone + 1 <= place[1] /\ place[1] \in Nat
    BY <1>1, <2>2, <2>3
  <2>5. PICK i \in Waiting(n) : place[i] = gone + 1
    BY <2>1, <2>4
  <2>6. i # 1 => place[1] < gone + 1
    BY <1>1, <2>1, <2>5
  <2>7. ~(place[1] < gone + 1)
    BY <1>1, <2>4
  <2> QED
    BY <2>4, <2>5, <2>6, <2>7
<1>3. PICK place : Places(n, gone, place)
  BY DEF InBatch, n
<1>4. played[n][gone + 1] = Head(batch).packet
  BY <1>1, <1>2, <1>3 DEF Places
<1>5. gone + 1 \in 1 .. Len(played[n])
  BY <1>1, <1>2, <1>3 DEF Rest
<1> QED
  BY <1>2, <1>4, <1>5 DEF n

(* When the head has been handed on one more packet of its node is gone.   *)
LEMMA ForwardInBatch ==
  ASSUME Types, batch # <<>>, batch' = Tail(batch), played' = played,
         NEW n \in Nodes, NEW gone, InBatch(n, gone)
  PROVE  /\ Head(batch).node # n => InBatch(n, gone)'
         /\ Head(batch).node = n => InBatch(n, gone + 1)'
<1> DEFINE item == Head(batch)
<1>1. /\ Len(played[n]) \in Nat /\ gone \in 0 .. Len(played[n])
  BY HistoryTypes DEF InBatch
<1>2. /\ \A i \in Waiting(n)' : /\ i \in Nat /\ i > 0 /\ i + 1 \in Waiting(n)
                                /\ batch'[i] = batch[i + 1]
      /\ \A i \in Waiting(n) : i \in Nat /\ i > 0 /\ (i # 1 => i - 1 \in Waiting(n)')
      /\ 1 \in Waiting(n) <=> item.node = n
  BY WaitingMovesUp
<1>3. PICK place : Places(n, gone, place)
  BY DEF InBatch
<1>4. /\ place \in [Waiting(n) -> Rest(n, gone)]
      /\ \A i, j \in Waiting(n) : i < j => place[i] < place[j]
      /\ \A k \in Rest(n, gone) : \E i \in Waiting(n) : place[i] = k
      /\ \A i \in Waiting(n) : played[n][place[i]] = batch[i].packet
  BY <1>3 DEF Places
<1>5. item.node = n => gone + 1 \in 1 .. Len(played[n]) /\ place[1] = gone + 1
  BY <1>3, HeadIsNext
<1> HIDE DEF item
<1>6. PICK q : q = [i \in Waiting(n)' |-> place[i + 1]]
  OBVIOUS
<1>7. \A i \in Waiting(n)' : q[i] = place[i + 1] /\ place[i + 1] \in Rest(n, gone)
  BY <1>2, <1>4, <1>6
<1>8. \A i, j \in Waiting(n)' : i < j => q[i] < q[j]
  <2> SUFFICES ASSUME NEW i \in Waiting(n)', NEW j \in Waiting(n)', i < j
               PROVE  q[i] < q[j]
    OBVIOUS
  <2>1. i + 1 < j + 1 /\ i + 1 \in Waiting(n) /\ j + 1 \in Waiting(n)
    BY <1>2
  <2> QED
    BY <1>4, <1>7, <2>1
<1>9. \A i \in Waiting(n)' : played'[n][q[i]] = batch'[i].packet
  <2> SUFFICES ASSUME NEW i \in Waiting(n)' PROVE played[n][q[i]] = batch'[i].packet
    OBVIOUS
  <2>1. i + 1 \in Waiting(n) /\ batch'[i] = batch[i + 1] /\ q[i] = place[i + 1]
    BY <1>2, <1>7
  <2> QED
    BY <1>4, <2>1
<1>10. \A i \in Waiting(n) : i # 1 => (i - 1) + 1 = i
  BY <1>2
<1>11. CASE item.node # n
  <2>1. Rest(n, gone)' = Rest(n, gone)
    BY DEF Rest
  <2>2. q \in [Waiting(n)' -> Rest(n, gone)']
    BY <1>6, <1>7, <2>1
  <2>3. \A k \in Rest(n, gone)' : \E i \in Waiting(n)' : q[i] = k
    <3> SUFFICES ASSUME NEW k \in Rest(n, gone) PROVE \E i \in Waiting(n)' : q[i] = k
      BY <2>1
    <3>1. PICK i \in Waiting(n) : place[i] = k
      BY <1>4
    <3>2. i - 1 \in Waiting(n)' /\ (i - 1) + 1 = i
      BY <1>2, <1>10, <1>11
    <3> QED
      BY <1>7, <3>1, <3>2
  <2>4. Places(n, gone, q)'
    BY <1>8, <1>9, <2>2, <2>3 DEF Places
  <2> QED
    BY <1>1, <1>11, <2>4 DEF InBatch, item
<1>12. CASE item.node = n
  <2>0. PICK g : g = gone + 1
    OBVIOUS
  <2>1. /\ Rest(n, gone) = gone + 1 .. Len(played[n]) /\ 1 \in Waiting(n)
        /\ Rest(n, g)' = gone + 2 .. Len(played[n])
        /\ g \in 0 .. Len(played[n])
    BY <1>1, <1>2, <1>5, <1>12, <2>0 DEF Rest
  <2>2. q \in [Waiting(n)' -> Rest(n, g)']
    <3> SUFFICES ASSUME NEW i \in Waiting(n)' PROVE place[i + 1] \in Rest(n, g)'
      BY <1>6
    <3>1. 1 < i + 1 /\ i + 1 \in Waiting(n)
      BY <1>2
    <3>2. gone + 1 < place[i + 1] /\ place[i + 1] \in gone + 1 .. Len(played[n])
      BY <1>4, <1>5, <1>12, <2>1, <3>1
    <3> QED
      BY <1>1, <2>1, <3>2
  <2>3. \A k \in Rest(n, g)' : \E i \in Waiting(n)' : q[i] = k
    <3> SUFFICES ASSUME NEW k \in Rest(n, g)' PROVE \E i \in Waiting(n)' : q[i] = k
      OBVIOUS
    <3>1. k \in Rest(n, gone) /\ k # gone + 1
      BY <1>1, <2>1
    <3>2. PICK i \in Waiting(n) : place[i] = k
      BY <1>4, <3>1
    <3>3. i - 1 \in Waiting(n)' /\ (i - 1) + 1 = i
      BY <1>2, <1>5, <1>10, <1>12, <3>1, <3>2
    <3> QED
      BY <1>7, <3>2, <3>3
  <2>4. Places(n, g, q)'
    BY <1>8, <1>9, <2>2, <2>3 DEF Places
  <2>5. InBatch(n, g)'
    BY <2>1, <2>4 DEF InBatch
  <2>6. InBatch(n, gone + 1)'
    BY ONLY <2>0, <2>5 DEF InBatch, Places, Rest
  <2> QED
    BY <1>12, <2>6 DEF item
<1> QED
  BY <1>11, <1>12 DEF item

-----------------------------------------------------------------------------
(* What was forwarded is what has gone, until the socket is closed.        *)

IsPrefix(n) ==
  /\ Len(forwarded[n]) <= Len(played[n])
  /\ \A k \in 1 .. Len(forwarded[n]) : forwarded[n][k] = played[n][k]

IsInOrder(n) == IsPrefix(n) /\ (forwardOpen => InBatch(n, Len(forwarded[n])))

LEMMA InOrderIsTheProperty == (\A n \in Nodes : IsInOrder(n)) => ForwardsWhatWasPlayed
BY DEF ForwardsWhatWasPlayed, IsInOrder, IsPrefix, InBatch, Rest, Places

LEMMA DrainPopInOrder ==
  ASSUME Basic, DrainPop, NEW n \in Nodes, IsInOrder(n)
  PROVE  IsInOrder(n)'
<1>0. PICK sent : sent = Len(forwarded[n])
  OBVIOUS
<1>1. UNCHANGED <<forwarded, forwardOpen>> /\ Types
  BY DEF DrainPop, JbUnchanged, sockets, Basic
<1>2. forwardOpen => InBatch(n, sent)'
  BY <1>0, DrainPopInBatch DEF IsInOrder
<1>3. PICK m \in undrained :
        LET j == jitter_buffers[m]
        IN  /\ jbPc = "drain" /\ m \in Nodes /\ m \in DOMAIN jitter_buffers
            /\ j \in Buffers /\ CanPop(j) /\ Popped(j) \in Packets
            /\ batch' = Append(batch, [node |-> m, packet |-> Popped(j)])
            /\ played' = [played EXCEPT ![m] = Append(@, Popped(j))]
            /\ jitter_buffers' = [jitter_buffers EXCEPT ![m] = AfterPop(j)]
  BY DrainPopEffect
<1>4. PICK x : x \in Packets /\ played' = [played EXCEPT ![m] = Append(@, x)]
  BY <1>3
<1>5. /\ played[n] \in Seq(Packets) /\ Len(played[n]) \in Nat /\ sent \in Nat
      /\ played \in [Nodes -> Seq(Packets)]
  BY <1>0, <1>1, HistoryTypes DEF Types
<1>6. played'[n] = played[n] \/ played'[n] = Append(played[n], x)
  BY <1>4, <1>5
<1>7. /\ Len(played[n]) <= Len(played'[n]) /\ Len(played'[n]) \in Nat
      /\ \A k \in 1 .. Len(played[n]) : played'[n][k] = played[n][k]
  BY <1>4, <1>5, <1>6, AppendProperties
<1>8. IsPrefix(n)'
  BY <1>0, <1>1, <1>5, <1>7 DEF IsInOrder, IsPrefix
<1> QED
  BY <1>0, <1>1, <1>2, <1>8 DEF IsInOrder, InBatch, Places, Rest

(* The head is sent: it is the node's first packet not sent before.        *)
LEMMA ForwardInOrder ==
  ASSUME Basic, Forward, NEW n \in Nodes, IsInOrder(n)
  PROVE  IsInOrder(n)'
<1> DEFINE item == Head(batch)
<1>0. PICK sent : sent = Len(forwarded[n])
  OBVIOUS
<1>1. /\ batch # <<>> /\ batch' = Tail(batch) /\ Types
      /\ UNCHANGED <<played, forwardOpen>>
      /\ forwarded' = IF forwardOpen
                      THEN [forwarded EXCEPT ![item.node] = Append(@, item.packet)]
                      ELSE forwarded
  BY DEF Forward, SendSucceeds, RestOfBatch, JbUnchanged, sockets, Basic, BatchInHand
<1>2. /\ forwarded[n] \in Seq(Packets) /\ sent \in Nat /\ Len(played[n]) \in Nat
      /\ item.node \in Nodes /\ item.packet \in Packets
  BY <1>0, <1>1, HistoryTypes, BatchHeadFacts
<1>3. CASE ~forwardOpen
  BY <1>1, <1>3 DEF IsInOrder, IsPrefix
<1>4. CASE forwardOpen
  <2>0. InBatch(n, sent)
    BY <1>0, <1>4 DEF IsInOrder
  <2>1. CASE item.node # n
    <3>1. forwarded'[n] = forwarded[n]
      BY <1>1, <1>2, <1>4, <2>1 DEF Types
    <3>2. InBatch(n, sent)'
      BY <1>1, <2>0, <2>1, ForwardInBatch
    <3>3. IsPrefix(n)'
      BY <1>1, <3>1 DEF IsInOrder, IsPrefix
    <3> QED
      BY <1>0, <3>1, <3>2, <3>3 DEF IsInOrder, InBatch, Places, Rest
  <2>2. CASE item.node = n
    <3>0. PICK g : g = sent + 1
      OBVIOUS
    <3>1. g \in 1 .. Len(played[n]) /\ played[n][g] = item.packet
      BY <1>1, <2>0, <2>2, <3>0, HeadIsNext
    <3>2. /\ Len(forwarded'[n]) = g
          /\ \A k \in 1 .. sent : forwarded'[n][k] = forwarded[n][k]
          /\ forwarded'[n][g] = item.packet
      <4>1. forwarded'[n] = Append(forwarded[n], item.packet)
        BY <1>1, <1>4, <2>2 DEF Types
      <4> QED
        BY <1>0, <1>2, <3>0, <4>1, AppendProperties
    <3>3. IsPrefix(n)'
      <4>1. \A k \in 1 .. g : k \in 1 .. sent \/ k = g
        BY <1>2, <3>0
      <4> QED
        BY <1>0, <1>1, <1>2, <3>1, <3>2, <4>1 DEF IsInOrder, IsPrefix
    <3>4. InBatch(n, g)'
      <4>1. InBatch(n, sent + 1)'
        BY <1>1, <2>0, <2>2, ForwardInBatch
      <4> QED
        BY <3>0, <4>1
    <3> QED
      BY <3>2, <3>3, <3>4 DEF IsInOrder, InBatch, Places, Rest
  <2> QED
    BY <2>1, <2>2
<1> QED
  BY <1>3, <1>4

(* The other steps change neither batch nor histories.                     *)
LEMMA OtherSteps ==
  ASSUME [Next]_vars, ~DrainPop, ~Forward
  PROVE  UNCHANGED <<batch, backend, played, forwarded>> /\ (forwardOpen' => forwardOpen)
<1>1. CASE \E m \in Nodes : \E p \in inflight[m] : RecvFrom(m, p)
  BY <1>1 DEF RecvFrom, sockets, history
<1>2. CASE CallRecvFrom \/ RecvError \/ PushPacket
  BY <1>2 DEF CallRecvFrom, RecvError, PushPacket, sockets, history
<1>3. CASE WakeAndLock \/ DrainNext \/ Unlock \/ Process \/ BatchDone
  BY <1>3 DEF WakeAndLock, DrainNext, Unlock, Process, BatchDone, JbUnchanged, sockets, history
<1>4. CASE MainStep
  BY <1>4 DEF MainStep, Report, StopRunning, StopStep, CloseSocket, CloseForward,
     JoinRecv, JoinJb, MainUnchanged, sockets, history
<1>5. CASE UNCHANGED vars
  BY <1>5 DEF vars, sockets, history
<1> QED
  BY <1>1, <1>2, <1>3, <1>4, <1>5, NextCases

LEMMA NextInOrder ==
  ASSUME Basic, [Next]_vars, NEW n \in Nodes, IsInOrder(n)
  PROVE  IsInOrder(n)'
<1>1. CASE ~DrainPop /\ ~Forward
  <2>0. PICK sent : sent = Len(forwarded[n])
    OBVIOUS
  <2>1. UNCHANGED <<batch, played, forwarded>> /\ (forwardOpen' => forwardOpen)
    BY <1>1, OtherSteps
  <2>2. forwardOpen => InBatch(n, sent)'
    BY <2>0, <2>1, InBatchUnchanged DEF IsInOrder
  <2> QED
    BY <2>0, <2>1, <2>2 DEF IsInOrder, IsPrefix, InBatch, Places, Rest
<1> QED
  BY <1>1, DrainPopInOrder, ForwardInOrder

LEMMA InitInBatch ==
  ASSUME Init, NEW n \in Nodes
  PROVE  InBatch(n, 0)
<1>1. played[n] = <<>> /\ Waiting(n) = {}
  BY DEF Init, Waiting
<1>2. Rest(n, 0) = {} /\ Len(played[n]) = 0
  BY <1>1 DEF Rest
<1>3. PICK place : place = [i \in {} |-> i]
  OBVIOUS
<1>4. Places(n, 0, place)
  BY <1>1, <1>2, <1>3 DEF Places
<1> QED
  BY <1>2, <1>4 DEF InBatch

LEMMA InOrderInvariance == Spec => [](\A n \in Nodes : IsInOrder(n))
<1> DEFINE InOrder == \A n \in Nodes : IsInOrder(n)
<1>1. Init => InOrder
  <2> SUFFICES ASSUME Init, NEW n \in Nodes PROVE IsInOrder(n)
    OBVIOUS
  <2>1. played[n] = <<>> /\ forwarded[n] = <<>>
    BY DEF Init
  <2>2. Len(forwarded[n]) = 0 /\ IsPrefix(n)
    BY <2>1 DEF IsPrefix
  <2> QED
    BY <2>2, InitInBatch DEF IsInOrder
<1>2. Basic /\ InOrder /\ [Next]_vars => InOrder'
  BY NextInOrder
<1> HIDE DEF InOrder
<1>3. Spec => []InOrder
  BY <1>1, <1>2, BasicInvariance, PTL DEF Spec
<1> QED
  BY <1>3 DEF InOrder

(* What is popped goes to the backend complete, in order and once, until   *)
(* the forwarding socket is closed, and nothing else ever does.            *)
THEOREM ForwardsInOrder == Spec => []ForwardsWhatWasPlayed
BY InOrderInvariance, InOrderIsTheProperty, PTL

-----------------------------------------------------------------------------
(* Counting.  Of a node's packets, Gone(n) have left the batch, and one    *)
(* more has been counted while it is about to be sent.                     *)

Gone(n) == Len(played[n]) - Cardinality(Waiting(n))

AtHead(n) == jbPc = "forward" /\ Head(batch).node = n

Handled(n) == Gone(n) + One(AtHead(n))

(* Rising places that fill what is left are as many as what is left.       *)
LEMMA PlacesCount ==
  ASSUME NEW len \in Nat, NEW count \in Nat, NEW gone \in 0 .. len,
         NEW W \in SUBSET (1 .. count), NEW place \in [W -> gone + 1 .. len],
         \A i, j \in W : i < j => place[i] < place[j],
         \A k \in gone + 1 .. len : \E i \in W : place[i] = k
  PROVE  IsFiniteSet(W) /\ Cardinality(W) = len - gone
<1>1. \A i, j \in W : place[i] = place[j] => i = j
  <2> SUFFICES ASSUME NEW i \in W, NEW j \in W, place[i] = place[j], i # j
               PROVE  FALSE
    OBVIOUS
  <2>1. i < j \/ j < i
    OBVIOUS
  <2>2. place[i] \in Nat /\ place[j] \in Nat
    OBVIOUS
  <2> QED
    BY <2>1, <2>2
<1>2. ExistsBijection(W, gone + 1 .. len)
  <2>1. place \in Bijection(W, gone + 1 .. len)
    BY <1>1, Fun_IsBij
  <2> QED
    BY <2>1 DEF ExistsBijection
<1>3. IsFiniteSet(gone + 1 .. len) /\ Cardinality(gone + 1 .. len) = len - gone
  <2>1. PICK low : low = gone + 1
    OBVIOUS
  <2>2. low \in Int /\ len \in Int
    BY <2>1
  <2>3. /\ IsFiniteSet(low .. len)
        /\ Cardinality(low .. len) = IF low > len THEN 0 ELSE len - low + 1
    BY <2>2, FS_Interval
  <2>4. (IF low > len THEN 0 ELSE len - low + 1) = len - gone
    BY <2>1
  <2> QED
    BY <2>1, <2>3, <2>4
<1>4. IsFiniteSet(W)
  <2>1. IsFiniteSet(1 .. count)
    BY FS_Interval
  <2> QED
    BY <2>1, FS_Subset
<1> QED
  BY <1>2, <1>3, <1>4, FS_Bijection

LEMMA GoneIsUnique ==
  ASSUME Types, NEW n \in Nodes, NEW gone, InBatch(n, gone)
  PROVE  /\ Cardinality(Waiting(n)) = Len(played[n]) - gone
         /\ gone = Gone(n) /\ gone \in 0 .. Len(played[n])
<1>1. PICK len, count : len = Len(played[n]) /\ count = Len(batch)
  OBVIOUS
<1>2. /\ len \in Nat /\ gone \in 0 .. len /\ count \in Nat /\ Waiting(n) \in SUBSET (1 .. count)
  BY <1>1, HistoryTypes DEF InBatch
<1>3. PICK place : Places(n, gone, place)
  BY DEF InBatch
<1>4. Cardinality(Waiting(n)) = len - gone
  <2>1. /\ place \in [Waiting(n) -> gone + 1 .. len]
        /\ \A i, j \in Waiting(n) : i < j => place[i] < place[j]
        /\ \A k \in gone + 1 .. len : \E i \in Waiting(n) : place[i] = k
    BY <1>1, <1>3 DEF Places, Rest
  <2> QED
    BY ONLY <1>2, <2>1, PlacesCount
<1> QED
  BY <1>1, <1>2, <1>4 DEF Gone

(* The same of the state a step leads to.                                  *)
LEMMA GoneAfterwards ==
  ASSUME Types', NEW n \in Nodes, NEW gone, InBatch(n, gone)'
  PROVE  Gone(n)' = gone /\ InBatch(n, Gone(n))'
<1>1. PICK len, count : len = Len(played'[n]) /\ count = Len(batch')
  OBVIOUS
<1>2. /\ played'[n] \in Seq(Packets) /\ batch' \in Seq(BatchItems)
      /\ Waiting(n)' \subseteq DOMAIN batch' /\ gone \in 0 .. Len(played'[n])
  BY DEF Types, Waiting, InBatch
<1>3. /\ len \in Nat /\ gone \in 0 .. len /\ count \in Nat
      /\ Waiting(n)' \in SUBSET (1 .. count)
  BY <1>1, <1>2
<1>4. PICK place : Places(n, gone, place)'
  BY DEF InBatch
<1>5. Cardinality(Waiting(n)') = len - gone
  <2>1. PICK W : W = Waiting(n)'
    OBVIOUS
  <2>2. /\ place \in [W -> gone + 1 .. len]
        /\ \A i, j \in W : i < j => place[i] < place[j]
        /\ \A k \in gone + 1 .. len : \E i \in W : place[i] = k
    BY <1>1, <1>4, <2>1 DEF Places, Rest
  <2>3. W \in SUBSET (1 .. count)
    BY <1>3, <2>1
  <2>4. Cardinality(W) = len - gone
    BY ONLY <1>3, <2>2, <2>3, PlacesCount
  <2> QED
    BY <2>1, <2>4
<1>6. Gone(n)' = gone
  BY <1>1, <1>3, <1>5 DEF Gone
<1> QED
  BY <1>6 DEF InBatch, Places, Rest

(* A node has no more packets counted than played.                         *)
LEMMA HandledFacts ==
  ASSUME Basic, NEW n \in Nodes, InBatch(n, Gone(n))
  PROVE  /\ Gone(n) \in Nat /\ Gone(n) <= Len(played[n])
         /\ Handled(n) \in Nat /\ Handled(n) <= Len(played[n])
         /\ AtHead(n) => /\ Handled(n) = Gone(n) + 1
                         /\ played[n][Gone(n) + 1] = Head(batch).packet
         /\ ~AtHead(n) => Handled(n) = Gone(n)
<1>1. PICK g, len : g = Gone(n) /\ len = Len(played[n])
  OBVIOUS
<1>2. g \in 0 .. len /\ len \in Nat
  BY <1>1, HistoryTypes, GoneIsUnique DEF Basic
<1>3. AtHead(n) => g + 1 \in 1 .. len /\ played[n][g + 1] = Head(batch).packet
  <2>1. AtHead(n) => batch # <<>> /\ Head(batch).node = n /\ Types
    BY DEF AtHead, Basic, BatchInHand
  <2> QED
    BY <1>1, <2>1, HeadIsNext
<1> QED
  BY <1>1, <1>2, <1>3 DEF Handled, One

(* What was processed is the beginning of what was played.                 *)
LEMMA ProcessedFacts ==
  ASSUME Basic, NEW n \in Nodes, InBatch(n, Gone(n))
  PROVE  /\ Processed(n) \in Seq(Packets)
         /\ Len(Processed(n)) = Handled(n)
         /\ DOMAIN Processed(n) = 1 .. Handled(n)
         /\ \A i \in 1 .. Handled(n) : Processed(n)[i] = played[n][i]
<1>1. PICK g : g = Gone(n)
  OBVIOUS
<1>2. PICK k : k = Handled(n)
  OBVIOUS
<1>3. /\ Cardinality(Waiting(n)) = Len(played[n]) - g /\ g \in 0 .. Len(played[n])
      /\ Len(played[n]) \in Nat /\ played[n] \in Seq(Packets)
  BY <1>1, GoneIsUnique, HistoryTypes DEF Basic
<1>4. /\ k = g + IF AtHead(n) THEN 1 ELSE 0
      /\ k \in Nat /\ k <= Len(played[n])
  BY <1>1, <1>2, HandledFacts DEF Handled, One
<1>5. Processed(n) = SubSeq(played[n], 1, k)
  <2>1. PICK w, x : /\ w = Cardinality(Waiting(n))
                    /\ x = IF jbPc = "forward" /\ Head(batch).node = n THEN 1 ELSE 0
    OBVIOUS
  <2>2. Len(played[n]) - (w - x) = k
    <3>1. PICK len : len = Len(played[n])
      OBVIOUS
    <3>2. w = len - g /\ len \in Nat /\ g \in Int /\ k = g + x /\ x \in Nat
      BY <1>3, <1>4, <2>1, <3>1 DEF AtHead
    <3>3. len - (w - x) = k
      BY ONLY <3>2
    <3> QED
      BY <3>1, <3>3
  <2>3. Processed(n) = SubSeq(played[n], 1, Len(played[n]) - (w - x))
    BY <2>1 DEF Processed
  <2> QED
    BY <2>2, <2>3
<1>6. \A i \in 1 .. k : played[n][i] \in Packets
  BY <1>3, <1>4
<1>7. /\ SubSeq(played[n], 1, k) \in Seq(Packets)
      /\ Len(SubSeq(played[n], 1, k)) = IF 1 <= k THEN k - 1 + 1 ELSE 0
      /\ \A i \in 1 .. k - 1 + 1 : SubSeq(played[n], 1, k)[i] = played[n][1 + i - 1]
  BY <1>4, <1>6, SubSeqProperties
<1>8. Len(Processed(n)) = k /\ Processed(n) \in Seq(Packets)
  BY <1>4, <1>5, <1>7
<1>9. \A i \in 1 .. k : Processed(n)[i] = played[n][i]
  <2> SUFFICES ASSUME NEW i \in 1 .. k PROVE Processed(n)[i] = played[n][i]
    OBVIOUS
  <2>1. i \in 1 .. k - 1 + 1 /\ 1 + i - 1 = i
    BY <1>4
  <2> QED
    BY <1>5, <1>7, <2>1
<1> QED
  BY <1>2, <1>4, <1>8, <1>9

(* NodeManager's record of a node after the first k packets of the node's  *)
(* stream q.                                                               *)
NodeStats ==
  [last_seq_id : Int, packets_lost : Nat, packets_received : Nat,
   packets_since_last_check : Nat]

SeqsTo(q, k) == {q[i].seq : i \in 1 .. k}

Skipped(q, k) == {s \in q[1].seq .. Max(SeqsTo(q, k)) : s \notin SeqsTo(q, k)}

Accounts(q, k, stats) ==
  /\ k \in 1 .. Len(q)
  /\ stats \in NodeStats
  /\ stats.last_seq_id = q[k].seq
  /\ stats.packets_received = k
  /\ stats.packets_since_last_check <= k
  /\ IsFiniteSet(Skipped(q, k)) /\ Cardinality(Skipped(q, k)) <= stats.packets_lost

(* The greatest sequence number.                                           *)
LEMMA GreatestSeq ==
  ASSUME NEW q \in Seq(Packets), NEW k \in 1 .. Len(q)
  PROVE  /\ SeqsTo(q, k) \subseteq Nat
         /\ Max(SeqsTo(q, k)) \in SeqsTo(q, k)
         /\ \A s \in SeqsTo(q, k) : s <= Max(SeqsTo(q, k))
<1>1. Len(q) \in Nat /\ \A i \in 1 .. k : q[i] \in Packets
  OBVIOUS
<1>2. SeqsTo(q, k) \in SUBSET Seqs
  BY <1>1 DEF SeqsTo, Packets
<1>3. Seqs \subseteq Nat /\ \A s \in Seqs, t \in Seqs : s <= t => t >= s
  BY JitterBufferAssumption DEF Seqs
<1>4. SeqsTo(q, k) # {}
  <2>1. 1 \in 1 .. k
    BY <1>1
  <2> QED
    BY <2>1 DEF SeqsTo
<1>5. /\ Single!Max(SeqsTo(q, k)) \in SeqsTo(q, k)
      /\ \A s \in SeqsTo(q, k) : s <= Single!Max(SeqsTo(q, k))
  BY <1>2, <1>4, SameTypes, Single!MaxIsGreatest, JitterBufferAssumption, SamePeriod
<1>6. Single!Max(SeqsTo(q, k)) = Max(SeqsTo(q, k))
  BY DEF Max, Single!Max
<1> QED
  BY <1>2, <1>3, <1>5, <1>6

LEMMA SameSeqs ==
  ASSUME NEW q, NEW r, NEW k, \A i \in 1 .. k : r[i] = q[i]
  PROVE  SeqsTo(r, k) = SeqsTo(q, k)
BY DEF SeqsTo

(* More packets behind the k first ones change nothing.                    *)
LEMMA AccountsOfLonger ==
  ASSUME NEW q, NEW r, NEW k, NEW stats, Accounts(q, k, stats),
         Len(q) \in Nat, Len(r) \in Nat, Len(q) <= Len(r),
         \A i \in 1 .. Len(q) : r[i] = q[i]
  PROVE  Accounts(r, k, stats)
<1>1. k \in 1 .. Len(q) /\ k \in 1 .. Len(r) /\ \A i \in 1 .. k : r[i] = q[i]
  BY DEF Accounts
<1>2. SeqsTo(r, k) = SeqsTo(q, k)
  BY <1>1, SameSeqs
<1>3. r[1] = q[1] /\ r[k] = q[k]
  BY <1>1
<1>4. Skipped(r, k) = Skipped(q, k)
  BY <1>2, <1>3 DEF Skipped
<1> QED
  BY <1>1, <1>3, <1>4 DEF Accounts

(* The record after a node's next packet.                                  *)
Counted(stats, seq) ==
  [last_seq_id              |-> seq,
   packets_lost             |-> stats.packets_lost + NM!NewlyLost(stats.last_seq_id, seq),
   packets_received         |-> stats.packets_received + 1,
   packets_since_last_check |-> stats.packets_since_last_check + 1]

(* A jump ahead is lost in full, and a number that follows is never a jump. *)
LEMMA NewlyLostFacts ==
  ASSUME NEW last \in Seqs, NEW seq \in Seqs
  PROVE  /\ NM!NewlyLost(last, seq) \in Nat
         /\ seq > last => NM!NewlyLost(last, seq) = seq - last - 1
         /\ NM!NewlyLost(last, seq) = Backend!NewLosses(last, seq)
<1>1. SeqMod \in Nat \ {0, 1} /\ last \in 0 .. SeqMod - 1 /\ seq \in 0 .. SeqMod - 1
  BY JitterBufferAssumption DEF Seqs
<1>2. CASE last = SeqMod - 1
  BY <1>1, <1>2 DEF NM!NewlyLost, Backend!NewLosses
<1>3. CASE last < SeqMod - 1
  <2>1. (last + 1) % SeqMod = last + 1
    BY <1>1, <1>3
  <2> QED
    BY <1>1, <1>3, <2>1 DEF NM!NewlyLost, Backend!NewLosses
<1> QED
  BY <1>1, <1>2, <1>3

LEMMA CountedIsNodeStats ==
  ASSUME NEW stats \in NodeStats, stats.last_seq_id \in Seqs, NEW seq \in Seqs
  PROVE  Counted(stats, seq) \in NodeStats
<1>1. NM!NewlyLost(stats.last_seq_id, seq) \in Nat
  BY NewlyLostFacts
<1>2. seq \in Int
  BY JitterBufferAssumption DEF Seqs
<1> QED
  BY <1>1, <1>2 DEF Counted, NodeStats

(* The first packet: nothing is skipped.                                   *)
LEMMA FirstAccounts ==
  ASSUME NEW q \in Seq(Packets), 1 \in 1 .. Len(q)
  PROVE  /\ Accounts(q, 1, Counted(NM!Discovered(q[1].seq), q[1].seq))
         /\ Counted(NM!Discovered(q[1].seq), q[1].seq).packets_lost = 0
         /\ Counted(NM!Discovered(q[1].seq), q[1].seq).packets_since_last_check = 1
<1> DEFINE s == q[1].seq
           first == NM!Discovered(s)
<1>1. q[1] \in Packets /\ s \in Seqs
  <2>1. q[1] \in Packets
    OBVIOUS
  <2> QED
    BY <2>1 DEF Packets
<1>2. s \in Nat /\ SeqMod \in Nat \ {0, 1} /\ s < SeqMod
  BY <1>1, JitterBufferAssumption DEF Seqs
<1>3. /\ first.last_seq_id = (s - 1) % SeqMod /\ first.packets_lost = 0
      /\ first.packets_received = 0 /\ first.packets_since_last_check = 0
  BY DEF NM!Discovered
<1>4. NM!NewlyLost((s - 1) % SeqMod, s) = 0
  <2>1. CASE s = 0
    <3>1. (s - 1) % SeqMod = SeqMod - 1
      BY <1>2, <2>1
    <3> QED
      BY <1>2, <2>1, <3>1 DEF NM!NewlyLost
  <2>2. CASE s > 0
    <3>1. PICK t : t = s
      OBVIOUS
    <3>2. t \in Nat /\ t > 0 /\ t < SeqMod /\ SeqMod \in Nat \ {0, 1}
      BY <1>2, <2>2, <3>1
    <3>3. (t - 1) % SeqMod = t - 1 /\ t % SeqMod = t /\ (t - 1) + 1 = t
      BY ONLY <3>2
    <3> QED
      BY <3>1, <3>3 DEF NM!NewlyLost
  <2> QED
    BY <1>2, <2>1, <2>2
<1> HIDE DEF first
<1>5. Counted(first, s) = [last_seq_id |-> s, packets_lost |-> 0, packets_received |-> 1,
                           packets_since_last_check |-> 1]
  BY <1>3, <1>4 DEF Counted
<1>6. SeqsTo(q, 1) = {s}
  BY DEF SeqsTo
<1>7. Max(SeqsTo(q, 1)) = s
  BY <1>6, GreatestSeq
<1>8. Skipped(q, 1) = {}
  BY <1>2, <1>6, <1>7 DEF Skipped
<1>9. IsFiniteSet(Skipped(q, 1)) /\ Cardinality(Skipped(q, 1)) = 0
  BY <1>8, FS_EmptySet
<1> HIDE DEF s
<1>10. Accounts(q, 1, Counted(first, s))
  BY <1>2, <1>5, <1>9 DEF Accounts, NodeStats, s
<1> QED
  BY <1>5, <1>10 DEF s, first

(* The next packet: what it skips is counted, whatever was skipped before. *)
LEMMA NextAccounts ==
  ASSUME NEW q \in Seq(Packets), NEW k \in Nat, NEW stats, Accounts(q, k, stats),
         k + 1 \in 1 .. Len(q)
  PROVE  Accounts(q, k + 1, Counted(stats, q[k + 1].seq))
<1> DEFINE S == SeqsTo(q, k)
           T == SeqsTo(q, k + 1)
           hi == Max(S)
           seq == q[k + 1].seq
           last == q[k].seq
           lost == NM!NewlyLost(last, seq)
<1>1. /\ k \in 1 .. Len(q) /\ 1 \in 1 .. k /\ Len(q) \in Nat
      /\ \A i \in 1 .. k + 1 : q[i] \in Packets /\ (i \in 1 .. k \/ i = k + 1)
      /\ \A i \in 1 .. k : i \in 1 .. k + 1
  BY DEF Accounts
<1>2. last \in Seqs /\ seq \in Seqs /\ last \in Nat /\ seq \in Nat
  BY <1>1, JitterBufferAssumption DEF Packets, Seqs
<1>3. /\ stats \in NodeStats /\ stats.last_seq_id = last /\ stats.packets_received = k
      /\ stats.packets_since_last_check <= k
      /\ IsFiniteSet(Skipped(q, k)) /\ Cardinality(Skipped(q, k)) <= stats.packets_lost
  BY DEF Accounts
<1>4. T = S \cup {seq}
  BY <1>1 DEF SeqsTo
<1>5. S \subseteq Nat /\ hi \in S /\ (\A s \in S : s <= hi) /\ last \in S /\ q[1].seq \in S
  <2>1. S \subseteq Nat /\ hi \in S /\ (\A s \in S : s <= hi)
    BY <1>1, GreatestSeq
  <2>2. k \in 1 .. k
    BY <1>1
  <2> QED
    BY <1>1, <2>1, <2>2 DEF SeqsTo
<1>6. T \subseteq Nat /\ Max(T) \in T /\ (\A s \in T : s <= Max(T))
  BY <1>1, GreatestSeq
<1>7. lost \in Nat /\ (seq > last => lost = seq - last - 1)
  BY <1>2, NewlyLostFacts
<1>8. Skipped(q, k) = {s \in q[1].seq .. hi : s \notin S}
  BY DEF Skipped
<1>9. Skipped(q, k + 1) = {s \in q[1].seq .. Max(T) : s \notin T}
  BY DEF Skipped
<1> HIDE DEF S, T, hi, seq, last, lost
<1>10. /\ IsFiniteSet(Skipped(q, k + 1))
       /\ Cardinality(Skipped(q, k + 1)) <= stats.packets_lost + lost
  <2>1. CASE seq <= hi
    <3>1. Max(T) <= hi
      BY <1>4, <1>5, <1>6, <2>1
    <3>2. Skipped(q, k + 1) \in SUBSET Skipped(q, k)
      <4>1. PICK top, low : top = Max(T) /\ low = q[1].seq
        OBVIOUS
      <4>2. top \in Nat /\ low \in Nat /\ hi \in Nat /\ top <= hi
        BY <1>5, <1>6, <3>1, <4>1
      <4>3. \A s \in low .. top : s \in low .. hi
        BY <4>2
      <4> QED
        BY <1>4, <1>8, <1>9, <4>1, <4>3
    <3>3. /\ IsFiniteSet(Skipped(q, k + 1))
          /\ Cardinality(Skipped(q, k + 1)) <= Cardinality(Skipped(q, k))
      BY <1>3, <3>2, FS_Subset
    <3>4. Cardinality(Skipped(q, k + 1)) \in Nat /\ Cardinality(Skipped(q, k)) \in Nat
      BY <1>3, <3>3, FS_CardinalityType
    <3>5. PICK a, b, c : /\ a = Cardinality(Skipped(q, k + 1))
                         /\ b = Cardinality(Skipped(q, k)) /\ c = stats.packets_lost
      OBVIOUS
    <3>6. c \in Nat
      BY <1>3, <3>5 DEF NodeStats
    <3>7. a \in Nat /\ b \in Nat /\ a <= b /\ b <= c
      BY <1>3, <3>3, <3>4, <3>5
    <3>8. a <= c + lost
      BY <1>7, <3>6, <3>7
    <3> QED
      BY <3>3, <3>5, <3>8
  <2>2. CASE seq > hi
    <3> DEFINE gap == hi + 1 .. seq - 1
               both == Skipped(q, k) \cup gap
    <3>1. Max(T) = seq /\ hi \in Nat
      <4>1. PICK top : top = Max(T)
        OBVIOUS
      <4>2. top \in Nat /\ hi \in Nat /\ seq <= top /\ (top = seq \/ top <= hi)
        BY <1>4, <1>5, <1>6, <4>1
      <4>3. top = seq
        BY <1>2, <2>2, <4>2
      <4> QED
        BY <4>1, <4>2, <4>3
    <3>2. IsFiniteSet(gap) /\ Cardinality(gap) = seq - hi - 1
      <4>1. hi + 1 \in Int /\ seq - 1 \in Int
        BY <1>2, <3>1
      <4>2. IsFiniteSet(gap) /\ Cardinality(gap) = IF hi + 1 > seq - 1 THEN 0
                                                   ELSE (seq - 1) - (hi + 1) + 1
        BY <4>1, FS_Interval
      <4> QED
        BY <1>2, <2>2, <3>1, <4>2
    <3>3. Skipped(q, k + 1) \in SUBSET both
      <4> SUFFICES ASSUME NEW s \in Skipped(q, k + 1) PROVE s \in both
        OBVIOUS
      <4>1. s \in q[1].seq .. seq /\ s \notin S /\ s # seq /\ q[1].seq \in Nat
        BY <1>4, <1>5, <1>9, <3>1
      <4>2. PICK low : low = q[1].seq
        OBVIOUS
      <4>3. s \in low .. hi \/ s \in hi + 1 .. seq - 1
        BY <1>2, <3>1, <4>1, <4>2
      <4> QED
        BY <1>8, <4>1, <4>2, <4>3
    <3> HIDE DEF gap
    <3>4. /\ IsFiniteSet(both)
          /\ Cardinality(both) <= Cardinality(Skipped(q, k)) + Cardinality(gap)
      <4>1. /\ IsFiniteSet(both)
            /\ Cardinality(both) = Cardinality(Skipped(q, k)) + Cardinality(gap)
                                     - Cardinality(Skipped(q, k) \cap gap)
        BY <1>3, <3>2, FS_Union
      <4>2. Cardinality(Skipped(q, k) \cap gap) \in Nat
        BY <1>3, FS_Intersection, FS_CardinalityType
      <4>3. Cardinality(Skipped(q, k)) \in Nat /\ Cardinality(gap) \in Nat
        BY <1>3, <3>2, FS_CardinalityType
      <4> QED
        BY <4>1, <4>2, <4>3
    <3> HIDE DEF both
    <3>5. /\ IsFiniteSet(Skipped(q, k + 1))
          /\ Cardinality(Skipped(q, k + 1)) <= Cardinality(both)
      BY <3>3, <3>4, FS_Subset
    <3>6. /\ Cardinality(Skipped(q, k + 1)) \in Nat /\ Cardinality(both) \in Nat
          /\ Cardinality(Skipped(q, k)) \in Nat
      BY <1>3, <3>4, <3>5, FS_CardinalityType
    <3>7. seq - hi - 1 <= lost
      BY <1>2, <1>5, <1>7, <2>2, <3>1
    <3>8. stats.packets_lost \in Nat
      BY <1>3 DEF NodeStats
    <3>9. PICK a, b, c, d, e : /\ a = Cardinality(Skipped(q, k + 1)) /\ b = Cardinality(both)
                               /\ c = Cardinality(Skipped(q, k)) /\ d = stats.packets_lost
                               /\ e = seq - hi - 1
      OBVIOUS
    <3>10. /\ a \in Nat /\ b \in Nat /\ c \in Nat /\ d \in Nat /\ e \in Int
           /\ a <= b /\ b <= c + e /\ c <= d /\ e <= lost
      <4>1. a \in Nat /\ b \in Nat /\ c \in Nat /\ d \in Nat
        BY <3>6, <3>8, <3>9
      <4>2. e \in Int
        BY <1>2, <3>1, <3>9
      <4>3. a <= b /\ c <= d /\ e <= lost
        BY <1>3, <3>5, <3>7, <3>9
      <4>4. b <= c + e
        BY <3>2, <3>4, <3>9
      <4> QED
        BY <4>1, <4>2, <4>3, <4>4
    <3>11. a <= d + lost
      BY <1>7, <3>10
    <3> QED
      BY <3>5, <3>9, <3>11
  <2>3. hi \in Nat
    BY <1>5
  <2> QED
    BY <1>2, <2>1, <2>2, <2>3
<1>11. Counted(stats, seq) \in NodeStats
  BY <1>2, <1>3, CountedIsNodeStats
<1>12. /\ Counted(stats, seq).last_seq_id = seq
       /\ Counted(stats, seq).packets_received = k + 1
       /\ Counted(stats, seq).packets_since_last_check <= k + 1
       /\ Counted(stats, seq).packets_lost = stats.packets_lost + lost
  BY <1>3 DEF Counted, NodeStats, lost
<1> QED
  BY <1>10, <1>11, <1>12 DEF Accounts, seq

-----------------------------------------------------------------------------
(* The statistics: NodeManager's record of a node is that of the packets   *)
(* counted, the backend's that of the packets gone, and what the two       *)
(* differ by is what the packet about to be sent skips.                    *)

Counts(n, q, k, ns, printed) ==
  IF n \in DOMAIN ns
  THEN /\ Accounts(q, k, ns[n])
       /\ printed = 0 => ns[n].packets_since_last_check = ns[n].packets_received
  ELSE k = 0

Agrees(n, q, g, k, ns, bs) ==
  /\ n \in DOMAIN bs <=> g > 0
  /\ n \in DOMAIN bs => bs[n].lastRawSeq = q[g].seq /\ bs[n].lost \in Nat
  /\ n \in DOMAIN ns =>
       ns[n].packets_lost =
         IF n \notin DOMAIN bs THEN 0
         ELSE IF k # g THEN bs[n].lost + Backend!NewLosses(q[g].seq, q[k].seq)
         ELSE bs[n].lost

CountedRight(n) ==
  /\ InBatch(n, Gone(n))
  /\ Counts(n, played[n], Handled(n), nodes, reports)
  /\ forwardOpen => Agrees(n, played[n], Gone(n), Handled(n), nodes, backend)

LEMMA InitCountedRight ==
  ASSUME Init, Types, NEW n \in Nodes
  PROVE  CountedRight(n)
<1>1. InBatch(n, 0)
  BY InitInBatch
<1>2. Gone(n) = 0
  BY <1>1, GoneIsUnique
<1>3. ~AtHead(n) /\ n \notin DOMAIN nodes /\ n \notin DOMAIN backend
  BY DEF Init, AtHead, NM!NoNodes, Backend!NoStats
<1>4. Handled(n) = 0
  BY <1>2, <1>3 DEF Handled, One
<1> QED
  BY <1>1, <1>2, <1>3, <1>4 DEF CountedRight, Counts, Agrees

(* A pop only makes what was played longer.                                *)
LEMMA PlayedGrows ==
  ASSUME Basic, DrainPop, NEW n \in Nodes
  PROVE  /\ Len(played'[n]) \in Nat /\ Len(played[n]) \in Nat
         /\ Len(played[n]) <= Len(played'[n])
         /\ \A k \in 1 .. Len(played[n]) : played'[n][k] = played[n][k]
<1>1. PICK m \in undrained :
        LET j == jitter_buffers[m]
        IN  /\ jbPc = "drain" /\ m \in Nodes /\ m \in DOMAIN jitter_buffers
            /\ j \in Buffers /\ CanPop(j) /\ Popped(j) \in Packets
            /\ batch' = Append(batch, [node |-> m, packet |-> Popped(j)])
            /\ played' = [played EXCEPT ![m] = Append(@, Popped(j))]
            /\ jitter_buffers' = [jitter_buffers EXCEPT ![m] = AfterPop(j)]
  BY DrainPopEffect
<1>2. PICK x : x \in Packets /\ played' = [played EXCEPT ![m] = Append(@, x)]
  BY <1>1
<1>3. /\ played[n] \in Seq(Packets) /\ Len(played[n]) \in Nat
      /\ played \in [Nodes -> Seq(Packets)]
  BY HistoryTypes DEF Basic, Types
<1>4. played'[n] = played[n] \/ played'[n] = Append(played[n], x)
  BY <1>2, <1>3
<1> QED
  BY <1>2, <1>3, <1>4, AppendProperties

LEMMA DrainPopCounts ==
  ASSUME Basic, Types', DrainPop, NEW n \in Nodes, CountedRight(n)
  PROVE  CountedRight(n)'
<1>1. PICK g, q, r : g = Gone(n) /\ q = played[n] /\ r = played'[n]
  OBVIOUS
<1>2. /\ jbPc = "drain" /\ jbPc' = "drain"
      /\ UNCHANGED <<nodes, reports, backend, forwardOpen>>
  BY DEF DrainPop, JbUnchanged, sockets
<1>3. InBatch(n, g)'
  BY <1>1, DrainPopInBatch DEF CountedRight
<1>4. Gone(n)' = g /\ InBatch(n, Gone(n))'
  BY <1>3, GoneAfterwards
<1>5. ~AtHead(n) /\ ~AtHead(n)' /\ Handled(n) = g /\ Handled(n)' = g
  <2>1. ~AtHead(n) /\ ~AtHead(n)'
    BY <1>2 DEF AtHead
  <2>2. g \in Nat
    BY <1>1, HandledFacts DEF CountedRight
  <2> QED
    BY <1>1, <1>4, <2>1, <2>2 DEF Handled, One
<1>6. /\ Len(q) \in Nat /\ Len(r) \in Nat /\ Len(q) <= Len(r)
      /\ \A k \in 1 .. Len(q) : r[k] = q[k]
  BY <1>1, PlayedGrows
<1>7. g \in Nat /\ g <= Len(q)
  BY <1>1, HandledFacts DEF CountedRight
<1>8. Counts(n, q, g, nodes, reports)
  BY <1>1, <1>5 DEF CountedRight
<1>9. Counts(n, r, g, nodes, reports)
  BY <1>6, <1>8, AccountsOfLonger DEF Counts
<1>10. ASSUME Agrees(n, q, g, g, nodes, backend)
       PROVE  Agrees(n, r, g, g, nodes, backend)
  <2>1. g > 0 => r[g] = q[g]
    BY <1>6, <1>7
  <2> QED
    BY <1>10, <2>1 DEF Agrees
<1>11. forwardOpen => Agrees(n, r, g, g, nodes, backend)
  BY <1>1, <1>5, <1>10 DEF CountedRight
<1> QED
  BY <1>1, <1>2, <1>4, <1>5, <1>9, <1>11 DEF CountedRight

(* processPacket() of the head of the batch.                               *)
LEMMA ProcessCounts ==
  ASSUME Basic, Types', Process, NEW n \in Nodes, CountedRight(n)
  PROVE  CountedRight(n)'
<1>1. PICK g, q, m, p : /\ g = Gone(n) /\ q = played[n] /\ m = Head(batch).node
                        /\ p = Head(batch).packet
  OBVIOUS
<1>2. /\ jbPc = "process" /\ jbPc' = "forward" /\ batch # <<>>
      /\ UNCHANGED <<batch, played, reports, backend, forwardOpen>>
      /\ nodes' = NM!ProcessPacket(nodes, m, p.seq)
  BY <1>1 DEF Process, JbUnchanged, sockets, history
<1>3. InBatch(n, g) /\ InBatch(n, g)'
  BY <1>1, <1>2, InBatchUnchanged DEF CountedRight
<1>4. Gone(n)' = g /\ InBatch(n, Gone(n))'
  BY <1>3, GoneAfterwards
<1>5. /\ ~AtHead(n) /\ (AtHead(n)' <=> m = n) /\ Handled(n) = g /\ g \in Nat
      /\ Handled(n)' = IF m = n THEN g + 1 ELSE g
  <2>1. ~AtHead(n) /\ (AtHead(n)' <=> m = n)
    BY <1>1, <1>2 DEF AtHead
  <2>2. g \in Nat
    BY <1>1, HandledFacts DEF CountedRight
  <2> QED
    BY <1>1, <1>4, <2>1, <2>2 DEF Handled, One
<1>6. Counts(n, q, g, nodes, reports)
  BY <1>1, <1>5 DEF CountedRight
<1>7. forwardOpen => Agrees(n, q, g, g, nodes, backend)
  BY <1>1, <1>5 DEF CountedRight
<1>8. q \in Seq(Packets) /\ Len(q) \in Nat
  BY <1>1, HistoryTypes DEF Basic
<1>9. CASE m # n
  <2>1. /\ n \in DOMAIN nodes' <=> n \in DOMAIN nodes
        /\ n \in DOMAIN nodes => nodes'[n] = nodes[n]
    BY <1>2, <1>9 DEF NM!ProcessPacket
  <2>2. Counts(n, q, g, nodes', reports)
    BY <1>6, <2>1 DEF Counts
  <2>3. forwardOpen => Agrees(n, q, g, g, nodes', backend)
    BY <1>7, <2>1 DEF Agrees
  <2> QED
    BY <1>1, <1>2, <1>4, <1>5, <1>9, <2>2, <2>3 DEF CountedRight
<1>10. CASE m = n
  <2>1. g + 1 \in 1 .. Len(q) /\ q[g + 1] = p
    <3>1. Types
      BY DEF Basic
    <3> QED
      BY <1>1, <1>2, <1>3, <1>10, <3>1, HeadIsNext
  <2>2. /\ n \in DOMAIN nodes'
        /\ nodes'[n] = Counted(NM!StatsOf(nodes, n, p.seq), p.seq)
    BY <1>2, <1>10 DEF NM!ProcessPacket, Counted
  <2>3. CASE n \notin DOMAIN nodes
    <3>1. g = 0 /\ q[1] = p /\ 1 \in 1 .. Len(q)
      BY <1>6, <2>1, <2>3 DEF Counts
    <3>2. nodes'[n] = Counted(NM!Discovered(q[1].seq), q[1].seq)
      BY <2>2, <2>3, <3>1 DEF NM!StatsOf
    <3>3. /\ Accounts(q, 1, nodes'[n]) /\ nodes'[n].packets_lost = 0
          /\ nodes'[n].packets_since_last_check = 1
      BY <1>8, <3>1, <3>2, FirstAccounts
    <3>4. nodes'[n].packets_received = 1
      BY <3>3 DEF Accounts
    <3>5. Counts(n, q, 1, nodes', reports)
      BY <2>2, <3>3, <3>4 DEF Counts
    <3>6. forwardOpen => Agrees(n, q, g, g + 1, nodes', backend)
      BY <1>7, <3>1, <3>3 DEF Agrees
    <3> QED
      BY <1>1, <1>2, <1>4, <1>5, <1>10, <3>1, <3>5, <3>6 DEF CountedRight
  <2>4. CASE n \in DOMAIN nodes
    <3>1. nodes'[n] = Counted(nodes[n], q[g + 1].seq)
      BY <2>1, <2>2, <2>4 DEF NM!StatsOf
    <3>2. /\ Accounts(q, g, nodes[n])
          /\ reports = 0 => nodes[n].packets_since_last_check = nodes[n].packets_received
      BY <1>6, <2>4 DEF Counts
    <3>3. Accounts(q, g + 1, nodes'[n])
      BY <1>5, <1>8, <2>1, <3>1, <3>2, NextAccounts
    <3>4. /\ nodes[n] \in NodeStats /\ nodes[n].last_seq_id = q[g].seq /\ g \in 1 .. Len(q)
      BY <3>2 DEF Accounts
    <3>5. /\ nodes'[n].packets_received = nodes[n].packets_received + 1
          /\ nodes'[n].packets_since_last_check = nodes[n].packets_since_last_check + 1
          /\ nodes'[n].packets_lost = nodes[n].packets_lost
                                       + NM!NewlyLost(q[g].seq, q[g + 1].seq)
      BY <3>1, <3>4 DEF Counted
    <3>6. Counts(n, q, g + 1, nodes', reports)
      BY <2>2, <3>2, <3>3, <3>5 DEF Counts
    <3>7. NM!NewlyLost(q[g].seq, q[g + 1].seq) = Backend!NewLosses(q[g].seq, q[g + 1].seq)
      <4>1. q[g] \in Packets /\ q[g + 1] \in Packets
        BY <1>8, <2>1, <3>4
      <4>2. q[g].seq \in Seqs /\ q[g + 1].seq \in Seqs
        BY <4>1 DEF Packets
      <4> QED
        BY <4>2, NewlyLostFacts
    <3>8. forwardOpen => Agrees(n, q, g, g + 1, nodes', backend)
      <4> SUFFICES ASSUME forwardOpen PROVE Agrees(n, q, g, g + 1, nodes', backend)
        OBVIOUS
      <4>1. /\ n \in DOMAIN backend /\ backend[n].lastRawSeq = q[g].seq
            /\ backend[n].lost \in Nat /\ nodes[n].packets_lost = backend[n].lost
            /\ n \in DOMAIN backend <=> g > 0
        BY <1>7, <2>4, <3>4 DEF Agrees
      <4>2. nodes'[n].packets_lost = backend[n].lost
                                      + Backend!NewLosses(q[g].seq, q[g + 1].seq)
        BY <3>5, <3>7, <4>1
      <4>3. g + 1 # g
        BY <1>5
      <4> QED
        BY <4>1, <4>2, <4>3 DEF Agrees
    <3> QED
      BY <1>1, <1>2, <1>4, <1>5, <1>10, <3>6, <3>8 DEF CountedRight
  <2> QED
    BY <2>3, <2>4
<1> QED
  BY <1>9, <1>10

(* The head of the batch is sent, or its sendto() fails.                   *)
LEMMA ForwardCounts ==
  ASSUME Basic, Types', Forward, NEW n \in Nodes, CountedRight(n)
  PROVE  CountedRight(n)'
<1>1. PICK g, q, m, p : /\ g = Gone(n) /\ q = played[n] /\ m = Head(batch).node
                        /\ p = Head(batch).packet
  OBVIOUS
<1>2. /\ jbPc = "forward" /\ jbPc' = "process" /\ batch # <<>> /\ batch' = Tail(batch)
      /\ UNCHANGED <<played, nodes, reports, forwardOpen>> /\ Types
      /\ forwardOpen => backend' = Backend!Heard(backend, m, p)
  BY <1>1 DEF Forward, SendSucceeds, RestOfBatch, JbUnchanged, sockets, Basic, BatchInHand
<1>3. /\ ~AtHead(n)' /\ (AtHead(n) <=> m = n) /\ g \in Nat /\ InBatch(n, g)
      /\ Handled(n) = IF m = n THEN g + 1 ELSE g
      /\ m = n => q[g + 1] = p
      /\ q \in Seq(Packets) /\ Len(q) \in Nat /\ Handled(n) <= Len(q)
  <2>1. ~AtHead(n)' /\ (AtHead(n) <=> m = n)
    BY <1>1, <1>2 DEF AtHead
  <2> QED
    BY <1>1, <2>1, HandledFacts, HistoryTypes DEF CountedRight, Basic
<1>4. Counts(n, q, Handled(n), nodes, reports)
  BY <1>1 DEF CountedRight
<1>5. CASE m # n
  <2>1. InBatch(n, g)'
    BY <1>1, <1>2, <1>3, <1>5, ForwardInBatch
  <2>2. Gone(n)' = g /\ InBatch(n, Gone(n))'
    BY <2>1, GoneAfterwards
  <2>3. Handled(n)' = g
    BY <1>3, <2>2 DEF Handled, One
  <2>4. forwardOpen => Agrees(n, q, g, g, nodes, backend)
    BY <1>1, <1>3, <1>5 DEF CountedRight
  <2>5. forwardOpen => Agrees(n, q, g, g, nodes, backend')
    <3>1. forwardOpen => /\ n \in DOMAIN backend' <=> n \in DOMAIN backend
                         /\ n \in DOMAIN backend => backend'[n] = backend[n]
      BY <1>2, <1>5 DEF Backend!Heard
    <3> QED
      BY <2>4, <3>1 DEF Agrees
  <2> QED
    BY <1>1, <1>2, <1>3, <1>4, <1>5, <2>2, <2>3, <2>5 DEF CountedRight
<1>6. CASE m = n
  <2>0. PICK h : h = g + 1
    OBVIOUS
  <2>1. InBatch(n, h)'
    <3>1. InBatch(n, g + 1)'
      BY <1>1, <1>2, <1>3, <1>6, ForwardInBatch
    <3> QED
      BY <2>0, <3>1
  <2>2. Gone(n)' = h /\ InBatch(n, Gone(n))'
    BY <2>1, GoneAfterwards
  <2>3. Handled(n)' = h /\ Handled(n) = h /\ h \in Nat /\ h > 0
    BY <1>3, <1>6, <2>0, <2>2 DEF Handled, One
  <2>4. forwardOpen => Agrees(n, q, g, g + 1, nodes, backend)
    BY <1>1, <1>3, <1>6 DEF CountedRight
  <2>5. forwardOpen => Agrees(n, q, h, h, nodes, backend')
    <3> SUFFICES ASSUME forwardOpen PROVE Agrees(n, q, h, h, nodes, backend')
      OBVIOUS
    <3>1. backend' = Backend!Heard(backend, n, p) /\ q[h] = p
      BY <1>2, <1>3, <1>6, <2>0
    <3>2. /\ n \in DOMAIN backend'
          /\ backend'[n] = IF n \in DOMAIN backend THEN Backend!OnMessage(backend[n], p)
                           ELSE Backend!Baseline(p)
      BY <3>1 DEF Backend!Heard
    <3>3. CASE n \notin DOMAIN backend
      <4>1. backend'[n].lastRawSeq = p.seq /\ backend'[n].lost = 0
        BY <3>2, <3>3 DEF Backend!Baseline
      <4> QED
        BY <2>3, <2>4, <3>1, <3>2, <3>3, <4>1 DEF Agrees
    <3>4. CASE n \in DOMAIN backend
      <4>1. /\ backend'[n].lastRawSeq = p.seq
            /\ backend'[n].lost = backend[n].lost
                                   + Backend!NewLosses(backend[n].lastRawSeq, p.seq)
        BY <3>2, <3>4 DEF Backend!OnMessage
      <4>2. /\ g > 0 /\ backend[n].lastRawSeq = q[g].seq /\ backend[n].lost \in Nat
            /\ n \in DOMAIN nodes =>
                 nodes[n].packets_lost =
                   backend[n].lost + Backend!NewLosses(q[g].seq, q[g + 1].seq)
        <5>1. g + 1 # g
          BY <1>3
        <5> QED
          BY <2>4, <3>4, <5>1 DEF Agrees
      <4>3. Backend!NewLosses(q[g].seq, p.seq) \in Nat
        <5>1. g \in 1 .. Len(q) /\ h \in 1 .. Len(q)
          BY <1>3, <2>0, <2>3, <4>2
        <5>2. q[g] \in Packets /\ q[h] \in Packets
          BY <1>3, <5>1
        <5>3. q[g].seq \in Seqs /\ p.seq \in Seqs
          BY <3>1, <5>2 DEF Packets
        <5> QED
          BY <5>3, NewlyLostFacts
      <4>4. backend'[n].lost \in Nat
        BY <4>1, <4>2, <4>3
      <4> QED
        BY <1>3, <1>6, <2>3, <3>1, <3>2, <4>1, <4>2, <4>4 DEF Agrees
    <3> QED
      BY <3>3, <3>4
  <2> QED
    BY <1>1, <1>2, <1>3, <1>4, <1>6, <2>2, <2>3, <2>5 DEF CountedRight
<1> QED
  BY <1>5, <1>6

(* A report starts only the periodic counter over.                         *)
LEMMA ReportCounts ==
  ASSUME Basic, Types', Report, NEW n \in Nodes, CountedRight(n)
  PROVE  CountedRight(n)'
<1>1. PICK g, q, k : g = Gone(n) /\ q = played[n] /\ k = Handled(n)
  OBVIOUS
<1>2. /\ UNCHANGED <<batch, played, backend, jbPc, forwardOpen>>
      /\ nodes' = NM!PrintAndResetStats(nodes) /\ reports' # 0
  BY DEF Report, MainUnchanged, sockets, history, Basic, Types
<1>3. InBatch(n, g)'
  BY <1>1, <1>2, InBatchUnchanged DEF CountedRight
<1>4. Gone(n)' = g /\ InBatch(n, Gone(n))'
  BY <1>3, GoneAfterwards
<1>5. (AtHead(n)' <=> AtHead(n)) /\ Handled(n)' = k
  BY <1>1, <1>2, <1>4 DEF AtHead, Handled, One
<1>6. Counts(n, q, k, nodes', reports')
  <2>1. CASE n \notin DOMAIN nodes
    BY <1>1, <1>2, <2>1 DEF CountedRight, Counts, NM!PrintAndResetStats
  <2>2. CASE n \in DOMAIN nodes
    <3>1. /\ n \in DOMAIN nodes'
          /\ nodes'[n] = [nodes[n] EXCEPT !.packets_since_last_check = 0]
      BY <1>2, <2>2 DEF NM!PrintAndResetStats
    <3>2. Accounts(q, k, nodes[n])
      BY <1>1, <2>2 DEF CountedRight, Counts
    <3>3. /\ nodes'[n] \in NodeStats /\ nodes'[n].packets_since_last_check = 0
          /\ nodes'[n].last_seq_id = nodes[n].last_seq_id
          /\ nodes'[n].packets_received = nodes[n].packets_received
          /\ nodes'[n].packets_lost = nodes[n].packets_lost
      BY <3>1, <3>2 DEF Accounts, NodeStats
    <3>4. 0 <= k
      BY <3>2 DEF Accounts
    <3>5. Accounts(q, k, nodes'[n])
      BY <3>2, <3>3, <3>4 DEF Accounts
    <3> QED
      BY <1>2, <3>1, <3>5 DEF Counts
  <2> QED
    BY <2>1, <2>2
<1>7. ASSUME Agrees(n, q, g, k, nodes, backend)
      PROVE  Agrees(n, q, g, k, nodes', backend)
  <2>1. n \in DOMAIN nodes' => n \in DOMAIN nodes
    BY <1>2 DEF NM!PrintAndResetStats
  <2>2. n \in DOMAIN nodes => nodes'[n].packets_lost = nodes[n].packets_lost
    <3> SUFFICES ASSUME n \in DOMAIN nodes
                 PROVE  nodes'[n].packets_lost = nodes[n].packets_lost
      OBVIOUS
    <3>1. nodes[n] \in NodeStats
      BY DEF CountedRight, Counts, Accounts
    <3>2. nodes'[n] = [nodes[n] EXCEPT !.packets_since_last_check = 0]
      BY <1>2 DEF NM!PrintAndResetStats
    <3> QED
      BY <3>1, <3>2 DEF NodeStats
  <2> QED
    BY <1>7, <2>1, <2>2 DEF Agrees
<1>8. forwardOpen => Agrees(n, q, g, k, nodes', backend)
  BY <1>1, <1>7 DEF CountedRight
<1> QED
  BY <1>1, <1>2, <1>4, <1>5, <1>6, <1>8 DEF CountedRight

(* No other step counts or sends anything.                                 *)
LEMMA OtherCounts ==
  ASSUME Basic, Types', [Next]_vars, ~DrainPop, ~Process, ~Forward, ~Report, NEW n \in Nodes,
         CountedRight(n)
  PROVE  CountedRight(n)'
<1>1. /\ UNCHANGED <<batch, backend, played, forwarded>> /\ (forwardOpen' => forwardOpen)
  BY OtherSteps
<1>2. UNCHANGED <<nodes, reports>> /\ (jbPc' = "forward" <=> jbPc = "forward")
  <2>1. CASE \E m \in Nodes : \E p \in inflight[m] : RecvFrom(m, p)
    BY <2>1 DEF RecvFrom
  <2>2. CASE CallRecvFrom \/ RecvError \/ PushPacket
    BY <2>2 DEF CallRecvFrom, RecvError, PushPacket
  <2>3. CASE WakeAndLock \/ DrainNext \/ Unlock \/ BatchDone
    BY <2>3 DEF WakeAndLock, DrainNext, Unlock, BatchDone, JbUnchanged, NextPass
  <2>4. CASE StopRunning \/ StopStep
    BY <2>4 DEF StopRunning, StopStep, CloseSocket, CloseForward, JoinRecv, JoinJb,
       MainUnchanged
  <2>5. CASE UNCHANGED vars
    BY <2>5 DEF vars
  <2> QED
    BY <2>1, <2>2, <2>3, <2>4, <2>5, NextCases DEF MainStep
<1>3. PICK g, q, k : g = Gone(n) /\ q = played[n] /\ k = Handled(n)
  OBVIOUS
<1>4. InBatch(n, g)'
  BY <1>1, <1>3, InBatchUnchanged DEF CountedRight
<1>5. Gone(n)' = g /\ InBatch(n, Gone(n))'
  BY <1>4, GoneAfterwards
<1>6. (AtHead(n)' <=> AtHead(n)) /\ Handled(n)' = k
  BY <1>1, <1>2, <1>3, <1>5 DEF AtHead, Handled, One
<1> QED
  BY <1>1, <1>2, <1>3, <1>5, <1>6 DEF CountedRight

THEOREM CountingInvariance == Spec => [](Basic /\ \A n \in Nodes : CountedRight(n))
<1> DEFINE Right == \A n \in Nodes : CountedRight(n)
<1>1. Init => Right
  BY InitBasic, InitCountedRight DEF Basic
<1>2. Basic /\ Basic' /\ Right /\ [Next]_vars => Right'
  <2> SUFFICES ASSUME Basic, Basic', [Next]_vars, NEW n \in Nodes, CountedRight(n)
               PROVE  CountedRight(n)'
    OBVIOUS
  <2>1. Types'
    BY DEF Basic
  <2> QED
    BY <2>1, DrainPopCounts, ProcessCounts, ForwardCounts, ReportCounts, OtherCounts
<1> HIDE DEF Right
<1>3. Spec => [](Basic /\ Right)
  BY <1>1, <1>2, BasicInvariance, PTL DEF Spec
<1> QED
  BY <1>3 DEF Right

(* Whatever a node's stream skips has been counted as lost, however the    *)
(* stream jumped back and forth in between.                                *)
THEOREM SkipsAreCounted == Spec => []SkippedIsCountedLost
<1>1. (Basic /\ \A n \in Nodes : CountedRight(n)) => SkippedIsCountedLost
  <2> SUFFICES ASSUME Basic, \A n \in Nodes : CountedRight(n), NEW n \in DOMAIN nodes
               PROVE  LET processed == Processed(n)
                          seen == {processed[i].seq : i \in DOMAIN processed}
                      IN  Cardinality({s \in processed[1].seq .. Max(seen) : s \notin seen})
                            <= nodes[n].packets_lost
    BY DEF SkippedIsCountedLost
  <2>1. PICK k : k = Handled(n)
    OBVIOUS
  <2>2. n \in Nodes /\ CountedRight(n)
    BY DEF Basic, Types
  <2>3. Accounts(played[n], k, nodes[n])
    BY <2>1, <2>2 DEF CountedRight, Counts
  <2>4. DOMAIN Processed(n) = 1 .. k /\ \A i \in 1 .. k : Processed(n)[i] = played[n][i]
    BY <2>1, <2>2, ProcessedFacts DEF CountedRight
  <2>5. {Processed(n)[i].seq : i \in DOMAIN Processed(n)} = SeqsTo(played[n], k)
    BY <2>4 DEF SeqsTo
  <2>6. Processed(n)[1].seq = played[n][1].seq
    <3>1. k \in Nat /\ k > 0
      BY <2>2, <2>3, HistoryTypes DEF Accounts, Basic
    <3>2. 1 \in 1 .. k
      BY <3>1
    <3> QED
      BY <2>4, <3>2
  <2> QED
    BY <2>3, <2>5, <2>6 DEF Accounts, Skipped
<1> QED
  BY <1>1, CountingInvariance, PTL

(* NodeManager's statistics are those of the packets processed, whenever   *)
(* they are printed, and the backend finds the same losses.                *)
THEOREM StatisticsAreRight == Spec => []StatisticsAgree
<1> DEFINE InOrder == \A n \in Nodes : IsInOrder(n)
<1>1. Basic /\ (\A n \in Nodes : CountedRight(n)) /\ InOrder => StatisticsAgree
  <2> SUFFICES ASSUME Basic, InOrder, NEW n \in Nodes, CountedRight(n)
               PROVE  LET processed == Processed(n)
                      IN  IF n \in DOMAIN nodes
                          THEN /\ nodes[n].packets_received = Len(processed)
                               /\ nodes[n].packets_since_last_check
                                    <= nodes[n].packets_received
                               /\ reports = 0 => nodes[n].packets_since_last_check
                                                   = nodes[n].packets_received
                               /\ (forwardOpen /\ processed = forwarded[n]) =>
                                    backend[n].lost = nodes[n].packets_lost
                          ELSE processed = <<>>
    BY DEF StatisticsAgree
  <2>1. PICK k, g, x : k = Handled(n) /\ g = Gone(n) /\ x = Processed(n)
    OBVIOUS
  <2>2. x \in Seq(Packets) /\ Len(x) = k /\ k \in Nat
    BY <2>1, ProcessedFacts, HandledFacts DEF CountedRight
  <2>3. CASE n \notin DOMAIN nodes
    <3>1. k = 0
      BY <2>1, <2>3 DEF CountedRight, Counts
    <3>2. x = <<>>
      BY <2>2, <3>1
    <3> QED
      BY <2>1, <2>3, <3>2
  <2>4. CASE n \in DOMAIN nodes
    <3>1. /\ nodes[n].packets_received = k /\ nodes[n].packets_since_last_check <= k
          /\ k > 0
          /\ reports = 0 => nodes[n].packets_since_last_check = nodes[n].packets_received
      BY <2>1, <2>2, <2>4 DEF CountedRight, Counts, Accounts
    <3>2. ASSUME forwardOpen, x = forwarded[n] PROVE backend[n].lost = nodes[n].packets_lost
      <4>1. Len(forwarded[n]) = k
        BY <2>2, <3>2
      <4>2. InBatch(n, k)
        BY <3>2, <4>1 DEF IsInOrder
      <4>3. k = g
        BY <2>1, <4>2, GoneIsUnique DEF Basic
      <4>4. Agrees(n, played[n], g, g, nodes, backend)
        BY <2>1, <3>2, <4>3 DEF CountedRight
      <4> QED
        BY <2>4, <3>1, <4>3, <4>4 DEF Agrees
    <3> QED
      BY <2>1, <2>2, <2>4, <3>1, <3>2
  <2> QED
    BY <2>3, <2>4
<1>2. Spec => []InOrder
  BY InOrderInvariance
<1> HIDE DEF InOrder
<1> QED
  BY <1>1, <1>2, CountingInvariance, PTL

-----------------------------------------------------------------------------
(* What the server does to a node's stream: its buffer j, what was popped  *)
(* of it, q, and whether a run is in progress, r = 1, or not, r = 0.       *)

Live(n) == IF InRun(n) THEN 1 ELSE 0

(* What a step of the server may do to a node's stream.                    *)
Moved(j, q, r, j2, q2, r2, S) ==
  \/ j2 = j /\ q2 = q /\ r2 = r
  \/ \E p \in S : r = 0 /\ r2 = 0 /\ q2 = q /\ j2 = Push(j, p)
  \/ CanPop(j) /\ j2 = AfterPop(j) /\ q2 = Append(q, Popped(j)) /\ r2 = 1
  \/ IsUnderrun(j) /\ j2 = AfterUnderrun(j) /\ q2 = q /\ r2 = 0

Moves(n) ==
  Moved(BufferOf(n), played[n], Live(n), BufferOf(n)', played[n]', Live(n)', Sent[n])

LEMMA NothingMoves ==
  ASSUME NEW n, BufferOf(n)' = BufferOf(n), played[n]' = played[n], InRun(n)' = InRun(n)
  PROVE  Moves(n)
<1>1. Live(n)' = Live(n)
  BY DEF Live
<1> QED
  BY <1>1 DEF Moves, Moved

LEMMA PushPacketMoves ==
  ASSUME Basic, PushPacket, NEW n \in Nodes
  PROVE  Moves(n)
<1>1. rx.node \in Nodes /\ rx.packet \in Sent[rx.node]
  BY DEF PushPacket, Basic, Types
<1>2. /\ undrained = {} /\ undrained' = undrained
      /\ played[n]' = played[n]
  BY DEF PushPacket, MutexFree, Basic, BatchInHand, history
<1>3. /\ DOMAIN jitter_buffers' = DOMAIN jitter_buffers \cup {rx.node}
      /\ jitter_buffers'[rx.node] = Push(BufferOf(rx.node), rx.packet)
      /\ \A k \in DOMAIN jitter_buffers : k # rx.node => jitter_buffers'[k] = jitter_buffers[k]
  BY DEF PushPacket
<1>4. Live(n) = 0 /\ Live(n)' = 0
  BY <1>2 DEF Live, InRun
<1>5. CASE rx.node = n
  <2>1. BufferOf(n)' = Push(BufferOf(n), rx.packet)
    BY <1>3, <1>5 DEF BufferOf
  <2> QED
    BY <1>1, <1>2, <1>4, <1>5, <2>1 DEF Moves, Moved
<1>6. CASE rx.node # n
  <2>1. BufferOf(n)' = BufferOf(n)
    BY <1>3, <1>6 DEF BufferOf
  <2> QED
    BY <1>2, <1>4, <2>1 DEF Moves, Moved
<1> QED
  BY <1>5, <1>6

LEMMA DrainPopMoves ==
  ASSUME Basic, DrainPop, NEW n \in Nodes
  PROVE  Moves(n)
<1>0. PICK m \in undrained :
        LET j == jitter_buffers[m]
        IN  /\ jbPc = "drain" /\ m \in Nodes /\ m \in DOMAIN jitter_buffers
            /\ j \in Buffers /\ CanPop(j) /\ Popped(j) \in Packets
            /\ batch' = Append(batch, [node |-> m, packet |-> Popped(j)])
            /\ played' = [played EXCEPT ![m] = Append(@, Popped(j))]
            /\ jitter_buffers' = [jitter_buffers EXCEPT ![m] = AfterPop(j)]
  BY DrainPopEffect
<1> DEFINE j == jitter_buffers[m]
           x == Popped(j)
           item == [node |-> m, packet |-> x]
<1>1. undrained' = undrained /\ Types
  BY DEF DrainPop, JbUnchanged, Basic
<1>2. /\ item \in BatchItems /\ item.node = m /\ x \in Packets
      /\ batch' = Append(batch, item) /\ m \in Nodes
      /\ played' = [played EXCEPT ![m] = Append(@, x)]
      /\ jitter_buffers' = [jitter_buffers EXCEPT ![m] = AfterPop(j)]
      /\ m \in DOMAIN jitter_buffers /\ CanPop(j)
  BY <1>0 DEF BatchItems
<1> HIDE DEF x, item
<1>3. /\ n = m => Waiting(n)' = Waiting(n) \cup {Len(batch) + 1}
      /\ n # m => Waiting(n)' = Waiting(n)
  BY <1>1, <1>2, AppendedWaits
<1>4. CASE n = m
  <2>1. j = BufferOf(n) /\ BufferOf(n)' = AfterPop(j)
    BY <1>1, <1>2, <1>4 DEF BufferOf, Types
  <2>2. Live(n)' = 1
    BY <1>1, <1>3, <1>4 DEF Live, InRun
  <2>3. played[n]' = Append(played[n], x)
    BY <1>1, <1>2, <1>4 DEF Types
  <2> QED
    BY <1>2, <2>1, <2>2, <2>3 DEF Moves, Moved, x
<1>5. CASE n # m
  <2>1. BufferOf(n)' = BufferOf(n) /\ played[n]' = played[n]
    BY <1>1, <1>2, <1>5 DEF BufferOf, Types
  <2>2. InRun(n)' = InRun(n)
    BY <1>1, <1>3, <1>5 DEF InRun
  <2> QED
    BY <2>1, <2>2, NothingMoves
<1> QED
  BY <1>4, <1>5

LEMMA DrainNextMoves ==
  ASSUME Basic, DrainNext, NEW n \in Nodes
  PROVE  Moves(n)
<1>0. PICK m \in undrained :
        LET j == jitter_buffers[m]
        IN  /\ jbPc = "drain" /\ m \in Nodes /\ m \in DOMAIN jitter_buffers
            /\ j \in Buffers /\ ~CanPop(j)
            /\ undrained' = undrained \ {m}
            /\ jitter_buffers' = [jitter_buffers EXCEPT ![m] = AfterFailedPop(j)]
  BY DrainNextEffect
<1> DEFINE j == jitter_buffers[m]
<1>1. UNCHANGED <<batch, played>> /\ Types
  BY DEF DrainNext, JbUnchanged, history, Basic
<1>2. Waiting(n)' = Waiting(n) /\ played[n]' = played[n]
  BY <1>1 DEF Waiting
<1>3. CASE n = m
  <2>1. /\ j = BufferOf(n) /\ BufferOf(n)' = AfterFailedPop(j)
        /\ ~CanPop(j) /\ j \in Buffers
    BY <1>0, <1>1, <1>3 DEF BufferOf, Types
  <2>2. Live(n)' = 0
    BY <1>0, <1>3 DEF Live, InRun
  <2>3. CASE IsUnderrun(j)
    BY <1>2, <2>1, <2>2, <2>3 DEF AfterFailedPop, Moves, Moved
  <2>4. CASE ~IsUnderrun(j)
    <3>1. AfterFailedPop(j) = j /\ j.buffering
      BY <2>1, <2>4 DEF AfterFailedPop, IsUnderrun, CanPop
    <3>2. Live(n) = 0
      BY <1>3, <3>1 DEF Live, InRun, Basic, RunsPlay
    <3> QED
      BY <1>2, <2>1, <2>2, <3>1, <3>2 DEF Moves, Moved
  <2> QED
    BY <2>3, <2>4
<1>4. CASE n # m
  <2>1. BufferOf(n)' = BufferOf(n)
    BY <1>0, <1>1, <1>4 DEF BufferOf, Types
  <2>2. InRun(n)' = InRun(n)
    BY <1>0, <1>2, <1>4 DEF InRun
  <2> QED
    BY <1>2, <2>1, <2>2, NothingMoves
<1> QED
  BY <1>3, <1>4

LEMMA OthersMove ==
  ASSUME UNCHANGED <<jitter_buffers, played>>, NEW n \in Nodes,
         \/ UNCHANGED <<undrained, batch>>
         \/ undrained = {} /\ undrained' = {}
         \/ batch = <<>> /\ batch' = <<>>
  PROVE  Moves(n)
<1>1. BufferOf(n)' = BufferOf(n) /\ played[n]' = played[n]
  BY DEF BufferOf, NewJitterBuffer
<1>2. (batch = <<>> => Waiting(n) = {}) /\ (batch' = <<>> => Waiting(n)' = {})
  BY DEF Waiting
<1>3. InRun(n)' = InRun(n)
  BY <1>2 DEF InRun, Waiting
<1> QED
  BY <1>1, <1>3, NothingMoves

LEMMA NextMoves ==
  ASSUME Basic, [Next]_vars, NEW n \in Nodes
  PROVE  Moves(n)
<1>1. CASE PushPacket
  BY <1>1, PushPacketMoves
<1>2. CASE DrainPop
  BY <1>2, DrainPopMoves
<1>3. CASE DrainNext
  BY <1>3, DrainNextMoves
<1>4. CASE \E m \in Nodes : \E p \in inflight[m] : RecvFrom(m, p)
  BY <1>4, OthersMove DEF RecvFrom, history
<1>5. CASE CallRecvFrom \/ RecvError
  BY <1>5, OthersMove DEF CallRecvFrom, RecvError, history
<1>6. CASE WakeAndLock
  BY <1>6, OthersMove DEF WakeAndLock, JbUnchanged, history, Basic, BatchInHand
<1>7. CASE Unlock \/ Process \/ Forward \/ BatchDone
  BY <1>7, OthersMove DEF Unlock, Process, Forward, BatchDone, JbUnchanged, history, Basic,
     BatchInHand
<1>8. CASE MainStep
  BY <1>8, OthersMove DEF MainStep, Report, StopRunning, StopStep, CloseSocket, CloseForward,
     JoinRecv, JoinJb, MainUnchanged, history
<1>9. CASE UNCHANGED vars
  BY <1>9, OthersMove DEF vars, history
<1> QED
  BY <1>1, <1>2, <1>3, <1>4, <1>5, <1>6, <1>7, <1>8, <1>9, NextCases

-----------------------------------------------------------------------------
(* Play(n) is node n's buffer seen as the buffer of module Playout.  The   *)
(* operators of that module are those here.                                *)

Play(n) == INSTANCE Playout WITH
  jb <- BufferOf(n), out <- LastPlayed(n), midrun <- InRun(n), Arriving <- Sent[n],
  MaxJitter <- 0

LEMMA SamePush ==
  ASSUME NEW n, NEW j \in Buffers, NEW p
  PROVE  Play(n)!Push(j, p) = Push(j, p)
<1>1. Play(n)!Store(j.buffer, p) = Store(j.buffer, p)
  BY DEF Play!Store, Store
<1>2. \A S : Play(n)!Span(S) = Span(S)
  BY DEF Play!Span, Span, Play!Max, Max, Play!Min, Min
<1>3. Play(n)!IsLate(j, p.seq) <=> IsLate(j, p.seq)
  BY DEF Play!IsLate, IsLate
<1>4. Play(n)!Buffered(j) = Buffered(j) /\ \A S : Play(n)!Min(S) = Min(S)
  BY DEF Play!Buffered, Buffered, Play!Min, Min
<1>5. j.buffering \in BOOLEAN
  BY DEF Buffers
<1> DEFINE stored == Store(j.buffer, p)
           enough == Span(DOMAIN stored) >= TargetBufferSize
<1>6. CASE IsLate(j, p.seq)
  BY <1>3, <1>6 DEF Play!Push, Push
<1>7. CASE ~IsLate(j, p.seq) /\ j.buffering /\ enough
  BY <1>1, <1>2, <1>3, <1>4, <1>5, <1>7 DEF Play!Push, Push
<1>8. CASE ~IsLate(j, p.seq) /\ j.buffering /\ ~enough /\ Buffered(j) = {}
  BY <1>1, <1>2, <1>3, <1>4, <1>5, <1>8 DEF Play!Push, Push
<1>9. CASE ~IsLate(j, p.seq) /\ ~(j.buffering /\ enough) /\ ~(j.buffering /\ Buffered(j) = {})
  BY <1>1, <1>2, <1>3, <1>4, <1>5, <1>9 DEF Play!Push, Push
<1> QED
  BY <1>6, <1>7, <1>8, <1>9

LEMMA SamePop ==
  ASSUME NEW n, NEW j
  PROVE  /\ Play(n)!CanPop(j) <=> CanPop(j)
         /\ Play(n)!IsUnderrun(j) <=> IsUnderrun(j)
         /\ Play(n)!AfterPop(j) = AfterPop(j)
         /\ Play(n)!AfterUnderrun(j) = AfterUnderrun(j)
         /\ Play(n)!Popped(j) = Popped(j)
<1>1. Play(n)!CanPop(j) <=> CanPop(j)
  BY DEF CanPop, Play!CanPop, Buffered, Play!Buffered
<1>2. Play(n)!IsUnderrun(j) <=> IsUnderrun(j)
  BY DEF IsUnderrun, Play!IsUnderrun, Buffered, Play!Buffered
<1>3. Play(n)!AfterPop(j) = AfterPop(j)
  BY DEF AfterPop, Play!AfterPop, Erase, Play!Erase, NextSeq, Play!NextSeq
<1>4. Play(n)!AfterUnderrun(j) = AfterUnderrun(j)
  BY DEF AfterUnderrun, Play!AfterUnderrun
<1>5. Play(n)!Popped(j) = Popped(j)
  BY DEF Popped, Play!Popped, Buffered, Play!Buffered, Dummy, Play!Dummy, DummyTsf,
     Play!DummyTsf, Ahead, Play!Ahead, Min, Play!Min
<1> QED
  BY <1>1, <1>2, <1>3, <1>4, <1>5

PlayStep(n) == [Play(n)!Next]_(Play(n)!vars)

(* A push is the producer's step, a pop the consumer's, and an underrun    *)
(* ends the run.                                                           *)
LEMMA NextPlays ==
  ASSUME Basic, [Next]_vars, NEW n \in Nodes
  PROVE  PlayStep(n)
<1>1. PICK j, q, r, j2, q2, r2 :
        /\ j = BufferOf(n) /\ q = played[n] /\ r = Live(n)
        /\ j2 = BufferOf(n)' /\ q2 = played[n]' /\ r2 = Live(n)'
  OBVIOUS
<1>2. Moved(j, q, r, j2, q2, r2, Sent[n])
  BY <1>1, NextMoves DEF Moves
<1>3. j \in Buffers /\ q \in Seq(Packets)
  BY <1>1, NewIsBuffer DEF BufferOf, Basic, Types
<1>4. /\ InRun(n) \in BOOLEAN /\ InRun(n)' \in BOOLEAN
      /\ InRun(n) <=> r = 1
      /\ InRun(n)' <=> r2 = 1
  BY <1>1 DEF Live, InRun
<1>5. q2 = q => LastPlayed(n)' = LastPlayed(n)
  BY <1>1 DEF LastPlayed, Last, Idle
<1>6. CASE j2 = j /\ q2 = q /\ r2 = r
  BY <1>1, <1>4, <1>5, <1>6 DEF PlayStep, Play!vars
<1>7. ASSUME NEW p \in Sent[n], r = 0, r2 = 0, q2 = q, j2 = Push(j, p)
      PROVE  PlayStep(n)
  <2>1. Play(n)!Push(j, p) = Push(j, p)
    BY <1>3, SamePush
  <2>2. Play(n)!Receive(p)
    BY <1>1, <1>4, <1>5, <1>7, <2>1 DEF Play!Receive
  <2> QED
    BY <2>2 DEF PlayStep, Play!Next
<1>8. CASE CanPop(j) /\ j2 = AfterPop(j) /\ q2 = Append(q, Popped(j)) /\ r2 = 1
  <2>1. LastPlayed(n)' = Popped(j)
    <3>1. PICK x \in Packets : x = Popped(j) /\ q2 = Append(q, x)
      BY <1>3, <1>8, PopFacts
    <3>2. q2 # <<>> /\ q2[Len(q2)] = x
      <4>1. /\ Append(q, x) # <<>> /\ Len(Append(q, x)) = Len(q) + 1
            /\ Append(q, x)[Len(q) + 1] = x
        BY <1>3, <3>1, AppendProperties
      <4> QED
        BY <3>1, <4>1
    <3> QED
      BY <1>1, <3>1, <3>2 DEF LastPlayed, Last
  <2>2. InRun(n)' = TRUE
    BY <1>4, <1>8
  <2>3. Play(n)!Play
    BY <1>1, <1>8, <2>1, <2>2, SamePop DEF Play!Play
  <2> QED
    BY <2>3 DEF PlayStep, Play!Next, Play!Pop
<1>9. CASE IsUnderrun(j) /\ j2 = AfterUnderrun(j) /\ q2 = q /\ r2 = 0
  <2>1. InRun(n)' = FALSE
    BY <1>4, <1>9
  <2>2. Play(n)!RunDry
    BY <1>1, <1>5, <1>9, <2>1, SamePop DEF Play!RunDry
  <2> QED
    BY <2>2 DEF PlayStep, Play!Next, Play!Pop
<1> QED
  BY <1>2, <1>6, <1>7, <1>8, <1>9 DEF Moved

LEMMA InitPlays ==
  ASSUME Init, NEW n \in Nodes
  PROVE  Play(n)!Init
<1>1. BufferOf(n) = NewJitterBuffer /\ LastPlayed(n) = Idle.packet /\ InRun(n) = FALSE
  BY DEF Init, BufferOf, LastPlayed, InRun
<1>2. Play(n)!NewJitterBuffer = NewJitterBuffer /\ Play(n)!NoPacket = Idle.packet
  BY DEF Play!NewJitterBuffer, NewJitterBuffer, Play!NoPacket, Idle
<1> QED
  BY <1>1, <1>2 DEF Play!Init

(* Whatever the threads interleave, every node's buffer goes through the   *)
(* steps of a single buffer between a producer and a consumer that take    *)
(* turns: what is proved of that one holds of each of the server's.        *)
THEOREM EachBufferImplementsPlayout ==
  ASSUME NEW n \in Nodes
  PROVE  Spec => Play(n)!Spec
<1>1. Init => Play(n)!Init
  BY InitPlays
<1>2. Basic /\ [Next]_vars => [Play(n)!Next]_(Play(n)!vars)
  BY NextPlays DEF PlayStep
<1> QED
  BY <1>1, <1>2, BasicInvariance, PTL DEF Spec, Play!Spec

-----------------------------------------------------------------------------
(* The drift the backend shows.  A node's exact clock stands at base for   *)
(* packet 0 and adds PeriodNum parts of a tick for each; Excess is how far *)
(* ahead of it a packet is stamped.  A received packet is behind by less   *)
(* than a tick, of PeriodDen parts; silence is ahead, by Cut parts for     *)
(* each packet that its time is counted back.                              *)

Excess(p, base) == (p.tsf - base) * PeriodDen - p.seq * PeriodNum

Slack == PeriodDen - 1

Cut == PeriodNum - PacketPeriod * PeriodDen

Timed(p, base) == p.tsf = base + (p.seq * PeriodNum) \div PeriodDen

(* What is assumed of a node for its clock not to be shown to drift.       *)
TimedBy(n, base) == \A p \in Sent[n] : Timed(p, base) /\ p.seq + 1 < SeqMod

LEMMA PeriodFacts ==
  /\ PeriodNum \in Nat /\ PeriodDen \in Nat /\ PeriodDen > 0
  /\ PacketPeriod \in Nat /\ PacketPeriod * PeriodDen \in Nat
  /\ Cut \in Nat /\ Slack \in Nat /\ Slack < PeriodDen
<1>1. /\ PeriodNum \in Nat /\ PeriodDen \in Nat /\ PeriodDen > 0 /\ PacketPeriod \in Nat
  BY SentAssumption, JitterBufferAssumption
<1>2. PacketPeriod * PeriodDen \in Nat
  BY <1>1
<1> QED
  BY <1>1, <1>2, PeriodAssumption DEF Cut, Slack

(* What \div returns.                                                      *)
LEMMA Division ==
  ASSUME NEW x \in Nat, NEW d \in Nat, d > 0
  PROVE  x \div d \in Nat /\ d * (x \div d) <= x /\ x < d * (x \div d) + d
OBVIOUS

(* Only received packets, and so those stamped, are bounded from above.    *)
LEMMA ReceivedExcess ==
  ASSUME NEW base \in Nat, NEW p, p.seq \in Nat, Timed(p, base)
  PROVE  /\ Excess(p, base) \in Int
         /\ -Slack <= Excess(p, base) /\ Excess(p, base) <= 0
<1> DEFINE x == p.seq * PeriodNum
           d == x \div PeriodDen
<1>1. x \in Nat
  BY PeriodFacts
<1>2. d \in Nat /\ PeriodDen * d <= x /\ x < PeriodDen * d + PeriodDen
  <2> HIDE DEF x
  <2> QED
    BY <1>1, PeriodFacts, Division
<1>3. p.tsf - base = d
  <2>1. p.tsf = base + d
    BY DEF Timed
  <2> HIDE DEF d
  <2> QED
    BY <1>2, <2>1
<1>4. Excess(p, base) = d * PeriodDen - x
  BY <1>3 DEF Excess
<1> HIDE DEF d, x
<1>5. d * PeriodDen = PeriodDen * d /\ PeriodDen * d \in Nat
  BY <1>2, PeriodFacts
<1> QED
  BY <1>1, <1>2, <1>4, <1>5, PeriodFacts DEF Slack

(* The time of silence, d packets before a received one, does not wrap.    *)
LEMMA SilenceDoesNotWrap ==
  ASSUME NEW base \in Nat, NEW p \in Packets, Timed(p, base), NEW d \in Nat, d <= p.seq
  PROVE  /\ (p.tsf - d * PacketPeriod) % TsfMod = p.tsf - d * PacketPeriod
         /\ p.tsf \in Nat /\ p.seq \in Nat /\ d * PacketPeriod \in Nat
<1> DEFINE x == p.seq * PeriodNum
           e == x \div PeriodDen
           y == d * PacketPeriod
           z == p.seq * PacketPeriod
<1>1. /\ p.seq \in Nat /\ p.tsf \in Nat /\ p.tsf < TsfMod /\ TsfMod \in Nat \ {0}
  BY JitterBufferAssumption DEF Packets, Seqs, Tsfs
<1>2. x \in Nat /\ y \in Nat /\ z \in Nat
  BY <1>1, PeriodFacts
<1>3. y <= z
  BY <1>1, PeriodFacts
<1>4. PeriodDen * z <= x
  <2>1. PeriodDen * z = p.seq * (PacketPeriod * PeriodDen)
    BY <1>1, PeriodFacts
  <2>2. p.seq * (PacketPeriod * PeriodDen) <= p.seq * PeriodNum
    BY <1>1, PeriodFacts, PeriodAssumption
  <2> QED
    BY <2>1, <2>2
<1>5. p.tsf = base + e
  BY DEF Timed
<1> HIDE DEF x
<1>6. e \in Nat /\ x < PeriodDen * e + PeriodDen
  BY <1>2, PeriodFacts, Division
<1> HIDE DEF e, y, z
<1>7. z <= e
  <2> SUFFICES ASSUME e + 1 <= z PROVE FALSE
    BY <1>2, <1>6
  <2>1. PeriodDen * (e + 1) <= PeriodDen * z
    BY <1>2, <1>6, PeriodFacts
  <2>2. PeriodDen * (e + 1) = PeriodDen * e + PeriodDen
    BY <1>6, PeriodFacts
  <2>3. PeriodDen * e \in Nat /\ PeriodDen * z \in Nat
    BY <1>2, <1>6, PeriodFacts
  <2> QED
    BY <1>2, <1>4, <1>6, <2>1, <2>2, <2>3, PeriodFacts
<1> DEFINE w == p.tsf - y
<1>8. w \in 0 .. TsfMod - 1
  BY <1>1, <1>2, <1>3, <1>5, <1>6, <1>7
<1> HIDE DEF w
<1>9. w % TsfMod = w
  <2>1. w = TsfMod * 0 + w /\ w \in Int /\ 0 \in Int
    BY <1>1, <1>8
  <2> QED
    BY <1>1, <1>8, <2>1, Single!ModUnique, JitterBufferAssumption
<1> QED
  BY <1>1, <1>2, <1>9 DEF w, y

(* Silence is ahead of the packet it is counted back from, by the cuts.    *)
LEMMA SilenceExcess ==
  ASSUME NEW base \in Nat, NEW d \in Nat, NEW p, p.tsf \in Nat, p.seq \in Nat,
         NEW x, x.tsf = p.tsf - d * PacketPeriod, x.seq = p.seq - d
  PROVE  /\ Excess(x, base) = Excess(p, base) + d * Cut
         /\ d * Cut \in Nat
<1>0. PICK t \in Nat, s \in Nat : t = p.tsf /\ s = p.seq
  OBVIOUS
<1>1. /\ d * PacketPeriod \in Nat /\ d * PeriodNum \in Nat
      /\ (d * PacketPeriod) * PeriodDen = d * (PacketPeriod * PeriodDen)
      /\ d * (PacketPeriod * PeriodDen) \in Nat
  BY PeriodFacts
<1>2. d * Cut = d * PeriodNum - d * (PacketPeriod * PeriodDen)
  BY PeriodFacts DEF Cut
<1>3. (s - d) * PeriodNum = s * PeriodNum - d * PeriodNum /\ s * PeriodNum \in Nat
  BY PeriodFacts
<1>4. ((t - d * PacketPeriod) - base) * PeriodDen
        = (t - base) * PeriodDen - (d * PacketPeriod) * PeriodDen
  <2>1. PICK y \in Nat : y = d * PacketPeriod
    BY <1>1
  <2>2. ((t - y) - base) * PeriodDen = (t - base) * PeriodDen - y * PeriodDen
    BY PeriodFacts
  <2> QED
    BY <2>1, <2>2
<1>5. (t - base) * PeriodDen \in Int
  BY PeriodFacts
<1>6. d * Cut \in Nat
  BY PeriodFacts
<1>7. ((t - d * PacketPeriod) - base) * PeriodDen - (s - d) * PeriodNum
        = ((t - base) * PeriodDen - s * PeriodNum) + d * Cut
  BY <1>1, <1>2, <1>3, <1>4, <1>5, <1>6
<1> QED
  BY <1>0, <1>6, <1>7 DEF Excess

-----------------------------------------------------------------------------
(* A node's stream, of what it sends, S: its buffer j, what was popped of  *)
(* it, q, and whether a run is in progress, r.                             *)

Stored(j, S) == \A s \in Buffered(j) : j.buffer[s] \in S /\ j.buffer[s].seq = s

(* Where the play position is, in a run and before one.                    *)
Position(j, q, r) ==
  /\ ~j.buffering => \A s \in Buffered(j) : j.next_play_seq <= s
  /\ (~j.buffering /\ r = 0) => j.next_play_seq \in Buffered(j)
  /\ r = 1 => q # <<>> /\ ~j.buffering /\ j.next_play_seq = Last(q).seq + 1
  /\ (r = 1 /\ Last(q).silent) => Buffered(j) # {}
  /\ (r = 0 /\ q # <<>>) => ~Last(q).silent

(* Silence is between packets, at most one number from each neighbour.     *)
Neighbours(q, S) ==
  /\ \A i \in DOMAIN q : ~q[i].silent => q[i] \in S
  /\ \A i \in DOMAIN q : q[i].silent => i > 1 /\ q[i].seq = q[i - 1].seq + 1
  /\ \A i \in DOMAIN q : (q[i].silent /\ i + 1 \in DOMAIN q) => q[i + 1].seq = q[i].seq + 1

Silences(q) == Cardinality({i \in DOMAIN q : q[i].silent})

(* The silence that is still to be popped before the next packet.          *)
Owed(j, q, r) == IF r = 1 /\ Last(q).silent THEN Min(Buffered(j)) - j.next_play_seq ELSE 0

(* No packet popped is further ahead than all the silence of the stream    *)
(* puts it.                                                                *)
Stamps(j, q, r, base) ==
  \A i \in DOMAIN q : /\ -Slack <= Excess(q[i], base)
                      /\ Excess(q[i], base) <= (Silences(q) + Owed(j, q, r)) * Cut

Stream(j, q, r, S, base) ==
  Stored(j, S) /\ Position(j, q, r) /\ Neighbours(q, S) /\ Stamps(j, q, r, base)

LEMMA AppendedLast ==
  ASSUME NEW q \in Seq(Packets), NEW x \in Packets
  PROVE  /\ Append(q, x) \in Seq(Packets) /\ Append(q, x) # <<>>
         /\ Len(q) \in Nat /\ DOMAIN q = 1 .. Len(q) /\ DOMAIN Append(q, x) = 1 .. Len(q) + 1
         /\ Len(Append(q, x)) = Len(q) + 1
         /\ Last(Append(q, x)) = x /\ Append(q, x)[Len(q) + 1] = x
         /\ \A i \in 1 .. Len(q) : Append(q, x)[i] = q[i]
         /\ q = <<>> <=> Len(q) = 0
<1>1. /\ Append(q, x) \in Seq(Packets) /\ Append(q, x) # <<>>
      /\ Len(Append(q, x)) = Len(q) + 1
      /\ Append(q, x)[Len(q) + 1] = x
      /\ \A i \in 1 .. Len(q) : Append(q, x)[i] = q[i]
  BY AppendProperties
<1>2. Len(q) \in Nat /\ DOMAIN q = 1 .. Len(q) /\ (q = <<>> <=> Len(q) = 0)
  OBVIOUS
<1>3. DOMAIN Append(q, x) = 1 .. Len(q) + 1
  BY <1>1
<1> QED
  BY <1>1, <1>2, <1>3 DEF Last

(* One more packet popped is at most one more of silence.                  *)
LEMMA SilencesCount ==
  ASSUME NEW q \in Seq(Packets), NEW x \in Packets
  PROVE  /\ Silences(q) \in Nat
         /\ Silences(Append(q, x)) = Silences(q) + (IF x.silent THEN 1 ELSE 0)
<1> DEFINE k == Len(q) + 1
           S == {i \in DOMAIN q : q[i].silent}
           T == {i \in DOMAIN Append(q, x) : Append(q, x)[i].silent}
<1>1. /\ Len(q) \in Nat /\ DOMAIN q = 1 .. Len(q) /\ DOMAIN Append(q, x) = 1 .. Len(q) + 1
      /\ Append(q, x)[k] = x
      /\ \A i \in 1 .. Len(q) : Append(q, x)[i] = q[i]
  BY AppendedLast
<1>2. DOMAIN Append(q, x) = DOMAIN q \cup {k} /\ k \notin DOMAIN q
  BY <1>1
<1>3. IsFiniteSet(S) /\ Cardinality(S) \in Nat
  <2>1. IsFiniteSet(DOMAIN q)
    BY <1>1, FS_Interval
  <2>2. S \subseteq DOMAIN q
    OBVIOUS
  <2> QED
    BY <2>1, <2>2, FS_Subset, FS_CardinalityType
<1>4. k \notin S
  BY <1>2
<1>5. Silences(q) = Cardinality(S) /\ Silences(Append(q, x)) = Cardinality(T)
  BY DEF Silences
<1>6. CASE x.silent
  <2>1. T = S \cup {k}
    BY <1>1, <1>2, <1>6
  <2> HIDE DEF S, T, k
  <2>2. Cardinality(T) = Cardinality(S) + 1
    BY <1>3, <1>4, <2>1, FS_AddElement
  <2> QED
    BY <1>3, <1>5, <1>6, <2>2
<1>7. CASE ~x.silent
  <2>1. T = S
    BY <1>1, <1>2, <1>7
  <2> HIDE DEF S, T, k
  <2>2. PICK c \in Nat : c = Cardinality(S)
    BY <1>3
  <2>3. Silences(q) = c /\ Silences(Append(q, x)) = c
    BY <1>5, <2>1, <2>2
  <2> QED
    BY <1>7, <2>3
<1> QED
  BY <1>6, <1>7

(* The least of the buffered sequence numbers.                             *)
LEMMA LeastBuffered ==
  ASSUME NEW S \in SUBSET Seqs, S # {}
  PROVE  Min(S) \in S /\ Min(S) \in Nat /\ \A k \in S : Min(S) <= k
<1>1. S \in SUBSET Nat
  BY JitterBufferAssumption DEF Seqs
<1>2. \E m \in S : \A k \in S : m <= k
  BY ONLY <1>1, S # {}, Single!LeastExists, JitterBufferAssumption, SamePeriod
<1>3. Min(S) \in S /\ \A k \in S : Min(S) <= k
  BY <1>2 DEF Min
<1> QED
  BY <1>1, <1>3

(* A packet stored starts the play-out at the lowest, or leaves the        *)
(* position in front of everything.                                        *)
LEMMA StreamPush ==
  ASSUME NEW j \in Buffers, NEW q, NEW S \in SUBSET Packets, NEW base,
         NEW p \in S, Stream(j, q, 0, S, base)
  PROVE  Stream(Push(j, p), q, 0, S, base)
<1> DEFINE stored == Store(j.buffer, p)
           low == Min(DOMAIN stored)
           k == Push(j, p)
<1>1. /\ k \in Buffers
      /\ \A s \in Buffered(k) : \/ s = p.seq /\ k.buffer[s] = p
                                \/ s \in Buffered(j) /\ k.buffer[s] = j.buffer[s]
  BY PushFacts
<1>2. Stored(k, S)
  BY <1>1 DEF Stored, Stream
<1>3. /\ DOMAIN stored = Buffered(j) \cup {p.seq} /\ p.seq \in Seqs
      /\ j.next_play_seq \in Seqs /\ j.buffering \in BOOLEAN
      /\ Buffered(j) \in SUBSET Seqs
  BY BuffersAreBuffers DEF Store, Buffered, Packets, Buffers, IsJitterBuffer
<1>4. low \in DOMAIN stored /\ \A s \in DOMAIN stored : low <= s
  <2>1. DOMAIN stored \in SUBSET Seqs /\ DOMAIN stored # {}
    BY <1>3
  <2> HIDE DEF stored
  <2> QED
    BY <2>1, LeastBuffered
<1>5. \/ k = j
      \/ /\ ~j.buffering /\ ~(p.seq < j.next_play_seq)
         /\ k = [buffer |-> stored, buffering |-> FALSE, next_play_seq |-> j.next_play_seq]
      \/ /\ j.buffering
         /\ k = [buffer |-> stored, buffering |-> FALSE, next_play_seq |-> low]
      \/ /\ j.buffering
         /\ \E m : k = [buffer |-> stored, buffering |-> TRUE, next_play_seq |-> m]
  <2> HIDE DEF stored, low
  <2> DEFINE enough == Span(DOMAIN stored) >= TargetBufferSize
  <2>1. CASE IsLate(j, p.seq)
    BY <2>1 DEF Push
  <2>2. CASE ~IsLate(j, p.seq) /\ ~j.buffering
    BY <1>3, <2>2 DEF Push, IsLate, stored
  <2>3. CASE j.buffering /\ enough
    BY <1>3, <2>3 DEF Push, IsLate, stored, low
  <2>4. CASE j.buffering /\ ~enough /\ Buffered(j) = {}
    BY <1>3, <2>4 DEF Push, IsLate, stored, low
  <2>5. CASE j.buffering /\ ~enough /\ Buffered(j) # {}
    BY <1>3, <2>5 DEF Push, IsLate, stored, low
  <2> QED
    BY <1>3, <2>1, <2>2, <2>3, <2>4, <2>5
<1> HIDE DEF k, stored, low
<1>6. Position(k, q, 0)
  <2>1. CASE k = j
    BY <2>1 DEF Stream
  <2>2. CASE /\ ~j.buffering /\ ~(p.seq < j.next_play_seq)
             /\ k = [buffer |-> stored, buffering |-> FALSE, next_play_seq |-> j.next_play_seq]
    <3>1. Buffered(k) = DOMAIN stored /\ ~k.buffering /\ k.next_play_seq = j.next_play_seq
      BY <2>2 DEF Buffered
    <3>2. j.next_play_seq <= p.seq
      BY <1>3, <2>2, JitterBufferAssumption DEF Seqs
    <3> QED
      BY <1>3, <2>2, <3>1, <3>2 DEF Stream, Position
  <2>3. CASE k = [buffer |-> stored, buffering |-> FALSE, next_play_seq |-> low]
    <3>1. Buffered(k) = DOMAIN stored /\ ~k.buffering /\ k.next_play_seq = low
      BY <2>3 DEF Buffered
    <3> QED
      BY <1>4, <3>1 DEF Stream, Position
  <2>4. CASE \E m : k = [buffer |-> stored, buffering |-> TRUE, next_play_seq |-> m]
    BY <2>4 DEF Stream, Position
  <2> QED
    BY <1>5, <2>1, <2>2, <2>3, <2>4
<1>7. Stamps(k, q, 0, base)
  BY DEF Stream, Stamps, Owed
<1> QED
  BY <1>2, <1>6, <1>7 DEF Stream, k

(* A run that ends leaves a received packet behind.                        *)
LEMMA StreamDry ==
  ASSUME NEW j \in Buffers, NEW q, NEW r \in {0, 1}, NEW S, NEW base,
         IsUnderrun(j), Stream(j, q, r, S, base)
  PROVE  Stream(AfterUnderrun(j), q, 0, S, base)
<1> DEFINE k == AfterUnderrun(j)
<1>1. Buffered(j) = {} /\ Buffered(k) = {} /\ k.buffering
  BY DEF IsUnderrun, AfterUnderrun, Buffered
<1>2. r = 1 /\ ~Last(q).silent
  BY <1>1 DEF IsUnderrun, Stream, Position
<1>3. Owed(j, q, r) = 0 /\ Owed(k, q, 0) = 0
  BY <1>2 DEF Owed
<1> HIDE DEF k
<1>4. Stamps(k, q, 0, base)
  BY <1>3 DEF Stream, Stamps
<1>5. Position(k, q, 0)
  BY <1>1, <1>2 DEF Position
<1>6. Stored(k, S)
  BY <1>1 DEF Stored
<1> QED
  BY <1>4, <1>5, <1>6 DEF Stream, k

LEMMA CutsAdd ==
  ASSUME NEW c \in Nat, NEW d \in Nat
  PROVE  /\ c * Cut \in Nat /\ d * Cut \in Nat
         /\ c <= d => c * Cut <= d * Cut
BY PeriodFacts

LEMMA ExcessIsInt ==
  ASSUME NEW p \in Packets, NEW base \in Nat
  PROVE  Excess(p, base) \in Int
<1>1. p.tsf \in Int /\ p.seq \in Int
  BY JitterBufferAssumption DEF Packets, Seqs, Tsfs
<1>2. (p.tsf - base) * PeriodDen \in Int /\ p.seq * PeriodNum \in Int
  BY <1>1, PeriodFacts
<1> QED
  BY <1>2 DEF Excess

(* The bound on the stamps, with o packets of silence owed, only grows.    *)
LEMMA StampsGrow ==
  ASSUME NEW q \in Seq(Packets), NEW x \in Packets, NEW base \in Nat,
         NEW o \in Nat, NEW o2 \in Nat,
         Silences(q) + o <= Silences(Append(q, x)) + o2,
         \A i \in DOMAIN q : /\ -Slack <= Excess(q[i], base)
                             /\ Excess(q[i], base) <= (Silences(q) + o) * Cut,
         -Slack <= Excess(x, base),
         Excess(x, base) <= (Silences(Append(q, x)) + o2) * Cut
  PROVE  \A i \in DOMAIN Append(q, x) :
           /\ -Slack <= Excess(Append(q, x)[i], base)
           /\ Excess(Append(q, x)[i], base) <= (Silences(Append(q, x)) + o2) * Cut
<1>1. Silences(q) + o \in Nat /\ Silences(Append(q, x)) + o2 \in Nat
  <2>1. Silences(q) \in Nat /\ Silences(Append(q, x)) \in Nat
    BY SilencesCount, AppendedLast
  <2> QED
    BY <2>1
<1>2. PICK a \in Nat, b \in Nat : a = Silences(q) + o /\ b = Silences(Append(q, x)) + o2
  BY <1>1
<1>3. a * Cut <= b * Cut /\ a * Cut \in Nat /\ b * Cut \in Nat
  BY <1>2, CutsAdd
<1>4. ASSUME NEW i \in DOMAIN Append(q, x)
      PROVE  /\ -Slack <= Excess(Append(q, x)[i], base)
             /\ Excess(Append(q, x)[i], base) <= b * Cut
  <2>1. CASE i \in DOMAIN q
    <3>1. Append(q, x)[i] = q[i] /\ q[i] \in Packets
      BY <2>1, AppendedLast
    <3>2. Excess(q[i], base) \in Int /\ -Slack <= Excess(q[i], base)
          /\ Excess(q[i], base) <= a * Cut
      BY <1>2, <2>1, <3>1, ExcessIsInt
    <3>3. PICK e \in Int : e = Excess(q[i], base)
      BY <3>2
    <3>4. -Slack <= e /\ e <= b * Cut
      <4>1. PICK u \in Nat, v \in Nat : u = a * Cut /\ v = b * Cut
        BY <1>3
      <4>2. -Slack <= e /\ e <= u /\ u <= v
        BY <1>3, <3>2, <3>3, <4>1
      <4>3. e <= v
        BY ONLY <4>2, e \in Int, u \in Nat, v \in Nat
      <4> QED
        BY <4>1, <4>2, <4>3
    <3> QED
      BY <3>1, <3>3, <3>4
  <2>2. CASE i \notin DOMAIN q
    <3>1. Append(q, x)[i] = x
      BY <1>4, <2>2, AppendedLast
    <3> QED
      BY <1>2, <3>1
  <2> QED
    BY <2>1, <2>2
<1> QED
  BY <1>2, <1>4

(* A packet popped from the buffer is the next one, and was received.      *)
LEMMA PopOfStored ==
  ASSUME NEW j \in Buffers, NEW q \in Seq(Packets), NEW r \in {0, 1},
         NEW S \in SUBSET Packets, NEW base \in Nat,
         \A p \in S : ~p.silent /\ Timed(p, base) /\ p.seq + 1 < SeqMod,
         CanPop(j), Stream(j, q, r, S, base), j.next_play_seq \in Buffered(j)
  PROVE  LET x == Popped(j)
         IN  /\ x \in S /\ ~x.silent /\ x.seq = j.next_play_seq
             /\ x.seq + 1 < SeqMod /\ x.seq \in Nat
             /\ Owed(j, q, r) = 0
             /\ -Slack <= Excess(x, base) /\ Excess(x, base) <= 0
<1> DEFINE x == Popped(j)
<1>1. x = j.buffer[j.next_play_seq]
  BY DEF Popped
<1>2. x \in S /\ x.seq = j.next_play_seq
  BY <1>1 DEF Stream, Stored
<1>3. x.seq \in Nat /\ ~x.silent /\ Timed(x, base) /\ x.seq + 1 < SeqMod
  <2>1. x \in Packets /\ ~x.silent /\ Timed(x, base) /\ x.seq + 1 < SeqMod
    BY <1>2
  <2>2. x.seq \in Nat
    BY <2>1, JitterBufferAssumption DEF Packets, Seqs
  <2> QED
    BY <2>1, <2>2
<1>4. -Slack <= Excess(x, base) /\ Excess(x, base) <= 0
  BY <1>3, ReceivedExcess
<1>5. Owed(j, q, r) = 0
  <2>1. /\ Buffered(j) \in SUBSET Seqs
        /\ \A s \in Buffered(j) : j.next_play_seq <= s
    BY BuffersAreBuffers DEF IsJitterBuffer, Stream, Position, CanPop
  <2>2. Min(Buffered(j)) \in Buffered(j) /\ Min(Buffered(j)) <= j.next_play_seq
    BY <2>1, LeastBuffered
  <2>3. Min(Buffered(j)) = j.next_play_seq
    <3>1. j.next_play_seq <= Min(Buffered(j))
      BY <2>1, <2>2
    <3>2. Min(Buffered(j)) \in Int /\ j.next_play_seq \in Int
      BY <2>1, <2>2, JitterBufferAssumption DEF Seqs
    <3> QED
      BY <2>2, <3>1, <3>2
  <2> QED
    BY <1>2, <1>3, <2>3 DEF Owed
<1> QED
  BY <1>2, <1>3, <1>4, <1>5

(* Silence is popped inside a run, and is ahead of the clock by the cuts   *)
(* up to the next packet, d numbers on.                                    *)
LEMMA PopOfSilence ==
  ASSUME NEW j \in Buffers, NEW q \in Seq(Packets), NEW r \in {0, 1},
         NEW S \in SUBSET Packets, NEW base \in Nat,
         \A p \in S : ~p.silent /\ Timed(p, base) /\ p.seq + 1 < SeqMod,
         CanPop(j), Stream(j, q, r, S, base), j.next_play_seq \notin Buffered(j)
  PROVE  LET x == Popped(j)
         IN  /\ r = 1 /\ x.silent /\ x.seq = j.next_play_seq
             /\ x.seq + 1 < SeqMod /\ x.seq \in Nat
             /\ \E d \in Nat \ {0} :
                  /\ Min(Buffered(j)) = j.next_play_seq + d
                  /\ Owed(j, q, r) \in {0, d}
                  /\ -Slack <= Excess(x, base) /\ Excess(x, base) <= d * Cut
<1> DEFINE x == Popped(j)
           nps == j.next_play_seq
           next == Min(Buffered(j))
           y == j.buffer[next]
<1>1. /\ Buffered(j) \in SUBSET Seqs /\ Buffered(j) # {} /\ nps \in Seqs
      /\ \A s \in Buffered(j) : nps <= s
  BY BuffersAreBuffers DEF IsJitterBuffer, Stream, Position, CanPop
<1>2. next \in Buffered(j) /\ next \in Nat
  BY <1>1, LeastBuffered
<1>3. nps \in Nat /\ nps < next
  <2>1. nps \in Nat /\ nps <= next /\ nps # next
    BY <1>1, <1>2, JitterBufferAssumption DEF Seqs
  <2> QED
    BY <1>2, <2>1
<1>4. PICK d \in Nat \ {0} : d = next - nps /\ next = nps + d /\ d <= next
  <2>1. PICK a \in Nat, b \in Nat : a = nps /\ b = next
    BY <1>2, <1>3
  <2>2. a < b
    BY <1>3, <2>1
  <2>3. b - a \in Nat \ {0} /\ b = a + (b - a) /\ b - a <= b
    BY ONLY <2>2, a \in Nat, b \in Nat
  <2> QED
    BY <2>1, <2>3
<1>5. y \in S /\ y \in Packets /\ y.seq = next /\ Timed(y, base) /\ y.seq + 1 < SeqMod
  BY <1>2 DEF Stream, Stored
<1>6. x = [seq |-> nps, tsf |-> (y.tsf - d * PacketPeriod) % TsfMod, silent |-> TRUE]
  <2>1. Ahead(j) = Buffered(j)
    <3>1. \A s \in Buffered(j) : s \in Int /\ nps <= s /\ nps # s
      BY <1>1, JitterBufferAssumption DEF Seqs
    <3> QED
      BY <1>3, <3>1 DEF Ahead
  <2> QED
    BY <1>1, <1>4, <2>1 DEF Popped, Dummy, DummyTsf
<1>7. x.tsf = y.tsf - d * PacketPeriod /\ y.tsf \in Nat
  <2>1. (y.tsf - d * PacketPeriod) % TsfMod = y.tsf - d * PacketPeriod /\ y.tsf \in Nat
    <3> HIDE DEF y
    <3> QED
      BY <1>4, <1>5, SilenceDoesNotWrap
  <2> QED
    BY <1>6, <2>1
<1>8. Excess(x, base) = Excess(y, base) + d * Cut /\ d * Cut \in Nat
  <2>1. x.seq = next - d
    BY <1>2, <1>3, <1>4, <1>6
  <2> HIDE DEF x, y, next
  <2> QED
    BY <1>2, <1>5, <1>7, <2>1, SilenceExcess
<1>9. Excess(y, base) \in Int /\ -Slack <= Excess(y, base) /\ Excess(y, base) <= 0
  BY <1>2, <1>5, ReceivedExcess
<1>10. -Slack <= Excess(x, base) /\ Excess(x, base) <= d * Cut
  BY <1>8, <1>9, PeriodFacts
<1>11. Owed(j, q, r) \in {0, d}
  BY <1>4 DEF Owed
<1>12. x.seq + 1 < SeqMod
  BY <1>2, <1>3, <1>5, <1>6, JitterBufferAssumption
<1>13. r = 1
  BY DEF Stream, Position, CanPop
<1> QED
  BY <1>3, <1>4, <1>6, <1>10, <1>11, <1>12, <1>13

LEMMA NextSeqFacts ==
  ASSUME NEW s \in Nat, s + 1 < SeqMod
  PROVE  NextSeq(s) = s + 1
<1>1. s + 1 \in 0 .. SeqMod - 1 /\ s + 1 = SeqMod * 0 + (s + 1) /\ SeqMod \in Nat \ {0}
  BY JitterBufferAssumption
<1>2. PICK t \in Int : t = s + 1
  BY <1>1
<1>3. t % SeqMod = t
  BY <1>1, <1>2, Single!ModUnique, JitterBufferAssumption, 0 \in Int
<1> QED
  BY <1>2, <1>3 DEF NextSeq

(* What is popped next continues the stream.                               *)
LEMMA NeighboursPop ==
  ASSUME NEW q \in Seq(Packets), NEW x \in Packets, NEW S,
         Neighbours(q, S), ~x.silent => x \in S,
         q # <<>> => x.seq = Last(q).seq + 1 \/ (~x.silent /\ ~Last(q).silent),
         x.silent => q # <<>>
  PROVE  Neighbours(Append(q, x), S)
<1> DEFINE k == Len(q) + 1
           u == Append(q, x)
<1>1. /\ Len(q) \in Nat /\ DOMAIN q = 1 .. Len(q) /\ DOMAIN u = 1 .. k
      /\ u[k] = x /\ (q = <<>> <=> Len(q) = 0)
      /\ \A i \in 1 .. Len(q) : u[i] = q[i]
  BY AppendedLast
<1>2. q # <<>> => Last(q) = q[k - 1] /\ k - 1 \in DOMAIN q /\ k > 1 /\ u[k - 1] = q[k - 1]
  <2>0. Len(q) \in Nat
    BY <1>1
  <2>1. PICK l \in Nat : l = Len(q)
    BY ONLY <2>0
  <2>2. q # <<>> => l >= 1
    BY <1>1, <2>1
  <2>3. k = l + 1 /\ k - 1 = l
    BY <2>1
  <2>4. q # <<>> => l \in DOMAIN q /\ k > 1
    BY <1>1, <2>1, <2>2, <2>3
  <2>5. q # <<>> => u[l] = q[l] /\ Last(q) = q[l]
    BY <1>1, <2>1, <2>4 DEF Last
  <2> HIDE DEF k
  <2> QED
    BY <2>3, <2>4, <2>5
<1>3. \A i \in DOMAIN u : i = k \/ i \in DOMAIN q
  BY <1>1
<1> HIDE DEF u, k
<1>4. ASSUME NEW i \in DOMAIN u, ~u[i].silent PROVE u[i] \in S
  BY <1>1, <1>3, <1>4 DEF Neighbours
<1>5. ASSUME NEW i \in DOMAIN u, u[i].silent PROVE i > 1 /\ u[i].seq = u[i - 1].seq + 1
  <2>1. CASE i = k
    BY <1>1, <1>2, <1>5, <2>1
  <2>2. CASE i \in DOMAIN q
    <3>1. i > 1 /\ q[i].seq = q[i - 1].seq + 1
      BY <1>1, <1>5, <2>2 DEF Neighbours
    <3>2. i - 1 \in 1 .. Len(q)
      BY <1>1, <2>2, <3>1
    <3> QED
      BY <1>1, <2>2, <3>1, <3>2
  <2> QED
    BY <1>3, <2>1, <2>2
<1>6. ASSUME NEW i \in DOMAIN u, u[i].silent, i + 1 \in DOMAIN u
      PROVE  u[i + 1].seq = u[i].seq + 1
  <2>1. i \in DOMAIN q /\ (i + 1 \in DOMAIN q \/ i + 1 = k)
    BY <1>1, <1>3, <1>6 DEF k
  <2>2. CASE i + 1 \in DOMAIN q
    BY <1>1, <1>6, <2>1, <2>2 DEF Neighbours
  <2>3. CASE i + 1 = k
    <3>1. i = k - 1 /\ q # <<>>
      BY <1>1, <2>1, <2>3 DEF k
    <3> QED
      BY <1>1, <1>2, <1>6, <2>3, <3>1
  <2> QED
    BY <2>1, <2>2, <2>3
<1> QED
  BY <1>4, <1>5, <1>6 DEF Neighbours, u

(* A pop puts the run on, with one packet of silence less owed if it made  *)
(* silence up.                                                             *)
LEMMA StreamPop ==
  ASSUME NEW j \in Buffers, NEW q \in Seq(Packets), NEW r \in {0, 1},
         NEW S \in SUBSET Packets, NEW base \in Nat,
         \A p \in S : ~p.silent /\ Timed(p, base) /\ p.seq + 1 < SeqMod,
         CanPop(j), Stream(j, q, r, S, base)
  PROVE  Stream(AfterPop(j), Append(q, Popped(j)), 1, S, base)
<1>0. PICK x \in Packets, k \in Buffers :
        /\ x = Popped(j) /\ k = AfterPop(j) /\ k.buffering = j.buffering
        /\ Buffered(k) = Buffered(j) \ {j.next_play_seq}
        /\ \A s \in Buffered(k) : k.buffer[s] = j.buffer[s]
  BY PopFacts
<1>1. PICK u : u = Append(q, x)
  OBVIOUS
<1>2. /\ u \in Seq(Packets) /\ u # <<>> /\ Last(u) = x
      /\ Silences(q) \in Nat /\ Silences(u) \in Nat
      /\ Silences(u) = Silences(q) + (IF x.silent THEN 1 ELSE 0)
  BY <1>1, AppendedLast, SilencesCount
<1>3. Stored(k, S)
  BY <1>0 DEF Stream, Stored
<1>4. x.seq = j.next_play_seq /\ x.seq + 1 < SeqMod /\ x.seq \in Nat
  BY <1>0, PopOfStored, PopOfSilence
<1>5. k.next_play_seq = x.seq + 1
  <2>1. k.next_play_seq = NextSeq(j.next_play_seq)
    BY <1>0 DEF AfterPop
  <2> QED
    BY <1>4, <2>1, NextSeqFacts
<1>6. /\ Buffered(j) \in SUBSET Seqs /\ Buffered(k) \in SUBSET Seqs
      /\ ~j.buffering /\ ~k.buffering /\ Buffered(j) # {}
      /\ \A s \in Buffered(j) : j.next_play_seq <= s
  BY <1>0, BuffersAreBuffers DEF IsJitterBuffer, Stream, Position, CanPop
<1>7. \A s \in Buffered(k) : k.next_play_seq <= s
  <2> SUFFICES ASSUME NEW s \in Buffered(k) PROVE k.next_play_seq <= s
    OBVIOUS
  <2>1. x.seq <= s /\ x.seq # s
    BY <1>0, <1>4, <1>6
  <2>2. s \in Int
    BY <1>6, JitterBufferAssumption DEF Seqs
  <2> QED
    BY <1>4, <1>5, <2>1, <2>2
<1>8. Neighbours(u, S)
  <2>1. Neighbours(q, S) /\ (r = 1 => q # <<>> /\ j.next_play_seq = Last(q).seq + 1)
        /\ ((r = 0 /\ q # <<>>) => ~Last(q).silent)
    BY DEF Stream, Position
  <2>2. (~x.silent => x \in S) /\ (x.silent => r = 1)
    BY <1>0, PopOfStored, PopOfSilence
  <2> QED
    BY <1>1, <1>4, <2>1, <2>2, NeighboursPop
<1>9. x.silent => Buffered(k) # {}
  BY <1>0, <1>6, PopOfStored
<1>10. Position(k, u, 1)
  BY <1>2, <1>5, <1>6, <1>7, <1>9 DEF Position
<1>11. Stamps(k, u, 1, base)
  <2>1. \A i \in DOMAIN q : /\ -Slack <= Excess(q[i], base)
                            /\ Excess(q[i], base) <= (Silences(q) + Owed(j, q, r)) * Cut
    BY DEF Stream, Stamps
  <2>2. CASE j.next_play_seq \in Buffered(j)
    <3>1. /\ ~x.silent /\ Owed(j, q, r) = 0
          /\ -Slack <= Excess(x, base) /\ Excess(x, base) <= 0
      <4>1. LET y == Popped(j)
            IN  /\ ~y.silent /\ Owed(j, q, r) = 0
                /\ -Slack <= Excess(y, base) /\ Excess(y, base) <= 0
        BY <2>2, PopOfStored
      <4> QED
        BY <1>0, <4>1
    <3>2. Owed(k, u, 1) = 0
      BY <1>2, <3>1 DEF Owed
    <3>3. PICK c \in Nat : c = Silences(q) /\ c = Silences(u)
      BY <1>2, <3>1
    <3>4. c * Cut \in Nat /\ Excess(x, base) \in Int
      BY CutsAdd, ExcessIsInt
    <3>5. Silences(q) + 0 <= Silences(Append(q, x)) + 0 /\ Excess(x, base) <= (c + 0) * Cut
      BY <1>1, <3>1, <3>3, <3>4
    <3> QED
      BY <1>1, <2>1, <3>1, <3>2, <3>3, <3>5, StampsGrow, 0 \in Nat DEF Stamps
  <2>3. CASE j.next_play_seq \notin Buffered(j)
    <3>1. PICK d \in Nat \ {0} :
            /\ x.silent
            /\ Min(Buffered(j)) = j.next_play_seq + d
            /\ Owed(j, q, r) \in {0, d}
            /\ -Slack <= Excess(x, base) /\ Excess(x, base) <= d * Cut
      BY <1>0, <2>3, PopOfSilence
    <3>2. Buffered(k) = Buffered(j)
      BY <1>0, <2>3
    <3>3. Owed(k, u, 1) = d - 1 /\ d - 1 \in Nat
      BY <1>2, <1>4, <1>5, <3>1, <3>2 DEF Owed
    <3>4. PICK c \in Nat, o \in Nat, e \in Nat :
            /\ c = Silences(q) /\ Silences(u) = c + 1
            /\ o = Owed(j, q, r) /\ o <= d /\ e = d - 1
      BY <1>2, <3>1, <3>3
    <3>5. (c + 1) + e = c + d /\ c + o <= c + d /\ c + d \in Nat /\ d <= c + d
      <4>1. o <= d /\ e = d - 1
        BY <3>4
      <4> QED
        BY ONLY <4>1, c \in Nat, o \in Nat, e \in Nat, d \in Nat \ {0}
    <3>6. Excess(x, base) <= ((c + 1) + e) * Cut
      <4>1. PICK b \in Nat : b = c + d /\ d <= b
        BY <3>5
      <4>2. d * Cut <= b * Cut /\ d * Cut \in Nat /\ b * Cut \in Nat
        BY <4>1, CutsAdd, d \in Nat
      <4>3. PICK v \in Int, y \in Nat, z \in Nat :
              v = Excess(x, base) /\ y = d * Cut /\ z = b * Cut
        BY <4>2, ExcessIsInt
      <4>4. v <= y /\ y <= z
        BY <3>1, <4>2, <4>3
      <4>5. v <= z
        BY ONLY <4>4, v \in Int, y \in Nat, z \in Nat
      <4> QED
        BY <3>5, <4>1, <4>3, <4>5
    <3>7. \A i \in DOMAIN q : /\ -Slack <= Excess(q[i], base)
                              /\ Excess(q[i], base) <= (Silences(q) + o) * Cut
      BY <2>1, <3>4
    <3>8. /\ Silences(q) + o <= Silences(Append(q, x)) + e
          /\ Excess(x, base) <= (Silences(Append(q, x)) + e) * Cut
      BY <1>1, <3>4, <3>5, <3>6
    <3>9. \A i \in DOMAIN u : /\ -Slack <= Excess(u[i], base)
                              /\ Excess(u[i], base) <= (Silences(u) + e) * Cut
      BY <1>1, <3>1, <3>7, <3>8, StampsGrow
    <3> QED
      BY <3>3, <3>4, <3>9 DEF Stamps
  <2> QED
    BY <2>2, <2>3
<1> QED
  BY <1>0, <1>1, <1>3, <1>8, <1>10, <1>11 DEF Stream

LEMMA StreamMoves ==
  ASSUME NEW j \in Buffers, NEW q \in Seq(Packets), NEW r \in {0, 1},
         NEW S \in SUBSET Packets, NEW base \in Nat, NEW j2, NEW q2, NEW r2,
         \A p \in S : ~p.silent /\ Timed(p, base) /\ p.seq + 1 < SeqMod,
         Stream(j, q, r, S, base), Moved(j, q, r, j2, q2, r2, S)
  PROVE  Stream(j2, q2, r2, S, base)
<1>1. CASE j2 = j /\ q2 = q /\ r2 = r
  BY <1>1
<1>2. CASE \E p \in S : r = 0 /\ r2 = 0 /\ q2 = q /\ j2 = Push(j, p)
  BY <1>2, StreamPush
<1>3. CASE CanPop(j) /\ j2 = AfterPop(j) /\ q2 = Append(q, Popped(j)) /\ r2 = 1
  BY <1>3, StreamPop
<1>4. CASE IsUnderrun(j) /\ j2 = AfterUnderrun(j) /\ q2 = q /\ r2 = 0
  BY <1>4, StreamDry
<1> QED
  BY <1>1, <1>2, <1>3, <1>4 DEF Moved

-----------------------------------------------------------------------------
(* What the backend shows of a node whose last datagram is a, when m of    *)
(* them have set the baseline anew and s packets of silence were popped:   *)
(* the drift stays with a's own excess, up to a tick for every baseline.   *)
Shown(stats, a, m, s, base) ==
  /\ stats.lastRawTsf = a.tsf /\ stats.lastRawSeq = a.seq
  /\ stats.latestTsf \in Int /\ stats.maxJitter \in Nat
  /\ -(m * Slack) <= stats.latestTsf - Excess(a, base)
  /\ stats.latestTsf - Excess(a, base) <= (m + 1) * Slack
  /\ stats.maxJitter <= Slack + s * Cut

LEMMA SlacksAdd ==
  ASSUME NEW m \in Nat
  PROVE  /\ m * Slack \in Nat /\ (m + 1) * Slack \in Nat /\ (m + 2) * Slack \in Nat
         /\ (m + 1) * Slack = m * Slack + Slack
         /\ (m + 2) * Slack = m * Slack + Slack + Slack
         /\ Slack \in Nat
BY PeriodFacts

(* The time between two packets, less that expected, is how much further   *)
(* ahead the second one is.                                                *)
LEMMA ExcessGrows ==
  ASSUME NEW a \in Packets, NEW p \in Packets, NEW base \in Nat
  PROVE  (p.tsf - a.tsf) * PeriodDen - (p.seq - a.seq) * PeriodNum
           = Excess(p, base) - Excess(a, base)
<1>1. PICK t \in Int, u \in Int, x \in Int, y \in Int :
        t = a.tsf /\ u = p.tsf /\ x = a.seq /\ y = p.seq
  BY JitterBufferAssumption DEF Packets, Seqs, Tsfs
<1>2. /\ (u - t) * PeriodDen = (u - base) * PeriodDen - (t - base) * PeriodDen
      /\ (u - base) * PeriodDen \in Int /\ (t - base) * PeriodDen \in Int
  BY PeriodFacts
<1>3. /\ (y - x) * PeriodNum = y * PeriodNum - x * PeriodNum
      /\ y * PeriodNum \in Int /\ x * PeriodNum \in Int
  BY PeriodFacts
<1>4. Excess(a, base) = (t - base) * PeriodDen - x * PeriodNum
  BY <1>1 DEF Excess
<1>5. Excess(p, base) = (u - base) * PeriodDen - y * PeriodNum
  BY <1>1 DEF Excess
<1> QED
  BY <1>1, <1>2, <1>3, <1>4, <1>5

LEMMA GreaterOf ==
  ASSUME NEW a \in Nat, NEW b \in Nat
  PROVE  Backend!Max({a, b}) \in {a, b}
<1>1. \E x \in {a, b} : \A y \in {a, b} : x >= y
  <2>1. CASE a >= b
    BY <2>1
  <2>2. CASE b >= a
    BY <2>2
  <2> QED
    BY <2>1, <2>2
<1> QED
  BY <1>1 DEF Backend!Max

LEMMA ShownFirst ==
  ASSUME NEW a \in Packets, NEW base \in Nat, NEW s \in Nat, Timed(a, base)
  PROVE  Shown(Backend!Baseline(a), a, 0, s, base)
<1>1. /\ Excess(a, base) \in Int /\ -Slack <= Excess(a, base) /\ Excess(a, base) <= 0
  BY ReceivedExcess, JitterBufferAssumption DEF Packets, Seqs
<1>2. 0 * Slack = 0 /\ (0 + 1) * Slack = Slack /\ s * Cut \in Nat /\ Slack \in Nat
  BY PeriodFacts, CutsAdd
<1>3. PICK z \in Int, e \in Int : z = Slack /\ e = Excess(a, base)
  BY <1>1, <1>2
<1>4. -0 <= 0 - e /\ 0 - e <= z
  BY <1>1, <1>3
<1> QED
  BY <1>2, <1>3, <1>4 DEF Shown, Backend!Baseline

(* A datagram adds what it is further ahead than the last one; one that    *)
(* sets the baseline anew adds nothing, and is received, as is the last.   *)
LEMMA ShownNext ==
  ASSUME NEW a \in Packets, NEW p \in Packets, NEW base \in Nat,
         NEW s \in Nat, NEW m \in Nat, NEW stats, Shown(stats, a, m, s, base),
         -Slack <= Excess(a, base), Excess(a, base) <= s * Cut,
         -Slack <= Excess(p, base), Excess(p, base) <= s * Cut,
         ~Backend!IsContinued(p.seq - a.seq) => Timed(a, base) /\ Timed(p, base)
  PROVE  Shown(Backend!OnMessage(stats, p), p,
               m + (IF Backend!IsContinued(p.seq - a.seq) THEN 0 ELSE 1), s, base)
<1> DEFINE new == Backend!OnMessage(stats, p)
<1>1. PICK v \in Int, w \in Int, c \in Nat, z \in Nat, l \in Int, y \in Nat :
        /\ v = Excess(a, base) /\ w = Excess(p, base) /\ c = s * Cut /\ z = Slack
        /\ l = stats.latestTsf /\ y = stats.maxJitter
  BY ExcessIsInt, CutsAdd, PeriodFacts DEF Shown
<1>2. PICK b \in Nat, b1 \in Nat, b2 \in Nat :
        /\ b = m * Slack /\ b1 = (m + 1) * Slack /\ b2 = (m + 2) * Slack
        /\ b1 = b + z /\ b2 = b + z + z
  BY <1>1, SlacksAdd
<1>3. -z <= v /\ v <= c /\ -z <= w /\ w <= c /\ -b <= l - v /\ l - v <= b1 /\ y <= z + c
  BY <1>1, <1>2 DEF Shown
<1>4. PICK d : d = Backend!DriftDelta(stats, p)
  OBVIOUS
<1>5. /\ new.lastRawTsf = p.tsf /\ new.lastRawSeq = p.seq /\ new.latestTsf = l + d
      /\ new.maxJitter = Backend!Max({y, Backend!Magnitude(d)})
  BY <1>1, <1>4 DEF Backend!OnMessage
<1>6. ASSUME d \in Int, -(z + c) <= d, d <= z + c
      PROVE  new.maxJitter \in Nat /\ new.maxJitter <= z + c
  <2>1. PICK e \in Nat : e = Backend!Magnitude(d) /\ e <= z + c
    <3>1. CASE d < 0
      <4>1. -d \in Nat /\ -d <= z + c
        BY <1>6, <3>1
      <4> QED
        BY <3>1, <4>1 DEF Backend!Magnitude
    <3>2. CASE ~(d < 0)
      <4>1. d \in Nat
        BY <1>6, <3>2
      <4> QED
        BY <1>6, <3>2, <4>1 DEF Backend!Magnitude
    <3> QED
      BY <3>1, <3>2
  <2>2. new.maxJitter \in {y, e}
    BY <1>5, <2>1, GreaterOf
  <2> QED
    BY <1>3, <2>1, <2>2
<1> HIDE DEF new
<1>7. CASE Backend!IsContinued(p.seq - a.seq)
  <2>1. d = (p.tsf - a.tsf) * PeriodDen - (p.seq - a.seq) * PeriodNum
    BY <1>4, <1>7 DEF Backend!DriftDelta, Backend!ExpectedTimeElapsed, Shown
  <2>2. d = w - v
    BY <1>1, <2>1, ExcessGrows
  <2>3. d \in Int /\ -(z + c) <= d /\ d <= z + c /\ l + d \in Int
        /\ -b <= (l + d) - w /\ (l + d) - w <= b1
    BY ONLY <1>3, <2>2, v \in Int, w \in Int, c \in Nat, z \in Nat, l \in Int,
       b \in Nat, b1 \in Nat
  <2>4. new.maxJitter \in Nat /\ new.maxJitter <= z + c
    BY <1>6, <2>3
  <2>5. m + 0 = m
    OBVIOUS
  <2>6. Shown(new, p, m, s, base)
    BY <1>1, <1>2, <1>5, <2>3, <2>4 DEF Shown
  <2> QED
    BY <1>7, <2>5, <2>6 DEF new
<1>8. CASE ~Backend!IsContinued(p.seq - a.seq)
  <2>1. d = 0
    BY <1>4, <1>8 DEF Backend!DriftDelta, Shown
  <2>2. v <= 0 /\ w <= 0
    <3>1. a.seq \in Nat /\ p.seq \in Nat
      BY JitterBufferAssumption DEF Packets, Seqs
    <3> QED
      BY <1>1, <1>8, <3>1, ReceivedExcess
  <2>3. d \in Int /\ -(z + c) <= d /\ d <= z + c /\ l + d \in Int
        /\ -b1 <= (l + d) - w /\ (l + d) - w <= b2
    BY ONLY <1>2, <1>3, <2>1, <2>2, v \in Int, w \in Int, c \in Nat, z \in Nat, l \in Int,
       b \in Nat, b1 \in Nat, b2 \in Nat
  <2>4. new.maxJitter \in Nat /\ new.maxJitter <= z + c
    BY <1>6, <2>3
  <2>5. (m + 1) + 1 = m + 2
    OBVIOUS
  <2>6. Shown(new, p, m + 1, s, base)
    BY <1>1, <1>2, <1>5, <2>3, <2>4, <2>5 DEF Shown
  <2> QED
    BY <1>8, <2>6 DEF new
<1> QED
  BY <1>7, <1>8

(* How often a list of datagrams sets the baseline anew.                   *)
Baselines(f) == Cardinality({i \in 2 .. Len(f) : ~Backend!IsContinued(f[i].seq - f[i - 1].seq)})

LEMMA BaselinesCount ==
  ASSUME NEW f \in Seq(Packets), NEW x \in Packets
  PROVE  /\ Baselines(f) \in Nat
         /\ f = <<>> => Baselines(Append(f, x)) = 0
         /\ f # <<>> => Baselines(Append(f, x)) =
                          Baselines(f) + (IF Backend!IsContinued(x.seq - Last(f).seq)
                                          THEN 0 ELSE 1)
<1> DEFINE S == {i \in 2 .. Len(f) : ~Backend!IsContinued(f[i].seq - f[i - 1].seq)}
           u == Append(f, x)
           T == {i \in 2 .. Len(u) : ~Backend!IsContinued(u[i].seq - u[i - 1].seq)}
<1>1. PICK l \in Nat : /\ l = Len(f) /\ Len(u) = l + 1 /\ u[l + 1] = x /\ (f = <<>> <=> l = 0)
                       /\ \A i \in 1 .. l : u[i] = f[i]
                       /\ Last(f) = f[l]
  <2>1. Last(f) = f[Len(f)]
    BY DEF Last
  <2> QED
    BY <2>1, AppendedLast
<1>2. IsFiniteSet(S) /\ Cardinality(S) \in Nat
  <2>1. IsFiniteSet(2 .. l) /\ S \subseteq 2 .. l
    BY <1>1, FS_Interval
  <2> HIDE DEF S
  <2> QED
    BY <2>1, FS_Subset, FS_CardinalityType
<1>3. Baselines(f) = Cardinality(S) /\ Baselines(u) = Cardinality(T)
  BY DEF Baselines
<1>4. CASE f = <<>>
  <2>1. T = {}
    BY <1>1, <1>4
  <2> QED
    BY <1>2, <1>3, <1>4, <2>1, FS_EmptySet
<1>5. CASE f # <<>>
  <2>1. l >= 1 /\ l + 1 \in 2 .. l + 1 /\ l + 1 \notin 2 .. l /\ (l + 1) - 1 = l /\ l \in 1 .. l
        /\ 2 .. l + 1 = (2 .. l) \cup {l + 1}
        /\ \A i \in 2 .. l : i \in 1 .. l /\ i - 1 \in 1 .. l
    BY <1>1, <1>5
  <2>2. \A i \in 2 .. l : u[i] = f[i] /\ u[i - 1] = f[i - 1]
    BY <1>1, <2>1
  <2>3. u[l + 1].seq - u[(l + 1) - 1].seq = x.seq - Last(f).seq
    BY <1>1, <2>1
  <2>4. l + 1 \notin S
    BY <1>1, <2>1
  <2>5. CASE Backend!IsContinued(x.seq - Last(f).seq)
    <3>1. T = S
      BY <1>1, <2>1, <2>2, <2>3, <2>5
    <3> HIDE DEF S, T
    <3>2. PICK c \in Nat : c = Cardinality(S)
      BY <1>2
    <3> QED
      BY <1>3, <1>5, <2>5, <3>1, <3>2
  <2>6. CASE ~Backend!IsContinued(x.seq - Last(f).seq)
    <3>1. T = S \cup {l + 1}
      BY <1>1, <2>1, <2>2, <2>3, <2>6
    <3> HIDE DEF S, T
    <3>2. Cardinality(T) = Cardinality(S) + 1
      BY <1>2, <2>4, <3>1, FS_AddElement
    <3> QED
      BY <1>2, <1>3, <1>5, <2>6, <3>2
  <2> QED
    BY <2>5, <2>6
<1> QED
  BY <1>4, <1>5

(* The next packet of the stream q at the backend, after f.                *)
LEMMA NextShown ==
  ASSUME NEW q \in Seq(Packets), NEW f \in Seq(Packets), NEW S \in SUBSET Packets,
         NEW base \in Nat, \A p \in S : ~p.silent /\ Timed(p, base),
         Len(f) + 1 \in 1 .. Len(q), \A k \in 1 .. Len(f) : f[k] = q[k],
         Neighbours(q, S),
         \A i \in DOMAIN q : /\ -Slack <= Excess(q[i], base)
                             /\ Excess(q[i], base) <= Silences(q) * Cut,
         NEW x, x = q[Len(f) + 1],
         NEW stats, f # <<>> => Shown(stats, Last(f), Baselines(f), Silences(q), base)
  PROVE  /\ x \in Packets
         /\ Shown(IF f = <<>> THEN Backend!Baseline(x) ELSE Backend!OnMessage(stats, x),
                  x, Baselines(Append(f, x)), Silences(q), base)
<1>1. PICK l \in Nat : l = Len(f) /\ (f = <<>> <=> l = 0)
  OBVIOUS
<1>2. DOMAIN q = 1 .. Len(q) /\ Len(q) \in Nat /\ l + 1 \in DOMAIN q
  BY <1>1
<1>3. x \in Packets /\ x = q[l + 1] /\ Silences(q) \in Nat
  <2>1. Silences(q) \in Nat
    BY SilencesCount, <1>2
  <2> QED
    BY <1>1, <1>2, <2>1
<1>4. PICK s \in Nat : s = Silences(q)
  BY <1>3
<1>5. CASE f = <<>>
  <2>1. ~x.silent
    BY <1>1, <1>2, <1>3, <1>5 DEF Neighbours
  <2>2. Timed(x, base)
    BY <1>1, <1>2, <1>3, <2>1 DEF Neighbours
  <2>3. Baselines(Append(f, x)) = 0
    BY <1>3, <1>5, BaselinesCount
  <2> QED
    BY <1>3, <1>4, <1>5, <2>2, <2>3, ShownFirst
<1>6. CASE f # <<>>
  <2>1. PICK a : a = q[l]
    OBVIOUS
  <2>2. l \in DOMAIN q /\ a \in Packets /\ a = Last(f) /\ (l + 1) - 1 = l
    BY <1>1, <1>2, <1>6, <2>1 DEF Last
  <2>3. ASSUME ~Backend!IsContinued(x.seq - a.seq)
        PROVE  Timed(a, base) /\ Timed(x, base)
    <3>1. ~(x.seq = a.seq + 1)
      <4> SUFFICES ASSUME x.seq = a.seq + 1 PROVE FALSE
        OBVIOUS
      <4>1. a.seq \in Int
        BY <2>2, JitterBufferAssumption DEF Packets, Seqs
      <4>2. x.seq - a.seq = 1
        BY <4>1
      <4> QED
        BY <2>3, <4>2 DEF Backend!IsContinued
    <3>2. ~x.silent
      <4>1. \A i \in DOMAIN q : q[i].silent => q[i].seq = q[i - 1].seq + 1
        BY DEF Neighbours
      <4>2. PICK i \in DOMAIN q : i = l + 1 /\ i - 1 = l /\ q[i] = x
        BY <1>2, <1>3, <2>2
      <4>3. q[i].silent => q[i].seq = q[i - 1].seq + 1
        BY <4>1
      <4> QED
        BY <2>1, <3>1, <4>2, <4>3
    <3>3. ~a.silent
      BY <1>2, <1>3, <2>1, <2>2, <3>1 DEF Neighbours
    <3> QED
      BY <1>2, <1>3, <2>1, <2>2, <3>2, <3>3 DEF Neighbours
  <2>4. /\ -Slack <= Excess(a, base) /\ Excess(a, base) <= s * Cut
        /\ -Slack <= Excess(x, base) /\ Excess(x, base) <= s * Cut
    BY <1>2, <1>3, <1>4, <2>1, <2>2
  <2>5. PICK m \in Nat : m = Baselines(f)
    BY <1>3, BaselinesCount
  <2>6. Shown(stats, a, m, s, base)
    BY <1>4, <1>6, <2>2, <2>5
  <2>7. Shown(Backend!OnMessage(stats, x), x,
              m + (IF Backend!IsContinued(x.seq - a.seq) THEN 0 ELSE 1), s, base)
    BY <1>3, <2>2, <2>3, <2>4, <2>6, ShownNext
  <2>8. Baselines(Append(f, x)) = m + (IF Backend!IsContinued(x.seq - a.seq) THEN 0 ELSE 1)
    BY <1>3, <1>6, <2>2, <2>5, BaselinesCount
  <2> QED
    BY <1>3, <1>4, <1>6, <2>7, <2>8
<1> QED
  BY <1>5, <1>6

HeardOf(n, f, s, bs, base) ==
  /\ n \in DOMAIN bs <=> f # <<>>
  /\ f # <<>> => Shown(bs[n], Last(f), Baselines(f), s, base)

(* More silence in the stream only loosens the bound on the jitter.        *)
LEMMA HeardOfLonger ==
  ASSUME NEW n, NEW f, NEW s \in Nat, NEW t \in Nat, s <= t, NEW bs, NEW base,
         HeardOf(n, f, s, bs, base)
  PROVE  HeardOf(n, f, t, bs, base)
<1>1. s * Cut \in Nat /\ t * Cut \in Nat /\ s * Cut <= t * Cut /\ Slack \in Nat
  BY CutsAdd, PeriodFacts
<1>2. ASSUME NEW y \in Nat, y <= Slack + s * Cut PROVE y <= Slack + t * Cut
  BY <1>1, <1>2
<1> QED
  BY <1>2 DEF HeardOf, Shown

Streams(n, base) == Stream(BufferOf(n), played[n], Live(n), Sent[n], base)

IsShown(n, base) == HeardOf(n, forwarded[n], Silences(played[n]), backend, base)

NoDrift == \A n \in Nodes, base \in Tsfs :
             TimedBy(n, base) => Streams(n, base) /\ IsShown(n, base)

LEMMA InitNoDrift == Init => NoDrift
<1> SUFFICES ASSUME Init, NEW n \in Nodes, NEW base \in Tsfs
             PROVE  Streams(n, base) /\ IsShown(n, base)
  BY DEF NoDrift
<1>1. /\ BufferOf(n) = NewJitterBuffer /\ played[n] = <<>> /\ forwarded[n] = <<>>
      /\ Live(n) = 0 /\ backend = [m \in {} |-> m]
  BY DEF Init, BufferOf, Live, InRun, Backend!NoStats
<1>2. Buffered(NewJitterBuffer) = {} /\ NewJitterBuffer.buffering
  BY DEF NewJitterBuffer, Buffered
<1>3. Stored(NewJitterBuffer, Sent[n])
  BY <1>2 DEF Stored
<1>4. Position(NewJitterBuffer, <<>>, 0)
  BY <1>2 DEF Position
<1>5. Neighbours(<<>>, Sent[n]) /\ Stamps(NewJitterBuffer, <<>>, 0, base)
  BY DEF Neighbours, Stamps
<1>6. Streams(n, base)
  BY <1>1, <1>3, <1>4, <1>5 DEF Streams, Stream
<1>7. IsShown(n, base)
  BY <1>1 DEF IsShown, HeardOf
<1> QED
  BY <1>6, <1>7

LEMMA StreamStep ==
  ASSUME Basic, [Next]_vars, NEW n \in Nodes, NEW base \in Tsfs, TimedBy(n, base),
         Streams(n, base)
  PROVE  Streams(n, base)'
<1>1. BufferOf(n) \in Buffers /\ played[n] \in Seq(Packets) /\ Live(n) \in {0, 1}
  BY NewIsBuffer DEF BufferOf, Live, Basic, Types
<1>2. Sent[n] \in SUBSET Packets /\ \A p \in Sent[n] : ~p.silent
  BY SentArePackets
<1>3. base \in Nat
  BY JitterBufferAssumption DEF Tsfs
<1>4. PICK S \in SUBSET Packets : S = Sent[n]
  BY <1>2
<1>5. \A p \in S : ~p.silent /\ Timed(p, base) /\ p.seq + 1 < SeqMod
  BY <1>2, <1>4 DEF TimedBy
<1>6. PICK j, q, r, j2, q2, r2 :
        /\ j = BufferOf(n) /\ q = played[n] /\ r = Live(n)
        /\ j2 = BufferOf(n)' /\ q2 = played[n]' /\ r2 = Live(n)'
  OBVIOUS
<1>7. Moved(j, q, r, j2, q2, r2, S) /\ Stream(j, q, r, S, base)
  BY <1>4, <1>6, NextMoves DEF Moves, Streams
<1>8. Stream(j2, q2, r2, S, base)
  BY <1>1, <1>3, <1>5, <1>6, <1>7, StreamMoves
<1> QED
  BY <1>4, <1>6, <1>8 DEF Streams

LEMMA ForwardShown ==
  ASSUME Basic, Forward, NEW n \in Nodes, NEW base \in Tsfs, TimedBy(n, base),
         Streams(n, base), IsShown(n, base), \A k \in Nodes : IsInOrder(k)
  PROVE  IsShown(n, base)'
<1>1. PICK f, q, m, x, bs : /\ f = forwarded[n] /\ q = played[n] /\ m = Head(batch).node
                           /\ x = Head(batch).packet /\ bs = backend
  OBVIOUS
<1>2. /\ Types /\ batch # <<>> /\ played' = played /\ undrained = {} /\ m \in Nodes
      /\ f \in Seq(Packets) /\ q \in Seq(Packets)
  BY <1>1, BatchHeadFacts DEF Forward, JbUnchanged, Basic, BatchInHand, Types
<1>3. CASE ~forwardOpen \/ m # n
  <2>1. /\ forwarded'[n] = f
        /\ n \in DOMAIN backend' <=> n \in DOMAIN bs
        /\ n \in DOMAIN bs => backend'[n] = bs[n]
    <3>1. CASE ~forwardOpen
      BY <1>1, <3>1 DEF Forward, SendSucceeds
    <3>2. CASE forwardOpen
      <4>1. /\ forwarded' = [forwarded EXCEPT ![m] = Append(@, x)]
            /\ backend' = Backend!Heard(backend, m, x)
        BY <1>1, <3>2 DEF Forward, SendSucceeds
      <4>2. forwarded'[n] = f
        BY <1>1, <1>2, <1>3, <3>2, <4>1 DEF Types
      <4> QED
        BY <1>1, <1>3, <3>2, <4>1, <4>2 DEF Backend!Heard
    <3> QED
      BY <3>1, <3>2
  <2>2. HeardOf(n, f, Silences(q), bs, base)
    BY <1>1 DEF IsShown
  <2>3. HeardOf(n, f, Silences(q), backend', base)
    BY <2>1, <2>2 DEF HeardOf
  <2> QED
    BY <1>1, <1>2, <2>1, <2>3 DEF IsShown
<1>4. CASE forwardOpen /\ m = n
  <2>1. forwarded'[n] = Append(f, x) /\ backend' = Backend!Heard(bs, n, x)
    BY <1>1, <1>2, <1>4 DEF Forward, SendSucceeds, Types
  <2>2. /\ Len(f) + 1 \in 1 .. Len(q) /\ q[Len(f) + 1] = x
        /\ \A k \in 1 .. Len(f) : f[k] = q[k]
    <3>1. InBatch(Head(batch).node, Len(forwarded[n])) /\ IsPrefix(n)
      BY <1>1, <1>4 DEF IsInOrder
    <3> QED
      BY <1>1, <1>2, <1>4, <3>1, HeadIsNext DEF IsPrefix
  <2>3. Live(n) = 0
    BY <1>2 DEF Live, InRun
  <2>4. PICK j, S : j = BufferOf(n) /\ S = Sent[n]
    OBVIOUS
  <2>5. Stream(j, q, 0, S, base)
    BY <1>1, <2>3, <2>4 DEF Streams
  <2>6. S \in SUBSET Packets /\ (\A p \in S : ~p.silent /\ Timed(p, base)) /\ base \in Nat
    <3>1. Sent[n] \in SUBSET Packets /\ \A p \in Sent[n] : ~p.silent
      BY SentArePackets
    <3>2. \A p \in Sent[n] : Timed(p, base)
      BY DEF TimedBy
    <3>3. base \in Nat
      BY JitterBufferAssumption DEF Tsfs
    <3> QED
      BY <2>4, <3>1, <3>2, <3>3
  <2>7. PICK s \in Nat : s = Silences(q)
    <3>1. Silences(q) \in Nat
      <4>1. x \in Packets
        BY <1>2, <2>2
      <4> QED
        BY <1>2, <4>1, SilencesCount
    <3> QED
      BY <3>1
  <2>8. Neighbours(q, S)
    BY <2>5 DEF Stream
  <2>9. \A i \in DOMAIN q : /\ -Slack <= Excess(q[i], base)
                            /\ Excess(q[i], base) <= Silences(q) * Cut
    <3>1. Owed(j, q, 0) = 0 /\ s + 0 = s
      BY DEF Owed
    <3> QED
      BY <2>5, <2>7, <3>1 DEF Stream, Stamps
  <2>10. HeardOf(n, f, s, bs, base)
    BY <1>1, <2>7 DEF IsShown
  <2>11. PICK stats : stats = bs[n] /\ (f # <<>> => Shown(stats, Last(f), Baselines(f), Silences(q), base))
    BY <2>7, <2>10 DEF HeardOf
  <2>12. /\ x \in Packets
         /\ Shown(IF f = <<>> THEN Backend!Baseline(x) ELSE Backend!OnMessage(stats, x),
                  x, Baselines(Append(f, x)), Silences(q), base)
    BY <1>2, <2>2, <2>6, <2>8, <2>9, <2>11, NextShown
  <2>13. /\ n \in DOMAIN backend'
         /\ backend'[n] = IF f = <<>> THEN Backend!Baseline(x) ELSE Backend!OnMessage(stats, x)
    BY <2>1, <2>10, <2>11 DEF Backend!Heard, HeardOf
  <2>14. Append(f, x) # <<>> /\ Last(Append(f, x)) = x
    BY <1>2, <2>12, AppendedLast
  <2>15. HeardOf(n, Append(f, x), s, backend', base)
    BY <2>7, <2>12, <2>13, <2>14 DEF HeardOf
  <2> QED
    BY <1>1, <1>2, <2>1, <2>7, <2>15 DEF IsShown
<1> QED
  BY <1>3, <1>4

LEMMA NextShows ==
  ASSUME Basic, [Next]_vars, NEW n \in Nodes, NEW base \in Tsfs, TimedBy(n, base),
         Streams(n, base), IsShown(n, base), \A k \in Nodes : IsInOrder(k)
  PROVE  IsShown(n, base)'
<1>1. CASE Forward
  BY <1>1, ForwardShown
<1>2. CASE DrainPop
  <2>1. PICK q, q2, j : q = played[n] /\ q2 = played[n]' /\ j = BufferOf(n)
    OBVIOUS
  <2>2. q \in Seq(Packets) /\ j \in Buffers /\ UNCHANGED <<backend, forwarded>>
    BY <1>2, <2>1, NewIsBuffer DEF DrainPop, Basic, Types, BufferOf
  <2>3. q2 = q \/ q2 = Append(q, Popped(j))
    BY <2>1, NextMoves DEF Moves, Moved
  <2>4. PICK x \in Packets : q2 = q \/ q2 = Append(q, x)
    BY <2>2, <2>3, PopFacts
  <2>5. Silences(q) \in Nat /\ Silences(q2) \in Nat /\ Silences(q) <= Silences(q2)
    <3>1. PICK c \in Nat, d \in Nat : /\ c = Silences(q) /\ d = Silences(Append(q, x))
                                    /\ d = c + (IF x.silent THEN 1 ELSE 0)
      <4>1. Silences(q) \in Nat /\ Silences(Append(q, x)) \in Nat
        BY <2>2, SilencesCount, AppendedLast
      <4> QED
        BY <2>2, <4>1, SilencesCount
    <3>2. c <= d
      BY <3>1
    <3>3. PICK v \in Nat : v = Silences(q2) /\ v \in {c, d}
      BY <2>4, <3>1
    <3>4. c <= v
      BY <3>2, <3>3
    <3> QED
      BY <3>1, <3>3, <3>4
  <2>6. HeardOf(n, forwarded[n], Silences(q), backend, base)
    BY <2>1 DEF IsShown
  <2>7. HeardOf(n, forwarded[n], Silences(q2), backend, base)
    BY <2>5, <2>6, HeardOfLonger
  <2> QED
    BY <2>1, <2>2, <2>7 DEF IsShown
<1>3. CASE ~Forward /\ ~DrainPop
  BY <1>3, OtherSteps DEF IsShown
<1> QED
  BY <1>1, <1>2, <1>3

LEMMA NextNoDrift ==
  Basic /\ (\A k \in Nodes : IsInOrder(k)) /\ NoDrift /\ [Next]_vars => NoDrift'
<1> SUFFICES ASSUME Basic, \A k \in Nodes : IsInOrder(k), NoDrift, [Next]_vars
             PROVE  NoDrift'
  OBVIOUS
<1>1. ASSUME NEW n \in Nodes, NEW base \in Tsfs, TimedBy(n, base)
      PROVE  Streams(n, base)' /\ IsShown(n, base)'
  <2>1. Streams(n, base) /\ IsShown(n, base)
    BY <1>1 DEF NoDrift
  <2> QED
    BY <1>1, <2>1, StreamStep, NextShows
<1> QED
  BY <1>1 DEF NoDrift, TimedBy, Timed

(* What NoDrift says of the backend's statistics is the property.          *)
LEMMA NoDriftIsTheProperty ==
  ASSUME Types, NoDrift, NEW n \in Nodes, IsPrefix(n), KeepsTime(n), NeverWraps(n),
         forwarded[n] # <<>>
  PROVE  /\ ~Last(forwarded[n]).silent =>
              Backend!Magnitude(backend[n].latestTsf) < PeriodDen * (1 + NewBaselines(n))
         /\ backend[n].maxJitter <
              PeriodDen + SilencePlayed(n) * (PeriodNum - PacketPeriod * PeriodDen)
<1>1. PICK base \in Tsfs : TimedBy(n, base)
  BY DEF KeepsTime, NeverWraps, TimedBy, Timed
<1>2. PICK f, q, stats : f = forwarded[n] /\ q = played[n] /\ stats = backend[n]
  OBVIOUS
<1>3. f \in Seq(Packets) /\ q \in Seq(Packets) /\ f # <<>> /\ base \in Nat
  BY <1>2, JitterBufferAssumption DEF Types, Tsfs
<1>4. PICK l \in Nat : l = Len(f) /\ l \in 1 .. l /\ l \in DOMAIN f /\ l \in DOMAIN q
  <2>1. PICK l \in Nat, k \in Nat : l = Len(f) /\ k = Len(q)
    BY <1>3
  <2>2. l # 0 /\ l <= k
    BY <1>2, <1>3, <2>1 DEF IsPrefix
  <2>3. l \in 1 .. l /\ l \in 1 .. k
    BY ONLY <2>2, l \in Nat, k \in Nat
  <2> QED
    BY <1>3, <2>1, <2>3
<1>5. Last(f) = q[l] /\ q[l] \in Packets
  <2>1. q[l] \in Packets
    BY <1>3, <1>4
  <2>2. Last(f) = f[l]
    BY <1>4 DEF Last
  <2>3. f[l] = q[l]
    BY <1>2, <1>4 DEF IsPrefix
  <2> QED
    BY <2>1, <2>2, <2>3
<1>6. PICK m \in Nat, s \in Nat : m = Baselines(f) /\ s = Silences(q)
  BY <1>3, <1>5, BaselinesCount, SilencesCount
<1>7. m = NewBaselines(n) /\ s = SilencePlayed(n)
  BY <1>2, <1>6 DEF NewBaselines, SilencePlayed, Baselines, Silences
<1>8. Shown(stats, q[l], m, s, base)
  BY <1>1, <1>2, <1>3, <1>5, <1>6 DEF NoDrift, IsShown, HeardOf
<1>9. stats.maxJitter < PeriodDen + s * Cut
  <2>1. PICK y \in Nat, z \in Nat, c \in Nat :
          y = stats.maxJitter /\ z = Slack /\ c = s * Cut
    BY <1>8, PeriodFacts, CutsAdd DEF Shown
  <2>2. y <= z + c /\ z < PeriodDen /\ PeriodDen \in Nat
    BY <1>8, <2>1, PeriodFacts DEF Shown
  <2>3. y < PeriodDen + c
    BY ONLY <2>2, y \in Nat, z \in Nat, c \in Nat
  <2> QED
    BY <2>1, <2>3
<1>10. ASSUME ~Last(f).silent
       PROVE  Backend!Magnitude(stats.latestTsf) < PeriodDen * (1 + m)
  <2>1. Timed(q[l], base)
    BY <1>1, <1>2, <1>4, <1>5, <1>10 DEF NoDrift, Streams, Stream, Neighbours, TimedBy
  <2>2. Excess(q[l], base) \in Int /\ -Slack <= Excess(q[l], base) /\ Excess(q[l], base) <= 0
    <3>1. PICK p : p = q[l]
      OBVIOUS
    <3>2. p.seq \in Nat
      BY <1>5, <3>1, JitterBufferAssumption DEF Packets, Seqs
    <3> QED
      BY <1>3, <2>1, <3>1, <3>2, ReceivedExcess
  <2>3. PICK e \in Int, t \in Int, z \in Nat, b \in Nat, b1 \in Nat :
          /\ e = Excess(q[l], base) /\ t = stats.latestTsf /\ z = Slack
          /\ b = m * Slack /\ b1 = (m + 1) * Slack /\ b1 = b + z
    <3>1. PICK z \in Nat, b \in Nat, b1 \in Nat :
            z = Slack /\ b = m * Slack /\ b1 = (m + 1) * Slack /\ b1 = b + z
      BY SlacksAdd
    <3>2. PICK e \in Int, t \in Int : e = Excess(q[l], base) /\ t = stats.latestTsf
      BY <1>8, <2>2 DEF Shown
    <3> QED
      BY <3>1, <3>2
  <2>4. -z <= e /\ e <= 0 /\ -b <= t - e /\ t - e <= b1
    BY <1>8, <2>2, <2>3 DEF Shown
  <2>5. -b1 <= t /\ t <= b1
    BY ONLY <2>3, <2>4, e \in Int, t \in Int, z \in Nat, b \in Nat, b1 \in Nat
  <2>6. b1 < PeriodDen * (1 + m)
    <3>1. (m + 1) * Slack = PeriodDen * (1 + m) - (m + 1)
      BY PeriodFacts DEF Slack
    <3>2. PICK y \in Nat : y = PeriodDen * (1 + m)
      BY PeriodFacts
    <3> QED
      BY <2>3, <3>1, <3>2
  <2>7. Backend!Magnitude(t) <= b1
    BY <2>5 DEF Backend!Magnitude
  <2>8. PICK y \in Nat, v \in Int : y = PeriodDen * (1 + m) /\ v = Backend!Magnitude(t)
    BY PeriodFacts DEF Backend!Magnitude
  <2>9. v < y
    BY <2>6, <2>7, <2>8
  <2> QED
    BY <2>3, <2>8, <2>9
<1> QED
  BY <1>2, <1>7, <1>9, <1>10 DEF Cut

(* The backend shows no drift of a node whose clock keeps time, whatever   *)
(* is lost, reordered or played twice and however the silence is stamped:  *)
(* a datagram adds to the drift shown what it is further ahead of the      *)
(* clock than the last one, so that the sum is how far ahead the last one  *)
(* is, and silence is ahead only by what was cut off the packets' time.    *)
THEOREM DriftIsReal == Spec => []NoFalseDrift
<1> DEFINE InOrder == \A k \in Nodes : IsInOrder(k)
<1>1. Basic /\ InOrder /\ NoDrift => NoFalseDrift
  BY NoDriftIsTheProperty DEF NoFalseDrift, Basic, IsInOrder
<1>2. Basic /\ InOrder /\ NoDrift /\ [Next]_vars => NoDrift'
  BY NextNoDrift
<1>3. Spec => []InOrder
  BY InOrderInvariance
<1> HIDE DEF InOrder
<1> QED
  BY <1>1, <1>2, <1>3, InitNoDrift, BasicInvariance, PTL DEF Spec
=============================================================================

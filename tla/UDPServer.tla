------------------------------ MODULE UDPServer ------------------------------
(***************************************************************************)
(* UDPServer: the thread that receives datagrams into the senders' jitter  *)
(* buffers, the thread that drains the buffers into a batch and then hands *)
(* the batch on without the mutex, and the main thread, which reports      *)
(* statistics and stops the server.                                        *)
(*                                                                         *)
(* The senders and the network are external: a sender's packets are in     *)
(* flight from the beginning, and each may arrive at any time, in any      *)
(* order, twice, or never.  The drain holds jb_mutex_ from WakeAndLock to  *)
(* Unlock, one step per pop(), so that everything which does not need the  *)
(* mutex happens in between.                                               *)
(***************************************************************************)
EXTENDS JitterBuffer, Sequences

CONSTANTS Sent,           (* the packets of each sender: node -> SUBSET Packets *)
          MaxDuplicates,  (* bound: datagrams the network delivers twice        *)
          MaxReports,     (* bound: periodic reports of the main thread         *)
          MaxRecvErrors,  (* bound: failing recvfrom calls, 0 or 1              *)
          PeriodNum, PeriodDen  \* the backend's packet period, a fraction

Nodes == DOMAIN Sent

ASSUME SentAssumption ==
  /\ Sent = [n \in Nodes |-> Sent[n]] /\ Nodes \subseteq Nat
  /\ \A n \in Nodes : Sent[n] \subseteq [seq : Seqs, tsf : Tsfs, silent : {FALSE}]
  /\ MaxDuplicates \in Nat /\ MaxReports \in Nat /\ MaxRecvErrors \in Nat
  /\ PeriodNum \in Nat /\ PeriodDen \in Nat \ {0}

(* The jitter buffer counts silence in whole ticks: 5333 of 16000 / 3.     *)
ASSUME PeriodAssumption == PacketPeriod * PeriodDen <= PeriodNum

VARIABLES
  inflight,        (* node -> its packets the network still holds             *)
  duplicates,      (* datagrams delivered twice so far                        *)
  running,         (* running_                                                *)
  socketOpen,      (* socket_fd_ >= 0                                         *)
  forwardOpen,     (* forward_socket_fd_ >= 0                                 *)
  rx,              (* recv_thread_: where it is and the datagram it holds     *)
  jitter_buffers,  (* jitter_buffers_: filled by the first packet of a node   *)
  jbPc,            (* jb_thread_: where it is; it holds jb_mutex_ in "drain"  *)
  undrained,       (* the rest of the loop over jitter_buffers_               *)
  batch,           (* packets_to_process, from the next one on                *)
  nodes,           (* NodeManager: nodes_                                     *)
  mainPc,          (* the main thread: running, or where in stop() it is      *)
  reports,         (* reports printed so far                                  *)
  backend,         (* server.js: its statistics of each node's datagrams      *)
  played,          (* history: node -> every packet popped, in order          *)
  forwarded        (* history: node -> every packet that sendto() took        *)

network  == <<inflight, duplicates>>
sockets  == <<running, socketOpen, forwardOpen>>
history  == <<backend, played, forwarded>>
vars == <<network, sockets, rx, jitter_buffers, jbPc, undrained, batch, nodes, mainPc,
          reports, history>>

NM == INSTANCE NodeManager
Backend == INSTANCE BackendStats

Idle == [pc |-> "call", node |-> 0, packet |-> [seq |-> 0, tsf |-> 0, silent |-> FALSE]]

Init ==
  /\ inflight = Sent
  /\ duplicates = 0
  /\ running = TRUE /\ socketOpen = TRUE /\ forwardOpen = TRUE
  /\ rx = Idle
  /\ jitter_buffers = [n \in {} |-> n]
  /\ jbPc = "sleep"
  /\ undrained = {}
  /\ batch = <<>>
  /\ nodes = NM!NoNodes
  /\ mainPc = "running"
  /\ reports = 0
  /\ backend = Backend!NoStats
  /\ played = [n \in Nodes |-> <<>>]
  /\ forwarded = [n \in Nodes |-> <<>>]

-----------------------------------------------------------------------------
(* recv_thread_: receiveLoop().                                            *)

(* recvfrom(socket_fd_): blocks, or fails at once on the descriptor -1     *)
(* that stop() leaves behind.                                              *)
CallRecvFrom ==
  /\ rx.pc = "call"
  /\ rx' = [rx EXCEPT !.pc = IF socketOpen THEN "recvfrom" ELSE "done"]
  /\ UNCHANGED <<network, sockets, jitter_buffers, jbPc, undrained, batch, nodes, mainPc,
                 reports, history>>

(* recvfrom() returns a datagram.  A thread blocked in recvfrom() stays    *)
(* blocked when stop() closes the descriptor (Linux), and a datagram that  *)
(* still arrives wakes it.                                                 *)
RecvFrom(n, p) ==
  /\ rx.pc = "recvfrom"
  /\ p \in inflight[n]
  /\ rx' = [pc |-> "push", node |-> n, packet |-> p]
  /\ \/ /\ inflight' = [inflight EXCEPT ![n] = @ \ {p}]
        /\ UNCHANGED duplicates
     \/ /\ duplicates < MaxDuplicates
        /\ duplicates' = duplicates + 1
        /\ UNCHANGED inflight
  /\ UNCHANGED <<sockets, jitter_buffers, jbPc, undrained, batch, nodes, mainPc, reports, history>>

(* recvfrom() fails: the loop breaks whether or not the server runs.       *)
RecvError ==
  /\ rx.pc = "recvfrom"
  /\ MaxRecvErrors > 0
  /\ rx' = [rx EXCEPT !.pc = "done"]
  /\ UNCHANGED <<network, sockets, jitter_buffers, jbPc, undrained, batch, nodes, mainPc,
                 reports, history>>

BufferOf(n) == IF n \in DOMAIN jitter_buffers THEN jitter_buffers[n] ELSE NewJitterBuffer

(* Mutation: the drain does not take jb_mutex_.                            *)
MutexNeverTaken == TRUE

(* Mutation: the drain thread keeps jb_mutex_ for its whole life.          *)
MutexKept == jbPc = "done"

MutexFree == jbPc # "drain"

(* Under jb_mutex_: jitter_buffers_[ip_address].push(packet); then the     *)
(* loop tests running_.                                                    *)
PushPacket ==
  /\ rx.pc = "push"
  /\ MutexFree
  /\ jitter_buffers' = [m \in DOMAIN jitter_buffers \cup {rx.node} |->
       IF m = rx.node THEN Push(BufferOf(m), rx.packet) ELSE jitter_buffers[m]]
  /\ rx' = [Idle EXCEPT !.pc = IF running THEN "call" ELSE "done"]
  /\ UNCHANGED <<network, sockets, jbPc, undrained, batch, nodes, mainPc, reports, history>>

-----------------------------------------------------------------------------
(* jb_thread_: processAndForwardJitterBuffers().                           *)

JbUnchanged == UNCHANGED <<network, sockets, rx, mainPc, reports>>

(* Mutation: the drain loop does not test running_.                        *)
NextPassAlways == "sleep"

(* while (running_): the test that every pass over the loop ends with.     *)
NextPass == IF running THEN "sleep" ELSE "done"

(* for (auto& [ip, jb] : jitter_buffers_)                                  *)
BuffersToDrain == DOMAIN jitter_buffers

(* The sleep is over: skip the pass if stop() has closed the forwarding    *)
(* socket, otherwise take the mutex with an empty batch.                   *)
WakeAndLock ==
  /\ jbPc = "sleep"
  /\ \/ ~forwardOpen /\ jbPc' = NextPass /\ UNCHANGED undrained
     \/ forwardOpen /\ jbPc' = "drain" /\ undrained' = BuffersToDrain
  /\ JbUnchanged
  /\ UNCHANGED <<jitter_buffers, batch, nodes, history>>

(* while (jb.pop(out_packet)) for the nodes in the order of the map.       *)
DrainPop ==
  /\ jbPc = "drain"
  /\ undrained # {}
  /\ LET n  == Min(undrained)
         jb == jitter_buffers[n]
     IN  /\ CanPop(jb)
         /\ batch' = Append(batch, [node |-> n, packet |-> Popped(jb)])
         /\ played' = [played EXCEPT ![n] = Append(@, Popped(jb))]
         /\ jitter_buffers' = [jitter_buffers EXCEPT ![n] = AfterPop(jb)]
  /\ JbUnchanged
  /\ UNCHANGED <<jbPc, undrained, nodes, backend, forwarded>>

(* Mutation: an underrun does not put the buffer back into buffering.      *)
StillPlaying(jb) == jb

(* pop() returns false: an underrun puts the buffer back into buffering.   *)
AfterFailedPop(jb) == IF IsUnderrun(jb) THEN AfterUnderrun(jb) ELSE jb

DrainNext ==
  /\ jbPc = "drain"
  /\ undrained # {}
  /\ LET n  == Min(undrained)
         jb == jitter_buffers[n]
     IN  /\ ~CanPop(jb)
         /\ jitter_buffers' = [jitter_buffers EXCEPT ![n] = AfterFailedPop(jb)]
         /\ undrained' = undrained \ {n}
  /\ JbUnchanged
  /\ UNCHANGED <<jbPc, batch, nodes, history>>

Unlock ==
  /\ jbPc = "drain"
  /\ undrained = {}
  /\ jbPc' = "process"
  /\ JbUnchanged
  /\ UNCHANGED <<jitter_buffers, undrained, batch, nodes, history>>

(* node_manager_.processPacket() for the next packet of the batch.         *)
Process ==
  /\ jbPc = "process"
  /\ batch # <<>>
  /\ nodes' = NM!ProcessPacket(nodes, Head(batch).node, Head(batch).packet.seq)
  /\ jbPc' = "forward"
  /\ JbUnchanged
  /\ UNCHANGED <<jitter_buffers, undrained, batch, history>>

(* Mutation: nothing is sent any more once the server is told to stop.     *)
SendsWhileRunning == running

(* Mutation: only the first packet of a batch is handed on.                *)
NothingLeft == <<>>

(* sendto() on forward_socket_fd_                                          *)
SendSucceeds == forwardOpen

RestOfBatch == Tail(batch)

(* sendto() to the backend; its result is ignored, and it fails once       *)
(* stop() has closed the socket.  The backend gets what is sent, and in    *)
(* order: it handles a datagram here when it is sent.                      *)
Forward ==
  /\ jbPc = "forward"
  /\ LET item == Head(batch)
     IN  IF SendSucceeds
         THEN /\ forwarded' = [forwarded EXCEPT ![item.node] = Append(@, item.packet)]
              /\ backend' = Backend!Heard(backend, item.node, item.packet)
         ELSE UNCHANGED <<forwarded, backend>>
  /\ batch' = RestOfBatch
  /\ jbPc' = "process"
  /\ JbUnchanged
  /\ UNCHANGED <<jitter_buffers, undrained, nodes, played>>

BatchDone ==
  /\ jbPc = "process"
  /\ batch = <<>>
  /\ jbPc' = NextPass
  /\ JbUnchanged
  /\ UNCHANGED <<jitter_buffers, undrained, batch, nodes, history>>

JbStep ==
  \/ WakeAndLock \/ DrainPop \/ DrainNext \/ Unlock
  \/ Process \/ Forward \/ BatchDone

-----------------------------------------------------------------------------
(* The main thread: main() and stop().                                     *)

MainUnchanged ==
  UNCHANGED <<network, rx, jitter_buffers, jbPc, undrained, batch, history>>

Report ==
  /\ mainPc = "running"
  /\ reports < MaxReports
  /\ reports' = reports + 1
  /\ nodes' = NM!PrintAndResetStats(nodes)
  /\ MainUnchanged
  /\ UNCHANGED <<sockets, mainPc>>

(* A signal ended the loop of main(): stop() clears running_ ...           *)
StopRunning ==
  /\ mainPc = "running"
  /\ running' = FALSE
  /\ mainPc' = "closeSocket"
  /\ MainUnchanged
  /\ UNCHANGED <<socketOpen, forwardOpen, nodes, reports>>

CloseSocket ==
  /\ mainPc = "closeSocket"
  /\ socketOpen' = FALSE
  /\ mainPc' = "closeForward"
  /\ MainUnchanged
  /\ UNCHANGED <<running, forwardOpen, nodes, reports>>

CloseForward ==
  /\ mainPc = "closeForward"
  /\ forwardOpen' = FALSE
  /\ mainPc' = "joinRecv"
  /\ MainUnchanged
  /\ UNCHANGED <<running, socketOpen, nodes, reports>>

JoinRecv ==
  /\ mainPc = "joinRecv"
  /\ rx.pc = "done"
  /\ mainPc' = "joinJb"
  /\ MainUnchanged
  /\ UNCHANGED <<sockets, nodes, reports>>

JoinJb ==
  /\ mainPc = "joinJb"
  /\ jbPc = "done"
  /\ mainPc' = "stopped"
  /\ MainUnchanged
  /\ UNCHANGED <<sockets, nodes, reports>>

StopStep == CloseSocket \/ CloseForward \/ JoinRecv \/ JoinJb

Next ==
  \/ \E n \in Nodes : \E p \in inflight[n] : RecvFrom(n, p)
  \/ CallRecvFrom \/ RecvError \/ PushPacket
  \/ JbStep
  \/ Report \/ StopRunning \/ StopStep

Spec == Init /\ [][Next]_vars

(* The operating system runs every thread that can run.  A thread waiting  *)
(* for a mutex that others keep taking gets it eventually, because the     *)
(* drain thread sleeps 2 ms between two passes: strong fairness.  Nothing  *)
(* is assumed of the network, of signals or of reports.                    *)
FairSpec ==
  /\ Spec
  /\ WF_vars(JbStep)
  /\ WF_vars(CallRecvFrom) /\ SF_vars(PushPacket)
  /\ WF_vars(StopStep)

-----------------------------------------------------------------------------
TypeOK ==
  /\ \A n \in Nodes : inflight[n] \subseteq Sent[n]
  /\ duplicates \in 0 .. MaxDuplicates /\ reports \in 0 .. MaxReports
  /\ {running, socketOpen, forwardOpen} \subseteq BOOLEAN
  /\ rx.pc \in {"call", "recvfrom", "push", "done"}
  /\ rx.pc = "push" => rx.node \in Nodes /\ rx.packet \in Sent[rx.node]
  /\ DOMAIN jitter_buffers \subseteq Nodes
  /\ \A n \in DOMAIN jitter_buffers : IsJitterBuffer(jitter_buffers[n])
  /\ jbPc \in {"sleep", "drain", "process", "forward", "done"}
  /\ undrained \subseteq DOMAIN jitter_buffers
  /\ mainPc \in {"running", "closeSocket", "closeForward", "joinRecv", "joinJb", "stopped"}
  /\ DOMAIN nodes \subseteq Nodes

(* Where a node's packets are in the batch.                                *)
Waiting(n) == {i \in DOMAIN batch : batch[i].node = n}

(* What processPacket() has seen of a node: all that was popped, less what *)
(* is still in the batch.                                                  *)
Processed(n) ==
  LET waiting == Cardinality(Waiting(n)) -
                 (IF jbPc = "forward" /\ Head(batch).node = n THEN 1 ELSE 0)
  IN  SubSeq(played[n], 1, Len(played[n]) - waiting)

(* Handing the batch on without the mutex, while packets of the same nodes *)
(* keep arriving, neither reorders, drops nor repeats a popped packet: up  *)
(* to the moment stop() closes the forwarding socket, a node's packets in  *)
(* the batch are, each at its place, the rest of what was played.          *)
ForwardsWhatWasPlayed ==
  \A n \in Nodes :
    LET sent == Len(forwarded[n])
        rest == sent + 1 .. Len(played[n])
    IN  /\ sent <= Len(played[n])
        /\ \A k \in 1 .. sent : forwarded[n][k] = played[n][k]
        /\ forwardOpen =>
             \E place \in [Waiting(n) -> rest] :
               /\ \A i, j \in Waiting(n) : i < j => place[i] < place[j]
               /\ \A k \in rest : \E i \in Waiting(n) : place[i] = k
               /\ \A i \in Waiting(n) : played[n][place[i]] = batch[i].packet

(* Every sequence number the node's stream skips, from its first packet    *)
(* on, has been counted as lost, however late packets made the stream jump *)
(* back and forth in between.  (Silence stands in for the others.)         *)
SkippedIsCountedLost ==
  \A n \in DOMAIN nodes :
    LET processed == Processed(n)
        seen == {processed[i].seq : i \in DOMAIN processed}
    IN  Cardinality({s \in processed[1].seq .. Max(seen) : s \notin seen})
          <= nodes[n].packets_lost

(* NodeManager's statistics are those of the packets processed, each       *)
(* counted once whenever the main thread resets the periodic counter, and  *)
(* the backend, which counts for itself, finds the same losses.            *)
StatisticsAgree ==
  \A n \in Nodes :
    LET processed == Processed(n)
    IN  IF n \in DOMAIN nodes
        THEN /\ nodes[n].packets_received = Len(processed)
             /\ nodes[n].packets_since_last_check <= nodes[n].packets_received
             /\ reports = 0 =>
                  nodes[n].packets_since_last_check = nodes[n].packets_received
             /\ (forwardOpen /\ processed = forwarded[n]) =>
                  backend[n].lost = nodes[n].packets_lost
        ELSE processed = <<>>

(* A datagram that arrived once is played at most once: a packet that was  *)
(* played is never found in the buffer again.                              *)
PlayedAtMostAsOftenAsDelivered ==
  \A n \in Nodes : \A p \in Sent[n] :
    Cardinality({i \in DOMAIN played[n] : played[n][i] = p}) <= 1 + duplicates

(* When jb_mutex_ is released everything that could be played is in the    *)
(* batch, and every buffer buffers anew: no push gets into a drain.        *)
DrainIsComplete ==
  [][jbPc = "drain" /\ jbPc' # "drain" =>
       \A n \in DOMAIN jitter_buffers : jitter_buffers[n].buffering]_vars

(* What a playing buffer holds reaches the backend, unless the server is   *)
(* stopped first.                                                          *)
PlayableIsForwarded ==
  \A n \in Nodes : \A s \in {p.seq : p \in Sent[n]} :
    (n \in DOMAIN jitter_buffers /\ ~BufferOf(n).buffering /\ s \in Buffered(BufferOf(n)))
      ~> ((\E i \in DOMAIN forwarded[n] : forwarded[n][i].seq = s) \/ ~running)

(* The drain passes never starve the receiving thread of the mutex, so a   *)
(* datagram taken off the socket gets into its buffer.                     *)
ReceivedIsPushed == (rx.pc = "push") ~> (rx.pc # "push")

(* The drain thread ends after stop(), whatever it was doing.              *)
DrainThreadEnds == ~running ~> jbPc = "done"

(* Under the mutex every node's buffer behaves as the buffer of module     *)
(* Playout does on its own.  The last packet out of the buffer is the last *)
(* one played, and a run is in progress between a node's first pop of a    *)
(* pass and its underrun.                                                  *)
Last(s) == s[Len(s)]

LastPlayed(n) == IF played[n] = <<>> THEN Idle.packet ELSE Last(played[n])

InRun(n) == n \in undrained /\ Waiting(n) # {}

(* A clock that keeps time counts whole ticks of the node's packets, and   *)
(* a stream is over before its sequence numbers wrap, which takes 264 days.*)
KeepsTime(n) ==
  \E base \in Tsfs : \A p \in Sent[n] : p.tsf = base + (p.seq * PeriodNum) \div PeriodDen

NeverWraps(n) == \A p \in Sent[n] : p.seq + 1 < SeqMod

NewBaselines(n) ==
  Cardinality({i \in 2 .. Len(forwarded[n]) :
                 ~Backend!IsContinued(forwarded[n][i].seq - forwarded[n][i - 1].seq)})

SilencePlayed(n) == Cardinality({i \in DOMAIN played[n] : played[n][i].silent})

(* Nodes whose clocks keep time are shown to: neither silence, whose time  *)
(* stamps are counted in whole ticks, nor gaps, nor a stream that goes     *)
(* back add up to a drift.  Behind a received packet it stays below a tick *)
(* for each stretch of the stream, and the jitter below a tick and what    *)
(* each packet of silence is rounded by.                                   *)
NoFalseDrift ==
  \A n \in Nodes : (KeepsTime(n) /\ NeverWraps(n) /\ forwarded[n] # <<>>) =>
    LET stats == backend[n]
    IN  /\ ~Last(forwarded[n]).silent =>
             Backend!Magnitude(stats.latestTsf) < PeriodDen * (1 + NewBaselines(n))
        /\ stats.maxJitter <
             PeriodDen + SilencePlayed(n) * (PeriodNum - PacketPeriod * PeriodDen)

-----------------------------------------------------------------------------
(* stop(): closing the socket breaks the blocking recvfrom, so that the    *)
(* threads can be joined.                                                  *)
StopCompletes == ~running ~> mainPc = "stopped"
=============================================================================

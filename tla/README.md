# Locustracer in TLA+

Locustracer locates a sound source with a set of ESP32 nodes. Each node streams
audio over UDP; a C++ server reorders the streams, lines them up, and computes a
position from the differences of arrival times; a Node.js backend keeps the
nodes' configuration and relays everything to a web page; a digital twin stands
in for the nodes in simulations. This directory models the parts whose
correctness depends on order, concurrency, loss or restarts, checks them with
TLC, and proves the most important results with TLAPS.

Paths below are relative to the repository (`src/` of this checkout):
`cpp_server` is `application/cpp_server`, `server.js` is
`application/monitor_app/backend/server.js`, firmware files are in
`firmware/src`, scripts in `firmware/tools`.

## 1. Inventory

| Part | State it keeps | Operations | What is hard about it |
|---|---|---|---|
| `JitterBuffer` (cpp_server) | packets by sequence number, `next_play_seq_`, `buffering_` | `push`, `pop`, `reset` (never called) | loss, duplication, reordering, wraps of 32-bit sequence numbers and of timestamps |
| `UDPServer` (cpp_server) | one jitter buffer per node, two sockets, two threads, `jb_mutex_` | receive loop, drain every 2 ms, `start`, `stop` | pushes against drains, handing a batch on without the lock, stop in the middle of either |
| `NodeManager` (cpp_server) | counters per node, `mutex_` | `processPacket`, `printAndResetStats` | unsigned loss counting with jumps back, reset by another thread |
| `AudioSynchronizer` (cpp_server) | samples by absolute index per node, next frame, stages | `pushPacket`, `tryEmitFrame`, `setPipelineStages` | drifting and jittered timestamps, late packets at frame ends, stages replaced while a frame is processed |
| VAD, GCC-PHAT, position solver (cpp_server) | configured nodes and reference | `process` | a reference that is missing from a frame |
| Configuration thread, `main` (cpp_server) | the stages it builds | datagrams on port 5011, reports every 60 s, stop on a signal | bad and lost datagrams, restarts |
| Node session (`server.js`, `api_client.c`) | stored configurations, registered connections; the node's volume | telemetry, push, trigger, close | reconnects that overlap, reboots, backend restarts |
| Simulation control (`server.js`, `digital_twin_server.py`, `Header.jsx`) | the active flag, three times; the node configuration, twice | toggle, save, twin's answer, load of the page and its status request | overlapping requests, late answers, failures, lost datagrams, restarts of any of the processes |
| Backend statistics (`server.js`) | last number and time, drift, jitter and losses per node | datagrams on 5008, windows of a second, broadcast to the page | sums over gaps, silence and streams that go back |
| Buzzer, LED, command dispatcher (`buzzer.c`, `led_indicator.c`, `api_client.c`) | `is_on`, duty, LED countdown | four commands, six effects | tasks without locks |
| Microphone and TSF sender (`i2s_mic_reader.c`, `audio_transmitter.c`, `tsf_sender.c`) | ring of offsets, smoothed offset, sequence number; next boundary | read, stamp and send a chunk; send a datagram per 100 ms | late reads, lost samples, integer averaging, a clock that reads 0 while the node is not connected |
| Firmware update (`ota_manager.c`, `ota_flash_all.py`) | two partitions, the one to boot, the running one | upload, write, verify, boot, restart | a cut at any step, answers that are lost, ends that do not learn of each other |
| Wi-Fi and start-up (`wifi_manager.c`, `main.c`) | the connected bit | connect, again after each disconnection, wait, start | events that are queued or overtaken by the driver |
| Temperature sensor (`shtc3.c`) | the sensor's state | wake, measure, wait, fetch, sleep | failing transfers, resets, delays in ticks |
| Web page (`frontend/`) | what it displays | hooks | display |

Interaction: nodes send datagrams to `UDPServer` (5006). Its drain thread calls
`NodeManager`, which calls `AudioSynchronizer`, which runs the stages; the
solver sends a location (5010) and `UDPServer` the audio (5008) to the backend,
which computes statistics from it. The backend sends node configurations to the
configuration thread (5011), which replaces the stages. Backend, page and nodes
share one WebSocket server. The backend forwards toggles to the twin by HTTP
(8010). A node waits for its Wi-Fi before it starts its tasks and its HTTP
server, to which `ota_flash_all.py` uploads firmware.

What makes each part correct: a jitter buffer's output is a sequence of gapless
runs and loses nothing it accepted; the server keeps each node's order and never
plays twice; samples stay near the place they were captured at and get into
their frame; a frame meets one configuration; a location comes from
measurements against one reference; the registry follows the live connection
and the node the stored configuration; page, backend and twin agree again after
a toggle; server and backend count the same losses, and silence is no clock
drift; the buzzer falls silent; stamps are near capture time, ordered, and
recover after an outage; a node always has an image to boot and comes back
online; a reported update is installed; no reading is stale. `PROJECT.json`
lists the hazards line by line with the properties that cover them.

## 2. Modules

| Module | Models | Notes |
|---|---|---|
| `JitterBuffer` | `push()`, `pop()` | pure operators on a record, so that one buffer and a map of buffers can use them |
| `Playout` | one buffer between a network and a consumer | a push and a pop are atomic, as under `jb_mutex_` |
| `OrderedRuns` | what a jitter buffer promises | abstract; `Playout` implements it |
| `NodeManager` | the counters | operators on a record |
| `BackendStats` | the backend's statistics per node | operators on a map from nodes to records |
| `UDPServer` | receive, drain and main thread | composes `JitterBuffer`, `NodeManager` and `BackendStats`; an action per stretch of code between two points where another thread can be seen |
| `Localization` | the three stages | each stage is the set of contexts it can leave: which nodes and references it works from is exact, energies, correlations and coordinates are a free choice |
| `AudioSynchronizer` | time line, frames, stages, configuration swap | extends `Localization`; a sample is the index at which it was captured |
| `NodeSession` | node, backend and the two directions of each connection | the node's dispatcher is reduced to the volume |
| `SimulationControl` | page, backend, twin, configuration thread | each toggle is two requests (page to backend, backend to twin) with a fate of their own; each load of the page starts a status request (`fetchStatus()`), two in the development build (`StrictMode`); a configuration is good, makes the parser throw, or makes the C++ server abort |
| `NodeCommands` | dispatcher, buzzer, effect tasks, LED task | every access to `is_on`, `current_duty`, the LEDC's new duty and the duty in use is a step |
| `ChunkTimestamps` | offset filter, stamps, numbers of chunks | real time is the TSF; a read is late by a choice of ticks |
| `NodeClock` | `ChunkTimestamps` with the TSF sender and lost connections | the two tasks share a core and the clock; the sender has the higher priority |
| `WifiManager` | event handler, driver, access point | the driver makes one attempt per request and queues an event per change |
| `OtaManager` | update handler, flash, boot loader, the tool's upload | a file is a name and a number of pieces written |
| `Shtc3` | `shtc3_init()`, `shtc3_read()`, the sensor | a result belongs to the read that asked for it or is old |
| `NodeLifecycle` | power-on to restart | composes the three above: power cuts, resets, lost connections at any step; a node is a master (with sensor) or a listener (with partitions for updates) |
| `MC...` | senders, streams, messages for TLC | |
| `..._proofs` | proofs about the module of that name | |

Variables carry the code's names (`buffering`, `next_play_seq`, `node_buffers`,
`isSimulationActive`, `is_on`, `smoothed_offset`, `next_boundary`, ...).
Variables marked *history* only record the past for a property. Definitions
introduced by a comment "Mutation:" are plausible bugs, used to test that a
property can fail; no specification uses them.

Choices that matter:

* **UDPServer.** The mutex protects whole pushes and drains, so a push is one
  step; a drain is one step per pop because the batch it fills is visible to
  nobody else but the main thread's `stop()` can come in between. The call of
  the synchronizer from `NodeManager` is not repeated here: `AudioSynchronizer`
  models it with a stream of its own. The backend handles a datagram when it is
  sent: the two processes share nothing else, the loopback keeps the order, and
  no property tells apart when the backend gets to it. `backend` is part of the
  history for that reason; the server never reads it.
* **AudioSynchronizer.** `TimestampError` bounds how far a packet's timestamp is
  from its place; what the firmware achieves is `NodeClock`'s `StampsAreGood`.
* **SimulationControl.** There is one page. When it is loaded again its earlier
  requests go on without it. A restart of the backend resets flag and
  configuration (`server.js:156`, `:183`), leaves nobody to hear the twin's
  answers, and may or may not have got its last requests through. A node without
  `ip`, `x` or `y` ends the C++ server: `main.cpp:86` looks the field up with the
  `const` `operator[]` of `json.hpp:21443`, which asserts; nothing in
  `CMakeLists.txt`, `locustracer.sh:181` or the Dockerfile defines `NDEBUG`. A
  field of a wrong type, or text cut off at 4095 bytes, throws and is caught. The
  server may be started again, by somebody: that is not under fairness.
* **NodeSession.** A connection is two sequences. What a node sent before it
  lost a connection may still be read afterwards, after the first message of
  the next connection too: the close is a message in the queue.
* **NodeLifecycle.** The upload is between a tool and a handler whose ends of
  the connection fail separately: `peer` is what the handler can learn of the
  tool, `reply` what the tool can learn of the handler. A reset ends the
  handler's end without a word. A sensor keeps its state over a reset and loses
  it in a power cut.
* **NodeClock.** Time advances with samples. While the TSF sender waits in
  `esp_rom_delay_us()`, at the highest priority, no chunk is read.
* **Numbers.** Sequence numbers and timestamps are taken modulo constants, so
  that wraps are within reach; the code's 2^32 and 2^64 are instances. The
  timestamp filter divides towards 0, as C does.

## 3. Runs

Runs that must pass:

| Run | Question | Bounds, and why they are enough |
|---|---|---|
| `playout` | Is the output a sequence of gapless runs that implements `OrderedRuns`? | target 3, sequence numbers modulo 8, time modulo 16: any packet may arrive at any time, so the network is unbounded; the buffer holds gaps, late packets and wraps at once. A packet's time is 2 1/3 ticks, counted back as 2, and stamps miss the sender's clock by a tick to either side |
| `server` | Do three threads keep order, counts and each buffer's behaviour, does everything get through, and what do the statistics say? | two nodes, two and one packets, one duplicate, one report, one receive error, target 1: with that target every order of the packets is a stream of its own, with a gap filled by silence, with a step back, or with a packet played twice; the second node makes the drain loop and the batch mix nodes. A packet's time is 5 1/3 ticks, of which silence is stamped with 5, the ratio that the code's 5333 us have |
| `synchronizer` | Are samples placed and framed right, and does a frame meet one configuration? | three nodes, three packets of two samples, frames of three (so ends fall inside packets), errors of one sample to either side, drift tolerance three (so that both branches are taken), one replayed packet and any number of missing ones, one configuration swap |
| `session` | Do registry and volume follow? | three connections (an old one ending, a current one, the next), a valid and an invalid volume, two changes, a reboot, a backend restart |
| `simulation_control` | Does a toggle bring the parts together, and does the C++ server follow the backend? | two toggles, so that one heals what late answers, failures, restarts or a load left; a load with its status request at any moment; a save of a configuration that is good, makes the parser throw or makes the server abort, before, between or after the configurations of the simulation; a failure or a restart of twin or backend; a lost datagram or a stop of the server. Toggles that overlap and are healed by a third, and more saves, are covered by the proofs |
| `node_commands` | Does the buzzer fall silent? | two effect tasks and the dispatcher's own effect, three messages |
| `node_clock` | Are stamps near capture and ordered, do they recover, does each interval get its datagram? | six reads, delays 0 to 7 with a chunk of 5 ticks, a history of 2 that rotates, up to 4 lost samples, an outage at any moment, intervals of 9 ticks (so that a boundary falls before, into and after a chunk) |
| `node_lifecycle` | Does a node always boot, come back and finish, and is what it reports true? | files that are an image, another image and no image, of two pieces each, so that a cut leaves a half; two uploads (one after another that was given up on either side only); two faults, so that one may hit what another left |

Runs that must find a violation, of something that the repository says:

| Run | What TLC finds |
|---|---|
| `server_stop` | `stop()` closes the socket "to break the blocking recvfrom" (`UDPServer.cpp:72`). On Linux `close()` does not wake a thread blocked on the descriptor, so `stop()` waits in `join()` until some datagram arrives |
| `session_push` | a connection registers with its first message only; if an old connection's first message is read after the new one's, its close unregisters the node, and the live connection never registers again: pushes are lost (`docs/API.md:46`) |
| `synchronizer_locate` | with four configured nodes of which the reference does not stream, GCC-PHAT measures against a node of its choice while the solver looks only for its own reference: no frame is located, although `PositionSolver.cpp:66` needs three nodes |
| `sensor_delay` | `shtc3.c:84` waits 25 ms "to be absolutely safe across all tick rates"; at the default 100 Hz that is two ticks, which may be over after 10 ms, while a measurement takes up to 12.1 ms: the result is fetched too early and the reading fails |

Deadlock checking is off where the system stops by itself: the senders have
sent everything, the users' bounds are used up, the server has stopped.

**Fairness**, and why the code justifies it:

* `Playout`: weak for `Pop`; the drain thread calls it every 2 ms.
* `UDPServer`: weak for each thread's steps; strong for taking `jb_mutex_`
  after a datagram, since the drain thread releases it and sleeps 2 ms between
  passes: a waiting thread gets it at one of the releases. `std::mutex` does not
  promise that; what `ReceivedIsPushed` shows is that the releases come. That
  recvfrom() ever returns is not assumed.
* `AudioSynchronizer`: weak for the drain thread, which in `tryEmitFrame()`
  waits for nothing but one assignment under `pipeline_mutex_`.
* `NodeSession`: weak for the node's reading and for the backend's callbacks.
  That a connection comes about or lasts is not assumed.
* `SimulationControl`: weak for the configuration thread's reading of what is
  under way while the server runs. Requests need not be answered, and a server
  that is gone need not be started again.
* `NodeCommands`: weak for the dispatcher and each effect task; they have the
  same priority and FreeRTOS lets them take turns.
* `NodeLifecycle`: weak for the Wi-Fi (the driver's attempts succeed in the end,
  once the bounded faults are over), for the start-up, the update handler, its
  restart, and the tool, whose every operation has a time-out of 120 s. The
  sensor, users and faults have none.

Mutants: every property of a passing run is paired with a changed definition
that TLC must find violating it under the same configuration.

## 4. Proofs

All proofs are for every value of the constants that the modules' assumptions
allow.

* **`Playout_proofs`.** `TypeOK`, `NothingBehind`, `RunIsConsecutive` and
  `HeldBackIsShort` are not inductive together. The invariant adds that stored
  packets are received ones under their own key, that something is buffered
  ahead of a dummy that was handed out, and that a run starts on a packet. From
  it follow the type invariant, the three safety invariants,
  `RunEndsWithReceived` and `LeavesOnlyByPlaying`, that the fallback branch of
  `pop()` (`JitterBuffer.cpp:73`) is unreachable, and that initial states and
  steps are those of `OrderedRuns`. `SilenceOnSenderClock` is about senders whose
  stamps are those of a clock of a fractional period (16000 / 3 us,
  `i2s_mic_reader.c:68`, `digital_twin_server.py:221`) but for a jitter of
  at most `MaxJitter` ticks, any number. It needs that what is stored is what
  arrived, a bound on what whole periods fall short of a clock that is cut to
  whole ticks (`Rounding`: a third of a microsecond per missing packet), and
  that counting back commutes with the wrap of timestamps. Numbers that wrap
  start another stream on another clock base.
* **`UDPServer_proofs`.** For any senders and any number of duplicates, reports
  and errors. `Basic` says how the drain thread's position, its loop and its
  batch go together: in a drain, a buffer the loop is done with is buffering,
  and one that has handed out a packet is still playing (`DrainIsComplete`).
  Five arguments rest on it.
  `PlayedAtMostAsOftenAsDelivered` counts the copies of a packet in the network,
  in the receiving thread, in the buffer and in the history of what was played:
  only a duplication makes another one (`FewCopies`).
  `ForwardsWhatWasPlayed` is nearly inductive: `InBatch(n, gone)` gives every
  packet of the node in the batch its place in what was played behind the
  `gone` first ones; a pop adds a place at the end, the head of the batch is
  always the first place, and sending it removes that one.
  The statistics (`CountedRight`): `GoneIsUnique` makes `gone` a number that the
  state determines, since rising places that fill what is left are as many as
  what is left; NodeManager's record is then that of the `gone` first packets,
  and of one more while the thread is between `processPacket()` and `sendto()`;
  the backend's is that of the `gone` first, so the two differ by what the
  packet about to be sent skips, and by nothing when none is. That every skipped
  number was counted (`SkippedIsCountedLost`) goes by the greatest number seen:
  a packet beyond it adds the numbers between to the skipped ones, and the count
  for it, taken from the packet before it, is no less.
  Every step of any thread does to a node's buffer and history one of four
  things (`Moved`): nothing, a push outside of a run, a pop, an underrun
  (`NextMoves`). Hence every node's buffer, seen through `BufferOf`,
  `LastPlayed` and `InRun`, implements `Playout` with `Arriving` the node's
  packets (`EachBufferImplementsPlayout`): what `Playout_proofs` proves of one
  buffer holds of each of the server's. `SentAssumption` gives the assumption
  about `Arriving` that these proofs make, and the run `server` checks the
  refinement for two nodes.
  The drift (`DriftIsReal`): `Excess` is how far ahead of the node's exact clock
  a packet is stamped. What a datagram adds to the drift shown is how much
  further ahead it is than the last one, so the sum stays with the excess of the
  last datagram (`Shown`), except that a datagram that sets the baseline anew
  adds nothing. That one and its predecessor were both received, because silence
  is always one number from its neighbours (`Neighbours`), and a received packet
  is behind by less than a tick; so each new baseline costs less than a tick.
  For the jitter the excess of silence has to be bounded: it is what is cut off
  the packets' time up to the next packet in the buffer, and all of those
  packets will have been popped as silence by the time the batch is sent. In the
  middle of a run the invariant (`Stream`) therefore counts the silence still
  owed (`Owed`); it is 0 whenever the run is over, and the backend only gets
  packets outside of a drain. The hypotheses are part of the property: it is
  about nodes whose clocks keep time (`KeepsTime`) and whose numbers do not wrap
  (`NeverWraps`; 2^32 packets take 264 days). `PeriodAssumption` says that the
  buffer counts silence back in steps no longer than a packet's time, 5333 us of
  5333 1/3: with longer steps the time could wrap below 0.
* **`AudioSynchronizer_proofs`.** The invariant has a part for each concern,
  besides three of the properties themselves. `BuffersOK`: a buffer's samples lie
  below its highest index and near their place, whichever of the two branches
  placed them; since the distance of a packet that continues the last one is
  compared with its own timestamp, errors do not add up (`PlacedNearCapture`).
  `ControlOK` and `FrameOK`: the frame that is being processed holds the known
  nodes and what was near stays near. `StagesOK`: the pipeline is that of one
  configuration, what ran is its beginning, no location is there before the
  last stage, and before that stage the measurements are all those against one
  reference that GCC-PHAT may choose; a solver that finds what it needs has
  therefore found its own reference (`LocationIsOfItsConfiguration`).
* **`SimulationControl_proofs`.** `PipelineFollowsBackend`: unless it was lost,
  what the backend set last is in use or the last datagram under way, and the
  server runs (`Follows`); every way to lose it sets `missed`: no server is
  there, the datagram is lost, the process ends with what its socket holds, the
  backend starts anew. `LoneToggleHeals`: unless it was disturbed, a toggle is
  the only request under way, what it asks for is what the page shows, and leg by
  leg it becomes what the backend and the twin hold (`Carries`); or no toggle is
  under way and the page is being told of a flag on which backend and twin agree
  (`Loading`). No forward precedes its request (`AskedInOrder`).
* **`NodeSession_proofs`.** The bound on what is under way and the registry
  invariants are inductive only with `ConnectionLives`: nothing is under way on
  a connection that has not been opened, and no end of stream on the one in
  use. `NodeWillHaveConfig` is about the last volume the node can play at in what
  it has yet to read, or its own if there is none (`LastHeard`): every change of
  the stored configuration and every registration appends to the registered
  connection, and nothing but telemetry is under way from the node on the one it
  uses, so that the backend does not close it (`ClientUses`). Proved for any number of connections, changes and restarts.
* **`NodeClock_proofs`.** As long as the node is online the offsets' lower bound
  is the boot time and their upper bound moves with the samples lost; the
  average stays among them and, the point that needs an invariant of its own,
  exceeds no offset in the ring by more than a delay, because losses only move
  offsets up. With `SmoothedFalls` (the average falls by at most one part in
  `Inertia + 1` of the difference) this gives `StampsInOrder` for all delays
  below 0.68 s, more than ten times what the DMA buffers (12 times 256 frames)
  hold.
  `StampsRecover` needs no assumption on delays or losses: the last `clean`
  offsets of the ring are those of a running clock (`RecoveryInv`), so when that
  is all of them their minimum is within the bounds, and the average moves
  towards it without passing it. That rests on the division of C being towards
  0 (`QuotientKeepsBounds`), which is also why `Inertia` is what may be left.
  `SendsInEachInterval`: while the node has been online since the sender's
  iteration began, the sender sleeps until the boundary it computed, the clock
  is not an interval beyond it, and it is the one after the last datagram's
  (`SenderInv`). The theorem's hypothesis `StepsAreShort` is that a chunk, and a
  loss of samples, take less than an interval: the model lets the sender run
  only between those steps. A chunk takes 5333 us of an interval's 100 ms.
* **`NodeLifecycle_proofs`.** Wi-Fi, update and sensor share no variable, and
  each has an invariant that every action keeps. Wi-Fi: the last event that was
  reported tells whether the station is online, and the start comes before
  everything else, so the bit that is cleared late is never cleared over a newer
  connection. Update: the handler writes only to the partition that is neither
  running nor booted next; what it verified is what it received; a tool that it
  still serves uploads that very file; a tool that has read a success has nobody
  left who writes. Sensor: whoever waits for a result has started the
  measurement, so a result that a failed read or a reset left is not fetched.
* **`NodeCommands_proofs`.** Whoever writes sound, some thread will still
  write silence. `SilentAtRest` is not inductive: while effects play, the flag,
  the new duty and the duty in use may each come from another thread. The
  invariant says what is left: every effect turns on and off in turn and ends
  with off (a parity between `left` and `on`); only the dispatcher may be in a
  call that ends with on, and then the message does not say "off" or has not yet
  come to it; and once it has, a set flag means that some thread will clear it,
  a new duty that some thread will set it to 0, and a duty in use that some
  thread has not yet applied its own. This holds for any number of effect tasks,
  effects, volumes and messages.

Proved and in no run, because a run would only repeat it: the type invariants of
`Playout`, `UDPServer`, `AudioSynchronizer`, `NodeSession`, `SimulationControl`,
`NodeCommands`, `NodeClock` and `NodeLifecycle`, `NothingBehind`, `HeldBackIsShort` and
`NoClosedIsRegistered`.

Only model-checked:

* every liveness property (`BufferedIsPlayed`, `PlayableIsForwarded`,
  `ReceivedIsPushed`, `DrainThreadEnds`, `ReachedIsEmitted`, `VolumeIsApplied`,
  `ConfigIsApplied`, `FallsSilent`, `NodeComesBack`, `UpdateEnds`) and the
  fairness of `OrderedRuns` in `ImplementsRuns`: the prover has no means for
  fairness;
* `EachBufferPlaysOut`, under that name: it is `EachBufferImplementsPlayout` for
  the two nodes of the run.

Every other property of a passing run is a theorem.

## 5. Observations

Facts about the code that the models brought out and no run states.

Server:

* A packet lost between two runs of play-out is not concealed: the next run
  starts at its lowest packet (`README.md:36` of the repository speaks of any
  dropped packet). After an underrun older packets are accepted again, so the
  forwarded stream can go back (`docs/ARCHITECTURE.md:69`).
* A datagram that holds a header but less than a packet is read past its end
  (`UDPServer.cpp:106`): the rest is what an earlier datagram left in the buffer.
  Both senders of the repository send whole packets.
* A failing `recvfrom()` ends the receiving thread for good, though the server
  goes on running (`UDPServer.cpp:99`).
* A drift of up to 1000 samples is never corrected; after one missing packet a
  node stays 256 samples early (`docs/ARCHITECTURE.md:110`). `PlacedNearCapture`
  is the bound that does hold.
* A node that stops streaming is never forgotten by the synchronizer: no frame
  comes out any more and the others' samples pile up.
* `NodeManager` and the backend (`server.js:361`) count losses after
  concealment, so dummies count as received.

Backend, page and twin:

* Dummies are stamped 5333 us apart, the backend expects 5333.33: each adds to
  the jitter shown, and to the drift until the next received packet takes it
  back. `NoFalseDrift` is the bound.
* The backend shows losses and jitter of windows of a second, and the page asks
  every 2 s: every second window is never shown.
* Two quick toggles are forwarded to the twin independently and may arrive in
  the other order: the twin keeps the state that the backend has left until the
  next toggle (`docs/API.md:102`). The page updates optimistically and may
  revert to the value of another toggle (`Header.jsx:30`).
* The backend sets `isSimulationActive` before the twin answers
  (`server.js:254`); if the twin cannot be reached the flag stays set, and a
  late answer overwrites a configuration that a user saved in between.
* The page asks for the state when it is loaded, and shows the answer whenever
  it comes (`Header.jsx:17`): after a click in between, the page goes back to the
  old value though nothing failed (`Header.jsx:36` "Revert if failed"), while
  backend and twin do what was asked, until the next click or load.
* A configuration with a node that lacks a field passes the backend, which only
  checks that `nodes` is an array (`server.js:164`), and ends the C++ server at
  `main.cpp:86` with a failed assertion instead of the report at `main.cpp:101`.
  `AbortOnConfig` models it.
* The development build runs `fetchStatus()` twice (`main.jsx:7`), so two late
  answers may come.
* Nothing starts the C++ server again (`locustracer.sh:197` waits for all jobs),
  and when somebody does it has no configuration until the next save or toggle:
  it asks the backend for none, though the backend keeps it. After a restart of
  the backend it is the other way round.
* `POST /config` stores volumes that the node ignores.
* `tsf_analyzer.py` drops old entries only when both nodes are heard: if
  one is silent they pile up.

Firmware:

* Every message pushed to a node carries `buzzer_state`, usually false: any
  configuration change or identify cuts a running effect short. When the last
  message says true, flag and duty can disagree at rest.
* The identify countdown `g_identify_ticks--` (`led_indicator.c:68`) can
  overwrite an identify that arrives between its read and its write.
* Integer division keeps the smoothed offset up to 127 us away from the minimum
  it converges to.
* While a node is not connected the TSF reads 0 (`i2s_mic_reader.c:36`): the
  minimum of the ring is then negative, and stamps are off for at least 100
  chunks after the reconnection. The TSF sender waits busily for up to 2^32 us
  (`tsf_sender.c:51`), during which the node sends no audio, and its first
  datagram afterwards may carry the number 1.
* The update handler tries a receive that times out again without a limit
  (`ota_manager.c:53`). If the tool's end is gone and the node cannot learn of
  it, the handler holds the HTTP server's only task, and further updates wait
  until the node is reset. `UpdateEnds` says exactly this.
* An update whose answer is lost is installed and reported as an error; the
  tool's count of successes is then too low, never too high.
* The partition table of a master (the board's default) has no partition for
  updates: `ota_manager.c:32` always answers 500.

## 6. Not modelled

* Vendored code: `json.hpp` has 24,765 of the 27,605 lines that an
  implementation-wide count of C and C++ finds, so no map of this repository's
  own code can reach a third of that number. Of the 2,840 others about a half
  are mapped, and besides them the parts of `server.js`, the page and the Python
  scripts that keep state.
* Failures of `socket()` and `bind()` at start-up, datagrams shorter than a
  packet, telemetry contents: they change no state that a property is about.
* Loss on the loopback port 5008 and a restart of the backend in `UDPServer`: the
  comparison of the two counts of losses is about a backend that hears all that
  was forwarded. That losses are counted at most once is not claimed.
* A lost event of the Wi-Fi stack, such as an address that is never reported on
  a link that stays up: association and address are one step.
* Several open pages: each keeps a flag of its own and learns of the others'
  toggles only when it is loaded.
* `node_req == MASTER_ONLY` (`api_client.c:196`) in `NodeSession`, where the node
  is one that handles the volume; `NodeCommands` has the test.
* Floating-point signal processing: out of TLC's reach; a free choice.
* Simulation parameters, the twin's audio and telemetry loops, bandwidth and
  active nodes in the backend, its ring of samples: the latest value and
  nothing else.
* `ics43434.c` (pin numbers), NVS and mDNS, the LED's colours, the web page's
  display.
* The relation between the sampling clock and the TSF (drift), in
  `ChunkTimestamps`.

## 7. Plan

Built so far, in this order: jitter buffer and abstract runs; server threads;
synchronizer; node session; simulation control; localization; node commands;
timestamps; backend statistics; Wi-Fi, update, sensor and their composition;
clock and TSF sender. Proved: the safety properties of all of them. Next:

1. `TwinLoops`: cancellation and restart of the twin's simulation and telemetry
   tasks across toggles, below the atomic `TwinToggle` of `SimulationControl`.
2. Proofs: a bound on the drift for a clock that runs at a rate of its own, and
   across a wrap, where a stretch of the stream may begin with silence whose
   rounding `NoFalseDrift` does not count; how many chunks `StampsRecover` takes;
   the measure that `UpdateEnds` goes by.

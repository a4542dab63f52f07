# Screen-capture streaming: TLA+ models, model checking and proofs

This directory models the program under `src/` (a C++17 screen and microphone
capture application that streams to viewers over TCP) in TLA+. The modules are
written from the source, function by function; `PROJECT.json` maps every
definition to the lines it stands for.

Contents: [parts of the system](#1-the-system), [modules](#2-modules-and-code),
[runs](#3-what-the-runs-check), [bounds](#4-bounds),
[fairness](#5-fairness), [proofs](#6-what-is-proved),
[what the models found](#7-what-the-models-found),
[what is left out](#8-what-is-not-modelled), [plan](#9-plan).

## 1. The system

Paths are relative to `src/`.

| Component | Code | State | Operations | Driven by |
|---|---|---|---|---|
| StreamServer | `src/network/StreamServer.*` | `running_`, `listen_socket_`, `clients_` (id -> `ClientInfo`) with `clients_mutex_`, `client_threads_`, `next_client_id_`, sequence number | `start`, `stop`, `broadcastVideoFrame`, `broadcastAudioFrame`, `disconnectClient`, `getClientCount`; threads `acceptConnections`, `heartbeatMonitor`, one `handleClient` per connection | Application, tests |
| Heartbeat monitor | `heartbeatMonitor` in `StreamServer.cpp` | `last_heartbeat` and `active` of every client, the clock | sleep 5 s, read clock, lock, mark the late clients | its own thread |
| StreamClient | `src/network/StreamClient.*` | `connected_`, `socket_`, two threads, callbacks, statistics | `connect`, `disconnect`, destructor; threads `receiveLoop`, `heartbeatLoop` | `tests/test_viewer.cpp` |
| Packet protocol | `include/common.h`, `sendPacket`/`receivePacket` on both sides | a 24-byte header and a payload per packet, over two byte streams | handshake, frames, heartbeat and its ACK, DISCONNECT | server and client |
| ThreadPool, SafeQueue | `src/threading/*` | workers, `stop`, condition variable; a queue with its own mutex | `enqueue`, worker loop, destructor; `push`, `try_pop`, `empty` | `tests/test_threading.cpp` only |
| Application | `src/core/Application.*`, `src/main.cpp` | `isRunning`, `streaming`, SDL window and renderer with `renderer_mutex_`, `streamServer`, `screenCapture`, `microphone`, `streamThread` | `init`, `run`, `mainLoop`, `render`, `captureAndStream`, `captureFrame`, `shutdown`, destructor, the audio callback given to the microphone | `main` |
| ScreenCapture | `src/capture/*` | the connection to the display, `initialized_`, last error | `init`, `getScreenDimensions`, `captureScreen`, `captureRegion` | the stream thread of Application, tests |
| MicrophoneCapture | `src/audio/MicrophoneCapture.*` | `deviceID`, `isCapturing`, `userCallback`, `captureMutex` | `startCapture`, `stopCapture`, destructor, the callback on SDL's audio thread | Application |
| SDLRenderer | `src/display/SDLRenderer.*` | SDL window and texture | drawing of frames | nobody: Application includes its header and draws by itself |
| Logger | `src/utils/Logger.*` | a stream and a mutex | `log` | everybody |
| TLSConnection | `src/network/TLSConnection.*` | OpenSSL objects | sequential wrappers | a test only |
| DisplayManager, AudioStream, Config | headers | - | declared, not implemented | nobody |

How they interact:

- `Application` owns the server, the captures, the window and its renderer. Its stream
  thread captures a frame and calls `broadcastVideoFrame`; SDL's audio thread
  calls `broadcastAudioFrame`. So two broadcasters exist beside the server's own
  threads.
- The server's threads share the client map under `clients_mutex_`, but the
  records (`active`, `socket`, `last_heartbeat`) are also read and written
  without it, and descriptors are passed by value.
- A viewer talks to a server over one TCP connection in both directions. On the
  server a handler writes (handshake response, ACKs) and broadcasters write
  (frames); on the client the receive thread reads and the heartbeat thread and
  the owner write.
- `connected_` (client), `active` and `running_` (server) are the only ways one
  thread tells another to stop, together with closing a descriptor under it.

What is hard here, and what correctness means for each part:

| Part | Hard behaviour | Correctness |
|---|---|---|
| StreamServer | a connection accepted while `stop()` runs; failed handshakes and normal exits release in different orders; iteration over a map that others change; descriptor numbers reused by the kernel; 16-bit ids; one slow peer behind a mutex | `stop()` leaves nothing and returns; the map holds exactly the live clients; a served client keeps its descriptor and, as long as ids do not repeat, its id; a frame reaches the client it was meant for |
| Heartbeat monitor | clock read before the lock, stores without the lock, unsigned difference | silence is noticed in time (that only silent clients are marked is not so, see section 7) |
| StreamClient | one flag is both "please stop" and "connection lost"; `socket_` is changed while loops read it; reconnecting | `disconnect()` releases everything and returns, which on Linux depends on the server; a lost connection is noticed; the viewer ends normally |
| Packet protocol | partial sends and receives, two writers without a common lock, frames before the handshake response, a peer that stops reading | frames stay whole; connections are lost and handshakes refused for known reasons only; heartbeats are answered; broadcasts return |
| ThreadPool | notification without the mutex, two locks, shutdown while producers have finished but tasks remain | each task runs exactly once; the destructor drains and returns |
| Application | `shutdown()` against its own stream thread and the audio callback | every thread is joined, no component is used after it is destroyed |
| ScreenCapture | clamping a region twice, root window and SDL window resized between two steps | the region is inside the screen and not empty; a frame has the size in its header |

The hazards, each at its line and with the properties that cover it, are in
`PROJECT.json` under `hazards`.

## 2. Modules and code

| Module | Models | Notes |
|---|---|---|
| `StreamServer` | all threads of the server over the shared map, mutex and descriptors | one action per critical section or system call |
| `ClientRegistry` | what `StreamServer` promises, without threads, sockets and lock | abstract specification |
| `ServerRefinement` | the refinement mapping from `StreamServer` to `ClientRegistry` | |
| `MCStreamServer` | symmetry for TLC | extends `ServerRefinement` |
| `StreamServerProofs`, `ServerRefinementProofs` | theorems about both | |
| `HeartbeatMonitor` | clock, unsigned arithmetic and timing of the monitor | refines what `MonitorSweep` leaves open |
| `HeartbeatMonitorProofs` | theorems about it | |
| `StreamClient` | owner, receive and heartbeat threads over several sessions | the server is the environment |
| `StreamClientProofs` | theorems about it | |
| `PacketStream` | the two byte streams of one connection: `sendPacket`, `receivePacket` and their callers on both sides | refines the sends and receives that `StreamServer` and `StreamClient` take as one step |
| `PacketChannel` | what `PacketStream` promises, without buffers, parts and byte counts | abstract specification, implemented through `Channel` at the end of `PacketStream` |
| `PacketStreamProofs` | theorems about both | |
| `ThreadPool` | producers, workers and destructor, with the queue | |
| `TaskPool` | what `ThreadPool` promises, without mutex, condition variable and notifications | abstract specification, implemented through `Pool` at the end of `ThreadPool` |
| `ThreadPoolProofs` | theorems about both | |
| `Application` | main thread, stream thread, SDL's audio thread with MicrophoneCapture, and a second caller of `shutdown()` | the server is reduced to its existence and the call of its `stop()` |
| `ApplicationProofs` | theorems about it | |
| `ScreenCapture` | `captureRegion`, `captureScreen`, and `captureFrame` with the frame header on top | refines the success or failure `Application` has for a capture |
| `ScreenCaptureProofs` | theorems about it | |

Definitions whose comment starts with "Mutant" are deliberately wrong variants
of the definition after them. No specification uses them: they exist to show,
one for each property, that the property fails when the code has that defect.

### StreamServer

| State | Code |
|---|---|
| `running`, `listening` | `running_`; whether `listen_socket_` is open |
| `clients`, `mutex` | `clients_`; who holds `clients_mutex_` across steps. A critical section without a blocking call is one step guarded by `LockFree`; those with one (broadcasts, `disconnectClient`) and the sweep of `stop()` hold the mutex over several steps |
| `holder` | the kernel's table: which connection a descriptor refers to. `Close(f)` frees whatever `f` refers to, and `accept` may hand the number out at once |
| `socket`, `clientId`, `active` | the `ClientInfo` of a connection |
| `threads` | handles in `client_threads_`; nothing reaps them before `stop()` |
| `opc`, `apc`, `mpc`, `hpc`, `bpc`, `dpc` | where the owner, the accept thread, the monitor, the handlers, the broadcasters and a caller of `disconnectClient` are |
| `opending`, `bpending` | what an iteration over the map has still to visit |
| `btarget`, `bsock` | the client a broadcaster sends to and the descriptor number it has copied |

`Start` and `Stop...` are `start()` and `stop()`, split at each join, lock and
close. `Accept...` is `acceptConnections()`; the insert into the map and the
start of the handler are two steps, as in the code. `Handshake...`, `AckHeartbeat`,
`HandlerSent`, `ClientLeaves`, `LoopEnds`, `FailClose`, `Cleanup...` and `Erase`
are `handleClient()` with `processHandshake()`. The two ways out differ as in the
code: a failed handshake closes and keeps the number (`FailClose`), the normal
way closes and resets it (`CleanupClose`, `CleanupInvalidate`). `MonitorSweep`
may mark any set of clients, `HeartbeatMonitor` has the arithmetic.
`CloseWakes` is the platform: Winsock's `closesocket` wakes a thread blocked on
the socket, Linux's `close` does not. The code builds for both.

Client ids repeat: `NextId` counts modulo `IdModulus`, the 65,536 of `uint16_t`, and more
connections may be accepted than there are ids. Then the insert takes an earlier connection with the
id out of the map, the erase of either takes out the other, and `stop()` does not close what it does
not find. `ServedIsRegistered` and `StopClosesAll` would be false without an exception for the
connections that share an id (`SharesId`); with it they say that the damage stays with them.

Two things the model made visible and no property forbids. A failed handshake
leaves the number of the socket it closed in the record until the erase, and
`stop()` may close that number a second time when it already belongs to another
client; since `stop()` is closing all clients anyway, the effect is that one is
closed a step earlier (`ServedOwnsSocket` is therefore stated outside the sweep
of `stop()`). And `disconnectClient()`, which nothing in the repository calls,
closes a socket and leaves its number to the handler, which then closes it
again: with it `ServedOwnsSocket` does not hold, which is why the property is
stated for `DisconnectUsed = FALSE`, the program as it is. The constant is TRUE
in the liveness runs, so that those cover the public interface.

### ClientRegistry and ServerRefinement

`ClientRegistry` is the server as its user sees it: connections enter a list
under an id while the server is up, where the next one with the same id replaces them,
they leave it by that id, the list does not change
while somebody goes through it, and `stop()` returns when no connection is
left. `ServerRefinement` maps `StreamServer` to it:

| Abstract | Concrete |
|---|---|
| `phase` | position of the owner: `stopped` before `start()` and after `stop()`, `stopping` up to `clients_.clear()`, `cleared` while the handlers are joined |
| `id[c]` | the id `c` was listed under |
| `life[c]` | `listed` if the map has `c`; `ending` if it does not and its handler still runs; `gone` when the handler has returned |
| `visiting` | somebody holds `clients_mutex_` over several steps |

What makes this more than a restatement: three different threads change the list (accept,
handlers, owner), each in critical sections of its own, and a connection that is accepted while
`stop()` runs enters the list late. That a handler takes out
what stands under its own id and nothing else, that the erase never falls inside a
visit, and that no connection is left after the joins are facts about
the interplay of all of them. A connection between `accept()` and the insert counts as
not yet there.


### HeartbeatMonitor

`Tick` advances the clock, but not past the end of the sleep (`wake`) and not
past `MaxWait` while the monitor, or the accept thread before its insert, waits
for the mutex. `Packet` stores `last_heartbeat` without the mutex, `ReadClock` is the
`get_timestamp_us()` before the `lock_guard`, `Sweep` the loop. `Minus` is the
subtraction of `uint64_t`s. The bound `MaxWait` is an assumption about the
broadcasters: it is not met while one of them is stuck in a `send` to a peer that
does not read (see `ReadingSpec` below). The clock is `system_clock`, which the
model lets only run forward: an adjustment of the host's time is not modelled.

### StreamClient

`connected`, `sock` are `connected_` and `socket_`; `fd` and `peer` are the two
ends of each connection, one per `connect()`; `opc`, `rpc`, `hpc` are the owner,
`receiveLoop()` and `heartbeatLoop()`. `rsock` and `hsock` are the descriptor
number a loop has read for its current call, `rjoin` and `hjoin` whether
the `std::thread` members are joinable. `lost` is a history variable: a loop has
cleared `connected_` and no `disconnect()` has completed since.

`platform` is chosen at the start and stays: on Windows `close` wakes a `recv` that has
started (`CloseWakes`), on Linux it does not, and there a `send` to a connection the peer
has reset raises SIGPIPE (`SendSignals`).

The owner's actions follow `connect()` (`Connect...`, `Handshake...`,
`StartReceive`, `StartHeartbeat`), `disconnect()` (`Disconnect...`) and the
destructor; assigning to a joinable thread and destroying one end the process
(`std::terminate`), a `send` to a reset connection may (SIGPIPE). Observations
that follow from the code and no property forbids: the callback is not called
when the server disconnects; a failed handshake calls `disconnect()`, which
returns at once because `connected_` is still false, so that its socket stays
open and its number is overwritten by the next `connect()`.

### PacketStream

A packet is a header of two units, the magic number with the type and the payload
size, and a payload of a few units.

| State | Code |
|---|---|
| `down`, `rpos` | everything sent to the client, as a log of units that remember their sender, type and place in the packet; how much of it the client has read. The difference fills the socket buffers, which have room for `Cap` |
| `upSent`, `upRead` | the same in the other direction; one thread at a time sends there, so counting is enough |
| `sent` | `total_sent` of `sendPacket()`, header and payload together |
| `rpart`, `rkind`, `need`, `got` | the client's `receivePacket()` |
| `hpc`, `bpc`, `cpc` | the handler, the broadcasters, the client |
| `sopen` | the server's descriptor |
| `mixed`, `split` | history: a unit went out inside another sender's packet; the handler's loop received half a header |

`Transmit` is one `send()` that takes what fits, `SendFails` its error;
`EWOULDBLOCK` is a stutter. Broadcasters take `clients_mutex_`, the handler does not: the
response and the ACKs may go out between two sends of a frame. On the client
`MSG_WAITALL` makes a receive wait for all units; on the server a receive takes
what is there, which fails the handshake (`HandshakeHeader`, `HandshakePayload`)
and drops half a header in the packet loop (`LoopHalf`). A header whose second unit is
of another packet announces some size of `TornSizes`.

What the properties say, and what they exclude: a viewer *does* lose its connection
when an ACK goes into the middle of a frame, and `connect()` *does* fail when a frame
overtakes the response. `LostOnlyByOverlap` and `FailedOnlyByFrame` show that
these are the only reasons as long as the server keeps the connection open.
`BroadcastReturns` makes an exception for a client that has stopped reading
without closing: after a failed `connect()` or a lost connection `StreamClient` keeps
its socket open (`disconnect()` returns early), nobody reads from it, and once the
buffers are full a broadcaster retries for ever with `clients_mutex_` held, so that the
accept thread, the monitor and `stop()` wait with it.

`PacketChannel` is the connection as the callers of `sendPacket()` and `receivePacket()`
would like to see it: packets are posted one after the other, the reader takes each in its turn
with the type and size it was sent with, and the channel may break, after which it carries nothing.
`PacketStream` implements it (`ImplementsChannel`):

| Abstract | Concrete |
|---|---|
| `posted` | a packet for each first unit in `down`, at that unit's place, with the size its type has; nothing once the channel is broken |
| `at`, `last` | the place of the last header the client has read in full, with the type and size it found in it |
| `broken` | a packet was sent inside another (`mixed`), or the client has closed |

A packet is posted by the `send()` that takes its first unit, which may be in the middle of a
packet that is not finished yet only if the channel breaks in the same step. What has to be true for the
refinement is that the client's byte count after any number of partial receives stands at
the first unit of a packet, that the size it has read is the size that packet has in the log, and that no
packet is skipped or read twice. The channel does not break when the server closes: what was sent before is still read.

### ThreadPool

Workers hold the pool's mutex from the test of the predicate to the pop;
`SafeQueue` has its own mutex and `push`, `empty`, `try_pop` are one step each.
`enqueue()` pushes and notifies in two steps, both without the pool's mutex. A
worker that waits may also wake spuriously.

`TaskPool` is the pool as its user sees it: tasks are begun by one worker each in the order of
submission and run once, a closing pool takes no more, and it is closed when nothing waits or
runs. `ThreadPool` implements it (`ImplementsTaskPool`) with `waiting` the queue,
`running` the task of each worker, `finished` the tasks that have run, and `phase` the
destructor's position. The destructor looks at neither queue nor tasks: that it returns only when both
are empty is a fact about the workers' predicate, the order of `stop` and the last push, and the joins.

### Application

| State | Code |
|---|---|
| `isRunning`, `streaming` | the two atomic flags |
| `streamServer`, `screenCapture`, `microphone` | the `unique_ptr`s; the server is `idle` when `start()` has failed, for `init()` keeps it |
| `renderer`, `rendererMutex` | renderer and window; who holds `renderer_mutex_` |
| `device`, `capturing`, `captureMutex` | SDL's device, `isCapturing` with `userCallback`, and the mutex of MicrophoneCapture |
| `sjoin` | whether `streamThread` is joinable |
| `mpc`, `spc`, `apc` | the main thread (`init`, `run`, `mainLoop`, destructor), the stream thread, the audio thread |
| `shut` | where each caller is inside `shutdown()`, `stopping` inside the server's `stop()`; for main also inside the destruction of the members |
| `process` | still up, ended by returning from `main`, or by `std::terminate` |

`Init...`, `Run`, `StartTest`, `Spawn`, `LoopTest`, `Render...`, `Drawn`, `Leave`
follow the main thread; `Shutdown...` to `DestroyDisplay` are `shutdown()` with
`stopCapture()` inside; `StopServer` and `ServerStopped` are the call of
`StreamServer::stop()`, by `shutdown()` or `~StreamServer`, and its return; `ThreadAborts` and `Destroyed` are the destructor, which
destroys the members in the reverse order of their declaration. `Stream...`,
`Capture...`, `ReadPixels`, `CheckServer`, `VideoSent` are `captureAndStream()`
with `captureFrame()`, and `Audio...` are the callback on SDL's thread.

In the repository only `main` calls `shutdown()`, always after `mainLoop()` has
cleared `isRunning`, and therefore its body is never executed: that is
the finding of `application_exit`. `ShutdownUsed = TRUE` adds what the class
offers, a call from another thread while the application runs, and with it the
body is exercised against the other threads. Three assumptions stand behind it:
nobody destroys the `Application` while another thread is inside one of its
methods; SDL's pause and close keep a callback from starting and wait for
the one that is running (as SDL documents); a broadcast returns
(`StreamServer!ReadingSpec`). That `StreamServer::stop()` returns is *not* assumed, for on
Linux it may not (`server_stop_linux`): `ServerStopped` has no fairness, and `ShutdownFinishes`
and `QuitEnds` except a caller that stays inside it for ever (`InServerStop`).

The model also reaches two states no property forbids: the second caller
destroys the renderer without `renderer_mutex_` while main draws, and callbacks
that come before `startCapture()` has set `isCapturing` are ignored.

### ScreenCapture

`screen` is what `getScreenDimensions()` returns, which Xlib remembers from the
start of the connection, `root` the root window, `window` the SDL window; the last two may
be resized at any moment. `caller` says who uses the class: the
stream thread of Application (`CaptureScreen`, then `SendFrame` with the header), or a
program that calls `captureRegion()` with any arguments. `Begin` is the first
clamp and the test that something is left, `Attributes` the second clamp,
which comes after the test, `GetImage` and `CaptureFails` the rest. The fallback of `captureFrame()`
asks for the size of the window (`AskSize`, line 292) and then reads its pixels (`ReadPixels`,
line 306) into a surface of that size, unless something fails (`ReadFails`). The main thread
polls the events that resize the window without `renderer_mutex_`, so the window may have another size at each
of the two, and a third when `SendFrame` asks for the header. A picture larger than the surface is
written past it: the process then ends or goes on.

The model shows that the second clamp can leave nothing, or less than nothing, when the root window has
shrunk and the caller asked for a region beyond it; `XGetImage` then fails and the error
is trapped. For the whole screen, which is all Application asks for, it cannot
(`RegionOnScreen`, theorem `OnScreen`). `FrameSize` says that the header of a frame has the size of its
pixels, which `tests/test_visual_viewer.cpp:103` relies on. It is false: the header has
the size of the *window* (`Application.cpp:341`), also when the pixels are those of the *screen*, so that an ordinary
session on a screen that is not 1280x720 violates it. `FrameContent` says what remains.

## 3. What the runs check

Passing runs:

| Run | What it checks | What it shows |
|---|---|---|
| `server_safety` | `StopLeavesNothing`, `StopClosesAll`, `MapHoldsNoDeadClient`, `ServedIsRegistered`, `NoDescriptorLeak`, `IterationStable`, `ServedOwnsSocket`, `ImplementsRegistry` | three connections, two reusable descriptors, two ids, which therefore repeat, a broadcaster, the monitor, and `stop()` at any moment, with Linux's `close`; `ImplementsRegistry` is the refinement of `ClientRegistry` |
| `server_liveness` | `StopReturns`, `InactiveClientLeaves` | under `ReadingSpec`, with a `close` that wakes, `stop()` returns and marked clients in their packet loop go |
| `heartbeat` | `DetectedInTime` | silence is detected within the timeout, a sleep and two waits, whatever comes between the reading of the clock and the sweep |
| `thread_pool` | `DestructorDrains`, `PopFindsTask`, `NobodySleepsOnWork`, `ImplementsTaskPool`, `DestructorReturns`, `EnqueuedTaskRuns` | two workers, two producers, three tasks; `ImplementsTaskPool` is the refinement of `TaskPool` |
| `client` | `DisconnectLeavesNothing`, `ConnectedIsHeard`, `DisconnectCutsOff`, `HandshakeAlone`, `AbortOnlyAfterLoss`, `ServerCloseNoticed`, `DisconnectReturns` | two sessions on either platform, a server that may close at any moment, and `socket_` read by the loops before they use it; on Linux `DisconnectReturns` excepts a server that stays silent for ever while `disconnect()` waits for the receive thread, and is violated without that exception |
| `application` | `ServerOutlivesUsers`, `MicrophoneOutlivesCallback`, `NoCircularWait`, `ShutdownStopsAll`, `ShutdownFinishes`, `QuitEnds` | `shutdown()` at any moment of the main loop against the stream thread and the audio callback: nothing is used after it is gone, no wait closes a circle, everything is stopped, `shutdown()` returns and a quit ends the process, unless `StreamServer::stop()` does not return |
| `packet_stream` | `TypeOK`, `BroadcastsWhole`, `LostOnlyByOverlap`, `FailedOnlyByFrame`, `BeatsAnswered`, `ImplementsChannel`, `BroadcastReturns` | two broadcasters and a handler on one connection, with sends and receives in parts and either end closing at any moment; `ImplementsChannel` is the refinement of `PacketChannel` |

Some of these invariants are the safety half of a liveness property next to them, and are
proved for every value of the constants where TLC checks the liveness on a small instance:
`StopClosesAll` (every descriptor is closed before `stop()` joins the handlers) of
`StopReturns`, `NobodySleepsOnWork` of `EnqueuedTaskRuns` and `DestructorReturns`,
`ConnectedIsHeard` and `DisconnectCutsOff` of `ServerCloseNoticed` and `DisconnectReturns`,
`NoCircularWait` of `ShutdownFinishes` and `QuitEnds`.

The type invariants `TypeOK` of the modules other than `PacketStream`, and `RunOnce` of `ThreadPool`, which
`ImplementsTaskPool` includes, and `RegionOnScreen` and `FrameContent` of `ScreenCapture` are in no run:
they are proved (section 6).

Runs that end in a counterexample, each one a disagreement between the code and
what a comment, a log message or a test of the repository says:

| Run | Property | Counterexample |
|---|---|---|
| `server_stop_linux` | `StopReturns` | the accept thread is blocked in `accept`, `close` does not wake it, the join waits |
| `server_frames` | `FramesReachTheirClient` | a broadcaster sends on a descriptor the handler has closed and the kernel reused |
| `client_lost` | `ViewerEndsNormally` | after the server has closed, the destructor ends in `std::terminate` |
| `application_exit` | `ExitsNormally` | an ordinary quit: `shutdown()` returns early, the joinable stream thread is destroyed, `std::terminate` |
| `frame_header` | `FrameSize` | the screen is captured, and the header asks the window for its size |

`CHECK_DEADLOCK FALSE` stands in every configuration but that of `frame_header` because the systems
may stop: the server may be idle after `stop()` or wait for a connection nobody
opens, the pool ends, the processes of client and application end, the clock stops at its bound, and so do the
broadcasts and heartbeats of `packet_stream`. In `frame_header` windows can always be resized.

## 4. Bounds

| Bound | Value | Why it is enough |
|---|---|---|
| `Conns`, `Fds`, `MaxAccepted` | 3, 2, 3 (safety); 2, 2, 2 (frames); 1, 1, 1 (liveness) | the hazards are between one client and another that takes over its descriptor, id or place in the map; two of each are needed, and a third connection for an id that repeats while another client is there. The liveness runs ask about one client against owner, monitor, two broadcasters and `disconnectClient` |
| `IdModulus` | 2 (safety), 3 (others) | with two ids the third connection gets the id of the first, whether that is still served or not. In the liveness runs ids do not repeat: a connection that `stop()` does not find in the map keeps it from returning |
| `Broadcasters` | 1 (safety), 2 (liveness) | screen and microphone |
| `Timeout`, `Period`, `MaxWait`, `MaxTime`, `Word` | 6, 1, 1, 14, 64 | the ratio of 30 s to 5 s; the clock runs past two timeouts; `Word` is larger than the clock so that only differences wrap |
| `Sessions`, `Platforms` | 2 and both (client), 1 and Linux (lost) | a second session is needed for what threads of the first may do to it |
| `Workers`, `Producers`, `Tasks` | 2, 2, 3 | more tasks than workers, so that a worker must loop. Two workers matter for `EnqueuedTaskRuns`: `enqueue()` notifies without the mutex, and a notification that falls between a worker's test and its sleep is made good by the other worker; a pool of one leaves the task until the next `enqueue()` |
| `Cap` | 2 | a frame of three units and a response of four take at least two sends each, and other senders get between them; a header fits, half of one as well |
| `RequestUnits`, `ResponseUnits`, `FrameUnits` | 2, 2, 1 | a payload of two units arrives in parts; frame and response differ in size, which the client looks at |
| `TornSizes` | 0, 2, 9 | a torn header that announces nothing, what another packet has, or more than ever comes |
| `MaxFrames`, `MaxBeats` | 1 (for each of two broadcasters), 2 | two frames and two ACKs can interleave with each other and with the response; an ACK can fall into a frame |
| `Extents`, `Reach` | 1 and 3, 4 | screens and windows of one pixel and of several, requests that begin and end on each side of every edge |
| `ShutdownUsed` | TRUE (`application`), FALSE (`application_exit`) | with and without a second caller; the model of Application has no other bound, its state space is finite |

`MaxAccepted`, `MaxTime`, `MaxFrames` and `MaxBeats` are the only bounds that stand in guards;
`Reach` bounds the requests.
Distinct states: `server_safety` 1,889,166 (with symmetry), `server_liveness` 14,461, `heartbeat`
109,072, `thread_pool` 6,731, `client` 155,950, `application` 1,777, `packet_stream` 529,673.
The proofs hold for every value of all constants within their assumptions. In particular no theorem about
the server bounds the connections by the ids.

## 5. Fairness

- `StreamServer!FairSpec`: strong fairness of each thread's steps. Threads are
  scheduled by the operating system, and each thread's steps at different
  control points exclude one another, so one formula per thread is enough. It
  is strong because of `clients_mutex_`: a mutex is not fair, but its other users
  sleep between two uses (the monitor 5 s, broadcasters one frame), so a waiting
  thread gets it. `HandlerProgress` includes only what does not depend on the
  peer: nothing makes a peer send.
- `ReadingSpec` adds that a `send` returns, that is, that peers read what they
  are sent. It is an assumption about the environment: `sendPacket()` retries for
  ever otherwise and a broadcaster does so with the mutex held, so that under
  `FairSpec` alone one stalled peer keeps `stop()` from returning.
- `CloseWakes = TRUE` in `server_liveness`, which is therefore about Windows only. On
  Linux `stop()` depends on the peers, as `server_stop_linux` shows.
- `StreamClient!FairSpec`: the threads run; the end of a stream is received after
  finitely many packets in flight (strong fairness of the end of the receive). The server
  owes nothing: it may stay silent or close. The run `client` covers each platform with its own `close` and `send`.
- `Application!FairSpec`: each of the three threads runs, strongly fair because
  of the two mutexes, whose users sleep between two uses; a caller that is inside
  `shutdown()` goes on, except where it waits for `StreamServer::stop()`. Nobody has to call `shutdown()`, no quit event and no
  callback has to come.
- `ThreadPool!FairSpec`: the workers, the producers' calls in progress and the
  destructor run; tasks return.

- `PacketStream!FairSpec`: the client's reads and the sends of its request, each sender's
  `sendPacket()` (it retries), the unlock. The lock is strongly fair for each
  broadcaster, with the same argument as above. Nothing obliges a client that has given up to
  read or to close, a handler to leave, or anybody to send heartbeats or frames.
- `ScreenCapture` has no liveness property and no fairness.

## 6. What is proved

The theorems are of the form `Spec => []P` or `Spec => [][A]_vars`, one says that a
specification implements another; all hold for every value of the constants. Each rests on an inductive invariant, proved by
one lemma per conjunct of it or per group of actions.

`StreamServerProofs`. The invariant is `Inv`, the conjunction of

- `DataTypes`: types (with `FlagTypes` apart, for the provers' sake);
- `Controls`: which positions of owner, accept thread, monitor and handlers go
  together: the accept thread and the monitor can only end after `running_` is
  cleared, the owner passes a join only when the thread is done;
- `Pool`: handlers that run have a handle in `threads`, which is why joining
  those handles joins them all;
- `Locks`: who is in a critical section holds the mutex;
- `Entries`: what stands in the map is a connection whose record has that id
  and whose handler has not returned;
- `Descriptors`: which descriptor a record names in each position of its
  handler, and that a connection with a closed record has none.

None of the properties is inductive alone. `StopIsComplete`, for instance, needs
`Controls` and `Pool` to know that no handler starts after the join of the accept
thread, and `Entries` for the map. From `Inv`: `TypeCorrect`, `StopIsComplete`,
`MapIsLive`, `DescriptorsReturned`, `IterationIsStable`.
`ServedAreRegistered` adds that the ids of connections do not change while they have one (`IdsStay`), that
two connections which share an id go on sharing it (`SharedStays`), and that a client whose id nobody else
has is in the map from the insert to its own erase (`Served`): an insert or an erase under another id leaves it there.
`StopClosesEverySocket` has the same exception and for the same reason: `stop()` closes what it
finds in the map, and an entry that a later client has overwritten is not found. Its invariant `Closing` says that during the sweep every open descriptor
belongs to a client still to be visited or to one that shares its id (`OpenShares`); that this is so when the sweep begins takes `Descriptors`
(an open descriptor is in the record of a client that has not closed it), `Served` (that client is in
the map) and `Controls` (the accept thread has ended). Neither theorem supposes anything of the number of connections or ids. `ServedOwnTheirSockets` adds that the descriptor of a served client is
nobody else's.

`ServerRefinementProofs`: `ServerImplementsRegistry`, that `StreamServer` implements
`ClientRegistry`. It rests on `Inv` above: `Entries` and `Locks` say that an erase
takes out what is listed under the handler's id, its own connection or one that replaced it, and that it happens in no visit, `Controls` and
`Pool` that no connection is left when `stop()` returns. One lemma for each group of
actions shows that the step is a step of the registry or a stutter.

`HeartbeatMonitorProofs`: `Urgent` (the clock does not pass the end of a sleep
or a wait) and `Window` (a silent active client in the map has a bound on its age that
depends on where the monitor is). From them `TypeCorrect` and
`Detection`, for all timeouts, periods and waits with `MaxWait <= Timeout`.

`ThreadPoolProofs`: `Stopping`, `NoneLost` (a task is in the queue, with a worker or run),
`OnePlace` (in one of these only) and the lock invariants give `TypeCorrect`, `Drains`, `PopSucceeds`, `RunsOnce`.
`NoLostWakeup` rests on `WakeInv`, which adds that from the destructor's first step on `stop` is set and nobody
is about to sleep. A notification without the mutex may fall between a worker's failed test and its sleep;
`Locks` says that one worker at a time can be there, so another worker is awake or asleep already, and in the second
case the notification wakes it. `SetStop`, which takes the mutex, finds nobody there, and `NotifyAll` then wakes the rest.
`PoolRefinement`, that `ThreadPool` implements `TaskPool`,
takes the initial state and each action in turn: `Pop` is `Begin` because `PopFindsTask`, `Join` is
`CloseReturns` because `NoneLost` and `OnePlace` leave nothing in the queue and with no worker, every step of a lock or
a notification is a stutter.

`StreamClientProofs`: `Joinable`, `Handles` (at which points the owner meets no joinable
thread unless a connection was lost), `Down`, `Socket`, `Dead` give
`TypeCorrect`, `DisconnectIsComplete`, `HandshakeIsAlone`,
`AbortNeedsLoss`. `Held` adds what the loops have read from `socket_` and not yet used: `Current` (from the start of
the threads to the close it is `socket_` itself), `CutOff` (from the close to the joins it is closed or
invalid) and `Heard` (the receive thread returns only after the flag is down). `CutOff` is what
`Current` becomes in the step that closes, and a read after it finds a closed descriptor until
`socket_` is reset. They give `SomebodyListens` and `JoinsAreCutOff`.

`ApplicationProofs`: `Controls` (which positions of main, the second caller and the
destructor go together, and what the flags are there: once a `shutdown()` has
begun `isRunning` stays false), `Microphone` (device, `capturing` and the object
at each position of `stopCapture()`, and that a callback implies an open device
or a paused one not yet closed), `Streaming` (the stream thread uses the server only
while the join is still to come; what is left to it when it is started
after the join was passed is one failed test). They give `TypeCorrect`, `ServerIsThere`,
`MicrophoneIsThere`, `ShutdownIsComplete`, for both values of `ShutdownUsed`. `Holders` (a mutex is held only
inside the section that gives it back) with `Controls` (main never reaches a join of its own: it finds
`isRunning` down), `Microphone` and `Streaming` gives `NoWaitIsCircular`.

`PacketStreamProofs`, for any buffers, packet sizes and numbers of broadcasters: `Basic`
(types, what `sendPacket()` still has to send, who holds the lock), `CasterInv` (the last unit of a
broadcaster in the log is the last one of a packet, or the one before what its sender
has to send next), which gives `FramesWhole`; `WholeInv` (as long as nothing overlapped, the log is a sequence of
whole packets up to the last, and the reader stands where its part of a packet is),
which gives `LostByOverlap`; `ShakeInv` (in which phase of the handshake the log holds which units
of the handler, and that they are the response), which gives `FailedByFrame`; `BeatInv` (the number of
ACKs in the log), which gives `BeatsAreAnswered`. `ChannelRefinement`, that `PacketStream` implements
`PacketChannel`, rests on `ChannelInv`: while the channel is not broken the log is a sequence of whole packets up to
the last (`Framed`, the part of `WholeInv` that survives the server's close), and the units the reader has met since the last
header began are those of one packet of the type and size it has read, from the first on (`Place`). So a header begins where the last
packet ends (`HeaderBegins`) and no packet stands between the two (`ReadTakes`), and a `send()` posts a
packet exactly when it takes a first unit (`TransmitPosts`). These are invariants over a log that grows: no recursion
and no induction over data is needed, each unit knows its place.

`ScreenCaptureProofs`: one invariant about the region in each position of
`captureRegion()` and about where pixels, picture and frame come from gives `TypeCorrect`, `OnScreen` (`RegionOnScreen`) and
`ContentOfFrames` (`FrameContent`), for screens, windows and requests of any size. What they suppose of the constants
is `Constants`, a hypothesis of each.

Only model-checked: every liveness property (`StopReturns`,
`InactiveClientLeaves`, `DestructorReturns`, `EnqueuedTaskRuns`,
`ServerCloseNoticed`, `DisconnectReturns`, `ShutdownFinishes`, `QuitEnds`,
`BroadcastReturns`): liveness under fairness is out of the proof system's reach. The properties of section 7 are violated and have no theorem.

## 7. What the models found

| Where | What |
|---|---|
| `src/network/StreamServer.cpp:104` | on Linux `stop()` closes descriptors that blocked threads keep using, and waits for the threads |
| `src/network/StreamServer.cpp:309` | the handler closes its socket outside `clients_mutex_`; a broadcaster's copy of the number may then name another client |
| `src/network/StreamClient.cpp:105` | after a lost connection nobody joins the threads, and their destruction ends the process |
| `src/core/Application.cpp:158` | after the main loop nobody joins the stream thread, and its destruction ends the process |
| `src/core/Application.cpp:341` | the header of a frame has the size of the window, its pixels that of the screen or of the window at an earlier moment |

The quotations these disagree with are in `PROJECT.json` under `findings`.

Other things the models make visible, without a run of their own:

- The monitor's timeout (`StreamServer.cpp:537`) only clears `active`. A handler blocked in the
  handshake's `recv` does not look at it, so that a client that connects and stays silent keeps
  its thread, its descriptor and its entry; `InactiveClientLeaves` is therefore about
  clients in the packet loop.
- The monitor reads the clock before it takes the mutex (`StreamServer.cpp:526`). A
  heartbeat stored in between makes the unsigned difference of line 533 huge, and a client heard of a
  moment ago is marked. That only late clients are marked is therefore no property here.
- `next_client_id_` repeats after 65,536 connections (`StreamServer.cpp:162`), with the effects described
  under StreamServer above; a `stop()` that does not find a client may wait for its handler for ever.
- On Linux `disconnect()` waits for a server that stays silent (`StreamClient.cpp:117`), against the comment
  "Close socket to unblock receive" (line 112): `DisconnectReturns` names that exception, and TLC finds it violated
  when the exception is taken out.
- A handler's ACK may tear a frame (`StreamServer.cpp:267`), a frame may overtake the handshake
  response (`StreamServer.cpp:184`), and a viewer that gave up without closing holds up every
  broadcast (`StreamServer.cpp:386`): see PacketStream above.
- A window that grows between lines 292 and 306 of `Application.cpp` is read past the end of the surface.
- The viewer does not call its disconnect callback when the server disconnects, although
  `tests/test_e2e_streaming.cpp` registers one that says "Client disconnected by server".

## 8. What is not modelled

- In `PacketStream`: the packets DISCONNECT and CONFIG, which `StreamClient` does not send and
  `disconnectClient()`, without a caller, does; the contents of payloads (the client reads the bare
  samples of an audio packet as an `AudioFrame`, `StreamClient.cpp:352`); the memory a torn header makes the client allocate
  (`StreamClient.cpp:230`); SIGPIPE, which `StreamClient` has.
- In `Application`: the contents of frames, the drawing, a second call of `run()`,
  and `Config`'s choices (`enableStreaming`, `enableAudio` and the port are
  constants of the constructor).
- In `ScreenCapture`: the Windows build, which has no clamp and other calls; the conversion of pixels, whose order of bytes
  differs between X11 (A, R, G, B) and the fallback (B, G, R, A on a little-endian machine); sums of
  request arguments that overflow an `int`.
- In `StreamServer`: the CONFIG packet and the contents of a client's
  configuration (a broadcast may skip any client: `BroadcastSkip`), the packet
  sequence number, the log, and `getClientCount`, which reads one number under
  the mutex. `start()` with a socket that cannot bind changes nothing and has no step.
- In `StreamClient`: statistics, decoding, and what the callbacks do.
- `SafeQueue::pop`, `wait_and_dequeue`, `dequeue`, `close`: no caller.
- `Logger`, `SDLRenderer`: output only. `TLSConnection`: a sequential wrapper
  used by a test. `DisplayManager`, `AudioStream`, `Config`: no implementation.

## 9. Plan

Done: the parts that carry the program's own control (server, monitor, client, packet
protocol, pool, application, microphone, screen capture), three refinements, and
theorems about each. What later work can add:

1. More proofs: every invariant, action property and refinement of the passing runs has a theorem;
   what remains is an abstract session for `StreamClient` (connect, lost, disconnect, as its owner sees them), and the
   safety half of `BroadcastReturns` and `InactiveClientLeaves`.
2. `StreamServer` with two connections under `ReadingSpec`, to check that one client's
   handshake does not delay another's.
3. The Windows build of `ScreenCapture`.

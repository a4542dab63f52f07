---------------------------- MODULE Application ----------------------------
(***************************************************************************)
(* The life of class Application (src/core/Application.cpp) as main.cpp    *)
(* drives it: init(), run(), shutdown(), destructor.  Beside the main      *)
(* thread there are                                                        *)
(*   - the stream thread, captureAndStream(), started by run();            *)
(*   - SDL's audio thread, which calls MicrophoneCapture's callback        *)
(*     (src/audio/MicrophoneCapture.cpp) while the device is open;         *)
(*   - another thread that may call the public shutdown() while the main   *)
(*     loop runs.                                                          *)
(*                                                                         *)
(* They share the flags isRunning and streaming, the pointers streamServer,*)
(* microphone and renderer, and two mutexes.  The server is reduced to its *)
(* existence: what start(), stop() and a broadcast do is in StreamServer.  *)
(* Its stop() may never return (it waits for threads that blocking calls   *)
(* hold on Linux), so the call and the return are steps of their own and   *)
(* nothing obliges the second to come.                                     *)
(***************************************************************************)

CONSTANT ShutdownUsed  \* does a thread other than main call shutdown()?

ASSUME UseAssumption == ShutdownUsed \in BOOLEAN

VARIABLES
  process,        \* "up", "exited", "aborted" by std::terminate
  isRunning,      \* isRunning
  streaming,      \* streaming
  streamServer,   \* streamServer: "none", "idle" (start() failed), "up"
  screenCapture,  \* screenCapture is set and initialized
  renderer,       \* renderer and window exist
  rendererMutex,  \* holder of renderer_mutex_: "none", "main", "stream"
  microphone,     \* microphone is set
  device,         \* its SDL device: "closed", "open", "paused"
  capturing,      \* its isCapturing; userCallback is set with it
  captureMutex,   \* holder of its captureMutex across steps
  mpc,            \* main thread: control
  shut,           \* inside shutdown() or the destructor: control, per caller
  sjoin, spc,     \* stream thread: joinable, control
  apc             \* audio thread: control

flags == <<process, isRunning, streaming>>
mike == <<microphone, device, capturing>>
things == <<streamServer, screenCapture, renderer>>
mutexes == <<rendererMutex, captureMutex>>
vars == <<flags, things, mutexes, mike, mpc, shut, sjoin, spc, apc>>

Callers == {"main", "other"}

Init ==
  /\ process = "up"
  /\ isRunning = FALSE /\ streaming = FALSE
  /\ streamServer = "none" /\ screenCapture = FALSE /\ renderer = FALSE
  /\ rendererMutex = "none" /\ captureMutex = "none"
  /\ microphone = FALSE /\ device = "closed" /\ capturing = FALSE
  /\ mpc = "init"
  /\ shut = [w \in Callers |-> "none"]
  /\ sjoin = FALSE /\ spc = "off"
  /\ apc = "idle"

-----------------------------------------------------------------------------
(* The main thread: init().                                                *)

\* SDL, the window or the renderer fail: init() throws, main unwinds.
InitFails ==
  /\ mpc = "init" /\ mpc' = "destroy"
  /\ UNCHANGED <<flags, things, mutexes, mike, shut, sjoin, spc, apc>>

InitDisplay ==
  /\ mpc = "init" /\ mpc' = "server"
  /\ renderer' = TRUE
  /\ UNCHANGED <<flags, streamServer, screenCapture, mutexes, mike, shut,
                 sjoin, spc, apc>>

\* The server is created and started; the capture of the screen may be
\* unavailable (Wayland, no display).  A server that fails to start is kept.
InitServer ==
  /\ mpc = "server" /\ mpc' = "mic"
  /\ \/ /\ streamServer' = "up" /\ streaming' = TRUE
        /\ screenCapture' \in BOOLEAN
     \/ /\ streamServer' = "idle"
        /\ UNCHANGED <<streaming, screenCapture>>
  /\ UNCHANGED <<process, isRunning, renderer, mutexes, mike, shut, sjoin,
                 spc, apc>>

\* startCapture() finds no device: the microphone is dropped.
InitNoMicrophone ==
  /\ mpc = "mic" /\ mpc' = "run"
  /\ UNCHANGED <<flags, things, mutexes, mike, shut, sjoin, spc, apc>>

\* startCapture() opens the device and lets it run: callbacks may begin.
InitMicrophone ==
  /\ mpc = "mic" /\ mpc' = "capture"
  /\ microphone' = TRUE /\ device' = "open"
  /\ UNCHANGED <<flags, things, mutexes, capturing, shut, sjoin, spc, apc>>

\* The rest of startCapture(): isCapturing is set without captureMutex.
InitCapturing ==
  /\ mpc = "capture" /\ mpc' = "run"
  /\ capturing' = TRUE
  /\ UNCHANGED <<flags, things, mutexes, microphone, device, shut, sjoin,
                 spc, apc>>

-----------------------------------------------------------------------------
(* The main thread: run(), mainLoop(), render().                           *)

Run ==
  /\ mpc = "run" /\ mpc' = "start"
  /\ isRunning' = TRUE
  /\ UNCHANGED <<process, streaming, things, mutexes, mike, shut, sjoin, spc,
                 apc>>

\* The condition under which run() starts the stream thread.
StartTest ==
  /\ mpc = "start"
  /\ mpc' = IF streaming /\ streamServer # "none" THEN "spawn" ELSE "loop"
  /\ UNCHANGED <<flags, things, mutexes, mike, shut, sjoin, spc, apc>>

Spawn ==
  /\ mpc = "spawn" /\ mpc' = "loop"
  /\ sjoin' = TRUE /\ spc' = "test"
  /\ UNCHANGED <<flags, things, mutexes, mike, shut, apc>>

LoopTest ==
  /\ mpc = "loop"
  /\ mpc' = IF isRunning THEN "render" ELSE "leave"
  /\ UNCHANGED <<flags, things, mutexes, mike, shut, sjoin, spc, apc>>

\* render() without a renderer; events polled before it may have said quit.
RenderNothing ==
  /\ mpc = "render" /\ rendererMutex = "none" /\ ~renderer
  /\ mpc' \in {"loop", "leave"}
  /\ UNCHANGED <<flags, things, mutexes, mike, shut, sjoin, spc, apc>>

RenderLock ==
  /\ mpc = "render" /\ rendererMutex = "none" /\ renderer
  /\ mpc' = "draw" /\ rendererMutex' = "main"
  /\ UNCHANGED <<flags, things, captureMutex, mike, shut, sjoin, spc, apc>>

Drawn ==
  /\ mpc = "draw"
  /\ mpc' \in {"loop", "leave"}
  /\ rendererMutex' = "none"
  /\ UNCHANGED <<flags, things, captureMutex, mike, shut, sjoin, spc, apc>>

\* mainLoop() ends: it clears the flag shutdown() will test.
Leave ==
  /\ mpc = "leave" /\ mpc' = "shutdown"
  /\ isRunning' = FALSE
  /\ UNCHANGED <<process, streaming, things, mutexes, mike, shut, sjoin, spc,
                 apc>>

-----------------------------------------------------------------------------
(* shutdown(), called by w.                                                *)

\* Main calls it twice: from main() and from the destructor.  Nobody destroys
\* an object while another thread is inside one of its methods.
Calls(w) ==
  /\ shut[w] = "none"
  /\ IF w = "main"
     THEN \/ mpc = "shutdown"
          \/ mpc = "destroy" /\ shut["other"] \in {"none", "done"}
     ELSE ShutdownUsed /\ mpc \notin {"destroy", "members", "dead"}

\* Main is back from shutdown(): at once when isRunning is false, or after the
\* whole of it.  (The other caller's early return changes nothing.)
ShutdownReturns ==
  /\ \/ Calls("main") /\ ~isRunning
     \/ shut["main"] = "done"
  /\ mpc \in {"shutdown", "destroy"}
  /\ mpc' = IF mpc = "shutdown" THEN "destroy" ELSE "members"
  /\ shut' = [shut EXCEPT !["main"] =
               IF mpc = "shutdown" THEN "none" ELSE "mic"]
  /\ UNCHANGED <<flags, things, mutexes, mike, sjoin, spc, apc>>

\* The test and the clearing of the flag are one step: nobody sets it meanwhile,
\* and main, which may clear it in between, has cleared it when it calls.
ShutdownFlag(w) ==
  /\ Calls(w) /\ isRunning
  /\ isRunning' = FALSE
  /\ shut' = [shut EXCEPT ![w] = "mic"]
  /\ UNCHANGED <<process, streaming, things, mutexes, mike, mpc, sjoin, spc,
                 apc>>

\* What follows the microphone: the rest of shutdown(), or of the destructor.
AfterMic == IF mpc = "members" THEN "thread" ELSE "streaming"

NoMicrophone(w) ==
  /\ shut[w] = "mic" /\ ~microphone
  /\ shut' = [shut EXCEPT ![w] = AfterMic]
  /\ UNCHANGED <<flags, things, mutexes, mike, mpc, sjoin, spc, apc>>

\* Mutant: stopCapture() takes captureMutex first and keeps it.
PauseDeviceLocked(w) ==
  /\ shut[w] = "mic" /\ microphone /\ capturing /\ captureMutex = "none"
  /\ device' = "paused" /\ captureMutex' = "closer"
  /\ shut' = [shut EXCEPT ![w] = "close"]
  /\ UNCHANGED <<flags, things, rendererMutex, microphone, capturing, mpc,
                 sjoin, spc, apc>>

\* stopCapture(): no further callback begins.
PauseDevice(w) ==
  /\ shut[w] = "mic" /\ microphone /\ capturing
  /\ device' = "paused"
  /\ shut' = [shut EXCEPT ![w] = "close"]
  /\ UNCHANGED <<flags, things, mutexes, microphone, capturing, mpc, sjoin,
                 spc, apc>>

\* Mutants of CloseDevice: a callback may still run; the device stays.
CloseDeviceAtOnce(w) ==
  /\ shut[w] = "close"
  /\ device' = "closed"
  /\ shut' = [shut EXCEPT ![w] = "clear"]
  /\ UNCHANGED <<flags, things, mutexes, microphone, capturing, mpc, sjoin,
                 spc, apc>>
CloseDeviceNot(w) ==
  /\ shut[w] = "close" /\ apc = "idle"
  /\ shut' = [shut EXCEPT ![w] = "clear"]
  /\ UNCHANGED <<flags, things, mutexes, mike, mpc, sjoin, spc, apc>>

\* SDL_CloseAudioDevice() waits for the callback that is running.
CloseDevice(w) ==
  /\ shut[w] = "close" /\ apc = "idle"
  /\ device' = "closed"
  /\ shut' = [shut EXCEPT ![w] = "clear"]
  /\ UNCHANGED <<flags, things, mutexes, microphone, capturing, mpc, sjoin,
                 spc, apc>>

ClearCapturing(w) ==
  /\ shut[w] = "clear" /\ captureMutex = "none"
  /\ capturing' = FALSE
  /\ shut' = [shut EXCEPT ![w] = "reset"]
  /\ UNCHANGED <<flags, things, mutexes, microphone, device, mpc, sjoin, spc,
                 apc>>

\* microphone.reset(), or its destruction as a member.
ResetMicrophone(w) ==
  /\ \/ shut[w] = "reset"
     \/ shut[w] = "mic" /\ microphone /\ ~capturing
  /\ microphone' = FALSE
  /\ shut' = [shut EXCEPT ![w] = AfterMic]
  /\ UNCHANGED <<flags, things, mutexes, device, capturing, mpc, sjoin, spc,
                 apc>>

StopStreaming(w) ==
  /\ shut[w] = "streaming"
  /\ streaming' = FALSE
  /\ shut' = [shut EXCEPT ![w] = IF streaming THEN "join" ELSE "stop"]
  /\ UNCHANGED <<process, isRunning, things, mutexes, mike, mpc, sjoin, spc,
                 apc>>

\* Mutant: the thread is detached.
DetachStream(w) ==
  /\ shut[w] = "join"
  /\ sjoin' = FALSE
  /\ shut' = [shut EXCEPT ![w] = "stop"]
  /\ UNCHANGED <<flags, things, mutexes, mike, mpc, spc, apc>>

JoinStream(w) ==
  /\ shut[w] = "join" /\ (sjoin => spc = "done")
  /\ sjoin' = FALSE
  /\ shut' = [shut EXCEPT ![w] = "stop"]
  /\ UNCHANGED <<flags, things, mutexes, mike, mpc, spc, apc>>

\* No server, or one that start() has failed on: stop() returns at once.
ResetServer(w) ==
  /\ shut[w] = "stop" /\ streamServer # "up"
  /\ streamServer' = "none"
  /\ shut' = [shut EXCEPT ![w] = "display"]
  /\ UNCHANGED <<flags, screenCapture, renderer, mutexes, mike, mpc, sjoin,
                 spc, apc>>

\* stop() of a running server is called, by shutdown() or by ~StreamServer.
StopServer(w) ==
  /\ \/ shut[w] = "stop"
     \/ shut[w] = "thread" /\ ~sjoin
  /\ streamServer = "up"
  /\ shut' = [shut EXCEPT ![w] = "stopping"]
  /\ UNCHANGED <<flags, things, mutexes, mike, mpc, sjoin, spc, apc>>

\* stop() has returned, which nothing in the program guarantees: the server is
\* destroyed.
ServerStopped(w) ==
  /\ shut[w] = "stopping"
  /\ streamServer' = "none"
  /\ shut' = [shut EXCEPT ![w] =
               IF mpc = "members" THEN "thread" ELSE "display"]
  /\ UNCHANGED <<flags, screenCapture, renderer, mutexes, mike, mpc, sjoin,
                 spc, apc>>

\* Renderer and window are destroyed without renderer_mutex_.
DestroyDisplay(w) ==
  /\ shut[w] = "display"
  /\ renderer' = FALSE
  /\ shut' = [shut EXCEPT ![w] = "done"]
  /\ UNCHANGED <<flags, streamServer, screenCapture, mutexes, mike, mpc,
                 sjoin, spc, apc>>

-----------------------------------------------------------------------------
(* The destructor: members go in the reverse order of their declaration,   *)
(* microphone, streamThread, screenCapture, streamServer.                  *)

\* A joinable std::thread is destroyed, whether it has ended or not.
ThreadAborts ==
  /\ shut["main"] = "thread" /\ sjoin
  /\ process' = "aborted"
  /\ mpc' = "dead" /\ spc' = "dead"
  /\ shut' = [shut EXCEPT !["main"] = "done"]
  /\ UNCHANGED <<isRunning, streaming, things, mutexes, mike, sjoin, apc>>

\* The others; ~StreamServer calls stop(), see StopServer.
Destroyed ==
  /\ shut["main"] = "thread" /\ ~sjoin /\ streamServer # "up"
  /\ process' = "exited"
  /\ screenCapture' = FALSE /\ streamServer' = "none"
  /\ mpc' = "dead"
  /\ shut' = [shut EXCEPT !["main"] = "done"]
  /\ UNCHANGED <<isRunning, streaming, renderer, mutexes, mike, sjoin, spc,
                 apc>>

-----------------------------------------------------------------------------
(* The stream thread: captureAndStream(), captureFrame().                  *)

\* Mutant: the loop runs as long as there is a server.
StreamTestServer ==
  /\ spc = "test"
  /\ spc' = IF streamServer # "none" THEN "capture" ELSE "done"
  /\ UNCHANGED <<flags, things, mutexes, mike, mpc, shut, sjoin, apc>>

StreamTest ==
  /\ spc = "test"
  /\ spc' = IF streaming /\ isRunning THEN "capture" ELSE "done"
  /\ UNCHANGED <<flags, things, mutexes, mike, mpc, shut, sjoin, apc>>

\* The screen is captured, without a lock.
CaptureScreen ==
  /\ spc = "capture" /\ screenCapture
  /\ spc' = "check"
  /\ UNCHANGED <<flags, things, mutexes, mike, mpc, shut, sjoin, apc>>

\* The fallback, also when the capture of the screen fails.
CaptureWindow ==
  /\ spc = "capture" /\ rendererMutex = "none"
  /\ spc' = IF renderer THEN "read" ELSE "test"
  /\ rendererMutex' = IF renderer THEN "stream" ELSE "none"
  /\ UNCHANGED <<flags, things, captureMutex, mike, mpc, shut, sjoin, apc>>

\* The pixels are read, or not: an empty frame is not sent.
ReadPixels ==
  /\ spc = "read"
  /\ spc' \in {"check", "test"}
  /\ rendererMutex' = "none"
  /\ UNCHANGED <<flags, things, captureMutex, mike, mpc, shut, sjoin, apc>>

\* The pointer is tested, and used afterwards.
CheckServer ==
  /\ spc = "check"
  /\ spc' = IF streamServer # "none" THEN "broadcast" ELSE "test"
  /\ UNCHANGED <<flags, things, mutexes, mike, mpc, shut, sjoin, apc>>

VideoSent ==
  /\ spc = "broadcast" /\ spc' = "test"
  /\ UNCHANGED <<flags, things, mutexes, mike, mpc, shut, sjoin, apc>>

-----------------------------------------------------------------------------
(* SDL's audio thread: processAudioData() and the callback of init().      *)

AudioReady ==
  /\ apc = "idle" /\ device = "open"
  /\ apc' = "lock"
  /\ UNCHANGED <<flags, things, mutexes, mike, mpc, shut, sjoin, spc>>

\* isCapturing is tested under captureMutex.
AudioIgnored ==
  /\ apc = "lock" /\ captureMutex = "none" /\ ~capturing
  /\ apc' = "idle"
  /\ UNCHANGED <<flags, things, mutexes, mike, mpc, shut, sjoin, spc>>

AudioLock ==
  /\ apc = "lock" /\ captureMutex = "none" /\ capturing
  /\ apc' = "test" /\ captureMutex' = "audio"
  /\ UNCHANGED <<flags, things, rendererMutex, mike, mpc, shut, sjoin, spc>>

\* The callback tests streamServer and streaming, and uses the server.
AudioTest ==
  /\ apc = "test" /\ streamServer # "none" /\ streaming
  /\ apc' = "broadcast"
  /\ UNCHANGED <<flags, things, mutexes, mike, mpc, shut, sjoin, spc>>

AudioSkip ==
  /\ apc = "test" /\ ~(streamServer # "none" /\ streaming)
  /\ apc' = "idle" /\ captureMutex' = "none"
  /\ UNCHANGED <<flags, things, rendererMutex, mike, mpc, shut, sjoin, spc>>

AudioSent ==
  /\ apc = "broadcast"
  /\ apc' = "idle" /\ captureMutex' = "none"
  /\ UNCHANGED <<flags, things, rendererMutex, mike, mpc, shut, sjoin, spc>>

-----------------------------------------------------------------------------
ShutdownStep(w) ==
  \/ ShutdownFlag(w) \/ NoMicrophone(w) \/ PauseDevice(w) \/ CloseDevice(w)
  \/ ClearCapturing(w) \/ ResetMicrophone(w) \/ StopStreaming(w)
  \/ JoinStream(w) \/ ResetServer(w) \/ StopServer(w) \/ DestroyDisplay(w)

MainStep ==
  \/ InitFails \/ InitDisplay \/ InitServer \/ InitNoMicrophone
  \/ InitMicrophone \/ InitCapturing \/ Run \/ StartTest \/ Spawn \/ LoopTest
  \/ RenderNothing \/ RenderLock \/ Drawn \/ Leave \/ ShutdownReturns
  \/ ThreadAborts \/ Destroyed

StreamStep ==
  \/ StreamTest \/ CaptureScreen \/ CaptureWindow \/ ReadPixels
  \/ CheckServer \/ VideoSent

CallbackStep ==
  \/ AudioIgnored \/ AudioLock \/ AudioTest \/ AudioSkip \/ AudioSent

Next ==
  \/ MainStep \/ StreamStep \/ CallbackStep \/ AudioReady
  \/ \E w \in Callers : ShutdownStep(w) \/ ServerStopped(w)

Spec == Init /\ [][Next]_vars

\* Threads run, a waiting thread gets its mutex in the end (its users sleep
\* between two uses), and a broadcast returns: peers read what they are sent.
\* Nobody has to call shutdown(), no callback has to begin, and stop() of the
\* server does not have to return.
FairSpec ==
  /\ Spec
  /\ SF_vars(MainStep) /\ SF_vars(StreamStep) /\ SF_vars(CallbackStep)
  /\ \A w \in Callers : SF_vars(shut[w] # "none" /\ ShutdownStep(w))

-----------------------------------------------------------------------------
(* Properties.                                                             *)

MainStates == {"init", "server", "mic", "capture", "run", "start", "spawn",
               "loop", "render", "draw", "leave", "shutdown", "destroy",
               "members", "dead"}
ShutStates == {"none", "mic", "close", "clear", "reset", "streaming", "join",
               "stop", "stopping", "display", "thread", "done"}

FlagTypes ==
  /\ isRunning \in BOOLEAN /\ streaming \in BOOLEAN
  /\ screenCapture \in BOOLEAN /\ renderer \in BOOLEAN
  /\ microphone \in BOOLEAN /\ capturing \in BOOLEAN /\ sjoin \in BOOLEAN

DataTypes ==
  /\ process \in {"up", "exited", "aborted"}
  /\ streamServer \in {"none", "idle", "up"}
  /\ rendererMutex \in {"none", "main", "stream"}
  /\ captureMutex \in {"none", "audio"}
  /\ device \in {"closed", "open", "paused"}
  /\ mpc \in MainStates
  /\ shut \in [Callers -> ShutStates]
  /\ spc \in {"off", "test", "capture", "read", "check", "broadcast", "done",
              "dead"}
  /\ apc \in {"idle", "lock", "test", "broadcast"}

\* The type invariant: every variable of Application stays in its type.
TypeOK == FlagTypes /\ DataTypes

\* The stream thread and the audio callback test the pointer to the server
\* first and use it later (Application.cpp:106 and 339): nobody destroys the
\* server in between, for it goes after the microphone and the join.
ServerOutlivesUsers ==
  spc = "broadcast" \/ apc = "broadcast" => streamServer # "none"

\* MicrophoneCapture and its mutex exist as long as the audio thread is in
\* its callback: the device is closed before the object goes.
MicrophoneOutlivesCallback == apc # "idle" => microphone

\* Nobody whom shutdown() or the destructor waits for waits for them in turn.
\* The callback that SDL_CloseAudioDevice() waits for finds captureMutex free,
\* and when stopCapture() takes captureMutex no callback holds it; the stream
\* thread that is joined has been told to end, and renderer_mutex_, which its
\* last frame may still need, is with a thread that is about to give it back.
NoCircularWait ==
  \A w \in Callers :
    /\ shut[w] = "close" /\ apc = "lock" => captureMutex = "none"
    /\ shut[w] = "clear" => captureMutex = "none"
    /\ shut[w] = "join" =>
         /\ ~streaming
         /\ rendererMutex = "main" => mpc = "draw"
         /\ rendererMutex = "stream" => spc = "read"

\* A shutdown() that found the application running has stopped everything
\* when it returns, also when it ran while run() was about to start the
\* stream thread: that thread then ends without capturing.
ShutdownStopsAll ==
  shut["other"] = "done" =>
    /\ ~isRunning /\ ~streaming
    /\ ~microphone /\ device = "closed" /\ apc = "idle"
    /\ streamServer = "none"
    /\ spc \in {"off", "test", "done", "dead"}

\* Somebody is inside StreamServer::stop().
InServerStop == \E w \in Callers : shut[w] = "stopping"

\* shutdown() returns: the callback and the stream thread end.  What may keep
\* it is StreamServer::stop() alone (on Linux it does: StopReturns fails there).
ShutdownFinishes ==
  (shut["other"] = "mic") ~> (shut["other"] = "done" \/ []InServerStop)

\* After a quit event the process ends, in one way or another (std::terminate
\* is one, see ExitsNormally), or stop() of the server never returns.
QuitEnds == (mpc = "leave") ~> (process # "up" \/ []InServerStop)

\* "Stop streaming" (Application.cpp:171), and main() returns 0 after
\* shutdown() (main.cpp:12): the process ends by returning.
ExitsNormally == process # "aborted"
=============================================================================

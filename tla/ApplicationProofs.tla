------------------------- MODULE ApplicationProofs -------------------------
(***************************************************************************)
(* Theorems about Application, with and without a second caller of         *)
(* shutdown().  Inv is the inductive invariant: which positions of the two *)
(* callers and the main thread go together (Controls), what the microphone *)
(* and its callback are at each of them (Microphone), and what the stream  *)
(* thread and the server are (Streaming).  Holders says where who holds a  *)
(* mutex is.                                                               *)
(***************************************************************************)
EXTENDS Application, TLAPS

USE DEF vars, flags, things, mutexes, mike, Callers

-----------------------------------------------------------------------------

LEMMA FlagStep ==
  FlagTypes /\ [Next]_vars => FlagTypes'
<1> SUFFICES ASSUME FlagTypes, [Next]_vars PROVE FlagTypes'
  OBVIOUS
<1> USE DEF FlagTypes
<1>1. ASSUME UNCHANGED <<isRunning, streaming, screenCapture, renderer,
    microphone, capturing, sjoin>> PROVE FlagTypes'
  BY <1>1
<1>2. CASE MainStep
  <2>1. CASE InitDisplay
    BY <2>1 DEF InitDisplay
  <2>2. CASE InitServer
    BY <2>2 DEF InitServer
  <2>3. CASE InitMicrophone
    BY <2>3 DEF InitMicrophone
  <2>4. CASE InitCapturing
    BY <2>4 DEF InitCapturing
  <2>5. CASE Run
    BY <2>5 DEF Run
  <2>6. CASE Spawn
    BY <2>6 DEF Spawn
  <2>7. CASE Leave
    BY <2>7 DEF Leave
  <2>8. CASE Destroyed
    BY <2>8 DEF Destroyed
  <2> QED
    BY <1>1, <1>2, <2>1, <2>2, <2>3, <2>4, <2>5, <2>6, <2>7, <2>8 DEF
       MainStep, InitFails, InitNoMicrophone, StartTest, LoopTest,
       RenderNothing, RenderLock, Drawn, ShutdownReturns, ThreadAborts, Calls
<1>3. CASE StreamStep
  BY <1>1, <1>3 DEF StreamStep, StreamTest, CaptureScreen, CaptureWindow,
     ReadPixels, CheckServer, VideoSent
<1>4. CASE CallbackStep
  BY <1>1, <1>4 DEF CallbackStep, AudioIgnored, AudioLock, AudioTest,
     AudioSkip, AudioSent
<1>5. CASE AudioReady
  BY <1>1, <1>5 DEF AudioReady
<1>6. ASSUME NEW w \in Callers, ShutdownStep(w) \/ ServerStopped(w)
      PROVE  FlagTypes'
  <2>1. CASE ShutdownFlag(w)
    BY <2>1 DEF ShutdownFlag, Calls
  <2>2. CASE ClearCapturing(w)
    BY <2>2 DEF ClearCapturing
  <2>3. CASE ResetMicrophone(w)
    BY <2>3 DEF ResetMicrophone, AfterMic
  <2>4. CASE StopStreaming(w)
    BY <2>4 DEF StopStreaming
  <2>5. CASE JoinStream(w)
    BY <2>5 DEF JoinStream
  <2>6. CASE DestroyDisplay(w)
    BY <2>6 DEF DestroyDisplay
  <2> QED
    BY <1>1, <1>6, <2>1, <2>2, <2>3, <2>4, <2>5, <2>6 DEF ShutdownStep,
       NoMicrophone, PauseDevice, CloseDevice, ResetServer, StopServer,
       ServerStopped, AfterMic
<1>7. CASE UNCHANGED vars
  BY <1>1, <1>7
<1> QED
  BY <1>2, <1>3, <1>4, <1>5, <1>6, <1>7 DEF Next

LEMMA DataStep ==
  DataTypes /\ [Next]_vars => DataTypes'
<1> SUFFICES ASSUME DataTypes, [Next]_vars PROVE DataTypes'
  OBVIOUS
<1> USE DEF DataTypes, MainStates, ShutStates
<1>1. ASSUME UNCHANGED <<process, streamServer, rendererMutex, captureMutex,
    device, mpc, shut, spc, apc>> PROVE DataTypes'
  BY <1>1
<1>2. CASE MainStep
  <2>1. CASE InitFails
    BY <2>1 DEF InitFails
  <2>2. CASE InitDisplay
    BY <2>2 DEF InitDisplay
  <2>3. CASE InitServer
    BY <2>3 DEF InitServer
  <2>4. CASE InitNoMicrophone
    BY <2>4 DEF InitNoMicrophone
  <2>5. CASE InitMicrophone
    BY <2>5 DEF InitMicrophone
  <2>6. CASE InitCapturing
    BY <2>6 DEF InitCapturing
  <2>7. CASE Run
    BY <2>7 DEF Run
  <2>8. CASE StartTest
    BY <2>8 DEF StartTest
  <2>9. CASE Spawn
    BY <2>9 DEF Spawn
  <2>10. CASE LoopTest
    BY <2>10 DEF LoopTest
  <2>11. CASE RenderNothing
    BY <2>11 DEF RenderNothing
  <2>12. CASE RenderLock
    BY <2>12 DEF RenderLock
  <2>13. CASE Drawn
    BY <2>13 DEF Drawn
  <2>14. CASE Leave
    BY <2>14 DEF Leave
  <2>15. CASE ShutdownReturns
    BY <2>15 DEF ShutdownReturns, Calls
  <2>16. CASE ThreadAborts
    BY <2>16 DEF ThreadAborts
  <2>17. CASE Destroyed
    BY <2>17 DEF Destroyed
  <2> QED
    BY <1>2, <2>1, <2>2, <2>3, <2>4, <2>5, <2>6, <2>7, <2>8, <2>9, <2>10,
       <2>11, <2>12, <2>13, <2>14, <2>15, <2>16, <2>17 DEF MainStep
<1>3. CASE StreamStep
  <2>1. CASE StreamTest
    BY <2>1 DEF StreamTest
  <2>2. CASE CaptureScreen
    BY <2>2 DEF CaptureScreen
  <2>3. CASE CaptureWindow
    BY <2>3 DEF CaptureWindow
  <2>4. CASE ReadPixels
    BY <2>4 DEF ReadPixels
  <2>5. CASE CheckServer
    BY <2>5 DEF CheckServer
  <2>6. CASE VideoSent
    BY <2>6 DEF VideoSent
  <2> QED
    BY <1>3, <2>1, <2>2, <2>3, <2>4, <2>5, <2>6 DEF StreamStep
<1>4. CASE CallbackStep
  <2>1. CASE AudioIgnored
    BY <2>1 DEF AudioIgnored
  <2>2. CASE AudioLock
    BY <2>2 DEF AudioLock
  <2>3. CASE AudioTest
    BY <2>3 DEF AudioTest
  <2>4. CASE AudioSkip
    BY <2>4 DEF AudioSkip
  <2>5. CASE AudioSent
    BY <2>5 DEF AudioSent
  <2> QED
    BY <1>4, <2>1, <2>2, <2>3, <2>4, <2>5 DEF CallbackStep
<1>5. CASE AudioReady
  BY <1>5 DEF AudioReady
<1>6. ASSUME NEW w \in Callers, ShutdownStep(w) \/ ServerStopped(w)
      PROVE  DataTypes'
  <2>1. CASE ShutdownFlag(w)
    BY <2>1 DEF ShutdownFlag, Calls
  <2>2. CASE NoMicrophone(w)
    BY <2>2 DEF NoMicrophone, AfterMic
  <2>3. CASE PauseDevice(w)
    BY <2>3 DEF PauseDevice
  <2>4. CASE CloseDevice(w)
    BY <2>4 DEF CloseDevice
  <2>5. CASE ClearCapturing(w)
    BY <2>5 DEF ClearCapturing
  <2>6. CASE ResetMicrophone(w)
    BY <2>6 DEF ResetMicrophone, AfterMic
  <2>7. CASE StopStreaming(w)
    BY <2>7 DEF StopStreaming
  <2>8. CASE JoinStream(w)
    BY <2>8 DEF JoinStream
  <2>9. CASE ResetServer(w)
    BY <2>9 DEF ResetServer
  <2>10. CASE DestroyDisplay(w)
    BY <2>10 DEF DestroyDisplay
  <2>11. CASE StopServer(w)
    BY <2>11 DEF StopServer
  <2>12. CASE ServerStopped(w)
    BY <2>12 DEF ServerStopped
  <2> QED
    BY <1>6, <2>1, <2>2, <2>3, <2>4, <2>5, <2>6, <2>7, <2>8, <2>9, <2>10,
       <2>11, <2>12 DEF ShutdownStep
<1>7. CASE UNCHANGED vars
  BY <1>1, <1>7
<1> QED
  BY <1>2, <1>3, <1>4, <1>5, <1>6, <1>7 DEF Next

\* Every variable keeps its type.
THEOREM TypeCorrect == Spec => []TypeOK
<1>1. Init => FlagTypes
  BY DEF Init, FlagTypes
<1>2. Init => DataTypes
  BY DEF Init, DataTypes, MainStates, ShutStates
<1> QED
  BY <1>1, <1>2, FlagStep, DataStep, PTL DEF Spec, TypeOK

-----------------------------------------------------------------------------
(* The inductive invariant.                                                *)

\* run() has begun and mainLoop() has not cleared the flag.
Looping == {"start", "spawn", "loop", "render", "draw", "leave"}

Ending == {"shutdown", "destroy", "members", "dead"}

\* Main never finds the flag up in its own calls of shutdown(), and reaches
\* only the microphone and the members; the other caller is done by then.
Controls ==
  /\ isRunning => mpc \in Looping
  /\ shut["main"] # "none" => mpc \in {"members", "dead"}
  /\ mpc = "members" =>
       shut["main"] \in {"mic", "close", "clear", "reset", "thread", "stopping"}
  /\ mpc = "dead" => shut["main"] = "done"
  /\ shut["other"] # "none" => ~isRunning /\ mpc \in Looping \cup Ending
  /\ shut["other"] # "thread"
  /\ mpc \in {"members", "dead"} => shut["other"] \in {"none", "done"}

PastMicrophone ==
  {"streaming", "join", "stop", "stopping", "display", "thread", "done"}

\* The device is open only in a microphone, a callback runs only in an open
\* device, and who is past the microphone has left none.
Microphone ==
  /\ device # "closed" => microphone
  /\ apc # "idle" => device # "closed"
  /\ microphone /\ ~capturing =>
       mpc = "capture" \/ shut["main"] = "reset" \/ shut["other"] = "reset"
  /\ \A w \in Callers :
       /\ shut[w] = "close" => microphone
       /\ shut[w] \in {"clear", "reset"} => device = "closed"
       /\ shut[w] \in PastMicrophone => ~microphone

\* After the join the stream thread captures nothing any more, and only then
\* the server goes.
Streaming ==
  /\ shut["other"] \in {"join", "stop", "stopping", "display", "done"} => ~streaming
  /\ shut["main"] = "stopping" => ~sjoin
  /\ IF sjoin THEN spc # "off" ELSE spc \in {"off", "done"}
  /\ spc # "off" \/ mpc = "spawn" =>
       \/ streaming
       \/ shut["other"] \in {"join", "stop", "stopping", "display", "done"}
  /\ shut["other"] \in {"stop", "stopping", "display", "done"} =>
       spc \in {"off", "test", "done", "dead"}
  /\ shut["other"] \in {"display", "done"} => streamServer = "none"
  /\ spc = "broadcast" \/ apc = "broadcast" => streamServer # "none"

Inv == DataTypes /\ Controls /\ Microphone /\ Streaming

LEMMA ControlsStep ==
  DataTypes /\ Controls /\ [Next]_vars => Controls'
<1> SUFFICES ASSUME DataTypes, Controls, [Next]_vars PROVE Controls'
  OBVIOUS
<1> USE DEF DataTypes, Controls, Looping, Ending
<1>1. ASSUME UNCHANGED <<isRunning, mpc, shut>> PROVE Controls'
  BY <1>1
<1>2. CASE MainStep
  <2>1. CASE InitFails
    BY <2>1 DEF InitFails
  <2>2. CASE InitDisplay
    BY <2>2 DEF InitDisplay
  <2>3. CASE InitServer
    BY <2>3 DEF InitServer
  <2>4. CASE InitNoMicrophone
    BY <2>4 DEF InitNoMicrophone
  <2>5. CASE InitMicrophone
    BY <2>5 DEF InitMicrophone
  <2>6. CASE InitCapturing
    BY <2>6 DEF InitCapturing
  <2>7. CASE Run
    BY <2>7 DEF Run
  <2>8. CASE StartTest
    BY <2>8 DEF StartTest
  <2>9. CASE Spawn
    BY <2>9 DEF Spawn
  <2>10. CASE LoopTest
    BY <2>10 DEF LoopTest
  <2>11. CASE RenderNothing
    BY <2>11 DEF RenderNothing
  <2>12. CASE RenderLock
    BY <2>12 DEF RenderLock
  <2>13. CASE Drawn
    BY <2>13 DEF Drawn
  <2>14. CASE Leave
    BY <2>14 DEF Leave
  <2>15. CASE ShutdownReturns
    BY <2>15 DEF ShutdownReturns, Calls
  <2>16. CASE ThreadAborts
    BY <2>16 DEF ThreadAborts
  <2>17. CASE Destroyed
    BY <2>17 DEF Destroyed
  <2> QED
    BY <1>2, <2>1, <2>2, <2>3, <2>4, <2>5, <2>6, <2>7, <2>8, <2>9, <2>10,
       <2>11, <2>12, <2>13, <2>14, <2>15, <2>16, <2>17 DEF MainStep
<1>3. CASE StreamStep
  BY <1>1, <1>3 DEF StreamStep, StreamTest, CaptureScreen, CaptureWindow,
     ReadPixels, CheckServer, VideoSent
<1>4. CASE CallbackStep
  BY <1>1, <1>4 DEF CallbackStep, AudioIgnored, AudioLock, AudioTest,
     AudioSkip, AudioSent
<1>5. CASE AudioReady
  BY <1>1, <1>5 DEF AudioReady
<1>6. ASSUME NEW w \in Callers, ShutdownStep(w) \/ ServerStopped(w)
      PROVE  Controls'
  <2>1. CASE ShutdownFlag(w)
    BY <2>1 DEF ShutdownFlag, Calls
  <2>2. CASE NoMicrophone(w)
    BY <2>2 DEF NoMicrophone, AfterMic
  <2>3. CASE PauseDevice(w)
    BY <2>3 DEF PauseDevice
  <2>4. CASE CloseDevice(w)
    BY <2>4 DEF CloseDevice
  <2>5. CASE ClearCapturing(w)
    BY <2>5 DEF ClearCapturing
  <2>6. CASE ResetMicrophone(w)
    BY <2>6 DEF ResetMicrophone, AfterMic
  <2>7. CASE StopStreaming(w)
    BY <2>7 DEF StopStreaming
  <2>8. CASE JoinStream(w)
    BY <2>8 DEF JoinStream
  <2>9. CASE ResetServer(w)
    BY <2>9 DEF ResetServer
  <2>10. CASE DestroyDisplay(w)
    BY <2>10 DEF DestroyDisplay
  <2>11. CASE StopServer(w)
    BY <2>11 DEF StopServer
  <2>12. CASE ServerStopped(w)
    BY <2>12 DEF ServerStopped
  <2> QED
    BY <1>6, <2>1, <2>2, <2>3, <2>4, <2>5, <2>6, <2>7, <2>8, <2>9, <2>10,
       <2>11, <2>12 DEF ShutdownStep
<1>7. CASE UNCHANGED vars
  BY <1>1, <1>7
<1> QED
  BY <1>2, <1>3, <1>4, <1>5, <1>6, <1>7 DEF Next

LEMMA MicrophoneStep ==
  DataTypes /\ Controls /\ Microphone /\ [Next]_vars => Microphone'
<1> SUFFICES ASSUME DataTypes, Controls, Microphone, [Next]_vars PROVE Microphone'
  OBVIOUS
<1> USE DEF DataTypes, Controls, Microphone, PastMicrophone, Looping, Ending
<1>1. ASSUME UNCHANGED <<mpc, shut, device, apc, microphone, capturing>> PROVE Microphone'
  BY <1>1
<1>2. CASE MainStep
  <2>1. CASE InitFails
    BY <2>1 DEF InitFails
  <2>2. CASE InitDisplay
    BY <2>2 DEF InitDisplay
  <2>3. CASE InitServer
    BY <2>3 DEF InitServer
  <2>4. CASE InitNoMicrophone
    BY <2>4 DEF InitNoMicrophone
  <2>5. CASE InitMicrophone
    BY <2>5 DEF InitMicrophone
  <2>6. CASE InitCapturing
    BY <2>6 DEF InitCapturing
  <2>7. CASE Run
    BY <2>7 DEF Run
  <2>8. CASE StartTest
    BY <2>8 DEF StartTest
  <2>9. CASE Spawn
    BY <2>9 DEF Spawn
  <2>10. CASE LoopTest
    BY <2>10 DEF LoopTest
  <2>11. CASE RenderNothing
    BY <2>11 DEF RenderNothing
  <2>12. CASE RenderLock
    BY <2>12 DEF RenderLock
  <2>13. CASE Drawn
    BY <2>13 DEF Drawn
  <2>14. CASE Leave
    BY <2>14 DEF Leave
  <2>15. CASE ShutdownReturns
    BY <2>15 DEF ShutdownReturns, Calls
  <2>16. CASE ThreadAborts
    BY <2>16 DEF ThreadAborts
  <2>17. CASE Destroyed
    BY <2>17 DEF Destroyed
  <2> QED
    BY <1>2, <2>1, <2>2, <2>3, <2>4, <2>5, <2>6, <2>7, <2>8, <2>9, <2>10,
       <2>11, <2>12, <2>13, <2>14, <2>15, <2>16, <2>17 DEF MainStep
<1>3. CASE StreamStep
  BY <1>1, <1>3 DEF StreamStep, StreamTest, CaptureScreen, CaptureWindow,
     ReadPixels, CheckServer, VideoSent
<1>4. CASE CallbackStep
  <2>1. CASE AudioIgnored
    BY <2>1 DEF AudioIgnored
  <2>2. CASE AudioLock
    BY <2>2 DEF AudioLock
  <2>3. CASE AudioTest
    BY <2>3 DEF AudioTest
  <2>4. CASE AudioSkip
    BY <2>4 DEF AudioSkip
  <2>5. CASE AudioSent
    BY <2>5 DEF AudioSent
  <2> QED
    BY <1>4, <2>1, <2>2, <2>3, <2>4, <2>5 DEF CallbackStep
<1>5. CASE AudioReady
  BY <1>5 DEF AudioReady
<1>6. ASSUME NEW w \in Callers, ShutdownStep(w) \/ ServerStopped(w)
      PROVE  Microphone'
  <2>1. CASE ShutdownFlag(w)
    BY <2>1 DEF ShutdownFlag, Calls
  <2>2. CASE NoMicrophone(w)
    BY <2>2 DEF NoMicrophone, AfterMic
  <2>3. CASE PauseDevice(w)
    BY <2>3 DEF PauseDevice
  <2>4. CASE CloseDevice(w)
    BY <2>4 DEF CloseDevice
  <2>5. CASE ClearCapturing(w)
    BY <2>5 DEF ClearCapturing
  <2>6. CASE ResetMicrophone(w)
    BY <2>6 DEF ResetMicrophone, AfterMic
  <2>7. CASE StopStreaming(w)
    BY <2>7 DEF StopStreaming
  <2>8. CASE JoinStream(w)
    BY <2>8 DEF JoinStream
  <2>9. CASE ResetServer(w)
    BY <2>9 DEF ResetServer
  <2>10. CASE DestroyDisplay(w)
    BY <2>10 DEF DestroyDisplay
  <2>11. CASE StopServer(w)
    BY <2>11 DEF StopServer
  <2>12. CASE ServerStopped(w)
    BY <2>12 DEF ServerStopped
  <2> QED
    BY <1>6, <2>1, <2>2, <2>3, <2>4, <2>5, <2>6, <2>7, <2>8, <2>9, <2>10,
       <2>11, <2>12 DEF ShutdownStep
<1>7. CASE UNCHANGED vars
  BY <1>1, <1>7
<1> QED
  BY <1>2, <1>3, <1>4, <1>5, <1>6, <1>7 DEF Next

LEMMA StreamingStep ==
  DataTypes /\ Controls /\ Microphone /\ Streaming /\ [Next]_vars => Streaming'
<1> SUFFICES ASSUME DataTypes, Controls, Microphone, Streaming, [Next]_vars PROVE Streaming'
  OBVIOUS
<1> USE DEF DataTypes, Controls, Streaming, Looping, Ending
<1>1. ASSUME UNCHANGED <<mpc, shut, streaming, sjoin, spc, apc, streamServer>> PROVE Streaming'
  BY <1>1
<1>2. CASE MainStep
  <2>1. CASE InitFails
    BY <2>1 DEF InitFails
  <2>2. CASE InitDisplay
    BY <2>2 DEF InitDisplay
  <2>3. CASE InitServer
    BY <2>3 DEF InitServer
  <2>4. CASE InitNoMicrophone
    BY <2>4 DEF InitNoMicrophone
  <2>5. CASE InitMicrophone
    BY <2>5 DEF InitMicrophone
  <2>6. CASE InitCapturing
    BY <2>6 DEF InitCapturing
  <2>7. CASE Run
    BY <2>7 DEF Run
  <2>8. CASE StartTest
    BY <2>8 DEF StartTest
  <2>9. CASE Spawn
    BY <2>9 DEF Spawn
  <2>10. CASE LoopTest
    BY <2>10 DEF LoopTest
  <2>11. CASE RenderNothing
    BY <2>11 DEF RenderNothing
  <2>12. CASE RenderLock
    BY <2>12 DEF RenderLock
  <2>13. CASE Drawn
    BY <2>13 DEF Drawn
  <2>14. CASE Leave
    BY <2>14 DEF Leave
  <2>15. CASE ShutdownReturns
    BY <2>15 DEF ShutdownReturns, Calls
  <2>16. CASE ThreadAborts
    BY <2>16 DEF ThreadAborts
  <2>17. CASE Destroyed
    BY <2>17 DEF Destroyed, Microphone, PastMicrophone
  <2> QED
    BY <1>2, <2>1, <2>2, <2>3, <2>4, <2>5, <2>6, <2>7, <2>8, <2>9, <2>10,
       <2>11, <2>12, <2>13, <2>14, <2>15, <2>16, <2>17 DEF MainStep
<1>3. CASE StreamStep
  <2>1. CASE StreamTest
    BY <2>1 DEF StreamTest
  <2>2. CASE CaptureScreen
    BY <2>2 DEF CaptureScreen
  <2>3. CASE CaptureWindow
    BY <2>3 DEF CaptureWindow
  <2>4. CASE ReadPixels
    BY <2>4 DEF ReadPixels
  <2>5. CASE CheckServer
    BY <2>5 DEF CheckServer
  <2>6. CASE VideoSent
    BY <2>6 DEF VideoSent
  <2> QED
    BY <1>3, <2>1, <2>2, <2>3, <2>4, <2>5, <2>6 DEF StreamStep
<1>4. CASE CallbackStep
  <2>1. CASE AudioIgnored
    BY <2>1 DEF AudioIgnored
  <2>2. CASE AudioLock
    BY <2>2 DEF AudioLock
  <2>3. CASE AudioTest
    BY <2>3 DEF AudioTest
  <2>4. CASE AudioSkip
    BY <2>4 DEF AudioSkip
  <2>5. CASE AudioSent
    BY <2>5 DEF AudioSent
  <2> QED
    BY <1>4, <2>1, <2>2, <2>3, <2>4, <2>5 DEF CallbackStep
<1>5. CASE AudioReady
  BY <1>5 DEF AudioReady
<1>6. ASSUME NEW w \in Callers, ShutdownStep(w) \/ ServerStopped(w)
      PROVE  Streaming'
  <2>1. CASE ShutdownFlag(w)
    BY <2>1 DEF ShutdownFlag, Calls
  <2>2. CASE NoMicrophone(w)
    BY <2>2 DEF NoMicrophone, AfterMic
  <2>3. CASE PauseDevice(w)
    BY <2>3 DEF PauseDevice
  <2>4. CASE CloseDevice(w)
    BY <2>4 DEF CloseDevice
  <2>5. CASE ClearCapturing(w)
    BY <2>5 DEF ClearCapturing
  <2>6. CASE ResetMicrophone(w)
    BY <2>6 DEF ResetMicrophone, AfterMic
  <2>7. CASE StopStreaming(w)
    <3>1. CASE streaming
      BY <2>7, <3>1 DEF StopStreaming
    <3>2. CASE ~streaming
      BY <2>7, <3>2 DEF StopStreaming
    <3> QED
      BY <3>1, <3>2
  <2>8. CASE JoinStream(w)
    BY <2>8 DEF JoinStream
  <2>9. CASE ResetServer(w)
    BY <2>9 DEF ResetServer, Microphone, PastMicrophone
  <2>10. CASE DestroyDisplay(w)
    BY <2>10 DEF DestroyDisplay
  <2>11. CASE StopServer(w)
    BY <2>11 DEF StopServer
  \* Nobody who might use the server is left.
  <2>12. CASE ServerStopped(w)
    BY <2>12 DEF ServerStopped, Microphone, PastMicrophone
  <2> QED
    BY <1>6, <2>1, <2>2, <2>3, <2>4, <2>5, <2>6, <2>7, <2>8, <2>9, <2>10,
       <2>11, <2>12 DEF ShutdownStep
<1>7. CASE UNCHANGED vars
  BY <1>1, <1>7
<1> QED
  BY <1>2, <1>3, <1>4, <1>5, <1>6, <1>7 DEF Next

LEMMA Invariant == Spec => []Inv
<1>1. Init => Inv
  BY DEF Init, Inv, DataTypes, MainStates, ShutStates, Controls, Microphone,
     PastMicrophone, Streaming
<1>2. Inv /\ [Next]_vars => Inv'
  BY DataStep, ControlsStep, MicrophoneStep, StreamingStep DEF Inv
<1> QED
  BY <1>1, <1>2, PTL DEF Spec

-----------------------------------------------------------------------------
(* The properties.                                                         *)

\* Neither the stream thread nor the audio callback uses a server that has
\* been destroyed since they tested the pointer.
THEOREM ServerIsThere == Spec => []ServerOutlivesUsers
<1>1. Inv => ServerOutlivesUsers
  BY DEF Inv, Streaming, ServerOutlivesUsers
<1> QED
  BY <1>1, Invariant, PTL

\* The audio thread is never in a callback of a destroyed MicrophoneCapture.
THEOREM MicrophoneIsThere == Spec => []MicrophoneOutlivesCallback
<1>1. Inv => MicrophoneOutlivesCallback
  BY DEF Inv, Microphone, MicrophoneOutlivesCallback
<1> QED
  BY <1>1, Invariant, PTL

\* A shutdown() that found the application running leaves nothing of its
\* activity, wherever run() was.
THEOREM ShutdownIsComplete == Spec => []ShutdownStopsAll
<1>1. Inv => ShutdownStopsAll
  BY DEF Inv, Controls, Microphone, PastMicrophone, Streaming,
     ShutdownStopsAll
<1> QED
  BY <1>1, Invariant, PTL
-----------------------------------------------------------------------------
(* The mutexes.                                                            *)

\* What main passes before it starts the stream thread.
Starting == {"init", "server", "mic", "capture", "run", "start", "spawn"}

\* A mutex is held only inside the section that gives it back; the stream
\* thread of a process that has died gives nothing back.
Holders ==
  /\ captureMutex = "audio" => apc \in {"test", "broadcast"}
  /\ rendererMutex = "main" => mpc = "draw"
  /\ rendererMutex = "stream" => spc = "read" \/ mpc = "dead"
  /\ mpc \in Starting => spc = "off"

LEMMA HoldersStep ==
  DataTypes /\ Controls /\ Holders /\ [Next]_vars => Holders'
<1> SUFFICES ASSUME DataTypes, Controls, Holders, [Next]_vars PROVE Holders'
  OBVIOUS
<1> USE DEF DataTypes, Controls, Holders, Starting
<1>1. ASSUME UNCHANGED <<mutexes, mpc, spc, apc>> PROVE Holders'
  BY <1>1
<1>2. CASE MainStep
  <2>1. CASE InitFails
    BY <2>1 DEF InitFails
  <2>2. CASE InitDisplay
    BY <2>2 DEF InitDisplay
  <2>3. CASE InitServer
    BY <2>3 DEF InitServer
  <2>4. CASE InitNoMicrophone
    BY <2>4 DEF InitNoMicrophone
  <2>5. CASE InitMicrophone
    BY <2>5 DEF InitMicrophone
  <2>6. CASE InitCapturing
    BY <2>6 DEF InitCapturing
  <2>7. CASE Run
    BY <2>7 DEF Run
  <2>8. CASE StartTest
    BY <2>8 DEF StartTest
  <2>9. CASE Spawn
    BY <2>9 DEF Spawn
  <2>10. CASE LoopTest
    BY <2>10 DEF LoopTest
  <2>11. CASE RenderNothing
    BY <2>11 DEF RenderNothing
  <2>12. CASE RenderLock
    BY <2>12 DEF RenderLock
  <2>13. CASE Drawn
    BY <2>13 DEF Drawn
  <2>14. CASE Leave
    BY <2>14 DEF Leave
  <2>15. CASE ShutdownReturns
    BY <2>15 DEF ShutdownReturns, Calls
  <2>16. CASE ThreadAborts
    BY <2>16 DEF ThreadAborts
  <2>17. CASE Destroyed
    BY <2>17 DEF Destroyed
  <2> QED
    BY <1>2, <2>1, <2>2, <2>3, <2>4, <2>5, <2>6, <2>7, <2>8, <2>9, <2>10,
       <2>11, <2>12, <2>13, <2>14, <2>15, <2>16, <2>17 DEF MainStep
<1>3. CASE StreamStep
  <2>1. CASE StreamTest
    BY <2>1 DEF StreamTest
  <2>2. CASE CaptureScreen
    BY <2>2 DEF CaptureScreen
  <2>3. CASE CaptureWindow
    BY <2>3 DEF CaptureWindow
  <2>4. CASE ReadPixels
    BY <2>4 DEF ReadPixels
  <2>5. CASE CheckServer
    BY <2>5 DEF CheckServer
  <2>6. CASE VideoSent
    BY <2>6 DEF VideoSent
  <2> QED
    BY <1>3, <2>1, <2>2, <2>3, <2>4, <2>5, <2>6 DEF StreamStep
<1>4. CASE CallbackStep
  <2>1. CASE AudioIgnored
    BY <2>1 DEF AudioIgnored
  <2>2. CASE AudioLock
    BY <2>2 DEF AudioLock
  <2>3. CASE AudioTest
    BY <2>3 DEF AudioTest
  <2>4. CASE AudioSkip
    BY <2>4 DEF AudioSkip
  <2>5. CASE AudioSent
    BY <2>5 DEF AudioSent
  <2> QED
    BY <1>4, <2>1, <2>2, <2>3, <2>4, <2>5 DEF CallbackStep
<1>5. CASE AudioReady
  BY <1>5 DEF AudioReady
<1>6. ASSUME NEW w \in Callers, ShutdownStep(w) \/ ServerStopped(w)
      PROVE  Holders'
  BY <1>1, <1>6 DEF ShutdownStep, ShutdownFlag, NoMicrophone, PauseDevice,
     CloseDevice, ClearCapturing, ResetMicrophone, StopStreaming, JoinStream,
     ResetServer, StopServer, ServerStopped, DestroyDisplay
<1>7. CASE UNCHANGED vars
  BY <1>1, <1>7
<1> QED
  BY <1>2, <1>3, <1>4, <1>5, <1>6, <1>7 DEF Next

\* No wait of shutdown() or of the destructor closes a circle.
THEOREM NoWaitIsCircular == Spec => []NoCircularWait
<1>1. Init => Holders
  BY DEF Init, Holders, Starting
<1>2. Inv /\ Holders /\ [Next]_vars => Holders'
  BY HoldersStep DEF Inv
<1>3. Inv /\ Holders => NoCircularWait
  <2> SUFFICES ASSUME Inv, Holders, NEW w \in Callers
               PROVE  /\ shut[w] = "close" /\ apc = "lock" => captureMutex = "none"
                      /\ shut[w] = "clear" => captureMutex = "none"
                      /\ shut[w] = "join" =>
                           /\ ~streaming
                           /\ rendererMutex = "main" => mpc = "draw"
                           /\ rendererMutex = "stream" => spc = "read"
    BY DEF NoCircularWait
  <2>1. captureMutex # "none" => apc \in {"test", "broadcast"}
    BY DEF Inv, DataTypes, Holders
  \* SDL_CloseAudioDevice() has waited for the callback.
  <2>2. shut[w] = "clear" => apc = "idle"
    BY DEF Inv, Microphone
  \* Main joins no thread in its own calls: it finds isRunning down.
  <2>3. shut[w] = "join" => w = "other" /\ mpc # "dead"
    BY DEF Inv, Controls
  <2>4. shut[w] = "join" => ~streaming
    BY <2>3 DEF Inv, Streaming
  <2> QED
    BY <2>1, <2>2, <2>3, <2>4 DEF Holders
<1> QED
  BY <1>1, <1>2, <1>3, Invariant, PTL DEF Spec
=============================================================================

------------------------- MODULE StreamServerProofs -------------------------
(***************************************************************************)
(* Theorems about StreamServer, for every value of its constants.          *)
(*                                                                         *)
(* The safety properties follow from one inductive invariant, Inv, the     *)
(* conjunction of DataTypes, Controls, Pool, Locks, Entries and            *)
(* Descriptors.  ServedIsRegistered and StopClosesAll also need that a     *)
(* connection keeps its id, so that one that shares it shares it for good  *)
(* (IdsStay, SharedStays): Served and Closing strengthen Inv for them, and *)
(* Owning does for ServedOwnsSocket.  No theorem bounds the number of      *)
(* connections: ids may wrap.                                              *)
(*                                                                         *)
(* Every step lemma has the same layout: a step that leaves the variables  *)
(* of the conjunct alone preserves it (<1>1); then one step per actor,     *)
(* with one step below it per action that can disturb the conjunct.        *)
(***************************************************************************)
EXTENDS StreamServer, TLAPS

USE DEF vars, kernel, info, registry, owner, acceptor, caster, api, notOwner,
        notAcceptor, notHandler, notCaster

-----------------------------------------------------------------------------
(* Types.                                                                  *)

LEMMA IdTypes == 0 \in Ids /\ 1 \in Ids /\ \A i \in Ids : NextId(i) \in Ids
  BY IdAssumption DEF Ids, NextId

LEMMA CloseType ==
  ASSUME NEW f, holder \in [Fds -> Conns \cup {NoConn}], Close(f)
  PROVE  holder' \in [Fds -> Conns \cup {NoConn}]
  BY DEF Close

LEMMA FlagStep ==
  FlagTypes /\ [Next]_vars => FlagTypes'
<1> SUFFICES ASSUME FlagTypes, [Next]_vars PROVE FlagTypes'
  OBVIOUS
<1> USE DEF FlagTypes
<1>1. ASSUME UNCHANGED <<running, listening>> PROVE FlagTypes'
  BY <1>1
<1>2. CASE OwnerStep
  <2>1. CASE Start
    BY <2>1 DEF Start
  <2>2. CASE StopFlag
    BY <2>2 DEF StopFlag
  <2>3. CASE StopListening
    BY <2>3 DEF StopListening
  <2> QED
    BY <1>1, <1>2, <2>1, <2>2, <2>3 DEF OwnerStep, StopJoinAccept,
       StopJoinMonitor, StopLock, StopDrop, StopClear, StopJoinHandlers
<1>3. CASE AcceptStep
  BY <1>1, <1>3 DEF AcceptStep, AcceptCheck, AcceptCall, AcceptFail,
     AcceptReturn, AcceptInsert, AcceptSpawn
<1>4. CASE MonitorStep
  BY <1>1, <1>4 DEF MonitorStep, MonitorCheck, MonitorSweep
<1>5. ASSUME NEW c \in Conns, HandlerStep(c) PROVE FlagTypes'
  BY <1>1, <1>5 DEF HandlerStep, HandshakeRecv, HandshakeDone, HandshakeFail,
     FailClose, AckHeartbeat, HandlerSent, ClientLeaves, LoopEnds,
     CleanupClose, CleanupInvalidate, Erase
<1>6. ASSUME NEW b \in Broadcasters, BroadcastStep(b) PROVE FlagTypes'
  BY <1>1, <1>6 DEF BroadcastStep, BroadcastCall, BroadcastLock,
     BroadcastSkip, BroadcastSend, BroadcastSent, BroadcastUnlock
<1>7. CASE ApiStep
  BY <1>1, <1>7 DEF ApiStep, DisconnectLock, DisconnectClose
<1>8. CASE UNCHANGED vars
  BY <1>1, <1>8
<1> QED
  BY <1>2, <1>3, <1>4, <1>5, <1>6, <1>7, <1>8 DEF Next

LEMMA DataStep ==
  DataTypes /\ [Next]_vars => DataTypes'
<1> SUFFICES ASSUME DataTypes, [Next]_vars PROVE DataTypes'
  OBVIOUS
<1> USE DEF DataTypes, Callers, OwnerStates, HandlerStates
<1>1. ASSUME UNCHANGED <<nextClientId, accepted, clients, mutex, holder,
    socket, clientId, active, threads, opc, opending, apc, acur, mpc, hpc,
    bpc, bpending, btarget, bsock, dpc, dtarget>> PROVE DataTypes'
  BY <1>1
<1>2. CASE OwnerStep
  <2>1. CASE Start
    BY <2>1 DEF Start
  <2>2. CASE StopFlag
    BY <2>2 DEF StopFlag
  <2>3. CASE StopListening
    BY <2>3 DEF StopListening
  <2>4. CASE StopJoinAccept
    BY <2>4 DEF StopJoinAccept
  <2>5. CASE StopJoinMonitor
    BY <2>5 DEF StopJoinMonitor
  <2>6. CASE StopLock
    BY <2>6 DEF StopLock, Registered
  <2>7. ASSUME NEW c \in Conns, StopDrop(c)
        PROVE DataTypes'
    BY <2>7, CloseType DEF StopDrop
  <2>8. CASE StopClear
    BY <2>8 DEF StopClear
  <2>9. CASE StopJoinHandlers
    BY <2>9 DEF StopJoinHandlers
  <2> QED
    BY <1>2, <2>1, <2>2, <2>3, <2>4, <2>5, <2>6, <2>7, <2>8, <2>9 DEF
       OwnerStep
<1>3. CASE AcceptStep
  <2>1. CASE AcceptCheck
    BY <2>1 DEF AcceptCheck
  <2>2. CASE AcceptCall
    BY <2>2 DEF AcceptCall
  <2>3. CASE AcceptFail
    BY <2>3 DEF AcceptFail
  <2>4. ASSUME NEW c \in Conns, NEW f \in Fds, AcceptReturn(c, f)
        PROVE DataTypes'
    BY <2>4, IdTypes, BoundAssumption DEF AcceptReturn
  <2>5. CASE AcceptInsert
    BY <2>5, IdTypes DEF AcceptInsert
  <2>6. CASE AcceptSpawn
    BY <2>6 DEF AcceptSpawn
  <2> QED
    BY <1>3, <2>1, <2>2, <2>3, <2>4, <2>5, <2>6 DEF AcceptStep
<1>4. CASE MonitorStep
  <2>1. CASE MonitorCheck
    BY <2>1 DEF MonitorCheck
  <2>2. ASSUME NEW late \in SUBSET Conns, MonitorSweep(late)
        PROVE DataTypes'
    BY <2>2 DEF MonitorSweep
  <2> QED
    BY <1>4, <2>1, <2>2 DEF MonitorStep
<1>5. ASSUME NEW c \in Conns, HandlerStep(c) PROVE DataTypes'
  <2>1. CASE HandshakeRecv(c)
    <3>1. hpc' \in [Conns -> HandlerStates]
      BY <2>1 DEF HandshakeRecv, Goto
    <3>2. active' \in [Conns -> BOOLEAN]
      BY <2>1 DEF HandshakeRecv, Goto
    <3> QED
      BY <2>1, <3>1, <3>2 DEF HandshakeRecv
  <2>2. CASE HandshakeDone(c)
    BY <2>2 DEF HandshakeDone, Goto
  <2>3. CASE HandshakeFail(c)
    BY <2>3 DEF HandshakeFail, Goto
  <2>4. CASE FailClose(c)
    BY <2>4, CloseType DEF FailClose, Goto
  <2>5. CASE AckHeartbeat(c)
    BY <2>5 DEF AckHeartbeat, Goto
  <2>6. CASE HandlerSent(c)
    BY <2>6 DEF HandlerSent, Goto
  <2>7. CASE ClientLeaves(c)
    BY <2>7 DEF ClientLeaves, Goto
  <2>8. CASE LoopEnds(c)
    BY <2>8 DEF LoopEnds, Goto
  <2>9. CASE CleanupClose(c)
    BY <2>9, CloseType DEF CleanupClose, Goto
  <2>10. CASE CleanupInvalidate(c)
    BY <2>10 DEF CleanupInvalidate, Goto
  <2>11. CASE Erase(c)
    BY <2>11 DEF Erase, Goto
  <2> QED
    BY <1>5, <2>1, <2>2, <2>3, <2>4, <2>5, <2>6, <2>7, <2>8, <2>9, <2>10,
       <2>11 DEF HandlerStep
<1>6. ASSUME NEW b \in Broadcasters, BroadcastStep(b) PROVE DataTypes'
  <2>1. CASE BroadcastCall(b)
    BY <2>1 DEF BroadcastCall
  <2>2. CASE BroadcastLock(b)
    BY <2>2 DEF BroadcastLock, Registered
  <2>3. ASSUME NEW c \in Conns, BroadcastSkip(b, c)
        PROVE DataTypes'
    BY <2>3 DEF BroadcastSkip
  <2>4. ASSUME NEW c \in Conns, BroadcastSend(b, c)
        PROVE DataTypes'
    BY <2>4 DEF BroadcastSend
  <2>5. CASE BroadcastSent(b)
    BY <2>5 DEF BroadcastSent
  <2>6. CASE BroadcastUnlock(b)
    BY <2>6 DEF BroadcastUnlock
  <2> QED
    BY <1>6, <2>1, <2>2, <2>3, <2>4, <2>5, <2>6 DEF BroadcastStep
<1>7. CASE ApiStep
  <2>1. ASSUME NEW c \in Conns, DisconnectLock(c)
        PROVE DataTypes'
    BY <2>1 DEF DisconnectLock
  <2>2. CASE DisconnectClose
    BY <2>2, CloseType DEF DisconnectClose
  <2> QED
    BY <1>7, <2>1, <2>2 DEF ApiStep
<1>8. CASE UNCHANGED vars
  BY <1>1, <1>8
<1> QED
  BY <1>2, <1>3, <1>4, <1>5, <1>6, <1>7, <1>8 DEF Next

\* Every variable keeps its type.
THEOREM TypeCorrect == Spec => []TypeOK
<1>1. Init => FlagTypes
  BY DEF Init, FlagTypes
<1>2. Init => DataTypes
  BY IdAssumption, BoundAssumption DEF Init, DataTypes, Ids, OwnerStates,
     HandlerStates
<1> QED
  BY <1>1, <1>2, FlagStep, DataStep, PTL DEF Spec, TypeOK

-----------------------------------------------------------------------------
(* The inductive invariant.                                                *)

\* stop() passes a join only when the thread has returned, and the accept
\* thread holds a connection of its own only between accept() and the spawn.
Controls ==
  /\ opc \in {"joinMonitor", "lock", "drop", "joinHandlers", "idle"} =>
       apc \in {"off", "done"}
  /\ opc \in {"lock", "drop", "joinHandlers", "idle"} => mpc \in {"off", "done"}
  /\ apc \in {"insert", "spawn"} => hpc[acur] = "none"
  /\ apc \notin {"insert", "spawn"} => acur = NoConn

\* Every running handler has its handle in client_threads_; none runs while
\* the server is down.
Pool ==
  /\ \A c \in Conns : Running(c) => c \in threads
  /\ opc = "idle" => \A c \in Conns : ~Running(c)

\* Who is inside a critical section of several steps holds the mutex.
Locks ==
  /\ \A b \in Broadcasters : bpc[b] \in {"iterate", "send"} => mutex = b
  /\ opc = "drop" => mutex = "owner"
  /\ dpc = "close" => mutex = "api"

\* An entry of clients_ stands under its own id and belongs to a client whose
\* handler runs, or is about to be started.
Entries ==
  \A i \in Ids, c \in Conns : clients[i] = c =>
    clientId[c] = i /\ (Running(c) \/ (c = acur /\ apc = "spawn"))

\* The control points before a handler's own close.
OpenStates == {"start", "handshake", "send", "loop", "failClose", "close"}

\* A descriptor refers to a connection only while the record of that
\* connection has its number and the handler has yet to close it.
Descriptors ==
  \A f \in Fds, c \in Conns : holder[f] = c =>
    socket[c] = f /\ (c = acur \/ hpc[c] \in OpenStates)

Inv == DataTypes /\ Controls /\ Pool /\ Locks /\ Entries /\ Descriptors

LEMMA ControlsStep ==
  DataTypes /\ Controls /\ [Next]_vars => Controls'
<1> SUFFICES ASSUME DataTypes, Controls, [Next]_vars PROVE Controls'
  OBVIOUS
<1> USE ConnAssumption DEF DataTypes, OwnerStates, HandlerStates, Controls
<1>1. ASSUME UNCHANGED <<opc, apc, acur, mpc, hpc>> PROVE Controls'
  BY <1>1
<1>2. CASE OwnerStep
  <2>1. CASE Start
    BY <2>1 DEF Start
  <2>2. CASE StopFlag
    BY <2>2 DEF StopFlag
  <2>3. CASE StopListening
    BY <2>3 DEF StopListening
  <2>4. CASE StopJoinAccept
    BY <2>4 DEF StopJoinAccept
  <2>5. CASE StopJoinMonitor
    BY <2>5 DEF StopJoinMonitor
  <2>6. CASE StopLock
    BY <2>6 DEF StopLock
  <2>7. CASE StopClear
    BY <2>7 DEF StopClear
  <2>8. CASE StopJoinHandlers
    BY <2>8 DEF StopJoinHandlers
  <2> QED
    BY <1>1, <1>2, <2>1, <2>2, <2>3, <2>4, <2>5, <2>6, <2>7, <2>8 DEF
       OwnerStep, StopDrop
<1>3. CASE AcceptStep
  <2>1. CASE AcceptCheck
    BY <2>1 DEF AcceptCheck
  <2>2. CASE AcceptCall
    BY <2>2 DEF AcceptCall
  <2>3. CASE AcceptFail
    BY <2>3 DEF AcceptFail
  <2>4. ASSUME NEW c \in Conns, NEW f \in Fds, AcceptReturn(c, f)
        PROVE Controls'
    BY <2>4 DEF AcceptReturn
  <2>5. CASE AcceptInsert
    BY <2>5 DEF AcceptInsert
  <2>6. CASE AcceptSpawn
    BY <2>6 DEF AcceptSpawn
  <2> QED
    BY <1>3, <2>1, <2>2, <2>3, <2>4, <2>5, <2>6 DEF AcceptStep
<1>4. CASE MonitorStep
  <2>1. CASE MonitorCheck
    BY <2>1 DEF MonitorCheck
  <2>2. ASSUME NEW late \in SUBSET Conns, MonitorSweep(late)
        PROVE Controls'
    BY <2>2 DEF MonitorSweep
  <2> QED
    BY <1>4, <2>1, <2>2 DEF MonitorStep
<1>5. ASSUME NEW c \in Conns, HandlerStep(c) PROVE Controls'
  <2>1. CASE HandshakeRecv(c)
    BY <2>1 DEF HandshakeRecv, Goto
  <2>2. CASE HandshakeDone(c)
    BY <2>2 DEF HandshakeDone, Goto
  <2>3. CASE HandshakeFail(c)
    BY <2>3 DEF HandshakeFail, Goto
  <2>4. CASE FailClose(c)
    BY <2>4 DEF FailClose, Goto
  <2>5. CASE AckHeartbeat(c)
    BY <2>5 DEF AckHeartbeat, Goto
  <2>6. CASE HandlerSent(c)
    BY <2>6 DEF HandlerSent, Goto
  <2>7. CASE LoopEnds(c)
    BY <2>7 DEF LoopEnds, Goto
  <2>8. CASE CleanupClose(c)
    BY <2>8 DEF CleanupClose, Goto
  <2>9. CASE CleanupInvalidate(c)
    BY <2>9 DEF CleanupInvalidate, Goto
  <2>10. CASE Erase(c)
    BY <2>10 DEF Erase, Goto
  <2> QED
    BY <1>1, <1>5, <2>1, <2>2, <2>3, <2>4, <2>5, <2>6, <2>7, <2>8, <2>9,
       <2>10 DEF HandlerStep, ClientLeaves
<1>6. ASSUME NEW b \in Broadcasters, BroadcastStep(b) PROVE Controls'
  BY <1>1, <1>6 DEF BroadcastStep, BroadcastCall, BroadcastLock,
     BroadcastSkip, BroadcastSend, BroadcastSent, BroadcastUnlock
<1>7. CASE ApiStep
  BY <1>1, <1>7 DEF ApiStep, DisconnectLock, DisconnectClose
<1>8. CASE UNCHANGED vars
  BY <1>1, <1>8
<1> QED
  BY <1>2, <1>3, <1>4, <1>5, <1>6, <1>7, <1>8 DEF Next

LEMMA PoolStep ==
  DataTypes /\ Controls /\ Pool /\ [Next]_vars => Pool'
<1> SUFFICES ASSUME DataTypes, Controls, Pool, [Next]_vars PROVE Pool'
  OBVIOUS
<1> USE DEF DataTypes, OwnerStates, HandlerStates, Pool, Running
<1>1. ASSUME UNCHANGED <<opc, threads, hpc>> PROVE Pool'
  BY <1>1
<1>2. CASE OwnerStep
  <2>1. CASE Start
    BY <2>1 DEF Start
  <2>2. CASE StopFlag
    BY <2>2 DEF StopFlag
  <2>3. CASE StopListening
    BY <2>3 DEF StopListening
  <2>4. CASE StopJoinAccept
    BY <2>4 DEF StopJoinAccept
  <2>5. CASE StopJoinMonitor
    BY <2>5 DEF StopJoinMonitor
  <2>6. CASE StopLock
    BY <2>6 DEF StopLock
  <2>7. CASE StopClear
    BY <2>7 DEF StopClear
  <2>8. CASE StopJoinHandlers
    BY <2>8 DEF StopJoinHandlers
  <2> QED
    BY <1>1, <1>2, <2>1, <2>2, <2>3, <2>4, <2>5, <2>6, <2>7, <2>8 DEF
       OwnerStep, StopDrop
<1>3. CASE AcceptStep
  <2>1. CASE AcceptSpawn
    BY <2>1 DEF AcceptSpawn, Controls
  <2> QED
    BY <1>1, <1>3, <2>1 DEF AcceptStep, AcceptCheck, AcceptCall, AcceptFail,
       AcceptReturn, AcceptInsert
<1>4. CASE MonitorStep
  BY <1>1, <1>4 DEF MonitorStep, MonitorCheck, MonitorSweep
<1>5. ASSUME NEW c \in Conns, HandlerStep(c) PROVE Pool'
  <2>1. CASE HandshakeRecv(c)
    BY <2>1 DEF HandshakeRecv, Goto
  <2>2. CASE HandshakeDone(c)
    BY <2>2 DEF HandshakeDone, Goto
  <2>3. CASE HandshakeFail(c)
    BY <2>3 DEF HandshakeFail, Goto
  <2>4. CASE FailClose(c)
    BY <2>4 DEF FailClose, Goto
  <2>5. CASE AckHeartbeat(c)
    BY <2>5 DEF AckHeartbeat, Goto
  <2>6. CASE HandlerSent(c)
    BY <2>6 DEF HandlerSent, Goto
  <2>7. CASE LoopEnds(c)
    BY <2>7 DEF LoopEnds, Goto
  <2>8. CASE CleanupClose(c)
    BY <2>8 DEF CleanupClose, Goto
  <2>9. CASE CleanupInvalidate(c)
    BY <2>9 DEF CleanupInvalidate, Goto
  <2>10. CASE Erase(c)
    BY <2>10 DEF Erase, Goto
  <2> QED
    BY <1>1, <1>5, <2>1, <2>2, <2>3, <2>4, <2>5, <2>6, <2>7, <2>8, <2>9,
       <2>10 DEF HandlerStep, ClientLeaves
<1>6. ASSUME NEW b \in Broadcasters, BroadcastStep(b) PROVE Pool'
  BY <1>1, <1>6 DEF BroadcastStep, BroadcastCall, BroadcastLock,
     BroadcastSkip, BroadcastSend, BroadcastSent, BroadcastUnlock
<1>7. CASE ApiStep
  BY <1>1, <1>7 DEF ApiStep, DisconnectLock, DisconnectClose
<1>8. CASE UNCHANGED vars
  BY <1>1, <1>8
<1> QED
  BY <1>2, <1>3, <1>4, <1>5, <1>6, <1>7, <1>8 DEF Next

LEMMA LocksStep ==
  DataTypes /\ Locks /\ [Next]_vars => Locks'
<1> SUFFICES ASSUME DataTypes, Locks, [Next]_vars PROVE Locks'
  OBVIOUS
<1> USE DEF DataTypes, OwnerStates, HandlerStates, Locks, Callers
<1>1. ASSUME UNCHANGED <<opc, mutex, bpc, dpc>> PROVE Locks'
  BY <1>1
<1>2. CASE OwnerStep
  <2>1. CASE Start
    BY <2>1, CallerAssumption DEF Start
  <2>2. CASE StopFlag
    BY <2>2, CallerAssumption DEF StopFlag
  <2>3. CASE StopListening
    BY <2>3, CallerAssumption DEF StopListening
  <2>4. CASE StopJoinAccept
    BY <2>4, CallerAssumption DEF StopJoinAccept
  <2>5. CASE StopJoinMonitor
    BY <2>5, CallerAssumption DEF StopJoinMonitor
  <2>6. CASE StopLock
    BY <2>6, CallerAssumption DEF StopLock, LockFree
  <2>7. CASE StopClear
    BY <2>7, CallerAssumption DEF StopClear
  <2>8. CASE StopJoinHandlers
    BY <2>8, CallerAssumption DEF StopJoinHandlers
  <2> QED
    BY <1>1, <1>2, <2>1, <2>2, <2>3, <2>4, <2>5, <2>6, <2>7, <2>8 DEF
       OwnerStep, StopDrop
<1>3. CASE AcceptStep
  BY <1>1, <1>3 DEF AcceptStep, AcceptCheck, AcceptCall, AcceptFail,
     AcceptReturn, AcceptInsert, AcceptSpawn
<1>4. CASE MonitorStep
  BY <1>1, <1>4 DEF MonitorStep, MonitorCheck, MonitorSweep
<1>5. ASSUME NEW c \in Conns, HandlerStep(c) PROVE Locks'
  BY <1>1, <1>5 DEF HandlerStep, HandshakeRecv, HandshakeDone, HandshakeFail,
     FailClose, AckHeartbeat, HandlerSent, ClientLeaves, LoopEnds,
     CleanupClose, CleanupInvalidate, Erase
<1>6. ASSUME NEW b \in Broadcasters, BroadcastStep(b) PROVE Locks'
  <2>1. CASE BroadcastCall(b)
    BY <2>1, CallerAssumption DEF BroadcastCall
  <2>2. CASE BroadcastLock(b)
    BY <2>2, CallerAssumption DEF BroadcastLock, LockFree
  <2>3. ASSUME NEW c \in Conns, BroadcastSend(b, c)
        PROVE Locks'
    BY <2>3, CallerAssumption DEF BroadcastSend
  <2>4. CASE BroadcastSent(b)
    BY <2>4, CallerAssumption DEF BroadcastSent
  <2>5. CASE BroadcastUnlock(b)
    BY <2>5, CallerAssumption DEF BroadcastUnlock
  <2> QED
    BY <1>1, <1>6, <2>1, <2>2, <2>3, <2>4, <2>5 DEF BroadcastStep,
       BroadcastSkip
<1>7. CASE ApiStep
  <2>1. ASSUME NEW c \in Conns, DisconnectLock(c)
        PROVE Locks'
    BY <2>1, CallerAssumption DEF DisconnectLock, LockFree
  <2>2. CASE DisconnectClose
    BY <2>2, CallerAssumption DEF DisconnectClose
  <2> QED
    BY <1>7, <2>1, <2>2 DEF ApiStep
<1>8. CASE UNCHANGED vars
  BY <1>1, <1>8
<1> QED
  BY <1>2, <1>3, <1>4, <1>5, <1>6, <1>7, <1>8 DEF Next

LEMMA EntriesStep ==
  DataTypes /\ Controls /\ Entries /\ [Next]_vars => Entries'
<1> SUFFICES ASSUME DataTypes, Controls, Entries, [Next]_vars PROVE Entries'
  OBVIOUS
<1> USE ConnAssumption, IdTypes DEF DataTypes, OwnerStates, HandlerStates,
       Controls, Entries, Running
<1>1. ASSUME UNCHANGED <<clients, clientId, apc, acur, hpc>> PROVE Entries'
  BY <1>1
<1>2. CASE OwnerStep
  <2>1. CASE Start
    BY <2>1 DEF Start
  <2>2. CASE StopClear
    BY <2>2 DEF StopClear
  <2> QED
    BY <1>1, <1>2, <2>1, <2>2 DEF OwnerStep, StopFlag, StopListening,
       StopJoinAccept, StopJoinMonitor, StopLock, StopDrop, StopJoinHandlers
<1>3. CASE AcceptStep
  <2>1. CASE AcceptCheck
    BY <2>1 DEF AcceptCheck
  <2>2. CASE AcceptCall
    BY <2>2 DEF AcceptCall
  <2>3. CASE AcceptFail
    BY <2>3 DEF AcceptFail
  <2>4. ASSUME NEW c \in Conns, NEW f \in Fds, AcceptReturn(c, f)
        PROVE Entries'
    BY <2>4 DEF AcceptReturn
  <2>5. CASE AcceptInsert
    BY <2>5 DEF AcceptInsert
  <2>6. CASE AcceptSpawn
    BY <2>6 DEF AcceptSpawn
  <2> QED
    BY <1>3, <2>1, <2>2, <2>3, <2>4, <2>5, <2>6 DEF AcceptStep
<1>4. CASE MonitorStep
  BY <1>1, <1>4 DEF MonitorStep, MonitorCheck, MonitorSweep
<1>5. ASSUME NEW c \in Conns, HandlerStep(c) PROVE Entries'
  <2>1. CASE HandshakeRecv(c)
    BY <2>1 DEF HandshakeRecv, Goto
  <2>2. CASE HandshakeDone(c)
    BY <2>2 DEF HandshakeDone, Goto
  <2>3. CASE HandshakeFail(c)
    BY <2>3 DEF HandshakeFail, Goto
  <2>4. CASE FailClose(c)
    BY <2>4 DEF FailClose, Goto
  <2>5. CASE AckHeartbeat(c)
    BY <2>5 DEF AckHeartbeat, Goto
  <2>6. CASE HandlerSent(c)
    BY <2>6 DEF HandlerSent, Goto
  <2>7. CASE LoopEnds(c)
    BY <2>7 DEF LoopEnds, Goto
  <2>8. CASE CleanupClose(c)
    BY <2>8 DEF CleanupClose, Goto
  <2>9. CASE CleanupInvalidate(c)
    BY <2>9 DEF CleanupInvalidate, Goto
  <2>10. CASE Erase(c)
    BY <2>10 DEF Erase, Goto
  <2> QED
    BY <1>1, <1>5, <2>1, <2>2, <2>3, <2>4, <2>5, <2>6, <2>7, <2>8, <2>9,
       <2>10 DEF HandlerStep, ClientLeaves
<1>6. ASSUME NEW b \in Broadcasters, BroadcastStep(b) PROVE Entries'
  BY <1>1, <1>6 DEF BroadcastStep, BroadcastCall, BroadcastLock,
     BroadcastSkip, BroadcastSend, BroadcastSent, BroadcastUnlock
<1>7. CASE ApiStep
  BY <1>1, <1>7 DEF ApiStep, DisconnectLock, DisconnectClose
<1>8. CASE UNCHANGED vars
  BY <1>1, <1>8
<1> QED
  BY <1>2, <1>3, <1>4, <1>5, <1>6, <1>7, <1>8 DEF Next

LEMMA DescriptorsStep ==
  DataTypes /\ Controls /\ Descriptors /\ [Next]_vars => Descriptors'
<1> SUFFICES ASSUME DataTypes, Controls, Descriptors, [Next]_vars PROVE Descriptors'
  OBVIOUS
<1> USE ConnAssumption, FdAssumption DEF DataTypes, OwnerStates,
       HandlerStates, Controls, Descriptors, OpenStates
<1>1. ASSUME UNCHANGED <<holder, socket, acur, hpc>> PROVE Descriptors'
  BY <1>1
<1>2. CASE OwnerStep
  <2>1. ASSUME NEW c \in Conns, StopDrop(c)
        PROVE Descriptors'
    BY <2>1 DEF StopDrop, Close
  <2> QED
    BY <1>1, <1>2, <2>1 DEF OwnerStep, Start, StopFlag, StopListening,
       StopJoinAccept, StopJoinMonitor, StopLock, StopClear, StopJoinHandlers
<1>3. CASE AcceptStep
  <2>1. ASSUME NEW c \in Conns, NEW f \in Fds, AcceptReturn(c, f)
        PROVE Descriptors'
    BY <2>1 DEF AcceptReturn
  <2>2. CASE AcceptSpawn
    BY <2>2 DEF AcceptSpawn
  <2> QED
    BY <1>1, <1>3, <2>1, <2>2 DEF AcceptStep, AcceptCheck, AcceptCall,
       AcceptFail, AcceptInsert
<1>4. CASE MonitorStep
  BY <1>1, <1>4 DEF MonitorStep, MonitorCheck, MonitorSweep
<1>5. ASSUME NEW c \in Conns, HandlerStep(c) PROVE Descriptors'
  <2>1. CASE HandshakeRecv(c)
    BY <2>1 DEF HandshakeRecv, Goto
  <2>2. CASE HandshakeDone(c)
    BY <2>2 DEF HandshakeDone, Goto
  <2>3. CASE HandshakeFail(c)
    BY <2>3 DEF HandshakeFail, Goto
  <2>4. CASE FailClose(c)
    BY <2>4 DEF FailClose, Goto, Close
  <2>5. CASE AckHeartbeat(c)
    BY <2>5 DEF AckHeartbeat, Goto
  <2>6. CASE HandlerSent(c)
    BY <2>6 DEF HandlerSent, Goto
  <2>7. CASE LoopEnds(c)
    BY <2>7 DEF LoopEnds, Goto
  <2>8. CASE CleanupClose(c)
    BY <2>8 DEF CleanupClose, Goto, Close
  <2>9. CASE CleanupInvalidate(c)
    BY <2>9 DEF CleanupInvalidate, Goto
  <2>10. CASE Erase(c)
    BY <2>10 DEF Erase, Goto
  <2> QED
    BY <1>1, <1>5, <2>1, <2>2, <2>3, <2>4, <2>5, <2>6, <2>7, <2>8, <2>9,
       <2>10 DEF HandlerStep, ClientLeaves
<1>6. ASSUME NEW b \in Broadcasters, BroadcastStep(b) PROVE Descriptors'
  BY <1>1, <1>6 DEF BroadcastStep, BroadcastCall, BroadcastLock,
     BroadcastSkip, BroadcastSend, BroadcastSent, BroadcastUnlock
<1>7. CASE ApiStep
  <2>1. CASE DisconnectClose
    BY <2>1 DEF DisconnectClose, Close
  <2> QED
    BY <1>1, <1>7, <2>1 DEF ApiStep, DisconnectLock
<1>8. CASE UNCHANGED vars
  BY <1>1, <1>8
<1> QED
  BY <1>2, <1>3, <1>4, <1>5, <1>6, <1>7, <1>8 DEF Next

LEMMA InvInit == Init => Inv
<1> SUFFICES ASSUME Init PROVE Inv
  OBVIOUS
<1>1. DataTypes
  BY IdAssumption, BoundAssumption DEF Init, DataTypes, Ids, OwnerStates,
     HandlerStates
<1>2. Controls /\ Pool /\ Locks
  BY DEF Init, Controls, Pool, Locks, Running
<1>3. Entries /\ Descriptors
  BY ConnAssumption DEF Init, Entries, Descriptors
<1> QED
  BY <1>1, <1>2, <1>3 DEF Inv

LEMMA InvStep == Inv /\ [Next]_vars => Inv'
  BY DataStep, ControlsStep, PoolStep, LocksStep, EntriesStep, DescriptorsStep
     DEF Inv

LEMMA Invariance == Spec => []Inv
  BY InvInit, InvStep, PTL DEF Spec

-----------------------------------------------------------------------------
(* The safety properties.                                                  *)

\* stop() returns only when no thread, no map entry and no accepted descriptor
\* of the server is left.
THEOREM StopIsComplete == Spec => []StopLeavesNothing
<1>1. Inv => StopLeavesNothing
  <2> SUFFICES ASSUME Inv, opc = "idle" PROVE StopLeavesNothing
    BY DEF StopLeavesNothing
  <2>1. apc \in {"off", "done"} /\ mpc \in {"off", "done"} /\ acur = NoConn
    BY DEF Inv, Controls
  <2>2. \A c \in Conns : ~Running(c)
    BY DEF Inv, Pool
  <2>3. Registered = {}
    BY <2>1, <2>2 DEF Inv, Entries, Registered
  <2>4. ASSUME NEW f \in Fds PROVE holder[f] = NoConn
    BY <2>1, <2>2, ConnAssumption
       DEF Inv, Descriptors, DataTypes, Running, OpenStates
  <2> QED
    BY <2>1, <2>2, <2>3, <2>4 DEF StopLeavesNothing
<1> QED
  BY <1>1, Invariance, PTL

\* clients_ never holds a client whose handler has returned.
THEOREM MapIsLive == Spec => []MapHoldsNoDeadClient
<1>1. Inv => MapHoldsNoDeadClient
  BY ConnAssumption DEF Inv, Entries, Controls, DataTypes, MapHoldsNoDeadClient,
     Registered, Running
<1> QED
  BY <1>1, Invariance, PTL

\* A handler that has returned holds no descriptor.
THEOREM DescriptorsReturned == Spec => []NoDescriptorLeak
<1>1. Inv => NoDescriptorLeak
  BY ConnAssumption DEF Inv, Descriptors, Controls, DataTypes, NoDescriptorLeak,
     OpenStates
<1> QED
  BY <1>1, Invariance, PTL

-----------------------------------------------------------------------------
(* The map does not change under an iteration.                             *)

LEMMA IterationStep ==
  DataTypes /\ Locks /\ IterationStable /\ [Next]_vars => IterationStable'
<1> SUFFICES ASSUME DataTypes, Locks, IterationStable, [Next]_vars PROVE IterationStable'
  OBVIOUS
<1> USE DEF DataTypes, OwnerStates, HandlerStates, Locks, Registered,
       IterationStable
<1>1. ASSUME UNCHANGED <<clients, opc, opending, bpc, bpending>> PROVE IterationStable'
  BY <1>1
<1>2. CASE OwnerStep
  <2>1. CASE Start
    BY <2>1 DEF Start
  <2>2. CASE StopFlag
    BY <2>2 DEF StopFlag
  <2>3. CASE StopListening
    BY <2>3 DEF StopListening
  <2>4. CASE StopJoinAccept
    BY <2>4 DEF StopJoinAccept
  <2>5. CASE StopJoinMonitor
    BY <2>5 DEF StopJoinMonitor
  <2>6. CASE StopLock
    BY <2>6 DEF StopLock, LockFree
  <2>7. ASSUME NEW c \in Conns, StopDrop(c)
        PROVE IterationStable'
    BY <2>7 DEF StopDrop
  <2>8. CASE StopClear
    BY <2>8, CallerAssumption DEF StopClear
  <2>9. CASE StopJoinHandlers
    BY <2>9 DEF StopJoinHandlers
  <2> QED
    BY <1>2, <2>1, <2>2, <2>3, <2>4, <2>5, <2>6, <2>7, <2>8, <2>9 DEF
       OwnerStep
<1>3. CASE AcceptStep
  <2>1. CASE AcceptInsert
    BY <2>1, CallerAssumption DEF AcceptInsert, LockFree, Controls, Entries,
       Running
  <2> QED
    BY <1>1, <1>3, <2>1 DEF AcceptStep, AcceptCheck, AcceptCall, AcceptFail,
       AcceptReturn, AcceptSpawn
<1>4. CASE MonitorStep
  BY <1>1, <1>4 DEF MonitorStep, MonitorCheck, MonitorSweep
<1>5. ASSUME NEW c \in Conns, HandlerStep(c) PROVE IterationStable'
  <2>1. CASE Erase(c)
    BY <2>1, CallerAssumption DEF Erase, Goto, LockFree
  <2> QED
    BY <1>1, <1>5, <2>1 DEF HandlerStep, HandshakeRecv, HandshakeDone,
       HandshakeFail, FailClose, AckHeartbeat, HandlerSent, ClientLeaves,
       LoopEnds, CleanupClose, CleanupInvalidate
<1>6. ASSUME NEW b \in Broadcasters, BroadcastStep(b) PROVE IterationStable'
  <2>1. CASE BroadcastCall(b)
    BY <2>1 DEF BroadcastCall
  <2>2. CASE BroadcastLock(b)
    BY <2>2 DEF BroadcastLock, LockFree
  <2>3. ASSUME NEW c \in Conns, BroadcastSkip(b, c)
        PROVE IterationStable'
    BY <2>3 DEF BroadcastSkip
  <2>4. ASSUME NEW c \in Conns, BroadcastSend(b, c)
        PROVE IterationStable'
    BY <2>4 DEF BroadcastSend
  <2>5. CASE BroadcastSent(b)
    BY <2>5 DEF BroadcastSent
  <2>6. CASE BroadcastUnlock(b)
    BY <2>6 DEF BroadcastUnlock
  <2> QED
    BY <1>6, <2>1, <2>2, <2>3, <2>4, <2>5, <2>6 DEF BroadcastStep
<1>7. CASE ApiStep
  BY <1>1, <1>7 DEF ApiStep, DisconnectLock, DisconnectClose
<1>8. CASE UNCHANGED vars
  BY <1>1, <1>8
<1> QED
  BY <1>2, <1>3, <1>4, <1>5, <1>6, <1>7, <1>8 DEF Next

\* clients_ does not change under a broadcaster or under stop() while it
\* iterates over it.
THEOREM IterationIsStable == Spec => []IterationStable
<1>1. Init => IterationStable
  BY DEF Init, IterationStable
<1>2. Inv /\ IterationStable /\ [Next]_vars => IterationStable'
  BY IterationStep DEF Inv
<1> QED
  BY <1>1, <1>2, Invariance, PTL DEF Spec

-----------------------------------------------------------------------------
(* Client ids.                                                             *)

\* A connection that was given an id keeps it.
LEMMA IdsStay ==
  ASSUME DataTypes, Controls, [Next]_vars, NEW c \in Conns, HasId(c)
  PROVE  HasId(c)' /\ clientId'[c] = clientId[c]
<1> USE ConnAssumption DEF DataTypes, HandlerStates, Controls, HasId
<1>1. ASSUME UNCHANGED <<clientId, acur, hpc>>
      PROVE  HasId(c)' /\ clientId'[c] = clientId[c]
  BY <1>1
<1>2. CASE OwnerStep
  BY <1>1, <1>2 DEF OwnerStep, Start, StopFlag, StopListening,
     StopJoinAccept, StopJoinMonitor, StopLock, StopDrop, StopClear,
     StopJoinHandlers
<1>3. CASE AcceptStep
  <2>1. ASSUME NEW d \in Conns, NEW f \in Fds, AcceptReturn(d, f)
        PROVE  HasId(c)' /\ clientId'[c] = clientId[c]
    BY <2>1 DEF AcceptReturn
  <2>2. CASE AcceptSpawn
    BY <2>2 DEF AcceptSpawn
  <2> QED
    BY <1>1, <1>3, <2>1, <2>2 DEF AcceptStep, AcceptCheck, AcceptCall,
       AcceptFail, AcceptInsert
<1>4. CASE MonitorStep
  BY <1>1, <1>4 DEF MonitorStep, MonitorCheck, MonitorSweep
<1>5. ASSUME NEW d \in Conns, HandlerStep(d)
      PROVE  HasId(c)' /\ clientId'[c] = clientId[c]
  <2>1. UNCHANGED <<clientId, acur>>
    BY <1>5 DEF HandlerStep, HandshakeRecv, HandshakeDone, HandshakeFail,
       FailClose, AckHeartbeat, HandlerSent, ClientLeaves, LoopEnds,
       CleanupClose, CleanupInvalidate, Erase
  <2>2. hpc[c] # "none" => hpc'[c] # "none"
    BY <1>5 DEF HandlerStep, HandshakeRecv, HandshakeDone, HandshakeFail,
       FailClose, AckHeartbeat, HandlerSent, ClientLeaves, LoopEnds,
       CleanupClose, CleanupInvalidate, Erase, Goto
  <2> QED
    BY <2>1, <2>2
<1>6. ASSUME NEW b \in Broadcasters, BroadcastStep(b)
      PROVE  HasId(c)' /\ clientId'[c] = clientId[c]
  BY <1>1, <1>6 DEF BroadcastStep, BroadcastCall, BroadcastLock,
     BroadcastSkip, BroadcastSend, BroadcastSent, BroadcastUnlock
<1>7. CASE ApiStep
  BY <1>1, <1>7 DEF ApiStep, DisconnectLock, DisconnectClose
<1>8. CASE UNCHANGED vars
  BY <1>1, <1>8
<1> QED
  BY <1>2, <1>3, <1>4, <1>5, <1>6, <1>7, <1>8 DEF Next

\* Two connections that share an id share it for good.
LEMMA SharedStays ==
  ASSUME DataTypes, Controls, [Next]_vars, NEW c \in Conns, HasId(c), SharesId(c)
  PROVE  SharesId(c)'
<1>1. PICK d \in Conns \ {c} : HasId(d) /\ clientId[d] = clientId[c]
  BY DEF SharesId
<1>2. HasId(d)' /\ clientId'[d] = clientId[d] /\ clientId'[c] = clientId[c]
  BY <1>1, IdsStay
<1> QED
  BY <1>1, <1>2 DEF SharesId

\* ServedIsRegistered, of a client about to be served too, and up to the erase.
Served ==
  \A c \in Conns :
    \/ Running(c) /\ opc # "joinHandlers"
    \/ c = acur /\ apc = "spawn"
    => clients[clientId[c]] = c \/ SharesId(c)

\* Nobody has been accepted yet.
LEMMA ServedInit == Init => Served
<1> SUFFICES ASSUME Init PROVE Served
  OBVIOUS
<1>1. ASSUME NEW c \in Conns PROVE ~Running(c)
  BY DEF Init, Running
<1>2. apc # "spawn"
  BY DEF Init
<1> QED
  BY <1>1, <1>2 DEF Served

LEMMA ServedStep ==
  DataTypes /\ Controls /\ Pool /\ Served /\ [Next]_vars => Served'
<1> SUFFICES ASSUME DataTypes, Controls, Pool, Served, [Next]_vars,
                    NEW c \in Conns,
                    \/ Running(c)' /\ opc' # "joinHandlers"
                    \/ c = acur' /\ apc' = "spawn",
                    ~SharesId(c)'
             PROVE  clients'[clientId'[c]] = c
  BY DEF Served
<1> DEFINE Due == (Running(c) /\ opc # "joinHandlers") \/ (c = acur /\ apc = "spawn")
           Goal == clients'[clientId'[c]] = c
\* A connection that was due before, and whose id and entry stay.
<1>1. ASSUME Due, clients'[clientId[c]] = clients[clientId[c]] PROVE Goal
  <2>1. HasId(c)
    BY <1>1 DEF HasId, Running
  <2>2. ~SharesId(c) /\ clientId'[c] = clientId[c]
    BY <2>1, SharedStays, IdsStay
  <2> QED
    BY <1>1, <2>2 DEF Served
<1>2. ASSUME UNCHANGED <<clients, opc, apc, acur, hpc>> PROVE Goal
  BY <1>1, <1>2 DEF Running
<1>3. CASE OwnerStep
  <2>1. CASE StopClear
    BY <2>1, ConnAssumption DEF StopClear, Running, Controls
  <2>2. CASE StopJoinHandlers
    BY <2>2, ConnAssumption DEF StopJoinHandlers, Running, Pool, Controls
  <2>3. CASE Start
    BY <2>3, <1>1, ConnAssumption DEF Start, Running, Controls
  <2>4. CASE StopFlag \/ StopListening \/ StopJoinAccept \/ StopJoinMonitor
             \/ StopLock \/ \E d \in Conns : StopDrop(d)
    <3>1. UNCHANGED <<clients, apc, acur, hpc>> /\ opc # "joinHandlers"
      BY <2>4 DEF StopFlag, StopListening, StopJoinAccept, StopJoinMonitor,
         StopLock, StopDrop
    <3> QED
      BY <3>1, <1>1 DEF Running
  <2> QED
    BY <1>3, <2>1, <2>2, <2>3, <2>4 DEF OwnerStep
<1>4. CASE AcceptStep
  <2>1. CASE AcceptCheck \/ AcceptCall \/ AcceptFail
    BY <2>1, <1>1 DEF AcceptCheck, AcceptCall, AcceptFail, Running
  <2>2. ASSUME NEW d \in Conns, NEW f \in Fds, AcceptReturn(d, f) PROVE Goal
    BY <2>2, <1>1 DEF AcceptReturn, Running
  \* The insert displaces only an entry with the same id.
  <2>3. CASE AcceptInsert
    <3>1. acur \in Conns /\ acur' = acur /\ clientId' = clientId
          /\ clients' = [clients EXCEPT ![clientId[acur]] = acur]
      BY <2>3 DEF AcceptInsert, DataTypes
    <3>2. clients \in [Ids -> Conns \cup {NoConn}] /\ clientId[acur] \in Ids
      BY <3>1 DEF DataTypes
    <3>3. CASE c = acur
      BY <3>1, <3>2, <3>3
    <3>4. CASE c # acur
      <4>1. clientId[c] # clientId[acur]
        BY <3>1, <3>4 DEF SharesId, HasId
      <4>2. clients'[clientId[c]] = clients[clientId[c]]
        BY <3>1, <3>2, <4>1
      <4>3. Due
        BY <2>3, <3>4 DEF AcceptInsert, Running
      <4> QED
        BY <1>1, <4>2, <4>3
    <3> QED
      BY <3>3, <3>4
  <2>4. CASE AcceptSpawn
    <3>1. acur \in Conns /\ clients' = clients /\ opc' = opc /\ apc' = "check"
          /\ apc = "spawn" /\ hpc' = [hpc EXCEPT ![acur] = "start"]
      BY <2>4 DEF AcceptSpawn, DataTypes
    <3>2. Due
      BY <3>1 DEF Running, DataTypes
    <3> QED
      BY <1>1, <3>1, <3>2
  <2> QED
    BY <1>4, <2>1, <2>2, <2>3, <2>4 DEF AcceptStep
<1>5. CASE MonitorStep
  BY <1>2, <1>5 DEF MonitorStep, MonitorCheck, MonitorSweep
<1>6. ASSUME NEW d \in Conns, HandlerStep(d) PROVE Goal
  <2>1. hpc[d] \notin {"none", "done"} /\ UNCHANGED <<opc, apc, acur>>
    BY <1>6 DEF Goto, HandlerStep, HandshakeRecv, HandshakeDone,
       HandshakeFail, FailClose, AckHeartbeat, HandlerSent, ClientLeaves,
       LoopEnds, CleanupClose, CleanupInvalidate, Erase
  <2>2. \A e \in Conns \ {d} : hpc'[e] = hpc[e]
    BY <1>6 DEF HandlerStep, HandshakeRecv, HandshakeDone,
       HandshakeFail, FailClose, AckHeartbeat, HandlerSent, ClientLeaves,
       LoopEnds, CleanupClose, CleanupInvalidate, Erase, Goto, DataTypes
  <2>3. Due
    BY <2>1, <2>2 DEF Running
  \* The erase takes out only an entry with the same id.
  <2>4. CASE Erase(d)
    <3>1. clients' = [clients EXCEPT ![clientId[d]] = NoConn]
          /\ clientId' = clientId /\ hpc' = [hpc EXCEPT ![d] = "done"]
      BY <2>4 DEF Erase, Goto
    <3>2. c # d
      BY <2>1, <3>1 DEF Running, DataTypes, Controls
    <3>3. HasId(d)'
      BY <3>1 DEF HasId, DataTypes
    <3>4. clientId[c] # clientId[d]
      BY <3>1, <3>2, <3>3 DEF SharesId
    <3>5. clients'[clientId[c]] = clients[clientId[c]]
      BY <3>1, <3>4 DEF DataTypes
    <3> QED
      BY <1>1, <2>3, <3>5
  <2>5. CASE ~Erase(d)
    <3>1. clients' = clients
      BY <1>6, <2>5 DEF HandlerStep, HandshakeRecv, HandshakeDone,
         HandshakeFail, FailClose, AckHeartbeat, HandlerSent, ClientLeaves,
         LoopEnds, CleanupClose, CleanupInvalidate
    <3> QED
      BY <1>1, <2>3, <3>1
  <2> QED
    BY <2>4, <2>5
<1>7. ASSUME NEW b \in Broadcasters, BroadcastStep(b) PROVE Goal
  BY <1>2, <1>7 DEF BroadcastStep, BroadcastCall, BroadcastLock,
     BroadcastSkip, BroadcastSend, BroadcastSent, BroadcastUnlock
<1>8. CASE ApiStep
  BY <1>2, <1>8 DEF ApiStep, DisconnectLock, DisconnectClose
<1>9. CASE UNCHANGED vars
  BY <1>2, <1>9
<1> QED
  BY <1>3, <1>4, <1>5, <1>6, <1>7, <1>8, <1>9 DEF Next

\* A client that is being served is found in clients_ under its own id, unless
\* the id was given to another connection too.
THEOREM ServedAreRegistered == Spec => []ServedIsRegistered
<1>1. Inv /\ Served /\ [Next]_vars => Served'
  BY ServedStep DEF Inv
<1>2. Served => ServedIsRegistered
  BY DEF Served, ServedIsRegistered, Serving, Running
<1> QED
  BY <1>1, <1>2, ServedInit, Invariance, PTL DEF Spec

-----------------------------------------------------------------------------
(* What stop() closes.                                                     *)

\* While stop() goes through the map, what is open is still to be visited,
\* but for connections that share their id; after it, only those are open.
Closing ==
  /\ opc = "drop" =>
       \A f \in Fds : holder[f] # NoConn =>
         holder[f] \in opending \/ SharesId(holder[f])
  /\ StopClosesAll

\* What is open after a step and was open before shares its id if it did.
LEMMA OpenShares ==
  ASSUME Inv, [Next]_vars, NEW f \in Fds, holder'[f] = holder[f],
         holder[f] # NoConn, SharesId(holder[f])
  PROVE  SharesId(holder[f])'
<1>1. holder[f] \in Conns /\ HasId(holder[f])
  BY DEF Inv, DataTypes, Descriptors, OpenStates, HasId
<1> DEFINE c == holder[f]
<1>2. c \in Conns /\ HasId(c) /\ SharesId(c)
  BY <1>1
<1>3. (\E d \in Conns \ {c} : HasId(d)' /\ clientId'[d] = clientId'[c])
  <2>1. PICK d \in Conns \ {c} : HasId(d) /\ clientId[d] = clientId[c]
    BY <1>2 DEF SharesId
  <2> HIDE DEF c
  <2>2. HasId(d)' /\ clientId'[d] = clientId[d] /\ clientId'[c] = clientId[c]
    BY <1>2, <2>1, IdsStay DEF Inv
  <2> QED
    BY <2>1, <2>2
<1> QED
  BY <1>3 DEF SharesId

LEMMA ClosingStep ==
  Inv /\ Served /\ Closing /\ [Next]_vars => Closing'
<1> SUFFICES ASSUME Inv, Served, Closing, [Next]_vars PROVE Closing'
  OBVIOUS
<1> USE ConnAssumption, FdAssumption DEF DataTypes, OwnerStates,
       Controls, Closing, StopClosesAll
<1> USE Inv, [Next]_vars
<1>0. DataTypes /\ Controls /\ Descriptors
  BY DEF Inv
\* A step that opens nothing, and closes or not.
<1>1. ASSUME UNCHANGED <<opc, opending>>,
             \A f \in Fds : holder'[f] # NoConn => holder'[f] = holder[f]
      PROVE  Closing'
  <2>1. ASSUME NEW f \in Fds, holder'[f] # NoConn, opc \in {"drop", "joinHandlers"}
        PROVE  (opc = "drop" /\ holder'[f] \in opending) \/ SharesId(holder[f])'
    BY <1>1, <2>1, OpenShares
  <2> QED
    BY <1>1, <2>1
<1>2. ASSUME NEW f, Close(f), UNCHANGED <<opc, opending>> PROVE Closing'
  <2>1. \A g \in Fds : holder'[g] # NoConn => holder'[g] = holder[g]
    BY <1>2 DEF Close
  <2> QED
    BY <1>1, <1>2, <2>1
<1>3. CASE OwnerStep
  <2>1. CASE Start
    BY <2>1 DEF Start
  <2>2. CASE StopFlag
    BY <2>2 DEF StopFlag
  <2>3. CASE StopListening
    BY <2>3 DEF StopListening
  <2>4. CASE StopJoinAccept
    BY <2>4 DEF StopJoinAccept
  <2>5. CASE StopJoinMonitor
    BY <2>5 DEF StopJoinMonitor
  \* An open descriptor belongs to a client whose handler has not closed it,
  \* and such a client is in the map or shares its id.
  <2>6. CASE StopLock
    <3>1. acur = NoConn /\ opc = "lock" /\ opc' = "drop"
          /\ opending' = Registered /\ holder' = holder
      BY <1>0, <2>6 DEF StopLock
    <3>2. ASSUME NEW f \in Fds, holder[f] # NoConn
          PROVE  holder[f] \in Registered \/ SharesId(holder[f])
      <4>1. holder[f] \in Conns /\ hpc[holder[f]] \in OpenStates
        BY <1>0, <3>1, <3>2 DEF Descriptors
      <4>2. clientId[holder[f]] \in Ids
        BY <1>0, <4>1
      <4>3. clients[clientId[holder[f]]] = holder[f] \/ SharesId(holder[f])
        BY <3>1, <4>1 DEF Served, Running, OpenStates
      <4> QED
        BY <4>1, <4>2, <4>3 DEF Registered
    <3>3. ASSUME NEW f \in Fds, holder'[f] # NoConn
          PROVE  holder'[f] \in opending' \/ SharesId(holder[f])'
      BY <3>1, <3>2, <3>3, OpenShares
    <3> QED
      BY <3>1, <3>3
  <2>7. ASSUME NEW c \in Conns, StopDrop(c)
        PROVE Closing'
    <3>1. opc = "drop" /\ opc' = "drop" /\ opending' = opending \ {c}
      BY <2>7 DEF StopDrop
    <3>2. ASSUME NEW f \in Fds, holder'[f] # NoConn
          PROVE  holder'[f] \in opending' \/ SharesId(holder[f])'
      <4>1. holder'[f] = holder[f] /\ f # socket[c]
        BY <2>7, <3>2 DEF StopDrop, Close
      <4>2. holder[f] # c
        BY <1>0, <4>1 DEF Descriptors
      <4>3. CASE holder[f] \in opending
        BY <3>1, <4>1, <4>2, <4>3
      <4>4. CASE SharesId(holder[f])
        BY <3>2, <4>1, <4>4, OpenShares
      <4> QED
        BY <3>1, <3>2, <4>1, <4>3, <4>4
    <3> QED
      BY <3>1, <3>2, <2>7 DEF StopDrop, Close
  <2>8. CASE StopClear
    <3>1. opc = "drop" /\ opc' = "joinHandlers" /\ opending = {} /\ holder' = holder
      BY <2>8 DEF StopClear
    <3>2. ASSUME NEW f \in Fds, holder'[f] # NoConn PROVE SharesId(holder[f])'
      BY <3>1, <3>2, OpenShares
    <3> QED
      BY <3>1, <3>2
  <2>9. CASE StopJoinHandlers
    BY <2>9 DEF StopJoinHandlers
  <2> QED
    BY <1>3, <2>1, <2>2, <2>3, <2>4, <2>5, <2>6, <2>7, <2>8, <2>9 DEF OwnerStep
<1>4. CASE AcceptStep
  <2>1. ASSUME NEW c \in Conns, NEW f \in Fds, AcceptReturn(c, f)
        PROVE Closing'
    BY <1>0, <2>1 DEF AcceptReturn
  <2> QED
    BY <1>1, <1>4, <2>1 DEF AcceptStep, AcceptCheck, AcceptCall, AcceptFail,
       AcceptInsert, AcceptSpawn
<1>5. CASE MonitorStep
  BY <1>1, <1>5 DEF MonitorStep, MonitorCheck, MonitorSweep
<1>6. ASSUME NEW c \in Conns, HandlerStep(c) PROVE Closing'
  <2>1. CASE FailClose(c)
    BY <1>2, <2>1 DEF FailClose
  <2>2. CASE CleanupClose(c)
    BY <1>2, <2>2 DEF CleanupClose
  <2> QED
    BY <1>1, <1>6, <2>1, <2>2 DEF HandlerStep, HandshakeRecv, HandshakeDone,
       HandshakeFail, AckHeartbeat, HandlerSent, ClientLeaves, LoopEnds,
       CleanupInvalidate, Erase
<1>7. ASSUME NEW b \in Broadcasters, BroadcastStep(b) PROVE Closing'
  BY <1>1, <1>7 DEF BroadcastStep, BroadcastCall, BroadcastLock,
     BroadcastSkip, BroadcastSend, BroadcastSent, BroadcastUnlock
<1>8. CASE ApiStep
  <2>1. CASE DisconnectClose
    BY <1>2, <2>1 DEF DisconnectClose
  <2> QED
    BY <1>1, <1>8, <2>1 DEF ApiStep, DisconnectLock
<1>9. CASE UNCHANGED vars
  BY <1>1, <1>9
<1> QED
  BY <1>3, <1>4, <1>5, <1>6, <1>7, <1>8, <1>9 DEF Next

\* When stop() joins the handlers it has closed every accepted descriptor, but
\* for those of connections whose id was given twice: an insert may overwrite
\* the entry of a live client, which stop() then misses.
THEOREM StopClosesEverySocket == Spec => []StopClosesAll
<1>1. Init => Closing
  BY DEF Init, Closing, StopClosesAll
<1>2. Inv /\ Served /\ Closing /\ [Next]_vars => (Served /\ Closing)'
  BY ServedStep, ClosingStep DEF Inv
<1>3. Closing => StopClosesAll
  BY DEF Closing
<1> QED
  BY <1>1, <1>2, <1>3, ServedInit, Invariance, PTL DEF Spec

-----------------------------------------------------------------------------
(* Descriptors, in a program that never calls disconnectClient().          *)

\* A connection keeps its descriptor from accept() to the handler's close, or
\* to stop().
Owning ==
  /\ dpc = "idle"
  /\ opc \notin {"drop", "joinHandlers"} =>
       \A c \in Conns :
         c = acur \/ Serving(c) \/ hpc[c] \in {"failClose", "close"} => OwnOpen(c)

LEMMA OwningStep ==
  ~DisconnectUsed /\ DataTypes /\ Controls /\ Pool /\ Owning /\ [Next]_vars => Owning'
<1> SUFFICES ASSUME ~DisconnectUsed, DataTypes, Controls, Pool, Owning, [Next]_vars PROVE Owning'
  OBVIOUS
<1> USE ConnAssumption, FdAssumption DEF DataTypes, OwnerStates,
       HandlerStates, Controls, Owning, Serving, OwnOpen, Refers
<1>1. ASSUME UNCHANGED <<holder, socket, opc, acur, hpc, dpc>> PROVE Owning'
  BY <1>1
<1>2. CASE OwnerStep
  <2>1. CASE Start
    BY <2>1 DEF Start
  <2>2. CASE StopFlag
    BY <2>2 DEF StopFlag
  <2>3. CASE StopListening
    BY <2>3 DEF StopListening
  <2>4. CASE StopJoinAccept
    BY <2>4 DEF StopJoinAccept
  <2>5. CASE StopJoinMonitor
    BY <2>5 DEF StopJoinMonitor
  <2>6. CASE StopLock
    BY <2>6 DEF StopLock
  <2>7. ASSUME NEW c \in Conns, StopDrop(c)
        PROVE Owning'
    BY <2>7 DEF StopDrop, Close
  <2>8. CASE StopClear
    BY <2>8 DEF StopClear
  <2>9. CASE StopJoinHandlers
    BY <2>9 DEF StopJoinHandlers, Pool, Running
  <2> QED
    BY <1>2, <2>1, <2>2, <2>3, <2>4, <2>5, <2>6, <2>7, <2>8, <2>9 DEF
       OwnerStep
<1>3. CASE AcceptStep
  <2>1. ASSUME NEW c \in Conns, NEW f \in Fds, AcceptReturn(c, f)
        PROVE Owning'
    BY <2>1 DEF AcceptReturn
  <2>2. CASE AcceptSpawn
    BY <2>2 DEF AcceptSpawn
  <2> QED
    BY <1>1, <1>3, <2>1, <2>2 DEF AcceptStep, AcceptCheck, AcceptCall,
       AcceptFail, AcceptInsert
<1>4. CASE MonitorStep
  BY <1>1, <1>4 DEF MonitorStep, MonitorCheck, MonitorSweep
<1>5. ASSUME NEW c \in Conns, HandlerStep(c) PROVE Owning'
  <2>1. CASE HandshakeRecv(c)
    BY <2>1 DEF HandshakeRecv, Goto
  <2>2. CASE HandshakeDone(c)
    BY <2>2 DEF HandshakeDone, Goto
  <2>3. CASE HandshakeFail(c)
    BY <2>3 DEF HandshakeFail, Goto
  <2>4. CASE FailClose(c)
    BY <2>4 DEF FailClose, Goto, Close
  <2>5. CASE AckHeartbeat(c)
    BY <2>5 DEF AckHeartbeat, Goto
  <2>6. CASE HandlerSent(c)
    BY <2>6 DEF HandlerSent, Goto
  <2>7. CASE LoopEnds(c)
    BY <2>7 DEF LoopEnds, Goto
  <2>8. CASE CleanupClose(c)
    BY <2>8 DEF CleanupClose, Goto, Close
  <2>9. CASE CleanupInvalidate(c)
    BY <2>9 DEF CleanupInvalidate, Goto
  <2>10. CASE Erase(c)
    BY <2>10 DEF Erase, Goto
  <2> QED
    BY <1>1, <1>5, <2>1, <2>2, <2>3, <2>4, <2>5, <2>6, <2>7, <2>8, <2>9,
       <2>10 DEF HandlerStep, ClientLeaves
<1>6. ASSUME NEW b \in Broadcasters, BroadcastStep(b) PROVE Owning'
  BY <1>1, <1>6 DEF BroadcastStep, BroadcastCall, BroadcastLock,
     BroadcastSkip, BroadcastSend, BroadcastSent, BroadcastUnlock
<1>7. CASE ApiStep
  <2>1. ASSUME NEW c \in Conns, DisconnectLock(c)
        PROVE Owning'
    BY <2>1 DEF DisconnectLock
  <2>2. CASE DisconnectClose
    BY <2>2 DEF DisconnectClose
  <2> QED
    BY <1>7, <2>1, <2>2 DEF ApiStep
<1>8. CASE UNCHANGED vars
  BY <1>1, <1>8
<1> QED
  BY <1>2, <1>3, <1>4, <1>5, <1>6, <1>7, <1>8 DEF Next

\* A served client keeps its descriptor until stop() closes sockets, where
\* disconnectClient() is never called.
THEOREM ServedOwnTheirSockets == Spec => []ServedOwnsSocket
<1>1. CASE DisconnectUsed
  <2>1. ServedOwnsSocket
    BY <1>1 DEF ServedOwnsSocket
  <2> QED
    BY <2>1, PTL
<1>2. CASE ~DisconnectUsed
  <2>1. Init => Owning
    BY ConnAssumption DEF Init, Owning, Serving
  <2>2. Inv /\ Owning /\ [Next]_vars => Owning'
    BY <1>2, OwningStep DEF Inv
  <2>3. Owning => ServedOwnsSocket
    BY DEF Owning, ServedOwnsSocket
  <2> QED
    BY <2>1, <2>2, <2>3, Invariance, PTL DEF Spec
<1> QED
  BY <1>1, <1>2
=============================================================================

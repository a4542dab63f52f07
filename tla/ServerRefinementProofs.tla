----------------------- MODULE ServerRefinementProofs -----------------------
(***************************************************************************)
(* StreamServer implements ClientRegistry, for every value of the          *)
(* constants and however many connections come: when ids wrap, an insert   *)
(* or an erase displaces only the entry of a connection with the same id,  *)
(* and the registry says so.                                               *)
(*                                                                         *)
(* Most steps change nothing that the registry sees.  SameLife and         *)
(* SamePhase say when; then one step per action that the registry sees,    *)
(* with the action it maps to.  The invariants of StreamServerProofs say   *)
(* that an entry stands under the id of its own connection, whose handler  *)
(* has not returned, and that nothing is left at the end.                  *)
(***************************************************************************)
EXTENDS ServerRefinement, StreamServerProofs

USE DEF Registry!vars, vars, kernel, info, registry, owner, acceptor, caster,
        api, notOwner, notAcceptor, notHandler, notCaster

\* What the registry sees of a connection, case by case.
LEMMA LifeCases ==
  ASSUME NEW c \in Conns, DataTypes
  PROVE  /\ hpc[c] = "done" => lifeMap[c] = "gone"
         /\ hpc[c] # "done" /\ c \in Registered => lifeMap[c] = "listed"
         /\ Running(c) /\ c \notin Registered => lifeMap[c] = "ending"
         /\ ~Inserted(c) /\ c \notin Registered => lifeMap[c] = "none"
  BY DEF lifeMap, Running, Inserted

LEMMA PhaseCases ==
  DataTypes =>
    /\ opc = "idle" => phaseMap = "stopped"
    /\ opc = "up" => phaseMap = "up"
    /\ opc \in Stopping => phaseMap = "stopping"
    /\ opc = "joinHandlers" => phaseMap = "cleared"
  BY DEF phaseMap, Stopping, DataTypes, OwnerStates

\* Steps of a handler between its start and its return are not seen.
LEMMA SameLife ==
  ASSUME DataTypes, DataTypes', UNCHANGED clients,
         \A c \in Conns : /\ (hpc[c] = "done") <=> (hpc'[c] = "done")
                          /\ Inserted(c) <=> Inserted(c)'
                          /\ Inserted(c) => clientId'[c] = clientId[c]
  PROVE  lifeMap' = lifeMap /\ idMap' = idMap
<1>1. Registered' = Registered
  BY DEF Registered
<1>2. lifeMap' = lifeMap
  BY <1>1 DEF lifeMap
<1>3. idMap' = idMap
  BY DEF idMap
<1> QED
  BY <1>2, <1>3

LEMMA SamePhase ==
  ASSUME opc' = opc \/ (opc \in Stopping /\ opc' \in Stopping)
  PROVE  phaseMap' = phaseMap
  BY DEF phaseMap, Stopping

\* A step that changes none of them is a stutter of the registry.
LEMMA Unseen ==
  ASSUME lifeMap' = lifeMap, idMap' = idMap, phaseMap' = phaseMap, LockFree' = LockFree
  PROVE  [Registry!Next]_Registry!vars
  OBVIOUS

-----------------------------------------------------------------------------
LEMMA OwnerMaps ==
  ASSUME Inv, Inv', OwnerStep
  PROVE  [Registry!Next]_Registry!vars
<1> USE DEF Inv, LockFree
<1>1. CASE Start
  <2>1. lifeMap' = lifeMap /\ idMap' = idMap
    BY <1>1, SameLife DEF Inserted, Start, Controls
  <2>2. Registry!Start
    BY <1>1, <2>1, PhaseCases DEF Start, Registry!Start, phaseMap
  <2> QED
    BY <2>2 DEF Registry!Next
<1>2. CASE StopFlag
  <2>1. lifeMap' = lifeMap /\ idMap' = idMap
    BY <1>2, SameLife DEF Inserted, StopFlag
  <2>2. Registry!StopCalled
    BY <1>2, <2>1 DEF StopFlag, Registry!StopCalled, phaseMap, Stopping
  <2> QED
    BY <2>2 DEF Registry!Next
<1>3. CASE StopListening \/ StopJoinAccept \/ StopJoinMonitor
  <2>1. lifeMap' = lifeMap /\ idMap' = idMap
    BY <1>3, SameLife DEF Inserted, StopListening, StopJoinAccept, StopJoinMonitor
  <2>2. phaseMap' = phaseMap
    BY <1>3, SamePhase DEF StopListening, StopJoinAccept, StopJoinMonitor,
       Stopping
  <2>3. LockFree' = LockFree
    BY <1>3 DEF StopListening, StopJoinAccept, StopJoinMonitor
  <2> QED
    BY <2>1, <2>2, <2>3, Unseen
<1>4. CASE StopLock
  <2>1. lifeMap' = lifeMap /\ idMap' = idMap
    BY <1>4, SameLife DEF Inserted, StopLock
  <2>2. phaseMap' = phaseMap
    BY <1>4, SamePhase DEF StopLock, Stopping
  <2>3. Registry!VisitBegins
    BY <1>4, <2>1, <2>2 DEF StopLock, Registry!VisitBegins
  <2> QED
    BY <2>3 DEF Registry!Next
<1>5. ASSUME NEW c \in Conns, StopDrop(c)
      PROVE  [Registry!Next]_Registry!vars
  <2>1. lifeMap' = lifeMap /\ idMap' = idMap
    BY <1>5, SameLife DEF Inserted, StopDrop
  <2>2. phaseMap' = phaseMap /\ LockFree' = LockFree
    BY <1>5, SamePhase DEF StopDrop
  <2> QED
    BY <2>1, <2>2, Unseen
<1>6. CASE StopClear
  <2>1. phaseMap = "stopping" /\ phaseMap' = "cleared"
    BY <1>6 DEF StopClear, phaseMap, Stopping
  <2>2. ~LockFree /\ LockFree'
    BY <1>6 DEF StopClear, Locks
  <2>3. Registered' = {}
    BY <1>6, ConnAssumption DEF StopClear, Registered
  <2>4. lifeMap' = [c \in Conns |->
                     IF lifeMap[c] = "listed" THEN "ending" ELSE lifeMap[c]]
                 /\ idMap' = idMap
    <3>1. \A c \in Registered : hpc[c] \notin {"none", "done"}
      BY <1>6 DEF StopClear, Registered, Entries, Running, Controls
    <3>2. apc # "spawn" /\ UNCHANGED <<apc, acur, hpc, clientId>>
      BY <1>6 DEF StopClear, Controls
    <3> QED
      BY <2>3, <3>1, <3>2 DEF lifeMap, idMap, Inserted
  <2>5. Registry!ClearAll
    BY <2>1, <2>2, <2>4 DEF Registry!ClearAll
  <2> QED
    BY <2>5 DEF Registry!Next
<1>7. CASE StopJoinHandlers
  <2>1. lifeMap' = lifeMap /\ idMap' = idMap
    BY <1>7, SameLife DEF Inserted, StopJoinHandlers
  <2>2. phaseMap = "cleared" /\ phaseMap' = "stopped"
    BY <1>7 DEF StopJoinHandlers, phaseMap, Stopping
  <2>3. \A c \in Conns : ~Running(c)
    BY <1>7 DEF StopJoinHandlers, Pool, Running
  <2>4. \A c \in Conns : lifeMap[c] \in {"none", "gone"}
    <3>1. Registered = {}
      BY <1>7, <2>3 DEF StopJoinHandlers, Registered, Entries, Controls
    <3>2. apc # "spawn"
      BY <1>7 DEF StopJoinHandlers, Controls
    <3> QED
      BY <2>3, <3>1, <3>2 DEF lifeMap, Running, Inserted
  <2>5. LockFree' = LockFree
    BY <1>7 DEF StopJoinHandlers
  <2>6. Registry!StopReturns
    BY <2>1, <2>2, <2>4, <2>5 DEF Registry!StopReturns
  <2> QED
    BY <2>6 DEF Registry!Next
<1> QED
  BY <1>1, <1>2, <1>3, <1>4, <1>5, <1>6, <1>7 DEF OwnerStep

LEMMA AcceptMaps ==
  ASSUME Inv, Inv', AcceptStep
  PROVE  [Registry!Next]_Registry!vars
<1> USE DEF Inv, LockFree
<1>1. CASE AcceptCheck \/ AcceptCall \/ AcceptFail
  <2>1. lifeMap' = lifeMap /\ idMap' = idMap
    BY <1>1, SameLife DEF Inserted, AcceptCheck, AcceptCall, AcceptFail
  <2>2. phaseMap' = phaseMap /\ LockFree' = LockFree
    BY <1>1, SamePhase DEF AcceptCheck, AcceptCall, AcceptFail
  <2> QED
    BY <2>1, <2>2, Unseen
<1>2. ASSUME NEW c \in Conns, NEW f \in Fds, AcceptReturn(c, f)
      PROVE  [Registry!Next]_Registry!vars
  <2>1. lifeMap' = lifeMap /\ idMap' = idMap
    BY <1>2, SameLife DEF Inserted, AcceptReturn
  <2>2. phaseMap' = phaseMap /\ LockFree' = LockFree
    BY <1>2, SamePhase DEF AcceptReturn
  <2> QED
    BY <2>1, <2>2, Unseen
<1>3. CASE AcceptInsert
  <2>1. acur \in Conns /\ hpc[acur] = "none" /\ acur \notin Registered
    BY <1>3 DEF AcceptInsert, DataTypes, Controls, Entries, Registered,
       Running
  <2>2. clientId[acur] \in Ids /\ clientId' = clientId /\ hpc' = hpc
        /\ acur' = acur /\ apc = "insert" /\ apc' = "spawn"
        /\ clients' = [clients EXCEPT ![clientId[acur]] = acur]
    BY <1>3, <2>1 DEF AcceptInsert, DataTypes
  \* An entry under this id is overwritten: its handler runs.
  <2>3. ASSUME NEW d \in Conns, d # acur
        PROVE  lifeMap'[d] = IF lifeMap[d] = "listed" /\ idMap[d] = clientId[acur]
                             THEN "ending" ELSE lifeMap[d]
    <3>1. Inserted(d)' <=> Inserted(d)
      BY <2>2, <2>3 DEF Inserted
    <3>2. CASE d \in Registered
      <4>1. clients[clientId[d]] = d /\ clientId[d] \in Ids /\ Running(d)
        BY <2>2, <3>2 DEF Registered, Entries
      <4>2. lifeMap[d] = "listed" /\ idMap[d] = clientId[d]
        BY <3>2, <4>1, LifeCases DEF Running, idMap, Inserted
      <4>3. d \in Registered' <=> clientId[d] # clientId[acur]
        <5>1. CASE clientId[d] # clientId[acur]
          BY <2>2, <4>1, <5>1 DEF Registered
        <5>2. CASE clientId[d] = clientId[acur]
          BY <2>2, <2>3, <5>2 DEF Registered, Entries, DataTypes
        <5> QED
          BY <5>1, <5>2
      <4>4. Inserted(d)' /\ hpc'[d] # "done"
        BY <2>2, <4>1 DEF Inserted, Running
      <4> QED
        BY <4>2, <4>3, <4>4 DEF lifeMap
    <3>3. CASE d \notin Registered
      <4>1. d \notin Registered'
        BY <2>2, <2>3, <3>3 DEF Registered, DataTypes
      <4> QED
        BY <2>2, <3>1, <3>3, <4>1 DEF lifeMap
    <3> QED
      BY <3>2, <3>3
  <2>4. lifeMap'[acur] = "listed" /\ lifeMap[acur] = "none"
    <3>1. acur \in Registered'
      BY <2>1, <2>2 DEF Registered, DataTypes
    <3> QED
      BY <2>1, <2>2, <3>1 DEF lifeMap, Inserted
  <2>5. lifeMap' = Registry!Unlist(acur, clientId[acur], "listed")
    BY <2>3, <2>4 DEF Registry!Unlist, lifeMap
  <2>6. idMap' = [idMap EXCEPT ![acur] = clientId[acur]]
    BY <2>1, <2>2 DEF idMap, Inserted
  <2>7. phaseMap \in {"up", "stopping"} /\ phaseMap' = phaseMap
    BY <1>3, SamePhase DEF AcceptInsert, DataTypes, OwnerStates, Controls,
       phaseMap, Stopping
  <2>8. LockFree /\ LockFree'
    BY <1>3 DEF AcceptInsert
  <2>9. Registry!Arrive(acur, clientId[acur])
    BY <2>4, <2>5, <2>6, <2>7, <2>8 DEF Registry!Arrive
  <2> QED
    BY <2>1, <2>2, <2>9 DEF Registry!Next
<1>4. CASE AcceptSpawn
  <2>1. acur \in Conns /\ hpc[acur] = "none" /\ apc = "spawn" /\ apc' = "check"
        /\ acur' = NoConn /\ hpc' = [hpc EXCEPT ![acur] = "start"]
        /\ clientId' = clientId
    BY <1>4 DEF AcceptSpawn, DataTypes, Controls
  <2>2. \A c \in Conns : Inserted(c)' <=> Inserted(c)
    BY <2>1, ConnAssumption DEF Inserted, DataTypes
  <2>3. \A c \in Conns : (hpc'[c] = "done") <=> (hpc[c] = "done")
    BY <2>1 DEF DataTypes
  <2>4. lifeMap' = lifeMap /\ idMap' = idMap
    BY <1>4, <2>1, <2>2, <2>3, SameLife DEF AcceptSpawn
  <2>5. phaseMap' = phaseMap /\ LockFree' = LockFree
    BY <1>4, SamePhase DEF AcceptSpawn
  <2> QED
    BY <2>4, <2>5, Unseen
<1> QED
  BY <1>1, <1>2, <1>3, <1>4 DEF AcceptStep

LEMMA MonitorMaps ==
  ASSUME Inv, Inv', MonitorStep
  PROVE  [Registry!Next]_Registry!vars
<1>1. UNCHANGED <<opc, hpc, clients, clientId, apc, acur, mutex>>
  BY DEF MonitorStep, MonitorCheck, MonitorSweep
<1>2. lifeMap' = lifeMap /\ idMap' = idMap
  BY <1>1, SameLife DEF Inserted, Inv
<1>3. phaseMap' = phaseMap /\ LockFree' = LockFree
  BY <1>1, SamePhase DEF LockFree
<1> QED
  BY <1>2, <1>3, Unseen

LEMMA HandlerMaps ==
  ASSUME Inv, Inv', NEW c \in Conns, HandlerStep(c)
  PROVE  [Registry!Next]_Registry!vars
<1> USE DEF Inv, LockFree
<1>1. CASE Erase(c)
  <2>1. hpc[c] = "erase" /\ clientId[c] \in Ids /\ LockFree /\ LockFree'
    BY <1>1 DEF Erase, Goto, DataTypes
  <2>2. hpc' = [hpc EXCEPT ![c] = "done"] /\ UNCHANGED <<clientId, apc, acur>>
        /\ clients' = [clients EXCEPT ![clientId[c]] = NoConn]
    BY <1>1 DEF Erase, Goto
  \* The entry under this id may belong to another connection by now.
  <2>3. ASSUME NEW d \in Conns, d # c
        PROVE  lifeMap'[d] = IF lifeMap[d] = "listed" /\ idMap[d] = idMap[c]
                             THEN "ending" ELSE lifeMap[d]
    <3>1. hpc'[d] = hpc[d] /\ (Inserted(d)' <=> Inserted(d))
      BY <2>2, <2>3 DEF Inserted, DataTypes
    <3>2. idMap[c] = clientId[c]
      BY <2>1 DEF idMap, Inserted
    <3>3. CASE d \in Registered
      <4>1. clients[clientId[d]] = d /\ clientId[d] \in Ids /\ Inserted(d)
            /\ hpc[d] # "done"
        BY <3>3 DEF Registered, Entries, Inserted, Running, Controls
      <4>2. lifeMap[d] = "listed" /\ idMap[d] = clientId[d]
        BY <3>3, <4>1, LifeCases DEF idMap
      <4>3. d \in Registered' <=> clientId[d] # clientId[c]
        <5>1. CASE clientId[d] # clientId[c]
          BY <2>1, <2>2, <4>1, <5>1 DEF Registered
        <5>2. CASE clientId[d] = clientId[c]
          BY <2>1, <2>2, <5>2, ConnAssumption DEF Registered, Entries, DataTypes
        <5> QED
          BY <5>1, <5>2
      <4> QED
        BY <3>1, <3>2, <4>1, <4>2, <4>3 DEF lifeMap
    <3>4. CASE d \notin Registered
      <4>1. d \notin Registered'
        BY <2>1, <2>2, <3>4, ConnAssumption DEF Registered, DataTypes
      <4> QED
        BY <3>1, <3>4, <4>1 DEF lifeMap
    <3> QED
      BY <3>3, <3>4
  <2>4. lifeMap'[c] = "gone"
    BY <2>2 DEF lifeMap, DataTypes
  <2>5. lifeMap[c] \in {"listed", "ending"}
    BY <2>1 DEF lifeMap, Inserted
  <2>6. lifeMap' = Registry!Unlist(c, idMap[c], "gone")
    BY <2>3, <2>4 DEF Registry!Unlist, lifeMap
  <2>7. idMap' = idMap
    BY <2>1, <2>2 DEF idMap, Inserted, DataTypes
  <2>8. phaseMap' = phaseMap
    BY <1>1, SamePhase DEF Erase
  <2>9. Registry!Leave(c)
    BY <2>1, <2>5, <2>6, <2>7, <2>8 DEF Registry!Leave
  <2> QED
    BY <2>9 DEF Registry!Next
<1>2. CASE ~Erase(c)
  <2>1. UNCHANGED <<opc, clients, clientId, apc, acur, mutex>>
    BY <1>2 DEF HandlerStep, HandshakeRecv, HandshakeDone, HandshakeFail,
       FailClose, AckHeartbeat, HandlerSent, ClientLeaves, LoopEnds,
       CleanupClose, CleanupInvalidate
  <2>2. \A d \in Conns : /\ (hpc[d] = "done") <=> (hpc'[d] = "done")
                         /\ (hpc[d] = "none") <=> (hpc'[d] = "none")
    BY <1>2 DEF HandlerStep, HandshakeRecv, HandshakeDone, HandshakeFail,
       FailClose, AckHeartbeat, HandlerSent, ClientLeaves, LoopEnds,
       CleanupClose, CleanupInvalidate, Goto, DataTypes
  <2>3. lifeMap' = lifeMap /\ idMap' = idMap
    BY <2>1, <2>2, SameLife DEF Inserted
  <2>4. phaseMap' = phaseMap /\ LockFree' = LockFree
    BY <2>1, SamePhase
  <2> QED
    BY <2>3, <2>4, Unseen
<1> QED
  BY <1>1, <1>2

LEMMA VisitorMaps ==
  ASSUME Inv, Inv', ApiStep \/ \E b \in Broadcasters : BroadcastStep(b)
  PROVE  [Registry!Next]_Registry!vars
<1> USE DEF Inv, LockFree
<1>1. UNCHANGED <<opc, hpc, clients, clientId, apc, acur>>
  BY DEF ApiStep, DisconnectLock, DisconnectClose, BroadcastStep,
     BroadcastCall, BroadcastLock, BroadcastSkip, BroadcastSend,
     BroadcastSent, BroadcastUnlock
<1>2. lifeMap' = lifeMap /\ idMap' = idMap
  BY <1>1, SameLife DEF Inserted
<1>3. phaseMap' = phaseMap
  BY <1>1, SamePhase
<1>4. CASE LockFree' = LockFree
  BY <1>2, <1>3, <1>4, Unseen
<1>5. CASE LockFree /\ ~LockFree'
  BY <1>2, <1>3, <1>5 DEF Registry!VisitBegins, Registry!Next
<1>6. CASE ~LockFree /\ LockFree'
  BY <1>2, <1>3, <1>6 DEF Registry!VisitEnds, Registry!Next
<1> QED
  BY <1>4, <1>5, <1>6

\* StreamServer implements ClientRegistry, however many connections come.
THEOREM ServerImplementsRegistry == Spec => ImplementsRegistry
<1>1. Init => Registry!Init
  BY ConnAssumption DEF Init, Registry!Init, phaseMap, lifeMap, idMap,
     Inserted, Registered, LockFree
<1>2. Inv /\ Inv' /\ [Next]_vars => [Registry!Next]_Registry!vars
  <2> SUFFICES ASSUME Inv, Inv', [Next]_vars
               PROVE  [Registry!Next]_Registry!vars
    OBVIOUS
  <2>1. CASE UNCHANGED vars
    <3>1. lifeMap' = lifeMap /\ idMap' = idMap
      BY <2>1, SameLife DEF Inserted, Inv
    <3>2. phaseMap' = phaseMap /\ LockFree' = LockFree
      BY <2>1, SamePhase DEF LockFree
    <3> QED
      BY <3>1, <3>2, Unseen
  <2> QED
    BY <2>1, OwnerMaps, AcceptMaps, MonitorMaps, HandlerMaps, VisitorMaps
       DEF Next
<1> QED
  BY <1>1, <1>2, Invariance, PTL DEF Spec, ImplementsRegistry, Registry!Spec
=============================================================================

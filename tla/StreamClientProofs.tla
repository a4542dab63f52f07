------------------------- MODULE StreamClientProofs -------------------------
(***************************************************************************)
(* Theorems about StreamClient, for every set of sessions and both         *)
(* platforms.  Inv is the inductive invariant: which handles are joinable  *)
(* at which point of connect() and disconnect() (Handles), where the flag  *)
(* is down for certain (Down), what socket_ is (Socket), and that nothing  *)
(* happens after the process has died (Dead).  Held adds what the threads  *)
(* have read from socket_ and still hold.                                  *)
(***************************************************************************)
EXTENDS StreamClient, TLAPS

USE DEF vars, net, owner, receiver, heart, notOwner, notReceiver, notHeart

-----------------------------------------------------------------------------

LEMMA FlagStep ==
  FlagTypes /\ [Next]_vars => FlagTypes'
<1> SUFFICES ASSUME FlagTypes, [Next]_vars PROVE FlagTypes'
  OBVIOUS
<1> USE DEF FlagTypes
<1>1. ASSUME UNCHANGED <<connected, lost, rjoin, hjoin>> PROVE FlagTypes'
  BY <1>1
<1>2. CASE ConnectStep
  <2>1. CASE Publish
    BY <2>1 DEF Publish
  <2>2. CASE StartReceive
    BY <2>2 DEF StartReceive
  <2>3. CASE StartHeartbeat
    BY <2>3 DEF StartHeartbeat
  <2> QED
    BY <1>1, <1>2, <2>1, <2>2, <2>3 DEF ConnectStep, ConnectCall,
       ConnectNoSocket, ConnectFail, ConnectOk, HandshakeOk, HandshakeFail,
       HandshakeKilled, StartAborts, Die
<1>3. CASE DisconnectStep
  <2>1. CASE DisconnectFlag
    BY <2>1 DEF DisconnectFlag
  <2>2. CASE JoinReceive
    BY <2>2 DEF JoinReceive
  <2>3. CASE JoinHeartbeat
    BY <2>3 DEF JoinHeartbeat
  <2>4. CASE Callback
    BY <2>4 DEF Callback, Return
  <2> QED
    BY <1>1, <1>3, <2>1, <2>2, <2>3, <2>4 DEF DisconnectStep, DisconnectTest,
       DisconnectClose, DisconnectInvalidate, Destruct, DestructAborts, Die,
       Return
<1>4. CASE ReceiveStep
  <2>1. CASE ReceiveDisconnect
    BY <2>1 DEF ReceiveDisconnect
  <2>2. CASE ReceiveClear
    BY <2>2 DEF ReceiveClear
  <2> QED
    BY <1>1, <1>4, <2>1, <2>2 DEF ReceiveStep, ReceiveCheck, ReceiveRead,
       ReceiveEnter, ReceiveHeader, ReceivePacket, ReceiveGarbage,
       ReceiveEnd, ReceiveFailed
<1>5. CASE HeartStep
  <2>1. CASE HeartClear
    BY <2>1 DEF HeartClear
  <2> QED
    BY <1>1, <1>5, <2>1 DEF HeartStep, HeartCheck, HeartWake, HeartRead,
       HeartSent, HeartSendFail, HeartKilled, Die
<1>6. CASE DisconnectCall
  BY <1>1, <1>6 DEF DisconnectCall
<1>7. ASSUME NEW s \in Sessions, PeerCloses(s) PROVE FlagTypes'
  BY <1>1, <1>7 DEF PeerCloses
<1>8. CASE UNCHANGED vars
  BY <1>1, <1>8
<1> QED
  BY <1>2, <1>3, <1>4, <1>5, <1>6, <1>7, <1>8 DEF Next

LEMMA DataStep ==
  DataTypes /\ [Next]_vars => DataTypes'
<1> SUFFICES ASSUME DataTypes, [Next]_vars PROVE DataTypes'
  OBVIOUS
<1> USE DEF DataTypes, OwnerStates
<1>1. ASSUME UNCHANGED <<platform, process, sock, fd, peer, opc, caller, rpc,
    rsock, rpart, hpc, hsock>> PROVE DataTypes'
  BY <1>1
<1>2. CASE ConnectStep
  <2>1. ASSUME NEW s \in Sessions, ConnectCall(s) PROVE DataTypes'
    BY <2>1 DEF ConnectCall
  <2>2. CASE ConnectNoSocket
    BY <2>2 DEF ConnectNoSocket
  <2>3. CASE ConnectFail
    <3>1. fd' \in [Sessions -> {"unused", "open", "closed"}]
      BY <2>3 DEF ConnectFail
    <3> QED
      BY <2>3, <3>1 DEF ConnectFail
  <2>4. CASE ConnectOk
    <3>1. peer' \in [Sessions -> {"none", "open", "closed"}]
      BY <2>4 DEF ConnectOk
    <3> QED
      BY <2>4, <3>1 DEF ConnectOk
  <2>5. CASE HandshakeOk
    BY <2>5 DEF HandshakeOk
  <2>6. CASE HandshakeFail
    BY <2>6 DEF HandshakeFail
  <2>7. CASE HandshakeKilled
    BY <2>7 DEF HandshakeKilled, Die
  <2>8. CASE Publish
    BY <2>8 DEF Publish
  <2>9. CASE StartReceive
    BY <2>9 DEF StartReceive
  <2>10. CASE StartHeartbeat
    BY <2>10 DEF StartHeartbeat
  <2>11. CASE StartAborts
    BY <2>11 DEF StartAborts, Die
  <2> QED
    BY <1>2, <2>1, <2>2, <2>3, <2>4, <2>5, <2>6, <2>7, <2>8, <2>9, <2>10,
       <2>11 DEF ConnectStep
<1>3. CASE DisconnectStep
  <2>1. CASE DisconnectTest
    BY <2>1 DEF DisconnectTest, Return
  <2>2. CASE DisconnectFlag
    BY <2>2 DEF DisconnectFlag
  <2>3. CASE DisconnectClose
    BY <2>3 DEF DisconnectClose
  <2>4. CASE DisconnectInvalidate
    BY <2>4 DEF DisconnectInvalidate
  <2>5. CASE JoinReceive
    BY <2>5 DEF JoinReceive
  <2>6. CASE JoinHeartbeat
    BY <2>6 DEF JoinHeartbeat
  <2>7. CASE Callback
    BY <2>7 DEF Callback, Return
  <2>8. CASE Destruct
    BY <2>8 DEF Destruct
  <2>9. CASE DestructAborts
    BY <2>9 DEF DestructAborts, Die
  <2> QED
    BY <1>3, <2>1, <2>2, <2>3, <2>4, <2>5, <2>6, <2>7, <2>8, <2>9 DEF
       DisconnectStep
<1>4. CASE ReceiveStep
  <2>1. CASE ReceiveCheck
    BY <2>1 DEF ReceiveCheck
  <2>2. CASE ReceiveRead
    BY <2>2 DEF ReceiveRead
  <2>3. CASE ReceiveEnter
    BY <2>3 DEF ReceiveEnter
  <2>4. CASE ReceiveHeader
    BY <2>4 DEF ReceiveHeader
  <2>5. CASE ReceivePacket
    BY <2>5 DEF ReceivePacket
  <2>6. CASE ReceiveDisconnect
    BY <2>6 DEF ReceiveDisconnect
  <2>7. CASE ReceiveGarbage
    BY <2>7 DEF ReceiveGarbage
  <2>8. CASE ReceiveEnd
    BY <2>8 DEF ReceiveEnd
  <2>9. CASE ReceiveFailed
    BY <2>9 DEF ReceiveFailed
  <2>10. CASE ReceiveClear
    BY <2>10 DEF ReceiveClear
  <2> QED
    BY <1>4, <2>1, <2>2, <2>3, <2>4, <2>5, <2>6, <2>7, <2>8, <2>9, <2>10 DEF
       ReceiveStep
<1>5. CASE HeartStep
  <2>1. CASE HeartCheck
    BY <2>1 DEF HeartCheck
  <2>2. CASE HeartWake
    BY <2>2 DEF HeartWake
  <2>3. CASE HeartRead
    BY <2>3 DEF HeartRead
  <2>4. CASE HeartSent
    BY <2>4 DEF HeartSent
  <2>5. CASE HeartSendFail
    BY <2>5 DEF HeartSendFail
  <2>6. CASE HeartKilled
    BY <2>6 DEF HeartKilled, Die
  <2>7. CASE HeartClear
    BY <2>7 DEF HeartClear
  <2> QED
    BY <1>5, <2>1, <2>2, <2>3, <2>4, <2>5, <2>6, <2>7 DEF HeartStep
<1>6. CASE DisconnectCall
  BY <1>6 DEF DisconnectCall
<1>7. ASSUME NEW s \in Sessions, PeerCloses(s) PROVE DataTypes'
  BY <1>7 DEF PeerCloses
<1>8. CASE UNCHANGED vars
  BY <1>1, <1>8
<1> QED
  BY <1>2, <1>3, <1>4, <1>5, <1>6, <1>7, <1>8 DEF Next

\* Every variable keeps its type.
THEOREM TypeCorrect == Spec => []TypeOK
<1>1. Init => FlagTypes
  BY DEF Init, FlagTypes
<1>2. Init => DataTypes
  BY PlatformAssumption DEF Init, DataTypes, OwnerStates
<1> QED
  BY <1>1, <1>2, FlagStep, DataStep, PTL DEF Spec, TypeOK

-----------------------------------------------------------------------------
(* The inductive invariant.                                                *)

Gone == {"off", "done", "dead"}

\* A thread without a handle has returned or was never started.
Joinable == (~rjoin => rpc \in Gone) /\ (~hjoin => hpc \in Gone)

NoHandles == ~rjoin /\ ~hjoin

\* Without a loss the owner meets no handle where it needs none.
Handles ==
  /\ opc \in {"idle", "test"} => connected \/ lost \/ NoHandles
  /\ opc \in {"connecting", "handshake", "publish", "startReceive", "destruct"}
       => lost \/ NoHandles
  /\ opc \in {"startReceive", "startHeartbeat"} => connected \/ lost
  /\ opc = "startHeartbeat" => lost \/ ~hjoin
  /\ opc = "joinHeartbeat" => ~rjoin
  /\ opc = "callback" => NoHandles

\* Only the owner raises the flag, so it stays down where the owner needs it.
Down ==
  opc \in {"connecting", "handshake", "publish", "close", "invalidate",
           "joinReceive", "joinHeartbeat", "callback", "destruct"}
    => ~connected

Socket ==
  /\ connected => Open(sock)
  /\ opc \in {"connecting", "handshake", "publish"} => Open(sock)
  /\ opc \in {"joinReceive", "joinHeartbeat", "callback"} => sock = Invalid

Dead ==
  /\ process # "up" => opc = "dead" /\ rpc = "dead" /\ hpc = "dead"
  /\ opc # "dead" => rpc # "dead" /\ hpc # "dead"
  /\ process = "aborted" => lost

Inv == DataTypes /\ Joinable /\ Handles /\ Down /\ Socket /\ Dead

LEMMA JoinableStep ==
  DataTypes /\ Joinable /\ [Next]_vars => Joinable'
<1> SUFFICES ASSUME DataTypes, Joinable, [Next]_vars PROVE Joinable'
  OBVIOUS
<1> USE DEF Joinable, Gone
<1>1. ASSUME UNCHANGED <<rjoin, hjoin, rpc, hpc>> PROVE Joinable'
  BY <1>1
<1>2. CASE ConnectStep
  <2>1. CASE HandshakeKilled
    BY <2>1 DEF HandshakeKilled, Die
  <2>2. CASE StartReceive
    BY <2>2 DEF StartReceive
  <2>3. CASE StartHeartbeat
    BY <2>3 DEF StartHeartbeat
  <2>4. CASE StartAborts
    BY <2>4 DEF StartAborts, Die
  <2> QED
    BY <1>1, <1>2, <2>1, <2>2, <2>3, <2>4 DEF ConnectStep, ConnectCall,
       ConnectNoSocket, ConnectFail, ConnectOk, HandshakeOk, HandshakeFail,
       Publish
<1>3. CASE DisconnectStep
  <2>1. CASE JoinReceive
    BY <2>1 DEF JoinReceive
  <2>2. CASE JoinHeartbeat
    BY <2>2 DEF JoinHeartbeat
  <2>3. CASE DestructAborts
    BY <2>3 DEF DestructAborts, Die
  <2> QED
    BY <1>1, <1>3, <2>1, <2>2, <2>3 DEF DisconnectStep, DisconnectTest,
       DisconnectFlag, DisconnectClose, DisconnectInvalidate, Callback,
       Destruct, Return
<1>4. CASE ReceiveStep
  <2>1. CASE ReceiveCheck
    BY <2>1 DEF ReceiveCheck
  <2>2. CASE ReceiveRead
    BY <2>2 DEF ReceiveRead
  <2>3. CASE ReceiveEnter
    BY <2>3 DEF ReceiveEnter
  <2>4. CASE ReceiveHeader
    BY <2>4 DEF ReceiveHeader
  <2>5. CASE ReceivePacket
    BY <2>5 DEF ReceivePacket
  <2>6. CASE ReceiveDisconnect
    BY <2>6 DEF ReceiveDisconnect
  <2>7. CASE ReceiveGarbage
    BY <2>7 DEF ReceiveGarbage
  <2>8. CASE ReceiveEnd
    BY <2>8 DEF ReceiveEnd
  <2>9. CASE ReceiveFailed
    BY <2>9 DEF ReceiveFailed
  <2>10. CASE ReceiveClear
    BY <2>10 DEF ReceiveClear
  <2> QED
    BY <1>4, <2>1, <2>2, <2>3, <2>4, <2>5, <2>6, <2>7, <2>8, <2>9, <2>10 DEF
       ReceiveStep
<1>5. CASE HeartStep
  <2>1. CASE HeartCheck
    BY <2>1 DEF HeartCheck
  <2>2. CASE HeartWake
    BY <2>2 DEF HeartWake
  <2>3. CASE HeartRead
    BY <2>3 DEF HeartRead
  <2>4. CASE HeartSent
    BY <2>4 DEF HeartSent
  <2>5. CASE HeartSendFail
    BY <2>5 DEF HeartSendFail
  <2>6. CASE HeartKilled
    BY <2>6 DEF HeartKilled, Die
  <2>7. CASE HeartClear
    BY <2>7 DEF HeartClear
  <2> QED
    BY <1>5, <2>1, <2>2, <2>3, <2>4, <2>5, <2>6, <2>7 DEF HeartStep
<1>6. CASE DisconnectCall
  BY <1>1, <1>6 DEF DisconnectCall
<1>7. ASSUME NEW s \in Sessions, PeerCloses(s) PROVE Joinable'
  BY <1>1, <1>7 DEF PeerCloses
<1>8. CASE UNCHANGED vars
  BY <1>1, <1>8
<1> QED
  BY <1>2, <1>3, <1>4, <1>5, <1>6, <1>7, <1>8 DEF Next

LEMMA HandlesStep ==
  DataTypes /\ Down /\ Handles /\ [Next]_vars => Handles'
<1> SUFFICES ASSUME DataTypes, Down, Handles, [Next]_vars PROVE Handles'
  OBVIOUS
<1> USE DEF Handles, NoHandles, Down
<1>1. ASSUME UNCHANGED <<opc, connected, lost, rjoin, hjoin>> PROVE Handles'
  BY <1>1
<1>2. CASE ConnectStep
  <2>1. ASSUME NEW s \in Sessions, ConnectCall(s) PROVE Handles'
    BY <2>1 DEF ConnectCall
  <2>2. CASE ConnectNoSocket
    BY <2>2 DEF ConnectNoSocket
  <2>3. CASE ConnectFail
    BY <2>3 DEF ConnectFail
  <2>4. CASE ConnectOk
    BY <2>4 DEF ConnectOk
  <2>5. CASE HandshakeOk
    BY <2>5 DEF HandshakeOk
  <2>6. CASE HandshakeFail
    BY <2>6 DEF HandshakeFail
  <2>7. CASE HandshakeKilled
    BY <2>7 DEF HandshakeKilled, Die
  <2>8. CASE Publish
    BY <2>8 DEF Publish
  <2>9. CASE StartReceive
    BY <2>9 DEF StartReceive
  <2>10. CASE StartHeartbeat
    BY <2>10 DEF StartHeartbeat
  <2>11. CASE StartAborts
    BY <2>11 DEF StartAborts, Die
  <2> QED
    BY <1>2, <2>1, <2>2, <2>3, <2>4, <2>5, <2>6, <2>7, <2>8, <2>9, <2>10,
       <2>11 DEF ConnectStep
<1>3. CASE DisconnectStep
  <2>1. CASE DisconnectTest
    BY <2>1 DEF DisconnectTest, Return
  <2>2. CASE DisconnectFlag
    BY <2>2 DEF DisconnectFlag
  <2>3. CASE DisconnectClose
    BY <2>3 DEF DisconnectClose
  <2>4. CASE DisconnectInvalidate
    BY <2>4 DEF DisconnectInvalidate
  <2>5. CASE JoinReceive
    BY <2>5 DEF JoinReceive
  <2>6. CASE JoinHeartbeat
    BY <2>6 DEF JoinHeartbeat
  <2>7. CASE Callback
    BY <2>7 DEF Callback, Return
  <2>8. CASE Destruct
    BY <2>8 DEF Destruct
  <2>9. CASE DestructAborts
    BY <2>9 DEF DestructAborts, Die
  <2> QED
    BY <1>3, <2>1, <2>2, <2>3, <2>4, <2>5, <2>6, <2>7, <2>8, <2>9 DEF
       DisconnectStep
<1>4. CASE ReceiveStep
  <2>1. CASE ReceiveDisconnect
    BY <2>1 DEF ReceiveDisconnect
  <2>2. CASE ReceiveClear
    BY <2>2 DEF ReceiveClear
  <2> QED
    BY <1>1, <1>4, <2>1, <2>2 DEF ReceiveStep, ReceiveCheck, ReceiveRead,
       ReceiveEnter, ReceiveHeader, ReceivePacket, ReceiveGarbage,
       ReceiveEnd, ReceiveFailed
<1>5. CASE HeartStep
  <2>1. CASE HeartKilled
    BY <2>1 DEF HeartKilled, Die
  <2>2. CASE HeartClear
    BY <2>2 DEF HeartClear
  <2> QED
    BY <1>1, <1>5, <2>1, <2>2 DEF HeartStep, HeartCheck, HeartWake,
       HeartRead, HeartSent, HeartSendFail
<1>6. CASE DisconnectCall
  BY <1>6 DEF DisconnectCall
<1>7. ASSUME NEW s \in Sessions, PeerCloses(s) PROVE Handles'
  BY <1>1, <1>7 DEF PeerCloses
<1>8. CASE UNCHANGED vars
  BY <1>1, <1>8
<1> QED
  BY <1>2, <1>3, <1>4, <1>5, <1>6, <1>7, <1>8 DEF Next

LEMMA DownStep ==
  DataTypes /\ Down /\ [Next]_vars => Down'
<1> SUFFICES ASSUME DataTypes, Down, [Next]_vars PROVE Down'
  OBVIOUS
<1> USE DEF Down
<1>1. ASSUME UNCHANGED <<opc, connected>> PROVE Down'
  BY <1>1
<1>2. CASE ConnectStep
  <2>1. ASSUME NEW s \in Sessions, ConnectCall(s) PROVE Down'
    BY <2>1 DEF ConnectCall
  <2>2. CASE ConnectFail
    BY <2>2 DEF ConnectFail
  <2>3. CASE ConnectOk
    BY <2>3 DEF ConnectOk
  <2>4. CASE HandshakeOk
    BY <2>4 DEF HandshakeOk
  <2>5. CASE HandshakeFail
    BY <2>5 DEF HandshakeFail
  <2>6. CASE HandshakeKilled
    BY <2>6 DEF HandshakeKilled, Die
  <2>7. CASE Publish
    BY <2>7 DEF Publish
  <2>8. CASE StartReceive
    BY <2>8 DEF StartReceive
  <2>9. CASE StartHeartbeat
    BY <2>9 DEF StartHeartbeat
  <2>10. CASE StartAborts
    BY <2>10 DEF StartAborts, Die
  <2> QED
    BY <1>1, <1>2, <2>1, <2>2, <2>3, <2>4, <2>5, <2>6, <2>7, <2>8, <2>9,
       <2>10 DEF ConnectStep, ConnectNoSocket
<1>3. CASE DisconnectStep
  <2>1. CASE DisconnectTest
    BY <2>1 DEF DisconnectTest, Return
  <2>2. CASE DisconnectFlag
    BY <2>2 DEF DisconnectFlag
  <2>3. CASE DisconnectClose
    BY <2>3 DEF DisconnectClose
  <2>4. CASE DisconnectInvalidate
    BY <2>4 DEF DisconnectInvalidate
  <2>5. CASE JoinReceive
    BY <2>5 DEF JoinReceive
  <2>6. CASE JoinHeartbeat
    BY <2>6 DEF JoinHeartbeat
  <2>7. CASE Callback
    BY <2>7 DEF Callback, Return
  <2>8. CASE Destruct
    BY <2>8 DEF Destruct
  <2>9. CASE DestructAborts
    BY <2>9 DEF DestructAborts, Die
  <2> QED
    BY <1>3, <2>1, <2>2, <2>3, <2>4, <2>5, <2>6, <2>7, <2>8, <2>9 DEF
       DisconnectStep
<1>4. CASE ReceiveStep
  <2>1. CASE ReceiveDisconnect
    BY <2>1 DEF ReceiveDisconnect
  <2>2. CASE ReceiveClear
    BY <2>2 DEF ReceiveClear
  <2> QED
    BY <1>1, <1>4, <2>1, <2>2 DEF ReceiveStep, ReceiveCheck, ReceiveRead,
       ReceiveEnter, ReceiveHeader, ReceivePacket, ReceiveGarbage,
       ReceiveEnd, ReceiveFailed
<1>5. CASE HeartStep
  <2>1. CASE HeartKilled
    BY <2>1 DEF HeartKilled, Die
  <2>2. CASE HeartClear
    BY <2>2 DEF HeartClear
  <2> QED
    BY <1>1, <1>5, <2>1, <2>2 DEF HeartStep, HeartCheck, HeartWake,
       HeartRead, HeartSent, HeartSendFail
<1>6. CASE DisconnectCall
  BY <1>6 DEF DisconnectCall
<1>7. ASSUME NEW s \in Sessions, PeerCloses(s) PROVE Down'
  BY <1>1, <1>7 DEF PeerCloses
<1>8. CASE UNCHANGED vars
  BY <1>1, <1>8
<1> QED
  BY <1>2, <1>3, <1>4, <1>5, <1>6, <1>7, <1>8 DEF Next

LEMMA SocketStep ==
  DataTypes /\ Down /\ Socket /\ [Next]_vars => Socket'
<1> SUFFICES ASSUME DataTypes, Down, Socket, [Next]_vars PROVE Socket'
  OBVIOUS
<1> USE DEF Socket, Down, Open
<1>1. ASSUME UNCHANGED <<opc, connected, sock, fd>> PROVE Socket'
  BY <1>1
<1>2. CASE ConnectStep
  <2>1. ASSUME NEW s \in Sessions, ConnectCall(s) PROVE Socket'
    BY <2>1 DEF ConnectCall, DataTypes, OwnerStates
  <2>2. CASE ConnectNoSocket
    BY <2>2 DEF ConnectNoSocket
  <2>3. CASE ConnectFail
    BY <2>3 DEF ConnectFail, DataTypes, OwnerStates
  <2>4. CASE ConnectOk
    BY <2>4 DEF ConnectOk
  <2>5. CASE HandshakeOk
    BY <2>5 DEF HandshakeOk
  <2>6. CASE HandshakeFail
    BY <2>6 DEF HandshakeFail
  <2>7. CASE HandshakeKilled
    BY <2>7 DEF HandshakeKilled, Die
  <2>8. CASE Publish
    BY <2>8 DEF Publish
  <2>9. CASE StartReceive
    BY <2>9 DEF StartReceive
  <2>10. CASE StartHeartbeat
    BY <2>10 DEF StartHeartbeat
  <2>11. CASE StartAborts
    BY <2>11 DEF StartAborts, Die
  <2> QED
    BY <1>2, <2>1, <2>2, <2>3, <2>4, <2>5, <2>6, <2>7, <2>8, <2>9, <2>10,
       <2>11 DEF ConnectStep
<1>3. CASE DisconnectStep
  <2>1. CASE DisconnectTest
    BY <2>1 DEF DisconnectTest, Return
  <2>2. CASE DisconnectFlag
    BY <2>2 DEF DisconnectFlag
  <2>3. CASE DisconnectClose
    BY <2>3 DEF DisconnectClose, DataTypes, OwnerStates
  <2>4. CASE DisconnectInvalidate
    BY <2>4 DEF DisconnectInvalidate
  <2>5. CASE JoinReceive
    BY <2>5 DEF JoinReceive
  <2>6. CASE JoinHeartbeat
    BY <2>6 DEF JoinHeartbeat
  <2>7. CASE Callback
    BY <2>7 DEF Callback, Return
  <2>8. CASE Destruct
    BY <2>8 DEF Destruct
  <2>9. CASE DestructAborts
    BY <2>9 DEF DestructAborts, Die
  <2> QED
    BY <1>3, <2>1, <2>2, <2>3, <2>4, <2>5, <2>6, <2>7, <2>8, <2>9 DEF
       DisconnectStep
<1>4. CASE ReceiveStep
  <2>1. CASE ReceiveDisconnect
    BY <2>1 DEF ReceiveDisconnect
  <2>2. CASE ReceiveClear
    BY <2>2 DEF ReceiveClear
  <2> QED
    BY <1>1, <1>4, <2>1, <2>2 DEF ReceiveStep, ReceiveCheck, ReceiveRead,
       ReceiveEnter, ReceiveHeader, ReceivePacket, ReceiveGarbage,
       ReceiveEnd, ReceiveFailed
<1>5. CASE HeartStep
  <2>1. CASE HeartKilled
    BY <2>1 DEF HeartKilled, Die
  <2>2. CASE HeartClear
    BY <2>2 DEF HeartClear
  <2> QED
    BY <1>1, <1>5, <2>1, <2>2 DEF HeartStep, HeartCheck, HeartWake,
       HeartRead, HeartSent, HeartSendFail
<1>6. CASE DisconnectCall
  BY <1>6 DEF DisconnectCall
<1>7. ASSUME NEW s \in Sessions, PeerCloses(s) PROVE Socket'
  BY <1>1, <1>7 DEF PeerCloses
<1>8. CASE UNCHANGED vars
  BY <1>1, <1>8
<1> QED
  BY <1>2, <1>3, <1>4, <1>5, <1>6, <1>7, <1>8 DEF Next

LEMMA DeadStep ==
  DataTypes /\ Handles /\ Dead /\ [Next]_vars => Dead'
<1> SUFFICES ASSUME DataTypes, Handles, Dead, [Next]_vars PROVE Dead'
  OBVIOUS
<1> USE DEF Dead, Handles, NoHandles
<1>1. ASSUME UNCHANGED <<opc, process, rpc, hpc, lost>> PROVE Dead'
  BY <1>1
<1>2. CASE ConnectStep
  <2>1. ASSUME NEW s \in Sessions, ConnectCall(s) PROVE Dead'
    BY <2>1 DEF ConnectCall
  <2>2. CASE ConnectFail
    BY <2>2 DEF ConnectFail
  <2>3. CASE ConnectOk
    BY <2>3 DEF ConnectOk
  <2>4. CASE HandshakeOk
    BY <2>4 DEF HandshakeOk
  <2>5. CASE HandshakeFail
    BY <2>5 DEF HandshakeFail
  <2>6. CASE HandshakeKilled
    BY <2>6 DEF HandshakeKilled, Die
  <2>7. CASE Publish
    BY <2>7 DEF Publish
  <2>8. CASE StartReceive
    BY <2>8 DEF StartReceive
  <2>9. CASE StartHeartbeat
    BY <2>9 DEF StartHeartbeat
  <2>10. CASE StartAborts
    BY <2>10 DEF StartAborts, Die
  <2> QED
    BY <1>1, <1>2, <2>1, <2>2, <2>3, <2>4, <2>5, <2>6, <2>7, <2>8, <2>9,
       <2>10 DEF ConnectStep, ConnectNoSocket
<1>3. CASE DisconnectStep
  <2>1. CASE DisconnectTest
    BY <2>1 DEF DisconnectTest, Return
  <2>2. CASE DisconnectFlag
    BY <2>2 DEF DisconnectFlag
  <2>3. CASE DisconnectClose
    BY <2>3 DEF DisconnectClose
  <2>4. CASE DisconnectInvalidate
    BY <2>4 DEF DisconnectInvalidate
  <2>5. CASE JoinReceive
    BY <2>5 DEF JoinReceive
  <2>6. CASE JoinHeartbeat
    BY <2>6 DEF JoinHeartbeat
  <2>7. CASE Callback
    BY <2>7 DEF Callback, Return
  <2>8. CASE Destruct
    BY <2>8 DEF Destruct
  <2>9. CASE DestructAborts
    BY <2>9 DEF DestructAborts, Die
  <2> QED
    BY <1>3, <2>1, <2>2, <2>3, <2>4, <2>5, <2>6, <2>7, <2>8, <2>9 DEF
       DisconnectStep
<1>4. CASE ReceiveStep
  <2>1. CASE ReceiveCheck
    BY <2>1 DEF ReceiveCheck
  <2>2. CASE ReceiveRead
    BY <2>2 DEF ReceiveRead
  <2>3. CASE ReceiveEnter
    BY <2>3 DEF ReceiveEnter
  <2>4. CASE ReceiveHeader
    BY <2>4 DEF ReceiveHeader
  <2>5. CASE ReceivePacket
    BY <2>5 DEF ReceivePacket
  <2>6. CASE ReceiveDisconnect
    BY <2>6 DEF ReceiveDisconnect
  <2>7. CASE ReceiveGarbage
    BY <2>7 DEF ReceiveGarbage
  <2>8. CASE ReceiveEnd
    BY <2>8 DEF ReceiveEnd
  <2>9. CASE ReceiveFailed
    BY <2>9 DEF ReceiveFailed
  <2>10. CASE ReceiveClear
    BY <2>10 DEF ReceiveClear
  <2> QED
    BY <1>4, <2>1, <2>2, <2>3, <2>4, <2>5, <2>6, <2>7, <2>8, <2>9, <2>10 DEF
       ReceiveStep
<1>5. CASE HeartStep
  <2>1. CASE HeartCheck
    BY <2>1 DEF HeartCheck
  <2>2. CASE HeartWake
    BY <2>2 DEF HeartWake
  <2>3. CASE HeartRead
    BY <2>3 DEF HeartRead
  <2>4. CASE HeartSent
    BY <2>4 DEF HeartSent
  <2>5. CASE HeartSendFail
    BY <2>5 DEF HeartSendFail
  <2>6. CASE HeartKilled
    BY <2>6 DEF HeartKilled, Die
  <2>7. CASE HeartClear
    BY <2>7 DEF HeartClear
  <2> QED
    BY <1>5, <2>1, <2>2, <2>3, <2>4, <2>5, <2>6, <2>7 DEF HeartStep
<1>6. CASE DisconnectCall
  BY <1>6 DEF DisconnectCall
<1>7. ASSUME NEW s \in Sessions, PeerCloses(s) PROVE Dead'
  BY <1>1, <1>7 DEF PeerCloses
<1>8. CASE UNCHANGED vars
  BY <1>1, <1>8
<1> QED
  BY <1>2, <1>3, <1>4, <1>5, <1>6, <1>7, <1>8 DEF Next

LEMMA Invariant == Spec => []Inv
<1>1. Init => Inv
  BY PlatformAssumption DEF Init, Inv, DataTypes, OwnerStates, Joinable, Gone,
     Handles, NoHandles, Down, Socket, Dead
<1>2. Inv /\ [Next]_vars => Inv'
  BY DataStep, JoinableStep, HandlesStep, DownStep, SocketStep, DeadStep DEF Inv
<1> QED
  BY <1>1, <1>2, PTL DEF Spec

-----------------------------------------------------------------------------
(* The properties.                                                         *)

\* A disconnect() that reaches its callback has joined both threads and
\* closed the socket, on either platform and whoever cleared the flag.
THEOREM DisconnectIsComplete == Spec => []DisconnectLeavesNothing
<1>1. Inv => DisconnectLeavesNothing
  BY DEF Inv, Joinable, Gone, Handles, NoHandles, Down, Socket, Dead,
     DisconnectLeavesNothing, ThreadsGone
<1> QED
  BY <1>1, Invariant, PTL

\* Without a lost connection no thread of an earlier session runs during the
\* handshake of the next one.
THEOREM HandshakeIsAlone == Spec => []HandshakeAlone
<1>1. Inv => HandshakeAlone
  BY DEF Inv, Joinable, Gone, Handles, NoHandles, Dead, HandshakeAlone,
     ThreadsGone
<1> QED
  BY <1>1, Invariant, PTL

\* std::terminate is reached only by way of a lost connection.
THEOREM AbortNeedsLoss == Spec => []AbortOnlyAfterLoss
<1>1. Inv => AbortOnlyAfterLoss
  BY DEF Inv, Dead, AbortOnlyAfterLoss
<1> QED
  BY <1>1, Invariant, PTL
-----------------------------------------------------------------------------
(* The descriptors the threads hold.                                       *)

\* The receive thread is at a recv, the heartbeat thread at a send: each has
\* read socket_ and not yet used what it read.
Receiving == rpc \in {"recv", "blocked"}
Sending == hpc = "send"

\* From the start of the threads to the close, what a thread holds is socket_.
InSession == connected \/ opc \in {"startHeartbeat", "flag", "close"}

Current ==
  /\ InSession /\ opc # "startReceive" /\ Receiving => rsock = sock
  /\ InSession /\ opc \notin {"startReceive", "startHeartbeat"} /\ Sending =>
       hsock = sock

\* After the close it is closed.
CutOff ==
  opc \in {"invalidate", "joinReceive", "joinHeartbeat"} =>
    /\ ~Open(sock)
    /\ Receiving => ~Open(rsock)
    /\ Sending => ~Open(hsock)

\* While the flag is up the receive thread has not returned.
Heard ==
  process = "up" /\ connected /\ opc # "startReceive" => rpc \notin {"off", "done"}

Held == Current /\ CutOff /\ Heard

LEMMA CurrentStep ==
  Inv /\ Held /\ [Next]_vars => Current'
<1> SUFFICES ASSUME Inv, Held, [Next]_vars PROVE Current'
  OBVIOUS
<1> USE SessionAssumption DEF Inv, DataTypes, Held, Current, InSession, Receiving,
       Sending, OwnerStates, Joinable, Gone, Handles, NoHandles, Down, Socket, Dead, Open
<1>1. CASE ConnectStep
  <2>1. ASSUME NEW s \in Sessions, ConnectCall(s) PROVE Current'
    BY <2>1 DEF ConnectCall
  <2>2. CASE ConnectNoSocket
    BY <2>2 DEF ConnectNoSocket
  <2>3. CASE ConnectFail
    BY <2>3 DEF ConnectFail
  <2>4. CASE ConnectOk
    BY <2>4 DEF ConnectOk
  <2>5. CASE HandshakeOk
    BY <2>5 DEF HandshakeOk
  <2>6. CASE HandshakeFail
    BY <2>6 DEF HandshakeFail
  <2>7. CASE HandshakeKilled
    BY <2>7 DEF HandshakeKilled, Die
  <2>8. CASE Publish
    BY <2>8 DEF Publish
  <2>9. CASE StartReceive
    BY <2>9 DEF StartReceive
  <2>10. CASE StartHeartbeat
    BY <2>10 DEF StartHeartbeat
  <2>11. CASE StartAborts
    BY <2>11 DEF StartAborts, Die
  <2> QED
    BY <1>1, <2>1, <2>2, <2>3, <2>4, <2>5, <2>6, <2>7, <2>8, <2>9, <2>10,
       <2>11 DEF ConnectStep
<1>2. CASE DisconnectStep
  <2>1. CASE DisconnectTest
    BY <2>1 DEF DisconnectTest, Return
  <2>2. CASE DisconnectFlag
    BY <2>2 DEF DisconnectFlag
  <2>3. CASE DisconnectClose
    BY <2>3 DEF DisconnectClose
  <2>4. CASE DisconnectInvalidate
    BY <2>4 DEF DisconnectInvalidate
  <2>5. CASE JoinReceive
    BY <2>5 DEF JoinReceive
  <2>6. CASE JoinHeartbeat
    BY <2>6 DEF JoinHeartbeat
  <2>7. CASE Callback
    BY <2>7 DEF Callback, Return
  <2>8. CASE Destruct
    BY <2>8 DEF Destruct
  <2>9. CASE DestructAborts
    BY <2>9 DEF DestructAborts, Die
  <2> QED
    BY <1>2, <2>1, <2>2, <2>3, <2>4, <2>5, <2>6, <2>7, <2>8, <2>9 DEF DisconnectStep
<1>3. CASE ReceiveStep
  <2>1. CASE ReceiveCheck
    BY <2>1 DEF ReceiveCheck
  <2>2. CASE ReceiveRead
    BY <2>2 DEF ReceiveRead
  <2>3. CASE ReceiveEnter
    BY <2>3 DEF ReceiveEnter
  <2>4. CASE ReceiveHeader
    BY <2>4 DEF ReceiveHeader
  <2>5. CASE ReceivePacket
    BY <2>5 DEF ReceivePacket
  <2>6. CASE ReceiveDisconnect
    BY <2>6 DEF ReceiveDisconnect
  <2>7. CASE ReceiveGarbage
    BY <2>7 DEF ReceiveGarbage
  <2>8. CASE ReceiveEnd
    BY <2>8 DEF ReceiveEnd
  <2>9. CASE ReceiveFailed
    BY <2>9 DEF ReceiveFailed
  <2>10. CASE ReceiveClear
    BY <2>10 DEF ReceiveClear
  <2> QED
    BY <1>3, <2>1, <2>2, <2>3, <2>4, <2>5, <2>6, <2>7, <2>8, <2>9, <2>10 DEF ReceiveStep
<1>4. CASE HeartStep
  <2>1. CASE HeartCheck
    BY <2>1 DEF HeartCheck
  <2>2. CASE HeartWake
    BY <2>2 DEF HeartWake
  <2>3. CASE HeartRead
    BY <2>3 DEF HeartRead
  <2>4. CASE HeartSent
    BY <2>4 DEF HeartSent
  <2>5. CASE HeartSendFail
    BY <2>5 DEF HeartSendFail
  <2>6. CASE HeartKilled
    BY <2>6 DEF HeartKilled, Die
  <2>7. CASE HeartClear
    BY <2>7 DEF HeartClear
  <2> QED
    BY <1>4, <2>1, <2>2, <2>3, <2>4, <2>5, <2>6, <2>7 DEF HeartStep
<1>5. CASE DisconnectCall
  BY <1>5 DEF DisconnectCall
<1>6. ASSUME NEW s \in Sessions, PeerCloses(s) PROVE Current'
  BY <1>6 DEF PeerCloses
<1>7. CASE UNCHANGED vars
  BY <1>7
<1> QED
  BY <1>1, <1>2, <1>3, <1>4, <1>5, <1>6, <1>7 DEF Next

LEMMA CutOffStep ==
  Inv /\ Held /\ [Next]_vars => CutOff'
<1> SUFFICES ASSUME Inv, Held, [Next]_vars PROVE CutOff'
  OBVIOUS
<1> USE SessionAssumption DEF Inv, DataTypes, Held, Current, CutOff, InSession,
       Receiving, Sending, OwnerStates, Down, Socket, Open
<1>1. CASE ConnectStep
  <2>1. ASSUME NEW s \in Sessions, ConnectCall(s) PROVE CutOff'
    BY <2>1 DEF ConnectCall
  <2>2. CASE ConnectNoSocket
    BY <2>2 DEF ConnectNoSocket
  <2>3. CASE ConnectFail
    BY <2>3 DEF ConnectFail
  <2>4. CASE ConnectOk
    BY <2>4 DEF ConnectOk
  <2>5. CASE HandshakeOk
    BY <2>5 DEF HandshakeOk
  <2>6. CASE HandshakeFail
    BY <2>6 DEF HandshakeFail
  <2>7. CASE HandshakeKilled
    BY <2>7 DEF HandshakeKilled, Die
  <2>8. CASE Publish
    BY <2>8 DEF Publish
  <2>9. CASE StartReceive
    BY <2>9 DEF StartReceive
  <2>10. CASE StartHeartbeat
    BY <2>10 DEF StartHeartbeat
  <2>11. CASE StartAborts
    BY <2>11 DEF StartAborts, Die
  <2> QED
    BY <1>1, <2>1, <2>2, <2>3, <2>4, <2>5, <2>6, <2>7, <2>8, <2>9, <2>10,
       <2>11 DEF ConnectStep
<1>2. CASE DisconnectStep
  <2>1. CASE DisconnectTest
    BY <2>1 DEF DisconnectTest, Return
  <2>2. CASE DisconnectFlag
    BY <2>2 DEF DisconnectFlag
  <2>3. CASE DisconnectClose
    BY <2>3 DEF DisconnectClose
  <2>4. CASE DisconnectInvalidate
    BY <2>4 DEF DisconnectInvalidate
  <2>5. CASE JoinReceive
    BY <2>5 DEF JoinReceive
  <2>6. CASE JoinHeartbeat
    BY <2>6 DEF JoinHeartbeat
  <2>7. CASE Callback
    BY <2>7 DEF Callback, Return
  <2>8. CASE Destruct
    BY <2>8 DEF Destruct
  <2>9. CASE DestructAborts
    BY <2>9 DEF DestructAborts, Die
  <2> QED
    BY <1>2, <2>1, <2>2, <2>3, <2>4, <2>5, <2>6, <2>7, <2>8, <2>9 DEF DisconnectStep
<1>3. CASE ReceiveStep
  <2>1. CASE ReceiveCheck
    BY <2>1 DEF ReceiveCheck
  <2>2. CASE ReceiveRead
    BY <2>2 DEF ReceiveRead
  <2>3. CASE ReceiveEnter
    BY <2>3 DEF ReceiveEnter
  <2>4. CASE ReceiveHeader
    BY <2>4 DEF ReceiveHeader
  <2>5. CASE ReceivePacket
    BY <2>5 DEF ReceivePacket
  <2>6. CASE ReceiveDisconnect
    BY <2>6 DEF ReceiveDisconnect
  <2>7. CASE ReceiveGarbage
    BY <2>7 DEF ReceiveGarbage
  <2>8. CASE ReceiveEnd
    BY <2>8 DEF ReceiveEnd
  <2>9. CASE ReceiveFailed
    BY <2>9 DEF ReceiveFailed
  <2>10. CASE ReceiveClear
    BY <2>10 DEF ReceiveClear
  <2> QED
    BY <1>3, <2>1, <2>2, <2>3, <2>4, <2>5, <2>6, <2>7, <2>8, <2>9, <2>10 DEF ReceiveStep
<1>4. CASE HeartStep
  <2>1. CASE HeartCheck
    BY <2>1 DEF HeartCheck
  <2>2. CASE HeartWake
    BY <2>2 DEF HeartWake
  <2>3. CASE HeartRead
    BY <2>3 DEF HeartRead
  <2>4. CASE HeartSent
    BY <2>4 DEF HeartSent
  <2>5. CASE HeartSendFail
    BY <2>5 DEF HeartSendFail
  <2>6. CASE HeartKilled
    BY <2>6 DEF HeartKilled, Die
  <2>7. CASE HeartClear
    BY <2>7 DEF HeartClear
  <2> QED
    BY <1>4, <2>1, <2>2, <2>3, <2>4, <2>5, <2>6, <2>7 DEF HeartStep
<1>5. CASE DisconnectCall
  BY <1>5 DEF DisconnectCall
<1>6. ASSUME NEW s \in Sessions, PeerCloses(s) PROVE CutOff'
  BY <1>6 DEF PeerCloses
<1>7. CASE UNCHANGED vars
  BY <1>7
<1> QED
  BY <1>1, <1>2, <1>3, <1>4, <1>5, <1>6, <1>7 DEF Next

LEMMA HeardStep ==
  Inv /\ Held /\ [Next]_vars => Heard'
<1> SUFFICES ASSUME Inv, Held, [Next]_vars PROVE Heard'
  OBVIOUS
<1> USE SessionAssumption DEF Inv, DataTypes, Held, Heard, OwnerStates, Joinable, Gone, Down, Dead
<1>1. CASE ConnectStep
  <2>1. ASSUME NEW s \in Sessions, ConnectCall(s) PROVE Heard'
    BY <2>1 DEF ConnectCall
  <2>2. CASE ConnectNoSocket
    BY <2>2 DEF ConnectNoSocket
  <2>3. CASE ConnectFail
    BY <2>3 DEF ConnectFail
  <2>4. CASE ConnectOk
    BY <2>4 DEF ConnectOk
  <2>5. CASE HandshakeOk
    BY <2>5 DEF HandshakeOk
  <2>6. CASE HandshakeFail
    BY <2>6 DEF HandshakeFail
  <2>7. CASE HandshakeKilled
    BY <2>7 DEF HandshakeKilled, Die
  <2>8. CASE Publish
    BY <2>8 DEF Publish
  <2>9. CASE StartReceive
    BY <2>9 DEF StartReceive
  <2>10. CASE StartHeartbeat
    BY <2>10 DEF StartHeartbeat
  <2>11. CASE StartAborts
    BY <2>11 DEF StartAborts, Die
  <2> QED
    BY <1>1, <2>1, <2>2, <2>3, <2>4, <2>5, <2>6, <2>7, <2>8, <2>9, <2>10,
       <2>11 DEF ConnectStep
<1>2. CASE DisconnectStep
  <2>1. CASE DisconnectTest
    BY <2>1 DEF DisconnectTest, Return
  <2>2. CASE DisconnectFlag
    BY <2>2 DEF DisconnectFlag
  <2>3. CASE DisconnectClose
    BY <2>3 DEF DisconnectClose
  <2>4. CASE DisconnectInvalidate
    BY <2>4 DEF DisconnectInvalidate
  <2>5. CASE JoinReceive
    BY <2>5 DEF JoinReceive
  <2>6. CASE JoinHeartbeat
    BY <2>6 DEF JoinHeartbeat
  <2>7. CASE Callback
    BY <2>7 DEF Callback, Return
  <2>8. CASE Destruct
    BY <2>8 DEF Destruct
  <2>9. CASE DestructAborts
    BY <2>9 DEF DestructAborts, Die
  <2> QED
    BY <1>2, <2>1, <2>2, <2>3, <2>4, <2>5, <2>6, <2>7, <2>8, <2>9 DEF DisconnectStep
<1>3. CASE ReceiveStep
  <2>1. CASE ReceiveCheck
    BY <2>1 DEF ReceiveCheck
  <2>2. CASE ReceiveRead
    BY <2>2 DEF ReceiveRead
  <2>3. CASE ReceiveEnter
    BY <2>3 DEF ReceiveEnter
  <2>4. CASE ReceiveHeader
    BY <2>4 DEF ReceiveHeader
  <2>5. CASE ReceivePacket
    BY <2>5 DEF ReceivePacket
  <2>6. CASE ReceiveDisconnect
    BY <2>6 DEF ReceiveDisconnect
  <2>7. CASE ReceiveGarbage
    BY <2>7 DEF ReceiveGarbage
  <2>8. CASE ReceiveEnd
    BY <2>8 DEF ReceiveEnd
  <2>9. CASE ReceiveFailed
    BY <2>9 DEF ReceiveFailed
  <2>10. CASE ReceiveClear
    BY <2>10 DEF ReceiveClear
  <2> QED
    BY <1>3, <2>1, <2>2, <2>3, <2>4, <2>5, <2>6, <2>7, <2>8, <2>9, <2>10 DEF ReceiveStep
<1>4. CASE HeartStep
  <2>1. CASE HeartCheck
    BY <2>1 DEF HeartCheck
  <2>2. CASE HeartWake
    BY <2>2 DEF HeartWake
  <2>3. CASE HeartRead
    BY <2>3 DEF HeartRead
  <2>4. CASE HeartSent
    BY <2>4 DEF HeartSent
  <2>5. CASE HeartSendFail
    BY <2>5 DEF HeartSendFail
  <2>6. CASE HeartKilled
    BY <2>6 DEF HeartKilled, Die
  <2>7. CASE HeartClear
    BY <2>7 DEF HeartClear
  <2> QED
    BY <1>4, <2>1, <2>2, <2>3, <2>4, <2>5, <2>6, <2>7 DEF HeartStep
<1>5. CASE DisconnectCall
  BY <1>5 DEF DisconnectCall
<1>6. ASSUME NEW s \in Sessions, PeerCloses(s) PROVE Heard'
  BY <1>6 DEF PeerCloses
<1>7. CASE UNCHANGED vars
  BY <1>7
<1> QED
  BY <1>1, <1>2, <1>3, <1>4, <1>5, <1>6, <1>7 DEF Next

LEMMA HeldInvariance == Spec => []Held
<1>1. Init => Held
  BY DEF Init, Held, Current, CutOff, Heard, InSession, Receiving, Sending
<1>2. Inv /\ Held /\ [Next]_vars => Held'
  BY CurrentStep, CutOffStep, HeardStep DEF Held
<1> QED
  BY <1>1, <1>2, Invariant, PTL DEF Spec

\* While isConnected() says yes socket_ is open and a receive thread listens on
\* it, in every session.
THEOREM SomebodyListens == Spec => []ConnectedIsHeard
<1>1. Inv /\ Held => ConnectedIsHeard
  BY DEF Inv, Socket, Held, Heard, Current, InSession, Receiving,
     ConnectedIsHeard
<1> QED
  BY <1>1, Invariant, HeldInvariance, PTL

\* When disconnect() joins, what its threads hold is closed, at whichever
\* point of their loops the call has met them.
THEOREM JoinsAreCutOff == Spec => []DisconnectCutsOff
<1>1. Held => DisconnectCutsOff
  BY DEF Held, CutOff, Receiving, Sending, DisconnectCutsOff
<1> QED
  BY <1>1, HeldInvariance, PTL
=============================================================================

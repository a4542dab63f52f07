---------------------------- MODULE StreamClient ----------------------------
(***************************************************************************)
(* The threads of class StreamClient (src/network/StreamClient.cpp) over   *)
(* several sessions: the owner calls connect(), disconnect() and the       *)
(* destructor; each successful connect() starts a receive thread           *)
(* (receiveLoop) and a heartbeat thread (heartbeatLoop).  They share the   *)
(* atomic flag connected_ and the plain member socket_, which the loops    *)
(* read anew for every call while the owner may be closing it.             *)
(*                                                                         *)
(* Any of the three may find the connection gone.  Only the owner, inside  *)
(* disconnect(), closes the socket and joins the threads, and only if it   *)
(* still finds connected_ set: the variable lost remembers that a loop has *)
(* cleared the flag and that no disconnect() has completed since.          *)
(*                                                                         *)
(* A descriptor stands for the session it was opened for; the contents of  *)
(* packets are reduced to what receivePacket() and receiveLoop() tell      *)
(* apart.  The server is the environment: it may answer, send, stay silent *)
(* or close.                                                               *)
(***************************************************************************)
EXTENDS Naturals, FiniteSets

CONSTANTS
  Sessions,     \* sockets the owner may open, one per connect()
  Platforms,    \* those the program is built for: "winsock", "linux"
  Invalid       \* INVALID_SOCKET

ASSUME SessionAssumption == Invalid \notin Sessions
ASSUME PlatformAssumption == Platforms \subseteq {"winsock", "linux"}

VARIABLES
  platform,   \* the platform the program runs on
  process,    \* "up", "aborted" by std::terminate, "killed" by SIGPIPE
  connected,  \* connected_
  sock,       \* socket_
  fd,         \* kernel: each session's socket
  peer,       \* the server's end of each session
  opc, caller,          \* owner: control, who called disconnect()
  rjoin, rpc, rsock, rpart,  \* receive thread: joinable, control, the
                        \* descriptor it read, the part of a packet it is at
  hjoin, hpc, hsock,    \* heartbeat thread
  lost        \* a loop has cleared connected_, no disconnect() completed since

net == <<sock, fd, peer>>
owner == <<opc, caller, rjoin, hjoin>>
receiver == <<rpc, rsock, rpart>>
heart == <<hpc, hsock>>
vars == <<platform, process, connected, net, owner, receiver, heart, lost>>

\* What the steps of an actor leave alone.
notOwner == <<platform, peer, rsock, rpart, hsock>>
notReceiver == <<platform, process, net, owner, heart>>
notHeart == <<platform, net, owner, receiver>>

\* Does close() wake a thread blocked in recv?  Winsock's closesocket does,
\* Linux's close does not.
CloseWakes == platform = "winsock"

\* Does send() to a closed peer raise SIGPIPE?
SendSignals == platform = "linux"

Open(s) == s \in Sessions /\ fd[s] = "open"
PeerOpen(s) == s \in Sessions /\ peer[s] = "open"

\* The process dies: none of its threads takes another step.
Die(how) ==
  /\ process' = how
  /\ opc' = "dead" /\ rpc' = "dead" /\ hpc' = "dead"
  /\ UNCHANGED <<platform, connected, net, caller, rjoin, hjoin, rsock, rpart,
                 hsock, lost>>

Init ==
  /\ platform \in Platforms
  /\ process = "up"
  /\ connected = FALSE
  /\ sock = Invalid
  /\ fd = [s \in Sessions |-> "unused"]
  /\ peer = [s \in Sessions |-> "none"]
  /\ opc = "idle" /\ caller = "api"
  /\ rjoin = FALSE /\ rpc = "off" /\ rsock = Invalid /\ rpart = "header"
  /\ hjoin = FALSE /\ hpc = "off" /\ hsock = Invalid
  /\ lost = FALSE

-----------------------------------------------------------------------------
(* The owner: connect().                                                   *)

\* The flag is down: a socket is created.  The old value of socket_ is
\* overwritten, closed or not.
ConnectCall(s) ==
  /\ opc = "idle" /\ ~connected
  /\ fd[s] = "unused"
  /\ fd' = [fd EXCEPT ![s] = "open"]
  /\ sock' = s
  /\ opc' = "connecting"
  /\ UNCHANGED <<notOwner, process, connected, caller, rjoin, hjoin, rpc, hpc,
                 lost>>

\* socket() fails.
ConnectNoSocket ==
  /\ opc = "idle" /\ ~connected
  /\ sock' = Invalid
  /\ UNCHANGED <<notOwner, process, connected, fd, opc, caller, rjoin, hjoin,
                 rpc, hpc, lost>>

\* The address does not resolve, or nobody listens there.
ConnectFail ==
  /\ opc = "connecting"
  /\ fd' = [fd EXCEPT ![sock] = "closed"]
  /\ sock' = Invalid
  /\ opc' = "idle"
  /\ UNCHANGED <<notOwner, process, connected, caller, rjoin, hjoin, rpc, hpc,
                 lost>>

ConnectOk ==
  /\ opc = "connecting"
  /\ peer' = [peer EXCEPT ![sock] = "open"]
  /\ opc' = "handshake"
  /\ UNCHANGED <<platform, process, connected, sock, fd, caller, rjoin, hjoin,
                 receiver, heart, lost>>

\* sendHandshake(): the server accepts.
HandshakeOk ==
  /\ opc = "handshake"
  /\ opc' = "publish"
  /\ UNCHANGED <<notOwner, process, connected, sock, fd, caller, rjoin, hjoin,
                 rpc, hpc, lost>>

\* sendHandshake(): a send or a receive fails, the response is another packet
\* or a refusal.  connect() calls disconnect().
HandshakeFail ==
  /\ opc = "handshake"
  /\ opc' = "test" /\ caller' = "connect"
  /\ UNCHANGED <<notOwner, process, connected, sock, fd, rjoin, hjoin, rpc,
                 hpc, lost>>

\* sendHandshake(): the second send reaches a connection already reset.
HandshakeKilled ==
  /\ opc = "handshake" /\ SendSignals /\ ~PeerOpen(sock)
  /\ Die("killed")

Publish ==
  /\ opc = "publish"
  /\ connected' = TRUE
  /\ opc' = "startReceive"
  /\ UNCHANGED <<notOwner, process, sock, fd, caller, rjoin, hjoin, rpc, hpc,
                 lost>>

StartReceive ==
  /\ opc = "startReceive" /\ ~rjoin
  /\ rjoin' = TRUE /\ rpc' = "check"
  /\ opc' = "startHeartbeat"
  /\ UNCHANGED <<notOwner, process, connected, sock, fd, caller, hjoin, hpc,
                 lost>>

StartHeartbeat ==
  /\ opc = "startHeartbeat" /\ ~hjoin
  /\ hjoin' = TRUE /\ hpc' = "check"
  /\ opc' = "idle"
  /\ UNCHANGED <<notOwner, process, connected, sock, fd, caller, rjoin, rpc,
                 lost>>

\* receive_thread_ = std::thread(...), heartbeat_thread_ = std::thread(...):
\* assigning to a joinable thread calls std::terminate.
StartAborts ==
  /\ \/ opc = "startReceive" /\ rjoin
     \/ opc = "startHeartbeat" /\ hjoin
  /\ Die("aborted")

-----------------------------------------------------------------------------
(* The owner: disconnect() and the destructor.                             *)

DisconnectCall ==
  /\ opc = "idle"
  /\ opc' = "test" /\ caller' \in {"api", "destructor"}
  /\ UNCHANGED <<notOwner, process, connected, sock, fd, rjoin, hjoin, rpc,
                 hpc, lost>>

\* Where disconnect() returns to.
Return == opc' = IF caller = "destructor" THEN "destruct" ELSE "idle"

\* Returns at once if a loop has already cleared the flag.
DisconnectTest ==
  /\ opc = "test"
  /\ IF connected THEN opc' = "flag" ELSE Return
  /\ UNCHANGED <<notOwner, process, connected, sock, fd, caller, rjoin, hjoin,
                 rpc, hpc, lost>>

\* Mutant: the flag stays up until the socket is closed.
DisconnectFlagLate ==
  /\ opc = "flag"
  /\ fd' = [fd EXCEPT ![sock] = "closed"]
  /\ opc' = "close"
  /\ UNCHANGED <<notOwner, process, connected, sock, caller, rjoin, hjoin,
                 rpc, hpc, lost>>

DisconnectFlag ==
  /\ opc = "flag"
  /\ connected' = FALSE
  /\ opc' = "close"
  /\ UNCHANGED <<notOwner, process, sock, fd, caller, rjoin, hjoin, rpc, hpc,
                 lost>>

\* Mutant: the socket is left open.
DisconnectCloseNot ==
  /\ opc = "close"
  /\ opc' = "invalidate"
  /\ UNCHANGED <<notOwner, process, connected, sock, fd, caller, rjoin, hjoin,
                 rpc, hpc, lost>>

DisconnectClose ==
  /\ opc = "close"
  /\ fd' = [s \in Sessions |-> IF s = sock THEN "closed" ELSE fd[s]]
  /\ opc' = "invalidate"
  /\ UNCHANGED <<notOwner, process, connected, sock, caller, rjoin, hjoin, rpc,
                 hpc, lost>>

DisconnectInvalidate ==
  /\ opc = "invalidate"
  /\ sock' = Invalid
  /\ opc' = "joinReceive"
  /\ UNCHANGED <<notOwner, process, connected, fd, caller, rjoin, hjoin, rpc,
                 hpc, lost>>

\* Mutant: the receive thread is detached.
DetachReceive ==
  /\ opc = "joinReceive"
  /\ rjoin' = FALSE
  /\ opc' = "joinHeartbeat"
  /\ UNCHANGED <<notOwner, process, connected, sock, fd, caller, hjoin, rpc,
                 hpc, lost>>

JoinReceive ==
  /\ opc = "joinReceive"
  /\ rjoin => rpc = "done"
  /\ rjoin' = FALSE
  /\ opc' = "joinHeartbeat"
  /\ UNCHANGED <<notOwner, process, connected, sock, fd, caller, hjoin, rpc,
                 hpc, lost>>

\* Mutant: the heartbeat thread, which sleeps, is not waited for.
SkipHeartbeat ==
  /\ opc = "joinHeartbeat"
  /\ opc' = "callback"
  /\ UNCHANGED <<notOwner, process, connected, sock, fd, caller, rjoin, hjoin,
                 rpc, hpc, lost>>

JoinHeartbeat ==
  /\ opc = "joinHeartbeat"
  /\ hjoin => hpc = "done"
  /\ hjoin' = FALSE
  /\ opc' = "callback"
  /\ UNCHANGED <<notOwner, process, connected, sock, fd, caller, rjoin, rpc,
                 hpc, lost>>

\* disconnect_callback_(), and the return.
Callback ==
  /\ opc = "callback"
  /\ lost' = FALSE
  /\ Return
  /\ UNCHANGED <<notOwner, process, connected, sock, fd, caller, rjoin, hjoin,
                 rpc, hpc>>

\* The members are destroyed: a joinable std::thread calls std::terminate.
Destruct ==
  /\ opc = "destruct" /\ ~rjoin /\ ~hjoin
  /\ opc' = "destroyed"
  /\ UNCHANGED <<notOwner, process, connected, sock, fd, caller, rjoin, hjoin,
                 rpc, hpc, lost>>

DestructAborts ==
  /\ opc = "destruct" /\ (rjoin \/ hjoin)
  /\ Die("aborted")

-----------------------------------------------------------------------------
(* The receive thread: receiveLoop(), receivePacket().                     *)

ReceiveCheck ==
  /\ rpc = "check"
  /\ rpc' = IF connected THEN "read" ELSE "done"
  /\ rpart' = "header"
  /\ UNCHANGED <<notReceiver, connected, rsock, lost>>

\* The argument of recv() is evaluated: socket_ may change from here on.
ReceiveRead ==
  /\ rpc = "read"
  /\ rsock' = sock
  /\ rpc' = "recv"
  /\ UNCHANGED <<notReceiver, connected, rpart, lost>>

\* recv() fails on a closed descriptor or an unconnected socket, else blocks.
ReceiveEnter ==
  /\ rpc = "recv"
  /\ rpc' = IF Open(rsock) /\ peer[rsock] # "none" THEN "blocked" ELSE "failed"
  /\ UNCHANGED <<notReceiver, connected, rsock, rpart, lost>>

\* A recv that close() has not woken.
StillOpen == Open(rsock) \/ ~CloseWakes

\* The header of a frame: its payload is received next.
ReceiveHeader ==
  /\ rpc = "blocked" /\ StillOpen /\ rpart = "header"
  /\ rpart' = "payload"
  /\ rpc' = "read"
  /\ UNCHANGED <<notReceiver, connected, rsock, lost>>

\* A packet is complete: a frame with its payload goes to its callback, a
\* HEARTBEAT, an ACK or an unknown packet is ignored.
ReceivePacket ==
  /\ rpc = "blocked" /\ StillOpen
  /\ rpc' = "check"
  /\ UNCHANGED <<notReceiver, connected, rsock, rpart, lost>>

\* A DISCONNECT packet.
ReceiveDisconnect ==
  /\ rpc = "blocked" /\ StillOpen /\ rpart = "header"
  /\ connected' = FALSE
  /\ lost' = (lost \/ connected)
  /\ rpc' = "check"
  /\ UNCHANGED <<notReceiver, rsock, rpart>>

\* A header without the magic number.
ReceiveGarbage ==
  /\ rpc = "blocked" /\ StillOpen /\ rpart = "header"
  /\ rpc' = "failed"
  /\ UNCHANGED <<notReceiver, connected, rsock, rpart, lost>>

\* recv() is short: the server has closed, or close() here has woken it.
ReceiveEnd ==
  /\ rpc = "blocked"
  /\ ~PeerOpen(rsock) \/ (CloseWakes /\ ~Open(rsock))
  /\ rpc' = "failed"
  /\ UNCHANGED <<notReceiver, connected, rsock, rpart, lost>>

\* receivePacket() returned false.
ReceiveFailed ==
  /\ rpc = "failed"
  /\ rpc' = IF connected THEN "clear" ELSE "done"
  /\ UNCHANGED <<notReceiver, connected, rsock, rpart, lost>>

\* Mutant: the loop ends without clearing the flag.
ReceiveClearNot ==
  /\ rpc = "clear"
  /\ rpc' = "done"
  /\ UNCHANGED <<notReceiver, connected, rsock, rpart, lost>>

ReceiveClear ==
  /\ rpc = "clear"
  /\ connected' = FALSE
  /\ lost' = (lost \/ connected)
  /\ rpc' = "done"
  /\ UNCHANGED <<notReceiver, rsock, rpart>>

-----------------------------------------------------------------------------
(* The heartbeat thread: heartbeatLoop(), sendHeartbeat().                 *)

HeartCheck ==
  /\ hpc = "check"
  /\ hpc' = IF connected THEN "sleep" ELSE "done"
  /\ UNCHANGED <<notHeart, process, connected, hsock, lost>>

\* Ten seconds later the flag is read again.
HeartWake ==
  /\ hpc = "sleep"
  /\ hpc' = IF connected THEN "read" ELSE "check"
  /\ UNCHANGED <<notHeart, process, connected, hsock, lost>>

HeartRead ==
  /\ hpc = "read"
  /\ hsock' = sock
  /\ hpc' = "send"
  /\ UNCHANGED <<notHeart, process, connected, lost>>

\* The kernel takes the packet, also when the server has closed its end and
\* the reset has not come back.
HeartSent ==
  /\ hpc = "send"
  /\ Open(hsock) /\ peer[hsock] # "none"
  /\ hpc' = "check"
  /\ UNCHANGED <<notHeart, process, connected, hsock, lost>>

HeartSendFail ==
  /\ hpc = "send"
  /\ ~Open(hsock) \/ ~PeerOpen(hsock)
  /\ hpc' = "clear"
  /\ UNCHANGED <<notHeart, process, connected, hsock, lost>>

HeartKilled ==
  /\ hpc = "send"
  /\ SendSignals /\ Open(hsock) /\ ~PeerOpen(hsock)
  /\ Die("killed")

HeartClear ==
  /\ hpc = "clear"
  /\ connected' = FALSE
  /\ lost' = (lost \/ connected)
  /\ hpc' = "done"
  /\ UNCHANGED <<notHeart, process, hsock>>

-----------------------------------------------------------------------------
\* The server closes its end, or its host disappears.
PeerCloses(s) ==
  /\ peer[s] = "open"
  /\ peer' = [peer EXCEPT ![s] = "closed"]
  /\ UNCHANGED <<platform, process, connected, sock, fd, owner, receiver,
                 heart, lost>>

ConnectStep ==
  \/ (\E s \in Sessions : ConnectCall(s)) \/ ConnectNoSocket \/ ConnectFail
  \/ ConnectOk \/ HandshakeOk \/ HandshakeFail \/ HandshakeKilled
  \/ Publish \/ StartReceive \/ StartHeartbeat \/ StartAborts

DisconnectStep ==
  \/ DisconnectTest \/ DisconnectFlag \/ DisconnectClose
  \/ DisconnectInvalidate \/ JoinReceive \/ JoinHeartbeat \/ Callback
  \/ Destruct \/ DestructAborts

ReceiveStep ==
  \/ ReceiveCheck \/ ReceiveRead \/ ReceiveEnter \/ ReceiveHeader
  \/ ReceivePacket \/ ReceiveDisconnect \/ ReceiveGarbage \/ ReceiveEnd
  \/ ReceiveFailed \/ ReceiveClear

HeartStep ==
  \/ HeartCheck \/ HeartWake \/ HeartRead \/ HeartSent \/ HeartSendFail
  \/ HeartKilled \/ HeartClear

Next ==
  \/ ConnectStep \/ DisconnectCall \/ DisconnectStep
  \/ ReceiveStep \/ HeartStep
  \/ \E s \in Sessions : PeerCloses(s)

Spec == Init /\ [][Next]_vars

-----------------------------------------------------------------------------
(* Fairness.  A thread that can run does run.  Nothing obliges the server  *)
(* to send or to close, so a blocked recv is only required to return when  *)
(* the connection has ended; as what is in flight is finite, it is         *)
(* required to return in the end (strong fairness).                        *)

\* What the owner does once it has the answer to the handshake, or has called
\* disconnect().
OwnerProgress ==
  DisconnectStep \/ Publish \/ StartReceive \/ StartHeartbeat \/ StartAborts

ReceiveProgress ==
  \/ ReceiveCheck \/ ReceiveRead \/ ReceiveEnter \/ ReceiveFailed
  \/ ReceiveClear

FairSpec ==
  /\ Spec
  /\ WF_vars(OwnerProgress)
  /\ WF_vars(ReceiveProgress)
  /\ SF_vars(ReceiveEnd)
  /\ WF_vars(HeartStep)

-----------------------------------------------------------------------------
(* Properties.                                                             *)

OwnerStates ==
  {"idle", "connecting", "handshake", "publish", "startReceive",
   "startHeartbeat", "test", "flag", "close", "invalidate", "joinReceive",
   "joinHeartbeat", "callback", "destruct", "destroyed", "dead"}

FlagTypes ==
  /\ connected \in BOOLEAN /\ lost \in BOOLEAN
  /\ rjoin \in BOOLEAN /\ hjoin \in BOOLEAN

DataTypes ==
  /\ platform \in {"winsock", "linux"}
  /\ process \in {"up", "aborted", "killed"}
  /\ sock \in Sessions \cup {Invalid}
  /\ fd \in [Sessions -> {"unused", "open", "closed"}]
  /\ peer \in [Sessions -> {"none", "open", "closed"}]
  /\ opc \in OwnerStates /\ caller \in {"api", "connect", "destructor"}
  /\ rpc \in {"off", "check", "read", "recv", "blocked", "failed", "clear",
              "done", "dead"}
  /\ rsock \in Sessions \cup {Invalid} /\ rpart \in {"header", "payload"}
  /\ hpc \in {"off", "check", "sleep", "read", "send", "clear", "done", "dead"}
  /\ hsock \in Sessions \cup {Invalid}

\* The type invariant: every variable of StreamClient stays in its type.
TypeOK == FlagTypes /\ DataTypes

ThreadsGone == rpc \in {"off", "done"} /\ hpc \in {"off", "done"}

\* When disconnect() calls its callback the session is over: both threads
\* have returned and are joined, and socket_ is closed and forgotten, whoever
\* noticed the end of the connection first.
DisconnectLeavesNothing ==
  opc = "callback" =>
    ThreadsGone /\ ~rjoin /\ ~hjoin /\ ~connected /\ sock = Invalid

\* While isConnected() says yes somebody listens: socket_ is open, for the flag
\* is down before disconnect() closes, and once the threads are started the
\* receive thread has not returned and waits on socket_, not on a descriptor
\* that it read in a session before.
ConnectedIsHeard ==
  connected =>
    /\ Open(sock)
    /\ process = "up" /\ opc # "startReceive" =>
         /\ rpc \notin {"off", "done"}
         /\ rpc \in {"recv", "blocked"} => rsock = sock

\* Whatever the threads have read of socket_, at any moment of disconnect(), is
\* closed when disconnect() waits for them: no recv or send that they have yet
\* to start reaches the server.  (A recv that had started returns at once where
\* close() wakes it; see DisconnectReturns for where it does not.)
DisconnectCutsOff ==
  opc \in {"joinReceive", "joinHeartbeat"} =>
    /\ rpc \in {"recv", "blocked"} => ~Open(rsock)
    /\ hpc = "send" => ~Open(hsock)

\* connect() does its handshake alone, unless a connection was lost and never
\* disconnected: no thread of an earlier session takes its response off the
\* socket or sends into it.
HandshakeAlone ==
  ~lost /\ opc \in {"connecting", "handshake", "publish"} => ThreadsGone

\* A program that is told of no loss never dies in std::terminate: only after
\* a loop has cleared connected_ does a joinable thread meet an assignment or
\* the destructor.
AbortOnlyAfterLoss == process = "aborted" => lost

\* A loop that finds the connection gone ends: a server that closes is
\* noticed, and isConnected() turns false.
ServerCloseNoticed ==
  \A s \in Sessions :
    (sock = s /\ connected /\ peer[s] = "closed")
      ~> (~connected \/ process # "up")

\* On Linux close() does not wake a recv that has started: disconnect() waits
\* for the receive thread, and that for a server that stays silent.
WaitsForServer ==
  /\ ~CloseWakes /\ opc = "joinReceive"
  /\ rpc = "blocked" /\ PeerOpen(rsock)

\* disconnect() returns, although the receive thread may be blocked in recv
\* and the heartbeat thread asleep.  "Close socket to unblock receive"
\* (StreamClient.cpp:112) is so on Windows only; on Linux disconnect() returns,
\* too, but for one case, that it waits for the server for ever.
DisconnectReturns ==
  (opc = "flag") ~>
    (\/ opc \in {"idle", "destruct", "destroyed"}
     \/ process # "up"
     \/ []WaitsForServer)

\* "Run for a specified time or until disconnected" (test_viewer.cpp:83): a
\* viewer whose server disconnects ends by its own return, not by
\* std::terminate.
ViewerEndsNormally == process # "aborted"
=============================================================================

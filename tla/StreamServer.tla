---------------------------- MODULE StreamServer ----------------------------
(***************************************************************************)
(* The threads of class StreamServer (src/network/StreamServer.cpp) and    *)
(* the data they share: the flag running_, the client map clients_ with    *)
(* its mutex clients_mutex_, the ClientInfo records, and the descriptors   *)
(* the kernel hands out and takes back.                                    *)
(*                                                                         *)
(*   - the owner calls start() and stop();                                 *)
(*   - the accept thread runs acceptConnections();                         *)
(*   - the monitor thread runs heartbeatMonitor();                         *)
(*   - one handler thread per connection runs handleClient();              *)
(*   - broadcasters call broadcastVideoFrame() / broadcastAudioFrame();    *)
(*   - a caller of the public API may call disconnectClient().             *)
(*                                                                         *)
(* A descriptor is a small number that the kernel reuses as soon as it is  *)
(* closed, and the code passes descriptors by value: what a thread does to *)
(* a socket it read earlier may reach another connection.  Time, and what  *)
(* travels on a connection, are abstracted: the monitor may time out any   *)
(* client (HeartbeatMonitor has the arithmetic) and a send is one step     *)
(* (the bytes are not modelled here).                                      *)
(***************************************************************************)
EXTENDS Naturals, FiniteSets

CONSTANTS
  Conns,         \* connections a peer may open, each with its ClientInfo
  Fds,           \* descriptors the kernel can assign to accepted sockets
  Broadcasters,  \* threads calling broadcastVideoFrame/broadcastAudioFrame
  IdModulus,     \* 2^16 in the code: client ids are uint16_t
  MaxAccepted,   \* bound: connections accepted in one behaviour
  CloseWakes,    \* does close() wake a thread blocked in accept or recv?
                 \* TRUE for Winsock's closesocket, FALSE for Linux's close
  DisconnectUsed, \* does the program call disconnectClient()?
  NoConn,        \* no connection: a free descriptor, an unused client id
  Invalid        \* INVALID_SOCKET

ASSUME ConnAssumption == NoConn \notin Conns
ASSUME FdAssumption == Invalid \notin Fds
ASSUME CallerAssumption == Broadcasters \cap {"owner", "api", "none"} = {}
ASSUME IdAssumption == IdModulus \in Nat /\ IdModulus > 1
ASSUME BoundAssumption == MaxAccepted \in Nat
ASSUME PlatformAssumption == CloseWakes \in BOOLEAN
ASSUME ApiAssumption == DisconnectUsed \in BOOLEAN

VARIABLES
  running,       \* running_
  listening,     \* listen_socket_ is open
  nextClientId,  \* next_client_id_
  accepted,      \* connections accepted so far
  clients,       \* clients_: client id -> connection
  mutex,         \* holder of clients_mutex_ across steps
  holder,        \* kernel: descriptor -> connection it refers to
  socket,        \* ClientInfo::socket
  clientId,      \* ClientInfo::client_id
  active,        \* ClientInfo::active
  threads,       \* connections with a handle in client_threads_
  opc, opending, \* owner: control, connections stop() has still to close
  apc, acur,     \* accept thread: control, connection being set up
  mpc,           \* monitor thread: control
  hpc,           \* handler threads: control, per connection
  bpc, bpending, btarget, bsock,  \* broadcasters
  dpc, dtarget   \* disconnectClient()

kernel == <<listening, holder>>
info == <<socket, clientId, active>>
registry == <<nextClientId, accepted, clients, threads>>
owner == <<opc, opending>>
acceptor == <<apc, acur>>
caster == <<bpc, bpending, btarget, bsock>>
api == <<dpc, dtarget>>
vars == <<running, kernel, info, registry, mutex, owner, acceptor, mpc, hpc,
          caster, api>>

\* What the steps of an actor leave alone.
notOwner == <<socket, clientId, nextClientId, accepted, acceptor, mpc, hpc,
              caster, api>>
notAcceptor == <<running, listening, mutex, owner, mpc, caster, api>>
notHandler == <<running, listening, nextClientId, accepted, threads, mutex,
                owner, acceptor, mpc, caster, api>>
notCaster == <<running, kernel, info, registry, owner, acceptor, mpc, hpc, api>>

Ids == 0 .. IdModulus - 1
Callers == Broadcasters \cup {"owner", "api"}

\* The connections present in clients_.
Registered == {c \in Conns : \E i \in Ids : clients[i] = c}

\* What a descriptor refers to; INVALID_SOCKET and a closed one to nothing.
Refers(f) == IF f \in Fds THEN holder[f] ELSE NoConn

\* The descriptor in the ClientInfo of c still refers to the connection of c.
OwnOpen(c) == Refers(socket[c]) = c

\* close(): frees the descriptor, whatever it refers to; EBADF changes nothing.
Close(f) == holder' = [g \in Fds |-> IF g = f THEN NoConn ELSE holder[g]]

\* Unsigned 16-bit increment.
NextId(i) == IF i + 1 = IdModulus THEN 0 ELSE i + 1

LockFree == mutex = "none"

Init ==
  /\ running = FALSE
  /\ listening = FALSE
  /\ nextClientId = 1
  /\ accepted = 0
  /\ clients = [i \in Ids |-> NoConn]
  /\ mutex = "none"
  /\ holder = [f \in Fds |-> NoConn]
  /\ socket = [c \in Conns |-> Invalid]
  /\ clientId = [c \in Conns |-> 0]
  /\ active = [c \in Conns |-> FALSE]
  /\ threads = {}
  /\ opc = "idle" /\ opending = {}
  /\ apc = "off" /\ acur = NoConn
  /\ mpc = "off"
  /\ hpc = [c \in Conns |-> "none"]
  /\ bpc = [b \in Broadcasters |-> "idle"]
  /\ bpending = [b \in Broadcasters |-> {}]
  /\ btarget = [b \in Broadcasters |-> NoConn]
  /\ bsock = [b \in Broadcasters |-> Invalid]
  /\ dpc = "idle" /\ dtarget = NoConn

-----------------------------------------------------------------------------
(* The owner: start() and stop().                                          *)

\* start() with a socket that binds and listens; a failing one changes
\* nothing.
Start ==
  /\ opc = "idle" /\ ~running
  /\ running' = TRUE /\ listening' = TRUE
  /\ apc' = "check" /\ mpc' = "check"
  /\ opc' = "up"
  /\ UNCHANGED <<holder, info, registry, mutex, opending, acur, hpc, caster,
                 api>>

StopFlag ==
  /\ opc = "up" /\ running
  /\ running' = FALSE
  /\ opc' = "closing"
  /\ UNCHANGED <<notOwner, kernel, active, clients, threads, mutex, opending>>

\* Mutant: the listening socket stays open.
StopListeningOpen ==
  /\ opc = "closing"
  /\ opc' = "joinAccept"
  /\ UNCHANGED <<notOwner, kernel, running, active, clients, threads, mutex,
                 opending>>

StopListening ==
  /\ opc = "closing"
  /\ listening' = FALSE
  /\ opc' = "joinAccept"
  /\ UNCHANGED <<notOwner, running, holder, active, clients, threads, mutex,
                 opending>>

StopJoinAccept ==
  /\ opc = "joinAccept" /\ apc = "done"
  /\ opc' = "joinMonitor"
  /\ UNCHANGED <<notOwner, kernel, running, active, clients, threads, mutex,
                 opending>>

StopJoinMonitor ==
  /\ opc = "joinMonitor" /\ mpc = "done"
  /\ opc' = "lock"
  /\ UNCHANGED <<notOwner, kernel, running, active, clients, threads, mutex,
                 opending>>

StopLock ==
  /\ opc = "lock" /\ LockFree
  /\ mutex' = "owner"
  /\ opending' = Registered
  /\ opc' = "drop"
  /\ UNCHANGED <<notOwner, kernel, running, active, clients, threads>>

\* Mutant: the socket of a client the monitor marked is left to its handler.
StopDropActive(c) ==
  /\ opc = "drop" /\ c \in opending
  /\ active' = [active EXCEPT ![c] = FALSE]
  /\ IF active[c] THEN Close(socket[c]) ELSE UNCHANGED holder
  /\ opending' = opending \ {c}
  /\ UNCHANGED <<notOwner, running, listening, clients, threads, mutex, opc>>

\* One iteration of the loop under the lock: the socket is closed but the
\* record keeps its number.
StopDrop(c) ==
  /\ opc = "drop" /\ c \in opending
  /\ active' = [active EXCEPT ![c] = FALSE]
  /\ Close(socket[c])
  /\ opending' = opending \ {c}
  /\ UNCHANGED <<notOwner, running, listening, clients, threads, mutex, opc>>

StopClear ==
  /\ opc = "drop" /\ opending = {}
  /\ clients' = [i \in Ids |-> NoConn]
  /\ mutex' = "none"
  /\ opc' = "joinHandlers"
  /\ UNCHANGED <<notOwner, kernel, running, active, threads, opending>>

\* Mutant: the handlers are not joined.
StopDetachHandlers ==
  /\ opc = "joinHandlers"
  /\ threads' = {}
  /\ opc' = "idle"
  /\ UNCHANGED <<notOwner, kernel, running, active, clients, mutex, opending>>

StopJoinHandlers ==
  /\ opc = "joinHandlers" /\ \A c \in threads : hpc[c] = "done"
  /\ threads' = {}
  /\ opc' = "idle"
  /\ UNCHANGED <<notOwner, kernel, running, active, clients, mutex, opending>>

-----------------------------------------------------------------------------
(* The accept thread: acceptConnections().                                 *)

AcceptCheck ==
  /\ apc = "check"
  /\ apc' = IF running THEN "accept" ELSE "done"
  /\ UNCHANGED <<notAcceptor, info, registry, holder, acur, hpc>>

\* The call: an invalid listen_socket_ fails at once, a valid one blocks.
AcceptCall ==
  /\ apc = "accept"
  /\ apc' = IF listening THEN "blocked" ELSE "check"
  /\ UNCHANGED <<notAcceptor, info, registry, holder, acur, hpc>>

\* accept() fails: woken by the close of the listening socket, or no
\* descriptor is left.
AcceptFail ==
  /\ apc = "blocked"
  /\ \/ ~listening /\ CloseWakes
     \/ \A f \in Fds : holder[f] # NoConn
  /\ apc' = "check"
  /\ UNCHANGED <<notAcceptor, info, registry, holder, acur, hpc>>

\* accept() returns a descriptor; the ClientInfo is filled in.  A thread that
\* close() did not wake still gets the next connection.
AcceptReturn(c, f) ==
  /\ apc = "blocked" /\ (listening \/ ~CloseWakes)
  /\ hpc[c] = "none" /\ socket[c] = Invalid
  /\ holder[f] = NoConn
  /\ accepted < MaxAccepted
  /\ accepted' = accepted + 1
  /\ holder' = [holder EXCEPT ![f] = c]
  /\ socket' = [socket EXCEPT ![c] = f]
  /\ clientId' = [clientId EXCEPT ![c] = nextClientId]
  /\ nextClientId' = NextId(nextClientId)
  /\ active' = [active EXCEPT ![c] = TRUE]
  /\ apc' = "insert" /\ acur' = c
  /\ UNCHANGED <<notAcceptor, clients, threads, hpc>>

\* Mutant: the entry is made without the lock.
AcceptInsertUnlocked ==
  /\ apc = "insert"
  /\ clients' = [clients EXCEPT ![clientId[acur]] = acur]
  /\ apc' = "spawn"
  /\ UNCHANGED <<notAcceptor, info, holder, nextClientId, accepted, threads,
                 acur, hpc>>

AcceptInsert ==
  /\ apc = "insert" /\ LockFree
  /\ clients' = [clients EXCEPT ![clientId[acur]] = acur]
  /\ apc' = "spawn"
  /\ UNCHANGED <<notAcceptor, info, holder, nextClientId, accepted, threads,
                 acur, hpc>>

AcceptSpawn ==
  /\ apc = "spawn"
  /\ threads' = threads \cup {acur}
  /\ hpc' = [hpc EXCEPT ![acur] = "start"]
  /\ apc' = "check" /\ acur' = NoConn
  /\ UNCHANGED <<notAcceptor, info, holder, nextClientId, accepted, clients>>

-----------------------------------------------------------------------------
(* The monitor thread: heartbeatMonitor().                                 *)

\* The loop condition, then the sleep.
MonitorCheck ==
  /\ mpc = "check"
  /\ mpc' = IF running THEN "sweep" ELSE "done"
  /\ UNCHANGED <<running, kernel, info, registry, mutex, owner, acceptor, hpc,
                 caster, api>>

\* Mutant: the monitor closes the socket of a late client itself.
MonitorSweepCloses(late) ==
  /\ mpc = "sweep" /\ LockFree
  /\ late \subseteq Registered
  /\ active' = [c \in Conns |-> active[c] /\ c \notin late]
  /\ holder' = [f \in Fds |->
                 IF \E c \in late : socket[c] = f THEN NoConn ELSE holder[f]]
  /\ mpc' = "check"
  /\ UNCHANGED <<running, listening, socket, clientId, registry, mutex, owner,
                 acceptor, hpc, caster, api>>

\* Mutant: the monitor takes a late client out of the map itself.
MonitorSweepErases(late) ==
  /\ mpc = "sweep" /\ LockFree
  /\ late \subseteq Registered
  /\ clients' = [i \in Ids |-> IF clients[i] \in late THEN NoConn ELSE clients[i]]
  /\ mpc' = "check"
  /\ UNCHANGED <<running, kernel, info, nextClientId, accepted, threads, mutex,
                 owner, acceptor, hpc, caster, api>>

\* The sweep under the lock: some of the active clients are found late.
MonitorSweep(late) ==
  /\ mpc = "sweep" /\ LockFree
  /\ late \subseteq Registered
  /\ active' = [c \in Conns |-> active[c] /\ c \notin late]
  /\ mpc' = "check"
  /\ UNCHANGED <<running, kernel, socket, clientId, registry, mutex, owner,
                 acceptor, hpc, caster, api>>

-----------------------------------------------------------------------------
(* The handler threads: handleClient(), processHandshake().                *)

\* Moves the handler of c from one control point to another.
Goto(c, from, to) ==
  /\ hpc[c] = from
  /\ hpc' = [hpc EXCEPT ![c] = to]

\* The recv of the handshake request: fails on a closed descriptor, blocks
\* on an open one.
HandshakeRecv(c) ==
  /\ \/ /\ Refers(socket[c]) = NoConn
        /\ Goto(c, "start", "failClose")
        /\ active' = [active EXCEPT ![c] = FALSE]
     \/ /\ Refers(socket[c]) # NoConn
        /\ Goto(c, "start", "handshake")
        /\ UNCHANGED active
  /\ UNCHANGED <<notHandler, holder, socket, clientId, clients>>

\* The request arrives and is well formed: the response is sent.  On Linux a
\* recv that had started survives the close of its descriptor.
HandshakeDone(c) ==
  /\ Goto(c, "handshake", "send")
  /\ OwnOpen(c) \/ ~CloseWakes
  /\ UNCHANGED <<notHandler, info, holder, clients>>

\* processHandshake() returns false: the peer closed or sent something else,
\* or the socket was closed here and that woke the recv.
HandshakeFail(c) ==
  /\ Goto(c, "handshake", "failClose")
  /\ active' = [active EXCEPT ![c] = FALSE]
  /\ UNCHANGED <<notHandler, holder, socket, clientId, clients>>

\* A HEARTBEAT packet is answered, without clients_mutex_.
AckHeartbeat(c) ==
  /\ Goto(c, "loop", "send")
  /\ Refers(socket[c]) # NoConn
  /\ UNCHANGED <<notHandler, info, holder, clients>>

\* The handler's own sendPacket() returns: the response or the ACK is out, or
\* the socket failed; its result is not looked at.
HandlerSent(c) ==
  /\ Goto(c, "send", "loop")
  /\ UNCHANGED <<notHandler, info, holder, clients>>

\* Mutant: a failed handshake forgets to close.
FailKeepsOpen(c) ==
  /\ Goto(c, "failClose", "erase")
  /\ UNCHANGED <<notHandler, info, holder, clients>>

\* The failed handshake closes the socket and keeps its number.
FailClose(c) ==
  /\ Goto(c, "failClose", "erase")
  /\ Close(socket[c])
  /\ UNCHANGED <<notHandler, info, clients>>

\* A DISCONNECT packet, or the end of the stream inside a payload.
ClientLeaves(c) ==
  /\ hpc[c] = "loop" /\ active[c]
  /\ Refers(socket[c]) # NoConn
  /\ active' = [active EXCEPT ![c] = FALSE]
  /\ UNCHANGED <<notHandler, holder, socket, clientId, clients, hpc>>

\* Mutant: the loop condition forgets client->active.
LoopEndsOnStop(c) ==
  /\ Goto(c, "loop", "close")
  /\ ~running \/ Refers(socket[c]) = NoConn
  /\ UNCHANGED <<notHandler, info, holder, clients>>

\* The loop ends: its condition is false, or recv returned 0 or an error
\* (EBADF on a descriptor someone else closed).
LoopEnds(c) ==
  /\ Goto(c, "loop", "close")
  /\ UNCHANGED <<notHandler, info, holder, clients>>

CleanupClose(c) ==
  /\ Goto(c, "close", "invalidate")
  /\ Close(socket[c])
  /\ UNCHANGED <<notHandler, info, clients>>

CleanupInvalidate(c) ==
  /\ Goto(c, "invalidate", "erase")
  /\ socket' = [socket EXCEPT ![c] = Invalid]
  /\ active' = [active EXCEPT ![c] = FALSE]
  /\ UNCHANGED <<notHandler, holder, clientId, clients>>

\* Mutants of Erase: the lock is not taken; the entry is left.
EraseUnlocked(c) ==
  /\ Goto(c, "erase", "done")
  /\ clients' = [clients EXCEPT ![clientId[c]] = NoConn]
  /\ UNCHANGED <<notHandler, info, holder>>
EraseNothing(c) ==
  /\ Goto(c, "erase", "done")
  /\ LockFree
  /\ UNCHANGED <<notHandler, info, holder, clients>>

\* clients_.erase(client_id) under the lock; the thread returns.
Erase(c) ==
  /\ Goto(c, "erase", "done")
  /\ LockFree
  /\ clients' = [clients EXCEPT ![clientId[c]] = NoConn]
  /\ UNCHANGED <<notHandler, info, holder>>

-----------------------------------------------------------------------------
(* Broadcasters: broadcastVideoFrame(), broadcastAudioFrame().             *)

BroadcastCall(b) ==
  /\ bpc[b] = "idle" /\ running
  /\ bpc' = [bpc EXCEPT ![b] = "lock"]
  /\ UNCHANGED <<notCaster, mutex, bpending, btarget, bsock>>

BroadcastLock(b) ==
  /\ bpc[b] = "lock" /\ LockFree
  /\ mutex' = b
  /\ bpc' = [bpc EXCEPT ![b] = "iterate"]
  /\ bpending' = [bpending EXCEPT ![b] = Registered]
  /\ UNCHANGED <<notCaster, btarget, bsock>>

\* An inactive client, or one whose configuration turns this stream off.
BroadcastSkip(b, c) ==
  /\ bpc[b] = "iterate" /\ c \in bpending[b]
  /\ bpending' = [bpending EXCEPT ![b] = @ \ {c}]
  /\ UNCHANGED <<notCaster, mutex, bpc, btarget, bsock>>

\* sendPacket(socket, ...): from here on the descriptor is a local copy.
BroadcastSend(b, c) ==
  /\ bpc[b] = "iterate" /\ c \in bpending[b] /\ active[c]
  /\ bpc' = [bpc EXCEPT ![b] = "send"]
  /\ bpending' = [bpending EXCEPT ![b] = @ \ {c}]
  /\ btarget' = [btarget EXCEPT ![b] = c]
  /\ bsock' = [bsock EXCEPT ![b] = socket[c]]
  /\ UNCHANGED <<notCaster, mutex>>

\* sendPacket returns: all bytes accepted, or an error.
BroadcastSent(b) ==
  /\ bpc[b] = "send"
  /\ bpc' = [bpc EXCEPT ![b] = "iterate"]
  /\ btarget' = [btarget EXCEPT ![b] = NoConn]
  /\ bsock' = [bsock EXCEPT ![b] = Invalid]
  /\ UNCHANGED <<notCaster, mutex, bpending>>

BroadcastUnlock(b) ==
  /\ bpc[b] = "iterate" /\ bpending[b] = {}
  /\ mutex' = "none"
  /\ bpc' = [bpc EXCEPT ![b] = "idle"]
  /\ UNCHANGED <<notCaster, bpending, btarget, bsock>>

-----------------------------------------------------------------------------
(* disconnectClient().                                                     *)

\* The client is found; a record without a socket is left at once.
DisconnectLock(c) ==
  /\ DisconnectUsed
  /\ dpc = "idle" /\ LockFree /\ c \in Registered
  /\ active' = [active EXCEPT ![c] = FALSE]
  /\ IF socket[c] = Invalid
     THEN UNCHANGED <<mutex, dpc, dtarget>>
     ELSE mutex' = "api" /\ dpc' = "close" /\ dtarget' = c
  /\ UNCHANGED <<running, kernel, socket, clientId, registry, owner, acceptor,
                 mpc, hpc, caster>>

\* After the DISCONNECT packet: the socket is closed, its number is kept.
DisconnectClose ==
  /\ dpc = "close"
  /\ Close(socket[dtarget])
  /\ mutex' = "none"
  /\ dpc' = "idle" /\ dtarget' = NoConn
  /\ UNCHANGED <<running, listening, info, registry, owner, acceptor, mpc, hpc,
                 caster>>

-----------------------------------------------------------------------------
OwnerStep ==
  \/ Start \/ StopFlag \/ StopListening \/ StopJoinAccept \/ StopJoinMonitor
  \/ StopLock \/ (\E c \in Conns : StopDrop(c)) \/ StopClear
  \/ StopJoinHandlers

AcceptStep ==
  \/ AcceptCheck \/ AcceptCall \/ AcceptFail \/ AcceptInsert \/ AcceptSpawn
  \/ \E c \in Conns, f \in Fds : AcceptReturn(c, f)

MonitorStep ==
  \/ MonitorCheck
  \/ \E late \in SUBSET Conns : MonitorSweep(late)

HandlerStep(c) ==
  \/ HandshakeRecv(c) \/ HandshakeDone(c) \/ HandshakeFail(c) \/ FailClose(c)
  \/ AckHeartbeat(c) \/ HandlerSent(c)
  \/ ClientLeaves(c) \/ LoopEnds(c) \/ CleanupClose(c) \/ CleanupInvalidate(c)
  \/ Erase(c)

BroadcastStep(b) ==
  \/ BroadcastCall(b) \/ BroadcastLock(b) \/ BroadcastSent(b)
  \/ BroadcastUnlock(b)
  \/ \E c \in Conns : BroadcastSkip(b, c) \/ BroadcastSend(b, c)

ApiStep == DisconnectClose \/ \E c \in Conns : DisconnectLock(c)

Next ==
  \/ OwnerStep \/ AcceptStep \/ MonitorStep \/ ApiStep
  \/ \E c \in Conns : HandlerStep(c)
  \/ \E b \in Broadcasters : BroadcastStep(b)

Spec == Init /\ [][Next]_vars

-----------------------------------------------------------------------------
(* Fairness.  A thread that can run does run; one formula per thread, for  *)
(* its steps at different control points exclude each other.  A mutex is   *)
(* not fair, but broadcasters sleep between two frames, so that a waiting  *)
(* thread gets it in the end: strong fairness.  Nothing makes a peer send. *)

\* stop(), once called, is executed.
StopStep ==
  \/ StopListening \/ StopJoinAccept \/ StopJoinMonitor \/ StopLock
  \/ (\E c \in Conns : StopDrop(c)) \/ StopClear \/ StopJoinHandlers

\* accept() returns when the listening socket has been closed and wakes it.
AcceptProgress ==
  \/ AcceptCheck \/ AcceptCall \/ AcceptInsert \/ AcceptSpawn
  \/ ~listening /\ AcceptFail

\* The handler reads its loop condition in every iteration, and its recv fails
\* on a closed descriptor.
MustLeave(c) == ~running \/ ~active[c] \/ Refers(socket[c]) = NoConn

\* A blocked recv is woken by the close where close wakes; a send fails on a
\* closed descriptor.
HandlerProgress(c) ==
  \/ HandshakeRecv(c)
  \/ CloseWakes /\ ~OwnOpen(c) /\ HandshakeFail(c)
  \/ Refers(socket[c]) = NoConn /\ HandlerSent(c)
  \/ FailClose(c) \/ CleanupClose(c) \/ CleanupInvalidate(c) \/ Erase(c)

\* A broadcast that has been called goes on, but for a send that blocks.
BroadcastProgress(b) ==
  \/ BroadcastLock(b) \/ BroadcastUnlock(b)
  \/ \E c \in Conns : BroadcastSkip(b, c) \/ BroadcastSend(b, c)
  \/ Refers(bsock[b]) = NoConn /\ BroadcastSent(b)

\* Peers may stay silent, and may stop reading what is sent to them.
FairSpec ==
  /\ Spec
  /\ SF_vars(StopStep) /\ SF_vars(AcceptProgress) /\ SF_vars(MonitorStep)
  /\ WF_vars(DisconnectClose)
  /\ \A c \in Conns : SF_vars(HandlerProgress(c))
  /\ \A c \in Conns : SF_vars(MustLeave(c) /\ LoopEnds(c))
  /\ \A b \in Broadcasters : SF_vars(BroadcastProgress(b))

\* Peers may stay silent, but read what is sent to them.
ReadingSpec ==
  /\ FairSpec
  /\ \A c \in Conns : WF_vars(HandlerSent(c))
  /\ \A b \in Broadcasters : WF_vars(BroadcastSent(b))

-----------------------------------------------------------------------------
(* Properties.                                                             *)

HandlerStates == {"none", "start", "handshake", "send", "loop", "failClose",
                  "close", "invalidate", "erase", "done"}
OwnerStates == {"idle", "up", "closing", "joinAccept", "joinMonitor", "lock",
                "drop", "joinHandlers"}

FlagTypes == running \in BOOLEAN /\ listening \in BOOLEAN

DataTypes ==
  /\ nextClientId \in Ids
  /\ accepted \in 0 .. MaxAccepted
  /\ clients \in [Ids -> Conns \cup {NoConn}]
  /\ mutex \in Callers \cup {"none"}
  /\ holder \in [Fds -> Conns \cup {NoConn}]
  /\ socket \in [Conns -> Fds \cup {Invalid}]
  /\ clientId \in [Conns -> Ids]
  /\ active \in [Conns -> BOOLEAN]
  /\ threads \subseteq Conns
  /\ opc \in OwnerStates /\ opending \subseteq Conns
  /\ apc \in {"off", "check", "accept", "blocked", "insert", "spawn", "done"}
  /\ acur \in Conns \cup {NoConn}
  /\ apc \in {"insert", "spawn"} => acur \in Conns
  /\ mpc \in {"off", "check", "sweep", "done"}
  /\ hpc \in [Conns -> HandlerStates]
  /\ bpc \in [Broadcasters -> {"idle", "lock", "iterate", "send"}]
  /\ bpending \in [Broadcasters -> SUBSET Conns]
  /\ btarget \in [Broadcasters -> Conns \cup {NoConn}]
  /\ bsock \in [Broadcasters -> Fds \cup {Invalid}]
  /\ dpc \in {"idle", "close"} /\ dtarget \in Conns \cup {NoConn}

\* The type invariant: every variable of StreamServer stays in its type.
TypeOK == FlagTypes /\ DataTypes

\* A handler thread that has been started and has not returned.
Running(c) == hpc[c] \notin {"none", "done"}

\* The handler is in its handshake or in its packet loop.
Serving(c) == hpc[c] \in {"start", "handshake", "send", "loop"}

\* When stop() has returned (or start() was never called) nothing of the
\* server is left: no thread, no map entry, no accepted descriptor, although
\* the accept thread may have taken a connection while stop() was running.
StopLeavesNothing ==
  opc = "idle" =>
    /\ apc \in {"off", "done"} /\ mpc \in {"off", "done"}
    /\ \A c \in Conns : ~Running(c)
    /\ Registered = {}
    /\ \A f \in Fds : holder[f] = NoConn

\* c has been given a client id.
HasId(c) == hpc[c] # "none" \/ c = acur

\* The id of c was given to another connection too: next_client_id_ has wrapped.
SharesId(c) == \E d \in Conns \ {c} : HasId(d) /\ clientId[d] = clientId[c]

\* When stop() joins the handlers no accepted descriptor is open, whatever the
\* handlers, the monitor and the broadcasters were doing when it was called:
\* no connection was accepted too late for its loop, erased from the map
\* before its socket was closed, or left out because it was inactive.  What a
\* handler still does on its socket fails at once where close() wakes it.
\* Exempt are connections that share their id with another one: the insert of
\* the later may overwrite the entry of the earlier, or the erase of the earlier
\* take out the later, and stop() does not find what is not in the map.
StopClosesAll ==
  opc = "joinHandlers" =>
    \A f \in Fds : holder[f] # NoConn => SharesId(holder[f])

\* getClientCount() and the broadcasters never see a client whose handler has
\* returned: each handler's erase takes out its own entry and no later insert
\* puts it back.
MapHoldsNoDeadClient == \A c \in Registered : hpc[c] # "done"

\* A client that is being served is in clients_ under its own id, until
\* stop() clears the map: no insert, erase or sweep for another client takes
\* it out.  Exempt is a client that shares its id with another connection: no
\* code keeps the uint16_t ids of two live clients apart, and once the counter
\* has wrapped the insert of one overwrites the other.  What the wrap can do is
\* confined to the connections of the repeated id.
ServedIsRegistered ==
  \A c \in Conns : Serving(c) /\ opc # "joinHandlers" =>
    clients[clientId[c]] = c \/ SharesId(c)

\* A handler that has returned has given its descriptor back, whoever closed
\* it first.
NoDescriptorLeak ==
  \A c \in Conns : hpc[c] = "done" => \A f \in Fds : holder[f] # c

\* clients_ does not change under a thread that iterates over it: what a
\* broadcaster or stop() has still to visit is still in the map.
IterationStable ==
  /\ \A b \in Broadcasters : bpc[b] \in {"iterate", "send"} =>
       bpending[b] \subseteq Registered
  /\ opc = "drop" => opending \subseteq Registered

\* In a program that never calls disconnectClient(), a served client keeps
\* its descriptor until stop() closes sockets: no recv or send of a handler
\* reaches another connection.  (stop() itself may close a descriptor twice: a
\* failed handshake leaves the number of its closed socket in the record until
\* the erase, and the number may be another client's by then.)
ServedOwnsSocket ==
  ~DisconnectUsed /\ opc \notin {"drop", "joinHandlers"} =>
    \A c \in Conns : Serving(c) => OwnOpen(c)

\* stop() returns: the accept, the monitor and every handler thread end.  (As
\* long as no id repeats: stop() does not close a socket that is not in the map,
\* see StopClosesAll, and the handler of a silent client blocks on it.)
StopReturns == (opc = "closing") ~> (opc = "idle")

\* A client in its packet loop that the monitor or a DISCONNECT packet has
\* marked inactive is taken out and its thread ends.
InactiveClientLeaves ==
  \A c \in Conns : (hpc[c] = "loop" /\ ~active[c]) ~> (hpc[c] = "done")

\* "Broadcast frames to all clients" (StreamServer.h:35): the bytes sent for a
\* client reach its own connection or none.
FramesReachTheirClient ==
  \A b \in Broadcasters : bpc[b] = "send" =>
    Refers(bsock[b]) \in {btarget[b], NoConn}
=============================================================================

---------------------------- MODULE PacketStream ----------------------------
(***************************************************************************)
(* The packet protocol on one connection, seen from both ends: what        *)
(* StreamServer.cpp writes and StreamClient.cpp reads, and the reverse.    *)
(*                                                                         *)
(* A packet is a header of two units and a payload.  The first unit holds  *)
(* the magic number and the type, the second the payload size.  A send is  *)
(* accepted as far as the socket buffers have room, so that a packet may   *)
(* go out in several parts; frames are sent under clients_mutex_, the      *)
(* handshake response and the ACKs by the handler without it.  The client  *)
(* reads with MSG_WAITALL, the handler without.                            *)
(*                                                                         *)
(* What goes down to the client is a log of units, `down', of which the    *)
(* client has read the first `rpos'.  What goes up is sent by one thread   *)
(* of the client at a time, first the request and then heartbeats, so that *)
(* counting it tells what it is.                                           *)
(*                                                                         *)
(* The StreamClient class is the peer: it sends no CONFIG and no           *)
(* DISCONNECT.  The callbacks of the client return.                        *)
(***************************************************************************)
EXTENDS Naturals, Sequences, FiniteSets

CONSTANTS
  Broadcasters,   \* threads calling broadcastVideoFrame/broadcastAudioFrame
  Cap,            \* units that fit in the socket buffers
  RequestUnits, ResponseUnits, FrameUnits,   \* sizes of the payloads
  TornSizes,      \* payload sizes a header torn by other units may announce
  MaxFrames,      \* bound: broadcasts per broadcaster
  MaxBeats        \* bound: heartbeats

ASSUME CallerAssumption == Broadcasters \cap {"handler", "none", "owner"} = {}
ASSUME CapAssumption == Cap \in Nat \ {0}
ASSUME SizeAssumption ==
  /\ RequestUnits \in Nat \ {0} /\ ResponseUnits \in Nat \ {0}
  /\ FrameUnits \in Nat \ {0}
ASSUME TornAssumption == TornSizes \subseteq Nat
ASSUME BoundAssumption == MaxFrames \in Nat /\ MaxBeats \in Nat

VARIABLES
  down,    \* units sent to the client so far
  rpos,    \* of these, units the client has read
  rpart, rkind, need, got,  \* receivePacket(): the part it is at, the type in
           \* the header, the size of the payload, units of the part received
  cpc,     \* client: control
  upSent,  \* units the client has sent
  upRead,  \* of these, units the handler has read
  sopen,   \* the server's descriptor is open
  hpc,     \* handler: control
  bpc,     \* broadcasters: control
  mutex,   \* holder of clients_mutex_
  sent,    \* sendPacket(): units of the current packet that are out
  frames,  \* broadcasts called so far
  mixed,   \* history: a unit went out in the middle of another packet
  split    \* history: the loop of the handler received half a header

reader == <<rpos, rpart, rkind, need, got>>
client == <<reader, cpc, upSent>>
handler == <<hpc, upRead, split>>
caster == <<bpc, mutex, frames>>
vars == <<down, client, handler, caster, sopen, sent, mixed>>

Header == 2
Senders == Broadcasters \cup {"handler"}
RequestSize == Header + RequestUnits

Payload == [response |-> ResponseUnits, frame |-> FrameUnits, ack |-> 0]
Size(kind) == Header + Payload[kind]

\* The packet a sender is at.
Kind(s) ==
  IF s \in Broadcasters THEN "frame"
  ELSE IF hpc = "respond" THEN "response" ELSE "ack"

Sending(s) ==
  IF s \in Broadcasters THEN bpc[s] = "send" ELSE hpc \in {"respond", "ack"}

copen == cpc # "closed"
Unread == Len(down) - rpos
UpUnread == upSent - upRead

\* The heartbeats follow the request, two units each.
Aligned(i) == (i - RequestSize) % Header = 0

Init ==
  /\ down = <<>> /\ rpos = 0
  /\ rpart = "header" /\ rkind = "none" /\ need = 0 /\ got = 0
  /\ cpc = "request"
  /\ upSent = 0 /\ upRead = 0
  /\ sopen = TRUE
  /\ hpc = "handshake"
  /\ bpc = [b \in Broadcasters |-> "idle"]
  /\ mutex = "none"
  /\ sent = [s \in Senders |-> 0]
  /\ frames = [b \in Broadcasters |-> 0]
  /\ mixed = FALSE /\ split = FALSE

-----------------------------------------------------------------------------
(* StreamServer::sendPacket().                                             *)

\* What the current send() is asked to take: the rest of the header, then the
\* rest of the payload.
Remaining(s) ==
  IF sent[s] < Header THEN Header - sent[s] ELSE Size(Kind(s)) - sent[s]

\* What it takes; 0 is EWOULDBLOCK.
Taken(s) ==
  LET room == Cap - Unread
  IN  IF room < Remaining(s) THEN room ELSE Remaining(s)

\* sendPacket() returns to the caller: a broadcaster goes on to the next
\* client, the handler to its packet loop.
SendReturns(s) ==
  IF s \in Broadcasters
  THEN bpc' = [bpc EXCEPT ![s] = "unlock"] /\ UNCHANGED hpc
  ELSE hpc' = "loop" /\ UNCHANGED bpc

\* Mutant: a partial send is taken for a complete one.
AdvanceAll(s, n) == sent[s] + Remaining(s)

\* Mutant: total_sent = sent.
AdvanceForgets(s, n) == n

\* total_sent += sent.
Advance(s, n) == sent[s] + n

\* send() takes some units.
Transmit(s) ==
  /\ Sending(s) /\ sopen
  /\ Taken(s) > 0
  /\ LET n == Taken(s) IN
     /\ down' = [i \in 1 .. Len(down) + n |->
                  IF i <= Len(down) THEN down[i]
                  ELSE [by |-> s, kind |-> Kind(s), k |-> sent[s] + i - Len(down)]]
     /\ mixed' = (mixed \/ \E t \in Senders \ {s} : sent[t] > 0)
     /\ IF Advance(s, n) = Size(Kind(s))
        THEN sent' = [sent EXCEPT ![s] = 0] /\ SendReturns(s)
        ELSE sent' = [sent EXCEPT ![s] = Advance(s, n)] /\ UNCHANGED <<bpc, hpc>>
  /\ UNCHANGED <<client, upRead, split, mutex, frames, sopen>>

\* Mutant: an error is taken for EWOULDBLOCK.
SendRetries(s) ==
  /\ Sending(s)
  /\ ~sopen \/ ~copen
  /\ UNCHANGED vars

\* send() fails: the descriptor is closed, or the client has reset the
\* connection.
SendFails(s) ==
  /\ Sending(s)
  /\ ~sopen \/ ~copen
  /\ sent' = [sent EXCEPT ![s] = 0]
  /\ SendReturns(s)
  /\ UNCHANGED <<down, client, upRead, split, mutex, frames, sopen, mixed>>

-----------------------------------------------------------------------------
(* Broadcasters.                                                           *)

BroadcastCall(b) ==
  /\ bpc[b] = "idle" /\ frames[b] < MaxFrames
  /\ bpc' = [bpc EXCEPT ![b] = "lock"]
  /\ frames' = [frames EXCEPT ![b] = @ + 1]
  /\ UNCHANGED <<down, client, handler, mutex, sopen, sent, mixed>>

\* Mutant: the audio broadcast forgets the lock.
BroadcastUnlocked(b) ==
  /\ bpc[b] = "lock"
  /\ bpc' \in {[bpc EXCEPT ![b] = next] :
                 next \in IF hpc = "done" THEN {"unlock"} ELSE {"send", "unlock"}}
  /\ UNCHANGED <<down, client, handler, frames, sopen, sent, mutex, mixed>>

\* The client is in the map from before its handshake until its handler ends;
\* it is skipped when it is inactive.
BroadcastLock(b) ==
  /\ bpc[b] = "lock" /\ mutex = "none"
  /\ mutex' = b
  /\ bpc' \in {[bpc EXCEPT ![b] = next] :
                 next \in IF hpc = "done" THEN {"unlock"} ELSE {"send", "unlock"}}
  /\ UNCHANGED <<down, client, handler, frames, sopen, sent, mixed>>

BroadcastUnlock(b) ==
  /\ bpc[b] = "unlock"
  /\ mutex' = "none"
  /\ bpc' = [bpc EXCEPT ![b] = "idle"]
  /\ UNCHANGED <<down, client, handler, frames, sopen, sent, mixed>>

-----------------------------------------------------------------------------
(* The handler: processHandshake(), handleClient().                        *)

\* receivePacket() of the server: one recv() without MSG_WAITALL, so that a
\* header that comes in parts fails the handshake.
HandshakeHeader(n) ==
  /\ hpc = "handshake" /\ sopen
  /\ n <= UpUnread
  /\ upRead' = upRead + n
  /\ hpc' = IF n = Header THEN "payload" ELSE "closing"
  /\ UNCHANGED <<down, client, caster, split, sopen, sent, mixed>>

\* Mutant: what came of the payload is enough.
HandshakePayloadPart(n) ==
  /\ hpc = "payload" /\ sopen
  /\ n <= UpUnread
  /\ upRead' = upRead + n
  /\ hpc' = "respond"
  /\ UNCHANGED <<down, client, caster, split, sopen, sent, mixed>>

HandshakePayload(n) ==
  /\ hpc = "payload" /\ sopen
  /\ n <= UpUnread
  /\ upRead' = upRead + n
  /\ hpc' = IF n = RequestUnits THEN "respond" ELSE "closing"
  /\ UNCHANGED <<down, client, caster, split, sopen, sent, mixed>>

\* recv() returns 0 or an error.
HandshakeEnd ==
  /\ hpc \in {"handshake", "payload"}
  /\ ~sopen \/ (~copen /\ UpUnread = 0)
  /\ hpc' = "closing"
  /\ UNCHANGED <<down, client, caster, upRead, split, sopen, sent, mixed>>

\* Mutant: what recv() returned is not compared with the size of a header.
LoopPacketAny ==
  /\ hpc = "loop" /\ sopen
  /\ UpUnread > 0
  /\ upRead' = upRead + Header
  /\ hpc' = IF Aligned(upRead) THEN "ack" ELSE "loop"
  /\ UNCHANGED <<down, client, caster, split, sopen, sent, mixed>>

\* A whole header: a HEARTBEAT is answered, one without the magic is dropped.
LoopPacket ==
  /\ hpc = "loop" /\ sopen
  /\ Header <= UpUnread
  /\ upRead' = upRead + Header
  /\ hpc' = IF Aligned(upRead) THEN "ack" ELSE "loop"
  /\ UNCHANGED <<down, client, caster, split, sopen, sent, mixed>>

\* Half a header is dropped as well; an old errno decides whether the loop
\* goes on.
LoopHalf ==
  /\ hpc = "loop" /\ sopen
  /\ UpUnread > 0
  /\ upRead' = upRead + 1
  /\ split' = TRUE
  /\ hpc' \in {"loop", "closing"}
  /\ UNCHANGED <<down, client, caster, sopen, sent, mixed>>

\* The loop ends: recv() returns 0 or an error, the server stops, or the
\* monitor has marked the client.
LoopEnds ==
  /\ hpc = "loop"
  /\ hpc' = "closing"
  /\ UNCHANGED <<down, client, caster, upRead, split, sopen, sent, mixed>>

\* closesocket(), and the entry is erased under the lock.
Leave ==
  /\ hpc = "closing"
  /\ sopen' = FALSE
  /\ hpc' = "left"
  /\ UNCHANGED <<down, client, caster, upRead, split, sent, mixed>>

Erase ==
  /\ hpc = "left" /\ mutex = "none"
  /\ hpc' = "done"
  /\ UNCHANGED <<down, client, caster, upRead, split, sopen, sent, mixed>>

\* stop() closes the descriptor, under the lock.
StopDrop ==
  /\ sopen /\ mutex = "none"
  /\ sopen' = FALSE
  /\ UNCHANGED <<down, client, handler, caster, sent, mixed>>

-----------------------------------------------------------------------------
(* The client: sendHandshake(), receivePacket(), receiveLoop(),            *)
(* sendHeartbeat().                                                        *)

notClient == <<down, handler, caster, sopen, sent, mixed>>

Request ==
  /\ cpc = "request"
  /\ upSent' = upSent + Header
  /\ cpc' = "payload"
  /\ UNCHANGED <<notClient, reader>>

RequestPayload ==
  /\ cpc = "payload"
  /\ upSent' = upSent + RequestUnits
  /\ cpc' = "response"
  /\ UNCHANGED <<notClient, reader>>

RequestFails ==
  /\ cpc \in {"request", "payload"} /\ ~sopen
  /\ cpc' = "failed"
  /\ UNCHANGED <<notClient, reader, upSent>>

Reading == cpc \in {"response", "loop"}

\* receivePacket() returned false: connect() fails, or the receive loop ends.
\* Neither closes the socket.
GiveUp == cpc' = IF cpc = "response" THEN "failed" ELSE "lost"

\* receivePacket() returned true.  The receive loop goes on whatever it got;
\* sendHandshake() looks at the type, the size and a field of the payload.
Received(kind, size, whole) ==
  \/ cpc = "loop" /\ cpc' = "loop"
  \/ /\ cpc = "response"
     /\ kind = "response" /\ size = ResponseUnits
     /\ cpc' = "loop"
  \/ /\ cpc = "response"
     /\ kind # "response" \/ size # ResponseUnits \/ ~whole
     /\ cpc' = "failed"

\* A unit of a header that is not the last one.
ClientHeaderPart ==
  /\ Reading /\ rpart = "header" /\ Unread > 0
  /\ got + 1 < Header
  /\ rpos' = rpos + 1 /\ got' = got + 1
  /\ UNCHANGED <<notClient, cpc, upSent, rpart, rkind, need>>

\* The last unit of a header.  Without the magic number in front it is not
\* one; if the second unit is not of the packet of the first, it is torn.
ClientHeader ==
  /\ Reading /\ rpart = "header" /\ Unread > 0
  /\ got + 1 = Header
  /\ rpos' = rpos + 1 /\ got' = 0
  /\ LET first == down[rpos]  second == down[rpos + 1] IN
     \/ first.k # 1 /\ GiveUp /\ UNCHANGED <<rpart, rkind, need>>
     \/ /\ first.k = 1
        /\ rkind' = first.kind
        /\ need' \in IF second = [first EXCEPT !.k = 2]
                     THEN {Payload[first.kind]} ELSE TornSizes
        /\ IF need' = 0
           THEN rpart' = "header" /\ Received(first.kind, 0, TRUE)
           ELSE rpart' = "payload" /\ UNCHANGED cpc
  /\ UNCHANGED <<notClient, upSent>>

ClientPayloadPart ==
  /\ Reading /\ rpart = "payload" /\ Unread > 0
  /\ got + 1 < need
  /\ rpos' = rpos + 1 /\ got' = got + 1
  /\ UNCHANGED <<notClient, cpc, upSent, rpart, rkind, need>>

ClientPayload ==
  /\ Reading /\ rpart = "payload" /\ Unread > 0
  /\ got + 1 = need
  /\ rpos' = rpos + 1 /\ got' = 0
  /\ rpart' = "header"
  /\ Received(rkind, need,
              \A i \in rpos + 2 - need .. rpos + 1 : down[i].kind = rkind)
  /\ UNCHANGED <<notClient, upSent, rkind, need>>

\* Mutant: recv() without MSG_WAITALL.
ClientShort ==
  /\ Reading /\ Unread = 0
  /\ ~sopen \/ got > 0
  /\ GiveUp
  /\ UNCHANGED <<notClient, reader, upSent>>

\* recv() is short: the server has closed and everything has been read, or
\* it closed with something unread and the reset overtook what was sent.
ClientEnd ==
  /\ Reading /\ ~sopen
  /\ Unread = 0 \/ UpUnread > 0
  /\ GiveUp
  /\ UNCHANGED <<notClient, reader, upSent>>

Beat ==
  /\ cpc = "loop"
  /\ upSent < RequestSize + Header * MaxBeats
  /\ upSent' = upSent + Header
  /\ UNCHANGED <<notClient, reader, cpc>>

\* The send of a heartbeat fails: connected_ is cleared and the receive loop
\* ends when its recv() returns.
BeatFails ==
  /\ cpc = "loop" /\ ~sopen
  /\ cpc' = "lost"
  /\ UNCHANGED <<notClient, reader, upSent>>

\* disconnect() of a connected client, or the end of the process.
ClientCloses ==
  /\ copen
  /\ cpc' = "closed"
  /\ UNCHANGED <<notClient, reader, upSent>>

-----------------------------------------------------------------------------
SendStep(s) == Transmit(s) \/ SendFails(s)

BroadcastStep(b) == BroadcastCall(b) \/ BroadcastLock(b) \/ BroadcastUnlock(b)

HandlerStep ==
  \/ \E n \in 1 .. Header : HandshakeHeader(n)
  \/ \E n \in 1 .. RequestUnits : HandshakePayload(n)
  \/ HandshakeEnd \/ LoopPacket \/ LoopHalf \/ LoopEnds \/ Leave \/ Erase

ReadStep ==
  \/ ClientHeaderPart \/ ClientHeader \/ ClientPayloadPart \/ ClientPayload
  \/ ClientEnd

ClientStep ==
  Request \/ RequestPayload \/ RequestFails \/ ReadStep \/ Beat \/ BeatFails

Next ==
  \/ \E s \in Senders : SendStep(s)
  \/ \E b \in Broadcasters : BroadcastStep(b)
  \/ HandlerStep \/ StopDrop \/ ClientStep \/ ClientCloses

Spec == Init /\ [][Next]_vars

\* A client that reads goes on reading, and sendPacket() retries.  Nothing
\* obliges a client to close or a handler to leave.
FairSpec ==
  /\ Spec
  /\ WF_vars(ReadStep) /\ WF_vars(Request) /\ WF_vars(RequestPayload)
  /\ \A s \in Senders : WF_vars(SendStep(s))
  /\ \A b \in Broadcasters :
       SF_vars(BroadcastLock(b)) /\ WF_vars(BroadcastUnlock(b))

-----------------------------------------------------------------------------
(* Properties.                                                             *)

Units == [by : Senders, kind : {"response", "frame", "ack"}, k : Nat]

\* The type invariant: neither end reads more than the other has sent, and
\* sendPacket() and receivePacket() keep their counts.
TypeOK ==
  /\ down \in Seq(Units) /\ rpos \in 0 .. Len(down)
  /\ rpart \in {"header", "payload"}
  /\ rkind \in {"none", "response", "frame", "ack"}
  /\ need \in Nat /\ got \in Nat
  /\ cpc \in {"request", "payload", "response", "loop", "failed", "lost",
              "closed"}
  /\ upSent \in Nat /\ upRead \in 0 .. upSent
  /\ sopen \in BOOLEAN
  /\ hpc \in {"handshake", "payload", "respond", "loop", "ack", "closing",
              "left", "done"}
  /\ bpc \in [Broadcasters -> {"idle", "lock", "send", "unlock"}]
  /\ mutex \in Broadcasters \cup {"none"}
  /\ sent \in [Senders -> Nat]
  /\ frames \in [Broadcasters -> 0 .. MaxFrames]
  /\ mixed \in BOOLEAN /\ split \in BOOLEAN

\* v is the unit that sendPacket() sends after u.
Follows(u, v) ==
  \/ u.k < Size(u.kind) /\ v = [u EXCEPT !.k = u.k + 1]
  \/ u.k = Size(u.kind) /\ v.k = 1

FromBroadcast(i) == down[i].by \in Broadcasters

\* Video and audio never tear each other's frames: leaving out what the
\* handler sent, the frames stand one after the other on the connection while
\* it is open, although a frame may take many partial sends.
BroadcastsWhole ==
  sopen /\ copen =>
    \A i, j \in 1 .. Len(down) :
      (/\ i < j /\ FromBroadcast(i) /\ FromBroadcast(j)
       /\ \A m \in i + 1 .. j - 1 : ~FromBroadcast(m))
        => Follows(down[i], down[j])

\* A connected client loses its connection, while the server keeps its end
\* open, only when one packet was sent in the middle of another.
LostOnlyByOverlap == cpc = "lost" /\ sopen => mixed

\* connect() fails, while the server keeps its end open, only when a frame
\* came before the end of the handshake response.
FailedOnlyByFrame ==
  cpc = "failed" /\ sopen => \E i \in 1 .. rpos : FromBroadcast(i)

AckHeaders == {i \in 1 .. Len(down) : down[i].kind = "ack" /\ down[i].k = 1}

\* Every heartbeat the handler has read is answered once, as long as no
\* header came in two parts.
BeatsAnswered ==
  hpc = "loop" /\ sopen /\ copen /\ ~split =>
    upRead = RequestSize + Header * Cardinality(AckHeaders)

\* The client has stopped reading and has not closed its socket.
Deaf == cpc \in {"failed", "lost"}

\* A broadcast returns, however slowly the client reads, unless the client has
\* stopped reading without closing its socket: then sendPacket() retries with
\* clients_mutex_ held.
BroadcastReturns ==
  \A b \in Broadcasters : bpc[b] # "idle" ~> (bpc[b] = "idle" \/ Deaf)

-----------------------------------------------------------------------------
(* PacketStream implements PacketChannel.                                  *)

\* A packet is posted when its first unit is out, and taken when its header
\* has been read.  The channel breaks when a packet is sent inside another, or
\* when the client closes.
brokenMap == mixed \/ ~copen

Packet(kind) == [kind |-> kind, size |-> Payload[kind]]

postedMap ==
  IF brokenMap THEN {}
  ELSE {[at |-> i, packet |-> Packet(down[i].kind)] :
          i \in {j \in 1 .. Len(down) : down[j].k = 1}}

\* Where the last header began: before the part of the payload that has been
\* read, or a whole packet before the header the reader is in.
atMap ==
  IF brokenMap \/ rkind = "none" THEN 0
  ELSE IF rpart = "payload" THEN rpos - got - 1
  ELSE rpos - got - Size(rkind) + 1

Nobody == [kind |-> "none", size |-> 0]
lastMap == IF brokenMap THEN Nobody ELSE [kind |-> rkind, size |-> need]

Channel == INSTANCE PacketChannel
             WITH Packets <- {Packet(kind) : kind \in DOMAIN Payload},
                  Nothing <- Nobody, posted <- postedMap, at <- atMap,
                  last <- lastMap, broken <- brokenMap

\* As long as no packet is sent in the middle of another, the client reads the
\* packets one by one in the order they were begun, each with the type and the
\* size it was sent with, however sends and receives are split, and also those
\* that are still on the way when the server has closed.
ImplementsChannel == Channel!Spec
=============================================================================

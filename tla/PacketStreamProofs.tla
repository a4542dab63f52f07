------------------------ MODULE PacketStreamProofs -------------------------
(***************************************************************************)
(* Proofs about PacketStream: the type invariant, the four safety          *)
(* properties of the stream and the refinement of PacketChannel, for any   *)
(* number of broadcasters, any sizes of the payloads and of the buffers,   *)
(* and any number of packets.                                              *)
(*                                                                         *)
(* Basic says what every sender keeps to itself: how far it is in its      *)
(* packet, and who holds clients_mutex_.  On top of it each property has   *)
(* an invariant about the end of the log, where the next unit is put:      *)
(* CasterInv for the frames, WholeInv for a stream without overlap and     *)
(* the reader's place in it, ShakeInv for what comes before the first      *)
(* frame, BeatInv for the ACKs, ChannelInv for the packets as the reader   *)
(* takes them.                                                             *)
(***************************************************************************)
EXTENDS PacketStream, FiniteSetTheorems, TLAPS

USE CallerAssumption, CapAssumption, SizeAssumption, TornAssumption,
    BoundAssumption DEF Header

-----------------------------------------------------------------------------
(* Packets.                                                                *)

Kinds == {"response", "frame", "ack"}

LEMMA SizeFacts ==
  /\ Payload["response"] = ResponseUnits
  /\ Payload["frame"] = FrameUnits
  /\ Payload["ack"] = 0
  /\ \A kind \in Kinds : Payload[kind] \in Nat /\ Size(kind) \in Nat
  /\ \A kind \in Kinds : Size(kind) = 2 + Payload[kind] /\ Size(kind) >= 2
BY DEF Payload, Size, Kinds

\* The next unit of a packet that is not complete.
LEMMA NextOf ==
  ASSUME NEW s, NEW kind, NEW k, k < Size(kind)
  PROVE  Follows([by |-> s, kind |-> kind, k |-> k],
                 [by |-> s, kind |-> kind, k |-> k + 1])
BY DEF Follows

LEMMA KindFacts ==
  /\ "handler" \in Senders /\ Broadcasters \subseteq Senders
  /\ "handler" \notin Broadcasters
  /\ \A s \in Senders : s \in Broadcasters \/ s = "handler"
  /\ \A s \in Senders : Kind(s) \in Kinds
  /\ \A b \in Broadcasters : Kind(b) = "frame"
BY DEF Senders, Kind, Kinds

-----------------------------------------------------------------------------
(* What each sender keeps.                                                 *)

\* A sender is in the middle of its packet, or has none.
SentInv ==
  \A s \in Senders :
    IF Sending(s) THEN sent[s] < Size(Kind(s)) ELSE sent[s] = 0

\* A broadcaster sends with the lock held.
LockInv == \A b \in Broadcasters : bpc[b] \in {"send", "unlock"} => mutex = b

Basic == TypeOK /\ SentInv /\ LockInv /\ got <= rpos

\* One send(): the units it adds, and what is left of the packet.
LEMMA TransmitFacts ==
  ASSUME Basic, NEW s \in Senders, Transmit(s)
  PROVE  \E n \in Nat \ {0} :
           /\ sent[s] + n <= Size(Kind(s))
           /\ Len(down') = Len(down) + n
           /\ down' \in Seq(Units)
           /\ \A i \in 1 .. Len(down) : down'[i] = down[i]
           /\ \A i \in Len(down) + 1 .. Len(down) + n :
                down'[i] = [by |-> s, kind |-> Kind(s),
                            k |-> sent[s] + i - Len(down)]
           /\ sent' = [sent EXCEPT ![s] =
                         IF sent[s] + n = Size(Kind(s)) THEN 0 ELSE sent[s] + n]
<1> DEFINE n == Taken(s)
<1>1. /\ Kind(s) \in Kinds /\ Size(Kind(s)) \in Nat /\ Size(Kind(s)) >= 2
      /\ sent[s] \in Nat /\ sent[s] < Size(Kind(s))
      /\ Len(down) \in Nat /\ rpos \in Nat /\ rpos <= Len(down)
      /\ Unread \in Nat
  BY KindFacts, SizeFacts DEF Basic, TypeOK, SentInv, Transmit, Unread
<1>2. Remaining(s) \in Nat \ {0} /\ sent[s] + Remaining(s) <= Size(Kind(s))
  BY <1>1 DEF Remaining
<1>3. n \in Nat \ {0} /\ n <= Remaining(s)
  BY <1>1, <1>2 DEF Taken, Transmit
<1>4. down' = [i \in 1 .. Len(down) + n |->
                IF i <= Len(down) THEN down[i]
                ELSE [by |-> s, kind |-> Kind(s), k |-> sent[s] + i - Len(down)]]
  BY DEF Transmit
<1> HIDE DEF n
<1>5. \A i \in 1 .. Len(down) + n : down'[i] \in Units
  <2> SUFFICES ASSUME NEW i \in 1 .. Len(down) + n PROVE down'[i] \in Units
    OBVIOUS
  <2>1. CASE i <= Len(down)
    <3>1. down \in Seq(Units) /\ i \in 1 .. Len(down)
      BY <1>1, <2>1 DEF Basic, TypeOK
    <3> QED BY <1>3, <1>4, <2>1, <3>1
  <2>2. CASE i > Len(down)
    <3>1. down'[i] = [by |-> s, kind |-> Kind(s), k |-> sent[s] + i - Len(down)]
      BY <1>1, <1>3, <1>4, <2>2
    <3>2. sent[s] + i - Len(down) \in Nat
      BY <1>1, <1>3, <2>2
    <3> QED BY <1>1, <3>1, <3>2 DEF Units, Kinds
  <2> QED BY <1>1, <2>1, <2>2
<1>6. down' \in Seq(Units) /\ Len(down') = Len(down) + n
  BY <1>1, <1>3, <1>4, <1>5
<1>7. sent' = [sent EXCEPT ![s] =
                 IF sent[s] + n = Size(Kind(s)) THEN 0 ELSE sent[s] + n]
  BY DEF Transmit, Advance, n
<1>8. sent[s] + n <= Size(Kind(s))
  BY <1>1, <1>2, <1>3
<1>9. \A i \in Len(down) + 1 .. Len(down) + n :
        down'[i] = [by |-> s, kind |-> Kind(s), k |-> sent[s] + i - Len(down)]
  BY <1>1, <1>3, <1>4
<1>10. \A i \in 1 .. Len(down) : down'[i] = down[i]
  BY <1>1, <1>3, <1>4
<1> QED BY <1>3, <1>6, <1>7, <1>8, <1>9, <1>10

\* ... unless the packet is complete, the sender stays where it is.
LEMMA TransmitReturns ==
  ASSUME Basic, NEW s \in Senders, Transmit(s)
  PROVE  IF sent'[s] = 0 THEN SendReturns(s) ELSE UNCHANGED <<bpc, hpc>>
<1>1. /\ sent[s] \in Nat /\ Taken(s) > 0 /\ Taken(s) \in Int
      /\ Size(Kind(s)) \in Nat
  <2>1. Kind(s) \in Kinds /\ Size(Kind(s)) \in Nat
    BY KindFacts, SizeFacts
  <2>2. sent[s] \in Nat /\ Len(down) \in Nat /\ rpos \in Nat
    BY DEF Basic, TypeOK
  <2> QED BY <2>1, <2>2 DEF Transmit, Taken, Unread, Remaining
<1>2. CASE sent[s] + Taken(s) = Size(Kind(s))
  BY <1>1, <1>2 DEF Transmit, Advance, Basic, TypeOK
<1>3. CASE sent[s] + Taken(s) # Size(Kind(s))
  <2>1. sent'[s] = sent[s] + Taken(s) /\ UNCHANGED <<bpc, hpc>>
    BY <1>1, <1>3 DEF Transmit, Advance, Basic, TypeOK
  <2> QED BY <1>1, <2>1
<1> QED BY <1>2, <1>3

\* sendPacket() returns: its sender has no packet, the others are where they
\* were.
LEMMA ReturnFacts ==
  ASSUME TypeOK, NEW s \in Senders, SendReturns(s), Sending(s)
  PROVE  /\ ~Sending(s)'
         /\ \A t \in Senders \ {s} : Sending(t)' = Sending(t) /\ Kind(t)' = Kind(t)
         /\ bpc' \in [Broadcasters -> {"idle", "lock", "send", "unlock"}]
         /\ hpc' \in {"handshake", "payload", "respond", "loop", "ack",
                      "closing", "left", "done"}
         /\ \A b \in Broadcasters :
              bpc'[b] \in {"send", "unlock"} => bpc[b] \in {"send", "unlock"}
<1>1. CASE s \in Broadcasters
  BY <1>1, KindFacts DEF TypeOK, SendReturns, Sending, Kind
<1>2. CASE s = "handler"
  BY <1>2, KindFacts DEF TypeOK, SendReturns, Sending, Kind
<1> QED BY <1>1, <1>2, KindFacts

\* A step that leaves the senders alone keeps what they keep.
LEMMA SendersKeep ==
  ASSUME Basic, UNCHANGED <<sent, bpc, mutex>>,
         hpc' = hpc \/ (hpc \notin {"respond", "ack"} /\ sent["handler"] = 0)
  PROVE  SentInv' /\ LockInv'
<1>1. ASSUME NEW s \in Broadcasters
      PROVE  IF Sending(s)' THEN sent'[s] < Size(Kind(s)') ELSE sent'[s] = 0
  <2>1. /\ Sending(s)' = Sending(s) /\ Kind(s)' = Kind(s)
    BY DEF Sending, Kind
  <2> QED BY <2>1, KindFacts DEF Basic, SentInv
<1>2. IF Sending("handler")' THEN sent'["handler"] < Size(Kind("handler")')
      ELSE sent'["handler"] = 0
  <2>1. CASE hpc' = hpc
    <3>1. Sending("handler")' = Sending("handler")
          /\ Kind("handler")' = Kind("handler")
      BY <2>1, KindFacts DEF Sending, Kind
    <3> QED BY <3>1, KindFacts DEF Basic, SentInv
  <2>2. CASE sent["handler"] = 0
    <3>1. Kind("handler")' \in Kinds
      BY KindFacts DEF Kind, Kinds
    <3>2. Size(Kind("handler")') >= 2 /\ Size(Kind("handler")') \in Nat
      BY <3>1, SizeFacts
    <3> QED BY <2>2, <3>2
  <2> QED BY <2>1, <2>2
<1>3. SentInv'
  BY <1>1, <1>2, KindFacts DEF SentInv, Kind, Sending, Size, Payload
<1> QED BY <1>3 DEF Basic, LockInv

LEMMA BasicInit == Init => Basic
<1> SUFFICES ASSUME Init PROVE Basic
  OBVIOUS
<1>1. TypeOK
  <2>1. down \in Seq(Units) /\ rpos \in 0 .. Len(down)
    BY DEF Init
  <2>2. /\ bpc \in [Broadcasters -> {"idle", "lock", "send", "unlock"}]
        /\ sent \in [Senders -> Nat] /\ frames \in [Broadcasters -> 0 .. MaxFrames]
    BY DEF Init
  <2> QED BY <2>1, <2>2 DEF Init, TypeOK
<1>2. SentInv
  BY KindFacts DEF Init, SentInv, Sending
<1>3. LockInv
  BY DEF Init, LockInv
<1> QED BY <1>1, <1>2, <1>3 DEF Basic, Init

LEMMA BasicTransmit ==
  ASSUME Basic, NEW s \in Senders, Transmit(s)
  PROVE  Basic'
<1> USE DEF Basic
<1>1. PICK n \in Nat \ {0} :
        /\ sent[s] + n <= Size(Kind(s))
        /\ Len(down') = Len(down) + n
        /\ down' \in Seq(Units)
        /\ sent' = [sent EXCEPT ![s] =
                      IF sent[s] + n = Size(Kind(s)) THEN 0 ELSE sent[s] + n]
  BY TransmitFacts
<1>2. /\ Sending(s) /\ Kind(s) \in Kinds /\ Size(Kind(s)) \in Nat
      /\ sent[s] \in Nat /\ Len(down) \in Nat
  BY KindFacts, SizeFacts DEF Transmit, TypeOK
<1>3. sent' \in [Senders -> Nat]
  BY <1>1, <1>2 DEF TypeOK
<1>4. IF sent[s] + n = Size(Kind(s)) THEN SendReturns(s)
      ELSE UNCHANGED <<bpc, hpc>>
  BY <1>1, <1>2, TransmitReturns DEF TypeOK
<1>5. /\ bpc' \in [Broadcasters -> {"idle", "lock", "send", "unlock"}]
      /\ hpc' \in {"handshake", "payload", "respond", "loop", "ack", "closing",
                   "left", "done"}
  BY <1>2, <1>4, ReturnFacts DEF TypeOK
<1>6. /\ mixed' \in BOOLEAN /\ rpos' \in 0 .. Len(down')
      /\ UNCHANGED <<rpos, rpart, rkind, need, got, cpc, upSent, upRead, split,
                     mutex, frames, sopen>>
  <2>1. UNCHANGED <<rpos, rpart, rkind, need, got, cpc, upSent, upRead, split,
                    mutex, frames, sopen>>
    BY DEF Transmit, client, reader
  <2>2. rpos' \in 0 .. Len(down')
    BY <1>1, <1>2, <2>1 DEF TypeOK
  <2>3. mixed' \in BOOLEAN
    BY DEF Transmit
  <2> QED BY <2>1, <2>2, <2>3
<1>7. TypeOK'
  BY <1>1, <1>3, <1>5, <1>6 DEF TypeOK
<1>8. SentInv'
  <2>1. CASE sent[s] + n = Size(Kind(s))
    <3>1. /\ ~Sending(s)'
          /\ \A t \in Senders \ {s} : /\ Sending(t)' = Sending(t)
                                      /\ Kind(t)' = Kind(t)
      BY <1>2, <1>4, <2>1, ReturnFacts
    <3>2. sent'[s] = 0 /\ \A t \in Senders \ {s} : sent'[t] = sent[t]
      BY <1>1, <1>2, <2>1 DEF TypeOK
    <3>3. ASSUME NEW t \in Senders
          PROVE  IF Sending(t)' THEN sent'[t] < Size(Kind(t)') ELSE sent'[t] = 0
      BY <3>1, <3>2 DEF SentInv
    <3> QED BY <3>3 DEF SentInv, Kind, Sending, Size, Payload
  <2>2. CASE sent[s] + n # Size(Kind(s))
    <3>1. \A t \in Senders : Sending(t)' = Sending(t) /\ Kind(t)' = Kind(t)
      BY <1>4, <2>2 DEF Sending, Kind
    <3>2. /\ sent'[s] = sent[s] + n
          /\ \A t \in Senders \ {s} : sent'[t] = sent[t]
      BY <1>1, <1>2, <2>2 DEF TypeOK
    <3>3. ASSUME NEW t \in Senders
          PROVE  IF Sending(t)' THEN sent'[t] < Size(Kind(t)') ELSE sent'[t] = 0
      <4>1. CASE t = s
        BY <1>1, <1>2, <2>2, <3>1, <3>2, <4>1
      <4>2. CASE t # s
        BY <3>1, <3>2, <4>2 DEF SentInv
      <4> QED BY <4>1, <4>2
    <3> QED BY <3>3 DEF SentInv, Kind, Sending, Size, Payload
  <2> QED BY <2>1, <2>2
<1>9. LockInv'
  <2>1. \A b \in Broadcasters :
          bpc'[b] \in {"send", "unlock"} => bpc[b] \in {"send", "unlock"}
    BY <1>2, <1>4, ReturnFacts
  <2> QED BY <1>6, <2>1 DEF LockInv
<1> QED BY <1>6, <1>7, <1>8, <1>9

LEMMA BasicSendFails ==
  ASSUME Basic, NEW s \in Senders, SendFails(s)
  PROVE  Basic'
<1> USE DEF Basic
<1>1. Sending(s) /\ SendReturns(s)
  BY DEF SendFails
<1>2. sent' = [sent EXCEPT ![s] = 0]
  BY DEF SendFails
<1>3. /\ ~Sending(s)'
      /\ \A t \in Senders \ {s} : Sending(t)' = Sending(t) /\ Kind(t)' = Kind(t)
      /\ bpc' \in [Broadcasters -> {"idle", "lock", "send", "unlock"}]
      /\ hpc' \in {"handshake", "payload", "respond", "loop", "ack", "closing",
                   "left", "done"}
      /\ \A b \in Broadcasters :
           bpc'[b] \in {"send", "unlock"} => bpc[b] \in {"send", "unlock"}
  BY <1>1, ReturnFacts
<1>4. UNCHANGED <<down, rpos, rpart, rkind, need, got, cpc, upSent, upRead,
                  split, mutex, frames, sopen, mixed>>
  BY DEF SendFails, client, reader
<1>5. sent' \in [Senders -> Nat]
  BY <1>2 DEF TypeOK
<1>6. TypeOK'
  BY <1>3, <1>4, <1>5 DEF TypeOK
<1>7. ASSUME NEW t \in Senders
      PROVE  IF Sending(t)' THEN sent'[t] < Size(Kind(t)') ELSE sent'[t] = 0
  BY <1>2, <1>3 DEF SentInv, TypeOK
<1>8. SentInv'
  BY <1>7 DEF SentInv, Kind, Sending, Size, Payload
<1>9. LockInv'
  BY <1>3, <1>4 DEF LockInv
<1> QED BY <1>4, <1>6, <1>8, <1>9

LEMMA BasicBroadcast ==
  ASSUME Basic, NEW b \in Broadcasters, BroadcastStep(b)
  PROVE  Basic'
<1> USE DEF Basic
<1>1. UNCHANGED <<down, rpos, rpart, rkind, need, got, cpc, upSent, hpc, upRead,
                  split, sopen, sent, mixed>>
  BY DEF BroadcastStep, BroadcastCall, BroadcastLock, BroadcastUnlock, client,
     reader, handler
<1>2. /\ bpc' \in [Broadcasters -> {"idle", "lock", "send", "unlock"}]
      /\ bpc[b] # "send"
      /\ \A c \in Broadcasters \ {b} : bpc'[c] = bpc[c]
      /\ mutex' \in Broadcasters \cup {"none"}
      /\ frames' \in [Broadcasters -> 0 .. MaxFrames]
  <2>1. CASE BroadcastCall(b)
    BY <2>1 DEF BroadcastCall, TypeOK
  <2>2. CASE BroadcastLock(b)
    BY <2>2 DEF BroadcastLock, TypeOK
  <2>3. CASE BroadcastUnlock(b)
    BY <2>3 DEF BroadcastUnlock, TypeOK
  <2> QED BY <2>1, <2>2, <2>3 DEF BroadcastStep
<1>3. TypeOK'
  BY <1>1, <1>2 DEF TypeOK
<1>4. ASSUME NEW s \in Senders
      PROVE  IF Sending(s)' THEN sent'[s] < Size(Kind(s)') ELSE sent'[s] = 0
  <2>1. Kind(s)' = Kind(s)
    BY <1>1 DEF Kind
  <2>2. CASE s = b
    <3>1. sent'[b] = 0 /\ Size(Kind(b)) >= 2
      BY <1>1, <1>2, KindFacts, SizeFacts DEF SentInv, Sending
    <3>2. Size(Kind(b)) \in Nat
      BY KindFacts, SizeFacts
    <3> QED BY <2>1, <2>2, <3>1, <3>2
  <2>3. CASE s # b
    <3>1. Sending(s)' = Sending(s)
      BY <1>1, <1>2, <2>3, KindFacts DEF Sending
    <3> QED BY <1>1, <2>1, <3>1 DEF SentInv
  <2> QED BY <2>2, <2>3
<1>5. SentInv'
  BY <1>4 DEF SentInv, Kind, Sending, Size, Payload
<1>6. LockInv'
  <2>1. CASE BroadcastCall(b)
    BY <2>1 DEF BroadcastCall, LockInv, TypeOK
  <2>2. CASE BroadcastLock(b)
    BY <2>2 DEF BroadcastLock, LockInv, TypeOK
  <2>3. CASE BroadcastUnlock(b)
    BY <2>3 DEF BroadcastUnlock, LockInv, TypeOK
  <2> QED BY <2>1, <2>2, <2>3 DEF BroadcastStep
<1> QED BY <1>1, <1>3, <1>5, <1>6

LEMMA BasicHandler ==
  ASSUME Basic, HandlerStep \/ StopDrop
  PROVE  Basic'
<1> USE DEF Basic
<1>1. UNCHANGED <<down, rpos, rpart, rkind, need, got, cpc, upSent, bpc, mutex,
                  frames, sent, mixed>>
  BY DEF HandlerStep, HandshakeHeader, HandshakePayload, HandshakeEnd,
     LoopPacket, LoopHalf, LoopEnds, Leave, Erase, StopDrop, client, reader,
     caster
<1> DEFINE Typed ==
      /\ upRead' \in 0 .. upSent /\ split' \in BOOLEAN /\ sopen' \in BOOLEAN
      /\ hpc' \in {"handshake", "payload", "respond", "loop", "ack", "closing",
                   "left", "done"}
      /\ hpc' = hpc \/ hpc \notin {"respond", "ack"}
<1>2. Typed
  <2> USE DEF TypeOK, UpUnread, handler
  <2>1. ASSUME NEW n \in 1 .. Header, HandshakeHeader(n)
        PROVE  Typed
    BY <2>1 DEF HandshakeHeader
  <2>2. ASSUME NEW n \in 1 .. RequestUnits, HandshakePayload(n)
        PROVE  Typed
    BY <2>2 DEF HandshakePayload
  <2>3. CASE HandshakeEnd
    BY <2>3 DEF HandshakeEnd
  <2>4. CASE LoopPacket
    BY <2>4 DEF LoopPacket
  <2>5. CASE LoopHalf
    BY <2>5 DEF LoopHalf
  <2>6. CASE LoopEnds \/ Leave \/ Erase
    BY <2>6 DEF LoopEnds, Leave, Erase
  <2>7. CASE StopDrop
    BY <2>7 DEF StopDrop
  <2> QED
    BY <2>1, <2>2, <2>3, <2>4, <2>5, <2>6, <2>7 DEF HandlerStep
<1>3. TypeOK'
  BY <1>1, <1>2 DEF TypeOK
<1>4. hpc \notin {"respond", "ack"} => sent["handler"] = 0
  BY KindFacts DEF SentInv, Sending
<1>5. SentInv' /\ LockInv'
  BY <1>1, <1>2, <1>4, SendersKeep
<1> QED BY <1>1, <1>3, <1>5

\* The reader's variables after one unit.
LEMMA ReadType ==
  ASSUME Basic, ReadStep
  PROVE  /\ rpart' \in {"header", "payload"}
         /\ rkind' \in {"none", "response", "frame", "ack"}
         /\ need' \in Nat /\ got' \in Nat /\ rpos' \in 0 .. Len(down)
         /\ got' <= rpos' /\ upSent' = upSent
         /\ cpc' \in {"response", "loop", "failed", "lost"}
<1>0. /\ down \in Seq(Units) /\ rpos \in 0 .. Len(down) /\ got <= rpos
      /\ rpart \in {"header", "payload"}
      /\ rkind \in {"none", "response", "frame", "ack"}
      /\ need \in Nat /\ got \in Nat
  BY DEF Basic, TypeOK
<1> USE <1>0 DEF Unread, Reading, GiveUp, Received, reader
<1>1. CASE ClientHeaderPart
  BY <1>1 DEF ClientHeaderPart
<1>2. CASE ClientHeader
  <2>1. rpos \in 1 .. Len(down) /\ rpos + 1 \in 1 .. Len(down)
        /\ got' = 0 /\ rpos' = rpos + 1 /\ upSent' = upSent
    BY <1>2 DEF ClientHeader
  <2>2. down[rpos] \in Units
    BY <2>1
  <2>3. down[rpos].kind \in Kinds
    BY <2>2 DEF Units, Kinds
  <2>4. CASE down[rpos].k = 1
    <3>1. rkind' = down[rpos].kind
      BY <1>2, <2>4 DEF ClientHeader
    <3>2. need' \in {Payload[down[rpos].kind]} \cup TornSizes
      BY <1>2, <2>4 DEF ClientHeader
    <3>3. need' \in Nat
      BY <2>3, <3>2, SizeFacts
    <3>4. rpart' \in {"header", "payload"}
          /\ cpc' \in {"response", "loop", "failed", "lost"}
      BY <1>2, <2>4 DEF ClientHeader
    <3> QED BY <2>1, <2>3, <3>1, <3>3, <3>4 DEF Kinds
  <2>5. CASE down[rpos].k # 1
    <3>1. UNCHANGED <<rpart, rkind, need>> /\ GiveUp
      BY <1>2, <2>5 DEF ClientHeader
    <3> QED BY <1>2, <2>1, <3>1 DEF ClientHeader
  <2> QED BY <2>4, <2>5
<1>3. CASE ClientPayloadPart
  BY <1>3 DEF ClientPayloadPart
<1>4. CASE ClientPayload
  BY <1>4 DEF ClientPayload
<1>5. CASE ClientEnd
  BY <1>5 DEF ClientEnd
<1> QED BY <1>1, <1>2, <1>3, <1>4, <1>5 DEF ReadStep

LEMMA BasicClient ==
  ASSUME Basic, ClientStep \/ ClientCloses
  PROVE  Basic'
<1> USE DEF Basic
<1>1. UNCHANGED <<down, hpc, upRead, split, bpc, mutex, frames, sopen, sent,
                  mixed>>
  BY DEF ClientStep, ReadStep, ClientHeaderPart, ClientHeader,
     ClientPayloadPart, ClientPayload, ClientEnd, Request, RequestPayload,
     RequestFails, Beat, BeatFails, ClientCloses, notClient, handler, caster
<1>2. /\ rpart' \in {"header", "payload"}
      /\ rkind' \in {"none", "response", "frame", "ack"}
      /\ need' \in Nat /\ got' \in Nat /\ rpos' \in 0 .. Len(down)
      /\ got' <= rpos' /\ upSent' \in Nat /\ upRead \in 0 .. upSent'
      /\ cpc' \in {"request", "payload", "response", "loop", "failed", "lost",
                   "closed"}
  <2>1. CASE ReadStep
    BY <2>1, ReadType DEF TypeOK
  <2>2. CASE ~ReadStep
    BY <2>2 DEF ClientStep, Request, RequestPayload, RequestFails, Beat,
       BeatFails, ClientCloses, reader, TypeOK
  <2> QED BY <2>1, <2>2
<1>3. TypeOK'
  BY <1>1, <1>2 DEF TypeOK
<1>4. SentInv' /\ LockInv'
  BY <1>1, SendersKeep
<1> QED BY <1>2, <1>3, <1>4

LEMMA BasicStep == Basic /\ [Next]_vars => Basic'
<1> SUFFICES ASSUME Basic, [Next]_vars PROVE Basic'
  OBVIOUS
<1>1. ASSUME NEW s \in Senders, SendStep(s) PROVE Basic'
  BY <1>1, BasicTransmit, BasicSendFails DEF SendStep
<1>2. ASSUME NEW b \in Broadcasters, BroadcastStep(b) PROVE Basic'
  BY <1>2, BasicBroadcast
<1>3. CASE HandlerStep \/ StopDrop
  BY <1>3, BasicHandler
<1>4. CASE ClientStep \/ ClientCloses
  BY <1>4, BasicClient
<1>5. CASE UNCHANGED vars
  <2>1. TypeOK' /\ got' <= rpos'
    BY <1>5 DEF vars, client, reader, handler, caster, Basic, TypeOK
  <2>2. SentInv' /\ LockInv'
    BY <1>5, SendersKeep DEF vars, handler, caster
  <2> QED BY <2>1, <2>2 DEF Basic
<1> QED BY <1>1, <1>2, <1>3, <1>4, <1>5 DEF Next

LEMMA BasicInvariance == Spec => []Basic
BY BasicInit, BasicStep, PTL DEF Spec

\* The type invariant, for any sizes and any number of broadcasters.
THEOREM TypeCorrect == Spec => []TypeOK
<1>1. Basic => TypeOK
  BY DEF Basic
<1> QED BY <1>1, BasicInvariance, PTL

-----------------------------------------------------------------------------
(* What happens to the log in a step.                                      *)

\* An end that is closed stays closed; and while both are open, the log and
\* the counts of sendPacket() change by a send() only.
LEMMA LogStep ==
  ASSUME Basic, [Next]_vars, sopen', copen'
  PROVE  /\ sopen /\ copen
         /\ \/ \E s \in Senders : Transmit(s)
            \/ UNCHANGED <<down, sent, mixed>> /\ ~\E s \in Senders : Transmit(s)
<1>1. sopen /\ copen
  <2>1. ASSUME NEW s \in Senders, SendStep(s) PROVE sopen /\ copen
    BY <2>1 DEF SendStep, Transmit, SendFails, client, copen
  <2>2. ASSUME NEW b \in Broadcasters, BroadcastStep(b) PROVE sopen /\ copen
    BY <2>2 DEF BroadcastStep, BroadcastCall, BroadcastLock, BroadcastUnlock,
       client, copen
  <2>3. CASE HandlerStep \/ StopDrop
    BY <2>3 DEF HandlerStep, HandshakeHeader, HandshakePayload, HandshakeEnd,
       LoopPacket, LoopHalf, LoopEnds, Leave, Erase, StopDrop, client, copen
  <2>4. CASE ClientStep \/ ClientCloses
    BY <2>4 DEF ClientStep, ReadStep, ClientHeaderPart, ClientHeader,
       ClientPayloadPart, ClientPayload, ClientEnd, Request, RequestPayload,
       RequestFails, Beat, BeatFails, ClientCloses, notClient, copen, Reading
  <2>5. CASE UNCHANGED vars
    BY <2>5 DEF vars, client, copen
  <2> QED BY <2>1, <2>2, <2>3, <2>4, <2>5 DEF Next
<1>2. CASE \E s \in Senders : Transmit(s)
  BY <1>1, <1>2
<1>3. CASE ~\E s \in Senders : Transmit(s)
  <2> DEFINE Quiet == UNCHANGED <<down, sent, mixed>>
  <2>1. ASSUME NEW s \in Senders, SendStep(s) PROVE FALSE
    <3>1. SendFails(s)
      BY <1>3, <2>1 DEF SendStep
    <3> QED BY <1>1, <3>1 DEF SendFails
  <2>2. ASSUME NEW b \in Broadcasters, BroadcastStep(b)
        PROVE  Quiet
    BY <2>2 DEF BroadcastStep, BroadcastCall, BroadcastLock, BroadcastUnlock
  <2>3. ASSUME HandlerStep \/ StopDrop PROVE Quiet
    BY <2>3 DEF HandlerStep, HandshakeHeader, HandshakePayload, HandshakeEnd,
       LoopPacket, LoopHalf, LoopEnds, Leave, Erase, StopDrop
  <2>4. ASSUME ClientStep \/ ClientCloses PROVE Quiet
    BY <2>4 DEF ClientStep, ReadStep, ClientHeaderPart, ClientHeader,
       ClientPayloadPart, ClientPayload, ClientEnd, Request, RequestPayload,
       RequestFails, Beat, BeatFails, ClientCloses, notClient
  <2>5. ASSUME UNCHANGED vars PROVE Quiet
    BY <2>5 DEF vars
  <2>6. Quiet
    BY <2>1, <2>2, <2>3, <2>4, <2>5 DEF Next
  <2> QED BY <1>1, <1>3, <2>6
<1> QED BY <1>2, <1>3

\* The other steps while both ends are open.
LEMMA QuietStep ==
  ASSUME [Next]_vars, sopen, copen, copen', ~\E s \in Senders : Transmit(s)
  PROVE  \/ HandlerStep /\ UNCHANGED client
         \/ UNCHANGED <<client, handler>>
         \/ /\ UNCHANGED handler
            /\ ReadStep \/ Request \/ RequestPayload \/ Beat
<1> DEFINE Goal ==
      \/ HandlerStep /\ UNCHANGED client
      \/ UNCHANGED <<client, handler>>
      \/ /\ UNCHANGED handler
         /\ ReadStep \/ Request \/ RequestPayload \/ Beat
<1>1. ASSUME NEW s \in Senders, SendStep(s) PROVE Goal
  BY <1>1 DEF SendStep, SendFails
<1>2. ASSUME NEW b \in Broadcasters, BroadcastStep(b) PROVE Goal
  BY <1>2 DEF BroadcastStep, BroadcastCall, BroadcastLock, BroadcastUnlock
<1>3. ASSUME HandlerStep PROVE Goal
  BY <1>3 DEF HandlerStep, HandshakeHeader, HandshakePayload, HandshakeEnd,
     LoopPacket, LoopHalf, LoopEnds, Leave, Erase
<1>4. ASSUME StopDrop PROVE Goal
  BY <1>4 DEF StopDrop
<1>5. ASSUME ClientStep PROVE Goal
  <2>1. UNCHANGED handler
    BY <1>5 DEF ClientStep, ReadStep, ClientHeaderPart, ClientHeader,
       ClientPayloadPart, ClientPayload, ClientEnd, Request, RequestPayload,
       RequestFails, Beat, BeatFails, notClient
  <2>2. ~RequestFails /\ ~BeatFails
    BY DEF RequestFails, BeatFails
  <2> QED BY <1>5, <2>1, <2>2 DEF ClientStep
<1>6. ASSUME ClientCloses PROVE FALSE
  BY <1>6 DEF ClientCloses, copen
<1>7. ASSUME UNCHANGED vars PROVE Goal
  BY <1>7 DEF vars
<1>8. Goal
  BY <1>1, <1>2, <1>3, <1>4, <1>5, <1>6, <1>7 DEF Next
<1> QED BY <1>8

-----------------------------------------------------------------------------
(* Frames are whole.                                                       *)

LastFrame(i) ==
  FromBroadcast(i) /\ \A j \in i + 1 .. Len(down) : ~FromBroadcast(j)

\* Where the next frame unit will be put: after a complete frame, or by the
\* sender of the frame that is not complete.
EndOfFrames ==
  /\ \A i \in 1 .. Len(down) : FromBroadcast(i) => down[i].kind = "frame"
  /\ \A i \in 1 .. Len(down) : LastFrame(i) =>
       \/ down[i].k = Size("frame") /\ \A b \in Broadcasters : sent[b] = 0
       \/ /\ down[i].k \in 1 .. Size("frame") - 1
          /\ sent[down[i].by] = down[i].k
  /\ (\A i \in 1 .. Len(down) : ~FromBroadcast(i))
       => \A b \in Broadcasters : sent[b] = 0

CasterInv == BroadcastsWhole /\ (sopen /\ copen => EndOfFrames)

\* One broadcaster sends at a time.
LEMMA OneCaster ==
  ASSUME Basic, NEW b \in Broadcasters, Sending(b),
         NEW c \in Broadcasters, sent[c] # 0
  PROVE  c = b
<1>1. Sending(c)
  BY KindFacts DEF Basic, SentInv
<1> QED BY <1>1 DEF Sending, Basic, LockInv

\* A frame goes on.
LEMMA CasterTransmits ==
  ASSUME Basic, CasterInv, sopen, copen, sopen', copen',
         NEW s \in Broadcasters, Transmit(s)
  PROVE  CasterInv'
<1> USE DEF Basic, FromBroadcast
<1>1. PICK n \in Nat \ {0} :
        /\ sent[s] + n <= Size("frame")
        /\ Len(down') = Len(down) + n
        /\ \A i \in 1 .. Len(down) : down'[i] = down[i]
        /\ \A i \in Len(down) + 1 .. Len(down) + n :
             down'[i] = [by |-> s, kind |-> "frame",
                         k |-> sent[s] + i - Len(down)]
        /\ sent' = [sent EXCEPT ![s] =
                      IF sent[s] + n = Size("frame") THEN 0 ELSE sent[s] + n]
  <2>1. s \in Senders /\ Kind(s) = "frame"
    BY KindFacts
  <2> QED BY <2>1, TransmitFacts
<1>0. \A i \in Len(down) + 1 .. Len(down) + n :
        down'[i].by = s /\ down'[i].kind = "frame"
  <2> TAKE i \in Len(down) + 1 .. Len(down) + n
  <2>1. down'[i] = [by |-> s, kind |-> "frame", k |-> sent[s] + i - Len(down)]
    BY <1>1
  <2> QED BY <2>1
<1>2. /\ Len(down) \in Nat /\ sent[s] \in Nat /\ s \in Senders
      /\ Size("frame") \in Nat /\ Sending(s)
  BY KindFacts, SizeFacts DEF TypeOK, Transmit, Kinds
<1>3. \A b \in Broadcasters \ {s} : sent[b] = 0 /\ sent'[b] = 0
  BY <1>1, <1>2, OneCaster, KindFacts DEF TypeOK
<1>4. sent'[s] = IF sent[s] + n = Size("frame") THEN 0 ELSE sent[s] + n
  BY <1>1, <1>2 DEF TypeOK
<1>5. /\ \A i \in 1 .. Len(down) : down[i] \in Units
      /\ \A i \in 1 .. Len(down) : FromBroadcast(i) => down[i].kind = "frame"
  BY DEF CasterInv, EndOfFrames, TypeOK
<1>6. \A i \in 1 .. Len(down) :
        LastFrame(i) => \/ down[i].k = Size("frame") /\ sent[s] = 0
                        \/ /\ down[i].by = s
                           /\ down[i].k < Size("frame") /\ sent[s] = down[i].k
  <2> SUFFICES ASSUME NEW i \in 1 .. Len(down), LastFrame(i),
                      ~(down[i].k = Size("frame") /\ sent[s] = 0)
               PROVE  /\ down[i].by = s
                      /\ down[i].k < Size("frame") /\ sent[s] = down[i].k
    OBVIOUS
  <2>1. /\ down[i].k \in 1 .. Size("frame") - 1
        /\ sent[down[i].by] = down[i].k /\ down[i].by \in Broadcasters
    BY DEF CasterInv, EndOfFrames, LastFrame
  <2>2. down[i].by = s
    BY <1>3, <2>1
  <2> QED BY <1>2, <2>1, <2>2
<1>7. ASSUME NEW i \in 1 .. Len(down'), NEW j \in 1 .. Len(down'), i < j,
             down'[i].by \in Broadcasters, down'[j].by \in Broadcasters,
             \A m \in i + 1 .. j - 1 : down'[m].by \notin Broadcasters
      PROVE  Follows(down'[i], down'[j])
  <2>1. CASE j <= Len(down)
    <3>1. i \in 1 .. Len(down) /\ j \in 1 .. Len(down)
      BY <1>2, <1>7, <2>1
    <3>2. \A m \in i + 1 .. j - 1 : down[m].by \notin Broadcasters
      BY <1>1, <1>2, <1>7, <3>1
    <3>3. Follows(down[i], down[j])
      BY <1>1, <1>7, <3>1, <3>2 DEF CasterInv, BroadcastsWhole
    <3> QED BY <1>1, <3>1, <3>3
  <2>2. CASE i <= Len(down) /\ j > Len(down)
    <3>1. j = Len(down) + 1
      <4>1. CASE j > Len(down) + 1
        <5>1. Len(down) + 1 \in i + 1 .. j - 1
              /\ Len(down) + 1 \in Len(down) + 1 .. Len(down) + n
          BY <1>1, <1>2, <1>7, <2>2, <4>1
        <5>2. down'[Len(down) + 1].by = s
          BY <1>0, <5>1
        <5> QED BY <1>7, <5>1, <5>2
      <4> QED BY <1>2, <1>7, <2>2, <4>1
    <3>2. i \in 1 .. Len(down) /\ down'[i] = down[i] /\ LastFrame(i)
      <4>1. i \in 1 .. Len(down) /\ down'[i] = down[i]
        BY <1>1, <1>2, <1>7, <2>2
      <4>2. \A m \in i + 1 .. Len(down) : down'[m] = down[m]
                                          /\ down'[m].by \notin Broadcasters
        BY <1>1, <1>2, <1>7, <3>1, <4>1
      <4> QED BY <1>7, <4>1, <4>2 DEF LastFrame
    <3>3. down'[j] = [by |-> s, kind |-> "frame", k |-> sent[s] + 1]
      BY <1>1, <1>2, <3>1
    <3>4. down[i] \in Units /\ down[i].kind = "frame"
      BY <1>5, <1>7, <3>2
    <3>5. CASE down[i].k = Size("frame") /\ sent[s] = 0
      BY <3>2, <3>3, <3>4, <3>5 DEF Follows
    <3>6. CASE down[i].by = s /\ down[i].k < Size("frame") /\ sent[s] = down[i].k
      <4>1. down[i] = [by |-> s, kind |-> "frame", k |-> sent[s]]
        BY <3>4, <3>6 DEF Units
      <4> QED BY <3>2, <3>3, <3>6, <4>1, NextOf
    <3> QED BY <1>6, <3>2, <3>5, <3>6
  <2>3. CASE i > Len(down)
    <3>1. j = i + 1
      <4>1. CASE j > i + 1
        <5>1. i + 1 \in i + 1 .. j - 1
              /\ i + 1 \in Len(down) + 1 .. Len(down) + n
          BY <1>1, <1>2, <1>7, <2>3, <4>1
        <5>2. down'[i + 1].by = s
          BY <1>0, <5>1
        <5> QED BY <1>7, <5>1, <5>2
      <4> QED BY <1>7, <4>1
    <3>2. /\ i \in Len(down) + 1 .. Len(down) + n
          /\ j \in Len(down) + 1 .. Len(down) + n
      BY <1>1, <1>2, <1>7, <2>3
    <3>3. /\ down'[i] = [by |-> s, kind |-> "frame", k |-> sent[s] + i - Len(down)]
          /\ down'[j] = [by |-> s, kind |-> "frame", k |-> sent[s] + j - Len(down)]
      BY <1>1, <3>2
    <3>4. sent[s] + i - Len(down) < Size("frame")
          /\ sent[s] + j - Len(down) = sent[s] + i - Len(down) + 1
      BY <1>1, <1>2, <3>1, <3>2
    <3> QED BY <3>3, <3>4, NextOf
  <2> QED BY <1>2, <1>7, <2>1, <2>2, <2>3
<1>8. BroadcastsWhole'
  BY <1>7 DEF BroadcastsWhole
<1>9. ASSUME NEW i \in 1 .. Len(down'), LastFrame(i)'
      PROVE  \/ down'[i].k = Size("frame") /\ \A b \in Broadcasters : sent'[b] = 0
             \/ /\ down'[i].k \in 1 .. Size("frame") - 1
                /\ sent'[down'[i].by] = down'[i].k
  <2>1. Len(down) + n \in Len(down) + 1 .. Len(down) + n
    BY <1>2
  <2>2. down'[Len(down) + n] = [by |-> s, kind |-> "frame", k |-> sent[s] + n]
    BY <1>1, <1>2, <2>1
  <2>3. i = Len(down) + n
    <3>1. CASE i < Len(down) + n
      <4>1. Len(down) + n \in i + 1 .. Len(down')
        BY <1>1, <1>2, <3>1
      <4> QED BY <1>9, <2>2, <4>1 DEF LastFrame
    <3> QED BY <1>1, <1>2, <1>9, <3>1
  <2>4. CASE sent[s] + n = Size("frame")
    BY <1>3, <1>4, <2>2, <2>3, <2>4
  <2>5. CASE sent[s] + n # Size("frame")
    BY <1>1, <1>2, <1>4, <2>2, <2>3, <2>5
  <2> QED BY <2>4, <2>5
<1>10. ASSUME NEW i \in 1 .. Len(down'), down'[i].by \in Broadcasters
       PROVE  down'[i].kind = "frame"
  <2>1. CASE i <= Len(down)
    <3>1. i \in 1 .. Len(down) /\ down'[i] = down[i]
      BY <1>1, <1>2, <1>10, <2>1
    <3> QED BY <1>5, <1>10, <3>1
  <2>2. CASE i > Len(down)
    <3>1. i \in Len(down) + 1 .. Len(down) + n
      BY <1>1, <1>2, <1>10, <2>2
    <3> QED BY <1>0, <3>1
  <2> QED BY <1>1, <1>2, <1>10, <2>1, <2>2
<1>11. ~\A i \in 1 .. Len(down') : down'[i].by \notin Broadcasters
  <2>1. /\ Len(down) + 1 \in Len(down) + 1 .. Len(down) + n
        /\ Len(down) + 1 \in 1 .. Len(down')
    BY <1>1, <1>2
  <2>2. down'[Len(down) + 1].by = s
    BY <1>0, <2>1
  <2> QED BY <2>1, <2>2
<1>12. EndOfFrames'
  BY <1>9, <1>10, <1>11 DEF EndOfFrames, Size, Payload
<1> QED BY <1>8, <1>12 DEF CasterInv

\* The handler puts no frame on the log.
LEMMA CasterAround ==
  ASSUME Basic, CasterInv, sopen, copen, sopen', copen', Transmit("handler")
  PROVE  CasterInv'
<1> USE DEF Basic, FromBroadcast
<1>1. PICK n \in Nat \ {0} :
        /\ Len(down') = Len(down) + n
        /\ \A i \in 1 .. Len(down) : down'[i] = down[i]
        /\ \A i \in Len(down) + 1 .. Len(down) + n :
             down'[i] = [by |-> "handler", kind |-> Kind("handler"),
                         k |-> sent["handler"] + i - Len(down)]
        /\ sent' = [sent EXCEPT !["handler"] =
                      IF sent["handler"] + n = Size(Kind("handler")) THEN 0
                      ELSE sent["handler"] + n]
  BY TransmitFacts, KindFacts
<1>2. Len(down) \in Nat
  BY DEF TypeOK
<1>3. \A b \in Broadcasters : sent'[b] = sent[b]
  BY <1>1, KindFacts DEF TypeOK
<1>4. \A i \in 1 .. Len(down') : i <= Len(down) \/ down'[i].by \notin Broadcasters
  <2> SUFFICES ASSUME NEW i \in 1 .. Len(down'), i > Len(down)
               PROVE  down'[i].by \notin Broadcasters
    BY <1>2
  <2>1. i \in Len(down) + 1 .. Len(down) + n
    BY <1>1, <1>2
  <2>2. down'[i].by = "handler"
    <3>1. down'[i] = [by |-> "handler", kind |-> Kind("handler"),
                      k |-> sent["handler"] + i - Len(down)]
      BY <1>1, <2>1
    <3> QED BY <3>1
  <2> QED BY <2>2, KindFacts
<1>5. \A i \in 1 .. Len(down) : i \in 1 .. Len(down') /\ down'[i] = down[i]
  BY <1>1, <1>2
<1>6. \A i \in 1 .. Len(down') :
        down'[i].by \in Broadcasters => i \in 1 .. Len(down)
  BY <1>2, <1>4
<1>7. ASSUME NEW i \in 1 .. Len(down'), NEW j \in 1 .. Len(down'), i < j,
             down'[i].by \in Broadcasters, down'[j].by \in Broadcasters,
             \A m \in i + 1 .. j - 1 : down'[m].by \notin Broadcasters
      PROVE  Follows(down'[i], down'[j])
  <2>1. i \in 1 .. Len(down) /\ j \in 1 .. Len(down)
    BY <1>6, <1>7
  <2>2. \A m \in i + 1 .. j - 1 : down[m].by \notin Broadcasters
    BY <1>2, <1>5, <1>7, <2>1
  <2>3. Follows(down[i], down[j])
    BY <1>5, <1>7, <2>1, <2>2 DEF CasterInv, BroadcastsWhole
  <2> QED BY <1>5, <2>1, <2>3
<1>8. BroadcastsWhole'
  BY <1>7 DEF BroadcastsWhole
<1>9. ASSUME NEW i \in 1 .. Len(down'), LastFrame(i)'
      PROVE  i \in 1 .. Len(down) /\ down'[i] = down[i] /\ LastFrame(i)
  <2>1. i \in 1 .. Len(down) /\ down'[i] = down[i]
    BY <1>5, <1>6, <1>9 DEF LastFrame
  <2>2. \A j \in i + 1 .. Len(down) : down[j].by \notin Broadcasters
    BY <1>2, <1>5, <1>9, <2>1, <1>1 DEF LastFrame
  <2> QED BY <1>9, <2>1, <2>2 DEF LastFrame
<1>10. \A i \in 1 .. Len(down') : LastFrame(i)' =>
         \/ down'[i].k = Size("frame") /\ \A b \in Broadcasters : sent'[b] = 0
         \/ /\ down'[i].k \in 1 .. Size("frame") - 1
            /\ sent'[down'[i].by] = down'[i].k
  <2> SUFFICES ASSUME NEW i \in 1 .. Len(down'), LastFrame(i)'
               PROVE  \/ /\ down'[i].k = Size("frame")
                         /\ \A b \in Broadcasters : sent'[b] = 0
                      \/ /\ down'[i].k \in 1 .. Size("frame") - 1
                         /\ sent'[down'[i].by] = down'[i].k
    OBVIOUS
  <2>1. i \in 1 .. Len(down) /\ down'[i] = down[i] /\ LastFrame(i)
    BY <1>9
  <2>2. \/ down[i].k = Size("frame") /\ \A b \in Broadcasters : sent[b] = 0
        \/ /\ down[i].k \in 1 .. Size("frame") - 1
           /\ sent[down[i].by] = down[i].k
    BY <2>1 DEF CasterInv, EndOfFrames
  <2>3. down[i].by \in Broadcasters
    BY <2>1 DEF LastFrame
  <2> QED BY <1>3, <2>1, <2>2, <2>3
<1>11. \A i \in 1 .. Len(down') :
         down'[i].by \in Broadcasters => down'[i].kind = "frame"
  BY <1>5, <1>6 DEF CasterInv, EndOfFrames
<1>12. (\A i \in 1 .. Len(down') : down'[i].by \notin Broadcasters)
         => \A b \in Broadcasters : sent'[b] = 0
  BY <1>3, <1>5 DEF CasterInv, EndOfFrames
<1>13. EndOfFrames'
  BY <1>10, <1>11, <1>12 DEF EndOfFrames, Size, Payload
<1> QED BY <1>8, <1>13 DEF CasterInv

LEMMA CasterStep == Basic /\ CasterInv /\ [Next]_vars => CasterInv'
<1> SUFFICES ASSUME Basic, CasterInv, [Next]_vars PROVE CasterInv'
  OBVIOUS
<1>1. CASE ~(sopen' /\ copen')
  BY <1>1 DEF CasterInv, BroadcastsWhole
<1>2. CASE sopen' /\ copen'
  <2>1. sopen /\ copen
    BY <1>2, LogStep
  <2>2. ASSUME NEW s \in Senders, Transmit(s) PROVE CasterInv'
    BY <1>2, <2>1, <2>2, KindFacts, CasterTransmits, CasterAround
  <2>3. CASE UNCHANGED <<down, sent>>
    BY <1>2, <2>1, <2>3 DEF CasterInv, BroadcastsWhole, EndOfFrames, LastFrame,
       FromBroadcast, Follows, Size, Payload
  <2> QED BY <1>2, <2>2, <2>3, LogStep
<1> QED BY <1>1, <1>2

\* Video and audio never tear each other's frames, for any number of
\* broadcasters and any sizes.
THEOREM FramesWhole == Spec => []BroadcastsWhole
<1>1. Init => CasterInv
  BY KindFacts DEF Init, CasterInv, BroadcastsWhole, EndOfFrames
<1>2. Spec => []CasterInv
  BY <1>1, CasterStep, BasicInvariance, PTL DEF Spec
<1>3. CasterInv => BroadcastsWhole
  BY DEF CasterInv
<1> QED BY <1>2, <1>3, PTL

-----------------------------------------------------------------------------
(* A stream without overlap.                                               *)

\* Packets stand one after the other, ...
Framed ==
  /\ Len(down) > 0 => down[1].k = 1
  /\ \A i \in 1 .. Len(down) - 1 : Follows(down[i], down[i + 1])
  /\ \A i \in 1 .. Len(down) : down[i].k \in 1 .. Size(down[i].kind)

\* ... and only the sender of the last unit may be in the middle of one.
EndOfLog ==
  /\ Framed
  /\ \A s \in Senders : sent[s] # 0 =>
       /\ Len(down) > 0
       /\ down[Len(down)] = [by |-> s, kind |-> Kind(s), k |-> sent[s]]
  /\ Len(down) > 0 =>
       LET last == down[Len(down)] IN
       last.k < Size(last.kind) => sent[last.by] # 0

\* The reader is where the last unit it has read says.
ReaderAt ==
  IF rpart = "header"
  THEN /\ got \in {0, 1}
       /\ got = 0 /\ rpos # 0 => down[rpos].k = Size(down[rpos].kind)
       /\ got = 1 => rpos # 0 /\ down[rpos].k = 1
  ELSE /\ rpos # 0 /\ down[rpos].kind = rkind /\ down[rpos].k = 2 + got
       /\ need = Payload[rkind] /\ got < need

WholeInv ==
  ~mixed /\ sopen /\ copen => EndOfLog /\ ReaderAt /\ cpc # "lost"

\* The next send goes on where the last unit ended.
LEMMA WholeTransmit ==
  ASSUME Basic, EndOfLog, ReaderAt, cpc # "lost", NEW s \in Senders,
         Transmit(s), ~mixed'
  PROVE  EndOfLog' /\ ReaderAt' /\ cpc' # "lost"
<1> USE DEF Basic
<1>1. PICK n \in Nat \ {0} :
        /\ sent[s] + n <= Size(Kind(s))
        /\ Len(down') = Len(down) + n
        /\ \A i \in 1 .. Len(down) : down'[i] = down[i]
        /\ \A i \in Len(down) + 1 .. Len(down) + n :
             down'[i] = [by |-> s, kind |-> Kind(s),
                         k |-> sent[s] + i - Len(down)]
        /\ sent' = [sent EXCEPT ![s] =
                      IF sent[s] + n = Size(Kind(s)) THEN 0 ELSE sent[s] + n]
  BY TransmitFacts
<1>2. /\ Len(down) \in Nat /\ sent[s] \in Nat /\ Kind(s) \in Kinds
      /\ Size(Kind(s)) \in Nat /\ rpos \in 0 .. Len(down)
      /\ \A i \in 1 .. Len(down) : down[i] \in Units
  BY KindFacts, SizeFacts DEF TypeOK
<1>3. \A t \in Senders \ {s} : sent[t] = 0 /\ sent'[t] = 0
  <2>1. \A t \in Senders \ {s} : ~(sent[t] > 0)
    BY DEF Transmit
  <2>2. \A t \in Senders : sent[t] \in Nat
    BY DEF TypeOK
  <2>3. \A t \in Senders \ {s} : sent'[t] = sent[t]
    BY <1>1 DEF TypeOK
  <2> QED BY <2>1, <2>2, <2>3
<1>4. sent'[s] = IF sent[s] + n = Size(Kind(s)) THEN 0 ELSE sent[s] + n
  BY <1>1 DEF TypeOK
<1> DEFINE New(i) == [by |-> s, kind |-> Kind(s), k |-> sent[s] + i - Len(down)]
<1>5. \A i \in Len(down) + 1 .. Len(down) + n : down'[i] = New(i)
  BY <1>1
<1>6. /\ Len(down) + 1 \in Len(down) + 1 .. Len(down) + n
      /\ Len(down) + n \in Len(down) + 1 .. Len(down) + n
  BY <1>2
<1>7. Len(down) > 0 =>
        LET last == down[Len(down)] IN
        \/ sent[s] = 0 /\ last.k = Size(last.kind)
        \/ sent[s] # 0 /\ last = [by |-> s, kind |-> Kind(s), k |-> sent[s]]
  <2> SUFFICES ASSUME Len(down) > 0
               PROVE  LET last == down[Len(down)] IN
                      sent[s] = 0 => last.k = Size(last.kind)
    BY DEF EndOfLog, Framed
  <2> DEFINE last == down[Len(down)]
  <2>1. Len(down) \in 1 .. Len(down)
    BY <1>2
  <2>2. last \in Units /\ last.k \in 1 .. Size(last.kind)
    BY <1>2, <2>1 DEF EndOfLog, Framed
  <2>3. last.by \in Senders /\ Size(last.kind) \in Nat
    BY <2>2, SizeFacts DEF Units, Kinds
  <2>4. last.k < Size(last.kind) => sent[last.by] # 0
    BY DEF EndOfLog, Framed
  <2>5. sent[s] = 0 => sent[last.by] = 0
    BY <1>3, <2>3
  <2> QED BY <2>2, <2>3, <2>4, <2>5
<1>8. down'[1].k = 1
  <2>1. CASE Len(down) > 0
    <3>1. 1 \in 1 .. Len(down)
      BY <1>2, <2>1
    <3> QED BY <1>1, <2>1, <3>1 DEF EndOfLog, Framed
  <2>2. CASE Len(down) = 0
    <3>1. sent[s] = 0
      BY <2>2 DEF EndOfLog, Framed
    <3>2. down'[Len(down) + 1] = New(Len(down) + 1)
      BY <1>5, <1>6
    <3>3. Len(down) + 1 = 1 /\ sent[s] + (Len(down) + 1) - Len(down) = 1
      BY <2>2, <3>1
    <3> QED BY <3>2, <3>3
  <2> QED BY <1>2, <2>1, <2>2
<1>9. ASSUME NEW i \in 1 .. Len(down') - 1
      PROVE  Follows(down'[i], down'[i + 1])
  <2>1. CASE i < Len(down)
    <3>1. /\ i \in 1 .. Len(down) - 1 /\ i \in 1 .. Len(down)
          /\ i + 1 \in 1 .. Len(down)
      BY <1>2, <2>1
    <3>2. Follows(down[i], down[i + 1])
      BY <3>1 DEF EndOfLog, Framed
    <3> QED BY <1>1, <3>1, <3>2
  <2>2. CASE i = Len(down)
    <3>1. Len(down) \in 1 .. Len(down) /\ Len(down) > 0
      BY <1>2, <2>2
    <3>2. down'[i] = down[Len(down)] /\ down'[i + 1] = New(Len(down) + 1)
      BY <1>1, <1>5, <1>6, <2>2, <3>1
    <3>3. down'[i + 1] = [by |-> s, kind |-> Kind(s), k |-> sent[s] + 1]
      BY <1>2, <3>2
    <3>4. CASE sent[s] = 0
      BY <1>7, <3>1, <3>2, <3>3, <3>4 DEF Follows
    <3>5. CASE sent[s] # 0
      <4>1. down'[i] = [by |-> s, kind |-> Kind(s), k |-> sent[s]]
        BY <1>7, <3>1, <3>2, <3>5
      <4>2. sent[s] < Size(Kind(s))
        BY <1>1, <1>2
      <4> QED BY <3>3, <4>1, <4>2 DEF Follows
    <3> QED BY <3>4, <3>5
  <2>3. CASE i > Len(down)
    <3>1. /\ i \in Len(down) + 1 .. Len(down) + n
          /\ i + 1 \in Len(down) + 1 .. Len(down) + n
      BY <1>1, <1>2, <2>3
    <3>2. down'[i] = New(i) /\ down'[i + 1] = New(i + 1)
      BY <1>5, <3>1
    <3>3. sent[s] + (i + 1) - Len(down) = sent[s] + i - Len(down) + 1
      BY <1>2, <3>1
    <3>4. sent[s] + i - Len(down) < sent[s] + n
      BY <1>2, <3>1
    <3>5. sent[s] + i - Len(down) < Size(Kind(s))
      BY <1>1, <1>2, <3>1, <3>4
    <3> QED BY <3>2, <3>3, <3>5, NextOf
  <2> QED BY <1>1, <1>2, <2>1, <2>2, <2>3
<1>10. ASSUME NEW i \in 1 .. Len(down')
       PROVE  down'[i].k \in 1 .. Size(down'[i].kind)
  <2>1. CASE i <= Len(down)
    <3>1. i \in 1 .. Len(down)
      BY <1>2, <2>1
    <3> QED BY <1>1, <3>1 DEF EndOfLog, Framed
  <2>2. CASE i > Len(down)
    <3>1. i \in Len(down) + 1 .. Len(down) + n
      BY <1>1, <1>2, <2>2
    <3>2. down'[i] = New(i)
      BY <1>5, <3>1
    <3>3. sent[s] + i - Len(down) \in 1 .. Size(Kind(s))
      BY <1>1, <1>2, <3>1
    <3> QED BY <3>2, <3>3
  <2> QED BY <1>2, <2>1, <2>2
<1>11. down'[Len(down')] = [by |-> s, kind |-> Kind(s), k |-> sent[s] + n]
  <2>1. down'[Len(down) + n] = New(Len(down) + n)
    BY <1>5, <1>6
  <2>2. sent[s] + (Len(down) + n) - Len(down) = sent[s] + n
    BY <1>2
  <2> QED BY <1>1, <2>1, <2>2
<1>12. ASSUME NEW t \in Senders, sent'[t] # 0
       PROVE  /\ Len(down') > 0
              /\ down'[Len(down')] = [by |-> t, kind |-> Kind(t)', k |-> sent'[t]]
  <2>1. t = s /\ sent'[s] = sent[s] + n
    BY <1>3, <1>4, <1>12
  <2>2. UNCHANGED hpc
    BY <1>12, <2>1, TransmitReturns
  <2>3. Kind(s)' = Kind(s)
    BY <2>2 DEF Kind
  <2>4. Len(down') > 0
    BY <1>1, <1>2
  <2> QED BY <1>11, <2>1, <2>3, <2>4
<1>13. LET last == down'[Len(down')] IN
       last.k < Size(last.kind) => sent'[last.by] # 0
  BY <1>2, <1>4, <1>11
<1>14. EndOfLog'
  BY <1>8, <1>9, <1>10, <1>12, <1>13 DEF EndOfLog, Framed
<1>15. UNCHANGED <<rpos, rpart, rkind, need, got, cpc>>
  BY DEF Transmit, client, reader
<1>16. rpos # 0 => down'[rpos] = down[rpos]
  BY <1>1, <1>2
<1>17. ReaderAt'
  BY <1>15, <1>16 DEF ReaderAt, Size, Payload
<1> QED BY <1>14, <1>15, <1>17

\* After a unit comes the next of its packet, or the first of another.
LEMMA NextUnit ==
  ASSUME Basic, Framed, NEW i \in 1 .. Len(down) - 1
  PROVE  /\ down[i] \in Units /\ down[i].k \in 1 .. Size(down[i].kind)
         /\ down[i].kind \in Kinds
         /\ down[i].k = Size(down[i].kind) => down[i + 1].k = 1
         /\ down[i].k < Size(down[i].kind) =>
              down[i + 1] = [down[i] EXCEPT !.k = down[i].k + 1]
<1>1. i \in 1 .. Len(down) /\ Len(down) \in Nat
  BY DEF Basic, TypeOK
<1>2. down[i] \in Units /\ down[i].k \in 1 .. Size(down[i].kind)
  BY <1>1 DEF Basic, TypeOK, Framed
<1>3. down[i].kind \in Kinds /\ Size(down[i].kind) \in Nat
  BY <1>2, SizeFacts DEF Units, Kinds
<1>4. Follows(down[i], down[i + 1])
  BY DEF Framed
<1> QED BY <1>2, <1>3, <1>4 DEF Follows

\* The reader stays in step with the packets, and never sees a header without
\* the magic number.
LEMMA WholeRead ==
  ASSUME Basic, EndOfLog, ReaderAt, cpc # "lost", ReadStep, sopen
  PROVE  ReaderAt' /\ cpc' # "lost"
<1> USE DEF Basic
<1>0. Framed
  BY DEF EndOfLog
<1>1. /\ rpos \in 0 .. Len(down) /\ Len(down) \in Nat /\ got \in Nat /\ need \in Nat
      /\ down' = down
      /\ rpart \in {"header", "payload"}
  <2>1. down' = down
    BY DEF ReadStep, ClientHeaderPart, ClientHeader, ClientPayloadPart,
       ClientPayload, ClientEnd, notClient
  <2>2. Len(down) \in Nat
    BY DEF TypeOK
  <2> QED BY <2>1, <2>2 DEF TypeOK
<1>2. ~ClientEnd
  BY DEF ClientEnd
<1>3. Unread > 0 /\ rpos + 1 \in 1 .. Len(down) /\ rpos' = rpos + 1
  <2>1. Unread > 0 /\ rpos' = rpos + 1
    BY <1>2 DEF ReadStep, ClientHeaderPart, ClientHeader, ClientPayloadPart,
       ClientPayload
  <2> QED BY <1>1, <2>1 DEF Unread
<1>4. rpos # 0 => rpos \in 1 .. Len(down) - 1
  BY <1>1, <1>3
<1>5. CASE ClientHeaderPart
  <2>1. rpart' = "header" /\ got' = 1 /\ got = 0 /\ rpart = "header" /\ cpc' = cpc
    BY <1>1, <1>5 DEF ClientHeaderPart
  <2>2. down[rpos + 1].k = 1
    <3>1. CASE rpos = 0
      BY <1>3, <3>1 DEF EndOfLog, Framed
    <3>2. CASE rpos # 0
      BY <1>4, <2>1, <3>2, <1>0, NextUnit DEF ReaderAt
    <3> QED BY <3>1, <3>2
  <2> QED BY <1>1, <1>3, <2>1, <2>2 DEF ReaderAt
<1>6. CASE ClientHeader
  <2> DEFINE first == down[rpos]
  <2>1. /\ rpart = "header" /\ got = 1 /\ got' = 0 /\ rpos # 0 /\ first.k = 1
    BY <1>1, <1>6 DEF ClientHeader, ReaderAt
  <2>2. /\ first \in Units /\ first.kind \in Kinds
        /\ Size(first.kind) \in Nat /\ Size(first.kind) = 2 + Payload[first.kind]
        /\ Payload[first.kind] \in Nat
    BY <1>4, <2>1, <1>0, NextUnit, SizeFacts
  <2>3. down[rpos + 1] = [first EXCEPT !.k = 2]
    <3>1. first.k < Size(first.kind) /\ first.k + 1 = 2
      BY <2>1, <2>2
    <3>2. down[rpos + 1] = [first EXCEPT !.k = first.k + 1]
      BY <1>4, <2>1, <3>1, <1>0, NextUnit
    <3> QED BY <3>1, <3>2
  <2>4. down[rpos + 1].kind = first.kind /\ down[rpos + 1].k = 2
    BY <2>2, <2>3 DEF Units
  <2>5. rkind' = first.kind /\ need' = Payload[first.kind]
    BY <1>6, <2>1, <2>3 DEF ClientHeader
  <2>6. CASE need' = 0
    <3>1. rpart' = "header" /\ cpc' # "lost"
      BY <1>6, <2>1, <2>6 DEF ClientHeader, Received
    <3>2. down[rpos + 1].k = Size(down[rpos + 1].kind)
      BY <2>2, <2>4, <2>5, <2>6
    <3> QED BY <1>1, <1>3, <2>1, <3>1, <3>2 DEF ReaderAt, Size, Payload
  <2>7. CASE need' # 0
    <3>1. rpart' = "payload" /\ cpc' = cpc
      BY <1>6, <2>1, <2>7 DEF ClientHeader
    <3>2. rpos + 1 # 0 /\ down[rpos + 1].k = 2 + 0 /\ 0 < need'
      BY <1>1, <2>2, <2>4, <2>5, <2>7
    <3> QED BY <1>1, <1>3, <2>1, <2>4, <2>5, <3>1, <3>2 DEF ReaderAt, Payload
  <2> QED BY <2>6, <2>7
<1>7. ASSUME rpart = "payload"
      PROVE  /\ down[rpos + 1].kind = rkind /\ down[rpos + 1].k = 3 + got
             /\ rkind \in Kinds /\ Size(rkind) = 2 + need
  <2>1. /\ rpos # 0 /\ down[rpos].kind = rkind /\ down[rpos].k = 2 + got
        /\ need = Payload[rkind] /\ got < need
    BY <1>7 DEF ReaderAt
  <2>2. down[rpos] \in Units /\ rkind \in Kinds /\ Size(rkind) = 2 + need
    BY <1>4, <2>1, <1>0, NextUnit, SizeFacts
  <2>3. down[rpos + 1] = [down[rpos] EXCEPT !.k = 3 + got]
    <3>1. down[rpos].k < Size(down[rpos].kind) /\ down[rpos].k + 1 = 3 + got
      BY <1>1, <2>1, <2>2
    <3> QED BY <1>4, <2>1, <3>1, <1>0, NextUnit
  <2> QED BY <2>1, <2>2, <2>3 DEF Units
<1>8. CASE ClientPayloadPart
  <2>1. /\ rpart = "payload" /\ rpart' = "payload" /\ got' = got + 1
        /\ got + 1 < need /\ UNCHANGED <<rkind, need, cpc>>
    BY <1>8 DEF ClientPayloadPart
  <2>2. down[rpos + 1].kind = rkind /\ down[rpos + 1].k = 2 + (got + 1)
    BY <1>1, <1>7, <2>1
  <2>3. need = Payload[rkind]
    BY <2>1 DEF ReaderAt
  <2> QED BY <1>1, <1>3, <2>1, <2>2, <2>3 DEF ReaderAt, Payload
<1>9. CASE ClientPayload
  <2>1. /\ rpart = "payload" /\ rpart' = "header" /\ got' = 0
        /\ got + 1 = need
    BY <1>9 DEF ClientPayload
  <2>2. cpc' # "lost"
    BY <1>9 DEF ClientPayload, Received
  <2>3. down[rpos + 1].k = Size(down[rpos + 1].kind)
    BY <1>1, <1>7, <2>1
  <2> QED BY <1>1, <1>3, <2>1, <2>2, <2>3 DEF ReaderAt, Size, Payload
<1> QED BY <1>2, <1>5, <1>6, <1>8, <1>9 DEF ReadStep

LEMMA WholeStep == Basic /\ WholeInv /\ [Next]_vars => WholeInv'
<1> SUFFICES ASSUME Basic, WholeInv, [Next]_vars, ~mixed', sopen', copen'
             PROVE  EndOfLog' /\ ReaderAt' /\ cpc' # "lost"
  BY DEF WholeInv
<1>1. sopen /\ copen
  BY LogStep
<1>2. ASSUME NEW s \in Senders, Transmit(s)
      PROVE  EndOfLog' /\ ReaderAt' /\ cpc' # "lost"
  <2>1. ~mixed
    BY <1>2 DEF Transmit
  <2> QED BY <1>1, <1>2, <2>1, WholeTransmit DEF WholeInv
<1>3. CASE ~\E s \in Senders : Transmit(s)
  <2>1. UNCHANGED <<down, sent, mixed>>
    BY <1>3, LogStep
  <2>2. EndOfLog /\ ReaderAt /\ cpc # "lost"
    BY <1>1, <2>1 DEF WholeInv
  <2>3. ASSUME NEW s \in Senders, sent[s] # 0 PROVE Kind(s)' = Kind(s)
    <3>1. CASE s \in Broadcasters
      BY <3>1 DEF Kind
    <3>2. CASE s = "handler"
      <4>1. hpc \in {"respond", "ack"}
        BY <2>3, <3>2, KindFacts DEF Basic, SentInv, Sending
      <4>2. ~HandlerStep
        BY <4>1 DEF HandlerStep, HandshakeHeader, HandshakePayload,
           HandshakeEnd, LoopPacket, LoopHalf, LoopEnds, Leave, Erase
      <4>3. UNCHANGED hpc
        BY <1>1, <1>3, <4>2, QuietStep DEF handler
      <4> QED BY <3>2, <4>3 DEF Kind
    <3> QED BY <3>1, <3>2, KindFacts
  <2>4. EndOfLog'
    BY <2>1, <2>2, <2>3 DEF EndOfLog, Framed
  <2>5. CASE ReadStep
    BY <1>1, <2>2, <2>4, <2>5, WholeRead
  <2>6. CASE ~ReadStep
    <3>1. UNCHANGED reader /\ cpc' # "lost"
      BY <1>1, <1>3, <2>2, <2>6, QuietStep DEF client, Request, RequestPayload,
         Beat
    <3> QED BY <2>1, <2>2, <2>4, <3>1 DEF reader, ReaderAt
  <2> QED BY <2>5, <2>6
<1> QED BY <1>2, <1>3

LEMMA WholeInvariance == Spec => []WholeInv
<1>1. Init => WholeInv
  <2> SUFFICES ASSUME Init PROVE EndOfLog /\ ReaderAt /\ cpc # "lost"
    BY DEF WholeInv
  <2> QED BY DEF Init, EndOfLog, Framed, ReaderAt
<1> QED BY <1>1, WholeStep, BasicInvariance, PTL DEF Spec

\* A client whose server keeps its end open loses the connection by overlap
\* only.
THEOREM LostByOverlap == Spec => []LostOnlyByOverlap
<1>1. Basic /\ WholeInv => LostOnlyByOverlap
  BY DEF WholeInv, LostOnlyByOverlap, copen, Basic, TypeOK
<1> QED BY <1>1, WholeInvariance, BasicInvariance, PTL

-----------------------------------------------------------------------------
(* Before the first frame.                                                 *)

Connecting == cpc \in {"request", "payload", "response"}

\* No frame among the first n units.
NoFrame(n) == \A i \in 1 .. n : ~FromBroadcast(i)

ResponseUnit(i) == [by |-> "handler", kind |-> "response", k |-> i]

\* The handler answers the request and nothing else while connect() runs: the
\* first heartbeat comes later.
PhaseInv ==
  /\ hpc = "handshake" => upRead = 0
  /\ hpc = "payload" => upRead = 2
  /\ hpc \in {"respond", "loop", "ack"} => upRead >= RequestSize
  /\ hpc = "ack" => upSent > RequestSize
  /\ cpc = "request" => upSent = 0
  /\ cpc = "payload" => upSent = 2
  /\ cpc = "response" => upSent = RequestSize

\* What stands before the first frame is the response, ...
AnswerInv ==
  /\ \A i \in 1 .. Len(down) : NoFrame(i) => down[i] = ResponseUnit(i)
  /\ NoFrame(Len(down)) =>
       /\ hpc \in {"handshake", "payload"} => Len(down) = 0
       /\ hpc = "respond" => Len(down) = sent["handler"]

\* ... and before it has met a frame, the reader is in the response.
AnswerRead ==
  /\ cpc \in {"request", "payload"} => rpos = 0 /\ rpart = "header" /\ got = 0
  /\ NoFrame(rpos) =>
       \/ rpart = "header" /\ got = rpos /\ rpos \in {0, 1}
       \/ /\ rpart = "payload" /\ rkind = "response" /\ need = ResponseUnits
          /\ rpos = got + 2 /\ got < need

ShakeInv ==
  /\ PhaseInv
  /\ sopen /\ Connecting => AnswerInv /\ AnswerRead
  /\ FailedOnlyByFrame

LEMMA PhaseStep == Basic /\ PhaseInv /\ [Next]_vars => PhaseInv'
<1> SUFFICES ASSUME Basic, PhaseInv, [Next]_vars PROVE PhaseInv'
  OBVIOUS
<1> USE DEF PhaseInv
<1>0. upRead \in Nat /\ upSent \in Nat /\ RequestSize \in Nat
      /\ RequestSize = 2 + RequestUnits /\ upRead <= upSent
  BY DEF Basic, TypeOK, RequestSize
<1>1. ASSUME NEW s \in Senders, SendStep(s) PROVE PhaseInv'
  <2>1. UNCHANGED <<upRead, cpc, upSent>>
    BY <1>1 DEF SendStep, Transmit, SendFails, client
  <2>2. hpc' = hpc \/ (hpc \in {"respond", "ack"} /\ hpc' = "loop")
    BY <1>1, KindFacts DEF SendStep, Transmit, SendFails, SendReturns, Sending
  <2> QED BY <2>1, <2>2
<1>2. ASSUME NEW b \in Broadcasters, BroadcastStep(b) PROVE PhaseInv'
  BY <1>2 DEF BroadcastStep, BroadcastCall, BroadcastLock, BroadcastUnlock,
     client, handler
<1>3. ASSUME HandlerStep PROVE PhaseInv'
  <2>1. UNCHANGED <<cpc, upSent>>
    BY <1>3 DEF HandlerStep, HandshakeHeader, HandshakePayload, HandshakeEnd,
       LoopPacket, LoopHalf, LoopEnds, Leave, Erase, client
  <2>2. ASSUME NEW n \in 1 .. Header, HandshakeHeader(n) PROVE PhaseInv'
    BY <1>0, <2>1, <2>2 DEF HandshakeHeader
  <2>3. ASSUME NEW n \in 1 .. RequestUnits, HandshakePayload(n) PROVE PhaseInv'
    BY <1>0, <2>1, <2>3 DEF HandshakePayload
  <2>4. CASE LoopPacket
    <3>1. upRead' = upRead + 2 /\ upRead + 2 <= upSent /\ hpc = "loop"
          /\ hpc' \in {"ack", "loop"}
      BY <1>0, <2>4 DEF LoopPacket, UpUnread
    <3> QED BY <1>0, <2>1, <3>1
  <2>5. CASE LoopHalf
    BY <1>0, <2>1, <2>5 DEF LoopHalf
  <2>6. CASE HandshakeEnd \/ LoopEnds \/ Leave \/ Erase
    BY <2>1, <2>6 DEF HandshakeEnd, LoopEnds, Leave, Erase
  <2> QED BY <1>3, <2>2, <2>3, <2>4, <2>5, <2>6 DEF HandlerStep
<1>4. CASE StopDrop
  BY <1>4 DEF StopDrop, client, handler
<1>5. ASSUME ClientStep \/ ClientCloses PROVE PhaseInv'
  <2>1. UNCHANGED <<hpc, upRead>>
    BY <1>5 DEF ClientStep, ReadStep, ClientHeaderPart, ClientHeader,
       ClientPayloadPart, ClientPayload, ClientEnd, Request, RequestPayload,
       RequestFails, Beat, BeatFails, ClientCloses, notClient, handler
  <2>2. CASE ReadStep
    <3>1. upSent' = upSent /\ cpc' \in {"response", "loop", "failed", "lost"}
      BY <2>2, ReadType
    <3>2. cpc' = "response" => cpc = "response"
      BY <2>2 DEF ReadStep, ClientHeaderPart, ClientHeader, ClientPayloadPart,
         ClientPayload, ClientEnd, GiveUp, Received
    <3> QED BY <2>1, <3>1, <3>2
  <2>3. CASE Request \/ RequestPayload
    BY <1>0, <2>1, <2>3 DEF Request, RequestPayload
  <2>4. CASE RequestFails \/ BeatFails \/ ClientCloses
    BY <2>1, <2>4 DEF RequestFails, BeatFails, ClientCloses
  <2>5. CASE Beat
    BY <1>0, <2>1, <2>5 DEF Beat
  <2> QED BY <1>5, <2>2, <2>3, <2>4, <2>5 DEF ClientStep
<1>6. CASE UNCHANGED vars
  BY <1>6 DEF vars, client, handler
<1> QED BY <1>1, <1>2, <1>3, <1>4, <1>5, <1>6 DEF Next

\* While connect() runs, a send() continues the response or puts a frame.
LEMMA AnswerTransmit ==
  ASSUME Basic, PhaseInv, AnswerInv, AnswerRead, Connecting,
         NEW s \in Senders, Transmit(s)
  PROVE  AnswerInv' /\ AnswerRead'
<1> USE DEF Basic, FromBroadcast
<1>1. PICK n \in Nat \ {0} :
        /\ sent[s] + n <= Size(Kind(s))
        /\ Len(down') = Len(down) + n
        /\ \A i \in 1 .. Len(down) : down'[i] = down[i]
        /\ \A i \in Len(down) + 1 .. Len(down) + n :
             down'[i] = [by |-> s, kind |-> Kind(s),
                         k |-> sent[s] + i - Len(down)]
        /\ sent' = [sent EXCEPT ![s] =
                      IF sent[s] + n = Size(Kind(s)) THEN 0 ELSE sent[s] + n]
  BY TransmitFacts
<1>2. /\ Len(down) \in Nat /\ sent[s] \in Nat /\ rpos \in 0 .. Len(down)
      /\ Sending(s)
  BY DEF TypeOK, Transmit
<1>3. /\ Len(down) + 1 \in Len(down) + 1 .. Len(down) + n
      /\ Len(down) \in Nat /\ Len(down) + n \in Nat
  BY <1>2
<1> DEFINE Free(m) == \A i \in 1 .. m : down'[i].by \notin Broadcasters
<1>4. \A m \in 0 .. Len(down) : Free(m) <=> NoFrame(m)
  <2> SUFFICES ASSUME NEW m \in 0 .. Len(down) PROVE Free(m) <=> NoFrame(m)
    OBVIOUS
  <2>1. \A i \in 1 .. m : i \in 1 .. Len(down)
    BY <1>2
  <2>2. \A i \in 1 .. m : down'[i] = down[i]
    BY ONLY <1>1, <2>1
  <2> HIDE DEF Basic
  <2> QED BY ONLY <2>2 DEF NoFrame, Free, FromBroadcast
<1>5. UNCHANGED <<rpos, rpart, rkind, need, got, cpc>>
  BY DEF Transmit, client, reader
<1>6. AnswerRead'
  BY <1>2, <1>4, <1>5 DEF AnswerRead, NoFrame
<1>7. CASE s \in Broadcasters
  <2>1. down'[Len(down) + 1].by = s
    <3>1. down'[Len(down) + 1] =
            [by |-> s, kind |-> Kind(s), k |-> sent[s] + (Len(down) + 1) - Len(down)]
      BY <1>1, <1>3
    <3> QED BY <3>1
  <2>2. \A m \in Len(down) + 1 .. Len(down) + n : ~Free(m)
    <3> SUFFICES ASSUME NEW m \in Len(down) + 1 .. Len(down) + n PROVE ~Free(m)
      OBVIOUS
    <3>1. Len(down) + 1 \in 1 .. m
      BY <1>2
    <3> QED BY <1>7, <2>1, <3>1 DEF NoFrame
  <2>3. ASSUME NEW i \in 1 .. Len(down'), Free(i)
        PROVE  down'[i] = ResponseUnit(i)
    <3>1. i \in 1 .. Len(down)
      BY <1>1, <1>2, <2>2, <2>3
    <3> QED BY <1>1, <1>2, <1>4, <2>3, <3>1 DEF AnswerInv
  <2>4. ~Free(Len(down'))
    BY <1>1, <1>2, <2>2
  <2> QED BY <1>6, <2>3, <2>4 DEF AnswerInv, NoFrame, ResponseUnit
<1>8. CASE s = "handler"
  <2>1. hpc = "respond"
    <3>1. hpc \in {"respond", "ack"}
      BY <1>2, <1>8, KindFacts DEF Sending
    <3>2. upSent <= RequestSize /\ upSent \in Nat /\ RequestSize \in Nat
      BY DEF PhaseInv, Connecting, RequestSize, TypeOK
    <3> QED BY <3>1, <3>2 DEF PhaseInv
  <2>2. Kind(s) = "response"
    BY <1>8, <2>1, KindFacts DEF Kind
  <2>3. ASSUME NEW i \in 1 .. Len(down'), Free(i)
        PROVE  down'[i] = ResponseUnit(i)
    <3>1. CASE i <= Len(down)
      BY <1>1, <1>2, <1>4, <2>3, <3>1 DEF AnswerInv
    <3>2. CASE i > Len(down)
      <4>1. i \in Len(down) + 1 .. Len(down) + n
        BY <1>1, <1>2, <3>2
      <4>2. NoFrame(Len(down))
        <5>1. Free(Len(down))
          BY <1>2, <2>3, <3>2 DEF NoFrame
        <5> QED BY <1>2, <1>4, <5>1
      <4>3. sent[s] = Len(down)
        BY <1>8, <2>1, <4>2 DEF AnswerInv
      <4>4. down'[i] = [by |-> s, kind |-> Kind(s), k |-> sent[s] + i - Len(down)]
        BY <1>1, <4>1
      <4>5. sent[s] + i - Len(down) = i
        BY <1>2, <4>1, <4>3
      <4> QED BY <1>8, <2>2, <4>4, <4>5 DEF ResponseUnit
    <3> QED BY <1>2, <3>1, <3>2
  <2>4. ASSUME Free(Len(down')), hpc' = "respond"
        PROVE  Len(down') = sent'["handler"]
    <3>1. NoFrame(Len(down))
      <4>1. Free(Len(down))
        BY <1>1, <1>2, <2>4 DEF NoFrame
      <4> QED BY <1>2, <1>4, <4>1
    <3>2. sent[s] = Len(down)
      BY <1>8, <2>1, <3>1 DEF AnswerInv
    <3>3. sent'[s] # 0
      BY <1>8, <2>4, KindFacts, TransmitReturns DEF SendReturns
    <3>4. sent'[s] = sent[s] + n
      BY <1>1, <3>3 DEF TypeOK
    <3> QED BY <1>1, <1>8, <3>2, <3>4
  <2>5. hpc' \notin {"handshake", "payload"}
    BY <1>8, <2>1, KindFacts, TransmitReturns DEF SendReturns
  <2> QED BY <1>6, <2>3, <2>4, <2>5 DEF AnswerInv, NoFrame, ResponseUnit
<1> QED BY <1>7, <1>8, KindFacts

\* connect() reads the response, unless it meets a frame.
LEMMA AnswerReads ==
  ASSUME Basic, AnswerInv, AnswerRead, cpc = "response", ReadStep, sopen
  PROVE  /\ UNCHANGED down
         /\ cpc' \in {"response", "loop", "failed"}
         /\ NoFrame(rpos') =>
              cpc' # "failed" /\ (cpc' = "response" => AnswerRead')
<1> USE DEF Basic
<1>1. /\ rpos \in 0 .. Len(down) /\ Len(down) \in Nat /\ got \in Nat /\ need \in Nat
  BY DEF TypeOK
<1>2. down' = down
  BY DEF ReadStep, ClientHeaderPart, ClientHeader, ClientPayloadPart,
     ClientPayload, ClientEnd, notClient
<1>3. ~ClientEnd
  BY DEF ClientEnd
<1>4. rpos' = rpos + 1 /\ rpos + 1 \in 1 .. Len(down)
  <2>1. Unread > 0 /\ rpos' = rpos + 1
    BY <1>3 DEF ReadStep, ClientHeaderPart, ClientHeader, ClientPayloadPart,
       ClientPayload
  <2> QED BY <1>1, <2>1 DEF Unread
<1>5. cpc' \in {"response", "loop", "failed"}
  BY <1>3 DEF ReadStep, ClientHeaderPart, ClientHeader, ClientPayloadPart,
     ClientPayload, GiveUp, Received
<1>6. ASSUME NoFrame(rpos + 1)
      PROVE  cpc' # "failed" /\ (cpc' = "response" => AnswerRead')
  <2>1. NoFrame(rpos) /\ \A i \in 1 .. rpos + 1 : NoFrame(i)
    BY <1>1, <1>6 DEF NoFrame
  <2>2. \A i \in 1 .. rpos + 1 : down[i] = ResponseUnit(i)
    BY <1>1, <1>4, <2>1 DEF AnswerInv
  <2>3. \/ rpart = "header" /\ got = rpos /\ rpos \in {0, 1}
        \/ /\ rpart = "payload" /\ rkind = "response" /\ need = ResponseUnits
           /\ rpos = got + 2 /\ got < need
    BY <2>1 DEF AnswerRead
  <2>4. CASE ClientHeaderPart
    BY <1>1, <1>4, <2>3, <2>4 DEF ClientHeaderPart, AnswerRead
  <2>5. CASE ClientHeader
    <3>1. rpos = 1 /\ rpart = "header"
      BY <1>1, <2>3, <2>5 DEF ClientHeader
    <3>2. down[rpos] = ResponseUnit(1) /\ down[rpos + 1] = ResponseUnit(2)
      <4>1. 1 \in 1 .. rpos + 1 /\ 2 \in 1 .. rpos + 1 /\ rpos + 1 = 2
        BY <3>1
      <4> QED BY <2>2, <3>1, <4>1
    <3>3. /\ down[rpos].k = 1 /\ down[rpos].kind = "response"
          /\ down[rpos + 1] = [down[rpos] EXCEPT !.k = 2]
      BY <3>2 DEF ResponseUnit
    <3>4. rkind' = "response" /\ need' = ResponseUnits
      BY <2>5, <3>3, SizeFacts DEF ClientHeader
    <3>5. rpart' = "payload" /\ cpc' = cpc /\ got' = 0
      BY <2>5, <3>3, <3>4 DEF ClientHeader
    <3> QED BY <1>4, <3>1, <3>4, <3>5 DEF AnswerRead
  <2>6. CASE ClientPayloadPart
    BY <1>1, <1>4, <2>3, <2>6 DEF ClientPayloadPart, AnswerRead
  <2>7. CASE ClientPayload
    <3>1. /\ rkind = "response" /\ need = ResponseUnits /\ rpos = got + 2
          /\ got + 1 = need
      BY <2>3, <2>7 DEF ClientPayload
    <3>2. \A i \in rpos + 2 - need .. rpos + 1 : i \in 1 .. rpos + 1
      BY <1>1, <3>1
    <3>3. \A i \in rpos + 2 - need .. rpos + 1 : down[i].kind = rkind
      <4> TAKE i \in rpos + 2 - need .. rpos + 1
      <4>1. down[i] = [by |-> "handler", kind |-> "response", k |-> i]
        BY <2>2, <3>2 DEF ResponseUnit
      <4> QED BY <3>1, <4>1
    <3>4. cpc' = "loop"
      BY <2>7, <3>1, <3>3 DEF ClientPayload, Received
    <3> QED BY <3>4
  <2> QED BY <1>3, <2>4, <2>5, <2>6, <2>7 DEF ReadStep
<1> QED BY <1>2, <1>4, <1>5, <1>6

LEMMA ShakeStep == Basic /\ ShakeInv /\ [Next]_vars => ShakeInv'
<1> SUFFICES ASSUME Basic, ShakeInv, [Next]_vars PROVE ShakeInv'
  OBVIOUS
<1>1. PhaseInv'
  BY PhaseStep DEF ShakeInv
<1> DEFINE Met == \E i \in 1 .. rpos' : down'[i].by \in Broadcasters
           Goal == /\ Connecting' => AnswerInv' /\ AnswerRead'
                   /\ cpc' = "failed" => Met
<1>2. ASSUME sopen', copen' PROVE Goal
  <2>0. sopen /\ copen /\ rpos \in 0 .. Len(down) /\ Len(down) \in Nat
    BY <1>2, LogStep DEF Basic, TypeOK
  <2>1. ASSUME NEW s \in Senders, Transmit(s) PROVE Goal
    <3>1. UNCHANGED <<rpos, cpc>>
      BY <2>1 DEF Transmit, client, reader
    <3>2. \A i \in 1 .. Len(down) : down'[i] = down[i]
      BY <2>1, TransmitFacts
    <3>3. cpc' = "failed" => Met
      BY <2>0, <3>1, <3>2 DEF ShakeInv, FailedOnlyByFrame, FromBroadcast
    <3>4. Connecting' => AnswerInv' /\ AnswerRead'
      BY <2>0, <2>1, <3>1, AnswerTransmit DEF ShakeInv, Connecting
    <3> QED BY <3>3, <3>4
  <2>2. ASSUME ~\E s \in Senders : Transmit(s), HandlerStep, UNCHANGED client
        PROVE  Goal
    <3>1. UNCHANGED <<rpos, rpart, rkind, need, got, cpc, down, sent>>
      BY <1>2, <2>2, LogStep DEF client, reader
    <3>2. cpc' = "failed" => Met
      BY <2>0, <3>1 DEF ShakeInv, FailedOnlyByFrame, FromBroadcast
    <3>3. /\ hpc \notin {"respond", "ack"}
          /\ hpc' \in {"handshake", "payload"} => hpc \in {"handshake", "payload"}
          /\ hpc' = "respond" => hpc = "payload"
      BY <2>2 DEF HandlerStep, HandshakeHeader, HandshakePayload, HandshakeEnd,
         LoopPacket, LoopHalf, LoopEnds, Leave, Erase
    <3>4. sent["handler"] = 0
      BY <3>3, KindFacts DEF Basic, SentInv, Sending
    <3>5. ASSUME Connecting' PROVE AnswerInv' /\ AnswerRead'
      <4>1. AnswerInv /\ AnswerRead
        BY <2>0, <3>1, <3>5 DEF ShakeInv, Connecting
      <4>2. AnswerRead'
        BY <3>1, <4>1 DEF AnswerRead, NoFrame, FromBroadcast
      <4>3. AnswerInv'
        BY <3>1, <3>3, <3>4, <4>1 DEF AnswerInv, NoFrame, FromBroadcast,
           ResponseUnit
      <4> QED BY <4>2, <4>3
    <3> QED BY <3>2, <3>5
  <2>3. ASSUME ~\E s \in Senders : Transmit(s), UNCHANGED <<client, handler>>
        PROVE  Goal
    <3>1. UNCHANGED <<rpos, rpart, rkind, need, got, cpc, hpc, down, sent>>
      BY <1>2, <2>3, LogStep DEF client, reader, handler
    <3> QED BY <2>0, <3>1 DEF ShakeInv, Connecting, AnswerInv, AnswerRead,
          NoFrame, FromBroadcast, ResponseUnit, FailedOnlyByFrame
  <2>4. ASSUME ~\E s \in Senders : Transmit(s), ReadStep, UNCHANGED handler
        PROVE  Goal
    <3>1. UNCHANGED <<down, sent, hpc>>
      BY <1>2, <2>4, LogStep DEF handler
    <3>2. CASE cpc = "response"
      <4>1. AnswerInv /\ AnswerRead
        BY <2>0, <3>2 DEF ShakeInv, Connecting
      <4>2. /\ cpc' \in {"response", "loop", "failed"}
            /\ NoFrame(rpos') =>
                 cpc' # "failed" /\ (cpc' = "response" => AnswerRead')
        BY <2>0, <2>4, <3>2, <4>1, AnswerReads
      <4>3. AnswerInv'
        BY <3>1, <4>1 DEF AnswerInv, NoFrame, FromBroadcast, ResponseUnit
      <4>4. ~NoFrame(rpos') => Met
        BY <3>1 DEF NoFrame, FromBroadcast
      <4>5. ~NoFrame(rpos') /\ cpc' = "response" => AnswerRead'
        BY <3>1, <4>2 DEF AnswerRead, NoFrame, FromBroadcast
      <4> QED BY <4>2, <4>3, <4>4, <4>5 DEF Connecting
    <3>3. CASE cpc # "response"
      <4>1. cpc' \in {"loop", "lost"}
        BY <2>4, <3>3 DEF ReadStep, ClientHeaderPart, ClientHeader,
           ClientPayloadPart, ClientPayload, ClientEnd, Reading, GiveUp, Received
      <4> QED BY <4>1 DEF Connecting
    <3> QED BY <3>2, <3>3
  <2>5. ASSUME ~\E s \in Senders : Transmit(s), UNCHANGED handler,
               Request \/ RequestPayload \/ Beat
        PROVE  Goal
    <3>1. UNCHANGED <<down, sent, hpc, rpos, rpart, rkind, need, got>>
      BY <1>2, <2>5, LogStep DEF handler, reader, Request, RequestPayload, Beat
    <3>2. /\ cpc' # "failed"
          /\ Connecting' => Connecting /\ cpc \in {"request", "payload"}
      BY <2>5 DEF Request, RequestPayload, Beat, Connecting
    <3> QED BY <2>0, <3>1, <3>2 DEF ShakeInv, Connecting, AnswerInv, AnswerRead,
          NoFrame, FromBroadcast, ResponseUnit
  <2> QED BY <1>2, <2>0, <2>1, <2>2, <2>3, <2>4, <2>5, QuietStep
<1>3. sopen' /\ Connecting' => AnswerInv' /\ AnswerRead'
  BY <1>2 DEF Connecting, copen
<1>4. FailedOnlyByFrame'
  BY <1>2 DEF copen, FailedOnlyByFrame, FromBroadcast
<1> QED BY <1>1, <1>3, <1>4 DEF ShakeInv

\* connect() fails, while the server keeps its end open, only when a frame
\* comes before the end of the response.
THEOREM FailedByFrame == Spec => []FailedOnlyByFrame
<1>1. Init => ShakeInv
  BY DEF Init, ShakeInv, PhaseInv, AnswerInv, AnswerRead, NoFrame,
     FailedOnlyByFrame
<1>2. Spec => []ShakeInv
  BY <1>1, ShakeStep, BasicInvariance, PTL DEF Spec
<1>3. ShakeInv => FailedOnlyByFrame
  BY DEF ShakeInv
<1> QED BY <1>2, <1>3, PTL

-----------------------------------------------------------------------------
(* One ACK per heartbeat.                                                  *)

Answered == Cardinality(AckHeaders)

BeatInv ==
  sopen /\ copen /\ ~split =>
    /\ hpc \in {"handshake", "payload", "respond"} => AckHeaders = {}
    /\ hpc = "respond" => upRead = RequestSize
    /\ hpc = "loop" => upRead = RequestSize + 2 * Answered
    /\ hpc = "ack" =>
         upRead = RequestSize
                  + 2 * (Answered + IF sent["handler"] = 0 THEN 1 ELSE 0)

LEMMA AckFinite ==
  ASSUME Basic
  PROVE  IsFiniteSet(AckHeaders) /\ Answered \in Nat
<1>1. Len(down) \in Nat
  BY DEF Basic, TypeOK
<1>2. IsFiniteSet(1 .. Len(down))
  BY <1>1, FS_Interval
<1>3. AckHeaders \subseteq 1 .. Len(down)
  BY DEF AckHeaders
<1>4. IsFiniteSet(AckHeaders)
  BY <1>2, <1>3, FS_Subset
<1> QED BY <1>4, FS_CardinalityType DEF Answered

\* A send() begins an ACK or no other.
LEMMA AckTransmit ==
  ASSUME Basic, NEW s \in Senders, Transmit(s)
  PROVE  IF s = "handler" /\ hpc = "ack" /\ sent["handler"] = 0
         THEN Answered' = Answered + 1
         ELSE AckHeaders' = AckHeaders
<1> USE DEF Basic
<1>1. PICK n \in Nat \ {0} :
        /\ Len(down') = Len(down) + n
        /\ \A i \in 1 .. Len(down) : down'[i] = down[i]
        /\ \A i \in Len(down) + 1 .. Len(down) + n :
             down'[i] = [by |-> s, kind |-> Kind(s),
                         k |-> sent[s] + i - Len(down)]
  BY TransmitFacts
<1>2. Len(down) \in Nat /\ sent[s] \in Nat /\ Sending(s)
  BY DEF TypeOK, Transmit
<1>3. AckHeaders' = {i \in 1 .. Len(down') : down'[i].kind = "ack" /\ down'[i].k = 1}
  BY DEF AckHeaders
<1>4. \A i \in 1 .. Len(down) : i \in AckHeaders' <=> i \in AckHeaders
  BY <1>1, <1>2, <1>3 DEF AckHeaders
<1>5. \A i \in Len(down) + 1 .. Len(down) + n :
        i \in AckHeaders' <=> Kind(s) = "ack" /\ sent[s] + i - Len(down) = 1
  <2> TAKE i \in Len(down) + 1 .. Len(down) + n
  <2>1. down'[i] = [by |-> s, kind |-> Kind(s), k |-> sent[s] + i - Len(down)]
    BY <1>1
  <2>2. down'[i].kind = Kind(s) /\ down'[i].k = sent[s] + i - Len(down)
    BY <2>1
  <2>3. i \in 1 .. Len(down')
    BY <1>1, <1>2
  <2> QED BY <1>3, <2>2, <2>3
<1>6. AckHeaders \subseteq 1 .. Len(down) /\ AckHeaders' \subseteq 1 .. Len(down) + n
  BY <1>1, <1>3 DEF AckHeaders
<1>7. /\ \A i \in 1 .. Len(down) + n :
            i \in 1 .. Len(down) \/ i \in Len(down) + 1 .. Len(down) + n
      /\ \A i \in Len(down) + 1 .. Len(down) + n : i \notin 1 .. Len(down)
  BY <1>2
<1>8. Kind(s) = "ack" <=> s = "handler" /\ hpc = "ack"
  BY <1>2, KindFacts DEF Kind, Sending
<1>9. CASE s = "handler" /\ hpc = "ack" /\ sent["handler"] = 0
  <2>1. \A i \in Len(down) + 1 .. Len(down) + n :
          i \in AckHeaders' <=> i = Len(down) + 1
    BY <1>2, <1>5, <1>8, <1>9
  <2>2. Len(down) + 1 \in Len(down) + 1 .. Len(down) + n
    BY <1>2
  <2>3. AckHeaders' = AckHeaders \cup {Len(down) + 1}
    <3>1. \A i : i \in AckHeaders' <=> i \in AckHeaders \/ i = Len(down) + 1
      BY <1>4, <1>6, <1>7, <2>1, <2>2
    <3> QED BY <3>1
  <2>4. Len(down) + 1 \notin AckHeaders
    BY <1>2, <1>6
  <2>5. Cardinality(AckHeaders \cup {Len(down) + 1}) = Cardinality(AckHeaders) + 1
    BY <2>4, AckFinite, FS_AddElement
  <2> QED BY <1>9, <2>3, <2>5 DEF Answered
<1>10. CASE ~(s = "handler" /\ hpc = "ack" /\ sent["handler"] = 0)
  <2>1. \A i \in Len(down) + 1 .. Len(down) + n : i \notin AckHeaders'
    <3>1. CASE Kind(s) # "ack"
      BY <1>5, <3>1
    <3>2. CASE sent[s] # 0
      BY <1>2, <1>5, <3>2
    <3> QED BY <1>8, <1>10, <3>1, <3>2
  <2>2. AckHeaders' = AckHeaders
    <3>1. \A i : i \in AckHeaders' <=> i \in AckHeaders
      BY <1>4, <1>6, <1>7, <2>1
    <3> QED BY <3>1
  <2> QED BY <1>10, <2>2
<1> QED BY <1>9, <1>10

LEMMA BeatStep == Basic /\ PhaseInv /\ BeatInv /\ [Next]_vars => BeatInv'
<1> SUFFICES ASSUME Basic, PhaseInv, BeatInv, [Next]_vars,
                    sopen', copen', ~split'
             PROVE  BeatInv'
  BY DEF BeatInv
<1>1. sopen /\ copen /\ Answered \in Nat /\ RequestSize \in Nat /\ upRead \in Nat
      /\ RequestSize = 2 + RequestUnits
  BY LogStep, AckFinite DEF RequestSize, Basic, TypeOK
<1>2. ASSUME NEW s \in Senders, Transmit(s) PROVE BeatInv'
  <2>1. UNCHANGED <<upRead, split>>
    BY <1>2 DEF Transmit
  <2>2. ~split
    BY <2>1
  <2>3. AckHeaders = {} => Answered = 0
    BY FS_EmptySet DEF Answered
  <2>4. CASE s = "handler"
    <3>1. hpc' = IF sent'["handler"] = 0 THEN "loop" ELSE hpc
      BY <1>2, <2>4, KindFacts, TransmitReturns DEF SendReturns
    <3>2. hpc \in {"respond", "ack"}
      BY <1>2, <2>4, KindFacts DEF Transmit, Sending
    <3>3. CASE hpc = "respond"
      <4>1. AckHeaders' = AckHeaders /\ AckHeaders = {} /\ upRead = RequestSize
        BY <1>1, <1>2, <2>2, <3>3, AckTransmit DEF BeatInv
      <4>2. Answered' = 0
        BY <4>1, <2>3 DEF Answered
      <4> QED BY <1>1, <2>1, <3>1, <3>3, <4>1, <4>2 DEF BeatInv, RequestSize
    <3>4. CASE hpc = "ack"
      <4>1. upRead = RequestSize
                     + 2 * (Answered + IF sent["handler"] = 0 THEN 1 ELSE 0)
        BY <1>1, <2>2, <3>4 DEF BeatInv
      <4>2. Answered' = Answered + IF sent["handler"] = 0 THEN 1 ELSE 0
        BY <1>1, <1>2, <2>4, <3>4, AckTransmit DEF Answered
      <4> QED BY <1>1, <2>1, <3>1, <3>4, <4>1, <4>2 DEF BeatInv, RequestSize
    <3> QED BY <3>2, <3>3, <3>4
  <2>5. CASE s # "handler"
    <3>1. UNCHANGED hpc /\ AckHeaders' = AckHeaders
      BY <1>2, <2>5, KindFacts, TransmitReturns, AckTransmit DEF SendReturns
    <3>2. sent'["handler"] = sent["handler"]
      BY <1>2, <2>5, KindFacts, TransmitFacts DEF Basic, TypeOK
    <3> QED BY <1>1, <2>1, <2>2, <3>1, <3>2 DEF BeatInv, Answered, RequestSize
  <2> QED BY <2>4, <2>5
<1>3. CASE ~\E s \in Senders : Transmit(s)
  <2>1. UNCHANGED <<down, sent>> /\ AckHeaders' = AckHeaders
        /\ Answered' = Answered
    BY <1>3, LogStep DEF AckHeaders, Answered
  <2>2. CASE UNCHANGED handler
    BY <1>1, <2>1, <2>2 DEF BeatInv, handler, RequestSize
  <2>3. CASE HandlerStep /\ UNCHANGED client
    <3>1. ~split
      BY <2>3 DEF HandlerStep, HandshakeHeader, HandshakePayload, HandshakeEnd,
         LoopPacket, LoopHalf, LoopEnds, Leave, Erase
    <3>2. ASSUME NEW n \in 1 .. Header, HandshakeHeader(n) PROVE BeatInv'
      BY <1>1, <2>1, <3>1, <3>2 DEF HandshakeHeader, BeatInv
    <3>3. ASSUME NEW n \in 1 .. RequestUnits, HandshakePayload(n) PROVE BeatInv'
      <4>1. hpc = "payload" /\ upRead = 2 /\ upRead' = upRead + n
            /\ hpc' = (IF n = RequestUnits THEN "respond" ELSE "closing")
            /\ AckHeaders = {}
        BY <1>1, <3>1, <3>3 DEF HandshakePayload, PhaseInv, BeatInv
      <4>2. hpc' = "respond" => upRead' = RequestSize
        BY <1>1, <4>1
      <4> QED BY <2>1, <4>1, <4>2 DEF BeatInv, RequestSize
    <3>4. CASE LoopPacket
      <4>1. upRead = RequestSize + 2 * Answered /\ hpc = "loop"
            /\ upRead' = upRead + 2
        BY <1>1, <3>1, <3>4 DEF LoopPacket, BeatInv
      <4>2. upRead - RequestSize = 2 * Answered
        BY <1>1, <4>1
      <4>3. (2 * Answered) % 2 = 0
        BY <1>1
      <4>4. Aligned(upRead)
        BY <4>2, <4>3 DEF Aligned
      <4>5. hpc' = "ack"
        BY <3>4, <4>4 DEF LoopPacket
      <4>6. sent["handler"] = 0
        BY <4>1, KindFacts DEF Basic, SentInv, Sending
      <4>7. upRead' = RequestSize + 2 * (Answered + 1)
        BY <1>1, <4>1
      <4> QED BY <2>1, <4>5, <4>6, <4>7 DEF BeatInv, RequestSize
    <3>5. CASE LoopHalf
      BY <3>5 DEF LoopHalf
    <3>6. CASE HandshakeEnd \/ LoopEnds \/ Leave \/ Erase
      BY <3>6 DEF HandshakeEnd, LoopEnds, Leave, Erase, BeatInv
    <3> QED BY <2>3, <3>2, <3>3, <3>4, <3>5, <3>6 DEF HandlerStep
  <2> QED BY <1>1, <1>3, <2>2, <2>3, QuietStep
<1> QED BY <1>2, <1>3

\* Every heartbeat read is answered once, unless a header came in two parts.
THEOREM BeatsAreAnswered == Spec => []BeatsAnswered
<1>1. Init => PhaseInv /\ BeatInv
  <2> SUFFICES ASSUME Init PROVE PhaseInv /\ BeatInv
    OBVIOUS
  <2>1. AckHeaders = {}
    BY DEF Init, AckHeaders
  <2> QED BY <2>1 DEF Init, PhaseInv, BeatInv
<1>2. Spec => []PhaseInv
  BY <1>1, PhaseStep, BasicInvariance, PTL DEF Spec
<1>3. Spec => []BeatInv
  BY <1>1, <1>2, BeatStep, BasicInvariance, PTL DEF Spec
<1>4. BeatInv => BeatsAnswered
  BY DEF BeatInv, BeatsAnswered, Answered
<1> QED BY <1>3, <1>4, PTL

-----------------------------------------------------------------------------
(* The channel: PacketStream implements PacketChannel.  The log need not   *)
(* end in step with the senders (SendFails may give a packet up when the   *)
(* server has closed), it need only be Framed as far as it goes; and the   *)
(* reader knows the packet it is in, or the last one (Place).              *)

\* Where the packet of the last header begins, and how far it has been read.
Start ==
  IF rpart = "payload" THEN rpos - got - 1 ELSE rpos - got - Size(rkind) + 1
Reach == IF rpart = "payload" THEN rpos ELSE rpos - got

\* The units the reader has met there are those of a packet of its type, from
\* the first on.
Place ==
  IF rkind = "none"
  THEN rpart = "header" /\ rpos = got /\ got \in {0, 1} /\ need = 0
  ELSE /\ rkind \in Kinds /\ need = Payload[rkind] /\ Start >= 1
       /\ \A i \in Start .. Reach : down[i].kind = rkind /\ down[i].k = i - Start + 1
       /\ IF rpart = "payload" THEN got < need ELSE got \in {0, 1}

ChannelInv == ~brokenMap => Framed /\ Place

\* A header begins where the last packet ends.
LEMMA HeaderBegins ==
  ASSUME Basic, Framed, Place, rpart = "header", got = 1
  PROVE  /\ rpos \in 1 .. Len(down) /\ down[rpos] \in Units /\ down[rpos].k = 1
         /\ rkind # "none" => Start + Size(rkind) = rpos
<1> USE DEF Basic
<1>1. rpos \in 1 .. Len(down) /\ Len(down) \in Nat
  BY DEF TypeOK
<1>2. down[rpos] \in Units
  BY <1>1 DEF TypeOK
<1>3. CASE rkind = "none"
  BY <1>1, <1>2, <1>3 DEF Place, Framed
<1>4. CASE rkind # "none"
  <2>1. /\ rkind \in Kinds /\ Start >= 1 /\ Reach = rpos - 1
        /\ Size(rkind) \in Nat /\ Size(rkind) >= 2
        /\ Start = rpos - Size(rkind)
    BY <1>1, <1>4, SizeFacts DEF Place, Start, Reach
  <2>2. rpos - 1 \in Start .. Reach /\ rpos - 1 \in 1 .. Len(down) - 1
    BY <1>1, <2>1
  <2>3. down[rpos - 1].kind = rkind /\ down[rpos - 1].k = (rpos - 1) - Start + 1
    BY <1>4, <2>2 DEF Place
  <2>4. down[rpos - 1].k = Size(rkind)
    BY <1>1, <2>1, <2>3
  <2>5. down[(rpos - 1) + 1].k = 1
    BY <2>2, <2>3, <2>4, NextUnit
  <2> QED BY <1>1, <1>2, <2>1, <2>5
<1> QED BY <1>3, <1>4

\* The last unit of a header tells what packet it is: the reader is in the
\* packet that begins one unit before.
LEMMA HeaderRead ==
  ASSUME Basic, Framed, Place, ClientHeader
  PROVE  /\ Place' /\ rkind' \in Kinds /\ Start' = rpos
         /\ down[rpos].k = 1 /\ down[rpos].kind = rkind'
         /\ need' = Payload[rkind']
<1> USE DEF Basic
<1> DEFINE first == down[rpos]
<1>1. /\ rpart = "header" /\ got + 1 = 2 /\ got \in Nat /\ got' = 0
      /\ rpos' = rpos + 1 /\ down' = down
      /\ rpos \in 0 .. Len(down) /\ Len(down) \in Nat
      /\ Len(down) - rpos > 0
  <2>1. Len(down) \in Nat
    BY DEF TypeOK
  <2> QED BY <2>1 DEF ClientHeader, TypeOK, notClient, Unread
<1>2. got = 1
  BY <1>1
<1>3. /\ rpos \in 1 .. Len(down) - 1 /\ first \in Units /\ first.k = 1
  BY <1>1, <1>2, HeaderBegins
<1>4. /\ first.kind \in Kinds
      /\ Size(first.kind) \in Nat /\ Size(first.kind) = 2 + Payload[first.kind]
      /\ Payload[first.kind] \in Nat
  BY <1>3, SizeFacts DEF Units, Kinds
<1>5. down[rpos + 1] = [first EXCEPT !.k = 2]
  <2>1. first.k < Size(first.kind) /\ first.k + 1 = 2
    BY <1>3, <1>4
  <2> QED BY <1>3, <2>1, NextUnit
<1>6. down[rpos + 1].kind = first.kind /\ down[rpos + 1].k = 2
  BY <1>3, <1>5 DEF Units
<1>7. /\ rkind' = first.kind /\ need' = Payload[first.kind]
      /\ rpart' = IF need' = 0 THEN "header" ELSE "payload"
  BY <1>3, <1>5 DEF ClientHeader
<1>8. Size(rkind') = 2 + need' /\ need' \in Nat
  BY <1>4, <1>7
<1>9. Start' = rpos /\ Reach' = rpos + 1
  <2>1. CASE need' = 0
    BY <1>1, <1>7, <1>8, <2>1 DEF Start, Reach, Size, Payload
  <2>2. CASE need' # 0
    BY <1>1, <1>7, <2>2 DEF Start, Reach
  <2> QED BY <2>1, <2>2
<1>10. ASSUME NEW i \in Start' .. Reach'
       PROVE  down'[i].kind = rkind' /\ down'[i].k = i - Start' + 1
  <2>1. i = rpos \/ i = rpos + 1
    BY <1>3, <1>9
  <2> QED BY <1>1, <1>3, <1>6, <1>7, <1>9, <2>1
<1>11. rkind' # "none"
  BY <1>4, <1>7 DEF Kinds
<1>12. Place'
  BY <1>1, <1>4, <1>7, <1>8, <1>9, <1>10, <1>11, <1>3 DEF Place, Payload
<1> QED BY <1>3, <1>4, <1>7, <1>9, <1>12

\* A unit of a payload belongs to the packet of its header.
LEMMA PayloadRead ==
  ASSUME Basic, Framed, Place, ClientPayloadPart \/ ClientPayload
  PROVE  Place' /\ Start' = Start /\ UNCHANGED <<down, rkind, need>>
<1> USE DEF Basic
<1>1. /\ rpart = "payload" /\ rpos' = rpos + 1 /\ got \in Nat /\ need \in Nat
      /\ rpos \in 0 .. Len(down) /\ Len(down) \in Nat /\ Len(down) - rpos > 0
      /\ UNCHANGED <<down, rkind, need>>
  <2>1. Len(down) \in Nat
    BY DEF TypeOK
  <2> QED BY <2>1 DEF ClientPayloadPart, ClientPayload, TypeOK, notClient, Unread
<1>2. /\ rkind \in Kinds /\ need = Payload[rkind] /\ Start >= 1 /\ got < need
      /\ Start = rpos - got - 1 /\ Reach = rpos /\ rkind # "none"
      /\ \A i \in Start .. rpos : down[i].kind = rkind /\ down[i].k = i - Start + 1
  BY <1>1 DEF Place, Start, Reach, Kinds
<1>3. Size(rkind) = 2 + need
  BY <1>2, SizeFacts
<1>4. rpos \in Start .. rpos /\ rpos \in 1 .. Len(down) - 1
  BY <1>1, <1>2
<1>5. down[rpos].kind = rkind /\ down[rpos].k = got + 2
  <2>1. rpos - Start + 1 = got + 2
    BY <1>1, <1>2
  <2> QED BY <1>2, <1>4, <2>1
<1>6. down[rpos + 1].kind = rkind /\ down[rpos + 1].k = got + 3
  <2>1. down[rpos].k < Size(down[rpos].kind) /\ down[rpos].k + 1 = got + 3
    BY <1>1, <1>2, <1>3, <1>5
  <2>2. down[rpos] \in Units /\ down[rpos + 1] = [down[rpos] EXCEPT !.k = got + 3]
    BY <1>4, <2>1, NextUnit
  <2> QED BY <1>5, <2>2 DEF Units
<1>7. ASSUME NEW i \in Start .. rpos + 1
      PROVE  down[i].kind = rkind /\ down[i].k = i - Start + 1
  <2>1. CASE i = rpos + 1
    BY <1>1, <1>2, <1>6, <2>1
  <2>2. CASE i # rpos + 1
    BY <1>1, <1>2, <2>2
  <2> QED BY <2>1, <2>2
<1>8. Start' = Start /\ Reach' = rpos + 1
  <2>1. CASE ClientPayloadPart
    BY <1>1, <1>2, <2>1 DEF ClientPayloadPart, Start, Reach
  <2>2. CASE ClientPayload
    <3>1. rpart' = "header" /\ got' = 0 /\ got + 1 = need
      BY <2>2 DEF ClientPayload
    <3>2. Size(rkind)' = Size(rkind)
      BY <1>1 DEF Size, Payload
    <3> QED BY <1>1, <1>2, <1>3, <3>1, <3>2 DEF Start, Reach, Size, Payload
  <2> QED BY <2>1, <2>2
<1>9. IF rpart' = "payload" THEN got' < need' ELSE got' \in {0, 1}
  BY <1>1 DEF ClientPayloadPart, ClientPayload
<1>10. \A i \in Start' .. Reach' :
         down'[i].kind = rkind' /\ down'[i].k = i - Start' + 1
  BY <1>1, <1>7, <1>8
<1>11. Place'
  BY <1>1, <1>2, <1>8, <1>9, <1>10 DEF Place, Payload
<1> QED BY <1>1, <1>8, <1>11

\* A unit of a header, or nothing, leaves the reader after its last packet.
LEMMA PartRead ==
  ASSUME Basic, Place, ClientHeaderPart \/ ClientEnd
  PROVE  /\ Place' /\ (rkind # "none" => Start' = Start)
         /\ UNCHANGED <<down, rkind, need>>
<1> USE DEF Basic
<1>1. CASE ClientEnd
  <2>1. UNCHANGED <<down, rpos, rpart, rkind, need, got>>
    BY <1>1 DEF ClientEnd, notClient, reader
  <2>2. UNCHANGED <<Start, Reach>>
    BY <2>1 DEF Start, Reach, Size, Payload
  <2> QED BY <2>1, <2>2 DEF Place, Payload
<1>2. CASE ClientHeaderPart
  <2>1. /\ rpart = "header" /\ rpart' = "header" /\ got = 0 /\ got' = 1
        /\ rpos' = rpos + 1 /\ rpos \in Nat
        /\ UNCHANGED <<down, rkind, need>>
    <3>1. Len(down) \in Nat
      BY DEF TypeOK
    <3> QED BY <1>2, <3>1 DEF ClientHeaderPart, notClient, TypeOK
  <2>2. UNCHANGED Reach
    BY <2>1 DEF Reach
  <2>3. rkind # "none" => UNCHANGED Start
    <3>1. rkind # "none" => Size(rkind) \in Nat /\ Size(rkind)' = Size(rkind)
      BY <2>1, SizeFacts DEF Place, Size, Payload
    <3> QED BY <2>1, <3>1 DEF Start, Size, Payload
  <2> QED BY <2>1, <2>2, <2>3 DEF Place, Payload
<1> QED BY <1>1, <1>2

LEMMA PlaceRead ==
  ASSUME Basic, Framed, Place, ReadStep PROVE Place'
BY HeaderRead, PayloadRead, PartRead DEF ReadStep

\* What the reader has met does not change.
LEMMA PlaceTransmit ==
  ASSUME Basic, Place, NEW s \in Senders, Transmit(s) PROVE Place'
<1>1. PICK n \in Nat \ {0} : \A i \in 1 .. Len(down) : down'[i] = down[i]
  BY TransmitFacts
<1>2. UNCHANGED <<rpos, rpart, rkind, need, got>>
  BY DEF Transmit, client, reader
<1>3. UNCHANGED <<Start, Reach>>
  BY <1>2 DEF Start, Reach, Size, Payload
<1>4. ASSUME rkind # "none", NEW i \in Start .. Reach PROVE down'[i] = down[i]
  <2>1. /\ rkind \in Kinds /\ Start >= 1 /\ Size(rkind) \in Nat
    BY <1>4, SizeFacts DEF Place
  <2>2. /\ Len(down) \in Nat /\ rpos \in 0 .. Len(down) /\ got \in Nat
    BY DEF Basic, TypeOK
  <2>3. i \in 1 .. Len(down)
    BY <2>1, <2>2 DEF Start, Reach
  <2> QED BY <1>1, <2>3
<1> QED BY <1>2, <1>3, <1>4 DEF Place, Payload

\* A broken channel stays broken.
LEMMA StaysBroken == [Next]_vars /\ brokenMap => brokenMap'
<1> SUFFICES ASSUME [Next]_vars, brokenMap PROVE brokenMap'
  OBVIOUS
<1> USE DEF brokenMap, copen
<1>1. ASSUME NEW s \in Senders, SendStep(s) PROVE brokenMap'
  BY <1>1 DEF SendStep, Transmit, SendFails, client
<1>2. ASSUME NEW b \in Broadcasters, BroadcastStep(b) PROVE brokenMap'
  BY <1>2 DEF BroadcastStep, BroadcastCall, BroadcastLock, BroadcastUnlock, client
<1>3. CASE HandlerStep \/ StopDrop
  BY <1>3 DEF HandlerStep, HandshakeHeader, HandshakePayload, HandshakeEnd,
     LoopPacket, LoopHalf, LoopEnds, Leave, Erase, StopDrop, client
<1>4. CASE ClientStep \/ ClientCloses
  BY <1>4 DEF ClientStep, ReadStep, ClientHeaderPart, ClientHeader,
     ClientPayloadPart, ClientPayload, ClientEnd, Request, RequestPayload,
     RequestFails, Beat, BeatFails, ClientCloses, notClient, Reading
<1>5. CASE UNCHANGED vars
  BY <1>5 DEF vars, client
<1> QED BY <1>1, <1>2, <1>3, <1>4, <1>5 DEF Next

\* Only sends and reads matter to an unbroken channel.
LEMMA ChannelSteps ==
  ASSUME [Next]_vars
  PROVE  \/ \E s \in Senders : Transmit(s)
         \/ ReadStep /\ UNCHANGED down
         \/ UNCHANGED <<down, rpos, rpart, rkind, need, got>>
<1> DEFINE Quiet == UNCHANGED <<down, rpos, rpart, rkind, need, got>>
<1>1. ASSUME NEW s \in Senders, SendStep(s) PROVE Transmit(s) \/ Quiet
  BY <1>1 DEF SendStep, SendFails, client, reader
<1>2. ASSUME NEW b \in Broadcasters, BroadcastStep(b) PROVE Quiet
  BY <1>2 DEF BroadcastStep, BroadcastCall, BroadcastLock, BroadcastUnlock,
     client, reader
<1>3. ASSUME HandlerStep \/ StopDrop PROVE Quiet
  BY <1>3 DEF HandlerStep, HandshakeHeader, HandshakePayload, HandshakeEnd,
     LoopPacket, LoopHalf, LoopEnds, Leave, Erase, StopDrop, client, reader
<1>4. ASSUME ReadStep PROVE UNCHANGED down
  BY <1>4 DEF ReadStep, ClientHeaderPart, ClientHeader, ClientPayloadPart,
     ClientPayload, ClientEnd, notClient
<1>5. ASSUME Request \/ RequestPayload \/ RequestFails \/ Beat \/ BeatFails
             \/ ClientCloses
      PROVE  Quiet
  BY <1>5 DEF Request, RequestPayload, RequestFails, Beat, BeatFails,
     ClientCloses, notClient, reader
<1>6. ASSUME UNCHANGED vars PROVE Quiet
  BY <1>6 DEF vars, client, reader
<1> HIDE DEF Quiet
<1>7. (\E s \in Senders : Transmit(s)) \/ ReadStep \/ Quiet
  BY <1>1, <1>2, <1>3, <1>5, <1>6 DEF Next, ClientStep
<1> QED BY <1>4, <1>7 DEF Quiet

LEMMA ChannelStep ==
  Basic /\ WholeInv /\ WholeInv' /\ ChannelInv /\ [Next]_vars => ChannelInv'
<1> SUFFICES ASSUME Basic, WholeInv', ChannelInv, [Next]_vars, ~brokenMap'
             PROVE  Framed' /\ Place'
  BY DEF ChannelInv
<1>1. Framed /\ Place
  BY StaysBroken DEF ChannelInv
<1>2. ASSUME NEW s \in Senders, Transmit(s) PROVE Framed' /\ Place'
  <2>1. sopen' /\ ~mixed' /\ copen'
    BY <1>2 DEF Transmit, brokenMap
  <2> QED BY <1>1, <1>2, <2>1, PlaceTransmit DEF WholeInv, EndOfLog
<1>3. ASSUME UNCHANGED down PROVE Framed'
  BY <1>1, <1>3 DEF Framed
<1>4. CASE ReadStep /\ UNCHANGED down
  BY <1>1, <1>3, <1>4, PlaceRead
<1>5. CASE UNCHANGED <<down, rpos, rpart, rkind, need, got>>
  <2>1. UNCHANGED <<Start, Reach>>
    BY <1>5 DEF Start, Reach, Size, Payload
  <2>2. Place'
    BY <1>1, <1>5, <2>1 DEF Place, Payload
  <2> QED BY <1>3, <1>5, <2>2
<1> QED BY <1>2, <1>4, <1>5, ChannelSteps

LEMMA ChannelInvariance == Spec => []ChannelInv
<1>1. Init => ChannelInv
  BY DEF Init, ChannelInv, Framed, Place
<1> QED BY <1>1, WholeInvariance, ChannelStep, BasicInvariance, PTL DEF Spec

\* The first send of a packet posts it; the following ones add nothing.
LEMMA TransmitPosts ==
  ASSUME Basic, ChannelInv, ~brokenMap, NEW s \in Senders, Transmit(s), ~brokenMap'
  PROVE  (\E p \in postedMap' : Channel!Post(p)) \/ UNCHANGED Channel!vars
<1> USE DEF Basic
<1>1. PICK n \in Nat \ {0} :
        /\ sent[s] + n <= Size(Kind(s))
        /\ Len(down') = Len(down) + n
        /\ \A i \in 1 .. Len(down) : down'[i] = down[i]
        /\ \A i \in Len(down) + 1 .. Len(down) + n :
             down'[i] = [by |-> s, kind |-> Kind(s),
                         k |-> sent[s] + i - Len(down)]
  BY TransmitFacts
<1>2. /\ Len(down) \in Nat /\ sent[s] \in Nat /\ Kind(s) \in Kinds
      /\ rpos \in 0 .. Len(down) /\ got \in Nat
  BY KindFacts DEF TypeOK
<1>3. /\ UNCHANGED <<rpos, rpart, rkind, need, got>>
      /\ UNCHANGED <<atMap, lastMap, brokenMap>>
  <2>1. UNCHANGED <<rpos, rpart, rkind, need, got>>
    BY DEF Transmit, client, reader
  <2> QED BY <2>1 DEF atMap, lastMap, Size, Payload, brokenMap
<1> DEFINE Begun == {j \in 1 .. Len(down) : down[j].k = 1}
           BegunNow == {j \in 1 .. Len(down') : down'[j].k = 1}
           At(i) == [at |-> i, packet |-> Packet(down[i].kind)]
           AtNow(i) == [at |-> i, packet |-> Packet(down'[i].kind)]
<1>4. postedMap = {At(i) : i \in Begun} /\ postedMap' = {AtNow(i) : i \in BegunNow}
  BY DEF postedMap, Packet, Payload
<1>5. \A i \in Begun : AtNow(i) = At(i)
  BY <1>1
<1>6. BegunNow = IF sent[s] = 0 THEN Begun \cup {Len(down) + 1} ELSE Begun
  <2>1. ASSUME NEW i \in 1 .. Len(down') PROVE
          i \in BegunNow <=> i \in Begun \/ (sent[s] = 0 /\ i = Len(down) + 1)
    <3>1. CASE i <= Len(down)
      <4>1. i \in 1 .. Len(down) /\ down'[i] = down[i]
        BY <1>1, <1>2, <3>1
      <4> QED BY <1>2, <4>1
    <3>2. CASE i > Len(down)
      <4>1. i \in Len(down) + 1 .. Len(down) + n /\ i \notin Begun
        BY <1>1, <1>2, <3>2
      <4>2. down'[i].k = sent[s] + i - Len(down)
        <5>1. down'[i] = [by |-> s, kind |-> Kind(s), k |-> sent[s] + i - Len(down)]
          BY <1>1, <4>1
        <5> QED BY <5>1
      <4>3. down'[i].k = 1 <=> sent[s] = 0 /\ i = Len(down) + 1
        BY <1>2, <4>1, <4>2
      <4> QED BY <4>1, <4>3
    <3> QED BY <1>2, <3>1, <3>2
  <2>2. \A i \in Begun : i \in 1 .. Len(down')
    BY <1>1, <1>2
  <2>3. Len(down) + 1 \in 1 .. Len(down')
    BY <1>1, <1>2
  <2> QED BY <2>1, <2>2, <2>3
<1>7. CASE sent[s] # 0
  <2>1. postedMap' = postedMap
    BY <1>4, <1>5, <1>6, <1>7
  <2> QED BY <1>3, <2>1 DEF Channel!vars
<1>8. CASE sent[s] = 0
  <2> DEFINE p == AtNow(Len(down) + 1)
  <2>1. postedMap' = postedMap \cup {p} /\ p \in postedMap'
    <3>1. BegunNow = Begun \cup {Len(down) + 1}
      BY <1>6, <1>8
    <3> HIDE DEF Begun, BegunNow, At, AtNow
    <3> QED BY <1>4, <1>5, <3>1
  <2>2. Len(down) + 1 \in Len(down) + 1 .. Len(down) + n
    BY <1>2
  <2>3. p.at = Len(down) + 1 /\ p.packet = Packet(Kind(s))
    <3>1. down'[Len(down) + 1].kind = Kind(s)
      <4>1. down'[Len(down) + 1] =
              [by |-> s, kind |-> Kind(s), k |-> sent[s] + (Len(down) + 1) - Len(down)]
        BY <1>1, <2>2
      <4> QED BY <4>1
    <3> QED BY <3>1
  <2>4. Packet(Kind(s)) \in {Packet(kind) : kind \in DOMAIN Payload}
    BY <1>2 DEF Payload, Kinds
  <2>5. \A q \in postedMap : q.at < p.at
    <3>1. \A i \in Begun : At(i).at < Len(down) + 1
      BY <1>2
    <3> QED BY <1>4, <2>3, <3>1
  <2>6. p.at > atMap
    <3>1. rkind # "none" => Size(rkind) \in Nat /\ Size(rkind) >= 2
      BY SizeFacts DEF ChannelInv, Place
    <3>2. atMap <= Len(down)
      BY <1>2, <3>1 DEF atMap
    <3>3. atMap \in Int
      BY <1>2, <3>1 DEF atMap
    <3> QED BY <1>2, <2>3, <3>2, <3>3
  <2>7. Channel!Post(p)
    BY <1>3, <2>1, <2>3, <2>4, <2>5, <2>6 DEF Channel!Post
  <2> QED BY <2>1, <2>7
<1> QED BY <1>7, <1>8

\* A read that completes a header takes the next packet; every other one takes
\* nothing.
LEMMA ReadTakes ==
  ASSUME Basic, ChannelInv, ~brokenMap, ReadStep, ~brokenMap'
  PROVE  (\E p \in postedMap : Channel!Take(p)) \/ UNCHANGED Channel!vars
<1> USE DEF Basic
<1>1. Framed /\ Place
  BY DEF ChannelInv
<1>2. UNCHANGED <<down, postedMap, brokenMap>>
  <2>1. UNCHANGED down
    BY <1>1, HeaderRead, PayloadRead, PartRead DEF ReadStep, ClientHeader, notClient
  <2> QED BY <2>1 DEF postedMap, brokenMap, Packet, Payload
<1>3. /\ rkind # "none" => atMap = Start
      /\ rkind = "none" => atMap = 0
      /\ lastMap = [kind |-> rkind, size |-> need]
      /\ lastMap' = [kind |-> rkind', size |-> need']
  BY DEF atMap, lastMap, Start
<1>4. /\ rkind' # "none" => atMap' = Start'
      /\ rkind' = "none" => atMap' = 0
  BY DEF atMap, Start, Size, Payload
<1>5. CASE ClientHeader
  <2> DEFINE p == [at |-> rpos, packet |-> Packet(down[rpos].kind)]
  <2>1. /\ rkind' \in Kinds /\ Start' = rpos /\ down[rpos].k = 1
        /\ down[rpos].kind = rkind' /\ need' = Payload[rkind']
    BY <1>1, <1>5, HeaderRead
  <2>2. rpart = "header" /\ got = 1
    BY <1>5 DEF ClientHeader, TypeOK
  <2>3. /\ rpos \in 1 .. Len(down)
        /\ rkind # "none" => Start + Size(rkind) = rpos
    BY <1>1, <2>2, HeaderBegins
  <2>4. p \in postedMap
    BY <2>1, <2>3 DEF postedMap
  <2>5. atMap' = p.at /\ lastMap' = p.packet
    BY <1>3, <1>4, <2>1 DEF Kinds, Packet
  <2>6. p.at > atMap /\ \A q \in postedMap : q.at <= atMap \/ q.at >= p.at
    <3>1. CASE rkind = "none"
      <4>1. rpos = 1 /\ atMap = 0
        BY <1>1, <1>3, <2>2, <3>1 DEF Place
      <4>2. \A q \in postedMap : q.at >= 1
        BY DEF postedMap
      <4> QED BY <4>1, <4>2
    <3>2. CASE rkind # "none"
      <4>1. /\ atMap = Start /\ Size(rkind) \in Nat /\ Size(rkind) >= 2
            /\ Start = rpos - Size(rkind) /\ Reach = rpos - 1 /\ Start >= 1
            /\ rpos \in Nat
        BY <1>1, <1>3, <2>2, <2>3, <3>2, SizeFacts DEF Place, Start, Reach
      <4>2. \A i \in Start .. rpos - 1 : down[i].k = i - Start + 1
        BY <1>1, <3>2, <4>1 DEF Place
      <4>3. ASSUME NEW i \in 1 .. Len(down), down[i].k = 1
            PROVE  i <= Start \/ i >= rpos
        <5>1. i \in Int /\ Start \in Int /\ i < rpos /\ i > Start => i - Start + 1 # 1
          OBVIOUS
        <5>2. i \in Int /\ Start \in Int /\ rpos \in Int
          BY <4>1
        <5>3. i > Start /\ i < rpos => i \in Start .. rpos - 1
          BY <5>2
        <5> QED BY <4>2, <4>3, <5>1, <5>2, <5>3
      <4>4. \A q \in postedMap : q.at <= Start \/ q.at >= rpos
        BY <4>3 DEF postedMap
      <4> QED BY <4>1, <4>4
    <3> QED BY <3>1, <3>2
  <2>7. Channel!Take(p)
    BY <1>2, <2>5, <2>6 DEF Channel!Take
  <2> QED BY <2>4, <2>7
<1>6. CASE ~ClientHeader
  <2>1. /\ UNCHANGED <<rkind, need>>
        /\ rkind # "none" => Start' = Start
    BY <1>1, <1>6, PayloadRead, PartRead DEF ReadStep
  <2>2. UNCHANGED <<atMap, lastMap>>
    BY <1>3, <1>4, <2>1
  <2> QED BY <1>2, <2>2 DEF Channel!vars
<1> QED BY <1>5, <1>6

LEMMA ChannelInit == Init => Channel!Init
BY DEF Init, Channel!Init, postedMap, atMap, lastMap, brokenMap, Nobody, copen

LEMMA ChannelNext ==
  Basic /\ ChannelInv /\ [Next]_vars => [Channel!Next]_Channel!vars
<1> SUFFICES ASSUME Basic, ChannelInv, [Next]_vars
             PROVE  Channel!Next \/ UNCHANGED Channel!vars
  OBVIOUS
<1>1. CASE brokenMap
  <2>1. brokenMap'
    BY <1>1, StaysBroken
  <2> QED BY <1>1, <2>1 DEF Channel!vars, postedMap, atMap, lastMap, Nobody,
             brokenMap, copen, Basic, TypeOK
<1>2. CASE ~brokenMap /\ brokenMap'
  BY <1>2 DEF Channel!Next, Channel!Break, postedMap, atMap, lastMap, Nobody
<1>3. CASE ~brokenMap /\ ~brokenMap'
  <2>1. CASE \E s \in Senders : Transmit(s)
    BY <1>3, <2>1, TransmitPosts DEF Channel!Next
  <2>2. CASE ReadStep
    BY <1>3, <2>2, ReadTakes DEF Channel!Next
  <2>3. CASE UNCHANGED <<down, rpos, rpart, rkind, need, got>>
    <3>1. brokenMap' = brokenMap
      BY <1>3 DEF brokenMap
    <3>2. UNCHANGED <<postedMap, atMap, lastMap>>
      BY <2>3, <3>1 DEF postedMap, atMap, lastMap, Packet, Size, Payload
    <3> QED BY <3>1, <3>2 DEF Channel!vars
  <2> QED BY <2>1, <2>2, <2>3, ChannelSteps
<1> QED BY <1>1, <1>2, <1>3

\* The client reads whole packets in the order in which they were begun, as
\* long as none was sent inside another: PacketStream implements PacketChannel,
\* for any broadcasters, buffers and packet sizes.
THEOREM ChannelRefinement == Spec => ImplementsChannel
  BY ChannelInit, ChannelNext, ChannelInvariance, BasicInvariance, PTL
     DEF Spec, ImplementsChannel, Channel!Spec
=============================================================================

---------------------------- MODULE PacketChannel ----------------------------
(***************************************************************************)
(* What sendPacket() and receivePacket() promise their callers, without    *)
(* buffers, partial sends and byte counts: packets of several senders are  *)
(* put on a channel one after the other, and the one reader takes each in  *)
(* its turn, with the type and the size it was posted with, until the      *)
(* channel breaks.  A channel that has broken carries nothing any more.    *)
(*                                                                         *)
(* PacketStream implements this specification (ImplementsChannel there).   *)
(***************************************************************************)
EXTENDS Naturals

CONSTANTS
  Packets,  \* a packet: its type and its size
  Nothing   \* no packet

VARIABLES
  posted,  \* the packets put on the channel, each with its place
  at,      \* the place of the last packet the reader has taken, or 0
  last,    \* that packet
  broken

vars == <<posted, at, last, broken>>

Init == posted = {} /\ at = 0 /\ last = Nothing /\ ~broken

\* p gets a place after that of every packet before it.
Post(p) ==
  /\ ~broken
  /\ p.packet \in Packets /\ p.at > at /\ \A q \in posted : q.at < p.at
  /\ posted' = posted \cup {p}
  /\ UNCHANGED <<at, last, broken>>

\* The reader takes p, and no packet stands between the last one and p.
Take(p) ==
  /\ ~broken
  /\ p.at > at /\ \A q \in posted : q.at <= at \/ q.at >= p.at
  /\ at' = p.at /\ last' = p.packet
  /\ UNCHANGED <<posted, broken>>

Break ==
  /\ ~broken /\ broken'
  /\ posted' = {} /\ at' = 0 /\ last' = Nothing

Next ==
  \/ \E p \in posted' : Post(p)
  \/ \E p \in posted : Take(p)
  \/ Break

Spec == Init /\ [][Next]_vars
=============================================================================

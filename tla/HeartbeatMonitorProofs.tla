----------------------- MODULE HeartbeatMonitorProofs -----------------------
(***************************************************************************)
(* Theorems about HeartbeatMonitor, for every timeout, sleep and wait.     *)
(* DetectedInTime follows from Window: what the monitor has seen of an     *)
(* active client at its last reading of the clock, and how far the clock   *)
(* has gone since.                                                         *)
(***************************************************************************)
EXTENDS HeartbeatMonitor, TLAPS

\* The clock never runs ahead of what the monitor and the accept thread must
\* do first.
Urgent ==
  /\ now <= clock
  /\ mpc = "asleep" => clock <= wake /\ wake <= now + MaxWait + Period
  /\ mpc = "lock" => clock <= now + MaxWait
  /\ \A c \in Clients : place[c] = "arriving" => clock <= last[c] + MaxWait

\* How old an active client can be when the monitor reads the clock: not older
\* than Timeout in the reading of the last sweep, one cycle more in the next.
Window ==
  \A c \in Clients :
    /\ last[c] <= clock
    /\ place[c] = "in" /\ active[c] =>
         now <= last[c] + Timeout
                + (IF mpc = "lock" THEN MaxWait + Period ELSE 0)

Inv == TypeOK /\ Urgent /\ Window

LEMMA MinusFact ==
  ASSUME NEW a \in Nat, NEW b \in Nat, b <= a PROVE Minus(a, b) = a - b
  BY DEF Minus

LEMMA InvInit == Init => Inv
  BY TimeAssumption DEF Init, Inv, TypeOK, Urgent, Window

LEMMA InvStep == Inv /\ [Next]_vars => Inv'
<1> SUFFICES ASSUME Inv, [Next]_vars PROVE Inv'
  OBVIOUS
<1> USE TimeAssumption DEF Inv
<1>1. CASE Tick
  BY <1>1 DEF Tick, TypeOK, Urgent, Window
<1>2. CASE BroadcastLock
  BY <1>2 DEF BroadcastLock, TypeOK, Urgent, Window
<1>3. CASE BroadcastUnlock
  BY <1>3 DEF BroadcastUnlock, TypeOK, Urgent, Window
<1>4. CASE ReadClock
  BY <1>4 DEF ReadClock, TypeOK, Urgent, Window
<1>5. CASE Sweep
  <2>1. TypeOK' /\ Urgent'
    BY <1>5 DEF Sweep, TypeOK, Urgent
  <2>2. ASSUME NEW c \in Clients, place[c] = "in", active'[c]
        PROVE  now <= last[c] + Timeout
    <3>1. ~Late(c)
      BY <1>5, <2>2 DEF Sweep
    <3>2. CASE now <= last[c]
      BY <3>2 DEF TypeOK
    <3>3. CASE last[c] <= now
      BY <3>1, <3>3, MinusFact DEF TypeOK, Late
    <3> QED
      BY <3>2, <3>3 DEF TypeOK
  <2>3. Window'
    BY <1>5, <2>2 DEF Sweep, TypeOK, Window
  <2> QED
    BY <2>1, <2>3
<1>6. ASSUME NEW c \in Clients, Accept(c) PROVE Inv'
  BY <1>6 DEF Accept, TypeOK, Urgent, Window
<1>7. ASSUME NEW c \in Clients, Insert(c) PROVE Inv'
  BY <1>7 DEF Insert, TypeOK, Urgent, Window
<1>8. ASSUME NEW c \in Clients, Packet(c) PROVE Inv'
  BY <1>8 DEF Packet, TypeOK, Urgent, Window
<1>9. ASSUME NEW c \in Clients, Leave(c) PROVE Inv'
  BY <1>9 DEF Leave, TypeOK, Urgent, Window
<1>10. CASE UNCHANGED vars
  BY <1>10 DEF vars, TypeOK, Urgent, Window
<1> QED
  BY <1>1, <1>2, <1>3, <1>4, <1>5, <1>6, <1>7, <1>8, <1>9, <1>10 DEF Next

LEMMA Invariance == Spec => []Inv
  BY InvInit, InvStep, PTL DEF Spec

\* The type invariant, for any clients and times.
THEOREM TypeCorrect == Spec => []TypeOK
<1>1. Inv => TypeOK
  BY DEF Inv
<1> QED
  BY <1>1, Invariance, PTL

\* A silent client is marked inactive within Timeout + Period + 2 * MaxWait.
THEOREM Detection == Spec => []DetectedInTime
<1>1. Inv => DetectedInTime
  BY TimeAssumption DEF Inv, TypeOK, Urgent, Window, DetectedInTime
<1> QED
  BY <1>1, Invariance, PTL
=============================================================================

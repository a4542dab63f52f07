-------------------------- MODULE HeartbeatMonitor --------------------------
(***************************************************************************)
(* The arithmetic and the timing of heartbeatMonitor()                     *)
(* (src/network/StreamServer.cpp), which StreamServer abstracts to "some   *)
(* clients are found late".                                                *)
(*                                                                         *)
(* The monitor sleeps, reads the clock, waits for clients_mutex_ and then  *)
(* compares the time it has read with the last_heartbeat of every active   *)
(* client.  Handlers store last_heartbeat without the mutex, the accept    *)
(* thread fills it in before it inserts a client, and a broadcaster may    *)
(* hold the mutex while time passes.  One unit of time stands for one      *)
(* period of the monitor's sleep divided by Period.                        *)
(***************************************************************************)
EXTENDS Integers

CONSTANTS
  Clients,  \* client records
  Timeout,  \* 30 s
  Period,   \* 5 s, the sleep between two sweeps
  MaxWait,  \* bound: longest wait of a thread for clients_mutex_
  Word,     \* 2^64: timestamps are uint64_t
  MaxTime   \* bound: the clock stops here

ASSUME TimeAssumption ==
  /\ Timeout \in Nat /\ Period \in Nat /\ MaxWait \in Nat /\ MaxTime \in Nat
  /\ Word \in Nat /\ Timeout < Word /\ MaxTime < Word
  /\ MaxWait <= Timeout

VARIABLES
  clock,   \* get_timestamp_us()
  place,   \* of a client: "out", "arriving" (accepted, not in clients_), "in"
  active,  \* ClientInfo::active
  last,    \* ClientInfo::last_heartbeat
  mpc,     \* monitor: "asleep", or "lock" with its time read
  now,     \* monitor: the time read before the lock
  wake,    \* monitor: when the sleep ends
  mutex    \* clients_mutex_: "none" or "caster"

vars == <<clock, place, active, last, mpc, now, wake, mutex>>

\* Unsigned subtraction of two timestamps.
Minus(a, b) == IF a >= b THEN a - b ELSE Word + a - b

Init ==
  /\ clock = 0
  /\ place = [c \in Clients |-> "out"]
  /\ active = [c \in Clients |-> FALSE]
  /\ last = [c \in Clients |-> 0]
  /\ mpc = "asleep" /\ now = 0 /\ wake = Period
  /\ mutex = "none"

\* Time passes.  A sleep ends on time; a thread that waits for clients_mutex_
\* gets it within MaxWait.
Tick ==
  /\ clock < MaxTime
  /\ mpc = "asleep" => clock < wake
  /\ mpc = "lock" => clock < now + MaxWait
  /\ \A c \in Clients : place[c] = "arriving" => clock < last[c] + MaxWait
  /\ clock' = clock + 1
  /\ UNCHANGED <<place, active, last, mpc, now, wake, mutex>>

\* acceptConnections() fills in a record.
Accept(c) ==
  /\ place[c] = "out"
  /\ place' = [place EXCEPT ![c] = "arriving"]
  /\ active' = [active EXCEPT ![c] = TRUE]
  /\ last' = [last EXCEPT ![c] = clock]
  /\ UNCHANGED <<clock, mpc, now, wake, mutex>>

\* It inserts the record into clients_.
Insert(c) ==
  /\ place[c] = "arriving" /\ mutex = "none"
  /\ place' = [place EXCEPT ![c] = "in"]
  /\ UNCHANGED <<clock, active, last, mpc, now, wake, mutex>>

\* handleClient() has received a packet, of whatever type.
Packet(c) ==
  /\ place[c] = "in" /\ active[c]
  /\ last' = [last EXCEPT ![c] = clock]
  /\ UNCHANGED <<clock, place, active, mpc, now, wake, mutex>>

\* handleClient() erases its record.
Leave(c) ==
  /\ place[c] = "in" /\ mutex = "none"
  /\ place' = [place EXCEPT ![c] = "out"]
  /\ active' = [active EXCEPT ![c] = FALSE]
  /\ UNCHANGED <<clock, last, mpc, now, wake, mutex>>

\* A broadcaster takes and releases clients_mutex_.
BroadcastLock ==
  /\ mutex = "none" /\ mutex' = "caster"
  /\ UNCHANGED <<clock, place, active, last, mpc, now, wake>>

BroadcastUnlock ==
  /\ mutex = "caster" /\ mutex' = "none"
  /\ UNCHANGED <<clock, place, active, last, mpc, now, wake>>

\* The sleep is over: the monitor reads the clock and asks for the mutex.
ReadClock ==
  /\ mpc = "asleep" /\ clock >= wake
  /\ mpc' = "lock" /\ now' = clock
  /\ UNCHANGED <<clock, place, active, last, wake, mutex>>

\* Mutant of Late: twice the timeout.
LateTwice(c) == Minus(now, last[c]) > 2 * Timeout

\* The test of the sweep.  For a client heard of after the clock was read the
\* difference wraps around and is huge: such a client is late, too.
Late(c) == Minus(now, last[c]) > Timeout

\* The sweep under the lock, and the start of the next sleep.
Sweep ==
  /\ mpc = "lock" /\ mutex = "none"
  /\ active' = [c \in Clients |-> active[c] /\ ~(place[c] = "in" /\ Late(c))]
  /\ mpc' = "asleep" /\ wake' = clock + Period
  /\ UNCHANGED <<clock, place, last, now, mutex>>

Next ==
  \/ Tick \/ BroadcastLock \/ BroadcastUnlock \/ ReadClock \/ Sweep
  \/ \E c \in Clients : Accept(c) \/ Insert(c) \/ Packet(c) \/ Leave(c)

Spec == Init /\ [][Next]_vars

-----------------------------------------------------------------------------
(* Properties.                                                             *)

\* The type invariant of HeartbeatMonitor.
TypeOK ==
  /\ clock \in Nat /\ now \in Nat /\ wake \in Nat
  /\ place \in [Clients -> {"out", "arriving", "in"}]
  /\ active \in [Clients -> BOOLEAN]
  /\ last \in [Clients -> Nat]
  /\ mpc \in {"asleep", "lock"}
  /\ mutex \in {"none", "caster"}

\* A silent client is marked inactive within the timeout, one sleep and two
\* waits for the mutex: 35 s and what broadcasts take.
DetectedInTime ==
  \A c \in Clients : place[c] = "in" /\ active[c] =>
    clock <= last[c] + Timeout + Period + 2 * MaxWait
=============================================================================

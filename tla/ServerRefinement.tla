-------------------------- MODULE ServerRefinement --------------------------
(***************************************************************************)
(* StreamServer implements ClientRegistry: the list is clients_, a visit   *)
(* is a section under clients_mutex_ that takes more than one step, and a  *)
(* connection whose handler has returned is gone.                          *)
(***************************************************************************)
EXTENDS StreamServer

\* stop() has called: what it still has to do before it clears the map.
Stopping == {"closing", "joinAccept", "joinMonitor", "lock", "drop"}

phaseMap ==
  IF opc = "idle" THEN "stopped"
  ELSE IF opc = "up" THEN "up"
  ELSE IF opc \in Stopping THEN "stopping" ELSE "cleared"

\* c has been put into the map by the accept thread.
Inserted(c) == hpc[c] # "none" \/ (c = acur /\ apc = "spawn")

\* A connection that was accepted and is not in the map yet counts as none.
lifeMap ==
  [c \in Conns |->
     IF hpc[c] = "done" THEN "gone"
     ELSE IF c \in Registered THEN "listed"
     ELSE IF Inserted(c) THEN "ending" ELSE "none"]

\* The registry learns the id when the connection is put into the map.
idMap == [c \in Conns |-> IF Inserted(c) THEN clientId[c] ELSE 0]

Registry == INSTANCE ClientRegistry
              WITH phase <- phaseMap, life <- lifeMap, id <- idMap,
                   visiting <- ~LockFree

\* StreamServer keeps the promise of ClientRegistry, although connections are
\* inserted by the accept thread, erased by their handlers and thrown away by
\* stop(), each in critical sections of its own: an entry is never lost before the
\* handler ends, but to a connection with the same id, never comes back, and
\* stop() outlives them all.
ImplementsRegistry == Registry!Spec
=============================================================================

--------------------------- MODULE ClientRegistry ---------------------------
(***************************************************************************)
(* What class StreamServer promises those who use it, without its threads, *)
(* its sockets and its lock: connections enter a list while the server is  *)
(* up, somebody may go through the list, and it does not change under him; *)
(* a connection leaves the list once and for all; and stop() returns when  *)
(* no connection is left, listed or not.  Connections are listed by id and *)
(* nothing says that an id is given only once: one that arrives under the  *)
(* id of a listed one takes its place, and one that leaves takes its       *)
(* namesake off the list.  Connections with ids of their own never affect  *)
(* each other.                                                             *)
(*                                                                         *)
(* ServerRefinement shows that StreamServer implements this specification. *)
(***************************************************************************)
CONSTANTS
  Conns,     \* connections a peer may open
  Ids        \* client ids

VARIABLES
  phase,     \* "up" from start() to stop(); "cleared": the list is thrown away
  life,      \* what has become of each connection
  id,        \* the id under which each connection arrived
  visiting   \* somebody goes through the list

vars == <<phase, life, id, visiting>>

\* What becomes of the namesakes of c, listed under id i.
Unlist(c, i, new) ==
  [d \in Conns |-> IF d = c THEN new
                  ELSE IF life[d] = "listed" /\ id[d] = i THEN "ending"
                  ELSE life[d]]

Init ==
  /\ phase = "stopped"
  /\ life = [c \in Conns |-> "none"]
  /\ id = [c \in Conns |-> 0]
  /\ visiting = FALSE

Start ==
  /\ phase = "stopped"
  /\ phase' = "up"
  /\ UNCHANGED <<life, id, visiting>>

\* stop() is called: it does not keep late connections out at once.
StopCalled ==
  /\ phase = "up"
  /\ phase' = "stopping"
  /\ UNCHANGED <<life, id, visiting>>

Arrive(c, i) ==
  /\ phase \in {"up", "stopping"} /\ ~visiting
  /\ life[c] = "none"
  /\ life' = Unlist(c, i, "listed")
  /\ id' = [id EXCEPT ![c] = i]
  /\ UNCHANGED <<phase, visiting>>

Leave(c) ==
  /\ life[c] \in {"listed", "ending"} /\ ~visiting
  /\ life' = Unlist(c, id[c], "gone")
  /\ UNCHANGED <<phase, id, visiting>>

VisitBegins ==
  /\ ~visiting
  /\ visiting' = TRUE
  /\ UNCHANGED <<phase, life, id>>

VisitEnds ==
  /\ visiting
  /\ visiting' = FALSE
  /\ UNCHANGED <<phase, life, id>>

\* stop() has gone through the list and throws it away; what was on it ends
\* on its own.
ClearAll ==
  /\ phase = "stopping" /\ visiting
  /\ phase' = "cleared" /\ visiting' = FALSE
  /\ life' = [c \in Conns |-> IF life[c] = "listed" THEN "ending" ELSE life[c]]
  /\ UNCHANGED id

StopReturns ==
  /\ phase = "cleared"
  /\ \A c \in Conns : life[c] \in {"none", "gone"}
  /\ phase' = "stopped"
  /\ UNCHANGED <<life, id, visiting>>

Next ==
  \/ Start \/ StopCalled \/ ClearAll \/ StopReturns
  \/ VisitBegins \/ VisitEnds
  \/ \E c \in Conns : Leave(c) \/ \E i \in Ids : Arrive(c, i)

Spec == Init /\ [][Next]_vars
=============================================================================

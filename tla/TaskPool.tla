------------------------------ MODULE TaskPool ------------------------------
(***************************************************************************)
(* What class ThreadPool promises those who use it, without its mutex, its *)
(* condition variable and its notifications: a task that has been          *)
(* submitted is begun by one worker, in the order of submission, and runs  *)
(* once; a closing pool takes no more tasks, and it is closed only when    *)
(* nothing is waiting or running.                                          *)
(*                                                                         *)
(* ThreadPool implements this specification (ImplementsTaskPool there).    *)
(***************************************************************************)
EXTENDS Sequences

CONSTANTS Workers, Tasks, NoTask

VARIABLES
  waiting,   \* the submitted tasks nobody has begun
  running,   \* what each worker is running, or NoTask
  finished,  \* the tasks that have run
  phase      \* "open", "closing", "closed"

vars == <<waiting, running, finished, phase>>

Known(t) ==
  \/ t \in finished
  \/ \E i \in DOMAIN waiting : waiting[i] = t
  \/ \E w \in Workers : running[w] = t

Init ==
  /\ waiting = <<>> /\ finished = {}
  /\ running = [w \in Workers |-> NoTask]
  /\ phase = "open"

Submit(t) ==
  /\ phase = "open" /\ ~Known(t)
  /\ waiting' = Append(waiting, t)
  /\ UNCHANGED <<running, finished, phase>>

Begin(w) ==
  /\ waiting # <<>> /\ running[w] = NoTask
  /\ running' = [running EXCEPT ![w] = Head(waiting)]
  /\ waiting' = Tail(waiting)
  /\ UNCHANGED <<finished, phase>>

End(w) ==
  /\ running[w] # NoTask /\ running[w] \notin finished
  /\ finished' = finished \cup {running[w]}
  /\ running' = [running EXCEPT ![w] = NoTask]
  /\ UNCHANGED <<waiting, phase>>

CloseBegins ==
  /\ phase = "open"
  /\ phase' = "closing"
  /\ UNCHANGED <<waiting, running, finished>>

CloseReturns ==
  /\ phase = "closing"
  /\ waiting = <<>> /\ \A w \in Workers : running[w] = NoTask
  /\ phase' = "closed"
  /\ UNCHANGED <<waiting, running, finished>>

Next ==
  \/ CloseBegins \/ CloseReturns
  \/ \E t \in Tasks : Submit(t)
  \/ \E w \in Workers : Begin(w) \/ End(w)

Spec == Init /\ [][Next]_vars
=============================================================================

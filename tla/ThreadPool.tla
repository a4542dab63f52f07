----------------------------- MODULE ThreadPool -----------------------------
(***************************************************************************)
(* Class ThreadPool (src/threading/ThreadPool.h, ThreadPool.cpp) with the  *)
(* SafeQueue it keeps its tasks in (src/threading/SafeQueue.h).            *)
(*                                                                         *)
(* Workers test and pop under the pool's mutex and sleep on its condition  *)
(* variable.  enqueue() does not take that mutex: it pushes under the      *)
(* queue's own, internal lock, so that push, try_pop and empty are single  *)
(* steps here, and then notifies.  The destructor runs when no enqueue()   *)
(* is in progress, as the lifetime of a C++ object demands.                *)
(***************************************************************************)
EXTENDS Sequences, FiniteSets

CONSTANTS
  Workers,    \* the threads of the pool
  Producers,  \* the threads that call enqueue()
  Tasks,      \* bound: the tasks that may be enqueued, each once
  NoTask,     \* a worker without a task
  Free        \* the mutex without an owner

ASSUME WorkerAssumption == Workers # {} /\ Free \notin Workers
ASSUME TaskAssumption == NoTask \notin Tasks

VARIABLES
  queue,   \* tasks
  todo,    \* tasks not enqueued yet
  ran,     \* tasks that have returned
  stop,    \* stop
  lock,    \* owner of mutex
  wpc,     \* workers: control
  task,    \* workers: the local variable task
  ppc,     \* producers: "idle", or "notify" between push and notify_one
  dpc      \* destructor: "none", "notify", "join", "done"

vars == <<queue, todo, ran, stop, lock, wpc, task, ppc, dpc>>

\* The threads asleep in condition.wait().
Sleeping == {w \in Workers : wpc[w] = "waiting"}

Init ==
  /\ queue = <<>> /\ todo = Tasks /\ ran = {}
  /\ stop = FALSE /\ lock = Free
  /\ wpc = [w \in Workers |-> "start"]
  /\ task = [w \in Workers |-> NoTask]
  /\ ppc = [p \in Producers |-> "idle"]
  /\ dpc = "none"

-----------------------------------------------------------------------------
(* enqueue().                                                              *)

Push(p, t) ==
  /\ ppc[p] = "idle" /\ dpc = "none" /\ t \in todo
  /\ queue' = Append(queue, t)
  /\ todo' = todo \ {t}
  /\ ppc' = [ppc EXCEPT ![p] = "notify"]
  /\ UNCHANGED <<ran, stop, lock, wpc, task, dpc>>

\* Mutant: enqueue() does not notify.
NotifyNobody(p) ==
  /\ ppc[p] = "notify"
  /\ ppc' = [ppc EXCEPT ![p] = "idle"]
  /\ UNCHANGED <<queue, todo, ran, stop, lock, wpc, task, dpc>>

\* notify_one() wakes a sleeping worker, if there is one at this moment.
NotifyOne(p) ==
  /\ ppc[p] = "notify"
  /\ ppc' = [ppc EXCEPT ![p] = "idle"]
  /\ \/ \E w \in Sleeping : wpc' = [wpc EXCEPT ![w] = "woken"]
     \/ Sleeping = {} /\ UNCHANGED wpc
  /\ UNCHANGED <<queue, todo, ran, stop, lock, task, dpc>>

-----------------------------------------------------------------------------
(* The worker loop.                                                        *)

Acquire(w) ==
  /\ wpc[w] \in {"start", "woken"} /\ lock = Free
  /\ lock' = w
  /\ wpc' = [wpc EXCEPT ![w] = "test"]
  /\ UNCHANGED <<queue, todo, ran, stop, task, ppc, dpc>>

\* Mutant: the mutex is released before the wait begins.
TestFailsUnlocks(w) ==
  /\ wpc[w] = "test" /\ ~stop /\ queue = <<>>
  /\ wpc' = [wpc EXCEPT ![w] = "block"]
  /\ lock' = Free
  /\ UNCHANGED <<queue, todo, ran, stop, task, ppc, dpc>>

\* The predicate is false: the worker is going to sleep, with the mutex.
TestFails(w) ==
  /\ wpc[w] = "test" /\ ~stop /\ queue = <<>>
  /\ wpc' = [wpc EXCEPT ![w] = "block"]
  /\ UNCHANGED <<queue, todo, ran, stop, lock, task, ppc, dpc>>

\* condition.wait() releases the mutex and sleeps in one step.
Sleep(w) ==
  /\ wpc[w] = "block"
  /\ wpc' = [wpc EXCEPT ![w] = "waiting"]
  /\ lock' = Free
  /\ UNCHANGED <<queue, todo, ran, stop, task, ppc, dpc>>

\* condition.wait() may return without a notification.
SpuriousWakeup(w) ==
  /\ wpc[w] = "waiting"
  /\ wpc' = [wpc EXCEPT ![w] = "woken"]
  /\ UNCHANGED <<queue, todo, ran, stop, lock, task, ppc, dpc>>

\* Mutant: the thread function returns as soon as stop is set.
LeaveAtOnce(w) ==
  /\ wpc[w] = "test" /\ stop
  /\ wpc' = [wpc EXCEPT ![w] = "done"]
  /\ lock' = Free
  /\ UNCHANGED <<queue, todo, ran, stop, task, ppc, dpc>>

\* stop is set and nothing is left: the thread function returns.
Leave(w) ==
  /\ wpc[w] = "test" /\ stop /\ queue = <<>>
  /\ wpc' = [wpc EXCEPT ![w] = "done"]
  /\ lock' = Free
  /\ UNCHANGED <<queue, todo, ran, stop, task, ppc, dpc>>

\* Mutant: the mutex is released before the pop.
TestUnlocks(w) ==
  /\ wpc[w] = "test" /\ queue # <<>>
  /\ wpc' = [wpc EXCEPT ![w] = "pop"]
  /\ lock' = Free
  /\ UNCHANGED <<queue, todo, ran, stop, task, ppc, dpc>>

TestSucceeds(w) ==
  /\ wpc[w] = "test" /\ queue # <<>>
  /\ wpc' = [wpc EXCEPT ![w] = "pop"]
  /\ UNCHANGED <<queue, todo, ran, stop, lock, task, ppc, dpc>>

\* Mutant: the task is copied, not taken out.
PopCopies(w) ==
  /\ wpc[w] = "pop" /\ queue # <<>>
  /\ task' = [task EXCEPT ![w] = Head(queue)]
  /\ wpc' = [wpc EXCEPT ![w] = "run"]
  /\ lock' = Free
  /\ UNCHANGED <<queue, todo, ran, stop, ppc, dpc>>

\* try_pop(); were the queue empty, the worker would start over.
Pop(w) ==
  /\ wpc[w] = "pop"
  /\ lock' = Free
  /\ \/ /\ queue # <<>>
        /\ task' = [task EXCEPT ![w] = Head(queue)]
        /\ queue' = Tail(queue)
        /\ wpc' = [wpc EXCEPT ![w] = "run"]
     \/ /\ queue = <<>>
        /\ wpc' = [wpc EXCEPT ![w] = "start"]
        /\ UNCHANGED <<queue, task>>
  /\ UNCHANGED <<todo, ran, stop, ppc, dpc>>

\* task() returns.
Finish(w) ==
  /\ wpc[w] = "run"
  /\ ran' = ran \cup {task[w]}
  /\ task' = [task EXCEPT ![w] = NoTask]
  /\ wpc' = [wpc EXCEPT ![w] = "start"]
  /\ UNCHANGED <<queue, todo, stop, lock, ppc, dpc>>

-----------------------------------------------------------------------------
(* The destructor.                                                         *)

\* Mutant: stop is set without the mutex.
SetStopUnlocked ==
  /\ dpc = "none" /\ \A p \in Producers : ppc[p] = "idle"
  /\ stop' = TRUE
  /\ dpc' = "notify"
  /\ UNCHANGED <<queue, todo, ran, lock, wpc, task, ppc>>

SetStop ==
  /\ dpc = "none" /\ \A p \in Producers : ppc[p] = "idle"
  /\ lock = Free
  /\ stop' = TRUE
  /\ dpc' = "notify"
  /\ UNCHANGED <<queue, todo, ran, lock, wpc, task, ppc>>

NotifyAll ==
  /\ dpc = "notify"
  /\ wpc' = [w \in Workers |-> IF w \in Sleeping THEN "woken" ELSE wpc[w]]
  /\ dpc' = "join"
  /\ UNCHANGED <<queue, todo, ran, stop, lock, task, ppc>>

Join ==
  /\ dpc = "join" /\ \A w \in Workers : wpc[w] = "done"
  /\ dpc' = "done"
  /\ UNCHANGED <<queue, todo, ran, stop, lock, wpc, task, ppc>>

-----------------------------------------------------------------------------
WorkerProgress(w) ==
  \/ Acquire(w) \/ TestFails(w) \/ Sleep(w) \/ Leave(w) \/ TestSucceeds(w)
  \/ Pop(w) \/ Finish(w)

Next ==
  \/ \E p \in Producers : NotifyOne(p) \/ \E t \in Tasks : Push(p, t)
  \/ \E w \in Workers : WorkerProgress(w) \/ SpuriousWakeup(w)
  \/ SetStop \/ NotifyAll \/ Join

Spec == Init /\ [][Next]_vars

\* Threads run, tasks return, and a thread that asks for the mutex again and
\* again gets it.  Nobody has to enqueue, to destroy the pool, or to wake up
\* spuriously.
FairSpec ==
  /\ Spec
  /\ \A p \in Producers : WF_vars(NotifyOne(p))
  /\ \A w \in Workers : SF_vars(WorkerProgress(w))
  /\ WF_vars(NotifyAll) /\ WF_vars(Join)

-----------------------------------------------------------------------------
(* Properties.                                                             *)

InQueue(t) == \E i \in DOMAIN queue : queue[i] = t

DataTypes ==
  /\ queue \in Seq(Tasks) /\ todo \subseteq Tasks /\ ran \subseteq Tasks
  /\ lock \in Workers \cup {Free}
  /\ wpc \in [Workers -> {"start", "woken", "test", "block", "waiting", "pop",
                          "run", "done"}]
  /\ task \in [Workers -> Tasks \cup {NoTask}]
  /\ ppc \in [Producers -> {"idle", "notify"}]
  /\ dpc \in {"none", "notify", "join", "done"}

\* The type invariant of ThreadPool.
TypeOK == DataTypes /\ stop \in BOOLEAN

\* The destructor drains: when it returns, every enqueued task has run.
DestructorDrains == dpc = "done" => todo \cup ran = Tasks

\* A worker that has seen a task finds one: the queue cannot be emptied
\* between its test and its pop, which hold two different locks.
PopFindsTask == \A w \in Workers : wpc[w] = "pop" => queue # <<>>

\* No task is held by two workers, and none that has run is queued again.
RunOnce ==
  \A w \in Workers : wpc[w] = "run" =>
    /\ task[w] \notin ran /\ ~InQueue(task[w])
    /\ \A v \in Workers \ {w} : task[v] # task[w]

\* The destructor returns: no worker sleeps through stop.
DestructorReturns == (dpc = "notify") ~> (dpc = "done")

\* An enqueued task runs, without help from later calls or the destructor
\* (test_threading.cpp:26 "Attendre que toutes les taches soient terminees").
EnqueuedTaskRuns == \A t \in Tasks : InQueue(t) ~> (t \in ran)

\* Wakeups are not lost.  enqueue() pushes and notifies without the mutex, so
\* the notification may come while a worker, its test failed, has not begun to
\* wait; with two workers or more another one is then awake, and no task lies
\* in the queue with every worker asleep or about to sleep and nobody left to
\* notify.  stop, which is set under the mutex, finds nobody about to sleep:
\* once notify_all has been called nobody sleeps any more.
Asleep(w) == wpc[w] \in {"waiting", "block"}
NobodySleepsOnWork ==
  /\ /\ queue # <<>> /\ \A p \in Producers : ppc[p] = "idle"
     /\ \E v, w \in Workers : v # w
     => \E w \in Workers : ~Asleep(w) /\ wpc[w] # "done"
  /\ dpc \in {"join", "done"} => \A w \in Workers : ~Asleep(w)

\* TaskPool's phase is what the callers of the pool see of its destructor.
phaseMap ==
  IF dpc = "none" THEN "open" ELSE IF dpc = "done" THEN "closed" ELSE "closing"

Pool == INSTANCE TaskPool
          WITH waiting <- queue, running <- task, finished <- ran,
               phase <- phaseMap

\* ThreadPool keeps the promise of TaskPool, although a worker tests under one
\* lock and pops under another, and the destructor looks at neither queue nor
\* tasks: tasks begin in the order of enqueue(), run once, and the destructor
\* returns when none is waiting or running.
ImplementsTaskPool == Pool!Spec
=============================================================================

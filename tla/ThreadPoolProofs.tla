-------------------------- MODULE ThreadPoolProofs --------------------------
(***************************************************************************)
(* Theorems about ThreadPool, for any number of workers, producers and     *)
(* tasks.  The destructor drains because a worker returns only when the    *)
(* queue is empty and nobody can enqueue any more (Stopping), and because  *)
(* no task gets lost on the way (Nowhere).  At the end: no wakeup that     *)
(* matters is lost (WakeInv), and ThreadPool implements TaskPool.          *)
(***************************************************************************)
EXTENDS ThreadPool, Naturals, TLAPS

\* Who is between Acquire and the release owns the mutex.
Locks == \A w \in Workers : wpc[w] \in {"test", "block", "pop"} => lock = w

\* From the destructor on nobody enqueues; a worker that has returned has left
\* an empty queue behind.
Stopping ==
  /\ (stop = TRUE) => dpc # "none"
  /\ dpc # "none" => \A p \in Producers : ppc[p] = "idle"
  /\ \A w \in Workers : wpc[w] = "done" => queue = <<>> /\ dpc # "none"
  /\ dpc = "done" => \A w \in Workers : wpc[w] = "done"

\* A task that is to be run is somewhere.
Nowhere(t) ==
  /\ t \notin todo /\ t \notin ran /\ ~InQueue(t)
  /\ \A w \in Workers : task[w] # t
NoneLost == \A t \in Tasks : ~Nowhere(t)

\* ... and in one place only.
OnePlace ==
  /\ \A i, j \in DOMAIN queue : i # j => queue[i] # queue[j]
  /\ \A t \in todo : t \notin ran /\ ~InQueue(t)
  /\ \A t \in ran : ~InQueue(t)
  /\ \A w \in Workers : task[w] # NoTask =>
       /\ task[w] \notin todo /\ task[w] \notin ran /\ ~InQueue(task[w])
       /\ \A v \in Workers \ {w} : task[v] # task[w]
  /\ \A w \in Workers : wpc[w] = "run" <=> task[w] # NoTask

Inv == DataTypes /\ Locks /\ PopFindsTask /\ Stopping /\ NoneLost /\ OnePlace

LEMMA AppendFacts ==
  ASSUME NEW s \in Seq(Tasks), NEW t \in Tasks
  PROVE  /\ Append(s, t) \in Seq(Tasks)
         /\ Append(s, t) # <<>>
         /\ \A u : (\E i \in DOMAIN Append(s, t) : Append(s, t)[i] = u)
                   <=> u = t \/ \E i \in DOMAIN s : s[i] = u
         /\ (\A i, j \in DOMAIN s : i # j => s[i] # s[j]) /\ t \notin {s[i] : i \in DOMAIN s} =>
              \A i, j \in DOMAIN Append(s, t) :
                i # j => Append(s, t)[i] # Append(s, t)[j]
  OBVIOUS

LEMMA TailFacts ==
  ASSUME NEW s \in Seq(Tasks), s # <<>>
  PROVE  /\ Tail(s) \in Seq(Tasks) /\ Head(s) \in Tasks
         /\ \E i \in DOMAIN s : s[i] = Head(s)
         /\ \A u : (\E i \in DOMAIN s : s[i] = u)
                   <=> u = Head(s) \/ \E i \in DOMAIN Tail(s) : Tail(s)[i] = u
         /\ (\A i, j \in DOMAIN s : i # j => s[i] # s[j]) =>
              /\ \A i, j \in DOMAIN Tail(s) : i # j => Tail(s)[i] # Tail(s)[j]
              /\ \A i \in DOMAIN Tail(s) : Tail(s)[i] # Head(s)
<1>1. /\ Len(s) \in Nat /\ Len(s) > 0 /\ DOMAIN s = 1 .. Len(s)
      /\ Tail(s) \in Seq(Tasks) /\ Head(s) \in Tasks /\ Head(s) = s[1]
  OBVIOUS
<1>2. /\ DOMAIN Tail(s) = 1 .. (Len(s) - 1)
      /\ \A i \in 1 .. (Len(s) - 1) : Tail(s)[i] = s[i + 1]
  BY <1>1
<1>3. \A i \in 2 .. Len(s) : i - 1 \in DOMAIN Tail(s) /\ Tail(s)[i - 1] = s[i]
  BY <1>1, <1>2
<1>4. ASSUME NEW u PROVE (\E i \in DOMAIN s : s[i] = u)
                   <=> u = Head(s) \/ \E i \in DOMAIN Tail(s) : Tail(s)[i] = u
  <2>1. ASSUME NEW i \in DOMAIN s, s[i] = u, u # Head(s)
        PROVE  \E j \in DOMAIN Tail(s) : Tail(s)[j] = u
    <3>1. i \in 2 .. Len(s)
      BY <1>1, <2>1
    <3> QED
      BY <1>3, <2>1, <3>1
  <2>2. ASSUME NEW i \in DOMAIN Tail(s), Tail(s)[i] = u
        PROVE  \E j \in DOMAIN s : s[j] = u
    <3>1. i + 1 \in DOMAIN s /\ s[i + 1] = u
      BY <1>1, <1>2, <2>2
    <3> QED
      BY <3>1
  <2>3. 1 \in DOMAIN s
    BY <1>1
  <2> QED
    BY <1>1, <2>1, <2>2, <2>3
<1>5. ASSUME \A i, j \in DOMAIN s : i # j => s[i] # s[j]
      PROVE  /\ \A i, j \in DOMAIN Tail(s) : i # j => Tail(s)[i] # Tail(s)[j]
             /\ \A i \in DOMAIN Tail(s) : Tail(s)[i] # Head(s)
  BY <1>1, <1>2, <1>5
<1>6. \E i \in DOMAIN s : s[i] = Head(s)
  BY <1>1
<1> QED
  BY <1>1, <1>4, <1>5, <1>6

LEMMA InvInit == Init => Inv
<1> SUFFICES ASSUME Init PROVE Inv
  OBVIOUS
<1>1. DataTypes
  BY DEF Init, DataTypes
<1>2. Locks /\ PopFindsTask /\ Stopping
  BY DEF Init, Locks, PopFindsTask, Stopping
<1>3. NoneLost
  BY DEF Init, NoneLost, Nowhere
<1>4. \A t : ~InQueue(t)
  BY DEF Init, InQueue
<1>5. OnePlace
  BY <1>4 DEF Init, OnePlace
<1> QED
  BY <1>1, <1>2, <1>3, <1>5 DEF Inv

\* Every action but three leaves the tasks where they are.
LEMMA SameTasks ==
  ASSUME NoneLost, OnePlace, UNCHANGED <<queue, todo, ran, task>>,
         \A w \in Workers : wpc'[w] = "run" <=> wpc[w] = "run"
  PROVE  NoneLost' /\ OnePlace'
<1>1. \A t : InQueue(t)' <=> InQueue(t)
  BY DEF InQueue
<1>2. NoneLost'
  BY <1>1 DEF NoneLost, Nowhere
<1>3. OnePlace'
  BY <1>1 DEF OnePlace
<1> QED
  BY <1>2, <1>3

LEMMA PushStep ==
  ASSUME Inv, NEW p \in Producers, NEW t \in Tasks, Push(p, t) PROVE Inv'
<1> USE DEF Inv
<1>0. queue \in Seq(Tasks) /\ queue' = Append(queue, t)
  BY DEF Push, DataTypes
<1>1. \A u : InQueue(u)' <=> u = t \/ InQueue(u)
  BY <1>0, AppendFacts DEF InQueue
<1>2. queue' \in Seq(Tasks) /\ queue' # <<>>
  BY <1>0, AppendFacts
<1>3. DataTypes' /\ Locks' /\ PopFindsTask' /\ Stopping'
  BY <1>2 DEF Push, DataTypes, Locks, PopFindsTask, Stopping
<1>4. NoneLost'
  BY <1>1 DEF Push, NoneLost, Nowhere
<1>5. ~InQueue(t)
  BY DEF Push, OnePlace
<1>6. \A i, j \in DOMAIN queue' : i # j => queue'[i] # queue'[j]
  BY <1>0, <1>5, AppendFacts DEF OnePlace, InQueue
<1>7. OnePlace'
  BY <1>1, <1>6 DEF Push, OnePlace, DataTypes
<1> QED
  BY <1>3, <1>4, <1>7

LEMMA PopStep ==
  ASSUME Inv, NEW w \in Workers, Pop(w) PROVE Inv'
<1> USE DEF Inv
<1>0. queue \in Seq(Tasks) /\ queue # <<>> /\ lock = w
  BY DEF Pop, PopFindsTask, Locks, DataTypes
<1>1. PICK h \in Tasks : h = Head(queue)
  BY <1>0, TailFacts
<1>2. /\ queue' = Tail(queue) /\ task' = [task EXCEPT ![w] = h]
      /\ wpc' = [wpc EXCEPT ![w] = "run"]
      /\ wpc[w] = "pop" /\ UNCHANGED <<todo, ran, stop, ppc, dpc>>
  BY <1>0, <1>1 DEF Pop
<1>3. \A u : InQueue(u) <=> u = h \/ InQueue(u)'
  <2>1. \A u : (\E i \in DOMAIN queue : queue[i] = u)
               <=> u = Head(queue) \/ \E i \in DOMAIN Tail(queue) : Tail(queue)[i] = u
    BY <1>0, TailFacts
  <2> QED
    BY <1>1, <1>2, <2>1 DEF InQueue
<1>4. /\ \A i, j \in DOMAIN queue' : i # j => queue'[i] # queue'[j]
      /\ ~InQueue(h)'
  <2>1. \A i, j \in DOMAIN queue : i # j => queue[i] # queue[j]
    BY DEF OnePlace
  <2>2. /\ \A i, j \in DOMAIN Tail(queue) :
              i # j => Tail(queue)[i] # Tail(queue)[j]
        /\ \A i \in DOMAIN Tail(queue) : Tail(queue)[i] # Head(queue)
    BY <1>0, <2>1, TailFacts
  <2> QED
    BY <1>1, <1>2, <2>2 DEF InQueue
<1>5. task[w] = NoTask
  BY <1>2, TaskAssumption DEF OnePlace, DataTypes
<1>6. DataTypes'
  BY <1>0, <1>2, TailFacts DEF Pop, DataTypes
<1>7. Locks' /\ PopFindsTask' /\ Stopping'
  BY <1>0, <1>2, WorkerAssumption
     DEF Pop, DataTypes, Locks, PopFindsTask, Stopping
<1>8. NoneLost'
  BY <1>2, <1>3, <1>5, TaskAssumption DEF NoneLost, Nowhere, DataTypes
<1>9. h \notin todo /\ h \notin ran /\ \A v \in Workers : task[v] # h
  BY <1>3, TaskAssumption DEF OnePlace, DataTypes
<1>10. OnePlace'
  BY <1>2, <1>3, <1>4, <1>9, TaskAssumption DEF OnePlace, DataTypes
<1> QED
  BY <1>6, <1>7, <1>8, <1>10

LEMMA FinishStep ==
  ASSUME Inv, NEW w \in Workers, Finish(w) PROVE Inv'
<1> USE DEF Inv
<1>1. task[w] \in Tasks
  BY DEF Finish, OnePlace, DataTypes
<1>2. \A u : InQueue(u)' <=> InQueue(u)
  BY DEF Finish, InQueue
<1>3. DataTypes' /\ Locks' /\ PopFindsTask' /\ Stopping'
  BY <1>1 DEF Finish, DataTypes, Locks, PopFindsTask, Stopping
<1>4. NoneLost'
  BY <1>1, <1>2 DEF Finish, NoneLost, Nowhere, DataTypes
<1>5. OnePlace'
  BY <1>1, <1>2, TaskAssumption DEF Finish, OnePlace, DataTypes
<1> QED
  BY <1>3, <1>4, <1>5

LEMMA InvStep == Inv /\ [Next]_vars => Inv'
<1> SUFFICES ASSUME Inv, [Next]_vars PROVE Inv'
  OBVIOUS
<1> USE WorkerAssumption DEF Inv, DataTypes, Locks, PopFindsTask, Stopping
<1>1. ASSUME NEW p \in Producers, NEW t \in Tasks, Push(p, t) PROVE Inv'
  BY <1>1, PushStep
<1>2. ASSUME NEW p \in Producers, NotifyOne(p) PROVE Inv'
  BY <1>2, SameTasks DEF NotifyOne, Sleeping
<1>3. ASSUME NEW w \in Workers, Pop(w) PROVE Inv'
  BY <1>3, PopStep
<1>4. ASSUME NEW w \in Workers, Finish(w) PROVE Inv'
  BY <1>4, FinishStep
<1>5. ASSUME NEW w \in Workers, Acquire(w) PROVE Inv'
  BY <1>5, SameTasks DEF Acquire
<1>6. ASSUME NEW w \in Workers, TestFails(w) PROVE Inv'
  BY <1>6, SameTasks DEF TestFails
<1>7. ASSUME NEW w \in Workers, Sleep(w) PROVE Inv'
  BY <1>7, SameTasks DEF Sleep
<1>8. ASSUME NEW w \in Workers, SpuriousWakeup(w) PROVE Inv'
  BY <1>8, SameTasks DEF SpuriousWakeup
<1>9. ASSUME NEW w \in Workers, Leave(w) PROVE Inv'
  BY <1>9, SameTasks DEF Leave
<1>10. ASSUME NEW w \in Workers, TestSucceeds(w) PROVE Inv'
  BY <1>10, SameTasks DEF TestSucceeds
<1>11. CASE SetStop
  BY <1>11, SameTasks DEF SetStop
<1>12. CASE NotifyAll
  BY <1>12, SameTasks DEF NotifyAll, Sleeping
<1>13. CASE Join
  BY <1>13, SameTasks DEF Join
<1>14. CASE UNCHANGED vars
  BY <1>14, SameTasks DEF vars
<1> QED
  BY <1>1, <1>2, <1>3, <1>4, <1>5, <1>6, <1>7, <1>8, <1>9, <1>10, <1>11,
     <1>12, <1>13, <1>14 DEF Next, WorkerProgress

LEMMA Invariance == Spec => []Inv
  BY InvInit, InvStep, PTL DEF Spec

Flag == stop \in BOOLEAN

\* The type invariant, for any workers, producers and tasks.
THEOREM TypeCorrect == Spec => []TypeOK
<1>1. Init => Flag
  BY DEF Init, Flag
<1>2. Flag /\ [Next]_vars => Flag'
  BY DEF Flag, Next, WorkerProgress, Push, NotifyOne, Pop, Finish, Acquire,
     TestFails, Sleep, SpuriousWakeup, Leave, TestSucceeds, SetStop, NotifyAll,
     Join, vars
<1>3. Inv /\ Flag => TypeOK
  BY DEF Inv, Flag, TypeOK
<1> QED
  BY <1>1, <1>2, <1>3, Invariance, PTL DEF Spec

\* The destructor of a pool with at least one worker returns only when every
\* enqueued task has run.
THEOREM Drains == Spec => []DestructorDrains
<1>1. Inv => DestructorDrains
  <2> SUFFICES ASSUME Inv, dpc = "done" PROVE todo \cup ran = Tasks
    BY DEF DestructorDrains
  <2>1. PICK w \in Workers : wpc[w] = "done" /\ queue = <<>>
    BY WorkerAssumption DEF Inv, Stopping
  <2>2. \A t : ~InQueue(t)
    BY <2>1 DEF InQueue
  <2>3. \A v \in Workers : task[v] = NoTask
    BY DEF Inv, Stopping, OnePlace
  <2> QED
    BY <2>2, <2>3, TaskAssumption DEF Inv, DataTypes, NoneLost, Nowhere
<1> QED
  BY <1>1, Invariance, PTL

\* A worker finds the task it has seen.
THEOREM PopSucceeds == Spec => []PopFindsTask
  BY Invariance, PTL DEF Inv

\* No task runs twice, or on two workers.
THEOREM RunsOnce == Spec => []RunOnce
<1>1. Inv => RunOnce
  BY DEF Inv, OnePlace, RunOnce
<1> QED
  BY <1>1, Invariance, PTL

-----------------------------------------------------------------------------
(* Wakeups.  What makes the unlocked notification of enqueue() harmless is *)
(* that only one worker at a time can be between its failed test and its   *)
(* wait (Locks): another one sleeps, and is woken, or is awake.            *)

Awake(w) == ~Asleep(w) /\ wpc[w] # "done"

WakeInv ==
  /\ dpc # "none" => (stop = TRUE) /\ \A w \in Workers : wpc[w] # "block"
  /\ NobodySleepsOnWork

\* The notification: a sleeping worker is woken, or the second worker is awake.
LEMMA NotifyStep ==
  ASSUME Inv, WakeInv, NEW p \in Producers, NotifyOne(p) PROVE WakeInv'
<1> USE DEF Inv, DataTypes
<1>1. /\ UNCHANGED <<queue, todo, ran, stop, lock, task, dpc>>
      /\ \/ \E w \in Sleeping : wpc' = [wpc EXCEPT ![w] = "woken"]
         \/ Sleeping = {} /\ UNCHANGED wpc
  BY DEF NotifyOne
<1>2. ASSUME dpc # "none"
      PROVE  (stop' = TRUE) /\ \A w \in Workers : wpc'[w] # "block"
  BY <1>1, <1>2 DEF WakeInv, Sleeping
<1>3. ASSUME queue # <<>>, NEW v \in Workers, NEW w \in Workers, v # w
      PROVE  \E u \in Workers : Awake(u)'
  <2>1. CASE \E u \in Sleeping : wpc' = [wpc EXCEPT ![u] = "woken"]
    BY <2>1 DEF Awake, Asleep, Sleeping
  <2>2. CASE Sleeping = {} /\ UNCHANGED wpc
    <3>1. \A u \in Workers : wpc[u] # "waiting" /\ wpc[u] # "done"
      BY <1>3, <2>2 DEF Sleeping, Stopping
    <3>2. wpc[v] # "block" \/ wpc[w] # "block"
      BY <1>3 DEF Locks
    <3> QED
      BY <2>2, <3>1, <3>2 DEF Awake, Asleep
  <2> QED
    BY <1>1, <2>1, <2>2
<1>4. ASSUME dpc \in {"join", "done"}, NEW u \in Workers PROVE ~Asleep(u)'
  BY <1>1, <1>4 DEF WakeInv, NobodySleepsOnWork, Asleep, Sleeping
<1> QED
  BY <1>1, <1>2, <1>3, <1>4 DEF WakeInv, NobodySleepsOnWork, Awake

\* A worker that does not go to sleep, and returns only when the queue is
\* empty, leaves the wakeups in order.
LEMMA AwakeStep ==
  ASSUME WakeInv, Inv, NEW w \in Workers, NEW s, s \notin {"waiting", "block"},
         s = "done" => queue = <<>>,
         wpc' = [wpc EXCEPT ![w] = s],
         UNCHANGED <<stop, ppc, dpc>>, queue # <<>> \/ queue' = queue
  PROVE  WakeInv'
<1> USE DEF Inv, DataTypes
<1>1. Awake(w)' \/ queue = <<>>
  BY DEF Awake, Asleep
<1>2. \A u \in Workers \ {w} : wpc'[u] = wpc[u]
  OBVIOUS
<1>3. ASSUME queue' # <<>>, \A p \in Producers : ppc'[p] = "idle",
             \E u, v \in Workers : u # v
      PROVE  \E u \in Workers : Awake(u)'
  <2>1. queue # <<>>
    BY <1>3
  <2> QED
    BY <1>1, <2>1
<1>4. ASSUME dpc \in {"join", "done"}, NEW u \in Workers PROVE ~Asleep(u)'
  BY <1>4, <1>2 DEF WakeInv, NobodySleepsOnWork, Asleep
<1>5. ASSUME dpc # "none"
      PROVE  (stop' = TRUE) /\ \A u \in Workers : wpc'[u] # "block"
  BY <1>5, <1>2 DEF WakeInv
<1> QED
  BY <1>3, <1>4, <1>5 DEF WakeInv, NobodySleepsOnWork, Awake

LEMMA WakeStep == Inv /\ WakeInv /\ [Next]_vars => WakeInv'
<1> SUFFICES ASSUME Inv, WakeInv, [Next]_vars PROVE WakeInv'
  OBVIOUS
<1> USE DEF WakeInv, NobodySleepsOnWork, Asleep
<1>1. ASSUME NEW p \in Producers, NEW t \in Tasks, Push(p, t) PROVE WakeInv'
  BY <1>1 DEF Push, Inv, DataTypes
<1>2. ASSUME NEW p \in Producers, NotifyOne(p) PROVE WakeInv'
  BY <1>2, NotifyStep
<1>3. ASSUME NEW w \in Workers, Pop(w) PROVE WakeInv'
  BY <1>3, AwakeStep DEF Pop
<1>4. ASSUME NEW w \in Workers, Finish(w) PROVE WakeInv'
  BY <1>4, AwakeStep DEF Finish
<1>5. ASSUME NEW w \in Workers, Acquire(w) PROVE WakeInv'
  BY <1>5, AwakeStep DEF Acquire
<1>6. ASSUME NEW w \in Workers, TestFails(w) PROVE WakeInv'
  BY <1>6 DEF TestFails, Inv, DataTypes
<1>7. ASSUME NEW w \in Workers, Sleep(w) PROVE WakeInv'
  BY <1>7 DEF Sleep, Inv, DataTypes
<1>8. ASSUME NEW w \in Workers, SpuriousWakeup(w) PROVE WakeInv'
  BY <1>8, AwakeStep DEF SpuriousWakeup
<1>9. ASSUME NEW w \in Workers, Leave(w) PROVE WakeInv'
  BY <1>9, AwakeStep DEF Leave
<1>10. ASSUME NEW w \in Workers, TestSucceeds(w) PROVE WakeInv'
  BY <1>10, AwakeStep DEF TestSucceeds
<1>11. CASE SetStop
  BY <1>11, WorkerAssumption DEF SetStop, Inv, Locks
<1>12. CASE NotifyAll
  BY <1>12 DEF NotifyAll, Sleeping, Inv, DataTypes
<1>13. CASE Join
  BY <1>13 DEF Join
<1>14. CASE UNCHANGED vars
  BY <1>14 DEF vars
<1> QED
  BY <1>1, <1>2, <1>3, <1>4, <1>5, <1>6, <1>7, <1>8, <1>9, <1>10, <1>11,
     <1>12, <1>13, <1>14 DEF Next, WorkerProgress

\* No wakeup is lost, for any number of workers, producers and tasks.
THEOREM NoLostWakeup == Spec => []NobodySleepsOnWork
<1>1. Init => WakeInv
  BY DEF Init, WakeInv, NobodySleepsOnWork
<1>2. WakeInv => NobodySleepsOnWork
  BY DEF WakeInv
<1> QED
  BY <1>1, <1>2, WakeStep, Invariance, PTL DEF Spec

-----------------------------------------------------------------------------
(* ThreadPool implements TaskPool: Push is Submit, a Pop is Begin, Finish  *)
(* is End, SetStop and Join are the destructor's call and return, and      *)
(* every other step is a stutter.                                          *)

LEMMA PoolInit == Init => Pool!Init
  BY DEF Init, Pool!Init, phaseMap

\* Begin takes the first task: the pop finds one, and its worker has none.
LEMMA PopIsBegin ==
  ASSUME Inv, NEW w \in Workers, Pop(w) PROVE Pool!Begin(w)
<1>1. queue # <<>>
  BY DEF Pop, Inv, PopFindsTask
<1>2. task[w] = NoTask
  BY DEF Pop, Inv, OnePlace
<1> QED
  BY <1>1, <1>2 DEF Pop, Pool!Begin, phaseMap

\* The destructor returns: all workers have, so nothing waits and nothing runs.
LEMMA JoinIsCloseReturns == Inv /\ Join => Pool!CloseReturns
<1> SUFFICES ASSUME Inv, Join PROVE Pool!CloseReturns
  OBVIOUS
<1>1. queue = <<>>
  BY WorkerAssumption DEF Join, Inv, Stopping
<1>2. \A w \in Workers : task[w] = NoTask
  BY DEF Join, Inv, OnePlace
<1> QED
  BY <1>1, <1>2 DEF Join, Pool!CloseReturns, phaseMap

LEMMA PoolStep == Inv /\ [Next]_vars => [Pool!Next]_Pool!vars
<1> SUFFICES ASSUME Inv, [Next]_vars PROVE [Pool!Next]_Pool!vars
  OBVIOUS
<1> USE DEF phaseMap
<1>1. ASSUME NEW p \in Producers, NEW t \in Tasks, Push(p, t)
      PROVE  Pool!Submit(t)
  <2>1. ~Pool!Known(t)
    BY <1>1, TaskAssumption DEF Push, Inv, OnePlace, InQueue, Pool!Known
  <2> QED
    BY <1>1, <2>1 DEF Push, Pool!Submit
<1>2. ASSUME NEW w \in Workers, Pop(w) PROVE Pool!Begin(w)
  BY <1>2, PopIsBegin
<1>3. ASSUME NEW w \in Workers, Finish(w) PROVE Pool!End(w)
  BY <1>3 DEF Finish, Inv, OnePlace, Pool!End
<1>4. CASE SetStop
  BY <1>4 DEF SetStop, Pool!CloseBegins, Pool!Next
<1>5. CASE Join
  BY <1>5, JoinIsCloseReturns DEF Pool!Next
<1>6. ASSUME NEW p \in Producers, NotifyOne(p) PROVE UNCHANGED Pool!vars
  BY <1>6 DEF NotifyOne, Pool!vars
<1>7. ASSUME NEW w \in Workers,
             \/ Acquire(w) \/ TestFails(w) \/ Sleep(w) \/ Leave(w)
             \/ TestSucceeds(w) \/ SpuriousWakeup(w)
      PROVE  UNCHANGED Pool!vars
  BY <1>7 DEF Acquire, TestFails, Sleep, Leave, TestSucceeds, SpuriousWakeup,
     Pool!vars
<1>8. CASE NotifyAll
  BY <1>8 DEF NotifyAll, Pool!vars
<1>9. CASE UNCHANGED vars
  BY <1>9 DEF vars, Pool!vars
<1> QED
  BY <1>1, <1>2, <1>3, <1>4, <1>5, <1>6, <1>7, <1>8, <1>9
     DEF Next, WorkerProgress, Pool!Next

\* Tasks begin in the order of enqueue(), run once, and the destructor returns
\* when all have run: ThreadPool implements TaskPool, for any workers,
\* producers and tasks.
THEOREM PoolRefinement == Spec => ImplementsTaskPool
  BY PoolInit, PoolStep, Invariance, PTL
     DEF Spec, ImplementsTaskPool, Pool!Spec
=============================================================================

---------------------------- MODULE NativeCpuProofs ----------------------------
(***************************************************************************)
(* The thread pool and the events of the native CPU adapter, for any       *)
(* number of threads, workers, commands and tasks of a launch: an event    *)
(* that is done or deleted has its tasks executed, a pool that has stopped *)
(* has executed everything, and a finish that is alone waits for all.      *)
(***************************************************************************)
EXTENDS NativeCpu, TLAPS

UsesQueue(t) == call[t] \in Enqueues \cup {"urQueueFinish"}

Waiting == {"lock", "futures", "callback"}

\* Where a thread can be in the function it is in.
PcOK ==
  \A t \in Threads :
    /\ call[t] = "none" <=> pc[t] = "idle"
    /\ pc[t] = "create" => call[t] \in Enqueues /\ count[t] = 0
    /\ pc[t] \in {"execute", "push", "notify"} => call[t] \in Enqueues
    /\ pc[t] = "finish" => Finishing(t)
    /\ pc[t] \in Waiting \cup {"execute", "push", "notify"} =>
         ev[t] \in 1 .. created

\* The queue is used by one call at a time, so the event of a command that
\* is still to come is within the bound.
QueueOK ==
  /\ \A t, u \in Threads : UsesQueue(t) /\ UsesQueue(u) => t = u
  /\ \A t \in Threads :
       call[t] \in Enqueues /\ count[t] = 0 /\ pc[t] \in Waiting \cup {"create"}
         => created < MaxEvents

\* A worker counts its tasks, and leaves with none; the pool is complete and
\* running while somebody uses it.
WorkerOK ==
  /\ \A w \in Workers :
       /\ numTasks[w] = Len(tasks[w]) + (IF state[w] = "run" THEN 1 ELSE 0)
       /\ state[w] = "run" => task[w] \in Tasks
       /\ state[w] = "exit" => built[w] /\ ~isRunning[w] /\ tasks[w] = <<>>
  /\ \A t \in Threads : pc[t] # "idle" =>
       \A w \in Workers : built[w] /\ isRunning[w]

\* A task of an event that was made has been executed, has a worker that
\* executes it or keeps it in its queue, or is still to be scheduled.
Executing(w, x) == state[w] = "run" /\ task[w] = x
Queued(w, x) == \E j \in DOMAIN tasks[w] : tasks[w][j] = x
ToCome(t, e, i) ==
  /\ ev[t] = e
  /\ pc[t] = "execute" \/ (pc[t] \in {"push", "notify"} /\ count[t] < i)

Somewhere(e, i) ==
  \/ <<e, i>> \in ran
  \/ \E w \in Workers : Executing(w, <<e, i>>) \/ Queued(w, <<e, i>>)
  \/ \E t \in Threads : ToCome(t, e, i)

NoTaskLost == \A e \in 1 .. created, i \in 1 .. NumTasks : Somewhere(e, i)

\* An event that is done has its tasks executed and has left the queue; one
\* that is deleted is done.
EventsOK ==
  /\ \A e \in done : \A i \in 1 .. NumTasks : <<e, i>> \in ran
  /\ 1 .. created \ alive \subseteq done
  /\ done \subseteq 1 .. created
  /\ held \subseteq 1 .. created
  /\ events \subseteq 1 .. created
  /\ done \cap events = {}
  /\ \A t \in Threads :
       call[t] = "urEventRelease" /\ pc[t] \in {"callback", "return"} =>
         ev[t] \in done

\* An event that left its queue has its end time, or somebody is about to
\* record it.
EndRecorded ==
  \A e \in 1 .. created \ events :
    e \in ended \/ \E t \in Threads : pc[t] = "callback" /\ ev[t] = e

\* A finish that is alone: nobody else is in a call, the event it waits for
\* is alive, and the queue is empty when it ends.
FinishOK ==
  FinishAlone =>
    \A t \in Threads : Finishing(t) =>
      /\ \A u \in Threads \ {t} : call[u] = "none"
      /\ pc[t] = "lock" => ev[t] \in alive
      /\ pc[t] = "return" => events = {}

IInv ==
  /\ TypeOK /\ PcOK /\ QueueOK /\ WorkerOK /\ NoTaskLost /\ EventsOK
  /\ EndRecorded /\ FinishOK

USE DEF Finishing

\* No task is lost when those with a worker, and those still to be scheduled,
\* are so after the step or have been dealt with.
LEMMA NothingLost ==
  ASSUME NoTaskLost, created' = created, ran \subseteq ran',
         \A e \in 1 .. created, i \in 1 .. NumTasks :
           /\ \A w \in Workers :
                Executing(w, <<e, i>>) \/ Queued(w, <<e, i>>) => Somewhere(e, i)'
           /\ \A t \in Threads : ToCome(t, e, i) => Somewhere(e, i)'
  PROVE  NoTaskLost'
<1> SUFFICES ASSUME NEW e \in 1 .. created, NEW i \in 1 .. NumTasks
             PROVE  Somewhere(e, i)'
  BY Zenon DEF NoTaskLost
<1>1. Somewhere(e, i)
  BY Zenon DEF NoTaskLost
<1> QED
  BY Zenon, <1>1 DEF Somewhere

\* The case of a step that touches no task.
LEMMA TasksKept ==
  ASSUME NoTaskLost, UNCHANGED <<created, ran, tasks>>,
         \A w \in Workers : state[w] = "run" => state'[w] = "run" /\ task'[w] = task[w],
         \A t \in Threads, e \in 1 .. created, i \in 1 .. NumTasks :
           ToCome(t, e, i) => ToCome(t, e, i)'
  PROVE  NoTaskLost'
<1>1. ASSUME NEW w \in Workers, NEW x
      PROVE  /\ Executing(w, x) => Executing(w, x)'
             /\ Queued(w, x) => Queued(w, x)'
  BY Zenon DEF Executing, Queued
<1> QED
  BY Zenon, <1>1, NothingLost DEF Somewhere

\* What the tasks of a worker are, and what is left when it takes one.
LEMMA TakeTask ==
  ASSUME TypeOK, NEW w \in Workers
  PROVE  /\ tasks[w] \in Seq(Tasks)
         /\ Len(tasks[w]) \in Nat
         /\ DOMAIN tasks[w] = 1 .. Len(tasks[w])
         /\ tasks[w] # <<>> =>
              /\ Len(tasks[w]) > 0
              /\ Head(tasks[w]) \in Tasks /\ Head(tasks[w]) = tasks[w][1]
              /\ Tail(tasks[w]) \in Seq(Tasks)
              /\ Len(Tail(tasks[w])) = Len(tasks[w]) - 1
              /\ \A j \in 2 .. Len(tasks[w]) :
                   /\ j - 1 \in DOMAIN Tail(tasks[w])
                   /\ Tail(tasks[w])[j - 1] = tasks[w][j]
         /\ \A x \in Tasks :
              /\ Append(tasks[w], x) \in Seq(Tasks)
              /\ Len(Append(tasks[w], x)) = Len(tasks[w]) + 1
              /\ DOMAIN Append(tasks[w], x) = 1 .. Len(tasks[w]) + 1
              /\ Append(tasks[w], x)[Len(tasks[w]) + 1] = x
              /\ \A j \in DOMAIN tasks[w] : Append(tasks[w], x)[j] = tasks[w][j]
<1>1. tasks[w] \in Seq(Tasks)
  BY Zenon DEF TypeOK
<1> QED
  BY <1>1


\* The thread of a worker starts.
LEMMA ConstructKeeps ==
  ASSUME IInv, NEW w \in Workers, Construct(w)
  PROVE  IInv'
<1> USE NativeCpuAssumption DEF IInv, Construct, workerVars, eventVars, threadVars
<1>1. TypeOK'
  BY Zenon DEF TypeOK, PcOK, QueueOK, WorkerOK, States, PCs, Functions, Enqueues, Events,
               NoEvent, Tasks, NoTask
<1>2. PcOK'
  BY Zenon DEF TypeOK, PcOK, QueueOK, EventsOK, Waiting, Finishing, Enqueues, Functions, Events
<1>3. QueueOK'
  BY Zenon DEF TypeOK, PcOK, QueueOK, UsesQueue, Waiting, Enqueues, Functions
<1>4. WorkerOK'
  BY DEF TypeOK, PcOK, WorkerOK, States, Tasks, NoTask, PCs, Events
<1>5. NoTaskLost'
  <2>1. \A u \in Workers : state[u] = "run" => state'[u] = "run" /\ task'[u] = task[u]
    BY Zenon DEF TypeOK
  <2>2. \A u \in Threads, d \in 1 .. created, i \in 1 .. NumTasks :
          ToCome(u, d, i) => ToCome(u, d, i)'
    BY Zenon DEF TypeOK, PcOK, ToCome
  <2> QED
    BY Zenon, <2>1, <2>2, TasksKept
<1>6. EventsOK'
  BY Zenon DEF TypeOK, PcOK, EventsOK, Waiting, Events, Tasks
<1>7. EndRecorded'
  BY Zenon DEF TypeOK, PcOK, EndRecorded, EventsOK, Waiting, Events
<1>8. FinishOK'
  BY Zenon DEF TypeOK, PcOK, FinishOK, EventsOK, Finishing, Enqueues, Waiting
<1> QED
  BY Zenon, <1>1, <1>2, <1>3, <1>4, <1>5, <1>6, <1>7, <1>8

\* The constructor of a worker returns.
LEMMA ConstructedKeeps ==
  ASSUME IInv, NEW w \in Workers, Constructed(w)
  PROVE  IInv'
<1> USE NativeCpuAssumption DEF IInv, Constructed, workerVars, eventVars, threadVars
<1>1. TypeOK'
  BY Zenon DEF TypeOK, PcOK, QueueOK, WorkerOK, States, PCs, Functions, Enqueues, Events,
               NoEvent, Tasks, NoTask
<1>2. PcOK'
  BY Zenon DEF TypeOK, PcOK, QueueOK, EventsOK, Waiting, Finishing, Enqueues, Functions, Events
<1>3. QueueOK'
  BY Zenon DEF TypeOK, PcOK, QueueOK, UsesQueue, Waiting, Enqueues, Functions
<1>4. WorkerOK'
  BY DEF TypeOK, PcOK, WorkerOK, States, Tasks, NoTask, PCs, Events
<1>5. NoTaskLost'
  <2>1. \A u \in Workers : state[u] = "run" => state'[u] = "run" /\ task'[u] = task[u]
    BY Zenon DEF TypeOK
  <2>2. \A u \in Threads, d \in 1 .. created, i \in 1 .. NumTasks :
          ToCome(u, d, i) => ToCome(u, d, i)'
    BY Zenon DEF TypeOK, PcOK, ToCome
  <2> QED
    BY Zenon, <2>1, <2>2, TasksKept
<1>6. EventsOK'
  BY Zenon DEF TypeOK, PcOK, EventsOK, Waiting, Events, Tasks
<1>7. EndRecorded'
  BY Zenon DEF TypeOK, PcOK, EndRecorded, EventsOK, Waiting, Events
<1>8. FinishOK'
  BY Zenon DEF TypeOK, PcOK, FinishOK, EventsOK, Finishing, Enqueues, Waiting
<1> QED
  BY Zenon, <1>1, <1>2, <1>3, <1>4, <1>5, <1>6, <1>7, <1>8

\* A worker wakes up for no reason.
LEMMA SpuriousWakeupKeeps ==
  ASSUME IInv, NEW w \in Workers, SpuriousWakeup(w)
  PROVE  IInv'
<1> USE NativeCpuAssumption DEF IInv, SpuriousWakeup, workerVars, eventVars, threadVars
<1>1. TypeOK'
  BY Zenon DEF TypeOK, PcOK, QueueOK, WorkerOK, States, PCs, Functions, Enqueues, Events,
               NoEvent, Tasks, NoTask
<1>2. PcOK'
  BY Zenon DEF TypeOK, PcOK, QueueOK, EventsOK, Waiting, Finishing, Enqueues, Functions, Events
<1>3. QueueOK'
  BY Zenon DEF TypeOK, PcOK, QueueOK, UsesQueue, Waiting, Enqueues, Functions
<1>4. WorkerOK'
  BY DEF TypeOK, PcOK, WorkerOK, States, Tasks, NoTask, PCs, Events
<1>5. NoTaskLost'
  <2>1. \A u \in Workers : state[u] = "run" => state'[u] = "run" /\ task'[u] = task[u]
    BY Zenon DEF TypeOK
  <2>2. \A u \in Threads, d \in 1 .. created, i \in 1 .. NumTasks :
          ToCome(u, d, i) => ToCome(u, d, i)'
    BY Zenon DEF TypeOK, PcOK, ToCome
  <2> QED
    BY Zenon, <2>1, <2>2, TasksKept
<1>6. EventsOK'
  BY Zenon DEF TypeOK, PcOK, EventsOK, Waiting, Events, Tasks
<1>7. EndRecorded'
  BY Zenon DEF TypeOK, PcOK, EndRecorded, EventsOK, Waiting, Events
<1>8. FinishOK'
  BY Zenon DEF TypeOK, PcOK, FinishOK, EventsOK, Finishing, Enqueues, Waiting
<1> QED
  BY Zenon, <1>1, <1>2, <1>3, <1>4, <1>5, <1>6, <1>7, <1>8

\* A worker sleeps, leaves or takes a task.
LEMMA CheckKeeps ==
  ASSUME IInv, NEW w \in Workers, Check(w)
  PROVE  IInv'
<1> USE NativeCpuAssumption DEF IInv, Check, workerVars, eventVars, threadVars, Leaves
<1>1. TypeOK'
  <2>1. state' \in [Workers -> States]
    BY Zenon DEF TypeOK, States
  <2>2. tasks' \in [Workers -> Seq(Tasks)] /\ task' \in [Workers -> Tasks \cup {NoTask}]
    <3>1. \/ UNCHANGED <<tasks, task>>
          \/ /\ tasks[w] # <<>>
             /\ task' = [task EXCEPT ![w] = Head(tasks[w])]
             /\ tasks' = [tasks EXCEPT ![w] = Tail(tasks[w])]
      BY Zenon
    <3>2. CASE UNCHANGED <<tasks, task>>
      BY Zenon, <3>2 DEF TypeOK
    <3>3. CASE /\ tasks[w] # <<>>
               /\ task' = [task EXCEPT ![w] = Head(tasks[w])]
               /\ tasks' = [tasks EXCEPT ![w] = Tail(tasks[w])]
      <4>1. Head(tasks[w]) \in Tasks /\ Tail(tasks[w]) \in Seq(Tasks)
        BY Zenon, <3>3, TakeTask
      <4> QED
        BY Zenon, <3>3, <4>1 DEF TypeOK
    <3> QED
      BY Zenon, <3>1, <3>2, <3>3
  <2> QED
    BY Zenon, <2>1, <2>2 DEF TypeOK
<1>2. PcOK'
  BY Zenon DEF TypeOK, PcOK, QueueOK, EventsOK, Waiting, Finishing, Enqueues, Functions, Events
<1>3. QueueOK'
  BY Zenon DEF TypeOK, PcOK, QueueOK, UsesQueue, Waiting, Enqueues, Functions
<1>4. WorkerOK'
  <2>1. ASSUME NEW u \in Workers
        PROVE  /\ numTasks'[u] = Len(tasks'[u]) + (IF state'[u] = "run" THEN 1 ELSE 0)
               /\ state'[u] = "run" => task'[u] \in Tasks
               /\ state'[u] = "exit" => built'[u] /\ ~isRunning'[u] /\ tasks'[u] = <<>>
    <3>1. CASE u # w
      BY <3>1 DEF TypeOK, WorkerOK
    <3>2. CASE u = w /\ tasks[w] = <<>>
      BY Zenon, <3>2 DEF TypeOK, WorkerOK
    <3>3. CASE u = w /\ tasks[w] # <<>>
      <4>1. /\ state'[w] = "run" /\ task'[w] = Head(tasks[w]) /\ tasks'[w] = Tail(tasks[w])
            /\ numTasks'[w] = numTasks[w]
        BY Zenon, <3>3 DEF TypeOK
      <4>2. numTasks[w] = Len(tasks[w]) + (IF state[w] = "run" THEN 1 ELSE 0)
        BY Zenon DEF WorkerOK
      <4>3. state[w] = "check"
        BY Zenon
      <4> QED
        BY <3>3, <4>1, <4>2, <4>3, TakeTask
    <3> QED
      BY Zenon, <3>1, <3>2, <3>3
  <2> QED
    BY Zenon, <2>1 DEF WorkerOK
<1>5. NoTaskLost'
  <2>1. ASSUME NEW u \in Workers, NEW x
        PROVE  /\ Executing(u, x) => Executing(u, x)'
               /\ Queued(u, x) => Queued(u, x)' \/ Executing(u, x)'
    <3>1. CASE u # w \/ tasks[w] = <<>>
      BY Zenon, <3>1 DEF TypeOK, Executing, Queued
    <3>2. CASE u = w /\ tasks[w] # <<>>
      <4>1. /\ state[w] = "check" /\ state'[w] = "run"
            /\ task'[w] = Head(tasks[w]) /\ tasks'[w] = Tail(tasks[w])
        BY Zenon, <3>2 DEF TypeOK
      <4>2. ASSUME NEW j \in DOMAIN tasks[w], tasks[w][j] = x
            PROVE  Queued(w, x)' \/ Executing(w, x)'
        <5>1. CASE j = 1
          BY Zenon, <3>2, <4>1, <4>2, <5>1, TakeTask DEF Executing
        <5>2. CASE j # 1
          <6>1. j - 1 \in DOMAIN Tail(tasks[w]) /\ Tail(tasks[w])[j - 1] = x
            BY <3>2, <4>2, <5>2, TakeTask
          <6> QED
            BY Zenon, <4>1, <6>1 DEF Queued
        <5> QED
          BY Zenon, <5>1, <5>2
      <4> QED
        BY Zenon, <3>2, <4>1, <4>2 DEF Executing, Queued
    <3> QED
      BY Zenon, <3>1, <3>2
  <2>2. ASSUME NEW u \in Threads, NEW d, NEW i \in 1 .. NumTasks
        PROVE  ToCome(u, d, i) => ToCome(u, d, i)'
    BY Zenon DEF TypeOK, PcOK, ToCome
  <2> QED
    BY Zenon, <2>1, <2>2, NothingLost DEF Somewhere
<1>6. EventsOK'
  BY Zenon DEF TypeOK, PcOK, EventsOK, Waiting, Events, Tasks
<1>7. EndRecorded'
  BY DEF TypeOK, PcOK, EndRecorded, EventsOK, Waiting, Events
<1>8. FinishOK'
  BY Zenon DEF TypeOK, PcOK, FinishOK, EventsOK, Finishing, Enqueues, Waiting
<1> QED
  BY Zenon, <1>1, <1>2, <1>3, <1>4, <1>5, <1>6, <1>7, <1>8

\* A worker executes its task.
LEMMA RunKeeps ==
  ASSUME IInv, NEW w \in Workers, Run(w)
  PROVE  IInv'
<1> USE NativeCpuAssumption DEF IInv, Run, workerVars, eventVars, threadVars
<1>1. TypeOK'
  <2>1. task[w] \in Tasks /\ numTasks[w] - 1 \in Nat
    BY TakeTask DEF TypeOK, WorkerOK
  <2>2. state' \in [Workers -> States]
    BY Zenon DEF TypeOK, States
  <2>3. numTasks' \in [Workers -> Nat] /\ task' \in [Workers -> Tasks \cup {NoTask}]
    BY Zenon, <2>1 DEF TypeOK
  <2> QED
    BY Zenon, <2>1, <2>2, <2>3 DEF TypeOK
<1>2. PcOK'
  BY Zenon DEF TypeOK, PcOK, QueueOK, EventsOK, Waiting, Finishing, Enqueues, Functions, Events
<1>3. QueueOK'
  BY Zenon DEF TypeOK, PcOK, QueueOK, UsesQueue, Waiting, Enqueues, Functions
<1>4. WorkerOK'
  BY DEF TypeOK, PcOK, WorkerOK, States, Tasks, NoTask, PCs, Events
<1>5. NoTaskLost'
  <2>1. ASSUME NEW u \in Workers, NEW x
        PROVE  /\ Executing(u, x) => Executing(u, x)' \/ x \in ran'
               /\ Queued(u, x) => Queued(u, x)'
    BY Zenon DEF TypeOK, Executing, Queued
  <2>2. ASSUME NEW u \in Threads, NEW d, NEW i \in 1 .. NumTasks
        PROVE  ToCome(u, d, i) => ToCome(u, d, i)'
    BY Zenon DEF TypeOK, PcOK, ToCome
  <2> QED
    BY Zenon, <2>1, <2>2, NothingLost DEF Somewhere
<1>6. EventsOK'
  BY Zenon DEF TypeOK, PcOK, EventsOK, Waiting, Events, Tasks
<1>7. EndRecorded'
  BY Zenon DEF TypeOK, PcOK, EndRecorded, EventsOK, Waiting, Events
<1>8. FinishOK'
  BY Zenon DEF TypeOK, PcOK, FinishOK, EventsOK, Finishing, Enqueues, Waiting
<1> QED
  BY Zenon, <1>1, <1>2, <1>3, <1>4, <1>5, <1>6, <1>7, <1>8

\* The destructor of the pool stops a worker.
LEMMA StopKeeps ==
  ASSUME IInv, NEW w \in Workers, Stop(w)
  PROVE  IInv'
<1> USE NativeCpuAssumption DEF IInv, Stop, workerVars, eventVars, threadVars, Woken, PoolBuilt
<1>1. TypeOK'
  BY DEF TypeOK, PcOK, QueueOK, WorkerOK, States, PCs, Functions, Enqueues, Events, NoEvent,
         Tasks, NoTask
<1>2. PcOK'
  BY Zenon DEF TypeOK, PcOK, QueueOK, EventsOK, Waiting, Finishing, Enqueues, Functions, Events
<1>3. QueueOK'
  BY Zenon DEF TypeOK, PcOK, QueueOK, UsesQueue, Waiting, Enqueues, Functions
<1>4. WorkerOK'
  BY DEF TypeOK, PcOK, WorkerOK, States, Tasks, NoTask, PCs, Events
<1>5. NoTaskLost'
  <2>1. \A u \in Workers : state[u] = "run" => state'[u] = "run" /\ task'[u] = task[u]
    BY Zenon DEF TypeOK
  <2>2. \A u \in Threads, d \in 1 .. created, i \in 1 .. NumTasks :
          ToCome(u, d, i) => ToCome(u, d, i)'
    BY Zenon DEF TypeOK, PcOK, ToCome
  <2> QED
    BY Zenon, <2>1, <2>2, TasksKept
<1>6. EventsOK'
  BY Zenon DEF TypeOK, PcOK, EventsOK, Waiting, Events, Tasks
<1>7. EndRecorded'
  BY Zenon DEF TypeOK, PcOK, EndRecorded, EventsOK, Waiting, Events
<1>8. FinishOK'
  BY Zenon DEF TypeOK, PcOK, FinishOK, EventsOK, Finishing, Enqueues, Waiting
<1> QED
  BY Zenon, <1>1, <1>2, <1>3, <1>4, <1>5, <1>6, <1>7, <1>8

\* A command begins.
LEMMA EnqueueKeeps ==
  ASSUME IInv, NEW t \in Threads, NEW f \in Enqueues, Enqueue(t, f)
  PROVE  IInv'
<1> USE NativeCpuAssumption DEF IInv, Enqueue, workerVars, eventVars, threadVars, Begin,
                                Usable, PoolBuilt, PoolStopped, QueueFree, EventFree
<1>1. TypeOK'
  <2>1. pc' \in [Threads -> PCs]
    BY Zenon DEF TypeOK, PCs
  <2>4. call' \in [Threads -> Functions]
    <3>1. call' = [call EXCEPT ![t] = f] /\ f \in Functions
      BY Zenon DEF Functions
    <3> QED
      BY Zenon, <3>1 DEF TypeOK
  <2>2. ev' \in [Threads -> Events \cup {NoEvent}]
    <3>1. PICK e \in Events \cup {NoEvent} : ev' = [ev EXCEPT ![t] = e]
      BY Zenon DEF TypeOK
    <3>2. ev \in [Threads -> Events \cup {NoEvent}]
      BY Zenon DEF TypeOK
    <3> QED
      BY ONLY Zenon, <3>1, <3>2
  <2>3. count' \in [Threads -> 0 .. NumTasks]
    <3>1. 0 \in 0 .. NumTasks
      OBVIOUS
    <3> QED
      BY Zenon, <3>1 DEF TypeOK
  <2> QED
    BY Zenon, <2>1, <2>2, <2>3, <2>4 DEF TypeOK
<1>2. PcOK'
  BY DEF TypeOK, PcOK, QueueOK, EventsOK, Waiting, Finishing, Enqueues, Functions, Events
<1>3. QueueOK'
  BY DEF TypeOK, PcOK, QueueOK, UsesQueue, Waiting, Enqueues, Functions
<1>4. WorkerOK'
  BY Zenon DEF TypeOK, PcOK, WorkerOK, States, Tasks, NoTask, PCs, Events
<1>5. NoTaskLost'
  <2>1. \A u \in Workers : state[u] = "run" => state'[u] = "run" /\ task'[u] = task[u]
    BY Zenon DEF TypeOK
  <2>2. \A u \in Threads, d \in 1 .. created, i \in 1 .. NumTasks :
          ToCome(u, d, i) => ToCome(u, d, i)'
    BY Zenon DEF TypeOK, PcOK, ToCome
  <2> QED
    BY Zenon, <2>1, <2>2, TasksKept
<1>6. EventsOK'
  <2>1. UNCHANGED <<ran, created, alive, done, ended, events, held>>
    BY Zenon
  <2>2. \A u \in Threads :
          call'[u] = "urEventRelease" /\ pc'[u] \in {"callback", "return"} =>
            u # t /\ call[u] = call'[u] /\ pc[u] = pc'[u] /\ ev[u] = ev'[u]
    BY DEF TypeOK, Enqueues
  <2> QED
    BY Zenon, <2>1, <2>2 DEF EventsOK
<1>7. EndRecorded'
  <2>1. UNCHANGED <<created, ended, events>>
    BY Zenon
  <2>2. \A u \in Threads : pc[u] = "callback" => pc'[u] = "callback" /\ ev'[u] = ev[u]
    BY DEF TypeOK, PcOK
  <2> QED
    BY <2>1, <2>2 DEF EndRecorded
<1>8. FinishOK'
  BY DEF TypeOK, PcOK, FinishOK, EventsOK, Finishing, Enqueues, Waiting
<1> QED
  BY Zenon, <1>1, <1>2, <1>3, <1>4, <1>5, <1>6, <1>7, <1>8

\* The event of a command is made.
LEMMA CreateEventKeeps ==
  ASSUME IInv, NEW t \in Threads, CreateEvent(t)
  PROVE  IInv'
<1> USE NativeCpuAssumption DEF IInv, CreateEvent, workerVars, eventVars, threadVars, Goto
<1>1. TypeOK'
  <2>1. created' \in 0 .. MaxEvents /\ created' \in Events
    <3>1. created \in 0 .. MaxEvents /\ created < MaxEvents /\ created' = created + 1
      BY Zenon DEF TypeOK, PcOK, QueueOK
    <3> QED
      BY ONLY NativeCpuAssumption, <3>1 DEF NativeCpuAssumption, Events
  <2>2. alive' \subseteq Events /\ events' \subseteq Events
    BY Zenon, <2>1 DEF TypeOK
  <2>3. ev' \in [Threads -> Events \cup {NoEvent}]
    BY Zenon, <2>1 DEF TypeOK
  <2>4. pc' \in [Threads -> PCs]
    BY Zenon DEF TypeOK, PCs
  <2> QED
    BY Zenon, <2>1, <2>2, <2>3, <2>4 DEF TypeOK
<1>2. PcOK'
  BY DEF TypeOK, PcOK, QueueOK, EventsOK, Waiting, Finishing, Enqueues, Functions, Events
<1>3. QueueOK'
  BY Zenon DEF TypeOK, PcOK, QueueOK, UsesQueue, Waiting, Enqueues, Functions
<1>4. WorkerOK'
  BY Zenon DEF TypeOK, PcOK, WorkerOK, States, Tasks, NoTask, PCs, Events
<1>5. NoTaskLost'
  <2>1. ASSUME NEW u \in Workers, NEW x
        PROVE  /\ Executing(u, x) => Executing(u, x)'
               /\ Queued(u, x) => Queued(u, x)'
    BY Zenon DEF TypeOK, Executing, Queued
  <2>2. ASSUME NEW u \in Threads, NEW d, NEW i \in 1 .. NumTasks
        PROVE  ToCome(u, d, i) => ToCome(u, d, i)'
    BY Zenon DEF TypeOK, PcOK, ToCome
  <2>3. ASSUME NEW d, d = created + 1, NEW i \in 1 .. NumTasks
        PROVE  ToCome(t, d, i)'
    <3>1. ev'[t] = d /\ count'[t] = 0 /\ pc'[t] \in {"execute", "push"}
      BY Zenon, <2>3 DEF TypeOK, PcOK
    <3> QED
      BY <3>1 DEF ToCome
  <2>4. ASSUME NEW d \in 1 .. created + 1, NEW i \in 1 .. NumTasks
        PROVE  Somewhere(d, i)'
    <3>1. CASE d = created + 1
      BY Zenon, <2>3, <3>1 DEF Somewhere
    <3>2. CASE d # created + 1
      <4>1. Somewhere(d, i)
        BY <3>2 DEF NoTaskLost, TypeOK
      <4> QED
        BY Zenon, <4>1, <2>1, <2>2 DEF Somewhere
    <3> QED
      BY Zenon, <3>1, <3>2
  <2> QED
    BY Zenon, <2>4 DEF NoTaskLost
<1>6. EventsOK'
  BY DEF TypeOK, PcOK, EventsOK, Waiting, Events, Tasks
<1>7. EndRecorded'
  BY DEF TypeOK, PcOK, EndRecorded, EventsOK, Waiting, Events
<1>8. FinishOK'
  BY Zenon DEF TypeOK, PcOK, FinishOK, EventsOK, Finishing, Enqueues, Waiting
<1> QED
  BY Zenon, <1>1, <1>2, <1>3, <1>4, <1>5, <1>6, <1>7, <1>8

\* The calling thread executes a command.
LEMMA ExecuteKeeps ==
  ASSUME IInv, NEW t \in Threads, Execute(t)
  PROVE  IInv'
<1> USE NativeCpuAssumption DEF IInv, Execute, workerVars, eventVars, threadVars, Goto
<1>1. TypeOK'
  <2>1. ev[t] \in Events
    BY DEF TypeOK, PcOK, Events
  <2>2. {ev[t]} \X (1 .. NumTasks) \subseteq Tasks
    BY Zenon, <2>1 DEF Tasks
  <2>3. pc' \in [Threads -> PCs]
    BY Zenon DEF TypeOK, PCs
  <2> QED
    BY Zenon, <2>1, <2>2, <2>3 DEF TypeOK
<1>2. PcOK'
  BY Zenon DEF TypeOK, PcOK, QueueOK, EventsOK, Waiting, Finishing, Enqueues, Functions, Events
<1>3. QueueOK'
  BY Zenon DEF TypeOK, PcOK, QueueOK, UsesQueue, Waiting, Enqueues, Functions
<1>4. WorkerOK'
  BY Zenon DEF TypeOK, PcOK, WorkerOK, States, Tasks, NoTask, PCs, Events
<1>5. NoTaskLost'
  <2>1. ASSUME NEW u \in Workers, NEW x
        PROVE  /\ Executing(u, x) => Executing(u, x)'
               /\ Queued(u, x) => Queued(u, x)'
    BY Zenon DEF TypeOK, Executing, Queued
  <2>2. ASSUME NEW u \in Threads, NEW d, NEW i \in 1 .. NumTasks
        PROVE  ToCome(u, d, i) => ToCome(u, d, i)' \/ <<d, i>> \in ran'
    <3>1. CASE u = t
      BY Zenon, <3>1 DEF ToCome
    <3>2. CASE u # t
      BY Zenon, <3>2 DEF TypeOK, ToCome
    <3> QED
      BY Zenon, <3>1, <3>2
  <2> QED
    BY Zenon, <2>1, <2>2, NothingLost DEF Somewhere
<1>6. EventsOK'
  <2>1. UNCHANGED <<created, alive, done, events, call, ev>> /\ ran \subseteq ran'
    BY Zenon
  <2>2. held' \subseteq 1 .. created
    BY Zenon DEF PcOK, EventsOK
  <2>3. \A u \in Threads :
          call[u] = "urEventRelease" /\ pc'[u] \in {"callback", "return"} => pc[u] = pc'[u]
    BY Zenon DEF TypeOK, PcOK, Enqueues
  <2> QED
    BY Zenon, <2>1, <2>2, <2>3 DEF EventsOK
<1>7. EndRecorded'
  BY Zenon DEF TypeOK, PcOK, EndRecorded, EventsOK, Waiting, Events
<1>8. FinishOK'
  BY Zenon DEF TypeOK, PcOK, FinishOK, EventsOK, Finishing, Enqueues, Waiting
<1> QED
  BY Zenon, <1>1, <1>2, <1>3, <1>4, <1>5, <1>6, <1>7, <1>8

\* A task is scheduled on a worker.
LEMMA PushKeeps ==
  ASSUME IInv, NEW t \in Threads, NEW w \in Workers, Push(t, w)
  PROVE  IInv'
<1> USE NativeCpuAssumption DEF IInv, Push, workerVars, eventVars, threadVars, Goto
<1>1. TypeOK'
  <2>1. <<ev[t], count[t] + 1>> \in Tasks
    BY DEF TypeOK, PcOK, Tasks, Events
  <2>2. tasks' \in [Workers -> Seq(Tasks)]
    BY Zenon, <2>1, TakeTask DEF TypeOK
  <2>3. numTasks' \in [Workers -> Nat] /\ count' \in [Threads -> 0 .. NumTasks]
    BY DEF TypeOK
  <2>4. pc' \in [Threads -> PCs] /\ worker' \in [Threads -> Workers]
    BY Zenon DEF TypeOK, PCs
  <2> QED
    BY Zenon, <2>2, <2>3, <2>4 DEF TypeOK
<1>2. PcOK'
  BY Zenon DEF TypeOK, PcOK, QueueOK, EventsOK, Waiting, Finishing, Enqueues, Functions, Events
<1>3. QueueOK'
  BY Zenon DEF TypeOK, PcOK, QueueOK, UsesQueue, Waiting, Enqueues, Functions
<1>4. WorkerOK'
  <2>1. <<ev[t], count[t] + 1>> \in Tasks
    BY DEF TypeOK, PcOK, Tasks, Events
  <2>2. tasks' = [tasks EXCEPT ![w] = Append(tasks[w], <<ev[t], count[t] + 1>>)]
    BY Zenon
  <2>3. \A u \in Workers : built[u] /\ isRunning[u]
    BY Zenon DEF WorkerOK
  <2>4. ASSUME NEW u \in Workers
        PROVE  numTasks'[u] = Len(tasks'[u]) + (IF state[u] = "run" THEN 1 ELSE 0)
    <3>1. CASE u = w
      <4>1. /\ numTasks'[w] = numTasks[w] + 1
            /\ Len(tasks'[w]) = Len(tasks[w]) + 1
            /\ Len(tasks[w]) \in Nat
        BY <2>1, <2>2, TakeTask DEF TypeOK
      <4>2. numTasks[w] = Len(tasks[w]) + (IF state[w] = "run" THEN 1 ELSE 0)
        BY Zenon DEF WorkerOK
      <4>3. numTasks'[w] = Len(tasks'[w]) + (IF state[w] = "run" THEN 1 ELSE 0)
        <5>1. CASE state[w] = "run"
          BY Zenon, <4>1, <4>2, <5>1
        <5>2. CASE state[w] # "run"
          BY <4>1, <4>2, <5>2
        <5> QED
          BY Zenon, <5>1, <5>2
      <4> QED
        BY Zenon, <3>1, <4>3
    <3>2. CASE u # w
      BY Zenon, <3>2 DEF TypeOK, WorkerOK
    <3> QED
      BY Zenon, <3>1, <3>2
  <2> QED
    BY Zenon, <2>3, <2>4 DEF WorkerOK
<1>5. NoTaskLost'
  <2>1. <<ev[t], count[t] + 1>> \in Tasks
    BY DEF TypeOK, PcOK, Tasks, Events
  <2>2. tasks'[w] = Append(tasks[w], <<ev[t], count[t] + 1>>)
    BY Zenon DEF TypeOK
  <2>3. ASSUME NEW u \in Workers, NEW x
        PROVE  /\ Executing(u, x) => Executing(u, x)'
               /\ Queued(u, x) => Queued(u, x)'
    <3>1. CASE u = w
      BY <2>1, <2>2, <3>1, TakeTask DEF Executing, Queued
    <3>2. CASE u # w
      BY Zenon, <3>2 DEF TypeOK, Executing, Queued
    <3> QED
      BY Zenon, <3>1, <3>2
  <2>4. \E j \in DOMAIN tasks'[w] : tasks'[w][j] = <<ev[t], count[t] + 1>>
    <3> DEFINE x == <<ev[t], count[t] + 1>>
               n == Len(tasks[w]) + 1
    <3>1. n \in DOMAIN Append(tasks[w], x) /\ Append(tasks[w], x)[n] = x
      BY <2>1, TakeTask
    <3> QED
      BY Zenon, <2>2, <3>1
  <2>5. ASSUME NEW u \in Threads, NEW d, NEW i \in 1 .. NumTasks, ToCome(u, d, i)
        PROVE  ToCome(u, d, i)' \/ Queued(w, <<d, i>>)'
    <3>1. CASE u = t /\ i = count[t] + 1
      BY Zenon, <2>4, <2>5, <3>1 DEF ToCome, Queued
    <3>2. CASE ~(u = t /\ i = count[t] + 1)
      BY <2>5, <3>2 DEF ToCome, TypeOK
    <3> QED
      BY Zenon, <3>1, <3>2
  <2> QED
    BY Zenon, <2>3, <2>5, NothingLost DEF Somewhere
<1>6. EventsOK'
  BY Zenon DEF TypeOK, PcOK, EventsOK, Waiting, Events, Tasks
<1>7. EndRecorded'
  BY Zenon DEF TypeOK, PcOK, EndRecorded, EventsOK, Waiting, Events
<1>8. FinishOK'
  BY Zenon DEF TypeOK, PcOK, FinishOK, EventsOK, Finishing, Enqueues, Waiting
<1> QED
  BY Zenon, <1>1, <1>2, <1>3, <1>4, <1>5, <1>6, <1>7, <1>8

\* A worker is notified.
LEMMA NotifyKeeps ==
  ASSUME IInv, NEW t \in Threads, Notify(t)
  PROVE  IInv'
<1> USE NativeCpuAssumption DEF IInv, Notify, workerVars, eventVars, threadVars, Goto, Woken
<1>1. TypeOK'
  BY DEF TypeOK, PcOK, QueueOK, WorkerOK, States, PCs, Functions, Enqueues, Events, NoEvent,
         Tasks, NoTask
<1>2. PcOK'
  BY Zenon DEF TypeOK, PcOK, QueueOK, EventsOK, Waiting, Finishing, Enqueues, Functions, Events
<1>3. QueueOK'
  BY Zenon DEF TypeOK, PcOK, QueueOK, UsesQueue, Waiting, Enqueues, Functions
<1>4. WorkerOK'
  BY DEF TypeOK, PcOK, WorkerOK, States, Tasks, NoTask, PCs, Events
<1>5. NoTaskLost'
  <2>1. \A u \in Workers : state[u] = "run" => state'[u] = "run" /\ task'[u] = task[u]
    BY Zenon DEF TypeOK
  <2>2. \A u \in Threads, d \in 1 .. created, i \in 1 .. NumTasks :
          ToCome(u, d, i) => ToCome(u, d, i)'
    BY Zenon DEF TypeOK, PcOK, ToCome
  <2> QED
    BY Zenon, <2>1, <2>2, TasksKept
<1>6. EventsOK'
  BY Zenon DEF TypeOK, PcOK, EventsOK, Waiting, Events, Tasks
<1>7. EndRecorded'
  BY Zenon DEF TypeOK, PcOK, EndRecorded, EventsOK, Waiting, Events
<1>8. FinishOK'
  BY Zenon DEF TypeOK, PcOK, FinishOK, EventsOK, Finishing, Enqueues, Waiting
<1> QED
  BY Zenon, <1>1, <1>2, <1>3, <1>4, <1>5, <1>6, <1>7, <1>8

\* A launch has scheduled its tasks.
LEMMA LaunchedKeeps ==
  ASSUME IInv, NEW t \in Threads, Launched(t)
  PROVE  IInv'
<1> USE NativeCpuAssumption DEF IInv, Launched, workerVars, eventVars, threadVars, Goto
<1>1. TypeOK'
  <2>1. held' \subseteq Events
    BY DEF TypeOK, PcOK, Events
  <2>2. pc' \in [Threads -> PCs]
    BY Zenon DEF TypeOK, PCs
  <2> QED
    BY Zenon, <2>1, <2>2 DEF TypeOK
<1>2. PcOK'
  BY Zenon DEF TypeOK, PcOK, QueueOK, EventsOK, Waiting, Finishing, Enqueues, Functions, Events
<1>3. QueueOK'
  BY Zenon DEF TypeOK, PcOK, QueueOK, UsesQueue, Waiting, Enqueues, Functions
<1>4. WorkerOK'
  BY Zenon DEF TypeOK, PcOK, WorkerOK, States, Tasks, NoTask, PCs, Events
<1>5. NoTaskLost'
  <2>1. \A u \in Workers : state[u] = "run" => state'[u] = "run" /\ task'[u] = task[u]
    BY Zenon DEF TypeOK
  <2>2. \A u \in Threads, d \in 1 .. created, i \in 1 .. NumTasks :
          ToCome(u, d, i) => ToCome(u, d, i)'
    BY DEF TypeOK, PcOK, ToCome
  <2> QED
    BY Zenon, <2>1, <2>2, TasksKept
<1>6. EventsOK'
  <2>1. UNCHANGED <<ran, created, alive, done, events, call, ev>>
    BY Zenon
  <2>2. held' \subseteq 1 .. created
    BY DEF PcOK, EventsOK
  <2>3. \A u \in Threads :
          call[u] = "urEventRelease" /\ pc'[u] \in {"callback", "return"} => pc[u] = pc'[u]
    BY Zenon DEF TypeOK, PcOK, Enqueues
  <2> QED
    BY Zenon, <2>1, <2>2, <2>3 DEF EventsOK
<1>7. EndRecorded'
  BY Zenon DEF TypeOK, PcOK, EndRecorded, EventsOK, Waiting, Events
<1>8. FinishOK'
  BY Zenon DEF TypeOK, PcOK, FinishOK, EventsOK, Finishing, Enqueues, Waiting
<1> QED
  BY Zenon, <1>1, <1>2, <1>3, <1>4, <1>5, <1>6, <1>7, <1>8

\* A wait begins.
LEMMA urEventWaitKeeps ==
  ASSUME IInv, NEW t \in Threads, NEW e \in Events, urEventWait(t, e)
  PROVE  IInv'
<1> USE NativeCpuAssumption DEF IInv, urEventWait, workerVars, eventVars, threadVars, Begin,
                                Usable, PoolBuilt, PoolStopped, EventFree
<1>1. TypeOK'
  BY Zenon DEF TypeOK, PcOK, QueueOK, WorkerOK, States, PCs, Functions, Enqueues, Events,
               NoEvent, Tasks, NoTask
<1>2. PcOK'
  BY DEF TypeOK, PcOK, QueueOK, EventsOK, Waiting, Finishing, Enqueues, Functions, Events
<1>3. QueueOK'
  BY DEF TypeOK, PcOK, QueueOK, UsesQueue, Waiting, Enqueues, Functions
<1>4. WorkerOK'
  BY Zenon DEF TypeOK, PcOK, WorkerOK, States, Tasks, NoTask, PCs, Events
<1>5. NoTaskLost'
  <2>1. \A u \in Workers : state[u] = "run" => state'[u] = "run" /\ task'[u] = task[u]
    BY Zenon DEF TypeOK
  <2>2. \A u \in Threads, d \in 1 .. created, i \in 1 .. NumTasks :
          ToCome(u, d, i) => ToCome(u, d, i)'
    BY DEF TypeOK, PcOK, ToCome
  <2> QED
    BY Zenon, <2>1, <2>2, TasksKept
<1>6. EventsOK'
  BY DEF TypeOK, PcOK, EventsOK, Waiting, Events, Tasks
<1>7. EndRecorded'
  BY Zenon DEF TypeOK, PcOK, EndRecorded, EventsOK, Waiting, Events
<1>8. FinishOK'
  BY DEF TypeOK, PcOK, FinishOK, EventsOK, Finishing, Enqueues, Waiting
<1> QED
  BY Zenon, <1>1, <1>2, <1>3, <1>4, <1>5, <1>6, <1>7, <1>8

\* The release of an event begins.
LEMMA urEventReleaseKeeps ==
  ASSUME IInv, NEW t \in Threads, NEW e \in Events, urEventRelease(t, e)
  PROVE  IInv'
<1> USE NativeCpuAssumption DEF IInv, urEventRelease, workerVars, eventVars, threadVars, Begin,
                                Usable, PoolBuilt, PoolStopped, EventFree
<1>1. TypeOK'
  BY Zenon DEF TypeOK, PcOK, QueueOK, WorkerOK, States, PCs, Functions, Enqueues, Events,
               NoEvent, Tasks, NoTask
<1>2. PcOK'
  BY DEF TypeOK, PcOK, QueueOK, EventsOK, Waiting, Finishing, Enqueues, Functions, Events
<1>3. QueueOK'
  BY DEF TypeOK, PcOK, QueueOK, UsesQueue, Waiting, Enqueues, Functions
<1>4. WorkerOK'
  BY Zenon DEF TypeOK, PcOK, WorkerOK, States, Tasks, NoTask, PCs, Events
<1>5. NoTaskLost'
  <2>1. \A u \in Workers : state[u] = "run" => state'[u] = "run" /\ task'[u] = task[u]
    BY Zenon DEF TypeOK
  <2>2. \A u \in Threads, d \in 1 .. created, i \in 1 .. NumTasks :
          ToCome(u, d, i) => ToCome(u, d, i)'
    BY DEF TypeOK, PcOK, ToCome
  <2> QED
    BY Zenon, <2>1, <2>2, TasksKept
<1>6. EventsOK'
  BY DEF TypeOK, PcOK, EventsOK, Waiting, Events, Tasks
<1>7. EndRecorded'
  BY Zenon DEF TypeOK, PcOK, EndRecorded, EventsOK, Waiting, Events
<1>8. FinishOK'
  BY DEF TypeOK, PcOK, FinishOK, EventsOK, Finishing, Enqueues, Waiting
<1> QED
  BY Zenon, <1>1, <1>2, <1>3, <1>4, <1>5, <1>6, <1>7, <1>8

\* A finish begins.
LEMMA urQueueFinishKeeps ==
  ASSUME IInv, NEW t \in Threads, urQueueFinish(t)
  PROVE  IInv'
<1> USE NativeCpuAssumption DEF IInv, urQueueFinish, workerVars, eventVars, threadVars, Begin,
                                Usable, PoolBuilt, PoolStopped, QueueFree
<1>1. TypeOK'
  BY Zenon DEF TypeOK, PcOK, QueueOK, WorkerOK, States, PCs, Functions, Enqueues, Events,
               NoEvent, Tasks, NoTask
<1>2. PcOK'
  BY DEF TypeOK, PcOK, QueueOK, EventsOK, Waiting, Finishing, Enqueues, Functions, Events
<1>3. QueueOK'
  BY DEF TypeOK, PcOK, QueueOK, UsesQueue, Waiting, Enqueues, Functions
<1>4. WorkerOK'
  BY Zenon DEF TypeOK, PcOK, WorkerOK, States, Tasks, NoTask, PCs, Events
<1>5. NoTaskLost'
  <2>1. \A u \in Workers : state[u] = "run" => state'[u] = "run" /\ task'[u] = task[u]
    BY Zenon DEF TypeOK
  <2>2. \A u \in Threads, d \in 1 .. created, i \in 1 .. NumTasks :
          ToCome(u, d, i) => ToCome(u, d, i)'
    BY Zenon DEF TypeOK, PcOK, ToCome
  <2> QED
    BY Zenon, <2>1, <2>2, TasksKept
<1>6. EventsOK'
  BY DEF TypeOK, PcOK, EventsOK, Waiting, Events, Tasks
<1>7. EndRecorded'
  BY Zenon DEF TypeOK, PcOK, EndRecorded, EventsOK, Waiting, Events
<1>8. FinishOK'
  BY DEF TypeOK, PcOK, FinishOK, EventsOK, Finishing, Enqueues, Waiting
<1> QED
  BY Zenon, <1>1, <1>2, <1>3, <1>4, <1>5, <1>6, <1>7, <1>8

\* A finish picks an event, or ends.
LEMMA FinishLoopKeeps ==
  ASSUME IInv, NEW t \in Threads, FinishLoop(t)
  PROVE  IInv'
<1> USE NativeCpuAssumption DEF IInv, FinishLoop, workerVars, eventVars, threadVars, Goto
<1>1. TypeOK'
  <2>1. pc' \in [Threads -> PCs]
    BY Zenon DEF TypeOK, PCs
  <2>2. ev' \in [Threads -> Events \cup {NoEvent}]
    BY Zenon DEF TypeOK
  <2> QED
    BY Zenon, <2>1, <2>2 DEF TypeOK
<1>2. PcOK'
  BY DEF TypeOK, PcOK, QueueOK, EventsOK, Waiting, Finishing, Enqueues, Functions, Events
<1>3. QueueOK'
  BY Zenon DEF TypeOK, PcOK, QueueOK, UsesQueue, Waiting, Enqueues, Functions
<1>4. WorkerOK'
  BY Zenon DEF TypeOK, PcOK, WorkerOK, States, Tasks, NoTask, PCs, Events
<1>5. NoTaskLost'
  <2>1. \A u \in Workers : state[u] = "run" => state'[u] = "run" /\ task'[u] = task[u]
    BY Zenon DEF TypeOK
  <2>2. \A u \in Threads, d \in 1 .. created, i \in 1 .. NumTasks :
          ToCome(u, d, i) => ToCome(u, d, i)'
    BY Zenon DEF TypeOK, PcOK, ToCome
  <2> QED
    BY Zenon, <2>1, <2>2, TasksKept
<1>6. EventsOK'
  BY Zenon DEF TypeOK, PcOK, EventsOK, Waiting, Events, Tasks
<1>7. EndRecorded'
  BY DEF TypeOK, PcOK, EndRecorded, EventsOK, Waiting, Events
<1>8. FinishOK'
  BY DEF TypeOK, PcOK, FinishOK, EventsOK, Finishing, Enqueues, Waiting
<1> QED
  BY Zenon, <1>1, <1>2, <1>3, <1>4, <1>5, <1>6, <1>7, <1>8

\* A wait locks the event.
LEMMA LockKeeps ==
  ASSUME IInv, NEW t \in Threads, Lock(t)
  PROVE  IInv'
<1> USE NativeCpuAssumption DEF IInv, Lock, workerVars, eventVars, threadVars, Goto, AfterWait,
                                EventMutexFree
<1>1. TypeOK'
  BY Zenon DEF TypeOK, PcOK, QueueOK, WorkerOK, States, PCs, Functions, Enqueues, Events,
               NoEvent, Tasks, NoTask
<1>2. PcOK'
  BY Zenon DEF TypeOK, PcOK, QueueOK, EventsOK, Waiting, Finishing, Enqueues, Functions, Events
<1>3. QueueOK'
  BY Zenon DEF TypeOK, PcOK, QueueOK, UsesQueue, Waiting, Enqueues, Functions
<1>4. WorkerOK'
  BY Zenon DEF TypeOK, PcOK, WorkerOK, States, Tasks, NoTask, PCs, Events
<1>5. NoTaskLost'
  <2>1. \A u \in Workers : state[u] = "run" => state'[u] = "run" /\ task'[u] = task[u]
    BY Zenon DEF TypeOK
  <2>2. \A u \in Threads, d \in 1 .. created, i \in 1 .. NumTasks :
          ToCome(u, d, i) => ToCome(u, d, i)'
    BY Zenon DEF TypeOK, PcOK, ToCome
  <2> QED
    BY Zenon, <2>1, <2>2, TasksKept
<1>6. EventsOK'
  BY Zenon DEF TypeOK, PcOK, EventsOK, Waiting, Events, Tasks
<1>7. EndRecorded'
  BY Zenon DEF TypeOK, PcOK, EndRecorded, EventsOK, Waiting, Events
<1>8. FinishOK'
  BY Zenon DEF TypeOK, PcOK, FinishOK, EventsOK, Finishing, Enqueues, Waiting
<1> QED
  BY Zenon, <1>1, <1>2, <1>3, <1>4, <1>5, <1>6, <1>7, <1>8

\* The futures of an event are ready.
LEMMA FuturesKeeps ==
  ASSUME IInv, NEW t \in Threads, Futures(t)
  PROVE  IInv'
<1> USE NativeCpuAssumption DEF IInv, Futures, workerVars, eventVars, threadVars, Goto
<1>1. TypeOK'
  <2>1. ev[t] \in Events
    BY DEF TypeOK, PcOK, Waiting, Events
  <2>2. pc' \in [Threads -> PCs]
    BY Zenon DEF TypeOK, PCs
  <2> QED
    BY Zenon, <2>1, <2>2 DEF TypeOK
<1>2. PcOK'
  BY Zenon DEF TypeOK, PcOK, QueueOK, EventsOK, Waiting, Finishing, Enqueues, Functions, Events
<1>3. QueueOK'
  BY Zenon DEF TypeOK, PcOK, QueueOK, UsesQueue, Waiting, Enqueues, Functions
<1>4. WorkerOK'
  BY Zenon DEF TypeOK, PcOK, WorkerOK, States, Tasks, NoTask, PCs, Events
<1>5. NoTaskLost'
  <2>1. \A u \in Workers : state[u] = "run" => state'[u] = "run" /\ task'[u] = task[u]
    BY Zenon DEF TypeOK
  <2>2. \A u \in Threads, d \in 1 .. created, i \in 1 .. NumTasks :
          ToCome(u, d, i) => ToCome(u, d, i)'
    BY Zenon DEF TypeOK, PcOK, ToCome
  <2> QED
    BY Zenon, <2>1, <2>2, TasksKept
<1>6. EventsOK'
  BY Zenon DEF TypeOK, PcOK, EventsOK, Waiting, Events, Tasks
<1>7. EndRecorded'
  BY DEF TypeOK, PcOK, EndRecorded, EventsOK, Waiting, Events
<1>8. FinishOK'
  BY Zenon DEF TypeOK, PcOK, FinishOK, EventsOK, Finishing, Enqueues, Waiting
<1> QED
  BY Zenon, <1>1, <1>2, <1>3, <1>4, <1>5, <1>6, <1>7, <1>8

\* The callback of an event runs.
LEMMA CallbackKeeps ==
  ASSUME IInv, NEW t \in Threads, Callback(t)
  PROVE  IInv'
<1> USE NativeCpuAssumption DEF IInv, Callback, workerVars, eventVars, threadVars, Goto,
                                AfterWait, EventMutexFree
<1>1. TypeOK'
  <2>1. ev[t] \in Events
    BY DEF TypeOK, PcOK, Waiting, Events
  <2>2. pc' \in [Threads -> PCs]
    BY Zenon DEF TypeOK, PCs
  <2> QED
    BY Zenon, <2>1, <2>2 DEF TypeOK
<1>2. PcOK'
  BY Zenon DEF TypeOK, PcOK, QueueOK, EventsOK, Waiting, Finishing, Enqueues, Functions, Events
<1>3. QueueOK'
  BY Zenon DEF TypeOK, PcOK, QueueOK, UsesQueue, Waiting, Enqueues, Functions
<1>4. WorkerOK'
  BY Zenon DEF TypeOK, PcOK, WorkerOK, States, Tasks, NoTask, PCs, Events
<1>5. NoTaskLost'
  <2>1. \A u \in Workers : state[u] = "run" => state'[u] = "run" /\ task'[u] = task[u]
    BY Zenon DEF TypeOK
  <2>2. \A u \in Threads, d \in 1 .. created, i \in 1 .. NumTasks :
          ToCome(u, d, i) => ToCome(u, d, i)'
    BY Zenon DEF TypeOK, PcOK, ToCome
  <2> QED
    BY Zenon, <2>1, <2>2, TasksKept
<1>6. EventsOK'
  BY Zenon DEF TypeOK, PcOK, EventsOK, Waiting, Events, Tasks
<1>7. EndRecorded'
  BY Zenon DEF TypeOK, PcOK, EndRecorded, EventsOK, Waiting, Events
<1>8. FinishOK'
  BY Zenon DEF TypeOK, PcOK, FinishOK, EventsOK, Finishing, Enqueues, Waiting
<1> QED
  BY Zenon, <1>1, <1>2, <1>3, <1>4, <1>5, <1>6, <1>7, <1>8

\* A call returns.
LEMMA ReturnKeeps ==
  ASSUME IInv, NEW t \in Threads, Return(t)
  PROVE  IInv'
<1> USE NativeCpuAssumption DEF IInv, Return, workerVars, eventVars, threadVars, Goto
<1>1. TypeOK'
  <2>1. pc' \in [Threads -> PCs] /\ call' \in [Threads -> Functions]
    BY Zenon DEF TypeOK, PCs, Functions
  <2>2. ev' \in [Threads -> Events \cup {NoEvent}] /\ count' \in [Threads -> 0 .. NumTasks]
    BY DEF TypeOK
  <2>3. alive' \subseteq Events
    BY Zenon DEF TypeOK
  <2> QED
    BY Zenon, <2>1, <2>2, <2>3 DEF TypeOK
<1>2. PcOK'
  BY Zenon DEF TypeOK, PcOK, QueueOK, EventsOK, Waiting, Finishing, Enqueues, Functions, Events
<1>3. QueueOK'
  BY DEF TypeOK, PcOK, QueueOK, UsesQueue, Waiting, Enqueues, Functions
<1>4. WorkerOK'
  BY Zenon DEF TypeOK, PcOK, WorkerOK, States, Tasks, NoTask, PCs, Events
<1>5. NoTaskLost'
  <2>1. \A u \in Workers : state[u] = "run" => state'[u] = "run" /\ task'[u] = task[u]
    BY Zenon DEF TypeOK
  <2>2. \A u \in Threads, d \in 1 .. created, i \in 1 .. NumTasks :
          ToCome(u, d, i) => ToCome(u, d, i)'
    BY Zenon DEF TypeOK, PcOK, ToCome
  <2> QED
    BY Zenon, <2>1, <2>2, TasksKept
<1>6. EventsOK'
  BY Zenon DEF TypeOK, PcOK, EventsOK, Waiting, Events, Tasks
<1>7. EndRecorded'
  BY Zenon DEF TypeOK, PcOK, EndRecorded, EventsOK, Waiting, Events
<1>8. FinishOK'
  BY Zenon DEF TypeOK, PcOK, FinishOK, EventsOK, Finishing, Enqueues, Waiting
<1> QED
  BY Zenon, <1>1, <1>2, <1>3, <1>4, <1>5, <1>6, <1>7, <1>8
------------------------------------------------------------------------------

\* The invariant holds before the pool is built.
LEMMA InitHolds == Init => IInv
<1> SUFFICES ASSUME Init PROVE IInv
  BY Zenon
<1> USE NativeCpuAssumption DEF Init
<1>1. TypeOK
  <2>1. (CHOOSE w \in Workers : TRUE) \in Workers
    BY Zenon
  <2>2. worker \in [Threads -> Workers]
    BY Zenon, <2>1
  <2>3. /\ state \in [Workers -> States]
        /\ tasks \in [Workers -> Seq(Tasks)]
        /\ task \in [Workers -> Tasks \cup {NoTask}]
    BY DEF States
  <2>4. /\ pc \in [Threads -> PCs]
        /\ call \in [Threads -> Functions]
        /\ ev \in [Threads -> Events \cup {NoEvent}]
    BY Zenon DEF PCs, Functions
  <2> QED
    BY <2>2, <2>3, <2>4 DEF TypeOK
<1>2. PcOK /\ QueueOK /\ WorkerOK
  BY DEF PcOK, QueueOK, WorkerOK, UsesQueue, Enqueues, Waiting
<1>3. NoTaskLost /\ EventsOK /\ EndRecorded /\ FinishOK
  BY DEF NoTaskLost, EventsOK, EndRecorded, FinishOK
<1> QED
  BY Zenon, <1>1, <1>2, <1>3 DEF IInv

\* Every step of the workers and of the application keeps the invariant.
LEMMA NextKeeps == IInv /\ [Next]_vars => IInv'
<1> SUFFICES ASSUME IInv, [Next]_vars PROVE IInv'
  BY Zenon
<1>1. ASSUME NEW w \in Workers,
             \/ Construct(w) \/ Constructed(w) \/ SpuriousWakeup(w)
             \/ Check(w) \/ Run(w) \/ Stop(w)
      PROVE  IInv'
  BY Zenon, <1>1, ConstructKeeps, ConstructedKeeps, SpuriousWakeupKeeps, CheckKeeps,
     RunKeeps, StopKeeps
<1>2. ASSUME NEW t \in Threads, Call(t)
      PROVE  IInv'
  BY Zenon, <1>2, EnqueueKeeps, urQueueFinishKeeps, urEventWaitKeeps,
     urEventReleaseKeeps DEF Call
<1>3. ASSUME NEW t \in Threads, Step(t)
      PROVE  IInv'
  BY Zenon, <1>3, CreateEventKeeps, ExecuteKeeps, PushKeeps, NotifyKeeps,
     LaunchedKeeps, FinishLoopKeeps, LockKeeps, FuturesKeeps, CallbackKeeps,
     ReturnKeeps DEF Step
<1>4. CASE UNCHANGED vars
  <2>1. /\ TypeOK' /\ PcOK' /\ QueueOK' /\ WorkerOK'
    BY Zenon, <1>4 DEF IInv, vars, TypeOK, PcOK, QueueOK, WorkerOK, UsesQueue
  <2>2. NoTaskLost'
    BY Zenon, <1>4, TasksKept DEF IInv, vars, ToCome
  <2>3. EventsOK' /\ EndRecorded' /\ FinishOK'
    BY Zenon, <1>4 DEF IInv, vars, EventsOK, EndRecorded, FinishOK
  <2> QED
    BY Zenon, <2>1, <2>2, <2>3 DEF IInv
<1> QED
  BY Zenon, <1>1, <1>2, <1>3, <1>4 DEF Next, Terminated

\* The invariant holds in every state the pool and its users reach.
LEMMA Invariant == Spec => []IInv
BY InitHolds, NextKeeps, PTL DEF Spec

\* Every variable has its type: in particular the counter of a worker's tasks,
\* which is unsigned in the code, is never taken below zero.
THEOREM TypeCorrect == Spec => []TypeOK
<1>1. IInv => TypeOK
  BY Zenon DEF IInv
<1> QED
  BY <1>1, Invariant, PTL

\* An event that is done, and an event that is deleted, has all its tasks
\* executed, whichever threads waited for it and released it.
THEOREM EventsComplete == Spec => []CompleteMeansExecuted
<1>1. IInv => CompleteMeansExecuted
  BY Zenon DEF IInv, EventsOK, CompleteMeansExecuted
<1> QED
  BY <1>1, Invariant, PTL

\* When every worker has left its loop, every task of every command has been
\* executed: the destructor of the pool abandons none.
THEOREM PoolDrained == Spec => []StoppedMeansDrained
<1>1. IInv => StoppedMeansDrained
  <2> SUFFICES ASSUME IInv, \A w \in Workers : state[w] = "exit",
                      NEW e \in 1 .. created, NEW i \in 1 .. NumTasks
               PROVE  <<e, i>> \in ran
    BY Zenon DEF StoppedMeansDrained
  <2>1. \A w \in Workers : ~isRunning[w] /\ tasks[w] = <<>>
    BY Zenon DEF IInv, WorkerOK
  <2>2. \A t \in Threads : pc[t] = "idle"
    BY Zenon, <2>1, NativeCpuAssumption DEF IInv, WorkerOK
  <2>3. ~ \E t \in Threads : ToCome(t, e, i)
    BY Zenon, <2>2 DEF ToCome
  <2>4. ~ \E w \in Workers : Executing(w, <<e, i>>) \/ Queued(w, <<e, i>>)
    BY <2>1 DEF Executing, Queued
  <2> QED
    BY Zenon, <2>3, <2>4 DEF IInv, NoTaskLost, Somewhere
<1> QED
  BY <1>1, Invariant, PTL

\* A finish during which the application uses no event returns only when the
\* callback of every command enqueued before has recorded the end time.
THEOREM FinishComplete ==
  ASSUME FinishAlone
  PROVE  Spec => FinishWaitsForAll
<1>1. IInv => \A t \in Threads :
                Finishing(t) /\ pc[t] = "return" => 1 .. created \subseteq ended
  <2> SUFFICES ASSUME IInv, NEW t \in Threads, Finishing(t), pc[t] = "return"
               PROVE  1 .. created \subseteq ended
    BY Zenon
  <2>1. events = {} /\ \A u \in Threads \ {t} : call[u] = "none"
    BY Zenon, FinishAlone DEF IInv, FinishOK
  <2>2. \A u \in Threads : pc[u] # "callback"
    BY Zenon, <2>1 DEF IInv, PcOK
  <2> QED
    BY Zenon, <2>1, <2>2 DEF IInv, EndRecorded
<1>2. IInv /\ [Next]_vars =>
        [\A t \in Threads :
            Finishing(t) /\ pc[t] = "return" /\ pc'[t] = "idle" =>
              1 .. created \subseteq ended]_vars
  BY Zenon, <1>1
<1> QED
  BY <1>2, Invariant, PTL DEF Spec, FinishWaitsForAll
================================================================================

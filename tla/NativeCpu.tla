------------------------------- MODULE NativeCpu -------------------------------
(****************************************************************************)
(* The native CPU adapter: its thread pool (native_cpu/threadpool.hpp), and *)
(* the events and the queue above it (event.cpp, queue.hpp, enqueue.cpp).   *)
(*                                                                          *)
(* A kernel launch schedules tasks on the workers and makes an event that   *)
(* owns their futures; somebody has to wait for the event, which removes    *)
(* itself from its queue.  A section under a mutex is one step, except that *)
(* wait keeps the event's mutex while it waits for the futures, and that    *)
(* the constructor of a worker keeps the worker's mutex while its thread    *)
(* starts.  A task is <<event, number>>.                                    *)
(****************************************************************************)
EXTENDS Integers, FiniteSets, Sequences

CONSTANTS
    Threads,        \* threads of the application
    Workers,
    MaxEvents,      \* bound: commands with an event
    NumTasks,       \* tasks of one launch
    FinishAlone     \* the application uses no event during a finish

ASSUME NativeCpuAssumption ==
    /\ Workers # {}
    /\ MaxEvents \in Nat
    /\ NumTasks \in Nat \ {0}
    /\ FinishAlone \in BOOLEAN

Events  == 1 .. MaxEvents
NoEvent == 0
Tasks   == Events \X (1 .. NumTasks)
NoTask  == <<NoEvent, 0>>

VARIABLES
    state,      \* of each worker's thread
    built,      \* whether the worker's constructor has returned
    isRunning,  \* m_isRunning
    tasks,      \* m_tasks
    numTasks,   \* m_numTasks
    task,       \* the task the worker executes
    ran,        \* tasks that were executed: their futures are ready
    inOrder,    \* whether the queue is in order; never changes
    created,    \* events made so far
    alive,      \* events that are not deleted
    done,       \* ur_event_handle_t_::done
    ended,      \* events whose end time was recorded
    events,     \* ur_queue_handle_t_::events
    held,       \* history: events the application has a reference to
    pc,         \* program point of each application thread
    ev,         \* the event its call works on
    call,       \* which function it is in
    count,      \* tasks its launch has scheduled
    worker      \* the worker it has to notify

workerVars == <<state, built, isRunning, tasks, numTasks, task, ran>>
eventVars  == <<inOrder, created, alive, done, ended, events, held>>
threadVars == <<pc, ev, call, count, worker>>
vars == <<state, built, isRunning, tasks, numTasks, task, ran, inOrder,
          created, alive, done, ended, events, held, pc, ev, call, count, worker>>

States == {"none", "check", "wait", "run", "exit"}
PCs == {"idle", "create", "execute", "push", "notify", "lock", "futures",
        "callback", "return", "finish"}
Enqueues == {"urEnqueueKernelLaunch", "withTimingEvent"}
Functions == Enqueues \cup {"none", "urEventWait", "urEventRelease",
                            "urQueueFinish"}

Init ==
    /\ state = [w \in Workers |-> "none"]
    /\ built = [w \in Workers |-> FALSE]
    /\ isRunning = [w \in Workers |-> FALSE]
    /\ tasks = [w \in Workers |-> <<>>]
    /\ numTasks = [w \in Workers |-> 0]
    /\ task = [w \in Workers |-> NoTask]
    /\ ran = {}
    /\ inOrder \in BOOLEAN
    /\ created = 0
    /\ alive = {}
    /\ done = {}
    /\ ended = {}
    /\ events = {}
    /\ held = {}
    /\ pc = [t \in Threads |-> "idle"]
    /\ ev = [t \in Threads |-> NoEvent]
    /\ call = [t \in Threads |-> "none"]
    /\ count = [t \in Threads |-> 0]
    /\ worker = [t \in Threads |-> CHOOSE w \in Workers : TRUE]

------------------------------------------------------------------------------
(* Workers *)

\* the constructor starts the thread with m_workMutex locked ...
Construct(w) ==
    /\ state[w] = "none"
    /\ state' = [state EXCEPT ![w] = "check"]
    /\ UNCHANGED <<built, isRunning, tasks, numTasks, task, ran, eventVars,
                   threadVars>>

\* ... and unlocks it once m_isRunning is set
Constructed(w) ==
    /\ state[w] # "none" /\ ~built[w]
    /\ built' = [built EXCEPT ![w] = TRUE]
    /\ isRunning' = [isRunning EXCEPT ![w] = TRUE]
    /\ UNCHANGED <<state, tasks, numTasks, task, ran, eventVars, threadVars>>

PoolBuilt == \A w \in Workers : built[w]

\* a condition variable may wake up for no reason
SpuriousWakeup(w) ==
    /\ state[w] = "wait"
    /\ state' = [state EXCEPT ![w] = "check"]
    /\ UNCHANGED <<built, isRunning, tasks, numTasks, task, ran, eventVars,
                   threadVars>>

\* mutant: a stopped worker leaves with work to do
LeavesWhenStopped(w) == ~isRunning[w]

\* the loop's exit
Leaves(w) == ~isRunning[w] /\ tasks[w] = <<>>

\* the predicate of m_startWorkCondition.wait, and what follows under the
\* mutex: sleep, leave, or take a task
Check(w) ==
    /\ state[w] = "check" /\ built[w]
    /\ \/ /\ isRunning[w] /\ tasks[w] = <<>>
          /\ state' = [state EXCEPT ![w] = "wait"]
          /\ UNCHANGED <<tasks, task>>
       \/ /\ Leaves(w)
          /\ state' = [state EXCEPT ![w] = "exit"]
          /\ UNCHANGED <<tasks, task>>
       \/ /\ tasks[w] # <<>> /\ ~Leaves(w)
          /\ state' = [state EXCEPT ![w] = "run"]
          /\ task' = [task EXCEPT ![w] = Head(tasks[w])]
          /\ tasks' = [tasks EXCEPT ![w] = Tail(@)]
    /\ UNCHANGED <<built, isRunning, numTasks, ran, eventVars, threadVars>>

\* the task is executed, which makes its future ready, and is counted off
Run(w) ==
    /\ state[w] = "run"
    /\ ran' = ran \cup {task[w]}
    /\ task' = [task EXCEPT ![w] = NoTask]
    /\ numTasks' = [numTasks EXCEPT ![w] = @ - 1]
    /\ state' = [state EXCEPT ![w] = "check"]
    /\ UNCHANGED <<built, isRunning, tasks, eventVars, threadVars>>

Woken(w) == [state EXCEPT ![w] = IF @ = "wait" THEN "check" ELSE @]

\* the destructor of the pool stops its workers, when nothing uses it any more
Stop(w) ==
    /\ PoolBuilt
    /\ \A t \in Threads : pc[t] = "idle"
    /\ isRunning[w]
    /\ isRunning' = [isRunning EXCEPT ![w] = FALSE]
    /\ state' = Woken(w)
    /\ UNCHANGED <<built, tasks, numTasks, task, ran, eventVars, threadVars>>

PoolStopped == \E w \in Workers : built[w] /\ ~isRunning[w]

------------------------------------------------------------------------------
(* Calls of the application: no two on one queue or one event at a time *)

Usable == PoolBuilt /\ ~PoolStopped

QueueFree ==
    \A t \in Threads : call[t] \notin Enqueues \cup {"urQueueFinish"}

Finishing(t) == call[t] = "urQueueFinish"

EventFree(e) ==
    /\ \A t \in Threads : ev[t] = e => Finishing(t)
    /\ FinishAlone => \A t \in Threads : ~Finishing(t)

Begin(t, f, e, at) ==
    /\ Usable
    /\ call[t] = "none"
    /\ call' = [call EXCEPT ![t] = f]
    /\ ev' = [ev EXCEPT ![t] = e]
    /\ pc' = [pc EXCEPT ![t] = at]

Goto(t, at) == pc' = [pc EXCEPT ![t] = at]

\* a command first waits for its wait list: nothing, or one event
Enqueue(t, f) ==
    /\ QueueFree
    /\ created < MaxEvents
    /\ count' = [count EXCEPT ![t] = 0]
    /\ \/ Begin(t, f, NoEvent, "create")
       \/ \E e \in held : EventFree(e) /\ Begin(t, f, e, "lock")
    /\ UNCHANGED <<workerVars, eventVars, worker>>

\* the event's constructor adds it to the queue
CreateEvent(t) ==
    /\ pc[t] = "create"
    /\ created' = created + 1
    /\ alive' = alive \cup {created'}
    /\ events' = events \cup {created'}
    /\ ev' = [ev EXCEPT ![t] = created']
    /\ Goto(t, IF call[t] = "withTimingEvent" THEN "execute" ELSE "push")
    /\ UNCHANGED <<workerVars, inOrder, done, ended, held, call, count,
                   worker>>

\* commands other than launches are executed by the calling thread; the event
\* has no futures and is not done until somebody waits for it
Execute(t) ==
    /\ pc[t] = "execute"
    /\ ran' = ran \cup ({ev[t]} \X (1 .. NumTasks))
    /\ ended' = ended \cup {ev[t]}
    /\ held' = held \cup {ev[t]}
    /\ Goto(t, "return")
    /\ UNCHANGED <<state, built, isRunning, tasks, numTasks, task, inOrder,
                   created, alive, done, events, ev, call, count, worker>>

\* mutant: the task is not counted
PushUncounted(t, w) ==
    /\ pc[t] = "push" /\ count[t] < NumTasks
    /\ tasks' = [tasks EXCEPT ![w] = Append(@, <<ev[t], count[t] + 1>>)]
    /\ count' = [count EXCEPT ![t] = @ + 1]
    /\ worker' = [worker EXCEPT ![t] = w]
    /\ Goto(t, "notify")
    /\ UNCHANGED <<state, built, isRunning, numTasks, task, ran, eventVars,
                   ev, call>>

\* schedule_task on whichever worker best_worker() finds: the counters it
\* compares change under it
Push(t, w) ==
    /\ pc[t] = "push" /\ count[t] < NumTasks
    /\ tasks' = [tasks EXCEPT ![w] = Append(@, <<ev[t], count[t] + 1>>)]
    /\ numTasks' = [numTasks EXCEPT ![w] = @ + 1]
    /\ count' = [count EXCEPT ![t] = @ + 1]
    /\ worker' = [worker EXCEPT ![t] = w]
    /\ Goto(t, "notify")
    /\ UNCHANGED <<state, built, isRunning, task, ran, eventVars, ev, call>>

\* mutant: nobody is notified
NotifyNobody(t) ==
    /\ pc[t] = "notify"
    /\ Goto(t, "push")
    /\ UNCHANGED <<workerVars, eventVars, ev, call, count, worker>>

\* notify_one, after the mutex was unlocked
Notify(t) ==
    /\ pc[t] = "notify"
    /\ state' = Woken(worker[t])
    /\ Goto(t, "push")
    /\ UNCHANGED <<built, isRunning, tasks, numTasks, task, ran, eventVars,
                   ev, call, count, worker>>

\* the event has its futures and its callback, and the application the
\* event if it asked for it; on a queue that is in order the call waits for it
Launched(t) ==
    /\ pc[t] = "push" /\ count[t] = NumTasks
    /\ held' \in {held, held \cup {ev[t]}}
    /\ Goto(t, IF inOrder THEN "lock" ELSE "return")
    /\ UNCHANGED <<workerVars, inOrder, created, alive, done, ended, events,
                   ev, call, count, worker>>

urEventWait(t, e) ==
    /\ e \in held /\ EventFree(e)
    /\ Begin(t, "urEventWait", e, "lock")
    /\ UNCHANGED <<workerVars, eventVars, count, worker>>

\* the last reference goes; the destructor waits unless the event is done
urEventRelease(t, e) ==
    /\ e \in held /\ EventFree(e)
    /\ held' = held \ {e}
    /\ Begin(t, "urEventRelease", e, IF e \in done THEN "return" ELSE "lock")
    /\ UNCHANGED <<workerVars, inOrder, created, alive, done, ended, events,
                   count, worker>>

urQueueFinish(t) ==
    /\ QueueFree
    /\ FinishAlone => \A u \in Threads : call[u] = "none"
    /\ Begin(t, "urQueueFinish", NoEvent, "finish")
    /\ UNCHANGED <<workerVars, eventVars, count, worker>>

\* the loop of finish: wait for any event of the queue, until there is none
FinishLoop(t) ==
    /\ pc[t] = "finish"
    /\ \/ events = {} /\ Goto(t, "return") /\ UNCHANGED ev
       \/ \E e \in events : ev' = [ev EXCEPT ![t] = e] /\ Goto(t, "lock")
    /\ UNCHANGED <<workerVars, eventVars, call, count, worker>>

------------------------------------------------------------------------------
(* ur_event_handle_t_::wait *)

EventMutexFree(e) ==
    \A t \in Threads : ~(pc[t] = "futures" /\ ev[t] = e)

\* mutant: finish waits for one event only
AfterWaitOnce(t) ==
    IF call[t] \in Enqueues /\ count[t] = 0 THEN "create" ELSE "return"

\* where a call goes on when its wait is over
AfterWait(t) ==
    CASE call[t] = "urQueueFinish" -> "finish"
      [] call[t] \in Enqueues /\ count[t] = 0 -> "create"
      [] OTHER -> "return"

Lock(t) ==
    /\ pc[t] = "lock"
    /\ EventMutexFree(ev[t])
    /\ Goto(t, IF ev[t] \in done THEN AfterWait(t) ELSE "futures")
    /\ UNCHANGED <<workerVars, eventVars, ev, call, count, worker>>

\* mutant: the futures are not waited for
FuturesUnready(t) ==
    /\ pc[t] = "futures"
    /\ events' = events \ {ev[t]}
    /\ done' = done \cup {ev[t]}
    /\ Goto(t, "callback")
    /\ UNCHANGED <<workerVars, inOrder, created, alive, ended, held, ev, call,
                   count, worker>>

\* mutant: the event stays in the queue's set
FuturesKeepsEvent(t) ==
    /\ pc[t] = "futures"
    /\ \A i \in 1 .. NumTasks : <<ev[t], i>> \in ran
    /\ done' = done \cup {ev[t]}
    /\ Goto(t, "callback")
    /\ UNCHANGED <<workerVars, inOrder, created, alive, ended, events, held,
                   ev, call, count, worker>>

Futures(t) ==
    /\ pc[t] = "futures"
    /\ \A i \in 1 .. NumTasks : <<ev[t], i>> \in ran
    /\ events' = events \ {ev[t]}
    /\ done' = done \cup {ev[t]}
    /\ Goto(t, "callback")
    /\ UNCHANGED <<workerVars, inOrder, created, alive, ended, held, ev, call,
                   count, worker>>

\* the callback records the end timestamp, with the mutex unlocked before
Callback(t) ==
    /\ pc[t] = "callback"
    /\ EventMutexFree(ev[t])
    /\ ended' = ended \cup {ev[t]}
    /\ Goto(t, AfterWait(t))
    /\ UNCHANGED <<workerVars, inOrder, created, alive, done, events, held,
                   ev, call, count, worker>>

Return(t) ==
    /\ pc[t] = "return"
    /\ alive' = IF call[t] = "urEventRelease" THEN alive \ {ev[t]} ELSE alive
    /\ call' = [call EXCEPT ![t] = "none"]
    /\ ev' = [ev EXCEPT ![t] = NoEvent]
    /\ count' = [count EXCEPT ![t] = 0]
    /\ Goto(t, "idle")
    /\ UNCHANGED <<workerVars, inOrder, created, done, ended, events, held,
                   worker>>

------------------------------------------------------------------------------

Call(t) ==
    \/ (\E f \in Enqueues : Enqueue(t, f)) \/ urQueueFinish(t)
    \/ \E e \in Events : urEventWait(t, e) \/ urEventRelease(t, e)

Step(t) ==
    \/ CreateEvent(t) \/ Execute(t) \/ (\E w \in Workers : Push(t, w))
    \/ Notify(t) \/ Launched(t) \/ FinishLoop(t) \/ Lock(t) \/ Futures(t)
    \/ Callback(t) \/ Return(t)

\* the pool is gone
Terminated == (\A w \in Workers : state[w] = "exit") /\ UNCHANGED vars

Next ==
    \/ \E w \in Workers :
          \/ Construct(w) \/ Constructed(w) \/ SpuriousWakeup(w) \/ Check(w)
          \/ Run(w) \/ Stop(w)
    \/ \E t \in Threads : Call(t) \/ Step(t)
    \/ Terminated

Spec == Init /\ [][Next]_vars

\* Threads that can go on do, whether workers or the application's in a call.
FairSpec ==
    /\ Spec
    /\ \A w \in Workers : WF_vars(Constructed(w)) /\ WF_vars(Check(w) \/ Run(w))
    /\ \A t \in Threads : WF_vars(Step(t))

------------------------------------------------------------------------------
(* Correctness *)

\* Every variable has its type; in particular m_numTasks never wraps below 0
\* (threadpool.hpp:58-71).
TypeOK ==
    /\ state \in [Workers -> States]
    /\ built \in [Workers -> BOOLEAN]
    /\ isRunning \in [Workers -> BOOLEAN]
    /\ tasks \in [Workers -> Seq(Tasks)]
    /\ numTasks \in [Workers -> Nat]
    /\ task \in [Workers -> Tasks \cup {NoTask}]
    /\ ran \subseteq Tasks
    /\ inOrder \in BOOLEAN
    /\ created \in 0 .. MaxEvents
    /\ alive \subseteq Events /\ done \subseteq Events /\ ended \subseteq Events
    /\ events \subseteq Events /\ held \subseteq Events
    /\ pc \in [Threads -> PCs]
    /\ ev \in [Threads -> Events \cup {NoEvent}]
    /\ call \in [Threads -> Functions]
    /\ count \in [Threads -> 0 .. NumTasks]
    /\ worker \in [Threads -> Workers]

\* An event that says it is complete has all its tasks executed, and an event
\* that is deleted too: no task outlives what it works for
\* (event.cpp:130-151).
CompleteMeansExecuted ==
    \A e \in done \cup (1 .. created \ alive) :
        \A i \in 1 .. NumTasks : <<e, i>> \in ran

\* When a finish returns, every command enqueued before has been executed and
\* the callback of its event has recorded the end time (queue.hpp:34-42).
FinishWaitsForAll ==
    [][\A t \in Threads :
          Finishing(t) /\ pc[t] = "return" /\ pc'[t] = "idle" =>
              1 .. created \subseteq ended]_vars

\* A worker that was stopped has executed every task it was given: the loop
\* leaves only when there is no work (threadpool.hpp:46-49, 83-93).
StoppedMeansDrained ==
    (\A w \in Workers : state[w] = "exit") =>
        \A e \in 1 .. created, i \in 1 .. NumTasks : <<e, i>> \in ran

\* finish() waits on an event it took from the set only while that event is
\* not deleted (queue.hpp:34-41).
FinishUsesLiveEvents ==
    \A t \in Threads : Finishing(t) /\ pc[t] = "lock" => ev[t] \in alive

\* Every task that was scheduled is executed: no wake-up is lost and no worker
\* leaves early (threadpool.hpp:34-74).
TasksExecuted ==
    \A x \in Tasks :
        (\E w \in Workers : \E i \in DOMAIN tasks[w] : tasks[w][i] = x)
            ~> (x \in ran)

\* Every call returns: waits and finishes end (event.cpp:136-151).
CallsReturn == \A t \in Threads : (call[t] # "none") ~> (call[t] = "none")
==============================================================================

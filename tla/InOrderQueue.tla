----------------------------- MODULE InOrderQueue -----------------------------
(****************************************************************************)
(* The immediate in-order queue of the Level Zero v2 adapter and the        *)
(* command list manager inside it:                                          *)
(*   v2/queue_immediate_in_order.cpp, v2/command_list_manager.cpp,          *)
(*   v2/kernel.cpp (reference counts, prepareForSubmission).                *)
(*                                                                          *)
(* Every enqueue function is a straight line of a few kinds of step, so it  *)
(* is modelled by the list of its steps; a thread inside a call has the     *)
(* rest of that list in todo.  Functions of the queue hold the queue's      *)
(* Mutex, functions of the manager hold the manager's, and both fill the    *)
(* same waitList and append to the same command list.                       *)
(*                                                                          *)
(* The device runs each queue's commands in order; a command starts when    *)
(* the events it was appended with are complete.  An event is the command   *)
(* that signals it, <<queue, position>>.                                    *)
(****************************************************************************)
EXTENDS Integers, Sequences, FiniteSetsExt

CONSTANTS
    Threads,
    Queues,
    NoQueue,
    Kernels,
    NoKernel,
    Functions,  \* the enqueue functions the application calls
    Exclusive,  \* the application uses a queue from one thread at a time
    MayFail,    \* whether a Level Zero call may return an error
    MaxCmds,    \* bound: a call starts while fewer commands were appended
    MaxRefs     \* bound: references the application holds on one kernel

ASSUME InOrderQueueAssumption ==
    /\ NoQueue \notin Queues
    /\ NoKernel \notin Kernels
    /\ Exclusive \in BOOLEAN
    /\ MayFail \in BOOLEAN
    /\ MaxCmds \in Nat
    /\ MaxRefs \in Nat \ {0}

VARIABLES
    cmds,       \* commands of each queue the device has still to complete
    completed,  \* how many it has completed
    waitList,   \* storage of ur_command_list_manager::waitList, as a set
    allocated,  \* whether that vector ever had storage: data() # nullptr
    submitted,  \* ur_queue_immediate_in_order_t::submittedKernels
    refCount,   \* RefCount of each kernel; at 0 the kernel is deleted
    appRefs,    \* history: references the application holds on each kernel
    todo,       \* steps a thread's call has still to do, <<>> outside a call
    lock,       \* mutex the call holds: "queue", "manager" or "none"
    queue,      \* the call's queue
    kernel,     \* the call's kernel
    need,       \* the call's wait list
    view,       \* the call's wait_list_view
    signal,     \* the call's event: NotWanted, Wanted, or its position
    target      \* position zeCommandListHostSynchronize waits for

deviceVars == <<cmds, completed>>
kernelVars == <<submitted, refCount, appRefs>>
callVars   == <<lock, queue, kernel, need, signal, target>>
vars == <<cmds, completed, waitList, allocated, submitted, refCount, appRefs,
          todo, lock, queue, kernel, need, view, signal, target>>

------------------------------------------------------------------------------
(* The functions: the mutex they take and their steps *)
(*   args      getSignalEvent, getWaitListView                              *)
(*   pointer   getDevicePtr, which appends nothing: every kind of buffer    *)
(*             ignores its migrate argument; it may throw                   *)
(*   migrate   mapHostPtr or unmapHostPtr, which append one copy with the   *)
(*             view and clear it, or nothing                                *)
(*   copy      append with the view and clear it                            *)
(*   append    append with the view and the signal event                    *)
(*   waitOn    append a wait on the view; waitIf tests the view first       *)
(*   clear     wait_list_view::clear                                        *)
(*   plain     append with neither                                          *)
(*   signal    append the signal event alone, if there is one               *)
(*   sync, wait  zeCommandListHostSynchronize                               *)
(*   unlock    the manager's function returns to the queue's                *)
(*   record    recordSubmittedKernel                                        *)
(*   free      release every kernel of submittedKernels                     *)

(* A call ends with the step return; a blocking one first synchronizes.     *)

Function(mutex, steps) == [mutex |-> mutex, steps |-> steps]

Blocking(s) == s \o <<"sync", "wait">>

enqueueKernelLaunch ==
    Function("manager", <<"args", "pointer", "append", "unlock", "record">>)

enqueueCooperativeKernelLaunchExp ==
    Function("queue", <<"args", "pointer", "append", "record">>)

appendGenericCopyUnlocked == <<"args", "pointer", "pointer", "append">>

appendRegionCopyUnlocked == <<"args", "pointer", "pointer", "append">>

enqueueMemBufferRead   == Function("manager", appendGenericCopyUnlocked)
enqueueMemBufferWrite  == Function("manager", appendGenericCopyUnlocked)
enqueueMemBufferCopy   == Function("manager", appendGenericCopyUnlocked)
enqueueMemBufferReadRect  == Function("manager", appendRegionCopyUnlocked)
enqueueMemBufferWriteRect == Function("manager", appendRegionCopyUnlocked)
enqueueMemBufferCopyRect  == Function("manager", appendRegionCopyUnlocked)

enqueueUSMMemcpy   == Function("manager", <<"args", "append">>)
enqueueUSMMemcpy2D == Function("manager", appendRegionCopyUnlocked)

enqueueMemImageRead  == Function("queue", <<"args", "append">>)
enqueueMemImageWrite == Function("queue", <<"args", "append">>)
enqueueMemImageCopy  == Function("queue", <<"args", "append">>)

\* returns at once when there is neither a wait list nor an event to signal
enqueueEventsWait == Function("queue", <<"nop", "args", "waitOn", "signal">>)
enqueueEventsWaitWithBarrier == Function("queue", <<"nop", "args", "append">>)

enqueueMemBufferMap ==
    Function("queue", <<"args", "migrate", "waitIf", "signal">>)

\* mutant: the view is cleared before the wait is appended
enqueueMemUnmapClearsFirst ==
    Function("queue", <<"args", "clear", "waitOn", "migrate", "signal">>)

enqueueMemUnmap ==
    Function("queue", <<"args", "waitOn", "clear", "migrate", "signal">>)

\* a fill whose pattern size is a power of two, and one emulated by copies
enqueueGenericFillUnlocked == {<<"args", "pointer", "append">>,
                               <<"args", "pointer", "copy", "append">>}
enqueueFill == {Function("queue", s) : s \in enqueueGenericFillUnlocked}

enqueueUSMPrefetch ==
    Function("queue", <<"args", "waitOn", "plain", "signal">>)

\* the same steps, but with an empty wait list only: a case of the prefetch
enqueueUSMAdvise ==
    Function("queue", <<"args", "waitOn", "plain", "signal">>)

enqueueTimestampRecordingExp == Function("queue", <<"args", "append">>)

enqueueGenericCommandListsExp == Function("queue", <<"args", "append">>)

\* mutant: the kernels are released without waiting for the device
queueFinishNoSync == Function("queue", <<"free">>)

queueFinish == Function("queue", <<"sync", "wait", "free">>)

KernelFunctions == {enqueueKernelLaunch, enqueueCooperativeKernelLaunchExp}

\* functions with a blocking parameter
BlockingFunctions ==
    {enqueueMemBufferRead, enqueueMemBufferWrite, enqueueMemBufferReadRect,
     enqueueMemBufferWriteRect, enqueueUSMMemcpy, enqueueUSMMemcpy2D,
     enqueueMemImageRead, enqueueMemImageWrite, enqueueMemBufferMap,
     enqueueTimestampRecordingExp}

OtherFunctions ==
    {enqueueMemBufferCopy, enqueueMemBufferCopyRect, enqueueMemImageCopy,
     enqueueEventsWait, enqueueEventsWaitWithBarrier, enqueueMemUnmap,
     enqueueUSMPrefetch, enqueueUSMAdvise, enqueueGenericCommandListsExp}
    \cup enqueueFill

------------------------------------------------------------------------------

NotWanted == -1     \* the caller passed no place for an event
Wanted    == 0      \* no command signals the event yet

\* wait_list_view: whether handles # nullptr, and num
Cleared == [handles |-> FALSE, num |-> 0]

Init ==
    /\ cmds = [q \in Queues |-> <<>>]
    /\ completed = [q \in Queues |-> 0]
    /\ waitList = [q \in Queues |-> {}]
    /\ allocated = [q \in Queues |-> FALSE]
    /\ submitted = [q \in Queues |-> <<>>]
    /\ refCount = [k \in Kernels |-> 1]
    /\ appRefs = [k \in Kernels |-> 1]
    /\ todo = [t \in Threads |-> <<>>]
    /\ lock = [t \in Threads |-> "none"]
    /\ queue = [t \in Threads |-> NoQueue]
    /\ kernel = [t \in Threads |-> NoKernel]
    /\ need = [t \in Threads |-> {}]
    /\ view = [t \in Threads |-> Cleared]
    /\ signal = [t \in Threads |-> NotWanted]
    /\ target = [t \in Threads |-> 0]

InCall(t) == todo[t] # <<>>

\* the event e has been signalled
Complete(e) == e[2] <= completed[e[1]]

\* the device may run the next command of q
Runnable(q) == cmds[q] # <<>> /\ \A e \in Head(cmds[q]).waits : Complete(e)

\* position of the last command appended to q
Position(q) == completed[q] + Len(cmds[q])

\* commands appended to all queues
Appended == MapThenSumSet(Position, Queues)

\* the device completes the next command of q
DeviceComplete(q) ==
    /\ Runnable(q)
    /\ cmds' = [cmds EXCEPT ![q] = Tail(@)]
    /\ completed' = [completed EXCEPT ![q] = @ + 1]
    /\ UNCHANGED <<waitList, allocated, kernelVars, todo, callVars, view>>

------------------------------------------------------------------------------
(* Calls *)

MutexFree(m, q) == \A t \in Threads : ~(lock[t] = m /\ queue[t] = q)

\* appendKernelLaunch and the cooperative launch also hold the kernel's Mutex
KernelMutexFree(k) ==
    \A t \in Threads : ~(lock[t] # "none" /\ kernel[t] = k)

\* the application calls a function f on q, with kernel k, wait list w and,
\* if s = Wanted, a place for an event
Begin(t, q, f, steps, k, w, s) ==
    /\ ~InCall(t)
    /\ Exclusive => \A u \in Threads : ~(InCall(u) /\ queue[u] = q)
    /\ MutexFree(f.mutex, q)
    /\ k # NoKernel => KernelMutexFree(k) /\ appRefs[k] > 0
    /\ Appended < MaxCmds
    /\ todo' = [todo EXCEPT ![t] = Append(steps, "return")]
    /\ lock' = [lock EXCEPT ![t] = f.mutex]
    /\ queue' = [queue EXCEPT ![t] = q]
    /\ kernel' = [kernel EXCEPT ![t] = k]
    /\ need' = [need EXCEPT ![t] = w]
    /\ signal' = [signal EXCEPT ![t] = s]
    /\ UNCHANGED <<deviceVars, waitList, allocated, kernelVars, view, target>>

\* the events calls have returned; one that is complete is as good as none
Returned(q, n) ==
    /\ cmds[q][n - completed[q]].signals
    /\ \A t \in Threads : ~(InCall(t) /\ queue[t] = q /\ signal[t] = n)

Events ==
    UNION {{q} \X {n \in completed[q] + 1 .. Position(q) : Returned(q, n)} :
               q \in Queues}

\* the wait lists a caller may pass: none, or one event
WaitLists == {{}} \cup {{e} : e \in Events}

Launch(t, q) ==
    \E f \in KernelFunctions \cap Functions, k \in Kernels, w \in WaitLists,
       s \in {NotWanted, Wanted} :
        Begin(t, q, f, f.steps, k, w, s)

Enqueue(t, q) ==
    \E w \in WaitLists, s \in {NotWanted, Wanted} :
        \/ \E f \in OtherFunctions \cap Functions :
              Begin(t, q, f, f.steps, NoKernel, w, s)
        \/ \E f \in BlockingFunctions \cap Functions :
              \/ Begin(t, q, f, f.steps, NoKernel, w, s)
              \/ Begin(t, q, f, Blocking(f.steps), NoKernel, w, s)

Finish(t, q) ==
    /\ ~InCall(t)
    /\ Exclusive => \A u \in Threads : ~(InCall(u) /\ queue[u] = q)
    /\ MutexFree("queue", q)
    /\ todo' = [todo EXCEPT ![t] = Append(queueFinish.steps, "return")]
    /\ lock' = [lock EXCEPT ![t] = "queue"]
    /\ queue' = [queue EXCEPT ![t] = q]
    /\ UNCHANGED <<deviceVars, waitList, allocated, kernelVars, kernel, need,
                   view, signal, target>>

------------------------------------------------------------------------------
(* Steps of a call *)

At(t, step) == InCall(t) /\ Head(todo[t]) = step

Advance(t) == todo' = [todo EXCEPT ![t] = Tail(@)]

\* the return: the mutexes are released and the caller has its event
Leave(t) ==
    /\ todo' = [todo EXCEPT ![t] = <<>>]
    /\ lock' = [lock EXCEPT ![t] = "none"]
    /\ queue' = [queue EXCEPT ![t] = NoQueue]
    /\ kernel' = [kernel EXCEPT ![t] = NoKernel]
    /\ need' = [need EXCEPT ![t] = {}]
    /\ view' = [view EXCEPT ![t] = Cleared]
    /\ signal' = [signal EXCEPT ![t] = NotWanted]
    /\ target' = [target EXCEPT ![t] = 0]

Return(t) ==
    /\ At(t, "return")
    /\ Leave(t)
    /\ UNCHANGED <<deviceVars, waitList, allocated, kernelVars>>

Nop(t) ==
    /\ At(t, "nop")
    /\ IF need[t] = {} /\ signal[t] = NotWanted
       THEN Leave(t)
       ELSE Advance(t) /\ UNCHANGED <<callVars, view>>
    /\ UNCHANGED <<deviceVars, waitList, allocated, kernelVars>>

\* getWaitListView overwrites the manager's vector; resize(0) keeps its storage
Args(t) ==
    /\ At(t, "args")
    /\ waitList' = [waitList EXCEPT ![queue[t]] =
                        IF need[t] = {} THEN @ ELSE need[t]]
    /\ allocated' = [allocated EXCEPT ![queue[t]] = @ \/ need[t] # {}]
    /\ view' = [view EXCEPT ![t] = [handles |-> allocated'[queue[t]],
                                    num |-> Cardinality(need[t])]]
    /\ Advance(t)
    /\ UNCHANGED <<deviceVars, kernelVars, callVars>>

\* the events the driver reads through the view: those stored there now
Viewed(t) == IF view[t].num = 0 THEN {} ELSE waitList[queue[t]]

Command(t, k, waits) ==
    [kernel |-> k, waits |-> waits, need |-> need[t], signals |-> FALSE]

\* a command that signals the call's event, if the caller wants one
SignallingCommand(t, k, waits) ==
    [Command(t, k, waits) EXCEPT !.signals = signal[t] = Wanted]

AppendCommand(t, c) == cmds' = [cmds EXCEPT ![queue[t]] = Append(@, c)]

NextPosition(t) == Position(queue[t]) + 1

ClearView(t) == view' = [view EXCEPT ![t] = Cleared]

Pointer(t) ==
    /\ At(t, "pointer")
    /\ Advance(t)
    /\ UNCHANGED <<deviceVars, waitList, allocated, kernelVars, callVars, view>>

Migrate(t) ==
    /\ At(t, "migrate")
    /\ \/ AppendCommand(t, Command(t, NoKernel, Viewed(t))) /\ ClearView(t)
       \/ UNCHANGED <<cmds, view>>
    /\ Advance(t)
    /\ UNCHANGED <<completed, waitList, allocated, kernelVars, callVars>>

Copy(t) ==
    /\ At(t, "copy")
    /\ AppendCommand(t, Command(t, NoKernel, Viewed(t)))
    /\ ClearView(t)
    /\ Advance(t)
    /\ UNCHANGED <<completed, waitList, allocated, kernelVars, callVars>>

\* the command itself; a kernel launch appends its kernel
AppendMain(t) ==
    /\ At(t, "append")
    /\ AppendCommand(t, SignallingCommand(t, kernel[t], Viewed(t)))
    /\ signal' = [signal EXCEPT ![t] = IF @ = Wanted THEN NextPosition(t)
                                                    ELSE @]
    /\ Advance(t)
    /\ UNCHANGED <<completed, waitList, allocated, kernelVars, lock, queue,
                   kernel, need, view, target>>

\* a wait on no events is no command
WaitOn(t) ==
    /\ At(t, "waitOn") \/ At(t, "waitIf")
    /\ IF view[t].num > 0
       THEN AppendCommand(t, Command(t, NoKernel, Viewed(t)))
       ELSE UNCHANGED cmds
    /\ Advance(t)
    /\ UNCHANGED <<completed, waitList, allocated, kernelVars, callVars, view>>

Clear(t) ==
    /\ At(t, "clear")
    /\ ClearView(t)
    /\ Advance(t)
    /\ UNCHANGED <<deviceVars, waitList, allocated, kernelVars, callVars>>

Plain(t) ==
    /\ At(t, "plain")
    /\ AppendCommand(t, Command(t, NoKernel, {}))
    /\ Advance(t)
    /\ UNCHANGED <<completed, waitList, allocated, kernelVars, callVars, view>>

SignalEvent(t) ==
    /\ At(t, "signal")
    /\ IF signal[t] = Wanted
       THEN /\ AppendCommand(t, SignallingCommand(t, NoKernel, {}))
            /\ signal' = [signal EXCEPT ![t] = NextPosition(t)]
       ELSE UNCHANGED <<cmds, signal>>
    /\ Advance(t)
    /\ UNCHANGED <<completed, waitList, allocated, kernelVars, lock, queue,
                   kernel, need, view, target>>

\* getDevicePtr throws, or a Level Zero append or synchronize fails: the
\* function returns the error
Fail(t) ==
    /\ MayFail
    /\ \E s \in {"pointer", "migrate", "copy", "append", "waitOn", "waitIf",
                 "plain", "signal", "wait"} : At(t, s)
    /\ Leave(t)
    /\ UNCHANGED <<deviceVars, waitList, allocated, kernelVars>>

\* zeCommandListHostSynchronize starts
Sync(t) ==
    /\ At(t, "sync")
    /\ target' = [target EXCEPT ![t] = Position(queue[t])]
    /\ Advance(t)
    /\ UNCHANGED <<deviceVars, waitList, allocated, kernelVars, lock, queue,
                   kernel, need, view, signal>>

\* mutant: a synchronize that ended is started again
WaitAgain(t) ==
    /\ At(t, "wait")
    /\ target[t] <= completed[queue[t]]
    /\ todo' = [todo EXCEPT ![t] = <<"sync">> \o @]
    /\ UNCHANGED <<deviceVars, waitList, allocated, kernelVars, callVars, view>>

\* and returns
Wait(t) ==
    /\ At(t, "wait")
    /\ target[t] <= completed[queue[t]]
    /\ Advance(t)
    /\ UNCHANGED <<deviceVars, waitList, allocated, kernelVars, callVars, view>>

\* appendKernelLaunch returns
Unlock(t) ==
    /\ At(t, "unlock")
    /\ lock' = [lock EXCEPT ![t] = "none"]
    /\ Advance(t)
    /\ UNCHANGED <<deviceVars, waitList, allocated, kernelVars, queue, kernel,
                   need, view, signal, target>>

\* mutant: the launch is recorded without a reference
recordWithoutRetain(t) ==
    /\ At(t, "record")
    /\ submitted' = [submitted EXCEPT ![queue[t]] = Append(@, kernel[t])]
    /\ Advance(t)
    /\ UNCHANGED <<deviceVars, waitList, allocated, refCount, appRefs, callVars,
                   view>>

recordSubmittedKernel(t) ==
    /\ At(t, "record")
    /\ submitted' = [submitted EXCEPT ![queue[t]] = Append(@, kernel[t])]
    /\ refCount' = [refCount EXCEPT ![kernel[t]] = @ + 1]
    /\ Advance(t)
    /\ UNCHANGED <<deviceVars, waitList, allocated, appRefs, callVars, view>>

\* mutant: submittedKernels is not cleared
FreeKernelKeeps(t) ==
    LET q == queue[t] IN
    /\ At(t, "free")
    /\ Advance(t)
    /\ IF submitted[q] = <<>>
       THEN UNCHANGED refCount
       ELSE refCount' = [refCount EXCEPT ![Head(submitted[q])] = @ - 1]
    /\ UNCHANGED <<deviceVars, waitList, allocated, submitted, appRefs,
                   callVars, view>>

\* queueFinish releases the next submitted kernel, or is done with them; the
\* code clears the vector after the loop, which no other call sees under the
\* queue's Mutex, and a zeKernelDestroy that fails is left out
FreeKernel(t) ==
    LET q == queue[t] IN
    /\ At(t, "free")
    /\ IF submitted[q] = <<>>
       THEN Advance(t) /\ UNCHANGED <<submitted, refCount>>
       ELSE /\ submitted' = [submitted EXCEPT ![q] = Tail(@)]
            /\ refCount' = [refCount EXCEPT ![Head(submitted[q])] = @ - 1]
            /\ UNCHANGED todo
    /\ UNCHANGED <<deviceVars, waitList, allocated, appRefs, callVars, view>>

------------------------------------------------------------------------------
(* Kernel functions; the application does not drop its last reference under
   a call that uses the kernel *)

urKernelRetain(k) ==
    /\ appRefs[k] \in 1 .. MaxRefs - 1
    /\ appRefs' = [appRefs EXCEPT ![k] = @ + 1]
    /\ refCount' = [refCount EXCEPT ![k] = @ + 1]
    /\ UNCHANGED <<deviceVars, waitList, allocated, submitted, todo, callVars,
                   view>>

urKernelRelease(k) ==
    /\ appRefs[k] > 0
    /\ appRefs[k] = 1 => \A t \in Threads : kernel[t] # k
    /\ appRefs' = [appRefs EXCEPT ![k] = @ - 1]
    /\ refCount' = [refCount EXCEPT ![k] = @ - 1]
    /\ UNCHANGED <<deviceVars, waitList, allocated, submitted, todo, callVars,
                   view>>

------------------------------------------------------------------------------

Call(t) == \E q \in Queues : Launch(t, q) \/ Enqueue(t, q) \/ Finish(t, q)

Step(t) ==
    \/ Return(t) \/ Nop(t) \/ Args(t) \/ Pointer(t) \/ Migrate(t)
    \/ Copy(t) \/ AppendMain(t) \/ WaitOn(t) \/ Clear(t) \/ Plain(t) \/ SignalEvent(t)
    \/ Sync(t) \/ Wait(t) \/ Unlock(t)
    \/ recordSubmittedKernel(t) \/ FreeKernel(t)

Next ==
    \/ \E q \in Queues : DeviceComplete(q)
    \/ \E t \in Threads : Call(t) \/ Step(t) \/ Fail(t)
    \/ \E k \in Kernels : urKernelRetain(k) \/ urKernelRelease(k)

Spec == Init /\ [][Next]_vars

\* The devices execute what they were given, and a call that can go on does;
\* nothing makes one fail.
FairSpec ==
    /\ Spec
    /\ \A q \in Queues : WF_vars(DeviceComplete(q))
    /\ \A t \in Threads : WF_vars(Step(t))

------------------------------------------------------------------------------
(* Correctness *)

Steps == {"args", "pointer", "migrate", "copy", "append", "waitOn",
          "waitIf", "clear", "plain", "signal", "sync", "wait", "unlock",
          "record", "free", "nop", "return"}

Event == Queues \X (Nat \ {0})

Commands == [kernel : Kernels \cup {NoKernel}, waits : SUBSET Event,
             need : SUBSET Event, signals : BOOLEAN]

\* Every variable has its type: the members of the queues, of their managers
\* and of the kernels, and the local variables of the calls.
TypeOK ==
    /\ cmds \in [Queues -> Seq(Commands)]
    /\ completed \in [Queues -> Nat]
    /\ waitList \in [Queues -> SUBSET Event]
    /\ allocated \in [Queues -> BOOLEAN]
    /\ submitted \in [Queues -> Seq(Kernels)]
    /\ refCount \in [Kernels -> Nat]
    /\ appRefs \in [Kernels -> 0 .. MaxRefs]
    /\ todo \in [Threads -> Seq(Steps)]
    /\ lock \in [Threads -> {"queue", "manager", "none"}]
    /\ queue \in [Threads -> Queues \cup {NoQueue}]
    /\ kernel \in [Threads -> Kernels \cup {NoKernel}]
    /\ need \in [Threads -> SUBSET Event]
    /\ view \in [Threads -> [handles : BOOLEAN, num : Nat]]
    /\ signal \in [Threads -> Nat \cup {NotWanted}]
    /\ target \in [Threads -> Nat]

\* A kernel the device has still to run is alive, whatever references the
\* application dropped: the reason for recordSubmittedKernel
\* (queue_immediate_in_order.cpp:173-177) and for releasing only after the
\* synchronize of queueFinish (l.155-168).
KernelAliveWhilePending ==
    \A q \in Queues : \A c \in Range(cmds[q]) :
        c.kernel # NoKernel => refCount[c.kernel] > 0

\* the places of submittedKernels, of all queues, that hold the kernel k
Records(k) ==
    UNION {{q} \X {i \in DOMAIN submitted[q] : submitted[q][i] = k} : q \in Queues}

\* A kernel's count is the application's references and one for every launch
\* queueFinish has still to release: none is lost and none released twice
\* (queue_immediate_in_order.cpp:164-168, kernel.cpp:99-115).
KernelCountExact ==
    \A k \in Kernels : refCount[k] = appRefs[k] + Cardinality(Records(k))

\* The device runs a command only after every event of its call's wait list,
\* also when an earlier copy of the same call took the waits and cleared the
\* view (queue_immediate_in_order.cpp:489-515, 533-548, 577-590).
WaitsHonoured ==
    \A q \in Queues :
        Runnable(q) => \A e \in Head(cmds[q]).need : Complete(e)

\* wait_list_view::operator bool asserts that the view has handles exactly
\* when it has events (command_list_manager.hpp:23-26).
ViewAssertion ==
    \A t \in Threads :
        At(t, "waitIf") => (view[t].handles <=> view[t].num > 0)

\* Every call returns: a synchronize ends because wait lists only name
\* commands that were appended before (queue_immediate_in_order.cpp:147-171).
CallsReturn == \A t \in Threads : []<>~InCall(t)
===============================================================================

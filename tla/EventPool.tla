------------------------------ MODULE EventPool ------------------------------
(****************************************************************************)
(* Life of a pooled event of the Level Zero v2 adapter:                     *)
(*   v2/event_pool.cpp                 the pool an in-order queue borrows,  *)
(*   v2/event.cpp                      reference counts, timestamps,        *)
(*                                     immediate and deferred release,      *)
(*   v2/queue_immediate_in_order.cpp   the enqueue paths, deferEventFree    *)
(*                                     and queueFinish.                     *)
(* Several host threads use one queue.  The device executes the queue's     *)
(* commands in order.  Events are counter based (context.cpp asserts it), so*)
(* a Level Zero event is complete when the last command appended with it is.*)
(*                                                                          *)
(* A mutex is represented by the program points that hold it.  The pool     *)
(* mutex covers exactly one atomic step of this model in both of its uses.  *)
(****************************************************************************)
EXTENDS Integers, Sequences, Functions

CONSTANTS
    Threads,        \* host threads
    EVENTS_BURST,   \* events created when the freelist is empty
    MaxEvents,      \* bound: events the pool creates
    MaxCmds,        \* bound: commands appended to the command list
    MaxRefs,        \* bound: references the application holds on one event
    MayFail         \* whether a Level Zero call may return an error

ASSUME EventPoolAssumption ==
    /\ EVENTS_BURST \in Nat \ {0}
    /\ MaxEvents \in Nat
    /\ MaxCmds \in Nat
    /\ MaxRefs \in Nat \ {0}
    /\ MayFail \in BOOLEAN

Events  == 1 .. MaxEvents
NoEvent == 0

VARIABLES
    events,     \* events.size(): events 1..events exist
    freelist,   \* event_pool::freelist, allocate() takes its last element
    refCount,   \* _ur_object::RefCount of each event
    stamp,      \* profilingData: start not recorded, recorded, end cached too
    lastCmd,    \* last command appended with the event as signal event
    deferred,   \* ur_queue_immediate_in_order_t::deferredEvents
    writes,     \* pending device writes of an end timestamp into an event
    appended,   \* commands appended to the command list so far
    completed,  \* commands the device has completed, a prefix of them
    pc,         \* program point of each thread
    kind,       \* which enqueue function a thread is in
    cur,        \* event a thread works on, NoEvent if none
    target,     \* command a thread's zeCommandListHostSynchronize waits for
    handles,    \* history: references the application holds on each event
    leaked      \* history: events of an enqueue that failed, never handed out

poolVars   == <<events, freelist, refCount>>
deviceVars == <<writes, appended, completed>>
vars == <<events, freelist, refCount, stamp, lastCmd, deferred, writes,
          appended, completed, pc, kind, cur, target, handles, leaked>>

\* enqueue functions by the mutex they take: "manager" (kernel launch, copies)
\* takes ur_command_list_manager's, the others take the queue's
Kinds == {"manager", "queue", "timestamp"}
PCs   == {"idle", "append", "sync", "finSync", "finFailed", "finFree",
          "release", "defer", "free"}

Init ==
    /\ events = 0
    /\ freelist = <<>>
    /\ refCount = [e \in Events |-> 1]
    /\ stamp = [e \in Events |-> "none"]
    /\ lastCmd = [e \in Events |-> 0]
    /\ deferred = <<>>
    /\ writes = {}
    /\ appended = 0
    /\ completed = 0
    /\ pc = [t \in Threads |-> "idle"]
    /\ kind = [t \in Threads |-> "queue"]
    /\ cur = [t \in Threads |-> NoEvent]
    /\ target = [t \in Threads |-> 0]
    /\ handles = [e \in Events |-> 0]
    /\ leaked = {}

------------------------------------------------------------------------------
(* Mutexes *)

HoldsQueueMutex(t) ==
    \/ pc[t] \in {"finSync", "finFailed", "finFree"}
    \/ pc[t] \in {"append", "sync"} /\ kind[t] # "manager"

HoldsManagerMutex(t) == pc[t] \in {"append", "sync"} /\ kind[t] = "manager"

QueueMutexFree   == \A t \in Threads : ~HoldsQueueMutex(t)
ManagerMutexFree == \A t \in Threads : ~HoldsManagerMutex(t)

\* release() keeps the event's Mutex while it waits for the queue's
EventMutexFree(e) == \A t \in Threads : ~(pc[t] = "defer" /\ cur[t] = e)

------------------------------------------------------------------------------
(* Level Zero *)

\* zeEventQueryStatus(e) = ZE_RESULT_SUCCESS
Signaled(e) == lastCmd[e] <= completed

\* the device completes the next command, writing its timestamp if it has one
DeviceComplete ==
    /\ completed < appended
    /\ completed' = completed + 1
    /\ writes' = {w \in writes : w.cmd # completed + 1}
    /\ UNCHANGED <<poolVars, stamp, lastCmd, deferred, appended, pc, kind, cur,
                   target, handles, leaked>>

------------------------------------------------------------------------------
(* event_pool *)

\* the freelist allocate() pops from: refilled by a burst when it is empty
Refilled == IF freelist = <<>>
            THEN [i \in 1 .. EVENTS_BURST |-> events + i]
            ELSE freelist

\* event_pool::allocate returning e
Allocate(e) ==
    /\ freelist = <<>> => events + EVENTS_BURST <= MaxEvents
    /\ e = Refilled[Len(Refilled)]
    /\ freelist' = SubSeq(Refilled, 1, Len(Refilled) - 1)
    /\ events' = IF freelist = <<>> THEN events + EVENTS_BURST ELSE events

\* mutant: the count is not restored for the next user
FreeKeepsCount(e) ==
    /\ freelist' = Append(freelist, e)
    /\ UNCHANGED <<refCount, events>>

\* event_pool::free(e)
Free(e) ==
    /\ freelist' = Append(freelist, e)
    /\ refCount' = [refCount EXCEPT ![e] = @ + 1]
    /\ UNCHANGED events

------------------------------------------------------------------------------
(* Enqueue: getSignalEvent, then append, under the function's mutex *)

\* resetQueueAndCommand clears profilingData; only a timestamp recording then
\* records the start
FreshStamp(k) == IF k = "timestamp" THEN "started" ELSE "none"

EnqueueBegin(t, k, wantsEvent) ==
    /\ pc[t] = "idle"
    /\ appended < MaxCmds
    /\ IF k = "manager" THEN ManagerMutexFree ELSE QueueMutexFree
    /\ k = "timestamp" => wantsEvent
    /\ pc' = [pc EXCEPT ![t] = "append"]
    /\ kind' = [kind EXCEPT ![t] = k]
    /\ IF wantsEvent
       THEN \E e \in Events :
                /\ Allocate(e)
                /\ stamp' = [stamp EXCEPT ![e] = FreshStamp(k)]
                /\ cur' = [cur EXCEPT ![t] = e]
       ELSE UNCHANGED <<events, freelist, stamp, cur>>
    /\ UNCHANGED <<refCount, lastCmd, deferred, deviceVars, target, handles,
                   leaked>>

\* the caller gets the event it asked for
HandOut(t) ==
    /\ pc' = [pc EXCEPT ![t] = "idle"]
    /\ cur' = [cur EXCEPT ![t] = NoEvent]
    /\ handles' = IF cur[t] = NoEvent THEN handles
                  ELSE [handles EXCEPT ![cur[t]] = 1]

\* zeCommandListAppend...; a blocking call then synchronizes, mutex held
EnqueueAppend(t, blocking) ==
    /\ pc[t] = "append"
    /\ appended' = appended + 1
    /\ lastCmd' = IF cur[t] = NoEvent THEN lastCmd
                  ELSE [lastCmd EXCEPT ![cur[t]] = appended + 1]
    /\ writes' = IF kind[t] = "timestamp"
                 THEN writes \cup {[cmd |-> appended + 1, ev |-> cur[t]]}
                 ELSE writes
    /\ IF blocking
       THEN /\ pc' = [pc EXCEPT ![t] = "sync"]
            /\ target' = [target EXCEPT ![t] = appended + 1]
            /\ UNCHANGED <<cur, handles>>
       ELSE HandOut(t) /\ UNCHANGED target
    /\ UNCHANGED <<poolVars, stamp, deferred, completed, kind, leaked>>

\* the append or the synchronize returns an error: the function returns it,
\* the event stays out
EnqueueFail(t) ==
    /\ MayFail
    /\ pc[t] \in {"append", "sync"}
    /\ pc' = [pc EXCEPT ![t] = "idle"]
    /\ cur' = [cur EXCEPT ![t] = NoEvent]
    /\ leaked' = leaked \cup ({cur[t]} \ {NoEvent})
    /\ UNCHANGED <<poolVars, stamp, lastCmd, deferred, deviceVars, kind,
                   target, handles>>

EnqueueSync(t) ==
    /\ pc[t] = "sync"
    /\ target[t] <= completed
    /\ HandOut(t)
    /\ UNCHANGED <<poolVars, stamp, lastCmd, deferred, deviceVars, kind,
                   target, leaked>>

------------------------------------------------------------------------------
(* Event functions *)

\* getEventEndTimestamp: the cached end, or the end once the event is complete
EndQueried(e) == IF stamp[e] = "started" /\ Signaled(e) THEN "ended"
                                                       ELSE stamp[e]

urEventRetain(t, e) ==
    /\ pc[t] = "idle"
    /\ handles[e] \in 1 .. MaxRefs - 1
    /\ refCount' = [refCount EXCEPT ![e] = @ + 1]
    /\ handles' = [handles EXCEPT ![e] = @ + 1]
    /\ UNCHANGED <<events, freelist, stamp, lastCmd, deferred, deviceVars, pc,
                   kind, cur, target, leaked>>

\* under the event's Mutex
urEventGetProfilingInfo(t, e) ==
    /\ pc[t] = "idle"
    /\ handles[e] > 0
    /\ EventMutexFree(e)
    /\ stamp' = [stamp EXCEPT ![e] = EndQueried(e)]
    /\ UNCHANGED <<poolVars, lastCmd, deferred, deviceVars, pc, kind, cur,
                   target, handles, leaked>>

\* release(): decrementAndTest; the caller gives its reference up
ReleaseBegin(t, e) ==
    /\ pc[t] = "idle"
    /\ handles[e] > 0
    /\ handles' = [handles EXCEPT ![e] = @ - 1]
    /\ refCount' = [refCount EXCEPT ![e] = @ - 1]
    /\ IF refCount[e] = 1
       THEN /\ pc' = [pc EXCEPT ![t] = "release"]
            /\ cur' = [cur EXCEPT ![t] = e]
       ELSE UNCHANGED <<pc, cur>>
    /\ UNCHANGED <<events, freelist, stamp, lastCmd, deferred, deviceVars,
                   kind, target, leaked>>

\* mutant: an event is freed although its end timestamp is still to come
ReleaseCheckNeverDefers(t) ==
    LET e == cur[t] IN
    /\ pc[t] = "release"
    /\ EventMutexFree(e)
    /\ stamp' = [stamp EXCEPT ![e] = EndQueried(e)]
    /\ pc' = [pc EXCEPT ![t] = "free"]
    /\ UNCHANGED <<poolVars, lastCmd, deferred, deviceVars, kind, cur, target,
                   handles, leaked>>

\* under the event's Mutex: may the device still write this event?
ReleaseCheck(t) ==
    LET e == cur[t] IN
    /\ pc[t] = "release"
    /\ EventMutexFree(e)
    /\ stamp' = [stamp EXCEPT ![e] = EndQueried(e)]
    /\ pc' = [pc EXCEPT ![t] = IF EndQueried(e) = "started" THEN "defer"
                                                             ELSE "free"]
    /\ UNCHANGED <<poolVars, lastCmd, deferred, deviceVars, kind, cur, target,
                   handles, leaked>>

\* mutant: release() goes on to free the event it has deferred
ReleaseDeferGoesOn(t) ==
    /\ pc[t] = "defer"
    /\ QueueMutexFree
    /\ deferred' = Append(deferred, cur[t])
    /\ pc' = [pc EXCEPT ![t] = "free"]
    /\ UNCHANGED <<poolVars, stamp, lastCmd, deviceVars, kind, cur, target,
                   handles, leaked>>

\* deferEventFree, under the queue's Mutex, then the event's is released
ReleaseDefer(t) ==
    /\ pc[t] = "defer"
    /\ QueueMutexFree
    /\ deferred' = Append(deferred, cur[t])
    /\ pc' = [pc EXCEPT ![t] = "idle"]
    /\ cur' = [cur EXCEPT ![t] = NoEvent]
    /\ UNCHANGED <<poolVars, stamp, lastCmd, deviceVars, kind, target, handles,
                   leaked>>

\* forceRelease
ReleaseFree(t) ==
    /\ pc[t] = "free"
    /\ Free(cur[t])
    /\ pc' = [pc EXCEPT ![t] = "idle"]
    /\ cur' = [cur EXCEPT ![t] = NoEvent]
    /\ UNCHANGED <<stamp, lastCmd, deferred, deviceVars, kind, target, handles,
                   leaked>>

------------------------------------------------------------------------------
(* queueFinish *)

FinishBegin(t) ==
    /\ pc[t] = "idle"
    /\ QueueMutexFree
    /\ pc' = [pc EXCEPT ![t] = "finSync"]
    /\ target' = [target EXCEPT ![t] = appended]
    /\ UNCHANGED <<poolVars, stamp, lastCmd, deferred, deviceVars, kind, cur,
                   handles, leaked>>

\* mutant: the deferred events are freed without waiting for the device
FinishSyncNoWait(t) ==
    /\ pc[t] = "finSync"
    /\ pc' = [pc EXCEPT ![t] = "finFree"]
    /\ UNCHANGED <<poolVars, stamp, lastCmd, deferred, deviceVars, kind, cur,
                   target, handles, leaked>>

FinishSync(t) ==
    /\ pc[t] = "finSync"
    /\ target[t] <= completed
    /\ pc' = [pc EXCEPT ![t] = "finFree"]
    /\ UNCHANGED <<poolVars, stamp, lastCmd, deferred, deviceVars, kind, cur,
                   target, handles, leaked>>

\* zeCommandListHostSynchronize returns an error
FinishFail(t) ==
    /\ MayFail
    /\ pc[t] = "finSync"
    /\ pc' = [pc EXCEPT ![t] = "finFailed"]
    /\ UNCHANGED <<poolVars, stamp, lastCmd, deferred, deviceVars, kind, cur,
                   target, handles, leaked>>

\* and queueFinish returns it: the deferred events stay deferred
FinishError(t) ==
    /\ pc[t] = "finFailed"
    /\ pc' = [pc EXCEPT ![t] = "idle"]
    /\ UNCHANGED <<poolVars, stamp, lastCmd, deferred, deviceVars, kind, cur,
                   target, handles, leaked>>

\* releaseDeferred() of the next deferred event
FinishFree(t) ==
    /\ pc[t] = "finFree"
    /\ deferred # <<>>
    /\ Free(Head(deferred))
    /\ deferred' = Tail(deferred)
    /\ UNCHANGED <<stamp, lastCmd, deviceVars, pc, kind, cur, target, handles,
                   leaked>>

\* mutant: the loop over the deferred events may stop early
FinishEndEarly(t) ==
    /\ pc[t] = "finFree"
    /\ pc' = [pc EXCEPT ![t] = "idle"]
    /\ UNCHANGED <<poolVars, stamp, lastCmd, deferred, deviceVars, kind, cur,
                   target, handles, leaked>>

FinishEnd(t) ==
    /\ pc[t] = "finFree"
    /\ deferred = <<>>
    /\ pc' = [pc EXCEPT ![t] = "idle"]
    /\ UNCHANGED <<poolVars, stamp, lastCmd, deferred, deviceVars, kind, cur,
                   target, handles, leaked>>

------------------------------------------------------------------------------

\* calls the application chooses to make
Call(t) ==
    \/ \E k \in Kinds, w \in BOOLEAN : EnqueueBegin(t, k, w)
    \/ \E e \in Events : \/ urEventRetain(t, e)
                         \/ urEventGetProfilingInfo(t, e)
                         \/ ReleaseBegin(t, e)
    \/ FinishBegin(t)

\* steps a call takes once it has started
Step(t) ==
    \/ \E b \in BOOLEAN : EnqueueAppend(t, b)
    \/ EnqueueSync(t)
    \/ ReleaseCheck(t)
    \/ ReleaseDefer(t)
    \/ ReleaseFree(t)
    \/ FinishSync(t)
    \/ FinishError(t)
    \/ FinishFree(t)
    \/ FinishEnd(t)

\* a Level Zero call returns an error
Fail(t) == EnqueueFail(t) \/ FinishFail(t)

Next == DeviceComplete \/ \E t \in Threads : Call(t) \/ Step(t) \/ Fail(t)

Spec == Init /\ [][Next]_vars

------------------------------------------------------------------------------
(* Correctness *)

\* Every variable has its type: the fields of event_pool, of the events, of
\* the queue and of the threads inside its functions.
TypeOK ==
    /\ events \in 0 .. MaxEvents
    /\ freelist \in Seq(Events)
    /\ refCount \in [Events -> Nat]
    /\ stamp \in [Events -> {"none", "started", "ended"}]
    /\ lastCmd \in [Events -> Nat]
    /\ deferred \in Seq(Events)
    /\ writes \in SUBSET [cmd : Nat, ev : Events]
    /\ appended \in Nat
    /\ completed \in Nat
    /\ pc \in [Threads -> PCs]
    /\ kind \in [Threads -> Kinds]
    /\ cur \in [Threads -> Events \cup {NoEvent}]
    /\ target \in [Threads -> Nat]
    /\ handles \in [Events -> Nat]
    /\ leaked \in SUBSET Events

\* An event the application cannot name: it is on the freelist, on the queue's
\* deferred list, in the hands of a thread inside a call, or leaked.
Unnamed(e) ==
    \/ e \in Range(freelist)
    \/ e \in Range(deferred)
    \/ \E t \in Threads : cur[t] = e
    \/ e \in leaked

\* Every event that exists is in exactly one place: on the freelist once, on
\* the deferred list once, worked on by one thread, or named by the
\* application.  So allocate() never returns an event somebody still uses and
\* release() never puts one on a list twice (event_pool.cpp:20-56,
\* event.cpp:151-171).
OneOwner ==
    /\ IsInjective(freelist)
    /\ IsInjective(deferred)
    /\ Range(freelist) \cap Range(deferred) = {}
    /\ \A t, u \in Threads : cur[t] = cur[u] /\ cur[t] # NoEvent => t = u
    /\ \A t \in Threads : cur[t] \notin Range(freelist) \cup Range(deferred)
    /\ \A e \in 1 .. events : handles[e] = 0 <=> Unnamed(e)

\* A device write of an end timestamp that is still to come goes to an event
\* that is out of the pool and still belongs to the command that writes: the
\* reason release() defers (event.cpp:158-164).
NoWriteAfterFree ==
    \A w \in writes :
        /\ w.ev \notin Range(freelist)
        /\ lastCmd[w.ev] = w.cmd
        /\ stamp[w.ev] = "started"

\* The assertions of the release paths: an event on the deferred list is
\* complete when queueFinish frees it (event.cpp:145), and its count is zero
\* there (event.cpp:146) and in event_pool::free (event_pool.cpp:54).
AssertionsHold ==
    \A t \in Threads :
        /\ pc[t] = "finFree" =>
               \A e \in Range(deferred) : Signaled(e) /\ refCount[e] = 0
        /\ pc[t] = "free" => refCount[cur[t]] = 0

\* The pool is an EventAllocator: an event is in use from allocate() to free().
Allocator == INSTANCE EventAllocator WITH
                inUse <- (1 .. events) \ Range(freelist),
                writing <- {w.ev : w \in writes}

\* event_pool with the deferred release recycles no event early
\* (event_pool.cpp:20-56, event.cpp:151-171): every step of the adapter is a
\* step of the allocator or leaves it alone.
ImplementsAllocator == Allocator!ASpec

\* The inductive invariant behind the properties above: where an event may be
\* and what its reference count is there, what a thread inside a call has in
\* its hands, which events a pending write may go to, and that a finish waits
\* for the commands of every event it will free.
EventsExist ==
    /\ Range(freelist) \subseteq 1 .. events
    /\ Range(deferred) \subseteq 1 .. events
    /\ leaked \subseteq 1 .. events
    /\ \A t \in Threads : cur[t] # NoEvent => cur[t] \in 1 .. events
    /\ \A e \in Events : handles[e] > 0 => e \in 1 .. events

Counts ==
    /\ \A e \in Range(freelist) : refCount[e] = 1 /\ handles[e] = 0
    /\ \A e \in Range(deferred) : refCount[e] = 0 /\ handles[e] = 0
    /\ \A e \in Events : handles[e] > 0 => refCount[e] = handles[e]
    /\ \A e \in Events \ (1 .. events) : refCount[e] = 1 /\ handles[e] = 0
    /\ \A e \in leaked : /\ handles[e] = 0
                         /\ e \notin Range(freelist) \cup Range(deferred)
    /\ \A t \in Threads : cur[t] # NoEvent =>
          /\ handles[cur[t]] = 0
          /\ cur[t] \notin leaked
          /\ refCount[cur[t]] = IF pc[t] \in {"append", "sync"} THEN 1 ELSE 0

InHand ==
    \A t \in Threads :
        /\ pc[t] \in {"idle", "finSync", "finFailed", "finFree"} =>
               cur[t] = NoEvent
        /\ pc[t] \in {"release", "defer", "free"} => cur[t] # NoEvent
        /\ pc[t] = "append" /\ kind[t] = "timestamp" =>
               cur[t] # NoEvent /\ stamp[cur[t]] = "started"

PendingWrites ==
    \A w \in writes :
        /\ w.cmd \in completed + 1 .. appended
        /\ w.ev \in 1 .. events
        /\ \A t \in Threads :
               cur[t] = w.ev => pc[t] \in {"sync", "release", "defer"}
        /\ \A v \in writes : v.cmd = w.cmd => v = w

FinishCovers ==
    /\ completed <= appended
    /\ \A e \in Events : lastCmd[e] <= appended
    /\ \A t \in Threads :
          /\ pc[t] \in {"finSync", "finFree"} =>
                 \A e \in Range(deferred) : lastCmd[e] <= target[t]
          /\ pc[t] = "finFree" => target[t] <= completed

IndInv ==
    /\ TypeOK
    /\ OneOwner
    /\ NoWriteAfterFree
    /\ EventsExist
    /\ Counts
    /\ InHand
    /\ PendingWrites
    /\ FinishCovers

\* The device executes what it was given, and a call that has started and
\* can go on does.  Nothing forces the application to make a call or Level
\* Zero to fail, and a thread waiting for a mutex is not promised it.
FairSpec ==
    /\ Spec
    /\ WF_vars(DeviceComplete)
    /\ \A t \in Threads : WF_vars(Step(t))

\* A queueFinish waits no longer than the device needs, although other threads
\* go on appending commands meanwhile; and unless its synchronize fails, each
\* event that was deferred when it waited comes back to the pool
\* (queue_immediate_in_order.cpp:147-171).
FinishReclaims ==
    /\ \A t \in Threads : []<>(pc[t] # "finSync")
    /\ \A e \in Events :
          (\E t \in Threads : pc[t] = "finSync" /\ e \in Range(deferred))
              ~> (e \in Range(freelist) \/ \E t \in Threads : pc[t] = "finFailed")
==============================================================================

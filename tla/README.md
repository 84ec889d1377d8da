# A TLA+ model of the Level Zero unified runtime

The unified runtime gives one API (`ur*` functions) over several back ends. A
loader finds adapters, optional layers wrap their function tables, and an
adapter implements queues, events, kernels and memory for one kind of device.
The modules here model three levels of it: every API function on its way
through the layers to an adapter; the queues, events and buffers of the Level
Zero v2, CUDA and HIP adapters; and the thread pool, events and queue of the
native CPU adapter.

Paths below are relative to `src/source/`; `v2/` is
`adapters/level_zero/v2/`.

## The system

| Part | State | Operations | What makes it hard |
|---|---|---|---|
| Library, tracing, validation, loader (`loader/`) | function tables, handle factories, leak counts, subscribers | the functions of the API | three layers count the same references at different moments; NULL tests are spread over every function |
| Event pool, events (`v2/event_pool.*`, `v2/event.*`) | freelist, reference counts, timestamps | allocate, free, retain, release, profiling queries | release before the device has written the end timestamp; concurrent release, retain and finish |
| In-order queue (`v2/queue_immediate_in_order.*`) | deferred events, submitted kernels, the queue mutex | about thirty `enqueue*` functions, `queueFinish` | some functions take the queue's mutex, some the manager's; a call appends several commands |
| Command list manager (`v2/command_list_manager.*`) | one wait list vector, the command list | `append*` functions | every call reuses the same wait list; views point into it |
| Kernels (`v2/kernel.*`) | reference count, pending arguments | retain, release, prepareForSubmission | a kernel may be released while launches are pending |
| Buffers (`v2/memory.*`) | device allocations, the one in use, host maps | create, device pointers, map, unmap, release | the data moves between device and host; kernel launches take no buffer lock |
| CUDA and HIP queues (`adapters/{cuda,hip}/queue.*`, `event.*`, `enqueue*.cpp`, `command_buffer.cpp`) | two pools of streams, tokens, barrier flags, graphs | enqueue functions, barriers, finish, waits | a finish or a barrier visits only some streams, a command reuses the stream of another |
| Thread pool (`adapters/native_cpu/threadpool.hpp`) | task queues, running flags | schedule, run, stop | lost wake-ups, start-up and shut-down races |
| Native CPU events and queues (`adapters/native_cpu/event.*`, `queue.*`, `enqueue.cpp`) | futures, the done flag, the queue's event set | launch, wait, release, finish | the event set has no lock and holds no reference |

The v2 queue uses the pool for its events, the manager for its commands, and the
buffers for device pointers and copies; kernels are shared between queues.
`PROJECT.json` lists every part, including those that are not modelled.

## Modules

| Module | Models | State it keeps |
|---|---|---|
| `UrLib`, `UrTracing`, `UrValidation`, `UrLoader`, `UrMock` | one row per API function: its entry point, its intercepts in the three layers, its default in the mock adapter | none: constants |
| `UrTracingTables`, `UrValidationTables`, `UrLoaderTables`, `UrMockTables` | the function tables the layers, the loader and the mock adapter fill | none |
| `UrLevelZero`, `UrCuda`, `UrHip`, `UrOpenCL`, `UrNativeCpu` | the function table each adapter fills | none |
| `UrRows`, `UrConfig`, `UrLayers` | the vocabulary of the rows, the configuration, a function put together from its rows | none |
| `UrCalls` | calls of several threads through the layers | objects, handle factories, leak counts, tracing |
| `HandleCounts` | nothing in the code: what the layers promise about reference counts | the three counts and the calls between them |
| `StreamQueue` | the queues, events and command buffers of CUDA and HIP | streams, tokens, events, pending operations |
| `StreamStages`, `CudaEnqueue`, `HipEnqueue` | the paths of the enqueue functions of the two adapters | none |
| `EventPool` | `event_pool`, `ur_event_handle_t_` and the paths of the v2 queue that use them | one queue, its device, the threads' program points |
| `EventAllocator` | nothing in the code: what a pool promises | events in use, events being written |
| `InOrderQueue` | the v2 queue, the command list manager and kernel references | several queues, kernels, threads |
| `MemBuffer` | one discrete or integrated buffer | contents of device, host and user memory |
| `NativeCpu` | the thread pool with events, queue and launches above it | workers, tasks, events, threads |
| `EventPoolProofs`, `HandleCountsProofs`, `NativeCpuProofs` | the theorems about `EventPool`, `HandleCounts` and `NativeCpu` | |
| `InOrderQueueCounts`, `InOrderQueueProofs` | the theorems about `InOrderQueue`: types and counts, then kernels and wait lists | |
| `MemBufferProofs` | the theorems about `MemBuffer`: types and allocation, then the data | |
| `UrCallsProofs`, `UrLeakProofs` | the theorems about `UrCalls`: handles, tracing and checks, then the leak checker | |

Each `MC...` module adds constant definitions for TLC.

### The layers: rows and UrCalls

The library, the layers, the loader and the mock adapter have one function
each per function of the API, written to a few patterns. A row records what
distinguishes a function, in the order of the code. In `UrValidation` it is the
sequence of tests with the error of each, the handles whose lifetime is
checked, and the change to the leak counts. In `UrLoader` it is the handle
whose table is called, the parameters converted, the results after which the
outputs are wrapped, and the change to the handle factory. In `UrMock` it is
what is created, written and freed. `UrLayers!Function` joins the rows of a
function and derives what may be wrong with a call of it: NULL for a handle, a
pointer or a counted list, a NULL element, an illegal value.

`UrCalls` gives the rows their meaning. A call is a few steps. `Call` enters:
tracing sends the begin and validation runs its tests, and a release is counted
before it happens. `Execute` is the adapter acting on its objects. `Convert` is
the loader changing its factory (`getInstance`, `retain` and `release` of
`common/ur_singleton.hpp`). `Leave` is the validation layer counting what was
created or retained, and tracing sending the end. `Crash` is a read or write
through NULL below the validation layer, and `NotProvided` an empty entry of the
adapter's table. Other threads' steps come in between, and a tool may subscribe
to the trace or leave. One handle argument and one output of a call are
followed; the other parameters are live objects of the same adapter. Adapters
other than the mock one appear by their tables, so the NULL entries of each are
met, while the objects behave as the mock adapter's do.

### StreamQueue

A stream is the set of unfinished operations that whatever is put on it next
has to follow. Tokens, round robin, the streams to be passed over (`Delay`),
the range of streams a finish visits and the barrier flags (`Applied`) are those
of the code, with the differences of the two adapters: CUDA stores the new
`LastSyncComputeStreams` before it synchronizes and CUDA's range test is `<=`,
HIP stores it afterwards and reduced modulo the pool. An enqueue function is a
set of paths, and a path a sequence of stages: get a stream, wait, put
something on it, record an event. `Refused` is a driver error after the stream
was chosen and the waits are in place; an event record that fails after its
command was submitted is left out. `need` of an operation or an event is
the history of what its call promised; `deps` and `at` are what the streams
make of it. Command buffers are graphs whose nodes depend on the nodes of sync
points; CUDA's wait and signal nodes for events are left out.

### EventPool

A thread inside a function is at a program point `pc`; a mutex is the set of
program points that hold it. `Allocate` and `Free` are the two sections under
the pool's mutex. An enqueue is `EnqueueBegin` (getSignalEvent),
`EnqueueAppend` and `EnqueueSync`; a release is `ReleaseBegin` (the atomic
decrement), `ReleaseCheck` (the tests under the event's mutex) and then
`ReleaseDefer` or `ReleaseFree`; a finish is `FinishBegin`, `FinishSync`, one
`FinishFree` per deferred event and `FinishEnd`. Level Zero errors are
`EnqueueFail` and `FinishFail`, after which `FinishError` leaves the finish with
the list as it was. The device is external: it completes commands
in order and a timestamp command writes its event when it completes. An event
whose append or synchronize fails is leaked, as in the code, and the model
keeps it apart in `leaked`.

### InOrderQueue

Every enqueue function of the queue is a straight line of a few kinds of step,
so a function is a value: the mutex it takes and the list of its steps.
The list is the code's order of `getSignalEvent`, `getWaitListView`,
`getDevicePtr`, appends, `clear`, synchronize, unlock and
`recordSubmittedKernel`; each kind of step is one action. Errors of an append or
of a wait (`Fail`) end a call in the middle, with the commands that were appended
so far left on the list. `FreeKernel` takes a record off the list as it releases
the kernel, while the code clears the list after the loop; the mutex is held all
the while, and `zeKernelDestroy` is not modelled to fail.
An event is the command that signals it.

### MemBuffer

One buffer of each origin (`plain`, `hostPtr`, `nativeHost`, `nativeDevice`,
`integrated`), of `Size` bytes. The contents of every memory are modelled:
`logical` is the history variable that says what the application expects.
Allocation and copy errors are `allocateFail`, `mapHostPtrFail` and
`unmapHostPtrFail`. The test of `activeAllocationDevice` and its use are two
steps, because launches and unmaps run without the buffer's mutex. A use says
whether the application fills a map for `WRITE` alone (`fills`), as the
conformance tests do.

### NativeCpu

Workers go through `Construct`, `Check`, `Run` and sleep; a condition variable
may wake up spuriously. A launch creates its event, pushes tasks and notifies
workers one by one. `ur_event_handle_t_::wait` is `Lock`, `Futures`, `Callback`:
the futures are waited for with the event's mutex held. `best_worker` may pick
any worker, since it compares counters that change meanwhile. Commands other
than launches are executed by the calling thread (`Execute`). The model is of
the build with `NATIVECPU_USE_OCK`; without it a launch runs its work items in
the calling thread and schedules nothing.

## Runs

State counts are distinct states; the longest runs take about three minutes.

| Run | Instance | Shows |
|---|---|---|
| `api_calls` | 1 thread, 1 adapter with the table of native CPU, every API function with each fault, parameter validation and bounds checking (1.1M) | `NullSafe`, `RightError`, `HandlesDispatch`: validation stops every NULL before it is used, with the right error, but for the lists and elements that `UncheckedLists` and `UncheckedElements` name |
| `api_threads` | 2 threads, 2 adapters, six functions on adapters and contexts, full validation and tracing (306k) | `CountsExact`, `LeakReportExact`, `NoFalseAlarm`, `TraceMatched`, `HandlesDispatch`, and `CountsInStep`: the calls implement `HandleCounts` |
| `api_shared_heap` | the same without tracing, both adapters allocate at one address | violated: a context is dispatched to the other adapter |
| `streams` | CUDA and HIP, an out-of-order queue with 2 compute and 1 transfer streams and an in-order queue, 2 threads, 4 calls (896k) | `WaitsHonoured`, `EventsHonest`, `ReturnsMean`: operations follow what they wait for, events complete after their commands, a call that returns says the truth |
| `stream_events` | 1 thread, every path | violated: the bindless image functions return events that were never recorded |
| `event_pool` | 2 threads, bursts of 1, 2 events, 2 commands, 2 references, failing calls (768k) | `OneOwner`, `NoWriteAfterFree`, `AssertionsHold`: an event is in one place at a time, is never recycled under a pending write, and the release assertions hold; the pool implements `EventAllocator`; a finish whose calls succeed returns each deferred event |
| `queue_safety` | 2 threads, 2 queues that wait for each other, 1 shared kernel, failing calls (617k) | a pending kernel stays alive, its count is exact, and every call returns |
| `queue_waits` | 1 thread, 2 queues, every function, failing appends and waits (850k) | no command runs before the events of its call's wait list, although views are shared and cleared |
| `buffer_data` | 2 devices with one-way peer access, 2 bytes, 2 values, 2 maps (702k) | no write is lost, maps show the contents, the allocation never moves |
| `buffer_native` | the same, a buffer made from a native host allocation | violated: the release overwrites the application's memory with data it never had |
| `native_pool` | 2 threads, 2 workers, 2 commands, 2 tasks a launch (188k) | a complete event has run, a finish waits on live events, a finish covers every command, stopped workers have drained, no task is lost, every call returns |
| `native_finish` | the same, with a finish during other calls on events | violated: the finish waits on a deleted event |

The violated properties are what the repository itself says; the findings in
`PROJECT.json` quote the line.

### Bounds, and why they are enough

Two threads are enough for every race the code is exposed to, since each of the
mutexes and flags is contended by a pair. In `event_pool`, bursts of one
event and two commands force a second burst, reuse of a recycled event and a
deferral while another event is live; the safety properties and the refinement
are also proved for all bounds. Two queues give waits across queues in
both directions. Two bytes are the least that make an offset, a partial and a
whole region differ; two values make an overwrite visible; two maps may overlap
in time. Two tasks per launch can be on one worker or on two, with the first
done and the second still queued. `MaxCmds`, `MaxEvents`, `MaxRefs` and
`MaxMaps` are the only bounds on counters and appear in guards.

`api_calls` asks a question about each function on its own, so one thread, one
object and one reference suffice. `api_threads` needs two references to tell a
first from a last release, and one address, so that every object reuses the one
before. `streams` needs two compute streams, so that round robin, reuse and the
range of a finish can disagree; four calls are a command, another on the same or
another stream, a barrier or finish, and a command after it. `TokenRange` is
larger than the tokens four calls use. That HIP stores `LastSyncComputeStreams`
reduced modulo the pool matters to a finish after six calls (two commands, two
finishes, a command); one queue and one thread with `MaxCalls = 6`, `MaxList = 1`
and `MaxNodes = 0` have 15M states, too many to keep as a run, and satisfy the
four invariants. Three nodes are a chain and a command
that depends on it.

### What the application promises

`src/scripts/core/INTRO.rst:94-104` makes calls free-threaded on different
handles and leaves it to the application not to enter two calls on one handle.
`Exclusive` (one thread per queue), `Serial` (every function of a buffer is
called under its mutex, as `memory.hpp:31` demands), `FinishAlone` (no event is used during a finish) and `Free`
of `StreamQueue` (one call on a queue at a time) state the contract of the
passing runs. `FinishAlone` and `FinishOverlap = FALSE` ask for more than the
documentation does, and launches and unmaps do not keep to `Serial`;
`native_finish` and the deviations below say what happens without them. Mapped regions are left alone by commands until they are
unmapped. In `UrCalls` the application uses only handles it owns and gives up
the last reference to one only when no other call uses it (`MayCall`). Retains
and releases do not fail in the adapter (`MayFail`), because the loader and the
leak checker count them whatever the adapter answers.

With `Exclusive = FALSE`, TLC also finds `KernelAliveWhilePending` and
`WaitsHonoured` of `InOrderQueue` violated: `recordSubmittedKernel` runs without
the queue's mutex, and functions under the two mutexes share one wait list. The
documentation forbids this use, so no run is kept for it.

`Uses` names what `buffer_data` does with a buffer of each origin, and
`SupportedUses` states the restriction for any `Uses`: every map reads its region,
drops it (`WRITE_INVALIDATE_REGION`), or is for `WRITE` alone and filled; a plain
buffer is not mapped to be dropped; a buffer with a host pointer has one map at a
time and no failing copy; and an integrated buffer no offset. TLC evaluates that
the uses of `buffer_data` satisfy it, and the proofs assume no more than it. The
deviations below show what the code does with the data outside it.

One expectation is left to `buffer_native`: what a native host allocation held
when its buffer was made. The code never copies it to the device, so `LatestData`
and `MappedData` count it only once it is overwritten (`Expected`), and
`WrittenBack`, which counts it, is violated.

### Fairness

Liveness assumes weak fairness of the device (it executes what it was given),
of each call that has started, and of each worker: threads that can run do.
Steps that fail (`Fail`) have no fairness, so no error is ever counted on to end
a wait.
Nothing forces the application to make a call, release an event or stop the
pool. A mutex is not assumed to be fair: a thread that waits for one is
promised it only when nobody else takes it again and again. `SpuriousWakeup`
has no fairness, so `TasksExecuted` rests on the notifications alone.

## Proofs

### EventPoolProofs

For any set of threads and any bounds:

| Theorem | States |
|---|---|
| `Invariance` | `Spec => []IndInv` |
| `TypeCorrect`, `OneOwnerAlways`, `NoWriteAfterFreeAlways`, `AssertionsAlwaysHold` | each safety property of `event_pool` |
| `Refinement` | `Spec => ImplementsAllocator` |

The only assumptions are those of `EventPoolAssumption`: the burst and the
reference bound are positive naturals, the other bounds naturals.

`OneOwner` and `NoWriteAfterFree` are not inductive by themselves. `IndInv`
adds: events on a list or in a thread's hands exist (`EventsExist`); the
reference count in each place, one on the freelist, zero when deferred, as many
as the application's handles otherwise (`Counts`); what a thread holds at each
program point (`InHand`); that a pending write belongs to a command that has
not completed and its event is with a thread only where it may be
(`PendingWrites`); and that a finish waits for the last command of every event
it will free (`FinishCovers`). The last is what makes `releaseDeferred`'s
assertions hold: `deferEventFree` needs the queue's mutex, so no event joins the
list between the synchronize and the loop. There is one lemma per action,
and `NextIndInv` collects them; `StepRefines` maps each step to one of the
allocator or a stutter. The module starts with the facts about adding to and
taking from a sequence without repetition.

### HandleCountsProofs

For any finite set of threads and any handles (`Finite`):

| Theorem | States |
|---|---|
| `RefsAgreeAlways` | the counts of adapter, loader and leak checker differ from the references the application owns exactly by the calls that are between them |
| `NoDanglingAlways` | no retain or release reaches a freed object or an erased entry, an owned handle has both, and between calls the three counts are equal |

`RefsAgree` counts threads by cardinality, so a step of one thread has to be
shown to change the cardinalities by one or not at all. `Counting` does this
once for all actions, and each action's lemma only says which counts it changes.
The inductive invariant adds the types and `InUse`: a retain works on a handle
that stays owned, and only a create may lack a handle. `api_threads` shows with
TLC that `UrCalls` implements `HandleCounts` (`CountsInStep`); the two together
carry the result from the code's steps to any number of threads of the abstract
specification.

### NativeCpuProofs

For any threads and workers, any number of events and tasks per launch:

| Theorem | States | When |
|---|---|---|
| `TypeCorrect` | `[]TypeOK` | always |
| `EventsComplete` | `[]CompleteMeansExecuted`: an event that is done or deleted has had all its tasks executed | always |
| `PoolDrained` | `[]StoppedMeansDrained`: when every worker has left, every task has been executed | always |
| `FinishComplete` | `FinishWaitsForAll` | `FinishAlone` |

The invariant says where each task is: executed, with a worker that executes or
queues it, or still to be scheduled (`NoTaskLost`); a worker counts its tasks
and leaves with none (`WorkerOK`). `EventsOK` and `EndRecorded` tie the done
flag, the deletion and the queue's event set to the calls that are inside
`wait`: a deleted event is done, and a done one has left the queue. `FinishOK`
adds that a finish that is alone waits for a live event, and has emptied the set
when it returns.

### InOrderQueueCounts, InOrderQueueProofs

For any queues, kernels, threads, wait lists and bounds:

| Theorem | Module | States | When |
|---|---|---|---|
| `TypeCorrect` | `InOrderQueueCounts` | `[]TypeOK` | always |
| `CountsExact` | `InOrderQueueCounts` | `[]KernelCountExact`: a kernel's count is the application's references and one per record of a queue | always |
| `KernelsAlive` | `InOrderQueueProofs` | `[]KernelAliveWhilePending` | `Exclusive` |
| `WaitListsHonoured` | `InOrderQueueProofs` | `[]WaitsHonoured` | `Exclusive` |

The invariant has three layers. `Inv1` is about a single call: its
remaining steps have the shape of some enqueue function, and only a call with a
kernel records one, right after its append (`CallOK`); and the count of each kernel is that of
its records, a cardinality (`CountOK`). `Inv2` says that one call uses a queue
(`OneCall`), that a synchronize waits for everything appended and ends with an
empty list (`SyncOK`), and that a kernel with a pending command is recorded or
about to be (`PendingRecorded`); a finish therefore releases only kernels that
nothing pending runs. `Inv3` is an invariant of the command list: every event a
command needs is complete, or is waited for by that command or one before it on
the same list (`CommandsWait`); and a call has not looked at its wait list yet, or its view
still has the list and is used before a command goes without it, or a command on
the list waits for it already (`CallsWait`). That is why clearing the view
between two appends of one call does no harm.

### MemBufferProofs

For any threads, devices with any peer access, size, values and bounds:

| Theorem | States | When |
|---|---|---|
| `TypeCorrect` | `[]TypeOK` | always |
| `PointersStayGood` | `AllocationStays`: the allocation in use stays while the buffer does | `Serial` |
| `ReadsFindLatest` | `[]LatestData`: what an access reaches is what was written last | `Serial`, `SupportedUses` |
| `MapsShowData` | `[]MappedData` | `Serial`, `SupportedUses` |

The types alone need to know what a call holds between its test of
`activeAllocationDevice` (`fresh` of a call) and its use, and that the maps lie
inside the buffer (`Inv1`). `Inv2` adds that one call is made at a time, that
the allocation in use is the only one, and that a call that found none still
finds none. `Inv3` adds where the data is: the allocation in use has the data of
every cell that is not mapped (`Latest`) and the memory of a map that of its
cells (`InMap`); maps do not overlap, a pointer names one descriptor, so the
one `Find` returns is the right one (`MapsOK`), and calls keep off mapped
cells (`CallsOK`).

### UrCallsProofs, UrLeakProofs

For any functions whose rows agree with each other (`RowsAssumption`), any finite
sets of threads and adapters, any drivers, heaps, layers and failing functions:

| Theorem | Module | States | When |
|---|---|---|---|
| `Invariant` | `UrCallsProofs` | `[]IInv` | always |
| `NotificationsMatch` | `UrCallsProofs` | `[]TraceMatched` | always |
| `OwnedHandlesFound` | `UrCallsProofs` | `[]HandlesFound`: the entry of an owned handle counts at least the application's references, leads to the adapter of a static object, and for any other to an adapter that allocates at its address | always |
| `ChecksProtect` | `UrCallsProofs` | `[]NullSafe` | `FaultsChecked(Apis)` |
| `LeakCountsExact` | `UrLeakProofs` | `[]CountsExact` | `LeakTracked` |
| `LeaksReported` | `UrLeakProofs` | `[]LeakReportExact` | `LeakTracked` |
| `NoAlarms` | `UrLeakProofs` | `[]NoFalseAlarm` | `LeakTracked`, no `Misuse` |

A handle is safe to dispatch because of what is counted on its behalf. `Owes`
says which calls have a reference on its way: one that is about to return it, or
to take it from the adapter. `RefsCover` says that the adapter counts the
application's references and one for each such call, and `EntriesCover` the same
of the loader's entry, which is retained and released later in the call. Both are
inequalities: objects the application lost with its last adapter, and handles
that a query returned, are counted more often than they are owned. `News` and
`Uses` say that what a call returns or uses is still the object it was, and
`TablesOwn` that an entry leads to an adapter that may use the address. Then no
lookup in a factory misses (`ArgEntry`), and a call crashes only by a parameter
that no check rejects. `OwnedHandlesFound` is as much of `HandlesDispatch` as holds
on any heaps: when two adapters allocate at one address, the entry may lead to
the other one, as `api_shared_heap` shows.

`LInv` adds the leak checker: its map is a function of what the application owns
(`CountsAre`); what a call is about to return as new is known to nobody else, so
counting it on the way out finds no entry (`FreshOK`); a retain that reached the
adapter succeeded (`Retained`); and calls are only made while an adapter is
owned, so the map is cleared by the last release alone (`AdapterAlive`).

The two conditions are about the rows, not about steps:

- `FaultsChecked`: a NULL that the loader or the adapter would use has a check,
  but for `UncheckedLists` and `UncheckedElements`. TLC evaluates it for all functions.
- `LeakTracked`: each function is counted by the validation layer as by the
  adapter. With the tables of CUDA and native CPU, 122 of the 188 functions are.
  The others create events or command buffers the leak checker does not count,
  adopt native handles (which may be counted already), count a handle on a result
  other than success, or are missing in one of the adapters.

`MCUrCalls` assumes them of its instances, so TLC evaluates them: `FaultsChecked` in the runs without misuse
(`api_calls` makes every faulty call instead), `LeakTracked` for the functions of
`api_threads`.

### Model-checked only

- All liveness: `FinishReclaims`, `CallsReturn` of both models, `TasksExecuted`.
  Fairness and `ENABLED` are outside the prover.
- Of `UrCalls`: the refinement `CountsInStep`; `RightError`, which compares the
  rows of a function with each other and has no steps to reason about; and
  `TypeOK`, whose bounds hold for two threads only (an adapter that adopts an
  object in several calls at once passes `MaxRefs`; the proofs use `Types`, which
  has no bounds). That the rows of the functions are as the theorems assume is
  evaluated by TLC.
- The invariants of `StreamQueue`. They rest on which streams a token range
  covers after a round robin modulo the pool; no inductive invariant for them
  is written yet.

The proof modules use `Sequences`, `Functions` and `FiniteSetsExt` rather than
`SequencesExt`, which makes `tlapm` slower by an order of magnitude. The time it
takes to prepare an obligation grows with the lemmas before it, so the lemmas on
initial states and on cardinalities come first in a module. Most leaves name
`Zenon`, because the other backend is tried first and may run into its timeout;
arithmetic and the fields of records are left to SMT. `UrCallsProofs` and
`UrLeakProofs` take about twenty minutes each.

## Known deviations

TLC shows each of these with the change named; they are recorded here and have
no run of their own.

- `v2/queue_immediate_in_order.cpp:500`: `enqueueMemBufferMap` without a wait
  list fails the assertion `command_list_manager.hpp:24` if an earlier call had
  one, because `data()` of an emptied vector is not null. Add the invariant
  `ViewAssertion` to `QueueWaits.cfg`.
- `v2/kernel.cpp:296`: launches and unmaps use a buffer without its mutex
  (`memory.hpp:31` says "Following functions should always be called under the
  lock."), so two first uses both allocate, and the write of one is lost.
  `BufferData.cfg` with `Serial = FALSE` and `Uses <- PlainUse` violates
  `AllocationAssertion` and `LatestData`.
- `v2/memory.cpp:343`: the unmap of a plain buffer that no device has used drops
  what was written to a map with `WRITE_INVALIDATE_REGION`. `Uses <- DropUse`
  violates `LatestData`.
- `v2/memory.cpp:320`: a map for `WRITE` alone is not given the contents but is
  copied back whole, so what the application does not write is lost.
  `Uses <- PartUse` violates `LatestData`.
- `v2/memory.cpp:302`: two maps of a buffer with a host pointer share its first
  bytes, whatever their offsets. `Uses <- SharedUse` violates `MappedData`.
- `v2/memory.cpp:120`: an integrated buffer ignores the offset of an access.
  `Uses <- OffsetUse` violates `LatestData`.
- `v2/memory.cpp:309`: the unmap of a buffer with a host pointer gives the
  application's memory to the USM pool. `Uses <- OwnerUse` violates
  `UserMemoryKept`.
- `adapters/cuda/queue.hpp:219`: a finish advances `LastSyncComputeStreams`
  before it synchronizes, so a barrier of another queue takes an event of this
  one for complete. `Streams.cfg` with `FinishOverlap = TRUE` violates
  `EventsHonest`.
- `adapters/cuda/queue.hpp:132`: tokens are compared without regard to
  wrap-around. `Streams.cfg` with `TokenRange = 3` violates `EventsHonest`; the
  code gets there after 2^32 commands.
- With `Deviations = TRUE` the paths are taken that ignore their wait list or
  their blocking flag: `urEnqueueNativeCommandExp` never waits for its events
  (`adapters/cuda/enqueue_native.cpp:28`), `urEnqueueMemImageWrite` ignores
  `blockingWrite` (`adapters/cuda/enqueue.cpp:1259`), a map of pinned memory
  ignores `blockingMap`, and a map or unmap that moves no data of other memory
  ignores its wait list (`adapters/cuda/enqueue.cpp:1437`).

## Observations

Seen while reading, outside the properties.

- Lifetime validation looks up optional handles also when they are NULL, and
  logs an error, for example `pool` of `urUSMHostAlloc`
  (`loader/layers/validation/ur_valddi.cpp:1750`) and `hDevice` of
  `urMemGetNativeHandle`.
- `src/scripts/core/INTRO.rst:299` says bounds checking "Automatically enables
  UR_LAYER_PARAMETER_VALIDATION."; the code does not.
- Some counted lists, and the elements of some, are not tested for NULL:
  `UncheckedLists` and `UncheckedElements` of `UrCalls`.
- CUDA and HIP: `BarrierMutex` and `ComputeStreamSyncMutex` are taken in both
  orders by two barriers on one queue, which the documentation forbids. HIP
  counts a stream before creating it, so a failed creation leaves a null stream
  in the pool (`adapters/hip/queue.cpp:44`).
- Native CPU: an event becomes complete only when somebody waits, so a poll of
  its status never ends; an event a launch was not asked for is never deleted; a
  launch's callback uses the kernel's handle, which the application may have
  released by then.
- v2: an event is leaked when its append fails; a release waits for the queue's
  mutex behind a finish; a queue made from a native handle leaves `*phEvent`
  unset; the bounds test of a buffer partition (`v2/memory.cpp:528`) does not
  add origin and size.

## Not modelled

`PROJECT.json` gives the reason for each part. In short:

- The Level Zero v1 adapter: batching, fences and event caches, a system of its
  own size that v2 replaces.
- Of v2: images and sub-buffers, command buffers, the caches of command lists
  and event pools, USM pools. `MemBuffer` and `InOrderQueue` are not composed,
  so a buffer's release with commands pending is not covered.
- Of CUDA and HIP: memory migration between devices, queues made from native
  streams, profiling, command buffer updates, and everything that only
  translates a query into a driver call.
- Of the layers: the search for adapters and the registry, loader configuration
  objects, the bounds check's size arithmetic, and the sanitizer layer, whose
  subject is instrumented device code.
- OpenCL, except its function table: it forwards each call.
- Generated printing (`src/include/ur_print.hpp`) and the long `urDeviceGetInfo`
  and `urKernelGetInfo` switches, which have no state.

---------------------------- MODULE StreamQueue -----------------------------
(* The queues of the CUDA and HIP adapters.  A queue owns a pool of compute  *)
(* streams and a pool of transfer streams (an in-order queue one compute     *)
(* stream), created as they are needed and handed out round robin; a command *)
(* reuses the stream of an event of its wait list when it is the last one    *)
(* there.  A finish or a barrier looks only at the streams used since the    *)
(* last finish, found by arithmetic on stream tokens.                        *)
(*                                                                           *)
(* The device executes the operations of a stream in order and those of      *)
(* different streams in any order its waits allow: `at` of a stream is the   *)
(* set of unfinished operations whatever is put on the stream next has to    *)
(* follow.  An operation that completes is dropped from every such set, so   *)
(* an empty set means that nothing is left to wait for.                      *)
(*                                                                           *)
(* Calls on one queue do not overlap (scripts/core/INTRO.rst), so a call     *)
(* that does not block is one step; a call that blocks takes a second step   *)
(* when the operations it waits for are done.  Creating a stream or an event *)
(* succeeds; the driver may refuse a command once its stream has been chosen *)
(* and its waits are in place.                                               *)
EXTENDS Integers, Sequences, FiniteSets, TLC, SequencesExt, StreamStages

CONSTANTS
    Threads,        \* number of threads
    Queues,
    NoQueue,
    ComputeSize,    \* [Queues -> Nat], number of compute streams
    TransferSize,   \* [Queues -> Nat], 0 for an in-order queue
    TokenRange,     \* stream tokens are counted modulo this, 2^32 in the code
    Deviations,     \* whether the paths Deviates describes are taken
    FinishOverlap,  \* whether a barrier may wait for an event of a queue that
                    \* another thread is finishing
    MaxCalls,       \* bounds: calls that change anything
    MaxOps,         \*   unfinished operations
    MaxNodes,       \*   nodes of the command buffer
    MaxList         \*   events in a wait list

ASSUME SizesAssumption ==
    /\ ComputeSize \in [Queues -> Nat \ {0}]
    /\ TransferSize \in [Queues -> Nat]
    /\ NoQueue \notin Queues

VARIABLES
    adapter,   \* "cuda" or "hip"
    queue,     \* queue[q]: its pools, barrier event and references
    events,    \* sequence of the program's events, in the order of recording
    ops,       \* sequence of the unfinished operations
    blocked,   \* set of the calls that wait: for what, and what they promise
    said,      \* what a call that has just returned says is complete
    buffer,    \* the command buffer: graph, sync points and executable graph
    calls      \* number of calls made

vars == <<adapter, queue, events, ops, blocked, said, buffer, calls>>

Cuda == INSTANCE CudaEnqueue
Hip == INSTANCE HipEnqueue

-----------------------------------------------------------------------------
(* Streams *)

Kinds == {"compute", "transfer"}
Size(q, kind) == (IF kind = "compute" THEN ComputeSize ELSE TransferSize)[q]

\* uint32_t arithmetic on tokens; the largest value stands for "no token"
Token(n) == n % TokenRange
NoToken == TokenRange - 1

\* ur_queue_handle_t_'s fields for one kind of stream: how many streams exist,
\* the next token, the token up to which a finish has synchronized, the
\* streams to be passed over once, the streams the current barrier has been
\* applied to, and the contents of the streams
NewPool(size) ==
    [Num |-> 0, Index |-> 0, LastSync |-> 0, Delay |-> {}, Applied |-> {},
     at |-> [i \in 0 .. size - 1 |-> {}]]

\* urQueueCreate.  fence is what the barriers so far promise every later
\* command to follow
urQueueCreate(q) ==
    [compute |-> NewPool(ComputeSize[q]), transfer |-> NewPool(TransferSize[q]),
     BarrierEvent |-> {}, hasBarrier |-> FALSE, held |-> TRUE, fence |-> {}]

IsInOrder(q) == TransferSize[q] = 0

\* Mutant: a stream is created however many there are
NextStreamUncapped(p, size) ==
    LET k == CHOOSE k \in 0 .. size :
                /\ k = size \/ Token(p.Index + k) % size \notin p.Delay
                /\ \A j \in 0 .. k - 1 : Token(p.Index + j) % size \in p.Delay
    IN  [i |-> Token(p.Index + k) % size,
         token |-> Token(p.Index + k),
         pool |-> [p EXCEPT !.Num = @ + k + 1,
                            !.Index = Token(@ + k + 1),
                            !.Delay = @ \ {Token(p.Index + j) % size :
                                                j \in 0 .. k - 1}]]

\* the body of getNextComputeStream(StreamToken) and getNextTransferStream:
\* every turn of the loop creates a stream if some are missing, takes a token
\* and passes over a delayed stream once
NextStream(p, size) ==
    LET Slot(k) == Token(p.Index + k) % size
        turns == CHOOSE k \in 0 .. size :
                    /\ k = size \/ Slot(k) \notin p.Delay
                    /\ \A j \in 0 .. k - 1 : Slot(j) \in p.Delay
    IN  [i |-> Slot(turns),
         token |-> Token(p.Index + turns),
         pool |-> [p EXCEPT !.Num = Min({size, @ + turns + 1}),
                            !.Index = Token(@ + turns + 1),
                            !.Delay = @ \ {Slot(j) : j \in 0 .. turns - 1}]]

hasBeenSynchronized(Q, token) ==
    token # NoToken /\ Q.compute.LastSync > token

\* the event's command is the last one on its stream, and no finish has
\* synchronized with it, after which the stream would not be looked at again
canReuseStream(q, Q, token) ==
    /\ token # NoToken
    /\ Token(Q.compute.Index - token) <= ComputeSize[q]
    /\ ~hasBeenSynchronized(Q, token)

\* computeStreamWaitForBarrierIfNeeded, transferStreamWaitForBarrierIfNeeded
WaitForBarrierIfNeeded(Q, kind, i) ==
    IF Q.hasBarrier /\ i \notin Q[kind].Applied
    THEN [Q EXCEPT ![kind].at[i] = @ \cup Q.BarrierEvent,
                   ![kind].Applied = @ \cup {i}]
    ELSE Q

\* a getter's result: the stream, its token, and the queue afterwards
Chosen(Q, kind, i, token) ==
    [kind |-> kind, i |-> i, token |-> token,
     Q |-> WaitForBarrierIfNeeded(Q, kind, i)]

RoundRobin(q, Q, kind) ==
    LET n == NextStream(Q[kind], Size(q, kind))
    IN  Chosen([Q EXCEPT ![kind] = n.pool], kind, n.i, n.token)

\* getNextComputeStream with a wait list: the first event of this queue whose
\* stream can be reused.  The order of the list is the caller's, so any of
\* them may be the first
Reuse(q, Q, list) ==
    LET can == {e \in list : events[e].queue = q
                             /\ canReuseStream(q, Q, events[e].token)}
    IN  IF can = {}
        THEN {RoundRobin(q, Q, "compute")}
        ELSE {LET i == events[e].token % ComputeSize[q]
              IN  Chosen([Q EXCEPT !.compute.Delay = @ \cup {i}],
                         "compute", i, events[e].token) : e \in can}

\* the stream a stage gets
Streams(q, Q, stream, list) ==
    CASE stream = "reuse" -> Reuse(q, Q, list)
      [] stream = "next" -> {RoundRobin(q, Q, "compute")}
      [] stream = "transfer" ->
            {RoundRobin(q, Q, IF TransferSize[q] = 0 THEN "compute"
                                                     ELSE "transfer")}

-----------------------------------------------------------------------------
(* syncStreams: the streams with tokens from LastSync to the next one *)

SyncEnd(p, size) == IF p.Num < size THEN p.Num ELSE p.Index

\* the two adapters differ when nothing was used since: CUDA takes the empty
\* range, HIP every stream
SyncRange(p, size) ==
    LET End == SyncEnd(p, size)
        s == p.LastSync % size
        e == End % size
        ascending == IF adapter = "cuda" THEN s <= e ELSE s < e
    IN  CASE size = 0 -> {}
          [] size > 0 /\ Token(End - p.LastSync) >= size -> 0 .. size - 1
          [] size > 0 /\ Token(End - p.LastSync) < size ->
                IF ascending THEN s .. e - 1
                             ELSE (s .. size - 1) \cup (0 .. e - 1)

\* LastSync afterwards, if the call resets it: HIP stores the end it has
\* reduced modulo the size
SyncReset(p, size) ==
    LET End == SyncEnd(p, size)
    IN  IF size > 0 /\ adapter = "hip" /\ Token(End - p.LastSync) < size
        THEN End % size
        ELSE End

Synced(q, Q, kind) ==
    UNION {Q[kind].at[i] : i \in SyncRange(Q[kind], Size(q, kind))}

\* synchronizing with a compute stream clears its delay
SyncDelays(q, Q) ==
    [Q EXCEPT !.compute.Delay = @ \ SyncRange(Q.compute, ComputeSize[q])]

SyncAdvance(q, Q) ==
    [Q EXCEPT !.compute.LastSync = SyncReset(Q.compute, ComputeSize[q]),
              !.transfer.LastSync = SyncReset(Q.transfer, TransferSize[q])]

\* the streams forEachStream and allOf visit
Created(q, Q, kind) == 0 .. Min({Size(q, kind), Q[kind].Num}) - 1
OnCreated(q, Q) ==
    UNION {UNION {Q[k].at[i] : i \in Created(q, Q, k)} : k \in Kinds}

-----------------------------------------------------------------------------
(* Wait lists *)

SameStream(e, q, kind, i) ==
    events[e].queue = q /\ events[e].kind = kind /\ events[e].i = i

\* EventID: the order of recording, 0 for an event that was not recorded
EventID(e) == IF events[e].recorded THEN e ELSE 0

\* forLatestEvents: of the events on one stream only the newest
forLatestEvents(list) ==
    {e \in list :
        ~\E f \in list : /\ SameStream(f, events[e].queue, events[e].kind,
                                           events[e].i)
                         /\ EventID(f) > EventID(e)}

\* isCompleted
isCompleted(e) == events[e].recorded /\ events[e].at = {}

\* what enqueueEventsWait makes the stream wait for: not the events of that
\* stream, and in HIP not the ones already complete
enqueueEventsWait(q, kind, i, list) ==
    UNION {events[e].at : e \in {f \in forLatestEvents(list) :
                                    /\ ~SameStream(f, q, kind, i)
                                    /\ adapter = "hip" => ~isCompleted(f)}}

\* Mutant: the barrier forgets the transfer streams
BarrierWaitsCompute(q, Q, list) ==
    IF list = {}
    THEN Synced(q, Q, "compute")
    ELSE UNION {events[e].at :
                    e \in {f \in forLatestEvents(list) :
                              ~hasBeenSynchronized(queue[events[f].queue],
                                                   events[f].token)}}

\* what urEnqueueEventsWaitWithBarrier makes its stream wait for
BarrierWaits(q, Q, list) ==
    IF list = {}
    THEN Synced(q, Q, "compute") \cup Synced(q, Q, "transfer")
    ELSE UNION {events[e].at :
                    e \in {f \in forLatestEvents(list) :
                              ~hasBeenSynchronized(queue[events[f].queue],
                                                   events[f].token)}}

-----------------------------------------------------------------------------
(* One stage of an enqueue.  w holds what the call has changed so far: the   *)
(* queue, the operations and the events, the contents of its last stream,    *)
(* and what its completion promises.                                         *)

OpsOf(q, os) == {n \in DOMAIN os : os[n].queue = q}

\* what has to be complete before a command of this call may run
Promised(q, Q, os, list) ==
    Q.fence \cup UNION {events[e].need : e \in list}
            \cup (IF IsInOrder(q) THEN OpsOf(q, os) ELSE {})

\* the events a barrier waits for, all earlier commands if there are none
BarrierFence(q, Q, os, list) ==
    Q.fence \cup (IF list = {} THEN OpsOf(q, os)
                               ELSE UNION {events[e].need : e \in list})

\* the barrier: wait, record BarrierEvent, and no stream has waited for it yet
RecordBarrier(q, Q, kind, i, os, list) ==
    LET at == Q[kind].at[i] \cup BarrierWaits(q, Q, list)
        R == IF list = {} THEN SyncDelays(q, Q) ELSE Q
    IN  [R EXCEPT ![kind].at[i] = at, !.BarrierEvent = at, !.hasBarrier = TRUE,
                  !.compute.Applied = {}, !.transfer.Applied = {},
                  !.fence = BarrierFence(q, Q, os, list)]

\* the operations a stage gives to the device, numbered from 1
Batch(does) ==
    CASE does = "command" -> <<[deps |-> {}, need |-> {}]>>
      [] does = "graph" -> buffer.exec
      [] OTHER -> <<>>

\* waits, submission and event on the stream c
OnStream(q, w, c, list, st) ==
    LET waited == IF st.waits
                  THEN [c.Q EXCEPT ![c.kind].at[c.i] =
                           @ \cup enqueueEventsWait(q, c.kind, c.i, list)]
                  ELSE c.Q
        Q == IF st.does = "barrier"
             THEN RecordBarrier(q, waited, c.kind, c.i, w.ops, list)
             ELSE waited
        at == Q[c.kind].at[c.i]
        batch == Batch(st.does)
        Ids(S) == {Len(w.ops) + j : j \in S}
        ids == Ids(DOMAIN batch)
        promised == Promised(q, Q, w.ops, list)
        after == IF ids = {} THEN at ELSE ids
        event == [queue |-> q, kind |-> c.kind, i |-> c.i,
                  token |-> IF st.token THEN c.token ELSE NoToken,
                  at |-> IF st.event = "lost" THEN {} ELSE after,
                  recorded |-> st.event # "lost",
                  need |-> ids \cup promised]
    IN  [Q |-> [Q EXCEPT ![c.kind].at[c.i] = after],
         ops |-> w.ops \o [k \in DOMAIN batch |->
                    [queue |-> q, deps |-> at \cup Ids(batch[k].deps),
                     need |-> promised \cup Ids(batch[k].need)]],
         events |-> IF st.event = "none" THEN w.events
                                         ELSE Append(w.events, event),
         last |-> after, promise |-> ids \cup promised]

StageResults(q, w, list, st) ==
    {OnStream(q, w, c, list, st) : c \in Streams(q, w.Q, st.stream, list)}

\* the stages of a path in order
PathResults(q, list, stages) ==
    LET w == [Q |-> queue[q], ops |-> ops, events |-> events,
              last |-> {}, promise |-> {}]
    IN  IF Len(stages) = 1
        THEN StageResults(q, w, list, stages[1])
        ELSE UNION {StageResults(q, v, list, stages[2]) :
                        v \in StageResults(q, w, list, stages[1])}

-----------------------------------------------------------------------------
(* Actions *)

Init ==
    /\ adapter \in {"cuda", "hip"}
    /\ queue = [q \in Queues |-> urQueueCreate(q)]
    /\ events = <<>>
    /\ ops = <<>>
    /\ blocked = {}
    /\ said = {}
    /\ buffer = [nodes |-> <<>>, points |-> <<>>, exec |-> <<>>, final |-> FALSE]
    /\ calls = 0

\* calls on one queue do not overlap
Free(q) == queue[q].held /\ \A b \in blocked : b.on # q

\* some thread is not blocked
Running == Cardinality(blocked) < Threads

Starts == Running /\ calls < MaxCalls /\ calls' = calls + 1

\* a call that returns at once, having promised that `must` is complete
Returns(must) == said' = must /\ UNCHANGED blocked

\* a call that waits for `waits` before it returns
Blocks(pc, q, waits, must) ==
    /\ blocked' = blocked \cup {[pc |-> pc, on |-> q, waits |-> waits,
                                 must |-> must]}
    /\ said' = {}

\* The calls a path allows: the event is asked for, as one that nobody uses
\* makes no difference, and where there is a blocking flag it may be set.
\* syncs: the call synchronizes its stream before it returns; promises: the
\* caller was told it would
Variants(p) ==
    {[stages |-> p.stages, list |-> p.list,
      syncs |-> p.blocks = "always" \/ (flag /\ p.blocks = "flag"),
      promises |-> p.blocks = "always" \/ flag] :
        flag \in IF p.blocks \in {"flag", "ignored"} THEN BOOLEAN ELSE {FALSE}}

\* the ways an enqueue leaves the documented behaviour: it takes a wait list
\* and does not wait for it, it ignores the blocking flag, or its event is
\* never recorded
Deviates(c) ==
    \/ c.list /\ \A k \in DOMAIN c.stages :
                    ~c.stages[k].waits /\ c.stages[k].does # "barrier"
    \/ c.promises /\ ~c.syncs
    \/ \E k \in DOMAIN c.stages : c.stages[k].event = "lost"

CallsOf(paths) ==
    {c \in UNION {Variants(p) : p \in paths} : Deviates(c) => Deviations}
CudaCalls == CallsOf(Cuda!AllPaths)
HipCalls == CallsOf(Hip!AllPaths)
Calls == IF adapter = "cuda" THEN CudaCalls ELSE HipCalls

Lists == {S \in SUBSET DOMAIN events : Cardinality(S) <= MaxList}

\* the streams and waits of the calls that can be refused
Refusable == {[stream |-> c.stages[1].stream, waits |-> c.stages[1].waits] :
                c \in {d \in Calls : d.list}}

HasStage(c, does) == \E k \in DOMAIN c.stages : c.stages[k].does = does

\* there is room on the device, a bound of the model
Room(c) ==
    Len(ops) + (CASE HasStage(c, "command") -> 1
                                 [] HasStage(c, "graph") -> Len(buffer.exec)
                                 [] OTHER -> 0) <= MaxOps

\* CUDA's finish counts its streams as synchronized before they are
FinishGuard(c, list) ==
    adapter = "cuda" /\ ~FinishOverlap /\ HasStage(c, "barrier") =>
        \A e \in list, b \in blocked :
            ~(b.pc = "finish" /\ b.on = events[e].queue)

\* an enqueue function
Enqueue(q) ==
    /\ Free(q)
    /\ Starts
    /\ \E c \in Calls :
        /\ Room(c)
        /\ HasStage(c, "graph") => buffer.final
        /\ \E list \in IF c.list THEN Lists ELSE {{}} :
            /\ FinishGuard(c, list)
            /\ \E w \in PathResults(q, list, c.stages) :
                /\ queue' = [queue EXCEPT ![q] = w.Q]
                /\ ops' = w.ops
                /\ events' = w.events
                /\ IF c.syncs
                   THEN Blocks("sync", q, w.last, w.promise)
                   ELSE Returns(IF c.promises THEN w.promise ELSE {})
    /\ UNCHANGED <<adapter, buffer>>

\* an enqueue function whose stream has been chosen and has its waits, and
\* whose command the driver refuses
Refused(q) ==
    /\ Free(q)
    /\ Starts
    /\ \E st \in Refusable, list \in Lists :
       \E c \in Streams(q, queue[q], st.stream, list) :
        queue' = [queue EXCEPT ![q] =
                    [c.Q EXCEPT ![c.kind].at[c.i] =
                        @ \cup IF st.waits
                              THEN enqueueEventsWait(q, c.kind, c.i, list)
                              ELSE {}]]
    /\ Returns({})
    /\ UNCHANGED <<adapter, events, ops, buffer>>

\* Mutant: LastSync is advanced before the streams to wait for are found
urQueueFinishAdvanced(q) ==
    /\ Free(q)
    /\ Starts
    /\ LET Q == SyncAdvance(q, SyncDelays(q, queue[q]))
       IN  /\ queue' = [queue EXCEPT ![q] = Q]
           /\ Blocks("finish", q, Synced(q, Q, "compute") \cup Synced(q, Q, "transfer"),
                     OpsOf(q, ops))
    /\ UNCHANGED <<adapter, events, ops, buffer>>

\* urQueueFinish: CUDA advances LastSync before it synchronizes, HIP after
urQueueFinish(q) ==
    /\ Free(q)
    /\ Starts
    /\ LET Q == SyncDelays(q, queue[q])
       IN  queue' = [queue EXCEPT ![q] =
                        IF adapter = "cuda" THEN SyncAdvance(q, Q) ELSE Q]
    /\ Blocks("finish", q,
              Synced(q, queue[q], "compute") \cup Synced(q, queue[q], "transfer"),
              OpsOf(q, ops))
    /\ UNCHANGED <<adapter, events, ops, buffer>>

\* urEventWait
urEventWait(list) ==
    /\ list # {}
    /\ Starts
    /\ Blocks("event", NoQueue,
              UNION {events[e].at : e \in forLatestEvents(list)},
              UNION {events[e].need : e \in list})
    /\ UNCHANGED <<adapter, queue, events, ops, buffer>>

\* a reference to the queue is dropped, by urQueueRelease or with an event;
\* with the last one every stream is synchronized and destroyed
Drop(q, Q, evs) ==
    IF ~Q.held /\ \A e \in DOMAIN evs : evs[e].queue # q
    THEN Blocks("release", q, OnCreated(q, Q), OpsOf(q, ops))
    ELSE Returns({})

urQueueRelease(q) ==
    /\ Free(q)
    /\ Starts
    /\ queue' = [queue EXCEPT ![q].held = FALSE]
    /\ Drop(q, queue'[q], events)
    /\ UNCHANGED <<adapter, events, ops, buffer>>

urEventRelease(e) ==
    /\ Starts
    /\ events' = RemoveAt(events, e)
    /\ Drop(events[e].queue, queue[events[e].queue], events')
    /\ UNCHANGED <<adapter, queue, ops, buffer>>

\* urQueueGetInfo with UR_QUEUE_INFO_EMPTY: true promises that nothing is left
urQueueGetInfo(q) ==
    /\ Free(q)
    /\ Running
    /\ Returns(IF OnCreated(q, queue[q]) = {} THEN OpsOf(q, ops)
                                                           ELSE {})
    /\ UNCHANGED <<adapter, queue, events, ops, buffer, calls>>

\* urQueueGetNativeHandle gives away the next compute stream
urQueueGetNativeHandle(q) ==
    /\ Free(q)
    /\ Starts
    /\ queue' = [queue EXCEPT ![q] = RoundRobin(q, @, "compute").Q]
    /\ Returns({})
    /\ UNCHANGED <<adapter, events, ops, buffer>>

\* a blocked call returns
Return(b) ==
    /\ b.waits = {}
    /\ blocked' = blocked \ {b}
    /\ said' = b.must
    /\ queue' = IF b.pc = "finish" /\ adapter = "hip"
                THEN [queue EXCEPT ![b.on] = SyncAdvance(b.on, @)]
                ELSE queue
    /\ UNCHANGED <<adapter, events, ops, buffer, calls>>

\* the device completes an operation that has nothing left to wait for; the
\* ones after it are renumbered
Complete(n) ==
    LET Without(S) == {IF m > n THEN m - 1 ELSE m : m \in S \ {n}}
        Pool(p) == [p EXCEPT !.at = [i \in DOMAIN @ |-> Without(@[i])]]
    IN  /\ ops[n].deps = {}
        /\ ops' = [m \in DOMAIN RemoveAt(ops, n) |->
                      [RemoveAt(ops, n)[m] EXCEPT !.deps = Without(@),
                                                  !.need = Without(@)]]
        /\ queue' = [q \in Queues |->
                        [queue[q] EXCEPT !.compute = Pool(@),
                                         !.transfer = Pool(@),
                                         !.BarrierEvent = Without(@),
                                         !.fence = Without(@)]]
        /\ events' = [e \in DOMAIN events |->
                        [events[e] EXCEPT !.at = Without(@), !.need = Without(@)]]
        /\ blocked' = {[b EXCEPT !.waits = Without(@), !.must = Without(@)] :
                            b \in blocked}
        /\ said' = {}
        /\ UNCHANGED <<adapter, buffer, calls>>

-----------------------------------------------------------------------------
(* Command buffers.  A node depends on the nodes of the sync points its      *)
(* command names; the nodes of a chain on each other.  A launch uses the     *)
(* executable graph made by the finalization and nothing else of the buffer. *)

\* Mutant: the sync point of a chain is its first node
AppendCommandFirst(kind, points) ==
    LET b == buffer
        n == Len(b.nodes)
        new == IF kind = "chain" THEN {n + 1, n + 2} ELSE {n + 1}
        need == UNION {b.points[p].covers : p \in points}
        first == [deps |-> {b.points[p].node : p \in points}, need |-> need]
        next == [deps |-> {n + 1}, need |-> need]
    IN  /\ Starts
        /\ n + Cardinality(new) <= MaxNodes
        /\ buffer' = [b EXCEPT
              !.nodes = Append(@, first) \o (IF kind = "chain" THEN <<next>>
                                                              ELSE <<>>),
              !.points = Append(@, [node |-> n + 1, covers |-> new])]
        /\ Returns({})
        /\ UNCHANGED <<adapter, queue, events, ops>>

AppendCommand(kind, points) ==
    LET b == buffer
        n == Len(b.nodes)
        new == IF kind = "chain" THEN {n + 1, n + 2} ELSE {n + 1}
        need == UNION {b.points[p].covers : p \in points}
        first == [deps |-> {b.points[p].node : p \in points}, need |-> need]
        next == [deps |-> {n + 1}, need |-> need]
    IN  /\ Starts
        /\ n + Cardinality(new) <= MaxNodes
        /\ buffer' = [b EXCEPT
              !.nodes = Append(@, first) \o (IF kind = "chain" THEN <<next>>
                                                              ELSE <<>>),
              !.points = Append(@, [node |-> n + Cardinality(new), covers |-> new])]
        /\ Returns({})
        /\ UNCHANGED <<adapter, queue, events, ops>>

\* urCommandBufferFinalizeExp, refused when the buffer is final
urCommandBufferFinalizeExp ==
    /\ ~buffer.final
    /\ Starts
    /\ buffer' = [buffer EXCEPT !.exec = buffer.nodes, !.final = TRUE]
    /\ Returns({})
    /\ UNCHANGED <<adapter, queue, events, ops>>

-----------------------------------------------------------------------------
AllAppends == IF adapter = "cuda" THEN Cuda!AllAppends ELSE Hip!AllAppends

Next ==
    \/ \E q \in Queues :
        \/ Enqueue(q)
        \/ Refused(q)
        \/ urQueueFinish(q)
        \/ urQueueRelease(q)
        \/ urQueueGetInfo(q)
        \/ urQueueGetNativeHandle(q)
    \/ \E list \in Lists : urEventWait(list)
    \/ \E e \in DOMAIN events : urEventRelease(e)
    \/ \E kind \in AllAppends, points \in SUBSET DOMAIN buffer.points :
            AppendCommand(kind, points)
    \/ urCommandBufferFinalizeExp
    \/ \E b \in blocked : Return(b)
    \/ \E n \in DOMAIN ops : Complete(n)

Spec == Init /\ [][Next]_vars

-----------------------------------------------------------------------------
(* Properties *)

OpSet == SUBSET (1 .. MaxOps)
PoolType(size) ==
    [Num : 0 .. size, Index : 0 .. TokenRange - 1, LastSync : 0 .. TokenRange - 1,
     Delay : SUBSET (0 .. size - 1), Applied : SUBSET (0 .. size - 1),
     at : [0 .. size - 1 -> OpSet]]

\* Every variable has its type: in particular no stream index leaves its pool
\* and no token its range.
TypeOK ==
    /\ adapter \in {"cuda", "hip"}
    /\ \A q \in Queues :
        /\ queue[q].compute \in PoolType(ComputeSize[q])
        /\ queue[q].transfer \in PoolType(TransferSize[q])
        /\ queue[q].BarrierEvent \in OpSet
        /\ queue[q].fence \in OpSet
    /\ \A e \in DOMAIN events :
        /\ events[e].i \in 0 .. Size(events[e].queue, events[e].kind) - 1
        /\ events[e].token \in 0 .. TokenRange - 1
        /\ events[e].at \in OpSet
    /\ \A n \in DOMAIN ops : ops[n].deps \subseteq 1 .. n - 1
    /\ Len(ops) <= MaxOps

\* No operation runs before what its call promised: the events of its wait
\* list, everything the barriers before it cover, on an in-order queue every
\* earlier command, and in a command buffer the commands of its sync points.
\* This is what stream reuse, the barrier's flags and skips, and the waits on
\* only the newest event of each stream have to add up to.
WaitsHonoured == \A n \in DOMAIN ops : ops[n].deps = {} => ops[n].need = {}

\* An event is complete only when its command is, and for a barrier or a map
\* when everything it had to wait for is.
EventsHonest ==
    \A e \in DOMAIN events :
        events[e].at = {} => events[e].need = {}

\* When a finish, a wait, a blocking enqueue or the release of the last
\* reference returns, or a query says the queue is empty, every operation it
\* is about is complete: the range of streams a finish visits leaves out no
\* stream with unfinished work.
ReturnsMean == said = {}
=============================================================================

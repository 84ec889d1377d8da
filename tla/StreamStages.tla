---------------------------- MODULE StreamStages ----------------------------
(* How an enqueue function of the CUDA and HIP adapters uses the streams of  *)
(* its queue.  A function takes one of a few paths; a path is a sequence of  *)
(* stages, and a stage gets a stream, makes it wait for the events of the    *)
(* call's wait list, puts something on it and records an event behind it.    *)
(*   stream  "reuse"     getNextComputeStream with the wait list             *)
(*           "next"      getNextComputeStream without it                     *)
(*           "transfer"  getNextTransferStream                               *)
(*   waits   enqueueEventsWait is called with the stream and the list        *)
(*   does    "command" an operation, "graph" a command buffer, "barrier" the *)
(*           body of urEnqueueEventsWaitWithBarrier, "mark" nothing          *)
(*   event   "asked" recorded when the caller passes phEvent, "always",      *)
(*           "none", or "lost": made for the caller and never recorded,      *)
(*           because record() refuses an event start() was not called on     *)
(*   token   the event carries the stream token of the getter                *)
(* A path also says whether it blocks ("never", "flag": when the caller's    *)
(* flag says so, "always", or "ignored": it takes a flag and ignores it) and *)
(* whether it takes a wait list.                                             *)

Stage(stream, waits, does, event, token) ==
    [stream |-> stream, waits |-> waits, does |-> does, event |-> event,
     token |-> token]

Path(stages, blocks, list) ==
    [stages |-> stages, blocks |-> blocks, list |-> list]

\* a kernel: on the stream of a dependency when that is possible
Launch == Path(<<Stage("reuse", TRUE, "command", "asked", TRUE)>>, "never", TRUE)

\* a copy, a fill or a prefetch on a transfer stream
Transfer(blocks) ==
    Path(<<Stage("transfer", TRUE, "command", "asked", FALSE)>>, blocks, TRUE)

\* urEnqueueEventsWaitWithBarrier; event is "none" where the caller of the
\* barrier passes no event
BarrierStage(event) == Stage("reuse", FALSE, "barrier", event, TRUE)
Barrier == Path(<<BarrierStage("asked")>>, "never", TRUE)

\* an event on a transfer stream with nothing before it
MarkStage == Stage("transfer", FALSE, "mark", "asked", FALSE)

\* a map or unmap that moves no data: of pinned memory behind a barrier, of
\* other memory on its own
PinnedMark(blocks) == Path(<<BarrierStage("none"), MarkStage>>, blocks, TRUE)
BareMark(blocks) == Path(<<MarkStage>>, blocks, TRUE)

\* a hint the driver takes at once
Hint == Path(<<MarkStage>>, "never", FALSE)
=============================================================================

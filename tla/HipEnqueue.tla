---------------------------- MODULE HipEnqueue ------------------------------
(* The enqueue functions of the HIP adapter by the paths they take, in the   *)
(* order of enqueue.cpp, and the functions of its other files that use a     *)
(* queue's streams.  Early returns that touch no stream are left out.        *)
EXTENDS StreamStages

urEnqueueEventsWaitWithBarrier == {Barrier}
urEnqueueEventsWaitWithBarrierExt == urEnqueueEventsWaitWithBarrier
urEnqueueEventsWait == urEnqueueEventsWaitWithBarrier

\* a kernel of size zero is a barrier
urEnqueueKernelLaunch == {Launch} \cup urEnqueueEventsWaitWithBarrier
urEnqueueCooperativeKernelLaunchExp == urEnqueueKernelLaunch

urEnqueueMemBufferReadRect == {Transfer("flag")}
urEnqueueMemBufferWriteRect == {Transfer("flag")}
urEnqueueMemBufferCopy == {Transfer("never")}
urEnqueueMemBufferCopyRect == {Transfer("never")}
urEnqueueMemBufferFill == {Transfer("never")}
urEnqueueMemImageRead == {Transfer("flag")}
\* the parameter has no name
urEnqueueMemImageWrite == {Transfer("ignored")}
urEnqueueMemImageCopy == {Transfer("never")}
urEnqueueMemBufferRead == {Transfer("flag")}
urEnqueueMemBufferWrite == {Transfer("flag")}

\* pinned memory is not read, and the flag is not looked at
urEnqueueMemBufferMap ==
    urEnqueueMemBufferRead \cup {PinnedMark("ignored"), BareMark("ignored")}
\* the write of an unmap is blocking
urEnqueueMemUnmap ==
    {Transfer("always"), PinnedMark("never"), BareMark("never")}

urEnqueueUSMFill == {Launch}
urEnqueueUSMMemcpy == {Transfer("flag")}
urEnqueueUSMPrefetch == {Transfer("never")}
urEnqueueUSMAdvise == {Hint}
urEnqueueUSMFill2D == {}
urEnqueueUSMMemcpy2D == {Transfer("flag")}
deviceGlobalCopyHelper == urEnqueueUSMMemcpy
urEnqueueDeviceGlobalVariableWrite == deviceGlobalCopyHelper
urEnqueueDeviceGlobalVariableRead == deviceGlobalCopyHelper
urEnqueueReadHostPipe == {}
urEnqueueWriteHostPipe == {}
urEnqueueTimestampRecordingExp ==
    {Path(<<Stage("reuse", TRUE, "mark", "always", FALSE)>>, "flag", TRUE)}

\* the native command runs on the stream the ScopedStream selected; the wait
\* list only takes part in that selection
urEnqueueNativeCommandExp ==
    {Path(<<Stage("reuse", FALSE, "command", "asked", FALSE)>>, "never", TRUE)}

urCommandBufferEnqueueExp ==
    {Path(<<Stage("reuse", TRUE, "graph", "asked", TRUE)>>, "never", TRUE)}

\* the event is made and recorded without start(); a copy from device to
\* device synchronizes its stream
urBindlessImagesImageCopyExp ==
    {Path(<<Stage("transfer", TRUE, "command", "lost", FALSE)>>, b, TRUE) :
        b \in {"never", "always"}}
urBindlessImagesWaitExternalSemaphoreExp ==
    {Path(<<Stage("transfer", TRUE, "command", "lost", FALSE)>>, "never", TRUE)}
urBindlessImagesSignalExternalSemaphoreExp ==
    {Path(<<Stage("transfer", TRUE, "command", "lost", FALSE)>>, "never", TRUE)}

\* every path an enqueue can take
AllPaths ==
    UNION {urEnqueueEventsWaitWithBarrier, urEnqueueEventsWaitWithBarrierExt,
           urEnqueueEventsWait, urEnqueueKernelLaunch,
           urEnqueueCooperativeKernelLaunchExp,
           urEnqueueMemBufferReadRect, urEnqueueMemBufferWriteRect,
           urEnqueueMemBufferCopy, urEnqueueMemBufferCopyRect,
           urEnqueueMemBufferFill, urEnqueueMemImageRead,
           urEnqueueMemImageWrite, urEnqueueMemImageCopy,
           urEnqueueMemBufferRead, urEnqueueMemBufferWrite,
           urEnqueueMemBufferMap, urEnqueueMemUnmap, urEnqueueUSMFill,
           urEnqueueUSMMemcpy, urEnqueueUSMPrefetch, urEnqueueUSMAdvise,
           urEnqueueUSMFill2D, urEnqueueUSMMemcpy2D,
           urEnqueueDeviceGlobalVariableWrite,
           urEnqueueDeviceGlobalVariableRead, urEnqueueReadHostPipe,
           urEnqueueWriteHostPipe, urEnqueueTimestampRecordingExp,
           urEnqueueNativeCommandExp, urCommandBufferEnqueueExp,
           urBindlessImagesImageCopyExp,
           urBindlessImagesWaitExternalSemaphoreExp,
           urBindlessImagesSignalExternalSemaphoreExp}

(* The commands appended to a command buffer: the graph nodes each adds, one *)
(* ("node") or, for a fill with a pattern above 4 bytes, a chain of them.    *)
urCommandBufferAppendKernelLaunchExp == {"node"}
urCommandBufferAppendUSMMemcpyExp == {"node"}
urCommandBufferAppendMemBufferCopyExp == {"node"}
urCommandBufferAppendMemBufferCopyRectExp == {"node"}
urCommandBufferAppendMemBufferWriteExp == {"node"}
urCommandBufferAppendMemBufferReadExp == {"node"}
urCommandBufferAppendMemBufferWriteRectExp == {"node"}
urCommandBufferAppendMemBufferReadRectExp == {"node"}
\* prefetch and advice are not supported in a graph: an empty node
urCommandBufferAppendUSMPrefetchExp == {"node"}
urCommandBufferAppendUSMAdviseExp == {"node"}
enqueueCommandBufferFillHelper == {"node", "chain"}
urCommandBufferAppendMemBufferFillExp == enqueueCommandBufferFillHelper
urCommandBufferAppendUSMFillExp == enqueueCommandBufferFillHelper

AllAppends ==
    UNION {urCommandBufferAppendKernelLaunchExp,
           urCommandBufferAppendUSMMemcpyExp,
           urCommandBufferAppendMemBufferCopyExp,
           urCommandBufferAppendMemBufferCopyRectExp,
           urCommandBufferAppendMemBufferWriteExp,
           urCommandBufferAppendMemBufferReadExp,
           urCommandBufferAppendMemBufferWriteRectExp,
           urCommandBufferAppendMemBufferReadRectExp,
           urCommandBufferAppendUSMPrefetchExp,
           urCommandBufferAppendUSMAdviseExp,
           urCommandBufferAppendMemBufferFillExp,
           urCommandBufferAppendUSMFillExp}
=============================================================================

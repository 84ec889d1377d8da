------------------------------ MODULE UrLoader ------------------------------
(***************************************************************************)
(* The loader's intercepts (loader/ur_ldrddi.cpp): one row per function.   *)
(* A row gives the parameter whose loader object supplies the adapter's    *)
(* DDI table, the parameters converted from loader to adapter handles, the *)
(* results under which the function goes on after the adapter's call, the  *)
(* output handles it then wraps, and the change to the loader's factory.   *)
(***************************************************************************)
EXTENDS UrLoaderTables

urAdapterGet == ForEachPlatform("phAdapters", "adapter")
urAdapterRelease == ForwardCount("hAdapter", <<Need("hAdapter")>>, Decrease("hAdapter"))
urAdapterRetain == ForwardCount("hAdapter", <<Need("hAdapter")>>, Increase("hAdapter"))
urAdapterGetLastError == Forward("hAdapter", <<Need("hAdapter")>>)
urAdapterGetInfo == Forward("hAdapter", <<Need("hAdapter")>>)
urPlatformGet == ForEachAdapter("phAdapters", "phPlatforms", "platform")
urPlatformGetInfo == ForwardInfo("hPlatform", <<Need("hPlatform")>>, {"adapter"})
urPlatformGetApiVersion == Forward("hPlatform", <<Need("hPlatform")>>)
urPlatformGetNativeHandle == Forward("hPlatform", <<Need("hPlatform")>>)
urPlatformCreateWithNativeHandle ==
  ForwardWrap("hAdapter", <<Need("hAdapter")>>, OnSuccess,
    <<Wrap("phPlatform", "platform")>>)
urPlatformGetBackendOption == Forward("hPlatform", <<Need("hPlatform")>>)
urDeviceGet ==
  ForwardWrap("hPlatform", <<Need("hPlatform")>>, OnSuccess,
    <<WrapEach("phDevices", "device")>>)
urDeviceGetInfo == ForwardInfo("hDevice", <<Need("hDevice")>>, {"platform", "device"})
urDeviceRetain == ForwardCount("hDevice", <<Need("hDevice")>>, Increase("hDevice"))
urDeviceRelease == ForwardCount("hDevice", <<Need("hDevice")>>, Decrease("hDevice"))
urDevicePartition ==
  ForwardWrap("hDevice", <<Need("hDevice")>>, OnSuccess,
    <<WrapEach("phSubDevices", "device")>>)
urDeviceSelectBinary == Forward("hDevice", <<Need("hDevice")>>)
urDeviceGetNativeHandle == Forward("hDevice", <<Need("hDevice")>>)
urDeviceCreateWithNativeHandle ==
  ForwardWrap("hAdapter", <<Need("hAdapter")>>, OnSuccess,
    <<Wrap("phDevice", "device")>>)
urDeviceGetGlobalTimestamps == Forward("hDevice", <<Need("hDevice")>>)
urContextCreate ==
  ForwardWrap("phDevices", <<Each("phDevices")>>, OnSuccess,
    <<Wrap("phContext", "context")>>)
urContextRetain == ForwardCount("hContext", <<Need("hContext")>>, Increase("hContext"))
urContextRelease == ForwardCount("hContext", <<Need("hContext")>>, Decrease("hContext"))
urContextGetInfo == ForwardInfo("hContext", <<Need("hContext")>>, {"device"})
urContextGetNativeHandle == Forward("hContext", <<Need("hContext")>>)
urContextCreateWithNativeHandle ==
  ForwardWrap("hAdapter", <<Need("hAdapter"), Each("phDevices")>>, OnSuccess,
    <<Wrap("phContext", "context")>>)
urContextSetExtendedDeleter == Forward("hContext", <<Need("hContext")>>)
urMemImageCreate ==
  ForwardWrap("hContext", <<Need("hContext")>>, OnSuccess, <<Wrap("phMem", "mem")>>)
urMemBufferCreate ==
  ForwardWrap("hContext", <<Need("hContext")>>, OnSuccess, <<Wrap("phBuffer", "mem")>>)
urMemRetain == ForwardCount("hMem", <<Need("hMem")>>, Increase("hMem"))
urMemRelease == ForwardCount("hMem", <<Need("hMem")>>, Decrease("hMem"))
urMemBufferPartition ==
  ForwardWrap("hBuffer", <<Need("hBuffer")>>, OnSuccess, <<Wrap("phMem", "mem")>>)
urMemGetNativeHandle == Forward("hMem", <<Need("hMem"), IfSet("hDevice")>>)
urMemBufferCreateWithNativeHandle ==
  ForwardWrap("hContext", <<Need("hContext")>>, OnSuccess, <<Wrap("phMem", "mem")>>)
urMemImageCreateWithNativeHandle ==
  ForwardWrap("hContext", <<Need("hContext")>>, OnSuccess, <<Wrap("phMem", "mem")>>)
urMemGetInfo == ForwardInfo("hMemory", <<Need("hMemory")>>, {"context"})
urMemImageGetInfo == Forward("hMemory", <<Need("hMemory")>>)
urSamplerCreate ==
  ForwardWrap("hContext", <<Need("hContext")>>, OnSuccess,
    <<Wrap("phSampler", "sampler")>>)
urSamplerRetain == ForwardCount("hSampler", <<Need("hSampler")>>, Increase("hSampler"))
urSamplerRelease == ForwardCount("hSampler", <<Need("hSampler")>>, Decrease("hSampler"))
urSamplerGetInfo == ForwardInfo("hSampler", <<Need("hSampler")>>, {"context"})
urSamplerGetNativeHandle == Forward("hSampler", <<Need("hSampler")>>)
urSamplerCreateWithNativeHandle ==
  ForwardWrap("hContext", <<Need("hContext")>>, OnSuccess,
    <<Wrap("phSampler", "sampler")>>)
urUSMHostAlloc == Forward("hContext", <<Need("hContext"), IfSet("pool")>>)
urUSMDeviceAlloc ==
  Forward("hContext", <<Need("hContext"), Need("hDevice"), IfSet("pool")>>)
urUSMSharedAlloc ==
  Forward("hContext", <<Need("hContext"), Need("hDevice"), IfSet("pool")>>)
urUSMFree == Forward("hContext", <<Need("hContext")>>)
urUSMGetMemAllocInfo ==
  ForwardInfo("hContext", <<Need("hContext")>>, {"device", "usm_pool"})
urUSMPoolCreate ==
  ForwardWrap("hContext", <<Need("hContext")>>, OnSuccess,
    <<Wrap("ppPool", "usm_pool")>>)
urUSMPoolRetain == ForwardCount("pPool", <<Need("pPool")>>, Increase("pPool"))
urUSMPoolRelease == ForwardCount("pPool", <<Need("pPool")>>, Decrease("pPool"))
urUSMPoolGetInfo == ForwardInfo("hPool", <<Need("hPool")>>, {"context"})
urVirtualMemGranularityGetInfo ==
  Forward("hContext", <<Need("hContext"), IfSet("hDevice")>>)
urVirtualMemReserve == Forward("hContext", <<Need("hContext")>>)
urVirtualMemFree == Forward("hContext", <<Need("hContext")>>)
urVirtualMemMap == Forward("hContext", <<Need("hContext"), Need("hPhysicalMem")>>)
urVirtualMemUnmap == Forward("hContext", <<Need("hContext")>>)
urVirtualMemSetAccess == Forward("hContext", <<Need("hContext")>>)
urVirtualMemGetInfo == Forward("hContext", <<Need("hContext")>>)
urPhysicalMemCreate ==
  ForwardWrap("hContext", <<Need("hContext"), Need("hDevice")>>, OnSuccess,
    <<Wrap("phPhysicalMem", "physical_mem")>>)
urPhysicalMemRetain ==
  ForwardCount("hPhysicalMem", <<Need("hPhysicalMem")>>, Increase("hPhysicalMem"))
urPhysicalMemRelease ==
  ForwardCount("hPhysicalMem", <<Need("hPhysicalMem")>>, Decrease("hPhysicalMem"))
urPhysicalMemGetInfo ==
  ForwardInfo("hPhysicalMem", <<Need("hPhysicalMem")>>, {"context", "device"})
urProgramCreateWithIL ==
  ForwardWrap("hContext", <<Need("hContext")>>, OnSuccess,
    <<Wrap("phProgram", "program")>>)
urProgramCreateWithBinary ==
  ForwardWrap("hContext", <<Need("hContext"), Each("phDevices")>>, OnSuccess,
    <<Wrap("phProgram", "program")>>)
urProgramBuild == Forward("hContext", <<Need("hContext"), Need("hProgram")>>)
urProgramCompile == Forward("hContext", <<Need("hContext"), Need("hProgram")>>)
urProgramLink ==
  ForwardWrap("hContext", <<Need("hContext"), Each("phPrograms")>>, Always,
    <<WrapIfSet("phProgram", "program")>>)
urProgramRetain == ForwardCount("hProgram", <<Need("hProgram")>>, Increase("hProgram"))
urProgramRelease == ForwardCount("hProgram", <<Need("hProgram")>>, Decrease("hProgram"))
urProgramGetFunctionPointer == Forward("hDevice", <<Need("hDevice"), Need("hProgram")>>)
urProgramGetGlobalVariablePointer ==
  Forward("hDevice", <<Need("hDevice"), Need("hProgram")>>)
urProgramGetInfo == ForwardInfo("hProgram", <<Need("hProgram")>>, {"context", "device"})
urProgramGetBuildInfo == Forward("hProgram", <<Need("hProgram"), Need("hDevice")>>)
urProgramSetSpecializationConstants == Forward("hProgram", <<Need("hProgram")>>)
urProgramGetNativeHandle == Forward("hProgram", <<Need("hProgram")>>)
urProgramCreateWithNativeHandle ==
  ForwardWrap("hContext", <<Need("hContext")>>, OnSuccess,
    <<Wrap("phProgram", "program")>>)
urKernelCreate ==
  ForwardWrap("hProgram", <<Need("hProgram")>>, OnSuccess,
    <<Wrap("phKernel", "kernel")>>)
urKernelSetArgValue == Forward("hKernel", <<Need("hKernel")>>)
urKernelSetArgLocal == Forward("hKernel", <<Need("hKernel")>>)
urKernelGetInfo == ForwardInfo("hKernel", <<Need("hKernel")>>, {"context", "program"})
urKernelGetGroupInfo == Forward("hKernel", <<Need("hKernel"), Need("hDevice")>>)
urKernelGetSubGroupInfo == Forward("hKernel", <<Need("hKernel"), Need("hDevice")>>)
urKernelRetain == ForwardCount("hKernel", <<Need("hKernel")>>, Increase("hKernel"))
urKernelRelease == ForwardCount("hKernel", <<Need("hKernel")>>, Decrease("hKernel"))
urKernelSetArgPointer == Forward("hKernel", <<Need("hKernel")>>)
urKernelSetExecInfo == Forward("hKernel", <<Need("hKernel")>>)
urKernelSetArgSampler == Forward("hKernel", <<Need("hKernel"), Need("hArgValue")>>)
urKernelSetArgMemObj == Forward("hKernel", <<Need("hKernel"), IfSet("hArgValue")>>)
urKernelSetSpecializationConstants == Forward("hKernel", <<Need("hKernel")>>)
urKernelGetNativeHandle == Forward("hKernel", <<Need("hKernel")>>)
urKernelCreateWithNativeHandle ==
  ForwardWrap("hContext", <<Need("hContext"), IfSet("hProgram")>>, OnSuccess,
    <<Wrap("phKernel", "kernel")>>)
urKernelGetSuggestedLocalWorkSize ==
  Forward("hKernel", <<Need("hKernel"), Need("hQueue")>>)
urQueueGetInfo ==
  ForwardInfo("hQueue", <<Need("hQueue")>>, {"context", "device", "queue"})
urQueueCreate ==
  ForwardWrap("hContext", <<Need("hContext"), Need("hDevice")>>, OnSuccess,
    <<Wrap("phQueue", "queue")>>)
urQueueRetain == ForwardCount("hQueue", <<Need("hQueue")>>, Increase("hQueue"))
urQueueRelease == ForwardCount("hQueue", <<Need("hQueue")>>, Decrease("hQueue"))
urQueueGetNativeHandle == Forward("hQueue", <<Need("hQueue")>>)
urQueueCreateWithNativeHandle ==
  ForwardWrap("hContext", <<Need("hContext"), IfSet("hDevice")>>, OnSuccess,
    <<Wrap("phQueue", "queue")>>)
urQueueFinish == Forward("hQueue", <<Need("hQueue")>>)
urQueueFlush == Forward("hQueue", <<Need("hQueue")>>)
urEventGetInfo == ForwardInfo("hEvent", <<Need("hEvent")>>, {"queue", "context"})
urEventGetProfilingInfo == Forward("hEvent", <<Need("hEvent")>>)
urEventWait == Forward("phEventWaitList", <<Each("phEventWaitList")>>)
urEventRetain == ForwardCount("hEvent", <<Need("hEvent")>>, Increase("hEvent"))
urEventRelease == ForwardCount("hEvent", <<Need("hEvent")>>, Decrease("hEvent"))
urEventGetNativeHandle == Forward("hEvent", <<Need("hEvent")>>)
urEventCreateWithNativeHandle ==
  ForwardWrap("hContext", <<Need("hContext")>>, OnSuccess, <<Wrap("phEvent", "event")>>)
urEventSetCallback == Forward("hEvent", <<Need("hEvent")>>)
urEnqueueKernelLaunch ==
  ForwardWrap("hQueue", <<Need("hQueue"), Need("hKernel"), Each("phEventWaitList")>>,
    OrSpecific, <<WrapIfSet("phEvent", "event")>>)
urEnqueueEventsWait ==
  ForwardWrap("hQueue", <<Need("hQueue"), Each("phEventWaitList")>>, OrSpecific,
    <<WrapIfSet("phEvent", "event")>>)
urEnqueueEventsWaitWithBarrier ==
  ForwardWrap("hQueue", <<Need("hQueue"), Each("phEventWaitList")>>, OrSpecific,
    <<WrapIfSet("phEvent", "event")>>)
urEnqueueMemBufferRead ==
  ForwardWrap("hQueue", <<Need("hQueue"), Need("hBuffer"), Each("phEventWaitList")>>,
    OrSpecific, <<WrapIfSet("phEvent", "event")>>)
urEnqueueMemBufferWrite ==
  ForwardWrap("hQueue", <<Need("hQueue"), Need("hBuffer"), Each("phEventWaitList")>>,
    OrSpecific, <<WrapIfSet("phEvent", "event")>>)
urEnqueueMemBufferReadRect ==
  ForwardWrap("hQueue", <<Need("hQueue"), Need("hBuffer"), Each("phEventWaitList")>>,
    OrSpecific, <<WrapIfSet("phEvent", "event")>>)
urEnqueueMemBufferWriteRect ==
  ForwardWrap("hQueue", <<Need("hQueue"), Need("hBuffer"), Each("phEventWaitList")>>,
    OrSpecific, <<WrapIfSet("phEvent", "event")>>)
urEnqueueMemBufferCopy ==
  ForwardWrap("hQueue", <<Need("hQueue"), Need("hBufferSrc"), Need("hBufferDst"),
    Each("phEventWaitList")>>, OrSpecific, <<WrapIfSet("phEvent", "event")>>)
urEnqueueMemBufferCopyRect ==
  ForwardWrap("hQueue", <<Need("hQueue"), Need("hBufferSrc"), Need("hBufferDst"),
    Each("phEventWaitList")>>, OrSpecific, <<WrapIfSet("phEvent", "event")>>)
urEnqueueMemBufferFill ==
  ForwardWrap("hQueue", <<Need("hQueue"), Need("hBuffer"), Each("phEventWaitList")>>,
    OrSpecific, <<WrapIfSet("phEvent", "event")>>)
urEnqueueMemImageRead ==
  ForwardWrap("hQueue", <<Need("hQueue"), Need("hImage"), Each("phEventWaitList")>>,
    OrSpecific, <<WrapIfSet("phEvent", "event")>>)
urEnqueueMemImageWrite ==
  ForwardWrap("hQueue", <<Need("hQueue"), Need("hImage"), Each("phEventWaitList")>>,
    OrSpecific, <<WrapIfSet("phEvent", "event")>>)
urEnqueueMemImageCopy ==
  ForwardWrap("hQueue", <<Need("hQueue"), Need("hImageSrc"), Need("hImageDst"),
    Each("phEventWaitList")>>, OrSpecific, <<WrapIfSet("phEvent", "event")>>)
urEnqueueMemBufferMap ==
  ForwardWrap("hQueue", <<Need("hQueue"), Need("hBuffer"), Each("phEventWaitList")>>,
    OrSpecific, <<WrapIfSet("phEvent", "event")>>)
urEnqueueMemUnmap ==
  ForwardWrap("hQueue", <<Need("hQueue"), Need("hMem"), Each("phEventWaitList")>>,
    OrSpecific, <<WrapIfSet("phEvent", "event")>>)
urEnqueueUSMFill ==
  ForwardWrap("hQueue", <<Need("hQueue"), Each("phEventWaitList")>>, OrSpecific,
    <<WrapIfSet("phEvent", "event")>>)
urEnqueueUSMMemcpy ==
  ForwardWrap("hQueue", <<Need("hQueue"), Each("phEventWaitList")>>, OrSpecific,
    <<WrapIfSet("phEvent", "event")>>)
urEnqueueUSMPrefetch ==
  ForwardWrap("hQueue", <<Need("hQueue"), Each("phEventWaitList")>>, OrSpecific,
    <<WrapIfSet("phEvent", "event")>>)
urEnqueueUSMAdvise ==
  ForwardWrap("hQueue", <<Need("hQueue")>>, OrSpecific,
    <<WrapIfSet("phEvent", "event")>>)
urEnqueueUSMFill2D ==
  ForwardWrap("hQueue", <<Need("hQueue"), Each("phEventWaitList")>>, OrSpecific,
    <<WrapIfSet("phEvent", "event")>>)
urEnqueueUSMMemcpy2D ==
  ForwardWrap("hQueue", <<Need("hQueue"), Each("phEventWaitList")>>, OrSpecific,
    <<WrapIfSet("phEvent", "event")>>)
urEnqueueDeviceGlobalVariableWrite ==
  ForwardWrap("hQueue", <<Need("hQueue"), Need("hProgram"), Each("phEventWaitList")>>,
    OrSpecific, <<WrapIfSet("phEvent", "event")>>)
urEnqueueDeviceGlobalVariableRead ==
  ForwardWrap("hQueue", <<Need("hQueue"), Need("hProgram"), Each("phEventWaitList")>>,
    OrSpecific, <<WrapIfSet("phEvent", "event")>>)
urEnqueueReadHostPipe ==
  ForwardWrap("hQueue", <<Need("hQueue"), Need("hProgram"), Each("phEventWaitList")>>,
    OrSpecific, <<WrapIfSet("phEvent", "event")>>)
urEnqueueWriteHostPipe ==
  ForwardWrap("hQueue", <<Need("hQueue"), Need("hProgram"), Each("phEventWaitList")>>,
    OrSpecific, <<WrapIfSet("phEvent", "event")>>)
urUSMPitchedAllocExp ==
  Forward("hContext", <<Need("hContext"), Need("hDevice"), IfSet("pool")>>)
urBindlessImagesUnsampledImageHandleDestroyExp ==
  Forward("hContext", <<Need("hContext"), Need("hDevice")>>)
urBindlessImagesSampledImageHandleDestroyExp ==
  Forward("hContext", <<Need("hContext"), Need("hDevice")>>)
urBindlessImagesImageAllocateExp ==
  Forward("hContext", <<Need("hContext"), Need("hDevice")>>)
urBindlessImagesImageFreeExp ==
  Forward("hContext", <<Need("hContext"), Need("hDevice")>>)
urBindlessImagesUnsampledImageCreateExp ==
  Forward("hContext", <<Need("hContext"), Need("hDevice")>>)
urBindlessImagesSampledImageCreateExp ==
  Forward("hContext", <<Need("hContext"), Need("hDevice"), Need("hSampler")>>)
urBindlessImagesImageCopyExp ==
  ForwardWrap("hQueue", <<Need("hQueue"), Each("phEventWaitList")>>, OnSuccess,
    <<WrapIfSet("phEvent", "event")>>)
urBindlessImagesImageGetInfoExp == Forward("hContext", <<Need("hContext")>>)
urBindlessImagesMipmapGetLevelExp ==
  Forward("hContext", <<Need("hContext"), Need("hDevice")>>)
urBindlessImagesMipmapFreeExp ==
  Forward("hContext", <<Need("hContext"), Need("hDevice")>>)
urBindlessImagesImportExternalMemoryExp ==
  ForwardWrap("hContext", <<Need("hContext"), Need("hDevice")>>, OnSuccess,
    <<Wrap("phExternalMem", "external_mem")>>)
urBindlessImagesMapExternalArrayExp ==
  Forward("hContext", <<Need("hContext"), Need("hDevice"), Need("hExternalMem")>>)
urBindlessImagesMapExternalLinearMemoryExp ==
  Forward("hContext", <<Need("hContext"), Need("hDevice"), Need("hExternalMem")>>)
urBindlessImagesReleaseExternalMemoryExp ==
  ForwardCount("hContext", <<Need("hContext"), Need("hDevice"), Need("hExternalMem")>>,
    Decrease("hExternalMem"))
urBindlessImagesImportExternalSemaphoreExp ==
  ForwardWrap("hContext", <<Need("hContext"), Need("hDevice")>>, OnSuccess,
    <<Wrap("phExternalSemaphore", "external_semaphore")>>)
urBindlessImagesReleaseExternalSemaphoreExp ==
  ForwardCount("hContext", <<Need("hContext"), Need("hDevice"),
    Need("hExternalSemaphore")>>, Decrease("hExternalSemaphore"))
urBindlessImagesWaitExternalSemaphoreExp ==
  ForwardWrap("hQueue", <<Need("hQueue"), Need("hSemaphore"), Each("phEventWaitList")>>,
    OnSuccess, <<WrapIfSet("phEvent", "event")>>)
urBindlessImagesSignalExternalSemaphoreExp ==
  ForwardWrap("hQueue", <<Need("hQueue"), Need("hSemaphore"), Each("phEventWaitList")>>,
    OnSuccess, <<WrapIfSet("phEvent", "event")>>)
urCommandBufferCreateExp ==
  ForwardWrap("hContext", <<Need("hContext"), Need("hDevice")>>, OnSuccess,
    <<Wrap("phCommandBuffer", "command_buffer")>>)
urCommandBufferRetainExp ==
  ForwardCount("hCommandBuffer", <<Need("hCommandBuffer")>>, Increase("hCommandBuffer"))
urCommandBufferReleaseExp ==
  ForwardCount("hCommandBuffer", <<Need("hCommandBuffer")>>, Decrease("hCommandBuffer"))
urCommandBufferFinalizeExp == Forward("hCommandBuffer", <<Need("hCommandBuffer")>>)
urCommandBufferAppendKernelLaunchExp ==
  ForwardWrap("hCommandBuffer", <<Need("hCommandBuffer"), Need("hKernel"),
    Each("phKernelAlternatives"), Each("phEventWaitList")>>, OnSuccess,
    <<WrapIfSet("phEvent", "event"), WrapIfSet("phCommand", "command_buffer_command")>>)
urCommandBufferAppendUSMMemcpyExp ==
  ForwardWrap("hCommandBuffer", <<Need("hCommandBuffer"), Each("phEventWaitList")>>,
    OnSuccess, <<WrapIfSet("phEvent", "event"),
    WrapIfSet("phCommand", "command_buffer_command")>>)
urCommandBufferAppendUSMFillExp ==
  ForwardWrap("hCommandBuffer", <<Need("hCommandBuffer"), Each("phEventWaitList")>>,
    OnSuccess, <<WrapIfSet("phEvent", "event"),
    WrapIfSet("phCommand", "command_buffer_command")>>)
urCommandBufferAppendMemBufferCopyExp ==
  ForwardWrap("hCommandBuffer", <<Need("hCommandBuffer"), Need("hSrcMem"),
    Need("hDstMem"), Each("phEventWaitList")>>, OnSuccess,
    <<WrapIfSet("phEvent", "event"), WrapIfSet("phCommand", "command_buffer_command")>>)
urCommandBufferAppendMemBufferWriteExp ==
  ForwardWrap("hCommandBuffer", <<Need("hCommandBuffer"), Need("hBuffer"),
    Each("phEventWaitList")>>, OnSuccess, <<WrapIfSet("phEvent", "event"),
    WrapIfSet("phCommand", "command_buffer_command")>>)
urCommandBufferAppendMemBufferReadExp ==
  ForwardWrap("hCommandBuffer", <<Need("hCommandBuffer"), Need("hBuffer"),
    Each("phEventWaitList")>>, OnSuccess, <<WrapIfSet("phEvent", "event"),
    WrapIfSet("phCommand", "command_buffer_command")>>)
urCommandBufferAppendMemBufferCopyRectExp ==
  ForwardWrap("hCommandBuffer", <<Need("hCommandBuffer"), Need("hSrcMem"),
    Need("hDstMem"), Each("phEventWaitList")>>, OnSuccess,
    <<WrapIfSet("phEvent", "event"), WrapIfSet("phCommand", "command_buffer_command")>>)
urCommandBufferAppendMemBufferWriteRectExp ==
  ForwardWrap("hCommandBuffer", <<Need("hCommandBuffer"), Need("hBuffer"),
    Each("phEventWaitList")>>, OnSuccess, <<WrapIfSet("phEvent", "event"),
    WrapIfSet("phCommand", "command_buffer_command")>>)
urCommandBufferAppendMemBufferReadRectExp ==
  ForwardWrap("hCommandBuffer", <<Need("hCommandBuffer"), Need("hBuffer"),
    Each("phEventWaitList")>>, OnSuccess, <<WrapIfSet("phEvent", "event"),
    WrapIfSet("phCommand", "command_buffer_command")>>)
urCommandBufferAppendMemBufferFillExp ==
  ForwardWrap("hCommandBuffer", <<Need("hCommandBuffer"), Need("hBuffer"),
    Each("phEventWaitList")>>, OnSuccess, <<WrapIfSet("phEvent", "event"),
    WrapIfSet("phCommand", "command_buffer_command")>>)
urCommandBufferAppendUSMPrefetchExp ==
  ForwardWrap("hCommandBuffer", <<Need("hCommandBuffer"), Each("phEventWaitList")>>,
    OnSuccess, <<WrapIfSet("phEvent", "event"),
    WrapIfSet("phCommand", "command_buffer_command")>>)
urCommandBufferAppendUSMAdviseExp ==
  ForwardWrap("hCommandBuffer", <<Need("hCommandBuffer"), Each("phEventWaitList")>>,
    OnSuccess, <<WrapIfSet("phEvent", "event"),
    WrapIfSet("phCommand", "command_buffer_command")>>)
urCommandBufferEnqueueExp ==
  ForwardWrap("hCommandBuffer", <<Need("hCommandBuffer"), Need("hQueue"),
    Each("phEventWaitList")>>, OnSuccess, <<WrapIfSet("phEvent", "event")>>)
urCommandBufferUpdateKernelLaunchExp ==
  Forward("hCommand", <<Need("hCommand"), Need("pUpdateKernelLaunch")>>)
urCommandBufferUpdateSignalEventExp ==
  ForwardWrap("hCommand", <<Need("hCommand")>>, OnSuccess,
    <<Wrap("phSignalEvent", "event")>>)
urCommandBufferUpdateWaitEventsExp ==
  Forward("hCommand", <<Need("hCommand"), Each("phEventWaitList")>>)
urCommandBufferGetInfoExp == Forward("hCommandBuffer", <<Need("hCommandBuffer")>>)
urEnqueueCooperativeKernelLaunchExp ==
  ForwardWrap("hQueue", <<Need("hQueue"), Need("hKernel"), Each("phEventWaitList")>>,
    OrSpecific, <<WrapIfSet("phEvent", "event")>>)
urKernelSuggestMaxCooperativeGroupCountExp ==
  Forward("hKernel", <<Need("hKernel"), Need("hDevice")>>)
urEnqueueTimestampRecordingExp ==
  ForwardWrap("hQueue", <<Need("hQueue"), Each("phEventWaitList")>>, OrSpecific,
    <<Wrap("phEvent", "event")>>)
urEnqueueKernelLaunchCustomExp ==
  ForwardWrap("hQueue", <<Need("hQueue"), Need("hKernel"), Each("phEventWaitList")>>,
    OrSpecific, <<WrapIfSet("phEvent", "event")>>)
urProgramBuildExp == Forward("hProgram", <<Need("hProgram"), Each("phDevices")>>)
urProgramCompileExp == Forward("hProgram", <<Need("hProgram"), Each("phDevices")>>)
urProgramLinkExp ==
  ForwardWrap("hContext", <<Need("hContext"), Each("phDevices"), Each("phPrograms")>>,
    Always, <<WrapIfSet("phProgram", "program")>>)
urUSMImportExp == Forward("hContext", <<Need("hContext")>>)
urUSMReleaseExp == Forward("hContext", <<Need("hContext")>>)
urUsmP2PEnablePeerAccessExp ==
  Forward("commandDevice", <<Need("commandDevice"), Need("peerDevice")>>)
urUsmP2PDisablePeerAccessExp ==
  Forward("commandDevice", <<Need("commandDevice"), Need("peerDevice")>>)
urUsmP2PPeerAccessGetInfoExp ==
  Forward("commandDevice", <<Need("commandDevice"), Need("peerDevice")>>)
urEnqueueEventsWaitWithBarrierExt ==
  ForwardWrap("hQueue", <<Need("hQueue"), Each("phEventWaitList")>>, OrSpecific,
    <<WrapIfSet("phEvent", "event")>>)
urEnqueueNativeCommandExp ==
  ForwardWrap("hQueue", <<Need("hQueue"), Each("phMemList"), Each("phEventWaitList")>>,
    OrSpecific, <<WrapIfSet("phEvent", "event")>>)

\* The functions above by name.
Rows ==
  [urAdapterGet |-> urAdapterGet, urAdapterRelease |-> urAdapterRelease,
    urAdapterRetain |-> urAdapterRetain,
    urAdapterGetLastError |-> urAdapterGetLastError,
    urAdapterGetInfo |-> urAdapterGetInfo, urPlatformGet |-> urPlatformGet,
    urPlatformGetInfo |-> urPlatformGetInfo,
    urPlatformGetApiVersion |-> urPlatformGetApiVersion,
    urPlatformGetNativeHandle |-> urPlatformGetNativeHandle,
    urPlatformCreateWithNativeHandle |-> urPlatformCreateWithNativeHandle,
    urPlatformGetBackendOption |-> urPlatformGetBackendOption,
    urDeviceGet |-> urDeviceGet, urDeviceGetInfo |-> urDeviceGetInfo,
    urDeviceRetain |-> urDeviceRetain, urDeviceRelease |-> urDeviceRelease,
    urDevicePartition |-> urDevicePartition,
    urDeviceSelectBinary |-> urDeviceSelectBinary,
    urDeviceGetNativeHandle |-> urDeviceGetNativeHandle,
    urDeviceCreateWithNativeHandle |-> urDeviceCreateWithNativeHandle,
    urDeviceGetGlobalTimestamps |-> urDeviceGetGlobalTimestamps,
    urContextCreate |-> urContextCreate, urContextRetain |-> urContextRetain,
    urContextRelease |-> urContextRelease, urContextGetInfo |-> urContextGetInfo,
    urContextGetNativeHandle |-> urContextGetNativeHandle,
    urContextCreateWithNativeHandle |-> urContextCreateWithNativeHandle,
    urContextSetExtendedDeleter |-> urContextSetExtendedDeleter,
    urMemImageCreate |-> urMemImageCreate, urMemBufferCreate |-> urMemBufferCreate,
    urMemRetain |-> urMemRetain, urMemRelease |-> urMemRelease,
    urMemBufferPartition |-> urMemBufferPartition,
    urMemGetNativeHandle |-> urMemGetNativeHandle,
    urMemBufferCreateWithNativeHandle |-> urMemBufferCreateWithNativeHandle,
    urMemImageCreateWithNativeHandle |-> urMemImageCreateWithNativeHandle,
    urMemGetInfo |-> urMemGetInfo, urMemImageGetInfo |-> urMemImageGetInfo,
    urSamplerCreate |-> urSamplerCreate, urSamplerRetain |-> urSamplerRetain,
    urSamplerRelease |-> urSamplerRelease, urSamplerGetInfo |-> urSamplerGetInfo,
    urSamplerGetNativeHandle |-> urSamplerGetNativeHandle,
    urSamplerCreateWithNativeHandle |-> urSamplerCreateWithNativeHandle,
    urUSMHostAlloc |-> urUSMHostAlloc, urUSMDeviceAlloc |-> urUSMDeviceAlloc,
    urUSMSharedAlloc |-> urUSMSharedAlloc, urUSMFree |-> urUSMFree,
    urUSMGetMemAllocInfo |-> urUSMGetMemAllocInfo, urUSMPoolCreate |-> urUSMPoolCreate,
    urUSMPoolRetain |-> urUSMPoolRetain, urUSMPoolRelease |-> urUSMPoolRelease,
    urUSMPoolGetInfo |-> urUSMPoolGetInfo,
    urVirtualMemGranularityGetInfo |-> urVirtualMemGranularityGetInfo,
    urVirtualMemReserve |-> urVirtualMemReserve, urVirtualMemFree |-> urVirtualMemFree,
    urVirtualMemMap |-> urVirtualMemMap, urVirtualMemUnmap |-> urVirtualMemUnmap,
    urVirtualMemSetAccess |-> urVirtualMemSetAccess,
    urVirtualMemGetInfo |-> urVirtualMemGetInfo,
    urPhysicalMemCreate |-> urPhysicalMemCreate,
    urPhysicalMemRetain |-> urPhysicalMemRetain,
    urPhysicalMemRelease |-> urPhysicalMemRelease,
    urPhysicalMemGetInfo |-> urPhysicalMemGetInfo,
    urProgramCreateWithIL |-> urProgramCreateWithIL,
    urProgramCreateWithBinary |-> urProgramCreateWithBinary,
    urProgramBuild |-> urProgramBuild, urProgramCompile |-> urProgramCompile,
    urProgramLink |-> urProgramLink, urProgramRetain |-> urProgramRetain,
    urProgramRelease |-> urProgramRelease,
    urProgramGetFunctionPointer |-> urProgramGetFunctionPointer,
    urProgramGetGlobalVariablePointer |-> urProgramGetGlobalVariablePointer,
    urProgramGetInfo |-> urProgramGetInfo,
    urProgramGetBuildInfo |-> urProgramGetBuildInfo,
    urProgramSetSpecializationConstants |-> urProgramSetSpecializationConstants,
    urProgramGetNativeHandle |-> urProgramGetNativeHandle,
    urProgramCreateWithNativeHandle |-> urProgramCreateWithNativeHandle,
    urKernelCreate |-> urKernelCreate, urKernelSetArgValue |-> urKernelSetArgValue,
    urKernelSetArgLocal |-> urKernelSetArgLocal, urKernelGetInfo |-> urKernelGetInfo,
    urKernelGetGroupInfo |-> urKernelGetGroupInfo,
    urKernelGetSubGroupInfo |-> urKernelGetSubGroupInfo,
    urKernelRetain |-> urKernelRetain, urKernelRelease |-> urKernelRelease,
    urKernelSetArgPointer |-> urKernelSetArgPointer,
    urKernelSetExecInfo |-> urKernelSetExecInfo,
    urKernelSetArgSampler |-> urKernelSetArgSampler,
    urKernelSetArgMemObj |-> urKernelSetArgMemObj,
    urKernelSetSpecializationConstants |-> urKernelSetSpecializationConstants,
    urKernelGetNativeHandle |-> urKernelGetNativeHandle,
    urKernelCreateWithNativeHandle |-> urKernelCreateWithNativeHandle,
    urKernelGetSuggestedLocalWorkSize |-> urKernelGetSuggestedLocalWorkSize,
    urQueueGetInfo |-> urQueueGetInfo, urQueueCreate |-> urQueueCreate,
    urQueueRetain |-> urQueueRetain, urQueueRelease |-> urQueueRelease,
    urQueueGetNativeHandle |-> urQueueGetNativeHandle,
    urQueueCreateWithNativeHandle |-> urQueueCreateWithNativeHandle,
    urQueueFinish |-> urQueueFinish, urQueueFlush |-> urQueueFlush,
    urEventGetInfo |-> urEventGetInfo,
    urEventGetProfilingInfo |-> urEventGetProfilingInfo, urEventWait |-> urEventWait,
    urEventRetain |-> urEventRetain, urEventRelease |-> urEventRelease,
    urEventGetNativeHandle |-> urEventGetNativeHandle,
    urEventCreateWithNativeHandle |-> urEventCreateWithNativeHandle,
    urEventSetCallback |-> urEventSetCallback,
    urEnqueueKernelLaunch |-> urEnqueueKernelLaunch,
    urEnqueueEventsWait |-> urEnqueueEventsWait,
    urEnqueueEventsWaitWithBarrier |-> urEnqueueEventsWaitWithBarrier,
    urEnqueueMemBufferRead |-> urEnqueueMemBufferRead,
    urEnqueueMemBufferWrite |-> urEnqueueMemBufferWrite,
    urEnqueueMemBufferReadRect |-> urEnqueueMemBufferReadRect,
    urEnqueueMemBufferWriteRect |-> urEnqueueMemBufferWriteRect,
    urEnqueueMemBufferCopy |-> urEnqueueMemBufferCopy,
    urEnqueueMemBufferCopyRect |-> urEnqueueMemBufferCopyRect,
    urEnqueueMemBufferFill |-> urEnqueueMemBufferFill,
    urEnqueueMemImageRead |-> urEnqueueMemImageRead,
    urEnqueueMemImageWrite |-> urEnqueueMemImageWrite,
    urEnqueueMemImageCopy |-> urEnqueueMemImageCopy,
    urEnqueueMemBufferMap |-> urEnqueueMemBufferMap,
    urEnqueueMemUnmap |-> urEnqueueMemUnmap, urEnqueueUSMFill |-> urEnqueueUSMFill,
    urEnqueueUSMMemcpy |-> urEnqueueUSMMemcpy,
    urEnqueueUSMPrefetch |-> urEnqueueUSMPrefetch,
    urEnqueueUSMAdvise |-> urEnqueueUSMAdvise,
    urEnqueueUSMFill2D |-> urEnqueueUSMFill2D,
    urEnqueueUSMMemcpy2D |-> urEnqueueUSMMemcpy2D,
    urEnqueueDeviceGlobalVariableWrite |-> urEnqueueDeviceGlobalVariableWrite,
    urEnqueueDeviceGlobalVariableRead |-> urEnqueueDeviceGlobalVariableRead,
    urEnqueueReadHostPipe |-> urEnqueueReadHostPipe,
    urEnqueueWriteHostPipe |-> urEnqueueWriteHostPipe,
    urUSMPitchedAllocExp |-> urUSMPitchedAllocExp,
    urBindlessImagesUnsampledImageHandleDestroyExp |-> urBindlessImagesUnsampledImageHandleDestroyExp,
    urBindlessImagesSampledImageHandleDestroyExp |-> urBindlessImagesSampledImageHandleDestroyExp,
    urBindlessImagesImageAllocateExp |-> urBindlessImagesImageAllocateExp,
    urBindlessImagesImageFreeExp |-> urBindlessImagesImageFreeExp,
    urBindlessImagesUnsampledImageCreateExp |-> urBindlessImagesUnsampledImageCreateExp,
    urBindlessImagesSampledImageCreateExp |-> urBindlessImagesSampledImageCreateExp,
    urBindlessImagesImageCopyExp |-> urBindlessImagesImageCopyExp,
    urBindlessImagesImageGetInfoExp |-> urBindlessImagesImageGetInfoExp,
    urBindlessImagesMipmapGetLevelExp |-> urBindlessImagesMipmapGetLevelExp,
    urBindlessImagesMipmapFreeExp |-> urBindlessImagesMipmapFreeExp,
    urBindlessImagesImportExternalMemoryExp |-> urBindlessImagesImportExternalMemoryExp,
    urBindlessImagesMapExternalArrayExp |-> urBindlessImagesMapExternalArrayExp,
    urBindlessImagesMapExternalLinearMemoryExp |-> urBindlessImagesMapExternalLinearMemoryExp,
    urBindlessImagesReleaseExternalMemoryExp |-> urBindlessImagesReleaseExternalMemoryExp,
    urBindlessImagesImportExternalSemaphoreExp |-> urBindlessImagesImportExternalSemaphoreExp,
    urBindlessImagesReleaseExternalSemaphoreExp |-> urBindlessImagesReleaseExternalSemaphoreExp,
    urBindlessImagesWaitExternalSemaphoreExp |-> urBindlessImagesWaitExternalSemaphoreExp,
    urBindlessImagesSignalExternalSemaphoreExp |-> urBindlessImagesSignalExternalSemaphoreExp,
    urCommandBufferCreateExp |-> urCommandBufferCreateExp,
    urCommandBufferRetainExp |-> urCommandBufferRetainExp,
    urCommandBufferReleaseExp |-> urCommandBufferReleaseExp,
    urCommandBufferFinalizeExp |-> urCommandBufferFinalizeExp,
    urCommandBufferAppendKernelLaunchExp |-> urCommandBufferAppendKernelLaunchExp,
    urCommandBufferAppendUSMMemcpyExp |-> urCommandBufferAppendUSMMemcpyExp,
    urCommandBufferAppendUSMFillExp |-> urCommandBufferAppendUSMFillExp,
    urCommandBufferAppendMemBufferCopyExp |-> urCommandBufferAppendMemBufferCopyExp,
    urCommandBufferAppendMemBufferWriteExp |-> urCommandBufferAppendMemBufferWriteExp,
    urCommandBufferAppendMemBufferReadExp |-> urCommandBufferAppendMemBufferReadExp,
    urCommandBufferAppendMemBufferCopyRectExp |-> urCommandBufferAppendMemBufferCopyRectExp,
    urCommandBufferAppendMemBufferWriteRectExp |-> urCommandBufferAppendMemBufferWriteRectExp,
    urCommandBufferAppendMemBufferReadRectExp |-> urCommandBufferAppendMemBufferReadRectExp,
    urCommandBufferAppendMemBufferFillExp |-> urCommandBufferAppendMemBufferFillExp,
    urCommandBufferAppendUSMPrefetchExp |-> urCommandBufferAppendUSMPrefetchExp,
    urCommandBufferAppendUSMAdviseExp |-> urCommandBufferAppendUSMAdviseExp,
    urCommandBufferEnqueueExp |-> urCommandBufferEnqueueExp,
    urCommandBufferUpdateKernelLaunchExp |-> urCommandBufferUpdateKernelLaunchExp,
    urCommandBufferUpdateSignalEventExp |-> urCommandBufferUpdateSignalEventExp,
    urCommandBufferUpdateWaitEventsExp |-> urCommandBufferUpdateWaitEventsExp,
    urCommandBufferGetInfoExp |-> urCommandBufferGetInfoExp,
    urEnqueueCooperativeKernelLaunchExp |-> urEnqueueCooperativeKernelLaunchExp,
    urKernelSuggestMaxCooperativeGroupCountExp |-> urKernelSuggestMaxCooperativeGroupCountExp,
    urEnqueueTimestampRecordingExp |-> urEnqueueTimestampRecordingExp,
    urEnqueueKernelLaunchCustomExp |-> urEnqueueKernelLaunchCustomExp,
    urProgramBuildExp |-> urProgramBuildExp,
    urProgramCompileExp |-> urProgramCompileExp, urProgramLinkExp |-> urProgramLinkExp,
    urUSMImportExp |-> urUSMImportExp, urUSMReleaseExp |-> urUSMReleaseExp,
    urUsmP2PEnablePeerAccessExp |-> urUsmP2PEnablePeerAccessExp,
    urUsmP2PDisablePeerAccessExp |-> urUsmP2PDisablePeerAccessExp,
    urUsmP2PPeerAccessGetInfoExp |-> urUsmP2PPeerAccessGetInfoExp,
    urEnqueueEventsWaitWithBarrierExt |-> urEnqueueEventsWaitWithBarrierExt,
    urEnqueueNativeCommandExp |-> urEnqueueNativeCommandExp]
==============================================================================

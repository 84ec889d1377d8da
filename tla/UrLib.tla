------------------------------- MODULE UrLib -------------------------------
(***************************************************************************)
(* The API as the library exports it (loader/ur_libapi.cpp): one row per   *)
(* function.  Every function looks up its slot in the library's DDI table, *)
(* returns UNINITIALIZED when the slot is empty and otherwise calls it.  A *)
(* row gives the slot and the handle parameters of the signature, in       *)
(* order; plain data is left out.                                          *)
(***************************************************************************)
EXTENDS Sequences

\* A parameter: a handle, a counted list of handles, the place of a new handle,
\* the places of several, or the place of a new handle that the function sets to
\* NULL before anything else.
In(p, k) == [name |-> p, kind |-> k, form |-> "in"]
List(p, k) == [name |-> p, kind |-> k, form |-> "list"]
Out(p, k) == [name |-> p, kind |-> k, form |-> "out"]
Outs(p, k) == [name |-> p, kind |-> k, form |-> "outs"]
Cleared(p, k) == [name |-> p, kind |-> k, form |-> "cleared"]

Api(t, s, ps) == [table |-> t, slot |-> s, params |-> ps]

urAdapterGet == Api("Global", "pfnAdapterGet", <<Outs("phAdapters", "adapter")>>)
urAdapterRelease == Api("Global", "pfnAdapterRelease", <<In("hAdapter", "adapter")>>)
urAdapterRetain == Api("Global", "pfnAdapterRetain", <<In("hAdapter", "adapter")>>)
urAdapterGetLastError ==
  Api("Global", "pfnAdapterGetLastError", <<In("hAdapter", "adapter")>>)
urAdapterGetInfo == Api("Global", "pfnAdapterGetInfo", <<In("hAdapter", "adapter")>>)
urPlatformGet ==
  Api("Platform", "pfnGet", <<List("phAdapters", "adapter"),
    Outs("phPlatforms", "platform")>>)
urPlatformGetInfo == Api("Platform", "pfnGetInfo", <<In("hPlatform", "platform")>>)
urPlatformGetApiVersion ==
  Api("Platform", "pfnGetApiVersion", <<In("hPlatform", "platform")>>)
urPlatformGetNativeHandle ==
  Api("Platform", "pfnGetNativeHandle", <<In("hPlatform", "platform")>>)
urPlatformCreateWithNativeHandle ==
  Api("Platform", "pfnCreateWithNativeHandle", <<In("hNativePlatform", "native"),
    In("hAdapter", "adapter"), Out("phPlatform", "platform")>>)
urPlatformGetBackendOption ==
  Api("Platform", "pfnGetBackendOption", <<In("hPlatform", "platform")>>)
urDeviceGet ==
  Api("Device", "pfnGet", <<In("hPlatform", "platform"), Outs("phDevices", "device")>>)
urDeviceGetInfo == Api("Device", "pfnGetInfo", <<In("hDevice", "device")>>)
urDeviceRetain == Api("Device", "pfnRetain", <<In("hDevice", "device")>>)
urDeviceRelease == Api("Device", "pfnRelease", <<In("hDevice", "device")>>)
urDevicePartition ==
  Api("Device", "pfnPartition", <<In("hDevice", "device"),
    Outs("phSubDevices", "device")>>)
urDeviceSelectBinary == Api("Device", "pfnSelectBinary", <<In("hDevice", "device")>>)
urDeviceGetNativeHandle ==
  Api("Device", "pfnGetNativeHandle", <<In("hDevice", "device")>>)
urDeviceCreateWithNativeHandle ==
  Api("Device", "pfnCreateWithNativeHandle", <<In("hNativeDevice", "native"),
    In("hAdapter", "adapter"), Out("phDevice", "device")>>)
urDeviceGetGlobalTimestamps ==
  Api("Device", "pfnGetGlobalTimestamps", <<In("hDevice", "device")>>)
urContextCreate ==
  Api("Context", "pfnCreate", <<List("phDevices", "device"),
    Out("phContext", "context")>>)
urContextRetain == Api("Context", "pfnRetain", <<In("hContext", "context")>>)
urContextRelease == Api("Context", "pfnRelease", <<In("hContext", "context")>>)
urContextGetInfo == Api("Context", "pfnGetInfo", <<In("hContext", "context")>>)
urContextGetNativeHandle ==
  Api("Context", "pfnGetNativeHandle", <<In("hContext", "context")>>)
urContextCreateWithNativeHandle ==
  Api("Context", "pfnCreateWithNativeHandle", <<In("hNativeContext", "native"),
    In("hAdapter", "adapter"), List("phDevices", "device"),
    Out("phContext", "context")>>)
urContextSetExtendedDeleter ==
  Api("Context", "pfnSetExtendedDeleter", <<In("hContext", "context")>>)
urMemImageCreate ==
  Api("Mem", "pfnImageCreate", <<In("hContext", "context"), Out("phMem", "mem")>>)
urMemBufferCreate ==
  Api("Mem", "pfnBufferCreate", <<In("hContext", "context"), Out("phBuffer", "mem")>>)
urMemRetain == Api("Mem", "pfnRetain", <<In("hMem", "mem")>>)
urMemRelease == Api("Mem", "pfnRelease", <<In("hMem", "mem")>>)
urMemBufferPartition ==
  Api("Mem", "pfnBufferPartition", <<In("hBuffer", "mem"), Out("phMem", "mem")>>)
urMemGetNativeHandle ==
  Api("Mem", "pfnGetNativeHandle", <<In("hMem", "mem"), In("hDevice", "device")>>)
urMemBufferCreateWithNativeHandle ==
  Api("Mem", "pfnBufferCreateWithNativeHandle", <<In("hNativeMem", "native"),
    In("hContext", "context"), Out("phMem", "mem")>>)
urMemImageCreateWithNativeHandle ==
  Api("Mem", "pfnImageCreateWithNativeHandle", <<In("hNativeMem", "native"),
    In("hContext", "context"), Out("phMem", "mem")>>)
urMemGetInfo == Api("Mem", "pfnGetInfo", <<In("hMemory", "mem")>>)
urMemImageGetInfo == Api("Mem", "pfnImageGetInfo", <<In("hMemory", "mem")>>)
urSamplerCreate ==
  Api("Sampler", "pfnCreate", <<In("hContext", "context"),
    Out("phSampler", "sampler")>>)
urSamplerRetain == Api("Sampler", "pfnRetain", <<In("hSampler", "sampler")>>)
urSamplerRelease == Api("Sampler", "pfnRelease", <<In("hSampler", "sampler")>>)
urSamplerGetInfo == Api("Sampler", "pfnGetInfo", <<In("hSampler", "sampler")>>)
urSamplerGetNativeHandle ==
  Api("Sampler", "pfnGetNativeHandle", <<In("hSampler", "sampler")>>)
urSamplerCreateWithNativeHandle ==
  Api("Sampler", "pfnCreateWithNativeHandle", <<In("hNativeSampler", "native"),
    In("hContext", "context"), Out("phSampler", "sampler")>>)
urUSMHostAlloc ==
  Api("USM", "pfnHostAlloc", <<In("hContext", "context"), In("pool", "usm_pool")>>)
urUSMDeviceAlloc ==
  Api("USM", "pfnDeviceAlloc", <<In("hContext", "context"), In("hDevice", "device"),
    In("pool", "usm_pool")>>)
urUSMSharedAlloc ==
  Api("USM", "pfnSharedAlloc", <<In("hContext", "context"), In("hDevice", "device"),
    In("pool", "usm_pool")>>)
urUSMFree == Api("USM", "pfnFree", <<In("hContext", "context")>>)
urUSMGetMemAllocInfo == Api("USM", "pfnGetMemAllocInfo", <<In("hContext", "context")>>)
urUSMPoolCreate ==
  Api("USM", "pfnPoolCreate", <<In("hContext", "context"), Out("ppPool", "usm_pool")>>)
urUSMPoolRetain == Api("USM", "pfnPoolRetain", <<In("pPool", "usm_pool")>>)
urUSMPoolRelease == Api("USM", "pfnPoolRelease", <<In("pPool", "usm_pool")>>)
urUSMPoolGetInfo == Api("USM", "pfnPoolGetInfo", <<In("hPool", "usm_pool")>>)
urVirtualMemGranularityGetInfo ==
  Api("VirtualMem", "pfnGranularityGetInfo", <<In("hContext", "context"),
    In("hDevice", "device")>>)
urVirtualMemReserve == Api("VirtualMem", "pfnReserve", <<In("hContext", "context")>>)
urVirtualMemFree == Api("VirtualMem", "pfnFree", <<In("hContext", "context")>>)
urVirtualMemMap ==
  Api("VirtualMem", "pfnMap", <<In("hContext", "context"),
    In("hPhysicalMem", "physical_mem")>>)
urVirtualMemUnmap == Api("VirtualMem", "pfnUnmap", <<In("hContext", "context")>>)
urVirtualMemSetAccess ==
  Api("VirtualMem", "pfnSetAccess", <<In("hContext", "context")>>)
urVirtualMemGetInfo == Api("VirtualMem", "pfnGetInfo", <<In("hContext", "context")>>)
urPhysicalMemCreate ==
  Api("PhysicalMem", "pfnCreate", <<In("hContext", "context"), In("hDevice", "device"),
    Out("phPhysicalMem", "physical_mem")>>)
urPhysicalMemRetain ==
  Api("PhysicalMem", "pfnRetain", <<In("hPhysicalMem", "physical_mem")>>)
urPhysicalMemRelease ==
  Api("PhysicalMem", "pfnRelease", <<In("hPhysicalMem", "physical_mem")>>)
urPhysicalMemGetInfo ==
  Api("PhysicalMem", "pfnGetInfo", <<In("hPhysicalMem", "physical_mem")>>)
urProgramCreateWithIL ==
  Api("Program", "pfnCreateWithIL", <<In("hContext", "context"),
    Out("phProgram", "program")>>)
urProgramCreateWithBinary ==
  Api("Program", "pfnCreateWithBinary", <<In("hContext", "context"),
    List("phDevices", "device"), Out("phProgram", "program")>>)
urProgramBuild ==
  Api("Program", "pfnBuild", <<In("hContext", "context"), In("hProgram", "program")>>)
urProgramCompile ==
  Api("Program", "pfnCompile", <<In("hContext", "context"), In("hProgram", "program")>>)
urProgramLink ==
  Api("Program", "pfnLink", <<In("hContext", "context"), List("phPrograms", "program"),
    Cleared("phProgram", "program")>>)
urProgramRetain == Api("Program", "pfnRetain", <<In("hProgram", "program")>>)
urProgramRelease == Api("Program", "pfnRelease", <<In("hProgram", "program")>>)
urProgramGetFunctionPointer ==
  Api("Program", "pfnGetFunctionPointer", <<In("hDevice", "device"),
    In("hProgram", "program")>>)
urProgramGetGlobalVariablePointer ==
  Api("Program", "pfnGetGlobalVariablePointer", <<In("hDevice", "device"),
    In("hProgram", "program")>>)
urProgramGetInfo == Api("Program", "pfnGetInfo", <<In("hProgram", "program")>>)
urProgramGetBuildInfo ==
  Api("Program", "pfnGetBuildInfo", <<In("hProgram", "program"),
    In("hDevice", "device")>>)
urProgramSetSpecializationConstants ==
  Api("Program", "pfnSetSpecializationConstants", <<In("hProgram", "program")>>)
urProgramGetNativeHandle ==
  Api("Program", "pfnGetNativeHandle", <<In("hProgram", "program")>>)
urProgramCreateWithNativeHandle ==
  Api("Program", "pfnCreateWithNativeHandle", <<In("hNativeProgram", "native"),
    In("hContext", "context"), Out("phProgram", "program")>>)
urKernelCreate ==
  Api("Kernel", "pfnCreate", <<In("hProgram", "program"), Out("phKernel", "kernel")>>)
urKernelSetArgValue == Api("Kernel", "pfnSetArgValue", <<In("hKernel", "kernel")>>)
urKernelSetArgLocal == Api("Kernel", "pfnSetArgLocal", <<In("hKernel", "kernel")>>)
urKernelGetInfo == Api("Kernel", "pfnGetInfo", <<In("hKernel", "kernel")>>)
urKernelGetGroupInfo ==
  Api("Kernel", "pfnGetGroupInfo", <<In("hKernel", "kernel"), In("hDevice", "device")>>)
urKernelGetSubGroupInfo ==
  Api("Kernel", "pfnGetSubGroupInfo", <<In("hKernel", "kernel"),
    In("hDevice", "device")>>)
urKernelRetain == Api("Kernel", "pfnRetain", <<In("hKernel", "kernel")>>)
urKernelRelease == Api("Kernel", "pfnRelease", <<In("hKernel", "kernel")>>)
urKernelSetArgPointer == Api("Kernel", "pfnSetArgPointer", <<In("hKernel", "kernel")>>)
urKernelSetExecInfo == Api("Kernel", "pfnSetExecInfo", <<In("hKernel", "kernel")>>)
urKernelSetArgSampler ==
  Api("Kernel", "pfnSetArgSampler", <<In("hKernel", "kernel"),
    In("hArgValue", "sampler")>>)
urKernelSetArgMemObj ==
  Api("Kernel", "pfnSetArgMemObj", <<In("hKernel", "kernel"), In("hArgValue", "mem")>>)
urKernelSetSpecializationConstants ==
  Api("Kernel", "pfnSetSpecializationConstants", <<In("hKernel", "kernel")>>)
urKernelGetNativeHandle ==
  Api("Kernel", "pfnGetNativeHandle", <<In("hKernel", "kernel")>>)
urKernelCreateWithNativeHandle ==
  Api("Kernel", "pfnCreateWithNativeHandle", <<In("hNativeKernel", "native"),
    In("hContext", "context"), In("hProgram", "program"), Out("phKernel", "kernel")>>)
urKernelGetSuggestedLocalWorkSize ==
  Api("Kernel", "pfnGetSuggestedLocalWorkSize", <<In("hKernel", "kernel"),
    In("hQueue", "queue")>>)
urQueueGetInfo == Api("Queue", "pfnGetInfo", <<In("hQueue", "queue")>>)
urQueueCreate ==
  Api("Queue", "pfnCreate", <<In("hContext", "context"), In("hDevice", "device"),
    Out("phQueue", "queue")>>)
urQueueRetain == Api("Queue", "pfnRetain", <<In("hQueue", "queue")>>)
urQueueRelease == Api("Queue", "pfnRelease", <<In("hQueue", "queue")>>)
urQueueGetNativeHandle == Api("Queue", "pfnGetNativeHandle", <<In("hQueue", "queue")>>)
urQueueCreateWithNativeHandle ==
  Api("Queue", "pfnCreateWithNativeHandle", <<In("hNativeQueue", "native"),
    In("hContext", "context"), In("hDevice", "device"), Out("phQueue", "queue")>>)
urQueueFinish == Api("Queue", "pfnFinish", <<In("hQueue", "queue")>>)
urQueueFlush == Api("Queue", "pfnFlush", <<In("hQueue", "queue")>>)
urEventGetInfo == Api("Event", "pfnGetInfo", <<In("hEvent", "event")>>)
urEventGetProfilingInfo ==
  Api("Event", "pfnGetProfilingInfo", <<In("hEvent", "event")>>)
urEventWait == Api("Event", "pfnWait", <<List("phEventWaitList", "event")>>)
urEventRetain == Api("Event", "pfnRetain", <<In("hEvent", "event")>>)
urEventRelease == Api("Event", "pfnRelease", <<In("hEvent", "event")>>)
urEventGetNativeHandle == Api("Event", "pfnGetNativeHandle", <<In("hEvent", "event")>>)
urEventCreateWithNativeHandle ==
  Api("Event", "pfnCreateWithNativeHandle", <<In("hNativeEvent", "native"),
    In("hContext", "context"), Out("phEvent", "event")>>)
urEventSetCallback == Api("Event", "pfnSetCallback", <<In("hEvent", "event")>>)
urEnqueueKernelLaunch ==
  Api("Enqueue", "pfnKernelLaunch", <<In("hQueue", "queue"), In("hKernel", "kernel"),
    List("phEventWaitList", "event"), Out("phEvent", "event")>>)
urEnqueueEventsWait ==
  Api("Enqueue", "pfnEventsWait", <<In("hQueue", "queue"),
    List("phEventWaitList", "event"), Out("phEvent", "event")>>)
urEnqueueEventsWaitWithBarrier ==
  Api("Enqueue", "pfnEventsWaitWithBarrier", <<In("hQueue", "queue"),
    List("phEventWaitList", "event"), Out("phEvent", "event")>>)
urEnqueueMemBufferRead ==
  Api("Enqueue", "pfnMemBufferRead", <<In("hQueue", "queue"), In("hBuffer", "mem"),
    List("phEventWaitList", "event"), Out("phEvent", "event")>>)
urEnqueueMemBufferWrite ==
  Api("Enqueue", "pfnMemBufferWrite", <<In("hQueue", "queue"), In("hBuffer", "mem"),
    List("phEventWaitList", "event"), Out("phEvent", "event")>>)
urEnqueueMemBufferReadRect ==
  Api("Enqueue", "pfnMemBufferReadRect", <<In("hQueue", "queue"), In("hBuffer", "mem"),
    List("phEventWaitList", "event"), Out("phEvent", "event")>>)
urEnqueueMemBufferWriteRect ==
  Api("Enqueue", "pfnMemBufferWriteRect", <<In("hQueue", "queue"), In("hBuffer", "mem"),
    List("phEventWaitList", "event"), Out("phEvent", "event")>>)
urEnqueueMemBufferCopy ==
  Api("Enqueue", "pfnMemBufferCopy", <<In("hQueue", "queue"), In("hBufferSrc", "mem"),
    In("hBufferDst", "mem"), List("phEventWaitList", "event"),
    Out("phEvent", "event")>>)
urEnqueueMemBufferCopyRect ==
  Api("Enqueue", "pfnMemBufferCopyRect", <<In("hQueue", "queue"),
    In("hBufferSrc", "mem"), In("hBufferDst", "mem"), List("phEventWaitList", "event"),
    Out("phEvent", "event")>>)
urEnqueueMemBufferFill ==
  Api("Enqueue", "pfnMemBufferFill", <<In("hQueue", "queue"), In("hBuffer", "mem"),
    List("phEventWaitList", "event"), Out("phEvent", "event")>>)
urEnqueueMemImageRead ==
  Api("Enqueue", "pfnMemImageRead", <<In("hQueue", "queue"), In("hImage", "mem"),
    List("phEventWaitList", "event"), Out("phEvent", "event")>>)
urEnqueueMemImageWrite ==
  Api("Enqueue", "pfnMemImageWrite", <<In("hQueue", "queue"), In("hImage", "mem"),
    List("phEventWaitList", "event"), Out("phEvent", "event")>>)
urEnqueueMemImageCopy ==
  Api("Enqueue", "pfnMemImageCopy", <<In("hQueue", "queue"), In("hImageSrc", "mem"),
    In("hImageDst", "mem"), List("phEventWaitList", "event"), Out("phEvent", "event")>>)
urEnqueueMemBufferMap ==
  Api("Enqueue", "pfnMemBufferMap", <<In("hQueue", "queue"), In("hBuffer", "mem"),
    List("phEventWaitList", "event"), Out("phEvent", "event")>>)
urEnqueueMemUnmap ==
  Api("Enqueue", "pfnMemUnmap", <<In("hQueue", "queue"), In("hMem", "mem"),
    List("phEventWaitList", "event"), Out("phEvent", "event")>>)
urEnqueueUSMFill ==
  Api("Enqueue", "pfnUSMFill", <<In("hQueue", "queue"),
    List("phEventWaitList", "event"), Out("phEvent", "event")>>)
urEnqueueUSMMemcpy ==
  Api("Enqueue", "pfnUSMMemcpy", <<In("hQueue", "queue"),
    List("phEventWaitList", "event"), Out("phEvent", "event")>>)
urEnqueueUSMPrefetch ==
  Api("Enqueue", "pfnUSMPrefetch", <<In("hQueue", "queue"),
    List("phEventWaitList", "event"), Out("phEvent", "event")>>)
urEnqueueUSMAdvise ==
  Api("Enqueue", "pfnUSMAdvise", <<In("hQueue", "queue"), Out("phEvent", "event")>>)
urEnqueueUSMFill2D ==
  Api("Enqueue", "pfnUSMFill2D", <<In("hQueue", "queue"),
    List("phEventWaitList", "event"), Out("phEvent", "event")>>)
urEnqueueUSMMemcpy2D ==
  Api("Enqueue", "pfnUSMMemcpy2D", <<In("hQueue", "queue"),
    List("phEventWaitList", "event"), Out("phEvent", "event")>>)
urEnqueueDeviceGlobalVariableWrite ==
  Api("Enqueue", "pfnDeviceGlobalVariableWrite", <<In("hQueue", "queue"),
    In("hProgram", "program"), List("phEventWaitList", "event"),
    Out("phEvent", "event")>>)
urEnqueueDeviceGlobalVariableRead ==
  Api("Enqueue", "pfnDeviceGlobalVariableRead", <<In("hQueue", "queue"),
    In("hProgram", "program"), List("phEventWaitList", "event"),
    Out("phEvent", "event")>>)
urEnqueueReadHostPipe ==
  Api("Enqueue", "pfnReadHostPipe", <<In("hQueue", "queue"), In("hProgram", "program"),
    List("phEventWaitList", "event"), Out("phEvent", "event")>>)
urEnqueueWriteHostPipe ==
  Api("Enqueue", "pfnWriteHostPipe", <<In("hQueue", "queue"), In("hProgram", "program"),
    List("phEventWaitList", "event"), Out("phEvent", "event")>>)
urUSMPitchedAllocExp ==
  Api("USMExp", "pfnPitchedAllocExp", <<In("hContext", "context"),
    In("hDevice", "device"), In("pool", "usm_pool")>>)
urBindlessImagesUnsampledImageHandleDestroyExp ==
  Api("BindlessImagesExp", "pfnUnsampledImageHandleDestroyExp",
    <<In("hContext", "context"), In("hDevice", "device"), In("hImage", "native")>>)
urBindlessImagesSampledImageHandleDestroyExp ==
  Api("BindlessImagesExp", "pfnSampledImageHandleDestroyExp",
    <<In("hContext", "context"), In("hDevice", "device"), In("hImage", "native")>>)
urBindlessImagesImageAllocateExp ==
  Api("BindlessImagesExp", "pfnImageAllocateExp", <<In("hContext", "context"),
    In("hDevice", "device")>>)
urBindlessImagesImageFreeExp ==
  Api("BindlessImagesExp", "pfnImageFreeExp", <<In("hContext", "context"),
    In("hDevice", "device"), In("hImageMem", "native")>>)
urBindlessImagesUnsampledImageCreateExp ==
  Api("BindlessImagesExp", "pfnUnsampledImageCreateExp", <<In("hContext", "context"),
    In("hDevice", "device"), In("hImageMem", "native")>>)
urBindlessImagesSampledImageCreateExp ==
  Api("BindlessImagesExp", "pfnSampledImageCreateExp", <<In("hContext", "context"),
    In("hDevice", "device"), In("hImageMem", "native"), In("hSampler", "sampler")>>)
urBindlessImagesImageCopyExp ==
  Api("BindlessImagesExp", "pfnImageCopyExp", <<In("hQueue", "queue"),
    List("phEventWaitList", "event"), Out("phEvent", "event")>>)
urBindlessImagesImageGetInfoExp ==
  Api("BindlessImagesExp", "pfnImageGetInfoExp", <<In("hContext", "context"),
    In("hImageMem", "native")>>)
urBindlessImagesMipmapGetLevelExp ==
  Api("BindlessImagesExp", "pfnMipmapGetLevelExp", <<In("hContext", "context"),
    In("hDevice", "device"), In("hImageMem", "native")>>)
urBindlessImagesMipmapFreeExp ==
  Api("BindlessImagesExp", "pfnMipmapFreeExp", <<In("hContext", "context"),
    In("hDevice", "device"), In("hMem", "native")>>)
urBindlessImagesImportExternalMemoryExp ==
  Api("BindlessImagesExp", "pfnImportExternalMemoryExp", <<In("hContext", "context"),
    In("hDevice", "device"), Out("phExternalMem", "external_mem")>>)
urBindlessImagesMapExternalArrayExp ==
  Api("BindlessImagesExp", "pfnMapExternalArrayExp", <<In("hContext", "context"),
    In("hDevice", "device"), In("hExternalMem", "external_mem")>>)
urBindlessImagesMapExternalLinearMemoryExp ==
  Api("BindlessImagesExp", "pfnMapExternalLinearMemoryExp", <<In("hContext", "context"),
    In("hDevice", "device"), In("hExternalMem", "external_mem")>>)
urBindlessImagesReleaseExternalMemoryExp ==
  Api("BindlessImagesExp", "pfnReleaseExternalMemoryExp", <<In("hContext", "context"),
    In("hDevice", "device"), In("hExternalMem", "external_mem")>>)
urBindlessImagesImportExternalSemaphoreExp ==
  Api("BindlessImagesExp", "pfnImportExternalSemaphoreExp", <<In("hContext", "context"),
    In("hDevice", "device"), Out("phExternalSemaphore", "external_semaphore")>>)
urBindlessImagesReleaseExternalSemaphoreExp ==
  Api("BindlessImagesExp", "pfnReleaseExternalSemaphoreExp",
    <<In("hContext", "context"), In("hDevice", "device"),
    In("hExternalSemaphore", "external_semaphore")>>)
urBindlessImagesWaitExternalSemaphoreExp ==
  Api("BindlessImagesExp", "pfnWaitExternalSemaphoreExp", <<In("hQueue", "queue"),
    In("hSemaphore", "external_semaphore"), List("phEventWaitList", "event"),
    Out("phEvent", "event")>>)
urBindlessImagesSignalExternalSemaphoreExp ==
  Api("BindlessImagesExp", "pfnSignalExternalSemaphoreExp", <<In("hQueue", "queue"),
    In("hSemaphore", "external_semaphore"), List("phEventWaitList", "event"),
    Out("phEvent", "event")>>)
urCommandBufferCreateExp ==
  Api("CommandBufferExp", "pfnCreateExp", <<In("hContext", "context"),
    In("hDevice", "device"), Out("phCommandBuffer", "command_buffer")>>)
urCommandBufferRetainExp ==
  Api("CommandBufferExp", "pfnRetainExp", <<In("hCommandBuffer", "command_buffer")>>)
urCommandBufferReleaseExp ==
  Api("CommandBufferExp", "pfnReleaseExp", <<In("hCommandBuffer", "command_buffer")>>)
urCommandBufferFinalizeExp ==
  Api("CommandBufferExp", "pfnFinalizeExp", <<In("hCommandBuffer", "command_buffer")>>)
urCommandBufferAppendKernelLaunchExp ==
  Api("CommandBufferExp", "pfnAppendKernelLaunchExp",
    <<In("hCommandBuffer", "command_buffer"), In("hKernel", "kernel"),
    List("phKernelAlternatives", "kernel"), List("phEventWaitList", "event"),
    Out("phEvent", "event"), Out("phCommand", "command_buffer_command")>>)
urCommandBufferAppendUSMMemcpyExp ==
  Api("CommandBufferExp", "pfnAppendUSMMemcpyExp",
    <<In("hCommandBuffer", "command_buffer"), List("phEventWaitList", "event"),
    Out("phEvent", "event"), Out("phCommand", "command_buffer_command")>>)
urCommandBufferAppendUSMFillExp ==
  Api("CommandBufferExp", "pfnAppendUSMFillExp",
    <<In("hCommandBuffer", "command_buffer"), List("phEventWaitList", "event"),
    Out("phEvent", "event"), Out("phCommand", "command_buffer_command")>>)
urCommandBufferAppendMemBufferCopyExp ==
  Api("CommandBufferExp", "pfnAppendMemBufferCopyExp",
    <<In("hCommandBuffer", "command_buffer"), In("hSrcMem", "mem"),
    In("hDstMem", "mem"), List("phEventWaitList", "event"), Out("phEvent", "event"),
    Out("phCommand", "command_buffer_command")>>)
urCommandBufferAppendMemBufferWriteExp ==
  Api("CommandBufferExp", "pfnAppendMemBufferWriteExp",
    <<In("hCommandBuffer", "command_buffer"), In("hBuffer", "mem"),
    List("phEventWaitList", "event"), Out("phEvent", "event"),
    Out("phCommand", "command_buffer_command")>>)
urCommandBufferAppendMemBufferReadExp ==
  Api("CommandBufferExp", "pfnAppendMemBufferReadExp",
    <<In("hCommandBuffer", "command_buffer"), In("hBuffer", "mem"),
    List("phEventWaitList", "event"), Out("phEvent", "event"),
    Out("phCommand", "command_buffer_command")>>)
urCommandBufferAppendMemBufferCopyRectExp ==
  Api("CommandBufferExp", "pfnAppendMemBufferCopyRectExp",
    <<In("hCommandBuffer", "command_buffer"), In("hSrcMem", "mem"),
    In("hDstMem", "mem"), List("phEventWaitList", "event"), Out("phEvent", "event"),
    Out("phCommand", "command_buffer_command")>>)
urCommandBufferAppendMemBufferWriteRectExp ==
  Api("CommandBufferExp", "pfnAppendMemBufferWriteRectExp",
    <<In("hCommandBuffer", "command_buffer"), In("hBuffer", "mem"),
    List("phEventWaitList", "event"), Out("phEvent", "event"),
    Out("phCommand", "command_buffer_command")>>)
urCommandBufferAppendMemBufferReadRectExp ==
  Api("CommandBufferExp", "pfnAppendMemBufferReadRectExp",
    <<In("hCommandBuffer", "command_buffer"), In("hBuffer", "mem"),
    List("phEventWaitList", "event"), Out("phEvent", "event"),
    Out("phCommand", "command_buffer_command")>>)
urCommandBufferAppendMemBufferFillExp ==
  Api("CommandBufferExp", "pfnAppendMemBufferFillExp",
    <<In("hCommandBuffer", "command_buffer"), In("hBuffer", "mem"),
    List("phEventWaitList", "event"), Out("phEvent", "event"),
    Out("phCommand", "command_buffer_command")>>)
urCommandBufferAppendUSMPrefetchExp ==
  Api("CommandBufferExp", "pfnAppendUSMPrefetchExp",
    <<In("hCommandBuffer", "command_buffer"), List("phEventWaitList", "event"),
    Out("phEvent", "event"), Out("phCommand", "command_buffer_command")>>)
urCommandBufferAppendUSMAdviseExp ==
  Api("CommandBufferExp", "pfnAppendUSMAdviseExp",
    <<In("hCommandBuffer", "command_buffer"), List("phEventWaitList", "event"),
    Out("phEvent", "event"), Out("phCommand", "command_buffer_command")>>)
urCommandBufferEnqueueExp ==
  Api("CommandBufferExp", "pfnEnqueueExp", <<In("hCommandBuffer", "command_buffer"),
    In("hQueue", "queue"), List("phEventWaitList", "event"), Out("phEvent", "event")>>)
urCommandBufferUpdateKernelLaunchExp ==
  Api("CommandBufferExp", "pfnUpdateKernelLaunchExp",
    <<In("hCommand", "command_buffer_command")>>)
urCommandBufferUpdateSignalEventExp ==
  Api("CommandBufferExp", "pfnUpdateSignalEventExp",
    <<In("hCommand", "command_buffer_command"), Out("phSignalEvent", "event")>>)
urCommandBufferUpdateWaitEventsExp ==
  Api("CommandBufferExp", "pfnUpdateWaitEventsExp",
    <<In("hCommand", "command_buffer_command"), List("phEventWaitList", "event")>>)
urCommandBufferGetInfoExp ==
  Api("CommandBufferExp", "pfnGetInfoExp", <<In("hCommandBuffer", "command_buffer")>>)
urEnqueueCooperativeKernelLaunchExp ==
  Api("EnqueueExp", "pfnCooperativeKernelLaunchExp", <<In("hQueue", "queue"),
    In("hKernel", "kernel"), List("phEventWaitList", "event"),
    Out("phEvent", "event")>>)
urKernelSuggestMaxCooperativeGroupCountExp ==
  Api("KernelExp", "pfnSuggestMaxCooperativeGroupCountExp", <<In("hKernel", "kernel"),
    In("hDevice", "device")>>)
urEnqueueTimestampRecordingExp ==
  Api("EnqueueExp", "pfnTimestampRecordingExp", <<In("hQueue", "queue"),
    List("phEventWaitList", "event"), Out("phEvent", "event")>>)
urEnqueueKernelLaunchCustomExp ==
  Api("EnqueueExp", "pfnKernelLaunchCustomExp", <<In("hQueue", "queue"),
    In("hKernel", "kernel"), List("phEventWaitList", "event"),
    Out("phEvent", "event")>>)
urProgramBuildExp ==
  Api("ProgramExp", "pfnBuildExp", <<In("hProgram", "program"),
    List("phDevices", "device")>>)
urProgramCompileExp ==
  Api("ProgramExp", "pfnCompileExp", <<In("hProgram", "program"),
    List("phDevices", "device")>>)
urProgramLinkExp ==
  Api("ProgramExp", "pfnLinkExp", <<In("hContext", "context"),
    List("phDevices", "device"), List("phPrograms", "program"),
    Cleared("phProgram", "program")>>)
urUSMImportExp == Api("USMExp", "pfnImportExp", <<In("hContext", "context")>>)
urUSMReleaseExp == Api("USMExp", "pfnReleaseExp", <<In("hContext", "context")>>)
urUsmP2PEnablePeerAccessExp ==
  Api("UsmP2PExp", "pfnEnablePeerAccessExp", <<In("commandDevice", "device"),
    In("peerDevice", "device")>>)
urUsmP2PDisablePeerAccessExp ==
  Api("UsmP2PExp", "pfnDisablePeerAccessExp", <<In("commandDevice", "device"),
    In("peerDevice", "device")>>)
urUsmP2PPeerAccessGetInfoExp ==
  Api("UsmP2PExp", "pfnPeerAccessGetInfoExp", <<In("commandDevice", "device"),
    In("peerDevice", "device")>>)
urEnqueueEventsWaitWithBarrierExt ==
  Api("Enqueue", "pfnEventsWaitWithBarrierExt", <<In("hQueue", "queue"),
    List("phEventWaitList", "event"), Out("phEvent", "event")>>)
urEnqueueNativeCommandExp ==
  Api("EnqueueExp", "pfnNativeCommandExp", <<In("hQueue", "queue"),
    List("phMemList", "mem"), List("phEventWaitList", "event"),
    Out("phEvent", "event")>>)

\* The functions above by name.
Rows ==
  [urAdapterGet |-> urAdapterGet, urAdapterRelease |-> urAdapterRelease,
    urAdapterRetain |-> urAdapterRetain,
    urAdapterGetLastError |-> urAdapterGetLastError,
    urAdapterGetInfo |-> urAdapterGetInfo, urPlatformGet |-> urPlatformGet,
    urPlatformGetInfo |-> urPlatformGetInfo,
    urPlatformGetApiVersion |-> urPlatformGetApiVersion,
    urPlatformGetNativeHandle |-> urPlatformGetNativeHandle,
    urPlatformCreateWithNativeHandle |-> urPlatformCreateWithNativeHandle,
    urPlatformGetBackendOption |-> urPlatformGetBackendOption,
    urDeviceGet |-> urDeviceGet, urDeviceGetInfo |-> urDeviceGetInfo,
    urDeviceRetain |-> urDeviceRetain, urDeviceRelease |-> urDeviceRelease,
    urDevicePartition |-> urDevicePartition,
    urDeviceSelectBinary |-> urDeviceSelectBinary,
    urDeviceGetNativeHandle |-> urDeviceGetNativeHandle,
    urDeviceCreateWithNativeHandle |-> urDeviceCreateWithNativeHandle,
    urDeviceGetGlobalTimestamps |-> urDeviceGetGlobalTimestamps,
    urContextCreate |-> urContextCreate, urContextRetain |-> urContextRetain,
    urContextRelease |-> urContextRelease, urContextGetInfo |-> urContextGetInfo,
    urContextGetNativeHandle |-> urContextGetNativeHandle,
    urContextCreateWithNativeHandle |-> urContextCreateWithNativeHandle,
    urContextSetExtendedDeleter |-> urContextSetExtendedDeleter,
    urMemImageCreate |-> urMemImageCreate, urMemBufferCreate |-> urMemBufferCreate,
    urMemRetain |-> urMemRetain, urMemRelease |-> urMemRelease,
    urMemBufferPartition |-> urMemBufferPartition,
    urMemGetNativeHandle |-> urMemGetNativeHandle,
    urMemBufferCreateWithNativeHandle |-> urMemBufferCreateWithNativeHandle,
    urMemImageCreateWithNativeHandle |-> urMemImageCreateWithNativeHandle,
    urMemGetInfo |-> urMemGetInfo, urMemImageGetInfo |-> urMemImageGetInfo,
    urSamplerCreate |-> urSamplerCreate, urSamplerRetain |-> urSamplerRetain,
    urSamplerRelease |-> urSamplerRelease, urSamplerGetInfo |-> urSamplerGetInfo,
    urSamplerGetNativeHandle |-> urSamplerGetNativeHandle,
    urSamplerCreateWithNativeHandle |-> urSamplerCreateWithNativeHandle,
    urUSMHostAlloc |-> urUSMHostAlloc, urUSMDeviceAlloc |-> urUSMDeviceAlloc,
    urUSMSharedAlloc |-> urUSMSharedAlloc, urUSMFree |-> urUSMFree,
    urUSMGetMemAllocInfo |-> urUSMGetMemAllocInfo, urUSMPoolCreate |-> urUSMPoolCreate,
    urUSMPoolRetain |-> urUSMPoolRetain, urUSMPoolRelease |-> urUSMPoolRelease,
    urUSMPoolGetInfo |-> urUSMPoolGetInfo,
    urVirtualMemGranularityGetInfo |-> urVirtualMemGranularityGetInfo,
    urVirtualMemReserve |-> urVirtualMemReserve, urVirtualMemFree |-> urVirtualMemFree,
    urVirtualMemMap |-> urVirtualMemMap, urVirtualMemUnmap |-> urVirtualMemUnmap,
    urVirtualMemSetAccess |-> urVirtualMemSetAccess,
    urVirtualMemGetInfo |-> urVirtualMemGetInfo,
    urPhysicalMemCreate |-> urPhysicalMemCreate,
    urPhysicalMemRetain |-> urPhysicalMemRetain,
    urPhysicalMemRelease |-> urPhysicalMemRelease,
    urPhysicalMemGetInfo |-> urPhysicalMemGetInfo,
    urProgramCreateWithIL |-> urProgramCreateWithIL,
    urProgramCreateWithBinary |-> urProgramCreateWithBinary,
    urProgramBuild |-> urProgramBuild, urProgramCompile |-> urProgramCompile,
    urProgramLink |-> urProgramLink, urProgramRetain |-> urProgramRetain,
    urProgramRelease |-> urProgramRelease,
    urProgramGetFunctionPointer |-> urProgramGetFunctionPointer,
    urProgramGetGlobalVariablePointer |-> urProgramGetGlobalVariablePointer,
    urProgramGetInfo |-> urProgramGetInfo,
    urProgramGetBuildInfo |-> urProgramGetBuildInfo,
    urProgramSetSpecializationConstants |-> urProgramSetSpecializationConstants,
    urProgramGetNativeHandle |-> urProgramGetNativeHandle,
    urProgramCreateWithNativeHandle |-> urProgramCreateWithNativeHandle,
    urKernelCreate |-> urKernelCreate, urKernelSetArgValue |-> urKernelSetArgValue,
    urKernelSetArgLocal |-> urKernelSetArgLocal, urKernelGetInfo |-> urKernelGetInfo,
    urKernelGetGroupInfo |-> urKernelGetGroupInfo,
    urKernelGetSubGroupInfo |-> urKernelGetSubGroupInfo,
    urKernelRetain |-> urKernelRetain, urKernelRelease |-> urKernelRelease,
    urKernelSetArgPointer |-> urKernelSetArgPointer,
    urKernelSetExecInfo |-> urKernelSetExecInfo,
    urKernelSetArgSampler |-> urKernelSetArgSampler,
    urKernelSetArgMemObj |-> urKernelSetArgMemObj,
    urKernelSetSpecializationConstants |-> urKernelSetSpecializationConstants,
    urKernelGetNativeHandle |-> urKernelGetNativeHandle,
    urKernelCreateWithNativeHandle |-> urKernelCreateWithNativeHandle,
    urKernelGetSuggestedLocalWorkSize |-> urKernelGetSuggestedLocalWorkSize,
    urQueueGetInfo |-> urQueueGetInfo, urQueueCreate |-> urQueueCreate,
    urQueueRetain |-> urQueueRetain, urQueueRelease |-> urQueueRelease,
    urQueueGetNativeHandle |-> urQueueGetNativeHandle,
    urQueueCreateWithNativeHandle |-> urQueueCreateWithNativeHandle,
    urQueueFinish |-> urQueueFinish, urQueueFlush |-> urQueueFlush,
    urEventGetInfo |-> urEventGetInfo,
    urEventGetProfilingInfo |-> urEventGetProfilingInfo, urEventWait |-> urEventWait,
    urEventRetain |-> urEventRetain, urEventRelease |-> urEventRelease,
    urEventGetNativeHandle |-> urEventGetNativeHandle,
    urEventCreateWithNativeHandle |-> urEventCreateWithNativeHandle,
    urEventSetCallback |-> urEventSetCallback,
    urEnqueueKernelLaunch |-> urEnqueueKernelLaunch,
    urEnqueueEventsWait |-> urEnqueueEventsWait,
    urEnqueueEventsWaitWithBarrier |-> urEnqueueEventsWaitWithBarrier,
    urEnqueueMemBufferRead |-> urEnqueueMemBufferRead,
    urEnqueueMemBufferWrite |-> urEnqueueMemBufferWrite,
    urEnqueueMemBufferReadRect |-> urEnqueueMemBufferReadRect,
    urEnqueueMemBufferWriteRect |-> urEnqueueMemBufferWriteRect,
    urEnqueueMemBufferCopy |-> urEnqueueMemBufferCopy,
    urEnqueueMemBufferCopyRect |-> urEnqueueMemBufferCopyRect,
    urEnqueueMemBufferFill |-> urEnqueueMemBufferFill,
    urEnqueueMemImageRead |-> urEnqueueMemImageRead,
    urEnqueueMemImageWrite |-> urEnqueueMemImageWrite,
    urEnqueueMemImageCopy |-> urEnqueueMemImageCopy,
    urEnqueueMemBufferMap |-> urEnqueueMemBufferMap,
    urEnqueueMemUnmap |-> urEnqueueMemUnmap, urEnqueueUSMFill |-> urEnqueueUSMFill,
    urEnqueueUSMMemcpy |-> urEnqueueUSMMemcpy,
    urEnqueueUSMPrefetch |-> urEnqueueUSMPrefetch,
    urEnqueueUSMAdvise |-> urEnqueueUSMAdvise,
    urEnqueueUSMFill2D |-> urEnqueueUSMFill2D,
    urEnqueueUSMMemcpy2D |-> urEnqueueUSMMemcpy2D,
    urEnqueueDeviceGlobalVariableWrite |-> urEnqueueDeviceGlobalVariableWrite,
    urEnqueueDeviceGlobalVariableRead |-> urEnqueueDeviceGlobalVariableRead,
    urEnqueueReadHostPipe |-> urEnqueueReadHostPipe,
    urEnqueueWriteHostPipe |-> urEnqueueWriteHostPipe,
    urUSMPitchedAllocExp |-> urUSMPitchedAllocExp,
    urBindlessImagesUnsampledImageHandleDestroyExp |-> urBindlessImagesUnsampledImageHandleDestroyExp,
    urBindlessImagesSampledImageHandleDestroyExp |-> urBindlessImagesSampledImageHandleDestroyExp,
    urBindlessImagesImageAllocateExp |-> urBindlessImagesImageAllocateExp,
    urBindlessImagesImageFreeExp |-> urBindlessImagesImageFreeExp,
    urBindlessImagesUnsampledImageCreateExp |-> urBindlessImagesUnsampledImageCreateExp,
    urBindlessImagesSampledImageCreateExp |-> urBindlessImagesSampledImageCreateExp,
    urBindlessImagesImageCopyExp |-> urBindlessImagesImageCopyExp,
    urBindlessImagesImageGetInfoExp |-> urBindlessImagesImageGetInfoExp,
    urBindlessImagesMipmapGetLevelExp |-> urBindlessImagesMipmapGetLevelExp,
    urBindlessImagesMipmapFreeExp |-> urBindlessImagesMipmapFreeExp,
    urBindlessImagesImportExternalMemoryExp |-> urBindlessImagesImportExternalMemoryExp,
    urBindlessImagesMapExternalArrayExp |-> urBindlessImagesMapExternalArrayExp,
    urBindlessImagesMapExternalLinearMemoryExp |-> urBindlessImagesMapExternalLinearMemoryExp,
    urBindlessImagesReleaseExternalMemoryExp |-> urBindlessImagesReleaseExternalMemoryExp,
    urBindlessImagesImportExternalSemaphoreExp |-> urBindlessImagesImportExternalSemaphoreExp,
    urBindlessImagesReleaseExternalSemaphoreExp |-> urBindlessImagesReleaseExternalSemaphoreExp,
    urBindlessImagesWaitExternalSemaphoreExp |-> urBindlessImagesWaitExternalSemaphoreExp,
    urBindlessImagesSignalExternalSemaphoreExp |-> urBindlessImagesSignalExternalSemaphoreExp,
    urCommandBufferCreateExp |-> urCommandBufferCreateExp,
    urCommandBufferRetainExp |-> urCommandBufferRetainExp,
    urCommandBufferReleaseExp |-> urCommandBufferReleaseExp,
    urCommandBufferFinalizeExp |-> urCommandBufferFinalizeExp,
    urCommandBufferAppendKernelLaunchExp |-> urCommandBufferAppendKernelLaunchExp,
    urCommandBufferAppendUSMMemcpyExp |-> urCommandBufferAppendUSMMemcpyExp,
    urCommandBufferAppendUSMFillExp |-> urCommandBufferAppendUSMFillExp,
    urCommandBufferAppendMemBufferCopyExp |-> urCommandBufferAppendMemBufferCopyExp,
    urCommandBufferAppendMemBufferWriteExp |-> urCommandBufferAppendMemBufferWriteExp,
    urCommandBufferAppendMemBufferReadExp |-> urCommandBufferAppendMemBufferReadExp,
    urCommandBufferAppendMemBufferCopyRectExp |-> urCommandBufferAppendMemBufferCopyRectExp,
    urCommandBufferAppendMemBufferWriteRectExp |-> urCommandBufferAppendMemBufferWriteRectExp,
    urCommandBufferAppendMemBufferReadRectExp |-> urCommandBufferAppendMemBufferReadRectExp,
    urCommandBufferAppendMemBufferFillExp |-> urCommandBufferAppendMemBufferFillExp,
    urCommandBufferAppendUSMPrefetchExp |-> urCommandBufferAppendUSMPrefetchExp,
    urCommandBufferAppendUSMAdviseExp |-> urCommandBufferAppendUSMAdviseExp,
    urCommandBufferEnqueueExp |-> urCommandBufferEnqueueExp,
    urCommandBufferUpdateKernelLaunchExp |-> urCommandBufferUpdateKernelLaunchExp,
    urCommandBufferUpdateSignalEventExp |-> urCommandBufferUpdateSignalEventExp,
    urCommandBufferUpdateWaitEventsExp |-> urCommandBufferUpdateWaitEventsExp,
    urCommandBufferGetInfoExp |-> urCommandBufferGetInfoExp,
    urEnqueueCooperativeKernelLaunchExp |-> urEnqueueCooperativeKernelLaunchExp,
    urKernelSuggestMaxCooperativeGroupCountExp |-> urKernelSuggestMaxCooperativeGroupCountExp,
    urEnqueueTimestampRecordingExp |-> urEnqueueTimestampRecordingExp,
    urEnqueueKernelLaunchCustomExp |-> urEnqueueKernelLaunchCustomExp,
    urProgramBuildExp |-> urProgramBuildExp,
    urProgramCompileExp |-> urProgramCompileExp, urProgramLinkExp |-> urProgramLinkExp,
    urUSMImportExp |-> urUSMImportExp, urUSMReleaseExp |-> urUSMReleaseExp,
    urUsmP2PEnablePeerAccessExp |-> urUsmP2PEnablePeerAccessExp,
    urUsmP2PDisablePeerAccessExp |-> urUsmP2PDisablePeerAccessExp,
    urUsmP2PPeerAccessGetInfoExp |-> urUsmP2PPeerAccessGetInfoExp,
    urEnqueueEventsWaitWithBarrierExt |-> urEnqueueEventsWaitWithBarrierExt,
    urEnqueueNativeCommandExp |-> urEnqueueNativeCommandExp]
==============================================================================

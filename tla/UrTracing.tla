----------------------------- MODULE UrTracing -----------------------------
(***************************************************************************)
(* The tracing layer (layers/tracing/ur_trcddi.cpp): one row per intercept *)
(* function.  Each one returns UNSUPPORTED_FEATURE when the slot it saved  *)
(* is empty, notifies begin, calls the slot, notifies end with the result  *)
(* and the instance begin returned.  A row gives the function identifier   *)
(* of the two notifications.                                               *)
(***************************************************************************)
EXTENDS UrTracingTables

urAdapterGet == Traced("UR_FUNCTION_ADAPTER_GET")
urAdapterRelease == Traced("UR_FUNCTION_ADAPTER_RELEASE")
urAdapterRetain == Traced("UR_FUNCTION_ADAPTER_RETAIN")
urAdapterGetLastError == Traced("UR_FUNCTION_ADAPTER_GET_LAST_ERROR")
urAdapterGetInfo == Traced("UR_FUNCTION_ADAPTER_GET_INFO")
urPlatformGet == Traced("UR_FUNCTION_PLATFORM_GET")
urPlatformGetInfo == Traced("UR_FUNCTION_PLATFORM_GET_INFO")
urPlatformGetApiVersion == Traced("UR_FUNCTION_PLATFORM_GET_API_VERSION")
urPlatformGetNativeHandle == Traced("UR_FUNCTION_PLATFORM_GET_NATIVE_HANDLE")
urPlatformCreateWithNativeHandle ==
  Traced("UR_FUNCTION_PLATFORM_CREATE_WITH_NATIVE_HANDLE")
urPlatformGetBackendOption == Traced("UR_FUNCTION_PLATFORM_GET_BACKEND_OPTION")
urDeviceGet == Traced("UR_FUNCTION_DEVICE_GET")
urDeviceGetInfo == Traced("UR_FUNCTION_DEVICE_GET_INFO")
urDeviceRetain == Traced("UR_FUNCTION_DEVICE_RETAIN")
urDeviceRelease == Traced("UR_FUNCTION_DEVICE_RELEASE")
urDevicePartition == Traced("UR_FUNCTION_DEVICE_PARTITION")
urDeviceSelectBinary == Traced("UR_FUNCTION_DEVICE_SELECT_BINARY")
urDeviceGetNativeHandle == Traced("UR_FUNCTION_DEVICE_GET_NATIVE_HANDLE")
urDeviceCreateWithNativeHandle == Traced("UR_FUNCTION_DEVICE_CREATE_WITH_NATIVE_HANDLE")
urDeviceGetGlobalTimestamps == Traced("UR_FUNCTION_DEVICE_GET_GLOBAL_TIMESTAMPS")
urContextCreate == Traced("UR_FUNCTION_CONTEXT_CREATE")
urContextRetain == Traced("UR_FUNCTION_CONTEXT_RETAIN")
urContextRelease == Traced("UR_FUNCTION_CONTEXT_RELEASE")
urContextGetInfo == Traced("UR_FUNCTION_CONTEXT_GET_INFO")
urContextGetNativeHandle == Traced("UR_FUNCTION_CONTEXT_GET_NATIVE_HANDLE")
urContextCreateWithNativeHandle ==
  Traced("UR_FUNCTION_CONTEXT_CREATE_WITH_NATIVE_HANDLE")
urContextSetExtendedDeleter == Traced("UR_FUNCTION_CONTEXT_SET_EXTENDED_DELETER")
urMemImageCreate == Traced("UR_FUNCTION_MEM_IMAGE_CREATE")
urMemBufferCreate == Traced("UR_FUNCTION_MEM_BUFFER_CREATE")
urMemRetain == Traced("UR_FUNCTION_MEM_RETAIN")
urMemRelease == Traced("UR_FUNCTION_MEM_RELEASE")
urMemBufferPartition == Traced("UR_FUNCTION_MEM_BUFFER_PARTITION")
urMemGetNativeHandle == Traced("UR_FUNCTION_MEM_GET_NATIVE_HANDLE")
urMemBufferCreateWithNativeHandle ==
  Traced("UR_FUNCTION_MEM_BUFFER_CREATE_WITH_NATIVE_HANDLE")
urMemImageCreateWithNativeHandle ==
  Traced("UR_FUNCTION_MEM_IMAGE_CREATE_WITH_NATIVE_HANDLE")
urMemGetInfo == Traced("UR_FUNCTION_MEM_GET_INFO")
urMemImageGetInfo == Traced("UR_FUNCTION_MEM_IMAGE_GET_INFO")
urSamplerCreate == Traced("UR_FUNCTION_SAMPLER_CREATE")
urSamplerRetain == Traced("UR_FUNCTION_SAMPLER_RETAIN")
urSamplerRelease == Traced("UR_FUNCTION_SAMPLER_RELEASE")
urSamplerGetInfo == Traced("UR_FUNCTION_SAMPLER_GET_INFO")
urSamplerGetNativeHandle == Traced("UR_FUNCTION_SAMPLER_GET_NATIVE_HANDLE")
urSamplerCreateWithNativeHandle ==
  Traced("UR_FUNCTION_SAMPLER_CREATE_WITH_NATIVE_HANDLE")
urUSMHostAlloc == Traced("UR_FUNCTION_USM_HOST_ALLOC")
urUSMDeviceAlloc == Traced("UR_FUNCTION_USM_DEVICE_ALLOC")
urUSMSharedAlloc == Traced("UR_FUNCTION_USM_SHARED_ALLOC")
urUSMFree == Traced("UR_FUNCTION_USM_FREE")
urUSMGetMemAllocInfo == Traced("UR_FUNCTION_USM_GET_MEM_ALLOC_INFO")
urUSMPoolCreate == Traced("UR_FUNCTION_USM_POOL_CREATE")
urUSMPoolRetain == Traced("UR_FUNCTION_USM_POOL_RETAIN")
urUSMPoolRelease == Traced("UR_FUNCTION_USM_POOL_RELEASE")
urUSMPoolGetInfo == Traced("UR_FUNCTION_USM_POOL_GET_INFO")
urVirtualMemGranularityGetInfo == Traced("UR_FUNCTION_VIRTUAL_MEM_GRANULARITY_GET_INFO")
urVirtualMemReserve == Traced("UR_FUNCTION_VIRTUAL_MEM_RESERVE")
urVirtualMemFree == Traced("UR_FUNCTION_VIRTUAL_MEM_FREE")
urVirtualMemMap == Traced("UR_FUNCTION_VIRTUAL_MEM_MAP")
urVirtualMemUnmap == Traced("UR_FUNCTION_VIRTUAL_MEM_UNMAP")
urVirtualMemSetAccess == Traced("UR_FUNCTION_VIRTUAL_MEM_SET_ACCESS")
urVirtualMemGetInfo == Traced("UR_FUNCTION_VIRTUAL_MEM_GET_INFO")
urPhysicalMemCreate == Traced("UR_FUNCTION_PHYSICAL_MEM_CREATE")
urPhysicalMemRetain == Traced("UR_FUNCTION_PHYSICAL_MEM_RETAIN")
urPhysicalMemRelease == Traced("UR_FUNCTION_PHYSICAL_MEM_RELEASE")
urPhysicalMemGetInfo == Traced("UR_FUNCTION_PHYSICAL_MEM_GET_INFO")
urProgramCreateWithIL == Traced("UR_FUNCTION_PROGRAM_CREATE_WITH_IL")
urProgramCreateWithBinary == Traced("UR_FUNCTION_PROGRAM_CREATE_WITH_BINARY")
urProgramBuild == Traced("UR_FUNCTION_PROGRAM_BUILD")
urProgramCompile == Traced("UR_FUNCTION_PROGRAM_COMPILE")
urProgramLink == Traced("UR_FUNCTION_PROGRAM_LINK")
urProgramRetain == Traced("UR_FUNCTION_PROGRAM_RETAIN")
urProgramRelease == Traced("UR_FUNCTION_PROGRAM_RELEASE")
urProgramGetFunctionPointer == Traced("UR_FUNCTION_PROGRAM_GET_FUNCTION_POINTER")
urProgramGetGlobalVariablePointer ==
  Traced("UR_FUNCTION_PROGRAM_GET_GLOBAL_VARIABLE_POINTER")
urProgramGetInfo == Traced("UR_FUNCTION_PROGRAM_GET_INFO")
urProgramGetBuildInfo == Traced("UR_FUNCTION_PROGRAM_GET_BUILD_INFO")
urProgramSetSpecializationConstants ==
  Traced("UR_FUNCTION_PROGRAM_SET_SPECIALIZATION_CONSTANTS")
urProgramGetNativeHandle == Traced("UR_FUNCTION_PROGRAM_GET_NATIVE_HANDLE")
urProgramCreateWithNativeHandle ==
  Traced("UR_FUNCTION_PROGRAM_CREATE_WITH_NATIVE_HANDLE")
urKernelCreate == Traced("UR_FUNCTION_KERNEL_CREATE")
urKernelSetArgValue == Traced("UR_FUNCTION_KERNEL_SET_ARG_VALUE")
urKernelSetArgLocal == Traced("UR_FUNCTION_KERNEL_SET_ARG_LOCAL")
urKernelGetInfo == Traced("UR_FUNCTION_KERNEL_GET_INFO")
urKernelGetGroupInfo == Traced("UR_FUNCTION_KERNEL_GET_GROUP_INFO")
urKernelGetSubGroupInfo == Traced("UR_FUNCTION_KERNEL_GET_SUB_GROUP_INFO")
urKernelRetain == Traced("UR_FUNCTION_KERNEL_RETAIN")
urKernelRelease == Traced("UR_FUNCTION_KERNEL_RELEASE")
urKernelSetArgPointer == Traced("UR_FUNCTION_KERNEL_SET_ARG_POINTER")
urKernelSetExecInfo == Traced("UR_FUNCTION_KERNEL_SET_EXEC_INFO")
urKernelSetArgSampler == Traced("UR_FUNCTION_KERNEL_SET_ARG_SAMPLER")
urKernelSetArgMemObj == Traced("UR_FUNCTION_KERNEL_SET_ARG_MEM_OBJ")
urKernelSetSpecializationConstants ==
  Traced("UR_FUNCTION_KERNEL_SET_SPECIALIZATION_CONSTANTS")
urKernelGetNativeHandle == Traced("UR_FUNCTION_KERNEL_GET_NATIVE_HANDLE")
urKernelCreateWithNativeHandle == Traced("UR_FUNCTION_KERNEL_CREATE_WITH_NATIVE_HANDLE")
urKernelGetSuggestedLocalWorkSize ==
  Traced("UR_FUNCTION_KERNEL_GET_SUGGESTED_LOCAL_WORK_SIZE")
urQueueGetInfo == Traced("UR_FUNCTION_QUEUE_GET_INFO")
urQueueCreate == Traced("UR_FUNCTION_QUEUE_CREATE")
urQueueRetain == Traced("UR_FUNCTION_QUEUE_RETAIN")
urQueueRelease == Traced("UR_FUNCTION_QUEUE_RELEASE")
urQueueGetNativeHandle == Traced("UR_FUNCTION_QUEUE_GET_NATIVE_HANDLE")
urQueueCreateWithNativeHandle == Traced("UR_FUNCTION_QUEUE_CREATE_WITH_NATIVE_HANDLE")
urQueueFinish == Traced("UR_FUNCTION_QUEUE_FINISH")
urQueueFlush == Traced("UR_FUNCTION_QUEUE_FLUSH")
urEventGetInfo == Traced("UR_FUNCTION_EVENT_GET_INFO")
urEventGetProfilingInfo == Traced("UR_FUNCTION_EVENT_GET_PROFILING_INFO")
urEventWait == Traced("UR_FUNCTION_EVENT_WAIT")
urEventRetain == Traced("UR_FUNCTION_EVENT_RETAIN")
urEventRelease == Traced("UR_FUNCTION_EVENT_RELEASE")
urEventGetNativeHandle == Traced("UR_FUNCTION_EVENT_GET_NATIVE_HANDLE")
urEventCreateWithNativeHandle == Traced("UR_FUNCTION_EVENT_CREATE_WITH_NATIVE_HANDLE")
urEventSetCallback == Traced("UR_FUNCTION_EVENT_SET_CALLBACK")
urEnqueueKernelLaunch == Traced("UR_FUNCTION_ENQUEUE_KERNEL_LAUNCH")
urEnqueueEventsWait == Traced("UR_FUNCTION_ENQUEUE_EVENTS_WAIT")
urEnqueueEventsWaitWithBarrier == Traced("UR_FUNCTION_ENQUEUE_EVENTS_WAIT_WITH_BARRIER")
urEnqueueMemBufferRead == Traced("UR_FUNCTION_ENQUEUE_MEM_BUFFER_READ")
urEnqueueMemBufferWrite == Traced("UR_FUNCTION_ENQUEUE_MEM_BUFFER_WRITE")
urEnqueueMemBufferReadRect == Traced("UR_FUNCTION_ENQUEUE_MEM_BUFFER_READ_RECT")
urEnqueueMemBufferWriteRect == Traced("UR_FUNCTION_ENQUEUE_MEM_BUFFER_WRITE_RECT")
urEnqueueMemBufferCopy == Traced("UR_FUNCTION_ENQUEUE_MEM_BUFFER_COPY")
urEnqueueMemBufferCopyRect == Traced("UR_FUNCTION_ENQUEUE_MEM_BUFFER_COPY_RECT")
urEnqueueMemBufferFill == Traced("UR_FUNCTION_ENQUEUE_MEM_BUFFER_FILL")
urEnqueueMemImageRead == Traced("UR_FUNCTION_ENQUEUE_MEM_IMAGE_READ")
urEnqueueMemImageWrite == Traced("UR_FUNCTION_ENQUEUE_MEM_IMAGE_WRITE")
urEnqueueMemImageCopy == Traced("UR_FUNCTION_ENQUEUE_MEM_IMAGE_COPY")
urEnqueueMemBufferMap == Traced("UR_FUNCTION_ENQUEUE_MEM_BUFFER_MAP")
urEnqueueMemUnmap == Traced("UR_FUNCTION_ENQUEUE_MEM_UNMAP")
urEnqueueUSMFill == Traced("UR_FUNCTION_ENQUEUE_USM_FILL")
urEnqueueUSMMemcpy == Traced("UR_FUNCTION_ENQUEUE_USM_MEMCPY")
urEnqueueUSMPrefetch == Traced("UR_FUNCTION_ENQUEUE_USM_PREFETCH")
urEnqueueUSMAdvise == Traced("UR_FUNCTION_ENQUEUE_USM_ADVISE")
urEnqueueUSMFill2D == Traced("UR_FUNCTION_ENQUEUE_USM_FILL_2D")
urEnqueueUSMMemcpy2D == Traced("UR_FUNCTION_ENQUEUE_USM_MEMCPY_2D")
urEnqueueDeviceGlobalVariableWrite ==
  Traced("UR_FUNCTION_ENQUEUE_DEVICE_GLOBAL_VARIABLE_WRITE")
urEnqueueDeviceGlobalVariableRead ==
  Traced("UR_FUNCTION_ENQUEUE_DEVICE_GLOBAL_VARIABLE_READ")
urEnqueueReadHostPipe == Traced("UR_FUNCTION_ENQUEUE_READ_HOST_PIPE")
urEnqueueWriteHostPipe == Traced("UR_FUNCTION_ENQUEUE_WRITE_HOST_PIPE")
urUSMPitchedAllocExp == Traced("UR_FUNCTION_USM_PITCHED_ALLOC_EXP")
urBindlessImagesUnsampledImageHandleDestroyExp ==
  Traced("UR_FUNCTION_BINDLESS_IMAGES_UNSAMPLED_IMAGE_HANDLE_DESTROY_EXP")
urBindlessImagesSampledImageHandleDestroyExp ==
  Traced("UR_FUNCTION_BINDLESS_IMAGES_SAMPLED_IMAGE_HANDLE_DESTROY_EXP")
urBindlessImagesImageAllocateExp ==
  Traced("UR_FUNCTION_BINDLESS_IMAGES_IMAGE_ALLOCATE_EXP")
urBindlessImagesImageFreeExp == Traced("UR_FUNCTION_BINDLESS_IMAGES_IMAGE_FREE_EXP")
urBindlessImagesUnsampledImageCreateExp ==
  Traced("UR_FUNCTION_BINDLESS_IMAGES_UNSAMPLED_IMAGE_CREATE_EXP")
urBindlessImagesSampledImageCreateExp ==
  Traced("UR_FUNCTION_BINDLESS_IMAGES_SAMPLED_IMAGE_CREATE_EXP")
urBindlessImagesImageCopyExp == Traced("UR_FUNCTION_BINDLESS_IMAGES_IMAGE_COPY_EXP")
urBindlessImagesImageGetInfoExp ==
  Traced("UR_FUNCTION_BINDLESS_IMAGES_IMAGE_GET_INFO_EXP")
urBindlessImagesMipmapGetLevelExp ==
  Traced("UR_FUNCTION_BINDLESS_IMAGES_MIPMAP_GET_LEVEL_EXP")
urBindlessImagesMipmapFreeExp == Traced("UR_FUNCTION_BINDLESS_IMAGES_MIPMAP_FREE_EXP")
urBindlessImagesImportExternalMemoryExp ==
  Traced("UR_FUNCTION_BINDLESS_IMAGES_IMPORT_EXTERNAL_MEMORY_EXP")
urBindlessImagesMapExternalArrayExp ==
  Traced("UR_FUNCTION_BINDLESS_IMAGES_MAP_EXTERNAL_ARRAY_EXP")
urBindlessImagesMapExternalLinearMemoryExp ==
  Traced("UR_FUNCTION_BINDLESS_IMAGES_MAP_EXTERNAL_LINEAR_MEMORY_EXP")
urBindlessImagesReleaseExternalMemoryExp ==
  Traced("UR_FUNCTION_BINDLESS_IMAGES_RELEASE_EXTERNAL_MEMORY_EXP")
urBindlessImagesImportExternalSemaphoreExp ==
  Traced("UR_FUNCTION_BINDLESS_IMAGES_IMPORT_EXTERNAL_SEMAPHORE_EXP")
urBindlessImagesReleaseExternalSemaphoreExp ==
  Traced("UR_FUNCTION_BINDLESS_IMAGES_RELEASE_EXTERNAL_SEMAPHORE_EXP")
urBindlessImagesWaitExternalSemaphoreExp ==
  Traced("UR_FUNCTION_BINDLESS_IMAGES_WAIT_EXTERNAL_SEMAPHORE_EXP")
urBindlessImagesSignalExternalSemaphoreExp ==
  Traced("UR_FUNCTION_BINDLESS_IMAGES_SIGNAL_EXTERNAL_SEMAPHORE_EXP")
urCommandBufferCreateExp == Traced("UR_FUNCTION_COMMAND_BUFFER_CREATE_EXP")
urCommandBufferRetainExp == Traced("UR_FUNCTION_COMMAND_BUFFER_RETAIN_EXP")
urCommandBufferReleaseExp == Traced("UR_FUNCTION_COMMAND_BUFFER_RELEASE_EXP")
urCommandBufferFinalizeExp == Traced("UR_FUNCTION_COMMAND_BUFFER_FINALIZE_EXP")
urCommandBufferAppendKernelLaunchExp ==
  Traced("UR_FUNCTION_COMMAND_BUFFER_APPEND_KERNEL_LAUNCH_EXP")
urCommandBufferAppendUSMMemcpyExp ==
  Traced("UR_FUNCTION_COMMAND_BUFFER_APPEND_USM_MEMCPY_EXP")
urCommandBufferAppendUSMFillExp ==
  Traced("UR_FUNCTION_COMMAND_BUFFER_APPEND_USM_FILL_EXP")
urCommandBufferAppendMemBufferCopyExp ==
  Traced("UR_FUNCTION_COMMAND_BUFFER_APPEND_MEM_BUFFER_COPY_EXP")
urCommandBufferAppendMemBufferWriteExp ==
  Traced("UR_FUNCTION_COMMAND_BUFFER_APPEND_MEM_BUFFER_WRITE_EXP")
urCommandBufferAppendMemBufferReadExp ==
  Traced("UR_FUNCTION_COMMAND_BUFFER_APPEND_MEM_BUFFER_READ_EXP")
urCommandBufferAppendMemBufferCopyRectExp ==
  Traced("UR_FUNCTION_COMMAND_BUFFER_APPEND_MEM_BUFFER_COPY_RECT_EXP")
urCommandBufferAppendMemBufferWriteRectExp ==
  Traced("UR_FUNCTION_COMMAND_BUFFER_APPEND_MEM_BUFFER_WRITE_RECT_EXP")
urCommandBufferAppendMemBufferReadRectExp ==
  Traced("UR_FUNCTION_COMMAND_BUFFER_APPEND_MEM_BUFFER_READ_RECT_EXP")
urCommandBufferAppendMemBufferFillExp ==
  Traced("UR_FUNCTION_COMMAND_BUFFER_APPEND_MEM_BUFFER_FILL_EXP")
urCommandBufferAppendUSMPrefetchExp ==
  Traced("UR_FUNCTION_COMMAND_BUFFER_APPEND_USM_PREFETCH_EXP")
urCommandBufferAppendUSMAdviseExp ==
  Traced("UR_FUNCTION_COMMAND_BUFFER_APPEND_USM_ADVISE_EXP")
urCommandBufferEnqueueExp == Traced("UR_FUNCTION_COMMAND_BUFFER_ENQUEUE_EXP")
urCommandBufferUpdateKernelLaunchExp ==
  Traced("UR_FUNCTION_COMMAND_BUFFER_UPDATE_KERNEL_LAUNCH_EXP")
urCommandBufferUpdateSignalEventExp ==
  Traced("UR_FUNCTION_COMMAND_BUFFER_UPDATE_SIGNAL_EVENT_EXP")
urCommandBufferUpdateWaitEventsExp ==
  Traced("UR_FUNCTION_COMMAND_BUFFER_UPDATE_WAIT_EVENTS_EXP")
urCommandBufferGetInfoExp == Traced("UR_FUNCTION_COMMAND_BUFFER_GET_INFO_EXP")
urEnqueueCooperativeKernelLaunchExp ==
  Traced("UR_FUNCTION_ENQUEUE_COOPERATIVE_KERNEL_LAUNCH_EXP")
urKernelSuggestMaxCooperativeGroupCountExp ==
  Traced("UR_FUNCTION_KERNEL_SUGGEST_MAX_COOPERATIVE_GROUP_COUNT_EXP")
urEnqueueTimestampRecordingExp == Traced("UR_FUNCTION_ENQUEUE_TIMESTAMP_RECORDING_EXP")
urEnqueueKernelLaunchCustomExp == Traced("UR_FUNCTION_ENQUEUE_KERNEL_LAUNCH_CUSTOM_EXP")
urProgramBuildExp == Traced("UR_FUNCTION_PROGRAM_BUILD_EXP")
urProgramCompileExp == Traced("UR_FUNCTION_PROGRAM_COMPILE_EXP")
urProgramLinkExp == Traced("UR_FUNCTION_PROGRAM_LINK_EXP")
urUSMImportExp == Traced("UR_FUNCTION_USM_IMPORT_EXP")
urUSMReleaseExp == Traced("UR_FUNCTION_USM_RELEASE_EXP")
urUsmP2PEnablePeerAccessExp == Traced("UR_FUNCTION_USM_P2P_ENABLE_PEER_ACCESS_EXP")
urUsmP2PDisablePeerAccessExp == Traced("UR_FUNCTION_USM_P2P_DISABLE_PEER_ACCESS_EXP")
urUsmP2PPeerAccessGetInfoExp == Traced("UR_FUNCTION_USM_P2P_PEER_ACCESS_GET_INFO_EXP")
urEnqueueEventsWaitWithBarrierExt ==
  Traced("UR_FUNCTION_ENQUEUE_EVENTS_WAIT_WITH_BARRIER_EXT")
urEnqueueNativeCommandExp == Traced("UR_FUNCTION_ENQUEUE_NATIVE_COMMAND_EXP")

\* The functions above by name.
Rows ==
  [urAdapterGet |-> urAdapterGet, urAdapterRelease |-> urAdapterRelease,
    urAdapterRetain |-> urAdapterRetain,
    urAdapterGetLastError |-> urAdapterGetLastError,
    urAdapterGetInfo |-> urAdapterGetInfo, urPlatformGet |-> urPlatformGet,
    urPlatformGetInfo |-> urPlatformGetInfo,
    urPlatformGetApiVersion |-> urPlatformGetApiVersion,
    urPlatformGetNativeHandle |-> urPlatformGetNativeHandle,
    urPlatformCreateWithNativeHandle |-> urPlatformCreateWithNativeHandle,
    urPlatformGetBackendOption |-> urPlatformGetBackendOption,
    urDeviceGet |-> urDeviceGet, urDeviceGetInfo |-> urDeviceGetInfo,
    urDeviceRetain |-> urDeviceRetain, urDeviceRelease |-> urDeviceRelease,
    urDevicePartition |-> urDevicePartition,
    urDeviceSelectBinary |-> urDeviceSelectBinary,
    urDeviceGetNativeHandle |-> urDeviceGetNativeHandle,
    urDeviceCreateWithNativeHandle |-> urDeviceCreateWithNativeHandle,
    urDeviceGetGlobalTimestamps |-> urDeviceGetGlobalTimestamps,
    urContextCreate |-> urContextCreate, urContextRetain |-> urContextRetain,
    urContextRelease |-> urContextRelease, urContextGetInfo |-> urContextGetInfo,
    urContextGetNativeHandle |-> urContextGetNativeHandle,
    urContextCreateWithNativeHandle |-> urContextCreateWithNativeHandle,
    urContextSetExtendedDeleter |-> urContextSetExtendedDeleter,
    urMemImageCreate |-> urMemImageCreate, urMemBufferCreate |-> urMemBufferCreate,
    urMemRetain |-> urMemRetain, urMemRelease |-> urMemRelease,
    urMemBufferPartition |-> urMemBufferPartition,
    urMemGetNativeHandle |-> urMemGetNativeHandle,
    urMemBufferCreateWithNativeHandle |-> urMemBufferCreateWithNativeHandle,
    urMemImageCreateWithNativeHandle |-> urMemImageCreateWithNativeHandle,
    urMemGetInfo |-> urMemGetInfo, urMemImageGetInfo |-> urMemImageGetInfo,
    urSamplerCreate |-> urSamplerCreate, urSamplerRetain |-> urSamplerRetain,
    urSamplerRelease |-> urSamplerRelease, urSamplerGetInfo |-> urSamplerGetInfo,
    urSamplerGetNativeHandle |-> urSamplerGetNativeHandle,
    urSamplerCreateWithNativeHandle |-> urSamplerCreateWithNativeHandle,
    urUSMHostAlloc |-> urUSMHostAlloc, urUSMDeviceAlloc |-> urUSMDeviceAlloc,
    urUSMSharedAlloc |-> urUSMSharedAlloc, urUSMFree |-> urUSMFree,
    urUSMGetMemAllocInfo |-> urUSMGetMemAllocInfo, urUSMPoolCreate |-> urUSMPoolCreate,
    urUSMPoolRetain |-> urUSMPoolRetain, urUSMPoolRelease |-> urUSMPoolRelease,
    urUSMPoolGetInfo |-> urUSMPoolGetInfo,
    urVirtualMemGranularityGetInfo |-> urVirtualMemGranularityGetInfo,
    urVirtualMemReserve |-> urVirtualMemReserve, urVirtualMemFree |-> urVirtualMemFree,
    urVirtualMemMap |-> urVirtualMemMap, urVirtualMemUnmap |-> urVirtualMemUnmap,
    urVirtualMemSetAccess |-> urVirtualMemSetAccess,
    urVirtualMemGetInfo |-> urVirtualMemGetInfo,
    urPhysicalMemCreate |-> urPhysicalMemCreate,
    urPhysicalMemRetain |-> urPhysicalMemRetain,
    urPhysicalMemRelease |-> urPhysicalMemRelease,
    urPhysicalMemGetInfo |-> urPhysicalMemGetInfo,
    urProgramCreateWithIL |-> urProgramCreateWithIL,
    urProgramCreateWithBinary |-> urProgramCreateWithBinary,
    urProgramBuild |-> urProgramBuild, urProgramCompile |-> urProgramCompile,
    urProgramLink |-> urProgramLink, urProgramRetain |-> urProgramRetain,
    urProgramRelease |-> urProgramRelease,
    urProgramGetFunctionPointer |-> urProgramGetFunctionPointer,
    urProgramGetGlobalVariablePointer |-> urProgramGetGlobalVariablePointer,
    urProgramGetInfo |-> urProgramGetInfo,
    urProgramGetBuildInfo |-> urProgramGetBuildInfo,
    urProgramSetSpecializationConstants |-> urProgramSetSpecializationConstants,
    urProgramGetNativeHandle |-> urProgramGetNativeHandle,
    urProgramCreateWithNativeHandle |-> urProgramCreateWithNativeHandle,
    urKernelCreate |-> urKernelCreate, urKernelSetArgValue |-> urKernelSetArgValue,
    urKernelSetArgLocal |-> urKernelSetArgLocal, urKernelGetInfo |-> urKernelGetInfo,
    urKernelGetGroupInfo |-> urKernelGetGroupInfo,
    urKernelGetSubGroupInfo |-> urKernelGetSubGroupInfo,
    urKernelRetain |-> urKernelRetain, urKernelRelease |-> urKernelRelease,
    urKernelSetArgPointer |-> urKernelSetArgPointer,
    urKernelSetExecInfo |-> urKernelSetExecInfo,
    urKernelSetArgSampler |-> urKernelSetArgSampler,
    urKernelSetArgMemObj |-> urKernelSetArgMemObj,
    urKernelSetSpecializationConstants |-> urKernelSetSpecializationConstants,
    urKernelGetNativeHandle |-> urKernelGetNativeHandle,
    urKernelCreateWithNativeHandle |-> urKernelCreateWithNativeHandle,
    urKernelGetSuggestedLocalWorkSize |-> urKernelGetSuggestedLocalWorkSize,
    urQueueGetInfo |-> urQueueGetInfo, urQueueCreate |-> urQueueCreate,
    urQueueRetain |-> urQueueRetain, urQueueRelease |-> urQueueRelease,
    urQueueGetNativeHandle |-> urQueueGetNativeHandle,
    urQueueCreateWithNativeHandle |-> urQueueCreateWithNativeHandle,
    urQueueFinish |-> urQueueFinish, urQueueFlush |-> urQueueFlush,
    urEventGetInfo |-> urEventGetInfo,
    urEventGetProfilingInfo |-> urEventGetProfilingInfo, urEventWait |-> urEventWait,
    urEventRetain |-> urEventRetain, urEventRelease |-> urEventRelease,
    urEventGetNativeHandle |-> urEventGetNativeHandle,
    urEventCreateWithNativeHandle |-> urEventCreateWithNativeHandle,
    urEventSetCallback |-> urEventSetCallback,
    urEnqueueKernelLaunch |-> urEnqueueKernelLaunch,
    urEnqueueEventsWait |-> urEnqueueEventsWait,
    urEnqueueEventsWaitWithBarrier |-> urEnqueueEventsWaitWithBarrier,
    urEnqueueMemBufferRead |-> urEnqueueMemBufferRead,
    urEnqueueMemBufferWrite |-> urEnqueueMemBufferWrite,
    urEnqueueMemBufferReadRect |-> urEnqueueMemBufferReadRect,
    urEnqueueMemBufferWriteRect |-> urEnqueueMemBufferWriteRect,
    urEnqueueMemBufferCopy |-> urEnqueueMemBufferCopy,
    urEnqueueMemBufferCopyRect |-> urEnqueueMemBufferCopyRect,
    urEnqueueMemBufferFill |-> urEnqueueMemBufferFill,
    urEnqueueMemImageRead |-> urEnqueueMemImageRead,
    urEnqueueMemImageWrite |-> urEnqueueMemImageWrite,
    urEnqueueMemImageCopy |-> urEnqueueMemImageCopy,
    urEnqueueMemBufferMap |-> urEnqueueMemBufferMap,
    urEnqueueMemUnmap |-> urEnqueueMemUnmap, urEnqueueUSMFill |-> urEnqueueUSMFill,
    urEnqueueUSMMemcpy |-> urEnqueueUSMMemcpy,
    urEnqueueUSMPrefetch |-> urEnqueueUSMPrefetch,
    urEnqueueUSMAdvise |-> urEnqueueUSMAdvise,
    urEnqueueUSMFill2D |-> urEnqueueUSMFill2D,
    urEnqueueUSMMemcpy2D |-> urEnqueueUSMMemcpy2D,
    urEnqueueDeviceGlobalVariableWrite |-> urEnqueueDeviceGlobalVariableWrite,
    urEnqueueDeviceGlobalVariableRead |-> urEnqueueDeviceGlobalVariableRead,
    urEnqueueReadHostPipe |-> urEnqueueReadHostPipe,
    urEnqueueWriteHostPipe |-> urEnqueueWriteHostPipe,
    urUSMPitchedAllocExp |-> urUSMPitchedAllocExp,
    urBindlessImagesUnsampledImageHandleDestroyExp |-> urBindlessImagesUnsampledImageHandleDestroyExp,
    urBindlessImagesSampledImageHandleDestroyExp |-> urBindlessImagesSampledImageHandleDestroyExp,
    urBindlessImagesImageAllocateExp |-> urBindlessImagesImageAllocateExp,
    urBindlessImagesImageFreeExp |-> urBindlessImagesImageFreeExp,
    urBindlessImagesUnsampledImageCreateExp |-> urBindlessImagesUnsampledImageCreateExp,
    urBindlessImagesSampledImageCreateExp |-> urBindlessImagesSampledImageCreateExp,
    urBindlessImagesImageCopyExp |-> urBindlessImagesImageCopyExp,
    urBindlessImagesImageGetInfoExp |-> urBindlessImagesImageGetInfoExp,
    urBindlessImagesMipmapGetLevelExp |-> urBindlessImagesMipmapGetLevelExp,
    urBindlessImagesMipmapFreeExp |-> urBindlessImagesMipmapFreeExp,
    urBindlessImagesImportExternalMemoryExp |-> urBindlessImagesImportExternalMemoryExp,
    urBindlessImagesMapExternalArrayExp |-> urBindlessImagesMapExternalArrayExp,
    urBindlessImagesMapExternalLinearMemoryExp |-> urBindlessImagesMapExternalLinearMemoryExp,
    urBindlessImagesReleaseExternalMemoryExp |-> urBindlessImagesReleaseExternalMemoryExp,
    urBindlessImagesImportExternalSemaphoreExp |-> urBindlessImagesImportExternalSemaphoreExp,
    urBindlessImagesReleaseExternalSemaphoreExp |-> urBindlessImagesReleaseExternalSemaphoreExp,
    urBindlessImagesWaitExternalSemaphoreExp |-> urBindlessImagesWaitExternalSemaphoreExp,
    urBindlessImagesSignalExternalSemaphoreExp |-> urBindlessImagesSignalExternalSemaphoreExp,
    urCommandBufferCreateExp |-> urCommandBufferCreateExp,
    urCommandBufferRetainExp |-> urCommandBufferRetainExp,
    urCommandBufferReleaseExp |-> urCommandBufferReleaseExp,
    urCommandBufferFinalizeExp |-> urCommandBufferFinalizeExp,
    urCommandBufferAppendKernelLaunchExp |-> urCommandBufferAppendKernelLaunchExp,
    urCommandBufferAppendUSMMemcpyExp |-> urCommandBufferAppendUSMMemcpyExp,
    urCommandBufferAppendUSMFillExp |-> urCommandBufferAppendUSMFillExp,
    urCommandBufferAppendMemBufferCopyExp |-> urCommandBufferAppendMemBufferCopyExp,
    urCommandBufferAppendMemBufferWriteExp |-> urCommandBufferAppendMemBufferWriteExp,
    urCommandBufferAppendMemBufferReadExp |-> urCommandBufferAppendMemBufferReadExp,
    urCommandBufferAppendMemBufferCopyRectExp |-> urCommandBufferAppendMemBufferCopyRectExp,
    urCommandBufferAppendMemBufferWriteRectExp |-> urCommandBufferAppendMemBufferWriteRectExp,
    urCommandBufferAppendMemBufferReadRectExp |-> urCommandBufferAppendMemBufferReadRectExp,
    urCommandBufferAppendMemBufferFillExp |-> urCommandBufferAppendMemBufferFillExp,
    urCommandBufferAppendUSMPrefetchExp |-> urCommandBufferAppendUSMPrefetchExp,
    urCommandBufferAppendUSMAdviseExp |-> urCommandBufferAppendUSMAdviseExp,
    urCommandBufferEnqueueExp |-> urCommandBufferEnqueueExp,
    urCommandBufferUpdateKernelLaunchExp |-> urCommandBufferUpdateKernelLaunchExp,
    urCommandBufferUpdateSignalEventExp |-> urCommandBufferUpdateSignalEventExp,
    urCommandBufferUpdateWaitEventsExp |-> urCommandBufferUpdateWaitEventsExp,
    urCommandBufferGetInfoExp |-> urCommandBufferGetInfoExp,
    urEnqueueCooperativeKernelLaunchExp |-> urEnqueueCooperativeKernelLaunchExp,
    urKernelSuggestMaxCooperativeGroupCountExp |-> urKernelSuggestMaxCooperativeGroupCountExp,
    urEnqueueTimestampRecordingExp |-> urEnqueueTimestampRecordingExp,
    urEnqueueKernelLaunchCustomExp |-> urEnqueueKernelLaunchCustomExp,
    urProgramBuildExp |-> urProgramBuildExp,
    urProgramCompileExp |-> urProgramCompileExp, urProgramLinkExp |-> urProgramLinkExp,
    urUSMImportExp |-> urUSMImportExp, urUSMReleaseExp |-> urUSMReleaseExp,
    urUsmP2PEnablePeerAccessExp |-> urUsmP2PEnablePeerAccessExp,
    urUsmP2PDisablePeerAccessExp |-> urUsmP2PDisablePeerAccessExp,
    urUsmP2PPeerAccessGetInfoExp |-> urUsmP2PPeerAccessGetInfoExp,
    urEnqueueEventsWaitWithBarrierExt |-> urEnqueueEventsWaitWithBarrierExt,
    urEnqueueNativeCommandExp |-> urEnqueueNativeCommandExp]
==============================================================================

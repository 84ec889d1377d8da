------------------------------- MODULE UrMock -------------------------------
(***************************************************************************)
(* The mock adapter (adapters/mock/ur_mockddi.cpp): one row per function.  *)
(* Every function runs the before callback, whose error it returns, then   *)
(* the replacement callback or else the default effect, then, if all is    *)
(* well, the after callback.  A row gives the default effect, in order.    *)
(***************************************************************************)
EXTENDS UrMockTables

urAdapterGet == Default(<<ConstantIfSet("phAdapters")>>)
urAdapterRelease == Default(<<>>)
urAdapterRetain == Default(<<>>)
urAdapterGetLastError == Default(<<>>)
urAdapterGetInfo == Default(<<>>)
urPlatformGet == Default(<<ConstantIfSet("phPlatforms")>>)
urPlatformGetInfo == Default(<<>>)
urPlatformGetApiVersion == Default(<<>>)
urPlatformGetNativeHandle == Default(<<Write("phNativePlatform")>>)
urPlatformCreateWithNativeHandle == Default(<<Adopt("phPlatform", "hNativePlatform")>>)
urPlatformGetBackendOption == Default(<<>>)
urDeviceGet == Default(<<ConstantIfSet("phDevices")>>)
urDeviceGetInfo == Default(<<>>)
urDeviceRetain == Default(<<>>)
urDeviceRelease == Default(<<>>)
urDevicePartition == Default(<<>>)
urDeviceSelectBinary == Default(<<>>)
urDeviceGetNativeHandle == Default(<<Write("phNativeDevice")>>)
urDeviceCreateWithNativeHandle == Default(<<Adopt("phDevice", "hNativeDevice")>>)
urDeviceGetGlobalTimestamps == Default(<<>>)
urContextCreate == Default(<<Make("phContext")>>)
urContextRetain == Default(<<Increase("hContext")>>)
urContextRelease == Default(<<Decrease("hContext")>>)
urContextGetInfo == Default(<<>>)
urContextGetNativeHandle == Default(<<Write("phNativeContext")>>)
urContextCreateWithNativeHandle == Default(<<Adopt("phContext", "hNativeContext")>>)
urContextSetExtendedDeleter == Default(<<>>)
urMemImageCreate == Default(<<Make("phMem")>>)
urMemBufferCreate == Default(<<Make("phBuffer")>>)
urMemRetain == Default(<<Increase("hMem")>>)
urMemRelease == Default(<<Decrease("hMem")>>)
urMemBufferPartition == Default(<<Make("phMem")>>)
urMemGetNativeHandle == Default(<<Write("phNativeMem")>>)
urMemBufferCreateWithNativeHandle == Default(<<Adopt("phMem", "hNativeMem")>>)
urMemImageCreateWithNativeHandle == Default(<<Adopt("phMem", "hNativeMem")>>)
urMemGetInfo == Default(<<>>)
urMemImageGetInfo == Default(<<>>)
urSamplerCreate == Default(<<Make("phSampler")>>)
urSamplerRetain == Default(<<Increase("hSampler")>>)
urSamplerRelease == Default(<<Decrease("hSampler")>>)
urSamplerGetInfo == Default(<<>>)
urSamplerGetNativeHandle == Default(<<Write("phNativeSampler")>>)
urSamplerCreateWithNativeHandle == Default(<<Adopt("phSampler", "hNativeSampler")>>)
urUSMHostAlloc == Default(<<Write("ppMem")>>)
urUSMDeviceAlloc == Default(<<Write("ppMem")>>)
urUSMSharedAlloc == Default(<<Write("ppMem")>>)
urUSMFree == Default(<<Free("pMem")>>)
urUSMGetMemAllocInfo == Default(<<>>)
urUSMPoolCreate == Default(<<Make("ppPool")>>)
urUSMPoolRetain == Default(<<Increase("pPool")>>)
urUSMPoolRelease == Default(<<Decrease("pPool")>>)
urUSMPoolGetInfo == Default(<<>>)
urVirtualMemGranularityGetInfo == Default(<<>>)
urVirtualMemReserve == Default(<<>>)
urVirtualMemFree == Default(<<>>)
urVirtualMemMap == Default(<<>>)
urVirtualMemUnmap == Default(<<>>)
urVirtualMemSetAccess == Default(<<>>)
urVirtualMemGetInfo == Default(<<>>)
urPhysicalMemCreate == Default(<<Make("phPhysicalMem")>>)
urPhysicalMemRetain == Default(<<Increase("hPhysicalMem")>>)
urPhysicalMemRelease == Default(<<Decrease("hPhysicalMem")>>)
urPhysicalMemGetInfo == Default(<<>>)
urProgramCreateWithIL == Default(<<Make("phProgram")>>)
urProgramCreateWithBinary == Default(<<Make("phProgram")>>)
urProgramBuild == Default(<<>>)
urProgramCompile == Default(<<>>)
urProgramLink == Default(<<Make("phProgram")>>)
urProgramRetain == Default(<<Increase("hProgram")>>)
urProgramRelease == Default(<<Decrease("hProgram")>>)
urProgramGetFunctionPointer == Default(<<>>)
urProgramGetGlobalVariablePointer == Default(<<>>)
urProgramGetInfo == Default(<<>>)
urProgramGetBuildInfo == Default(<<>>)
urProgramSetSpecializationConstants == Default(<<>>)
urProgramGetNativeHandle == Default(<<Write("phNativeProgram")>>)
urProgramCreateWithNativeHandle == Default(<<Adopt("phProgram", "hNativeProgram")>>)
urKernelCreate == Default(<<Make("phKernel")>>)
urKernelSetArgValue == Default(<<>>)
urKernelSetArgLocal == Default(<<>>)
urKernelGetInfo == Default(<<>>)
urKernelGetGroupInfo == Default(<<>>)
urKernelGetSubGroupInfo == Default(<<>>)
urKernelRetain == Default(<<Increase("hKernel")>>)
urKernelRelease == Default(<<Decrease("hKernel")>>)
urKernelSetArgPointer == Default(<<>>)
urKernelSetExecInfo == Default(<<>>)
urKernelSetArgSampler == Default(<<>>)
urKernelSetArgMemObj == Default(<<>>)
urKernelSetSpecializationConstants == Default(<<>>)
urKernelGetNativeHandle == Default(<<Write("phNativeKernel")>>)
urKernelCreateWithNativeHandle == Default(<<Adopt("phKernel", "hNativeKernel")>>)
urKernelGetSuggestedLocalWorkSize == Default(<<>>)
urQueueGetInfo == Default(<<>>)
urQueueCreate == Default(<<Make("phQueue")>>)
urQueueRetain == Default(<<Increase("hQueue")>>)
urQueueRelease == Default(<<Decrease("hQueue")>>)
urQueueGetNativeHandle == Default(<<Write("phNativeQueue")>>)
urQueueCreateWithNativeHandle == Default(<<Adopt("phQueue", "hNativeQueue")>>)
urQueueFinish == Default(<<>>)
urQueueFlush == Default(<<>>)
urEventGetInfo == Default(<<>>)
urEventGetProfilingInfo == Default(<<>>)
urEventWait == Default(<<>>)
urEventRetain == Default(<<Increase("hEvent")>>)
urEventRelease == Default(<<Decrease("hEvent")>>)
urEventGetNativeHandle == Default(<<Write("phNativeEvent")>>)
urEventCreateWithNativeHandle == Default(<<Adopt("phEvent", "hNativeEvent")>>)
urEventSetCallback == Default(<<>>)
urEnqueueKernelLaunch == Default(<<MakeIfSet("phEvent")>>)
urEnqueueEventsWait == Default(<<MakeIfSet("phEvent")>>)
urEnqueueEventsWaitWithBarrier == Default(<<MakeIfSet("phEvent")>>)
urEnqueueMemBufferRead == Default(<<MakeIfSet("phEvent")>>)
urEnqueueMemBufferWrite == Default(<<MakeIfSet("phEvent")>>)
urEnqueueMemBufferReadRect == Default(<<MakeIfSet("phEvent")>>)
urEnqueueMemBufferWriteRect == Default(<<MakeIfSet("phEvent")>>)
urEnqueueMemBufferCopy == Default(<<MakeIfSet("phEvent")>>)
urEnqueueMemBufferCopyRect == Default(<<MakeIfSet("phEvent")>>)
urEnqueueMemBufferFill == Default(<<MakeIfSet("phEvent")>>)
urEnqueueMemImageRead == Default(<<MakeIfSet("phEvent")>>)
urEnqueueMemImageWrite == Default(<<MakeIfSet("phEvent")>>)
urEnqueueMemImageCopy == Default(<<MakeIfSet("phEvent")>>)
urEnqueueMemBufferMap == Default(<<MakeIfSet("phEvent"), Write("ppRetMap")>>)
urEnqueueMemUnmap == Default(<<MakeIfSet("phEvent")>>)
urEnqueueUSMFill == Default(<<MakeIfSet("phEvent")>>)
urEnqueueUSMMemcpy == Default(<<MakeIfSet("phEvent")>>)
urEnqueueUSMPrefetch == Default(<<MakeIfSet("phEvent")>>)
urEnqueueUSMAdvise == Default(<<MakeIfSet("phEvent")>>)
urEnqueueUSMFill2D == Default(<<MakeIfSet("phEvent")>>)
urEnqueueUSMMemcpy2D == Default(<<MakeIfSet("phEvent")>>)
urEnqueueDeviceGlobalVariableWrite == Default(<<MakeIfSet("phEvent")>>)
urEnqueueDeviceGlobalVariableRead == Default(<<MakeIfSet("phEvent")>>)
urEnqueueReadHostPipe == Default(<<MakeIfSet("phEvent")>>)
urEnqueueWriteHostPipe == Default(<<MakeIfSet("phEvent")>>)
urUSMPitchedAllocExp == Default(<<Write("ppMem")>>)
urBindlessImagesUnsampledImageHandleDestroyExp == Default(<<Free("hImage")>>)
urBindlessImagesSampledImageHandleDestroyExp == Default(<<Free("hImage")>>)
urBindlessImagesImageAllocateExp == Default(<<Write("phImageMem")>>)
urBindlessImagesImageFreeExp == Default(<<Free("hImageMem")>>)
urBindlessImagesUnsampledImageCreateExp == Default(<<Write("phImage")>>)
urBindlessImagesSampledImageCreateExp == Default(<<Write("phImage")>>)
urBindlessImagesImageCopyExp == Default(<<MakeIfSet("phEvent")>>)
urBindlessImagesImageGetInfoExp == Default(<<>>)
urBindlessImagesMipmapGetLevelExp == Default(<<Write("phImageMem")>>)
urBindlessImagesMipmapFreeExp == Default(<<Free("hMem")>>)
urBindlessImagesImportExternalMemoryExp == Default(<<Make("phExternalMem")>>)
urBindlessImagesMapExternalArrayExp == Default(<<Write("phImageMem")>>)
urBindlessImagesMapExternalLinearMemoryExp == Default(<<>>)
urBindlessImagesReleaseExternalMemoryExp == Default(<<Decrease("hExternalMem")>>)
urBindlessImagesImportExternalSemaphoreExp == Default(<<Make("phExternalSemaphore")>>)
urBindlessImagesReleaseExternalSemaphoreExp ==
  Default(<<Decrease("hExternalSemaphore")>>)
urBindlessImagesWaitExternalSemaphoreExp == Default(<<MakeIfSet("phEvent")>>)
urBindlessImagesSignalExternalSemaphoreExp == Default(<<MakeIfSet("phEvent")>>)
urCommandBufferCreateExp == Default(<<Make("phCommandBuffer")>>)
urCommandBufferRetainExp == Default(<<Increase("hCommandBuffer")>>)
urCommandBufferReleaseExp == Default(<<Decrease("hCommandBuffer")>>)
urCommandBufferFinalizeExp == Default(<<>>)
urCommandBufferAppendKernelLaunchExp ==
  Default(<<MakeIfSet("phEvent"), MakeIfSet("phCommand")>>)
urCommandBufferAppendUSMMemcpyExp ==
  Default(<<MakeIfSet("phEvent"), MakeIfSet("phCommand")>>)
urCommandBufferAppendUSMFillExp ==
  Default(<<MakeIfSet("phEvent"), MakeIfSet("phCommand")>>)
urCommandBufferAppendMemBufferCopyExp ==
  Default(<<MakeIfSet("phEvent"), MakeIfSet("phCommand")>>)
urCommandBufferAppendMemBufferWriteExp ==
  Default(<<MakeIfSet("phEvent"), MakeIfSet("phCommand")>>)
urCommandBufferAppendMemBufferReadExp ==
  Default(<<MakeIfSet("phEvent"), MakeIfSet("phCommand")>>)
urCommandBufferAppendMemBufferCopyRectExp ==
  Default(<<MakeIfSet("phEvent"), MakeIfSet("phCommand")>>)
urCommandBufferAppendMemBufferWriteRectExp ==
  Default(<<MakeIfSet("phEvent"), MakeIfSet("phCommand")>>)
urCommandBufferAppendMemBufferReadRectExp ==
  Default(<<MakeIfSet("phEvent"), MakeIfSet("phCommand")>>)
urCommandBufferAppendMemBufferFillExp ==
  Default(<<MakeIfSet("phEvent"), MakeIfSet("phCommand")>>)
urCommandBufferAppendUSMPrefetchExp ==
  Default(<<MakeIfSet("phEvent"), MakeIfSet("phCommand")>>)
urCommandBufferAppendUSMAdviseExp ==
  Default(<<MakeIfSet("phEvent"), MakeIfSet("phCommand")>>)
urCommandBufferEnqueueExp == Default(<<MakeIfSet("phEvent")>>)
urCommandBufferUpdateKernelLaunchExp == Default(<<>>)
urCommandBufferUpdateSignalEventExp == Default(<<Make("phSignalEvent")>>)
urCommandBufferUpdateWaitEventsExp == Default(<<>>)
urCommandBufferGetInfoExp == Default(<<>>)
urEnqueueCooperativeKernelLaunchExp == Default(<<MakeIfSet("phEvent")>>)
urKernelSuggestMaxCooperativeGroupCountExp == Default(<<>>)
urEnqueueTimestampRecordingExp == Default(<<Make("phEvent")>>)
urEnqueueKernelLaunchCustomExp == Default(<<MakeIfSet("phEvent")>>)
urProgramBuildExp == Default(<<>>)
urProgramCompileExp == Default(<<>>)
urProgramLinkExp == Default(<<Make("phProgram")>>)
urUSMImportExp == Default(<<>>)
urUSMReleaseExp == Default(<<>>)
urUsmP2PEnablePeerAccessExp == Default(<<>>)
urUsmP2PDisablePeerAccessExp == Default(<<>>)
urUsmP2PPeerAccessGetInfoExp == Default(<<>>)
urEnqueueEventsWaitWithBarrierExt == Default(<<MakeIfSet("phEvent")>>)
urEnqueueNativeCommandExp == Default(<<MakeIfSet("phEvent")>>)

\* The functions above by name.
Rows ==
  [urAdapterGet |-> urAdapterGet, urAdapterRelease |-> urAdapterRelease,
    urAdapterRetain |-> urAdapterRetain,
    urAdapterGetLastError |-> urAdapterGetLastError,
    urAdapterGetInfo |-> urAdapterGetInfo, urPlatformGet |-> urPlatformGet,
    urPlatformGetInfo |-> urPlatformGetInfo,
    urPlatformGetApiVersion |-> urPlatformGetApiVersion,
    urPlatformGetNativeHandle |-> urPlatformGetNativeHandle,
    urPlatformCreateWithNativeHandle |-> urPlatformCreateWithNativeHandle,
    urPlatformGetBackendOption |-> urPlatformGetBackendOption,
    urDeviceGet |-> urDeviceGet, urDeviceGetInfo |-> urDeviceGetInfo,
    urDeviceRetain |-> urDeviceRetain, urDeviceRelease |-> urDeviceRelease,
    urDevicePartition |-> urDevicePartition,
    urDeviceSelectBinary |-> urDeviceSelectBinary,
    urDeviceGetNativeHandle |-> urDeviceGetNativeHandle,
    urDeviceCreateWithNativeHandle |-> urDeviceCreateWithNativeHandle,
    urDeviceGetGlobalTimestamps |-> urDeviceGetGlobalTimestamps,
    urContextCreate |-> urContextCreate, urContextRetain |-> urContextRetain,
    urContextRelease |-> urContextRelease, urContextGetInfo |-> urContextGetInfo,
    urContextGetNativeHandle |-> urContextGetNativeHandle,
    urContextCreateWithNativeHandle |-> urContextCreateWithNativeHandle,
    urContextSetExtendedDeleter |-> urContextSetExtendedDeleter,
    urMemImageCreate |-> urMemImageCreate, urMemBufferCreate |-> urMemBufferCreate,
    urMemRetain |-> urMemRetain, urMemRelease |-> urMemRelease,
    urMemBufferPartition |-> urMemBufferPartition,
    urMemGetNativeHandle |-> urMemGetNativeHandle,
    urMemBufferCreateWithNativeHandle |-> urMemBufferCreateWithNativeHandle,
    urMemImageCreateWithNativeHandle |-> urMemImageCreateWithNativeHandle,
    urMemGetInfo |-> urMemGetInfo, urMemImageGetInfo |-> urMemImageGetInfo,
    urSamplerCreate |-> urSamplerCreate, urSamplerRetain |-> urSamplerRetain,
    urSamplerRelease |-> urSamplerRelease, urSamplerGetInfo |-> urSamplerGetInfo,
    urSamplerGetNativeHandle |-> urSamplerGetNativeHandle,
    urSamplerCreateWithNativeHandle |-> urSamplerCreateWithNativeHandle,
    urUSMHostAlloc |-> urUSMHostAlloc, urUSMDeviceAlloc |-> urUSMDeviceAlloc,
    urUSMSharedAlloc |-> urUSMSharedAlloc, urUSMFree |-> urUSMFree,
    urUSMGetMemAllocInfo |-> urUSMGetMemAllocInfo, urUSMPoolCreate |-> urUSMPoolCreate,
    urUSMPoolRetain |-> urUSMPoolRetain, urUSMPoolRelease |-> urUSMPoolRelease,
    urUSMPoolGetInfo |-> urUSMPoolGetInfo,
    urVirtualMemGranularityGetInfo |-> urVirtualMemGranularityGetInfo,
    urVirtualMemReserve |-> urVirtualMemReserve, urVirtualMemFree |-> urVirtualMemFree,
    urVirtualMemMap |-> urVirtualMemMap, urVirtualMemUnmap |-> urVirtualMemUnmap,
    urVirtualMemSetAccess |-> urVirtualMemSetAccess,
    urVirtualMemGetInfo |-> urVirtualMemGetInfo,
    urPhysicalMemCreate |-> urPhysicalMemCreate,
    urPhysicalMemRetain |-> urPhysicalMemRetain,
    urPhysicalMemRelease |-> urPhysicalMemRelease,
    urPhysicalMemGetInfo |-> urPhysicalMemGetInfo,
    urProgramCreateWithIL |-> urProgramCreateWithIL,
    urProgramCreateWithBinary |-> urProgramCreateWithBinary,
    urProgramBuild |-> urProgramBuild, urProgramCompile |-> urProgramCompile,
    urProgramLink |-> urProgramLink, urProgramRetain |-> urProgramRetain,
    urProgramRelease |-> urProgramRelease,
    urProgramGetFunctionPointer |-> urProgramGetFunctionPointer,
    urProgramGetGlobalVariablePointer |-> urProgramGetGlobalVariablePointer,
    urProgramGetInfo |-> urProgramGetInfo,
    urProgramGetBuildInfo |-> urProgramGetBuildInfo,
    urProgramSetSpecializationConstants |-> urProgramSetSpecializationConstants,
    urProgramGetNativeHandle |-> urProgramGetNativeHandle,
    urProgramCreateWithNativeHandle |-> urProgramCreateWithNativeHandle,
    urKernelCreate |-> urKernelCreate, urKernelSetArgValue |-> urKernelSetArgValue,
    urKernelSetArgLocal |-> urKernelSetArgLocal, urKernelGetInfo |-> urKernelGetInfo,
    urKernelGetGroupInfo |-> urKernelGetGroupInfo,
    urKernelGetSubGroupInfo |-> urKernelGetSubGroupInfo,
    urKernelRetain |-> urKernelRetain, urKernelRelease |-> urKernelRelease,
    urKernelSetArgPointer |-> urKernelSetArgPointer,
    urKernelSetExecInfo |-> urKernelSetExecInfo,
    urKernelSetArgSampler |-> urKernelSetArgSampler,
    urKernelSetArgMemObj |-> urKernelSetArgMemObj,
    urKernelSetSpecializationConstants |-> urKernelSetSpecializationConstants,
    urKernelGetNativeHandle |-> urKernelGetNativeHandle,
    urKernelCreateWithNativeHandle |-> urKernelCreateWithNativeHandle,
    urKernelGetSuggestedLocalWorkSize |-> urKernelGetSuggestedLocalWorkSize,
    urQueueGetInfo |-> urQueueGetInfo, urQueueCreate |-> urQueueCreate,
    urQueueRetain |-> urQueueRetain, urQueueRelease |-> urQueueRelease,
    urQueueGetNativeHandle |-> urQueueGetNativeHandle,
    urQueueCreateWithNativeHandle |-> urQueueCreateWithNativeHandle,
    urQueueFinish |-> urQueueFinish, urQueueFlush |-> urQueueFlush,
    urEventGetInfo |-> urEventGetInfo,
    urEventGetProfilingInfo |-> urEventGetProfilingInfo, urEventWait |-> urEventWait,
    urEventRetain |-> urEventRetain, urEventRelease |-> urEventRelease,
    urEventGetNativeHandle |-> urEventGetNativeHandle,
    urEventCreateWithNativeHandle |-> urEventCreateWithNativeHandle,
    urEventSetCallback |-> urEventSetCallback,
    urEnqueueKernelLaunch |-> urEnqueueKernelLaunch,
    urEnqueueEventsWait |-> urEnqueueEventsWait,
    urEnqueueEventsWaitWithBarrier |-> urEnqueueEventsWaitWithBarrier,
    urEnqueueMemBufferRead |-> urEnqueueMemBufferRead,
    urEnqueueMemBufferWrite |-> urEnqueueMemBufferWrite,
    urEnqueueMemBufferReadRect |-> urEnqueueMemBufferReadRect,
    urEnqueueMemBufferWriteRect |-> urEnqueueMemBufferWriteRect,
    urEnqueueMemBufferCopy |-> urEnqueueMemBufferCopy,
    urEnqueueMemBufferCopyRect |-> urEnqueueMemBufferCopyRect,
    urEnqueueMemBufferFill |-> urEnqueueMemBufferFill,
    urEnqueueMemImageRead |-> urEnqueueMemImageRead,
    urEnqueueMemImageWrite |-> urEnqueueMemImageWrite,
    urEnqueueMemImageCopy |-> urEnqueueMemImageCopy,
    urEnqueueMemBufferMap |-> urEnqueueMemBufferMap,
    urEnqueueMemUnmap |-> urEnqueueMemUnmap, urEnqueueUSMFill |-> urEnqueueUSMFill,
    urEnqueueUSMMemcpy |-> urEnqueueUSMMemcpy,
    urEnqueueUSMPrefetch |-> urEnqueueUSMPrefetch,
    urEnqueueUSMAdvise |-> urEnqueueUSMAdvise,
    urEnqueueUSMFill2D |-> urEnqueueUSMFill2D,
    urEnqueueUSMMemcpy2D |-> urEnqueueUSMMemcpy2D,
    urEnqueueDeviceGlobalVariableWrite |-> urEnqueueDeviceGlobalVariableWrite,
    urEnqueueDeviceGlobalVariableRead |-> urEnqueueDeviceGlobalVariableRead,
    urEnqueueReadHostPipe |-> urEnqueueReadHostPipe,
    urEnqueueWriteHostPipe |-> urEnqueueWriteHostPipe,
    urUSMPitchedAllocExp |-> urUSMPitchedAllocExp,
    urBindlessImagesUnsampledImageHandleDestroyExp |-> urBindlessImagesUnsampledImageHandleDestroyExp,
    urBindlessImagesSampledImageHandleDestroyExp |-> urBindlessImagesSampledImageHandleDestroyExp,
    urBindlessImagesImageAllocateExp |-> urBindlessImagesImageAllocateExp,
    urBindlessImagesImageFreeExp |-> urBindlessImagesImageFreeExp,
    urBindlessImagesUnsampledImageCreateExp |-> urBindlessImagesUnsampledImageCreateExp,
    urBindlessImagesSampledImageCreateExp |-> urBindlessImagesSampledImageCreateExp,
    urBindlessImagesImageCopyExp |-> urBindlessImagesImageCopyExp,
    urBindlessImagesImageGetInfoExp |-> urBindlessImagesImageGetInfoExp,
    urBindlessImagesMipmapGetLevelExp |-> urBindlessImagesMipmapGetLevelExp,
    urBindlessImagesMipmapFreeExp |-> urBindlessImagesMipmapFreeExp,
    urBindlessImagesImportExternalMemoryExp |-> urBindlessImagesImportExternalMemoryExp,
    urBindlessImagesMapExternalArrayExp |-> urBindlessImagesMapExternalArrayExp,
    urBindlessImagesMapExternalLinearMemoryExp |-> urBindlessImagesMapExternalLinearMemoryExp,
    urBindlessImagesReleaseExternalMemoryExp |-> urBindlessImagesReleaseExternalMemoryExp,
    urBindlessImagesImportExternalSemaphoreExp |-> urBindlessImagesImportExternalSemaphoreExp,
    urBindlessImagesReleaseExternalSemaphoreExp |-> urBindlessImagesReleaseExternalSemaphoreExp,
    urBindlessImagesWaitExternalSemaphoreExp |-> urBindlessImagesWaitExternalSemaphoreExp,
    urBindlessImagesSignalExternalSemaphoreExp |-> urBindlessImagesSignalExternalSemaphoreExp,
    urCommandBufferCreateExp |-> urCommandBufferCreateExp,
    urCommandBufferRetainExp |-> urCommandBufferRetainExp,
    urCommandBufferReleaseExp |-> urCommandBufferReleaseExp,
    urCommandBufferFinalizeExp |-> urCommandBufferFinalizeExp,
    urCommandBufferAppendKernelLaunchExp |-> urCommandBufferAppendKernelLaunchExp,
    urCommandBufferAppendUSMMemcpyExp |-> urCommandBufferAppendUSMMemcpyExp,
    urCommandBufferAppendUSMFillExp |-> urCommandBufferAppendUSMFillExp,
    urCommandBufferAppendMemBufferCopyExp |-> urCommandBufferAppendMemBufferCopyExp,
    urCommandBufferAppendMemBufferWriteExp |-> urCommandBufferAppendMemBufferWriteExp,
    urCommandBufferAppendMemBufferReadExp |-> urCommandBufferAppendMemBufferReadExp,
    urCommandBufferAppendMemBufferCopyRectExp |-> urCommandBufferAppendMemBufferCopyRectExp,
    urCommandBufferAppendMemBufferWriteRectExp |-> urCommandBufferAppendMemBufferWriteRectExp,
    urCommandBufferAppendMemBufferReadRectExp |-> urCommandBufferAppendMemBufferReadRectExp,
    urCommandBufferAppendMemBufferFillExp |-> urCommandBufferAppendMemBufferFillExp,
    urCommandBufferAppendUSMPrefetchExp |-> urCommandBufferAppendUSMPrefetchExp,
    urCommandBufferAppendUSMAdviseExp |-> urCommandBufferAppendUSMAdviseExp,
    urCommandBufferEnqueueExp |-> urCommandBufferEnqueueExp,
    urCommandBufferUpdateKernelLaunchExp |-> urCommandBufferUpdateKernelLaunchExp,
    urCommandBufferUpdateSignalEventExp |-> urCommandBufferUpdateSignalEventExp,
    urCommandBufferUpdateWaitEventsExp |-> urCommandBufferUpdateWaitEventsExp,
    urCommandBufferGetInfoExp |-> urCommandBufferGetInfoExp,
    urEnqueueCooperativeKernelLaunchExp |-> urEnqueueCooperativeKernelLaunchExp,
    urKernelSuggestMaxCooperativeGroupCountExp |-> urKernelSuggestMaxCooperativeGroupCountExp,
    urEnqueueTimestampRecordingExp |-> urEnqueueTimestampRecordingExp,
    urEnqueueKernelLaunchCustomExp |-> urEnqueueKernelLaunchCustomExp,
    urProgramBuildExp |-> urProgramBuildExp,
    urProgramCompileExp |-> urProgramCompileExp, urProgramLinkExp |-> urProgramLinkExp,
    urUSMImportExp |-> urUSMImportExp, urUSMReleaseExp |-> urUSMReleaseExp,
    urUsmP2PEnablePeerAccessExp |-> urUsmP2PEnablePeerAccessExp,
    urUsmP2PDisablePeerAccessExp |-> urUsmP2PDisablePeerAccessExp,
    urUsmP2PPeerAccessGetInfoExp |-> urUsmP2PPeerAccessGetInfoExp,
    urEnqueueEventsWaitWithBarrierExt |-> urEnqueueEventsWaitWithBarrierExt,
    urEnqueueNativeCommandExp |-> urEnqueueNativeCommandExp]
==============================================================================

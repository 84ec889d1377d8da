---------------------------- MODULE UrValidation ----------------------------
(***************************************************************************)
(* The validation layer (layers/validation/ur_valddi.cpp): one row per     *)
(* intercept function.  A row lists, in the order of the code, the tests   *)
(* made under enableParameterValidation, each of which returns its error;  *)
(* the parameters whose handles enableLifetimeValidation looks up; and the *)
(* change made to the reference counts under enableLeakChecking.           *)
(***************************************************************************)
EXTENDS UrValidationTables

urAdapterGet == Checked(<<Value("INVALID_SIZE")>>, {}, CreateOrIncrease("phAdapters"))
urAdapterRelease == Checked(<<Handle("hAdapter")>>, {}, Decrease("hAdapter"))
urAdapterRetain == Checked(<<Handle("hAdapter")>>, {}, Increase("hAdapter"))
urAdapterGetLastError ==
  Checked(<<Handle("hAdapter"), Pointer("ppMessage"), Pointer("pError")>>, {"hAdapter"},
    NoCount)
urAdapterGetInfo ==
  Checked(<<Handle("hAdapter"), Value("INVALID_NULL_POINTER"),
    Value("INVALID_NULL_POINTER"), Value("INVALID_ENUMERATION"),
    Value("INVALID_SIZE")>>, {"hAdapter"}, NoCount)
urPlatformGet ==
  Checked(<<Pointer("phAdapters"), Value("INVALID_SIZE"), Value("INVALID_VALUE")>>, {},
    NoCount)
urPlatformGetInfo ==
  Checked(<<Handle("hPlatform"), Value("INVALID_NULL_POINTER"),
    Value("INVALID_NULL_POINTER"), Value("INVALID_ENUMERATION"),
    Value("INVALID_SIZE")>>, {}, NoCount)
urPlatformGetApiVersion ==
  Checked(<<Handle("hPlatform"), Pointer("pVersion")>>, {}, NoCount)
urPlatformGetNativeHandle ==
  Checked(<<Handle("hPlatform"), Pointer("phNativePlatform")>>, {}, NoCount)
urPlatformCreateWithNativeHandle ==
  Checked(<<Handle("hAdapter"), Pointer("phPlatform")>>, {"hAdapter"}, NoCount)
urPlatformGetBackendOption ==
  Checked(<<Handle("hPlatform"), Pointer("pFrontendOption"),
    Pointer("ppPlatformOption")>>, {}, NoCount)
urDeviceGet ==
  Checked(<<Handle("hPlatform"), Listed("phDevices", "INVALID_NULL_POINTER"),
    Value("INVALID_ENUMERATION"), Value("INVALID_SIZE")>>, {},
    CreateOrIncrease("phDevices"))
urDeviceGetInfo ==
  Checked(<<Handle("hDevice"), Value("INVALID_NULL_POINTER"),
    Value("INVALID_NULL_POINTER"), Value("INVALID_ENUMERATION"),
    Value("INVALID_SIZE")>>, {"hDevice"}, NoCount)
urDeviceRetain == Checked(<<Handle("hDevice")>>, {}, Increase("hDevice"))
urDeviceRelease == Checked(<<Handle("hDevice")>>, {}, Decrease("hDevice"))
urDevicePartition ==
  Checked(<<Handle("hDevice"), Pointer("pProperties"), Value("INVALID_NULL_POINTER")>>,
    {"hDevice"}, NoCount)
urDeviceSelectBinary ==
  Checked(<<Handle("hDevice"), Pointer("pBinaries"), Pointer("pSelectedBinary"),
    Value("INVALID_SIZE")>>, {"hDevice"}, NoCount)
urDeviceGetNativeHandle ==
  Checked(<<Handle("hDevice"), Pointer("phNativeDevice")>>, {"hDevice"}, NoCount)
urDeviceCreateWithNativeHandle ==
  Checked(<<Handle("hAdapter"), Pointer("phDevice")>>, {"hAdapter"}, Create("phDevice"))
urDeviceGetGlobalTimestamps == Checked(<<Handle("hDevice")>>, {"hDevice"}, NoCount)
urContextCreate ==
  Checked(<<Pointer("phDevices"), Pointer("phContext"), Value("INVALID_ENUMERATION")>>,
    {}, Create("phContext"))
\* Mutants: the handle is not checked; its error is that of a pointer.
urContextRetainUnchecked == Checked(<<>>, {}, Increase("hContext"))
urContextRetainPointer == Checked(<<Pointer("hContext")>>, {}, Increase("hContext"))
urContextRetain == Checked(<<Handle("hContext")>>, {}, Increase("hContext"))
urContextRelease == Checked(<<Handle("hContext")>>, {}, Decrease("hContext"))
urContextGetInfo ==
  Checked(<<Handle("hContext"), Value("INVALID_NULL_POINTER"),
    Value("INVALID_NULL_POINTER"), Value("INVALID_ENUMERATION"),
    Value("INVALID_SIZE")>>, {"hContext"}, NoCount)
urContextGetNativeHandle ==
  Checked(<<Handle("hContext"), Pointer("phNativeContext")>>, {"hContext"}, NoCount)
urContextCreateWithNativeHandle ==
  Checked(<<Handle("hAdapter"), Pointer("phContext")>>, {"hAdapter"},
    Create("phContext"))
urContextSetExtendedDeleter ==
  Checked(<<Handle("hContext"), Pointer("pfnDeleter")>>, {"hContext"}, NoCount)
urMemImageCreate ==
  Checked(<<Handle("hContext"), Pointer("pImageFormat"), Pointer("pImageDesc"),
    Pointer("phMem"), Value("INVALID_ENUMERATION"),
    Value("INVALID_IMAGE_FORMAT_DESCRIPTOR"), Value("INVALID_IMAGE_FORMAT_DESCRIPTOR"),
    Value("INVALID_IMAGE_FORMAT_DESCRIPTOR"), Value("INVALID_IMAGE_FORMAT_DESCRIPTOR"),
    Value("INVALID_IMAGE_FORMAT_DESCRIPTOR"), Value("INVALID_IMAGE_FORMAT_DESCRIPTOR"),
    Value("INVALID_HOST_PTR"), Value("INVALID_HOST_PTR")>>, {"hContext"},
    Create("phMem"))
urMemBufferCreate ==
  Checked(<<Handle("hContext"), Pointer("phBuffer"), Value("INVALID_ENUMERATION"),
    Value("INVALID_BUFFER_SIZE"), Value("INVALID_HOST_PTR"), Value("INVALID_HOST_PTR"),
    Value("INVALID_HOST_PTR")>>, {"hContext"}, Create("phBuffer"))
urMemRetain == Checked(<<Handle("hMem")>>, {}, Increase("hMem"))
urMemRelease == Checked(<<Handle("hMem")>>, {}, Decrease("hMem"))
urMemBufferPartition ==
  Checked(<<Handle("hBuffer"), Pointer("pRegion"), Pointer("phMem"),
    Value("INVALID_ENUMERATION"), Value("INVALID_ENUMERATION"),
    Value("INVALID_BUFFER_SIZE")>>, {"hBuffer"}, NoCount)
urMemGetNativeHandle ==
  Checked(<<Handle("hMem"), Pointer("phNativeMem")>>, {"hMem", "hDevice"}, NoCount)
urMemBufferCreateWithNativeHandle ==
  Checked(<<Handle("hContext"), Pointer("phMem")>>, {"hContext"}, Create("phMem"))
urMemImageCreateWithNativeHandle ==
  Checked(<<Handle("hContext"), Pointer("pImageFormat"), Pointer("pImageDesc"),
    Pointer("phMem")>>, {"hContext"}, Create("phMem"))
urMemGetInfo ==
  Checked(<<Handle("hMemory"), Value("INVALID_NULL_POINTER"),
    Value("INVALID_NULL_POINTER"), Value("INVALID_ENUMERATION"),
    Value("INVALID_SIZE")>>, {"hMemory"}, NoCount)
urMemImageGetInfo ==
  Checked(<<Handle("hMemory"), Value("INVALID_NULL_POINTER"),
    Value("INVALID_NULL_POINTER"), Value("INVALID_ENUMERATION"),
    Value("INVALID_SIZE")>>, {"hMemory"}, NoCount)
urSamplerCreate ==
  Checked(<<Handle("hContext"), Pointer("pDesc"), Pointer("phSampler"),
    Value("INVALID_ENUMERATION"), Value("INVALID_ENUMERATION")>>, {"hContext"},
    Create("phSampler"))
urSamplerRetain == Checked(<<Handle("hSampler")>>, {}, Increase("hSampler"))
urSamplerRelease == Checked(<<Handle("hSampler")>>, {}, Decrease("hSampler"))
urSamplerGetInfo ==
  Checked(<<Handle("hSampler"), Value("INVALID_NULL_POINTER"),
    Value("INVALID_NULL_POINTER"), Value("INVALID_ENUMERATION"),
    Value("INVALID_SIZE")>>, {"hSampler"}, NoCount)
urSamplerGetNativeHandle ==
  Checked(<<Handle("hSampler"), Pointer("phNativeSampler")>>, {"hSampler"}, NoCount)
urSamplerCreateWithNativeHandle ==
  Checked(<<Handle("hContext"), Pointer("phSampler")>>, {"hContext"},
    Create("phSampler"))
urUSMHostAlloc ==
  Checked(<<Handle("hContext"), Pointer("ppMem"), Value("INVALID_ENUMERATION"),
    Value("INVALID_VALUE"), Value("INVALID_USM_SIZE")>>, {"hContext", "pool"}, NoCount)
urUSMDeviceAlloc ==
  Checked(<<Handle("hContext"), Handle("hDevice"), Pointer("ppMem"),
    Value("INVALID_ENUMERATION"), Value("INVALID_VALUE"), Value("INVALID_USM_SIZE")>>,
    {"hContext", "hDevice", "pool"}, NoCount)
urUSMSharedAlloc ==
  Checked(<<Handle("hContext"), Handle("hDevice"), Pointer("ppMem"),
    Value("INVALID_ENUMERATION"), Value("INVALID_VALUE"), Value("INVALID_USM_SIZE")>>,
    {"hContext", "hDevice", "pool"}, NoCount)
urUSMFree == Checked(<<Handle("hContext"), Pointer("pMem")>>, {"hContext"}, NoCount)
urUSMGetMemAllocInfo ==
  Checked(<<Handle("hContext"), Pointer("pMem"), Value("INVALID_ENUMERATION")>>,
    {"hContext"}, NoCount)
urUSMPoolCreate ==
  Checked(<<Handle("hContext"), Pointer("pPoolDesc"), Pointer("ppPool"),
    Value("INVALID_ENUMERATION")>>, {"hContext"}, Create("ppPool"))
urUSMPoolRetain == Checked(<<Handle("pPool")>>, {}, Increase("pPool"))
urUSMPoolRelease == Checked(<<Handle("pPool")>>, {}, Decrease("pPool"))
urUSMPoolGetInfo ==
  Checked(<<Handle("hPool"), Value("INVALID_NULL_POINTER"),
    Value("INVALID_NULL_POINTER"), Value("INVALID_ENUMERATION"),
    Value("INVALID_SIZE")>>, {"hPool"}, NoCount)
urVirtualMemGranularityGetInfo ==
  Checked(<<Handle("hContext"), Value("INVALID_NULL_POINTER"),
    Value("INVALID_NULL_POINTER"), Value("INVALID_ENUMERATION"),
    Value("INVALID_SIZE")>>, {"hContext", "hDevice"}, NoCount)
urVirtualMemReserve ==
  Checked(<<Handle("hContext"), Pointer("ppStart")>>, {"hContext"}, NoCount)
urVirtualMemFree ==
  Checked(<<Handle("hContext"), Pointer("pStart")>>, {"hContext"}, NoCount)
urVirtualMemMap ==
  Checked(<<Handle("hContext"), Handle("hPhysicalMem"), Pointer("pStart"),
    Value("INVALID_ENUMERATION")>>, {"hContext", "hPhysicalMem"}, NoCount)
urVirtualMemUnmap ==
  Checked(<<Handle("hContext"), Pointer("pStart")>>, {"hContext"}, NoCount)
urVirtualMemSetAccess ==
  Checked(<<Handle("hContext"), Pointer("pStart"), Value("INVALID_ENUMERATION")>>,
    {"hContext"}, NoCount)
urVirtualMemGetInfo ==
  Checked(<<Handle("hContext"), Pointer("pStart"), Value("INVALID_ENUMERATION")>>,
    {"hContext"}, NoCount)
urPhysicalMemCreate ==
  Checked(<<Handle("hContext"), Handle("hDevice"), Pointer("phPhysicalMem"),
    Value("INVALID_ENUMERATION")>>, {"hContext", "hDevice"}, Create("phPhysicalMem"))
urPhysicalMemRetain == Checked(<<Handle("hPhysicalMem")>>, {}, Increase("hPhysicalMem"))
urPhysicalMemRelease ==
  Checked(<<Handle("hPhysicalMem")>>, {}, Decrease("hPhysicalMem"))
urPhysicalMemGetInfo ==
  Checked(<<Handle("hPhysicalMem"), Value("INVALID_ENUMERATION")>>, {"hPhysicalMem"},
    NoCount)
urProgramCreateWithIL ==
  Checked(<<Handle("hContext"), Pointer("pIL"), Pointer("phProgram"),
    Value("INVALID_NULL_POINTER"), Value("INVALID_SIZE"), Value("INVALID_SIZE")>>,
    {"hContext"}, Create("phProgram"))
urProgramCreateWithBinary ==
  Checked(<<Handle("hContext"), Pointer("phDevices"), Pointer("pLengths"),
    Pointer("ppBinaries"), Pointer("phProgram"), Value("INVALID_NULL_POINTER"),
    Value("INVALID_SIZE"), Value("INVALID_SIZE")>>, {"hContext"}, Create("phProgram"))
urProgramBuild ==
  Checked(<<Handle("hContext"), Handle("hProgram")>>, {"hContext", "hProgram"}, NoCount)
urProgramCompile ==
  Checked(<<Handle("hContext"), Handle("hProgram")>>, {"hContext", "hProgram"}, NoCount)
urProgramLink ==
  Checked(<<Handle("hContext"), Pointer("phPrograms"), Pointer("phProgram"),
    Value("INVALID_SIZE")>>, {"hContext"}, NoCount)
urProgramRetain == Checked(<<Handle("hProgram")>>, {}, Increase("hProgram"))
urProgramRelease == Checked(<<Handle("hProgram")>>, {}, Decrease("hProgram"))
urProgramGetFunctionPointer ==
  Checked(<<Handle("hDevice"), Handle("hProgram"), Pointer("pFunctionName"),
    Pointer("ppFunctionPointer")>>, {"hDevice", "hProgram"}, NoCount)
urProgramGetGlobalVariablePointer ==
  Checked(<<Handle("hDevice"), Handle("hProgram"), Pointer("pGlobalVariableName"),
    Pointer("ppGlobalVariablePointerRet")>>, {"hDevice", "hProgram"}, NoCount)
urProgramGetInfo ==
  Checked(<<Handle("hProgram"), Value("INVALID_NULL_POINTER"),
    Value("INVALID_NULL_POINTER"), Value("INVALID_ENUMERATION"),
    Value("INVALID_SIZE")>>, {"hProgram"}, NoCount)
urProgramGetBuildInfo ==
  Checked(<<Handle("hProgram"), Handle("hDevice"), Value("INVALID_ENUMERATION")>>,
    {"hProgram", "hDevice"}, NoCount)
urProgramSetSpecializationConstants ==
  Checked(<<Handle("hProgram"), Pointer("pSpecConstants"), Value("INVALID_SIZE")>>,
    {"hProgram"}, NoCount)
urProgramGetNativeHandle ==
  Checked(<<Handle("hProgram"), Pointer("phNativeProgram")>>, {"hProgram"}, NoCount)
urProgramCreateWithNativeHandle ==
  Checked(<<Handle("hContext"), Pointer("phProgram")>>, {"hContext"},
    Create("phProgram"))
urKernelCreate ==
  Checked(<<Handle("hProgram"), Pointer("pKernelName"), Pointer("phKernel")>>,
    {"hProgram"}, Create("phKernel"))
urKernelSetArgValue ==
  Checked(<<Handle("hKernel"), Pointer("pArgValue")>>, {"hKernel"}, NoCount)
urKernelSetArgLocal == Checked(<<Handle("hKernel")>>, {"hKernel"}, NoCount)
urKernelGetInfo ==
  Checked(<<Handle("hKernel"), Value("INVALID_NULL_POINTER"),
    Value("INVALID_NULL_POINTER"), Value("INVALID_ENUMERATION"),
    Value("INVALID_SIZE")>>, {"hKernel"}, NoCount)
urKernelGetGroupInfo ==
  Checked(<<Handle("hKernel"), Handle("hDevice"), Value("INVALID_ENUMERATION")>>,
    {"hKernel", "hDevice"}, NoCount)
urKernelGetSubGroupInfo ==
  Checked(<<Handle("hKernel"), Handle("hDevice"), Value("INVALID_ENUMERATION")>>,
    {"hKernel", "hDevice"}, NoCount)
urKernelRetain == Checked(<<Handle("hKernel")>>, {}, Increase("hKernel"))
urKernelRelease == Checked(<<Handle("hKernel")>>, {}, Decrease("hKernel"))
urKernelSetArgPointer == Checked(<<Handle("hKernel")>>, {"hKernel"}, NoCount)
urKernelSetExecInfo ==
  Checked(<<Handle("hKernel"), Pointer("pPropValue"), Value("INVALID_ENUMERATION")>>,
    {"hKernel"}, NoCount)
urKernelSetArgSampler ==
  Checked(<<Handle("hKernel"), Handle("hArgValue")>>, {"hKernel", "hArgValue"}, NoCount)
urKernelSetArgMemObj ==
  Checked(<<Handle("hKernel"), Value("INVALID_ENUMERATION")>>, {"hKernel", "hArgValue"},
    NoCount)
urKernelSetSpecializationConstants ==
  Checked(<<Handle("hKernel"), Pointer("pSpecConstants"), Value("INVALID_SIZE")>>,
    {"hKernel"}, NoCount)
urKernelGetNativeHandle ==
  Checked(<<Handle("hKernel"), Pointer("phNativeKernel")>>, {"hKernel"}, NoCount)
urKernelCreateWithNativeHandle ==
  Checked(<<Handle("hContext"), Pointer("phKernel")>>, {"hContext", "hProgram"},
    Create("phKernel"))
urKernelGetSuggestedLocalWorkSize ==
  Checked(<<Handle("hKernel"), Handle("hQueue"), Pointer("pGlobalWorkOffset"),
    Pointer("pGlobalWorkSize"), Pointer("pSuggestedLocalWorkSize")>>, {"hKernel",
    "hQueue"}, NoCount)
urQueueGetInfo ==
  Checked(<<Handle("hQueue"), Value("INVALID_NULL_POINTER"),
    Value("INVALID_NULL_POINTER"), Value("INVALID_ENUMERATION"),
    Value("INVALID_SIZE")>>, {"hQueue"}, NoCount)
urQueueCreate ==
  Checked(<<Handle("hContext"), Handle("hDevice"), Pointer("phQueue"),
    Value("INVALID_ENUMERATION"), Value("INVALID_QUEUE_PROPERTIES"),
    Value("INVALID_QUEUE_PROPERTIES")>>, {"hContext", "hDevice"}, Create("phQueue"))
urQueueRetain == Checked(<<Handle("hQueue")>>, {}, Increase("hQueue"))
urQueueRelease == Checked(<<Handle("hQueue")>>, {}, Decrease("hQueue"))
urQueueGetNativeHandle ==
  Checked(<<Handle("hQueue"), Pointer("phNativeQueue")>>, {"hQueue"}, NoCount)
urQueueCreateWithNativeHandle ==
  Checked(<<Handle("hContext"), Pointer("phQueue")>>, {"hContext", "hDevice"},
    Create("phQueue"))
urQueueFinish == Checked(<<Handle("hQueue")>>, {"hQueue"}, NoCount)
urQueueFlush == Checked(<<Handle("hQueue")>>, {"hQueue"}, NoCount)
urEventGetInfo ==
  Checked(<<Handle("hEvent"), Value("INVALID_NULL_POINTER"),
    Value("INVALID_NULL_POINTER"), Value("INVALID_ENUMERATION"),
    Value("INVALID_SIZE")>>, {"hEvent"}, NoCount)
urEventGetProfilingInfo ==
  Checked(<<Handle("hEvent"), Value("INVALID_ENUMERATION"), Value("INVALID_VALUE")>>,
    {"hEvent"}, NoCount)
urEventWait ==
  Checked(<<Pointer("phEventWaitList"), Value("INVALID_VALUE")>>, {}, NoCount)
urEventRetain == Checked(<<Handle("hEvent")>>, {}, Increase("hEvent"))
urEventRelease == Checked(<<Handle("hEvent")>>, {}, Decrease("hEvent"))
urEventGetNativeHandle ==
  Checked(<<Handle("hEvent"), Pointer("phNativeEvent")>>, {"hEvent"}, NoCount)
urEventCreateWithNativeHandle ==
  Checked(<<Handle("hContext"), Pointer("phEvent")>>, {"hContext"}, Create("phEvent"))
urEventSetCallback ==
  Checked(<<Handle("hEvent"), Pointer("pfnNotify"), Value("INVALID_ENUMERATION"),
    Value("UNSUPPORTED_ENUMERATION")>>, {"hEvent"}, NoCount)
urEnqueueKernelLaunch ==
  Checked(<<Handle("hQueue"), Handle("hKernel"), Pointer("pGlobalWorkOffset"),
    Pointer("pGlobalWorkSize"), WaitList, WaitElements>>, {"hQueue", "hKernel"},
    NoCount)
urEnqueueEventsWait ==
  Checked(<<Handle("hQueue"), WaitList, WaitElements>>, {"hQueue"}, NoCount)
urEnqueueEventsWaitWithBarrier ==
  Checked(<<Handle("hQueue"), WaitList, WaitElements>>, {"hQueue"}, NoCount)
urEnqueueMemBufferRead ==
  Checked(<<Handle("hQueue"), Handle("hBuffer"), Pointer("pDst"), WaitList,
    Bounds("hBuffer"), WaitElements>>, {"hQueue", "hBuffer"}, NoCount)
urEnqueueMemBufferWrite ==
  Checked(<<Handle("hQueue"), Handle("hBuffer"), Pointer("pSrc"), WaitList,
    Bounds("hBuffer"), WaitElements>>, {"hQueue", "hBuffer"}, NoCount)
urEnqueueMemBufferReadRect ==
  Checked(<<Handle("hQueue"), Handle("hBuffer"), Pointer("pDst"), WaitList,
    Value("INVALID_SIZE"), Value("INVALID_SIZE"), Value("INVALID_SIZE"),
    Value("INVALID_SIZE"), Value("INVALID_SIZE"), Value("INVALID_SIZE"),
    Value("INVALID_SIZE"), Bounds("hBuffer"), WaitElements>>, {"hQueue", "hBuffer"},
    NoCount)
urEnqueueMemBufferWriteRect ==
  Checked(<<Handle("hQueue"), Handle("hBuffer"), Pointer("pSrc"), WaitList,
    Value("INVALID_SIZE"), Value("INVALID_SIZE"), Value("INVALID_SIZE"),
    Value("INVALID_SIZE"), Value("INVALID_SIZE"), Value("INVALID_SIZE"),
    Value("INVALID_SIZE"), Bounds("hBuffer"), WaitElements>>, {"hQueue", "hBuffer"},
    NoCount)
urEnqueueMemBufferCopy ==
  Checked(<<Handle("hQueue"), Handle("hBufferSrc"), Handle("hBufferDst"), WaitList,
    Bounds("hBufferSrc"), Bounds("hBufferDst"), WaitElements>>, {"hQueue", "hBufferSrc",
    "hBufferDst"}, NoCount)
urEnqueueMemBufferCopyRect ==
  Checked(<<Handle("hQueue"), Handle("hBufferSrc"), Handle("hBufferDst"), WaitList,
    Value("INVALID_SIZE"), Value("INVALID_SIZE"), Value("INVALID_SIZE"),
    Value("INVALID_SIZE"), Value("INVALID_SIZE"), Value("INVALID_SIZE"),
    Value("INVALID_SIZE"), Bounds("hBufferSrc"), Bounds("hBufferDst"), WaitElements>>,
    {"hQueue", "hBufferSrc", "hBufferDst"}, NoCount)
urEnqueueMemBufferFill ==
  Checked(<<Handle("hQueue"), Handle("hBuffer"), Pointer("pPattern"), WaitList,
    Value("INVALID_SIZE"), Value("INVALID_SIZE"), Value("INVALID_SIZE"),
    Value("INVALID_SIZE"), Value("INVALID_SIZE"), Bounds("hBuffer"), WaitElements>>,
    {"hQueue", "hBuffer"}, NoCount)
urEnqueueMemImageRead ==
  Checked(<<Handle("hQueue"), Handle("hImage"), Pointer("pDst"), WaitList,
    Value("INVALID_SIZE"), BoundsImage("hImage"), WaitElements>>, {"hQueue", "hImage"},
    NoCount)
urEnqueueMemImageWrite ==
  Checked(<<Handle("hQueue"), Handle("hImage"), Pointer("pSrc"), WaitList,
    Value("INVALID_SIZE"), BoundsImage("hImage"), WaitElements>>, {"hQueue", "hImage"},
    NoCount)
urEnqueueMemImageCopy ==
  Checked(<<Handle("hQueue"), Handle("hImageSrc"), Handle("hImageDst"), WaitList,
    Value("INVALID_SIZE"), BoundsImage("hImageSrc"), BoundsImage("hImageDst"),
    WaitElements>>, {"hQueue", "hImageSrc", "hImageDst"}, NoCount)
urEnqueueMemBufferMap ==
  Checked(<<Handle("hQueue"), Handle("hBuffer"), Pointer("ppRetMap"),
    Value("INVALID_ENUMERATION"), WaitList, Bounds("hBuffer"), WaitElements>>,
    {"hQueue", "hBuffer"}, NoCount)
urEnqueueMemUnmap ==
  Checked(<<Handle("hQueue"), Handle("hMem"), Pointer("pMappedPtr"), WaitList,
    WaitElements>>, {"hQueue", "hMem"}, NoCount)
urEnqueueUSMFill ==
  Checked(<<Handle("hQueue"), Pointer("pMem"), Pointer("pPattern"),
    Value("INVALID_SIZE"), Value("INVALID_SIZE"), Value("INVALID_SIZE"), WaitList,
    Bounds("hQueue"), WaitElements>>, {"hQueue"}, NoCount)
urEnqueueUSMMemcpy ==
  Checked(<<Handle("hQueue"), Pointer("pDst"), Pointer("pSrc"), Value("INVALID_SIZE"),
    WaitList, Bounds("hQueue"), Bounds("hQueue"), WaitElements>>, {"hQueue"}, NoCount)
urEnqueueUSMPrefetch ==
  Checked(<<Handle("hQueue"), Pointer("pMem"), Value("INVALID_ENUMERATION"),
    Value("INVALID_SIZE"), WaitList, Bounds("hQueue"), WaitElements>>, {"hQueue"},
    NoCount)
urEnqueueUSMAdvise ==
  Checked(<<Handle("hQueue"), Pointer("pMem"), Value("INVALID_ENUMERATION"),
    Value("INVALID_SIZE"), Bounds("hQueue")>>, {"hQueue"}, NoCount)
urEnqueueUSMFill2D ==
  Checked(<<Handle("hQueue"), Pointer("pMem"), Pointer("pPattern"),
    Value("INVALID_SIZE"), Value("INVALID_SIZE"), Value("INVALID_SIZE"),
    Value("INVALID_SIZE"), Value("INVALID_SIZE"), Value("INVALID_SIZE"),
    Value("INVALID_SIZE"), Value("INVALID_SIZE"), WaitList, Bounds("hQueue"),
    WaitElements>>, {"hQueue"}, NoCount)
urEnqueueUSMMemcpy2D ==
  Checked(<<Handle("hQueue"), Pointer("pDst"), Pointer("pSrc"), Value("INVALID_SIZE"),
    Value("INVALID_SIZE"), Value("INVALID_SIZE"), Value("INVALID_SIZE"),
    Value("INVALID_SIZE"), WaitList, Bounds("hQueue"), Bounds("hQueue"), WaitElements>>,
    {"hQueue"}, NoCount)
urEnqueueDeviceGlobalVariableWrite ==
  Checked(<<Handle("hQueue"), Handle("hProgram"), Pointer("name"), Pointer("pSrc"),
    WaitList, WaitElements>>, {"hQueue", "hProgram"}, NoCount)
urEnqueueDeviceGlobalVariableRead ==
  Checked(<<Handle("hQueue"), Handle("hProgram"), Pointer("name"), Pointer("pDst"),
    WaitList, WaitElements>>, {"hQueue", "hProgram"}, NoCount)
urEnqueueReadHostPipe ==
  Checked(<<Handle("hQueue"), Handle("hProgram"), Pointer("pipe_symbol"),
    Pointer("pDst"), WaitList, WaitElements>>, {"hQueue", "hProgram"}, NoCount)
urEnqueueWriteHostPipe ==
  Checked(<<Handle("hQueue"), Handle("hProgram"), Pointer("pipe_symbol"),
    Pointer("pSrc"), WaitList, WaitElements>>, {"hQueue", "hProgram"}, NoCount)
urUSMPitchedAllocExp ==
  Checked(<<Handle("hContext"), Handle("hDevice"), Pointer("ppMem"),
    Pointer("pResultPitch"), Value("INVALID_ENUMERATION"), Value("INVALID_VALUE"),
    Value("INVALID_USM_SIZE")>>, {"hContext", "hDevice", "pool"}, NoCount)
urBindlessImagesUnsampledImageHandleDestroyExp ==
  Checked(<<Handle("hContext"), Handle("hDevice")>>, {"hContext", "hDevice"}, NoCount)
urBindlessImagesSampledImageHandleDestroyExp ==
  Checked(<<Handle("hContext"), Handle("hDevice")>>, {"hContext", "hDevice"}, NoCount)
urBindlessImagesImageAllocateExp ==
  Checked(<<Handle("hContext"), Handle("hDevice"), Pointer("pImageFormat"),
    Pointer("pImageDesc"), Pointer("phImageMem"),
    Value("INVALID_IMAGE_FORMAT_DESCRIPTOR")>>, {"hContext", "hDevice"}, NoCount)
urBindlessImagesImageFreeExp ==
  Checked(<<Handle("hContext"), Handle("hDevice")>>, {"hContext", "hDevice"}, NoCount)
urBindlessImagesUnsampledImageCreateExp ==
  Checked(<<Handle("hContext"), Handle("hDevice"), Pointer("pImageFormat"),
    Pointer("pImageDesc"), Pointer("phImage"),
    Value("INVALID_IMAGE_FORMAT_DESCRIPTOR")>>, {"hContext", "hDevice"}, NoCount)
urBindlessImagesSampledImageCreateExp ==
  Checked(<<Handle("hContext"), Handle("hDevice"), Handle("hSampler"),
    Pointer("pImageFormat"), Pointer("pImageDesc"), Pointer("phImage"),
    Value("INVALID_IMAGE_FORMAT_DESCRIPTOR")>>, {"hContext", "hDevice", "hSampler"},
    NoCount)
urBindlessImagesImageCopyExp ==
  Checked(<<Handle("hQueue"), Pointer("pSrc"), Pointer("pDst"),
    Pointer("pSrcImageDesc"), Pointer("pDstImageDesc"), Pointer("pSrcImageFormat"),
    Pointer("pDstImageFormat"), Pointer("pCopyRegion"), Value("INVALID_ENUMERATION"),
    Value("INVALID_IMAGE_FORMAT_DESCRIPTOR"), Value("INVALID_IMAGE_FORMAT_DESCRIPTOR"),
    WaitElements>>, {"hQueue"}, NoCount)
urBindlessImagesImageGetInfoExp ==
  Checked(<<Handle("hContext"), Value("INVALID_NULL_POINTER"),
    Value("INVALID_ENUMERATION")>>, {"hContext"}, NoCount)
urBindlessImagesMipmapGetLevelExp ==
  Checked(<<Handle("hContext"), Handle("hDevice"), Pointer("phImageMem")>>, {"hContext",
    "hDevice"}, NoCount)
urBindlessImagesMipmapFreeExp ==
  Checked(<<Handle("hContext"), Handle("hDevice")>>, {"hContext", "hDevice"}, NoCount)
urBindlessImagesImportExternalMemoryExp ==
  Checked(<<Handle("hContext"), Handle("hDevice"), Pointer("pExternalMemDesc"),
    Pointer("phExternalMem"), Value("INVALID_ENUMERATION")>>, {"hContext", "hDevice"},
    NoCount)
urBindlessImagesMapExternalArrayExp ==
  Checked(<<Handle("hContext"), Handle("hDevice"), Handle("hExternalMem"),
    Pointer("pImageFormat"), Pointer("pImageDesc"), Pointer("phImageMem"),
    Value("INVALID_IMAGE_FORMAT_DESCRIPTOR")>>, {"hContext", "hDevice"}, NoCount)
urBindlessImagesMapExternalLinearMemoryExp ==
  Checked(<<Handle("hContext"), Handle("hDevice"), Handle("hExternalMem"),
    Pointer("ppRetMem")>>, {"hContext", "hDevice"}, NoCount)
urBindlessImagesReleaseExternalMemoryExp ==
  Checked(<<Handle("hContext"), Handle("hDevice"), Handle("hExternalMem")>>,
    {"hContext", "hDevice"}, NoCount)
urBindlessImagesImportExternalSemaphoreExp ==
  Checked(<<Handle("hContext"), Handle("hDevice"), Pointer("pExternalSemaphoreDesc"),
    Pointer("phExternalSemaphore"), Value("INVALID_ENUMERATION")>>, {"hContext",
    "hDevice"}, NoCount)
urBindlessImagesReleaseExternalSemaphoreExp ==
  Checked(<<Handle("hContext"), Handle("hDevice"), Handle("hExternalSemaphore")>>,
    {"hContext", "hDevice"}, NoCount)
urBindlessImagesWaitExternalSemaphoreExp ==
  Checked(<<Handle("hQueue"), Handle("hSemaphore"), WaitElements>>, {"hQueue"}, NoCount)
urBindlessImagesSignalExternalSemaphoreExp ==
  Checked(<<Handle("hQueue"), Handle("hSemaphore"), WaitElements>>, {"hQueue"}, NoCount)
urCommandBufferCreateExp ==
  Checked(<<Handle("hContext"), Handle("hDevice"), Pointer("phCommandBuffer")>>,
    {"hContext", "hDevice"}, NoCount)
urCommandBufferRetainExp == Checked(<<Handle("hCommandBuffer")>>, {}, NoCount)
urCommandBufferReleaseExp == Checked(<<Handle("hCommandBuffer")>>, {}, NoCount)
urCommandBufferFinalizeExp == Checked(<<Handle("hCommandBuffer")>>, {}, NoCount)
urCommandBufferAppendKernelLaunchExp ==
  Checked(<<Handle("hCommandBuffer"), Handle("hKernel"), Pointer("pGlobalWorkOffset"),
    Pointer("pGlobalWorkSize"), Listed("phKernelAlternatives", "INVALID_VALUE"),
    Value("INVALID_VALUE"), Value("INVALID_COMMAND_BUFFER_SYNC_POINT_WAIT_LIST_EXP"),
    Value("INVALID_COMMAND_BUFFER_SYNC_POINT_WAIT_LIST_EXP"), WaitList, WaitElements>>,
    {"hKernel"}, NoCount)
urCommandBufferAppendUSMMemcpyExp ==
  Checked(<<Handle("hCommandBuffer"), Pointer("pDst"), Pointer("pSrc"),
    Value("INVALID_SIZE"), Value("INVALID_COMMAND_BUFFER_SYNC_POINT_WAIT_LIST_EXP"),
    Value("INVALID_COMMAND_BUFFER_SYNC_POINT_WAIT_LIST_EXP"), WaitList, WaitElements>>,
    {}, NoCount)
urCommandBufferAppendUSMFillExp ==
  Checked(<<Handle("hCommandBuffer"), Pointer("pMemory"), Pointer("pPattern"),
    Value("INVALID_SIZE"), Value("INVALID_SIZE"), Value("INVALID_SIZE"),
    Value("INVALID_COMMAND_BUFFER_SYNC_POINT_WAIT_LIST_EXP"),
    Value("INVALID_COMMAND_BUFFER_SYNC_POINT_WAIT_LIST_EXP"), WaitList, WaitElements>>,
    {}, NoCount)
urCommandBufferAppendMemBufferCopyExp ==
  Checked(<<Handle("hCommandBuffer"), Handle("hSrcMem"), Handle("hDstMem"),
    Value("INVALID_COMMAND_BUFFER_SYNC_POINT_WAIT_LIST_EXP"),
    Value("INVALID_COMMAND_BUFFER_SYNC_POINT_WAIT_LIST_EXP"), WaitList, WaitElements>>,
    {"hSrcMem", "hDstMem"}, NoCount)
urCommandBufferAppendMemBufferWriteExp ==
  Checked(<<Handle("hCommandBuffer"), Handle("hBuffer"), Pointer("pSrc"),
    Value("INVALID_COMMAND_BUFFER_SYNC_POINT_WAIT_LIST_EXP"),
    Value("INVALID_COMMAND_BUFFER_SYNC_POINT_WAIT_LIST_EXP"), WaitList, WaitElements>>,
    {"hBuffer"}, NoCount)
urCommandBufferAppendMemBufferReadExp ==
  Checked(<<Handle("hCommandBuffer"), Handle("hBuffer"), Pointer("pDst"),
    Value("INVALID_COMMAND_BUFFER_SYNC_POINT_WAIT_LIST_EXP"),
    Value("INVALID_COMMAND_BUFFER_SYNC_POINT_WAIT_LIST_EXP"), WaitList, WaitElements>>,
    {"hBuffer"}, NoCount)
urCommandBufferAppendMemBufferCopyRectExp ==
  Checked(<<Handle("hCommandBuffer"), Handle("hSrcMem"), Handle("hDstMem"),
    Value("INVALID_COMMAND_BUFFER_SYNC_POINT_WAIT_LIST_EXP"),
    Value("INVALID_COMMAND_BUFFER_SYNC_POINT_WAIT_LIST_EXP"), WaitList, WaitElements>>,
    {"hSrcMem", "hDstMem"}, NoCount)
urCommandBufferAppendMemBufferWriteRectExp ==
  Checked(<<Handle("hCommandBuffer"), Handle("hBuffer"), Pointer("pSrc"),
    Value("INVALID_COMMAND_BUFFER_SYNC_POINT_WAIT_LIST_EXP"),
    Value("INVALID_COMMAND_BUFFER_SYNC_POINT_WAIT_LIST_EXP"), WaitList, WaitElements>>,
    {"hBuffer"}, NoCount)
urCommandBufferAppendMemBufferReadRectExp ==
  Checked(<<Handle("hCommandBuffer"), Handle("hBuffer"), Pointer("pDst"),
    Value("INVALID_COMMAND_BUFFER_SYNC_POINT_WAIT_LIST_EXP"),
    Value("INVALID_COMMAND_BUFFER_SYNC_POINT_WAIT_LIST_EXP"), WaitList, WaitElements>>,
    {"hBuffer"}, NoCount)
urCommandBufferAppendMemBufferFillExp ==
  Checked(<<Handle("hCommandBuffer"), Handle("hBuffer"), Pointer("pPattern"),
    Value("INVALID_COMMAND_BUFFER_SYNC_POINT_WAIT_LIST_EXP"),
    Value("INVALID_COMMAND_BUFFER_SYNC_POINT_WAIT_LIST_EXP"), WaitList, WaitElements>>,
    {"hBuffer"}, NoCount)
urCommandBufferAppendUSMPrefetchExp ==
  Checked(<<Handle("hCommandBuffer"), Pointer("pMemory"), Value("INVALID_ENUMERATION"),
    Value("INVALID_COMMAND_BUFFER_SYNC_POINT_WAIT_LIST_EXP"),
    Value("INVALID_COMMAND_BUFFER_SYNC_POINT_WAIT_LIST_EXP"), Value("INVALID_SIZE"),
    WaitList, WaitElements>>, {}, NoCount)
urCommandBufferAppendUSMAdviseExp ==
  Checked(<<Handle("hCommandBuffer"), Pointer("pMemory"), Value("INVALID_ENUMERATION"),
    Value("INVALID_COMMAND_BUFFER_SYNC_POINT_WAIT_LIST_EXP"),
    Value("INVALID_COMMAND_BUFFER_SYNC_POINT_WAIT_LIST_EXP"), Value("INVALID_SIZE"),
    WaitList, WaitElements>>, {}, NoCount)
urCommandBufferEnqueueExp ==
  Checked(<<Handle("hCommandBuffer"), Handle("hQueue"), WaitList, WaitElements>>,
    {"hQueue"}, NoCount)
urCommandBufferUpdateKernelLaunchExp ==
  Checked(<<Handle("hCommand"), Pointer("pUpdateKernelLaunch"),
    Value("INVALID_WORK_DIMENSION")>>, {}, NoCount)
urCommandBufferUpdateSignalEventExp ==
  Checked(<<Handle("hCommand"), Pointer("phSignalEvent")>>, {}, NoCount)
urCommandBufferUpdateWaitEventsExp ==
  Checked(<<Handle("hCommand"), WaitList, WaitElements>>, {}, NoCount)
urCommandBufferGetInfoExp ==
  Checked(<<Handle("hCommandBuffer"), Value("INVALID_NULL_POINTER"),
    Value("INVALID_NULL_POINTER"), Value("INVALID_ENUMERATION"),
    Value("INVALID_SIZE")>>, {}, NoCount)
urEnqueueCooperativeKernelLaunchExp ==
  Checked(<<Handle("hQueue"), Handle("hKernel"), Pointer("pGlobalWorkOffset"),
    Pointer("pGlobalWorkSize"), WaitList, WaitElements>>, {"hQueue", "hKernel"},
    NoCount)
urKernelSuggestMaxCooperativeGroupCountExp ==
  Checked(<<Handle("hKernel"), Handle("hDevice"), Pointer("pLocalWorkSize"),
    Pointer("pGroupCountRet")>>, {"hKernel", "hDevice"}, NoCount)
urEnqueueTimestampRecordingExp ==
  Checked(<<Handle("hQueue"), Pointer("phEvent"), WaitList, WaitElements>>, {"hQueue"},
    NoCount)
urEnqueueKernelLaunchCustomExp ==
  Checked(<<Handle("hQueue"), Handle("hKernel"), Pointer("pGlobalWorkOffset"),
    Pointer("pGlobalWorkSize"), Pointer("launchPropList"), WaitElements>>, {"hQueue",
    "hKernel"}, NoCount)
urProgramBuildExp ==
  Checked(<<Handle("hProgram"), Pointer("phDevices")>>, {"hProgram"}, NoCount)
urProgramCompileExp ==
  Checked(<<Handle("hProgram"), Pointer("phDevices")>>, {"hProgram"}, NoCount)
urProgramLinkExp ==
  Checked(<<Handle("hContext"), Pointer("phDevices"), Pointer("phPrograms"),
    Pointer("phProgram"), Value("INVALID_SIZE")>>, {"hContext"}, NoCount)
urUSMImportExp ==
  Checked(<<Handle("hContext"), Pointer("pMem")>>, {"hContext"}, NoCount)
urUSMReleaseExp ==
  Checked(<<Handle("hContext"), Pointer("pMem")>>, {"hContext"}, NoCount)
urUsmP2PEnablePeerAccessExp ==
  Checked(<<Handle("commandDevice"), Handle("peerDevice")>>, {"commandDevice",
    "peerDevice"}, NoCount)
urUsmP2PDisablePeerAccessExp ==
  Checked(<<Handle("commandDevice"), Handle("peerDevice")>>, {"commandDevice",
    "peerDevice"}, NoCount)
urUsmP2PPeerAccessGetInfoExp ==
  Checked(<<Handle("commandDevice"), Handle("peerDevice"),
    Value("INVALID_NULL_POINTER"), Value("INVALID_NULL_POINTER"),
    Value("INVALID_ENUMERATION"), Value("INVALID_SIZE")>>, {"commandDevice",
    "peerDevice"}, NoCount)
urEnqueueEventsWaitWithBarrierExt ==
  Checked(<<Handle("hQueue"), Value("INVALID_ENUMERATION"), WaitList, WaitElements>>,
    {"hQueue"}, NoCount)
urEnqueueNativeCommandExp ==
  Checked(<<Handle("hQueue"), Pointer("pfnNativeEnqueue"), Value("INVALID_ENUMERATION"),
    WaitElements>>, {"hQueue"}, NoCount)

\* The functions above by name.
Rows ==
  [urAdapterGet |-> urAdapterGet, urAdapterRelease |-> urAdapterRelease,
    urAdapterRetain |-> urAdapterRetain,
    urAdapterGetLastError |-> urAdapterGetLastError,
    urAdapterGetInfo |-> urAdapterGetInfo, urPlatformGet |-> urPlatformGet,
    urPlatformGetInfo |-> urPlatformGetInfo,
    urPlatformGetApiVersion |-> urPlatformGetApiVersion,
    urPlatformGetNativeHandle |-> urPlatformGetNativeHandle,
    urPlatformCreateWithNativeHandle |-> urPlatformCreateWithNativeHandle,
    urPlatformGetBackendOption |-> urPlatformGetBackendOption,
    urDeviceGet |-> urDeviceGet, urDeviceGetInfo |-> urDeviceGetInfo,
    urDeviceRetain |-> urDeviceRetain, urDeviceRelease |-> urDeviceRelease,
    urDevicePartition |-> urDevicePartition,
    urDeviceSelectBinary |-> urDeviceSelectBinary,
    urDeviceGetNativeHandle |-> urDeviceGetNativeHandle,
    urDeviceCreateWithNativeHandle |-> urDeviceCreateWithNativeHandle,
    urDeviceGetGlobalTimestamps |-> urDeviceGetGlobalTimestamps,
    urContextCreate |-> urContextCreate, urContextRetain |-> urContextRetain,
    urContextRelease |-> urContextRelease, urContextGetInfo |-> urContextGetInfo,
    urContextGetNativeHandle |-> urContextGetNativeHandle,
    urContextCreateWithNativeHandle |-> urContextCreateWithNativeHandle,
    urContextSetExtendedDeleter |-> urContextSetExtendedDeleter,
    urMemImageCreate |-> urMemImageCreate, urMemBufferCreate |-> urMemBufferCreate,
    urMemRetain |-> urMemRetain, urMemRelease |-> urMemRelease,
    urMemBufferPartition |-> urMemBufferPartition,
    urMemGetNativeHandle |-> urMemGetNativeHandle,
    urMemBufferCreateWithNativeHandle |-> urMemBufferCreateWithNativeHandle,
    urMemImageCreateWithNativeHandle |-> urMemImageCreateWithNativeHandle,
    urMemGetInfo |-> urMemGetInfo, urMemImageGetInfo |-> urMemImageGetInfo,
    urSamplerCreate |-> urSamplerCreate, urSamplerRetain |-> urSamplerRetain,
    urSamplerRelease |-> urSamplerRelease, urSamplerGetInfo |-> urSamplerGetInfo,
    urSamplerGetNativeHandle |-> urSamplerGetNativeHandle,
    urSamplerCreateWithNativeHandle |-> urSamplerCreateWithNativeHandle,
    urUSMHostAlloc |-> urUSMHostAlloc, urUSMDeviceAlloc |-> urUSMDeviceAlloc,
    urUSMSharedAlloc |-> urUSMSharedAlloc, urUSMFree |-> urUSMFree,
    urUSMGetMemAllocInfo |-> urUSMGetMemAllocInfo, urUSMPoolCreate |-> urUSMPoolCreate,
    urUSMPoolRetain |-> urUSMPoolRetain, urUSMPoolRelease |-> urUSMPoolRelease,
    urUSMPoolGetInfo |-> urUSMPoolGetInfo,
    urVirtualMemGranularityGetInfo |-> urVirtualMemGranularityGetInfo,
    urVirtualMemReserve |-> urVirtualMemReserve, urVirtualMemFree |-> urVirtualMemFree,
    urVirtualMemMap |-> urVirtualMemMap, urVirtualMemUnmap |-> urVirtualMemUnmap,
    urVirtualMemSetAccess |-> urVirtualMemSetAccess,
    urVirtualMemGetInfo |-> urVirtualMemGetInfo,
    urPhysicalMemCreate |-> urPhysicalMemCreate,
    urPhysicalMemRetain |-> urPhysicalMemRetain,
    urPhysicalMemRelease |-> urPhysicalMemRelease,
    urPhysicalMemGetInfo |-> urPhysicalMemGetInfo,
    urProgramCreateWithIL |-> urProgramCreateWithIL,
    urProgramCreateWithBinary |-> urProgramCreateWithBinary,
    urProgramBuild |-> urProgramBuild, urProgramCompile |-> urProgramCompile,
    urProgramLink |-> urProgramLink, urProgramRetain |-> urProgramRetain,
    urProgramRelease |-> urProgramRelease,
    urProgramGetFunctionPointer |-> urProgramGetFunctionPointer,
    urProgramGetGlobalVariablePointer |-> urProgramGetGlobalVariablePointer,
    urProgramGetInfo |-> urProgramGetInfo,
    urProgramGetBuildInfo |-> urProgramGetBuildInfo,
    urProgramSetSpecializationConstants |-> urProgramSetSpecializationConstants,
    urProgramGetNativeHandle |-> urProgramGetNativeHandle,
    urProgramCreateWithNativeHandle |-> urProgramCreateWithNativeHandle,
    urKernelCreate |-> urKernelCreate, urKernelSetArgValue |-> urKernelSetArgValue,
    urKernelSetArgLocal |-> urKernelSetArgLocal, urKernelGetInfo |-> urKernelGetInfo,
    urKernelGetGroupInfo |-> urKernelGetGroupInfo,
    urKernelGetSubGroupInfo |-> urKernelGetSubGroupInfo,
    urKernelRetain |-> urKernelRetain, urKernelRelease |-> urKernelRelease,
    urKernelSetArgPointer |-> urKernelSetArgPointer,
    urKernelSetExecInfo |-> urKernelSetExecInfo,
    urKernelSetArgSampler |-> urKernelSetArgSampler,
    urKernelSetArgMemObj |-> urKernelSetArgMemObj,
    urKernelSetSpecializationConstants |-> urKernelSetSpecializationConstants,
    urKernelGetNativeHandle |-> urKernelGetNativeHandle,
    urKernelCreateWithNativeHandle |-> urKernelCreateWithNativeHandle,
    urKernelGetSuggestedLocalWorkSize |-> urKernelGetSuggestedLocalWorkSize,
    urQueueGetInfo |-> urQueueGetInfo, urQueueCreate |-> urQueueCreate,
    urQueueRetain |-> urQueueRetain, urQueueRelease |-> urQueueRelease,
    urQueueGetNativeHandle |-> urQueueGetNativeHandle,
    urQueueCreateWithNativeHandle |-> urQueueCreateWithNativeHandle,
    urQueueFinish |-> urQueueFinish, urQueueFlush |-> urQueueFlush,
    urEventGetInfo |-> urEventGetInfo,
    urEventGetProfilingInfo |-> urEventGetProfilingInfo, urEventWait |-> urEventWait,
    urEventRetain |-> urEventRetain, urEventRelease |-> urEventRelease,
    urEventGetNativeHandle |-> urEventGetNativeHandle,
    urEventCreateWithNativeHandle |-> urEventCreateWithNativeHandle,
    urEventSetCallback |-> urEventSetCallback,
    urEnqueueKernelLaunch |-> urEnqueueKernelLaunch,
    urEnqueueEventsWait |-> urEnqueueEventsWait,
    urEnqueueEventsWaitWithBarrier |-> urEnqueueEventsWaitWithBarrier,
    urEnqueueMemBufferRead |-> urEnqueueMemBufferRead,
    urEnqueueMemBufferWrite |-> urEnqueueMemBufferWrite,
    urEnqueueMemBufferReadRect |-> urEnqueueMemBufferReadRect,
    urEnqueueMemBufferWriteRect |-> urEnqueueMemBufferWriteRect,
    urEnqueueMemBufferCopy |-> urEnqueueMemBufferCopy,
    urEnqueueMemBufferCopyRect |-> urEnqueueMemBufferCopyRect,
    urEnqueueMemBufferFill |-> urEnqueueMemBufferFill,
    urEnqueueMemImageRead |-> urEnqueueMemImageRead,
    urEnqueueMemImageWrite |-> urEnqueueMemImageWrite,
    urEnqueueMemImageCopy |-> urEnqueueMemImageCopy,
    urEnqueueMemBufferMap |-> urEnqueueMemBufferMap,
    urEnqueueMemUnmap |-> urEnqueueMemUnmap, urEnqueueUSMFill |-> urEnqueueUSMFill,
    urEnqueueUSMMemcpy |-> urEnqueueUSMMemcpy,
    urEnqueueUSMPrefetch |-> urEnqueueUSMPrefetch,
    urEnqueueUSMAdvise |-> urEnqueueUSMAdvise,
    urEnqueueUSMFill2D |-> urEnqueueUSMFill2D,
    urEnqueueUSMMemcpy2D |-> urEnqueueUSMMemcpy2D,
    urEnqueueDeviceGlobalVariableWrite |-> urEnqueueDeviceGlobalVariableWrite,
    urEnqueueDeviceGlobalVariableRead |-> urEnqueueDeviceGlobalVariableRead,
    urEnqueueReadHostPipe |-> urEnqueueReadHostPipe,
    urEnqueueWriteHostPipe |-> urEnqueueWriteHostPipe,
    urUSMPitchedAllocExp |-> urUSMPitchedAllocExp,
    urBindlessImagesUnsampledImageHandleDestroyExp |-> urBindlessImagesUnsampledImageHandleDestroyExp,
    urBindlessImagesSampledImageHandleDestroyExp |-> urBindlessImagesSampledImageHandleDestroyExp,
    urBindlessImagesImageAllocateExp |-> urBindlessImagesImageAllocateExp,
    urBindlessImagesImageFreeExp |-> urBindlessImagesImageFreeExp,
    urBindlessImagesUnsampledImageCreateExp |-> urBindlessImagesUnsampledImageCreateExp,
    urBindlessImagesSampledImageCreateExp |-> urBindlessImagesSampledImageCreateExp,
    urBindlessImagesImageCopyExp |-> urBindlessImagesImageCopyExp,
    urBindlessImagesImageGetInfoExp |-> urBindlessImagesImageGetInfoExp,
    urBindlessImagesMipmapGetLevelExp |-> urBindlessImagesMipmapGetLevelExp,
    urBindlessImagesMipmapFreeExp |-> urBindlessImagesMipmapFreeExp,
    urBindlessImagesImportExternalMemoryExp |-> urBindlessImagesImportExternalMemoryExp,
    urBindlessImagesMapExternalArrayExp |-> urBindlessImagesMapExternalArrayExp,
    urBindlessImagesMapExternalLinearMemoryExp |-> urBindlessImagesMapExternalLinearMemoryExp,
    urBindlessImagesReleaseExternalMemoryExp |-> urBindlessImagesReleaseExternalMemoryExp,
    urBindlessImagesImportExternalSemaphoreExp |-> urBindlessImagesImportExternalSemaphoreExp,
    urBindlessImagesReleaseExternalSemaphoreExp |-> urBindlessImagesReleaseExternalSemaphoreExp,
    urBindlessImagesWaitExternalSemaphoreExp |-> urBindlessImagesWaitExternalSemaphoreExp,
    urBindlessImagesSignalExternalSemaphoreExp |-> urBindlessImagesSignalExternalSemaphoreExp,
    urCommandBufferCreateExp |-> urCommandBufferCreateExp,
    urCommandBufferRetainExp |-> urCommandBufferRetainExp,
    urCommandBufferReleaseExp |-> urCommandBufferReleaseExp,
    urCommandBufferFinalizeExp |-> urCommandBufferFinalizeExp,
    urCommandBufferAppendKernelLaunchExp |-> urCommandBufferAppendKernelLaunchExp,
    urCommandBufferAppendUSMMemcpyExp |-> urCommandBufferAppendUSMMemcpyExp,
    urCommandBufferAppendUSMFillExp |-> urCommandBufferAppendUSMFillExp,
    urCommandBufferAppendMemBufferCopyExp |-> urCommandBufferAppendMemBufferCopyExp,
    urCommandBufferAppendMemBufferWriteExp |-> urCommandBufferAppendMemBufferWriteExp,
    urCommandBufferAppendMemBufferReadExp |-> urCommandBufferAppendMemBufferReadExp,
    urCommandBufferAppendMemBufferCopyRectExp |-> urCommandBufferAppendMemBufferCopyRectExp,
    urCommandBufferAppendMemBufferWriteRectExp |-> urCommandBufferAppendMemBufferWriteRectExp,
    urCommandBufferAppendMemBufferReadRectExp |-> urCommandBufferAppendMemBufferReadRectExp,
    urCommandBufferAppendMemBufferFillExp |-> urCommandBufferAppendMemBufferFillExp,
    urCommandBufferAppendUSMPrefetchExp |-> urCommandBufferAppendUSMPrefetchExp,
    urCommandBufferAppendUSMAdviseExp |-> urCommandBufferAppendUSMAdviseExp,
    urCommandBufferEnqueueExp |-> urCommandBufferEnqueueExp,
    urCommandBufferUpdateKernelLaunchExp |-> urCommandBufferUpdateKernelLaunchExp,
    urCommandBufferUpdateSignalEventExp |-> urCommandBufferUpdateSignalEventExp,
    urCommandBufferUpdateWaitEventsExp |-> urCommandBufferUpdateWaitEventsExp,
    urCommandBufferGetInfoExp |-> urCommandBufferGetInfoExp,
    urEnqueueCooperativeKernelLaunchExp |-> urEnqueueCooperativeKernelLaunchExp,
    urKernelSuggestMaxCooperativeGroupCountExp |-> urKernelSuggestMaxCooperativeGroupCountExp,
    urEnqueueTimestampRecordingExp |-> urEnqueueTimestampRecordingExp,
    urEnqueueKernelLaunchCustomExp |-> urEnqueueKernelLaunchCustomExp,
    urProgramBuildExp |-> urProgramBuildExp,
    urProgramCompileExp |-> urProgramCompileExp, urProgramLinkExp |-> urProgramLinkExp,
    urUSMImportExp |-> urUSMImportExp, urUSMReleaseExp |-> urUSMReleaseExp,
    urUsmP2PEnablePeerAccessExp |-> urUsmP2PEnablePeerAccessExp,
    urUsmP2PDisablePeerAccessExp |-> urUsmP2PDisablePeerAccessExp,
    urUsmP2PPeerAccessGetInfoExp |-> urUsmP2PPeerAccessGetInfoExp,
    urEnqueueEventsWaitWithBarrierExt |-> urEnqueueEventsWaitWithBarrierExt,
    urEnqueueNativeCommandExp |-> urEnqueueNativeCommandExp]
==============================================================================

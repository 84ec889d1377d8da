---------------------------- MODULE UrNativeCpu ----------------------------
\* The DDI tables the Native CPU adapter fills (adapters/native_cpu/ur_interface_loader.cpp).
EXTENDS UrRows

urGetPlatformProcAddrTable == Own("Platform")
urGetContextProcAddrTable == Own("Context")
urGetEventProcAddrTable == Own("Event")
urGetProgramProcAddrTable == Own("Program")
urGetKernelProcAddrTable == Own("Kernel")
urGetSamplerProcAddrTable == Own("Sampler")
urGetMemProcAddrTable == Own("Mem")
urGetEnqueueProcAddrTable == Own("Enqueue")
urGetGlobalProcAddrTable == Own("Global")
urGetQueueProcAddrTable == Own("Queue")
urGetUSMProcAddrTable == Own("USM")
urGetDeviceProcAddrTable == Own("Device")
urGetCommandBufferExpProcAddrTable ==
  Without("CommandBufferExp", {"pfnAppendUSMFillExp", "pfnAppendMemBufferFillExp",
    "pfnAppendUSMPrefetchExp", "pfnAppendUSMAdviseExp"})
urGetUsmP2PExpProcAddrTable == Own("UsmP2PExp")
urGetBindlessImagesExpProcAddrTable == Own("BindlessImagesExp")
urGetPhysicalMemProcAddrTable == Own("PhysicalMem")
urGetUSMExpProcAddrTable == Without("USMExp", {"pfnImportExp", "pfnReleaseExp"})
urGetVirtualMemProcAddrTable == Own("VirtualMem")
urGetEnqueueExpProcAddrTable ==
  Without("EnqueueExp", {"pfnCooperativeKernelLaunchExp", "pfnKernelLaunchCustomExp"})
urGetKernelExpProcAddrTable ==
  Without("KernelExp", {"pfnSuggestMaxCooperativeGroupCountExp"})
urGetProgramExpProcAddrTable == Own("ProgramExp")

\* The tables above by name.
Tables ==
  [Platform |-> urGetPlatformProcAddrTable, Context |-> urGetContextProcAddrTable,
    Event |-> urGetEventProcAddrTable, Program |-> urGetProgramProcAddrTable,
    Kernel |-> urGetKernelProcAddrTable, Sampler |-> urGetSamplerProcAddrTable,
    Mem |-> urGetMemProcAddrTable, Enqueue |-> urGetEnqueueProcAddrTable,
    Global |-> urGetGlobalProcAddrTable, Queue |-> urGetQueueProcAddrTable,
    USM |-> urGetUSMProcAddrTable, Device |-> urGetDeviceProcAddrTable,
    CommandBufferExp |-> urGetCommandBufferExpProcAddrTable,
    UsmP2PExp |-> urGetUsmP2PExpProcAddrTable,
    BindlessImagesExp |-> urGetBindlessImagesExpProcAddrTable,
    PhysicalMem |-> urGetPhysicalMemProcAddrTable, USMExp |-> urGetUSMExpProcAddrTable,
    VirtualMem |-> urGetVirtualMemProcAddrTable,
    EnqueueExp |-> urGetEnqueueExpProcAddrTable,
    KernelExp |-> urGetKernelExpProcAddrTable,
    ProgramExp |-> urGetProgramExpProcAddrTable]
==============================================================================

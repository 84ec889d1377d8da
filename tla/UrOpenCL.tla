------------------------------ MODULE UrOpenCL ------------------------------
\* The DDI tables the OpenCL adapter fills (adapters/opencl/ur_interface_loader.cpp).
EXTENDS UrRows

urGetPlatformProcAddrTable == Own("Platform")
urGetContextProcAddrTable == Own("Context")
urGetEventProcAddrTable == Own("Event")
urGetProgramProcAddrTable == Own("Program")
urGetKernelProcAddrTable == Own("Kernel")
urGetSamplerProcAddrTable == Own("Sampler")
urGetMemProcAddrTable == Own("Mem")
urGetEnqueueProcAddrTable == Own("Enqueue")
urGetGlobalProcAddrTable == Own("Global")
urGetQueueProcAddrTable == Own("Queue")
urGetUSMProcAddrTable == Own("USM")
urGetUSMExpProcAddrTable == Without("USMExp", {"pfnPitchedAllocExp"})
urGetDeviceProcAddrTable == Own("Device")
urGetCommandBufferExpProcAddrTable == Own("CommandBufferExp")
urGetUsmP2PExpProcAddrTable == Own("UsmP2PExp")
urGetBindlessImagesExpProcAddrTable == Own("BindlessImagesExp")
urGetVirtualMemProcAddrTable == Own("VirtualMem")
urGetPhysicalMemProcAddrTable == Own("PhysicalMem")
urGetEnqueueExpProcAddrTable == Without("EnqueueExp", {"pfnKernelLaunchCustomExp"})
urGetKernelExpProcAddrTable == Own("KernelExp")
urGetProgramExpProcAddrTable == Own("ProgramExp")

\* The tables above by name.
Tables ==
  [Platform |-> urGetPlatformProcAddrTable, Context |-> urGetContextProcAddrTable,
    Event |-> urGetEventProcAddrTable, Program |-> urGetProgramProcAddrTable,
    Kernel |-> urGetKernelProcAddrTable, Sampler |-> urGetSamplerProcAddrTable,
    Mem |-> urGetMemProcAddrTable, Enqueue |-> urGetEnqueueProcAddrTable,
    Global |-> urGetGlobalProcAddrTable, Queue |-> urGetQueueProcAddrTable,
    USM |-> urGetUSMProcAddrTable, USMExp |-> urGetUSMExpProcAddrTable,
    Device |-> urGetDeviceProcAddrTable,
    CommandBufferExp |-> urGetCommandBufferExpProcAddrTable,
    UsmP2PExp |-> urGetUsmP2PExpProcAddrTable,
    BindlessImagesExp |-> urGetBindlessImagesExpProcAddrTable,
    VirtualMem |-> urGetVirtualMemProcAddrTable,
    PhysicalMem |-> urGetPhysicalMemProcAddrTable,
    EnqueueExp |-> urGetEnqueueExpProcAddrTable,
    KernelExp |-> urGetKernelExpProcAddrTable,
    ProgramExp |-> urGetProgramExpProcAddrTable]
==============================================================================

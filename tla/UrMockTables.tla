---------------------------- MODULE UrMockTables ----------------------------
\* The DDI tables of the mock adapter (adapters/mock/ur_mockddi.cpp):
\* one definition per function that fills a table.
EXTENDS UrRows

urGetGlobalProcAddrTable == Own("Global")
urGetBindlessImagesExpProcAddrTable == Own("BindlessImagesExp")
urGetCommandBufferExpProcAddrTable == Own("CommandBufferExp")
urGetContextProcAddrTable == Own("Context")
urGetEnqueueProcAddrTable == Own("Enqueue")
urGetEnqueueExpProcAddrTable == Own("EnqueueExp")
urGetEventProcAddrTable == Own("Event")
urGetKernelProcAddrTable == Own("Kernel")
urGetKernelExpProcAddrTable == Own("KernelExp")
urGetMemProcAddrTable == Own("Mem")
urGetPhysicalMemProcAddrTable == Own("PhysicalMem")
urGetPlatformProcAddrTable == Own("Platform")
urGetProgramProcAddrTable == Own("Program")
urGetProgramExpProcAddrTable == Own("ProgramExp")
urGetQueueProcAddrTable == Own("Queue")
urGetSamplerProcAddrTable == Own("Sampler")
urGetUSMProcAddrTable == Own("USM")
urGetUSMExpProcAddrTable == Own("USMExp")
urGetUsmP2PExpProcAddrTable == Own("UsmP2PExp")
urGetVirtualMemProcAddrTable == Own("VirtualMem")
urGetDeviceProcAddrTable == Own("Device")

\* The tables above by name.
Tables ==
  [Global |-> urGetGlobalProcAddrTable,
    BindlessImagesExp |-> urGetBindlessImagesExpProcAddrTable,
    CommandBufferExp |-> urGetCommandBufferExpProcAddrTable,
    Context |-> urGetContextProcAddrTable, Enqueue |-> urGetEnqueueProcAddrTable,
    EnqueueExp |-> urGetEnqueueExpProcAddrTable, Event |-> urGetEventProcAddrTable,
    Kernel |-> urGetKernelProcAddrTable, KernelExp |-> urGetKernelExpProcAddrTable,
    Mem |-> urGetMemProcAddrTable, PhysicalMem |-> urGetPhysicalMemProcAddrTable,
    Platform |-> urGetPlatformProcAddrTable, Program |-> urGetProgramProcAddrTable,
    ProgramExp |-> urGetProgramExpProcAddrTable, Queue |-> urGetQueueProcAddrTable,
    Sampler |-> urGetSamplerProcAddrTable, USM |-> urGetUSMProcAddrTable,
    USMExp |-> urGetUSMExpProcAddrTable, UsmP2PExp |-> urGetUsmP2PExpProcAddrTable,
    VirtualMem |-> urGetVirtualMemProcAddrTable, Device |-> urGetDeviceProcAddrTable]
==============================================================================

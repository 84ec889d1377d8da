--------------------------- MODULE MCInOrderQueue ---------------------------
(* InOrderQueue for TLC. *)
EXTENDS InOrderQueue, TLC

Symmetry == Permutations(Threads) \cup Permutations(Queues)

\* every function there is
AllFunctions == KernelFunctions \cup BlockingFunctions \cup OtherFunctions

\* a launch and a call that may block, both with wait lists
LaunchFunctions == {enqueueKernelLaunch, enqueueUSMMemcpy}
=============================================================================

------------------------------ MODULE MCUrCalls ------------------------------
(***************************************************************************)
(* Instances of UrCalls for TLC.                                           *)
(***************************************************************************)
EXTENDS UrCalls, UrLayers, TLC

CONSTANTS t1, t2, a1, a2, x1

AllApis == {Function(f) : f \in AllFunctions}
\* A retain or release that fails in the adapter is counted all the same, in the
\* loader and in the leak checker; the instances leave that failure out.
MayFail == {f \in AllFunctions : Ldr!Rows[f].count.op = "none"}
ContextApis ==
  {Function(f) : f \in {"urAdapterGet", "urAdapterRelease", "urContextCreate",
                        "urContextGetNativeHandle", "urContextRetain", "urContextRelease"}}
NativeDriver == a1 :> "native_cpu"
OneHeap == a1 :> {x1}
Drivers == a1 :> "cuda" @@ a2 :> "native_cpu"
SharedHeap == a1 :> {x1} @@ a2 :> {x1}
OneUser == a1 :> {x1} @@ a2 :> {}

\* The instances meet what the theorems of UrCallsProofs and UrLeakProofs assume; the
\* leak checker does not track every function.  The instance with misuse calls every
\* function with every fault instead.
ASSUME ChecksComplete == Misuse \/ FaultsChecked(AllApis)
ASSUME ContextsTracked == Apis = ContextApis => LeakTracked
===============================================================================

---------------------------- MODULE EventAllocator ----------------------------
(****************************************************************************)
(* What an event pool promises its queue: an event given out is not given   *)
(* out again before it was recycled, and no event is recycled while the     *)
(* device still has to write a timestamp into it.  EventPool implements it. *)
(****************************************************************************)
CONSTANT Events

VARIABLES
    inUse,      \* events given out and not yet recycled
    writing     \* events the device has yet to write

allocatorVars == <<inUse, writing>>

AInit ==
    /\ inUse = {}
    /\ writing = {}

Acquire(e) ==
    /\ e \notin inUse
    /\ inUse' = inUse \cup {e}
    /\ UNCHANGED writing

BeginWrite(e) ==
    /\ e \in inUse \ writing
    /\ writing' = writing \cup {e}
    /\ UNCHANGED inUse

EndWrite(e) ==
    /\ e \in inUse \cap writing
    /\ writing' = writing \ {e}
    /\ UNCHANGED inUse

Recycle(e) ==
    /\ e \in inUse \ writing
    /\ inUse' = inUse \ {e}
    /\ UNCHANGED writing

ANext == \E e \in Events :
            Acquire(e) \/ BeginWrite(e) \/ EndWrite(e) \/ Recycle(e)

ASpec == AInit /\ [][ANext]_allocatorVars
===============================================================================

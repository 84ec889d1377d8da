--------------------------- MODULE EventPoolProofs ---------------------------
(*****************************************************************************)
(* The safety of pooled events, for any threads, burst, and bounds: what     *)
(* taking from and adding to a list of distinct elements does to the set of  *)
(* its elements, that every step keeps the inductive invariant, and what     *)
(* follows from it.                                                          *)
(*****************************************************************************)
EXTENDS EventPool, TLAPS

------------------------------------------------------------------------------
(* Lists *)

\* The elements of a sequence over S are in S.
LEMMA RangeInSet ==
    ASSUME NEW S, NEW s \in Seq(S)
    PROVE  Range(s) \subseteq S
BY DEF Range

\* The empty sequence has no elements.
LEMMA EmptyRange ==
    Range(<<>>) = {} /\ IsInjective(<<>>)
BY DEF Range, IsInjective

\* push_back of a new element keeps the elements distinct.
LEMMA AppendDistinct ==
    ASSUME NEW S, NEW s \in Seq(S), NEW e \in S,
           IsInjective(s), e \notin Range(s)
    PROVE  /\ Append(s, e) \in Seq(S)
           /\ Range(Append(s, e)) = Range(s) \cup {e}
           /\ IsInjective(Append(s, e))
<1> DEFINE a == Append(s, e)
<1>1. /\ a \in Seq(S)
      /\ DOMAIN a = 1 .. Len(s) + 1
      /\ DOMAIN s = 1 .. Len(s)
      /\ Len(s) \in Nat
      /\ \A i \in 1 .. Len(s) : a[i] = s[i]
      /\ a[Len(s) + 1] = e
  OBVIOUS
<1> HIDE DEF a
<1>2. \A i \in DOMAIN s : s[i] \in Range(s)
  BY Zenon DEF Range
<1>3. Range(a) = Range(s) \cup {e}
  <2>1. ASSUME NEW x \in Range(a) PROVE x \in Range(s) \cup {e}
    <3>1. PICK i \in DOMAIN a : a[i] = x
      BY Zenon DEF Range
    <3>2. CASE i = Len(s) + 1
      BY Zenon, <1>1, <3>1, <3>2
    <3>3. CASE i \in 1 .. Len(s)
      BY Zenon, <1>1, <1>2, <3>1, <3>3
    <3> QED
      BY <1>1, <3>1, <3>2, <3>3
  <2>2. ASSUME NEW x \in Range(s) PROVE x \in Range(a)
    <3>1. PICK i \in DOMAIN s : s[i] = x
      BY Zenon DEF Range
    <3>2. i \in DOMAIN a /\ a[i] = x
      BY <1>1, <3>1
    <3> QED
      BY Zenon, <3>2 DEF Range
  <2>3. e \in Range(a)
    <3>1. Len(s) + 1 \in DOMAIN a /\ a[Len(s) + 1] = e
      BY <1>1
    <3> QED
      BY Zenon, <3>1 DEF Range
  <2> QED
    BY Zenon, <2>1, <2>2, <2>3
<1>4. IsInjective(a)
  <2> SUFFICES ASSUME NEW i \in DOMAIN a, NEW j \in DOMAIN a, a[i] = a[j]
               PROVE  i = j
    BY Zenon DEF IsInjective
  <2>1. \A k \in 1 .. Len(s) : a[k] # e
    BY Zenon, <1>1, <1>2
  <2>2. \A k, l \in 1 .. Len(s) : s[k] = s[l] => k = l
    BY Zenon, <1>1 DEF IsInjective
  <2> QED
    BY <1>1, <2>1, <2>2
<1> QED
  BY Zenon, <1>1, <1>3, <1>4 DEF a

\* Taking the last of distinct elements removes just that one.
LEMMA FrontDistinct ==
    ASSUME NEW S, NEW s \in Seq(S), s # <<>>, IsInjective(s)
    PROVE  /\ SubSeq(s, 1, Len(s) - 1) \in Seq(S)
           /\ s[Len(s)] \in Range(s)
           /\ Range(SubSeq(s, 1, Len(s) - 1)) = Range(s) \ {s[Len(s)]}
           /\ IsInjective(SubSeq(s, 1, Len(s) - 1))
<1> DEFINE f == SubSeq(s, 1, Len(s) - 1)
<1>1. /\ Len(s) \in Nat \ {0}
      /\ DOMAIN s = 1 .. Len(s)
      /\ f \in Seq(S)
      /\ DOMAIN f = 1 .. Len(s) - 1
      /\ \A i \in 1 .. Len(s) - 1 : f[i] = s[i]
  OBVIOUS
<1> HIDE DEF f
<1>2. s[Len(s)] \in Range(s)
  BY <1>1 DEF Range
<1>3. \A k, l \in 1 .. Len(s) : s[k] = s[l] => k = l
  BY Zenon, <1>1 DEF IsInjective
<1>4. IsInjective(f)
  BY <1>1, <1>3 DEF IsInjective
<1>5. ASSUME NEW x \in Range(f) PROVE x \in Range(s) \ {s[Len(s)]}
  <2>1. PICK i \in 1 .. Len(s) - 1 : f[i] = x
    BY Zenon, <1>1 DEF Range
  <2>2. s[i] = x
    BY Zenon, <1>1, <2>1
  <2>3. i \in 1 .. Len(s) /\ Len(s) \in 1 .. Len(s) /\ i # Len(s)
    <3>1. Len(s) \in Nat \ {0}
      BY Zenon, <1>1
    <3> QED
      BY <3>1
  <2>4. x # s[Len(s)]
    BY Zenon, <1>3, <2>2, <2>3
  <2> QED
    BY Zenon, <1>1, <2>2, <2>3, <2>4 DEF Range
<1>6. ASSUME NEW x \in Range(s) \ {s[Len(s)]} PROVE x \in Range(f)
  <2>1. PICK i \in 1 .. Len(s) : s[i] = x
    BY Zenon, <1>1 DEF Range
  <2>2. i \in DOMAIN f /\ f[i] = x
    BY <1>1, <2>1
  <2> QED
    BY Zenon, <2>2 DEF Range
<1> QED
  BY Zenon, <1>1, <1>2, <1>4, <1>5, <1>6 DEF f

\* Taking the first of distinct elements removes just that one.
LEMMA TailDistinct ==
    ASSUME NEW S, NEW s \in Seq(S), s # <<>>, IsInjective(s)
    PROVE  /\ Tail(s) \in Seq(S)
           /\ Head(s) \in Range(s)
           /\ Range(Tail(s)) = Range(s) \ {Head(s)}
           /\ IsInjective(Tail(s))
<1> DEFINE f == Tail(s)
<1>1. /\ Len(s) \in Nat \ {0}
      /\ DOMAIN s = 1 .. Len(s)
      /\ f \in Seq(S)
      /\ DOMAIN f = 1 .. Len(s) - 1
      /\ \A i \in 1 .. Len(s) - 1 : f[i] = s[i + 1]
      /\ Head(s) = s[1]
  OBVIOUS
<1> HIDE DEF f
<1>2. Head(s) \in Range(s)
  BY <1>1 DEF Range
<1>3. \A k, l \in 1 .. Len(s) : s[k] = s[l] => k = l
  BY Zenon, <1>1 DEF IsInjective
<1>4. IsInjective(f)
  <2> SUFFICES ASSUME NEW i \in 1 .. Len(s) - 1, NEW j \in 1 .. Len(s) - 1,
                      s[i + 1] = s[j + 1]
               PROVE  i = j
    BY Zenon, <1>1 DEF IsInjective
  <2>1. i + 1 \in 1 .. Len(s) /\ j + 1 \in 1 .. Len(s)
    BY <1>1
  <2>2. i + 1 = j + 1
    BY Zenon, <1>3, <2>1
  <2> QED
    BY <2>2
<1>5. ASSUME NEW x \in Range(f) PROVE x \in Range(s) \ {Head(s)}
  <2>1. PICK i \in 1 .. Len(s) - 1 : f[i] = x
    BY Zenon, <1>1 DEF Range
  <2>2. i + 1 \in DOMAIN s /\ s[i + 1] = x /\ i + 1 # 1 /\ 1 \in DOMAIN s
    BY <1>1, <2>1
  <2>3. x # s[1]
    BY Zenon, <1>1, <1>3, <2>2
  <2> QED
    BY Zenon, <1>1, <2>2, <2>3 DEF Range
<1>6. ASSUME NEW x \in Range(s) \ {Head(s)} PROVE x \in Range(f)
  <2>1. PICK i \in 1 .. Len(s) : s[i] = x
    BY Zenon, <1>1 DEF Range
  <2>2. i # 1
    BY Zenon, <1>1, <2>1
  <2>3. i - 1 \in 1 .. Len(s) - 1
    BY <1>1, <2>1, <2>2
  <2>4. i - 1 \in DOMAIN f /\ f[i - 1] = s[(i - 1) + 1] /\ (i - 1) + 1 = i
    BY <1>1, <2>1, <2>3
  <2> QED
    BY Zenon, <2>1, <2>4 DEF Range
<1> QED
  BY Zenon, <1>1, <1>2, <1>4, <1>5, <1>6 DEF f

------------------------------------------------------------------------------
(* The pool *)

\* allocate() takes an event off the freelist, or off the burst it creates
\* when the freelist is empty (event_pool.cpp:20-43).
LEMMA AllocateTakes ==
    ASSUME TypeOK, IsInjective(freelist), Range(freelist) \subseteq 1 .. events,
           NEW e, Allocate(e)
    PROVE  /\ events' \in 0 .. MaxEvents
           /\ events <= events'
           /\ freelist' \in Seq(Events)
           /\ IsInjective(freelist')
           /\ e \in 1 .. events'
           /\ e \in Range(freelist) \/ e \in events + 1 .. events'
           /\ Range(freelist') = (Range(freelist)
                                    \cup (events + 1 .. events')) \ {e}
<1>1. CASE freelist = <<>>
  <2> DEFINE b == [i \in 1 .. EVENTS_BURST |-> events + i]
  <2>1. events \in Nat /\ EVENTS_BURST \in Nat \ {0} /\ MaxEvents \in Nat
    BY EventPoolAssumption DEF TypeOK
  <2>2. events + EVENTS_BURST <= MaxEvents /\ events' = events + EVENTS_BURST
    BY Zenon, <1>1 DEF Allocate
  <2>3. b \in Seq(Events) /\ DOMAIN b = 1 .. EVENTS_BURST
    BY <2>1, <2>2 DEF Events
  <2>4. b # <<>>
    BY <2>1, <2>3
  <2>5. IsInjective(b)
    BY <2>1 DEF IsInjective
  <2>6. Range(b) = events + 1 .. events + EVENTS_BURST
    <3>1. ASSUME NEW x \in events + 1 .. events + EVENTS_BURST
          PROVE  x \in Range(b)
      <4>1. x - events \in 1 .. EVENTS_BURST /\ b[x - events] = x
        BY <2>1
      <4> QED
        BY Zenon, <4>1 DEF Range
    <3>2. ASSUME NEW x \in Range(b)
          PROVE  x \in events + 1 .. events + EVENTS_BURST
      BY <2>1 DEF Range
    <3> QED
      BY Zenon, <3>1, <3>2
  <2>7. e = b[Len(b)] /\ freelist' = SubSeq(b, 1, Len(b) - 1)
    BY Zenon, <1>1 DEF Allocate, Refilled
  <2>8. Range(freelist) = {}
    BY Zenon, <1>1, EmptyRange
  <2> HIDE DEF b
  <2>9. /\ SubSeq(b, 1, Len(b) - 1) \in Seq(Events)
        /\ b[Len(b)] \in Range(b)
        /\ Range(SubSeq(b, 1, Len(b) - 1)) = Range(b) \ {b[Len(b)]}
        /\ IsInjective(SubSeq(b, 1, Len(b) - 1))
    BY Zenon, <2>3, <2>4, <2>5, FrontDistinct
  <2>10. e \in events + 1 .. events'
    BY Zenon, <2>2, <2>6, <2>7, <2>9
  <2>11. events <= events' /\ events' \in 0 .. MaxEvents /\ e \in 1 .. events'
    BY <2>1, <2>2, <2>10
  <2> QED
    BY Zenon, <2>2, <2>6, <2>7, <2>8, <2>9, <2>10, <2>11
<1>2. CASE freelist # <<>>
  <2>1. e = freelist[Len(freelist)] /\ freelist' = SubSeq(freelist, 1, Len(freelist) - 1) /\ events' = events
    BY Zenon, <1>2 DEF Allocate, Refilled
  <2>2. /\ SubSeq(freelist, 1, Len(freelist) - 1) \in Seq(Events)
        /\ freelist[Len(freelist)] \in Range(freelist)
        /\ Range(SubSeq(freelist, 1, Len(freelist) - 1)) = Range(freelist) \ {freelist[Len(freelist)]}
        /\ IsInjective(SubSeq(freelist, 1, Len(freelist) - 1))
    BY Zenon, <1>2, FrontDistinct DEF TypeOK
  <2>3. events \in 0 .. MaxEvents /\ events <= events /\ events + 1 .. events = {}
    BY DEF TypeOK
  <2> QED
    BY Zenon, <2>1, <2>2, <2>3
<1> QED
  BY Zenon, <1>1, <1>2

\* free(e) of an event that is not on the freelist puts it there once
\* (event_pool.cpp:45-56).
LEMMA FreeReturns ==
    ASSUME TypeOK, IsInjective(freelist),
           NEW e \in Events, e \notin Range(freelist), Free(e)
    PROVE  /\ freelist' \in Seq(Events)
           /\ IsInjective(freelist')
           /\ Range(freelist') = Range(freelist) \cup {e}
BY AppendDistinct DEF TypeOK, Free

\* No event is 0, the mark for "no event".
LEMMA NoEventIsNone == NoEvent \notin Events /\ NoEvent \notin 1 .. events
BY DEF NoEvent, Events

\* The pool starts empty and the queue unused.
LEMMA InitIndInv == Init => IndInv
<1> SUFFICES ASSUME Init PROVE IndInv
  BY Zenon
<1>1. freelist = <<>> /\ deferred = <<>> /\ writes = {} /\ leaked = {}
  BY Zenon DEF Init
<1>2. /\ Range(freelist) = {} /\ IsInjective(freelist)
      /\ Range(deferred) = {} /\ IsInjective(deferred)
  BY Zenon, <1>1, EmptyRange
<1>3. TypeOK
  BY EventPoolAssumption DEF Init, TypeOK, PCs, Kinds
<1>4. OneOwner
  BY <1>2, NoEventIsNone DEF Init, OneOwner, Unnamed
<1>5. EventsExist /\ Counts
  BY <1>1, <1>2 DEF Init, EventsExist, Counts
<1>6. InHand /\ PendingWrites /\ NoWriteAfterFree
  BY Zenon, <1>1 DEF Init, InHand, PendingWrites, NoWriteAfterFree
<1>7. FinishCovers
  BY DEF Init, FinishCovers
<1> QED
  BY Zenon, <1>3, <1>4, <1>5, <1>6, <1>7 DEF IndInv

------------------------------------------------------------------------------
(* Steps that move no event between the lists *)

\* The device completing a command only shrinks the pending writes.
LEMMA DeviceCompleteInv ==
    ASSUME IndInv, DeviceComplete
    PROVE  IndInv'
<1> USE NoEventIsNone
<1>1. TypeOK'
  <2>1. completed' \in Nat
    <3>1. completed \in Nat /\ completed' = completed + 1
      BY ZenonT(60) DEF IndInv, TypeOK, DeviceComplete
    <3> QED
      BY ONLY <3>1
  <2>2. writes' \subseteq writes
    BY Zenon DEF DeviceComplete
  <2> QED
    BY Zenon, <2>1, <2>2 DEF IndInv, TypeOK, DeviceComplete, deviceVars, poolVars
<1>2. OneOwner'
  BY Zenon DEF IndInv, TypeOK, OneOwner, Unnamed, Counts, InHand, EventsExist,
         DeviceComplete, deviceVars, poolVars
<1>3. NoWriteAfterFree'
  BY Zenon DEF IndInv, TypeOK, NoWriteAfterFree, PendingWrites, InHand,
         DeviceComplete, deviceVars, poolVars
<1>4. EventsExist'
  BY Zenon DEF IndInv, TypeOK, EventsExist, Events, DeviceComplete, deviceVars,
         poolVars
<1>5. Counts'
  BY Zenon DEF IndInv, TypeOK, Counts, OneOwner, EventsExist, InHand,
         DeviceComplete, deviceVars, poolVars
<1>6. InHand'
  BY Zenon DEF IndInv, TypeOK, InHand, Counts, OneOwner, DeviceComplete,
         deviceVars, poolVars
<1>7. PendingWrites'
  BY DEF IndInv, TypeOK, PendingWrites, NoWriteAfterFree, InHand, Counts,
         OneOwner, DeviceComplete, deviceVars, poolVars
<1>8. FinishCovers'
  BY DEF IndInv, TypeOK, FinishCovers, DeviceComplete, deviceVars, poolVars
<1> QED
  BY Zenon, <1>1, <1>2, <1>3, <1>4, <1>5, <1>6, <1>7, <1>8 DEF IndInv

\* An append that fails drops the event it had allocated: nobody owns it, and
\* the device was never told to write it (command_list_manager.cpp:181-183).
LEMMA EnqueueFailInv ==
    ASSUME IndInv, NEW t \in Threads, EnqueueFail(t)
    PROVE  IndInv'
<1> USE NoEventIsNone
<1>1. TypeOK'
  BY Zenon DEF IndInv, TypeOK, PCs, EnqueueFail, deviceVars, poolVars
<1>2. OneOwner'
  BY DEF IndInv, TypeOK, OneOwner, Unnamed, Counts, InHand, EventsExist,
         EnqueueFail, deviceVars, poolVars
<1>3. NoWriteAfterFree'
  BY Zenon DEF IndInv, TypeOK, NoWriteAfterFree, PendingWrites, InHand,
         EnqueueFail, deviceVars, poolVars
<1>4. EventsExist'
  BY Zenon DEF IndInv, TypeOK, EventsExist, Events, EnqueueFail, deviceVars,
         poolVars
<1>5. Counts'
  BY DEF IndInv, TypeOK, Counts, OneOwner, EventsExist, InHand, EnqueueFail,
         deviceVars, poolVars
<1>6. InHand'
  BY Zenon DEF IndInv, TypeOK, InHand, Counts, OneOwner, EnqueueFail, deviceVars,
         poolVars
<1>7. PendingWrites'
  <2> SUFFICES ASSUME NEW w \in writes
               PROVE  \A u \in Threads : cur'[u] = w.ev =>
                          pc'[u] \in {"sync", "release", "defer"}
    BY Zenon DEF IndInv, PendingWrites, EnqueueFail, deviceVars, poolVars
  <2>1. w.ev # NoEvent
    BY Zenon DEF IndInv, TypeOK
  <2> QED
    BY Zenon, <2>1 DEF IndInv, TypeOK, PendingWrites, EnqueueFail
<1>8. FinishCovers'
  BY Zenon DEF IndInv, TypeOK, FinishCovers, EnqueueFail, deviceVars, poolVars
<1> QED
  BY Zenon, <1>1, <1>2, <1>3, <1>4, <1>5, <1>6, <1>7, <1>8 DEF IndInv

\* A blocking call ends and its caller gets the event.
LEMMA EnqueueSyncInv ==
    ASSUME IndInv, NEW t \in Threads, EnqueueSync(t)
    PROVE  IndInv'
<1> USE NoEventIsNone
<1>1. TypeOK'
  BY Zenon DEF IndInv, TypeOK, PCs, EnqueueSync, HandOut, deviceVars, poolVars
<1>2. OneOwner'
  BY SMTT(60) DEF IndInv, TypeOK, OneOwner, Unnamed, Counts, InHand, EventsExist,
         EnqueueSync, HandOut, deviceVars, poolVars
<1>3. NoWriteAfterFree'
  BY Zenon DEF IndInv, TypeOK, NoWriteAfterFree, PendingWrites, InHand,
         EnqueueSync, HandOut, deviceVars, poolVars
<1>4. EventsExist'
  BY Zenon DEF IndInv, TypeOK, EventsExist, Events, EnqueueSync, HandOut,
         deviceVars, poolVars
<1>5. Counts'
  BY SMTT(60) DEF IndInv, TypeOK, Counts, OneOwner, EventsExist, InHand, EnqueueSync,
         HandOut, deviceVars, poolVars
<1>6. InHand'
  BY Zenon DEF IndInv, TypeOK, InHand, Counts, OneOwner, EnqueueSync, HandOut,
         deviceVars, poolVars
<1>7. PendingWrites'
  BY SMTT(60) DEF IndInv, TypeOK, PendingWrites, NoWriteAfterFree, InHand, Counts,
         OneOwner, EnqueueSync, HandOut, deviceVars, poolVars
<1>8. FinishCovers'
  BY Zenon DEF IndInv, TypeOK, FinishCovers, EnqueueSync, HandOut, deviceVars,
         poolVars
<1> QED
  BY Zenon, <1>1, <1>2, <1>3, <1>4, <1>5, <1>6, <1>7, <1>8 DEF IndInv

\* A retained event stays with the application (event.cpp:139-142).
LEMMA urEventRetainInv ==
    ASSUME IndInv, NEW t \in Threads, NEW e \in Events, urEventRetain(t, e)
    PROVE  IndInv'
<1> USE NoEventIsNone
<1>1. TypeOK'
  BY SMTT(60) DEF IndInv, TypeOK, PCs, urEventRetain, deviceVars
<1>2. OneOwner'
  BY SMTT(60) DEF IndInv, TypeOK, OneOwner, Unnamed, Counts, InHand, EventsExist,
         urEventRetain, deviceVars
<1>3. NoWriteAfterFree'
  BY Zenon DEF IndInv, TypeOK, NoWriteAfterFree, PendingWrites, InHand,
         urEventRetain, deviceVars
<1>4. EventsExist'
  BY DEF IndInv, TypeOK, EventsExist, Events, urEventRetain, deviceVars
<1>5. Counts'
  BY SMTT(60) DEF IndInv, TypeOK, Counts, OneOwner, EventsExist, InHand,
         urEventRetain, deviceVars
<1>6. InHand'
  BY Zenon DEF IndInv, TypeOK, InHand, Counts, OneOwner, urEventRetain, deviceVars
<1>7. PendingWrites'
  BY SMTT(60) DEF IndInv, TypeOK, PendingWrites, NoWriteAfterFree, InHand, Counts,
         OneOwner, urEventRetain, deviceVars
<1>8. FinishCovers'
  BY Zenon DEF IndInv, TypeOK, FinishCovers, urEventRetain, deviceVars
<1> QED
  BY Zenon, <1>1, <1>2, <1>3, <1>4, <1>5, <1>6, <1>7, <1>8 DEF IndInv

\* A profiling query caches the end timestamp only of a complete event, so not
\* of one with a pending write (event.cpp:40-61, 285-324).
LEMMA urEventGetProfilingInfoInv ==
    ASSUME IndInv, NEW t \in Threads, NEW e \in Events, urEventGetProfilingInfo(t, e)
    PROVE  IndInv'
<1> USE NoEventIsNone
<1>1. TypeOK'
  BY Zenon DEF IndInv, TypeOK, PCs, urEventGetProfilingInfo, EndQueried, Signaled,
         deviceVars, poolVars
<1>2. OneOwner'
  BY Zenon DEF IndInv, TypeOK, OneOwner, Unnamed, Counts, InHand, EventsExist,
         urEventGetProfilingInfo, EndQueried, Signaled, deviceVars, poolVars
<1>3. NoWriteAfterFree'
  BY SMTT(60) DEF IndInv, TypeOK, NoWriteAfterFree, PendingWrites, InHand,
         urEventGetProfilingInfo, EndQueried, Signaled, deviceVars, poolVars
<1>4. EventsExist'
  BY Zenon DEF IndInv, TypeOK, EventsExist, Events, urEventGetProfilingInfo,
         EndQueried, Signaled, deviceVars, poolVars
<1>5. Counts'
  BY Zenon DEF IndInv, TypeOK, Counts, OneOwner, EventsExist, InHand,
         urEventGetProfilingInfo, EndQueried, Signaled, deviceVars, poolVars
<1>6. InHand'
  BY SMTT(60)
     DEF IndInv, TypeOK, InHand, Counts, OneOwner, urEventGetProfilingInfo,
         EndQueried, Signaled, deviceVars, poolVars
<1>7. PendingWrites'
  BY SMTT(60) DEF IndInv, TypeOK, PendingWrites, NoWriteAfterFree, InHand, Counts,
         OneOwner, urEventGetProfilingInfo, EndQueried, Signaled,
         deviceVars, poolVars
<1>8. FinishCovers'
  BY Zenon DEF IndInv, TypeOK, FinishCovers, urEventGetProfilingInfo, EndQueried,
         Signaled, deviceVars, poolVars
<1> QED
  BY Zenon, <1>1, <1>2, <1>3, <1>4, <1>5, <1>6, <1>7, <1>8 DEF IndInv

\* Dropping the last reference moves the event from the application to the
\* releasing thread, dropping another one moves nothing (event.cpp:151-153).
LEMMA ReleaseBeginInv ==
    ASSUME IndInv, NEW t \in Threads, NEW e \in Events, ReleaseBegin(t, e)
    PROVE  IndInv'
<1> USE NoEventIsNone
<1>1. refCount[e] = handles[e] /\ handles[e] \in Nat \ {0}
  BY DEF IndInv, TypeOK, Counts, ReleaseBegin
<1>2. /\ cur[t] = NoEvent
      /\ e \in 1 .. events
      /\ e \notin Range(freelist) \cup Range(deferred) \cup leaked
      /\ \A u \in Threads : cur[u] # e
  BY <1>1 DEF IndInv, TypeOK, InHand, Counts, EventsExist, ReleaseBegin
<1>3. /\ refCount' = [refCount EXCEPT ![e] = @ - 1]
      /\ handles' = [handles EXCEPT ![e] = @ - 1]
      /\ UNCHANGED <<events, freelist, stamp, lastCmd, deferred, writes,
                     appended, completed, kind, target, leaked>>
  BY Zenon DEF ReleaseBegin, deviceVars
<1>4. CASE refCount[e] = 1
  <2>1. /\ pc' = [pc EXCEPT ![t] = "release"]
        /\ cur' = [cur EXCEPT ![t] = e]
        /\ handles'[e] = 0 /\ refCount'[e] = 0
    BY <1>1, <1>3, <1>4 DEF IndInv, TypeOK, ReleaseBegin
  <2>2. TypeOK'
    BY <1>1, <1>3, <2>1 DEF IndInv, TypeOK, PCs
  <2>3. OneOwner'
    <3>1. \A d \in 1 .. events : d # e => (Unnamed(d)' <=> Unnamed(d))
      BY Zenon, <1>2, <1>3, <2>1 DEF IndInv, TypeOK, Unnamed
    <3>2. Unnamed(e)'
      BY Zenon, <2>1 DEF IndInv, TypeOK, Unnamed
    <3>3. \A d \in Events : d # e => handles'[d] = handles[d]
      BY Zenon, <1>3 DEF IndInv, TypeOK
    <3>4. \A d \in 1 .. events : d \in Events
      BY EventPoolAssumption DEF IndInv, TypeOK, Events
    <3>5. \A d \in 1 .. events : handles'[d] = 0 <=> Unnamed(d)'
      BY Zenon, <2>1, <3>1, <3>2, <3>3, <3>4 DEF IndInv, OneOwner
    <3> QED
      BY <1>2, <1>3, <2>1, <3>5 DEF IndInv, TypeOK, OneOwner
  <2>4. NoWriteAfterFree'
    BY Zenon, <1>3 DEF IndInv, NoWriteAfterFree
  <2>5. EventsExist'
    BY Zenon, <1>2, <1>3, <2>1 DEF IndInv, TypeOK, EventsExist
  <2>6. Counts'
    BY <1>2, <1>3, <2>1, RangeInSet DEF IndInv, TypeOK, Counts, InHand
  <2>7. InHand'
    BY Zenon, <1>3, <2>1 DEF IndInv, TypeOK, InHand
  <2>8. PendingWrites'
    BY Zenon, <1>2, <1>3, <2>1 DEF IndInv, TypeOK, PendingWrites
  <2>9. FinishCovers'
    BY Zenon, <1>3, <2>1 DEF IndInv, TypeOK, FinishCovers
  <2> QED
    BY Zenon, <2>2, <2>3, <2>4, <2>5, <2>6, <2>7, <2>8, <2>9 DEF IndInv
<1>5. CASE refCount[e] # 1
  <2>1. UNCHANGED <<pc, cur>> /\ handles'[e] # 0 /\ handles[e] # 0
    BY <1>1, <1>3, <1>5 DEF IndInv, TypeOK, ReleaseBegin
  <2>2. TypeOK'
    BY <1>1, <1>3, <2>1 DEF IndInv, TypeOK
  <2>3. OneOwner'
    BY <1>3, <2>1 DEF IndInv, TypeOK, OneOwner, Unnamed, Events
  <2>4. NoWriteAfterFree'
    BY Zenon, <1>3 DEF IndInv, NoWriteAfterFree
  <2>5. EventsExist'
    BY Zenon, <1>2, <1>3, <2>1 DEF IndInv, TypeOK, EventsExist
  <2>6. Counts'
    BY <1>1, <1>2, <1>3, <2>1, RangeInSet DEF IndInv, TypeOK, Counts, InHand
  <2>7. InHand' /\ PendingWrites' /\ FinishCovers'
    BY Zenon, <1>3, <2>1 DEF IndInv, InHand, PendingWrites, FinishCovers
  <2> QED
    BY Zenon, <2>2, <2>3, <2>4, <2>5, <2>6, <2>7 DEF IndInv
<1> QED
  BY Zenon, <1>4, <1>5

\* release() decides to free only an event without a pending write
\* (event.cpp:156-168).
LEMMA ReleaseCheckInv ==
    ASSUME IndInv, NEW t \in Threads, ReleaseCheck(t)
    PROVE  IndInv'
<1> USE NoEventIsNone
<1>1. TypeOK'
  BY Zenon DEF IndInv, TypeOK, PCs, ReleaseCheck, EndQueried, Signaled,
         deviceVars, poolVars
<1>2. OneOwner'
  BY Zenon DEF IndInv, TypeOK, OneOwner, Unnamed, Counts, InHand, EventsExist,
         ReleaseCheck, EndQueried, Signaled, deviceVars, poolVars
<1>3. NoWriteAfterFree'
  BY SMTT(60) DEF IndInv, TypeOK, NoWriteAfterFree, PendingWrites, InHand,
         ReleaseCheck, EndQueried, Signaled, deviceVars, poolVars
<1>4. EventsExist'
  BY Zenon DEF IndInv, TypeOK, EventsExist, Events, ReleaseCheck, EndQueried,
         Signaled, deviceVars, poolVars
<1>5. Counts'
  BY SMTT(60) DEF IndInv, TypeOK, Counts, OneOwner, EventsExist, InHand,
         ReleaseCheck, EndQueried, Signaled, deviceVars, poolVars
<1>6. InHand'
  BY SMTT(60) DEF IndInv, TypeOK, InHand, Counts, OneOwner, ReleaseCheck, EndQueried,
         Signaled, deviceVars, poolVars
<1>7. PendingWrites'
  BY SMTT(60)
     DEF IndInv, TypeOK, PendingWrites, NoWriteAfterFree, InHand, Counts,
         OneOwner, ReleaseCheck, EndQueried, Signaled, deviceVars, poolVars
<1>8. FinishCovers'
  BY Zenon DEF IndInv, TypeOK, FinishCovers, ReleaseCheck, EndQueried, Signaled,
         deviceVars, poolVars
<1> QED
  BY Zenon, <1>1, <1>2, <1>3, <1>4, <1>5, <1>6, <1>7, <1>8 DEF IndInv

\* queueFinish waits for everything appended before it took the Mutex.
LEMMA FinishBeginInv ==
    ASSUME IndInv, NEW t \in Threads, FinishBegin(t)
    PROVE  IndInv'
<1> USE NoEventIsNone
<1>1. TypeOK'
  BY Zenon DEF IndInv, TypeOK, PCs, FinishBegin, deviceVars, poolVars
<1>2. OneOwner'
  BY Zenon DEF IndInv, TypeOK, OneOwner, Unnamed, Counts, InHand, EventsExist,
         FinishBegin, deviceVars, poolVars
<1>3. NoWriteAfterFree'
  BY Zenon DEF IndInv, TypeOK, NoWriteAfterFree, PendingWrites, InHand,
         FinishBegin, deviceVars, poolVars
<1>4. EventsExist'
  BY Zenon DEF IndInv, TypeOK, EventsExist, Events, FinishBegin, deviceVars,
         poolVars
<1>5. Counts'
  BY DEF IndInv, TypeOK, Counts, OneOwner, EventsExist, InHand, FinishBegin,
         deviceVars, poolVars
<1>6. InHand'
  BY Zenon DEF IndInv, TypeOK, InHand, Counts, OneOwner, FinishBegin, deviceVars,
         poolVars
<1>7. PendingWrites'
  BY SMTT(60)
     DEF IndInv, TypeOK, PendingWrites, NoWriteAfterFree, InHand, Counts,
         OneOwner, FinishBegin, deviceVars, poolVars
<1>8. FinishCovers'
  <2>1. \A e \in Range(deferred) : lastCmd[e] <= appended
    BY Zenon, RangeInSet DEF IndInv, TypeOK, FinishCovers
  <2> QED
    BY Zenon, <2>1 DEF IndInv, TypeOK, FinishCovers, FinishBegin, deviceVars, poolVars
<1> QED
  BY Zenon, <1>1, <1>2, <1>3, <1>4, <1>5, <1>6, <1>7, <1>8 DEF IndInv

\* queueFinish has waited: every deferred event is complete.
LEMMA FinishSyncInv ==
    ASSUME IndInv, NEW t \in Threads, FinishSync(t)
    PROVE  IndInv'
<1> USE NoEventIsNone
<1>1. TypeOK'
  BY Zenon DEF IndInv, TypeOK, PCs, FinishSync, deviceVars, poolVars
<1>2. OneOwner'
  BY Zenon DEF IndInv, TypeOK, OneOwner, Unnamed, Counts, InHand, EventsExist,
         FinishSync, deviceVars, poolVars
<1>3. NoWriteAfterFree'
  BY Zenon DEF IndInv, TypeOK, NoWriteAfterFree, PendingWrites, InHand,
         FinishSync, deviceVars, poolVars
<1>4. EventsExist'
  BY Zenon DEF IndInv, TypeOK, EventsExist, Events, FinishSync, deviceVars,
         poolVars
<1>5. Counts'
  BY DEF IndInv, TypeOK, Counts, OneOwner, EventsExist, InHand, FinishSync,
         deviceVars, poolVars
<1>6. InHand'
  BY Zenon DEF IndInv, TypeOK, InHand, Counts, OneOwner, FinishSync, deviceVars,
         poolVars
<1>7. PendingWrites'
  BY SMTT(60)
     DEF IndInv, TypeOK, PendingWrites, NoWriteAfterFree, InHand, Counts,
         OneOwner, FinishSync, deviceVars, poolVars
<1>8. FinishCovers'
  BY Zenon DEF IndInv, TypeOK, FinishCovers, FinishSync, deviceVars, poolVars
<1> QED
  BY Zenon, <1>1, <1>2, <1>3, <1>4, <1>5, <1>6, <1>7, <1>8 DEF IndInv

\* The wait of queueFinish fails.
LEMMA FinishFailInv ==
    ASSUME IndInv, NEW t \in Threads, FinishFail(t)
    PROVE  IndInv'
<1> USE NoEventIsNone
<1>1. TypeOK'
  BY Zenon DEF IndInv, TypeOK, PCs, FinishFail, deviceVars, poolVars
<1>2. OneOwner'
  BY Zenon DEF IndInv, TypeOK, OneOwner, Unnamed, Counts, InHand, EventsExist,
         FinishFail, deviceVars, poolVars
<1>3. NoWriteAfterFree'
  BY Zenon DEF IndInv, TypeOK, NoWriteAfterFree, PendingWrites, InHand,
         FinishFail, deviceVars, poolVars
<1>4. EventsExist'
  BY Zenon DEF IndInv, TypeOK, EventsExist, Events, FinishFail, deviceVars,
         poolVars
<1>5. Counts'
  BY DEF IndInv, TypeOK, Counts, OneOwner, EventsExist, InHand, FinishFail,
         deviceVars, poolVars
<1>6. InHand'
  BY Zenon DEF IndInv, TypeOK, InHand, Counts, OneOwner, FinishFail, deviceVars,
         poolVars
<1>7. PendingWrites'
  BY SMTT(60)
     DEF IndInv, TypeOK, PendingWrites, NoWriteAfterFree, InHand, Counts,
         OneOwner, FinishFail, deviceVars, poolVars
<1>8. FinishCovers'
  BY Zenon DEF IndInv, TypeOK, FinishCovers, FinishFail, deviceVars, poolVars
<1> QED
  BY Zenon, <1>1, <1>2, <1>3, <1>4, <1>5, <1>6, <1>7, <1>8 DEF IndInv

\* queueFinish returns the error of its wait and frees nothing.
LEMMA FinishErrorInv ==
    ASSUME IndInv, NEW t \in Threads, FinishError(t)
    PROVE  IndInv'
<1> USE NoEventIsNone
<1>1. TypeOK'
  BY Zenon DEF IndInv, TypeOK, PCs, FinishError, deviceVars, poolVars
<1>2. OneOwner'
  BY Zenon DEF IndInv, TypeOK, OneOwner, Unnamed, Counts, InHand, EventsExist,
         FinishError, deviceVars, poolVars
<1>3. NoWriteAfterFree'
  BY Zenon DEF IndInv, TypeOK, NoWriteAfterFree, PendingWrites, InHand,
         FinishError, deviceVars, poolVars
<1>4. EventsExist'
  BY Zenon DEF IndInv, TypeOK, EventsExist, Events, FinishError, deviceVars,
         poolVars
<1>5. Counts'
  BY DEF IndInv, TypeOK, Counts, OneOwner, EventsExist, InHand, FinishError,
         deviceVars, poolVars
<1>6. InHand'
  BY Zenon DEF IndInv, TypeOK, InHand, Counts, OneOwner, FinishError, deviceVars,
         poolVars
<1>7. PendingWrites'
  BY SMTT(60)
     DEF IndInv, TypeOK, PendingWrites, NoWriteAfterFree, InHand, Counts,
         OneOwner, FinishError, deviceVars, poolVars
<1>8. FinishCovers'
  BY Zenon DEF IndInv, TypeOK, FinishCovers, FinishError, deviceVars, poolVars
<1> QED
  BY Zenon, <1>1, <1>2, <1>3, <1>4, <1>5, <1>6, <1>7, <1>8 DEF IndInv

\* queueFinish ends with nothing left to free.
LEMMA FinishEndInv ==
    ASSUME IndInv, NEW t \in Threads, FinishEnd(t)
    PROVE  IndInv'
<1> USE NoEventIsNone
<1>1. TypeOK'
  BY Zenon DEF IndInv, TypeOK, PCs, FinishEnd, deviceVars, poolVars
<1>2. OneOwner'
  BY Zenon DEF IndInv, TypeOK, OneOwner, Unnamed, Counts, InHand, EventsExist,
         FinishEnd, deviceVars, poolVars
<1>3. NoWriteAfterFree'
  BY Zenon DEF IndInv, TypeOK, NoWriteAfterFree, PendingWrites, InHand, FinishEnd,
         deviceVars, poolVars
<1>4. EventsExist'
  BY Zenon DEF IndInv, TypeOK, EventsExist, Events, FinishEnd, deviceVars,
         poolVars
<1>5. Counts'
  BY DEF IndInv, TypeOK, Counts, OneOwner, EventsExist, InHand, FinishEnd,
         deviceVars, poolVars
<1>6. InHand'
  BY Zenon DEF IndInv, TypeOK, InHand, Counts, OneOwner, FinishEnd, deviceVars,
         poolVars
<1>7. PendingWrites'
  BY DEF IndInv, TypeOK, PendingWrites, NoWriteAfterFree, InHand, Counts,
         OneOwner, FinishEnd, deviceVars, poolVars
<1>8. FinishCovers'
  BY Zenon DEF IndInv, TypeOK, FinishCovers, FinishEnd, deviceVars, poolVars
<1> QED
  BY Zenon, <1>1, <1>2, <1>3, <1>4, <1>5, <1>6, <1>7, <1>8 DEF IndInv

------------------------------------------------------------------------------
(* Steps of an enqueue *)

\* An enqueue takes an event nobody else has and clears its profiling data
\* (command_list_manager.cpp:128-138).
LEMMA EnqueueBeginInv ==
    ASSUME IndInv, NEW t \in Threads, NEW k \in Kinds, NEW w \in BOOLEAN,
           EnqueueBegin(t, k, w)
    PROVE  IndInv'
<1> USE NoEventIsNone
<1>1. /\ pc[t] = "idle" /\ cur[t] = NoEvent
      /\ k = "timestamp" => w
      /\ pc' = [pc EXCEPT ![t] = "append"]
      /\ kind' = [kind EXCEPT ![t] = k]
      /\ UNCHANGED <<refCount, lastCmd, deferred, writes, appended, completed,
                     target, handles, leaked>>
  BY Zenon DEF IndInv, InHand, EnqueueBegin, deviceVars
<1>2. CASE w
  <2>1. PICK e \in Events : /\ Allocate(e)
                            /\ stamp' = [stamp EXCEPT ![e] = FreshStamp(k)]
                            /\ cur' = [cur EXCEPT ![t] = e]
    BY Zenon, <1>2 DEF EnqueueBegin
  <2>2. /\ events' \in 0 .. MaxEvents
        /\ events <= events'
        /\ freelist' \in Seq(Events)
        /\ IsInjective(freelist')
        /\ e \in 1 .. events'
        /\ e \in Range(freelist) \/ e \in events + 1 .. events'
        /\ Range(freelist') = (Range(freelist)
                                 \cup (events + 1 .. events')) \ {e}
    BY Zenon, <2>1, AllocateTakes DEF IndInv, OneOwner, EventsExist
  <2>3. events \in Nat /\ events' \in Nat /\ 1 .. events' \subseteq Events
    BY <2>2, EventPoolAssumption DEF IndInv, TypeOK, Events
  <2>4. /\ e # NoEvent /\ e \notin Range(deferred) /\ e \notin leaked
        /\ handles[e] = 0 /\ refCount[e] = 1
        /\ \A u \in Threads : cur[u] # e
        /\ \A x \in writes : x.ev # e
    <3>1. CASE e \in Range(freelist)
      BY SMTT(60), <3>1 DEF IndInv, TypeOK, OneOwner, NoWriteAfterFree, Counts
    <3>2. CASE e \in events + 1 .. events'
      <4>1. e \notin 1 .. events
        BY <2>3, <3>2
      <4> QED
        BY <4>1 DEF IndInv, TypeOK, EventsExist, Counts, PendingWrites
    <3> QED
      BY Zenon, <2>2, <3>1, <3>2
  <2>5. 1 .. events \subseteq 1 .. events'
    BY <2>2, <2>3
  <2>6. \A d \in events + 1 .. events' : d \in Events \ (1 .. events)
    BY <2>3
  <2>7. FreshStamp(k) \in {"none", "started"}
        /\ (k = "timestamp" => FreshStamp(k) = "started")
    BY Zenon DEF FreshStamp
  <2>8. TypeOK'
    BY Zenon, <1>1, <2>1, <2>2, <2>7 DEF IndInv, TypeOK, PCs
  <2>9. OneOwner'
    <3>1. Range(freelist') \cap Range(deferred') = {}
      <4>1. Range(deferred) \subseteq 1 .. events
        BY Zenon DEF IndInv, EventsExist
      <4> QED
        BY Zenon, <1>1, <2>2, <2>6, <4>1 DEF IndInv, OneOwner
    <3>2. \A u \in Threads : cur'[u] \notin Range(freelist') \cup Range(deferred')
      <4> TAKE u \in Threads
      <4>1. CASE u = t
        BY Zenon, <1>1, <2>1, <2>2, <2>4, <4>1 DEF IndInv, TypeOK
      <4>2. CASE u # t
        <5>1. cur'[u] = cur[u] /\ (cur[u] = NoEvent \/ cur[u] \in 1 .. events)
          BY Zenon, <2>1, <4>2 DEF IndInv, TypeOK, EventsExist
        <5>2. cur[u] \notin events + 1 .. events'
          BY Zenon, <2>3, <2>6, <5>1
        <5> QED
          BY Zenon, <1>1, <2>2, <5>1, <5>2 DEF IndInv, OneOwner
      <4> QED
        BY Zenon, <4>1, <4>2
    <3>3. \A d \in 1 .. events' : handles'[d] = 0 <=> Unnamed(d)'
      <4> TAKE d \in 1 .. events'
      <4>1. CASE d = e
        BY Zenon, <1>1, <2>1, <2>4, <4>1 DEF IndInv, TypeOK, Unnamed
      <4>2. CASE d # e /\ d \in 1 .. events
        <5>1. d \notin events + 1 .. events'
          BY <2>3, <4>2
        <5>2. \A u \in Threads : cur'[u] = d <=> cur[u] = d
          BY Zenon, <1>1, <2>1, <4>2 DEF IndInv, TypeOK
        <5>3. Unnamed(d)' <=> Unnamed(d)
          BY Zenon, <1>1, <2>2, <4>2, <5>1, <5>2 DEF Unnamed
        <5> QED
          BY Zenon, <1>1, <4>2, <5>3 DEF IndInv, OneOwner
      <4>3. CASE d # e /\ d \in events + 1 .. events'
        BY Zenon, <1>1, <2>2, <2>6, <4>3 DEF IndInv, Counts, Unnamed
      <4> QED
        BY <2>3, <4>1, <4>2, <4>3
    <3> QED
      BY SMTT(60), <1>1, <2>1, <2>2, <2>4, <3>1, <3>2, <3>3
         DEF IndInv, TypeOK, OneOwner
  <2>10. NoWriteAfterFree'
    BY Zenon, <1>1, <2>1, <2>2, <2>4, <2>6
       DEF IndInv, TypeOK, NoWriteAfterFree, PendingWrites
  <2>11. EventsExist'
    <3>1. events + 1 .. events' \subseteq 1 .. events'
      BY <2>3
    <3>2. Range(freelist') \subseteq 1 .. events'
      BY Zenon, <2>2, <2>5, <3>1 DEF IndInv, EventsExist
    <3> QED
      BY Zenon, <1>1, <2>1, <2>2, <2>5, <3>2 DEF IndInv, TypeOK, EventsExist
  <2>12. Counts'
    <3>1. \A d \in Range(freelist') : refCount[d] = 1 /\ handles[d] = 0
      BY Zenon, <2>2, <2>6 DEF IndInv, Counts
    <3>2. \A d \in leaked : d \notin Range(freelist')
      BY Zenon, <2>2, <2>6 DEF IndInv, Counts, EventsExist
    <3> QED
      BY <1>1, <2>1, <2>4, <2>5, <3>1, <3>2 DEF IndInv, TypeOK, Counts
  <2>13. InHand'
    BY Zenon, <1>1, <2>1, <2>4, <2>7 DEF IndInv, TypeOK, InHand
  <2>14. PendingWrites'
    BY Zenon, <1>1, <2>1, <2>4, <2>5 DEF IndInv, TypeOK, PendingWrites
  <2>15. FinishCovers'
    BY Zenon, <1>1 DEF IndInv, TypeOK, FinishCovers
  <2> QED
    BY Zenon, <2>8, <2>9, <2>10, <2>11, <2>12, <2>13, <2>14, <2>15 DEF IndInv
<1>3. CASE ~w
  <2>1. UNCHANGED <<events, freelist, stamp, cur>>
    BY Zenon, <1>3 DEF EnqueueBegin
  <2>2. TypeOK'
    BY Zenon, <1>1, <2>1 DEF IndInv, TypeOK, PCs
  <2>3. OneOwner' /\ NoWriteAfterFree' /\ EventsExist'
    BY Zenon, <1>1, <2>1
       DEF IndInv, OneOwner, Unnamed, NoWriteAfterFree, EventsExist
  <2>4. Counts'
    BY Zenon, <1>1, <2>1 DEF IndInv, TypeOK, Counts
  <2>5. InHand'
    BY Zenon, <1>1, <1>3, <2>1 DEF IndInv, TypeOK, InHand
  <2>6. PendingWrites'
    BY Zenon, <1>1, <2>1 DEF IndInv, TypeOK, PendingWrites
  <2>7. FinishCovers'
    BY Zenon, <1>1 DEF IndInv, TypeOK, FinishCovers
  <2> QED
    BY Zenon, <2>2, <2>3, <2>4, <2>5, <2>6, <2>7 DEF IndInv
<1> QED
  BY Zenon, <1>2, <1>3

\* An append ties the event to the new command, the only one that may write it
\* (queue_immediate_in_order.cpp:918-934).
LEMMA EnqueueAppendInv ==
    ASSUME IndInv, NEW t \in Threads, NEW b \in BOOLEAN, EnqueueAppend(t, b)
    PROVE  IndInv'
<1> USE NoEventIsNone
<1>1. /\ pc[t] = "append"
      /\ appended' = appended + 1
      /\ lastCmd' = IF cur[t] = NoEvent THEN lastCmd
                    ELSE [lastCmd EXCEPT ![cur[t]] = appended + 1]
      /\ writes' = IF kind[t] = "timestamp"
                   THEN writes \cup {[cmd |-> appended + 1, ev |-> cur[t]]}
                   ELSE writes
      /\ UNCHANGED <<events, freelist, refCount, stamp, deferred, completed,
                     kind, leaked>>
  BY Zenon DEF EnqueueAppend, poolVars
<1>2. /\ appended \in Nat /\ completed \in Nat /\ completed <= appended
      /\ cur[t] \in Events \cup {NoEvent}
  BY Zenon DEF IndInv, TypeOK, FinishCovers
<1>3. kind[t] = "timestamp" =>
          /\ cur[t] \in Events /\ cur[t] \in 1 .. events
          /\ stamp[cur[t]] = "started"
          /\ cur[t] \notin leaked
  BY Zenon, <1>1, <1>2 DEF IndInv, InHand, EventsExist, Counts
<1>4. /\ cur[t] \notin Range(freelist) \cup Range(deferred)
      /\ \A w \in writes : w.ev # cur[t]
      /\ \A u \in Threads : u # t /\ cur[t] # NoEvent => cur[u] # cur[t]
  BY Zenon, <1>1 DEF IndInv, OneOwner, PendingWrites
<1>5. \/ /\ pc' = [pc EXCEPT ![t] = "sync"]
         /\ target' = [target EXCEPT ![t] = appended + 1]
         /\ UNCHANGED <<cur, handles>>
      \/ /\ pc' = [pc EXCEPT ![t] = "idle"]
         /\ cur' = [cur EXCEPT ![t] = NoEvent]
         /\ handles' = IF cur[t] = NoEvent THEN handles
                       ELSE [handles EXCEPT ![cur[t]] = 1]
         /\ UNCHANGED target
  BY Zenon DEF EnqueueAppend, HandOut
<1>6. writes' \in SUBSET [cmd : Nat, ev : Events] /\ lastCmd' \in [Events -> Nat]
  BY SMTT(60), <1>1, <1>2, <1>3 DEF IndInv, TypeOK
<1>7. TypeOK'
  <2>1. appended + 1 \in Nat
    BY <1>2
  <2>2. pc' \in [Threads -> PCs]
    BY Zenon, <1>5 DEF IndInv, TypeOK, PCs
  <2>3. target' \in [Threads -> Nat]
    BY Zenon, <1>5, <2>1 DEF IndInv, TypeOK
  <2>4. cur' \in [Threads -> Events \cup {NoEvent}]
    BY Zenon, <1>5 DEF IndInv, TypeOK
  <2>5. handles' \in [Events -> Nat]
    <3>1. CASE UNCHANGED handles
      BY Zenon, <3>1 DEF IndInv, TypeOK
    <3>2. CASE handles' = [handles EXCEPT ![cur[t]] = 1]
      BY Zenon, <3>2 DEF IndInv, TypeOK
    <3> QED
      BY Zenon, <1>5, <3>1, <3>2
  <2> QED
    BY Zenon, <1>1, <1>6, <2>1, <2>2, <2>3, <2>4, <2>5 DEF IndInv, TypeOK
<1>8. OneOwner'
  <2>1. CASE cur[t] = NoEvent
    <3>1. UNCHANGED <<cur, handles>>
      BY Zenon, <1>5, <2>1 DEF IndInv, TypeOK
    <3> QED
      BY Zenon, <1>1, <3>1 DEF IndInv, OneOwner, Unnamed
  <2>2. CASE cur[t] # NoEvent /\ UNCHANGED <<cur, handles>>
    BY Zenon, <1>1, <2>2 DEF IndInv, OneOwner, Unnamed
  <2>3. CASE /\ cur[t] # NoEvent
             /\ cur' = [cur EXCEPT ![t] = NoEvent]
             /\ handles' = [handles EXCEPT ![cur[t]] = 1]
    <3>1. PICK e \in Events : e = cur[t] /\ e \notin leaked
      BY Zenon, <1>2, <2>3 DEF IndInv, Counts
    <3>2. ~Unnamed(e)'
      BY Zenon, <1>1, <1>4, <2>3, <3>1 DEF IndInv, TypeOK, Unnamed
    <3>3. \A d \in 1 .. events : d # e => (Unnamed(d)' <=> Unnamed(d))
      BY Zenon, <1>1, <2>3, <3>1 DEF IndInv, TypeOK, Unnamed
    <3>4. 1 .. events \subseteq Events
      BY EventPoolAssumption DEF IndInv, TypeOK, Events
    <3>5. /\ handles'[e] = 1
          /\ \A d \in Events : d # e => handles'[d] = handles[d]
      BY Zenon, <2>3, <3>1 DEF IndInv, TypeOK
    <3>6. \A d \in 1 .. events : handles'[d] = 0 <=> Unnamed(d)'
      BY <3>2, <3>3, <3>4, <3>5 DEF IndInv, OneOwner
    <3> QED
      BY SMTT(60), <1>1, <2>3, <3>6, RangeInSet DEF IndInv, TypeOK, OneOwner
  <2> QED
    BY Zenon, <1>5, <2>1, <2>2, <2>3
<1>9. NoWriteAfterFree'
  <2> SUFFICES ASSUME NEW w \in writes'
               PROVE  /\ w.ev \notin Range(freelist)
                      /\ lastCmd'[w.ev] = w.cmd
                      /\ stamp[w.ev] = "started"
    BY Zenon, <1>1 DEF NoWriteAfterFree
  <2>1. CASE w \in writes
    <3>1. w.ev \in Events /\ w.ev # cur[t]
      BY Zenon, <1>4, <2>1 DEF IndInv, TypeOK
    <3>2. lastCmd'[w.ev] = lastCmd[w.ev]
      BY Zenon, <1>1, <3>1 DEF IndInv, TypeOK
    <3> QED
      BY Zenon, <2>1, <3>2 DEF IndInv, NoWriteAfterFree
  <2>2. CASE w = [cmd |-> appended + 1, ev |-> cur[t]] /\ kind[t] = "timestamp"
    BY Zenon, <1>1, <1>3, <1>4, <2>2 DEF IndInv, TypeOK
  <2> QED
    BY Zenon, <1>1, <2>1, <2>2
<1>10. EventsExist'
  <2>1. \A u \in Threads : cur'[u] # NoEvent => cur'[u] = cur[u]
    BY Zenon, <1>5 DEF IndInv, TypeOK
  <2>2. \A d \in Events : handles'[d] > 0 => handles[d] > 0 \/ d = cur[t]
    BY Zenon, <1>5 DEF IndInv, TypeOK
  <2>3. \A d \in Events : d = cur[t] => d \in 1 .. events
    BY Zenon DEF IndInv, EventsExist
  <2> QED
    BY Zenon, <1>1, <2>1, <2>2, <2>3 DEF IndInv, EventsExist
<1>11. Counts'
  <2>1. CASE UNCHANGED <<cur, handles>> /\ pc' = [pc EXCEPT ![t] = "sync"]
    <3>1. /\ pc'[t] = "sync"
          /\ \A u \in Threads : u # t => pc'[u] = pc[u]
      BY Zenon, <2>1 DEF IndInv, TypeOK
    <3> QED
      BY Zenon, <1>1, <2>1, <3>1 DEF IndInv, Counts
  <2>2. CASE /\ cur[t] = NoEvent /\ UNCHANGED handles
             /\ pc' = [pc EXCEPT ![t] = "idle"]
             /\ cur' = [cur EXCEPT ![t] = NoEvent]
    <3>1. /\ cur'[t] = NoEvent
          /\ \A u \in Threads : u # t => pc'[u] = pc[u] /\ cur'[u] = cur[u]
      BY Zenon, <2>2 DEF IndInv, TypeOK
    <3> QED
      BY <1>1, <2>2, <3>1 DEF IndInv, Counts
  <2>3. CASE /\ cur[t] # NoEvent
             /\ pc' = [pc EXCEPT ![t] = "idle"]
             /\ cur' = [cur EXCEPT ![t] = NoEvent]
             /\ handles' = [handles EXCEPT ![cur[t]] = 1]
    <3>1. refCount[cur[t]] = 1 /\ cur[t] \notin leaked /\ cur[t] \in 1 .. events
      BY Zenon, <1>1, <2>3 DEF IndInv, Counts, EventsExist
    <3>2. /\ cur'[t] = NoEvent
          /\ \A u \in Threads : u # t => pc'[u] = pc[u] /\ cur'[u] = cur[u]
      BY Zenon, <2>3 DEF IndInv, TypeOK
    <3>3. /\ cur[t] \in Events /\ handles'[cur[t]] = 1
          /\ \A d \in Events : d # cur[t] => handles'[d] = handles[d]
      BY Zenon, <1>2, <2>3 DEF IndInv, TypeOK
    <3>4. /\ Range(freelist) \subseteq Events /\ Range(deferred) \subseteq Events
          /\ leaked \subseteq Events
          /\ \A u \in Threads : cur[u] # NoEvent => cur[u] \in Events
      BY Zenon, RangeInSet DEF IndInv, TypeOK
    <3>5. /\ \A d \in Range(freelist') : refCount'[d] = 1 /\ handles'[d] = 0
          /\ \A d \in Range(deferred') : refCount'[d] = 0 /\ handles'[d] = 0
      BY Zenon, <1>1, <1>4, <3>3, <3>4 DEF IndInv, Counts
    <3>6. /\ \A d \in Events : handles'[d] > 0 => refCount'[d] = handles'[d]
          /\ \A d \in Events \ (1 .. events') :
                refCount'[d] = 1 /\ handles'[d] = 0
      BY Zenon, <1>1, <3>1, <3>3 DEF IndInv, Counts
    <3>7. \A d \in leaked' :
              handles'[d] = 0 /\ d \notin Range(freelist') \cup Range(deferred')
      BY Zenon, <1>1, <3>1, <3>3, <3>4 DEF IndInv, Counts
    <3>8. ASSUME NEW u \in Threads, cur'[u] # NoEvent
          PROVE  /\ handles'[cur'[u]] = 0
                 /\ cur'[u] \notin leaked'
                 /\ refCount'[cur'[u]]
                        = IF pc'[u] \in {"append", "sync"} THEN 1 ELSE 0
      <4>1. u # t /\ cur'[u] = cur[u] /\ pc'[u] = pc[u]
        BY Zenon, <3>2, <3>8
      <4>2. cur[u] \in Events /\ cur[u] # cur[t]
        BY Zenon, <1>4, <2>3, <3>4, <3>8, <4>1
      <4>3. /\ handles[cur[u]] = 0 /\ cur[u] \notin leaked
            /\ refCount[cur[u]] = IF pc[u] \in {"append", "sync"} THEN 1 ELSE 0
        BY Zenon, <3>8, <4>1 DEF IndInv, Counts
      <4>4. handles'[cur[u]] = handles[cur[u]]
        BY Zenon, <3>3, <4>2
      <4>5. refCount' = refCount /\ leaked' = leaked
        BY Zenon, <1>1
      <4> QED
        BY Zenon, <4>1, <4>3, <4>4, <4>5
    <3> QED
      BY Zenon, <3>5, <3>6, <3>7, <3>8 DEF Counts
  <2> QED
    BY Zenon, <1>5, <2>1, <2>2, <2>3
<1>12. InHand'
  BY SMTT(60), <1>1, <1>5 DEF IndInv, TypeOK, InHand
<1>13. PendingWrites'
  <2>0. \A v, w \in writes' : v.cmd = w.cmd => v = w
    <3>1. \A w \in writes : w.cmd # appended + 1
      BY SMTT(60), <1>2 DEF IndInv, TypeOK, PendingWrites
    <3> QED
      BY <1>1, <3>1 DEF IndInv, PendingWrites
  <2> SUFFICES ASSUME NEW w \in writes'
               PROVE  /\ w.cmd \in completed + 1 .. appended + 1
                      /\ w.ev \in 1 .. events
                      /\ \A u \in Threads : cur'[u] = w.ev =>
                             pc'[u] \in {"sync", "release", "defer"}
    BY Zenon, <1>1, <2>0 DEF PendingWrites
  <2>1. CASE w \in writes
    <3>1. w.ev # cur[t] /\ w.ev # NoEvent /\ w.cmd \in completed + 1 .. appended
      BY Zenon, <1>4, <2>1 DEF IndInv, TypeOK, PendingWrites
    <3>2. w.cmd \in completed + 1 .. appended + 1
      BY <1>2, <3>1
    <3>3. \A u \in Threads : cur'[u] = w.ev =>
              pc'[u] \in {"sync", "release", "defer"}
      BY Zenon, <1>5, <2>1, <3>1 DEF IndInv, TypeOK, PendingWrites
    <3> QED
      BY Zenon, <2>1, <3>2, <3>3 DEF IndInv, PendingWrites
  <2>2. CASE w = [cmd |-> appended + 1, ev |-> cur[t]] /\ kind[t] = "timestamp"
    <3>1. w.cmd = appended + 1 /\ w.ev = cur[t]
      BY Zenon, <2>2
    <3>2. \A u \in Threads : cur'[u] = cur[t] => u = t /\ pc'[u] = "sync"
      BY Zenon, <1>3, <1>4, <1>5, <2>2 DEF IndInv, TypeOK
    <3> QED
      BY <1>2, <1>3, <2>2, <3>1, <3>2
  <2> QED
    BY Zenon, <1>1, <2>1, <2>2
<1>14. FinishCovers'
  <2>1. \A d \in Events : lastCmd'[d] <= appended + 1
    BY SMTT(60), <1>1, <1>2 DEF IndInv, TypeOK, FinishCovers
  <2>2. \A d \in Range(deferred) : lastCmd'[d] = lastCmd[d]
    BY Zenon, <1>1, <1>4, RangeInSet DEF IndInv, TypeOK
  <2>3. ASSUME NEW u \in Threads, pc'[u] \in {"finSync", "finFree"}
        PROVE  pc'[u] = pc[u] /\ target'[u] = target[u]
    BY Zenon, <1>5, <2>3 DEF IndInv, TypeOK
  <2>4. completed <= appended + 1
    BY <1>2
  <2> QED
    BY Zenon, <1>1, <2>1, <2>2, <2>3, <2>4 DEF IndInv, FinishCovers
<1> QED
  BY Zenon, <1>7, <1>8, <1>9, <1>10, <1>11, <1>12, <1>13, <1>14 DEF IndInv

------------------------------------------------------------------------------
(* Deferred and immediate frees *)

\* deferEventFree hands the event from the thread to the queue
\* (queue_immediate_in_order.cpp:134-137).
LEMMA ReleaseDeferInv ==
    ASSUME IndInv, NEW t \in Threads, ReleaseDefer(t)
    PROVE  IndInv'
<1> USE NoEventIsNone
<1>1. PICK e \in Events : e = cur[t]
  BY Zenon DEF IndInv, TypeOK, InHand, ReleaseDefer
<1>2. /\ pc[t] = "defer"
      /\ \A u \in Threads : pc[u] \notin {"finSync", "finFree"}
      /\ deferred' = Append(deferred, e)
      /\ pc' = [pc EXCEPT ![t] = "idle"]
      /\ cur' = [cur EXCEPT ![t] = NoEvent]
      /\ UNCHANGED <<events, freelist, refCount, stamp, lastCmd, writes,
                     appended, completed, kind, target, handles, leaked>>
  BY Zenon, <1>1 DEF ReleaseDefer, QueueMutexFree, HoldsQueueMutex, poolVars, deviceVars
<1>3. /\ e \in 1 .. events /\ e # NoEvent
      /\ e \notin Range(freelist) \cup Range(deferred) \cup leaked
      /\ refCount[e] = 0 /\ handles[e] = 0
      /\ \A u \in Threads : u # t => cur[u] # e
  BY <1>1, <1>2 DEF IndInv, OneOwner, EventsExist, Counts
<1>4. /\ deferred' \in Seq(Events)
      /\ Range(deferred') = Range(deferred) \cup {e}
      /\ IsInjective(deferred')
  BY SMTT(60), <1>2, <1>3, AppendDistinct DEF IndInv, TypeOK, OneOwner
<1>5. TypeOK'
  BY Zenon, <1>2, <1>4 DEF IndInv, TypeOK, PCs
<1>6. OneOwner'
  <2>1. \A d \in 1 .. events : Unnamed(d)' <=> Unnamed(d)
    BY Zenon, <1>1, <1>2, <1>3, <1>4 DEF IndInv, TypeOK, Unnamed
  <2> QED
    BY SMTT(60), <1>1, <1>2, <1>3, <1>4, <2>1, RangeInSet
       DEF IndInv, TypeOK, OneOwner
<1>7. NoWriteAfterFree'
  BY Zenon, <1>2 DEF IndInv, NoWriteAfterFree
<1>8. EventsExist' /\ Counts'
  BY SMTT(60), <1>2, <1>3, <1>4 DEF IndInv, TypeOK, EventsExist, Counts
<1>9. InHand'
  BY Zenon, <1>2 DEF IndInv, TypeOK, InHand
<1>10. PendingWrites'
  BY Zenon, <1>2 DEF IndInv, TypeOK, PendingWrites
<1>11. FinishCovers'
  BY Zenon, <1>2 DEF IndInv, TypeOK, FinishCovers
<1> QED
  BY Zenon, <1>5, <1>6, <1>7, <1>8, <1>9, <1>10, <1>11 DEF IndInv

\* forceRelease puts an event without pending write on the freelist
\* (event.cpp:212-220).
LEMMA ReleaseFreeInv ==
    ASSUME IndInv, NEW t \in Threads, ReleaseFree(t)
    PROVE  IndInv'
<1> USE NoEventIsNone
<1>1. PICK e \in Events : e = cur[t]
  BY Zenon DEF IndInv, TypeOK, InHand, ReleaseFree
<1>2. /\ pc[t] = "free"
      /\ Free(e)
      /\ refCount' = [refCount EXCEPT ![e] = @ + 1]
      /\ pc' = [pc EXCEPT ![t] = "idle"]
      /\ cur' = [cur EXCEPT ![t] = NoEvent]
      /\ UNCHANGED <<events, stamp, lastCmd, deferred, writes,
                     appended, completed, kind, target, handles, leaked>>
  BY Zenon, <1>1 DEF ReleaseFree, Free, deviceVars
<1>3. /\ e \in 1 .. events /\ e # NoEvent
      /\ e \notin Range(freelist) \cup Range(deferred) \cup leaked
      /\ refCount[e] = 0 /\ handles[e] = 0
      /\ \A u \in Threads : u # t => cur[u] # e
      /\ \A w \in writes : w.ev # e
  BY <1>1, <1>2 DEF IndInv, OneOwner, EventsExist, Counts, PendingWrites
<1>4. /\ freelist' \in Seq(Events)
      /\ IsInjective(freelist')
      /\ Range(freelist') = Range(freelist) \cup {e}
  BY Zenon, <1>2, <1>3, FreeReturns DEF IndInv, OneOwner
<1>5. TypeOK'
  <2>1. refCount' \in [Events -> Nat]
    BY <1>2, <1>3 DEF IndInv, TypeOK
  <2> QED
    BY Zenon, <1>2, <1>4, <2>1 DEF IndInv, TypeOK, PCs
<1>6. OneOwner'
  <2>1. \A d \in 1 .. events : Unnamed(d)' <=> Unnamed(d)
    BY Zenon, <1>1, <1>2, <1>3, <1>4 DEF IndInv, TypeOK, Unnamed
  <2> QED
    BY SMTT(60), <1>1, <1>2, <1>3, <1>4, <2>1, RangeInSet
       DEF IndInv, TypeOK, OneOwner
<1>7. NoWriteAfterFree'
  BY Zenon, <1>2, <1>3, <1>4 DEF IndInv, NoWriteAfterFree
<1>8. EventsExist'
  BY Zenon, <1>2, <1>3, <1>4 DEF IndInv, TypeOK, EventsExist
<1>9. Counts'
  <2>1. /\ refCount'[e] = 1
        /\ \A d \in Events : d # e => refCount'[d] = refCount[d]
    BY <1>2, <1>3 DEF IndInv, TypeOK
  <2> QED
    <3>1. /\ pc'[t] = "idle" /\ cur'[t] = NoEvent
          /\ \A u \in Threads : u # t => pc'[u] = pc[u] /\ cur'[u] = cur[u]
      BY Zenon, <1>2 DEF IndInv, TypeOK
    <3>2. /\ Range(freelist) \subseteq Events /\ Range(deferred) \subseteq Events
          /\ \A u \in Threads : cur[u] # NoEvent => cur[u] \in Events
      BY Zenon, RangeInSet DEF IndInv, TypeOK
    <3>3. \A d \in Range(freelist') : refCount'[d] = 1 /\ handles'[d] = 0
      BY Zenon, <1>2, <1>3, <1>4, <2>1, <3>2 DEF IndInv, Counts
    <3>4. \A d \in Range(deferred') : refCount'[d] = 0 /\ handles'[d] = 0
      BY Zenon, <1>2, <1>3, <2>1, <3>2 DEF IndInv, Counts
    <3>5. /\ \A d \in Events : handles'[d] > 0 => refCount'[d] = handles'[d]
          /\ \A d \in Events \ (1 .. events') :
                refCount'[d] = 1 /\ handles'[d] = 0
      BY <1>2, <1>3, <2>1 DEF IndInv, Counts
    <3>6. \A d \in leaked' :
              handles'[d] = 0 /\ d \notin Range(freelist') \cup Range(deferred')
      BY <1>2, <1>3, <1>4 DEF IndInv, Counts
    <3>7. ASSUME NEW u \in Threads, cur'[u] # NoEvent
          PROVE  /\ handles'[cur'[u]] = 0
                 /\ cur'[u] \notin leaked'
                 /\ refCount'[cur'[u]]
                        = IF pc'[u] \in {"append", "sync"} THEN 1 ELSE 0
      <4>1. u # t /\ cur'[u] = cur[u] /\ pc'[u] = pc[u]
        BY Zenon, <3>1, <3>7
      <4>2. cur[u] \in Events /\ cur[u] # e
        BY Zenon, <1>3, <3>2, <3>7, <4>1
      <4>3. /\ handles[cur[u]] = 0 /\ cur[u] \notin leaked
            /\ refCount[cur[u]] = IF pc[u] \in {"append", "sync"} THEN 1 ELSE 0
        BY Zenon, <3>7, <4>1 DEF IndInv, Counts
      <4>4. refCount'[cur[u]] = refCount[cur[u]]
        BY Zenon, <2>1, <4>2
      <4>5. handles' = handles /\ leaked' = leaked
        BY Zenon, <1>2
      <4> QED
        BY Zenon, <4>1, <4>3, <4>4, <4>5
    <3> QED
      BY Zenon, <3>3, <3>4, <3>5, <3>6, <3>7 DEF Counts
<1>10. InHand' /\ PendingWrites'
  <2>1. /\ pc'[t] = "idle" /\ cur'[t] = NoEvent
        /\ \A u \in Threads : u # t => pc'[u] = pc[u] /\ cur'[u] = cur[u]
    BY Zenon, <1>2 DEF IndInv, TypeOK
  <2>2. InHand'
    BY <1>2, <2>1 DEF IndInv, InHand
  <2>3. PendingWrites'
    <3>1. \A w \in writes : w.ev # NoEvent
      BY Zenon DEF IndInv, PendingWrites
    <3> QED
      BY <1>2, <2>1, <3>1 DEF IndInv, PendingWrites
  <2> QED
    BY Zenon, <2>2, <2>3
<1>11. FinishCovers'
  BY Zenon, <1>2 DEF IndInv, TypeOK, FinishCovers
<1> QED
  BY Zenon, <1>5, <1>6, <1>7, <1>8, <1>9, <1>10, <1>11 DEF IndInv

\* queueFinish moves a complete event from the deferred list to the freelist
\* (queue_immediate_in_order.cpp:158-162).
LEMMA FinishFreeInv ==
    ASSUME IndInv, NEW t \in Threads, FinishFree(t)
    PROVE  IndInv'
<1> USE NoEventIsNone
<1>1. deferred # <<>> /\ deferred \in Seq(Events) /\ IsInjective(deferred)
  BY Zenon DEF IndInv, TypeOK, OneOwner, FinishFree
<1>2. /\ Tail(deferred) \in Seq(Events)
      /\ Head(deferred) \in Range(deferred)
      /\ Range(Tail(deferred)) = Range(deferred) \ {Head(deferred)}
      /\ IsInjective(Tail(deferred))
  BY Zenon, <1>1, TailDistinct
<1>3. PICK e \in Events : e = Head(deferred)
  BY Zenon, <1>1, <1>2, RangeInSet
<1>4. /\ pc[t] = "finFree"
      /\ Free(e)
      /\ refCount' = [refCount EXCEPT ![e] = @ + 1]
      /\ deferred' = Tail(deferred)
      /\ UNCHANGED <<events, stamp, lastCmd, writes, appended, completed, pc,
                     kind, cur, target, handles, leaked>>
  BY Zenon, <1>3 DEF FinishFree, Free, deviceVars
<1>5. /\ e \in 1 .. events /\ e # NoEvent
      /\ e \notin Range(freelist) /\ e \in Range(deferred) /\ e \notin leaked
      /\ refCount[e] = 0 /\ handles[e] = 0
      /\ \A u \in Threads : cur[u] # e
  BY <1>2, <1>3 DEF IndInv, OneOwner, EventsExist, Counts
<1>6. /\ freelist' \in Seq(Events)
      /\ IsInjective(freelist')
      /\ Range(freelist') = Range(freelist) \cup {e}
      /\ Range(deferred') = Range(deferred) \ {e}
      /\ IsInjective(deferred')
      /\ deferred' \in Seq(Events)
  BY Zenon, <1>2, <1>3, <1>4, <1>5, FreeReturns DEF IndInv, OneOwner
<1>7. \A w \in writes : w.ev # e
  <2>1. lastCmd[e] <= completed
    <3>1. lastCmd[e] <= target[t] /\ target[t] <= completed
      BY Zenon, <1>4, <1>5 DEF IndInv, FinishCovers
    <3> QED
      BY <3>1 DEF IndInv, TypeOK
  <2> QED
    BY SMTT(60), <2>1 DEF IndInv, TypeOK, NoWriteAfterFree, PendingWrites
<1>8. TypeOK'
  <2>1. refCount' \in [Events -> Nat]
    BY SMTT(60), <1>4, <1>5 DEF IndInv, TypeOK
  <2> QED
    BY Zenon, <1>4, <1>6, <2>1 DEF IndInv, TypeOK
<1>9. OneOwner'
  <2>1. \A d \in 1 .. events : Unnamed(d)' <=> Unnamed(d)
    BY Zenon, <1>4, <1>5, <1>6 DEF Unnamed
  <2> QED
    BY Zenon, <1>4, <1>5, <1>6, <2>1 DEF IndInv, OneOwner
<1>10. NoWriteAfterFree'
  BY Zenon, <1>4, <1>6, <1>7 DEF IndInv, NoWriteAfterFree
<1>11. EventsExist'
  BY Zenon, <1>4, <1>5, <1>6 DEF IndInv, EventsExist
<1>12. Counts'
  <2>1. /\ refCount'[e] = 1
        /\ \A d \in Events : d # e => refCount'[d] = refCount[d]
    BY <1>4, <1>5 DEF IndInv, TypeOK
  <2> QED
    <3>1. /\ Range(freelist) \subseteq Events /\ Range(deferred) \subseteq Events
          /\ \A u \in Threads : cur[u] # NoEvent => cur[u] \in Events
      BY Zenon, RangeInSet DEF IndInv, TypeOK
    <3>2. \A d \in Range(freelist') : refCount'[d] = 1 /\ handles'[d] = 0
      BY Zenon, <1>4, <1>5, <1>6, <2>1, <3>1 DEF IndInv, Counts
    <3>3. \A d \in Range(deferred') : refCount'[d] = 0 /\ handles'[d] = 0
      BY Zenon, <1>4, <1>6, <2>1, <3>1 DEF IndInv, Counts
    <3>4. /\ \A d \in Events : handles'[d] > 0 => refCount'[d] = handles'[d]
          /\ \A d \in Events \ (1 .. events') :
                refCount'[d] = 1 /\ handles'[d] = 0
      BY <1>4, <1>5, <2>1 DEF IndInv, Counts
    <3>5. \A d \in leaked' :
              handles'[d] = 0 /\ d \notin Range(freelist') \cup Range(deferred')
      BY Zenon, <1>4, <1>5, <1>6 DEF IndInv, Counts
    <3>6. \A u \in Threads : cur'[u] # NoEvent =>
              /\ handles'[cur'[u]] = 0
              /\ cur'[u] \notin leaked'
              /\ refCount'[cur'[u]]
                     = IF pc'[u] \in {"append", "sync"} THEN 1 ELSE 0
      BY <1>4, <1>5, <2>1, <3>1 DEF IndInv, Counts
    <3> QED
      BY Zenon, <3>2, <3>3, <3>4, <3>5, <3>6 DEF Counts
<1>13. InHand' /\ PendingWrites'
  BY Zenon, <1>4 DEF IndInv, InHand, PendingWrites
<1>14. FinishCovers'
  BY Zenon, <1>4, <1>6 DEF IndInv, FinishCovers
<1> QED
  BY Zenon, <1>8, <1>9, <1>10, <1>11, <1>12, <1>13, <1>14 DEF IndInv

------------------------------------------------------------------------------
(* The specification *)

\* Every step of the adapter and of the device keeps the inductive invariant.
LEMMA NextIndInv == IndInv /\ [Next]_vars => IndInv'
<1> SUFFICES ASSUME IndInv, [Next]_vars PROVE IndInv'
  BY Zenon
<1>1. CASE DeviceComplete
  BY Zenon, <1>1, DeviceCompleteInv
<1>2. ASSUME NEW t \in Threads, Call(t) PROVE IndInv'
  <2>1. CASE \E k \in Kinds, w \in BOOLEAN : EnqueueBegin(t, k, w)
    BY Zenon, <2>1, EnqueueBeginInv
  <2>2. CASE \E e \in Events : urEventRetain(t, e)
    BY Zenon, <2>2, urEventRetainInv
  <2>3. CASE \E e \in Events : urEventGetProfilingInfo(t, e)
    BY Zenon, <2>3, urEventGetProfilingInfoInv
  <2>4. CASE \E e \in Events : ReleaseBegin(t, e)
    BY Zenon, <2>4, ReleaseBeginInv
  <2>5. CASE FinishBegin(t)
    BY Zenon, <2>5, FinishBeginInv
  <2> QED
    BY Zenon, <1>2, <2>1, <2>2, <2>3, <2>4, <2>5 DEF Call
<1>3. ASSUME NEW t \in Threads, Step(t) PROVE IndInv'
  BY Zenon, <1>3, EnqueueAppendInv, EnqueueSyncInv, ReleaseCheckInv,
     ReleaseDeferInv, ReleaseFreeInv, FinishSyncInv, FinishErrorInv,
     FinishFreeInv, FinishEndInv
     DEF Step
<1>5. ASSUME NEW t \in Threads, Fail(t) PROVE IndInv'
  BY Zenon, <1>5, EnqueueFailInv, FinishFailInv DEF Fail
<1>4. CASE UNCHANGED vars
  <2>1. TypeOK' /\ OneOwner' /\ NoWriteAfterFree'
    BY Zenon, <1>4 DEF IndInv, TypeOK, OneOwner, Unnamed, NoWriteAfterFree, vars
  <2>2. EventsExist' /\ Counts' /\ InHand' /\ PendingWrites' /\ FinishCovers'
    BY Zenon, <1>4 DEF IndInv, EventsExist, Counts, InHand, PendingWrites,
                FinishCovers, vars
  <2> QED
    BY Zenon, <2>1, <2>2 DEF IndInv
<1> QED
  BY Zenon, <1>1, <1>2, <1>3, <1>4, <1>5 DEF Next

\* The inductive invariant holds in every reachable state.
THEOREM Invariance == Spec => []IndInv
BY InitIndInv, NextIndInv, PTL DEF Spec

\* Types: event_pool, the events and the queue stay well formed.
THEOREM TypeCorrect == Spec => []TypeOK
<1>1. IndInv => TypeOK
  BY Zenon DEF IndInv
<1> QED
  BY <1>1, Invariance, PTL

\* An event is never in two places: allocate() never returns one that is used.
THEOREM OneOwnerAlways == Spec => []OneOwner
<1>1. IndInv => OneOwner
  BY Zenon DEF IndInv
<1> QED
  BY <1>1, Invariance, PTL

\* The device never writes a timestamp into a recycled event.
THEOREM NoWriteAfterFreeAlways == Spec => []NoWriteAfterFree
<1>1. IndInv => NoWriteAfterFree
  BY Zenon DEF IndInv
<1> QED
  BY <1>1, Invariance, PTL

\* The assertions of releaseDeferred and of event_pool::free never fail.
THEOREM AssertionsAlwaysHold == Spec => []AssertionsHold
<1>1. IndInv => AssertionsHold
  <2> SUFFICES ASSUME IndInv, NEW t \in Threads
               PROVE  /\ pc[t] = "finFree" => \A e \in Range(deferred) :
                             Signaled(e) /\ refCount[e] = 0
                      /\ pc[t] = "free" => refCount[cur[t]] = 0
    BY Zenon DEF AssertionsHold
  <2>1. ASSUME pc[t] = "finFree", NEW e \in Range(deferred)
        PROVE  Signaled(e)
    <3>1. lastCmd[e] <= target[t] /\ target[t] <= completed /\ e \in Events
      BY Zenon, <2>1, RangeInSet DEF IndInv, TypeOK, FinishCovers
    <3> QED
      BY <3>1 DEF IndInv, TypeOK, Signaled
  <2> QED
    BY Zenon, <2>1 DEF IndInv, InHand, Counts
<1> QED
  BY <1>1, Invariance, PTL

\* One step of the adapter or of the device is one step of the allocator, or
\* leaves its state alone.
LEMMA StepRefines ==
    IndInv /\ [Next]_vars => [Allocator!ANext]_(Allocator!allocatorVars)
<1> DEFINE used == (1 .. events) \ Range(freelist)
           writing == {w.ev : w \in writes}
           Idle == used' = used /\ writing' = writing
<1> SUFFICES ASSUME IndInv, [Next]_vars
             PROVE  \/ Idle
                    \/ \E e \in Events :
                          \/ /\ e \notin used
                             /\ used' = used \cup {e}
                             /\ writing' = writing
                          \/ /\ e \in used \ writing
                             /\ writing' = writing \cup {e}
                             /\ used' = used
                          \/ /\ e \in used \cap writing
                             /\ writing' = writing \ {e}
                             /\ used' = used
                          \/ /\ e \in used \ writing
                             /\ used' = used \ {e}
                             /\ writing' = writing
  BY Zenon DEF Allocator!ANext, Allocator!Acquire, Allocator!BeginWrite,
         Allocator!EndWrite, Allocator!Recycle, Allocator!allocatorVars
<1>1. ASSUME UNCHANGED <<events, freelist, writes>> PROVE Idle
  BY Zenon, <1>1
<1>2. CASE DeviceComplete
  <2>1. /\ writes' = {w \in writes : w.cmd # completed + 1}
        /\ used' = used
    BY Zenon, <1>2 DEF DeviceComplete, poolVars
  <2>2. CASE \E w \in writes : w.cmd = completed + 1
    <3>1. PICK w \in writes : w.cmd = completed + 1
      BY Zenon, <2>2
    <3>2. /\ w.ev \in Events /\ w.ev \in used /\ w.ev \in writing
      BY Zenon DEF IndInv, TypeOK, PendingWrites, NoWriteAfterFree
    <3>3. writes' = writes \ {w}
      BY Zenon, <2>1, <3>1 DEF IndInv, PendingWrites
    <3>4. \A v \in writes : v.ev = w.ev => v = w
      BY DEF IndInv, PendingWrites, NoWriteAfterFree
    <3>5. writing' = writing \ {w.ev}
      BY Zenon, <3>3, <3>4
    <3> QED
      BY Zenon, <2>1, <3>2, <3>5
  <2>3. CASE ~ \E w \in writes : w.cmd = completed + 1
    BY Zenon, <2>1, <2>3
  <2> QED
    BY Zenon, <2>2, <2>3
<1>3. ASSUME NEW t \in Threads, NEW k \in Kinds, NEW wants \in BOOLEAN,
             EnqueueBegin(t, k, wants)
      PROVE  \/ Idle
             \/ \E e \in Events : /\ e \notin used
                                  /\ used' = used \cup {e}
                                  /\ writing' = writing
  <2>1. writes' = writes
    BY Zenon, <1>3 DEF EnqueueBegin, deviceVars
  <2>2. CASE UNCHANGED <<events, freelist>>
    BY Zenon, <1>1, <2>1, <2>2
  <2>3. ASSUME NEW e \in Events, Allocate(e)
        PROVE  e \notin used /\ used' = used \cup {e}
    <3>1. /\ events \in Nat /\ events' \in Nat
          /\ events <= events'
          /\ e \in 1 .. events'
          /\ e \in Range(freelist) \/ e \in events + 1 .. events'
          /\ Range(freelist') = (Range(freelist)
                                   \cup (events + 1 .. events')) \ {e}
      <4>1. /\ TypeOK /\ IsInjective(freelist)
            /\ Range(freelist) \subseteq 1 .. events
        BY Zenon DEF IndInv, OneOwner, EventsExist
      <4>2. /\ events' \in 0 .. MaxEvents
            /\ events <= events'
            /\ e \in 1 .. events'
            /\ e \in Range(freelist) \/ e \in events + 1 .. events'
            /\ Range(freelist') = (Range(freelist)
                                     \cup (events + 1 .. events')) \ {e}
        BY Zenon, <2>3, <4>1, AllocateTakes
      <4> QED
        BY <4>1, <4>2 DEF TypeOK
    <3>2. 1 .. events' = (1 .. events) \cup (events + 1 .. events')
      BY <3>1
    <3>3. (1 .. events) \cap (events + 1 .. events') = {}
      BY <3>1
    <3> QED
      BY Zenon, <3>1, <3>2, <3>3 DEF IndInv, EventsExist
  <2> QED
    BY Zenon, <1>3, <2>1, <2>2, <2>3 DEF EnqueueBegin
<1>4. ASSUME NEW t \in Threads, NEW b \in BOOLEAN, EnqueueAppend(t, b)
      PROVE  \/ Idle
             \/ \E e \in Events : /\ e \in used \ writing
                                  /\ writing' = writing \cup {e}
                                  /\ used' = used
  <2>1. used' = used
    BY Zenon, <1>4 DEF EnqueueAppend, poolVars
  <2>2. CASE kind[t] = "timestamp"
    <3>1. pc[t] = "append"
          /\ writes' = writes \cup {[cmd |-> appended + 1, ev |-> cur[t]]}
      BY Zenon, <1>4, <2>2 DEF EnqueueAppend
    <3>2. cur[t] # NoEvent
      BY Zenon, <2>2, <3>1 DEF IndInv, InHand
    <3>3. cur[t] \in Events /\ cur[t] \in used
      BY Zenon, <3>2 DEF IndInv, TypeOK, EventsExist, OneOwner
    <3>4. cur[t] \notin writing
      BY Zenon, <3>1 DEF IndInv, PendingWrites
    <3> DEFINE w == [cmd |-> appended + 1, ev |-> cur[t]]
    <3>5. writing' = writing \cup {cur[t]}
      <4>1. writes' = writes \cup {w} /\ w.ev = cur[t]
        BY Zenon, <3>1
      <4> HIDE DEF w
      <4> QED
        BY Zenon, <4>1
    <3> QED
      BY Zenon, <2>1, <3>3, <3>4, <3>5
  <2>3. CASE kind[t] # "timestamp"
    BY Zenon, <1>4, <2>1, <2>3 DEF EnqueueAppend
  <2> QED
    BY Zenon, <2>2, <2>3
<1>5. ASSUME NEW e \in Events, e \in used \ writing, Free(e), writes' = writes
      PROVE  e \in used \ writing /\ used' = used \ {e} /\ writing' = writing
  BY Zenon, <1>5, FreeReturns DEF IndInv, OneOwner, Free
<1>6. ASSUME NEW t \in Threads, ReleaseFree(t)
      PROVE  \E e \in Events : /\ e \in used \ writing
                               /\ used' = used \ {e}
                               /\ writing' = writing
  <2>1. pc[t] = "free" /\ Free(cur[t]) /\ writes' = writes
    BY Zenon, <1>6 DEF ReleaseFree, deviceVars
  <2>2. cur[t] \in Events /\ cur[t] \in used
    BY Zenon, <2>1 DEF IndInv, InHand, TypeOK, EventsExist, OneOwner
  <2>3. cur[t] \notin writing
    BY Zenon, <2>1 DEF IndInv, PendingWrites
  <2> QED
    BY Zenon, <1>5, <2>1, <2>2, <2>3
<1>7. ASSUME NEW t \in Threads, FinishFree(t)
      PROVE  \E e \in Events : /\ e \in used \ writing
                               /\ used' = used \ {e}
                               /\ writing' = writing
  <2>1. /\ pc[t] = "finFree" /\ deferred # <<>>
        /\ Free(Head(deferred)) /\ writes' = writes
    BY Zenon, <1>7 DEF FinishFree, deviceVars
  <2>2. PICK e \in Range(deferred) : e = Head(deferred)
    BY Zenon, <2>1, TailDistinct DEF IndInv, TypeOK, OneOwner
  <2>3. e \in Events /\ e \in used
    BY Zenon, <2>2, RangeInSet DEF IndInv, TypeOK, EventsExist, OneOwner
  <2>4. lastCmd[e] <= target[t] /\ target[t] <= completed
    BY Zenon, <2>1, <2>2 DEF IndInv, FinishCovers
  <2>5. \A w \in writes : w.ev # e
    BY <2>3, <2>4 DEF IndInv, TypeOK, PendingWrites, NoWriteAfterFree
  <2> QED
    BY Zenon, <1>5, <2>1, <2>2, <2>3, <2>5
<1>8. ASSUME NEW t \in Threads, Call(t),
             ~ \E k \in Kinds, w \in BOOLEAN : EnqueueBegin(t, k, w)
      PROVE  Idle
  BY Zenon, <1>1, <1>8 DEF Call, urEventRetain, urEventGetProfilingInfo, ReleaseBegin,
                    FinishBegin, poolVars, deviceVars
<1>9. ASSUME NEW t \in Threads,
             \/ EnqueueFail(t) \/ EnqueueSync(t) \/ ReleaseCheck(t)
             \/ ReleaseDefer(t) \/ FinishSync(t) \/ FinishFail(t)
             \/ FinishError(t) \/ FinishEnd(t)
      PROVE  Idle
  BY Zenon, <1>1, <1>9 DEF EnqueueFail, EnqueueSync, ReleaseCheck, ReleaseDefer,
                    FinishSync, FinishFail, FinishError, FinishEnd, poolVars,
                    deviceVars
<1>10. CASE UNCHANGED vars
  BY Zenon, <1>1, <1>10 DEF vars
<1> HIDE DEF used, writing, Idle
<1>11. ASSUME NEW t \in Threads, Step(t)
       PROVE  \/ Idle
              \/ \E b \in BOOLEAN : EnqueueAppend(t, b)
              \/ ReleaseFree(t) \/ FinishFree(t)
  BY Zenon, <1>9, <1>11 DEF Step
<1>12. ASSUME NEW t \in Threads, Fail(t) PROVE Idle
  BY Zenon, <1>9, <1>12 DEF Fail
<1> QED
  BY Zenon, <1>2, <1>3, <1>4, <1>6, <1>7, <1>8, <1>10, <1>11, <1>12 DEF Next

\* event_pool with deferred release implements the abstract allocator: an event
\* is never given out twice and never recycled under a pending device write.
THEOREM Refinement == Spec => ImplementsAllocator
<1>1. Init => Allocator!AInit
  BY EmptyRange DEF Init, Allocator!AInit
<1> QED
  BY <1>1, Invariance, StepRefines, PTL
     DEF Spec, ImplementsAllocator, Allocator!ASpec
==============================================================================

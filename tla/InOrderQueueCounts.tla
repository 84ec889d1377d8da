------------------------- MODULE InOrderQueueCounts --------------------------
(*****************************************************************************)
(* In-order queues, for any queues, kernels, threads and bounds, with any    *)
(* number of threads in a queue: the types, and the references to kernels.   *)
(*****************************************************************************)
EXTENDS InOrderQueue, FiniteSetTheorems, SequenceTheorems, TLAPS

\* Steps after which the commands of the call have the waits of its wait
\* list, and steps that go without them.
Covering == {"copy", "append", "waitOn", "waitIf"}
Bare     == {"clear", "plain", "signal"}

\* No step of s goes without the waits before one has taken them.
Safe(s) ==
  \A i \in DOMAIN s : s[i] \in Bare => \E j \in 1 .. i - 1 : s[j] \in Covering

\* What follows what in the steps of any call.
Shape(s) ==
  /\ s # <<>> /\ s[Len(s)] = "return"
  /\ \A i \in 2 .. Len(s) :
       /\ s[i] = "free" => s[i - 1] = "wait"
       /\ s[i] = "wait" => s[i - 1] = "sync"
       /\ s[i] = "args" <=> s[i - 1] = "nop"
       /\ s[i] # "nop"

\* The launch of a kernel is recorded after the append, with nothing between
\* that can fail; no other call records anything.
LaunchShape(s) ==
  \A i \in 2 .. Len(s) :
    /\ s[i - 1] = "append" => s[i] \in {"unlock", "record"}
    /\ s[i - 1] = "unlock" => s[i] = "record"

NoRecord(s) == \A i \in DOMAIN s : s[i] # "record"

\* The calls: their steps, and what they hold.
CallOK ==
  \A t \in Threads :
    IF InCall(t)
    THEN /\ Shape(todo[t])
         /\ queue[t] \in Queues
         /\ IsFiniteSet(need[t])
         /\ IF kernel[t] = NoKernel
            THEN NoRecord(todo[t])
            ELSE LaunchShape(todo[t]) /\ appRefs[kernel[t]] > 0
    ELSE queue[t] = NoQueue /\ kernel[t] = NoKernel /\ need[t] = {}

\* The references: every kernel's count, and the sets that are counted.
CountOK ==
  /\ \A k \in Kernels : IsFiniteSet(Records(k))
  /\ KernelCountExact


Inv1 == TypeOK /\ CallOK /\ CountOK

------------------------------------------------------------------------------
(* Sequences *)

\* What a sequence loses with its head.
LEMMA TailFacts ==
  ASSUME NEW S, NEW s \in Seq(S), s # <<>>
  PROVE  /\ Len(s) \in Nat \ {0} /\ DOMAIN s = 1 .. Len(s)
         /\ Head(s) = s[1] /\ Head(s) \in S
         /\ Tail(s) \in Seq(S) /\ Len(Tail(s)) = Len(s) - 1
         /\ DOMAIN Tail(s) = 1 .. Len(s) - 1
         /\ \A i \in 1 .. Len(s) - 1 : Tail(s)[i] = s[i + 1]
         /\ Len(s) > 1 => Tail(s) # <<>> /\ Head(Tail(s)) = s[2]
<1>1. Len(s) \in Nat \ {0} /\ DOMAIN s = 1 .. Len(s) /\ Head(s) = s[1] /\ Head(s) \in S
  OBVIOUS
<1>2. Tail(s) \in Seq(S) /\ Len(Tail(s)) = Len(s) - 1
  OBVIOUS
<1>3. DOMAIN Tail(s) = 1 .. Len(s) - 1 /\ \A i \in 1 .. Len(s) - 1 : Tail(s)[i] = s[i + 1]
  BY <1>1, <1>2
<1>4. Len(s) > 1 => Tail(s) # <<>>
  BY <1>1, <1>2
<1>5. Len(s) > 1 => Tail(s)[1] = s[2]
  BY <1>1, <1>3
<1> QED
  BY <1>1, <1>2, <1>3, <1>4, <1>5

\* What a sequence gains with a new last element.
LEMMA AppendFacts ==
  ASSUME NEW S, NEW s \in Seq(S), NEW e \in S
  PROVE  /\ Len(s) \in Nat /\ DOMAIN s = 1 .. Len(s)
         /\ Append(s, e) \in Seq(S) /\ Append(s, e) # <<>>
         /\ Len(Append(s, e)) = Len(s) + 1
         /\ DOMAIN Append(s, e) = 1 .. Len(s) + 1
         /\ Append(s, e)[Len(s) + 1] = e
         /\ \A i \in 1 .. Len(s) : Append(s, e)[i] = s[i]
OBVIOUS

\* Appending an element adds one place that holds it.
LEMMA AppendHits ==
  ASSUME NEW S, NEW s \in Seq(S), NEW e \in S, NEW k, NEW i
  PROVE  (i \in DOMAIN Append(s, e) /\ Append(s, e)[i] = k)
           <=> \/ i \in DOMAIN s /\ s[i] = k
               \/ i = Len(s) + 1 /\ e = k
BY AppendFacts

------------------------------------------------------------------------------
(* The steps of the functions *)

\* The steps of a function, before a blocking call synchronizes and before
\* the call returns.
Body(s) ==
  /\ s \in Seq(Steps) /\ s # <<>>
  /\ s[1] \in {"nop", "args"}
  /\ s[Len(s)] # "nop"
  /\ \A i \in 1 .. Len(s) : s[i] \notin {"free", "sync", "wait", "return"}
  /\ \A i \in 2 .. Len(s) : (s[i] = "args" <=> s[i - 1] = "nop") /\ s[i] # "nop"
  /\ Safe(s)

\* Every function takes one of the mutexes and has such steps.
LEMMA LaunchSteps ==
  ASSUME NEW f \in KernelFunctions
  PROVE  f.mutex \in {"queue", "manager"} /\ Body(f.steps)
         /\ LaunchShape(Append(f.steps, "return"))
<1> USE DEF Function, Body, Safe, Steps, Bare, Covering, LaunchShape
<1>1. CASE f = enqueueKernelLaunch
  <2>1. f.mutex \in {"queue", "manager"} /\ Body(f.steps)
    BY <1>1 DEF enqueueKernelLaunch
  <2>2. LaunchShape(Append(f.steps, "return"))
    BY <1>1 DEF enqueueKernelLaunch
  <2> QED
    BY Zenon, <2>1, <2>2
<1>2. CASE f = enqueueCooperativeKernelLaunchExp
  <2>1. f.mutex \in {"queue", "manager"} /\ Body(f.steps)
    BY <1>2 DEF enqueueCooperativeKernelLaunchExp
  <2>2. LaunchShape(Append(f.steps, "return"))
    BY <1>2 DEF enqueueCooperativeKernelLaunchExp
  <2> QED
    BY Zenon, <2>1, <2>2
<1> QED
  BY Zenon, <1>1, <1>2 DEF KernelFunctions

\* The other functions record no kernel, and their steps too end in a return.
LEMMA OtherSteps ==
  ASSUME NEW f \in BlockingFunctions \cup OtherFunctions
  PROVE  f.mutex \in {"queue", "manager"} /\ Body(f.steps) /\ NoRecord(f.steps)
<1> DEFINE Good(s) == Body(s) /\ NoRecord(s)
<1>1. /\ Good(<<"args", "append">>)
      /\ Good(<<"nop", "args", "append">>)
      /\ Good(<<"args", "pointer", "append">>)
  BY DEF Body, Safe, Steps, Bare, Covering, NoRecord
<1>2. /\ Good(<<"args", "pointer", "pointer", "append">>)
      /\ Good(<<"args", "pointer", "copy", "append">>)
  BY DEF Body, Safe, Steps, Bare, Covering, NoRecord
<1>3. /\ Good(<<"nop", "args", "waitOn", "signal">>)
      /\ Good(<<"args", "migrate", "waitIf", "signal">>)
  BY DEF Body, Safe, Steps, Bare, Covering, NoRecord
<1>4. /\ Good(<<"args", "waitOn", "clear", "migrate", "signal">>)
      /\ Good(<<"args", "waitOn", "plain", "signal">>)
  BY DEF Body, Safe, Steps, Bare, Covering, NoRecord
<1> HIDE DEF Good
<1> USE DEF Function
<1>5. ASSUME f \in BlockingFunctions
      PROVE  f.mutex \in {"queue", "manager"} /\ Good(f.steps)
  BY <1>1, <1>2, <1>3, <1>5
     DEF BlockingFunctions, enqueueMemBufferRead, enqueueMemBufferWrite,
         enqueueMemBufferReadRect, enqueueMemBufferWriteRect, enqueueUSMMemcpy,
         enqueueUSMMemcpy2D, enqueueMemImageRead, enqueueMemImageWrite,
         enqueueMemBufferMap, enqueueTimestampRecordingExp,
         appendGenericCopyUnlocked, appendRegionCopyUnlocked
<1>6. ASSUME f \in OtherFunctions
      PROVE  f.mutex \in {"queue", "manager"} /\ Good(f.steps)
  BY <1>1, <1>2, <1>3, <1>4, <1>6
     DEF OtherFunctions, enqueueMemBufferCopy, enqueueMemBufferCopyRect,
         enqueueMemImageCopy, enqueueEventsWait, enqueueEventsWaitWithBarrier,
         enqueueMemUnmap, enqueueUSMPrefetch, enqueueUSMAdvise,
         enqueueGenericCommandListsExp, enqueueFill, enqueueGenericFillUnlocked,
         appendGenericCopyUnlocked, appendRegionCopyUnlocked
<1> QED
  BY Zenon, <1>5, <1>6 DEF Good

\* The steps of a call, with the return.
LEMMA CallSteps ==
  ASSUME NEW s, Body(s)
  PROVE  LET r == Append(s, "return")
         IN  r \in Seq(Steps) /\ Shape(r) /\ Safe(r) /\ r[1] \in {"nop", "args"}
             /\ (NoRecord(s) => NoRecord(r))
<1> DEFINE r == Append(s, "return")
           n == Len(s)
<1>1. s \in Seq(Steps) /\ "return" \in Steps
  BY Zenon DEF Body, Steps
<1>2. /\ n \in Nat \ {0} /\ DOMAIN s = 1 .. n
      /\ r \in Seq(Steps) /\ r # <<>> /\ Len(r) = n + 1 /\ DOMAIN r = 1 .. n + 1
      /\ r[n + 1] = "return"
      /\ \A i \in 1 .. n : r[i] = s[i]
  BY <1>1, AppendFacts DEF Body
<1> HIDE DEF r, n
<1>3. Shape(r)
  <2>1. ASSUME NEW i \in 2 .. n + 1
        PROVE  /\ r[i] = "free" => r[i - 1] = "wait"
               /\ r[i] = "wait" => r[i - 1] = "sync"
               /\ r[i] = "args" <=> r[i - 1] = "nop"
               /\ r[i] # "nop"
    <3>1. i - 1 \in 1 .. n /\ r[i - 1] = s[i - 1]
      BY <1>2
    <3>2. CASE i = n + 1
      BY <1>2, <3>1, <3>2 DEF Body, n
    <3>3. CASE i # n + 1
      <4>1. i \in 1 .. n /\ i \in 2 .. n /\ r[i] = s[i]
        BY <1>2, <3>3
      <4> QED
        BY Zenon, <3>1, <4>1 DEF Body, n
    <3> QED
      BY Zenon, <3>2, <3>3
  <2> QED
    BY Zenon, <1>2, <2>1 DEF Shape
<1>4. Safe(r)
  <2> SUFFICES ASSUME NEW i \in 1 .. n + 1, r[i] \in Bare
               PROVE  \E j \in 1 .. i - 1 : r[j] \in Covering
    BY Zenon, <1>2 DEF Safe
  <2>1. i \in 1 .. n /\ s[i] \in Bare
    BY <1>2 DEF Bare
  <2>2. PICK j \in 1 .. i - 1 : s[j] \in Covering
    BY Zenon, <1>2, <2>1 DEF Body, Safe
  <2> QED
    BY <1>2, <2>1, <2>2
<1>5. r[1] \in {"nop", "args"}
  BY <1>2 DEF Body
<1>6. NoRecord(s) => NoRecord(r)
  BY <1>2 DEF NoRecord
<1> QED
  BY Zenon, <1>2, <1>3, <1>4, <1>5, <1>6 DEF r

\* The steps of a call that blocks, with the return.
LEMMA BlockingSteps ==
  ASSUME NEW s, Body(s)
  PROVE  LET r == Append(Blocking(s), "return")
         IN  r \in Seq(Steps) /\ Shape(r) /\ Safe(r) /\ r[1] \in {"nop", "args"}
             /\ (NoRecord(s) => NoRecord(r))
<1> DEFINE b == Blocking(s)
           r == Append(b, "return")
           n == Len(s)
<1>1. /\ s \in Seq(Steps) /\ n \in Nat \ {0} /\ DOMAIN s = 1 .. n
  BY DEF Body
<1>2. /\ b \in Seq(Steps) /\ Len(b) = n + 2
      /\ \A i \in 1 .. n : b[i] = s[i]
      /\ b[n + 1] = "sync" /\ b[n + 2] = "wait"
  <2> DEFINE w == <<"sync", "wait">>
  <2>1. w \in Seq(Steps) /\ Len(w) = 2 /\ w[1] = "sync" /\ w[2] = "wait"
    BY DEF Steps
  <2> HIDE DEF w
  <2>2. /\ s \o w \in Seq(Steps)
        /\ Len(s \o w) = Len(s) + Len(w)
        /\ \A i \in 1 .. Len(s) + Len(w) :
             (s \o w)[i] = IF i <= Len(s) THEN s[i] ELSE w[i - Len(s)]
    BY <1>1, <2>1, ConcatProperties, Zenon
  <2>3. /\ \A i \in 1 .. n : (s \o w)[i] = s[i]
        /\ (s \o w)[n + 1] = w[1] /\ (s \o w)[n + 2] = w[2]
    BY <1>1, <2>1, <2>2
  <2> QED
    BY Zenon, <1>1, <2>1, <2>2, <2>3 DEF Blocking, w
<1>3. /\ r \in Seq(Steps) /\ r # <<>> /\ Len(r) = n + 3 /\ DOMAIN r = 1 .. n + 3
      /\ \A i \in 1 .. n : r[i] = s[i]
      /\ r[n + 1] = "sync" /\ r[n + 2] = "wait" /\ r[n + 3] = "return"
  <2>1. "return" \in Steps
    BY Zenon DEF Steps
  <2> QED
    BY <1>1, <1>2, <2>1, AppendFacts
<1> HIDE DEF r, b, n
<1>4. Shape(r)
  <2>1. ASSUME NEW i \in 2 .. n + 3
        PROVE  /\ r[i] = "free" => r[i - 1] = "wait"
               /\ r[i] = "wait" => r[i - 1] = "sync"
               /\ r[i] = "args" <=> r[i - 1] = "nop"
               /\ r[i] # "nop"
    <3>1. CASE i \in 2 .. n
      <4>1. i - 1 \in 1 .. n /\ i \in 1 .. n /\ r[i] = s[i] /\ r[i - 1] = s[i - 1]
        BY <1>1, <1>3, <3>1
      <4> QED
        BY Zenon, <3>1, <4>1 DEF Body, n
    <3>2. CASE i = n + 1
      <4>1. r[i - 1] = s[n]
        BY <1>1, <1>3, <3>2
      <4> QED
        BY Zenon, <1>3, <3>2, <4>1 DEF Body, n
    <3>3. CASE i \in {n + 2, n + 3}
      BY <1>1, <1>3, <3>3
    <3> QED
      BY <1>1, <3>1, <3>2, <3>3
  <2> QED
    BY Zenon, <1>3, <2>1 DEF Shape
<1>5. Safe(r)
  <2> SUFFICES ASSUME NEW i \in 1 .. n + 3, r[i] \in Bare
               PROVE  \E j \in 1 .. i - 1 : r[j] \in Covering
    BY Zenon, <1>3 DEF Safe
  <2>1. i \in 1 .. n /\ s[i] \in Bare
    BY <1>1, <1>3 DEF Bare
  <2>2. PICK j \in 1 .. i - 1 : s[j] \in Covering
    BY Zenon, <1>1, <2>1 DEF Body, Safe
  <2> QED
    BY <1>1, <1>3, <2>1, <2>2
<1>6. r[1] \in {"nop", "args"}
  BY <1>1, <1>3 DEF Body
<1>7. NoRecord(s) => NoRecord(r)
  BY <1>1, <1>3 DEF NoRecord
<1> QED
  BY Zenon, <1>3, <1>4, <1>5, <1>6, <1>7 DEF r, b

\* What is left of the steps of a call after one that is not the return.
LEMMA ShapeTail ==
  ASSUME NEW s \in Seq(Steps), Shape(s), Head(s) # "return"
  PROVE  /\ Tail(s) \in Seq(Steps) /\ Tail(s) # <<>> /\ Shape(Tail(s))
         /\ Head(Tail(s)) = s[2] /\ Len(s) > 1
         /\ LaunchShape(s) => LaunchShape(Tail(s))
         /\ NoRecord(s) => NoRecord(Tail(s))
         /\ Safe(s) /\ Head(s) \notin Covering => Safe(Tail(s))
<1> DEFINE r == Tail(s)
           n == Len(s)
<1>1. s # <<>>
  BY Zenon DEF Shape
<1>2. n \in Nat /\ n > 1
  BY <1>1, TailFacts DEF Shape
<1>3. /\ r \in Seq(Steps) /\ r # <<>> /\ Len(r) = n - 1 /\ DOMAIN r = 1 .. n - 1
      /\ DOMAIN s = 1 .. n /\ Head(s) = s[1] /\ Head(r) = s[2]
      /\ \A i \in 1 .. n - 1 : r[i] = s[i + 1]
  BY Zenon, <1>1, <1>2, TailFacts
<1> HIDE DEF r, n
<1>4. \A i \in 2 .. n - 1 : i + 1 \in 2 .. n /\ r[i] = s[i + 1] /\ r[i - 1] = s[(i + 1) - 1]
  <2>1. \A i \in 2 .. n - 1 : /\ i + 1 \in 2 .. n /\ i \in 1 .. n - 1 /\ i - 1 \in 1 .. n - 1
                              /\ (i - 1) + 1 = (i + 1) - 1
    BY ONLY <1>2
  <2> QED
    BY Zenon, <1>3, <2>1
<1>5. Shape(r)
  <2>1. r[Len(r)] = "return"
    BY <1>2, <1>3 DEF Shape, n
  <2> QED
    BY <1>3, <1>4, <2>1 DEF Shape, n
<1>6. LaunchShape(s) => LaunchShape(r)
  BY <1>3, <1>4 DEF LaunchShape, n
<1>7. NoRecord(s) => NoRecord(r)
  <2>1. \A i \in 1 .. n - 1 : i + 1 \in 1 .. n
    BY ONLY <1>2
  <2> QED
    BY Zenon, <1>3, <2>1 DEF NoRecord
<1>8. ASSUME Safe(s), Head(s) \notin Covering
      PROVE  Safe(r)
  <2> SUFFICES ASSUME NEW i \in 1 .. n - 1, r[i] \in Bare
               PROVE  \E j \in 1 .. i - 1 : r[j] \in Covering
    BY Zenon, <1>3 DEF Safe
  <2>1. PICK j \in 1 .. (i + 1) - 1 : s[j] \in Covering
    BY <1>2, <1>3, <1>8 DEF Safe
  <2>2. j # 1
    BY Zenon, <1>3, <1>8, <2>1
  <2>3. j - 1 \in 1 .. i - 1 /\ r[j - 1] = s[j]
    BY <1>2, <1>3, <2>1, <2>2
  <2> QED
    BY Zenon, <2>1, <2>3
<1> QED
  BY Zenon, <1>2, <1>3, <1>5, <1>6, <1>7, <1>8 DEF r, n

------------------------------------------------------------------------------
(* Calls that go on and calls that return *)

\* A call does a step that is not the return.
LEMMA MoveKeeps ==
  ASSUME TypeOK, CallOK, NEW t \in Threads, InCall(t), Head(todo[t]) # "return",
         Advance(t), UNCHANGED <<queue, kernel, need, appRefs>>
  PROVE  /\ CallOK'
         /\ todo' \in [Threads -> Seq(Steps)]
         /\ todo'[t] = Tail(todo[t]) /\ InCall(t)' /\ Head(todo'[t]) = todo[t][2]
         /\ Len(todo[t]) > 1
         /\ Safe(todo[t]) /\ Head(todo[t]) \notin Covering => Safe(todo'[t])
         /\ \A u \in Threads : u # t => todo'[u] = todo[u]
         /\ \A u \in Threads : InCall(u)' <=> InCall(u)
<1>1. todo[t] \in Seq(Steps) /\ Shape(todo[t])
  BY Zenon DEF TypeOK, CallOK
<1>2. /\ Tail(todo[t]) \in Seq(Steps) /\ Tail(todo[t]) # <<>> /\ Shape(Tail(todo[t]))
      /\ Head(Tail(todo[t])) = todo[t][2] /\ Len(todo[t]) > 1
      /\ LaunchShape(todo[t]) => LaunchShape(Tail(todo[t]))
      /\ NoRecord(todo[t]) => NoRecord(Tail(todo[t]))
      /\ Safe(todo[t]) /\ Head(todo[t]) \notin Covering => Safe(Tail(todo[t]))
  BY Zenon, <1>1, ShapeTail
<1>3. /\ todo' \in [Threads -> Seq(Steps)]
      /\ todo'[t] = Tail(todo[t])
      /\ \A u \in Threads : u # t => todo'[u] = todo[u]
  BY Zenon, <1>2 DEF TypeOK, Advance
<1>4. InCall(t)' /\ \A u \in Threads : InCall(u)' <=> InCall(u)
  BY Zenon, <1>2, <1>3 DEF InCall
<1>5. ASSUME NEW u \in Threads
      PROVE  IF InCall(u)'
             THEN /\ Shape(todo'[u])
                  /\ queue'[u] \in Queues
                  /\ IsFiniteSet(need'[u])
                  /\ IF kernel'[u] = NoKernel
                     THEN NoRecord(todo'[u])
                     ELSE LaunchShape(todo'[u]) /\ appRefs'[kernel'[u]] > 0
             ELSE queue'[u] = NoQueue /\ kernel'[u] = NoKernel /\ need'[u] = {}
  <2>1. CASE u = t
    BY Zenon, <1>2, <1>3, <1>4, <2>1 DEF CallOK
  <2>2. CASE u # t
    BY Zenon, <1>3, <1>4, <2>2 DEF CallOK
  <2> QED
    BY Zenon, <2>1, <2>2
<1>6. CallOK'
  BY Zenon, <1>5 DEF CallOK
<1> QED
  BY Zenon, <1>2, <1>3, <1>4, <1>6

\* A call returns.
LEMMA LeaveKeeps ==
  ASSUME TypeOK, CallOK, NEW t \in Threads, Leave(t), UNCHANGED appRefs
  PROVE  /\ CallOK'
         /\ todo' \in [Threads -> Seq(Steps)]
         /\ lock' \in [Threads -> {"queue", "manager", "none"}]
         /\ queue' \in [Threads -> Queues \cup {NoQueue}]
         /\ kernel' \in [Threads -> Kernels \cup {NoKernel}]
         /\ need' \in [Threads -> SUBSET Event]
         /\ view' \in [Threads -> [handles : BOOLEAN, num : Nat]]
         /\ signal' \in [Threads -> Nat \cup {NotWanted}]
         /\ target' \in [Threads -> Nat]
         /\ ~InCall(t)'
         /\ \A u \in Threads : u # t =>
              /\ todo'[u] = todo[u] /\ queue'[u] = queue[u]
              /\ kernel'[u] = kernel[u] /\ need'[u] = need[u]
              /\ view'[u] = view[u] /\ target'[u] = target[u]
<1>1. /\ todo' \in [Threads -> Seq(Steps)]
      /\ todo'[t] = <<>> /\ queue'[t] = NoQueue /\ kernel'[t] = NoKernel /\ need'[t] = {}
  BY DEF TypeOK, Leave
<1>2. /\ lock' \in [Threads -> {"queue", "manager", "none"}]
      /\ queue' \in [Threads -> Queues \cup {NoQueue}]
      /\ kernel' \in [Threads -> Kernels \cup {NoKernel}]
  BY Zenon DEF TypeOK, Leave
<1>3. /\ need' \in [Threads -> SUBSET Event]
      /\ signal' \in [Threads -> Nat \cup {NotWanted}]
      /\ target' \in [Threads -> Nat]
  BY Zenon DEF TypeOK, Leave
<1>4. view' \in [Threads -> [handles : BOOLEAN, num : Nat]]
  BY Zenon DEF TypeOK, Leave, Cleared
<1>5. \A u \in Threads : u # t =>
        /\ todo'[u] = todo[u] /\ queue'[u] = queue[u]
        /\ kernel'[u] = kernel[u] /\ need'[u] = need[u]
        /\ view'[u] = view[u] /\ target'[u] = target[u]
  BY Zenon DEF TypeOK, Leave
<1>6. CallOK'
  <2> SUFFICES ASSUME NEW u \in Threads
               PROVE  IF InCall(u)'
                      THEN /\ Shape(todo'[u])
                           /\ queue'[u] \in Queues
                           /\ IsFiniteSet(need'[u])
                           /\ IF kernel'[u] = NoKernel
                              THEN NoRecord(todo'[u])
                              ELSE LaunchShape(todo'[u]) /\ appRefs'[kernel'[u]] > 0
                      ELSE queue'[u] = NoQueue /\ kernel'[u] = NoKernel /\ need'[u] = {}
    BY Zenon DEF CallOK
  <2>1. CASE u = t
    BY Zenon, <1>1, <2>1 DEF InCall
  <2>2. CASE u # t
    BY Zenon, <1>5, <2>2 DEF CallOK, InCall
  <2> QED
    BY Zenon, <2>1, <2>2
<1>7. ~InCall(t)'
  BY Zenon, <1>1 DEF InCall
<1> QED
  BY Zenon, <1>1, <1>2, <1>3, <1>4, <1>5, <1>6, <1>7

\* A step that leaves the kernels alone.
LEMMA CountKept ==
  ASSUME CountOK, UNCHANGED <<submitted, refCount, appRefs>>
  PROVE  CountOK'
BY DEF CountOK, KernelCountExact, Records

\* The events a call sees through its view, and the commands it appends.
LEMMA CommandTypes ==
  ASSUME TypeOK, NEW t \in Threads, queue[t] \in Queues
  PROVE  /\ Viewed(t) \in SUBSET Event
         /\ \A k \in Kernels \cup {NoKernel}, W \in SUBSET Event :
              /\ Command(t, k, W) \in Commands
              /\ SignallingCommand(t, k, W) \in Commands
              /\ Command(t, k, W).kernel = k /\ SignallingCommand(t, k, W).kernel = k
              /\ Command(t, k, W).waits = W /\ SignallingCommand(t, k, W).waits = W
              /\ Command(t, k, W).need = need[t]
              /\ SignallingCommand(t, k, W).need = need[t]
<1>1. Viewed(t) \in SUBSET Event
  BY Zenon DEF TypeOK, Viewed
<1>2. need[t] \in SUBSET Event
  BY Zenon DEF TypeOK
<1> QED
  BY Zenon, <1>1, <1>2 DEF Command, SignallingCommand, Commands

\* A command is appended to the queue of the call.
LEMMA AppendTypes ==
  ASSUME TypeOK, NEW t \in Threads, queue[t] \in Queues, NEW c \in Commands,
         AppendCommand(t, c)
  PROVE  /\ cmds' \in [Queues -> Seq(Commands)]
         /\ Position(queue[t]) + 1 \in Nat
         /\ cmds'[queue[t]] = Append(cmds[queue[t]], c)
         /\ \A q \in Queues : q # queue[t] => cmds'[q] = cmds[q]
<1>1. cmds[queue[t]] \in Seq(Commands) /\ completed[queue[t]] \in Nat
  BY Zenon DEF TypeOK
<1>2. Append(cmds[queue[t]], c) \in Seq(Commands) /\ Len(cmds[queue[t]]) \in Nat
  BY <1>1
<1> QED
  BY <1>1, <1>2 DEF TypeOK, AppendCommand, Position

------------------------------------------------------------------------------
(* Types and counts *)

\* getDevicePtr appends nothing.
LEMMA PointerKeeps1 ==
  ASSUME Inv1, NEW t \in Threads, Pointer(t)
  PROVE  Inv1'
<1> USE InOrderQueueAssumption
<1>1. InCall(t) /\ Head(todo[t]) # "return" /\ queue[t] \in Queues
  BY Zenon DEF Inv1, CallOK, At, Pointer
<1>2. Advance(t) /\ UNCHANGED <<queue, kernel, need, submitted, refCount, appRefs>>
  BY Zenon DEF Pointer, deviceVars, kernelVars, callVars
<1>3. CallOK' /\ todo' \in [Threads -> Seq(Steps)] /\ CountOK'
  BY Zenon, <1>1, <1>2, MoveKeeps, CountKept DEF Inv1
<1> QED
  BY Zenon, <1>1, <1>2, <1>3 DEF Inv1, TypeOK, Pointer, deviceVars, kernelVars, callVars

\* A synchronize returns.
LEMMA WaitKeeps1 ==
  ASSUME Inv1, NEW t \in Threads, Wait(t)
  PROVE  Inv1'
<1> USE InOrderQueueAssumption
<1>1. InCall(t) /\ Head(todo[t]) # "return" /\ queue[t] \in Queues
  BY Zenon DEF Inv1, CallOK, At, Wait
<1>2. Advance(t) /\ UNCHANGED <<queue, kernel, need, submitted, refCount, appRefs>>
  BY Zenon DEF Wait, deviceVars, kernelVars, callVars
<1>3. CallOK' /\ todo' \in [Threads -> Seq(Steps)] /\ CountOK'
  BY Zenon, <1>1, <1>2, MoveKeeps, CountKept DEF Inv1
<1> QED
  BY Zenon, <1>1, <1>2, <1>3 DEF Inv1, TypeOK, Wait, deviceVars, kernelVars, callVars

\* The manager's mutex is released.
LEMMA UnlockKeeps1 ==
  ASSUME Inv1, NEW t \in Threads, Unlock(t)
  PROVE  Inv1'
<1> USE InOrderQueueAssumption
<1>1. InCall(t) /\ Head(todo[t]) # "return" /\ queue[t] \in Queues
  BY Zenon DEF Inv1, CallOK, At, Unlock
<1>2. Advance(t) /\ UNCHANGED <<queue, kernel, need, submitted, refCount, appRefs>>
  BY Zenon DEF Unlock, deviceVars, kernelVars, callVars
<1>3. CallOK' /\ todo' \in [Threads -> Seq(Steps)] /\ CountOK'
  BY Zenon, <1>1, <1>2, MoveKeeps, CountKept DEF Inv1
<1>4. lock' \in [Threads -> {"queue", "manager", "none"}]
  BY Zenon DEF Inv1, TypeOK, Unlock
<1> QED
  BY Zenon, <1>1, <1>2, <1>3, <1>4 DEF Inv1, TypeOK, Unlock, deviceVars, kernelVars, callVars

\* The view is cleared.
LEMMA ClearKeeps1 ==
  ASSUME Inv1, NEW t \in Threads, Clear(t)
  PROVE  Inv1'
<1> USE InOrderQueueAssumption
<1>1. InCall(t) /\ Head(todo[t]) # "return" /\ queue[t] \in Queues
  BY Zenon DEF Inv1, CallOK, At, Clear
<1>2. Advance(t) /\ UNCHANGED <<queue, kernel, need, submitted, refCount, appRefs>>
  BY Zenon DEF Clear, deviceVars, kernelVars, callVars
<1>3. CallOK' /\ todo' \in [Threads -> Seq(Steps)] /\ CountOK'
  BY Zenon, <1>1, <1>2, MoveKeeps, CountKept DEF Inv1
<1>4. view' \in [Threads -> [handles : BOOLEAN, num : Nat]]
  BY Zenon DEF Inv1, TypeOK, Clear, ClearView, Cleared
<1> QED
  BY Zenon, <1>1, <1>2, <1>3, <1>4 DEF Inv1, TypeOK, Clear, deviceVars, kernelVars, callVars

\* A synchronize starts.
LEMMA SyncKeeps1 ==
  ASSUME Inv1, NEW t \in Threads, Sync(t)
  PROVE  Inv1'
<1> USE InOrderQueueAssumption
<1>1. InCall(t) /\ Head(todo[t]) # "return" /\ queue[t] \in Queues
  BY Zenon DEF Inv1, CallOK, At, Sync
<1>2. Advance(t) /\ UNCHANGED <<queue, kernel, need, submitted, refCount, appRefs>>
  BY Zenon DEF Sync, deviceVars, kernelVars, callVars
<1>3. CallOK' /\ todo' \in [Threads -> Seq(Steps)] /\ CountOK'
  BY Zenon, <1>1, <1>2, MoveKeeps, CountKept DEF Inv1
<1>4. Position(queue[t]) \in Nat
  <2>1. cmds[queue[t]] \in Seq(Commands) /\ completed[queue[t]] \in Nat
    BY Zenon, <1>1 DEF Inv1, TypeOK
  <2> QED
    BY <2>1 DEF Position
<1>5. target' \in [Threads -> Nat]
  BY Zenon, <1>4 DEF Inv1, TypeOK, Sync
<1> QED
  BY Zenon, <1>1, <1>2, <1>3, <1>5 DEF Inv1, TypeOK, Sync, deviceVars, kernelVars, callVars

\* The view is made from the wait list.
LEMMA ArgsKeeps1 ==
  ASSUME Inv1, NEW t \in Threads, Args(t)
  PROVE  Inv1'
<1> USE InOrderQueueAssumption
<1>1. InCall(t) /\ Head(todo[t]) # "return" /\ queue[t] \in Queues
  BY Zenon DEF Inv1, CallOK, At, Args
<1>2. Advance(t) /\ UNCHANGED <<queue, kernel, need, submitted, refCount, appRefs>>
  BY Zenon DEF Args, deviceVars, kernelVars, callVars
<1>3. CallOK' /\ todo' \in [Threads -> Seq(Steps)] /\ CountOK'
  BY Zenon, <1>1, <1>2, MoveKeeps, CountKept DEF Inv1
<1>4. Cardinality(need[t]) \in Nat /\ need[t] \in SUBSET Event
  BY Zenon, <1>1, FS_CardinalityType DEF Inv1, TypeOK, CallOK
<1>5. /\ waitList' \in [Queues -> SUBSET Event]
      /\ allocated' \in [Queues -> BOOLEAN]
  BY Zenon, <1>1, <1>4 DEF Inv1, TypeOK, Args
<1>6. allocated'[queue[t]] \in BOOLEAN
  BY Zenon, <1>1, <1>5
<1>7. view' \in [Threads -> [handles : BOOLEAN, num : Nat]]
  BY Zenon, <1>4, <1>6 DEF Inv1, TypeOK, Args
<1> QED
  BY Zenon, <1>1, <1>2, <1>3, <1>5, <1>7 DEF Inv1, TypeOK, Args, deviceVars, kernelVars,
                                             callVars

\* A map or an unmap copies, or has nothing to copy.
LEMMA MigrateKeeps1 ==
  ASSUME Inv1, NEW t \in Threads, Migrate(t)
  PROVE  Inv1'
<1> USE InOrderQueueAssumption
<1>1. InCall(t) /\ Head(todo[t]) # "return" /\ queue[t] \in Queues
  BY Zenon DEF Inv1, CallOK, At, Migrate
<1>2. Advance(t) /\ UNCHANGED <<queue, kernel, need, submitted, refCount, appRefs>>
  BY Zenon DEF Migrate, deviceVars, kernelVars, callVars
<1>3. CallOK' /\ todo' \in [Threads -> Seq(Steps)] /\ CountOK'
  BY Zenon, <1>1, <1>2, MoveKeeps, CountKept DEF Inv1
<1>4. cmds' \in [Queues -> Seq(Commands)]
  BY Zenon, <1>1, CommandTypes, AppendTypes DEF Inv1, TypeOK, Migrate
<1>5. view' \in [Threads -> [handles : BOOLEAN, num : Nat]]
  <2>1. Cleared \in [handles : BOOLEAN, num : Nat]
    BY Zenon DEF Cleared
  <2> QED
    BY Zenon, <2>1 DEF Inv1, TypeOK, Migrate, ClearView
<1> QED
  BY Zenon, <1>1, <1>2, <1>3, <1>4, <1>5 DEF Inv1, TypeOK, Migrate, deviceVars, kernelVars,
                                             callVars

\* A copy of an emulated fill.
LEMMA CopyKeeps1 ==
  ASSUME Inv1, NEW t \in Threads, Copy(t)
  PROVE  Inv1'
<1> USE InOrderQueueAssumption
<1>1. InCall(t) /\ Head(todo[t]) # "return" /\ queue[t] \in Queues
  BY Zenon DEF Inv1, CallOK, At, Copy
<1>2. Advance(t) /\ UNCHANGED <<queue, kernel, need, submitted, refCount, appRefs>>
  BY Zenon DEF Copy, deviceVars, kernelVars, callVars
<1>3. CallOK' /\ todo' \in [Threads -> Seq(Steps)] /\ CountOK'
  BY Zenon, <1>1, <1>2, MoveKeeps, CountKept DEF Inv1
<1>4. cmds' \in [Queues -> Seq(Commands)]
  BY Zenon, <1>1, CommandTypes, AppendTypes DEF Inv1, TypeOK, Copy
<1>5. view' \in [Threads -> [handles : BOOLEAN, num : Nat]]
  BY Zenon DEF Inv1, TypeOK, Copy, ClearView, Cleared
<1> QED
  BY Zenon, <1>1, <1>2, <1>3, <1>4, <1>5 DEF Inv1, TypeOK, Copy, deviceVars, kernelVars,
                                             callVars

\* The command itself is appended.
LEMMA AppendMainKeeps1 ==
  ASSUME Inv1, NEW t \in Threads, AppendMain(t)
  PROVE  Inv1'
<1> USE InOrderQueueAssumption
<1>1. InCall(t) /\ Head(todo[t]) # "return" /\ queue[t] \in Queues
  BY Zenon DEF Inv1, CallOK, At, AppendMain
<1>2. Advance(t) /\ UNCHANGED <<queue, kernel, need, submitted, refCount, appRefs>>
  BY Zenon DEF AppendMain, deviceVars, kernelVars, callVars
<1>3. CallOK' /\ todo' \in [Threads -> Seq(Steps)] /\ CountOK'
  BY Zenon, <1>1, <1>2, MoveKeeps, CountKept DEF Inv1
<1>4. kernel[t] \in Kernels \cup {NoKernel}
  BY Zenon DEF Inv1, TypeOK
<1>5. cmds' \in [Queues -> Seq(Commands)] /\ NextPosition(t) \in Nat
  BY Zenon, <1>1, <1>4, CommandTypes, AppendTypes DEF Inv1, AppendMain, NextPosition
<1>6. signal' \in [Threads -> Nat \cup {NotWanted}]
  BY Zenon, <1>5 DEF Inv1, TypeOK, AppendMain
<1> QED
  BY Zenon, <1>1, <1>2, <1>3, <1>5, <1>6 DEF Inv1, TypeOK, AppendMain, deviceVars, kernelVars,
                                             callVars

\* A wait on the view.
LEMMA WaitOnKeeps1 ==
  ASSUME Inv1, NEW t \in Threads, WaitOn(t)
  PROVE  Inv1'
<1> USE InOrderQueueAssumption
<1>1. InCall(t) /\ Head(todo[t]) # "return" /\ queue[t] \in Queues
  BY Zenon DEF Inv1, CallOK, At, WaitOn
<1>2. Advance(t) /\ UNCHANGED <<queue, kernel, need, submitted, refCount, appRefs>>
  BY Zenon DEF WaitOn, deviceVars, kernelVars, callVars
<1>3. CallOK' /\ todo' \in [Threads -> Seq(Steps)] /\ CountOK'
  BY Zenon, <1>1, <1>2, MoveKeeps, CountKept DEF Inv1
<1>4. cmds' \in [Queues -> Seq(Commands)]
  BY Zenon, <1>1, CommandTypes, AppendTypes DEF Inv1, TypeOK, WaitOn
<1> QED
  BY Zenon, <1>1, <1>2, <1>3, <1>4 DEF Inv1, TypeOK, WaitOn, deviceVars, kernelVars, callVars

\* A command without waits.
LEMMA PlainKeeps1 ==
  ASSUME Inv1, NEW t \in Threads, Plain(t)
  PROVE  Inv1'
<1> USE InOrderQueueAssumption
<1>1. InCall(t) /\ Head(todo[t]) # "return" /\ queue[t] \in Queues
  BY Zenon DEF Inv1, CallOK, At, Plain
<1>2. Advance(t) /\ UNCHANGED <<queue, kernel, need, submitted, refCount, appRefs>>
  BY Zenon DEF Plain, deviceVars, kernelVars, callVars
<1>3. CallOK' /\ todo' \in [Threads -> Seq(Steps)] /\ CountOK'
  BY Zenon, <1>1, <1>2, MoveKeeps, CountKept DEF Inv1
<1>4. cmds' \in [Queues -> Seq(Commands)]
  BY Zenon, <1>1, CommandTypes, AppendTypes DEF Inv1, TypeOK, Plain
<1> QED
  BY Zenon, <1>1, <1>2, <1>3, <1>4 DEF Inv1, TypeOK, Plain, deviceVars, kernelVars, callVars

\* The signal event alone, if there is one.
LEMMA SignalEventKeeps1 ==
  ASSUME Inv1, NEW t \in Threads, SignalEvent(t)
  PROVE  Inv1'
<1> USE InOrderQueueAssumption
<1>1. InCall(t) /\ Head(todo[t]) # "return" /\ queue[t] \in Queues
  BY Zenon DEF Inv1, CallOK, At, SignalEvent
<1>2. Advance(t) /\ UNCHANGED <<queue, kernel, need, submitted, refCount, appRefs>>
  BY Zenon DEF SignalEvent, deviceVars, kernelVars, callVars
<1>3. CallOK' /\ todo' \in [Threads -> Seq(Steps)] /\ CountOK'
  BY Zenon, <1>1, <1>2, MoveKeeps, CountKept DEF Inv1
<1>4. CASE signal[t] = Wanted
  <2>1. cmds' \in [Queues -> Seq(Commands)] /\ NextPosition(t) \in Nat
    BY Zenon, <1>1, <1>4, CommandTypes, AppendTypes DEF Inv1, SignalEvent, NextPosition
  <2>2. signal' \in [Threads -> Nat \cup {NotWanted}]
    BY Zenon, <1>4, <2>1 DEF Inv1, TypeOK, SignalEvent
  <2> QED
    BY Zenon, <1>1, <1>2, <1>3, <2>1, <2>2 DEF Inv1, TypeOK, SignalEvent, deviceVars,
                                               kernelVars, callVars
<1>5. CASE signal[t] # Wanted
  BY Zenon, <1>1, <1>2, <1>3, <1>5 DEF Inv1, TypeOK, SignalEvent, deviceVars, kernelVars,
                                       callVars
<1> QED
  BY Zenon, <1>1, <1>2, <1>3, <1>4, <1>5 DEF Inv1, TypeOK, SignalEvent, deviceVars, kernelVars,
                                             callVars

\* A call leaves: it returns, has nothing to do, or fails.
LEMMA LeaveKeeps1 ==
  ASSUME Inv1, NEW t \in Threads, Leave(t),
         UNCHANGED <<deviceVars, waitList, allocated, kernelVars>>
  PROVE  Inv1'
<1> USE DEF deviceVars, kernelVars
<1>1. CountOK'
  BY Zenon, CountKept DEF Inv1
<1> QED
  BY Zenon, <1>1, LeaveKeeps DEF Inv1, TypeOK

\* enqueueEventsWait returns at once, or goes on.
LEMMA NopKeeps1 ==
  ASSUME Inv1, NEW t \in Threads, Nop(t)
  PROVE  Inv1'
<1>1. CASE Leave(t)
  BY Zenon, <1>1, LeaveKeeps1 DEF Nop
<1>2. CASE Advance(t) /\ UNCHANGED <<callVars, view>>
  <2>1. InCall(t) /\ Head(todo[t]) # "return"
    BY Zenon DEF Nop, At
  <2>2. CallOK' /\ todo' \in [Threads -> Seq(Steps)] /\ CountOK'
    BY Zenon, <1>2, <2>1, MoveKeeps, CountKept DEF Inv1, Nop, callVars, kernelVars
  <2> QED
    BY Zenon, <1>2, <2>2 DEF Inv1, TypeOK, Nop, deviceVars, kernelVars, callVars
<1> QED
  BY Zenon, <1>1, <1>2 DEF Nop

\* The device completes a command.
LEMMA DeviceCompleteKeeps1 ==
  ASSUME Inv1, NEW q \in Queues, DeviceComplete(q)
  PROVE  Inv1'
<1> USE DEF deviceVars, kernelVars, callVars
<1>1. cmds[q] \in Seq(Commands) /\ cmds[q] # <<>>
  BY Zenon DEF Inv1, TypeOK, DeviceComplete, Runnable
<1>2. cmds' \in [Queues -> Seq(Commands)] /\ completed' \in [Queues -> Nat]
  BY <1>1, TailFacts DEF Inv1, TypeOK, DeviceComplete
<1>3. CallOK'
  BY Zenon DEF Inv1, CallOK, InCall, DeviceComplete
<1>4. CountOK'
  BY Zenon, CountKept DEF Inv1, DeviceComplete
<1> QED
  BY Zenon, <1>2, <1>3, <1>4 DEF Inv1, TypeOK, DeviceComplete

\* The wait lists an application passes.
LEMMA WaitListTypes ==
  ASSUME TypeOK, NEW w \in WaitLists
  PROVE  w \in SUBSET Event /\ IsFiniteSet(w)
<1>1. ASSUME NEW q \in Queues, NEW n \in completed[q] + 1 .. Position(q)
      PROVE  <<q, n>> \in Event
  <2>1. completed[q] \in Nat /\ Len(cmds[q]) \in Nat
    BY DEF TypeOK
  <2>2. n \in Nat \ {0}
    BY <2>1 DEF Position
  <2> QED
    BY Zenon, <2>2 DEF Event
<1>2. Events \subseteq Event
  BY <1>1 DEF Events
<1>3. w = {} \/ \E e \in Events : w = {e}
  BY Zenon DEF WaitLists
<1> QED
  BY <1>2, <1>3, FS_EmptySet, FS_Singleton

\* A call begins, with steps that have the right shape.
LEMMA BeginKeeps1 ==
  ASSUME Inv1, NEW t \in Threads, NEW q \in Queues, NEW f, NEW s,
         NEW k \in Kernels \cup {NoKernel}, NEW w \in WaitLists,
         NEW i \in {NotWanted, Wanted},
         f.mutex \in {"queue", "manager"},
         Append(s, "return") \in Seq(Steps), Shape(Append(s, "return")),
         IF k = NoKernel THEN NoRecord(Append(s, "return"))
                         ELSE LaunchShape(Append(s, "return")),
         Begin(t, q, f, s, k, w, i)
  PROVE  Inv1'
<1> USE InOrderQueueAssumption DEF deviceVars, kernelVars
<1> DEFINE r == Append(s, "return")
<1>1. w \in SUBSET Event /\ IsFiniteSet(w)
  BY Zenon, WaitListTypes DEF Inv1
<1>2. r # <<>>
  BY Zenon DEF Shape
<1> HIDE DEF r
<1>3. /\ todo' = [todo EXCEPT ![t] = r]
      /\ r \in Seq(Steps) /\ Shape(r)
      /\ IF k = NoKernel THEN NoRecord(r) ELSE LaunchShape(r)
  BY Zenon DEF Begin, r
<1>4. todo' \in [Threads -> Seq(Steps)]
  BY Zenon, <1>3 DEF Inv1, TypeOK
<1>5. /\ lock' \in [Threads -> {"queue", "manager", "none"}]
      /\ queue' \in [Threads -> Queues \cup {NoQueue}]
      /\ kernel' \in [Threads -> Kernels \cup {NoKernel}]
  BY Zenon DEF Inv1, TypeOK, Begin
<1>6. /\ need' \in [Threads -> SUBSET Event]
      /\ signal' \in [Threads -> Nat \cup {NotWanted}]
  BY <1>1 DEF Inv1, TypeOK, Begin, Wanted
<1>7. CallOK'
  <2> SUFFICES ASSUME NEW u \in Threads
               PROVE  IF InCall(u)'
                      THEN /\ Shape(todo'[u])
                           /\ queue'[u] \in Queues
                           /\ IsFiniteSet(need'[u])
                           /\ IF kernel'[u] = NoKernel
                              THEN NoRecord(todo'[u])
                              ELSE LaunchShape(todo'[u]) /\ appRefs'[kernel'[u]] > 0
                      ELSE queue'[u] = NoQueue /\ kernel'[u] = NoKernel /\ need'[u] = {}
    BY Zenon DEF CallOK
  <2>1. CASE u = t
    <3>1. /\ todo'[u] = r /\ queue'[u] = q /\ kernel'[u] = k /\ need'[u] = w
          /\ appRefs' = appRefs /\ InCall(u)'
      BY Zenon, <1>2, <1>3, <2>1 DEF Inv1, TypeOK, Begin, InCall
    <3>2. k # NoKernel => appRefs[k] > 0
      BY Zenon DEF Begin
    <3> QED
      BY Zenon, <1>1, <1>3, <3>1, <3>2
  <2>2. CASE u # t
    <3>1. /\ todo'[u] = todo[u] /\ queue'[u] = queue[u] /\ kernel'[u] = kernel[u]
          /\ need'[u] = need[u] /\ appRefs' = appRefs
      BY Zenon, <2>2 DEF Inv1, TypeOK, Begin
    <3> QED
      BY Zenon, <3>1 DEF Inv1, CallOK, InCall
  <2> QED
    BY Zenon, <2>1, <2>2
<1>8. CountOK'
  BY Zenon, CountKept DEF Inv1, Begin
<1> QED
  BY Zenon, <1>4, <1>5, <1>6, <1>7, <1>8 DEF Inv1, TypeOK, Begin

\* A launch is recorded: the kernel gets the reference that is counted.
LEMMA recordSubmittedKernelKeeps1 ==
  ASSUME Inv1, NEW t \in Threads, recordSubmittedKernel(t)
  PROVE  Inv1'
<1> USE InOrderQueueAssumption DEF deviceVars, callVars
<1> DEFINE q == queue[t]
           x == kernel[t]
           n == Len(submitted[q]) + 1
<1>1. InCall(t) /\ Head(todo[t]) = "record" /\ q \in Queues /\ todo[t] \in Seq(Steps)
  BY Zenon DEF Inv1, TypeOK, CallOK, At, recordSubmittedKernel
<1>2. x \in Kernels
  <2>1. 1 \in DOMAIN todo[t] /\ todo[t][1] = "record"
    BY <1>1, TailFacts DEF InCall
  <2> QED
    BY Zenon, <1>1, <2>1 DEF Inv1, TypeOK, CallOK, NoRecord
<1>3. /\ submitted' = [submitted EXCEPT ![q] = Append(submitted[q], x)]
      /\ refCount' = [refCount EXCEPT ![x] = refCount[x] + 1]
      /\ Advance(t)
      /\ UNCHANGED <<cmds, completed, waitList, allocated, appRefs, lock, queue,
                     kernel, need, signal, target, view>>
  BY Zenon DEF recordSubmittedKernel
<1>4. submitted[q] \in Seq(Kernels)
  BY Zenon, <1>1 DEF Inv1, TypeOK
<1>5. /\ n \in Nat /\ DOMAIN submitted[q] = 1 .. n - 1
      /\ Append(submitted[q], x) \in Seq(Kernels)
      /\ DOMAIN Append(submitted[q], x) = 1 .. n
      /\ Append(submitted[q], x)[n] = x
      /\ \A i \in 1 .. n - 1 : Append(submitted[q], x)[i] = submitted[q][i]
  BY <1>2, <1>4, AppendFacts
<1>6. /\ submitted' \in [Queues -> Seq(Kernels)] /\ refCount' \in [Kernels -> Nat]
      /\ submitted'[q] = Append(submitted[q], x)
      /\ \A p \in Queues : p # q => submitted'[p] = submitted[p]
  <2>1. refCount[x] + 1 \in Nat
    BY <1>2 DEF Inv1, TypeOK
  <2> QED
    BY Zenon, <1>1, <1>2, <1>3, <1>5, <2>1 DEF Inv1, TypeOK
<1>7. CallOK' /\ todo' \in [Threads -> Seq(Steps)]
  BY Zenon, <1>1, <1>3, MoveKeeps DEF Inv1
<1>12. n = Len(submitted[q]) + 1
  OBVIOUS
<1> HIDE DEF q, x, n
<1>11. \A k, i : (i \in DOMAIN submitted'[q] /\ submitted'[q][i] = k)
                   <=> \/ i \in DOMAIN submitted[q] /\ submitted[q][i] = k
                       \/ i = n /\ x = k
  <2>1. \A k, i : (i \in DOMAIN Append(submitted[q], x) /\ Append(submitted[q], x)[i] = k)
                   <=> \/ i \in DOMAIN submitted[q] /\ submitted[q][i] = k
                       \/ i = Len(submitted[q]) + 1 /\ x = k
    BY <1>2, <1>4, AppendHits
  <2>2. submitted'[q] = Append(submitted[q], x)
    BY Zenon, <1>6
  <2>3. ASSUME NEW k, NEW i
        PROVE  (i \in DOMAIN submitted'[q] /\ submitted'[q][i] = k)
                 <=> \/ i \in DOMAIN submitted[q] /\ submitted[q][i] = k
                     \/ i = n /\ x = k
    <3>1. (i \in DOMAIN Append(submitted[q], x) /\ Append(submitted[q], x)[i] = k)
                   <=> \/ i \in DOMAIN submitted[q] /\ submitted[q][i] = k
                       \/ i = Len(submitted[q]) + 1 /\ x = k
      BY ONLY ZenonT(60), <2>1
    <3> QED
      BY ONLY ZenonT(60), <1>12, <2>2, <3>1
  <2> QED
    BY ONLY ZenonT(60), <2>3
<1>8. <<q, n>> \notin Records(x)
  BY <1>1, <1>5 DEF Records
<1>9. ASSUME NEW k \in Kernels
      PROVE  IsFiniteSet(Records(k)') /\ refCount'[k] = appRefs'[k] + Cardinality(Records(k)')
  <2>1. IsFiniteSet(Records(k)) /\ refCount[k] = appRefs[k] + Cardinality(Records(k))
    BY Zenon DEF Inv1, CountOK, KernelCountExact
  <2>2. CASE k # x
    <3>1. \A p \in Queues : {i \in DOMAIN submitted'[p] : submitted'[p][i] = k}
                              = {i \in DOMAIN submitted[p] : submitted[p][i] = k}
      <4> SUFFICES ASSUME NEW p \in Queues
                   PROVE  {i \in DOMAIN submitted'[p] : submitted'[p][i] = k}
                            = {i \in DOMAIN submitted[p] : submitted[p][i] = k}
        BY Zenon
      <4>1. CASE p = q
        <5>1. \A i : (i \in DOMAIN submitted'[p] /\ submitted'[p][i] = k)
                      <=> (i \in DOMAIN submitted[p] /\ submitted[p][i] = k)
          BY Zenon, <1>11, <2>2, <4>1
        <5> QED
          BY Zenon, <5>1
      <4>2. CASE p # q
        BY Zenon, <1>6, <4>2
      <4> QED
        BY Zenon, <4>1, <4>2
    <3>2. Records(k)' = Records(k)
      BY <3>1 DEF Records
    <3>3. refCount'[k] = refCount[k] /\ appRefs'[k] = appRefs[k]
      BY Zenon, <1>2, <1>3, <2>2 DEF Inv1, TypeOK
    <3> QED
      BY Zenon, <2>1, <3>2, <3>3
  <2>3. CASE k = x
    <3>1. Records(k)' = Records(k) \cup {<<q, n>>}
      <4>1. ASSUME NEW p \in Queues, NEW i
            PROVE  (i \in DOMAIN submitted'[p] /\ submitted'[p][i] = k)
                     <=> \/ i \in DOMAIN submitted[p] /\ submitted[p][i] = k
                         \/ p = q /\ i = n
        <5>1. CASE p = q
          BY Zenon, <1>11, <2>3, <5>1
        <5>2. CASE p # q
          BY Zenon, <1>6, <5>2
        <5> QED
          BY Zenon, <5>1, <5>2
      <4> QED
        BY <1>1, <4>1 DEF Records, q
    <3>2. IsFiniteSet(Records(k)') /\ Cardinality(Records(k)') = Cardinality(Records(k)) + 1
      <4>1. <<q, n>> \notin Records(k)
        BY Zenon, <1>8, <2>3
      <4>2. /\ IsFiniteSet(Records(k) \cup {<<q, n>>})
            /\ Cardinality(Records(k) \cup {<<q, n>>}) = Cardinality(Records(k)) + 1
        BY Zenon, <2>1, <4>1, FS_AddElement
      <4> QED
        BY Zenon, <3>1, <4>2
    <3>3. Cardinality(Records(k)) \in Nat /\ appRefs[k] \in Nat
      BY <2>1, FS_CardinalityType DEF Inv1, TypeOK
    <3>4. refCount'[k] = refCount[k] + 1 /\ appRefs'[k] = appRefs[k]
      BY Zenon, <1>2, <1>3, <2>3 DEF Inv1, TypeOK
    <3> QED
      BY <2>1, <3>2, <3>3, <3>4
  <2> QED
    BY Zenon, <2>2, <2>3
<1>10. CountOK'
  BY Zenon, <1>9 DEF CountOK, KernelCountExact
<1> QED
  BY Zenon, <1>3, <1>6, <1>7, <1>10 DEF Inv1, TypeOK

\* A place is taken from the front of a queue's submittedKernels: the places
\* of a kernel become one fewer if it was in front, and move up by one.
LEMMA RecordsTail ==
  ASSUME TypeOK, NEW q \in Queues, submitted[q] # <<>>,
         submitted' = [submitted EXCEPT ![q] = Tail(submitted[q])],
         NEW k \in Kernels, IsFiniteSet(Records(k))
  PROVE  /\ IsFiniteSet(Records(k)')
         /\ Cardinality(Records(k)') =
              Cardinality(Records(k)) - (IF Head(submitted[q]) = k THEN 1 ELSE 0)
<1> DEFINE n == Len(submitted[q])
           B == Records(k) \ {<<q, 1>>}
           f == [r \in B |-> IF r[1] = q THEN <<q, r[2] - 1>> ELSE r]
<1>1. submitted[q] \in Seq(Kernels)
  BY Zenon DEF TypeOK
<1>2. /\ n \in Nat \ {0} /\ DOMAIN submitted[q] = 1 .. n
      /\ Head(submitted[q]) = submitted[q][1]
      /\ DOMAIN Tail(submitted[q]) = 1 .. n - 1
      /\ \A i \in 1 .. n - 1 : Tail(submitted[q])[i] = submitted[q][i + 1]
  BY Zenon, <1>1, TailFacts
<1>3. /\ submitted'[q] = Tail(submitted[q])
      /\ \A p \in Queues : p # q => submitted'[p] = submitted[p]
  BY Zenon DEF TypeOK
<1> HIDE DEF n
<1>4. ASSUME NEW r
      PROVE  /\ r \in Records(k) <=>
                  /\ r = <<r[1], r[2]>> /\ r[1] \in Queues
                  /\ r[2] \in DOMAIN submitted[r[1]] /\ submitted[r[1]][r[2]] = k
             /\ r \in Records(k)' <=>
                  /\ r = <<r[1], r[2]>> /\ r[1] \in Queues
                  /\ r[2] \in DOMAIN submitted'[r[1]] /\ submitted'[r[1]][r[2]] = k
  BY DEF Records
<1>5. \A r \in B : r \in Records(k) /\ r # <<q, 1>>
  BY Zenon
<1>6. f \in [B -> Records(k)']
  <2> SUFFICES ASSUME NEW r \in B
               PROVE  f[r] \in Records(k)'
    BY Zenon
  <2>1. /\ r = <<r[1], r[2]>> /\ r[1] \in Queues
        /\ r[2] \in DOMAIN submitted[r[1]] /\ submitted[r[1]][r[2]] = k
    BY Zenon, <1>4, <1>5
  <2>2. CASE r[1] = q
    <3>1. r[2] \in 2 .. n
      BY <1>2, <1>5, <2>1, <2>2
    <3>2. /\ r[2] - 1 \in DOMAIN submitted'[q] /\ submitted'[q][r[2] - 1] = k
      <4>1. r[2] - 1 \in 1 .. n - 1 /\ (r[2] - 1) + 1 = r[2]
        BY <1>2, <3>1
      <4>2. Tail(submitted[q])[r[2] - 1] = submitted[q][r[2]]
        BY Zenon, <1>2, <4>1
      <4>3. submitted[q][r[2]] = k
        BY Zenon, <2>1, <2>2
      <4> QED
        BY Zenon, <1>2, <1>3, <4>1, <4>2, <4>3
    <3>3. <<q, r[2] - 1>> \in Records(k)'
      BY Zenon, <3>2, <1>4
    <3> QED
      BY Zenon, <2>2, <3>3
  <2>3. CASE r[1] # q
    <3>1. r \in Records(k)'
      BY Zenon, <1>3, <1>4, <2>1, <2>3
    <3> QED
      BY Zenon, <2>3, <3>1
  <2> QED
    BY Zenon, <2>2, <2>3
<1>7. \A r, s \in B : f[r] = f[s] => r = s
  <2> SUFFICES ASSUME NEW r \in B, NEW s \in B, f[r] = f[s]
               PROVE  r = s
    BY Zenon
  <2>1. /\ r = <<r[1], r[2]>> /\ s = <<s[1], s[2]>>
        /\ r[1] = q => r[2] \in 1 .. n
        /\ s[1] = q => s[2] \in 1 .. n
    BY Zenon, <1>2, <1>4, <1>5
  <2>2. /\ f[r] = IF r[1] = q THEN <<q, r[2] - 1>> ELSE r
        /\ f[s] = IF s[1] = q THEN <<q, s[2] - 1>> ELSE s
    BY Zenon
  <2>3. r[1] = s[1]
    BY <2>1, <2>2
  <2>4. CASE r[1] = q
    <3>1. <<q, r[2] - 1>> = <<q, s[2] - 1>>
      BY Zenon, <2>2, <2>3, <2>4
    <3>2. r[2] - 1 = s[2] - 1
      BY Zenon, <3>1
    <3>3. r[2] = s[2]
      BY <1>2, <2>1, <2>3, <2>4, <3>2
    <3> QED
      BY Zenon, <2>1, <2>3, <3>3
  <2>5. CASE r[1] # q
    BY Zenon, <2>2, <2>3, <2>5
  <2> QED
    BY Zenon, <2>4, <2>5
<1>8. \A s \in Records(k)' : \E r \in B : f[r] = s
  <2> SUFFICES ASSUME NEW s \in Records(k)'
               PROVE  \E r \in B : f[r] = s
    BY Zenon
  <2>1. /\ s = <<s[1], s[2]>> /\ s[1] \in Queues
        /\ s[2] \in DOMAIN submitted'[s[1]] /\ submitted'[s[1]][s[2]] = k
    BY Zenon, <1>4
  <2>2. CASE s[1] = q
    <3> DEFINE r == <<q, s[2] + 1>>
    <3>1. s[2] \in 1 .. n - 1
      BY Zenon, <1>2, <1>3, <2>1, <2>2
    <3>2. s[2] + 1 \in DOMAIN submitted[q] /\ submitted[q][s[2] + 1] = k /\ s[2] + 1 # 1
      <4>1. Tail(submitted[q])[s[2]] = submitted[q][s[2] + 1]
        BY Zenon, <1>2, <3>1
      <4>2. submitted'[q][s[2]] = k
        BY Zenon, <2>1, <2>2
      <4>3. submitted[q][s[2] + 1] = k
        BY Zenon, <1>3, <4>1, <4>2
      <4>4. s[2] + 1 \in 1 .. n /\ s[2] + 1 # 1
        BY <1>2, <3>1
      <4> QED
        BY Zenon, <1>2, <4>3, <4>4
    <3>3. r \in Records(k)
      BY Zenon, <1>4, <3>2
    <3>4. r \in B /\ r[1] = q /\ r[2] - 1 = s[2]
      BY <3>1, <3>2, <3>3
    <3>5. f[r] = <<q, s[2]>>
      BY Zenon, <3>4
    <3> QED
      BY Zenon, <2>1, <2>2, <3>4, <3>5
  <2>3. CASE s[1] # q
    <3>1. s \in B
      BY <1>3, <1>4, <2>1, <2>3
    <3>2. f[s] = s
      BY Zenon, <2>3, <3>1
    <3> QED
      BY Zenon, <3>1, <3>2
  <2> QED
    BY Zenon, <2>2, <2>3
<1>9. f \in Bijection(B, Records(k)')
  BY Zenon, <1>6, <1>7, <1>8 DEF Bijection, Injection, Surjection, IsInjective
<1>10. IsFiniteSet(B) /\ Cardinality(B) =
         Cardinality(Records(k)) - (IF <<q, 1>> \in Records(k) THEN 1 ELSE 0)
  <2>1. /\ IsFiniteSet(B)
        /\ Cardinality(B) = IF <<q, 1>> \in Records(k) THEN Cardinality(Records(k)) - 1
                                                       ELSE Cardinality(Records(k))
    BY Zenon, FS_RemoveElement
  <2>2. Cardinality(Records(k)) \in Nat
    BY Zenon, FS_CardinalityType
  <2> QED
    BY <2>1, <2>2
<1>11. IsFiniteSet(Records(k)') /\ Cardinality(Records(k)') = Cardinality(B)
  <2>1. ExistsBijection(B, Records(k)')
    BY Zenon, <1>9 DEF ExistsBijection
  <2> QED
    BY Zenon, <1>10, <2>1, FS_Bijection
<1>12. <<q, 1>> \in Records(k) <=> Head(submitted[q]) = k
  BY <1>2, <1>4
<1> QED
  BY Zenon, <1>10, <1>11, <1>12

\* A record is released: its kernel loses the reference that was counted.
LEMMA FreeKernelKeeps1 ==
  ASSUME Inv1, NEW t \in Threads, FreeKernel(t)
  PROVE  Inv1'
<1> USE InOrderQueueAssumption DEF deviceVars, callVars
<1> DEFINE q == queue[t]
<1>1. InCall(t) /\ Head(todo[t]) = "free" /\ q \in Queues /\ todo[t] \in Seq(Steps)
  BY Zenon DEF Inv1, TypeOK, CallOK, At, FreeKernel
<1>2. /\ IF submitted[q] = <<>>
         THEN Advance(t) /\ UNCHANGED <<submitted, refCount>>
         ELSE /\ submitted' = [submitted EXCEPT ![q] = Tail(submitted[q])]
              /\ refCount' = [refCount EXCEPT ![Head(submitted[q])] =
                                refCount[Head(submitted[q])] - 1]
              /\ UNCHANGED todo
      /\ UNCHANGED <<cmds, completed, waitList, allocated, appRefs, lock, queue,
                     kernel, need, signal, target, view>>
  BY Zenon DEF FreeKernel
<1> HIDE DEF q
<1>3. CASE submitted[q] = <<>>
  <2>1. CallOK' /\ todo' \in [Threads -> Seq(Steps)]
    BY Zenon, <1>1, <1>2, <1>3, MoveKeeps DEF Inv1
  <2>2. CountOK'
    BY Zenon, <1>2, <1>3, CountKept DEF Inv1
  <2> QED
    BY Zenon, <1>2, <1>3, <2>1, <2>2 DEF Inv1, TypeOK
<1>4. CASE submitted[q] # <<>>
  <2> DEFINE x == Head(submitted[q])
  <2>1. submitted[q] \in Seq(Kernels)
    BY Zenon, <1>1 DEF Inv1, TypeOK
  <2>2. x \in Kernels /\ Tail(submitted[q]) \in Seq(Kernels)
    BY Zenon, <1>4, <2>1, HeadTailProperties
  <2> HIDE DEF x
  <2>3. /\ submitted' = [submitted EXCEPT ![q] = Tail(submitted[q])]
        /\ refCount' = [refCount EXCEPT ![x] = refCount[x] - 1]
        /\ UNCHANGED todo
    BY Zenon, <1>2, <1>4 DEF x
  <2>4. ASSUME NEW k \in Kernels
        PROVE  /\ IsFiniteSet(Records(k)')
               /\ refCount'[k] = appRefs'[k] + Cardinality(Records(k)')
               /\ refCount'[k] \in Nat
    <3>1. IsFiniteSet(Records(k)) /\ refCount[k] = appRefs[k] + Cardinality(Records(k))
      BY Zenon DEF Inv1, CountOK, KernelCountExact
    <3>2. /\ IsFiniteSet(Records(k)')
          /\ Cardinality(Records(k)') =
               Cardinality(Records(k)) - (IF x = k THEN 1 ELSE 0)
      BY Zenon, <1>1, <1>4, <2>3, <3>1, RecordsTail DEF Inv1, x
    <3>3. /\ Cardinality(Records(k)) \in Nat /\ appRefs[k] \in Nat /\ refCount[k] \in Nat
      BY <3>1, FS_CardinalityType DEF Inv1, TypeOK
    <3>4. Cardinality(Records(k)') \in Nat
      BY Zenon, <3>2, FS_CardinalityType
    <3>5. refCount'[k] = IF x = k THEN refCount[k] - 1 ELSE refCount[k]
      BY Zenon, <2>2, <2>3 DEF Inv1, TypeOK
    <3>6. appRefs'[k] = appRefs[k]
      BY Zenon, <1>2
    <3>7. CASE x = k
      BY <3>1, <3>2, <3>3, <3>4, <3>5, <3>6, <3>7
    <3>8. CASE x # k
      BY <3>1, <3>2, <3>3, <3>4, <3>5, <3>6, <3>8
    <3> QED
      BY Zenon, <3>7, <3>8
  <2>5. CountOK'
    BY Zenon, <2>4 DEF CountOK, KernelCountExact
  <2>6. refCount' \in [Kernels -> Nat] /\ submitted' \in [Queues -> Seq(Kernels)]
    <3>1. /\ DOMAIN refCount' = Kernels
          /\ refCount' = [k \in Kernels |-> refCount'[k]]
      BY Zenon, <2>3 DEF Inv1, TypeOK
    <3> QED
      BY Zenon, <2>2, <2>3, <2>4, <3>1 DEF Inv1, TypeOK
  <2>7. CallOK'
    BY Zenon, <1>2, <2>3 DEF Inv1, CallOK, InCall
  <2> QED
    BY Zenon, <1>2, <2>3, <2>5, <2>6, <2>7 DEF Inv1, TypeOK
<1> QED
  BY Zenon, <1>3, <1>4

\* The application takes one more reference on a kernel.
LEMMA urKernelRetainKeeps1 ==
  ASSUME Inv1, NEW k \in Kernels, urKernelRetain(k)
  PROVE  Inv1'
<1> USE InOrderQueueAssumption DEF deviceVars, callVars
<1>1. /\ appRefs[k] \in 1 .. MaxRefs - 1
      /\ appRefs' = [appRefs EXCEPT ![k] = appRefs[k] + 1]
      /\ refCount' = [refCount EXCEPT ![k] = refCount[k] + 1]
      /\ UNCHANGED <<cmds, completed, waitList, allocated, submitted, todo, lock,
                     queue, kernel, need, signal, target, view>>
  BY Zenon DEF urKernelRetain
<1>2. appRefs' \in [Kernels -> 0 .. MaxRefs] /\ refCount' \in [Kernels -> Nat]
  BY <1>1 DEF Inv1, TypeOK
<1>3. \A h \in Kernels : appRefs[h] > 0 => appRefs'[h] > 0
  BY <1>1 DEF Inv1, TypeOK
<1>4. CallOK'
  BY Zenon, <1>1, <1>3 DEF Inv1, TypeOK, CallOK, InCall
<1>5. ASSUME NEW h \in Kernels
      PROVE  IsFiniteSet(Records(h)') /\ refCount'[h] = appRefs'[h] + Cardinality(Records(h)')
  <2>1. IsFiniteSet(Records(h)) /\ refCount[h] = appRefs[h] + Cardinality(Records(h))
    BY Zenon DEF Inv1, CountOK, KernelCountExact
  <2>2. Records(h)' = Records(h)
    BY <1>1 DEF Records
  <2>3. Cardinality(Records(h)) \in Nat /\ appRefs[h] \in Nat /\ refCount[h] \in Nat
    BY <2>1, FS_CardinalityType DEF Inv1, TypeOK
  <2>4. /\ refCount'[h] = IF h = k THEN refCount[h] + 1 ELSE refCount[h]
        /\ appRefs'[h] = IF h = k THEN appRefs[h] + 1 ELSE appRefs[h]
    BY Zenon, <1>1 DEF Inv1, TypeOK
  <2> DEFINE n == Cardinality(Records(h))
  <2>5. IsFiniteSet(Records(h)') /\ Cardinality(Records(h)') = n
    BY Zenon, <2>1, <2>2
  <2>6. CASE h = k
    <3>1. refCount'[h] = refCount[h] + 1 /\ appRefs'[h] = appRefs[h] + 1
      BY Zenon, <2>4, <2>6
    <3>2. \A r, a, c \in Nat : r = a + c => r + 1 = (a + 1) + c
      OBVIOUS
    <3>3. refCount[h] + 1 = (appRefs[h] + 1) + n
      BY Zenon, <2>1, <2>3, <3>2
    <3> QED
      BY Zenon, <2>5, <3>1, <3>3
  <2>7. CASE h # k
    BY Zenon, <2>1, <2>4, <2>5, <2>7
  <2> QED
    BY Zenon, <2>6, <2>7
<1>6. CountOK'
  BY Zenon, <1>5 DEF CountOK, KernelCountExact
<1> QED
  BY Zenon, <1>1, <1>2, <1>4, <1>6 DEF Inv1, TypeOK

\* The application gives a reference back, not the last one under a call
\* that uses the kernel.
LEMMA urKernelReleaseKeeps1 ==
  ASSUME Inv1, NEW k \in Kernels, urKernelRelease(k)
  PROVE  Inv1'
<1> USE InOrderQueueAssumption DEF deviceVars, callVars
<1>1. /\ appRefs[k] > 0
      /\ appRefs[k] = 1 => \A t \in Threads : kernel[t] # k
      /\ appRefs' = [appRefs EXCEPT ![k] = appRefs[k] - 1]
      /\ refCount' = [refCount EXCEPT ![k] = refCount[k] - 1]
      /\ UNCHANGED <<cmds, completed, waitList, allocated, submitted, todo, lock,
                     queue, kernel, need, signal, target, view>>
  BY Zenon DEF urKernelRelease
<1>2. appRefs[k] \in 0 .. MaxRefs
  BY Zenon DEF Inv1, TypeOK
<1>3. appRefs' \in [Kernels -> 0 .. MaxRefs]
  BY <1>1, <1>2 DEF Inv1, TypeOK
<1>4. \A t \in Threads : kernel[t] \in Kernels /\ appRefs[kernel[t]] > 0 => appRefs'[kernel[t]] > 0
  <2> SUFFICES ASSUME NEW t \in Threads, kernel[t] \in Kernels, appRefs[kernel[t]] > 0
               PROVE  appRefs'[kernel[t]] > 0
    BY Zenon
  <2>1. CASE kernel[t] = k
    <3>1. appRefs[k] # 1
      BY Zenon, <1>1, <2>1
    <3>2. appRefs'[k] = appRefs[k] - 1
      BY Zenon, <1>1 DEF Inv1, TypeOK
    <3> QED
      BY <1>1, <1>2, <2>1, <3>1, <3>2
  <2>2. CASE kernel[t] # k
    BY Zenon, <1>1, <2>2 DEF Inv1, TypeOK
  <2> QED
    BY Zenon, <2>1, <2>2
<1>5. CallOK'
  BY Zenon, <1>1, <1>4 DEF Inv1, TypeOK, CallOK, InCall
<1>6. ASSUME NEW h \in Kernels
      PROVE  /\ IsFiniteSet(Records(h)')
             /\ refCount'[h] = appRefs'[h] + Cardinality(Records(h)')
             /\ refCount'[h] \in Nat
  <2>1. IsFiniteSet(Records(h)) /\ refCount[h] = appRefs[h] + Cardinality(Records(h))
    BY Zenon DEF Inv1, CountOK, KernelCountExact
  <2>2. Records(h)' = Records(h)
    BY <1>1 DEF Records
  <2>3. Cardinality(Records(h)) \in Nat /\ appRefs[h] \in Nat /\ refCount[h] \in Nat
    BY <2>1, FS_CardinalityType DEF Inv1, TypeOK
  <2>4. /\ refCount'[h] = IF h = k THEN refCount[h] - 1 ELSE refCount[h]
        /\ appRefs'[h] = IF h = k THEN appRefs[h] - 1 ELSE appRefs[h]
    BY Zenon, <1>1 DEF Inv1, TypeOK
  <2>5. CASE h = k
    BY <1>1, <2>1, <2>2, <2>3, <2>4, <2>5
  <2>6. CASE h # k
    BY Zenon, <2>1, <2>2, <2>3, <2>4, <2>6
  <2> QED
    BY Zenon, <2>5, <2>6
<1>7. CountOK'
  BY Zenon, <1>6 DEF CountOK, KernelCountExact
<1>8. refCount' \in [Kernels -> Nat]
  <2>1. refCount' = [h \in Kernels |-> refCount'[h]]
    BY Zenon, <1>1 DEF Inv1, TypeOK
  <2> QED
    BY Zenon, <1>6, <2>1
<1> QED
  BY Zenon, <1>1, <1>3, <1>5, <1>7, <1>8 DEF Inv1, TypeOK

\* An enqueue function is called, with steps that have the shape of a call.
Begins(t, q, f, s, k, w, i) ==
  LET r == Append(s, "return")
  IN  /\ f.mutex \in {"queue", "manager"}
      /\ r \in Seq(Steps) /\ Shape(r) /\ Safe(r) /\ r[1] \in {"nop", "args"}
      /\ IF k = NoKernel THEN NoRecord(r) ELSE LaunchShape(r)
      /\ Begin(t, q, f, s, k, w, i)

\* Every call of an enqueue function is one of these.
LEMMA CallBegins ==
  ASSUME NEW t \in Threads, NEW q \in Queues, Launch(t, q) \/ Enqueue(t, q)
  PROVE  \E f, s : \E k \in Kernels \cup {NoKernel}, w \in WaitLists,
                      i \in {NotWanted, Wanted} : Begins(t, q, f, s, k, w, i)
<1> USE InOrderQueueAssumption
<1>1. CASE Launch(t, q)
  <2>1. PICK f \in KernelFunctions \cap Functions, k \in Kernels, w \in WaitLists,
             i \in {NotWanted, Wanted} : Begin(t, q, f, f.steps, k, w, i)
    BY Zenon, <1>1 DEF Launch
  <2>2. k # NoKernel
    BY Zenon
  <2>3. Begins(t, q, f, f.steps, k, w, i)
    <3> DEFINE r == Append(f.steps, "return")
    <3>1. f.mutex \in {"queue", "manager"} /\ Body(f.steps)
      BY Zenon, LaunchSteps
    <3>2. r \in Seq(Steps) /\ Shape(r) /\ Safe(r) /\ r[1] \in {"nop", "args"}
      BY <3>1, CallSteps, Zenon
    <3>3. LaunchShape(r)
      BY Zenon, <3>1, LaunchSteps
    <3> QED
      BY <2>1, <2>2, <3>1, <3>2, <3>3, Zenon DEF Begins
  <2> QED
    BY Zenon, <2>3
<1>2. CASE Enqueue(t, q)
  <2>1. PICK w \in WaitLists, i \in {NotWanted, Wanted} :
          \/ \E f \in OtherFunctions \cap Functions :
                Begin(t, q, f, f.steps, NoKernel, w, i)
          \/ \E f \in BlockingFunctions \cap Functions :
                \/ Begin(t, q, f, f.steps, NoKernel, w, i)
                \/ Begin(t, q, f, Blocking(f.steps), NoKernel, w, i)
    BY Zenon, <1>2 DEF Enqueue
  <2>2. \E f \in BlockingFunctions \cup OtherFunctions :
          \/ Begin(t, q, f, f.steps, NoKernel, w, i)
          \/ Begin(t, q, f, Blocking(f.steps), NoKernel, w, i)
    BY Zenon, <2>1
  <2>3. PICK f \in BlockingFunctions \cup OtherFunctions :
          \/ Begin(t, q, f, f.steps, NoKernel, w, i)
          \/ Begin(t, q, f, Blocking(f.steps), NoKernel, w, i)
    BY Zenon, <2>2
  <2>4. f.mutex \in {"queue", "manager"} /\ Body(f.steps) /\ NoRecord(f.steps)
    BY Zenon, OtherSteps
  <2>5. \E s : Begins(t, q, f, s, NoKernel, w, i)
    <3>1. CASE Begin(t, q, f, f.steps, NoKernel, w, i)
      <4>1. Begins(t, q, f, f.steps, NoKernel, w, i)
        <5> DEFINE r == Append(f.steps, "return")
        <5>1. f.mutex \in {"queue", "manager"} /\ Body(f.steps)
          BY Zenon, <2>4
        <5>2. r \in Seq(Steps) /\ Shape(r) /\ Safe(r) /\ r[1] \in {"nop", "args"}
          BY <5>1, CallSteps, Zenon
        <5>3. NoRecord(r)
          BY <5>1, <2>4, CallSteps, Zenon
        <5> QED
          BY <3>1, <5>1, <5>2, <5>3, Zenon DEF Begins
      <4> QED
        BY Zenon, <4>1
    <3>2. CASE Begin(t, q, f, Blocking(f.steps), NoKernel, w, i)
      <4>1. Begins(t, q, f, Blocking(f.steps), NoKernel, w, i)
        <5> DEFINE r == Append(Blocking(f.steps), "return")
        <5>1. f.mutex \in {"queue", "manager"} /\ Body(f.steps)
          BY Zenon, <2>4
        <5>2. r \in Seq(Steps) /\ Shape(r) /\ Safe(r) /\ r[1] \in {"nop", "args"}
          BY <5>1, BlockingSteps, Zenon
        <5>3. NoRecord(r)
          BY <5>1, <2>4, BlockingSteps, Zenon
        <5> QED
          BY <3>2, <5>1, <5>2, <5>3, Zenon DEF Begins
      <4> QED
        BY Zenon, <4>1
    <3> QED
      BY Zenon, <2>3, <3>1, <3>2
  <2> QED
    BY Zenon, <2>5
<1> QED
  BY Zenon, <1>1, <1>2

\* The steps of queueFinish.
LEMMA FinishSteps ==
  LET r == Append(queueFinish.steps, "return")
  IN  r \in Seq(Steps) /\ Shape(r) /\ Safe(r) /\ NoRecord(r) /\ r[1] = "sync"
<1> USE DEF queueFinish, Function
<1>1. /\ queueFinish.steps \in Seq(Steps) /\ "return" \in Steps
      /\ queueFinish.steps[1] = "sync" /\ 1 \in DOMAIN queueFinish.steps
  BY DEF Steps
<1>2. Shape(Append(queueFinish.steps, "return"))
  BY DEF Shape
<1>3. Safe(Append(queueFinish.steps, "return")) /\ NoRecord(Append(queueFinish.steps, "return"))
  BY DEF Safe, NoRecord, Bare
<1> QED
  BY <1>1, <1>2, <1>3, AppendFacts

\* queueFinish is called.
LEMMA FinishKeeps1 ==
  ASSUME Inv1, NEW t \in Threads, NEW q \in Queues, Finish(t, q)
  PROVE  Inv1'
<1> USE InOrderQueueAssumption
<1> DEFINE r == Append(queueFinish.steps, "return")
<1>1. /\ ~InCall(t)
      /\ todo' = [todo EXCEPT ![t] = r]
      /\ lock' = [lock EXCEPT ![t] = "queue"]
      /\ queue' = [queue EXCEPT ![t] = q]
      /\ UNCHANGED <<cmds, completed, waitList, allocated, submitted, refCount,
                     appRefs, kernel, need, view, signal, target>>
  BY Zenon DEF Finish, deviceVars, kernelVars
<1>2. r \in Seq(Steps) /\ Shape(r) /\ NoRecord(r)
  BY Zenon, FinishSteps
<1> HIDE DEF r
<1>3. CountOK'
  BY Zenon, <1>1, CountKept DEF Inv1
<1>4. kernel[t] = NoKernel /\ need[t] = {}
  BY Zenon, <1>1 DEF Inv1, CallOK
<1>5. CallOK'
  <2> SUFFICES ASSUME NEW u \in Threads
               PROVE  IF InCall(u)'
                      THEN /\ Shape(todo'[u])
                           /\ queue'[u] \in Queues
                           /\ IsFiniteSet(need'[u])
                           /\ IF kernel'[u] = NoKernel
                              THEN NoRecord(todo'[u])
                              ELSE LaunchShape(todo'[u]) /\ appRefs'[kernel'[u]] > 0
                      ELSE queue'[u] = NoQueue /\ kernel'[u] = NoKernel /\ need'[u] = {}
    BY Zenon DEF CallOK
  <2>1. CASE u = t
    <3>1. todo'[u] = r /\ queue'[u] = q /\ kernel'[u] = NoKernel /\ need'[u] = {}
      BY Zenon, <1>1, <1>4, <2>1 DEF Inv1, TypeOK
    <3>2. InCall(u)'
      BY Zenon, <1>2, <3>1 DEF InCall, Shape
    <3>3. IsFiniteSet(need'[u])
      BY Zenon, <3>1, FS_EmptySet
    <3> QED
      BY Zenon, <1>2, <3>1, <3>2, <3>3
  <2>2. CASE u # t
    BY Zenon, <1>1, <2>2 DEF Inv1, TypeOK, CallOK, InCall
  <2> QED
    BY Zenon, <2>1, <2>2
<1>6. todo' \in [Threads -> Seq(Steps)]
  BY Zenon, <1>1, <1>2 DEF Inv1, TypeOK
<1> QED
  BY Zenon, <1>1, <1>3, <1>5, <1>6 DEF Inv1, TypeOK

\* Nothing is running, nothing is recorded, and the application holds the
\* reference it got with each kernel.
LEMMA InitHolds1 == Init => Inv1
<1> USE InOrderQueueAssumption
<1> SUFFICES ASSUME Init
             PROVE  Inv1
  BY Zenon
<1>1. TypeOK
  <2>1. view \in [Threads -> [handles : BOOLEAN, num : Nat]]
    BY Zenon DEF Init, Cleared
  <2>2. /\ cmds \in [Queues -> Seq(Commands)] /\ submitted \in [Queues -> Seq(Kernels)]
        /\ todo \in [Threads -> Seq(Steps)] /\ waitList \in [Queues -> SUBSET Event]
        /\ need \in [Threads -> SUBSET Event]
    BY DEF Init
  <2> QED
    BY <2>1, <2>2 DEF Init, TypeOK, NotWanted
<1>2. CallOK
  BY Zenon DEF Init, CallOK, InCall
<1>3. CountOK
  <2> SUFFICES ASSUME NEW k \in Kernels
               PROVE  IsFiniteSet(Records(k)) /\ refCount[k] = appRefs[k] + Cardinality(Records(k))
    BY Zenon DEF CountOK, KernelCountExact
  <2>1. \A q \in Queues : DOMAIN submitted[q] = {}
    BY DEF Init
  <2>2. Records(k) = {}
    BY Zenon, <2>1 DEF Records
  <2> QED
    BY <2>2, FS_EmptySet DEF Init
<1> QED
  BY Zenon, <1>1, <1>2, <1>3 DEF Inv1

\* Every step keeps the types, the calls and the counts.
LEMMA NextKeeps1 == Inv1 /\ [Next]_vars => Inv1'
<1> SUFFICES ASSUME Inv1, [Next]_vars
             PROVE  Inv1'
  BY Zenon
<1>1. ASSUME NEW q \in Queues, DeviceComplete(q)
      PROVE  Inv1'
  BY Zenon, <1>1, DeviceCompleteKeeps1
<1>2. ASSUME NEW t \in Threads, NEW q \in Queues, Launch(t, q) \/ Enqueue(t, q)
      PROVE  Inv1'
  <2>1. PICK f, s : \E k \in Kernels \cup {NoKernel}, w \in WaitLists,
                       i \in {NotWanted, Wanted} : Begins(t, q, f, s, k, w, i)
    BY Zenon, <1>2, CallBegins
  <2>2. PICK k \in Kernels \cup {NoKernel}, w \in WaitLists,
             i \in {NotWanted, Wanted} : Begins(t, q, f, s, k, w, i)
    BY Zenon, <2>1
  <2> QED
    BY Zenon, <2>2, BeginKeeps1 DEF Begins
<1>3. ASSUME NEW t \in Threads, NEW q \in Queues, Finish(t, q)
      PROVE  Inv1'
  BY Zenon, <1>3, FinishKeeps1
<1>4. ASSUME NEW t \in Threads, Step(t) \/ Fail(t)
      PROVE  Inv1'
  <2>1. Return(t) => Inv1'
    BY Zenon, LeaveKeeps1 DEF Return
  <2>2. Fail(t) => Inv1'
    BY Zenon, LeaveKeeps1 DEF Fail
  <2> QED
    BY Zenon, <1>4, <2>1, <2>2, NopKeeps1, ArgsKeeps1, PointerKeeps1, MigrateKeeps1, CopyKeeps1,
       AppendMainKeeps1, WaitOnKeeps1, ClearKeeps1, PlainKeeps1, SignalEventKeeps1,
       SyncKeeps1, WaitKeeps1, UnlockKeeps1, recordSubmittedKernelKeeps1, FreeKernelKeeps1
       DEF Step
<1>5. ASSUME NEW k \in Kernels, urKernelRetain(k) \/ urKernelRelease(k)
      PROVE  Inv1'
  BY Zenon, <1>5, urKernelRetainKeeps1, urKernelReleaseKeeps1
<1>6. CASE UNCHANGED vars
  <2>1. CountOK'
    BY Zenon, <1>6, CountKept DEF Inv1, vars
  <2> QED
    BY Zenon, <1>6, <2>1 DEF Inv1, TypeOK, CallOK, InCall, vars
<1> QED
  BY Zenon, <1>1, <1>2, <1>3, <1>4, <1>5, <1>6 DEF Next, Call

\* The types, the calls and the counts hold in every state.
LEMMA Invariant1 == Spec => []Inv1
<1> QED
  BY InitHolds1, NextKeeps1, PTL DEF Spec

\* Every variable keeps its type: the members of the queues, of their command
\* list managers and of the kernels, and the locals of the calls.
THEOREM TypeCorrect == Spec => []TypeOK
<1>1. Inv1 => TypeOK
  BY Zenon DEF Inv1
<1> QED
  BY <1>1, Invariant1, PTL

\* However many threads use a queue: a kernel's reference count is always the
\* application's references and one for every record of a launch that
\* queueFinish has still to release (queue_immediate_in_order.cpp:155-177).
THEOREM CountsExact == Spec => []KernelCountExact
<1>1. Inv1 => KernelCountExact
  BY Zenon DEF Inv1, CountOK
<1> QED
  BY <1>1, Invariant1, PTL
==============================================================================

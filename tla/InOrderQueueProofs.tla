-------------------------- MODULE InOrderQueueProofs -------------------------
(*****************************************************************************)
(* In-order queues, each used from one thread at a time: a kernel stays for  *)
(* as long as a command that runs it is pending, and the device runs a       *)
(* command only after the events its call has to wait for.                   *)
(*****************************************************************************)
EXTENDS InOrderQueueCounts

\* One call uses a queue at a time.
OneCall ==
  \A t, u \in Threads :
    InCall(t) /\ InCall(u) /\ queue[t] = queue[u] => t = u

\* A synchronize waits for everything that was appended, and when it is over
\* nothing is pending.
SyncOK ==
  \A t \in Threads :
    /\ At(t, "wait") => target[t] = Position(queue[t])
    /\ At(t, "free") => cmds[queue[t]] = <<>>

\* A kernel with a pending command is recorded, or is about to be.
Recorded(q, k) == \E i \in DOMAIN submitted[q] : submitted[q][i] = k
ToRecord(t, q, k) ==
  /\ At(t, "unlock") \/ At(t, "record")
  /\ queue[t] = q /\ kernel[t] = k

PendingRecorded ==
  \A q \in Queues, k \in Kernels :
    (\E i \in DOMAIN cmds[q] : cmds[q][i].kernel = k)
      => Recorded(q, k) \/ \E t \in Threads : ToRecord(t, q, k)


Inv2 == OneCall /\ SyncOK /\ PendingRecorded

------------------------------------------------------------------------------
(* A queue used from one thread at a time *)

\* At the start no call is running and nothing is pending.
LEMMA InitHolds2 == Init => Inv2
BY DEF Init, Inv2, OneCall, SyncOK, PendingRecorded, At, InCall

\* What the two invariants say about a kernel with a pending command: it is
\* recorded, which counts, or its call still keeps a reference of the application.
LEMMA PendingAlive == Inv1 /\ Inv2 => KernelAliveWhilePending
<1> SUFFICES ASSUME Inv1, Inv2, NEW q \in Queues, NEW i \in DOMAIN cmds[q],
                    cmds[q][i].kernel # NoKernel
             PROVE  refCount[cmds[q][i].kernel] > 0
  BY Zenon DEF KernelAliveWhilePending, Range
<1> DEFINE k == cmds[q][i].kernel
<1>1. k \in Kernels
  <2>1. cmds[q][i] \in Commands
    BY DEF Inv1, TypeOK
  <2> QED
    BY Zenon, <2>1 DEF Commands
<1> HIDE DEF k
<1>2. /\ IsFiniteSet(Records(k)) /\ refCount[k] = appRefs[k] + Cardinality(Records(k))
      /\ appRefs[k] \in Nat
  BY <1>1 DEF Inv1, TypeOK, CountOK, KernelCountExact
<1>3. Cardinality(Records(k)) \in Nat
  BY Zenon, <1>2, FS_CardinalityType
<1>4. CASE Recorded(q, k)
  <2>1. PICK j \in DOMAIN submitted[q] : submitted[q][j] = k
    BY Zenon, <1>4 DEF Recorded
  <2>2. <<q, j>> \in Records(k)
    BY <2>1 DEF Records
  <2>3. Cardinality(Records(k)) # 0
    BY Zenon, <1>2, <2>2, FS_EmptySet
  <2> QED
    BY <1>2, <1>3, <2>3 DEF k
<1>5. CASE \E t \in Threads : ToRecord(t, q, k)
  <2>1. PICK t \in Threads : ToRecord(t, q, k)
    BY Zenon, <1>5
  <2>2. appRefs[k] > 0
    BY Zenon, <1>1, <2>1, InOrderQueueAssumption DEF ToRecord, At, Inv1, CallOK
  <2> QED
    BY <1>2, <1>3, <2>2 DEF k
<1> QED
  BY Zenon, <1>1, <1>4, <1>5 DEF Inv2, PendingRecorded, k

\* A step within a call.  A launch appended by it is about to be recorded,
\* and a synchronize starts and ends it as zeCommandListHostSynchronize does.
LEMMA StepKeeps2 ==
  ASSUME Inv1, Inv2, NEW t \in Threads, InCall(t), Head(todo[t]) # "return",
         Advance(t), UNCHANGED <<completed, queue, kernel, need, appRefs>>,
         target' \in [Threads -> Nat],
         \A u \in Threads : u # t => target'[u] = target[u],
         Head(todo[t]) = "sync" => target'[t] = Position(queue[t]) /\ cmds' = cmds,
         Head(todo[t]) = "wait" => target[t] <= completed[queue[t]] /\ cmds' = cmds,
         \A p \in Queues : p # queue[t] => cmds'[p] = cmds[p],
         \A p \in Queues : \A i \in DOMAIN submitted[p] :
           i \in DOMAIN submitted'[p] /\ submitted'[p][i] = submitted[p][i],
         \A i \in DOMAIN cmds'[queue[t]] :
           \/ i \in DOMAIN cmds[queue[t]] /\ cmds'[queue[t]][i] = cmds[queue[t]][i]
           \/ cmds'[queue[t]][i].kernel = NoKernel
           \/ cmds'[queue[t]][i].kernel = kernel[t] /\ Head(todo[t]) = "append",
         Head(todo[t]) = "record" =>
           \E i \in DOMAIN submitted'[queue[t]] : submitted'[queue[t]][i] = kernel[t]
  PROVE  Inv2'
<1> USE InOrderQueueAssumption
<1> DEFINE q == queue[t]
           h == Head(todo[t])
<1>1. q \in Queues /\ Shape(todo[t]) /\ todo[t] \in Seq(Steps)
  BY Zenon DEF Inv1, TypeOK, CallOK
<1>2. /\ todo'[t] = Tail(todo[t]) /\ InCall(t)' /\ Head(todo'[t]) = todo[t][2]
      /\ Len(todo[t]) > 1 /\ todo[t][1] = h /\ Len(todo[t]) \in Nat
      /\ \A u \in Threads : u # t => todo'[u] = todo[u]
  <2>1. /\ todo'[t] = Tail(todo[t]) /\ InCall(t)' /\ Head(todo'[t]) = todo[t][2]
        /\ Len(todo[t]) > 1
        /\ \A u \in Threads : u # t => todo'[u] = todo[u]
    BY Zenon, MoveKeeps DEF Inv1
  <2>2. todo[t][1] = h /\ Len(todo[t]) \in Nat
    BY Zenon, <1>1, TailFacts DEF InCall
  <2> QED
    BY Zenon, <2>1, <2>2
<1>3. 2 \in 2 .. Len(todo[t]) /\ 2 - 1 = 1
  BY <1>2
<1>4. /\ todo[t][2] = "free" => h = "wait"
      /\ todo[t][2] = "wait" => h = "sync"
  BY <1>1, <1>2, <1>3 DEF Shape
<1>5. \A u \in Threads : InCall(u)' => InCall(u)
  BY Zenon, <1>2 DEF InCall
<1>6. OneCall'
  BY Zenon, <1>5 DEF Inv2, OneCall
<1> HIDE DEF q, h
<1>7. SyncOK'
  <2> SUFFICES ASSUME NEW u \in Threads
               PROVE  /\ At(u, "wait")' => target'[u] = Position(queue[u])'
                      /\ At(u, "free")' => cmds'[queue'[u]] = <<>>
    BY Zenon DEF SyncOK
  <2>1. CASE u # t
    <3> SUFFICES ASSUME InCall(u)'
                 PROVE  /\ At(u, "wait")' => target'[u] = Position(queue[u])'
                        /\ At(u, "free")' => cmds'[queue'[u]] = <<>>
      BY Zenon DEF At
    <3>1. InCall(u) /\ queue[u] # q /\ todo'[u] = todo[u]
      BY Zenon, <1>2, <1>5, <2>1 DEF Inv2, OneCall, q
    <3>2. queue[u] \in Queues
      BY Zenon, <3>1 DEF Inv1, CallOK
    <3>3. cmds'[queue[u]] = cmds[queue[u]] /\ target'[u] = target[u]
      BY Zenon, <2>1, <3>1, <3>2 DEF q
    <3>4. (At(u, "wait")' <=> At(u, "wait")) /\ (At(u, "free")' <=> At(u, "free"))
      BY Zenon, <3>1 DEF At, InCall
    <3> QED
      BY Zenon, <3>3, <3>4 DEF Inv2, SyncOK, Position
  <2>2. CASE u = t
    <3>1. ASSUME At(t, "wait")'
          PROVE  target'[t] = Position(queue[t])'
      <4>1. h = "sync"
        BY Zenon, <1>2, <1>4, <3>1 DEF At
      <4> QED
        BY Zenon, <4>1 DEF Position, h
    <3>2. ASSUME At(t, "free")'
          PROVE  cmds'[queue'[t]] = <<>>
      <4>1. h = "wait"
        BY Zenon, <1>2, <1>4, <3>2 DEF At
      <4>2. target[t] = completed[q] + Len(cmds[q])
        BY Zenon, <4>1 DEF Inv2, SyncOK, At, h, q, Position
      <4>3. target[t] <= completed[q] /\ cmds' = cmds /\ queue' = queue
        BY Zenon, <4>1 DEF h, q
      <4>4. completed[q] \in Nat /\ Len(cmds[q]) \in Nat /\ cmds[q] \in Seq(Commands)
        BY <1>1 DEF Inv1, TypeOK
      <4>5. Len(cmds[q]) = 0
        BY <4>2, <4>3, <4>4
      <4>6. cmds[q] = <<>>
        BY Zenon, <4>4, <4>5, EmptySeq
      <4> QED
        BY Zenon, <4>3, <4>6 DEF q
    <3> QED
      BY Zenon, <2>2, <3>1, <3>2
  <2> QED
    BY Zenon, <2>1, <2>2
<1>8. PendingRecorded'
  <2> SUFFICES ASSUME NEW p \in Queues, NEW k \in Kernels, NEW i \in DOMAIN cmds'[p],
                      cmds'[p][i].kernel = k
               PROVE  Recorded(p, k)' \/ \E u \in Threads : ToRecord(u, p, k)'
    BY Zenon DEF PendingRecorded
  <2>1. k # NoKernel
    BY Zenon
  <2>2. CASE i \in DOMAIN cmds[p] /\ cmds[p][i].kernel = k
    <3>1. CASE Recorded(p, k)
      <4>1. Recorded(p, k)'
        BY Zenon, <3>1 DEF Recorded
      <4> QED
        BY Zenon, <4>1
    <3>2. CASE \E u \in Threads : ToRecord(u, p, k)
      <4>1. PICK u \in Threads : ToRecord(u, p, k)
        BY Zenon, <3>2
      <4>2. CASE u # t
        <5>1. ToRecord(u, p, k)'
          BY Zenon, <1>2, <4>1, <4>2 DEF ToRecord, At, InCall
        <5> QED
          BY Zenon, <5>1
      <4>3. CASE u = t /\ h = "unlock"
        <5>1. LaunchShape(todo[t]) /\ kernel[t] = k
          BY Zenon, <2>1, <4>1, <4>3 DEF Inv1, CallOK, ToRecord
        <5>2. todo[t][2] = "record"
          BY Zenon, <1>2, <1>3, <4>3, <5>1 DEF LaunchShape
        <5>3. ToRecord(t, p, k)'
          BY Zenon, <1>2, <4>1, <4>3, <5>2 DEF ToRecord, At
        <5> QED
          BY Zenon, <5>3
      <4>4. CASE u = t /\ h = "record"
        <5>1. p = q /\ kernel[t] = k
          BY Zenon, <4>1, <4>4 DEF ToRecord, q
        <5>2. Recorded(p, k)'
          BY Zenon, <4>4, <5>1 DEF Recorded, h, q
        <5> QED
          BY Zenon, <5>2
      <4> QED
        BY Zenon, <4>1, <4>2, <4>3, <4>4 DEF ToRecord, At, h
    <3> QED
      BY Zenon, <2>2, <3>1, <3>2 DEF Inv2, PendingRecorded
  <2>3. CASE p = q /\ k = kernel[t] /\ h = "append"
    <3>1. LaunchShape(todo[t])
      BY Zenon, <2>1, <2>3 DEF Inv1, CallOK
    <3>2. todo[t][2] \in {"unlock", "record"}
      BY Zenon, <1>2, <1>3, <2>3, <3>1 DEF LaunchShape
    <3>3. ToRecord(t, p, k)'
      BY Zenon, <1>2, <2>3, <3>2 DEF ToRecord, At, q
    <3> QED
      BY Zenon, <3>3
  <2> QED
    BY Zenon, <2>1, <2>2, <2>3 DEF q, h
<1> QED
  BY Zenon, <1>6, <1>7, <1>8 DEF Inv2

\* The same for a step that appends nothing and records nothing.
LEMMA QuietKeeps2 ==
  ASSUME Inv1, Inv2, NEW t \in Threads, InCall(t),
         Head(todo[t]) \notin {"return", "sync", "record"},
         Head(todo[t]) = "wait" => target[t] <= completed[queue[t]],
         Advance(t), UNCHANGED <<deviceVars, submitted, queue, kernel, need, appRefs, target>>
  PROVE  Inv2'
<1>1. target' \in [Threads -> Nat]
  BY Zenon DEF Inv1, TypeOK
<1> QED
  BY Zenon, <1>1, StepKeeps2 DEF deviceVars

\* The same for a step that appends a command.
LEMMA AppendKeeps2 ==
  ASSUME Inv1, Inv2, NEW t \in Threads, InCall(t),
         Head(todo[t]) \notin {"return", "sync", "wait", "record"},
         Advance(t), UNCHANGED <<completed, submitted, queue, kernel, need, appRefs, target>>,
         NEW c \in Commands, AppendCommand(t, c),
         c.kernel = NoKernel \/ (c.kernel = kernel[t] /\ Head(todo[t]) = "append")
  PROVE  Inv2'
<1>1. target' \in [Threads -> Nat] /\ queue[t] \in Queues
  BY Zenon DEF Inv1, TypeOK, CallOK
<1>2. /\ cmds'[queue[t]] = Append(cmds[queue[t]], c)
      /\ \A p \in Queues : p # queue[t] => cmds'[p] = cmds[p]
  BY Zenon, <1>1, AppendTypes DEF Inv1
<1>3. ASSUME NEW i \in DOMAIN cmds'[queue[t]]
      PROVE  \/ i \in DOMAIN cmds[queue[t]] /\ cmds'[queue[t]][i] = cmds[queue[t]][i]
             \/ cmds'[queue[t]][i] = c
  <2>1. cmds[queue[t]] \in Seq(Commands)
    BY Zenon, <1>1 DEF Inv1, TypeOK
  <2> QED
    BY <1>2, <2>1, AppendFacts
<1> QED
  BY Zenon, <1>1, <1>2, <1>3, StepKeeps2

\* A call is over: it was not about to record a launch.
LEMMA LeaveKeeps2 ==
  ASSUME Inv1, Inv2, NEW t \in Threads, ~At(t, "unlock"), ~At(t, "record"), Leave(t),
         UNCHANGED <<deviceVars, waitList, allocated, kernelVars>>
  PROVE  Inv2'
<1>1. /\ todo' = [todo EXCEPT ![t] = <<>>]
      /\ queue' = [queue EXCEPT ![t] = NoQueue]
      /\ kernel' = [kernel EXCEPT ![t] = NoKernel]
      /\ target' = [target EXCEPT ![t] = 0]
      /\ UNCHANGED <<cmds, completed, submitted>>
  BY Zenon DEF Leave, deviceVars, kernelVars
<1>2. ~InCall(t)'
  BY Zenon, <1>1 DEF InCall, Inv1, TypeOK
<1>3. \A u \in Threads : u # t => /\ todo'[u] = todo[u] /\ queue'[u] = queue[u]
                                  /\ kernel'[u] = kernel[u] /\ target'[u] = target[u]
  BY Zenon, <1>1 DEF Inv1, TypeOK
<1>4. OneCall'
  BY ZenonT(60), <1>2, <1>3 DEF Inv2, OneCall, InCall
<1>5. SyncOK'
  BY <1>1, <1>2, <1>3 DEF Inv2, SyncOK, At, InCall, Position
<1>6. PendingRecorded'
  <2> SUFFICES ASSUME NEW p \in Queues, NEW k \in Kernels, NEW i \in DOMAIN cmds[p],
                      cmds[p][i].kernel = k
               PROVE  Recorded(p, k)' \/ \E u \in Threads : ToRecord(u, p, k)'
    BY Zenon, <1>1 DEF PendingRecorded
  <2>1. CASE Recorded(p, k)
    BY Zenon, <1>1, <2>1 DEF Recorded
  <2>2. CASE \E u \in Threads : ToRecord(u, p, k)
    <3>1. PICK u \in Threads : ToRecord(u, p, k)
      BY Zenon, <2>2
    <3>2. u # t
      BY Zenon, <3>1 DEF ToRecord
    <3>3. ToRecord(u, p, k)'
      BY Zenon, <1>3, <3>1, <3>2 DEF ToRecord, At, InCall
    <3> QED
      BY Zenon, <3>3
  <2> QED
    BY Zenon, <2>1, <2>2 DEF Inv2, PendingRecorded
<1> QED
  BY Zenon, <1>4, <1>5, <1>6 DEF Inv2

\* A call begins on a queue no other call uses.
LEMMA EnterKeeps2 ==
  ASSUME Inv1, Inv2, NEW t \in Threads, NEW q \in Queues, NEW r, NEW k,
         ~InCall(t), \A u \in Threads : ~(InCall(u) /\ queue[u] = q),
         todo' = [todo EXCEPT ![t] = r], r # <<>>,
         Head(r) \in {"nop", "args", "sync"},
         queue' = [queue EXCEPT ![t] = q],
         kernel' = [kernel EXCEPT ![t] = k],
         UNCHANGED <<cmds, completed, submitted, target>>
  PROVE  Inv2'
<1>1. todo'[t] = r /\ queue'[t] = q
  BY Zenon DEF Inv1, TypeOK
<1>2. \A u \in Threads : u # t => /\ todo'[u] = todo[u] /\ queue'[u] = queue[u]
                                  /\ kernel'[u] = kernel[u]
  BY Zenon DEF Inv1, TypeOK
<1>3. OneCall'
  BY <1>1, <1>2 DEF Inv2, OneCall, InCall
<1>4. SyncOK'
  BY <1>1, <1>2 DEF Inv2, SyncOK, At, InCall, Position
<1>5. PendingRecorded'
  <2> SUFFICES ASSUME NEW p \in Queues, NEW x \in Kernels, NEW i \in DOMAIN cmds[p],
                      cmds[p][i].kernel = x
               PROVE  Recorded(p, x)' \/ \E u \in Threads : ToRecord(u, p, x)'
    BY Zenon DEF PendingRecorded
  <2>1. CASE Recorded(p, x)
    BY Zenon, <2>1 DEF Recorded
  <2>2. CASE \E u \in Threads : ToRecord(u, p, x)
    <3>1. PICK u \in Threads : ToRecord(u, p, x)
      BY Zenon, <2>2
    <3>2. u # t
      BY Zenon, <3>1 DEF ToRecord, At
    <3>3. ToRecord(u, p, x)'
      BY Zenon, <1>2, <3>1, <3>2 DEF ToRecord, At, InCall
    <3> QED
      BY Zenon, <3>3
  <2> QED
    BY Zenon, <2>1, <2>2 DEF Inv2, PendingRecorded
<1> QED
  BY Zenon, <1>3, <1>4, <1>5 DEF Inv2

\* The device completes a command: nothing is appended.
LEMMA DeviceCompleteKeeps2 ==
  ASSUME Inv1, Inv2, NEW q \in Queues, DeviceComplete(q)
  PROVE  Inv2'
<1>1. /\ cmds[q] # <<>>
      /\ cmds' = [cmds EXCEPT ![q] = Tail(cmds[q])]
      /\ completed' = [completed EXCEPT ![q] = completed[q] + 1]
      /\ UNCHANGED <<submitted, todo, queue, kernel, target>>
  BY Zenon DEF DeviceComplete, Runnable, kernelVars, callVars
<1>2. cmds[q] \in Seq(Commands) /\ completed[q] \in Nat
  BY Zenon DEF Inv1, TypeOK
<1>3. /\ Len(cmds[q]) \in Nat \ {0} /\ DOMAIN cmds[q] = 1 .. Len(cmds[q])
      /\ Len(Tail(cmds[q])) = Len(cmds[q]) - 1
      /\ DOMAIN Tail(cmds[q]) = 1 .. Len(cmds[q]) - 1
      /\ \A i \in 1 .. Len(cmds[q]) - 1 : Tail(cmds[q])[i] = cmds[q][i + 1]
  BY Zenon, <1>1, <1>2, TailFacts
<1>4. /\ cmds'[q] = Tail(cmds[q]) /\ completed'[q] = completed[q] + 1
      /\ \A p \in Queues : p # q => cmds'[p] = cmds[p] /\ completed'[p] = completed[p]
  BY Zenon, <1>1 DEF Inv1, TypeOK
<1>5. ASSUME NEW p \in Queues
      PROVE  completed'[p] + Len(cmds'[p]) = completed[p] + Len(cmds[p])
  <2>1. CASE p = q
    <3>1. completed'[p] = completed[q] + 1 /\ Len(cmds'[p]) = Len(cmds[q]) - 1
      BY Zenon, <1>3, <1>4, <2>1
    <3>2. \A c, n \in Nat : (c + 1) + (n - 1) = c + n
      OBVIOUS
    <3>3. Len(cmds[q]) \in Nat
      BY Zenon, <1>3
    <3> QED
      BY Zenon, <1>2, <2>1, <3>1, <3>2, <3>3
  <2>2. CASE p # q
    BY Zenon, <1>4, <2>2
  <2> QED
    BY Zenon, <2>1, <2>2
<1>6. OneCall'
  BY Zenon, <1>1 DEF Inv2, OneCall, InCall
<1>7. SyncOK'
  <2> SUFFICES ASSUME NEW u \in Threads
               PROVE  /\ At(u, "wait") => target[u] = Position(queue[u])'
                      /\ At(u, "free") => cmds'[queue[u]] = <<>>
    BY Zenon, <1>1 DEF SyncOK, At, InCall
  <2> SUFFICES ASSUME InCall(u)
               PROVE  /\ At(u, "wait") => target[u] = Position(queue[u])'
                      /\ At(u, "free") => cmds'[queue[u]] = <<>>
    BY Zenon DEF At
  <2>1. queue[u] \in Queues /\ queue'[u] = queue[u]
    BY Zenon, <1>1 DEF Inv1, CallOK
  <2>2. Position(queue[u])' = Position(queue[u])
    BY Zenon, <1>5, <2>1 DEF Position
  <2>3. At(u, "free") => cmds'[queue[u]] = <<>>
    BY Zenon, <1>1, <1>4, <2>1 DEF Inv2, SyncOK
  <2> QED
    BY Zenon, <2>2, <2>3 DEF Inv2, SyncOK
<1>8. PendingRecorded'
  <2> SUFFICES ASSUME NEW p \in Queues, NEW k \in Kernels, NEW i \in DOMAIN cmds'[p],
                      cmds'[p][i].kernel = k
               PROVE  Recorded(p, k)' \/ \E u \in Threads : ToRecord(u, p, k)'
    BY Zenon DEF PendingRecorded
  <2>1. \E j \in DOMAIN cmds[p] : cmds[p][j].kernel = k
    <3>1. CASE p = q
      <4>1. i + 1 \in DOMAIN cmds[q] /\ cmds[q][i + 1].kernel = k
        <5>1. i \in 1 .. Len(cmds[q]) - 1
          BY Zenon, <1>3, <1>4, <3>1
        <5>2. i + 1 \in DOMAIN cmds[q] /\ Tail(cmds[q])[i] = cmds[q][i + 1]
          BY <1>3, <5>1
        <5>3. Tail(cmds[q])[i].kernel = k
          BY Zenon, <1>4, <3>1
        <5> QED
          BY Zenon, <5>2, <5>3
      <4> QED
        BY Zenon, <3>1, <4>1
    <3>2. CASE p # q
      BY Zenon, <1>4, <3>2
    <3> QED
      BY Zenon, <3>1, <3>2
  <2>2. Recorded(p, k) \/ \E u \in Threads : ToRecord(u, p, k)
    BY Zenon, <2>1 DEF Inv2, PendingRecorded
  <2> QED
    BY Zenon, <1>1, <2>2 DEF Recorded, ToRecord, At, InCall
<1> QED
  BY Zenon, <1>6, <1>7, <1>8 DEF Inv2

\* A launch is recorded, and is no longer about to be.
LEMMA recordSubmittedKernelKeeps2 ==
  ASSUME Inv1, Inv2, NEW t \in Threads, recordSubmittedKernel(t)
  PROVE  Inv2'
<1> USE InOrderQueueAssumption DEF deviceVars, callVars
<1> DEFINE q == queue[t]
           x == kernel[t]
<1>1. InCall(t) /\ Head(todo[t]) = "record" /\ q \in Queues /\ todo[t] \in Seq(Steps)
  BY Zenon DEF Inv1, TypeOK, CallOK, At, recordSubmittedKernel
<1>2. x \in Kernels
  <2>1. 1 \in DOMAIN todo[t] /\ todo[t][1] = "record"
    BY <1>1, TailFacts DEF InCall
  <2> QED
    BY Zenon, <1>1, <2>1 DEF Inv1, TypeOK, CallOK, NoRecord
<1>3. /\ submitted' = [submitted EXCEPT ![q] = Append(submitted[q], x)]
      /\ Advance(t)
      /\ UNCHANGED <<cmds, completed, appRefs, queue, kernel, need, target>>
  BY Zenon DEF recordSubmittedKernel
<1>4. submitted[q] \in Seq(Kernels)
  BY Zenon, <1>1 DEF Inv1, TypeOK
<1>5. /\ submitted'[q] = Append(submitted[q], x)
      /\ \A p \in Queues : p # q => submitted'[p] = submitted[p]
  BY Zenon, <1>1, <1>3 DEF Inv1, TypeOK
<1>6. /\ DOMAIN submitted[q] = 1 .. Len(submitted[q]) /\ Len(submitted[q]) \in Nat
      /\ DOMAIN submitted'[q] = 1 .. Len(submitted[q]) + 1
      /\ submitted'[q][Len(submitted[q]) + 1] = x
      /\ \A i \in 1 .. Len(submitted[q]) : submitted'[q][i] = submitted[q][i]
  BY <1>2, <1>4, <1>5, AppendFacts
<1> HIDE DEF q, x
<1>7. \A p \in Queues : \A i \in DOMAIN submitted[p] :
        i \in DOMAIN submitted'[p] /\ submitted'[p][i] = submitted[p][i]
  <2> SUFFICES ASSUME NEW p \in Queues, NEW i \in DOMAIN submitted[p]
               PROVE  i \in DOMAIN submitted'[p] /\ submitted'[p][i] = submitted[p][i]
    BY Zenon
  <2>1. CASE p = q
    BY <1>6, <2>1
  <2>2. CASE p # q
    BY Zenon, <1>5, <2>2
  <2> QED
    BY Zenon, <2>1, <2>2
<1>8. \E i \in DOMAIN submitted'[q] : submitted'[q][i] = x
  BY <1>6
<1>9. target' \in [Threads -> Nat]
  BY Zenon, <1>3 DEF Inv1, TypeOK
<1> QED
  BY ZenonT(60), <1>1, <1>3, <1>7, <1>8, <1>9, StepKeeps2 DEF q, x

\* A record is released only after the synchronize: nothing is pending then.
LEMMA FreeKernelKeeps2 ==
  ASSUME Inv1, Inv2, NEW t \in Threads, FreeKernel(t)
  PROVE  Inv2'
<1> USE DEF deviceVars, callVars
<1> DEFINE q == queue[t]
<1>1. InCall(t) /\ Head(todo[t]) = "free" /\ q \in Queues
  BY Zenon DEF Inv1, CallOK, At, FreeKernel
<1>2. CASE submitted[q] = <<>>
  <2>1. Advance(t) /\ UNCHANGED <<cmds, completed, submitted, queue, kernel, need, appRefs, target>>
    BY Zenon, <1>2 DEF FreeKernel
  <2> QED
    BY Zenon, <1>1, <2>1, QuietKeeps2
<1>3. CASE submitted[q] # <<>>
  <2>1. /\ submitted' = [submitted EXCEPT ![q] = Tail(submitted[q])]
        /\ UNCHANGED <<cmds, completed, todo, queue, kernel, target>>
    BY Zenon, <1>3 DEF FreeKernel
  <2>2. cmds[q] = <<>>
    BY Zenon, <1>1 DEF Inv2, SyncOK, At
  <2>3. OneCall' /\ SyncOK'
    BY Zenon, <2>1 DEF Inv2, OneCall, SyncOK, At, InCall, Position
  <2>4. PendingRecorded'
    <3> SUFFICES ASSUME NEW p \in Queues, NEW k \in Kernels, NEW i \in DOMAIN cmds[p],
                        cmds[p][i].kernel = k
                 PROVE  Recorded(p, k)' \/ \E u \in Threads : ToRecord(u, p, k)'
      BY Zenon, <2>1 DEF PendingRecorded
    <3>1. p # q
      BY <2>2
    <3>2. submitted'[p] = submitted[p]
      BY Zenon, <2>1, <3>1 DEF Inv1, TypeOK
    <3>3. Recorded(p, k) \/ \E u \in Threads : ToRecord(u, p, k)
      BY Zenon DEF Inv2, PendingRecorded
    <3> QED
      BY Zenon, <2>1, <3>2, <3>3 DEF Recorded, ToRecord, At, InCall
  <2> QED
    BY Zenon, <2>3, <2>4 DEF Inv2
<1> QED
  BY Zenon, <1>2, <1>3

\* A synchronize starts: its target is everything appended so far.
LEMMA SyncKeeps2 ==
  ASSUME Inv1, Inv2, NEW t \in Threads, Sync(t)
  PROVE  Inv2'
<1>1. /\ InCall(t) /\ Head(todo[t]) = "sync" /\ Advance(t)
      /\ target' = [target EXCEPT ![t] = Position(queue[t])]
      /\ UNCHANGED <<cmds, completed, submitted, queue, kernel, need, appRefs>>
  BY Zenon DEF Sync, At, deviceVars, kernelVars
<1>2. queue[t] \in Queues
  BY Zenon, <1>1 DEF Inv1, CallOK
<1>3. Position(queue[t]) \in Nat
  BY <1>2 DEF Inv1, TypeOK, Position
<1>4. /\ target' \in [Threads -> Nat] /\ target'[t] = Position(queue[t])
      /\ \A u \in Threads : u # t => target'[u] = target[u]
  BY Zenon, <1>1, <1>3 DEF Inv1, TypeOK
<1> QED
  BY Zenon, <1>1, <1>4, StepKeeps2

\* The steps that append nothing and record nothing.
LEMMA PlainStepsKeep2 ==
  ASSUME Inv1, Inv2, NEW t \in Threads,
         Nop(t) \/ Args(t) \/ Pointer(t) \/ Clear(t) \/ Wait(t) \/ Unlock(t)
  PROVE  Inv2'
<1> USE DEF deviceVars, kernelVars, callVars
<1> DEFINE Quiet ==
             /\ InCall(t)
             /\ Head(todo[t]) \in {"nop", "args", "pointer", "clear", "wait", "unlock"}
             /\ Head(todo[t]) = "wait" => target[t] <= completed[queue[t]]
             /\ Advance(t)
             /\ UNCHANGED <<cmds, completed, submitted, queue, kernel, need, appRefs, target>>
           Over ==
             /\ At(t, "nop") /\ Leave(t)
             /\ UNCHANGED <<deviceVars, waitList, allocated, kernelVars>>
<1>1. Over => Inv2'
  <2>1. At(t, "nop") => ~At(t, "unlock") /\ ~At(t, "record")
    BY Zenon DEF At
  <2> QED
    BY Zenon, <2>1, LeaveKeeps2
<1>2. Quiet => Inv2'
  BY Zenon, QuietKeeps2
<1>3. Nop(t) => Over \/ Quiet
  BY Zenon DEF Nop, At
<1>4. Args(t) => Quiet
  BY Zenon DEF Args, At
<1>5. Pointer(t) => Quiet
  BY Zenon DEF Pointer, At
<1>6. Clear(t) => Quiet
  BY Zenon DEF Clear, At
<1>7. Wait(t) => Quiet
  BY Zenon DEF Wait, At
<1>8. Unlock(t) => Quiet
  BY Zenon DEF Unlock, At
<1> HIDE DEF Over, Quiet
<1> QED
  BY ZenonT(60), <1>1, <1>2, <1>3, <1>4, <1>5, <1>6, <1>7, <1>8

\* The steps that may append a command.
LEMMA AppendStepsKeep2 ==
  ASSUME Inv1, Inv2, NEW t \in Threads,
         Migrate(t) \/ Copy(t) \/ AppendMain(t) \/ WaitOn(t) \/ Plain(t) \/ SignalEvent(t)
  PROVE  Inv2'
<1> USE DEF deviceVars, kernelVars, callVars
<1> DEFINE Moves(S) ==
             /\ InCall(t) /\ Head(todo[t]) \in S /\ Advance(t)
             /\ UNCHANGED <<completed, submitted, queue, kernel, need, appRefs, target>>
           Others == {"migrate", "copy", "waitOn", "waitIf", "plain", "signal"}
           c == Command(t, NoKernel, Viewed(t))
           d == Command(t, NoKernel, {})
           e == SignallingCommand(t, NoKernel, {})
           m == SignallingCommand(t, kernel[t], Viewed(t))
<1>1. InCall(t) => queue[t] \in Queues
  BY Zenon DEF Inv1, CallOK
<1>2. InCall(t) => /\ c \in Commands /\ d \in Commands /\ e \in Commands /\ m \in Commands
                   /\ c.kernel = NoKernel /\ d.kernel = NoKernel /\ e.kernel = NoKernel
                   /\ m.kernel = kernel[t]
  <2> SUFFICES ASSUME InCall(t)
               PROVE  /\ c \in Commands /\ d \in Commands /\ e \in Commands /\ m \in Commands
                      /\ c.kernel = NoKernel /\ d.kernel = NoKernel /\ e.kernel = NoKernel
                      /\ m.kernel = kernel[t]
    BY Zenon
  <2>1. Viewed(t) \in SUBSET Event /\ {} \in SUBSET Event /\ NoKernel \in Kernels \cup {NoKernel}
        /\ kernel[t] \in Kernels \cup {NoKernel}
    BY Zenon, <1>1, CommandTypes DEF Inv1, TypeOK
  <2> QED
    BY <1>1, <2>1, CommandTypes DEF Inv1
<1> HIDE DEF c, d, e, m
<1>3. Moves(Others) /\ UNCHANGED cmds => Inv2'
  BY Zenon, QuietKeeps2
<1>4. Moves(Others) /\ AppendCommand(t, c) => Inv2'
  BY Zenon, <1>2, AppendKeeps2
<1>5. Moves(Others) /\ AppendCommand(t, d) => Inv2'
  BY Zenon, <1>2, AppendKeeps2
<1>6. Moves(Others) /\ AppendCommand(t, e) => Inv2'
  BY Zenon, <1>2, AppendKeeps2
<1>7. Moves({"append"}) /\ AppendCommand(t, m) => Inv2'
  BY Zenon, <1>2, AppendKeeps2
<1>8. Migrate(t) => Moves(Others) /\ (UNCHANGED cmds \/ AppendCommand(t, c))
  BY Zenon DEF Migrate, At, c
<1>9. Copy(t) => Moves(Others) /\ AppendCommand(t, c)
  BY Zenon DEF Copy, At, c
<1>10. AppendMain(t) => Moves({"append"}) /\ AppendCommand(t, m)
  BY Zenon DEF AppendMain, At, m
<1>11. WaitOn(t) => Moves(Others) /\ (UNCHANGED cmds \/ AppendCommand(t, c))
  BY Zenon DEF WaitOn, At, c
<1>12. Plain(t) => Moves(Others) /\ AppendCommand(t, d)
  BY Zenon DEF Plain, At, d
<1>13. SignalEvent(t) => Moves(Others) /\ (UNCHANGED cmds \/ AppendCommand(t, e))
  BY Zenon DEF SignalEvent, At, e
<1> HIDE DEF Moves, Others
<1> QED
  BY ZenonT(60), <1>3, <1>4, <1>5, <1>6, <1>7, <1>8, <1>9, <1>10, <1>11, <1>12, <1>13

\* Every step keeps the calls on a queue apart, the synchronizes and the
\* records in order.
LEMMA NextKeeps2 ==
  ASSUME Exclusive, Inv1, Inv2, [Next]_vars
  PROVE  Inv2'
<1> USE DEF deviceVars, kernelVars, callVars
<1>1. ASSUME NEW q \in Queues, DeviceComplete(q)
      PROVE  Inv2'
  BY Zenon, <1>1, DeviceCompleteKeeps2
<1>2. ASSUME NEW t \in Threads, NEW q \in Queues, Launch(t, q) \/ Enqueue(t, q)
      PROVE  Inv2'
  <2>1. PICK f, s : \E k \in Kernels \cup {NoKernel}, w \in WaitLists,
                       i \in {NotWanted, Wanted} : Begins(t, q, f, s, k, w, i)
    BY Zenon, <1>2, CallBegins
  <2>2. PICK k \in Kernels \cup {NoKernel}, w \in WaitLists,
             i \in {NotWanted, Wanted} : Begins(t, q, f, s, k, w, i)
    BY Zenon, <2>1
  <2> DEFINE r == Append(s, "return")
  <2>3. r \in Seq(Steps) /\ Shape(r) /\ r[1] \in {"nop", "args"}
    BY Zenon, <2>2 DEF Begins
  <2>4. /\ ~InCall(t) /\ \A u \in Threads : ~(InCall(u) /\ queue[u] = q)
        /\ todo' = [todo EXCEPT ![t] = r]
        /\ queue' = [queue EXCEPT ![t] = q]
        /\ kernel' = [kernel EXCEPT ![t] = k]
        /\ UNCHANGED <<cmds, completed, submitted, target>>
    BY Zenon, <2>2 DEF Begins, Begin
  <2> HIDE DEF r
  <2>5. r # <<>> /\ Head(r) \in {"nop", "args", "sync"}
    BY Zenon, <2>3, TailFacts DEF Shape
  <2> QED
    BY Zenon, <2>4, <2>5, EnterKeeps2
<1>3. ASSUME NEW t \in Threads, NEW q \in Queues, Finish(t, q)
      PROVE  Inv2'
  <2> DEFINE r == Append(queueFinish.steps, "return")
  <2>1. r \in Seq(Steps) /\ Shape(r) /\ r[1] = "sync"
    BY Zenon, FinishSteps
  <2>2. /\ ~InCall(t) /\ \A u \in Threads : ~(InCall(u) /\ queue[u] = q)
        /\ todo' = [todo EXCEPT ![t] = r]
        /\ queue' = [queue EXCEPT ![t] = q]
        /\ UNCHANGED <<kernel, cmds, completed, submitted, target>>
    BY Zenon, <1>3 DEF Finish
  <2> HIDE DEF r
  <2>3. r # <<>> /\ Head(r) \in {"nop", "args", "sync"}
    BY Zenon, <2>1, TailFacts DEF Shape
  <2>4. kernel' = [kernel EXCEPT ![t] = kernel[t]]
    BY Zenon, <2>2 DEF Inv1, TypeOK
  <2> QED
    BY Zenon, <2>2, <2>3, <2>4, EnterKeeps2
<1>4. ASSUME NEW t \in Threads, Step(t) \/ Fail(t)
      PROVE  Inv2'
  <2>1. Return(t) => Inv2'
    <3>1. Return(t) => ~At(t, "unlock") /\ ~At(t, "record")
      BY Zenon DEF Return, At
    <3> QED
      BY Zenon, <3>1, LeaveKeeps2 DEF Return
  <2>2. Fail(t) => Inv2'
    <3>1. Fail(t) => ~At(t, "unlock") /\ ~At(t, "record")
      BY Zenon DEF Fail, At
    <3> QED
      BY Zenon, <3>1, LeaveKeeps2 DEF Fail
  <2> QED
    BY ZenonT(60), <1>4, <2>1, <2>2, PlainStepsKeep2, AppendStepsKeep2, SyncKeeps2,
       recordSubmittedKernelKeeps2, FreeKernelKeeps2 DEF Step
<1>5. ASSUME UNCHANGED <<cmds, completed, submitted, todo, queue, kernel, target>>
      PROVE  Inv2'
  BY <1>5 DEF Inv2, OneCall, SyncOK, PendingRecorded, Recorded, ToRecord, At, InCall, Position
<1>6. ASSUME NEW k \in Kernels, urKernelRetain(k) \/ urKernelRelease(k)
      PROVE  Inv2'
  BY Zenon, <1>5, <1>6 DEF urKernelRetain, urKernelRelease
<1>7. CASE UNCHANGED vars
  BY Zenon, <1>5, <1>7 DEF vars
<1> QED
  BY ZenonT(60), <1>1, <1>2, <1>3, <1>4, <1>6, <1>7 DEF Next, Call

\* When a queue is used from one thread at a time, both invariants hold in every
\* state.
LEMMA Invariant2 ==
  ASSUME Exclusive
  PROVE  Spec => [](Inv1 /\ Inv2)
<1>1. Init => Inv1 /\ Inv2
  BY Zenon, InitHolds1, InitHolds2
<1>2. (Inv1 /\ Inv2) /\ [Next]_vars => (Inv1 /\ Inv2)'
  BY Zenon, NextKeeps1, NextKeeps2
<1> QED
  BY <1>1, <1>2, PTL DEF Spec

\* When a queue is used from one thread at a time, a kernel the device has
\* still to run is alive, whatever references the application dropped: every
\* launch is recorded before its call can end, and queueFinish releases the
\* records only when nothing is pending (queue_immediate_in_order.cpp:147-177).
THEOREM KernelsAlive ==
  ASSUME Exclusive
  PROVE  Spec => []KernelAliveWhilePending
BY PendingAlive, Invariant2, PTL

------------------------------------------------------------------------------
(* What a command waits for *)

\* The event e is complete, or one of the first n commands of q waits for it.
WaitedFor(q, n, e) ==
  Complete(e) \/ \E j \in DOMAIN cmds[q] : j <= n /\ e \in cmds[q][j].waits

CommandsWait ==
  \A q \in Queues : \A i \in DOMAIN cmds[q] : \A e \in cmds[q][i].need :
    WaitedFor(q, i, e)

\* A call has not looked at its wait list yet, or a command has its waits, or
\* the view still has them and will be used before a command goes without.
Covered(t) == \A e \in need[t] : WaitedFor(queue[t], Len(cmds[queue[t]]), e)
Fresh(t) == need[t] # {} => view[t].num > 0 /\ waitList[queue[t]] = need[t]

CallsWait ==
  \A t \in Threads : InCall(t) =>
    \/ Covered(t)
    \/ Safe(todo[t]) /\ (At(t, "nop") \/ At(t, "args") \/ Fresh(t))

Inv3 == CommandsWait /\ CallsWait

------------------------------------------------------------------------------
(* Wait lists *)

\* At the start no command is pending and no call is running.
LEMMA InitHolds3 == Init => Inv3
BY DEF Init, Inv3, CommandsWait, CallsWait, InCall

\* The commands a call appends: their type, what they wait for, and what they
\* need.
LEMMA AppendedCommands ==
  ASSUME Inv1, NEW t \in Threads, InCall(t)
  PROVE  LET c == Command(t, NoKernel, Viewed(t))
             d == Command(t, NoKernel, {})
             e == SignallingCommand(t, NoKernel, {})
             m == SignallingCommand(t, kernel[t], Viewed(t))
         IN  /\ c \in Commands /\ d \in Commands /\ e \in Commands /\ m \in Commands
             /\ c.waits = Viewed(t) /\ m.waits = Viewed(t)
             /\ c.need = need[t] /\ d.need = need[t] /\ e.need = need[t]
             /\ m.need = need[t]
<1>1. queue[t] \in Queues
  BY Zenon DEF Inv1, CallOK
<1>2. Viewed(t) \in SUBSET Event /\ {} \in SUBSET Event /\ NoKernel \in Kernels \cup {NoKernel}
      /\ kernel[t] \in Kernels \cup {NoKernel}
  BY Zenon, <1>1, CommandTypes DEF Inv1, TypeOK
<1> QED
  BY <1>1, <1>2, CommandTypes DEF Inv1

\* What is waited for stays so while commands are only appended.
LEMMA WaitedForKept ==
  ASSUME NEW q, NEW m \in Nat, NEW n \in Nat, m <= n, NEW e, WaitedFor(q, m, e),
         completed' = completed,
         DOMAIN cmds[q] \in SUBSET Nat,
         \A j \in DOMAIN cmds[q] : j \in DOMAIN cmds'[q] /\ cmds'[q][j] = cmds[q][j]
  PROVE  WaitedFor(q, n, e)'
<1>1. CASE Complete(e)
  BY Zenon, <1>1 DEF WaitedFor, Complete
<1>2. CASE \E j \in DOMAIN cmds[q] : j <= m /\ e \in cmds[q][j].waits
  <2>1. PICK j \in DOMAIN cmds[q] : j <= m /\ e \in cmds[q][j].waits
    BY Zenon, <1>2
  <2>2. j \in Nat /\ j <= n
    BY <2>1
  <2>3. j \in DOMAIN cmds'[q] /\ e \in cmds'[q][j].waits
    BY Zenon, <2>1
  <2> QED
    BY Zenon, <2>2, <2>3 DEF WaitedFor
<1> QED
  BY Zenon, <1>1, <1>2 DEF WaitedFor

\* A call that is not part of the step: its queue is not either.
LEMMA OtherCall3 ==
  ASSUME Inv1, Inv3, NEW u \in Threads, InCall(u), completed' = completed,
         cmds'[queue[u]] = cmds[queue[u]],
         waitList'[queue[u]] = waitList[queue[u]],
         todo'[u] = todo[u], queue'[u] = queue[u], need'[u] = need[u], view'[u] = view[u]
  PROVE  Covered(u)' \/ (Safe(todo'[u]) /\ (At(u, "nop")' \/ At(u, "args")' \/ Fresh(u)'))
<1>1. CASE Covered(u)
  <2> SUFFICES ASSUME NEW e \in need[u]
               PROVE  WaitedFor(queue[u], Len(cmds[queue[u]]), e)'
    BY Zenon DEF Covered
  <2>1. WaitedFor(queue[u], Len(cmds[queue[u]]), e)
    BY Zenon, <1>1 DEF Covered
  <2> QED
    BY Zenon, <2>1 DEF WaitedFor, Complete
<1>2. CASE Safe(todo[u]) /\ (At(u, "nop") \/ At(u, "args") \/ Fresh(u))
  BY Zenon, <1>2 DEF At, InCall, Fresh
<1> QED
  BY Zenon, <1>1, <1>2 DEF Inv3, CallsWait

\* A step that appends nothing: a call that has not got its waits yet keeps
\* them for a later step.
LEMMA QuietKeeps3 ==
  ASSUME Inv1, Inv2, Inv3, NEW t \in Threads, InCall(t), Head(todo[t]) # "return",
         Advance(t), UNCHANGED <<deviceVars, queue, kernel, need, appRefs>>,
         \A u \in Threads : u # t => view'[u] = view[u],
         \A p \in Queues : p # queue[t] => waitList'[p] = waitList[p],
         \/ Head(todo[t]) \in Bare \cup {"nop"}
         \/ Head(todo[t]) \notin Covering /\ Fresh(t)'
         \/ /\ Head(todo[t]) \notin Covering \cup {"nop", "args"}
            /\ UNCHANGED <<view, waitList>>
         \/ Head(todo[t]) \in Covering /\ ~(view[t].num > 0)
  PROVE  Inv3'
<1> DEFINE h == Head(todo[t])
<1>1. queue[t] \in Queues /\ Shape(todo[t]) /\ todo[t] \in Seq(Steps)
  BY Zenon DEF Inv1, TypeOK, CallOK
<1>2. /\ InCall(t)' /\ Head(todo'[t]) = todo[t][2] /\ Len(todo[t]) > 1
      /\ Safe(todo[t]) /\ h \notin Covering => Safe(todo'[t])
      /\ \A u \in Threads : u # t => todo'[u] = todo[u]
  BY Zenon, MoveKeeps DEF Inv1
<1>3. 1 \in DOMAIN todo[t] /\ todo[t][1] = h /\ Len(todo[t]) \in Nat
  BY <1>1, TailFacts DEF InCall
<1> HIDE DEF h
<1>4. CommandsWait'
  BY Zenon DEF Inv3, CommandsWait, WaitedFor, Complete, deviceVars
<1>5. Covered(t) => Covered(t)'
  BY Zenon DEF Covered, WaitedFor, Complete, deviceVars
<1>6. ASSUME ~Covered(t)
      PROVE  Safe(todo'[t]) /\ (At(t, "args")' \/ Fresh(t)')
  <2>1. Safe(todo[t]) /\ (h = "nop" \/ h = "args" \/ Fresh(t))
    BY Zenon, <1>6 DEF Inv3, CallsWait, At, h
  <2>2. h \notin Bare
    <3> SUFFICES ASSUME h \in Bare
                 PROVE  FALSE
      BY Zenon
    <3>1. \E j \in 1 .. 1 - 1 : todo[t][j] \in Covering
      BY Zenon, <1>3, <2>1 DEF Safe
    <3> QED
      BY <3>1
  <2>3. need[t] # {}
    BY Zenon, <1>6 DEF Covered
  <2>4. CASE h = "nop"
    <3>1. 2 \in 2 .. Len(todo[t]) /\ 2 - 1 = 1
      BY <1>2, <1>3
    <3>2. todo[t][2] = "args"
      BY Zenon, <1>1, <1>3, <2>4, <3>1 DEF Shape
    <3>3. h \notin Covering
      BY Zenon, <2>4 DEF Covering
    <3> QED
      BY Zenon, <1>2, <2>1, <3>2, <3>3 DEF At
  <2>5. CASE h \notin Covering /\ Fresh(t)'
    BY Zenon, <1>2, <2>1, <2>5
  <2>6. CASE h \notin Covering \cup {"nop", "args"} /\ UNCHANGED <<view, waitList>>
    <3>1. Fresh(t)'
      BY Zenon, <2>1, <2>6 DEF Fresh
    <3> QED
      BY Zenon, <1>2, <2>1, <2>6, <3>1
  <2>7. CASE h \in Covering /\ ~(view[t].num > 0)
    BY Zenon, <2>1, <2>3, <2>7 DEF Fresh, Covering
  <2> QED
    BY Zenon, <2>2, <2>4, <2>5, <2>6, <2>7 DEF h
<1>7. CallsWait'
  <2> SUFFICES ASSUME NEW u \in Threads, InCall(u)'
               PROVE  Covered(u)' \/ (Safe(todo'[u])
                        /\ (At(u, "nop")' \/ At(u, "args")' \/ Fresh(u)'))
    BY Zenon DEF CallsWait
  <2>1. CASE u = t
    BY Zenon, <1>5, <1>6, <2>1
  <2>2. CASE u # t
    <3>1. InCall(u) /\ todo'[u] = todo[u]
      BY Zenon, <1>2, <2>2 DEF InCall
    <3>2. queue[u] # queue[t] /\ queue[u] \in Queues
      BY Zenon, <2>2, <3>1 DEF Inv1, CallOK, Inv2, OneCall
    <3> QED
      BY Zenon, <2>2, <3>1, <3>2, OtherCall3 DEF deviceVars
  <2> QED
    BY Zenon, <2>1, <2>2
<1> QED
  BY Zenon, <1>4, <1>7 DEF Inv3

\* A step that appends a command, with the waits of the view unless another
\* command of the call has them.
LEMMA AppendKeeps3 ==
  ASSUME Inv1, Inv2, Inv3, NEW t \in Threads, InCall(t),
         Head(todo[t]) \in Covering \cup {"migrate", "plain", "signal"},
         Advance(t), UNCHANGED <<completed, waitList, queue, kernel, need, appRefs>>,
         \A u \in Threads : u # t => view'[u] = view[u],
         NEW c \in Commands, AppendCommand(t, c), c.need = need[t],
         c.waits = Viewed(t) \/ Head(todo[t]) \in {"plain", "signal"}
  PROVE  Inv3'
<1> SUFFICES ASSUME NEW q, q = queue[t], NEW n, n = Len(cmds[q])
             PROVE  Inv3'
  BY Zenon
<1>1. q \in Queues /\ todo[t] \in Seq(Steps) /\ cmds[q] \in Seq(Commands)
  BY Zenon DEF Inv1, TypeOK, CallOK
<1>2. \A u \in Threads : u # t => todo'[u] = todo[u]
  BY Zenon DEF Advance, Inv1, TypeOK
<1>3. /\ cmds'[q] = Append(cmds[q], c)
      /\ \A p \in Queues : p # q => cmds'[p] = cmds[p]
  BY Zenon, <1>1, AppendTypes DEF Inv1
<1>4. /\ n \in Nat /\ DOMAIN cmds[q] = 1 .. n
      /\ Len(cmds'[q]) = n + 1 /\ DOMAIN cmds'[q] = 1 .. n + 1
      /\ cmds'[q][n + 1] = c
      /\ \A j \in 1 .. n : cmds'[q][j] = cmds[q][j]
  BY <1>1, <1>3, AppendFacts
<1>5. /\ DOMAIN cmds[q] \in SUBSET Nat
      /\ \A j \in DOMAIN cmds[q] : j \in DOMAIN cmds'[q] /\ cmds'[q][j] = cmds[q][j]
  BY <1>4
<1>6. Covered(t) \/ need[t] \subseteq c.waits
  <2> SUFFICES ASSUME ~Covered(t)
               PROVE  need[t] \subseteq c.waits
    BY Zenon
  <2>1. 1 \in DOMAIN todo[t] /\ todo[t][1] = Head(todo[t])
    BY <1>1, TailFacts DEF InCall
  <2>2. Safe(todo[t]) /\ Fresh(t)
    BY Zenon DEF Inv3, CallsWait, At, Covering
  <2>3. Head(todo[t]) \notin Bare
    <3> SUFFICES ASSUME Head(todo[t]) \in Bare
                 PROVE  FALSE
      BY Zenon
    <3>1. \E j \in 1 .. 1 - 1 : todo[t][j] \in Covering
      BY Zenon, <2>1, <2>2 DEF Safe
    <3> QED
      BY <3>1
  <2>4. c.waits = Viewed(t)
    BY Zenon, <2>3 DEF Bare
  <2> QED
    BY <2>2, <2>4 DEF Fresh, Viewed
<1>7. ASSUME NEW e \in need[t]
      PROVE  WaitedFor(q, n + 1, e)'
  <2>1. CASE Covered(t)
    <3>1. WaitedFor(q, n, e) /\ n <= n + 1 /\ n + 1 \in Nat
      BY <1>4, <2>1 DEF Covered
    <3> QED
      BY ZenonT(60), <1>4, <1>5, <3>1, WaitedForKept
  <2>2. CASE need[t] \subseteq c.waits
    <3>1. n + 1 \in DOMAIN cmds'[q] /\ n + 1 <= n + 1 /\ e \in cmds'[q][n + 1].waits
      BY <1>4, <2>2
    <3> QED
      BY Zenon, <3>1 DEF WaitedFor
  <2> QED
    BY Zenon, <1>6, <2>1, <2>2
<1>8. CommandsWait'
  <2> SUFFICES ASSUME NEW p \in Queues, NEW i \in DOMAIN cmds'[p], NEW e \in cmds'[p][i].need
               PROVE  WaitedFor(p, i, e)'
    BY Zenon DEF CommandsWait
  <2>1. CASE p = q /\ i = n + 1
    <3>1. e \in need[t]
      BY Zenon, <1>4, <2>1
    <3> QED
      BY Zenon, <1>7, <2>1, <3>1
  <2>2. CASE p = q /\ i # n + 1
    <3>1. i \in DOMAIN cmds[q] /\ i \in Nat /\ i <= i /\ e \in cmds[q][i].need
      <4>1. i \in 1 .. n
        BY <1>4, <2>2
      <4>2. cmds'[q][i] = cmds[q][i]
        BY Zenon, <1>4, <4>1
      <4> QED
        BY <1>4, <2>2, <4>1, <4>2
    <3>2. WaitedFor(q, i, e)
      BY Zenon, <1>1, <3>1 DEF Inv3, CommandsWait
    <3> QED
      BY ZenonT(60), <1>5, <2>2, <3>1, <3>2, WaitedForKept
  <2>3. CASE p # q
    <3>1. cmds'[p] = cmds[p]
      BY Zenon, <1>3, <2>3
    <3>2. WaitedFor(p, i, e)
      BY Zenon, <3>1 DEF Inv3, CommandsWait
    <3> QED
      BY Zenon, <3>1, <3>2 DEF WaitedFor, Complete
  <2> QED
    BY Zenon, <2>1, <2>2, <2>3
<1>9. Covered(t)'
  <2> SUFFICES ASSUME NEW e \in need[t]
               PROVE  WaitedFor(queue[t], Len(cmds[queue[t]]), e)'
    BY Zenon DEF Covered
  <2>1. queue'[t] = q /\ Len(cmds'[queue'[t]]) = n + 1
    BY Zenon, <1>4
  <2> QED
    BY Zenon, <1>7, <2>1 DEF WaitedFor
<1>10. CallsWait'
  <2> SUFFICES ASSUME NEW u \in Threads, InCall(u)', u # t
               PROVE  Covered(u)' \/ (Safe(todo'[u])
                        /\ (At(u, "nop")' \/ At(u, "args")' \/ Fresh(u)'))
    BY Zenon, <1>9 DEF CallsWait
  <2>1. InCall(u) /\ todo'[u] = todo[u]
    BY Zenon, <1>2 DEF InCall
  <2>2. queue[u] # q /\ queue[u] \in Queues
    BY Zenon, <2>1 DEF Inv1, CallOK, Inv2, OneCall
  <2>3. cmds'[queue[u]] = cmds[queue[u]]
    BY Zenon, <1>3, <2>2
  <2> QED
    BY Zenon, <2>1, <2>3, OtherCall3
<1> QED
  BY Zenon, <1>8, <1>10 DEF Inv3

\* What is waited for stays so when the device completes a command of q: the
\* commands move up by one, and the waits of the first are complete.
LEMMA WaitedForShift ==
  ASSUME Inv1, NEW q \in Queues, DeviceComplete(q),
         NEW p \in Queues, NEW n \in Nat, NEW e \in Event, WaitedFor(p, n, e)
  PROVE  (IF p = q THEN WaitedFor(p, n - 1, e)' ELSE WaitedFor(p, n, e)')
<1>1. /\ cmds[q] # <<>> /\ \A x \in Head(cmds[q]).waits : Complete(x)
      /\ cmds' = [cmds EXCEPT ![q] = Tail(cmds[q])]
      /\ completed' = [completed EXCEPT ![q] = completed[q] + 1]
  BY Zenon DEF DeviceComplete, Runnable
<1>2. cmds[q] \in Seq(Commands) /\ completed[q] \in Nat /\ completed \in [Queues -> Nat]
  BY Zenon DEF Inv1, TypeOK
<1>3. /\ Len(cmds[q]) \in Nat \ {0} /\ DOMAIN cmds[q] = 1 .. Len(cmds[q])
      /\ Head(cmds[q]) = cmds[q][1]
      /\ DOMAIN Tail(cmds[q]) = 1 .. Len(cmds[q]) - 1
      /\ \A i \in 1 .. Len(cmds[q]) - 1 : Tail(cmds[q])[i] = cmds[q][i + 1]
  BY Zenon, <1>1, <1>2, TailFacts
<1>4. /\ cmds'[q] = Tail(cmds[q])
      /\ \A r \in Queues : r # q => cmds'[r] = cmds[r]
  BY Zenon, <1>1 DEF Inv1, TypeOK
<1>5. Complete(e) => Complete(e)'
  <2>1. e[1] \in Queues /\ e[2] \in Nat
    BY Zenon DEF Event
  <2>2. completed'[e[1]] \in Nat /\ completed[e[1]] \in Nat /\ completed'[e[1]] >= completed[e[1]]
    BY <1>1, <1>2, <2>1
  <2> QED
    BY <2>1, <2>2 DEF Complete
<1>6. CASE Complete(e)
  BY Zenon, <1>5, <1>6 DEF WaitedFor
<1>7. CASE \E j \in DOMAIN cmds[p] : j <= n /\ e \in cmds[p][j].waits
  <2>1. PICK j \in DOMAIN cmds[p] : j <= n /\ e \in cmds[p][j].waits
    BY Zenon, <1>7
  <2>2. CASE p # q
    <3>1. j \in DOMAIN cmds'[p] /\ e \in cmds'[p][j].waits
      BY Zenon, <1>4, <2>1, <2>2
    <3> QED
      BY Zenon, <2>1, <2>2, <3>1 DEF WaitedFor
  <2>3. CASE p = q /\ j = 1
    BY Zenon, <1>1, <1>3, <1>5, <2>1, <2>3 DEF WaitedFor
  <2>4. CASE p = q /\ j # 1
    <3>1. j - 1 \in 1 .. Len(cmds[q]) - 1 /\ (j - 1) + 1 = j /\ j - 1 <= n - 1
      BY <1>3, <2>1, <2>4
    <3>2. Tail(cmds[q])[j - 1] = cmds[q][j]
      BY Zenon, <1>3, <3>1
    <3>3. j - 1 \in DOMAIN cmds'[p] /\ e \in cmds'[p][j - 1].waits
      BY ZenonT(60), <1>3, <1>4, <2>1, <2>4, <3>1, <3>2
    <3> QED
      BY Zenon, <2>4, <3>1, <3>3 DEF WaitedFor
  <2> QED
    BY Zenon, <2>2, <2>3, <2>4
<1> QED
  BY Zenon, <1>6, <1>7 DEF WaitedFor

\* The device completes a command.
LEMMA DeviceCompleteKeeps3 ==
  ASSUME Inv1, Inv3, NEW q \in Queues, DeviceComplete(q)
  PROVE  Inv3'
<1>1. /\ cmds[q] # <<>>
      /\ cmds' = [cmds EXCEPT ![q] = Tail(cmds[q])]
      /\ UNCHANGED <<todo, queue, need, view, waitList>>
  BY Zenon DEF DeviceComplete, Runnable, callVars
<1>2. cmds[q] \in Seq(Commands)
  BY Zenon DEF Inv1, TypeOK
<1>3. /\ Len(cmds[q]) \in Nat \ {0} /\ DOMAIN cmds[q] = 1 .. Len(cmds[q])
      /\ Len(Tail(cmds[q])) = Len(cmds[q]) - 1
      /\ DOMAIN Tail(cmds[q]) = 1 .. Len(cmds[q]) - 1
      /\ \A i \in 1 .. Len(cmds[q]) - 1 : Tail(cmds[q])[i] = cmds[q][i + 1]
  BY Zenon, <1>1, <1>2, TailFacts
<1>4. /\ cmds'[q] = Tail(cmds[q])
      /\ \A p \in Queues : p # q => cmds'[p] = cmds[p]
  BY Zenon, <1>1 DEF Inv1, TypeOK
<1>5. ASSUME NEW p \in Queues, NEW i \in DOMAIN cmds[p]
      PROVE  cmds[p][i].need \in SUBSET Event /\ i \in Nat
  <2>1. cmds[p] \in Seq(Commands)
    BY Zenon DEF Inv1, TypeOK
  <2>2. cmds[p][i] \in Commands /\ i \in Nat
    BY <2>1
  <2> QED
    BY Zenon, <2>2 DEF Commands
<1>6. CommandsWait'
  <2> SUFFICES ASSUME NEW p \in Queues, NEW i \in DOMAIN cmds'[p], NEW e \in cmds'[p][i].need
               PROVE  WaitedFor(p, i, e)'
    BY Zenon DEF CommandsWait
  <2>1. CASE p = q
    <3>1. i \in 1 .. Len(cmds[q]) - 1
      BY Zenon, <1>3, <1>4, <2>1
    <3>2. i + 1 \in DOMAIN cmds[q] /\ cmds'[q][i] = cmds[q][i + 1] /\ (i + 1) - 1 = i
      BY <1>3, <1>4, <3>1
    <3>3. e \in cmds[q][i + 1].need
      BY Zenon, <2>1, <3>2
    <3>4. WaitedFor(q, i + 1, e) /\ e \in Event /\ i + 1 \in Nat
      BY Zenon, <1>5, <3>2, <3>3 DEF Inv3, CommandsWait
    <3>5. WaitedFor(q, (i + 1) - 1, e)'
      BY Zenon, <3>4, WaitedForShift
    <3> QED
      BY Zenon, <2>1, <3>2, <3>5
  <2>2. CASE p # q
    <3>1. i \in DOMAIN cmds[p] /\ e \in cmds[p][i].need
      BY Zenon, <1>4, <2>2
    <3>2. WaitedFor(p, i, e) /\ e \in Event /\ i \in Nat
      BY Zenon, <1>5, <3>1 DEF Inv3, CommandsWait
    <3> QED
      BY Zenon, <2>2, <3>2, WaitedForShift
  <2> QED
    BY Zenon, <2>1, <2>2
<1>7. CallsWait'
  <2> SUFFICES ASSUME NEW u \in Threads, InCall(u), Covered(u)
               PROVE  Covered(u)'
    BY Zenon, <1>1 DEF Inv3, CallsWait, At, InCall, Fresh
  <2> SUFFICES ASSUME NEW p \in Queues, p = queue[u], NEW n \in Nat, n = Len(cmds[p]),
                      NEW m, m = Len(cmds'[p]), NEW e \in need[u]
               PROVE  WaitedFor(p, m, e)'
    <3>1. queue[u] \in Queues /\ cmds[queue[u]] \in Seq(Commands)
      BY Zenon DEF Inv1, TypeOK, CallOK
    <3>2. Len(cmds[queue[u]]) \in Nat
      BY <3>1
    <3>3. \A e \in need[u] : WaitedFor(queue[u], Len(cmds[queue[u]]), e)'
      BY Zenon, <1>1, <3>1, <3>2 DEF WaitedFor
    <3> QED
      BY Zenon, <1>1, <3>3 DEF Covered
  <2>1. WaitedFor(p, n, e) /\ e \in Event
    BY Zenon DEF Covered, Inv1, TypeOK
  <2>2. CASE p = q
    <3>1. m = n - 1
      BY Zenon, <1>3, <1>4, <2>2
    <3>2. WaitedFor(p, n - 1, e)'
      BY Zenon, <2>1, <2>2, WaitedForShift
    <3> QED
      BY Zenon, <3>1, <3>2
  <2>3. CASE p # q
    <3>1. m = n
      BY Zenon, <1>4, <2>3
    <3>2. WaitedFor(p, n, e)'
      BY Zenon, <2>1, <2>3, WaitedForShift
    <3> QED
      BY Zenon, <3>1, <3>2
  <2> QED
    BY Zenon, <2>2, <2>3
<1> QED
  BY Zenon, <1>6, <1>7 DEF Inv3

\* A call is over.
LEMMA LeaveKeeps3 ==
  ASSUME Inv1, Inv3, NEW t \in Threads, Leave(t),
         UNCHANGED <<deviceVars, waitList, allocated, kernelVars>>
  PROVE  Inv3'
<1>1. /\ todo' = [todo EXCEPT ![t] = <<>>]
      /\ queue' = [queue EXCEPT ![t] = NoQueue]
      /\ need' = [need EXCEPT ![t] = {}]
      /\ view' = [view EXCEPT ![t] = Cleared]
      /\ UNCHANGED <<cmds, completed, waitList>>
  BY Zenon DEF Leave, deviceVars
<1>2. ~InCall(t)'
  BY Zenon, <1>1 DEF InCall, Inv1, TypeOK
<1>3. \A u \in Threads : u # t => /\ todo'[u] = todo[u] /\ queue'[u] = queue[u]
                                  /\ need'[u] = need[u] /\ view'[u] = view[u]
  BY Zenon, <1>1 DEF Inv1, TypeOK
<1>4. CommandsWait'
  BY Zenon, <1>1 DEF Inv3, CommandsWait, WaitedFor, Complete
<1>5. CallsWait'
  <2> SUFFICES ASSUME NEW u \in Threads, InCall(u)'
               PROVE  Covered(u)' \/ (Safe(todo'[u])
                        /\ (At(u, "nop")' \/ At(u, "args")' \/ Fresh(u)'))
    BY Zenon DEF CallsWait
  <2>1. u # t /\ InCall(u)
    BY Zenon, <1>2, <1>3 DEF InCall
  <2> QED
    BY Zenon, <1>1, <1>3, <2>1, OtherCall3
<1> QED
  BY Zenon, <1>4, <1>5 DEF Inv3

\* A call begins: it has not looked at its wait list yet, or it has none.
LEMMA EnterKeeps3 ==
  ASSUME Inv1, Inv3, NEW t \in Threads, NEW r, NEW w,
         todo' = [todo EXCEPT ![t] = r], r # <<>>, Safe(r),
         w = {} \/ Head(r) \in {"nop", "args"},
         \A u \in Threads : u # t => queue'[u] = queue[u],
         need' = [need EXCEPT ![t] = w],
         UNCHANGED <<cmds, completed, waitList, view>>
  PROVE  Inv3'
<1>1. todo'[t] = r /\ need'[t] = w
  BY Zenon DEF Inv1, TypeOK
<1>2. \A u \in Threads : u # t => todo'[u] = todo[u] /\ need'[u] = need[u]
  BY Zenon DEF Inv1, TypeOK
<1>3. CommandsWait'
  BY Zenon DEF Inv3, CommandsWait, WaitedFor, Complete
<1>4. CallsWait'
  <2> SUFFICES ASSUME NEW u \in Threads, InCall(u)'
               PROVE  Covered(u)' \/ (Safe(todo'[u])
                        /\ (At(u, "nop")' \/ At(u, "args")' \/ Fresh(u)'))
    BY Zenon DEF CallsWait
  <2>1. CASE u = t
    BY Zenon, <1>1, <2>1 DEF Covered, At
  <2>2. CASE u # t
    <3>1. InCall(u)
      BY Zenon, <1>2, <2>2 DEF InCall
    <3> QED
      BY Zenon, <1>2, <2>2, <3>1, OtherCall3
  <2> QED
    BY Zenon, <2>1, <2>2
<1> QED
  BY Zenon, <1>3, <1>4 DEF Inv3

\* getWaitListView: the view has the events of the call's wait list.
LEMMA ArgsKeeps3 ==
  ASSUME Inv1, Inv2, Inv3, NEW t \in Threads, Args(t)
  PROVE  Inv3'
<1>1. /\ InCall(t) /\ Head(todo[t]) = "args" /\ Advance(t)
      /\ waitList' = [waitList EXCEPT ![queue[t]] =
                        IF need[t] = {} THEN waitList[queue[t]] ELSE need[t]]
      /\ view' = [view EXCEPT ![t] = [handles |-> allocated'[queue[t]],
                                      num |-> Cardinality(need[t])]]
      /\ UNCHANGED <<deviceVars, queue, kernel, need, appRefs>>
  BY Zenon DEF Args, At, kernelVars, callVars
<1>2. queue[t] \in Queues /\ IsFiniteSet(need[t])
  BY Zenon, <1>1 DEF Inv1, CallOK
<1>3. view'[t].num = Cardinality(need[t])
  BY Zenon, <1>1 DEF Inv1, TypeOK
<1>4. need[t] # {} => waitList'[queue[t]] = need[t]
  BY Zenon, <1>1, <1>2 DEF Inv1, TypeOK
<1>5. need[t] # {} => Cardinality(need[t]) > 0
  <2>1. Cardinality(need[t]) \in Nat
    BY Zenon, <1>2, FS_CardinalityType
  <2>2. need[t] # {} => Cardinality(need[t]) # 0
    BY Zenon, <1>2, FS_EmptySet
  <2> QED
    BY <2>1, <2>2
<1>6. Fresh(t)' /\ Head(todo[t]) \notin Covering
  BY Zenon, <1>1, <1>3, <1>4, <1>5 DEF Fresh, Covering
<1>7. /\ \A u \in Threads : u # t => view'[u] = view[u]
      /\ \A p \in Queues : p # queue[t] => waitList'[p] = waitList[p]
  BY Zenon, <1>1 DEF Inv1, TypeOK
<1> QED
  BY Zenon, <1>1, <1>6, <1>7, QuietKeeps3

\* The other steps that append nothing.
LEMMA PlainStepsKeep3 ==
  ASSUME Inv1, Inv2, Inv3, NEW t \in Threads,
         \/ Nop(t) \/ Pointer(t) \/ Clear(t) \/ Wait(t) \/ Unlock(t) \/ Sync(t)
         \/ recordSubmittedKernel(t) \/ FreeKernel(t)
  PROVE  Inv3'
<1> USE DEF deviceVars, kernelVars, callVars
<1> DEFINE Move == /\ InCall(t) /\ Advance(t)
                   /\ UNCHANGED <<cmds, completed, waitList, queue, kernel, need, appRefs>>
           Still == UNCHANGED <<cmds, completed, waitList, todo, queue, need, view>>
           Over == /\ Leave(t)
                   /\ UNCHANGED <<deviceVars, waitList, allocated, kernelVars>>
           Calm == {"pointer", "wait", "unlock", "sync", "record", "free"}
<1>1. Over => Inv3'
  BY Zenon, LeaveKeeps3
<1>2. Move /\ Head(todo[t]) \in Calm /\ UNCHANGED view => Inv3'
  BY Zenon, QuietKeeps3 DEF Covering
<1>3. Move /\ Head(todo[t]) = "nop" /\ UNCHANGED view => Inv3'
  BY Zenon, QuietKeeps3
<1>4. Move /\ Head(todo[t]) = "clear" /\ ClearView(t) => Inv3'
  <2>1. ClearView(t) => \A u \in Threads : u # t => view'[u] = view[u]
    BY Zenon DEF ClearView, Inv1, TypeOK
  <2> QED
    BY Zenon, <2>1, QuietKeeps3 DEF Bare
<1>5. Still => Inv3'
  BY Zenon DEF Inv3, CommandsWait, CallsWait, WaitedFor, Complete, Covered, Fresh, At, InCall
<1>6. Nop(t) => Over \/ (Move /\ Head(todo[t]) = "nop" /\ UNCHANGED view)
  BY Zenon DEF Nop, At
<1>7. Pointer(t) => Move /\ Head(todo[t]) \in Calm /\ UNCHANGED view
  BY Zenon DEF Pointer, At
<1>8. Clear(t) => Move /\ Head(todo[t]) = "clear" /\ ClearView(t)
  BY Zenon DEF Clear, At
<1>9. Wait(t) => Move /\ Head(todo[t]) \in Calm /\ UNCHANGED view
  BY Zenon DEF Wait, At
<1>10. Unlock(t) => Move /\ Head(todo[t]) \in Calm /\ UNCHANGED view
  BY Zenon DEF Unlock, At
<1>11. Sync(t) => Move /\ Head(todo[t]) \in Calm /\ UNCHANGED view
  BY Zenon DEF Sync, At
<1>12. recordSubmittedKernel(t) => Move /\ Head(todo[t]) \in Calm /\ UNCHANGED view
  BY Zenon DEF recordSubmittedKernel, At
<1>13. FreeKernel(t) => Still \/ (Move /\ Head(todo[t]) \in Calm /\ UNCHANGED view)
  BY Zenon DEF FreeKernel, At
<1> HIDE DEF Move, Still, Over, Calm
<1> QED
  BY ZenonT(60), <1>1, <1>2, <1>3, <1>4, <1>5, <1>6, <1>7, <1>8, <1>9, <1>10, <1>11, <1>12, <1>13

\* The steps that may append a command.
LEMMA AppendStepsKeep3 ==
  ASSUME Inv1, Inv2, Inv3, NEW t \in Threads,
         Migrate(t) \/ Copy(t) \/ AppendMain(t) \/ WaitOn(t) \/ Plain(t) \/ SignalEvent(t)
  PROVE  Inv3'
<1> USE DEF deviceVars, kernelVars, callVars
<1> DEFINE Moves(S) ==
             /\ InCall(t) /\ Head(todo[t]) \in S /\ Advance(t)
             /\ UNCHANGED <<completed, waitList, queue, kernel, need, appRefs>>
             /\ UNCHANGED view \/ ClearView(t)
           Seeing == {"migrate", "copy", "append", "waitOn", "waitIf"}
           Blind == {"plain", "signal"}
           c == Command(t, NoKernel, Viewed(t))
           d == Command(t, NoKernel, {})
           e == SignallingCommand(t, NoKernel, {})
           m == SignallingCommand(t, kernel[t], Viewed(t))
<1>1. InCall(t) => queue[t] \in Queues
  BY Zenon DEF Inv1, CallOK
<1>2. InCall(t) => /\ c \in Commands /\ d \in Commands /\ e \in Commands /\ m \in Commands
                   /\ c.waits = Viewed(t) /\ m.waits = Viewed(t)
                   /\ c.need = need[t] /\ d.need = need[t] /\ e.need = need[t]
                   /\ m.need = need[t]
  BY Zenon, AppendedCommands
<1> HIDE DEF c, d, e, m
<1>3. UNCHANGED view \/ ClearView(t) => \A u \in Threads : u # t => view'[u] = view[u]
  BY Zenon DEF ClearView, Inv1, TypeOK
<1>4. Moves(Seeing) /\ AppendCommand(t, c) => Inv3'
  BY Zenon, <1>2, <1>3, AppendKeeps3 DEF Covering
<1>5. Moves(Seeing) /\ AppendCommand(t, m) => Inv3'
  BY Zenon, <1>2, <1>3, AppendKeeps3 DEF Covering
<1>6. Moves(Blind) /\ AppendCommand(t, d) => Inv3'
  BY Zenon, <1>2, <1>3, AppendKeeps3 DEF Covering
<1>7. Moves(Blind) /\ AppendCommand(t, e) => Inv3'
  BY ZenonT(60), <1>2, <1>3, AppendKeeps3 DEF Covering
<1>8. /\ Moves({"migrate"}) /\ UNCHANGED <<cmds, view>> => Inv3'
      /\ Moves({"signal"}) /\ UNCHANGED cmds => Inv3'
      /\ Moves({"waitOn", "waitIf"}) /\ UNCHANGED cmds /\ ~(view[t].num > 0) => Inv3'
  BY Zenon, <1>3, QuietKeeps3 DEF Covering, Bare
<1>9. Migrate(t) => \/ Moves({"migrate"}) /\ UNCHANGED <<cmds, view>>
                    \/ Moves(Seeing) /\ AppendCommand(t, c)
  BY Zenon DEF Migrate, At, c
<1>10. Copy(t) => Moves(Seeing) /\ AppendCommand(t, c)
  BY Zenon DEF Copy, At, c
<1>11. AppendMain(t) => Moves(Seeing) /\ AppendCommand(t, m)
  BY Zenon DEF AppendMain, At, m
<1>12. WaitOn(t) => \/ Moves({"waitOn", "waitIf"}) /\ UNCHANGED cmds /\ ~(view[t].num > 0)
                    \/ Moves(Seeing) /\ AppendCommand(t, c)
  BY Zenon DEF WaitOn, At, c
<1>13. Plain(t) => Moves(Blind) /\ AppendCommand(t, d)
  BY Zenon DEF Plain, At, d
<1>14. SignalEvent(t) => \/ Moves({"signal"}) /\ UNCHANGED cmds
                         \/ Moves(Blind) /\ AppendCommand(t, e)
  BY Zenon DEF SignalEvent, At, e
<1> HIDE DEF Moves, Seeing, Blind
<1> QED
  BY ZenonT(60), <1>4, <1>5, <1>6, <1>7, <1>8, <1>9, <1>10, <1>11, <1>12, <1>13, <1>14

\* Every step keeps the waits of the commands and of the calls.
LEMMA NextKeeps3 ==
  ASSUME Inv1, Inv2, Inv3, [Next]_vars
  PROVE  Inv3'
<1> USE DEF deviceVars, kernelVars, callVars
<1>1. ASSUME NEW q \in Queues, DeviceComplete(q)
      PROVE  Inv3'
  BY Zenon, <1>1, DeviceCompleteKeeps3
<1>2. ASSUME NEW t \in Threads, NEW q \in Queues, Launch(t, q) \/ Enqueue(t, q)
      PROVE  Inv3'
  <2>1. PICK f, s : \E k \in Kernels \cup {NoKernel}, w \in WaitLists,
                       i \in {NotWanted, Wanted} : Begins(t, q, f, s, k, w, i)
    BY Zenon, <1>2, CallBegins
  <2>2. PICK k \in Kernels \cup {NoKernel}, w \in WaitLists,
             i \in {NotWanted, Wanted} : Begins(t, q, f, s, k, w, i)
    BY Zenon, <2>1
  <2> DEFINE r == Append(s, "return")
  <2>3. r \in Seq(Steps) /\ Shape(r) /\ Safe(r) /\ r[1] \in {"nop", "args"}
    BY Zenon, <2>2 DEF Begins
  <2>4. /\ todo' = [todo EXCEPT ![t] = r]
        /\ queue' = [queue EXCEPT ![t] = q]
        /\ need' = [need EXCEPT ![t] = w]
        /\ UNCHANGED <<cmds, completed, waitList, view>>
    BY Zenon, <2>2 DEF Begins, Begin
  <2> HIDE DEF r
  <2>5. r # <<>> /\ Head(r) \in {"nop", "args"}
    BY Zenon, <2>3, TailFacts DEF Shape
  <2>6. \A u \in Threads : u # t => queue'[u] = queue[u]
    BY Zenon, <2>4 DEF Inv1, TypeOK
  <2> QED
    BY ZenonT(60), <2>3, <2>4, <2>5, <2>6, EnterKeeps3
<1>3. ASSUME NEW t \in Threads, NEW q \in Queues, Finish(t, q)
      PROVE  Inv3'
  <2> DEFINE r == Append(queueFinish.steps, "return")
  <2>1. Shape(r) /\ Safe(r)
    BY Zenon, FinishSteps
  <2>2. /\ ~InCall(t)
        /\ todo' = [todo EXCEPT ![t] = r]
        /\ queue' = [queue EXCEPT ![t] = q]
        /\ UNCHANGED <<need, cmds, completed, waitList, view>>
    BY Zenon, <1>3 DEF Finish
  <2> HIDE DEF r
  <2>3. r # <<>>
    BY Zenon, <2>1 DEF Shape
  <2>4. need' = [need EXCEPT ![t] = {}]
    BY Zenon, <2>2 DEF Inv1, TypeOK, CallOK
  <2>5. \A u \in Threads : u # t => queue'[u] = queue[u]
    BY Zenon, <2>2 DEF Inv1, TypeOK
  <2> QED
    BY ZenonT(60), <2>1, <2>2, <2>3, <2>4, <2>5, EnterKeeps3
<1>4. ASSUME NEW t \in Threads, Step(t) \/ Fail(t)
      PROVE  Inv3'
  <2>1. Return(t) => Inv3'
    BY Zenon, LeaveKeeps3 DEF Return
  <2>2. Fail(t) => Inv3'
    BY Zenon, LeaveKeeps3 DEF Fail
  <2> QED
    BY ZenonT(60), <1>4, <2>1, <2>2, ArgsKeeps3, PlainStepsKeep3, AppendStepsKeep3 DEF Step
<1>5. ASSUME UNCHANGED <<cmds, completed, waitList, todo, queue, need, view>>
      PROVE  Inv3'
  BY Zenon, <1>5 DEF Inv3, CommandsWait, CallsWait, WaitedFor, Complete, Covered, Fresh, At,
                     InCall
<1>6. ASSUME NEW k \in Kernels, urKernelRetain(k) \/ urKernelRelease(k)
      PROVE  Inv3'
  BY Zenon, <1>5, <1>6 DEF urKernelRetain, urKernelRelease
<1>7. CASE UNCHANGED vars
  BY Zenon, <1>5, <1>7 DEF vars
<1> QED
  BY ZenonT(60), <1>1, <1>2, <1>3, <1>4, <1>6, <1>7 DEF Next, Call

\* When a queue is used from one thread at a time, the device runs a command
\* only after every event of its call's wait list, whatever functions the
\* application calls and whichever of them fail: a view is cleared only after
\* a command of the same call has its waits
\* (queue_immediate_in_order.cpp:489-515, 533-548, 577-590).
THEOREM WaitListsHonoured ==
  ASSUME Exclusive
  PROVE  Spec => []WaitsHonoured
<1> DEFINE J == Inv1 /\ Inv2 /\ Inv3
<1>1. Init => J
  BY Zenon, InitHolds1, InitHolds2, InitHolds3
<1>2. J /\ [Next]_vars => J'
  BY Zenon, NextKeeps1, NextKeeps2, NextKeeps3
<1>3. J => WaitsHonoured
  <2> SUFFICES ASSUME Inv1, Inv3, NEW q \in Queues, Runnable(q),
                      NEW e \in Head(cmds[q]).need
               PROVE  Complete(e)
    BY Zenon DEF WaitsHonoured
  <2>1. cmds[q] \in Seq(Commands) /\ cmds[q] # <<>>
    BY Zenon DEF Inv1, TypeOK, Runnable
  <2>2. 1 \in DOMAIN cmds[q] /\ Head(cmds[q]) = cmds[q][1] /\ DOMAIN cmds[q] \in SUBSET (Nat \ {0})
    BY <2>1, TailFacts
  <2>3. WaitedFor(q, 1, e)
    BY Zenon, <2>2 DEF Inv3, CommandsWait
  <2>4. \A j \in DOMAIN cmds[q] : j <= 1 => j = 1
    BY <2>2
  <2> QED
    BY Zenon, <2>2, <2>3, <2>4 DEF WaitedFor, Runnable
<1> HIDE DEF J
<1> QED
  BY <1>1, <1>2, <1>3, PTL DEF Spec
==============================================================================

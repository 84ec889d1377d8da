----------------------------- MODULE UrLeakProofs ------------------------------
(***************************************************************************)
(* What the leak checker of the validation layer promises, for any         *)
(* functions it counts as the adapters do (LeakTracked).                   *)
(***************************************************************************)
EXTENDS UrCallsProofs

\* What the leak checker's map is if the application owns the references h, and the
\* adapters it then has.
CountsFor(h) ==
  [o \in Objects |-> IF object[o].kind = "platform" \/ h[o] = 0 THEN Absent
                     ELSE [n |-> h[o], kind |-> object[o].kind]]
AdapterObjects == {"adapter"} \X Adapters
HeldOf(h) == {o \in AdapterObjects : h[o] > 0}

CountsAre ==
  enableLeakChecking => counts = CountsFor(held) /\ adapterCount = Cardinality(HeldOf(held))

\* An object that is about to be returned as new is known to no one else.
FreshOK ==
  \A t \in Threads :
    call[t].pc \in {"loader", "leave"} =>
      \A o \in call[t].new \cap Addresses :
        held[o] = 0 /\ \A u \in Threads : u # t => ~Owes(call[u], o)

\* A retain that was not rejected succeeds.
Retained ==
  \A t \in Threads :
    /\ call[t].pc \in {"loader", "leave"} /\ ~call[t].rejected
    /\ CountOp(call[t].api, call[t].arg) = "increase"
    => call[t].res = "SUCCESS"

\* While calls are made the application owns an adapter.
Ends == {"urAdapterGet", "urAdapterRelease"}
AdapterAlive ==
  \A t \in Threads : Busy(t) /\ call[t].api.name \notin Ends => HeldOf(held) # {}

LInv ==
  /\ CountsAre /\ FreshOK /\ Retained /\ AdapterAlive
  /\ LeakReportExact /\ (~Misuse => NoFalseAlarm)

\* The static objects with the kind of an adapter are the adapters.
LEMMA AdapterFacts ==
  /\ IsFiniteSet(AdapterObjects) /\ AdapterObjects \subseteq Static /\ AdapterObjects \subseteq Objects
  /\ \A h : HeldOf(h) \subseteq AdapterObjects /\ IsFiniteSet(HeldOf(h))
            /\ Cardinality(HeldOf(h)) \in Nat
            /\ (Cardinality(HeldOf(h)) = 0 <=> HeldOf(h) = {})
<1>1. IsFiniteSet(AdapterObjects)
  <2>1. IsFiniteSet({"adapter"}) /\ IsFiniteSet(Adapters)
    BY Zenon, FS_Singleton, CallsAssumption DEF CallsAssumption
  <2> QED
    BY Zenon, <2>1, FS_Product DEF AdapterObjects
<1>2. AdapterObjects \subseteq Static
  BY DEF AdapterObjects, Static, StaticKinds
<1>3. AdapterObjects \subseteq Objects
  BY Zenon, <1>2 DEF Objects
<1>4. ASSUME NEW h
      PROVE  /\ HeldOf(h) \subseteq AdapterObjects /\ IsFiniteSet(HeldOf(h))
             /\ Cardinality(HeldOf(h)) \in Nat
             /\ (Cardinality(HeldOf(h)) = 0 <=> HeldOf(h) = {})
  <2>1. HeldOf(h) \subseteq AdapterObjects
    BY Zenon DEF HeldOf
  <2>2. IsFiniteSet(HeldOf(h))
    BY Zenon, <1>1, <2>1, FS_Subset
  <2> QED
    BY Zenon, <2>1, <2>2, FS_CardinalityType, FS_EmptySet
<1> QED
  BY Zenon, <1>1, <1>2, <1>3, <1>4

\* An object has the kind of an adapter if it is one.
LEMMA AdapterKind ==
  ASSUME Objs, NEW o \in Objects
  PROVE  /\ object[o].kind = "adapter" <=> o \in AdapterObjects
         /\ object[o].kind \in StaticKinds <=> o \in Static
<1>1. CASE o \in Static
  <2>1. object[o] = [kind |-> o[1], adapter |-> o[2], refs |-> 1]
    BY Zenon, <1>1 DEF Objs
  <2>2. o[1] \in StaticKinds /\ o[2] \in Adapters /\ o = <<o[1], o[2]>>
    BY Zenon, <1>1, StaticFacts
  <2>3. object[o].kind = o[1]
    BY <2>1
  <2>4. o[1] = "adapter" <=> o \in AdapterObjects
    BY <2>2 DEF AdapterObjects
  <2> QED
    BY Zenon, <1>1, <2>2, <2>3, <2>4
<1>2. CASE o \notin Static
  <2>1. o \in Addresses /\ o \notin AdapterObjects
    BY Zenon, <1>2, AdapterFacts DEF Objects
  <2>2. Free.kind \notin StaticKinds
    BY DEF Free, StaticKinds
  <2>3. object[o].kind \notin StaticKinds
    BY Zenon, <2>1, <2>2 DEF Objs
  <2>4. "adapter" \in StaticKinds
    BY DEF StaticKinds
  <2> QED
    BY Zenon, <1>2, <2>1, <2>3, <2>4
<1> QED
  BY Zenon, <1>1, <1>2

\* The leak checker after an update, in parts.
AdaptersAfter(op, hs, k) ==
  IF k # "adapter" THEN adapterCount
  ELSE CASE op = "create_or_increase" ->
              adapterCount + Cardinality({o \in hs : counts[o].n = 0})
         [] op = "decrease" -> adapterCount - Cardinality({o \in hs : counts[o].n = 1})
         [] OTHER -> adapterCount
After(op, hs, k) ==
  [o \in Objects |->
     IF o \in hs
     THEN Entry(Updated(op, counts[o].n), IF counts[o].n = 0 THEN k ELSE counts[o].kind)
     ELSE counts[o]]
Clears(op, hs, k) ==
  /\ AdaptersAfter(op, hs, k) = 0
  /\ \E o \in hs : ~(UpdateError(op, counts[o].n) # {} /\ op # "decrease")
Updates(s, op, hs, k) ==
  /\ s.counts = (IF Clears(op, hs, k) THEN [o \in Objects |-> Absent] ELSE After(op, hs, k))
  /\ s.adapters = AdaptersAfter(op, hs, k)
  /\ s.leaks = (IF Clears(op, hs, k) THEN Leaked(counts, After(op, hs, k)) ELSE {})
  /\ s.errors = UNION {UpdateError(op, counts[o].n) : o \in hs}

\* That is what updateRefCount computes.
LEMMA UpdateParts ==
  ASSUME NEW op, NEW hs, NEW k
  PROVE  Updates(updateRefCount(Leaks, op, hs, k), op, hs, k)
<1>1. Leaks.counts = counts /\ Leaks.adapters = adapterCount
  BY DEF Leaks
<1> QED
  BY <1>1 DEF Updates, updateRefCount, Clears, AdaptersAfter, After

-------------------------------------------------------------------------------
(* A release is counted as the call enters.                                *)

AfterEnter(api, d, arg, fault) ==
  IF /\ enableLeakChecking /\ ~Rejected(api, d, fault)
     /\ api.checked.op = "decrease" /\ api.checked.of = arg.of.name
  THEN updateRefCount(Leaks, "decrease", {arg.object}, arg.of.kind) ELSE Leaks
EntersLeaks(api, d, arg, fault) ==
  /\ counts' = AfterEnter(api, d, arg, fault).counts
  /\ adapterCount' = AfterEnter(api, d, arg, fault).adapters
  /\ log' = (log \cup AfterEnter(api, d, arg, fault).errors)
              \cup (IF Rejected(api, d, fault) THEN {} ELSE LifetimeErrors(api, arg, fault))
  /\ report' = (IF Gone(api, d, arg, fault)
                THEN [shown |-> AfterEnter(api, d, arg, fault).leaks,
                      owned |-> Releasable(Given(api, d, arg, fault))]
                ELSE report)

\* What entering does to the leak checker.
LEMMA EnterLeaks ==
  ASSUME NEW t, NEW api, NEW d, NEW arg, NEW out, NEW fault, Enter(t, api, d, arg, out, fault)
  PROVE  EntersLeaks(api, d, arg, fault)
  BY Zenon DEF Enter, EntersLeaks, AfterEnter, Given, Gone, Rejected

\* A call that takes a reference from the application.
Takes(api, d, arg, fault) == ~Rejected(api, d, fault) /\ CountOp(api, arg) = "decrease"
Taken(api, d, arg, fault) ==
  /\ (/\ ~Rejected(api, d, fault) /\ api.checked.op = "decrease" /\ api.checked.of = arg.of.name)
       <=> Takes(api, d, arg, fault)
  /\ Gone(api, d, arg, fault) => Takes(api, d, arg, fault)
  /\ Takes(api, d, arg, fault) =>
       /\ arg # Unbound /\ arg.object \in Objects /\ held[arg.object] > 0
       /\ object[arg.object].kind = arg.of.kind /\ arg.of.kind # "platform"
       /\ (arg.of.kind = "adapter" <=> api.name = "urAdapterRelease")
       /\ api.name # "urAdapterGet"

\* The leak checker counts exactly those, and of which handles they are.
LEMMA TakenFacts ==
  ASSUME LeakTracked, IInv, NEW t \in Threads,
         NEW api, NEW d, NEW arg, NEW out, NEW fault, Passed(t, api, d, arg, out, fault)
  PROVE  Taken(api, d, arg, fault)
<1>1. Carries(api, d, arg, out, fault)
  BY Zenon, PassedFacts
<1>2. Tracked(api) /\ api \in Apis
  BY Zenon, <1>1 DEF LeakTracked, Carries
<1>3. "decrease" # "none" /\ "decrease" # "increase" /\ Unbound.of.name = ""
  BY DEF Unbound, Nothing
<1>4. arg = Unbound => arg.of.name = ""
  BY Zenon, <1>3
<1>5. CountOp(api, arg) = "decrease" <=> arg # Unbound /\ api.count.op = "decrease"
  BY Zenon, <1>3 DEF CountOp
<1>6. ASSUME CountOp(api, arg) = "decrease"
      PROVE  /\ api.checked.op = "decrease" /\ api.checked.of = arg.of.name
             /\ arg # Unbound /\ arg.object \in Objects /\ held[arg.object] > 0
             /\ object[arg.object].kind = arg.of.kind /\ arg.of.kind # "platform"
             /\ (arg.of.kind = "adapter" <=> api.name = "urAdapterRelease")
             /\ api.name # "urAdapterGet"
  <2>1. /\ arg # Unbound /\ api.count.op = "decrease" /\ api.count.op # "none"
        /\ arg.of \in api.args /\ arg.of.name = api.count.of
        /\ arg.object \in Objects /\ held[arg.object] > 0
        /\ object[arg.object].kind = arg.of.kind
    BY Zenon, <1>1, <1>3, <1>5, <1>6 DEF Carries
  <2>2. /\ api.checked.op = api.count.op /\ api.checked.of = api.count.of
        /\ \A p \in api.args :
            p.name = api.count.of =>
              /\ p.kind # "platform"
              /\ api.count.op = "decrease" => (p.kind = "adapter" <=> api.name = "urAdapterRelease")
        /\ api.name = "urAdapterGet" => api.count.op = "none"
    BY Zenon, <1>2, <2>1 DEF Tracked
  <2> QED
    BY Zenon, <2>1, <2>2
<1>7. ASSUME api.checked.op = "decrease" /\ api.checked.of = arg.of.name
      PROVE  CountOp(api, arg) = "decrease"
  <2>1. api.checked.op = "decrease" /\ api.checked.of = arg.of.name
    BY Zenon, <1>7
  <2>2. api.count.op # "none"
    <3>1. api.count.op = "none" => api.checked.op \notin {"increase", "decrease"}
      BY ONLY Zenon, <1>2 DEF Tracked
    <3> QED
      BY ONLY Zenon, <2>1, <3>1
  <2>3. api.checked.op = api.count.op /\ api.checked.of = api.count.of /\ api.count.of # ""
    BY Zenon, <1>2, <2>2 DEF Tracked
  <2> QED
    BY Zenon, <1>4, <1>5, <2>1, <2>3
<1>8. Gone(api, d, arg, fault) => Takes(api, d, arg, fault)
  BY Zenon, <1>2, <1>5, RowsAssumption DEF Gone, LastAdapter, Takes, RowsAssumption
<1> QED
  BY Zenon, <1>6, <1>7, <1>8 DEF Taken, Takes

\* The references that are left, and the adapters among them: none is left if the last
\* adapter goes, and only then.
Remains(h, api, d, arg, fault) ==
  /\ h \in [Objects -> Nat]
  /\ ~Takes(api, d, arg, fault) => h = held
  /\ Takes(api, d, arg, fault) =>
       /\ h[arg.object] = held[arg.object] - 1
       /\ \A o \in Objects : o # arg.object => h[o] = held[o]
  /\ Gone(api, d, arg, fault) => HeldOf(h) = {}
  /\ ~Gone(api, d, arg, fault) /\ HeldOf(held) # {} => HeldOf(h) # {}

\* So it is.
LEMMA EntryAdapters ==
  ASSUME LeakTracked, IInv, NEW t \in Threads,
         NEW api, NEW d, NEW arg, NEW out, NEW fault, Passed(t, api, d, arg, out, fault),
         NEW h, h = Given(api, d, arg, fault)
  PROVE  Remains(h, api, d, arg, fault)
<1> DEFINE takes == Takes(api, d, arg, fault)
           gone == Gone(api, d, arg, fault)
           x == arg.object
<1>1. Taken(api, d, arg, fault)
  BY Zenon, TakenFacts
<1>2. held \in [Objects -> Nat] /\ Objs
  BY Zenon DEF IInv, Types
<1>3. ~takes => h = held
  BY Zenon DEF Given, Takes
<1>4. takes => h = [held EXCEPT ![x] = held[x] - 1]
  BY Zenon DEF Given, Takes
<1>5. takes => /\ x \in Objects /\ held[x] > 0 /\ object[x].kind = arg.of.kind
               /\ (arg.of.kind = "adapter" <=> api.name = "urAdapterRelease") /\ arg # Unbound
  BY Zenon, <1>1 DEF Taken
<1>6. gone => takes
  BY Zenon, <1>1 DEF Taken
<1>7. gone <=> ~Rejected(api, d, fault) /\ LastAdapter(api, arg)
  BY Zenon DEF Gone
<1>8. takes => ~Rejected(api, d, fault)
  BY Zenon DEF Takes
<1> HIDE DEF takes, gone
<1>9. takes => h[x] = held[x] - 1 /\ \A o \in Objects : o # x => h[o] = held[o]
  BY Zenon, <1>2, <1>4, <1>5
<1>10. h \in [Objects -> Nat]
  <2>1. CASE takes
    <3>1. held[x] \in Nat /\ held[x] > 0
      BY Zenon, <1>2, <1>5, <2>1
    <3>2. held[x] - 1 \in Nat
      BY ONLY <3>1
    <3> HIDE DEF x
    <3> QED
      BY Zenon, <1>2, <1>4, <2>1, <3>2
  <2>2. CASE ~takes
    BY Zenon, <1>2, <1>3, <2>2
  <2> QED
    BY Zenon, <2>1, <2>2
<1>11. \A o \in AdapterObjects : o \in Objects /\ \E a \in Adapters : o = <<"adapter", a>>
  <2>1. \A o \in AdapterObjects : \E a \in Adapters : o = <<"adapter", a>>
    BY DEF AdapterObjects
  <2> QED
    BY Zenon, <2>1, AdapterFacts
<1>12. ASSUME gone, NEW o \in AdapterObjects PROVE ~(h[o] > 0)
  <2>1. LastAdapter(api, arg) /\ takes
    BY Zenon, <1>6, <1>7, <1>12
  <2>2. held[x] = 1 /\ (held[o] > 0 => o = x)
    BY Zenon, <1>11, <2>1 DEF LastAdapter
  <2>3. CASE o = x
    <3>1. h[o] = 1 - 1
      BY Zenon, <1>9, <2>1, <2>2, <2>3
    <3> QED
      BY ONLY <3>1
  <2>4. CASE o # x
    BY Zenon, <1>9, <1>11, <2>1, <2>2, <2>4
  <2> QED
    BY Zenon, <2>3, <2>4
<1>13. gone => HeldOf(h) = {}
  BY Zenon, <1>12 DEF HeldOf
<1>14. ASSUME ~gone, HeldOf(held) # {}, HeldOf(h) = {} PROVE FALSE
  <2>1. takes
    BY Zenon, <1>3, <1>14
  <2>2. PICK o \in AdapterObjects : held[o] > 0
    BY Zenon, <1>14 DEF HeldOf
  <2>3. \A b \in AdapterObjects : ~(h[b] > 0)
    BY Zenon, <1>14 DEF HeldOf
  <2>4. \A b \in AdapterObjects : b # x => ~(held[b] > 0)
    BY Zenon, <1>9, <1>11, <2>1, <2>3
  <2>5. o = x
    BY Zenon, <2>2, <2>4
  <2>6. held[x] = 1
    <3>1. ~(h[x] > 0) /\ h[x] = held[x] - 1 /\ held[x] > 0 /\ held[x] \in Nat
      BY Zenon, <1>2, <1>5, <1>9, <2>1, <2>2, <2>3, <2>5
    <3> QED
      BY ONLY <3>1
  <2>7. object[x].kind = "adapter"
    BY Zenon, <1>2, <1>11, <2>2, <2>5, AdapterKind
  <2>8. api.name = "urAdapterRelease" /\ arg # Unbound
    BY Zenon, <1>5, <2>1, <2>7
  <2>9. \A a \in Adapters : <<"adapter", a>> \in AdapterObjects
    BY DEF AdapterObjects
  <2>10. LastAdapter(api, arg)
    BY Zenon, <2>4, <2>6, <2>8, <2>9 DEF LastAdapter
  <2> QED
    BY Zenon, <1>7, <1>8, <1>14, <2>1, <2>10
<1> QED
  BY Zenon, <1>3, <1>9, <1>10, <1>13, <1>14 DEF takes, gone, Remains

\* The updates of the leak checker that are no error.
LEMMA NoError ==
  ASSUME NEW n \in Nat, NEW op,
         \/ op = "create" /\ n = 0
         \/ op = "create_or_increase"
         \/ op = "increase" /\ n > 0
         \/ op = "decrease" /\ n > 0
  PROVE  /\ UpdateError(op, n) = {}
         /\ op = "decrease" => Updated(op, n) = n - 1
         /\ op # "decrease" => Updated(op, n) = n + 1
<1>1. /\ ~(op = "create" /\ n # 0) /\ ~(op = "increase" /\ n = 0) /\ ~(op = "decrease" /\ n <= 0)
  OBVIOUS
<1>2. UpdateError(op, n) = {}
  BY ONLY Zenon, <1>1 DEF UpdateError
<1> QED
  BY ONLY Zenon, <1>2 DEF Updated

\* The leak checker's map as it is for the references held.
LEMMA CountOf ==
  ASSUME NEW h \in [Objects -> Nat], NEW o \in Objects, counts = CountsFor(h)
  PROVE  /\ object[o].kind # "platform" => counts[o].n = h[o]
         /\ h[o] # 0 /\ object[o].kind # "platform" => counts[o].kind = object[o].kind
         /\ h[o] = 0 => counts[o] = Absent
<1>1. counts[o] = IF object[o].kind = "platform" \/ h[o] = 0 THEN Absent
                  ELSE [n |-> h[o], kind |-> object[o].kind]
  BY Zenon DEF CountsFor
<1>2. Absent.n = 0
  BY DEF Absent
<1> QED
  BY ONLY <1>1, <1>2

\* A release that the leak checker counts brings its map to what remains.
TakesCounts(op, x, k, h, api, d, arg, fault) ==
  /\ After(op, {x}, k) = CountsFor(h)
  /\ AdaptersAfter(op, {x}, k) = Cardinality(HeldOf(h))
  /\ Clears(op, {x}, k) <=> Gone(api, d, arg, fault)
  /\ \A o \in {x} : UpdateError(op, counts[o].n) = {}

\* So it does.
LEMMA TakeCounts ==
  ASSUME LeakTracked, IInv, CountsAre, enableLeakChecking, NEW t \in Threads,
         NEW api, NEW d, NEW arg, NEW out, NEW fault, Passed(t, api, d, arg, out, fault),
         Takes(api, d, arg, fault),
         NEW h, h = Given(api, d, arg, fault), NEW op, op = "decrease",
         NEW x, x = arg.object, NEW k, k = arg.of.kind
  PROVE  TakesCounts(op, x, k, h, api, d, arg, fault)
<1> DEFINE gone == Gone(api, d, arg, fault)
<1>1. Taken(api, d, arg, fault)
  BY Zenon, TakenFacts
<1>2. Remains(h, api, d, arg, fault)
  BY ONLY Zenon, LeakTracked, IInv, t \in Threads, Passed(t, api, d, arg, out, fault),
     h = Given(api, d, arg, fault), EntryAdapters
<1>3. held \in [Objects -> Nat] /\ Objs /\ counts = CountsFor(held)
      /\ adapterCount = Cardinality(HeldOf(held))
  BY Zenon DEF IInv, Types, CountsAre
<1>4. /\ x \in Objects /\ held[x] > 0 /\ object[x].kind = k /\ k # "platform"
      /\ api.name # "urAdapterGet"
  BY Zenon, <1>1 DEF Taken
<1>5. /\ h \in [Objects -> Nat] /\ h[x] = held[x] - 1
      /\ \A o \in Objects : o # x => h[o] = held[o]
      /\ gone => HeldOf(h) = {}
      /\ ~gone /\ HeldOf(held) # {} => HeldOf(h) # {}
  BY Zenon, <1>2 DEF Remains
<1>6. HeldOf(held) # {}
  <2>1. held[<<"adapter", d>>] > 0 /\ d \in Adapters
    BY Zenon, <1>4 DEF Passed, MayCall
  <2>2. <<"adapter", d>> \in AdapterObjects
    BY <2>1 DEF AdapterObjects
  <2> QED
    BY Zenon, <2>1, <2>2 DEF HeldOf
<1>7. held[x] \in Nat /\ held[x] # 0 /\ held[x] >= 1
  <2>1. held[x] \in Nat /\ held[x] > 0
    BY Zenon, <1>3, <1>4
  <2> QED
    BY ONLY <2>1
<1>8. counts[x].n = held[x] /\ counts[x].kind = k
  BY Zenon, <1>3, <1>4, <1>7, CountOf
<1>9. UpdateError(op, held[x]) = {}
  BY Zenon, <1>4, <1>7, NoError
<1>10. Updated(op, held[x]) = held[x] - 1
  BY Zenon, <1>4, <1>7, NoError
<1>11. Entry(held[x] - 1, k) = IF object[x].kind = "platform" \/ h[x] = 0 THEN Absent
                               ELSE [n |-> h[x], kind |-> object[x].kind]
  BY Zenon, <1>4, <1>5 DEF Entry
<1> HIDE DEF gone
<1>12. After(op, {x}, k) = CountsFor(h)
  <2>1. ASSUME NEW o \in Objects
        PROVE  (IF o \in {x}
                THEN Entry(Updated(op, counts[o].n), IF counts[o].n = 0 THEN k ELSE counts[o].kind)
                ELSE counts[o])
               = (IF object[o].kind = "platform" \/ h[o] = 0 THEN Absent
                  ELSE [n |-> h[o], kind |-> object[o].kind])
    <3>1. CASE o = x
      BY Zenon, <1>7, <1>8, <1>10, <1>11, <3>1
    <3>2. CASE o # x
      <4>1. counts[o] = IF object[o].kind = "platform" \/ held[o] = 0 THEN Absent
                        ELSE [n |-> held[o], kind |-> object[o].kind]
        BY Zenon, <1>3 DEF CountsFor
      <4>2. h[o] = held[o] /\ o \notin {x}
        BY Zenon, <1>5, <3>2
      <4> QED
        BY ONLY Zenon, <4>1, <4>2
    <3> QED
      BY Zenon, <3>1, <3>2
  <2> QED
    BY Zenon, <2>1 DEF After, CountsFor
<1>13. AdaptersAfter(op, {x}, k) = Cardinality(HeldOf(h))
  <2>1. CASE k # "adapter"
    <3>1. x \notin AdapterObjects
      BY Zenon, <1>3, <1>4, <2>1, AdapterKind
    <3>2. \A o \in AdapterObjects : h[o] = held[o]
      BY Zenon, <1>5, <3>1, AdapterFacts
    <3>3. HeldOf(h) = HeldOf(held)
      BY Zenon, <3>2 DEF HeldOf
    <3> QED
      BY Zenon, <1>3, <2>1, <3>3 DEF AdaptersAfter
  <2>2. CASE k = "adapter"
    <3>1. x \in AdapterObjects
      BY Zenon, <1>3, <1>4, <2>2, AdapterKind
    <3>2. AdaptersAfter(op, {x}, k) = adapterCount - Cardinality({o \in {x} : counts[o].n = 1})
      BY ONLY op = "decrease", <2>2 DEF AdaptersAfter
    <3>3. CASE held[x] = 1
      <4>1. {o \in {x} : counts[o].n = 1} = {x}
        BY Zenon, <1>8, <3>3
      <4>2. ~(h[x] > 0)
        <5>1. h[x] = 1 - 1
          BY Zenon, <1>5, <3>3
        <5> QED
          BY ONLY <5>1
      <4>3. HeldOf(h) = HeldOf(held) \ {x}
        BY Zenon, <1>5, <3>1, <4>2, AdapterFacts DEF HeldOf
      <4>4. x \in HeldOf(held) /\ IsFiniteSet(HeldOf(held))
        BY Zenon, <1>4, <3>1, AdapterFacts DEF HeldOf
      <4>5. Cardinality(HeldOf(h)) = Cardinality(HeldOf(held)) - 1
        BY Zenon, <4>3, <4>4, FS_RemoveElement
      <4>6. Cardinality({x}) = 1
        BY Zenon, FS_Singleton
      <4> QED
        BY Zenon, <1>3, <3>2, <4>1, <4>5, <4>6
    <3>4. CASE held[x] # 1
      <4>1. {o \in {x} : counts[o].n = 1} = {}
        BY Zenon, <1>8, <3>4
      <4>2. h[x] > 0
        <5>1. h[x] = held[x] - 1
          BY Zenon, <1>5
        <5> QED
          BY ONLY <1>7, <3>4, <5>1
      <4>3. HeldOf(h) = HeldOf(held)
        BY Zenon, <1>4, <1>5, <3>1, <4>2, AdapterFacts DEF HeldOf
      <4>4. Cardinality({}) = 0 /\ Cardinality(HeldOf(held)) \in Nat
        BY Zenon, FS_EmptySet, AdapterFacts
      <4>5. Cardinality(HeldOf(held)) - 0 = Cardinality(HeldOf(held))
        BY ONLY <4>4
      <4> QED
        BY Zenon, <1>3, <3>2, <4>1, <4>3, <4>4, <4>5
    <3> QED
      BY Zenon, <3>3, <3>4
  <2> QED
    BY Zenon, <2>1, <2>2
<1>14. Clears(op, {x}, k) <=> gone
  <2>1. Cardinality(HeldOf(h)) = 0 <=> HeldOf(h) = {}
    BY Zenon, AdapterFacts
  <2>2. Clears(op, {x}, k) <=> AdaptersAfter(op, {x}, k) = 0
    BY Zenon DEF Clears
  <2> QED
    BY Zenon, <1>5, <1>6, <1>13, <2>1, <2>2
<1> QED
  BY Zenon, <1>8, <1>9, <1>12, <1>13, <1>14 DEF TakesCounts, gone

-------------------------------------------------------------------------------
(* A creation or a retain is counted as the call leaves.                   *)

\* The references after the application got those to hs.
Plus(hs) == [o \in Objects |-> IF o \in hs THEN held[o] + 1 ELSE held[o]]

\* The leak checker counts the references to hs, of kind k, as the application does.
AddsCounts(op, hs, k) ==
  /\ After(op, hs, k) = CountsFor(Plus(hs))
  /\ AdaptersAfter(op, hs, k) = Cardinality(HeldOf(Plus(hs)))
  /\ ~Clears(op, hs, k)
  /\ \A o \in hs : UpdateError(op, counts[o].n) = {}

\* So it does, if none is an error and the application has an adapter.
LEMMA AddCounts ==
  ASSUME IInv, CountsAre, enableLeakChecking, NEW hs \in SUBSET Objects, NEW k, k # "platform",
         NEW op \in {"create", "create_or_increase", "increase"},
         \A o \in hs : /\ object[o].kind = k
                       /\ op = "create" => held[o] = 0
                       /\ op = "increase" => held[o] > 0,
         k = "adapter" => op # "create",
         hs # {} => HeldOf(Plus(hs)) # {}
  PROVE  AddsCounts(op, hs, k)
<1> DEFINE h == Plus(hs)
<1>1. held \in [Objects -> Nat] /\ Objs /\ counts = CountsFor(held)
      /\ adapterCount = Cardinality(HeldOf(held))
  BY Zenon DEF IInv, Types, CountsAre
<1>2. ASSUME NEW o \in Objects
      PROVE  /\ o \in hs => h[o] = held[o] + 1
             /\ o \notin hs => h[o] = held[o]
             /\ h[o] \in Nat /\ held[o] \in Nat
             /\ o \in hs => h[o] > 0 /\ h[o] # 0
  <2>1. h[o] = IF o \in hs THEN held[o] + 1 ELSE held[o]
    BY Zenon DEF Plus
  <2>2. held[o] \in Nat
    BY Zenon, <1>1
  <2> HIDE DEF h
  <2> QED
    BY ONLY <2>1, <2>2
<1>3. op # "decrease"
  OBVIOUS
<1>4. ASSUME NEW o \in hs
      PROVE  /\ o \in Objects /\ counts[o].n = held[o] /\ object[o].kind = k
             /\ UpdateError(op, counts[o].n) = {} /\ Updated(op, counts[o].n) = h[o]
             /\ (IF counts[o].n = 0 THEN k ELSE counts[o].kind) = k
  <2>1. o \in Objects /\ object[o].kind = k /\ object[o].kind # "platform"
    BY Zenon
  <2>2. counts[o].n = held[o] /\ (held[o] # 0 => counts[o].kind = k)
    BY Zenon, <1>1, <2>1, CountOf
  <2>3. held[o] \in Nat /\ h[o] = held[o] + 1
    BY Zenon, <1>2, <2>1
  <2>4. \/ op = "create" /\ held[o] = 0
        \/ op = "create_or_increase"
        \/ op = "increase" /\ held[o] > 0
    BY Zenon
  <2>5. UpdateError(op, held[o]) = {} /\ Updated(op, held[o]) = held[o] + 1
    BY Zenon, <1>3, <2>3, <2>4, NoError
  <2> QED
    BY Zenon, <2>1, <2>2, <2>3, <2>5
<1> HIDE DEF h
<1>5. After(op, hs, k) = CountsFor(h)
  <2>1. ASSUME NEW o \in Objects
        PROVE  (IF o \in hs
                THEN Entry(Updated(op, counts[o].n), IF counts[o].n = 0 THEN k ELSE counts[o].kind)
                ELSE counts[o])
               = (IF object[o].kind = "platform" \/ h[o] = 0 THEN Absent
                  ELSE [n |-> h[o], kind |-> object[o].kind])
    <3>1. CASE o \in hs
      <4>1. h[o] # 0
        BY Zenon, <1>2, <3>1
      <4>2. /\ object[o].kind = k /\ Updated(op, counts[o].n) = h[o]
            /\ (IF counts[o].n = 0 THEN k ELSE counts[o].kind) = k
        BY Zenon, <1>4, <3>1
      <4>3. Entry(h[o], k) = [n |-> h[o], kind |-> k]
        BY Zenon, <4>1 DEF Entry
      <4> QED
        BY Zenon, <3>1, <4>1, <4>2, <4>3
    <3>2. CASE o \notin hs
      <4>1. counts[o] = IF object[o].kind = "platform" \/ held[o] = 0 THEN Absent
                        ELSE [n |-> held[o], kind |-> object[o].kind]
        BY Zenon, <1>1 DEF CountsFor
      <4>2. h[o] = held[o]
        BY Zenon, <1>2, <3>2
      <4> QED
        BY ONLY Zenon, <3>2, <4>1, <4>2
    <3> QED
      BY Zenon, <3>1, <3>2
  <2> QED
    BY Zenon, <2>1 DEF After, CountsFor
<1>6. AdaptersAfter(op, hs, k) = Cardinality(HeldOf(h))
  <2>1. CASE k # "adapter"
    <3>1. \A o \in AdapterObjects : o \in Objects /\ o \notin hs
      BY Zenon, <1>1, <1>4, <2>1, AdapterKind, AdapterFacts
    <3>2. HeldOf(h) = HeldOf(held)
      BY Zenon, <1>2, <3>1 DEF HeldOf
    <3> QED
      BY Zenon, <1>1, <2>1, <3>2 DEF AdaptersAfter
  <2>2. CASE k = "adapter" /\ op = "increase"
    <3>1. ASSUME NEW o \in AdapterObjects PROVE h[o] > 0 <=> held[o] > 0
      <4>1. o \in Objects
        BY Zenon, AdapterFacts
      <4>2. o \in hs => h[o] > 0 /\ held[o] > 0
        BY Zenon, <1>2, <2>2, <4>1
      <4>3. o \notin hs => h[o] = held[o]
        BY Zenon, <1>2, <4>1
      <4> QED
        BY Zenon, <4>2, <4>3
    <3>2. HeldOf(h) = HeldOf(held)
      BY Zenon, <3>1 DEF HeldOf
    <3>3. op # "create_or_increase" /\ op # "decrease"
      BY ONLY <2>2
    <3>4. AdaptersAfter(op, hs, k) = adapterCount
      BY ONLY Zenon, <2>2, <3>3 DEF AdaptersAfter
    <3> QED
      BY Zenon, <1>1, <3>2, <3>4
  <2>3. CASE k = "adapter" /\ op = "create_or_increase"
    <3> DEFINE new == {o \in hs : counts[o].n = 0}
    <3>1. AdaptersAfter(op, hs, k) = adapterCount + Cardinality(new)
      BY ONLY Zenon, <2>3 DEF AdaptersAfter
    <3>2. \A o \in hs : o \in AdapterObjects
      BY Zenon, <1>1, <1>4, <2>3, AdapterKind
    <3>3. \A o \in hs : o \in Objects /\ counts[o].n = held[o]
      BY Zenon, <1>4
    <3>4. new \subseteq AdapterObjects /\ \A o : o \in new <=> o \in hs /\ held[o] = 0
      BY Zenon, <3>2, <3>3
    <3> HIDE DEF new
    <3>5. \A o \in AdapterObjects : held[o] = 0 <=> ~(held[o] > 0)
      <4>1. \A o \in AdapterObjects : held[o] \in Nat
        BY Zenon, <1>1, AdapterFacts
      <4> QED
        BY ONLY <4>1
    <3>6. \A o \in AdapterObjects : o \in Objects
      BY Zenon, AdapterFacts
    <3>7. HeldOf(h) = HeldOf(held) \cup new
      <4>1. ASSUME NEW o \in AdapterObjects PROVE h[o] > 0 <=> held[o] > 0 \/ o \in new
        BY Zenon, <1>2, <3>4, <3>5, <3>6
      <4> QED
        BY Zenon, <3>4, <4>1 DEF HeldOf
    <3>8. HeldOf(held) \cap new = {}
      BY Zenon, <3>4, <3>5 DEF HeldOf
    <3>9. IsFiniteSet(HeldOf(held)) /\ IsFiniteSet(new)
      BY Zenon, <3>4, AdapterFacts, FS_Subset
    <3>10. Cardinality(HeldOf(h)) = Cardinality(HeldOf(held)) + Cardinality(new)
      <4>1. Cardinality(HeldOf(held) \cup new)
              = Cardinality(HeldOf(held)) + Cardinality(new) - Cardinality(HeldOf(held) \cap new)
        BY Zenon, <3>9, FS_Union
      <4>2. Cardinality({}) = 0
        BY Zenon, FS_EmptySet
      <4>3. Cardinality(HeldOf(held)) \in Nat /\ Cardinality(new) \in Nat
        BY Zenon, <3>9, FS_CardinalityType
      <4>4. Cardinality(HeldOf(held) \cup new)
              = Cardinality(HeldOf(held)) + Cardinality(new) - 0
        BY Zenon, <3>8, <4>1, <4>2
      <4>5. Cardinality(HeldOf(held)) + Cardinality(new) - 0
              = Cardinality(HeldOf(held)) + Cardinality(new)
        BY ONLY <4>3
      <4> QED
        BY Zenon, <3>7, <4>4, <4>5
    <3> QED
      BY Zenon, <1>1, <3>1, <3>10
  <2>4. k = "adapter" => op = "increase" \/ op = "create_or_increase"
    BY Zenon
  <2> QED
    BY Zenon, <2>1, <2>2, <2>3, <2>4
<1>7. ~Clears(op, hs, k)
  <2>1. Cardinality(HeldOf(h)) = 0 <=> HeldOf(h) = {}
    BY Zenon, AdapterFacts
  <2> QED
    BY Zenon, <1>6, <2>1 DEF Clears, h
<1> QED
  BY Zenon, <1>4, <1>5, <1>6, <1>7 DEF AddsCounts, h

\* A call that keeps to the contract passes the lifetime checks.
LEMMA LifetimeOK ==
  ASSUME LeakTracked, IInv, CountsAre, ~Misuse, NEW t \in Threads,
         NEW api, NEW d, NEW arg, NEW out, NEW fault, Passed(t, api, d, arg, out, fault)
  PROVE  LifetimeErrors(api, arg, fault) = {}
<1> SUFFICES ASSUME enableLifetimeValidation, NEW m \in api.alive,
                    \/ m = arg.of.name /\ ~isReferenceValid(counts, arg.object, arg.of.kind)
                    \/ m = fault.of /\ fault.how = "null"
             PROVE  FALSE
  BY Zenon DEF LifetimeErrors
<1>1. fault.how # "null"
  <2>1. fault = Fine
    BY Zenon DEF Passed
  <2>2. Fine.how # "null"
    BY DEF Fine
  <2> QED
    BY Zenon, <2>1, <2>2
<1>2. enableLeakChecking
  BY DEF enableLifetimeValidation, enableLeakChecking, Enabled
<1>3. Carries(api, d, arg, out, fault)
  BY Zenon, PassedFacts
<1>4. Tracked(api)
  BY Zenon, <1>3 DEF LeakTracked, Carries
<1>5. "" \notin api.alive /\ \A p \in api.args : p.kind = "platform" => p.name \notin api.alive
  BY Zenon, <1>4 DEF Tracked
<1>6. m = arg.of.name /\ ~isReferenceValid(counts, arg.object, arg.of.kind)
  BY Zenon, <1>1
<1>7. arg # Unbound
  <2>1. Unbound.of.name = ""
    BY DEF Unbound, Nothing
  <2> QED
    BY Zenon, <1>5, <1>6, <2>1
<1> DEFINE x == arg.object
<1>8. /\ x \in Objects /\ held[x] > 0 /\ object[x].kind = arg.of.kind
      /\ arg.of.kind # "platform"
  BY Zenon, <1>3, <1>5, <1>6, <1>7 DEF Carries
<1>9. held \in [Objects -> Nat] /\ held[x] \in Nat /\ counts = CountsFor(held)
  BY Zenon, <1>2, <1>8 DEF IInv, Types, CountsAre
<1> HIDE DEF x
<1>10. held[x] >= 1 /\ held[x] # 0
  BY ONLY <1>8, <1>9
<1>11. counts[x].n = held[x] /\ counts[x].kind = object[x].kind
  BY Zenon, <1>8, <1>9, <1>10, CountOf
<1> QED
  BY Zenon, <1>6, <1>8, <1>10, <1>11 DEF isReferenceValid, x

\* The leak checker as a call enters: its map is what remains, and it reports what the
\* application has not released.
EntersExact(api, d, arg, fault) ==
  /\ enableLeakChecking =>
       /\ counts' = CountsFor(held') /\ adapterCount' = Cardinality(HeldOf(held'))
       /\ Gone(api, d, arg, fault) => report'.shown = report'.owned
  /\ log' = log \cup (IF Rejected(api, d, fault) THEN {} ELSE LifetimeErrors(api, arg, fault))

\* So it is.
LEMMA EntryCounts ==
  ASSUME LeakTracked, IInv, CountsAre, NEW t \in Threads,
         NEW api, NEW d, NEW arg, NEW out, NEW fault,
         Passed(t, api, d, arg, out, fault), Enter(t, api, d, arg, out, fault)
  PROVE  EntersExact(api, d, arg, fault)
<1> DEFINE gone == Gone(api, d, arg, fault)
           takes == Takes(api, d, arg, fault)
           h == Given(api, d, arg, fault)
           zeros == [o \in Objects |-> 0]
           after == AfterEnter(api, d, arg, fault)
           x == arg.object
           k == arg.of.kind
<1>1. EntersLeaks(api, d, arg, fault)
  BY Zenon, EnterLeaks
<1>2. Enters(t, api, d, arg, out, fault)
  BY Zenon, EnterFacts
<1>3. Taken(api, d, arg, fault)
  BY Zenon, TakenFacts
<1>4. Remains(h, api, d, arg, fault)
  BY Zenon, EntryAdapters
<1>5. /\ counts' = after.counts /\ adapterCount' = after.adapters
      /\ log' = (log \cup after.errors)
                  \cup (IF Rejected(api, d, fault) THEN {} ELSE LifetimeErrors(api, arg, fault))
      /\ gone => report' = [shown |-> after.leaks, owned |-> Releasable(h)]
  BY Zenon, <1>1 DEF EntersLeaks
<1>6. held' = (IF gone THEN zeros ELSE h)
  BY Zenon, <1>2 DEF Enters
<1>7. CASE ~(enableLeakChecking /\ takes)
  <2>1. after = Leaks
    BY Zenon, <1>3, <1>7 DEF AfterEnter, Taken
  <2>2. Leaks.counts = counts /\ Leaks.adapters = adapterCount /\ Leaks.errors = {}
    BY DEF Leaks
  <2>3. log' = log \cup (IF Rejected(api, d, fault) THEN {} ELSE LifetimeErrors(api, arg, fault))
    BY Zenon, <1>5, <2>1, <2>2
  <2>4. CASE ~enableLeakChecking
    BY Zenon, <2>3, <2>4 DEF EntersExact
  <2>5. CASE enableLeakChecking
    <3>1. ~takes /\ ~gone
      BY Zenon, <1>3, <1>7, <2>5 DEF Taken
    <3>2. held' = held
      BY Zenon, <1>4, <1>6, <3>1 DEF Remains
    <3>3. counts = CountsFor(held) /\ adapterCount = Cardinality(HeldOf(held))
      BY Zenon, <2>5 DEF CountsAre
    <3>4. counts' = CountsFor(held') /\ adapterCount' = Cardinality(HeldOf(held'))
      BY Zenon, <1>5, <2>1, <2>2, <3>2, <3>3
    <3> QED
      BY Zenon, <2>3, <3>1, <3>4 DEF EntersExact
  <2> QED
    BY Zenon, <2>4, <2>5
<1>8. CASE enableLeakChecking /\ takes
  <2>1. after = updateRefCount(Leaks, "decrease", {x}, k)
    BY Zenon, <1>3, <1>8 DEF AfterEnter, Taken
  <2>2. Updates(after, "decrease", {x}, k)
    BY Zenon, <2>1, UpdateParts
  <2>3. TakesCounts("decrease", x, k, h, api, d, arg, fault)
    BY Zenon, <1>8, TakeCounts
  <2> HIDE DEF after, h, x, k, gone
  <2>4. /\ after.counts = (IF gone THEN [o \in Objects |-> Absent] ELSE CountsFor(h))
        /\ after.adapters = Cardinality(HeldOf(h))
        /\ gone => after.leaks = Leaked(counts, CountsFor(h))
    BY Zenon, <2>2, <2>3 DEF Updates, TakesCounts, gone
  <2>5. after.errors = {}
    BY Zenon, <2>2, <2>3 DEF Updates, TakesCounts
  <2>6. log' = log \cup (IF Rejected(api, d, fault) THEN {} ELSE LifetimeErrors(api, arg, fault))
    BY Zenon, <1>5, <2>5
  <2>7. CASE ~gone
    BY Zenon, <1>5, <1>6, <2>4, <2>6, <2>7 DEF EntersExact, gone
  <2>8. CASE gone
    <3>1. CountsFor(zeros) = [o \in Objects |-> Absent]
      BY Zenon DEF CountsFor
    <3>2. HeldOf(h) = {} /\ h \in [Objects -> Nat]
      BY Zenon, <1>4, <2>8 DEF Remains, gone
    <3>3. HeldOf(zeros) = {}
      <4>1. \A o \in AdapterObjects : zeros[o] = 0
        BY Zenon, AdapterFacts
      <4>2. ~(0 > 0)
        OBVIOUS
      <4> QED
        BY Zenon, <4>1, <4>2 DEF HeldOf
    <3>4. counts' = CountsFor(held') /\ adapterCount' = Cardinality(HeldOf(held'))
      BY Zenon, <1>5, <1>6, <2>4, <2>8, <3>1, <3>2, <3>3
    <3>5. Leaked(counts, CountsFor(h)) = Releasable(h)
      <4>1. ASSUME NEW o \in Objects
            PROVE  CountsFor(h)[o].n # 0 <=> h[o] > 0 /\ object[o].kind # "platform"
        <5>1. CountsFor(h)[o] = IF object[o].kind = "platform" \/ h[o] = 0 THEN Absent
                                ELSE [n |-> h[o], kind |-> object[o].kind]
          BY Zenon DEF CountsFor
        <5>2. h[o] \in Nat /\ Absent.n = 0
          BY <3>2 DEF Absent
        <5> QED
          BY ONLY <5>1, <5>2
      <4> QED
        BY Zenon, <4>1 DEF Leaked, Releasable
    <3>6. report' = [shown |-> after.leaks, owned |-> Releasable(h)] /\ after.leaks = Releasable(h)
      BY Zenon, <1>5, <2>4, <2>8, <3>5
    <3>7. report'.shown = report'.owned
      BY ONLY <3>6
    <3> QED
      BY Zenon, <2>6, <3>4, <3>7 DEF EntersExact
  <2> QED
    BY Zenon, <2>7, <2>8
<1> QED
  BY Zenon, <1>7, <1>8

\* A call that enters keeps the leak checker exact.
LEMMA EnterTracks ==
  ASSUME LeakTracked, IInv, LInv, NEW t \in Threads, call[t].pc = "idle",
         NEW api, NEW d, NEW arg, NEW out, NEW fault,
         Passed(t, api, d, arg, out, fault), Enter(t, api, d, arg, out, fault)
  PROVE  LInv'
<1> DEFINE gone == Gone(api, d, arg, fault)
           h == Given(api, d, arg, fault)
           e == EntryCall(api, d, arg, out, fault)
<1>1. Enters(t, api, d, arg, out, fault)
  BY Zenon, EnterFacts
<1>2. EntersExact(api, d, arg, fault)
  BY Zenon, EntryCounts DEF LInv
<1>3. Remains(h, api, d, arg, fault)
  BY Zenon, EntryAdapters
<1>4. Leaves(t, arg)
  BY Zenon, EntryHeld
<1>5. EntryOK(e, api, d, arg, fault)
  BY Zenon, EntryShape
<1>6. /\ call' = [call EXCEPT ![t] = e] /\ object' = object
      /\ held' = (IF gone THEN [o \in Objects |-> 0] ELSE h)
  BY Zenon, <1>1 DEF Enters
<1> HIDE DEF e, h
<1>7. Others(t) /\ call'[t] = e
  BY Zenon, <1>6 DEF IInv, Types, Others
<1>8. /\ e.pc # "idle" /\ e.pc # "loader" /\ e.api = api /\ e.arg = arg /\ CallOK(e)
      /\ (e.rejected <=> Rejected(api, d, fault)) /\ (e.pc = "adapter" <=> ~Rejected(api, d, fault))
      /\ e.pc \in PCs
  BY Zenon, <1>5 DEF EntryOK, CallType
<1>9. e.pc = "leave" => e.rejected /\ e.new = {}
  <2>1. e.pc = "leave" => e.pc # "adapter"
    OBVIOUS
  <2> QED
    BY Zenon, <1>8, <2>1 DEF CallOK
<1>10. CountsAre'
  <2>1. CountsFor(held)' = CountsFor(held')
    BY Zenon, <1>6 DEF CountsFor
  <2>2. HeldOf(held)' = HeldOf(held')
    BY Zenon DEF HeldOf
  <2> QED
    BY Zenon, <1>2, <2>1, <2>2 DEF EntersExact, CountsAre
<1>11. FreshOK'
  <2> SUFFICES ASSUME NEW u \in Threads, call'[u].pc \in {"loader", "leave"},
                      NEW o \in call'[u].new \cap Addresses
               PROVE  held'[o] = 0 /\ \A v \in Threads : v # u => ~Owes(call'[v], o)
    BY Zenon DEF FreshOK, Owes
  <2>1. u # t
    BY Zenon, <1>7, <1>8, <1>9
  <2>2. call'[u] = call[u]
    BY Zenon, <1>7, <2>1 DEF Others
  <2>3. held[o] = 0 /\ \A v \in Threads : v # u => ~Owes(call[v], o)
    BY Zenon, <2>2 DEF LInv, FreshOK
  <2>4. o \in Objects
    BY Zenon DEF Objects
  <2>5. /\ held'[o] \in Nat
        /\ held'[o] + One(e.pc = "adapter" /\ Releasing(e) /\ o = e.arg.object) <= held[o]
    BY Zenon, <1>4, <1>7, <2>4 DEF Leaves
  <2>6. held'[o] = 0 /\ ~(e.pc = "adapter" /\ Releasing(e) /\ o = e.arg.object)
    BY ONLY <2>3, <2>5 DEF One
  <2>7. ~Owes(e, o)
    <3>1. Got(e) = {}
      BY Zenon, <1>5 DEF EntryOK
    <3> QED
      BY Zenon, <2>6, <3>1, <1>8 DEF Owes
  <2> QED
    BY Zenon, <1>7, <2>3, <2>6, <2>7 DEF Others
<1>12. Retained'
  <2> SUFFICES ASSUME NEW u \in Threads, call'[u].pc \in {"loader", "leave"}, ~call'[u].rejected,
                      CountOp(call'[u].api, call'[u].arg) = "increase"
               PROVE  call'[u].res = "SUCCESS"
    BY Zenon DEF Retained
  <2>1. u # t
    BY Zenon, <1>7, <1>8, <1>9
  <2> QED
    BY Zenon, <1>7, <2>1 DEF LInv, Retained, Others
<1>13. gone => api.name = "urAdapterRelease" /\ \A u \in Threads \ {t} : ~Busy(u)
  BY Zenon DEF Gone, LastAdapter, Passed, MayCall
<1>14. ~gone /\ HeldOf(held) # {} => HeldOf(held') # {}
  BY Zenon, <1>3, <1>6 DEF Remains
<1>15. AdapterAlive'
  <2> SUFFICES ASSUME NEW u \in Threads, call'[u].pc # "idle", call'[u].api.name \notin Ends
               PROVE  HeldOf(held') # {}
    BY Zenon DEF AdapterAlive, Busy, HeldOf
  <2>1. CASE u = t
    <3>1. api.name # "urAdapterGet" /\ api.name # "urAdapterRelease"
      BY Zenon, <1>7, <1>8, <2>1 DEF Ends
    <3>2. held[<<"adapter", d>>] > 0 /\ d \in Adapters
      BY Zenon, <3>1 DEF Passed, MayCall
    <3>3. <<"adapter", d>> \in AdapterObjects
      BY <3>2 DEF AdapterObjects
    <3>4. HeldOf(held) # {}
      BY Zenon, <3>2, <3>3 DEF HeldOf
    <3> QED
      BY Zenon, <1>13, <1>14, <3>1, <3>4
  <2>2. CASE u # t
    <3>1. call'[u] = call[u]
      BY Zenon, <1>7, <2>2 DEF Others
    <3>2. Busy(u) /\ HeldOf(held) # {}
      BY Zenon, <3>1 DEF LInv, AdapterAlive, Busy
    <3> QED
      BY Zenon, <1>13, <1>14, <2>2, <3>2
  <2> QED
    BY Zenon, <2>1, <2>2
<1>16. LeakReportExact'
  <2>1. CASE gone
    BY Zenon, <1>2, <2>1 DEF EntersExact, LeakReportExact
  <2>2. CASE ~gone
    <3>1. report' = report
      <4>1. EntersLeaks(api, d, arg, fault)
        BY Zenon, EnterLeaks
      <4> QED
        BY Zenon, <2>2, <4>1 DEF EntersLeaks
    <3> QED
      BY Zenon, <3>1 DEF LInv, LeakReportExact
  <2> QED
    BY Zenon, <2>1, <2>2
<1>17. ~Misuse => NoFalseAlarm'
  <2> SUFFICES ASSUME ~Misuse PROVE log' = {}
    BY Zenon DEF NoFalseAlarm
  <2>1. LifetimeErrors(api, arg, fault) = {}
    BY Zenon, LifetimeOK DEF LInv
  <2>2. log = {}
    BY Zenon DEF LInv, NoFalseAlarm
  <2> QED
    BY Zenon, <1>2, <2>1, <2>2 DEF EntersExact
<1> QED
  BY Zenon, <1>10, <1>11, <1>12, <1>15, <1>16, <1>17 DEF LInv

\* What leaving does to the leak checker.
Created(c) ==
  /\ c.api.checked.op \in {"create", "create_or_increase"} /\ c.api.checked.of = c.out.name
  /\ c.res = "SUCCESS"
AfterLeave(c) ==
  IF ~enableLeakChecking \/ c.rejected THEN Leaks
  ELSE IF Created(c) THEN updateRefCount(Leaks, c.api.checked.op, c.new, c.out.kind)
  ELSE IF c.api.checked.op = "increase" /\ c.arg # Unbound
  THEN updateRefCount(Leaks, "increase", {c.arg.object}, c.arg.of.kind)
  ELSE Leaks
LeavesLeaks(t) ==
  /\ call[t].pc = "leave"
  /\ counts' = AfterLeave(call[t]).counts
  /\ adapterCount' = AfterLeave(call[t]).adapters
  /\ log' = log \cup AfterLeave(call[t]).errors
  /\ held' = [o \in Objects |-> IF o \notin Got(call[t]) THEN held[o]
                                ELSE IF object[o].kind = "platform" THEN 1 ELSE held[o] + 1]
  /\ call' = [call EXCEPT ![t] = Idle]
  /\ UNCHANGED <<object, report>>

\* That is what Leave does.
LEMMA LeaveLeaks ==
  ASSUME NEW t, Leave(t)
  PROVE  LeavesLeaks(t)
  BY Zenon DEF Leave, LeavesLeaks, AfterLeave, Created

\* The creation of nothing changes nothing.
LEMMA EmptyUpdate ==
  ASSUME counts = CountsFor(held), adapterCount = Cardinality(HeldOf(held)),
         NEW op, NEW k, NEW s, s = updateRefCount(Leaks, op, {}, k)
  PROVE  s.counts = counts /\ s.adapters = adapterCount /\ s.errors = {}
<1>1. Updates(s, op, {}, k)
  BY Zenon, UpdateParts
<1>2. ~Clears(op, {}, k)
  BY Zenon DEF Clears
<1>3. After(op, {}, k) = counts
  BY Zenon DEF After, CountsFor
<1>4. AdaptersAfter(op, {}, k) = adapterCount
  <2>1. adapterCount \in Nat /\ Cardinality({}) = 0
    BY Zenon, AdapterFacts, FS_EmptySet
  <2>2. adapterCount + 0 = adapterCount /\ adapterCount - 0 = adapterCount
    BY ONLY <2>1
  <2>3. {o \in {} : counts[o].n = 0} = {} /\ {o \in {} : counts[o].n = 1} = {}
    BY Zenon
  <2> QED
    BY Zenon, <2>1, <2>2, <2>3 DEF AdaptersAfter
<1> QED
  BY Zenon, <1>1, <1>2, <1>3, <1>4 DEF Updates

\* The application has an adapter after a call that brings it something.
LEMMA LeaveAdapters ==
  ASSUME LeakTracked, IInv, LInv, NEW t \in Threads, call[t].pc = "leave",
         NEW hs \in SUBSET Objects, hs # {},
         \/ CountOp(call[t].api, call[t].arg) = "increase"
         \/ hs = call[t].new
  PROVE  HeldOf(Plus(hs)) # {}
<1> DEFINE c == call[t]
<1>1. c.pc # "idle"
  OBVIOUS
<1>2. CallOK(c) /\ c.api \in Apis /\ Tracked(c.api)
  BY Zenon, <1>1 DEF IInv, Shapes, CallOK, LeakTracked
<1>3. held \in [Objects -> Nat] /\ Objs
  BY Zenon DEF IInv, Types
<1>4. ASSUME NEW o \in Objects
      PROVE  /\ held[o] > 0 => Plus(hs)[o] > 0
             /\ o \in hs => Plus(hs)[o] > 0
  <2>1. Plus(hs)[o] = IF o \in hs THEN held[o] + 1 ELSE held[o]
    BY Zenon DEF Plus
  <2>2. held[o] \in Nat
    BY Zenon, <1>3
  <2> QED
    BY ONLY <2>1, <2>2
<1>5. CASE c.api.name \notin Ends
  <2>1. HeldOf(held) # {}
    BY Zenon, <1>1, <1>5 DEF LInv, AdapterAlive, Busy
  <2> QED
    BY Zenon, <1>4, <2>1, AdapterFacts DEF HeldOf
<1>6. CASE c.api.name \in Ends
  <2>1. CountOp(c.api, c.arg) = "increase" => c.api.count.op = "increase"
    BY Zenon, <1>2 DEF CountOp
  <2>2. c.api.name = "urAdapterGet" => c.api.count.op = "none" /\ \A p \in c.api.outs : p.kind = "adapter"
    BY Zenon, <1>2 DEF Tracked
  <2>3. c.api.name = "urAdapterRelease" => c.api.count.op = "decrease"
    BY Zenon, <1>2, RowsAssumption DEF RowsAssumption
  <2>4. hs = c.new
    BY Zenon, <1>6, <2>1, <2>2, <2>3 DEF Ends
  <2>5. c.out \in c.api.outs
    BY Zenon, <1>2, <2>4 DEF CallOK
  <2>6. c.api.name = "urAdapterGet"
    <3>1. c.api.count.op # "none" => c.api.outs = {}
      BY Zenon, <1>2, RowsAssumption DEF RowsAssumption
    <3> QED
      BY Zenon, <1>6, <2>3, <2>5, <3>1 DEF Ends
  <2>7. c.out.kind = "adapter" /\ CountOp(c.api, c.arg) # "increase"
    BY Zenon, <2>1, <2>2, <2>5, <2>6
  <2>8. PICK o \in hs : TRUE
    BY Zenon
  <2>9. o \in Objects /\ object[o].kind = "adapter"
    <3>1. o \in Got(c) /\ GotKind(c) = c.out.kind
      BY Zenon, <2>4, <2>7 DEF Got, GotKind
    <3> QED
      BY Zenon, <2>7, <3>1 DEF IInv, News
  <2>10. o \in AdapterObjects
    BY Zenon, <1>3, <2>9, AdapterKind
  <2> QED
    BY Zenon, <1>4, <2>8, <2>9, <2>10 DEF HeldOf
<1> QED
  BY Zenon, <1>5, <1>6

\* The leak checker as a call leaves: it counts what the application gets.
LeavesExact ==
  /\ enableLeakChecking =>
       counts' = CountsFor(held') /\ adapterCount' = Cardinality(HeldOf(held'))
  /\ log' = log

\* It does, if what it is told to count is what the application gets.
LEMMA LeaveAdds ==
  ASSUME LeakTracked, IInv, LInv, enableLeakChecking, NEW t \in Threads, LeavesLeaks(t),
         NEW hs \in SUBSET Objects, hs # {}, hs = Got(call[t]), NEW k, k # "platform",
         \/ CountOp(call[t].api, call[t].arg) = "increase"
         \/ hs = call[t].new,
         NEW op \in {"create", "create_or_increase", "increase"},
         \A o \in hs : /\ object[o].kind = k
                       /\ op = "create" => held[o] = 0
                       /\ op = "increase" => held[o] > 0,
         k = "adapter" => op # "create",
         AfterLeave(call[t]) = updateRefCount(Leaks, op, hs, k)
  PROVE  LeavesExact
<1> DEFINE s == AfterLeave(call[t])
<1>1. call[t].pc = "leave"
  BY Zenon DEF LeavesLeaks
<1>2. HeldOf(Plus(hs)) # {}
  BY Zenon, <1>1, LeaveAdapters
<1>3. AddsCounts(op, hs, k)
  BY Zenon, <1>2, AddCounts DEF LInv
<1>4. Updates(s, op, hs, k)
  BY Zenon, UpdateParts
<1>5. counts' = s.counts /\ adapterCount' = s.adapters /\ log' = log \cup s.errors
  BY Zenon DEF LeavesLeaks
<1>6. held' = Plus(hs)
  <2>1. held' = [o \in Objects |-> IF o \notin hs THEN held[o]
                                   ELSE IF object[o].kind = "platform" THEN 1 ELSE held[o] + 1]
    BY Zenon DEF LeavesLeaks
  <2>2. ASSUME NEW o \in Objects
        PROVE  (IF o \notin hs THEN held[o]
                ELSE IF object[o].kind = "platform" THEN 1 ELSE held[o] + 1)
               = (IF o \in hs THEN held[o] + 1 ELSE held[o])
    BY Zenon
  <2> QED
    BY Zenon, <2>1, <2>2 DEF Plus
<1> HIDE DEF s
<1>7. s.counts = CountsFor(Plus(hs)) /\ s.adapters = Cardinality(HeldOf(Plus(hs)))
  BY Zenon, <1>3, <1>4 DEF AddsCounts, Updates
<1>8. s.errors = {}
  BY ZenonT(60), <1>3, <1>4 DEF AddsCounts, Updates
<1>9. log' = log
  BY Zenon, <1>5, <1>8
<1> QED
  BY Zenon, <1>5, <1>6, <1>7, <1>9 DEF LeavesExact

\* So it does in every call.
LEMMA LeaveCounts ==
  ASSUME LeakTracked, IInv, LInv, NEW t \in Threads, LeavesLeaks(t)
  PROVE  LeavesExact
<1> DEFINE c == call[t]
           s == AfterLeave(c)
<1>1. /\ c.pc = "leave" /\ c.pc # "idle" /\ c.pc \in {"loader", "leave"}
      /\ counts' = s.counts /\ adapterCount' = s.adapters /\ log' = log \cup s.errors
      /\ held' = [o \in Objects |-> IF o \notin Got(c) THEN held[o]
                                    ELSE IF object[o].kind = "platform" THEN 1 ELSE held[o] + 1]
  <2>1. c.pc = "leave"
    BY Zenon DEF LeavesLeaks
  <2>2. c.pc # "idle"
    BY <2>1
  <2> QED
    BY Zenon, <2>1, <2>2 DEF LeavesLeaks
<1>2. CallOK(c) /\ UseOK(c) /\ c.api \in Apis /\ Tracked(c.api)
  BY Zenon, <1>1 DEF IInv, Shapes, Uses, CallOK, LeakTracked
<1>3. Leaks.counts = counts /\ Leaks.adapters = adapterCount /\ Leaks.errors = {}
  BY DEF Leaks
<1>4. s = Leaks => counts' = counts /\ adapterCount' = adapterCount /\ log' = log
  BY Zenon, <1>1, <1>3
<1>5. CASE ~enableLeakChecking
  BY Zenon, <1>4, <1>5 DEF LeavesExact, AfterLeave
<1>6. CASE enableLeakChecking
  <2>1. /\ counts = CountsFor(held) /\ adapterCount = Cardinality(HeldOf(held))
        /\ held \in [Objects -> Nat] /\ Objs
    BY Zenon, <1>6 DEF LInv, CountsAre, IInv, Types
  <2>2. /\ c.api.count.op # "none" => c.api.checked.op = c.api.count.op
        /\ c.api.count.op = "none" => c.api.checked.op \notin {"increase", "decrease"}
        /\ c.api.outs # {} => c.api.keep = {"SUCCESS"}
    BY Zenon, <1>2 DEF Tracked
  <2>3. c.api.count.op # "none" => c.api.outs = {}
    BY Zenon, <1>2, RowsAssumption DEF RowsAssumption
  <2>4. CASE CountOp(c.api, c.arg) = "increase" /\ ~c.rejected
    <3> DEFINE x == c.arg.object
               k == c.arg.of.kind
    <3>1. "increase" # "none" /\ "increase" # "decrease"
          /\ "increase" \notin {"create", "create_or_increase"}
      OBVIOUS
    <3>2. c.arg # Unbound /\ c.api.count.op = "increase"
      BY Zenon, <2>4, <3>1 DEF CountOp
    <3>3. c.res = "SUCCESS"
      BY Zenon, <1>1, <2>4 DEF LInv, Retained
    <3>4. c.api.checked.op = "increase"
      BY Zenon, <2>2, <3>1, <3>2
    <3>5. Got(c) = {x} /\ ~Created(c)
      BY Zenon, <2>4, <3>1, <3>3, <3>4 DEF Got, Created
    <3>6. s = updateRefCount(Leaks, "increase", {x}, k)
      BY Zenon, <1>6, <2>4, <3>2, <3>4, <3>5 DEF AfterLeave
    <3>7. x \in Objects /\ c.arg.of \in c.api.args /\ c.arg.of.name = c.api.count.of
      BY Zenon, <1>2, <3>1, <3>2 DEF CallOK
    <3>8. k # "platform"
      BY Zenon, <1>2, <3>1, <3>2, <3>7 DEF Tracked
    <3>9. held[x] > 0 /\ object[x].kind = k
      BY Zenon, <1>2, <2>4, <3>1, <3>2 DEF UseOK, Releasing
    <3> DEFINE hs == {x}
               op == "increase"
    <3>10. /\ hs \in SUBSET Objects /\ hs # {} /\ hs = Got(c)
           /\ op \in {"create", "create_or_increase", "increase"} /\ op # "create"
           /\ \A o \in hs : /\ object[o].kind = k
                            /\ op = "create" => held[o] = 0
                            /\ op = "increase" => held[o] > 0
      BY <3>5, <3>7, <3>9
    <3>11. AfterLeave(call[t]) = updateRefCount(Leaks, op, hs, k)
      BY Zenon, <3>6
    <3> HIDE DEF hs, op, k
    <3> QED
      BY ZenonT(60), <1>6, <2>4, <3>8, <3>10, <3>11, LeaveAdds
  <2>5. CASE c.new # {}
    <3> DEFINE k == c.out.kind
               op == c.api.checked.op
    <3>1. /\ c.res \in c.api.keep /\ c.out \in c.api.outs /\ ~c.rejected
          /\ CountOp(c.api, c.arg) = "none"
      BY Zenon, <1>2, <2>5, RowFacts DEF CallOK
    <3>2. c.res = "SUCCESS" /\ c.api.count.op = "none"
      BY Zenon, <2>2, <2>3, <3>1
    <3>3. c.api.checked.op # "increase" /\ c.api.checked.op # "decrease"
      BY Zenon, <2>2, <3>2
    <3>4. CountOp(c.api, c.arg) # "increase"
      BY <3>1
    <3>5. Got(c) = c.new /\ GotKind(c) = k
      BY Zenon, <3>4 DEF Got, GotKind
    <3>6. \A o \in c.new : o \in Objects /\ object[o].kind = k
      BY Zenon, <1>1, <3>5 DEF IInv, News
    <3>7. IF k = "platform" THEN c.api.checked.of # c.out.name
          ELSE /\ c.api.checked.of = c.out.name
               /\ \/ c.out.op \in {"make", "make_if_set"} /\ op = "create"
                  \/ c.out.op = "constant_if_set" /\ op = "create_or_increase"
      BY Zenon, <1>2, <3>1 DEF Tracked
    <3>8. CASE k = "platform"
      <4>1. s = Leaks
        BY Zenon, <3>3, <3>7, <3>8 DEF AfterLeave, Created
      <4>2. ASSUME NEW o \in Objects
            PROVE  object[o].kind # "platform" => held'[o] = held[o]
        BY Zenon, <1>1, <3>5, <3>6, <3>8
      <4>3. CountsFor(held') = CountsFor(held)
        <5>1. ASSUME NEW o \in Objects
              PROVE  (IF object[o].kind = "platform" \/ held'[o] = 0 THEN Absent
                      ELSE [n |-> held'[o], kind |-> object[o].kind])
                     = (IF object[o].kind = "platform" \/ held[o] = 0 THEN Absent
                        ELSE [n |-> held[o], kind |-> object[o].kind])
          BY Zenon, <4>2
        <5> QED
          BY Zenon, <5>1 DEF CountsFor
      <4>4. \A o \in AdapterObjects : held'[o] = held[o]
        <5>1. \A o \in AdapterObjects : o \in Objects /\ object[o].kind = "adapter"
          BY Zenon, <2>1, AdapterFacts, AdapterKind
        <5>2. "adapter" # "platform"
          OBVIOUS
        <5> QED
          BY Zenon, <4>2, <5>1, <5>2
      <4>5. HeldOf(held') = HeldOf(held)
        BY Zenon, <4>4 DEF HeldOf
      <4> QED
        BY Zenon, <1>4, <2>1, <4>1, <4>3, <4>5 DEF LeavesExact
    <3>9. CASE k # "platform"
      <4>1. c.api.checked.of = c.out.name /\ op \in {"create", "create_or_increase"}
        BY Zenon, <3>7, <3>9
      <4>2. Created(c)
        BY Zenon, <3>2, <4>1 DEF Created
      <4>3. AfterLeave(call[t]) = updateRefCount(Leaks, op, c.new, k)
        BY Zenon, <1>6, <3>1, <4>2 DEF AfterLeave
      <4>4. op = "create" => k \notin StaticKinds
        <5>1. op = "create" => c.out.op \in {"make", "make_if_set"}
          BY <3>7, <3>9
        <5>2. \/ c.out.op \in {"make", "make_if_set"} /\ c.out.kind \notin StaticKinds \cup {"none"}
              \/ c.out.op = "constant_if_set" /\ c.out.kind \in StaticKinds
              \/ c.out.op = "adopt" /\ c.out.kind # "none"
          BY Zenon, <1>2, <3>1, RowsAssumption DEF RowsAssumption
        <5>3. "constant_if_set" \notin {"make", "make_if_set"} /\ "adopt" \notin {"make", "make_if_set"}
          OBVIOUS
        <5> QED
          BY Zenon, <5>1, <5>2, <5>3
      <4>5. "adapter" \in StaticKinds
        BY DEF StaticKinds
      <4>6. k = "adapter" => op # "create"
        BY Zenon, <4>4, <4>5
      <4>7. ASSUME NEW o \in c.new, op = "create" PROVE held[o] = 0
        <5>1. o \in Addresses
          <6>1. o \notin Static
            BY Zenon, <2>1, <3>6, <4>4, <4>7, AdapterKind
          <6> QED
            BY Zenon, <3>6, <6>1 DEF Objects
        <5> QED
          BY Zenon, <1>1, <5>1 DEF LInv, FreshOK
      <4> DEFINE hs == c.new
      <4>8. op # "increase"
        BY Zenon, <3>3
      <4>9. /\ hs \in SUBSET Objects /\ hs # {} /\ hs = Got(c) /\ hs = call[t].new
            /\ op \in {"create", "create_or_increase", "increase"}
            /\ \A o \in hs : /\ object[o].kind = k
                             /\ op = "create" => held[o] = 0
                             /\ op = "increase" => held[o] > 0
        BY Zenon, <2>5, <3>5, <3>6, <4>1, <4>7, <4>8
      <4>10. AfterLeave(call[t]) = updateRefCount(Leaks, op, hs, k)
        BY Zenon, <4>3
      <4> HIDE DEF hs, op, k
      <4> QED
        BY ZenonT(60), <1>6, <3>9, <4>6, <4>9, <4>10, LeaveAdds
    <3> QED
      BY Zenon, <3>8, <3>9
  <2>6. CASE c.new = {} /\ ~(CountOp(c.api, c.arg) = "increase" /\ ~c.rejected)
    <3>1. Got(c) = {}
      BY Zenon, <1>2, <2>6 DEF Got, CallOK
    <3>2. held' = held
      <4>1. held' = [o \in Objects |-> held[o]]
        BY Zenon, <1>1, <3>1
      <4> QED
        BY Zenon, <2>1, <4>1
    <3>3. counts' = counts /\ adapterCount' = adapterCount /\ log' = log
      <4>1. CASE c.rejected
        BY Zenon, <1>4, <4>1 DEF AfterLeave
      <4>2. CASE ~c.rejected /\ Created(c)
        <5>1. s = updateRefCount(Leaks, c.api.checked.op, {}, c.out.kind)
          BY Zenon, <1>6, <2>6, <4>2 DEF AfterLeave
        <5>2. s.counts = counts /\ s.adapters = adapterCount /\ s.errors = {}
          BY ZenonT(60), <2>1, <5>1, EmptyUpdate
        <5> QED
          BY Zenon, <1>1, <5>2
      <4>3. CASE ~c.rejected /\ ~Created(c)
        <5>1. ~(c.api.checked.op = "increase" /\ c.arg # Unbound)
          <6>1. c.api.checked.op = "increase" => c.api.count.op = "increase"
            BY Zenon, <2>2
          <6> QED
            BY Zenon, <2>6, <4>3, <6>1 DEF CountOp
        <5>2. s = Leaks
          BY Zenon, <4>3, <5>1 DEF AfterLeave
        <5> QED
          BY Zenon, <1>4, <5>2
      <4> QED
        BY Zenon, <4>1, <4>2, <4>3
    <3> QED
      BY Zenon, <2>1, <3>2, <3>3 DEF LeavesExact
  <2> QED
    BY Zenon, <2>4, <2>5, <2>6
<1> QED
  BY Zenon, <1>5, <1>6

\* A call that leaves keeps the leak checker exact.
LEMMA LeaveTracks ==
  ASSUME LeakTracked, IInv, LInv, NEW t \in Threads, Leave(t)
  PROVE  LInv'
<1> DEFINE c == call[t]
<1>1. LeavesLeaks(t)
  BY Zenon, LeaveLeaks
<1>2. LeavesExact
  BY Zenon, <1>1, LeaveCounts
<1>3. /\ c.pc = "leave" /\ call' = [call EXCEPT ![t] = Idle]
      /\ UNCHANGED <<object, report>>
      /\ held' = [o \in Objects |-> IF o \notin Got(c) THEN held[o]
                                    ELSE IF object[o].kind = "platform" THEN 1 ELSE held[o] + 1]
  BY Zenon, <1>1 DEF LeavesLeaks
<1>4. Others(t) /\ call'[t] = Idle
  BY Zenon, <1>3 DEF IInv, Types, Others
<1>5. Idle.pc = "idle"
  BY DEF Idle
<1>6. CountsAre'
  <2>1. CountsFor(held)' = CountsFor(held')
    BY Zenon, <1>3 DEF CountsFor
  <2>2. HeldOf(held)' = HeldOf(held')
    BY Zenon DEF HeldOf
  <2> QED
    BY Zenon, <1>2, <2>1, <2>2 DEF LeavesExact, CountsAre
<1>7. FreshOK'
  <2> SUFFICES ASSUME NEW u \in Threads, call'[u].pc \in {"loader", "leave"},
                      NEW o \in call'[u].new \cap Addresses
               PROVE  held'[o] = 0 /\ \A v \in Threads : v # u => ~Owes(call'[v], o)
    BY Zenon DEF FreshOK, Owes
  <2>1. u # t
    BY <1>4, <1>5
  <2>2. call'[u] = call[u]
    BY Zenon, <1>4, <2>1 DEF Others
  <2>3. held[o] = 0 /\ \A v \in Threads : v # u => ~Owes(call[v], o)
    BY Zenon, <2>2 DEF LInv, FreshOK
  <2>4. o \notin Got(c) /\ o \in Objects
    <3>1. c.pc \in {"loader", "leave"}
      BY <1>3
    <3> QED
      BY Zenon, <2>1, <2>3, <3>1 DEF Owes, Objects
  <2>5. held'[o] = 0
    BY Zenon, <1>3, <2>3, <2>4
  <2>6. ~Owes(Idle, o)
    BY <1>5 DEF Owes
  <2> QED
    BY Zenon, <1>4, <2>3, <2>5, <2>6 DEF Others
<1>8. Retained'
  <2> SUFFICES ASSUME NEW u \in Threads, call'[u].pc \in {"loader", "leave"}, ~call'[u].rejected,
                      CountOp(call'[u].api, call'[u].arg) = "increase"
               PROVE  call'[u].res = "SUCCESS"
    BY Zenon DEF Retained
  <2>1. u # t
    BY <1>4, <1>5
  <2> QED
    BY Zenon, <1>4, <2>1 DEF LInv, Retained, Others
<1>9. AdapterAlive'
  <2> SUFFICES ASSUME NEW u \in Threads, call'[u].pc # "idle", call'[u].api.name \notin Ends
               PROVE  HeldOf(held') # {}
    BY Zenon DEF AdapterAlive, Busy, HeldOf
  <2>1. u # t
    BY Zenon, <1>4, <1>5
  <2>2. HeldOf(held) # {}
    BY Zenon, <1>4, <2>1 DEF LInv, AdapterAlive, Busy, Others
  <2>3. PICK o \in AdapterObjects : held[o] > 0
    BY Zenon, <2>2 DEF HeldOf
  <2>4. o \in Objects /\ held[o] \in Nat
    BY Zenon, AdapterFacts DEF IInv, Types
  <2>5. held'[o] = IF o \notin Got(c) THEN held[o]
                   ELSE IF object[o].kind = "platform" THEN 1 ELSE held[o] + 1
    BY Zenon, <1>3, <2>4
  <2>6. held'[o] > 0
    BY ONLY <2>3, <2>4, <2>5
  <2> QED
    BY Zenon, <2>6 DEF HeldOf
<1>10. LeakReportExact' /\ (~Misuse => NoFalseAlarm')
  BY Zenon, <1>2, <1>3 DEF LInv, LeakReportExact, NoFalseAlarm, LeavesExact
<1> QED
  BY Zenon, <1>6, <1>7, <1>8, <1>9, <1>10 DEF LInv

\* A step within a call that the leak checker does not see, and that gives the call
\* nothing it did not have.
LEMMA WithinTracks ==
  ASSUME LInv, NEW t \in Threads, call[t].pc # "idle",
         Others(t), SameCall(call[t], call'[t]),
         \A o : Owes(call'[t], o) => Owes(call[t], o),
         call'[t].pc \in {"loader", "leave"} =>
           \/ call'[t].new = {}
           \/ call'[t].new = call[t].new /\ call[t].pc \in {"loader", "leave"},
         call'[t].pc \in {"loader", "leave"} /\ ~call'[t].rejected
           /\ CountOp(call'[t].api, call'[t].arg) = "increase" => call'[t].res = "SUCCESS",
         UNCHANGED <<object, held, counts, adapterCount, report, log>>
  PROVE  LInv'
<1>1. CountsAre'
  BY Zenon DEF LInv, CountsAre, CountsFor, HeldOf
<1>2. FreshOK'
  <2> SUFFICES ASSUME NEW u \in Threads, call'[u].pc \in {"loader", "leave"},
                      NEW o \in call'[u].new \cap Addresses
               PROVE  held[o] = 0 /\ \A v \in Threads : v # u => ~Owes(call'[v], o)
    BY Zenon DEF FreshOK, Owes
  <2>1. call[u].pc \in {"loader", "leave"} /\ o \in call[u].new
    <3>1. CASE u = t
      BY Zenon, <3>1
    <3>2. CASE u # t
      BY Zenon, <3>2 DEF Others
    <3> QED
      BY Zenon, <3>1, <3>2
  <2>2. held[o] = 0 /\ \A v \in Threads : v # u => ~Owes(call[v], o)
    BY Zenon, <2>1 DEF LInv, FreshOK
  <2>3. ASSUME NEW v \in Threads, v # u PROVE ~Owes(call'[v], o)
    <3>1. CASE v = t
      BY Zenon, <2>2, <2>3, <3>1
    <3>2. CASE v # t
      BY Zenon, <2>2, <2>3, <3>2 DEF Others
    <3> QED
      BY Zenon, <3>1, <3>2
  <2> QED
    BY Zenon, <2>2, <2>3
<1>3. Retained'
  <2> SUFFICES ASSUME NEW u \in Threads, call'[u].pc \in {"loader", "leave"}, ~call'[u].rejected,
                      CountOp(call'[u].api, call'[u].arg) = "increase"
               PROVE  call'[u].res = "SUCCESS"
    BY Zenon DEF Retained
  <2>1. CASE u = t
    BY Zenon, <2>1
  <2>2. CASE u # t
    BY Zenon, <2>2 DEF LInv, Retained, Others
  <2> QED
    BY Zenon, <2>1, <2>2
<1>4. AdapterAlive'
  <2> SUFFICES ASSUME NEW u \in Threads, call'[u].pc # "idle", call'[u].api.name \notin Ends
               PROVE  HeldOf(held) # {}
    BY Zenon DEF AdapterAlive, Busy, HeldOf
  <2>1. call[u].pc # "idle" /\ call[u].api = call'[u].api
    <3>1. CASE u = t
      BY Zenon, <3>1 DEF SameCall
    <3>2. CASE u # t
      BY Zenon, <3>2 DEF Others
    <3> QED
      BY Zenon, <3>1, <3>2
  <2> QED
    BY Zenon, <2>1 DEF LInv, AdapterAlive, Busy
<1>5. LeakReportExact' /\ (~Misuse => NoFalseAlarm')
  BY Zenon DEF LInv, LeakReportExact, NoFalseAlarm
<1> QED
  BY Zenon, <1>1, <1>2, <1>3, <1>4, <1>5 DEF LInv

\* Crash, NotProvided and Convert are such steps: every adapter has the retains.
LEMMA StopTracks ==
  ASSUME LeakTracked, IInv, LInv, NEW t \in Threads, Crash(t) \/ NotProvided(t) \/ Convert(t)
  PROVE  LInv'
<1> DEFINE c == call[t]
           e == call'[t]
<1>1. CASE Crash(t)
  <2>1. c.pc = "adapter" /\ call' = [call EXCEPT ![t].pc = "crashed"]
        /\ UNCHANGED <<object, held, counts, adapterCount, report, log>>
    BY Zenon, <1>1 DEF Crash
  <2>2. GoesOn(t) /\ e.pc = "crashed"
    BY Zenon, <2>1, PcMoves DEF IInv, PCs
  <2>3. c.pc # "idle" /\ e.pc \notin {"loader", "leave"} /\ e.pc # "adapter"
    BY <2>1, <2>2
  <2>4. \A o : ~Owes(e, o)
    BY Zenon, <2>3 DEF Owes
  <2>5. SameCall(c, e) /\ Others(t)
    BY Zenon, <2>2 DEF GoesOn, Others
  <2> HIDE DEF e
  <2> QED
    BY Zenon, <2>1, <2>3, <2>4, <2>5, WithinTracks DEF e
<1>2. CASE Convert(t)
  <2>1. c.pc = "loader" /\ call' = [call EXCEPT ![t].pc = "leave"]
        /\ UNCHANGED <<object, held, counts, adapterCount, report, log>>
    BY Zenon, <1>2 DEF Convert
  <2>2. GoesOn(t) /\ e.pc = "leave" /\ e.res = c.res /\ e.new = c.new
    BY Zenon, <2>1, PcMoves DEF IInv, PCs
  <2>3. c.pc # "idle" /\ c.pc \in {"loader", "leave"} /\ e.pc # "adapter"
    BY <2>1, <2>2
  <2>4. SameCall(c, e) /\ Others(t)
    BY Zenon, <2>2 DEF GoesOn, Others
  <2>5. CountOp(e.api, e.arg) = CountOp(c.api, c.arg) /\ e.rejected = c.rejected /\ e.arg = c.arg
    BY Zenon, <2>4, SameCounts DEF SameCall
  <2>6. \A o : Owes(e, o) => Owes(c, o)
    BY Zenon, <2>2, <2>3, <2>5 DEF Owes, Got
  <2>7. ~e.rejected /\ CountOp(e.api, e.arg) = "increase" => e.res = "SUCCESS"
    BY Zenon, <2>2, <2>3, <2>5 DEF LInv, Retained
  <2> HIDE DEF e
  <2> QED
    BY Zenon, <2>1, <2>2, <2>3, <2>4, <2>6, <2>7, WithinTracks DEF e
<1>3. CASE NotProvided(t)
  <2>1. /\ c.pc = "adapter" /\ ~Crashes(c) /\ EmptySlot(c.api, Target(c))
        /\ call' = [call EXCEPT ![t] = [call[t] EXCEPT !.pc = "leave", !.res = "UNINITIALIZED"]]
        /\ UNCHANGED <<object, held, counts, adapterCount, report, log>>
    BY Zenon, <1>3 DEF NotProvided
  <2> DEFINE x == [call[t] EXCEPT !.pc = "leave", !.res = "UNINITIALIZED"]
  <2>2. c \in CallType /\ "UNINITIALIZED" \in AllResults
    BY Zenon DEF IInv, Types, AllResults
  <2>3. /\ x \in CallType /\ SameCall(c, x) /\ x.new = c.new
        /\ x.pc = "leave" /\ x.res = "UNINITIALIZED"
    BY <2>2 DEF CallType, SameCall, PCs
  <2>4. call' = [call EXCEPT ![t] = x]
    BY Zenon, <2>1
  <2> HIDE DEF x
  <2>5. e = x /\ Others(t)
    BY Zenon, <2>3, <2>4, ResultMoves DEF GoesOn, Others, IInv
  <2>6. c.pc # "idle" /\ e.pc # "adapter" /\ e.res # "SUCCESS"
    BY <2>1, <2>3, <2>5
  <2>7. CallOK(c) /\ c.api \in Apis /\ c.new = {} /\ e.new = {}
    BY Zenon, <2>1, <2>3, <2>5, <2>6 DEF IInv, Shapes, CallOK
  <2>8. CountOp(e.api, e.arg) # "increase"
    <3>1. CountOp(e.api, e.arg) = CountOp(c.api, c.arg)
      BY Zenon, <2>3, <2>5, SameCounts
    <3>2. Target(c) \in Adapters
      BY Zenon, <2>1, TargetIsAdapter
    <3>3. c.api.count.op # "none" => ~EmptySlot(c.api, Target(c))
      BY Zenon, <2>7, <3>2 DEF LeakTracked, Tracked, EmptySlot
    <3>4. "increase" # "none"
      OBVIOUS
    <3> QED
      BY Zenon, <2>1, <3>1, <3>3, <3>4 DEF CountOp
  <2>9. \A o : ~Owes(e, o)
    BY Zenon, <2>6, <2>7, <2>8 DEF Owes, Got
  <2>10. SameCall(c, e)
    BY Zenon, <2>3, <2>5
  <2> HIDE DEF e
  <2> QED
    BY Zenon, <2>1, <2>5, <2>6, <2>7, <2>8, <2>9, <2>10, WithinTracks DEF e
<1> QED
  BY Zenon, <1>1, <1>2, <1>3

\* What the adapter returns at an address is new.
LEMMA ReturnedFresh ==
  ASSUME LeakTracked, IInv, NEW c, CallOK(c), NEW d \in Adapters, NEW o \in Addresses,
         Returns(c, d, o)
  PROVE  object[o].refs = 0
<1>1. c.out \in c.api.outs /\ Tracked(c.api) /\ c.api \in Apis
  BY Zenon DEF Returns, CallOK, LeakTracked
<1>2. o \notin Static
  BY Zenon, CallsAssumption DEF CallsAssumption
<1>3. CASE c.out.op = "adopt" /\ object[o].kind = c.out.kind
  <2>1. "adopt" \notin {"make", "make_if_set"} /\ "adopt" # "constant_if_set"
    OBVIOUS
  <2>2. c.out.kind = "platform"
    BY Zenon, <1>1, <1>3, <2>1 DEF Tracked
  <2>3. "platform" \in StaticKinds
    BY DEF StaticKinds
  <2>4. o \in Objects
    BY Zenon DEF Objects
  <2>5. o \in Static
    BY Zenon, <1>3, <2>2, <2>3, <2>4, AdapterKind DEF IInv
  <2> QED
    BY Zenon, <1>2, <2>5
<1> QED
  BY Zenon, <1>2, <1>3 DEF Returns

\* A retain does not fail.
LEMMA RetainSucceeds ==
  ASSUME LeakTracked, NEW c, CallOK(c), CountOp(c.api, c.arg) = "increase",
         NEW d, NEW r \in Outcomes(c, d)
  PROVE  r.res = "SUCCESS"
<1>1. CountOp(c.api, c.arg) # "none"
  OBVIOUS
<1>2. c.out = Nothing /\ c.api.count.op # "none" /\ c.api \in Apis
  <2>1. c.out = Nothing /\ CountOp(c.api, c.arg) = c.api.count.op
    BY Zenon, <1>1, RowFacts
  <2>2. c.api \in Apis
    BY Zenon DEF CallOK
  <2> QED
    BY Zenon, <1>1, <2>1, <2>2
<1>3. c.api.name \notin Failing
  BY Zenon, <1>2 DEF LeakTracked, Tracked
<1>4. Candidates(c, d) = {{}}
  <2>1. Nothing.op = "none"
    BY DEF Nothing
  <2> QED
    BY <1>2, <2>1 DEF Candidates
<1>5. Candidates(c, d) # {}
  BY <1>4
<1> DEFINE new == Candidates(c, d)
<1>6. r \in {[res |-> "SUCCESS", new |-> n] : n \in new}
  <2> HIDE DEF new
  <2>1. r \in {[res |-> "SUCCESS", new |-> n] : n \in new}
          \cup (IF c.api.name \notin Failing /\ new # {} THEN {}
                ELSE {[res |-> "ERROR", new |-> {}]}
                     \cup {[res |-> x, new |-> n] : x \in c.api.keep \ {"SUCCESS"}, n \in new})
    BY DEF Outcomes, new
  <2>2. new # {}
    BY Zenon, <1>5 DEF new
  <2> QED
    BY <1>3, <2>1, <2>2
<1> HIDE DEF new
<1> QED
  BY <1>6

\* The adapter keeps the leak checker exact: the objects the application owns stay what
\* they are, and what it returns is no one's.
LEMMA ExecuteTracks ==
  ASSUME LeakTracked, IInv, LInv, NEW t \in Threads, Execute(t)
  PROVE  LInv'
<1> DEFINE c == call[t]
           e == call'[t]
<1>1. c.pc = "adapter" /\ UNCHANGED <<held, counts, adapterCount, report, log>>
  BY Zenon DEF Execute
<1>2. PICK d, r : Executed(t, d, r)
  BY Zenon, ExecuteFacts
<1>3. CallOK(c) /\ UseOK(c) /\ c.pc # "idle"
  <2>1. c.pc # "idle"
    BY <1>1
  <2> QED
    BY Zenon, <2>1 DEF IInv, Shapes, Uses
<1>4. /\ d \in Adapters /\ r \in Outcomes(c, d)
      /\ SameCall(c, e) /\ Others(t) /\ e.pc = (IF intercept_enabled THEN "loader" ELSE "leave")
      /\ e.res = r.res /\ e.new = r.new /\ e.arg = c.arg /\ e.api = c.api
  BY Zenon, <1>2 DEF Executed, GoesOn, Others, SameCall
<1>5. e.pc # "idle" /\ e.pc # "adapter"
  BY <1>4
<1>6. CountOp(e.api, e.arg) = CountOp(c.api, c.arg)
  BY Zenon, <1>4, SameCounts
<1>7. \A o \in r.new \cap Addresses : object[o].refs = 0
  <2>1. \A o \in r.new : Returns(c, d, o)
    BY Zenon, <1>3, <1>4, OutcomeFacts
  <2> QED
    BY Zenon, <1>3, <1>4, <2>1, ReturnedFresh
<1>8. ASSUME NEW o \in Addresses, object[o].refs = 0
      PROVE  held[o] = 0 /\ \A u \in Threads : u # t => ~Owes(call[u], o)
  <2>1. ~(object[o].refs >= 1)
    BY <1>8
  <2>2. ~(held[o] > 0 \/ \E u \in Threads : u # t /\ Owes(call[u], o))
    BY Zenon, <2>1, CountedOn
  <2>3. held[o] \in Nat
    BY Zenon DEF IInv, Types, Objects
  <2>4. ~(held[o] > 0) => held[o] = 0
    BY ONLY <2>3
  <2> QED
    BY Zenon, <2>2, <2>4
<1>9. CountsAre'
  <2>1. ASSUME NEW o \in Objects
        PROVE  (IF object'[o].kind = "platform" \/ held[o] = 0 THEN Absent
                ELSE [n |-> held[o], kind |-> object'[o].kind])
               = (IF object[o].kind = "platform" \/ held[o] = 0 THEN Absent
                  ELSE [n |-> held[o], kind |-> object[o].kind])
    <3>1. held[o] \in Nat
      BY Zenon DEF IInv, Types
    <3>2. held[o] # 0 => held[o] > 0
      BY ONLY <3>1
    <3>3. held[o] > 0 => object'[o].kind = object[o].kind
      BY Zenon, <1>1, <1>2, ExecutedObjects
    <3> QED
      BY Zenon, <3>2, <3>3
  <2>2. CountsFor(held)' = CountsFor(held)
    <3>1. CountsFor(held)' = [o \in Objects |->
                                IF object'[o].kind = "platform" \/ held[o] = 0 THEN Absent
                                ELSE [n |-> held[o], kind |-> object'[o].kind]]
      BY Zenon, <1>1 DEF CountsFor
    <3> QED
      BY Zenon, <2>1, <3>1 DEF CountsFor
  <2>3. HeldOf(held)' = HeldOf(held)
    BY Zenon, <1>1 DEF HeldOf
  <2> QED
    BY Zenon, <1>1, <2>2, <2>3 DEF LInv, CountsAre
<1>10. FreshOK'
  <2> SUFFICES ASSUME NEW u \in Threads, call'[u].pc \in {"loader", "leave"},
                      NEW o \in call'[u].new \cap Addresses
               PROVE  held[o] = 0 /\ \A v \in Threads : v # u => ~Owes(call'[v], o)
    BY Zenon, <1>1 DEF FreshOK, Owes
  <2>1. CASE u = t
    <3>1. o \in r.new \cap Addresses
      BY Zenon, <1>4, <2>1
    <3>2. held[o] = 0 /\ \A v \in Threads : v # t => ~Owes(call[v], o)
      BY Zenon, <1>7, <1>8, <3>1
    <3> QED
      BY Zenon, <1>4, <2>1, <3>2 DEF Others
  <2>2. CASE u # t
    <3>1. call'[u] = call[u]
      BY Zenon, <1>4, <2>2 DEF Others
    <3>2. held[o] = 0 /\ \A v \in Threads : v # u => ~Owes(call[v], o)
      BY Zenon, <3>1 DEF LInv, FreshOK
    <3>3. Owes(call[u], o)
      <4>1. call[u].pc # "idle"
        BY <3>1
      <4>2. CallOK(call[u]) /\ call[u].new # {}
        BY Zenon, <3>1, <4>1 DEF IInv, Shapes
      <4>3. CountOp(call[u].api, call[u].arg) = "none"
        BY Zenon, <4>2, RowFacts
      <4>4. CountOp(call[u].api, call[u].arg) # "increase"
        BY <4>3
      <4> QED
        BY Zenon, <3>1, <4>4 DEF Owes, Got
    <3>4. o \notin r.new
      BY Zenon, <1>7, <1>8, <2>2, <3>3
    <3>5. ~Owes(e, o)
      <4>1. CASE CountOp(c.api, c.arg) = "increase"
        <5>1. c.arg # Unbound /\ ~Releasing(c)
          <6>1. CountOp(c.api, c.arg) # "none" /\ CountOp(c.api, c.arg) # "decrease"
            BY <4>1
          <6> QED
            BY Zenon, <6>1 DEF CountOp, Releasing
        <5>2. held[c.arg.object] > 0
          BY Zenon, <1>3, <5>1 DEF UseOK
        <5>3. c.arg.object # o
          <6>1. ~(held[o] > 0)
            BY <3>2
          <6> QED
            BY Zenon, <5>2, <6>1
        <5> QED
          BY Zenon, <1>4, <1>5, <3>4, <5>3 DEF Owes, Got
      <4>2. CASE CountOp(c.api, c.arg) # "increase"
        BY Zenon, <1>4, <1>5, <1>6, <3>4, <4>2 DEF Owes, Got
      <4> QED
        BY Zenon, <4>1, <4>2
    <3>6. ASSUME NEW v \in Threads, v # u PROVE ~Owes(call'[v], o)
      <4>1. CASE v = t
        BY Zenon, <3>5, <4>1
      <4>2. CASE v # t
        BY Zenon, <1>4, <3>2, <3>6, <4>2 DEF Others
      <4> QED
        BY Zenon, <4>1, <4>2
    <3> QED
      BY Zenon, <3>2, <3>6
  <2> QED
    BY Zenon, <2>1, <2>2
<1>11. Retained'
  <2> SUFFICES ASSUME NEW u \in Threads, call'[u].pc \in {"loader", "leave"}, ~call'[u].rejected,
                      CountOp(call'[u].api, call'[u].arg) = "increase"
               PROVE  call'[u].res = "SUCCESS"
    BY Zenon DEF Retained
  <2>1. CASE u = t
    BY ZenonT(60), <1>3, <1>4, <1>6, <2>1, RetainSucceeds
  <2>2. CASE u # t
    BY Zenon, <1>4, <2>2 DEF LInv, Retained, Others
  <2> QED
    BY Zenon, <2>1, <2>2
<1>12. AdapterAlive'
  <2> SUFFICES ASSUME NEW u \in Threads, call'[u].pc # "idle", call'[u].api.name \notin Ends
               PROVE  HeldOf(held) # {}
    BY Zenon, <1>1 DEF AdapterAlive, Busy, HeldOf
  <2>1. call[u].pc # "idle" /\ call[u].api = call'[u].api
    <3>1. CASE u = t
      BY Zenon, <1>3, <1>4, <3>1
    <3>2. CASE u # t
      BY Zenon, <1>4, <3>2 DEF Others
    <3> QED
      BY Zenon, <3>1, <3>2
  <2> QED
    BY Zenon, <2>1 DEF LInv, AdapterAlive, Busy
<1>13. LeakReportExact' /\ (~Misuse => NoFalseAlarm')
  BY Zenon, <1>1 DEF LInv, LeakReportExact, NoFalseAlarm
<1> QED
  BY Zenon, <1>9, <1>10, <1>11, <1>12, <1>13 DEF LInv

-------------------------------------------------------------------------------
(* The leak checker is exact.                                              *)

\* It is when nothing has been called.
LEMMA InitLInv == Init => LInv
<1> SUFFICES ASSUME Init PROVE LInv
  OBVIOUS
<1>1. /\ held = [o \in Objects |-> 0] /\ counts = [o \in Objects |-> Absent] /\ adapterCount = 0
      /\ report = [shown |-> {}, owned |-> {}] /\ log = {} /\ call = [t \in Threads |-> Idle]
  BY Zenon DEF Init
<1>2. \A t \in Threads : call[t].pc = "idle"
  <2>1. Idle.pc = "idle"
    BY DEF Idle
  <2> QED
    BY ZenonT(60), <1>1, <2>1
<1>3. \A t \in Threads : call[t].pc \notin {"loader", "leave"}
  BY <1>2
<1>4. CountsFor(held) = [o \in Objects |-> Absent]
  BY Zenon, <1>1 DEF CountsFor
<1>5. HeldOf(held) = {}
  <2>1. \A o \in AdapterObjects : held[o] = 0
    BY Zenon, <1>1, AdapterFacts
  <2>2. ~(0 > 0)
    OBVIOUS
  <2> QED
    BY Zenon, <2>1, <2>2 DEF HeldOf
<1>6. Cardinality({}) = 0
  BY Zenon, FS_EmptySet
<1>7. report.shown = report.owned
  BY <1>1
<1>8. CountsAre
  BY Zenon, <1>1, <1>4, <1>5, <1>6 DEF CountsAre
<1>9. FreshOK /\ Retained /\ AdapterAlive
  BY Zenon, <1>2, <1>3 DEF FreshOK, Retained, AdapterAlive, Busy
<1> QED
  BY Zenon, <1>1, <1>7, <1>8, <1>9 DEF LInv, LeakReportExact, NoFalseAlarm

\* Every step keeps it so.
LEMMA NextTracks == LeakTracked /\ IInv /\ LInv /\ [Next]_vars => LInv'
<1> SUFFICES ASSUME LeakTracked, IInv, LInv, [Next]_vars PROVE LInv'
  OBVIOUS
<1>1. CASE ToggleSubscriber \/ UNCHANGED vars
  <2>1. UNCHANGED <<object, held, counts, adapterCount, report, log, call>>
    BY Zenon, <1>1 DEF ToggleSubscriber, vars
  <2>2. CountsAre'
    BY Zenon, <2>1 DEF LInv, CountsAre, CountsFor, HeldOf
  <2>3. FreshOK' /\ Retained' /\ AdapterAlive'
    BY ZenonT(60), <2>1 DEF LInv, FreshOK, Retained, AdapterAlive, Busy, HeldOf, Owes
  <2>4. LeakReportExact' /\ (~Misuse => NoFalseAlarm')
    BY Zenon, <2>1 DEF LInv, LeakReportExact, NoFalseAlarm
  <2> QED
    BY Zenon, <2>2, <2>3, <2>4 DEF LInv
<1>2. ASSUME NEW t \in Threads, Call(t) PROVE LInv'
  <2>1. call[t].pc = "idle"
    BY Zenon, <1>2, CallPasses
  <2>2. PICK api, d, arg, out, fault : /\ Passed(t, api, d, arg, out, fault)
                                       /\ Enter(t, api, d, arg, out, fault)
    BY ZenonT(60), <1>2, CallPasses
  <2> QED
    BY Zenon, <2>1, <2>2, EnterTracks
<1>3. ASSUME NEW t \in Threads,
             Crash(t) \/ NotProvided(t) \/ Execute(t) \/ Convert(t) \/ Leave(t)
      PROVE  LInv'
  BY Zenon, <1>3, StopTracks, ExecuteTracks, LeaveTracks
<1> QED
  BY Zenon, <1>1, <1>2, <1>3 DEF Next

\* What the leak checker counts follows what the application owns.
THEOREM LeakInvariant == LeakTracked => (Spec => []LInv)
<1> SUFFICES ASSUME LeakTracked PROVE Spec => []LInv
  OBVIOUS
<1>1. Init => LInv
  BY Zenon, InitLInv
<1>2. IInv /\ LInv /\ [Next]_vars => LInv'
  BY Zenon, NextTracks
<1> QED
  BY <1>1, <1>2, Invariant, PTL DEF Spec

\* The leak checker counts exactly the references the application owns, for functions
\* that it counts as the adapters do: though a release is counted before the adapter
\* runs and a creation after it, no interleaving of threads lets the two disagree.
THEOREM LeakCountsExact == LeakTracked => (Spec => []CountsExact)
<1> SUFFICES ASSUME LeakTracked PROVE Spec => []CountsExact
  OBVIOUS
<1>1. IInv /\ LInv => CountsExact
  <2> SUFFICES ASSUME IInv, LInv, enableLeakChecking, NEW o \in Objects,
                      object[o].kind # "platform"
               PROVE  counts[o].n = held[o]
    BY Zenon DEF CountsExact
  <2>1. counts = CountsFor(held)
    BY Zenon DEF LInv, CountsAre
  <2>2. counts[o] = IF held[o] = 0 THEN Absent ELSE [n |-> held[o], kind |-> object[o].kind]
    BY Zenon, <2>1 DEF CountsFor
  <2> QED
    BY <2>2 DEF Absent
<1> QED
  BY <1>1, Invariant, LeakInvariant, PTL

\* The report at the release of the last adapter names exactly what the application has
\* not released.
THEOREM LeaksReported == LeakTracked => (Spec => []LeakReportExact)
<1> SUFFICES ASSUME LeakTracked PROVE Spec => []LeakReportExact
  OBVIOUS
<1>1. LInv => LeakReportExact
  BY Zenon DEF LInv
<1> QED
  BY <1>1, LeakInvariant, PTL

\* A program that keeps to the contract sees no error of the leak checker and of the
\* lifetime checks.
THEOREM NoAlarms == LeakTracked /\ ~Misuse => (Spec => []NoFalseAlarm)
<1> SUFFICES ASSUME LeakTracked, ~Misuse PROVE Spec => []NoFalseAlarm
  OBVIOUS
<1>1. LInv => NoFalseAlarm
  BY Zenon DEF LInv
<1> QED
  BY <1>1, LeakInvariant, PTL

===============================================================================

----------------------------- MODULE UrCallsProofs -----------------------------
(***************************************************************************)
(* What the layers promise about calls and handles, for any functions      *)
(* whose rows agree (RowsAssumption), any finite sets of threads and       *)
(* adapters, and any heaps.                                                *)
(***************************************************************************)
EXTENDS UrCalls, FiniteSetTheorems, TLAPS

PCs == {"idle", "adapter", "loader", "leave", "crashed"}
AllParams == {Nothing} \cup UNION {api.args \cup api.outs : api \in Apis}
AllKinds == StaticKinds \cup {p.kind : p \in AllParams}
AllFaults == {Fine} \cup UNION {api.faults : api \in Apis}
AllResults ==
  {"", "SUCCESS", "ERROR", "UNINITIALIZED", "UNSUPPORTED_FEATURE"}
  \cup {f.err : f \in AllFaults} \cup UNION {api.keep : api \in Apis}
CallType ==
  [pc : PCs, api : Apis \cup {NULL}, d : Adapters \cup {NULL},
   arg : [of : AllParams, object : Objects \cup {NULL}], out : AllParams, fault : AllFaults,
   rejected : BOOLEAN, via : Adapters \cup {NULL}, res : AllResults, new : SUBSET Objects,
   instance : {""} \cup {api.id : api \in Apis}]
ObjectType == [kind : AllKinds, adapter : Adapters \cup {NULL}, refs : Int]

FactoryType(fac) ==
  /\ fac = [key \in DOMAIN fac |-> fac[key]]
  /\ \A key \in DOMAIN fac : fac[key] \in [dditable : Adapters, ref_count : Nat]

Types ==
  /\ call \in [Threads -> CallType]
  /\ object \in [Objects -> ObjectType]
  /\ held \in [Objects -> Nat]
  /\ FactoryType(factory)

\* A call carries what its function takes and makes; what it has made comes from
\* a function with outputs, which the loader wraps.  It crashes by a fault that no
\* layer has rejected.
CallOK(c) ==
  /\ c.api \in Apis /\ c.d \in Adapters
  /\ c.arg # Unbound =>
       /\ c.arg.of \in c.api.args /\ c.arg.object \in Objects
       /\ c.api.count.op # "none" => c.arg.of.name = c.api.count.of
  /\ c.out # Nothing => c.out \in c.api.outs
  /\ c.fault \in {Fine} \cup c.api.faults
  /\ c.rejected => c.pc = "leave" /\ c.res # "SUCCESS" /\ c.new = {}
  /\ c.pc = "adapter" => c.fault.err = ""
  /\ c.pc = "crashed" => c.fault.fatal /\ c.fault.err = ""
  /\ c.pc \in {"adapter", "crashed"} => c.new = {}
  /\ c.pc = "loader" => c.via \in Adapters /\ intercept_enabled
  /\ c.new # {} => /\ c.res \in c.api.keep /\ c.out \in c.api.outs
                   /\ c.via \in Adapters /\ c.pc \in {"loader", "leave"}
Shapes ==
  \A t \in Threads : /\ call[t].pc = "idle" => call[t] = Idle
                     /\ call[t].pc # "idle" => CallOK(call[t])

\* The static objects stay as they are; an address is free or holds an object of
\* another kind, of an adapter that may use the address.
Objs ==
  /\ \A o \in Static : object[o] = [kind |-> o[1], adapter |-> o[2], refs |-> 1]
  /\ \A o \in Addresses :
       \/ object[o] = Free
       \/ /\ object[o].kind \notin StaticKinds \cup {"none"} /\ object[o].refs > 0
          /\ object[o].adapter \in Adapters /\ o \in Heap[object[o].adapter]

\* The begin of a traced call without its end is the call's own.
Traces ==
  /\ stream \in [Threads -> {""} \cup {api.id : api \in Apis}]
  /\ \A t \in Threads : stream[t] = call[t].instance

-------------------------------------------------------------------------------
(* References on their way.                                                *)

Releasing(c) == CountOp(c.api, c.arg) = "decrease"
GotKind(c) == IF CountOp(c.api, c.arg) = "increase" THEN c.arg.of.kind ELSE c.out.kind

\* What a call still has to give the application, or to take from the adapter.
Owes(c, o) ==
  \/ c.pc \in {"loader", "leave"} /\ o \in Got(c)
  \/ c.pc = "adapter" /\ Releasing(c) /\ o = c.arg.object
\* The same, as the loader's entries see it.
OwesEntry(c, k, o) ==
  \/ c.pc = "leave" /\ o \in Got(c) /\ k = GotKind(c)
  \/ c.pc \in {"adapter", "loader"} /\ Releasing(c) /\ o = c.arg.object /\ k = c.arg.of.kind
Owing(o) == {t \in Threads : Owes(call[t], o)}
OwingEntry(k, o) == {t \in Threads : OwesEntry(call[t], k, o)}
HeldAs(k, o) == IF object[o].kind = k THEN held[o] ELSE 0

\* The objects a call is about to return are live, of its kind and its adapter.
News ==
  \A t \in Threads :
    call[t].pc \in {"loader", "leave"} =>
      \A o \in Got(call[t]) :
        /\ o \in Objects /\ object[o].kind = GotKind(call[t])
        /\ o \in call[t].new => object[o].adapter = call[t].via \/ call[t].out.kind = "adapter"

\* A call that does not release its handle uses one the application keeps; one that
\* releases it does not free it before the adapter runs.
UseOK(c) ==
  c.arg # Unbound =>
    /\ ~Releasing(c) => held[c.arg.object] > 0
    /\ ~Releasing(c) \/ c.pc = "adapter" => object[c.arg.object].kind = c.arg.of.kind
Uses == \A t \in Threads : call[t].pc # "idle" => UseOK(call[t])

\* The adapter counts the application's references, and those on their way.
RefsCover ==
  \A o \in Addresses : object[o].refs >= held[o] + Cardinality(Owing(o))

\* So does the loader's entry.
EntriesCover ==
  intercept_enabled =>
    \A k \in AllKinds, o \in Objects :
      Entries(<<k, o>>) >= HeldAs(k, o) + Cardinality(OwingEntry(k, o))

\* Every entry of the factories leads to an adapter that may use the address.
Owns(a, o) == IF o \in Static THEN o[2] = a ELSE o \in Heap[a]
TablesOwn ==
  \A k \in AllKinds, o \in Objects :
    <<k, o>> \in DOMAIN factory => Owns(factory[<<k, o>>].dditable, o)

IInv ==
  /\ Types /\ Shapes /\ Objs /\ Traces /\ News /\ Uses /\ RefsCover /\ EntriesCover
  /\ TablesOwn

-------------------------------------------------------------------------------
(* Sets and records.                                                       *)

\* A set that gains or loses at most t changes its size by that.
LEMMA OneThread ==
  ASSUME NEW S, NEW R, NEW t, IsFiniteSet(S), R \ {t} = S \ {t}
  PROVE  /\ IsFiniteSet(R)
         /\ Cardinality(S) \in Nat /\ Cardinality(R) \in Nat
         /\ Cardinality(R) = Cardinality(S) + (IF t \in R THEN 1 ELSE 0)
                                           - (IF t \in S THEN 1 ELSE 0)
<1> DEFINE B == S \ {t}
<1>1. IsFiniteSet(B) /\ Cardinality(B) \in Nat
  BY Zenon, FS_RemoveElement, FS_CardinalityType
<1>2. ASSUME NEW A, A \ {t} = B
      PROVE  IsFiniteSet(A) /\ Cardinality(A) = Cardinality(B) + (IF t \in A THEN 1 ELSE 0)
  <2>1. CASE t \in A
    <3>1. A = B \cup {t} /\ t \notin B
      BY Zenon, <1>2, <2>1
    <3> QED
      BY Zenon, <1>1, <2>1, <3>1, FS_AddElement
  <2>2. CASE t \notin A
    <3>1. A = B
      BY Zenon, <1>2, <2>2
    <3>2. IsFiniteSet(A) /\ Cardinality(A) = Cardinality(B)
      BY Zenon, <1>1, <3>1
    <3> QED
      BY <1>1, <2>2, <3>2
  <2> QED
    BY Zenon, <2>1, <2>2
<1>3. Cardinality(S) = Cardinality(B) + (IF t \in S THEN 1 ELSE 0)
  BY Zenon, <1>2
<1>4. IsFiniteSet(R) /\ Cardinality(R) = Cardinality(B) + (IF t \in R THEN 1 ELSE 0)
  BY Zenon, <1>2
<1> QED
  BY <1>1, <1>3, <1>4

\* The fields of a call that stay while it goes through the layers.
SameCall(c, e) ==
  /\ c.api = e.api /\ c.d = e.d /\ c.arg = e.arg /\ c.out = e.out /\ c.fault = e.fault
  /\ c.rejected = e.rejected /\ c.instance = e.instance

\* Only the call of t changes, and it goes on.
GoesOn(t) ==
  /\ call' \in [Threads -> CallType]
  /\ \A u \in Threads : u # t => call'[u] = call[u]
  /\ SameCall(call[t], call'[t])

\* A step that only moves the call of t to another layer.
LEMMA PcMoves ==
  ASSUME Types, NEW t \in Threads, NEW x \in PCs, call' = [call EXCEPT ![t].pc = x]
  PROVE  /\ GoesOn(t) /\ call'[t].pc = x
         /\ call'[t].res = call[t].res /\ call'[t].new = call[t].new
         /\ call'[t].via = call[t].via
<1>1. call[t] \in CallType
  BY Zenon DEF Types
<1> DEFINE e == [call[t] EXCEPT !.pc = x]
<1>2. /\ e \in CallType /\ e.pc = x /\ SameCall(call[t], e)
      /\ e.res = call[t].res /\ e.new = call[t].new /\ e.via = call[t].via
  BY <1>1 DEF CallType, SameCall
<1>3. call' = [call EXCEPT ![t] = e]
  BY Zenon
<1> HIDE DEF e
<1> QED
  BY Zenon, <1>2, <1>3 DEF Types, GoesOn

\* A step that moves the call of t on with a result.
LEMMA ResultMoves ==
  ASSUME Types, NEW t \in Threads, NEW e \in CallType, SameCall(call[t], e),
         call' = [call EXCEPT ![t] = e]
  PROVE  GoesOn(t) /\ call'[t] = e
  BY Zenon DEF Types, GoesOn

-------------------------------------------------------------------------------
(* The number of references on their way, when one call changes.           *)

\* The calls of the other threads stay.
Others(t) == \A u \in Threads : u # t => call'[u] = call[u]

\* How the number of calls that owe an object moves with the call of t.
LEMMA OwingMoves ==
  ASSUME NEW t \in Threads, Others(t), NEW o
  PROVE  /\ Cardinality(Owing(o)) \in Nat /\ Cardinality(Owing(o)') \in Nat
         /\ Cardinality(Owing(o)') = Cardinality(Owing(o))
                                     + (IF Owes(call'[t], o) THEN 1 ELSE 0)
                                     - (IF Owes(call[t], o) THEN 1 ELSE 0)
<1> DEFINE S == Owing(o)
           R == {u \in Threads : Owes(call'[u], o)}
<1>1. Owing(o)' = R
  BY Zenon DEF Owing, Owes, Got, Releasing
<1>2. IsFiniteSet(S)
  BY Zenon, CallsAssumption, FS_Subset DEF CallsAssumption, Owing
<1>3. R \ {t} = S \ {t}
  BY Zenon DEF Others, Owing
<1>4. (t \in R <=> Owes(call'[t], o)) /\ (t \in S <=> Owes(call[t], o))
  BY Zenon DEF Owing
<1> HIDE DEF S, R
<1>5. /\ Cardinality(S) \in Nat /\ Cardinality(R) \in Nat
      /\ Cardinality(R) = Cardinality(S) + (IF t \in R THEN 1 ELSE 0)
                                        - (IF t \in S THEN 1 ELSE 0)
  BY Zenon, <1>2, <1>3, OneThread
<1>6. Cardinality(R) = Cardinality(S) + (IF Owes(call'[t], o) THEN 1 ELSE 0)
                                     - (IF Owes(call[t], o) THEN 1 ELSE 0)
  BY Zenon, <1>4, <1>5
<1> QED
  BY Zenon, <1>1, <1>5, <1>6 DEF S

\* The same for the entries of the loader.
LEMMA OwingEntryMoves ==
  ASSUME NEW t \in Threads, Others(t), NEW k, NEW o
  PROVE  /\ Cardinality(OwingEntry(k, o)) \in Nat /\ Cardinality(OwingEntry(k, o)') \in Nat
         /\ Cardinality(OwingEntry(k, o)') = Cardinality(OwingEntry(k, o))
                                     + (IF OwesEntry(call'[t], k, o) THEN 1 ELSE 0)
                                     - (IF OwesEntry(call[t], k, o) THEN 1 ELSE 0)
<1> DEFINE S == OwingEntry(k, o)
           R == {u \in Threads : OwesEntry(call'[u], k, o)}
<1>1. OwingEntry(k, o)' = R
  BY Zenon DEF OwingEntry, OwesEntry, Got, GotKind, Releasing
<1>2. IsFiniteSet(S)
  BY Zenon, CallsAssumption, FS_Subset DEF CallsAssumption, OwingEntry
<1>3. R \ {t} = S \ {t}
  BY Zenon DEF Others, OwingEntry
<1>4. (t \in R <=> OwesEntry(call'[t], k, o)) /\ (t \in S <=> OwesEntry(call[t], k, o))
  BY Zenon DEF OwingEntry
<1> HIDE DEF S, R
<1>5. /\ Cardinality(S) \in Nat /\ Cardinality(R) \in Nat
      /\ Cardinality(R) = Cardinality(S) + (IF t \in R THEN 1 ELSE 0)
                                        - (IF t \in S THEN 1 ELSE 0)
  BY Zenon, <1>2, <1>3, OneThread
<1>6. Cardinality(R) = Cardinality(S) + (IF OwesEntry(call'[t], k, o) THEN 1 ELSE 0)
                                     - (IF OwesEntry(call[t], k, o) THEN 1 ELSE 0)
  BY Zenon, <1>4, <1>5
<1> QED
  BY Zenon, <1>1, <1>5, <1>6 DEF S

\* A call on its way is among those that owe.
LEMMA OwingAtLeast ==
  ASSUME NEW t \in Threads, NEW o
  PROVE  /\ Cardinality(Owing(o)) \in Nat
         /\ Owes(call[t], o) => Cardinality(Owing(o)) >= 1
         /\ \A u \in Threads : u # t /\ Owes(call[t], o) /\ Owes(call[u], o) =>
              Cardinality(Owing(o)) >= 2
<1>1. IsFiniteSet(Owing(o)) /\ IsFiniteSet({}) /\ Cardinality({}) = 0
  BY Zenon, CallsAssumption, FS_Subset, FS_EmptySet DEF CallsAssumption, Owing
<1>2. Cardinality(Owing(o)) \in Nat
  BY Zenon, <1>1, FS_CardinalityType
<1>3. ASSUME NEW S \in SUBSET Owing(o)
      PROVE  /\ IsFiniteSet(S) /\ Cardinality(S) \in Nat
             /\ Cardinality(S) <= Cardinality(Owing(o))
  BY Zenon, <1>1, FS_Subset, FS_CardinalityType
<1>4. ASSUME Owes(call[t], o) PROVE Cardinality(Owing(o)) >= 1
  <2>1. {t} \in SUBSET Owing(o)
    BY Zenon, <1>4 DEF Owing
  <2>2. Cardinality({t}) = 1
    BY Zenon, FS_Singleton
  <2> QED
    BY <1>2, <1>3, <2>1, <2>2
<1>5. ASSUME NEW u \in Threads, u # t, Owes(call[t], o), Owes(call[u], o)
      PROVE  Cardinality(Owing(o)) >= 2
  <2>1. {t} \cup {u} \in SUBSET Owing(o) /\ u \notin {t}
    BY Zenon, <1>5 DEF Owing
  <2>2. Cardinality({t}) = 1 /\ IsFiniteSet({t})
    BY Zenon, FS_Singleton
  <2>3. Cardinality({t} \cup {u}) = Cardinality({t}) + 1
    BY Zenon, <2>1, <2>2, FS_AddElement
  <2> QED
    BY <1>2, <1>3, <2>1, <2>2, <2>3
<1> QED
  BY Zenon, <1>2, <1>4, <1>5

\* The same for the entries of the loader.
LEMMA OwingEntryAtLeast ==
  ASSUME NEW t \in Threads, NEW k, NEW o
  PROVE  /\ Cardinality(OwingEntry(k, o)) \in Nat
         /\ OwesEntry(call[t], k, o) => Cardinality(OwingEntry(k, o)) >= 1
<1>1. IsFiniteSet(OwingEntry(k, o))
  BY Zenon, CallsAssumption, FS_Subset DEF CallsAssumption, OwingEntry
<1>2. Cardinality(OwingEntry(k, o)) \in Nat
  BY Zenon, <1>1, FS_CardinalityType
<1>3. ASSUME OwesEntry(call[t], k, o) PROVE Cardinality(OwingEntry(k, o)) >= 1
  <2>1. {t} \subseteq OwingEntry(k, o)
    BY Zenon, <1>3 DEF OwingEntry
  <2>2. Cardinality({t}) = 1 /\ Cardinality({t}) <= Cardinality(OwingEntry(k, o))
    BY Zenon, <1>1, <2>1, FS_Singleton, FS_Subset
  <2> QED
    BY <1>2, <2>2
<1> QED
  BY Zenon, <1>2, <1>3

\* A step keeps RefsCover if no object loses more references than the application
\* and the call of t give up together.
LEMMA RefsCoverStep ==
  ASSUME RefsCover, NEW t \in Threads, Others(t),
         object \in [Objects -> ObjectType], held \in [Objects -> Nat],
         object' \in [Objects -> ObjectType], held' \in [Objects -> Nat],
         \A o \in Addresses :
           object'[o].refs + held[o] + (IF Owes(call[t], o) THEN 1 ELSE 0)
             >= object[o].refs + held'[o] + (IF Owes(call'[t], o) THEN 1 ELSE 0)
  PROVE  RefsCover'
<1> SUFFICES ASSUME NEW o \in Addresses
             PROVE  object'[o].refs >= held'[o] + Cardinality(Owing(o)')
  BY Zenon DEF RefsCover
<1> DEFINE x == IF Owes(call[t], o) THEN 1 ELSE 0
           y == IF Owes(call'[t], o) THEN 1 ELSE 0
<1>1. x \in Int /\ y \in Int
  OBVIOUS
<1>2. o \in Objects
  BY Zenon DEF Objects
<1>3. /\ object[o].refs \in Int /\ object'[o].refs \in Int
      /\ held[o] \in Int /\ held'[o] \in Int
  BY <1>2 DEF ObjectType
<1>4. object'[o].refs + held[o] + x >= object[o].refs + held'[o] + y
  BY Zenon
<1>5. object[o].refs >= held[o] + Cardinality(Owing(o))
  BY Zenon DEF RefsCover
<1>6. /\ Cardinality(Owing(o)) \in Nat /\ Cardinality(Owing(o)') \in Nat
      /\ Cardinality(Owing(o)') = Cardinality(Owing(o)) + y - x
  BY Zenon, OwingMoves
<1> HIDE DEF x, y
<1> QED
  BY ONLY <1>1, <1>3, <1>4, <1>5, <1>6

\* The counts of an entry and of a handle as a kind are numbers.
LEMMA EntriesNat ==
  ASSUME Types, NEW k, NEW o \in Objects
  PROVE  Entries(<<k, o>>) \in Nat /\ HeldAs(k, o) \in Nat
<1>1. held[o] \in Nat
  BY Zenon DEF Types
<1>2. <<k, o>> \in DOMAIN factory => factory[<<k, o>>].ref_count \in Nat
  BY DEF Types, FactoryType
<1> QED
  BY <1>1, <1>2 DEF Entries, HeldAs

\* The same after a step.
LEMMA EntriesNatPrime ==
  ASSUME Types', NEW k, NEW o \in Objects
  PROVE  Entries(<<k, o>>)' \in Nat /\ HeldAs(k, o)' \in Nat
<1>1. held'[o] \in Nat
  BY Zenon DEF Types
<1>2. <<k, o>> \in DOMAIN factory' => factory'[<<k, o>>].ref_count \in Nat
  BY DEF Types, FactoryType
<1> QED
  BY <1>1, <1>2 DEF Entries, HeldAs

\* The same for the entries of the loader.
LEMMA EntriesCoverStep ==
  ASSUME EntriesCover, Types, Types', NEW t \in Threads, Others(t),
         intercept_enabled =>
         \A k \in AllKinds, o \in Objects :
           Entries(<<k, o>>)' + HeldAs(k, o) + (IF OwesEntry(call[t], k, o) THEN 1 ELSE 0)
             >= Entries(<<k, o>>) + HeldAs(k, o)' + (IF OwesEntry(call'[t], k, o) THEN 1 ELSE 0)
  PROVE  EntriesCover'
<1> SUFFICES ASSUME intercept_enabled, NEW k \in AllKinds, NEW o \in Objects
             PROVE  Entries(<<k, o>>)' >= HeldAs(k, o)' + Cardinality(OwingEntry(k, o)')
  BY Zenon DEF EntriesCover, intercept_enabled
<1> DEFINE x == IF OwesEntry(call[t], k, o) THEN 1 ELSE 0
           y == IF OwesEntry(call'[t], k, o) THEN 1 ELSE 0
           e == Entries(<<k, o>>)
           f == Entries(<<k, o>>)'
           h == HeldAs(k, o)
           i == HeldAs(k, o)'
<1>1. x \in Int /\ y \in Int
  OBVIOUS
<1>2. e \in Nat /\ f \in Nat /\ h \in Nat /\ i \in Nat
  BY Zenon, EntriesNat, EntriesNatPrime
<1>3. f + h + x >= e + i + y
  BY Zenon
<1>4. e >= h + Cardinality(OwingEntry(k, o))
  BY Zenon DEF EntriesCover
<1>5. /\ Cardinality(OwingEntry(k, o)) \in Nat /\ Cardinality(OwingEntry(k, o)') \in Nat
      /\ Cardinality(OwingEntry(k, o)') = Cardinality(OwingEntry(k, o)) + y - x
  BY Zenon, OwingEntryMoves
<1> HIDE DEF x, y, e, f, h, i
<1>6. f >= i + Cardinality(OwingEntry(k, o)')
  BY ONLY <1>1, <1>2, <1>3, <1>4, <1>5
<1> QED
  BY Zenon, <1>6 DEF f, i

\* An idle call owes nothing.
LEMMA IdleOwes ==
  /\ Got(Idle) = {} /\ ~Releasing(Idle)
  /\ \A k, o : ~Owes(Idle, o) /\ ~OwesEntry(Idle, k, o)
<1>1. Idle.arg = Unbound /\ Idle.new = {} /\ Idle.pc = "idle"
  BY Zenon DEF Idle
<1>2. CountOp(Idle.api, Idle.arg) = "none"
  BY Zenon, <1>1 DEF CountOp
<1>3. Got(Idle) = {} /\ ~Releasing(Idle)
  BY <1>1, <1>2 DEF Got, Releasing
<1> QED
  BY <1>1, <1>3 DEF Owes, OwesEntry

-------------------------------------------------------------------------------
(* The initial state.                                                      *)

\* An idle call is a call.
LEMMA IdleType == Idle \in CallType
<1>1. /\ Nothing \in AllParams /\ Fine \in AllFaults /\ "" \in AllResults /\ "idle" \in PCs
      /\ {} \in SUBSET Objects
  BY Zenon DEF AllParams, AllFaults, AllResults, PCs
<1> QED
  BY <1>1 DEF Idle, CallType, Unbound

\* A free address is an object of no kind.
LEMMA FreeType == Free \in ObjectType
<1>1. "none" \in AllKinds
  <2>1. Nothing.kind = "none"
    BY DEF Nothing
  <2> QED
    BY Zenon, <2>1 DEF AllKinds, AllParams
<1> QED
  BY <1>1 DEF Free, ObjectType

\* The static objects.
LEMMA StaticFacts ==
  ASSUME NEW o \in Static
  PROVE  /\ o \in Objects /\ o \notin Addresses
         /\ o[1] \in StaticKinds /\ o[2] \in Adapters /\ o = <<o[1], o[2]>>
         /\ [kind |-> o[1], adapter |-> o[2], refs |-> 1] \in ObjectType
<1>1. o[1] \in StaticKinds /\ o[2] \in Adapters /\ o = <<o[1], o[2]>>
  BY DEF Static
<1>2. o \in Objects /\ o \notin Addresses
  BY Zenon, CallsAssumption DEF CallsAssumption, Objects
<1>3. o[1] \in AllKinds
  BY Zenon, <1>1 DEF AllKinds
<1>4. [kind |-> o[1], adapter |-> o[2], refs |-> 1] \in ObjectType
  BY <1>1, <1>3 DEF ObjectType
<1> QED
  BY Zenon, <1>1, <1>2, <1>4

\* The invariant holds at the start.
LEMMA InitIInv == Init => IInv
<1> SUFFICES ASSUME Init PROVE IInv
  OBVIOUS
<1>1. Types
  <2>1. call \in [Threads -> CallType]
    BY Zenon, IdleType DEF Init
  <2>2. object \in [Objects -> ObjectType]
    BY Zenon, FreeType, StaticFacts DEF Init
  <2>3. held \in [Objects -> Nat]
    BY DEF Init
  <2>4. factory = [x \in {} |-> 0]
    BY Zenon DEF Init
  <2>5. DOMAIN factory = {} /\ factory = [key \in DOMAIN factory |-> factory[key]]
    BY <2>4
  <2> QED
    BY Zenon, <2>1, <2>2, <2>3, <2>5 DEF Types, FactoryType
<1>2. \A t \in Threads : call[t] = Idle /\ call[t].pc = "idle" /\ call[t].instance = ""
  BY DEF Init, Idle
<1>3. Shapes /\ News /\ Uses
  BY Zenon, <1>2 DEF Shapes, News, Uses
<1>4. Objs
  BY Zenon, StaticFacts DEF Init, Objs, Objects, Static
<1>5. Traces
  BY Zenon, <1>2 DEF Init, Traces
<1>6. ASSUME NEW k, NEW o PROVE Owing(o) = {} /\ OwingEntry(k, o) = {}
  BY Zenon, <1>2, IdleOwes DEF Owing, OwingEntry
<1>7. Cardinality({}) = 0
  BY Zenon, FS_EmptySet
<1>8. ASSUME NEW o \in Objects PROVE held[o] = 0
  BY Zenon, <1>8 DEF Init
<1>9. RefsCover
  <2> SUFFICES ASSUME NEW o \in Addresses
               PROVE  object[o].refs >= held[o] + Cardinality(Owing(o))
    BY Zenon DEF RefsCover
  <2>1. held[o] = 0 /\ Cardinality(Owing(o)) = 0
    BY Zenon, <1>6, <1>7, <1>8 DEF Objects
  <2>2. object[o] = Free \/ object[o].refs > 0
    BY Zenon, <1>4 DEF Objs
  <2>3. object[o].refs \in Int
    BY <1>1 DEF Types, ObjectType, Objects
  <2> QED
    BY <2>1, <2>2, <2>3 DEF Free
<1>10. EntriesCover
  <2> SUFFICES ASSUME NEW k \in AllKinds, NEW o \in Objects
               PROVE  Entries(<<k, o>>) >= HeldAs(k, o) + Cardinality(OwingEntry(k, o))
    BY Zenon DEF EntriesCover
  <2>1. HeldAs(k, o) = 0 /\ Cardinality(OwingEntry(k, o)) = 0
    BY Zenon, <1>6, <1>7, <1>8 DEF HeldAs
  <2>2. Entries(<<k, o>>) \in Nat
    BY Zenon, <1>1, EntriesNat
  <2> QED
    BY <2>1, <2>2
<1>11. TablesOwn
  <2>1. DOMAIN factory = {}
    BY DEF Init
  <2> QED
    BY Zenon, <2>1 DEF TablesOwn
<1> QED
  BY Zenon, <1>1, <1>3, <1>4, <1>5, <1>9, <1>10, <1>11 DEF IInv

-------------------------------------------------------------------------------
(* Steps.                                                                  *)

\* A call keeps its function, so it counts as it did.
LEMMA SameCounts ==
  ASSUME NEW c, NEW e, SameCall(c, e)
  PROVE  /\ CountOp(e.api, e.arg) = CountOp(c.api, c.arg)
         /\ Releasing(e) <=> Releasing(c)
         /\ GotKind(e) = GotKind(c)
  BY Zenon DEF SameCall, Releasing, GotKind

\* A step keeps Shapes if the call of t has its shape after it.
LEMMA ShapesStep ==
  ASSUME Shapes, NEW t \in Threads, Others(t),
         call'[t].pc = "idle" => call'[t] = Idle,
         call'[t].pc # "idle" => CallOK(call'[t])
  PROVE  Shapes'
<1>1. ASSUME NEW u \in Threads
      PROVE  /\ call'[u].pc = "idle" => call'[u] = Idle
             /\ call'[u].pc # "idle" => CallOK(call'[u])
  <2>1. CASE u = t
    BY Zenon, <2>1
  <2>2. CASE u # t
    BY Zenon, <2>2 DEF Shapes, Others
  <2> QED
    BY Zenon, <2>1, <2>2
<1> QED
  BY Zenon, <1>1 DEF Shapes, CallOK

\* A call the adapter does not run to its end takes nothing with it: Crash and
\* NotProvided.
LEMMA StopKeeps ==
  ASSUME IInv, NEW t \in Threads, call[t].pc = "adapter",
         NEW e \in CallType, SameCall(call[t], e), e.new = call[t].new,
         e.pc = "crashed" \/ (e.pc = "leave" /\ e.res = "UNINITIALIZED"),
         e.pc = "crashed" => call[t].fault.fatal,
         call' = [call EXCEPT ![t] = e], UNCHANGED <<object, held, factory, stream>>
  PROVE  IInv'
<1> DEFINE c == call[t]
<1>1. Others(t) /\ call'[t] = e
  BY Zenon DEF IInv, Types, Others
<1>2. CallOK(c) /\ c.new = {} /\ ~c.rejected /\ c.fault.err = ""
  <2>1. c.pc # "idle" /\ c.pc # "leave"
    OBVIOUS
  <2>2. CallOK(c)
    BY Zenon, <2>1 DEF IInv, Shapes
  <2> QED
    BY Zenon, <2>1, <2>2 DEF CallOK
<1>3. e.pc = "crashed" \/ e.pc = "leave"
  OBVIOUS
<1>4. e.pc # "idle" /\ e.pc # "adapter" /\ e.pc # "loader"
  OBVIOUS
<1>5. e.pc = "leave" => Got(e) = {}
  <2>1. e.pc = "leave" => e.res # "SUCCESS"
    OBVIOUS
  <2> QED
    BY Zenon, <1>2, <2>1 DEF Got
<1>6. e.arg = c.arg /\ e.arg.object = c.arg.object /\ (Releasing(e) <=> Releasing(c))
  BY Zenon, SameCounts DEF SameCall
<1>7. ASSUME NEW k, NEW o PROVE ~Owes(e, o) /\ ~OwesEntry(e, k, o)
  BY Zenon, <1>3, <1>4, <1>5 DEF Owes, OwesEntry
<1>8. Types'
  BY Zenon DEF IInv, Types
<1>9. Shapes'
  <2>1. CallOK(e)
    BY Zenon, <1>2, <1>4 DEF CallOK, SameCall
  <2> QED
    BY Zenon, <1>1, <1>4, <2>1, ShapesStep DEF IInv
<1>10. Objs'
  BY ONLY Zenon, IInv, object' = object DEF IInv, Objs
<1>11. Traces'
  BY ONLY Zenon, IInv, stream' = stream, SameCall(call[t], e), <1>1
     DEF IInv, Traces, Others, SameCall
<1>12. News'
  BY ONLY Zenon, IInv, object' = object, <1>1, <1>4, <1>5 DEF IInv, News, Others
<1>13. Uses'
  <2>1. UseOK(c) => UseOK(e)
    BY Zenon, <1>4, <1>6 DEF UseOK, SameCall
  <2> QED
    BY ONLY Zenon, IInv, object' = object, held' = held, <1>1, <1>4, <2>1, call[t].pc # "idle"
       DEF IInv, Uses, Others, UseOK
<1>14. RefsCover'
  <2>1. ASSUME NEW o \in Addresses
        PROVE  object'[o].refs + held[o] + (IF Owes(call[t], o) THEN 1 ELSE 0)
                 >= object[o].refs + held'[o] + (IF Owes(call'[t], o) THEN 1 ELSE 0)
    <3>1. object[o].refs \in Int /\ held[o] \in Int
      BY <1>8 DEF IInv, Types, ObjectType, Objects
    <3>2. ~Owes(call'[t], o)
      BY Zenon, <1>1, <1>7
    <3> QED
      BY <3>1, <3>2
  <2>2. object \in [Objects -> ObjectType] /\ held \in [Objects -> Nat]
    BY Zenon DEF IInv, Types
  <2> QED
    BY Zenon, <1>1, <1>8, <2>1, <2>2, RefsCoverStep DEF IInv, Types
<1>15. EntriesCover'
  <2>1. ASSUME NEW k \in AllKinds, NEW o \in Objects
        PROVE  Entries(<<k, o>>)' + HeldAs(k, o) + (IF OwesEntry(call[t], k, o) THEN 1 ELSE 0)
          >= Entries(<<k, o>>) + HeldAs(k, o)' + (IF OwesEntry(call'[t], k, o) THEN 1 ELSE 0)
    <3>1. Entries(<<k, o>>)' = Entries(<<k, o>>) /\ HeldAs(k, o)' = HeldAs(k, o)
      BY Zenon DEF Entries, HeldAs
    <3>2. ~OwesEntry(call'[t], k, o)
      BY Zenon, <1>1, <1>7
    <3>3. Entries(<<k, o>>) \in Nat /\ HeldAs(k, o) \in Nat
      BY Zenon, EntriesNat DEF IInv
    <3> QED
      BY <3>1, <3>2, <3>3
  <2> QED
    BY Zenon, <1>1, <1>8, <2>1, EntriesCoverStep DEF IInv
<1>16. TablesOwn'
  BY Zenon DEF IInv, TablesOwn, Owns
<1> QED
  BY Zenon, <1>8, <1>9, <1>10, <1>11, <1>12, <1>13, <1>14, <1>15, <1>16 DEF IInv

\* The slot of the adapter is empty.
LEMMA NotProvidedKeeps ==
  ASSUME IInv, NEW t \in Threads, NotProvided(t)
  PROVE  IInv'
<1> DEFINE e == [call[t] EXCEPT !.pc = "leave", !.res = "UNINITIALIZED"]
<1>1. call[t] \in CallType /\ "UNINITIALIZED" \in AllResults
  BY Zenon DEF IInv, Types, AllResults
<1>2. /\ e \in CallType /\ SameCall(call[t], e) /\ e.new = call[t].new
      /\ e.pc = "leave" /\ e.res = "UNINITIALIZED" /\ e.pc # "crashed"
  BY <1>1 DEF CallType, SameCall, PCs
<1>3. /\ call[t].pc = "adapter" /\ call' = [call EXCEPT ![t] = e]
      /\ UNCHANGED <<object, held, factory, stream>>
  BY Zenon DEF NotProvided
<1> HIDE DEF e
<1> QED
  BY Zenon, <1>2, <1>3, StopKeeps

\* The application gets what the call brings, and the call owes it no longer.
LEMMA LeaveKeeps ==
  ASSUME IInv, NEW t \in Threads, Leave(t)
  PROVE  IInv'
<1> DEFINE c == call[t]
<1>1. /\ c.pc = "leave" /\ call' = [call EXCEPT ![t] = Idle] /\ UNCHANGED <<object, factory>>
      /\ held' = [o \in Objects |-> IF o \notin Got(c) THEN held[o]
                                   ELSE IF object[o].kind = "platform" THEN 1
                                   ELSE held[o] + 1]
      /\ notify_end(t, c.instance)
  BY Zenon DEF Leave
<1>2. Others(t) /\ call'[t] = Idle /\ Idle.pc = "idle" /\ Idle.instance = ""
  BY Zenon, <1>1 DEF IInv, Types, Others, Idle
<1>3. \A o \in Objects : held[o] \in Nat
  BY Zenon DEF IInv, Types
<1>4. ASSUME NEW o \in Objects
      PROVE  /\ held'[o] \in Nat
             /\ held[o] > 0 => held'[o] > 0
             /\ held'[o] <= held[o] + (IF o \in Got(c) THEN 1 ELSE 0)
  <2>1. held'[o] = IF o \notin Got(c) THEN held[o]
                   ELSE IF object[o].kind = "platform" THEN 1 ELSE held[o] + 1
    BY Zenon, <1>1
  <2>2. held[o] \in Nat
    BY Zenon, <1>3
  <2> HIDE DEF c
  <2> QED
    BY ONLY <2>1, <2>2
<1>5. Types'
  <2>1. held' \in [Objects -> Nat]
    <3>1. held' = [o \in Objects |-> held'[o]]
      BY Zenon, <1>1
    <3> QED
      BY Zenon, <1>4, <3>1
  <2>2. call' \in [Threads -> CallType]
    BY Zenon, <1>1, IdleType DEF IInv, Types
  <2> QED
    BY Zenon, <1>1, <2>1, <2>2 DEF IInv, Types
<1>6. Shapes'
  BY Zenon, <1>2, ShapesStep DEF IInv
<1>7. Objs'
  BY Zenon, <1>1 DEF IInv, Objs
<1>8. Traces'
  <2>1. stream[t] = c.instance /\ stream \in [Threads -> {""} \cup {api.id : api \in Apis}]
    BY Zenon DEF IInv, Traces
  <2>2. stream' = IF c.instance = "" THEN stream ELSE [stream EXCEPT ![t] = ""]
    BY Zenon, <1>1, <2>1 DEF notify_end
  <2>3. /\ stream' \in [Threads -> {""} \cup {api.id : api \in Apis}]
        /\ stream'[t] = "" /\ \A u \in Threads : u # t => stream'[u] = stream[u]
    BY Zenon, <2>1, <2>2
  <2> QED
    BY Zenon, <1>2, <2>3 DEF IInv, Traces, Others
<1>9. News'
  BY Zenon, <1>1, <1>2 DEF IInv, News, Others
<1>10. Uses'
  <2> SUFFICES ASSUME NEW u \in Threads, call'[u].pc # "idle", u # t
               PROVE  UseOK(call[u])'
    BY Zenon, <1>2 DEF Uses, UseOK
  <2>1. call'[u] = call[u] /\ UseOK(call[u]) /\ CallOK(call[u])
    BY Zenon, <1>2 DEF IInv, Uses, Others, Shapes
  <2>2. call[u].arg # Unbound => call[u].arg.object \in Objects
    BY Zenon, <2>1 DEF CallOK
  <2> QED
    BY Zenon, <1>1, <1>4, <2>1, <2>2 DEF UseOK
<1>11. ASSUME NEW o
       PROVE  /\ o \in Got(c) => Owes(c, o) /\ OwesEntry(c, GotKind(c), o)
              /\ ~Owes(call'[t], o)
              /\ \A k : ~OwesEntry(call'[t], k, o)
  BY Zenon, <1>1, <1>2, IdleOwes DEF Owes, OwesEntry
<1>12. RefsCover'
  <2>1. ASSUME NEW o \in Addresses
        PROVE  object'[o].refs + held[o] + (IF Owes(call[t], o) THEN 1 ELSE 0)
                 >= object[o].refs + held'[o] + (IF Owes(call'[t], o) THEN 1 ELSE 0)
    <3>1. object[o].refs \in Int /\ object'[o] = object[o] /\ held[o] \in Nat /\ o \in Objects
      BY <1>1 DEF IInv, Types, ObjectType, Objects
    <3>2. held'[o] \in Nat /\ held'[o] <= held[o] + (IF o \in Got(c) THEN 1 ELSE 0)
      BY Zenon, <1>4, <1>5, <3>1 DEF Types
    <3>3. ~Owes(call'[t], o) /\ (o \in Got(c) => Owes(call[t], o))
      BY Zenon, <1>11
    <3> HIDE DEF c
    <3> QED
      BY ONLY <3>1, <3>2, <3>3
  <2>2. object \in [Objects -> ObjectType] /\ held \in [Objects -> Nat]
    BY Zenon DEF IInv, Types
  <2> QED
    BY Zenon, <1>2, <1>5, <2>1, <2>2, RefsCoverStep DEF IInv, Types
<1>13. EntriesCover'
  <2>1. ASSUME NEW k \in AllKinds, NEW o \in Objects
        PROVE  Entries(<<k, o>>)' + HeldAs(k, o) + (IF OwesEntry(call[t], k, o) THEN 1 ELSE 0)
          >= Entries(<<k, o>>) + HeldAs(k, o)' + (IF OwesEntry(call'[t], k, o) THEN 1 ELSE 0)
    <3> DEFINE h == HeldAs(k, o)
               i == HeldAs(k, o)'
    <3>1. Entries(<<k, o>>)' = Entries(<<k, o>>)
      BY Zenon, <1>1 DEF Entries
    <3>2. ~OwesEntry(call'[t], k, o)
      BY Zenon, <1>11
    <3>3. Entries(<<k, o>>) \in Nat /\ h \in Nat
      BY Zenon, EntriesNat DEF IInv
    <3>4. i \in Nat
      BY Zenon, <1>5, EntriesNatPrime
    <3>5. o \in Got(c) => object[o].kind = GotKind(c)
      BY Zenon, <1>1 DEF IInv, News
    <3>6. (h = 0 /\ i = 0) \/ (object[o].kind = k /\ h = held[o] /\ i = held'[o])
      BY Zenon, <1>1 DEF HeldAs
    <3>7. held[o] \in Nat /\ held'[o] <= held[o] + (IF o \in Got(c) THEN 1 ELSE 0)
      BY Zenon, <1>3, <1>4
    <3>8. o \in Got(c) /\ object[o].kind = k => OwesEntry(call[t], k, o)
      BY Zenon, <1>11, <3>5
    <3> HIDE DEF c, h, i
    <3>9. i <= h + (IF OwesEntry(call[t], k, o) THEN 1 ELSE 0)
      BY ONLY <3>3, <3>4, <3>6, <3>7, <3>8
    <3>10. Entries(<<k, o>>)' + h + (IF OwesEntry(call[t], k, o) THEN 1 ELSE 0)
           >= Entries(<<k, o>>) + i + (IF OwesEntry(call'[t], k, o) THEN 1 ELSE 0)
      BY ONLY <3>1, <3>2, <3>3, <3>4, <3>9
    <3> QED
      BY Zenon, <3>10 DEF h, i
  <2> QED
    BY Zenon, <1>2, <1>5, <2>1, EntriesCoverStep DEF IInv
<1>14. TablesOwn'
  BY Zenon, <1>1 DEF IInv, TablesOwn, Owns
<1> QED
  BY Zenon, <1>5, <1>6, <1>7, <1>8, <1>9, <1>10, <1>12, <1>13, <1>14 DEF IInv

-------------------------------------------------------------------------------
(* The handle factories.                                                   *)

\* The references of an entry.
InFactory(fac, key) == IF key \in DOMAIN fac THEN fac[key].ref_count + 1 ELSE 0
One(b) == IF b THEN 1 ELSE 0

\* g has an entry, or a reference, more than fac for every key, and the same tables.
Grows(fac, g, keys, d) ==
  /\ FactoryType(g)
  /\ DOMAIN g = DOMAIN fac \cup keys
  /\ \A key : InFactory(g, key) = InFactory(fac, key) + One(key \in keys)
  /\ \A key \in DOMAIN fac : g[key].dditable = fac[key].dditable
  /\ \A key \in keys : key \notin DOMAIN fac => g[key].dditable = TableOf(key, d)

\* getInstance adds an entry, or a reference to one, for every key; it changes no
\* table.
LEMMA GetInstanceAdds ==
  ASSUME NEW fac, FactoryType(fac), NEW keys, NEW d \in Adapters,
         \A key \in keys : TableOf(key, d) \in Adapters,
         NEW g, g = getInstance(fac, keys, d)
  PROVE  Grows(fac, g, keys, d)
<1> DEFINE R == [dditable : Adapters, ref_count : Nat]
<1>1. DOMAIN g = DOMAIN fac \cup keys /\ g = [key \in DOMAIN g |-> g[key]]
  BY Zenon DEF getInstance
<1>2. ASSUME NEW key \in keys, key \notin DOMAIN fac
      PROVE  g[key] = [dditable |-> TableOf(key, d), ref_count |-> 0]
  BY Zenon, <1>2 DEF getInstance
<1>3. ASSUME NEW key \in DOMAIN fac, key \in keys
      PROVE  g[key] = [fac[key] EXCEPT !.ref_count = fac[key].ref_count + 1]
  BY <1>3 DEF getInstance
<1>4. ASSUME NEW key \in DOMAIN fac, key \notin keys
      PROVE  g[key] = [fac[key] EXCEPT !.ref_count = fac[key].ref_count]
  BY <1>4 DEF getInstance
<1>5. ASSUME NEW key \in DOMAIN fac PROVE fac[key] \in R
  BY Zenon DEF FactoryType
<1>6. ASSUME NEW key \in DOMAIN fac
      PROVE  /\ g[key] \in R /\ g[key].dditable = fac[key].dditable
             /\ g[key].ref_count = fac[key].ref_count + One(key \in keys)
  <2> DEFINE f == fac[key]
  <2>1. f \in R
    BY Zenon, <1>5
  <2>2. CASE key \in keys
    <3>1. g[key] = [f EXCEPT !.ref_count = f.ref_count + 1]
      BY Zenon, <1>3, <2>2
    <3> HIDE DEF f
    <3>2. /\ g[key] \in R /\ g[key].dditable = f.dditable
          /\ g[key].ref_count = f.ref_count + 1
      BY ONLY <2>1, <3>1
    <3> QED
      BY Zenon, <2>2, <3>2 DEF One, f
  <2>3. CASE key \notin keys
    <3>1. g[key] = [f EXCEPT !.ref_count = f.ref_count]
      BY Zenon, <1>4, <2>3
    <3> HIDE DEF f
    <3>2. /\ g[key] \in R /\ g[key].dditable = f.dditable
          /\ g[key].ref_count = f.ref_count + 0
      BY ONLY <2>1, <3>1
    <3> QED
      BY Zenon, <2>3, <3>2 DEF One, f
  <2> QED
    BY Zenon, <2>2, <2>3
<1>7. ASSUME NEW key \in keys, key \notin DOMAIN fac
      PROVE  g[key] \in R /\ g[key].dditable = TableOf(key, d) /\ g[key].ref_count = 0
  <2>1. TableOf(key, d) \in Adapters
    BY Zenon
  <2>2. g[key] = [dditable |-> TableOf(key, d), ref_count |-> 0]
    BY Zenon, <1>2, <1>7
  <2> QED
    BY ONLY <2>1, <2>2
<1>8. FactoryType(g)
  BY Zenon, <1>1, <1>6, <1>7 DEF FactoryType
<1>9. ASSUME NEW key PROVE InFactory(g, key) = InFactory(fac, key) + One(key \in keys)
  <2>1. CASE key \in DOMAIN fac
    <3>1. key \in DOMAIN g /\ fac[key].ref_count \in Nat
      BY <1>1, <1>5, <2>1
    <3>2. g[key].ref_count = fac[key].ref_count + One(key \in keys)
      BY Zenon, <1>6, <2>1
    <3> QED
      BY <2>1, <3>1, <3>2 DEF InFactory, One
  <2>2. CASE key \notin DOMAIN fac /\ key \in keys
    <3>1. key \in DOMAIN g /\ g[key].ref_count = 0
      BY Zenon, <1>1, <1>7, <2>2
    <3> QED
      BY <2>2, <3>1 DEF InFactory, One
  <2>3. CASE key \notin DOMAIN fac /\ key \notin keys
    <3>1. key \notin DOMAIN g
      BY Zenon, <1>1, <2>3
    <3> QED
      BY <2>3, <3>1 DEF InFactory, One
  <2> QED
    BY Zenon, <2>1, <2>2, <2>3
<1> QED
  BY Zenon, <1>1, <1>6, <1>7, <1>8, <1>9 DEF Grows

\* g has a reference more than fac at one entry.
Gains(fac, g, at) ==
  /\ FactoryType(g) /\ DOMAIN g = DOMAIN fac
  /\ \A key : InFactory(g, key) = InFactory(fac, key) + One(key = at)
  /\ \A key \in DOMAIN g : g[key].dditable = fac[key].dditable

\* retain adds a reference to an entry.
LEMMA RetainAdds ==
  ASSUME NEW fac, FactoryType(fac), NEW at \in DOMAIN fac,
         NEW g, g = retain(fac, at)
  PROVE  Gains(fac, g, at)
<1> DEFINE R == [dditable : Adapters, ref_count : Nat]
           e == [fac[at] EXCEPT !.ref_count = fac[at].ref_count + 1]
<1>1. fac = [key \in DOMAIN fac |-> fac[key]] /\ \A key \in DOMAIN fac : fac[key] \in R
  BY Zenon DEF FactoryType
<1>2. e \in R /\ e.dditable = fac[at].dditable /\ e.ref_count = fac[at].ref_count + 1
  BY <1>1
<1>3. g = [fac EXCEPT ![at] = e]
  BY DEF retain
<1> HIDE DEF e, R
<1>4. /\ DOMAIN g = DOMAIN fac /\ g = [key \in DOMAIN g |-> g[key]] /\ g[at] = e
      /\ \A key \in DOMAIN fac : key # at => g[key] = fac[key]
  BY Zenon, <1>1, <1>3
<1>5. FactoryType(g)
  BY Zenon, <1>1, <1>2, <1>4 DEF FactoryType, R
<1>6. ASSUME NEW key PROVE InFactory(g, key) = InFactory(fac, key) + One(key = at)
  <2>1. fac[at].ref_count \in Nat /\ (key \in DOMAIN fac => fac[key].ref_count \in Nat)
    BY <1>1 DEF R
  <2>2. CASE key = at
    <3>1. InFactory(g, key) = (fac[at].ref_count + 1) + 1 /\ InFactory(fac, key) = fac[at].ref_count + 1
      BY Zenon, <1>2, <1>4, <2>2 DEF InFactory
    <3> QED
      BY <2>1, <2>2, <3>1 DEF One
  <2>3. CASE key # at
    <3>1. InFactory(g, key) = InFactory(fac, key)
      BY Zenon, <1>4, <2>3 DEF InFactory
    <3> QED
      BY <2>1, <2>3, <3>1 DEF One, InFactory
  <2> QED
    BY Zenon, <2>2, <2>3
<1> QED
  BY Zenon, <1>2, <1>4, <1>5, <1>6 DEF Gains

\* g has a reference less than fac at one entry.
Loses(fac, g, at) ==
  /\ FactoryType(g) /\ DOMAIN g \subseteq DOMAIN fac
  /\ \A key : InFactory(g, key) = InFactory(fac, key) - One(key = at)
  /\ \A key \in DOMAIN g : g[key].dditable = fac[key].dditable

\* release takes a reference from an entry, or the last one with the entry.
LEMMA ReleaseTakes ==
  ASSUME NEW fac, FactoryType(fac), NEW at \in DOMAIN fac,
         NEW g, g = release(fac, at)
  PROVE  Loses(fac, g, at)
<1> DEFINE R == [dditable : Adapters, ref_count : Nat]
           e == [fac[at] EXCEPT !.ref_count = fac[at].ref_count - 1]
<1>1. fac = [key \in DOMAIN fac |-> fac[key]] /\ \A key \in DOMAIN fac : fac[key] \in R
  BY Zenon DEF FactoryType
<1>2. fac[at].ref_count \in Nat
  BY <1>1
<1>3. CASE fac[at].ref_count = 0
  <2>1. g = [x \in DOMAIN fac \ {at} |-> fac[x]]
    BY Zenon, <1>3 DEF release
  <2> HIDE DEF R, e
  <2>2. /\ DOMAIN g = DOMAIN fac \ {at} /\ g = [key \in DOMAIN g |-> g[key]]
        /\ \A key \in DOMAIN g : g[key] = fac[key]
    BY Zenon, <2>1
  <2>3. FactoryType(g)
    BY Zenon, <1>1, <2>2 DEF FactoryType, R
  <2>4. ASSUME NEW key PROVE InFactory(g, key) = InFactory(fac, key) - One(key = at)
    <3>1. key \in DOMAIN fac => fac[key].ref_count \in Nat
      BY <1>1 DEF R
    <3>2. CASE key = at
      BY <1>3, <2>2, <3>2 DEF InFactory, One
    <3>3. CASE key # at
      <4>1. InFactory(g, key) = InFactory(fac, key)
        BY Zenon, <2>2, <3>3 DEF InFactory
      <4> QED
        BY <3>1, <3>3, <4>1 DEF One, InFactory
    <3> QED
      BY Zenon, <3>2, <3>3
  <2> QED
    BY Zenon, <2>2, <2>3, <2>4 DEF Loses
<1>4. CASE fac[at].ref_count # 0
  <2>1. e \in R /\ e.dditable = fac[at].dditable /\ e.ref_count = fac[at].ref_count - 1
    BY <1>1, <1>2, <1>4
  <2>2. g = [fac EXCEPT ![at] = e]
    BY <1>4 DEF release
  <2> HIDE DEF e, R
  <2>3. /\ DOMAIN g = DOMAIN fac /\ g = [key \in DOMAIN g |-> g[key]] /\ g[at] = e
        /\ \A key \in DOMAIN fac : key # at => g[key] = fac[key]
    BY Zenon, <1>1, <2>2
  <2>4. FactoryType(g)
    BY Zenon, <1>1, <2>1, <2>3 DEF FactoryType, R
  <2>5. ASSUME NEW key PROVE InFactory(g, key) = InFactory(fac, key) - One(key = at)
    <3>1. key \in DOMAIN fac => fac[key].ref_count \in Nat
      BY <1>1 DEF R
    <3>2. CASE key = at
      <4>1. /\ InFactory(g, key) = (fac[at].ref_count - 1) + 1
            /\ InFactory(fac, key) = fac[at].ref_count + 1
        BY Zenon, <2>1, <2>3, <3>2 DEF InFactory
      <4> QED
        BY <1>2, <3>2, <4>1 DEF One
    <3>3. CASE key # at
      <4>1. InFactory(g, key) = InFactory(fac, key)
        BY Zenon, <2>3, <3>3 DEF InFactory
      <4> QED
        BY <3>1, <3>3, <4>1 DEF One, InFactory
    <3> QED
      BY Zenon, <3>2, <3>3
  <2> QED
    BY Zenon, <2>1, <2>3, <2>4, <2>5 DEF Loses
<1> QED
  BY Zenon, <1>3, <1>4

-------------------------------------------------------------------------------
(* The loader.                                                             *)

\* The parameters of a function and their kinds.
LEMMA ParamKinds ==
  ASSUME NEW api \in Apis, NEW p \in api.args \cup api.outs
  PROVE  p \in AllParams /\ p.kind \in AllKinds
<1>1. p \in AllParams
  BY Zenon DEF AllParams
<1> QED
  BY Zenon, <1>1 DEF AllKinds

\* What a call carries has a kind; a call that counts makes nothing.
LEMMA RowFacts ==
  ASSUME NEW c, CallOK(c)
  PROVE  /\ c.arg # Unbound => c.arg.of.kind \in AllKinds
         /\ c.out # Nothing => c.out.kind \in AllKinds
         /\ CountOp(c.api, c.arg) # "none" =>
              c.arg # Unbound /\ c.new = {} /\ c.out = Nothing /\ CountOp(c.api, c.arg) = c.api.count.op
         /\ c.new # {} => c.out # Nothing /\ CountOp(c.api, c.arg) = "none"
<1>1. c.api \in Apis
  BY Zenon DEF CallOK
<1>2. c.api.count.op # "none" => c.api.outs = {}
  BY Zenon, <1>1, RowsAssumption DEF RowsAssumption
<1>3. c.arg # Unbound => c.arg.of.kind \in AllKinds
  BY Zenon, <1>1, ParamKinds DEF CallOK
<1>4. c.out # Nothing => c.out.kind \in AllKinds
  BY Zenon, <1>1, ParamKinds DEF CallOK
<1>5. CountOp(c.api, c.arg) # "none" => c.arg # Unbound /\ CountOp(c.api, c.arg) = c.api.count.op
  BY Zenon DEF CountOp
<1>6. c.new # {} => c.out \in c.api.outs
  BY Zenon DEF CallOK
<1>7. \A p \in c.api.outs : p # Nothing
  <2>1. \A p \in c.api.outs : p.op # "none"
    <3>1. ASSUME NEW p \in c.api.outs
          PROVE  p.op \in {"make", "make_if_set", "constant_if_set", "adopt"}
      BY Zenon, <1>1, RowsAssumption DEF RowsAssumption
    <3> QED
      BY <3>1
  <2>2. Nothing.op = "none"
    BY DEF Nothing
  <2> QED
    BY Zenon, <2>1, <2>2
<1>8. CountOp(c.api, c.arg) # "none" => c.out = Nothing /\ c.new = {}
  BY Zenon, <1>2, <1>5, <1>6 DEF CallOK
<1> QED
  BY Zenon, <1>3, <1>4, <1>5, <1>6, <1>7, <1>8

\* A live object belongs to an adapter, that may use its address.
LEMMA ObjectOwner ==
  ASSUME Objs, NEW o \in Objects, object[o].kind # "none"
  PROVE  /\ object[o].adapter \in Adapters /\ Owns(object[o].adapter, o)
         /\ object[o].kind \in StaticKinds => o \in Static /\ o[1] = object[o].kind
         /\ o \in Addresses => object[o].refs > 0 /\ object[o].kind \notin StaticKinds
<1>1. CASE o \in Static
  <2>1. object[o] = [kind |-> o[1], adapter |-> o[2], refs |-> 1]
    BY Zenon, <1>1 DEF Objs
  <2>2. object[o].kind = o[1] /\ object[o].adapter = o[2] /\ o[2] \in Adapters
    BY <1>1, <2>1, StaticFacts
  <2> QED
    BY Zenon, <1>1, <2>2, StaticFacts DEF Owns
<1>2. CASE o \notin Static
  <2>1. o \in Addresses
    BY Zenon, <1>2 DEF Objects
  <2>2. object[o] # Free
    BY DEF Free
  <2> QED
    BY Zenon, <1>2, <2>1, <2>2 DEF Objs, Owns
<1> QED
  BY Zenon, <1>1, <1>2

\* The loader has an entry for the handle of a call that it converts or counts.
LEMMA ArgEntry ==
  ASSUME IInv, NEW t \in Threads, call[t].pc \in {"adapter", "loader"},
         call[t].arg # Unbound, intercept_enabled
  PROVE  ArgKey(call[t]) \in DOMAIN factory
<1> DEFINE k == call[t].arg.of.kind
           o == call[t].arg.object
<1>1. CallOK(call[t]) /\ UseOK(call[t])
  <2>1. call[t].pc # "idle"
    OBVIOUS
  <2> QED
    BY Zenon, <2>1 DEF IInv, Shapes, Uses
<1>2. k \in AllKinds /\ o \in Objects
  BY Zenon, <1>1, RowFacts DEF CallOK
<1>3. Entries(<<k, o>>) >= HeldAs(k, o) + Cardinality(OwingEntry(k, o))
  BY Zenon, <1>2 DEF IInv, EntriesCover
<1>4. Entries(<<k, o>>) \in Nat /\ HeldAs(k, o) \in Nat
  BY Zenon, <1>2, EntriesNat DEF IInv
<1>5. Cardinality(OwingEntry(k, o)) \in Nat
  BY Zenon, OwingEntryAtLeast
<1>6. HeldAs(k, o) > 0 \/ Cardinality(OwingEntry(k, o)) >= 1
  <2>1. CASE Releasing(call[t])
    <3>1. OwesEntry(call[t], k, o)
      BY Zenon, <2>1 DEF OwesEntry
    <3> QED
      BY Zenon, <3>1, OwingEntryAtLeast
  <2>2. CASE ~Releasing(call[t])
    <3>1. HeldAs(k, o) = held[o] /\ held[o] > 0
      BY Zenon, <1>1, <2>2 DEF UseOK, HeldAs
    <3> QED
      BY Zenon, <3>1
  <2> QED
    BY Zenon, <2>1, <2>2
<1>7. Entries(<<k, o>>) # 0
  <2> HIDE DEF k, o
  <2> QED
    BY ONLY <1>3, <1>4, <1>5, <1>6
<1> QED
  BY Zenon, <1>7 DEF Entries, ArgKey

\* What the loader does to its factories in a call.
LEMMA ConvertFactory ==
  ASSUME IInv, NEW t \in Threads, Convert(t)
  PROVE  \E keys :
           /\ FactoryType(factory')
           /\ \A key : InFactory(factory', key)
                         = ((InFactory(factory, key) + One(key \in keys))
                            + One(CountOp(call[t].api, call[t].arg) = "increase" /\ key = ArgKey(call[t])))
                            - One(Releasing(call[t]) /\ key = ArgKey(call[t]))
           /\ \A k \in AllKinds, o \in Objects :
                <<k, o>> \in DOMAIN factory' => Owns(factory'[<<k, o>>].dditable, o)
           /\ \A o \in call[t].new : <<call[t].out.kind, o>> \in keys
<1> DEFINE c == call[t]
           op == CountOp(c.api, c.arg)
           made == IF c.res \in c.api.keep THEN {<<c.out.kind, o>> : o \in c.new} ELSE {}
           Found == {o \in Objects : /\ object[o].refs > 0 /\ object[o].kind \in c.api.found
                                     /\ object[o].adapter = c.via
                                     /\ Entries(Key(o)) < MaxEntries}
<1>1. c.pc = "loader" /\ CallOK(c) /\ c.via \in Adapters /\ intercept_enabled
  <2>1. c.pc = "loader" /\ c.pc # "idle"
    BY DEF Convert
  <2> QED
    BY Zenon, <2>1 DEF IInv, Shapes, CallOK
<1>2. PICK q \in {{}} \cup (IF c.res = "SUCCESS" THEN {{Key(o)} : o \in Found} ELSE {}) :
        LET fac == getInstance(factory, made \cup q, c.via)
        IN  factory' = CASE op = "increase" -> retain(fac, ArgKey(c))
                         [] op = "decrease" -> release(fac, ArgKey(c))
                         [] OTHER -> fac
  BY Zenon DEF Convert
<1> DEFINE keys == made \cup q
           fac == getInstance(factory, keys, c.via)
<1>3. /\ op = "increase" => factory' = retain(fac, ArgKey(c))
      /\ op = "decrease" => factory' = release(fac, ArgKey(c))
      /\ op # "increase" /\ op # "decrease" => factory' = fac
  <2> HIDE DEF op, fac
  <2>1. factory' = CASE op = "increase" -> retain(fac, ArgKey(c))
                     [] op = "decrease" -> release(fac, ArgKey(c))
                     [] OTHER -> fac
    BY Zenon, <1>2 DEF fac
  <2> QED
    BY <2>1
<1>4. \A o \in c.new : c.res \in c.api.keep /\ <<c.out.kind, o>> \in made
  BY Zenon, <1>1 DEF CallOK
<1>5. ASSUME NEW key \in keys
      PROVE  \E o \in Objects : /\ key = <<object[o].kind, o>> /\ object[o].kind # "none"
                                /\ object[o].adapter = c.via \/ object[o].kind = "adapter"
  <2>1. CASE key \in made
    <3>1. PICK o \in c.new : key = <<c.out.kind, o>>
      BY Zenon, <2>1
    <3>2. CountOp(c.api, c.arg) = "none" /\ c.out \in c.api.outs
      BY Zenon, <1>1, <3>1, RowFacts DEF CallOK
    <3>3. o \in Got(c) /\ GotKind(c) = c.out.kind
      BY Zenon, <3>2 DEF Got, GotKind
    <3>4. o \in Objects /\ object[o].kind = c.out.kind
          /\ (object[o].adapter = c.via \/ c.out.kind = "adapter")
      BY Zenon, <1>1, <3>1, <3>3 DEF IInv, News
    <3>5. c.out.kind # "none"
      BY ZenonT(60), <1>1, <3>2, RowsAssumption DEF RowsAssumption, CallOK, StaticKinds
    <3> QED
      BY Zenon, <3>1, <3>4, <3>5
  <2>2. CASE key \in q
    <3>1. PICK o \in Found : key = Key(o)
      BY Zenon, <2>2
    <3>2. object[o].kind # "none"
      <4>1. object[o].refs > 0 /\ o \in Objects
        BY Zenon, <3>1
      <4>2. object[o] # Free
        BY <4>1 DEF Free
      <4>3. o \in Static => object[o].kind \in StaticKinds
        <5>1. o \in Static => object[o] = [kind |-> o[1], adapter |-> o[2], refs |-> 1]
          BY Zenon DEF IInv, Objs
        <5>2. o \in Static => object[o].kind = o[1]
          BY <5>1
        <5> QED
          BY Zenon, <5>2, StaticFacts
      <4> QED
        BY Zenon, <4>1, <4>2, <4>3 DEF IInv, Objs, Objects, StaticKinds
    <3> QED
      BY Zenon, <3>1, <3>2 DEF Key
  <2> QED
    BY Zenon, <2>1, <2>2
<1>6. ASSUME NEW key \in keys
      PROVE  /\ TableOf(key, c.via) \in Adapters
             /\ \A k, o : key = <<k, o>> => Owns(TableOf(key, c.via), o)
  <2>1. PICK o \in Objects : /\ key = <<object[o].kind, o>> /\ object[o].kind # "none"
                             /\ object[o].adapter = c.via \/ object[o].kind = "adapter"
    BY Zenon, <1>5
  <2>2. /\ object[o].adapter \in Adapters /\ Owns(object[o].adapter, o)
        /\ object[o].kind = "adapter" => o \in Static
    BY Zenon, <2>1, ObjectOwner DEF IInv, StaticKinds
  <2>3. key[1] = object[o].kind /\ key[2] = o /\ \A k, x : key = <<k, x>> => x = o
    BY <2>1
  <2>4. object[o].kind = "adapter" => o[2] \in Adapters /\ Owns(o[2], o)
    BY Zenon, <2>2, StaticFacts DEF Owns
  <2> QED
    BY Zenon, <1>1, <2>1, <2>2, <2>3, <2>4 DEF TableOf
<1> HIDE DEF keys
<1>7. /\ FactoryType(fac)
      /\ DOMAIN fac = DOMAIN factory \cup keys
      /\ \A key : InFactory(fac, key) = InFactory(factory, key) + One(key \in keys)
      /\ \A key \in DOMAIN factory : fac[key].dditable = factory[key].dditable
      /\ \A key \in keys : key \notin DOMAIN factory => fac[key].dditable = TableOf(key, c.via)
  <2>1. FactoryType(factory)
    BY Zenon DEF IInv, Types
  <2>2. \A key \in keys : TableOf(key, c.via) \in Adapters
    BY Zenon, <1>6
  <2>3. Grows(factory, fac, keys, c.via)
    BY Zenon, <1>1, <2>1, <2>2, GetInstanceAdds
  <2> HIDE DEF fac
  <2> QED
    BY Zenon, <2>3 DEF Grows
<1>8. ASSUME NEW k \in AllKinds, NEW o \in Objects, <<k, o>> \in DOMAIN fac
      PROVE  Owns(fac[<<k, o>>].dditable, o)
  BY Zenon, <1>6, <1>7, <1>8 DEF IInv, TablesOwn
<1>9. op # "none" => ArgKey(c) \in DOMAIN fac
  <2>1. op # "none" => c.arg # Unbound
    BY Zenon, <1>1, RowFacts
  <2> QED
    BY Zenon, <1>1, <1>7, <2>1, ArgEntry
<1> HIDE DEF fac
<1>10. \A key : InFactory(fac, key) \in Int
  <2>1. \A key \in DOMAIN fac : fac[key].ref_count \in Nat
    BY <1>7 DEF FactoryType
  <2> QED
    BY <2>1 DEF InFactory
<1>11. /\ FactoryType(factory') /\ DOMAIN factory' \subseteq DOMAIN fac
       /\ \A key : InFactory(factory', key)
                     = (InFactory(fac, key) + One(op = "increase" /\ key = ArgKey(c)))
                       - One(Releasing(c) /\ key = ArgKey(c))
       /\ \A key \in DOMAIN factory' : factory'[key].dditable = fac[key].dditable
  <2>1. Releasing(c) <=> op = "decrease"
    BY Zenon DEF Releasing
  <2>2. CASE op = "increase"
    <3>1. /\ FactoryType(factory') /\ DOMAIN factory' \subseteq DOMAIN fac
          /\ \A key : InFactory(factory', key) = InFactory(fac, key) + One(key = ArgKey(c))
          /\ \A key \in DOMAIN factory' : factory'[key].dditable = fac[key].dditable
      <4>1. factory' = retain(fac, ArgKey(c)) /\ ArgKey(c) \in DOMAIN fac /\ FactoryType(fac)
        BY Zenon, <1>3, <1>7, <1>9, <2>2
      <4>2. Gains(fac, factory', ArgKey(c))
        BY Zenon, <4>1, RetainAdds
      <4> QED
        BY Zenon, <4>2 DEF Gains
    <3>2. ASSUME NEW key
          PROVE  InFactory(factory', key)
                   = (InFactory(fac, key) + One(op = "increase" /\ key = ArgKey(c)))
                     - One(Releasing(c) /\ key = ArgKey(c))
      <4>1. /\ InFactory(factory', key) = InFactory(fac, key) + One(key = ArgKey(c))
            /\ InFactory(fac, key) \in Int
        BY Zenon, <1>10, <3>1
      <4>2. /\ One(op = "increase" /\ key = ArgKey(c)) = One(key = ArgKey(c))
            /\ One(Releasing(c) /\ key = ArgKey(c)) = 0
            /\ One(key = ArgKey(c)) \in Int
        BY <2>1, <2>2 DEF One
      <4> QED
        BY ONLY <4>1, <4>2
    <3> QED
      BY Zenon, <3>1, <3>2
  <2>3. CASE op = "decrease"
    <3>1. /\ FactoryType(factory') /\ DOMAIN factory' \subseteq DOMAIN fac
          /\ \A key : InFactory(factory', key) = InFactory(fac, key) - One(key = ArgKey(c))
          /\ \A key \in DOMAIN factory' : factory'[key].dditable = fac[key].dditable
      <4>1. factory' = release(fac, ArgKey(c)) /\ ArgKey(c) \in DOMAIN fac /\ FactoryType(fac)
        BY Zenon, <1>3, <1>7, <1>9, <2>3
      <4>2. Loses(fac, factory', ArgKey(c))
        BY Zenon, <4>1, ReleaseTakes
      <4> QED
        BY Zenon, <4>2 DEF Loses
    <3>2. ASSUME NEW key
          PROVE  InFactory(factory', key)
                   = (InFactory(fac, key) + One(op = "increase" /\ key = ArgKey(c)))
                     - One(Releasing(c) /\ key = ArgKey(c))
      <4>1. /\ InFactory(factory', key) = InFactory(fac, key) - One(key = ArgKey(c))
            /\ InFactory(fac, key) \in Int
        BY Zenon, <1>10, <3>1
      <4>2. /\ One(op = "increase" /\ key = ArgKey(c)) = 0
            /\ One(Releasing(c) /\ key = ArgKey(c)) = One(key = ArgKey(c))
            /\ One(key = ArgKey(c)) \in Int
        BY <2>1, <2>3 DEF One
      <4> QED
        BY ONLY <4>1, <4>2
    <3> QED
      BY Zenon, <3>1, <3>2
  <2>4. CASE op # "increase" /\ op # "decrease"
    <3>1. factory' = fac
      BY Zenon, <1>3, <2>4
    <3>2. ASSUME NEW key
          PROVE  InFactory(factory', key)
                   = (InFactory(fac, key) + One(op = "increase" /\ key = ArgKey(c)))
                     - One(Releasing(c) /\ key = ArgKey(c))
      <4>1. InFactory(factory', key) = InFactory(fac, key) /\ InFactory(fac, key) \in Int
        BY Zenon, <1>10, <3>1
      <4>2. /\ One(op = "increase" /\ key = ArgKey(c)) = 0
            /\ One(Releasing(c) /\ key = ArgKey(c)) = 0
        BY Zenon, <2>1, <2>4 DEF One
      <4> QED
        BY ONLY <4>1, <4>2
    <3> QED
      BY Zenon, <1>7, <3>1, <3>2
  <2> QED
    BY Zenon, <2>2, <2>3, <2>4
<1>12. \A k \in AllKinds, o \in Objects :
         <<k, o>> \in DOMAIN factory' => Owns(factory'[<<k, o>>].dditable, o)
  BY Zenon, <1>8, <1>11
<1>13. \A key : InFactory(factory', key)
                  = ((InFactory(factory, key) + One(key \in keys))
                     + One(CountOp(call[t].api, call[t].arg) = "increase" /\ key = ArgKey(call[t])))
                     - One(Releasing(call[t]) /\ key = ArgKey(call[t]))
  BY Zenon, <1>7, <1>11
<1>14. \A o \in call[t].new : <<call[t].out.kind, o>> \in keys
  BY Zenon, <1>4 DEF keys
<1> QED
  BY Zenon, <1>11, <1>12, <1>13, <1>14
\* A call crashes by a fault: the loader has the entries it reads.
LEMMA CrashKeeps ==
  ASSUME IInv, NEW t \in Threads, Crash(t)
  PROVE  IInv'
<1> DEFINE e == [call[t] EXCEPT !.pc = "crashed"]
<1>1. call[t] \in CallType
  BY Zenon DEF IInv, Types
<1>2. e \in CallType /\ SameCall(call[t], e) /\ e.new = call[t].new /\ e.pc = "crashed"
  BY <1>1 DEF CallType, SameCall, PCs
<1>3. /\ call[t].pc = "adapter" /\ call' = [call EXCEPT ![t] = e]
      /\ UNCHANGED <<object, held, factory, stream>>
  BY Zenon DEF Crash
<1>4. call[t].fault.fatal
  BY Zenon, <1>3, ArgEntry DEF Crash, Crashes
<1> HIDE DEF e
<1> QED
  BY Zenon, <1>2, <1>3, <1>4, StopKeeps

\* The loader wraps what the call owes the application, and counts what it owes.
LEMMA ConvertKeeps ==
  ASSUME IInv, NEW t \in Threads, Convert(t)
  PROVE  IInv'
<1> DEFINE c == call[t]
           e == call'[t]
<1>1. c.pc = "loader" /\ UNCHANGED <<object, held, stream>> /\ call' = [call EXCEPT ![t].pc = "leave"]
  BY Zenon DEF Convert
<1>2. /\ GoesOn(t) /\ e.pc = "leave" /\ e.res = c.res /\ e.new = c.new /\ e.via = c.via
  BY Zenon, <1>1, PcMoves DEF IInv, PCs
<1>3. CallOK(c) /\ UseOK(c) /\ c.via \in Adapters /\ ~c.rejected
  <2>1. c.pc # "idle" /\ c.pc # "leave"
    BY <1>1
  <2> QED
    BY Zenon, <1>1, <2>1 DEF IInv, Shapes, Uses, CallOK
<1>4. /\ SameCall(c, e) /\ Others(t) /\ call' \in [Threads -> CallType]
      /\ CountOp(e.api, e.arg) = CountOp(c.api, c.arg) /\ (Releasing(e) <=> Releasing(c))
      /\ GotKind(e) = GotKind(c) /\ Got(e) = Got(c) /\ e.arg = c.arg /\ e.out = c.out
  <2>1. SameCall(c, e) /\ Others(t) /\ call' \in [Threads -> CallType]
    BY Zenon, <1>2 DEF GoesOn, Others
  <2>2. /\ CountOp(e.api, e.arg) = CountOp(c.api, c.arg) /\ (Releasing(e) <=> Releasing(c))
        /\ GotKind(e) = GotKind(c)
    BY Zenon, <2>1, SameCounts
  <2>3. e.arg = c.arg /\ e.out = c.out
    BY Zenon, <2>1 DEF SameCall
  <2> QED
    BY Zenon, <1>2, <2>1, <2>2, <2>3 DEF Got
<1>5. PICK keys :
           /\ FactoryType(factory')
           /\ \A key : InFactory(factory', key)
                         = ((InFactory(factory, key) + One(key \in keys))
                            + One(CountOp(c.api, c.arg) = "increase" /\ key = ArgKey(c)))
                            - One(Releasing(c) /\ key = ArgKey(c))
           /\ \A k \in AllKinds, o \in Objects :
                <<k, o>> \in DOMAIN factory' => Owns(factory'[<<k, o>>].dditable, o)
           /\ \A o \in c.new : <<c.out.kind, o>> \in keys
  BY Zenon, ConvertFactory
<1>6. Types'
  BY Zenon, <1>1, <1>4, <1>5 DEF IInv, Types
<1>7. Shapes'
  <2>1. CallOK(e)
    <3>1. e.pc # "adapter" /\ e.pc # "crashed" /\ e.pc # "loader"
      BY <1>2
    <3> QED
      BY Zenon, <1>1, <1>2, <1>3, <1>4, <3>1 DEF CallOK, SameCall
  <2>2. e.pc # "idle"
    BY <1>2
  <2> QED
    BY Zenon, <1>4, <2>1, <2>2, ShapesStep DEF IInv
<1>8. Objs'
  BY Zenon, <1>1 DEF IInv, Objs
<1>9. Traces'
  BY Zenon, <1>1, <1>4 DEF IInv, Traces, Others, SameCall
<1>10. News'
  <2> SUFFICES ASSUME NEW u \in Threads, call'[u].pc \in {"loader", "leave"},
                      NEW o \in Got(call'[u])
               PROVE  /\ o \in Objects /\ object[o].kind = GotKind(call'[u])
                      /\ o \in call'[u].new => object[o].adapter = call'[u].via
                                               \/ call'[u].out.kind = "adapter"
    BY Zenon, <1>1 DEF News, Got, GotKind
  <2>1. CASE u = t
    <3>1. o \in Got(c) /\ c.pc \in {"loader", "leave"}
      BY Zenon, <1>1, <1>4, <2>1
    <3> QED
      BY Zenon, <1>2, <1>4, <2>1, <3>1 DEF IInv, News
  <2>2. CASE u # t
    BY Zenon, <1>4, <2>2 DEF IInv, News, Others
  <2> QED
    BY Zenon, <2>1, <2>2
<1>11. Uses'
  <2>1. UseOK(e)
    <3>1. e.pc # "adapter"
      BY <1>2
    <3> QED
      BY Zenon, <1>3, <1>4, <3>1 DEF UseOK
  <2>2. ASSUME NEW u \in Threads, u # t, call'[u].pc # "idle" PROVE UseOK(call'[u])
    BY Zenon, <1>4, <2>2 DEF IInv, Uses, Others
  <2> QED
    BY Zenon, <1>1, <2>1, <2>2 DEF Uses, UseOK
<1>12. RefsCover'
  <2>1. ASSUME NEW o \in Addresses
        PROVE  object'[o].refs + held[o] + (IF Owes(call[t], o) THEN 1 ELSE 0)
                 >= object[o].refs + held'[o] + (IF Owes(call'[t], o) THEN 1 ELSE 0)
    <3>1. object[o].refs \in Int /\ held[o] \in Int /\ object' = object /\ held' = held
      BY <1>1 DEF IInv, Types, ObjectType, Objects
    <3>2. Owes(call'[t], o) => Owes(call[t], o)
      <4>1. e.pc # "adapter"
        BY <1>2
      <4> QED
        BY Zenon, <1>1, <1>4, <4>1 DEF Owes
    <3> QED
      BY ONLY <3>1, <3>2
  <2>2. object \in [Objects -> ObjectType] /\ held \in [Objects -> Nat]
    BY Zenon DEF IInv, Types
  <2> QED
    BY Zenon, <1>4, <1>6, <2>1, <2>2, RefsCoverStep DEF IInv, Types
<1>13. EntriesCover'
  <2>1. ASSUME NEW k \in AllKinds, NEW o \in Objects
        PROVE  Entries(<<k, o>>)' + HeldAs(k, o) + (IF OwesEntry(call[t], k, o) THEN 1 ELSE 0)
          >= Entries(<<k, o>>) + HeldAs(k, o)' + (IF OwesEntry(call'[t], k, o) THEN 1 ELSE 0)
    <3> DEFINE key == <<k, o>>
               a == One(key \in keys)
               b == One(CountOp(c.api, c.arg) = "increase" /\ key = ArgKey(c))
               d == One(Releasing(c) /\ key = ArgKey(c))
    <3>1. Entries(<<k, o>>)' = ((Entries(<<k, o>>) + a) + b) - d
      <4>1. Entries(<<k, o>>)' = InFactory(factory', key) /\ Entries(<<k, o>>) = InFactory(factory, key)
        BY Zenon DEF Entries, InFactory
      <4> QED
        BY Zenon, <1>5, <4>1
    <3>2. HeldAs(k, o)' = HeldAs(k, o) /\ HeldAs(k, o) \in Nat /\ Entries(<<k, o>>) \in Nat
      BY Zenon, <1>1, EntriesNat DEF IInv, HeldAs
    <3>3. a \in {0, 1} /\ b \in {0, 1} /\ d \in {0, 1}
      BY DEF One
    <3>4. d = 1 => OwesEntry(c, k, o) /\ ~OwesEntry(e, k, o)
      <4> SUFFICES ASSUME Releasing(c), key = ArgKey(c)
                   PROVE  OwesEntry(c, k, o) /\ ~OwesEntry(e, k, o)
        BY DEF One
      <4>1. k = c.arg.of.kind /\ o = c.arg.object
        BY DEF ArgKey
      <4>2. OwesEntry(c, k, o)
        BY Zenon, <1>1, <4>1 DEF OwesEntry
      <4>3. CountOp(c.api, c.arg) = "decrease"
        BY Zenon DEF Releasing
      <4>4. CountOp(c.api, c.arg) # "none" /\ CountOp(c.api, c.arg) # "increase"
        BY <4>3
      <4>5. Got(e) = {}
        BY Zenon, <1>3, <1>4, <4>4, RowFacts DEF Got
      <4>6. e.pc # "adapter" /\ e.pc # "loader"
        BY <1>2
      <4> QED
        BY Zenon, <4>2, <4>5, <4>6 DEF OwesEntry
    <3>5. OwesEntry(e, k, o) => a = 1 \/ b = 1
      <4> SUFFICES ASSUME OwesEntry(e, k, o) PROVE a = 1 \/ b = 1
        OBVIOUS
      <4>1. e.pc # "adapter" /\ e.pc # "loader"
        BY <1>2
      <4>2. o \in Got(c) /\ k = GotKind(c)
        BY Zenon, <1>4, <4>1 DEF OwesEntry
      <4>3. CASE CountOp(c.api, c.arg) = "increase"
        <5>1. CountOp(c.api, c.arg) # "none"
          BY <4>3
        <5>2. c.new = {}
          BY Zenon, <1>3, <5>1, RowFacts
        <5>3. o = c.arg.object /\ k = c.arg.of.kind
          BY Zenon, <4>2, <4>3, <5>2 DEF Got, GotKind
        <5> QED
          BY Zenon, <4>3, <5>3 DEF One, ArgKey
      <4>4. CASE CountOp(c.api, c.arg) # "increase"
        <5>1. o \in c.new /\ k = c.out.kind
          BY Zenon, <4>2, <4>4 DEF Got, GotKind
        <5> QED
          BY Zenon, <1>5, <5>1 DEF One
      <4> QED
        BY Zenon, <4>3, <4>4
    <3> HIDE DEF a, b, d, c, e, key
    <3>6. Entries(<<k, o>>)' + HeldAs(k, o) + (IF OwesEntry(c, k, o) THEN 1 ELSE 0)
          >= Entries(<<k, o>>) + HeldAs(k, o)' + (IF OwesEntry(e, k, o) THEN 1 ELSE 0)
      BY ONLY <3>1, <3>2, <3>3, <3>4, <3>5
    <3> QED
      BY Zenon, <3>6 DEF c, e
  <2> QED
    BY Zenon, <1>4, <1>6, <2>1, EntriesCoverStep DEF IInv
<1>14. TablesOwn'
  BY Zenon, <1>5 DEF TablesOwn, Owns
<1> QED
  BY Zenon, <1>6, <1>7, <1>8, <1>9, <1>10, <1>11, <1>12, <1>13, <1>14 DEF IInv

-------------------------------------------------------------------------------
(* The adapter.                                                            *)

\* The table the loader calls is that of an adapter.
LEMMA TargetIsAdapter ==
  ASSUME IInv, NEW t \in Threads, call[t].pc = "adapter", ~Crashes(call[t])
  PROVE  Target(call[t]) \in Adapters
<1> DEFINE c == call[t]
<1>1. CallOK(c)
  <2>1. c.pc # "idle"
    OBVIOUS
  <2> QED
    BY Zenon, <2>1 DEF IInv, Shapes
<1>2. CASE intercept_enabled /\ c.arg # Unbound /\ c.arg.of.name = c.api.table
  <2>1. ArgKey(c) \in DOMAIN factory
    BY Zenon, <1>2, ArgEntry
  <2>2. factory[ArgKey(c)] \in [dditable : Adapters, ref_count : Nat]
    BY Zenon, <2>1 DEF IInv, Types, FactoryType
  <2>3. factory[ArgKey(c)].dditable \in Adapters
    BY <2>2
  <2> QED
    BY Zenon, <1>2, <2>3 DEF Target
<1>3. CASE ~(intercept_enabled /\ c.arg # Unbound /\ c.arg.of.name = c.api.table)
  BY Zenon, <1>1, <1>3 DEF Target, CallOK
<1> QED
  BY Zenon, <1>2, <1>3

\* What the adapter may return: a new object at one of its addresses, a static object,
\* or an object of its own that it adopts.
Returns(c, d, o) ==
  /\ o \in Objects /\ c.out \in c.api.outs
  /\ \/ /\ o \in Addresses /\ o \in Heap[d] /\ object[o].refs = 0
        /\ c.out.kind \notin StaticKinds \cup {"none"}
     \/ /\ o \in Static /\ o[1] = c.out.kind /\ (o[2] = d \/ c.out.kind = "adapter")
     \/ /\ o \in Addresses /\ c.out.op = "adopt"
        /\ object[o].kind = c.out.kind /\ object[o].adapter = d

\* The candidates of a call are that.
LEMMA CandidateFacts ==
  ASSUME NEW c, CallOK(c), NEW d \in Adapters, NEW n \in Candidates(c, d), NEW o \in n
  PROVE  Returns(c, d, o)
<1>1. c.out # Nothing
  <2>1. c.out = Nothing => Candidates(c, d) = {{}}
    <3>1. Nothing.op = "none"
      BY DEF Nothing
    <3> QED
      BY <3>1 DEF Candidates
  <2> QED
    BY Zenon, <2>1
<1>2. c.out \in c.api.outs /\ c.api \in Apis
  BY Zenon, <1>1 DEF CallOK
<1>3. \/ c.out.op \in {"make", "make_if_set"} /\ c.out.kind \notin StaticKinds \cup {"none"}
      \/ c.out.op = "constant_if_set" /\ c.out.kind \in StaticKinds
      \/ c.out.op = "adopt" /\ c.out.kind # "none"
  BY Zenon, <1>2, RowsAssumption DEF RowsAssumption
<1>4. CASE c.out.op \in {"make", "make_if_set"} /\ c.out.kind \notin StaticKinds \cup {"none"}
  <2>1. Candidates(c, d) = {{a} : a \in {x \in Heap[d] : object[x].refs = 0}}
    BY <1>1, <1>4 DEF Candidates
  <2>2. o \in Heap[d] /\ object[o].refs = 0
    <3>1. PICK a \in {x \in Heap[d] : object[x].refs = 0} : n = {a}
      BY Zenon, <2>1
    <3> QED
      BY Zenon, <3>1
  <2>3. o \in Addresses /\ o \in Objects
    BY Zenon, <2>2, CallsAssumption DEF CallsAssumption, Objects
  <2> QED
    BY Zenon, <1>2, <1>4, <2>2, <2>3 DEF Returns
<1>5. CASE c.out.op = "constant_if_set" /\ c.out.kind \in StaticKinds
  <2>1. Candidates(c, d) = {IF c.out.kind = "adapter" THEN {"adapter"} \X Adapters
                            ELSE {<<c.out.kind, d>>}}
    BY <1>1, <1>5 DEF Candidates
  <2>2. n = IF c.out.kind = "adapter" THEN {"adapter"} \X Adapters ELSE {<<c.out.kind, d>>}
    BY Zenon, <2>1
  <2>3. o \in Static /\ o[1] = c.out.kind /\ (o[2] = d \/ c.out.kind = "adapter")
    <3>1. CASE c.out.kind = "adapter"
      BY <1>5, <2>2, <3>1 DEF Static
    <3>2. CASE c.out.kind # "adapter"
      <4>1. o = <<c.out.kind, d>>
        BY Zenon, <2>2, <3>2
      <4> QED
        BY <1>5, <4>1 DEF Static
    <3> QED
      BY Zenon, <3>1, <3>2
  <2> QED
    BY Zenon, <1>2, <2>3 DEF Returns, Objects
<1>6. CASE c.out.op = "adopt" /\ c.out.kind # "none"
  <2>1. Candidates(c, d) =
         {{}} \cup {{y} : y \in {x \in Addresses : /\ object[x].kind = c.out.kind
                                                  /\ object[x].adapter = d
                                                  /\ object[x].refs < MaxRefs
                                                  /\ Entries(Key(x)) < MaxEntries}}
    BY <1>1, <1>6 DEF Candidates
  <2>2. PICK y \in {x \in Addresses : /\ object[x].kind = c.out.kind
                                      /\ object[x].adapter = d
                                      /\ object[x].refs < MaxRefs
                                      /\ Entries(Key(x)) < MaxEntries} : n = {y}
    BY Zenon, <2>1
  <2>3. o \in Addresses /\ object[o].kind = c.out.kind /\ object[o].adapter = d /\ o \in Objects
    BY Zenon, <2>2 DEF Objects
  <2> QED
    BY Zenon, <1>2, <1>6, <2>3 DEF Returns
<1> QED
  BY Zenon, <1>3, <1>4, <1>5, <1>6

\* How the adapter may end: with what it returns only if the loader wraps it.
LEMMA OutcomeFacts ==
  ASSUME NEW c, CallOK(c), NEW d \in Adapters, NEW r \in Outcomes(c, d)
  PROVE  /\ r.res \in AllResults /\ r.new \in SUBSET Objects
         /\ \A o \in r.new : Returns(c, d, o)
         /\ r.new # {} => r.res \in c.api.keep /\ c.out \in c.api.outs
<1> DEFINE new == Candidates(c, d)
<1>1. \/ \E n \in new : r = [res |-> "SUCCESS", new |-> n]
      \/ r = [res |-> "ERROR", new |-> {}]
      \/ \E x \in c.api.keep \ {"SUCCESS"}, n \in new : r = [res |-> x, new |-> n]
  <2>1. \/ r \in {[res |-> "SUCCESS", new |-> n] : n \in new}
        \/ r \in {[res |-> "ERROR", new |-> {}]}
        \/ r \in {[res |-> x, new |-> n] : x \in c.api.keep \ {"SUCCESS"}, n \in new}
    <3> HIDE DEF new
    <3>1. r \in {[res |-> "SUCCESS", new |-> n] : n \in new}
            \cup (IF c.api.name \notin Failing /\ new # {} THEN {}
                  ELSE {[res |-> "ERROR", new |-> {}]}
                       \cup {[res |-> x, new |-> n] : x \in c.api.keep \ {"SUCCESS"}, n \in new})
      BY DEF Outcomes, new
    <3> QED
      BY <3>1
  <2> HIDE DEF new
  <2> QED
    BY <2>1
<1>2. \/ r.res = "SUCCESS" /\ r.new \in new
      \/ r.res = "ERROR" /\ r.new = {}
      \/ r.res \in c.api.keep /\ r.new \in new
  BY <1>1
<1>3. \A o \in r.new : Returns(c, d, o)
  BY Zenon, <1>2, CandidateFacts
<1>4. c.api \in Apis
  BY Zenon DEF CallOK
<1>5. r.new # {} => c.out \in c.api.outs
  BY Zenon, <1>3 DEF Returns
<1>6. c.api.outs # {} => "SUCCESS" \in c.api.keep
  BY Zenon, <1>4, RowsAssumption DEF RowsAssumption
<1>7. r.res \in AllResults
  BY Zenon, <1>2, <1>4 DEF AllResults
<1>8. r.new # {} => r.res \in c.api.keep
  BY Zenon, <1>2, <1>5, <1>6
<1>9. r.new \in SUBSET Objects
  BY Zenon, <1>3 DEF Returns
<1> QED
  BY Zenon, <1>3, <1>5, <1>7, <1>8, <1>9

\* A retain or release the adapter executes is one the loader counts, of a handle the
\* application has or gives up, that is not a static object.
Moves(c, r, what, o) == o = c.arg.object /\ r.res = "SUCCESS" /\ c.arg.of.op = what

\* Which retains and releases these are.
LEMMA MovesFacts ==
  ASSUME IInv, NEW t \in Threads, call[t].pc = "adapter",
         NEW r, NEW what \in {"increase", "decrease"}, NEW o, Moves(call[t], r, what, o)
  PROVE  /\ call[t].arg # Unbound /\ CountOp(call[t].api, call[t].arg) = what
         /\ o \in Addresses /\ object[o].kind = call[t].arg.of.kind
         /\ what = "increase" => held[o] > 0
         /\ what = "decrease" => Owes(call[t], o)
<1> DEFINE c == call[t]
<1>1. CallOK(c) /\ UseOK(c)
  <2>1. c.pc # "idle"
    OBVIOUS
  <2> QED
    BY Zenon, <2>1 DEF IInv, Shapes, Uses
<1>2. c.arg # Unbound
  <2>1. Unbound.of.op = "none"
    BY DEF Unbound, Nothing
  <2>2. what # "none"
    OBVIOUS
  <2> QED
    BY Zenon, <2>1, <2>2 DEF Moves
<1>3. c.arg.of \in c.api.args /\ c.api \in Apis /\ o \in Objects
  BY Zenon, <1>1, <1>2 DEF CallOK, Moves
<1>4. c.api.count.op = what /\ c.arg.of.kind \notin StaticKinds
  BY Zenon, <1>3, RowsAssumption DEF RowsAssumption, Moves
<1>5. CountOp(c.api, c.arg) = what
  BY Zenon, <1>2, <1>4 DEF CountOp
<1>6. object[o].kind = c.arg.of.kind
  BY Zenon, <1>1, <1>2 DEF UseOK, Moves
<1>7. o \in Addresses
  <2>1. o \in Static => object[o] = [kind |-> o[1], adapter |-> o[2], refs |-> 1]
    BY Zenon DEF IInv, Objs
  <2>2. o \in Static => object[o].kind = o[1]
    BY <2>1
  <2> QED
    BY Zenon, <1>3, <1>4, <1>6, <2>2, StaticFacts DEF Objects
<1>8. what = "increase" => held[o] > 0
  <2>1. what = "increase" => ~Releasing(c)
    BY <1>5 DEF Releasing
  <2> QED
    BY Zenon, <1>1, <1>2, <2>1 DEF UseOK, Moves
<1>9. what = "decrease" => Owes(c, o)
  BY Zenon, <1>5 DEF Owes, Releasing, Moves
<1> QED
  BY Zenon, <1>2, <1>5, <1>6, <1>7, <1>8, <1>9

\* The objects after the adapter has run the call of t.
ObjectAfter(c, r, d, o) ==
  IF o \in r.new \ Static
  THEN IF object[o].refs = 0
       THEN [kind |-> c.out.kind, adapter |-> d, refs |-> 1]
       ELSE [object[o] EXCEPT !.refs = @ + 1]
  ELSE IF Moves(c, r, "increase", o) THEN [object[o] EXCEPT !.refs = @ + 1]
  ELSE IF Moves(c, r, "decrease", o)
  THEN IF object[o].refs = 1 THEN Free
       ELSE [object[o] EXCEPT !.refs = @ - 1]
  ELSE object[o]

\* What the adapter does to one object: the counts, the kinds that stay, and the kind
\* of what it returns.
ObjectMoves(c, r, d, o, b) ==
  /\ b \in ObjectType
  /\ o \in Static => b = object[o]
  /\ o \in Addresses =>
       \/ b = Free
       \/ /\ b.kind \notin StaticKinds \cup {"none"} /\ b.refs > 0
          /\ b.adapter \in Adapters /\ o \in Heap[b.adapter]
  /\ o \in Addresses => b.refs >= object[o].refs - One(Owes(c, o))
  /\ o \in Addresses /\ (o \in r.new \/ Moves(c, r, "increase", o)) => b.refs = object[o].refs + 1
  /\ o \in r.new => b.kind = c.out.kind /\ (b.adapter = d \/ c.out.kind = "adapter")

\* An object someone else counts on is there, and the adapter does not free it.
LEMMA CountedOn ==
  ASSUME IInv, NEW t \in Threads, NEW o \in Addresses,
         held[o] > 0 \/ \E u \in Threads : u # t /\ Owes(call[u], o)
  PROVE  object[o].refs >= 1 /\ (Owes(call[t], o) => object[o].refs >= 2)
<1> DEFINE n == Cardinality(Owing(o))
<1>1. object[o].refs \in Int /\ held[o] \in Nat /\ object[o].refs >= held[o] + n /\ n \in Nat
  <2>1. object[o].refs \in Int /\ held[o] \in Nat
    BY DEF IInv, Types, ObjectType, Objects
  <2> QED
    BY Zenon, <2>1, OwingAtLeast DEF IInv, RefsCover
<1>2. CASE held[o] > 0
  <2>1. Owes(call[t], o) => n >= 1
    BY Zenon, OwingAtLeast
  <2> HIDE DEF n
  <2> QED
    BY ONLY <1>1, <1>2, <2>1
<1>3. CASE \E u \in Threads : u # t /\ Owes(call[u], o)
  <2>1. n >= 1 /\ (Owes(call[t], o) => n >= 2)
    BY Zenon, <1>3, OwingAtLeast
  <2> HIDE DEF n
  <2> QED
    BY ONLY <1>1, <2>1
<1> QED
  BY Zenon, <1>2, <1>3

\* What the adapter does to an object that the call returns.
LEMMA ReturnedObject ==
  ASSUME IInv, NEW t \in Threads, call[t].pc = "adapter", NEW d \in Adapters, NEW r,
         NEW o \in Objects, o \in r.new, Returns(call[t], d, o),
         CountOp(call[t].api, call[t].arg) = "none"
  PROVE  /\ ObjectMoves(call[t], r, d, o, ObjectAfter(call[t], r, d, o))
         /\ object[o].refs # 0 => /\ ObjectAfter(call[t], r, d, o).kind = object[o].kind
                                  /\ ObjectAfter(call[t], r, d, o).adapter = object[o].adapter
<1> DEFINE c == call[t]
           b == ObjectAfter(c, r, d, o)
<1>1. object[o] \in ObjectType /\ object[o].refs \in Int
  BY DEF IInv, Types, ObjectType
<1>2. \A what \in {"increase", "decrease"} : ~Moves(c, r, what, o)
  <2>1. \A what \in {"increase", "decrease"} : what # "none"
    OBVIOUS
  <2> QED
    BY Zenon, <2>1, MovesFacts
<1>3. One(Owes(c, o)) \in {0, 1}
  BY DEF One
<1>4. CASE o \in Static
  <2>1. b = object[o]
    BY Zenon, <1>2, <1>4 DEF ObjectAfter
  <2>2. object[o] = [kind |-> o[1], adapter |-> o[2], refs |-> 1] /\ o \notin Addresses
    BY Zenon, <1>4, StaticFacts DEF IInv, Objs
  <2>3. object[o].kind = o[1] /\ object[o].adapter = o[2]
    BY <2>2
  <2>4. o[1] = c.out.kind /\ (o[2] = d \/ c.out.kind = "adapter")
    BY Zenon, <2>2 DEF Returns
  <2> HIDE DEF b
  <2> QED
    BY Zenon, <1>1, <2>1, <2>2, <2>3, <2>4 DEF ObjectMoves, b
<1>5. CASE o \notin Static /\ object[o].refs = 0
  <2>1. b = [kind |-> c.out.kind, adapter |-> d, refs |-> 1] /\ o \in Addresses
    BY Zenon, <1>5 DEF ObjectAfter, Objects
  <2>2. b.kind = c.out.kind /\ b.adapter = d /\ b.refs = 1
    BY <2>1
  <2>3. object[o] = Free
    <3>1. ~(object[o].refs > 0)
      BY <1>5
    <3> QED
      BY Zenon, <2>1, <3>1 DEF IInv, Objs
  <2>4. o \in Heap[d] /\ c.out.kind \notin StaticKinds \cup {"none"}
    <3>1. object[o].kind = "none"
      BY <2>3 DEF Free
    <3>2. c.out \in c.api.outs /\ c.api \in Apis
      <4>1. c.pc # "idle"
        OBVIOUS
      <4> QED
        BY Zenon, <4>1 DEF IInv, Shapes, CallOK, Returns
    <3>3. c.out.kind # "none"
      BY Zenon, <3>2, RowsAssumption DEF RowsAssumption, StaticKinds
    <3> QED
      BY Zenon, <1>5, <3>1, <3>3 DEF Returns
  <2>5. b \in ObjectType
    <3>1. c.out.kind \in AllKinds
      <4>1. c.out \in c.api.outs /\ c.api \in Apis
        <5>1. c.pc # "idle"
          OBVIOUS
        <5> QED
          BY Zenon, <5>1 DEF IInv, Shapes, CallOK, Returns
      <4> QED
        BY Zenon, <4>1, ParamKinds
    <3> HIDE DEF b
    <3> QED
      BY <2>1, <3>1 DEF ObjectType
  <2> HIDE DEF b
  <2>6. b.refs >= object[o].refs - One(Owes(c, o)) /\ b.refs = object[o].refs + 1 /\ b.refs > 0
    BY ONLY <1>3, <1>5, <2>2
  <2> QED
    BY Zenon, <1>5, <2>1, <2>2, <2>4, <2>5, <2>6 DEF ObjectMoves, b
<1>6. CASE o \notin Static /\ object[o].refs # 0
  <2>1. b = [object[o] EXCEPT !.refs = object[o].refs + 1] /\ o \in Addresses
    BY Zenon, <1>6 DEF ObjectAfter, Objects
  <2> HIDE DEF b
  <2>2. /\ b \in ObjectType /\ b.kind = object[o].kind /\ b.adapter = object[o].adapter
        /\ b.refs = object[o].refs + 1
    BY <1>1, <2>1 DEF ObjectType
  <2>3. object[o] # Free
    BY <1>6 DEF Free
  <2>4. /\ object[o].kind \notin StaticKinds \cup {"none"} /\ object[o].refs > 0
        /\ object[o].adapter \in Adapters /\ o \in Heap[object[o].adapter]
    BY Zenon, <2>1, <2>3 DEF IInv, Objs
  <2>5. b.refs >= object[o].refs - One(Owes(c, o)) /\ b.refs > 0
    BY ONLY <1>1, <1>3, <2>2, <2>4
  <2>6. object[o].kind = c.out.kind /\ object[o].adapter = d
    BY Zenon, <1>6 DEF Returns
  <2> QED
    BY Zenon, <1>6, <2>1, <2>2, <2>4, <2>5, <2>6 DEF ObjectMoves, b
<1> QED
  BY Zenon, <1>4, <1>5, <1>6

\* The call may free the object.
MayFree(c, o) == Owes(c, o) /\ object[o].refs <= 1
Stays(o, b) == b.kind = object[o].kind /\ b.adapter = object[o].adapter

\* What the adapter does to another object.
LEMMA OtherObject ==
  ASSUME IInv, NEW t \in Threads, call[t].pc = "adapter", NEW d, NEW r,
         NEW o \in Objects, o \notin r.new
  PROVE  /\ ObjectMoves(call[t], r, d, o, ObjectAfter(call[t], r, d, o))
         /\ MayFree(call[t], o) \/ Stays(o, ObjectAfter(call[t], r, d, o))
<1> DEFINE c == call[t]
           b == ObjectAfter(c, r, d, o)
<1>1. object[o] \in ObjectType /\ object[o].refs \in Int
  BY DEF IInv, Types, ObjectType
<1>2. One(Owes(c, o)) \in {0, 1}
  BY DEF One
<1>3. CASE Moves(c, r, "increase", o)
  <2>1. b = [object[o] EXCEPT !.refs = object[o].refs + 1]
    BY Zenon, <1>3 DEF ObjectAfter
  <2>2. o \in Addresses /\ held[o] > 0
    BY Zenon, <1>3, MovesFacts
  <2>3. object[o].refs >= 1
    BY Zenon, <2>2, CountedOn
  <2> HIDE DEF b
  <2>4. /\ b \in ObjectType /\ b.kind = object[o].kind /\ b.adapter = object[o].adapter
        /\ b.refs = object[o].refs + 1
    BY <1>1, <2>1 DEF ObjectType
  <2>5. object[o] # Free
    BY <2>3 DEF Free
  <2>6. /\ object[o].kind \notin StaticKinds \cup {"none"} /\ object[o].refs > 0
        /\ object[o].adapter \in Adapters /\ o \in Heap[object[o].adapter]
    BY Zenon, <2>2, <2>5 DEF IInv, Objs
  <2>7. b.refs >= object[o].refs - One(Owes(c, o)) /\ b.refs > 0
    BY ONLY <1>1, <1>2, <2>4, <2>6
  <2>8. o \notin Static
    BY Zenon, <2>2, StaticFacts
  <2> QED
    BY Zenon, <2>2, <2>4, <2>6, <2>7, <2>8 DEF ObjectMoves, MayFree, Stays, b
<1>4. CASE Moves(c, r, "decrease", o)
  <2>1. ~Moves(c, r, "increase", o)
    BY <1>4 DEF Moves
  <2>2. o \in Addresses /\ Owes(c, o) /\ o \notin Static
    BY Zenon, <1>4, MovesFacts, StaticFacts
  <2>3. object[o].refs >= 1
    <3>1. object[o].refs >= held[o] + Cardinality(Owing(o)) /\ held[o] \in Nat
      BY Zenon, <2>2 DEF IInv, RefsCover, Types
    <3>2. Cardinality(Owing(o)) \in Nat /\ Cardinality(Owing(o)) >= 1
      BY Zenon, <2>2, OwingAtLeast
    <3> QED
      BY ONLY <1>1, <3>1, <3>2
  <2>4. One(Owes(c, o)) = 1
    BY Zenon, <2>2 DEF One
  <2>5. CASE object[o].refs = 1
    <3>1. b = Free
      BY Zenon, <1>4, <2>1, <2>5 DEF ObjectAfter
    <3>2. Free.refs = 0
      BY DEF Free
    <3> HIDE DEF b
    <3>3. b.refs >= object[o].refs - One(Owes(c, o))
      BY <2>4, <2>5, <3>1, <3>2
    <3>4. object[o].refs <= 1
      BY ONLY <2>5
    <3> QED
      BY Zenon, <2>1, <2>2, <3>1, <3>3, <3>4, FreeType DEF ObjectMoves, MayFree, Stays, b
  <2>6. CASE object[o].refs # 1
    <3>1. b = [object[o] EXCEPT !.refs = object[o].refs - 1]
      BY Zenon, <1>4, <2>1, <2>6 DEF ObjectAfter
    <3> HIDE DEF b
    <3>2. /\ b \in ObjectType /\ b.kind = object[o].kind /\ b.adapter = object[o].adapter
          /\ b.refs = object[o].refs - 1
      BY <1>1, <3>1 DEF ObjectType
    <3>3. object[o] # Free
      BY <2>3 DEF Free
    <3>4. /\ object[o].kind \notin StaticKinds \cup {"none"}
          /\ object[o].adapter \in Adapters /\ o \in Heap[object[o].adapter]
      BY Zenon, <2>2, <3>3 DEF IInv, Objs
    <3>5. b.refs >= object[o].refs - One(Owes(c, o)) /\ b.refs > 0
      BY ONLY <1>1, <2>3, <2>4, <2>6, <3>2
    <3> QED
      BY Zenon, <2>1, <2>2, <3>2, <3>4, <3>5 DEF ObjectMoves, MayFree, Stays, b
  <2> QED
    BY Zenon, <2>5, <2>6
<1>5. CASE ~Moves(c, r, "increase", o) /\ ~Moves(c, r, "decrease", o)
  <2>1. b = object[o]
    BY Zenon, <1>5 DEF ObjectAfter
  <2>2. object[o].refs >= object[o].refs - One(Owes(c, o))
    BY ONLY <1>1, <1>2
  <2>3. o \in Addresses =>
          \/ object[o] = Free
          \/ /\ object[o].kind \notin StaticKinds \cup {"none"} /\ object[o].refs > 0
             /\ object[o].adapter \in Adapters /\ o \in Heap[object[o].adapter]
    BY Zenon DEF IInv, Objs
  <2> HIDE DEF b
  <2> QED
    BY Zenon, <1>1, <1>5, <2>1, <2>2, <2>3 DEF ObjectMoves, MayFree, Stays, b
<1> QED
  BY Zenon, <1>3, <1>4, <1>5

\* What Execute does to the call of t and to the objects.
Executed(t, d, r) ==
  /\ d \in Adapters /\ r \in Outcomes(call[t], d) /\ CallOK(call[t])
  /\ GoesOn(t) /\ call'[t].pc = (IF intercept_enabled THEN "loader" ELSE "leave")
  /\ call'[t].res = r.res /\ call'[t].new = r.new /\ call'[t].via = d
  /\ object' = [o \in Objects |-> ObjectAfter(call[t], r, d, o)]
  /\ CountOp(call[t].api, call[t].arg) # "none" => r.new = {}

\* That is what Execute does.
LEMMA ExecuteFacts ==
  ASSUME IInv, NEW t \in Threads, Execute(t)
  PROVE  \E d, r : Executed(t, d, r)
<1> DEFINE c == call[t]
           d == Target(c)
<1>1. c.pc = "adapter" /\ ~Crashes(c)
  BY Zenon DEF Execute
<1>2. CallOK(c) /\ d \in Adapters
  <2>1. c.pc # "idle"
    BY <1>1
  <2> QED
    BY Zenon, <1>1, <2>1, TargetIsAdapter DEF IInv, Shapes
<1>3. PICK r \in Outcomes(c, d) :
        /\ object' = [o \in Objects |-> ObjectAfter(c, r, d, o)]
        /\ call' = [call EXCEPT ![t] =
                      [call[t] EXCEPT !.pc = IF intercept_enabled THEN "loader" ELSE "leave",
                                      !.via = d, !.res = r.res, !.new = r.new]]
  BY Zenon DEF Execute, ObjectAfter, Moves
<1>4. r.res \in AllResults /\ r.new \in SUBSET Objects
  BY Zenon, <1>2, OutcomeFacts
<1> DEFINE e == [call[t] EXCEPT !.pc = IF intercept_enabled THEN "loader" ELSE "leave",
                                !.via = d, !.res = r.res, !.new = r.new]
<1>5. c \in CallType
  BY Zenon DEF IInv, Types
<1> HIDE DEF d
<1>6. /\ e \in CallType /\ SameCall(c, e)
      /\ e.pc = (IF intercept_enabled THEN "loader" ELSE "leave")
      /\ e.res = r.res /\ e.new = r.new /\ e.via = d
  BY <1>2, <1>4, <1>5 DEF CallType, SameCall, PCs
<1>7. call' = [call EXCEPT ![t] = e]
  BY Zenon, <1>3
<1> HIDE DEF e
<1>8. GoesOn(t) /\ call'[t] = e
  BY Zenon, <1>6, <1>7, ResultMoves DEF IInv
<1>9. CountOp(c.api, c.arg) # "none" => r.new = {}
  <2>1. CountOp(c.api, c.arg) # "none" => c.out = Nothing
    BY Zenon, <1>2, RowFacts
  <2>2. \A p \in c.api.outs : p # Nothing
    <3>1. Nothing.kind = "none" /\ Nothing.op = "none"
      BY DEF Nothing
    <3>2. ASSUME NEW p \in c.api.outs
          PROVE  p.op \in {"make", "make_if_set", "constant_if_set", "adopt"}
      BY ZenonT(60), <1>2, RowsAssumption DEF RowsAssumption, CallOK
    <3>3. "none" \notin {"make", "make_if_set", "constant_if_set", "adopt"}
      OBVIOUS
    <3> QED
      BY Zenon, <3>1, <3>2, <3>3
  <2>3. r.new # {} => c.out \in c.api.outs
    BY Zenon, <1>2, OutcomeFacts
  <2> QED
    BY Zenon, <2>1, <2>2, <2>3
<1> QED
  BY Zenon, <1>2, <1>3, <1>6, <1>8, <1>9 DEF Executed

\* Every object moves as it may, and one that is counted on stays what it is.
LEMMA ExecutedObjects ==
  ASSUME IInv, NEW t \in Threads, call[t].pc = "adapter", NEW d, NEW r, Executed(t, d, r),
         NEW o \in Objects
  PROVE  /\ ObjectMoves(call[t], r, d, o, object'[o])
         /\ held[o] > 0 \/ (\E u \in Threads : u # t /\ Owes(call[u], o)) =>
              object'[o].kind = object[o].kind /\ object'[o].adapter = object[o].adapter
<1> DEFINE c == call[t]
           b == ObjectAfter(c, r, d, o)
<1>1. object'[o] = b /\ d \in Adapters /\ r \in Outcomes(c, d) /\ CallOK(c)
  BY Zenon DEF Executed
<1>2. object[o].refs \in Int
  BY DEF IInv, Types, ObjectType
<1>3. CASE o \in r.new
  <2>1. CountOp(c.api, c.arg) = "none" /\ Returns(c, d, o)
    BY Zenon, <1>1, <1>3, OutcomeFacts DEF Executed
  <2>2. /\ ObjectMoves(c, r, d, o, b)
        /\ object[o].refs # 0 => b.kind = object[o].kind /\ b.adapter = object[o].adapter
    BY Zenon, <1>1, <1>3, <2>1, ReturnedObject
  <2>3. o \in Static => b = object[o]
    BY Zenon, <2>2 DEF ObjectMoves
  <2>4. ASSUME o \in Addresses, held[o] > 0 \/ (\E u \in Threads : u # t /\ Owes(call[u], o))
        PROVE  object[o].refs # 0
    <3>1. object[o].refs >= 1
      BY Zenon, <2>4, CountedOn
    <3> QED
      BY ONLY <1>2, <3>1
  <2> HIDE DEF b
  <2> QED
    BY Zenon, <1>1, <2>2, <2>3, <2>4 DEF Objects
<1>4. CASE o \notin r.new
  <2>1. /\ ObjectMoves(c, r, d, o, b)
        /\ MayFree(c, o) \/ Stays(o, b)
    BY Zenon, <1>4, OtherObject
  <2>2. o \in Static => b = object[o]
    BY Zenon, <2>1 DEF ObjectMoves
  <2>3. ASSUME o \in Addresses, held[o] > 0 \/ (\E u \in Threads : u # t /\ Owes(call[u], o))
        PROVE  ~MayFree(c, o)
    <3>1. Owes(c, o) => object[o].refs >= 2
      BY Zenon, <2>3, CountedOn
    <3> HIDE DEF c
    <3> QED
      BY ONLY <1>2, <3>1 DEF MayFree
  <2> HIDE DEF b
  <2> QED
    BY Zenon, <1>1, <2>1, <2>2, <2>3 DEF Objects, Stays
<1> QED
  BY Zenon, <1>3, <1>4

\* The adapter runs the call: what it counts covers what the call owes from then on.
LEMMA ExecuteKeeps ==
  ASSUME IInv, NEW t \in Threads, Execute(t)
  PROVE  IInv'
<1> DEFINE c == call[t]
           e == call'[t]
<1>1. c.pc = "adapter" /\ UNCHANGED <<held, factory, stream>>
  BY Zenon DEF Execute
<1>2. PICK d, r : Executed(t, d, r)
  BY Zenon, ExecuteFacts
<1>3. CallOK(c) /\ UseOK(c) /\ ~c.rejected
  <2>1. c.pc # "idle" /\ c.pc # "leave"
    BY <1>1
  <2> QED
    BY Zenon, <1>1, <2>1 DEF IInv, Shapes, Uses, CallOK
<1>4. /\ d \in Adapters /\ r \in Outcomes(c, d)
      /\ SameCall(c, e) /\ Others(t) /\ call' \in [Threads -> CallType]
      /\ e.pc = (IF intercept_enabled THEN "loader" ELSE "leave")
      /\ e.res = r.res /\ e.new = r.new /\ e.via = d
      /\ e.arg = c.arg /\ e.out = c.out
      /\ CountOp(c.api, c.arg) # "none" => r.new = {}
  BY Zenon, <1>2 DEF Executed, GoesOn, Others, SameCall
<1>5. /\ e.pc # "idle" /\ e.pc # "adapter" /\ e.pc # "crashed"
      /\ e.pc \in {"loader", "leave"} /\ (e.pc = "loader" <=> intercept_enabled)
  BY <1>4
<1>6. /\ CountOp(e.api, e.arg) = CountOp(c.api, c.arg) /\ (Releasing(e) <=> Releasing(c))
      /\ GotKind(e) = GotKind(c)
  BY Zenon, <1>4, SameCounts
<1>7. /\ r.res \in AllResults /\ r.new \in SUBSET Objects
      /\ r.new # {} => r.res \in c.api.keep /\ c.out \in c.api.outs
  BY Zenon, <1>3, <1>4, OutcomeFacts
<1>8. ASSUME NEW o \in Objects
      PROVE  /\ ObjectMoves(c, r, d, o, object'[o])
             /\ held[o] > 0 \/ (\E u \in Threads : u # t /\ Owes(call[u], o)) =>
                  object'[o].kind = object[o].kind /\ object'[o].adapter = object[o].adapter
  BY Zenon, <1>1, <1>2, ExecutedObjects
<1>9. Types'
  <2>1. object' = [o \in Objects |-> ObjectAfter(c, r, d, o)]
    BY Zenon, <1>2 DEF Executed
  <2>2. object' = [o \in Objects |-> object'[o]]
    BY Zenon, <2>1
  <2>3. \A o \in Objects : object'[o] \in ObjectType
    BY Zenon, <1>8 DEF ObjectMoves
  <2>4. object' \in [Objects -> ObjectType]
    BY Zenon, <2>2, <2>3
  <2> QED
    BY Zenon, <1>1, <1>4, <2>4 DEF IInv, Types
<1>10. Shapes'
  <2>1. CallOK(e)
    BY Zenon, <1>3, <1>4, <1>5, <1>7 DEF CallOK, SameCall
  <2> QED
    BY Zenon, <1>4, <1>5, <2>1, ShapesStep DEF IInv
<1>11. Objs'
  <2>1. \A o \in Static : object'[o] = [kind |-> o[1], adapter |-> o[2], refs |-> 1]
    BY Zenon, <1>8, StaticFacts DEF IInv, Objs, ObjectMoves
  <2>2. ASSUME NEW o \in Addresses
        PROVE  \/ object'[o] = Free
               \/ /\ object'[o].kind \notin StaticKinds \cup {"none"} /\ object'[o].refs > 0
                  /\ object'[o].adapter \in Adapters /\ o \in Heap[object'[o].adapter]
    BY Zenon, <1>8 DEF ObjectMoves, Objects
  <2> QED
    BY Zenon, <2>1, <2>2 DEF Objs
<1>12. Traces'
  BY Zenon, <1>1, <1>4 DEF IInv, Traces, Others, SameCall
<1>13. News'
  <2> SUFFICES ASSUME NEW u \in Threads, call'[u].pc \in {"loader", "leave"},
                      NEW o \in Got(call'[u])
               PROVE  /\ o \in Objects /\ object'[o].kind = GotKind(call'[u])
                      /\ o \in call'[u].new => object'[o].adapter = call'[u].via
                                               \/ call'[u].out.kind = "adapter"
    BY Zenon DEF News, Got, GotKind
  <2>1. CASE u # t
    <3>1. call'[u] = call[u]
      BY Zenon, <1>4, <2>1 DEF Others
    <3>2. Owes(call[u], o)
      BY Zenon, <3>1 DEF Owes
    <3>3. /\ o \in Objects /\ object[o].kind = GotKind(call[u])
          /\ o \in call[u].new => object[o].adapter = call[u].via \/ call[u].out.kind = "adapter"
      BY Zenon, <3>1 DEF IInv, News
    <3>4. object'[o].kind = object[o].kind /\ object'[o].adapter = object[o].adapter
      BY Zenon, <1>8, <2>1, <3>2, <3>3
    <3> QED
      BY Zenon, <3>1, <3>3, <3>4
  <2>2. CASE u = t
    <3>1. CASE CountOp(c.api, c.arg) = "increase"
      <4>1. CountOp(c.api, c.arg) # "none" /\ ~Releasing(c)
        BY <3>1 DEF Releasing
      <4>2. c.arg # Unbound /\ e.new = {}
        BY Zenon, <1>3, <1>4, <4>1, RowFacts
      <4>3. o = c.arg.object /\ o \in Objects
        BY Zenon, <1>3, <1>4, <2>2, <4>2 DEF Got, CallOK
      <4>4. held[o] > 0 /\ object[o].kind = c.arg.of.kind
        BY Zenon, <1>3, <4>1, <4>2, <4>3 DEF UseOK
      <4>5. object'[o].kind = c.arg.of.kind
        BY Zenon, <1>8, <4>3, <4>4
      <4>6. GotKind(e) = c.arg.of.kind
        BY Zenon, <1>6, <3>1 DEF GotKind
      <4> QED
        BY ZenonT(60), <2>2, <4>2, <4>3, <4>5, <4>6
    <3>2. CASE CountOp(c.api, c.arg) # "increase"
      <4>1. o \in r.new /\ o \in Objects
        BY Zenon, <1>4, <1>6, <1>7, <2>2, <3>2 DEF Got
      <4>2. GotKind(e) = c.out.kind
        BY Zenon, <1>6, <3>2 DEF GotKind
      <4>3. object'[o].kind = c.out.kind /\ (object'[o].adapter = d \/ c.out.kind = "adapter")
        BY Zenon, <1>8, <4>1 DEF ObjectMoves
      <4> QED
        BY Zenon, <1>4, <2>2, <4>1, <4>2, <4>3
    <3> QED
      BY Zenon, <3>1, <3>2
  <2> QED
    BY Zenon, <2>1, <2>2
<1>14. Uses'
  <2> SUFFICES ASSUME NEW u \in Threads, call'[u].pc # "idle"
               PROVE  call'[u].arg # Unbound =>
                        /\ ~Releasing(call'[u]) => held[call'[u].arg.object] > 0
                        /\ ~Releasing(call'[u]) \/ call'[u].pc = "adapter" =>
                             object'[call'[u].arg.object].kind = call'[u].arg.of.kind
    BY Zenon, <1>1 DEF Uses, UseOK, Releasing
  <2>1. CASE u # t
    <3>1. call'[u] = call[u]
      BY Zenon, <1>4, <2>1 DEF Others
    <3> DEFINE o == call[u].arg.object
    <3>2. UseOK(call[u]) /\ CallOK(call[u])
      BY Zenon, <3>1 DEF IInv, Uses, Shapes
    <3> SUFFICES ASSUME call[u].arg # Unbound
                 PROVE  /\ ~Releasing(call[u]) => held[o] > 0
                        /\ ~Releasing(call[u]) \/ call[u].pc = "adapter" =>
                             object'[o].kind = call[u].arg.of.kind
      BY Zenon, <3>1
    <3>3. o \in Objects
      BY Zenon, <3>2 DEF CallOK
    <3>4. ~Releasing(call[u]) => held[o] > 0
      BY Zenon, <3>2 DEF UseOK
    <3>5. Releasing(call[u]) /\ call[u].pc = "adapter" => Owes(call[u], o)
      BY Zenon DEF Owes
    <3>6. ~Releasing(call[u]) \/ call[u].pc = "adapter" => object[o].kind = call[u].arg.of.kind
      BY Zenon, <3>2 DEF UseOK
    <3>7. /\ held[o] > 0 => object'[o].kind = object[o].kind
          /\ Owes(call[u], o) => object'[o].kind = object[o].kind
      BY Zenon, <1>8, <2>1, <3>3
    <3> HIDE DEF o
    <3> QED
      BY Zenon, <3>4, <3>5, <3>6, <3>7
  <2>2. CASE u = t
    <3> SUFFICES ASSUME c.arg # Unbound, ~Releasing(c)
                 PROVE  held[c.arg.object] > 0 /\ object'[c.arg.object].kind = c.arg.of.kind
      BY Zenon, <1>4, <1>5, <1>6, <2>2
    <3>1. c.arg.object \in Objects
      BY Zenon, <1>3 DEF CallOK
    <3>2. held[c.arg.object] > 0 /\ object[c.arg.object].kind = c.arg.of.kind
      BY Zenon, <1>3 DEF UseOK
    <3> QED
      BY Zenon, <1>8, <3>1, <3>2
  <2> QED
    BY Zenon, <2>1, <2>2
<1>15. RefsCover'
  <2>1. ASSUME NEW o \in Addresses
        PROVE  object'[o].refs + held[o] + (IF Owes(call[t], o) THEN 1 ELSE 0)
                 >= object[o].refs + held'[o] + (IF Owes(call'[t], o) THEN 1 ELSE 0)
    <3>1. object[o].refs \in Int /\ held[o] \in Int /\ held'[o] = held[o] /\ o \in Objects
      BY <1>1 DEF IInv, Types, ObjectType, Objects
    <3>2. object'[o].refs \in Int
      BY <1>9, <3>1 DEF Types, ObjectType
    <3>3. object'[o].refs >= object[o].refs - One(Owes(c, o))
      BY Zenon, <1>8, <3>1 DEF ObjectMoves
    <3>4. Owes(e, o) => o \in r.new \/ Moves(c, r, "increase", o)
      <4> SUFFICES ASSUME o \in Got(e), o \notin r.new
                   PROVE  Moves(c, r, "increase", o)
        BY Zenon, <1>5 DEF Owes
      <4>1. CountOp(c.api, c.arg) = "increase" /\ r.res = "SUCCESS" /\ o = c.arg.object
        <5>1. /\ Got(e) = IF CountOp(e.api, e.arg) = "increase" /\ e.res = "SUCCESS"
                         THEN {e.arg.object} ELSE e.new
              /\ e.new = r.new /\ e.res = r.res /\ e.arg = c.arg
              /\ CountOp(e.api, e.arg) = CountOp(c.api, c.arg)
          BY Zenon, <1>4, <1>6 DEF Got
        <5> HIDE DEF e, c
        <5> QED
          BY Zenon, <5>1
      <4>2. CountOp(c.api, c.arg) # "none" /\ ~Releasing(c)
        BY <4>1 DEF Releasing
      <4>3. c.arg # Unbound /\ c.api.count.op = "increase" /\ c.api.count.op # "none"
        BY Zenon, <1>3, <4>1, <4>2, RowFacts
      <4>4. c.arg.of \in c.api.args /\ c.arg.of.name = c.api.count.of /\ c.api \in Apis
        BY Zenon, <1>3, <4>3 DEF CallOK
      <4>5. c.arg.of.op = "increase" \/ c.arg.of.kind \in StaticKinds
        BY Zenon, <4>3, <4>4, RowsAssumption DEF RowsAssumption
      <4>6. object[o].kind = c.arg.of.kind
        BY Zenon, <1>3, <4>1, <4>2, <4>3 DEF UseOK
      <4>7. object[o].kind \notin StaticKinds
        <5>1. Free.kind \notin StaticKinds
          BY DEF Free, StaticKinds
        <5> QED
          BY Zenon, <5>1 DEF IInv, Objs
      <4> QED
        BY Zenon, <4>1, <4>5, <4>6, <4>7 DEF Moves
    <3>5. Owes(e, o) => object'[o].refs = object[o].refs + 1
      BY Zenon, <1>8, <3>1, <3>4 DEF ObjectMoves
    <3> HIDE DEF c, e
    <3>6. object'[o].refs + held[o] + (IF Owes(c, o) THEN 1 ELSE 0)
            >= object[o].refs + held'[o] + (IF Owes(e, o) THEN 1 ELSE 0)
      BY ONLY <3>1, <3>2, <3>3, <3>5 DEF One
    <3> QED
      BY Zenon, <3>6 DEF c, e
  <2>2. object \in [Objects -> ObjectType] /\ held \in [Objects -> Nat]
    BY Zenon DEF IInv, Types
  <2> QED
    BY Zenon, <1>4, <1>9, <2>1, <2>2, RefsCoverStep DEF IInv, Types
<1>16. EntriesCover'
  <2>1. ASSUME intercept_enabled, NEW k \in AllKinds, NEW o \in Objects
        PROVE  Entries(<<k, o>>)' + HeldAs(k, o) + (IF OwesEntry(call[t], k, o) THEN 1 ELSE 0)
          >= Entries(<<k, o>>) + HeldAs(k, o)' + (IF OwesEntry(call'[t], k, o) THEN 1 ELSE 0)
    <3>1. Entries(<<k, o>>)' = Entries(<<k, o>>)
      BY Zenon, <1>1 DEF Entries
    <3>2. HeldAs(k, o)' <= HeldAs(k, o) /\ HeldAs(k, o) \in Nat /\ HeldAs(k, o)' \in Nat
      <4>1. held[o] \in Nat /\ held'[o] = held[o]
        BY Zenon, <1>1 DEF IInv, Types
      <4>2. held[o] > 0 => object'[o].kind = object[o].kind
        BY Zenon, <1>8
      <4> QED
        BY <4>1, <4>2 DEF HeldAs
    <3>3. Entries(<<k, o>>) \in Nat
      BY Zenon, EntriesNat DEF IInv
    <3>4. OwesEntry(call'[t], k, o) => OwesEntry(call[t], k, o)
      <4>1. e.pc # "leave"
        BY <1>4, <2>1
      <4> QED
        BY Zenon, <1>1, <1>4, <1>6, <4>1 DEF OwesEntry
    <3> QED
      BY ONLY <3>1, <3>2, <3>3, <3>4
  <2> QED
    BY Zenon, <1>4, <1>9, <2>1, EntriesCoverStep DEF IInv
<1>17. TablesOwn'
  BY Zenon, <1>1 DEF IInv, TablesOwn, Owns
<1> QED
  BY Zenon, <1>9, <1>10, <1>11, <1>12, <1>13, <1>14, <1>15, <1>16, <1>17 DEF IInv

-------------------------------------------------------------------------------
(* A call enters.                                                          *)

\* The call that enters, its rejection, and the references that are left.
Rejected(api, d, fault) == Nowhere(api, d) \/ fault.err # ""
EntryCall(api, d, arg, out, fault) ==
  [pc |-> IF Rejected(api, d, fault) THEN "leave" ELSE "adapter", api |-> api, d |-> d,
   arg |-> arg, out |-> out, fault |-> fault, rejected |-> Rejected(api, d, fault),
   via |-> NULL,
   res |-> IF Nowhere(api, d) THEN EmptyResult ELSE fault.err,
   new |-> {}, instance |-> notify_begin(api, d)]
Given(api, d, arg, fault) ==
  IF ~Rejected(api, d, fault) /\ CountOp(api, arg) = "decrease"
  THEN [held EXCEPT ![arg.object] = @ - 1] ELSE held
Gone(api, d, arg, fault) == ~Rejected(api, d, fault) /\ LastAdapter(api, arg)

\* What the application passes.
Passed(t, api, d, arg, out, fault) ==
  /\ api \in Apis /\ d \in Adapters /\ arg \in Bindings(api, d) /\ MayCall(t, api, d, arg)
  /\ fault \in {Fine} \cup (IF Misuse THEN api.faults ELSE {})
  /\ out \in OutputsOf(api, fault)
  /\ fault.of = "" \/ arg.of.name # fault.of
  /\ arg = Unbound /\ api.count.op # "none" => fault.of = api.count.of

\* A call enters with that.
LEMMA CallPasses ==
  ASSUME NEW t \in Threads, Call(t)
  PROVE  /\ call[t].pc = "idle"
         /\ \E api, d, arg, out, fault : /\ Passed(t, api, d, arg, out, fault)
                                         /\ Enter(t, api, d, arg, out, fault)
<1>1. PICK api \in Apis, d \in Adapters : \E arg \in Bindings(api, d) :
        /\ MayCall(t, api, d, arg)
        /\ \E fault \in {Fine} \cup (IF Misuse THEN api.faults ELSE {}) :
             \E out \in OutputsOf(api, fault) :
               /\ fault.of = "" \/ arg.of.name # fault.of
               /\ arg = Unbound /\ api.count.op # "none" => fault.of = api.count.of
               /\ Bounded(api, arg, out)
               /\ Enter(t, api, d, arg, out, fault)
  BY Zenon DEF Call
<1>2. PICK arg \in Bindings(api, d) :
        /\ MayCall(t, api, d, arg)
        /\ \E fault \in {Fine} \cup (IF Misuse THEN api.faults ELSE {}) :
             \E out \in OutputsOf(api, fault) :
               /\ fault.of = "" \/ arg.of.name # fault.of
               /\ arg = Unbound /\ api.count.op # "none" => fault.of = api.count.of
               /\ Bounded(api, arg, out)
               /\ Enter(t, api, d, arg, out, fault)
  BY Zenon, <1>1
<1>3. PICK fault \in {Fine} \cup (IF Misuse THEN api.faults ELSE {}) :
             \E out \in OutputsOf(api, fault) :
               /\ fault.of = "" \/ arg.of.name # fault.of
               /\ arg = Unbound /\ api.count.op # "none" => fault.of = api.count.of
               /\ Bounded(api, arg, out)
               /\ Enter(t, api, d, arg, out, fault)
  BY Zenon, <1>2
<1>4. PICK out \in OutputsOf(api, fault) :
               /\ fault.of = "" \/ arg.of.name # fault.of
               /\ arg = Unbound /\ api.count.op # "none" => fault.of = api.count.of
               /\ Bounded(api, arg, out)
               /\ Enter(t, api, d, arg, out, fault)
  BY Zenon, <1>3
<1>5. Passed(t, api, d, arg, out, fault)
  BY Zenon, <1>2, <1>4 DEF Passed
<1>6. call[t].pc = "idle"
  BY Zenon DEF Call, Busy
<1> QED
  BY Zenon, <1>4, <1>5, <1>6

\* What a call that enters carries.
Carries(api, d, arg, out, fault) ==
  /\ api \in Apis /\ d \in Adapters /\ fault \in AllFaults
  /\ fault \in {Fine} \cup api.faults /\ fault.err # "SUCCESS"
  /\ out = Nothing \/ out \in api.outs
  /\ arg \in [of : AllParams, object : Objects \cup {NULL}]
  /\ arg # Unbound =>
       /\ arg.of \in api.args /\ arg.object \in Objects
       /\ held[arg.object] > 0 /\ object[arg.object].kind = arg.of.kind
       /\ object[arg.object].adapter = d
       /\ api.count.op # "none" => arg.of.name = api.count.of

\* That is what the contract makes it carry.
LEMMA PassedFacts ==
  ASSUME IInv, NEW t \in Threads, NEW api, NEW d, NEW arg, NEW out, NEW fault,
         Passed(t, api, d, arg, out, fault)
  PROVE  Carries(api, d, arg, out, fault)
<1>1. api \in Apis /\ d \in Adapters /\ fault \in {Fine} \cup api.faults
  BY Zenon DEF Passed
<1>2. fault.err # "SUCCESS"
  <2>1. Fine.err # "SUCCESS"
    BY DEF Fine
  <2> QED
    BY Zenon, <1>1, <2>1, RowsAssumption DEF RowsAssumption
<1>3. fault \in AllFaults
  BY Zenon, <1>1 DEF AllFaults
<1>4. out = Nothing \/ out \in api.outs
  BY Zenon DEF Passed, OutputsOf
<1>5. CASE arg = Unbound
  <2>1. Nothing \in AllParams
    BY Zenon DEF AllParams
  <2>2. Unbound \in [of : AllParams, object : Objects \cup {NULL}]
    BY <2>1 DEF Unbound
  <2> QED
    BY Zenon, <1>1, <1>2, <1>3, <1>4, <1>5, <2>2 DEF Carries
<1>6. CASE arg # Unbound
  <2> DEFINE bound == UNION {{[of |-> p, object |-> o] : o \in Usable(p.kind, d)} : p \in api.args}
  <2>1. arg \in bound /\ (api.count.op # "none" => arg.of.name = api.count.of)
    BY Zenon, <1>6 DEF Passed, Bindings
  <2>2. PICK p \in api.args : \E o \in Usable(p.kind, d) : arg = [of |-> p, object |-> o]
    BY Zenon, <2>1
  <2>3. PICK o \in Usable(p.kind, d) : arg = [of |-> p, object |-> o]
    BY Zenon, <2>2
  <2>4. /\ o \in Objects /\ object[o].kind = p.kind /\ object[o].adapter = d /\ held[o] > 0
    BY Zenon, <2>3 DEF Usable
  <2>5. arg.of = p /\ arg.object = o
    BY <2>3
  <2>6. p \in AllParams
    BY Zenon, <1>1, <2>2, ParamKinds
  <2>7. arg \in [of : AllParams, object : Objects \cup {NULL}]
    BY <2>3, <2>4, <2>6
  <2> HIDE DEF bound
  <2> QED
    BY Zenon, <1>1, <1>2, <1>3, <1>4, <2>1, <2>4, <2>5, <2>7 DEF Carries
<1> QED
  BY Zenon, <1>5, <1>6

\* What entering does, but for the leak checker.
Enters(t, api, d, arg, out, fault) ==
  /\ call' = [call EXCEPT ![t] = EntryCall(api, d, arg, out, fault)]
  /\ stream' = (IF notify_begin(api, d) = "" THEN stream
                ELSE [stream EXCEPT ![t] = notify_begin(api, d)])
  /\ held' = (IF Gone(api, d, arg, fault) THEN [o \in Objects |-> 0]
              ELSE Given(api, d, arg, fault))
  /\ UNCHANGED <<object, factory, subscribed>>

\* That is what Enter does.
LEMMA EnterFacts ==
  ASSUME NEW t, NEW api, NEW d, NEW arg, NEW out, NEW fault, Enter(t, api, d, arg, out, fault)
  PROVE  Enters(t, api, d, arg, out, fault)
  BY Zenon DEF Enter, Enters, EntryCall, Given, Gone, Rejected

\* The call that enters has its shape, and returns nothing yet.
EntryOK(e, api, d, arg, fault) ==
  /\ e \in CallType /\ CallOK(e) /\ e.pc # "idle" /\ e.pc # "loader"
  /\ e.api = api /\ e.arg = arg /\ e.instance = notify_begin(api, d) /\ Got(e) = {}
  /\ (e.pc = "adapter" <=> ~Rejected(api, d, fault))
  /\ (e.rejected <=> Rejected(api, d, fault))

\* So it is.
LEMMA EntryShape ==
  ASSUME IInv, NEW t \in Threads, NEW api, NEW d, NEW arg, NEW out, NEW fault,
         Passed(t, api, d, arg, out, fault), NEW e, e = EntryCall(api, d, arg, out, fault)
  PROVE  EntryOK(e, api, d, arg, fault)
<1> DEFINE rj == Rejected(api, d, fault)
           empty == Nowhere(api, d)
           rs == IF empty THEN EmptyResult ELSE fault.err
           id == notify_begin(api, d)
<1>1. /\ api \in Apis /\ d \in Adapters /\ fault \in AllFaults
      /\ fault \in {Fine} \cup api.faults /\ fault.err # "SUCCESS"
      /\ out = Nothing \/ out \in api.outs
      /\ arg \in [of : AllParams, object : Objects \cup {NULL}]
      /\ arg # Unbound => /\ arg.of \in api.args /\ arg.object \in Objects
                          /\ api.count.op # "none" => arg.of.name = api.count.of
  <2>1. Carries(api, d, arg, out, fault)
    BY Zenon, PassedFacts
  <2> QED
    BY Zenon, <2>1 DEF Carries
<1>2. rj \in BOOLEAN /\ (~rj => fault.err = "")
  BY DEF Rejected
<1>3. rs \in AllResults /\ rs # "SUCCESS"
  <2>1. EmptyResult \in AllResults /\ EmptyResult # "SUCCESS"
    BY DEF EmptyResult, AllResults
  <2>2. fault.err \in AllResults
    BY Zenon, <1>1 DEF AllResults
  <2> QED
    BY Zenon, <1>1, <2>1, <2>2
<1>4. id \in {""} \cup {a.id : a \in Apis}
  BY Zenon, <1>1 DEF notify_begin
<1>5. out \in AllParams
  BY Zenon, <1>1, ParamKinds DEF AllParams
<1>6. e = [pc |-> IF rj THEN "leave" ELSE "adapter", api |-> api, d |-> d,
           arg |-> arg, out |-> out, fault |-> fault, rejected |-> rj,
           via |-> NULL, res |-> rs, new |-> {}, instance |-> id]
  BY Zenon DEF EntryCall
<1> HIDE DEF rj, rs, id
<1>7. /\ e.pc = (IF rj THEN "leave" ELSE "adapter") /\ e.api = api /\ e.d = d /\ e.arg = arg
      /\ e.out = out /\ e.fault = fault /\ e.rejected = rj /\ e.via = NULL /\ e.res = rs
      /\ e.new = {} /\ e.instance = id
  BY ONLY <1>6
<1>8. e \in CallType
  <2>1. (IF rj THEN "leave" ELSE "adapter") \in PCs
    BY DEF PCs
  <2> QED
    BY ONLY <1>1, <1>2, <1>3, <1>4, <1>5, <1>6, <2>1 DEF CallType
<1>9. /\ e.pc # "idle" /\ e.pc # "loader" /\ e.pc # "crashed"
      /\ (e.pc = "adapter" <=> ~rj) /\ (e.pc = "leave" <=> rj)
  BY ONLY <1>2, <1>7
<1>10. Got(e) = {}
  BY Zenon, <1>3, <1>7 DEF Got
<1>11. CallOK(e)
  BY Zenon, <1>1, <1>2, <1>3, <1>7, <1>9 DEF CallOK
<1> QED
  BY Zenon, <1>7, <1>8, <1>9, <1>10, <1>11 DEF rj, id, EntryOK

\* The references the application keeps: what a call that releases takes is its own.
Leaves(t, arg) ==
  /\ held' \in [Objects -> Nat]
  /\ \A o \in Objects :
       /\ held'[o] + One(call'[t].pc = "adapter" /\ Releasing(call'[t])
                         /\ o = call'[t].arg.object) <= held[o]
       /\ \A u \in Threads :
            u # t /\ Busy(u) /\ o = call[u].arg.object /\ held[o] > 0 => held'[o] > 0
  /\ arg # Unbound /\ ~Releasing(call'[t]) => held'[arg.object] > 0

\* That is what Enter leaves.
LEMMA EntryHeld ==
  ASSUME IInv, NEW t \in Threads, call[t].pc = "idle",
         NEW api, NEW d, NEW arg, NEW out, NEW fault,
         Passed(t, api, d, arg, out, fault), Enter(t, api, d, arg, out, fault)
  PROVE  Leaves(t, arg)
<1> DEFINE e == EntryCall(api, d, arg, out, fault)
<1>1. /\ call' = [call EXCEPT ![t] = e]
      /\ held' = (IF Gone(api, d, arg, fault) THEN [o \in Objects |-> 0]
                  ELSE Given(api, d, arg, fault))
  <2>1. Enters(t, api, d, arg, out, fault)
    BY Zenon, EnterFacts
  <2> QED
    BY Zenon, <2>1 DEF Enters
<1>2. /\ call'[t] = e /\ e.api = api /\ e.arg = arg
      /\ (e.pc = "adapter" <=> ~Rejected(api, d, fault))
  <2>1. EntryOK(e, api, d, arg, fault)
    BY Zenon, EntryShape
  <2>2. call \in [Threads -> CallType]
    BY Zenon DEF IInv, Types
  <2> HIDE DEF e
  <2>3. call'[t] = e
    BY Zenon, <1>1, <2>2
  <2> QED
    BY Zenon, <2>1, <2>3 DEF EntryOK
<1>3. Releasing(e) <=> CountOp(api, arg) = "decrease"
  BY Zenon, <1>2 DEF Releasing
<1>4. Carries(api, d, arg, out, fault)
  BY Zenon, PassedFacts
<1>5. held \in [Objects -> Nat] /\ \A o \in Objects : held[o] \in Nat
  BY Zenon DEF IInv, Types
<1>6. CountOp(api, arg) = "decrease" => arg # Unbound
  <2>1. CountOp(api, arg) = "decrease" => CountOp(api, arg) # "none"
    OBVIOUS
  <2> QED
    BY Zenon, <2>1 DEF CountOp
<1>7. arg # Unbound => arg.object \in Objects /\ held[arg.object] > 0
  BY Zenon, <1>4 DEF Carries
<1> DEFINE took == ~Rejected(api, d, fault) /\ CountOp(api, arg) = "decrease"
           gone == Gone(api, d, arg, fault)
<1>8. gone => /\ took /\ held[arg.object] = 1
              /\ \A u \in Threads \ {t} : ~Busy(u)
  <2> SUFFICES ASSUME gone PROVE took /\ held[arg.object] = 1 /\ \A u \in Threads \ {t} : ~Busy(u)
    OBVIOUS
  <2>1. LastAdapter(api, arg) /\ ~Rejected(api, d, fault)
    BY Zenon DEF Gone
  <2>2. api.count.op = "decrease" /\ arg # Unbound /\ held[arg.object] = 1
    BY Zenon, <1>4, <2>1, RowsAssumption DEF LastAdapter, RowsAssumption, Carries
  <2>3. \A u \in Threads \ {t} : ~Busy(u)
    BY Zenon, <2>1 DEF Passed, MayCall
  <2> QED
    BY Zenon, <2>1, <2>2, <2>3 DEF CountOp
<1>9. ASSUME NEW o \in Objects
      PROVE  /\ gone => held'[o] = 0
             /\ ~gone /\ took /\ o = arg.object => held'[o] = held[o] - 1
             /\ ~gone /\ ~(took /\ o = arg.object) => held'[o] = held[o]
  <2>1. CASE gone
    BY Zenon, <1>1, <2>1
  <2>2. CASE ~gone /\ took
    <3>1. held' = [held EXCEPT ![arg.object] = held[arg.object] - 1]
      BY Zenon, <1>1, <2>2 DEF Given
    <3> HIDE DEF gone, took
    <3> QED
      BY Zenon, <1>5, <1>6, <1>7, <2>2, <3>1
  <2>3. CASE ~gone /\ ~took
    <3>1. held' = held
      BY Zenon, <1>1, <2>3 DEF Given
    <3> HIDE DEF gone, took
    <3> QED
      BY Zenon, <2>3, <3>1
  <2> QED
    BY Zenon, <2>1, <2>2, <2>3
<1>10. held' = [o \in Objects |-> held'[o]]
  <2>1. CASE gone
    BY Zenon, <1>1, <2>1
  <2>2. CASE ~gone
    <3>1. held' = Given(api, d, arg, fault)
      BY Zenon, <1>1, <2>2
    <3>2. held = [o \in Objects |-> held[o]]
      BY Zenon, <1>5
    <3>3. held' = held \/ held' = [held EXCEPT ![arg.object] = held[arg.object] - 1]
      BY Zenon, <3>1 DEF Given
    <3>4. DOMAIN held' = Objects /\ held' = [o \in DOMAIN held' |-> held'[o]]
      BY Zenon, <1>5, <3>2, <3>3
    <3> QED
      BY Zenon, <3>4
  <2> QED
    BY Zenon, <2>1, <2>2
<1>11. call'[t].pc = "adapter" /\ Releasing(call'[t]) <=> took
  BY Zenon, <1>2, <1>3
<1>12. took => arg.object \in Objects /\ held[arg.object] > 0
  BY Zenon, <1>6, <1>7
<1> HIDE DEF gone, took, e
<1>13. ASSUME NEW o \in Objects
       PROVE  /\ held'[o] \in Nat /\ held'[o] + One(took /\ o = arg.object) <= held[o]
  <2>1. held[o] \in Nat /\ (took /\ o = arg.object => held[o] > 0)
    BY Zenon, <1>5, <1>12
  <2>2. gone /\ o = arg.object => held[o] = 1
    BY Zenon, <1>8
  <2>3. /\ gone => held'[o] = 0
        /\ ~gone /\ took /\ o = arg.object => held'[o] = held[o] - 1
        /\ ~gone /\ ~(took /\ o = arg.object) => held'[o] = held[o]
    BY Zenon, <1>9
  <2> QED
    BY ONLY <2>1, <2>2, <2>3 DEF One
<1>14. ASSUME NEW o \in Objects, NEW u \in Threads, u # t, Busy(u), o = call[u].arg.object,
              held[o] > 0
       PROVE  held'[o] > 0
  <2>1. ~gone
    BY Zenon, <1>8, <1>14
  <2>2. CASE took /\ o = arg.object
    <3>1. held[o] # 1
      <4>1. CountOp(api, arg) = "decrease"
        BY Zenon, <2>2 DEF took
      <4>2. held[arg.object] = 1 => Unused(arg.object, t)
        BY Zenon, <4>1 DEF Passed, MayCall
      <4> QED
        BY Zenon, <1>14, <2>2, <4>2 DEF Unused
    <3>2. held'[o] = held[o] - 1 /\ held[o] \in Nat
      BY Zenon, <1>5, <1>9, <2>1, <2>2
    <3> QED
      BY ONLY <1>14, <3>1, <3>2
  <2>3. CASE ~(took /\ o = arg.object)
    BY Zenon, <1>9, <1>14, <2>1, <2>3
  <2> QED
    BY Zenon, <2>2, <2>3
<1>15. ASSUME arg # Unbound, ~Releasing(call'[t]) PROVE held'[arg.object] > 0
  <2>1. ~took
    BY Zenon, <1>2, <1>3, <1>15 DEF took, e
  <2> QED
    BY Zenon, <1>7, <1>8, <1>9, <1>15, <2>1
<1>16. call'[t].arg = arg
  BY Zenon, <1>2
<1>17. ASSUME NEW o \in Objects
       PROVE  held'[o] + One(call'[t].pc = "adapter" /\ Releasing(call'[t])
                             /\ o = call'[t].arg.object) <= held[o]
  <2>1. One(call'[t].pc = "adapter" /\ Releasing(call'[t]) /\ o = call'[t].arg.object)
          = One(took /\ o = arg.object)
    BY Zenon, <1>11, <1>16 DEF One
  <2> QED
    BY Zenon, <1>13, <2>1
<1>18. held' \in [Objects -> Nat]
  BY Zenon, <1>10, <1>13
<1> QED
  BY Zenon, <1>14, <1>15, <1>17, <1>18 DEF Leaves

\* The invariant as a call enters.
LEMMA EnterKeeps ==
  ASSUME IInv, NEW t \in Threads, call[t].pc = "idle",
         NEW api, NEW d, NEW arg, NEW out, NEW fault,
         Passed(t, api, d, arg, out, fault), Enter(t, api, d, arg, out, fault)
  PROVE  IInv'
<1> DEFINE e == EntryCall(api, d, arg, out, fault)
<1>1. /\ call' = [call EXCEPT ![t] = e] /\ UNCHANGED <<object, factory>>
      /\ stream' = (IF notify_begin(api, d) = "" THEN stream
                    ELSE [stream EXCEPT ![t] = notify_begin(api, d)])
  <2>1. Enters(t, api, d, arg, out, fault)
    BY Zenon, EnterFacts
  <2> QED
    BY Zenon, <2>1 DEF Enters
<1>2. EntryOK(e, api, d, arg, fault)
  BY Zenon, EntryShape
<1>3. Leaves(t, arg)
  BY Zenon, EntryHeld
<1>4. Carries(api, d, arg, out, fault)
  BY Zenon, PassedFacts
<1> HIDE DEF e
<1>5. /\ e \in CallType /\ CallOK(e) /\ e.pc # "idle" /\ e.pc # "loader"
      /\ e.api = api /\ e.arg = arg /\ e.instance = notify_begin(api, d) /\ Got(e) = {}
  BY Zenon, <1>2 DEF EntryOK
<1>6. Others(t) /\ call'[t] = e
  BY Zenon, <1>1 DEF IInv, Types, Others
<1>7. Types'
  <2>1. call' \in [Threads -> CallType]
    BY Zenon, <1>1, <1>5 DEF IInv, Types
  <2> QED
    BY Zenon, <1>1, <1>3, <2>1 DEF IInv, Types, Leaves
<1>8. Shapes'
  BY Zenon, <1>5, <1>6, ShapesStep DEF IInv
<1>9. Objs'
  BY Zenon, <1>1 DEF IInv, Objs
<1>10. Traces'
  <2> DEFINE ids == {""} \cup {a.id : a \in Apis}
  <2>1. stream[t] = "" /\ stream \in [Threads -> ids]
    <3>1. Idle.instance = ""
      BY DEF Idle
    <3> QED
      BY Zenon, <3>1 DEF IInv, Traces, Shapes
  <2>2. e.instance \in ids
    BY Zenon, <1>4, <1>5 DEF notify_begin, Carries
  <2>3. stream' = (IF e.instance = "" THEN stream ELSE [stream EXCEPT ![t] = e.instance])
    BY Zenon, <1>1, <1>5
  <2> HIDE DEF ids
  <2>4. /\ stream' \in [Threads -> ids] /\ stream'[t] = e.instance
        /\ \A u \in Threads : u # t => stream'[u] = stream[u]
    BY Zenon, <2>1, <2>2, <2>3
  <2> QED
    BY Zenon, <1>6, <2>4 DEF IInv, Traces, Others, ids
<1>11. News'
  BY Zenon, <1>1, <1>5, <1>6 DEF IInv, News, Others
<1>12. Uses'
  <2> SUFFICES ASSUME NEW u \in Threads, call'[u].pc # "idle", call'[u].arg # Unbound
               PROVE  /\ ~Releasing(call'[u]) => held'[call'[u].arg.object] > 0
                      /\ ~Releasing(call'[u]) \/ call'[u].pc = "adapter" =>
                           object[call'[u].arg.object].kind = call'[u].arg.of.kind
    BY Zenon, <1>1 DEF Uses, UseOK, Releasing
  <2>1. CASE u = t
    BY Zenon, <1>3, <1>4, <1>5, <1>6, <2>1 DEF Leaves, Carries
  <2>2. CASE u # t
    <3>1. call'[u] = call[u]
      BY Zenon, <1>6, <2>2 DEF Others
    <3>2. UseOK(call[u]) /\ CallOK(call[u]) /\ Busy(u)
      BY Zenon, <3>1 DEF IInv, Uses, Shapes, Busy
    <3>3. call[u].arg.object \in Objects
      BY Zenon, <3>1, <3>2 DEF CallOK
    <3>4. ASSUME ~Releasing(call[u]) PROVE held'[call[u].arg.object] > 0
      <4>1. held[call[u].arg.object] > 0
        BY Zenon, <3>1, <3>2, <3>4 DEF UseOK
      <4> QED
        BY Zenon, <1>3, <2>2, <3>2, <3>3, <4>1 DEF Leaves
    <3> QED
      BY Zenon, <3>1, <3>2, <3>4 DEF UseOK
  <2> QED
    BY Zenon, <2>1, <2>2
<1>13. ASSUME NEW o \in Objects
       PROVE  /\ held[o] \in Nat /\ held'[o] \in Nat
              /\ held'[o] + One(e.pc = "adapter" /\ Releasing(e) /\ o = e.arg.object) <= held[o]
  BY Zenon, <1>3, <1>6 DEF IInv, Types, Leaves
<1>14. ASSUME NEW k, NEW o
       PROVE  /\ Owes(e, o) => e.pc = "adapter" /\ Releasing(e) /\ o = e.arg.object
              /\ OwesEntry(e, k, o) => /\ e.pc = "adapter" /\ Releasing(e) /\ o = e.arg.object
                                       /\ k = object[o].kind
  <2>1. Owes(e, o) => e.pc = "adapter" /\ Releasing(e) /\ o = e.arg.object
    BY Zenon, <1>5 DEF Owes
  <2>2. OwesEntry(e, k, o) => /\ e.pc = "adapter" /\ Releasing(e) /\ o = e.arg.object
                              /\ k = e.arg.of.kind
    BY Zenon, <1>5 DEF OwesEntry
  <2>3. Releasing(e) => e.arg # Unbound
    <3>1. Releasing(e) => CountOp(e.api, e.arg) # "none"
      BY DEF Releasing
    <3> QED
      BY Zenon, <3>1 DEF CountOp
  <2>4. e.arg # Unbound => object[e.arg.object].kind = e.arg.of.kind
    BY Zenon, <1>4, <1>5 DEF Carries
  <2> QED
    BY Zenon, <2>1, <2>2, <2>3, <2>4
<1>15. RefsCover'
  <2>1. ASSUME NEW o \in Addresses
        PROVE  object'[o].refs + held[o] + (IF Owes(call[t], o) THEN 1 ELSE 0)
                 >= object[o].refs + held'[o] + (IF Owes(call'[t], o) THEN 1 ELSE 0)
    <3>1. object[o].refs \in Int /\ object'[o].refs = object[o].refs /\ o \in Objects
      BY <1>1 DEF IInv, Types, ObjectType, Objects
    <3>2. /\ held[o] \in Nat /\ held'[o] \in Nat
          /\ held'[o] + One(e.pc = "adapter" /\ Releasing(e) /\ o = e.arg.object) <= held[o]
      BY Zenon, <1>13, <3>1
    <3>3. Owes(call'[t], o) => e.pc = "adapter" /\ Releasing(e) /\ o = e.arg.object
      BY Zenon, <1>6, <1>14
    <3> QED
      BY ONLY <3>1, <3>2, <3>3 DEF One
  <2>2. object \in [Objects -> ObjectType] /\ held \in [Objects -> Nat]
    BY Zenon DEF IInv, Types
  <2> QED
    BY Zenon, <1>6, <1>7, <2>1, <2>2, RefsCoverStep DEF IInv, Types
<1>16. EntriesCover'
  <2>1. ASSUME NEW k \in AllKinds, NEW o \in Objects
        PROVE  Entries(<<k, o>>)' + HeldAs(k, o) + (IF OwesEntry(call[t], k, o) THEN 1 ELSE 0)
          >= Entries(<<k, o>>) + HeldAs(k, o)' + (IF OwesEntry(call'[t], k, o) THEN 1 ELSE 0)
    <3>1. Entries(<<k, o>>)' = Entries(<<k, o>>) /\ Entries(<<k, o>>) \in Nat
      BY Zenon, <1>1, EntriesNat DEF Entries, IInv
    <3>2. HeldAs(k, o)' = (IF object[o].kind = k THEN held'[o] ELSE 0)
      BY Zenon, <1>1 DEF HeldAs
    <3>3. HeldAs(k, o) = (IF object[o].kind = k THEN held[o] ELSE 0)
      BY Zenon DEF HeldAs
    <3>4. /\ held[o] \in Nat /\ held'[o] \in Nat
          /\ held'[o] + One(e.pc = "adapter" /\ Releasing(e) /\ o = e.arg.object) <= held[o]
      BY Zenon, <1>13
    <3>5. OwesEntry(call'[t], k, o) => /\ e.pc = "adapter" /\ Releasing(e) /\ o = e.arg.object
                                       /\ k = object[o].kind
      BY Zenon, <1>6, <1>14
    <3> QED
      BY ONLY <3>1, <3>2, <3>3, <3>4, <3>5 DEF One
  <2> QED
    BY Zenon, <1>6, <1>7, <2>1, EntriesCoverStep DEF IInv
<1>17. TablesOwn'
  BY Zenon, <1>1 DEF IInv, TablesOwn, Owns
<1> QED
  BY Zenon, <1>7, <1>8, <1>9, <1>10, <1>11, <1>12, <1>15, <1>16, <1>17 DEF IInv

\* So a call that enters keeps it.
LEMMA CallKeeps ==
  ASSUME IInv, NEW t \in Threads, Call(t)
  PROVE  IInv'
<1>1. call[t].pc = "idle"
  BY Zenon, CallPasses
<1>2. PICK api, d, arg, out, fault : /\ Passed(t, api, d, arg, out, fault)
                                     /\ Enter(t, api, d, arg, out, fault)
  BY Zenon, CallPasses
<1> QED
  BY Zenon, <1>1, <1>2, EnterKeeps

-------------------------------------------------------------------------------
(* The invariant.                                                          *)

\* Every step keeps it.
LEMMA NextKeeps == IInv /\ [Next]_vars => IInv'
<1> SUFFICES ASSUME IInv, [Next]_vars PROVE IInv'
  OBVIOUS
<1>1. CASE UNCHANGED <<object, held, factory, call, stream>>
  <2>1. Types' /\ Shapes' /\ Objs' /\ Traces' /\ News' /\ Uses'
    BY Zenon, <1>1 DEF IInv, Types, Shapes, Objs, Traces, News, Uses, UseOK
  <2>2. RefsCover'
    BY Zenon, <1>1 DEF IInv, RefsCover, Owing
  <2>3. EntriesCover'
    BY Zenon, <1>1 DEF IInv, EntriesCover, OwingEntry, Entries, HeldAs
  <2>4. TablesOwn'
    BY Zenon, <1>1 DEF IInv, TablesOwn, Owns
  <2> QED
    BY Zenon, <2>1, <2>2, <2>3, <2>4 DEF IInv
<1>2. CASE ToggleSubscriber \/ UNCHANGED vars
  BY Zenon, <1>1, <1>2 DEF ToggleSubscriber, vars
<1>3. ASSUME NEW t \in Threads,
             Call(t) \/ Crash(t) \/ NotProvided(t) \/ Execute(t) \/ Convert(t) \/ Leave(t)
      PROVE  IInv'
  BY Zenon, <1>3, CallKeeps, CrashKeeps, NotProvidedKeeps, ExecuteKeeps, ConvertKeeps,
     LeaveKeeps
<1> QED
  BY Zenon, <1>2, <1>3 DEF Next

\* The counts of the adapter and of the loader cover the references the application
\* owns and those on their way, whatever the threads do.
THEOREM Invariant == Spec => []IInv
<1>1. Init => IInv
  BY Zenon, InitIInv
<1>2. IInv /\ [Next]_vars => IInv'
  BY Zenon, NextKeeps
<1> QED
  BY <1>1, <1>2, PTL DEF Spec

\* Every notification of an end closes the begin of the same call on its thread: the
\* call remembers in notify_begin's instance whether a tool was told of it.
THEOREM NotificationsMatch == Spec => []TraceMatched
<1>1. IInv => TraceMatched
  <2> SUFFICES ASSUME IInv, NEW t \in Threads
               PROVE  stream[t] # "unmatched" /\ (~Busy(t) => stream[t] = "")
    BY Zenon DEF TraceMatched
  <2>1. stream[t] \in {""} \cup {api.id : api \in Apis} /\ stream[t] = call[t].instance
    BY Zenon DEF IInv, Traces
  <2>2. \A api \in Apis : api.id # "unmatched"
    BY Zenon, RowsAssumption DEF RowsAssumption
  <2>3. stream[t] # "unmatched"
    <3>1. "" # "unmatched"
      OBVIOUS
    <3> QED
      BY Zenon, <2>1, <2>2, <3>1
  <2>4. Idle.instance = ""
    BY DEF Idle
  <2> QED
    BY Zenon, <2>1, <2>3, <2>4 DEF IInv, Shapes, Busy
<1> QED
  BY <1>1, Invariant, PTL

\* A handle the application owns is found: the loader's entry for it counts at least
\* its references, and leads to the adapter of a static object, and to one that
\* allocates at the address of any other.
HandlesFound ==
  intercept_enabled =>
    \A o \in Objects :
      held[o] > 0 =>
        /\ Entries(Key(o)) >= held[o]
        /\ IF o \in Static THEN factory[Key(o)].dditable = object[o].adapter
           ELSE o \in Heap[factory[Key(o)].dditable]

\* The loader never erases the entry of a handle that the application owns, whatever
\* the other threads create, retain and release, and on whatever heaps: the counts of
\* ur_singleton.hpp cover the references (getInstance, retain and release).
THEOREM OwnedHandlesFound == Spec => []HandlesFound
<1>1. IInv => HandlesFound
  <2> SUFFICES ASSUME IInv, intercept_enabled, NEW o \in Objects, held[o] > 0
               PROVE  /\ Entries(Key(o)) >= held[o]
                      /\ IF o \in Static THEN factory[Key(o)].dditable = object[o].adapter
                         ELSE o \in Heap[factory[Key(o)].dditable]
    BY Zenon DEF HandlesFound
  <2> DEFINE k == object[o].kind
             key == <<k, o>>
  <2>1. k \in AllKinds
    <3>1. object[o] \in ObjectType
      BY Zenon DEF IInv, Types
    <3> QED
      BY <3>1 DEF ObjectType
  <2>2. Key(o) = key
    BY Zenon DEF Key
  <2>3. Entries(key) >= HeldAs(k, o) + Cardinality(OwingEntry(k, o))
    BY Zenon, <2>1 DEF IInv, EntriesCover
  <2>4. HeldAs(k, o) = held[o]
    BY Zenon DEF HeldAs
  <2>5. Cardinality(OwingEntry(k, o)) \in Nat
    <3>1. IsFiniteSet(Threads) /\ OwingEntry(k, o) \subseteq Threads
      BY Zenon, CallsAssumption DEF CallsAssumption, OwingEntry
    <3> QED
      BY Zenon, <3>1, FS_Subset, FS_CardinalityType
  <2>6. Entries(key) \in Nat /\ held[o] \in Nat
    BY Zenon, EntriesNat DEF IInv, Types
  <2> HIDE DEF k, key
  <2>7. Entries(key) >= held[o] /\ Entries(key) # 0
    BY ONLY <2>3, <2>4, <2>5, <2>6, held[o] > 0
  <2>8. key \in DOMAIN factory
    BY Zenon, <2>7 DEF Entries
  <2>9. Owns(factory[key].dditable, o)
    BY Zenon, <2>1, <2>8 DEF IInv, TablesOwn, key
  <2>10. o \in Static => object[o].adapter = o[2]
    <3> HAVE o \in Static
    <3>1. object[o] = [kind |-> o[1], adapter |-> o[2], refs |-> 1]
      BY Zenon DEF IInv, Objs
    <3> QED
      BY ONLY <3>1
  <2> QED
    BY Zenon, <2>2, <2>7, <2>9, <2>10 DEF Owns
<1> QED
  BY <1>1, Invariant, PTL

\* If the checks of the validation layer are complete, no call crashes but for the lists
\* and elements without a check: the loader's lookup of a handle never misses, whatever the other
\* threads release, so a parameter that no check rejects is the only cause.
THEOREM ChecksProtect == FaultsChecked(Apis) => (Spec => []NullSafe)
<1> SUFFICES ASSUME FaultsChecked(Apis) PROVE Spec => []NullSafe
  OBVIOUS
<1>1. IInv => NullSafe
  <2> SUFFICES ASSUME IInv, NEW t \in Threads, call[t].pc = "crashed"
               PROVE  Unchecked(call[t].api, call[t].fault)
    BY Zenon DEF NullSafe
  <2>1. call[t].pc # "idle"
    OBVIOUS
  <2>2. CallOK(call[t])
    BY Zenon, <2>1 DEF IInv, Shapes
  <2>3. /\ call[t].fault.fatal /\ call[t].fault.err = "" /\ call[t].api \in Apis
        /\ call[t].fault \in {Fine} \cup call[t].api.faults
    BY Zenon, <2>2 DEF CallOK
  <2>4. ~Fine.fatal
    BY DEF Fine
  <2> QED
    BY Zenon, <2>3, <2>4 DEF FaultsChecked
<1> QED
  BY <1>1, Invariant, PTL

===============================================================================

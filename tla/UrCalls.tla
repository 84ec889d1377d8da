------------------------------- MODULE UrCalls --------------------------------
(***************************************************************************)
(* A call of the API on its way through the layers: ur_libapi.cpp, tracing *)
(* (UrTracing), validation (UrValidation), the loader (UrLoader) and the   *)
(* adapter, which is the mock adapter (UrMock) behind the function tables  *)
(* of the real ones.                                                       *)
(*                                                                         *)
(* The application keeps to the contract of the API: it passes handles it  *)
(* owns, to functions of their kind, and gives up its last reference only  *)
(* when no call of another thread uses the handle.  With Misuse it also    *)
(* passes NULL or an illegal value for one parameter.                      *)
(*                                                                         *)
(* One handle argument and one output of a call are followed; the others   *)
(* are live objects of the same adapter.                                   *)
(***************************************************************************)
EXTENDS Integers, UrConfig

CONSTANTS
  Threads,    \* the threads of the application
  Apis,       \* the functions it calls, see Function of UrLayers
  Failing,    \* the names of those that may fail in the adapter
  Driver,     \* [Adapters -> the names of adapters of UrLayers]
  Addresses,  \* where objects are allocated
  Heap,       \* [Adapters -> SUBSET Addresses]
  Misuse,     \* may a call have an illegal parameter?
  MaxRefs,    \* bound: the references to one object
  MaxEntries, \* bound: the references to one entry of a handle factory
  NULL

\* The objects of an adapter that exist from the start and are never freed.
StaticKinds == {"adapter", "platform", "device"}
Static == StaticKinds \X Adapters
Objects == Static \cup Addresses

ASSUME CallsAssumption ==
  /\ DOMAIN Driver = Adapters
  /\ Heap \in [Adapters -> SUBSET Addresses]
  /\ Misuse \in BOOLEAN
  /\ MaxRefs \in Nat \ {0} /\ MaxEntries \in Nat \ {0}
  /\ NULL \notin Objects
  /\ Static \cap Addresses = {}
  /\ IsFiniteSet(Threads) /\ IsFiniteSet(Adapters)

\* What the rows of the functions have in common: a function that retains or
\* releases does so to the handle the loader counts, and makes nothing; what a
\* function makes is wrapped by the loader; the adapters' static objects are
\* returned, but not made and not counted by the adapter; urAdapterRelease releases.
ASSUME RowsAssumption ==
  \A api \in Apis :
    /\ api.count.op \in {"none", "increase", "decrease"}
    /\ api.count.op # "none" => api.outs = {}
    /\ \A p \in api.args :
         /\ p.op \in {"increase", "decrease"} => api.count.op = p.op /\ api.count.of = p.name
         /\ p.kind \in StaticKinds => p.op \notin {"increase", "decrease"}
         /\ api.count.op = "increase" /\ api.count.of = p.name =>
              p.op = "increase" \/ p.kind \in StaticKinds
    /\ api.outs # {} => "SUCCESS" \in api.keep
    /\ \A p \in api.outs :
         \/ p.op \in {"make", "make_if_set"} /\ p.kind \notin StaticKinds \cup {"none"}
         \/ p.op = "constant_if_set" /\ p.kind \in StaticKinds
         \/ p.op = "adopt" /\ p.kind # "none"
    /\ \A f \in api.faults : f.err # "SUCCESS"
    /\ api.id # "unmatched"
    /\ api.name = "urAdapterRelease" => api.count.op = "decrease"

VARIABLES
  object,       \* the adapters' objects: [kind, adapter, refs], refs = 0 if free
  held,         \* the references the application owns (1 for a platform it knows)
  factory,      \* the loader's handle factories: <<kind, object>> to its entry
  counts,       \* the leak checker's map: [n, kind], n = 0 if absent
  adapterCount, \* its number of live adapters
  report,       \* what it reported when the last adapter was released
  log,          \* the errors the validation layer has logged
  call,         \* the call every thread is in
  subscribed,   \* is a tool listening to the stream of calls?
  stream        \* per thread: the begin notification without an end yet

vars == <<object, held, factory, counts, adapterCount, report, log, call, subscribed,
          stream>>

-------------------------------------------------------------------------------
(* Calls.                                                                  *)

\* The handle of a call that is followed, if any, and an output, if any.
Nothing == [name |-> "", kind |-> "none", form |-> "none", op |-> "none"]
Unbound == [of |-> Nothing, object |-> NULL]
Usable(k, d) ==
  {o \in Objects : object[o].kind = k /\ object[o].adapter = d /\ held[o] > 0}
Bindings(api, d) ==
  LET bound == UNION {{[of |-> p, object |-> o] : o \in Usable(p.kind, d)} : p \in api.args}
  IN  {Unbound} \cup IF api.count.op = "none" THEN bound
                     ELSE {b \in bound : b.of.name = api.count.of}

\* How a call changes the references to its handle, which may be NULL.
CountOp(api, arg) == IF arg = Unbound THEN "none" ELSE api.count.op

\* An output is one the adapter sets, or NULL: where that is legal, or the fault.
Fine == [how |-> "none", of |-> "", legal |-> TRUE, err |-> "", fatal |-> FALSE]
OutputsOf(api, fault) ==
  {p \in api.outs : p.name # fault.of}
  \cup (IF \A p \in api.outs : p.op = "make" => p.name = fault.of THEN {Nothing} ELSE {})

Idle ==
  [pc |-> "idle", api |-> NULL, d |-> NULL, arg |-> Unbound, out |-> Nothing, fault |-> Fine,
   rejected |-> FALSE, via |-> NULL, res |-> "", new |-> {}, instance |-> ""]
Busy(t) == call[t].pc # "idle"

-------------------------------------------------------------------------------
(* Tracing: notify_begin and notify_end of ur_tracing_layer.cpp.           *)

\* Without the loader in between, the innermost layer finds the slot empty, and
\* the tracing layer gives no notice if it is the one.
EmptySlot(api, d) == Driver[d] \in api.missing
Nowhere(api, d) == ~intercept_enabled /\ EmptySlot(api, d)
EmptyResult == IF Validating \/ ~Tracing THEN "UNINITIALIZED" ELSE "UNSUPPORTED_FEATURE"
notify_begin(api, d) ==
  IF Tracing /\ subscribed /\ (Nowhere(api, d) => Validating) THEN api.id ELSE ""
\* Mutant: the end is sent if a tool listens now.
notify_endIfSubscribed(t, instance) ==
  stream' = IF ~subscribed THEN stream
            ELSE [stream EXCEPT ![t] = IF @ = instance THEN "" ELSE "unmatched"]
notify_end(t, instance) ==
  stream' = IF instance = "" THEN stream
            ELSE [stream EXCEPT ![t] = IF @ = instance THEN "" ELSE "unmatched"]

-------------------------------------------------------------------------------
(* Validation.                                                             *)

Absent == [n |-> 0, kind |-> "none"]
Entry(n, k) == IF n = 0 THEN Absent ELSE [n |-> n, kind |-> k]
\* Mutant: a single reference is not enough.
isReferenceShared(c, o, k) == c[o].n > 1 /\ c[o].kind = k
isReferenceValid(c, o, k) == c[o].n >= 1 /\ c[o].kind = k

\* The handles the report names, from the map before and after the last release.
\* Mutant: the report is made before the handle is erased.
LeakedBefore(before, after) == {o \in Objects : before[o].n # 0}
Leaked(before, after) == {o \in Objects : after[o].n # 0}

\* The error of an update of a handle with the count n, and the count after it: a
\* creation or a retain with an error changes nothing.
UpdateError(op, n) ==
  CASE op = "create" /\ n # 0 -> {"already exists"}
    [] op = "increase" /\ n = 0 -> {"retain nonexistent"}
    [] op = "decrease" /\ n <= 0 -> {"release nonexistent"}
    [] OTHER -> {}
\* Mutant: a retain sets the count to that of a new handle.
UpdatedOnce(op, n) == IF op = "decrease" THEN n - 1 ELSE 1
Updated(op, n) ==
  IF UpdateError(op, n) # {} /\ op # "decrease" THEN n
  ELSE IF op = "decrease" THEN n - 1 ELSE n + 1

\* updateRefCount of ur_leak_check.hpp for the handles hs of kind k, of which only
\* the creation of adapters has several: the map, the number of adapters and the
\* errors after it.  The map is cleared after the report when no adapter is left.
updateRefCount(state, op, hs, k) ==
  LET c == state.counts
      Kept(o) == UpdateError(op, c[o].n) # {} /\ op # "decrease"
      adapters ==
        IF k # "adapter" THEN state.adapters
        ELSE CASE op = "create_or_increase" ->
                    state.adapters + Cardinality({o \in hs : c[o].n = 0})
               [] op = "decrease" -> state.adapters - Cardinality({o \in hs : c[o].n = 1})
               [] OTHER -> state.adapters
      after == [o \in Objects |->
                  IF o \in hs THEN Entry(Updated(op, c[o].n), IF c[o].n = 0 THEN k ELSE c[o].kind)
                  ELSE c[o]]
      clear == adapters = 0 /\ \E o \in hs : ~Kept(o)
  IN  [counts |-> IF clear THEN [o \in Objects |-> Absent] ELSE after,
       adapters |-> adapters,
       leaks |-> IF clear THEN Leaked(c, after) ELSE {},
       errors |-> UNION {UpdateError(op, c[o].n) : o \in hs}]

Leaks ==
  [counts |-> counts, adapters |-> adapterCount, leaks |-> {}, errors |-> {}]

\* The lifetime checks: every handle the row names; of the handles a call
\* carries only the one that is followed, and a NULL, can be invalid.
LifetimeErrors(api, arg, fault) ==
  IF enableLifetimeValidation
     /\ \E h \in api.alive :
          \/ h = arg.of.name /\ ~isReferenceValid(counts, arg.object, arg.of.kind)
          \/ h = fault.of /\ fault.how = "null"
  THEN {"no valid references"} ELSE {}

-------------------------------------------------------------------------------
(* The handle factories: singleton_factory_t of ur_singleton.hpp.          *)

\* getInstance for every key of a set; the adapters come with their own table.
\* Mutant: the entry has no table.
NoTable(key, d) == NULL
TableOf(key, d) == IF key[1] = "adapter" THEN key[2][2] ELSE d
\* Mutant: a new entry does not get into the map.
getInstanceLost(fac, keys, d) ==
  [key \in DOMAIN fac |->
     [fac[key] EXCEPT !.ref_count = IF key \in keys THEN @ + 1 ELSE @]]
getInstance(fac, keys, d) ==
  [key \in DOMAIN fac \cup keys |->
     IF key \notin DOMAIN fac THEN [dditable |-> TableOf(key, d), ref_count |-> 0]
     ELSE [fac[key] EXCEPT !.ref_count = IF key \in keys THEN @ + 1 ELSE @]]
\* Mutant: a retain is not counted.
retainNothing(fac, key) == fac
retain(fac, key) == [fac EXCEPT ![key].ref_count = @ + 1]
\* Mutant: the entry is erased one release too early.
releaseEarly(fac, key) ==
  IF fac[key].ref_count <= 1 THEN [x \in DOMAIN fac \ {key} |-> fac[x]]
  ELSE [fac EXCEPT ![key].ref_count = @ - 1]
release(fac, key) ==
  IF fac[key].ref_count = 0 THEN [x \in DOMAIN fac \ {key} |-> fac[x]]
  ELSE [fac EXCEPT ![key].ref_count = @ - 1]
Key(o) == <<object[o].kind, o>>
Entries(key) == IF key \in DOMAIN factory THEN factory[key].ref_count + 1 ELSE 0

-------------------------------------------------------------------------------
(* Init: nothing has been called since urLoaderInit.                       *)

Free == [kind |-> "none", adapter |-> NULL, refs |-> 0]
Init ==
  /\ object = [o \in Objects |-> IF o \in Static
                                 THEN [kind |-> o[1], adapter |-> o[2], refs |-> 1]
                                 ELSE Free]
  /\ held = [o \in Objects |-> 0]
  /\ factory = [x \in {} |-> 0]
  /\ counts = [o \in Objects |-> Absent]
  /\ adapterCount = 0
  /\ report = [shown |-> {}, owned |-> {}]
  /\ log = {}
  /\ call = [t \in Threads |-> Idle]
  /\ subscribed \in (IF Tracing THEN BOOLEAN ELSE {FALSE})
  /\ stream = [t \in Threads |-> ""]

\* A tool subscribes to the stream of calls, or stops.
ToggleSubscriber ==
  /\ Tracing
  /\ subscribed' = ~subscribed
  /\ UNCHANGED <<object, held, factory, counts, adapterCount, report, log, call, stream>>

-------------------------------------------------------------------------------
(* A call enters.                                                          *)

\* The contract of the application.
Unused(o, t) == \A u \in Threads \ {t} : Busy(u) => o # call[u].arg.object
LastAdapter(api, arg) ==
  /\ api.name = "urAdapterRelease" /\ arg # Unbound
  /\ held[arg.object] = 1
  /\ \A a \in Adapters : held[<<"adapter", a>>] > 0 => <<"adapter", a>> = arg.object
MayCall(t, api, d, arg) ==
  /\ api.name = "urAdapterGet" \/ held[<<"adapter", d>>] > 0
  /\ CountOp(api, arg) = "decrease" /\ held[arg.object] = 1 => Unused(arg.object, t)
  /\ LastAdapter(api, arg) => \A u \in Threads \ {t} : ~Busy(u)
Bounded(api, arg, out) ==
  LET More(o) == /\ held[o] + Cardinality({u \in Threads : Busy(u)}) < MaxRefs
                 /\ Entries(Key(o)) < MaxEntries
  IN  /\ CountOp(api, arg) = "increase" => More(arg.object)
      /\ out.op = "constant_if_set" => \A a \in Adapters : More(<<out.kind, a>>)

\* What the application still has to release; a platform cannot be released.
Releasable(hs) == {o \in Objects : hs[o] > 0 /\ object[o].kind # "platform"}

\* The tracing and the validation layer before the call goes on.  A release is
\* counted before it happens.
Enter(t, api, d, arg, out, fault) ==
  LET rejected == Nowhere(api, d) \/ fault.err # ""
      decrease == /\ enableLeakChecking /\ ~rejected
                  /\ api.checked.op = "decrease" /\ api.checked.of = arg.of.name
      after == IF decrease THEN updateRefCount(Leaks, "decrease", {arg.object}, arg.of.kind)
               ELSE Leaks
      gone == ~rejected /\ LastAdapter(api, arg)
      given == IF ~rejected /\ CountOp(api, arg) = "decrease"
               THEN [held EXCEPT ![arg.object] = @ - 1] ELSE held
  IN  /\ call' = [call EXCEPT ![t] =
                    [pc |-> IF rejected THEN "leave" ELSE "adapter", api |-> api, d |-> d,
                     arg |-> arg, out |-> out, fault |-> fault, rejected |-> rejected,
                     via |-> NULL,
                     res |-> IF Nowhere(api, d) THEN EmptyResult ELSE fault.err,
                     new |-> {}, instance |-> notify_begin(api, d)]]
      /\ stream' = IF notify_begin(api, d) = "" THEN stream
                   ELSE [stream EXCEPT ![t] = notify_begin(api, d)]
      /\ counts' = after.counts
      /\ adapterCount' = after.adapters
      /\ log' = log \cup after.errors
                    \cup (IF rejected THEN {} ELSE LifetimeErrors(api, arg, fault))
      /\ report' = IF gone
                   THEN [shown |-> after.leaks, owned |-> Releasable(given)]
                   ELSE report
      /\ held' = IF gone THEN [o \in Objects |-> 0] ELSE given
      /\ UNCHANGED <<object, factory, subscribed>>

-------------------------------------------------------------------------------
(* The loader and the adapter.                                             *)

ArgKey(c) == <<c.arg.of.kind, c.arg.object>>
Crashes(c) ==
  \/ c.fault.fatal
  \/ intercept_enabled /\ c.arg # Unbound /\ ArgKey(c) \notin DOMAIN factory

\* The adapter whose table the loader calls.
Target(c) ==
  IF intercept_enabled /\ c.arg # Unbound /\ c.arg.of.name = c.api.table
  THEN factory[ArgKey(c)].dditable ELSE c.d

\* Undefined behaviour ends the call.
Crash(t) ==
  /\ call[t].pc = "adapter" /\ Crashes(call[t])
  /\ call' = [call EXCEPT ![t].pc = "crashed"]
  /\ UNCHANGED <<object, held, factory, counts, adapterCount, report, log, subscribed,
                 stream>>

\* The loader finds the slot of the adapter empty.
NotProvided(t) ==
  /\ call[t].pc = "adapter" /\ ~Crashes(call[t])
  /\ EmptySlot(call[t].api, Target(call[t]))
  /\ call' = [call EXCEPT ![t] = [@ EXCEPT !.pc = "leave", !.res = "UNINITIALIZED"]]
  /\ UNCHANGED <<object, held, factory, counts, adapterCount, report, log, subscribed,
                 stream>>

\* What the adapter can return in an output: a new object, an object that is
\* there already, or one it adopts for a native handle.
Candidates(c, d) ==
  CASE c.out = Nothing -> {{}}
    [] c.out.op \in {"make", "make_if_set"} ->
         {{a} : a \in {x \in Heap[d] : object[x].refs = 0}}
    [] c.out.op = "constant_if_set" ->
         {IF c.out.kind = "adapter" THEN {"adapter"} \X Adapters ELSE {<<c.out.kind, d>>}}
    [] c.out.op = "adopt" ->
         {{}} \cup {{o} : o \in {x \in Addresses : /\ object[x].kind = c.out.kind
                                                  /\ object[x].adapter = d
                                                  /\ object[x].refs < MaxRefs
                                                  /\ Entries(Key(x)) < MaxEntries}}

Outcomes(c, d) ==
  LET new == Candidates(c, d)
  IN  {[res |-> "SUCCESS", new |-> n] : n \in new}
      \cup (IF c.api.name \notin Failing /\ new # {} THEN {}
            ELSE {[res |-> "ERROR", new |-> {}]}
                 \cup {[res |-> r, new |-> n] : r \in c.api.keep \ {"SUCCESS"}, n \in new})

\* The adapter does its work, or fails.
Execute(t) ==
  LET c == call[t]
      d == Target(c)
  IN  /\ c.pc = "adapter" /\ ~Crashes(c)
      /\ ~EmptySlot(c.api, d)
      /\ \E r \in Outcomes(c, d) :
           LET Does(what, o) ==
                 o = c.arg.object /\ r.res = "SUCCESS" /\ c.arg.of.op = what
           IN  /\ object' = [o \in Objects |->
                    IF o \in r.new \ Static
                    THEN IF object[o].refs = 0
                         THEN [kind |-> c.out.kind, adapter |-> d, refs |-> 1]
                         ELSE [object[o] EXCEPT !.refs = @ + 1]
                    ELSE IF Does("increase", o) THEN [object[o] EXCEPT !.refs = @ + 1]
                    ELSE IF Does("decrease", o)
                    THEN IF object[o].refs = 1 THEN Free
                         ELSE [object[o] EXCEPT !.refs = @ - 1]
                    ELSE object[o]]
               /\ call' = [call EXCEPT ![t] =
                    [@ EXCEPT !.pc = IF intercept_enabled THEN "loader" ELSE "leave",
                              !.via = d, !.res = r.res, !.new = r.new]]
      /\ UNCHANGED <<held, factory, counts, adapterCount, report, log, subscribed, stream>>

\* The loader after the adapter: it wraps outputs and the handles a query
\* returns, and counts a retain or release whatever its result.
Convert(t) ==
  LET c == call[t]
      made == IF c.res \in c.api.keep THEN {<<c.out.kind, o>> : o \in c.new} ELSE {}
      Found == {o \in Objects : /\ object[o].refs > 0 /\ object[o].kind \in c.api.found
                                /\ object[o].adapter = c.via
                                /\ Entries(Key(o)) < MaxEntries}
  IN  /\ c.pc = "loader"
      /\ \E q \in {{}} \cup (IF c.res = "SUCCESS" THEN {{Key(o)} : o \in Found} ELSE {}) :
           LET fac == getInstance(factory, made \cup q, c.via)
           IN  factory' = CASE CountOp(c.api, c.arg) = "increase" -> retain(fac, ArgKey(c))
                            [] CountOp(c.api, c.arg) = "decrease" -> release(fac, ArgKey(c))
                            [] OTHER -> fac
      /\ call' = [call EXCEPT ![t].pc = "leave"]
      /\ UNCHANGED <<object, held, counts, adapterCount, report, log, subscribed, stream>>

-------------------------------------------------------------------------------
(* The call leaves: the validation layer counts what was created, on       *)
(* success, and a retain, whatever its result; then the trace ends.        *)

\* The references the application gets.
Got(c) ==
  IF CountOp(c.api, c.arg) = "increase" /\ c.res = "SUCCESS" THEN {c.arg.object} ELSE c.new

Leave(t) ==
  LET c == call[t]
      count == c.api.checked
      created == /\ count.op \in {"create", "create_or_increase"} /\ count.of = c.out.name
                 /\ c.res = "SUCCESS"
      after == IF ~enableLeakChecking \/ c.rejected THEN Leaks
               ELSE IF created THEN updateRefCount(Leaks, count.op, c.new, c.out.kind)
               ELSE IF count.op = "increase" /\ c.arg # Unbound
               THEN updateRefCount(Leaks, "increase", {c.arg.object}, c.arg.of.kind)
               ELSE Leaks
      got == Got(c)
  IN  /\ c.pc = "leave"
      /\ counts' = after.counts
      /\ adapterCount' = after.adapters
      /\ log' = log \cup after.errors
      /\ held' = [o \in Objects |-> IF o \notin got THEN held[o]
                                   ELSE IF object[o].kind = "platform" THEN 1
                                   ELSE held[o] + 1]
      /\ notify_end(t, c.instance)
      /\ call' = [call EXCEPT ![t] = Idle]
      /\ UNCHANGED <<object, factory, report, subscribed>>

-------------------------------------------------------------------------------
\* A thread makes a call.
Call(t) ==
  /\ ~Busy(t)
  /\ \E api \in Apis, d \in Adapters :
       \E arg \in Bindings(api, d) :
         /\ MayCall(t, api, d, arg)
         /\ \E fault \in {Fine} \cup (IF Misuse THEN api.faults ELSE {}) :
              \E out \in OutputsOf(api, fault) :
                /\ fault.of = "" \/ arg.of.name # fault.of
                /\ arg = Unbound /\ api.count.op # "none" => fault.of = api.count.of
                /\ Bounded(api, arg, out)
                /\ Enter(t, api, d, arg, out, fault)

Next ==
  \/ \E t \in Threads : Call(t) \/ Crash(t) \/ NotProvided(t) \/ Execute(t) \/ Convert(t)
                          \/ Leave(t)
  \/ ToggleSubscriber
Spec == Init /\ [][Next]_vars

-------------------------------------------------------------------------------
(* Properties.                                                             *)

Kinds == {p.kind : p \in UNION {api.args \cup api.outs : api \in Apis}} \cup {"none"}
TypeOK ==
  /\ \A o \in Objects :
       /\ object[o].kind \in Kinds \cup {"adapter", "platform", "device"}
       /\ object[o].adapter \in Adapters \cup {NULL}
       /\ object[o].refs \in 0..MaxRefs + Cardinality(Threads)
       /\ held[o] \in 0..MaxRefs
       /\ counts[o].n \in -1..MaxRefs
  /\ \A key \in DOMAIN factory :
       factory[key].dditable \in Adapters /\ factory[key].ref_count \in 0..MaxEntries + Cardinality(Threads)
  /\ adapterCount \in 0..Cardinality(Adapters)
  /\ \A t \in Threads :
       /\ call[t].pc \in {"idle", "adapter", "loader", "leave", "crashed"}
       /\ call[t].new \subseteq Objects
  /\ subscribed \in BOOLEAN

\* The counted lists that no check of the validation layer compares with NULL.
UncheckedLists ==
  {<<"urContextCreateWithNativeHandle", "phDevices">>,
   <<"urBindlessImagesImageCopyExp", "phEventWaitList">>,
   <<"urBindlessImagesWaitExternalSemaphoreExp", "phEventWaitList">>,
   <<"urBindlessImagesSignalExternalSemaphoreExp", "phEventWaitList">>,
   <<"urEnqueueKernelLaunchCustomExp", "phEventWaitList">>,
   <<"urEnqueueNativeCommandExp", "phEventWaitList">>,
   <<"urEnqueueNativeCommandExp", "phMemList">>}
\* The lists whose elements no check compares with NULL.
UncheckedElements ==
  {<<"urPlatformGet", "phAdapters">>, <<"urContextCreate", "phDevices">>,
   <<"urContextCreateWithNativeHandle", "phDevices">>,
   <<"urProgramCreateWithBinary", "phDevices">>, <<"urProgramBuildExp", "phDevices">>,
   <<"urProgramCompileExp", "phDevices">>, <<"urProgramLinkExp", "phDevices">>,
   <<"urProgramLinkExp", "phPrograms">>, <<"urProgramLink", "phPrograms">>,
   <<"urEventWait", "phEventWaitList">>, <<"urEnqueueNativeCommandExp", "phMemList">>,
   <<"urCommandBufferAppendKernelLaunchExp", "phKernelAlternatives">>}
Unchecked(api, fault) ==
  \/ fault.how = "list" /\ <<api.name, fault.of>> \in UncheckedLists
  \/ fault.how = "element" /\ <<api.name, fault.of>> \in UncheckedElements

\* With parameter validation no call reads or writes through a NULL handle,
\* pointer, list or element of a list in the loader or the adapter, but for the
\* lists above and the elements of those above (ur_valddi.cpp).
NullSafe ==
  \A t \in Threads : call[t].pc = "crashed" => Unchecked(call[t].api, call[t].fault)

\* A call is rejected only for a parameter that is illegal, and with the error
\* for it: a NULL handle, a NULL pointer and a bad wait list are told apart (the
\* list of urEventWait is a required pointer).
RightError ==
  \A t \in Threads :
    LET c == call[t]
        handle == \E p \in c.api.args : p.name = c.fault.of /\ p.form = "in"
    IN  c.rejected /\ c.res = c.fault.err =>
          /\ ~c.fault.legal
          /\ c.fault.how = "null" =>
               c.res = IF handle THEN "INVALID_NULL_HANDLE" ELSE "INVALID_NULL_POINTER"
          /\ c.fault.of = "phEventWaitList" /\ c.fault.how # "null"
               /\ c.api.name # "urEventWait" =>
               c.res = "INVALID_EVENT_WAIT_LIST"

\* A handle the application owns leads to the adapter whose object it is: the
\* loader's entry for it exists and holds that adapter's table.
HandlesDispatch ==
  intercept_enabled =>
    \A o \in Objects :
      held[o] > 0 => /\ Entries(Key(o)) >= held[o]
                     /\ factory[Key(o)].dditable = object[o].adapter

\* The leak checker counts exactly the references the application owns, at
\* every moment and whatever the other threads do.
CountsExact ==
  enableLeakChecking =>
    \A o \in Objects : object[o].kind # "platform" => counts[o].n = held[o]

\* When the last adapter is released the leak checker reports exactly the
\* handles the application has not released.
LeakReportExact == enableLeakChecking => report.shown = report.owned

\* A program that keeps to the contract causes no error of the validation layer.
NoFalseAlarm == log = {}

\* Every end notification follows the begin of the same call on its thread, and
\* every begin gets its end, though a tool may come or go during the call.
TraceMatched ==
  \A t \in Threads : stream[t] # "unmatched" /\ (~Busy(t) => stream[t] = "")

-------------------------------------------------------------------------------
(* What the theorems assume of the rows of the functions.                  *)

\* Every parameter that the loader or the adapter reads or writes through though it is
\* NULL has a check that rejects it, but for the unchecked lists and elements.
FaultsChecked(apis) ==
  \A api \in apis : \A f \in api.faults : f.fatal /\ f.err = "" => Unchecked(api, f)

\* The validation layer counts a function as the loader and the adapter do: retains
\* and releases of the same handle, which every adapter has and none fails; every
\* output but a platform, if it is new or one of the adapter's own static objects, and
\* on success alone.  It looks up the handles of parameters other than platforms.
Tracked(api) ==
  /\ api.count.op # "none" =>
       /\ api.checked.op = api.count.op /\ api.checked.of = api.count.of /\ api.count.of # ""
       /\ api.name \notin Failing /\ \A d \in Adapters : Driver[d] \notin api.missing
       /\ \A p \in api.args :
            p.name = api.count.of =>
              /\ p.kind # "platform"
              /\ api.count.op = "decrease" => (p.kind = "adapter" <=> api.name = "urAdapterRelease")
  /\ api.count.op = "none" => api.checked.op \notin {"increase", "decrease"}
  /\ api.outs # {} => api.keep = {"SUCCESS"}
  /\ \A p \in api.outs :
       IF p.kind = "platform" THEN api.checked.of # p.name
       ELSE /\ api.checked.of = p.name
            /\ \/ p.op \in {"make", "make_if_set"} /\ api.checked.op = "create"
               \/ p.op = "constant_if_set" /\ api.checked.op = "create_or_increase"
  /\ api.name = "urAdapterGet" => api.count.op = "none" /\ \A p \in api.outs : p.kind = "adapter"
  /\ "" \notin api.alive /\ \A p \in api.args : p.kind = "platform" => p.name \notin api.alive
LeakTracked == \A api \in Apis : Tracked(api)

-------------------------------------------------------------------------------
(* The calls on contexts implement HandleCounts.                           *)

CountsCall(t) ==
  LET c == call[t]
      op == CASE ~Busy(t) -> "none"
              [] Busy(t) /\ c.out.kind = "context" -> "create"
              [] Busy(t) /\ c.arg.of.kind = "context" ->
                   [none |-> "none", increase |-> "retain", decrease |-> "release"][c.api.count.op]
              [] OTHER -> "none"
  IN  IF op = "none" THEN [op |-> op, h |-> NULL, at |-> "idle"]
      ELSE [op |-> op, at |-> c.pc,
            h |-> IF op # "create" THEN c.arg.object
                  ELSE IF c.new = {} THEN NULL ELSE CHOOSE o \in c.new : TRUE]
InFlight(o) ==
  Cardinality({t \in Threads : /\ CountsCall(t).h = o
                               /\ IF CountsCall(t).op = "release" THEN call[t].pc = "adapter"
                                  ELSE call[t].pc \in {"loader", "leave"}})
Contexts ==
  INSTANCE HandleCounts WITH
    Handles <- Addresses, None <- NULL,
    refs <- [o \in Addresses |-> object[o].refs],
    entry <- [o \in Addresses |-> Entries(<<"context", o>>)],
    counts <- [o \in Addresses |-> counts[o].n],
    held <- [o \in Addresses |-> held[o]],
    lost <- [o \in Addresses |-> object[o].refs - held[o] - InFlight(o)],
    call <- [t \in Threads |-> CountsCall(t)]

\* The adapter, the loader and the leak checker count the references to a
\* context in step: every step of a call is a step of HandleCounts.
CountsInStep == Contexts!Spec
===============================================================================

------------------------------- MODULE UrRows --------------------------------
(***************************************************************************)
(* The vocabulary of the rows that describe the layers between the         *)
(* application and an adapter, see UrTracing, UrValidation, UrLoader and   *)
(* UrMock.                                                                 *)
(***************************************************************************)
EXTENDS Sequences

\* A table of function pointers: every slot holds the function of its name,
\* but for the slots that are left empty.
Own(t) == [table |-> t, empty |-> {}]
Without(t, slots) == [table |-> t, empty |-> slots]

\* Changes of a reference count, named as in ur_leak_check.hpp.
NoCount == [op |-> "none", of |-> ""]
Create(p) == [op |-> "create", of |-> p]
CreateOrIncrease(p) == [op |-> "create_or_increase", of |-> p]
Increase(p) == [op |-> "increase", of |-> p]
Decrease(p) == [op |-> "decrease", of |-> p]

\* Tracing.
Traced(i) == [id |-> i]

\* Validation: a test on a parameter and the error it returns.  "null": the
\* parameter is NULL; "list": a counted list is NULL; "element": an element of
\* it is; "value": a condition on plain data; "bounds": the access leaves the
\* allocation of the handle.
Handle(p) == [test |-> "null", of |-> p, err |-> "INVALID_NULL_HANDLE"]
Pointer(p) == [test |-> "null", of |-> p, err |-> "INVALID_NULL_POINTER"]
Listed(p, e) == [test |-> "list", of |-> p, err |-> e]
WaitList == Listed("phEventWaitList", "INVALID_EVENT_WAIT_LIST")
WaitElements ==
  [test |-> "element", of |-> "phEventWaitList", err |-> "INVALID_EVENT_WAIT_LIST"]
Value(e) == [test |-> "value", of |-> "", err |-> e]
Bounds(p) == [test |-> "bounds", of |-> p, err |-> "INVALID_SIZE"]
BoundsImage(p) == Bounds(p)
Checked(cs, hs, c) == [checks |-> cs, alive |-> hs, count |-> c]

\* Loader: how a parameter is converted from a loader handle.
Need(p) == [of |-> p, how |-> "need"]
IfSet(p) == [of |-> p, how |-> "if_set"]
Each(p) == [of |-> p, how |-> "each"]
\* How an output is converted to a loader handle.
Wrap(p, k) == [of |-> p, kind |-> k, how |-> "need"]
WrapIfSet(p, k) == [of |-> p, kind |-> k, how |-> "if_set"]
WrapEach(p, k) == [of |-> p, kind |-> k, how |-> "each"]
\* The results after which the outputs are wrapped.
OnSuccess == {"SUCCESS"}
OrSpecific == {"SUCCESS", "ADAPTER_SPECIFIC"}
Always == {"SUCCESS", "ADAPTER_SPECIFIC", "ERROR"}

LoaderRow(t, us, rs, ws, ks, c) ==
  [table |-> t, unwrap |-> us, keep |-> rs, wrap |-> ws, found |-> ks, count |-> c]
Forward(t, us) == LoaderRow(t, us, {}, <<>>, {}, NoCount)
ForwardWrap(t, us, rs, ws) == LoaderRow(t, us, rs, ws, {}, NoCount)
ForwardInfo(t, us, ks) == LoaderRow(t, us, OnSuccess, <<>>, ks, NoCount)
ForwardCount(t, us, c) == LoaderRow(t, us, {}, <<>>, {}, c)
\* The two enumerations: the loader asks every platform it loaded, and every
\* adapter it is given, whose handles it passes on as they are.
ForEachPlatform(p, k) == LoaderRow("platforms", <<>>, OnSuccess, <<WrapEach(p, k)>>, {}, NoCount)
ForEachAdapter(h, p, k) == LoaderRow(h, <<>>, OnSuccess, <<WrapEach(p, k)>>, {}, NoCount)

\* Adapter: what a function does to its parameters.
Make(p) == [op |-> "make", of |-> p]
MakeIfSet(p) == [op |-> "make_if_set", of |-> p]
ConstantIfSet(p) == [op |-> "constant_if_set", of |-> p]
Adopt(p, h) == [op |-> "adopt", of |-> p]
Write(p) == [op |-> "write", of |-> p]
Free(p) == [op |-> "free", of |-> p]
Default(es) == es
===============================================================================

------------------------------- MODULE UrLayers -------------------------------
(***************************************************************************)
(* The layers a function of the API goes through, put together from the    *)
(* rows of UrLib, UrTracing, UrValidation, UrLoader and UrMock and the     *)
(* function tables of the adapters.                                        *)
(***************************************************************************)
EXTENDS UrConfig, Sequences, Functions

Lib == INSTANCE UrLib
Trc == INSTANCE UrTracing
Val == INSTANCE UrValidation
Ldr == INSTANCE UrLoader
Mock == INSTANCE UrMock
LevelZero == INSTANCE UrLevelZero
Cuda == INSTANCE UrCuda
Hip == INSTANCE UrHip
OpenCL == INSTANCE UrOpenCL
NativeCpu == INSTANCE UrNativeCpu

AllFunctions == DOMAIN Lib!Rows
Tables ==
  [mock |-> Mock!Tables, level_zero |-> LevelZero!Tables, cuda |-> Cuda!Tables,
   hip |-> Hip!Tables, opencl |-> OpenCL!Tables, native_cpu |-> NativeCpu!Tables]

\* A layer has a function of its own in the slot of f.
Intercepts(tables, f) == Lib!Rows[f].slot \notin tables[Lib!Rows[f].table].empty
Checks(f) ==
  IF Intercepts(Val!Tables, f) THEN Val!Rows[f] ELSE Val!Checked(<<>>, {}, Val!NoCount)

\* What may be wrong with a parameter: it is NULL, it is a NULL list with a
\* count, it has a NULL element, or a condition on plain data fails.
NullFaults(f) ==
  {[how |-> "null", of |-> x.of] :
     x \in {u \in Range(Ldr!Rows[f].unwrap) : u.how # "each"}
             \cup {w \in Range(Ldr!Rows[f].wrap) : w.how = "need"}
             \cup {e \in Range(Mock!Rows[f]) : e.op \in {"make", "write"}}}
Params(f) == Range(Lib!Rows[f].params)
Lists(f) ==
  {u.of : u \in {v \in Range(Ldr!Rows[f].unwrap) : v.how = "each"}}
    \cup {p.name : p \in {q \in Params(f) : q.form = "list" /\ q.name = Ldr!Rows[f].table}}
ListFaults(f) == {[how |-> h, of |-> l] : h \in {"list", "element"}, l \in Lists(f)}
CheckFaults(f) == {[how |-> c.test, of |-> c.of] : c \in Range(Val!Rows[f].checks)}

\* NULL is legal where the loader tests for it.
Legal(f, fault) ==
  fault.how = "null" /\ [of |-> fault.of, how |-> "if_set"] \in Range(Ldr!Rows[f].unwrap)

\* The checks of the validation layer that fail.  A test for NULL also finds a
\* NULL list with a count.
Applies(c) == c.test = "bounds" => enableBoundsChecking
Finds(c, fault) ==
  c.of = fault.of /\ (c.test = fault.how \/ (c.test = "null" /\ fault.how = "list"))
FailingChecks(f, fault) ==
  LET Fails(c) == Applies(c) /\ Finds(c, fault)
  IN  SelectSeq(Checks(f).checks, Fails)
ErrorOf(f, fault) ==
  IF enableParameterValidation /\ FailingChecks(f, fault) # <<>>
  THEN FailingChecks(f, fault)[1].err ELSE ""

\* The loader reads through NULL: a handle, a list or an element it converts, or
\* the handle whose table it calls; or writes: a required output it wraps.
LoaderUsesNull(f, fault) ==
  \/ fault.how = "null" /\ [of |-> fault.of, how |-> "need"] \in Range(Ldr!Rows[f].unwrap)
  \/ /\ fault.how \in {"list", "element"}
     /\ [of |-> fault.of, how |-> "each"] \in Range(Ldr!Rows[f].unwrap)
  \/ fault.how \in {"null", "list", "element"} /\ fault.of = Ldr!Rows[f].table
  \/ /\ fault.how = "null"
     /\ \E w \in Range(Ldr!Rows[f].wrap) : w.of = fault.of /\ w.how = "need"
\* The adapter writes through NULL.
AdapterUsesNull(f, fault) ==
  fault.how = "null" /\ \E e \in Range(Mock!Rows[f]) : e.op \in {"make", "write"} /\ e.of = fault.of
UsesNull(f, fault) ==
  AdapterUsesNull(f, fault) \/ (intercept_enabled /\ LoaderUsesNull(f, fault))

Faults(f) ==
  {[how |-> x.how, of |-> x.of, legal |-> Legal(f, x), err |-> ErrorOf(f, x),
    fatal |-> UsesNull(f, x)] : x \in NullFaults(f) \cup ListFaults(f) \cup CheckFaults(f)}

\* A function: its handle arguments, the outputs the adapter can set and how,
\* what may be wrong, and what the layers and the adapter do with it.
Effect(f, name) ==
  LET es == {e \in Range(Mock!Rows[f]) : e.of = name}
  IN  IF es = {} THEN "none" ELSE (CHOOSE e \in es : TRUE).op
Function(f) ==
  [name |-> f,
   id |-> IF Intercepts(Trc!Tables, f) THEN Trc!Rows[f].id ELSE "",
   args |-> {[name |-> p.name, kind |-> p.kind, form |-> p.form, op |-> Effect(f, p.name)] :
               p \in {q \in Params(f) : q.form \in {"in", "list"} /\ q.kind # "native"}},
   outs |-> {[name |-> p.name, kind |-> p.kind, form |-> p.form, op |-> Effect(f, p.name)] :
               p \in {q \in Params(f) : /\ q.form \notin {"in", "list"}
                                        /\ Effect(f, q.name) # "none"}},
   faults |-> Faults(f),
   checked |-> Checks(f).count,
   alive |-> Checks(f).alive,
   table |-> Ldr!Rows[f].table,
   keep |-> Ldr!Rows[f].keep,
   found |-> Ldr!Rows[f].found,
   count |-> Ldr!Rows[f].count,
   missing |-> {d \in DOMAIN Tables :
                  \/ ~Intercepts(Tables[d], f)
                  \/ intercept_enabled /\ ~Intercepts(Ldr!Tables, f)}]
===============================================================================

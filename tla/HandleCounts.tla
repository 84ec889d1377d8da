----------------------------- MODULE HandleCounts -----------------------------
(***************************************************************************)
(* What the layers promise about the references to handles.  An object is  *)
(* counted three times: by the adapter (refs), by the loader's handle      *)
(* factory (entry) and by the leak checker of the validation layer         *)
(* (counts); the application owns held references.  Calls of different     *)
(* threads interleave between the three, see UrCalls, which implements     *)
(* this specification.                                                     *)
(***************************************************************************)
EXTENDS Integers, FiniteSets

CONSTANTS Threads, Handles, None

VARIABLES
  refs,   \* the references the adapter counts, 0 for a free object
  entry,  \* the references to the loader's entry, 0 if there is none
  counts, \* the references the leak checker counts
  held,   \* the references the application owns
  lost,   \* the references it had not released when it released the last adapter
  call    \* the call of every thread: its operation, handle and place

vars == <<refs, entry, counts, held, lost, call>>

Idle == [op |-> "none", h |-> None, at |-> "idle"]
Calls ==
  [op : {"none", "create", "retain", "release"}, h : Handles \cup {None},
   at : {"idle", "adapter", "loader", "leave"}]

Init ==
  /\ refs = [h \in Handles |-> 0]
  /\ entry = [h \in Handles |-> 0]
  /\ counts = [h \in Handles |-> 0]
  /\ held = [h \in Handles |-> 0]
  /\ lost = [h \in Handles |-> 0]
  /\ call = [t \in Threads |-> Idle]

Enter(t, op, h) == call' = [call EXCEPT ![t] = [op |-> op, h |-> h, at |-> "adapter"]]
Goto(t, h, at) ==
  call' = [call EXCEPT ![t] = [op |-> call[t].op, h |-> h, at |-> at]]

\* The validation layer before the call: a release is counted here.
BeginCreate(t) ==
  /\ call[t].at = "idle"
  /\ Enter(t, "create", None)
  /\ UNCHANGED <<refs, entry, counts, held, lost>>
BeginRetain(t, h) ==
  /\ call[t].at = "idle" /\ held[h] > 0
  /\ Enter(t, "retain", h)
  /\ UNCHANGED <<refs, entry, counts, held, lost>>
BeginRelease(t, h) ==
  /\ call[t].at = "idle" /\ held[h] > 0
  /\ held[h] = 1 => \A u \in Threads : call[u].op = "retain" => call[u].h # h
  /\ Enter(t, "release", h)
  /\ held' = [held EXCEPT ![h] = @ - 1]
  /\ counts' = [counts EXCEPT ![h] = @ - 1]
  /\ UNCHANGED <<refs, entry, lost>>

\* The adapter: a new object takes a free address, or cannot be created.
AdapterCreate(t) ==
  /\ call[t].at = "adapter" /\ call[t].op = "create"
  /\ \/ Goto(t, None, "loader") /\ UNCHANGED refs
     \/ \E h \in Handles : /\ refs[h] = 0
                           /\ refs' = [refs EXCEPT ![h] = 1]
                           /\ Goto(t, h, "loader")
  /\ UNCHANGED <<entry, counts, held, lost>>
AdapterRetain(t) ==
  /\ call[t].at = "adapter" /\ call[t].op = "retain"
  /\ refs' = [refs EXCEPT ![call[t].h] = @ + 1]
  /\ Goto(t, call[t].h, "loader")
  /\ UNCHANGED <<entry, counts, held, lost>>
AdapterRelease(t) ==
  /\ call[t].at = "adapter" /\ call[t].op = "release"
  /\ refs' = [refs EXCEPT ![call[t].h] = @ - 1]
  /\ Goto(t, call[t].h, "loader")
  /\ UNCHANGED <<entry, counts, held, lost>>

\* The loader after the adapter: getInstance, retain or release of the factory.
LoaderMore(t) ==
  /\ call[t].at = "loader" /\ call[t].op \in {"create", "retain"}
  /\ entry' = IF call[t].h = None THEN entry
              ELSE [entry EXCEPT ![call[t].h] = @ + 1]
  /\ Goto(t, call[t].h, "leave")
  /\ UNCHANGED <<refs, counts, held, lost>>
LoaderLess(t) ==
  /\ call[t].at = "loader" /\ call[t].op = "release"
  /\ entry' = [entry EXCEPT ![call[t].h] = @ - 1]
  /\ Goto(t, call[t].h, "leave")
  /\ UNCHANGED <<refs, counts, held, lost>>

\* The validation layer after the call: what was created or retained is counted.
Leave(t) ==
  /\ call[t].at = "leave"
  /\ IF call[t].op = "release" \/ call[t].h = None THEN UNCHANGED <<counts, held>>
     ELSE /\ counts' = [counts EXCEPT ![call[t].h] = @ + 1]
          /\ held' = [held EXCEPT ![call[t].h] = @ + 1]
  /\ call' = [call EXCEPT ![t] = Idle]
  /\ UNCHANGED <<refs, entry, lost>>

\* The application releases its last adapter: what it still owns is lost.
Abandon ==
  /\ \A t \in Threads : call[t].at = "idle"
  /\ lost' = [h \in Handles |-> lost[h] + held[h]]
  /\ held' = [h \in Handles |-> 0]
  /\ counts' = [h \in Handles |-> 0]
  /\ UNCHANGED <<refs, entry, call>>

Step(t) ==
  \/ BeginCreate(t) \/ AdapterCreate(t) \/ AdapterRetain(t) \/ AdapterRelease(t)
  \/ LoaderMore(t) \/ LoaderLess(t) \/ Leave(t)
  \/ \E h \in Handles : BeginRetain(t, h) \/ BeginRelease(t, h)
Next == Abandon \/ \E t \in Threads : Step(t)
Spec == Init /\ [][Next]_vars

-------------------------------------------------------------------------------
TypeOK ==
  /\ refs \in [Handles -> Int] /\ entry \in [Handles -> Int]
  /\ counts \in [Handles -> Int] /\ held \in [Handles -> Nat] /\ lost \in [Handles -> Nat]
  /\ call \in [Threads -> Calls]

\* The calls that have reached, or have yet to reach, a count.
BeforeAdapter == {"adapter"}
BeforeLoader == {"adapter", "loader"}
PastAdapter == {"loader", "leave"}
PastLoader == {"leave"}
Made(h, places) ==
  {t \in Threads : call[t].h = h /\ call[t].op \in {"create", "retain"} /\ call[t].at \in places}
Dropped(h, places) ==
  {t \in Threads : call[t].h = h /\ call[t].op = "release" /\ call[t].at \in places}

\* The three counts differ from what the application owns by the calls that
\* are between them, and by nothing else.
RefsAgree ==
  \A h \in Handles :
    /\ counts[h] = held[h]
    /\ refs[h] = held[h] + lost[h] + Cardinality(Made(h, PastAdapter))
                   + Cardinality(Dropped(h, BeforeAdapter))
    /\ entry[h] = held[h] + lost[h] + Cardinality(Made(h, PastLoader))
                   + Cardinality(Dropped(h, BeforeLoader))

\* A retain works on a handle that stays owned; only a create may lack a handle.
InUse ==
  \A t \in Threads :
    /\ call[t].op = "retain" => call[t].h \in Handles /\ held[call[t].h] > 0
    /\ call[t].op = "release" => call[t].h \in Handles
    /\ call[t].op = "none" <=> call[t].at = "idle"
    /\ call[t].op = "create" /\ call[t].at = "adapter" => call[t].h = None

\* No layer counts below zero, no call reaches an object that was freed or an
\* entry that was erased, and a handle the application owns has both.
NoDangling ==
  /\ \A h \in Handles : held[h] > 0 => refs[h] > 0 /\ entry[h] > 0
  /\ \A t \in Threads :
       /\ call[t].op = "release" /\ call[t].at = "adapter" => refs[call[t].h] > 0
       /\ call[t].op = "release" /\ call[t].at \in {"adapter", "loader"} =>
            entry[call[t].h] > 0
       /\ call[t].op = "retain" /\ call[t].at \in {"adapter", "loader"} =>
            refs[call[t].h] > 0 /\ entry[call[t].h] > 0

\* Between calls nothing is left over: the three counts are equal.
QuietAgree ==
  (\A t \in Threads : call[t].at = "idle") =>
    \A h \in Handles : counts[h] = held[h] /\ refs[h] = held[h] + lost[h] /\ entry[h] = refs[h]
===============================================================================

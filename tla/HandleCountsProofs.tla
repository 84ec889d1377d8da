-------------------------- MODULE HandleCountsProofs --------------------------
(***************************************************************************)
(* The three counts of a handle agree, for any set of handles and any      *)
(* finite set of threads.                                                  *)
(***************************************************************************)
EXTENDS HandleCounts, FiniteSetTheorems, TLAPS

IInv == TypeOK /\ RefsAgree /\ InUse

\* What the proofs need to know about the constants.
Finite == IsFiniteSet(Threads) /\ None \notin Handles

\* 1 if a call is one that Made, or Dropped, counts.
IsMade(c, h, places) ==
  IF c.h = h /\ c.op \in {"create", "retain"} /\ c.at \in places THEN 1 ELSE 0
IsDropped(c, h, places) ==
  IF c.h = h /\ c.op = "release" /\ c.at \in places THEN 1 ELSE 0

\* The counts of h change by what the call of t, which becomes c, did to them.
Shift(t, c, h) ==
  /\ counts'[h] - counts[h] = held'[h] - held[h]
  /\ lost'[h] = lost[h]
  /\ refs'[h] - refs[h] =
       (held'[h] - held[h])
       + IsMade(c, h, PastAdapter) - IsMade(call[t], h, PastAdapter)
       + IsDropped(c, h, BeforeAdapter) - IsDropped(call[t], h, BeforeAdapter)
  /\ entry'[h] - entry[h] =
       (held'[h] - held[h])
       + IsMade(c, h, PastLoader) - IsMade(call[t], h, PastLoader)
       + IsDropped(c, h, BeforeLoader) - IsDropped(call[t], h, BeforeLoader)

\* A set that gains or loses at most t changes its size by that.
LEMMA OneThread ==
  ASSUME NEW S, NEW R, NEW t, IsFiniteSet(S), R \ {t} = S \ {t}
  PROVE  /\ IsFiniteSet(R)
         /\ Cardinality(S) \in Nat /\ Cardinality(R) \in Nat
         /\ Cardinality(R) = Cardinality(S) + (IF t \in R THEN 1 ELSE 0)
                                           - (IF t \in S THEN 1 ELSE 0)
<1> DEFINE B == S \ {t}
<1>1. IsFiniteSet(B) /\ Cardinality(B) \in Nat
  BY Zenon, FS_RemoveElement, FS_CardinalityType
<1>2. Cardinality(S) = Cardinality(B) + (IF t \in S THEN 1 ELSE 0)
  <2>1. CASE t \in S
    <3>1. S = B \cup {t} /\ t \notin B
      BY Zenon, <2>1
    <3> QED BY Zenon, <1>1, <2>1, <3>1, FS_AddElement
  <2>2. CASE t \notin S
    <3>1. S = B
      BY Zenon, <2>2
    <3>2. IsFiniteSet(S) /\ Cardinality(S) = Cardinality(B)
      BY <1>1, <3>1, Zenon
    <3> QED BY <1>1, <2>2, <3>2
  <2> QED BY Zenon, <2>1, <2>2
<1>3. IsFiniteSet(R) /\ Cardinality(R) = Cardinality(B) + (IF t \in R THEN 1 ELSE 0)
  <2>1. CASE t \in R
    <3>1. R = B \cup {t} /\ t \notin B
      BY Zenon, <2>1
    <3> QED BY Zenon, <1>1, <2>1, <3>1, FS_AddElement
  <2>2. CASE t \notin R
    <3>1. R = B
      BY Zenon, <2>2
    <3>2. IsFiniteSet(R) /\ Cardinality(R) = Cardinality(B)
      BY <1>1, <3>1, Zenon
    <3> QED BY <1>1, <2>2, <3>2
  <2> QED BY Zenon, <2>1, <2>2
<1> QED
  BY <1>1, <1>2, <1>3

\* The sets of calls that are counted are finite.
LEMMA CountsAreNats ==
  ASSUME IsFiniteSet(Threads)
  PROVE  \A h, P : /\ IsFiniteSet(Made(h, P)) /\ IsFiniteSet(Dropped(h, P))
                   /\ Cardinality(Made(h, P)) \in Nat /\ Cardinality(Dropped(h, P)) \in Nat
<1> TAKE h, P
<1>1. Made(h, P) \subseteq Threads /\ Dropped(h, P) \subseteq Threads
  BY Zenon DEF Made, Dropped
<1>2. IsFiniteSet(Made(h, P)) /\ IsFiniteSet(Dropped(h, P))
  BY Zenon, <1>1, FS_Subset
<1> QED
  BY Zenon, <1>2, FS_CardinalityType

\* A step of thread t moves only t in and out of the sets that are counted.
LEMMA Move ==
  ASSUME IsFiniteSet(Threads), TypeOK, NEW t \in Threads, NEW c \in Calls,
         call' = [call EXCEPT ![t] = c], NEW h \in Handles, NEW P
  PROVE  /\ Cardinality(Made(h, P)) \in Nat /\ Cardinality(Dropped(h, P)) \in Nat
         /\ Cardinality(Made(h, P))' =
              Cardinality(Made(h, P)) + IsMade(c, h, P) - IsMade(call[t], h, P)
         /\ Cardinality(Dropped(h, P))' =
              Cardinality(Dropped(h, P)) + IsDropped(c, h, P) - IsDropped(call[t], h, P)
<1>1. Made(h, P) \subseteq Threads /\ Dropped(h, P) \subseteq Threads
  BY Zenon DEF Made, Dropped
<1>2. IsFiniteSet(Made(h, P)) /\ IsFiniteSet(Dropped(h, P))
  BY Zenon, <1>1, FS_Subset
<1>3. call'[t] = c /\ \A u \in Threads \ {t} : call'[u] = call[u]
  BY Zenon DEF TypeOK
<1>4. Made(h, P)' \ {t} = Made(h, P) \ {t} /\ Dropped(h, P)' \ {t} = Dropped(h, P) \ {t}
  BY Zenon, <1>3 DEF Made, Dropped
<1>5. /\ t \in Made(h, P)' <=> IsMade(c, h, P) = 1
      /\ t \in Made(h, P) <=> IsMade(call[t], h, P) = 1
      /\ t \in Dropped(h, P)' <=> IsDropped(c, h, P) = 1
      /\ t \in Dropped(h, P) <=> IsDropped(call[t], h, P) = 1
  BY <1>3 DEF Made, Dropped, IsMade, IsDropped
<1>6. /\ IsMade(c, h, P) \in {0, 1} /\ IsMade(call[t], h, P) \in {0, 1}
      /\ IsDropped(c, h, P) \in {0, 1} /\ IsDropped(call[t], h, P) \in {0, 1}
  BY Zenon DEF IsMade, IsDropped
<1>7. /\ Cardinality(Made(h, P)) \in Nat
      /\ Cardinality(Made(h, P)') = Cardinality(Made(h, P))
           + (IF t \in Made(h, P)' THEN 1 ELSE 0) - (IF t \in Made(h, P) THEN 1 ELSE 0)
  BY Zenon, <1>2, <1>4, OneThread
<1>8. /\ Cardinality(Dropped(h, P)) \in Nat
      /\ Cardinality(Dropped(h, P)') = Cardinality(Dropped(h, P))
           + (IF t \in Dropped(h, P)' THEN 1 ELSE 0) - (IF t \in Dropped(h, P) THEN 1 ELSE 0)
  BY Zenon, <1>2, <1>4, OneThread
<1> QED
  BY Zenon, <1>5, <1>6, <1>7, <1>8

\* A sum of four terms after its terms change.
LEMMA SumMoves ==
  ASSUME NEW r \in Int, NEW d \in Int, NEW l \in Int, NEW m \in Int, NEW p \in Int,
         NEW rn \in Int, NEW dn \in Int, NEW mn, NEW pn,
         NEW mc \in Int, NEW mt \in Int, NEW pc \in Int, NEW pt \in Int,
         r = d + l + m + p, mn = m + mc - mt, pn = p + pc - pt,
         rn - r = (dn - d) + mc - mt + pc - pt
  PROVE  rn = dn + l + mn + pn
OBVIOUS

\* The invariant survives a step of thread t that keeps the types and the other
\* calls, if the counts of every handle change with t's place.
LEMMA Counting ==
  ASSUME IsFiniteSet(Threads), IInv, TypeOK', NEW t \in Threads, NEW c \in Calls,
         call' = [call EXCEPT ![t] = c],
         \A h \in Handles : Shift(t, c, h)
  PROVE  RefsAgree'
<1> SUFFICES ASSUME NEW h \in Handles
             PROVE  /\ counts'[h] = held'[h]
                    /\ refs'[h] = held'[h] + lost'[h] + Cardinality(Made(h, PastAdapter))'
                                    + Cardinality(Dropped(h, BeforeAdapter))'
                    /\ entry'[h] = held'[h] + lost'[h] + Cardinality(Made(h, PastLoader))'
                                    + Cardinality(Dropped(h, BeforeLoader))'
  BY Zenon DEF RefsAgree
<1>1. TypeOK
  BY Zenon DEF IInv
<1>2. /\ refs[h] \in Int /\ refs'[h] \in Int /\ entry[h] \in Int /\ entry'[h] \in Int
      /\ counts[h] \in Int /\ counts'[h] \in Int /\ held[h] \in Int /\ held'[h] \in Int
      /\ lost[h] \in Int
  BY <1>1 DEF TypeOK
<1>3. \A P : /\ Cardinality(Made(h, P)) \in Nat /\ Cardinality(Dropped(h, P)) \in Nat
             /\ Cardinality(Made(h, P))' =
                  Cardinality(Made(h, P)) + IsMade(c, h, P) - IsMade(call[t], h, P)
             /\ Cardinality(Dropped(h, P))' =
                  Cardinality(Dropped(h, P)) + IsDropped(c, h, P) - IsDropped(call[t], h, P)
  BY Zenon, <1>1, Move
<1>4. \A P : /\ IsMade(c, h, P) \in Int /\ IsMade(call[t], h, P) \in Int
             /\ IsDropped(c, h, P) \in Int /\ IsDropped(call[t], h, P) \in Int
  BY DEF IsMade, IsDropped
<1>5. /\ counts[h] = held[h]
      /\ refs[h] = held[h] + lost[h] + Cardinality(Made(h, PastAdapter))
                     + Cardinality(Dropped(h, BeforeAdapter))
      /\ entry[h] = held[h] + lost[h] + Cardinality(Made(h, PastLoader))
                     + Cardinality(Dropped(h, BeforeLoader))
  BY Zenon DEF IInv, RefsAgree
<1> HIDE DEF IInv
<1>9. /\ counts'[h] - counts[h] = held'[h] - held[h]
      /\ lost'[h] = lost[h]
      /\ refs'[h] - refs[h] =
           (held'[h] - held[h])
           + IsMade(c, h, PastAdapter) - IsMade(call[t], h, PastAdapter)
           + IsDropped(c, h, BeforeAdapter) - IsDropped(call[t], h, BeforeAdapter)
      /\ entry'[h] - entry[h] =
           (held'[h] - held[h])
           + IsMade(c, h, PastLoader) - IsMade(call[t], h, PastLoader)
           + IsDropped(c, h, BeforeLoader) - IsDropped(call[t], h, BeforeLoader)
  BY Zenon DEF Shift
<1>6. counts'[h] = held'[h]
  BY <1>2, <1>5, <1>9
<1>7. refs'[h] = held'[h] + lost'[h] + Cardinality(Made(h, PastAdapter))'
                   + Cardinality(Dropped(h, BeforeAdapter))'
  <2>1. refs'[h] = held'[h] + lost[h] + Cardinality(Made(h, PastAdapter))'
                     + Cardinality(Dropped(h, BeforeAdapter))'
    <3>1. /\ Cardinality(Made(h, PastAdapter)) \in Int /\ Cardinality(Dropped(h, BeforeAdapter)) \in Int
          /\ Cardinality(Made(h, PastAdapter))' = Cardinality(Made(h, PastAdapter))
               + IsMade(c, h, PastAdapter) - IsMade(call[t], h, PastAdapter)
          /\ Cardinality(Dropped(h, BeforeAdapter))' = Cardinality(Dropped(h, BeforeAdapter))
               + IsDropped(c, h, BeforeAdapter) - IsDropped(call[t], h, BeforeAdapter)
      BY <1>3
    <3>2. /\ IsMade(c, h, PastAdapter) \in Int /\ IsMade(call[t], h, PastAdapter) \in Int
          /\ IsDropped(c, h, BeforeAdapter) \in Int /\ IsDropped(call[t], h, BeforeAdapter) \in Int
      BY Zenon, <1>4
    <3> QED BY <3>1, <3>2, <1>2, <1>5, <1>9, SumMoves
  <2> QED BY Zenon, <2>1, <1>9
<1>8. entry'[h] = held'[h] + lost'[h] + Cardinality(Made(h, PastLoader))'
                   + Cardinality(Dropped(h, BeforeLoader))'
  <2>1. entry'[h] = held'[h] + lost[h] + Cardinality(Made(h, PastLoader))'
                      + Cardinality(Dropped(h, BeforeLoader))'
    <3>1. /\ Cardinality(Made(h, PastLoader)) \in Int /\ Cardinality(Dropped(h, BeforeLoader)) \in Int
          /\ Cardinality(Made(h, PastLoader))' = Cardinality(Made(h, PastLoader))
               + IsMade(c, h, PastLoader) - IsMade(call[t], h, PastLoader)
          /\ Cardinality(Dropped(h, BeforeLoader))' = Cardinality(Dropped(h, BeforeLoader))
               + IsDropped(c, h, BeforeLoader) - IsDropped(call[t], h, BeforeLoader)
      BY <1>3
    <3>2. /\ IsMade(c, h, PastLoader) \in Int /\ IsMade(call[t], h, PastLoader) \in Int
          /\ IsDropped(c, h, BeforeLoader) \in Int /\ IsDropped(call[t], h, BeforeLoader) \in Int
      BY Zenon, <1>4
    <3> QED BY <3>1, <3>2, <1>2, <1>5, <1>9, SumMoves
  <2> QED BY Zenon, <2>1, <1>9
<1> QED
  BY Zenon, <1>6, <1>7, <1>8

\* Initially nothing is counted.
LEMMA InitIInv == ASSUME Init PROVE IInv
<1>1. TypeOK /\ InUse
  BY DEF Init, TypeOK, InUse, Idle, Calls
<1>2. \A h \in Handles : \A P : Made(h, P) = {} /\ Dropped(h, P) = {}
  BY Zenon DEF Init, Idle, Made, Dropped
<1>3. \A h \in Handles : \A P : Cardinality(Made(h, P)) = 0 /\ Cardinality(Dropped(h, P)) = 0
  BY <1>2, FS_EmptySet, Zenon
<1>4. RefsAgree
  BY <1>3 DEF Init, RefsAgree
<1> QED
  BY Zenon, <1>1, <1>4 DEF IInv

\* A create begins: nothing is counted.
LEMMA BeginCreateIInv ==
  ASSUME Finite, IInv, NEW t \in Threads, BeginCreate(t)
  PROVE  IInv'
<1> DEFINE c == [op |-> "create", h |-> None, at |-> "adapter"]
<1>1. c \in Calls /\ call' = [call EXCEPT ![t] = c]
  BY Zenon DEF BeginCreate, IInv, TypeOK, InUse, Calls, Enter
<1>2. TypeOK'
  BY Zenon, <1>1 DEF BeginCreate, IInv, TypeOK, InUse, Calls
<1>3. InUse'
  BY Zenon, <1>1 DEF BeginCreate, IInv, TypeOK, InUse, Calls, Idle, Finite
<1>4. ASSUME NEW g \in Handles
      PROVE  Shift(t, c, g)
  BY DEF BeginCreate, IInv, TypeOK, InUse, Shift, Calls, Idle, Finite, IsMade, IsDropped,
         PastAdapter, PastLoader, BeforeAdapter, BeforeLoader
<1> HIDE DEF c
<1>5. RefsAgree'
  BY Zenon, <1>1, <1>2, <1>4, Counting DEF Finite
<1> QED
  BY Zenon, <1>2, <1>3, <1>5 DEF IInv

\* A retain begins: nothing is counted.
LEMMA BeginRetainIInv ==
  ASSUME Finite, IInv, NEW t \in Threads, NEW h \in Handles, BeginRetain(t, h)
  PROVE  IInv'
<1> DEFINE c == [op |-> "retain", h |-> h, at |-> "adapter"]
<1>1. c \in Calls /\ call' = [call EXCEPT ![t] = c]
  BY Zenon DEF BeginRetain, IInv, TypeOK, InUse, Calls, Enter
<1>2. TypeOK'
  BY Zenon, <1>1 DEF BeginRetain, IInv, TypeOK, InUse, Calls
<1>3. InUse'
  BY Zenon, <1>1 DEF BeginRetain, IInv, TypeOK, InUse, Calls, Idle, Finite
<1>4. ASSUME NEW g \in Handles
      PROVE  Shift(t, c, g)
  BY DEF BeginRetain, IInv, TypeOK, InUse, Shift, Calls, Idle, Finite, IsMade, IsDropped,
         PastAdapter, PastLoader, BeforeAdapter, BeforeLoader
<1> HIDE DEF c
<1>5. RefsAgree'
  BY Zenon, <1>1, <1>2, <1>4, Counting DEF Finite
<1> QED
  BY Zenon, <1>2, <1>3, <1>5 DEF IInv

\* A release begins: the leak checker and the application count it.
LEMMA BeginReleaseIInv ==
  ASSUME Finite, IInv, NEW t \in Threads, NEW h \in Handles, BeginRelease(t, h)
  PROVE  IInv'
<1> DEFINE c == [op |-> "release", h |-> h, at |-> "adapter"]
<1>1. c \in Calls /\ call' = [call EXCEPT ![t] = c]
  BY Zenon DEF BeginRelease, IInv, TypeOK, InUse, Calls, Enter
<1>2. TypeOK'
  BY <1>1 DEF BeginRelease, IInv, TypeOK, InUse, Calls
<1>3. InUse'
  BY <1>1 DEF BeginRelease, IInv, TypeOK, InUse, Calls, Idle, Finite
<1>4. ASSUME NEW g \in Handles
      PROVE  Shift(t, c, g)
  BY DEF BeginRelease, IInv, TypeOK, InUse, Shift, Calls, Idle, Finite, IsMade, IsDropped,
         PastAdapter, PastLoader, BeforeAdapter, BeforeLoader
<1> HIDE DEF c
<1>5. RefsAgree'
  BY Zenon, <1>1, <1>2, <1>4, Counting DEF Finite
<1> QED
  BY Zenon, <1>2, <1>3, <1>5 DEF IInv

\* The adapter counts a retain.
LEMMA AdapterRetainIInv ==
  ASSUME Finite, IInv, NEW t \in Threads, AdapterRetain(t)
  PROVE  IInv'
<1> DEFINE c == [op |-> "retain", h |-> call[t].h, at |-> "loader"]
<1>1. c \in Calls /\ call' = [call EXCEPT ![t] = c]
  BY Zenon DEF AdapterRetain, IInv, TypeOK, InUse, Calls, Goto
<1>2. TypeOK'
  BY <1>1 DEF AdapterRetain, IInv, TypeOK, InUse, Calls
<1>3. InUse'
  BY Zenon, <1>1 DEF AdapterRetain, IInv, TypeOK, InUse, Calls, Idle, Finite
<1>4. ASSUME NEW g \in Handles
      PROVE  Shift(t, c, g)
  BY DEF AdapterRetain, IInv, TypeOK, InUse, Shift, Calls, Idle, Finite, IsMade, IsDropped,
         PastAdapter, PastLoader, BeforeAdapter, BeforeLoader
<1> HIDE DEF c
<1>5. RefsAgree'
  BY Zenon, <1>1, <1>2, <1>4, Counting DEF Finite
<1> QED
  BY Zenon, <1>2, <1>3, <1>5 DEF IInv

\* The adapter counts a release.
LEMMA AdapterReleaseIInv ==
  ASSUME Finite, IInv, NEW t \in Threads, AdapterRelease(t)
  PROVE  IInv'
<1> DEFINE c == [op |-> "release", h |-> call[t].h, at |-> "loader"]
<1>1. c \in Calls /\ call' = [call EXCEPT ![t] = c]
  BY Zenon DEF AdapterRelease, IInv, TypeOK, InUse, Calls, Goto
<1>2. TypeOK'
  BY <1>1 DEF AdapterRelease, IInv, TypeOK, InUse, Calls
<1>3. InUse'
  BY Zenon, <1>1 DEF AdapterRelease, IInv, TypeOK, InUse, Calls, Idle, Finite
<1>4. ASSUME NEW g \in Handles
      PROVE  Shift(t, c, g)
  BY DEF AdapterRelease, IInv, TypeOK, InUse, Shift, Calls, Idle, Finite, IsMade, IsDropped,
         PastAdapter, PastLoader, BeforeAdapter, BeforeLoader
<1> HIDE DEF c
<1>5. RefsAgree'
  BY Zenon, <1>1, <1>2, <1>4, Counting DEF Finite
<1> QED
  BY Zenon, <1>2, <1>3, <1>5 DEF IInv

\* The factory counts a create or a retain.
LEMMA LoaderMoreIInv ==
  ASSUME Finite, IInv, NEW t \in Threads, LoaderMore(t)
  PROVE  IInv'
<1> DEFINE c == [op |-> call[t].op, h |-> call[t].h, at |-> "leave"]
<1>1. c \in Calls /\ call' = [call EXCEPT ![t] = c]
  BY Zenon DEF LoaderMore, IInv, TypeOK, InUse, Calls, Goto
<1>2. TypeOK'
  BY <1>1 DEF LoaderMore, IInv, TypeOK, InUse, Calls
<1>3. InUse'
  BY Zenon, <1>1 DEF LoaderMore, IInv, TypeOK, InUse, Calls, Idle, Finite
<1>4. ASSUME NEW g \in Handles
      PROVE  Shift(t, c, g)
  BY DEF LoaderMore, IInv, TypeOK, InUse, Shift, Calls, Idle, Finite, IsMade, IsDropped,
         PastAdapter, PastLoader, BeforeAdapter, BeforeLoader
<1> HIDE DEF c
<1>5. RefsAgree'
  BY Zenon, <1>1, <1>2, <1>4, Counting DEF Finite
<1> QED
  BY Zenon, <1>2, <1>3, <1>5 DEF IInv

\* The factory counts a release.
LEMMA LoaderLessIInv ==
  ASSUME Finite, IInv, NEW t \in Threads, LoaderLess(t)
  PROVE  IInv'
<1> DEFINE c == [op |-> "release", h |-> call[t].h, at |-> "leave"]
<1>1. c \in Calls /\ call' = [call EXCEPT ![t] = c]
  BY Zenon DEF LoaderLess, IInv, TypeOK, InUse, Calls, Goto
<1>2. TypeOK'
  BY <1>1 DEF LoaderLess, IInv, TypeOK, InUse, Calls
<1>3. InUse'
  BY Zenon, <1>1 DEF LoaderLess, IInv, TypeOK, InUse, Calls, Idle, Finite
<1>4. ASSUME NEW g \in Handles
      PROVE  Shift(t, c, g)
  BY DEF LoaderLess, IInv, TypeOK, InUse, Shift, Calls, Idle, Finite, IsMade, IsDropped,
         PastAdapter, PastLoader, BeforeAdapter, BeforeLoader
<1> HIDE DEF c
<1>5. RefsAgree'
  BY Zenon, <1>1, <1>2, <1>4, Counting DEF Finite
<1> QED
  BY Zenon, <1>2, <1>3, <1>5 DEF IInv

\* The leak checker counts what was created or retained.
LEMMA LeaveIInv ==
  ASSUME Finite, IInv, NEW t \in Threads, Leave(t)
  PROVE  IInv'
<1> DEFINE c == Idle
<1>1. c \in Calls /\ call' = [call EXCEPT ![t] = c]
  BY Zenon DEF Leave, IInv, TypeOK, InUse, Calls, Idle
<1>2. TypeOK'
  BY <1>1 DEF Leave, IInv, TypeOK, InUse, Calls
<1>3. InUse'
  BY <1>1 DEF Leave, IInv, TypeOK, InUse, Calls, Idle, Finite
<1>4. ASSUME NEW g \in Handles
      PROVE  Shift(t, c, g)
  BY DEF Leave, IInv, TypeOK, InUse, Shift, Calls, Idle, Finite, IsMade, IsDropped,
         PastAdapter, PastLoader, BeforeAdapter, BeforeLoader
<1> HIDE DEF c
<1>5. RefsAgree'
  BY Zenon, <1>1, <1>2, <1>4, Counting DEF Finite
<1> QED
  BY Zenon, <1>2, <1>3, <1>5 DEF IInv

\* The adapter creates an object, or fails to.
LEMMA AdapterCreateIInv ==
  ASSUME Finite, IInv, NEW t \in Threads, AdapterCreate(t)
  PROVE  IInv'
<1>1. PICK h \in Handles \cup {None} :
        /\ Goto(t, h, "loader")
        /\ h = None => UNCHANGED refs
        /\ h # None => refs[h] = 0 /\ refs' = [refs EXCEPT ![h] = 1]
  BY Zenon DEF AdapterCreate, Finite
<1> DEFINE c == [op |-> "create", h |-> h, at |-> "loader"]
<1>2. c \in Calls /\ call' = [call EXCEPT ![t] = c]
  BY Zenon, <1>1 DEF AdapterCreate, IInv, TypeOK, Calls, Goto
<1>3. TypeOK'
  BY <1>1, <1>2 DEF AdapterCreate, IInv, TypeOK
<1>4. InUse'
  BY Zenon, <1>2 DEF AdapterCreate, IInv, TypeOK, InUse
<1>5. ASSUME NEW g \in Handles
      PROVE  Shift(t, c, g)
  BY <1>1 DEF AdapterCreate, IInv, TypeOK, InUse, Shift, Finite, IsMade, IsDropped,
              PastAdapter, PastLoader, BeforeAdapter, BeforeLoader
<1> HIDE DEF c
<1>6. RefsAgree'
  BY Zenon, <1>2, <1>3, <1>5, Counting DEF Finite
<1> QED
  BY Zenon, <1>3, <1>4, <1>6 DEF IInv

\* The application gives up what it still owns, between calls.
LEMMA AbandonIInv ==
  ASSUME Finite, IInv, Abandon
  PROVE  IInv'
<1>1. TypeOK' /\ InUse'
  BY DEF Abandon, IInv, TypeOK, InUse
<1>2. \A h \in Handles : \A P : Made(h, P)' = Made(h, P) /\ Dropped(h, P)' = Dropped(h, P)
  BY Zenon DEF Abandon, Made, Dropped
<1>3. \A h \in Handles : \A P : /\ Cardinality(Made(h, P))' = Cardinality(Made(h, P))
                           /\ Cardinality(Dropped(h, P))' = Cardinality(Dropped(h, P))
  BY <1>2, Zenon
<1>4. \A h \in Handles : \A P : Cardinality(Made(h, P)) \in Nat /\ Cardinality(Dropped(h, P)) \in Nat
  BY Zenon, CountsAreNats DEF IInv, Finite
<1>5. ASSUME NEW h \in Handles
      PROVE  /\ counts'[h] = held'[h]
             /\ refs'[h] = held'[h] + lost'[h] + Cardinality(Made(h, PastAdapter))'
                             + Cardinality(Dropped(h, BeforeAdapter))'
             /\ entry'[h] = held'[h] + lost'[h] + Cardinality(Made(h, PastLoader))'
                             + Cardinality(Dropped(h, BeforeLoader))'
  <2>1. /\ held'[h] = 0 /\ counts'[h] = 0 /\ lost'[h] = lost[h] + held[h]
        /\ refs'[h] = refs[h] /\ entry'[h] = entry[h]
        /\ held[h] \in Nat /\ lost[h] \in Nat
    BY Zenon DEF Abandon, IInv, TypeOK
  <2>2. /\ refs[h] = held[h] + lost[h] + Cardinality(Made(h, PastAdapter))
                       + Cardinality(Dropped(h, BeforeAdapter))
        /\ entry[h] = held[h] + lost[h] + Cardinality(Made(h, PastLoader))
                       + Cardinality(Dropped(h, BeforeLoader))
    BY Zenon DEF IInv, RefsAgree
  <2> QED BY <2>1, <2>2, <1>3, <1>4
<1> QED
  BY Zenon, <1>1, <1>5 DEF IInv, RefsAgree

\* The invariant is inductive: every action of every thread keeps it.
LEMMA NextIInv ==
  ASSUME Finite, IInv, [Next]_vars
  PROVE  IInv'
<1>1. CASE UNCHANGED vars
  <2>1. TypeOK' /\ InUse'
    BY Zenon, <1>1 DEF vars, IInv, TypeOK, InUse
  <2>2. RefsAgree'
    BY ZenonT(60), <1>1 DEF vars, IInv, RefsAgree, Made, Dropped
  <2> QED BY Zenon, <2>1, <2>2 DEF IInv
<1>2. CASE Abandon
  BY Zenon, <1>2, AbandonIInv
<1>3. CASE \E t \in Threads : Step(t)
  <2> PICK t \in Threads : Step(t)
    BY Zenon, <1>3
  <2>1. CASE BeginCreate(t)
    BY Zenon, <2>1, BeginCreateIInv
  <2>2. CASE AdapterCreate(t)
    BY Zenon, <2>2, AdapterCreateIInv
  <2>3. CASE AdapterRetain(t)
    BY Zenon, <2>3, AdapterRetainIInv
  <2>4. CASE AdapterRelease(t)
    BY Zenon, <2>4, AdapterReleaseIInv
  <2>5. CASE LoaderMore(t)
    BY Zenon, <2>5, LoaderMoreIInv
  <2>6. CASE LoaderLess(t)
    BY Zenon, <2>6, LoaderLessIInv
  <2>7. CASE Leave(t)
    BY Zenon, <2>7, LeaveIInv
  <2>8. CASE \E h \in Handles : BeginRetain(t, h)
    BY Zenon, <2>8, BeginRetainIInv
  <2>9. CASE \E h \in Handles : BeginRelease(t, h)
    BY Zenon, <2>9, BeginReleaseIInv
  <2> QED
    BY Zenon, <2>1, <2>2, <2>3, <2>4, <2>5, <2>6, <2>7, <2>8, <2>9 DEF Step
<1> QED
  BY Zenon, <1>1, <1>2, <1>3 DEF Next

\* In every reachable state, for any handles and any finite set of threads, the
\* adapter's, the loader's and the leak checker's count of a handle differ only
\* by the calls that are between them.
THEOREM RefsAgreeAlways == ASSUME Finite PROVE Spec => []RefsAgree
<1>1. Init => IInv
  BY Zenon, InitIInv
<1>2. IInv /\ [Next]_vars => IInv'
  BY Zenon, NextIInv
<1>3. IInv => RefsAgree
  BY Zenon DEF IInv
<1> QED
  BY <1>1, <1>2, <1>3, PTL DEF Spec

\* Between calls the invariant leaves nothing over.
LEMMA QuietFromIInv == ASSUME Finite, IInv PROVE QuietAgree
<1> SUFFICES ASSUME \A t \in Threads : call[t].at = "idle", NEW h \in Handles
             PROVE  /\ counts[h] = held[h] /\ refs[h] = held[h] + lost[h]
                    /\ entry[h] = refs[h]
  BY Zenon DEF QuietAgree
<1>1. /\ Made(h, PastAdapter) = {} /\ Dropped(h, BeforeAdapter) = {}
      /\ Made(h, PastLoader) = {} /\ Dropped(h, BeforeLoader) = {}
  BY Zenon DEF Made, Dropped, PastAdapter, PastLoader, BeforeAdapter, BeforeLoader
<1>2. /\ Cardinality(Made(h, PastAdapter)) = 0 /\ Cardinality(Dropped(h, BeforeAdapter)) = 0
      /\ Cardinality(Made(h, PastLoader)) = 0 /\ Cardinality(Dropped(h, BeforeLoader)) = 0
  BY <1>1, FS_EmptySet, Zenon
<1> QED
  BY <1>2 DEF IInv, RefsAgree, TypeOK

\* While a call is before a count, or the application owns the handle, that count
\* is positive.
LEMMA NoDanglingFromIInv == ASSUME Finite, IInv PROVE NoDangling
<1>1. ASSUME NEW h \in Handles
      PROVE  /\ held[h] \in Nat /\ lost[h] \in Nat
             /\ refs[h] >= held[h] + Cardinality(Dropped(h, BeforeAdapter))
             /\ entry[h] >= held[h] + Cardinality(Dropped(h, BeforeLoader))
             /\ Cardinality(Dropped(h, BeforeAdapter)) \in Nat
             /\ Cardinality(Dropped(h, BeforeLoader)) \in Nat
             /\ refs[h] \in Int /\ entry[h] \in Int
  <2>1. /\ Cardinality(Made(h, PastAdapter)) \in Nat
        /\ Cardinality(Made(h, PastLoader)) \in Nat
        /\ Cardinality(Dropped(h, BeforeAdapter)) \in Nat
        /\ Cardinality(Dropped(h, BeforeLoader)) \in Nat
    BY Zenon, CountsAreNats DEF IInv, Finite
  <2> QED BY <2>1 DEF IInv, RefsAgree, TypeOK
<1>2. \A h \in Handles : held[h] > 0 => refs[h] > 0 /\ entry[h] > 0
  BY <1>1
<1>3. ASSUME NEW t \in Threads, NEW P, call[t].op = "release", call[t].at \in P
      PROVE  Cardinality(Dropped(call[t].h, P)) > 0
  <2>1. call[t].h \in Handles
    BY Zenon, <1>3 DEF IInv, InUse
  <2>2. t \in Dropped(call[t].h, P)
    BY Zenon, <1>3 DEF Dropped
  <2>3. Dropped(call[t].h, P) # {}
    BY Zenon, <2>2
  <2>4. IsFiniteSet(Dropped(call[t].h, P)) /\ Cardinality(Dropped(call[t].h, P)) \in Nat
    BY Zenon, <2>1, CountsAreNats DEF IInv, Finite
  <2>5. Cardinality(Dropped(call[t].h, P)) # 0
    BY Zenon, <2>3, <2>4, FS_EmptySet
  <2> QED BY <2>4, <2>5
<1>4. ASSUME NEW t \in Threads
      PROVE  /\ call[t].op = "release" /\ call[t].at = "adapter" => refs[call[t].h] > 0
             /\ call[t].op = "release" /\ call[t].at \in {"adapter", "loader"} =>
                  entry[call[t].h] > 0
             /\ call[t].op = "retain" /\ call[t].at \in {"adapter", "loader"} =>
                  refs[call[t].h] > 0 /\ entry[call[t].h] > 0
  <2>1. CASE call[t].op = "retain"
    BY Zenon, <2>1, <1>2 DEF IInv, InUse
  <2>2. CASE call[t].op = "release"
    <3>1. call[t].h \in Handles
      BY Zenon, <2>2 DEF IInv, InUse
    <3>2. call[t].at \in BeforeAdapter => Cardinality(Dropped(call[t].h, BeforeAdapter)) > 0
      BY Zenon, <1>3, <2>2
    <3>3. call[t].at \in BeforeLoader => Cardinality(Dropped(call[t].h, BeforeLoader)) > 0
      BY Zenon, <1>3, <2>2
    <3>4. call[t].at \in BeforeAdapter => refs[call[t].h] > 0
      BY <3>1, <3>2, <1>1
    <3>5. call[t].at \in BeforeLoader => entry[call[t].h] > 0
      BY <3>1, <3>3, <1>1
    <3> QED BY Zenon, <2>2, <3>4, <3>5 DEF BeforeAdapter, BeforeLoader
  <2> QED BY Zenon, <2>1, <2>2
<1> QED
  BY Zenon, <1>2, <1>4 DEF NoDangling

\* No layer ever works on a count that has fallen to zero: a handle the
\* application owns, or that a release or a retain is about to count, has an
\* object in the adapter and an entry in the loader.
THEOREM NoDanglingAlways == ASSUME Finite PROVE Spec => [](NoDangling /\ QuietAgree)
<1>1. Init => IInv
  BY Zenon, InitIInv
<1>2. IInv /\ [Next]_vars => IInv'
  BY Zenon, NextIInv
<1>3. IInv => NoDangling /\ QuietAgree
  BY Zenon, NoDanglingFromIInv, QuietFromIInv
<1> QED
  BY <1>1, <1>2, <1>3, PTL DEF Spec

===============================================================================

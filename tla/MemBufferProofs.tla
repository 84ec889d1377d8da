--------------------------- MODULE MemBufferProofs ---------------------------
(*****************************************************************************)
(* One memory buffer, for any threads, devices, sizes, values and bounds.    *)
(*                                                                           *)
(* Every member keeps its type however the calls interleave.  When the       *)
(* application makes no launch or unmap during another call, the buffer has  *)
(* one allocation that stays where it is.                                    *)
(*****************************************************************************)
EXTENDS MemBuffer, FiniteSetTheorems, SequenceTheorems, WellFoundedInduction, TLAPS

\* The descriptors in hostAllocations, and the maps of the application.
HostAllocation == [ptr : {UserPtr} \cup Slots, off : Cells, size : 1 .. Size,
                   flags : SUBSET Flags]
OpenMap == [ptr : {UserPtr, Direct} \cup Slots, off : Cells, size : 1 .. Size,
            flags : SUBSET Flags]

\* The calls.
AccessCall == [op : {"read", "write", "launch"}, dev : Devices, region : Regions,
               value : Values, fresh : BOOLEAN]
MapCall == [op : {"map"}, flags : SUBSET Flags, region : Regions, fresh : {FALSE}]
UnmapCall == [op : {"unmap"}, map : OpenMap, ptr : {UserPtr, Direct} \cup Slots,
              dev : {First}, fresh : BOOLEAN]
UnknownUnmap == [op |-> "unmap", ptr |-> Unknown, fresh |-> FALSE,
                 map |-> [ptr |-> Unknown]]

CallOK ==
  /\ DOMAIN call = Threads
  /\ \A t \in Threads :
       \/ call[t] = Idle
       \/ call[t] \in AccessCall /\ (call[t].fresh \/ active # NoDevice)
       \/ call[t] \in MapCall
       \/ call[t] \in UnmapCall /\ call[t].map.ptr = call[t].ptr
       \/ call[t] = UnknownUnmap

\* What a buffer of each origin has, and what is left when there is none.
BufferOK ==
  /\ IF origin = None
     THEN /\ active = NoDevice /\ maps = <<>> /\ mapped = {}
          /\ \A t \in Threads : call[t] = Idle
     ELSE origin \in DOMAIN Uses
  /\ active # NoDevice => alloc[active] \in Memory
  /\ origin \notin {None, "plain"} => active # NoDevice
  /\ origin = "integrated" =>
       /\ active = First
       /\ \A t \in Threads : call[t] # Idle => ~call[t].fresh

\* The maps: their types, and which of them are direct.
MapsTyped ==
  /\ maps \in Seq(HostAllocation)
  /\ IsFiniteSet(mapped)
  /\ \A m \in mapped :
       /\ m \in OpenMap /\ m.off + m.size <= Size
       /\ m.ptr = Direct <=> origin = "integrated"

Inv1 == TypeOK /\ CallOK /\ BufferOK /\ MapsTyped

\* One call is made at a time; the buffer has at most one allocation, the one
\* in use; a call that found none still finds none.
OneCall == \A t, u \in Threads : call[t] # Idle /\ call[u] # Idle => t = u
OneAllocation == \A d \in Devices : d # active => alloc[d] = NoMemory
StillFresh == \A t \in Threads : call[t] # Idle /\ call[t].fresh => active = NoDevice

Inv2 == OneCall /\ OneAllocation /\ StillFresh

------------------------------------------------------------------------------
(* The operators *)

\* A set of natural numbers has its minimum.
LEMMA MinOf ==
  ASSUME NEW S, S \subseteq Nat, S # {}
  PROVE  Min(S) \in S
<1> DEFINE R == OpToRel(<, Nat)
<1>1. IsWellFoundedOn(R, Nat)
  BY Zenon, NatLessThanWellFounded
<1>2. \A x, y \in Nat : x < y => <<x, y>> \in R
  BY Zenon DEF OpToRel
<1> HIDE DEF R
<1>3. \E x \in S : \A y \in S : ~(<<y, x>> \in R)
  BY Zenon, <1>1, WFMin
<1>4. \E x \in S : \A y \in S : x <= y
  <2>1. PICK x \in S : \A y \in S : ~(<<y, x>> \in R)
    BY Zenon, <1>3
  <2>2. \A y \in S : ~(y < x)
    BY Zenon, <1>2, <2>1
  <2>3. \A y \in S : x <= y
    BY <2>2
  <2> QED
    BY Zenon, <2>3
<1> QED
  BY Zenon, <1>4 DEF Min

\* The search for a pointer in hostAllocations.
LEMMA FindFacts ==
  ASSUME MapsTyped, NEW p
  PROVE  /\ Find(p) = 0 => \A i \in DOMAIN maps : maps[i].ptr # p
         /\ Find(p) # 0 => Find(p) \in DOMAIN maps /\ maps[Find(p)].ptr = p
<1> DEFINE found == {i \in DOMAIN maps : maps[i].ptr = p}
<1>1. found \subseteq Nat /\ 0 \notin found
  BY DEF MapsTyped
<1>2. found # {} => Min(found) \in found
  BY Zenon, <1>1, MinOf
<1>3. Find(p) = IF found = {} THEN 0 ELSE Min(found)
  BY Zenon DEF Find
<1> HIDE DEF found
<1>4. CASE found = {}
  BY Zenon, <1>3, <1>4 DEF found
<1>5. CASE found # {}
  <2>1. Find(p) \in found /\ Find(p) # 0
    BY Zenon, <1>1, <1>2, <1>3, <1>5
  <2> QED
    BY Zenon, <2>1 DEF found
<1> QED
  BY Zenon, <1>4, <1>5

\* erase: the elements after i move up by one.
LEMMA EraseFacts ==
  ASSUME NEW S, NEW s \in Seq(S), NEW i \in DOMAIN s
  PROVE  LET r == SubSeq(s, 1, i - 1) \o SubSeq(s, i + 1, Len(s))
         IN  /\ r \in Seq(S) /\ Len(s) \in Nat \ {0}
             /\ DOMAIN s = 1 .. Len(s) /\ DOMAIN r = 1 .. Len(s) - 1
             /\ \A j \in 1 .. Len(s) - 1 : r[j] = IF j < i THEN s[j] ELSE s[j + 1]
<1> DEFINE n == Len(s)
           a == SubSeq(s, 1, i - 1)
           b == SubSeq(s, i + 1, n)
<1>1. n \in Nat \ {0} /\ DOMAIN s = 1 .. n /\ i \in 1 .. n /\ \A j \in 1 .. n : s[j] \in S
  OBVIOUS
<1>2. a \in Seq(S) /\ Len(a) = i - 1 /\ \A j \in 1 .. i - 1 : a[j] = s[j]
  BY <1>1, SubSeqProperties
<1>3. b \in Seq(S) /\ Len(b) = n - i /\ \A j \in 1 .. n - i : b[j] = s[i + j]
  BY SMTT(60), <1>1, SubSeqProperties
<1> HIDE DEF a, b, n
<1>4. /\ a \o b \in Seq(S) /\ Len(a \o b) = Len(a) + Len(b)
      /\ \A j \in 1 .. Len(a) + Len(b) :
           (a \o b)[j] = IF j <= Len(a) THEN a[j] ELSE b[j - Len(a)]
  BY <1>2, <1>3, ConcatProperties, Zenon
<1>5. Len(a) + Len(b) = n - 1
  BY <1>1, <1>2, <1>3
<1>6. DOMAIN (a \o b) = 1 .. n - 1
  BY Zenon, <1>4, <1>5, LenProperties
<1>7. ASSUME NEW j \in 1 .. n - 1
      PROVE  (a \o b)[j] = IF j < i THEN s[j] ELSE s[j + 1]
  <2>1. CASE j < i
    <3>1. j \in 1 .. i - 1 /\ j <= Len(a) /\ j \in 1 .. Len(a) + Len(b)
      BY <1>1, <1>2, <1>5, <2>1
    <3> QED
      BY Zenon, <1>2, <1>4, <2>1, <3>1
  <2>2. CASE ~(j < i)
    <3>1. j - Len(a) \in 1 .. n - i /\ i + (j - Len(a)) = j + 1 /\ ~(j <= Len(a))
          /\ j \in 1 .. Len(a) + Len(b)
      BY <1>1, <1>2, <1>5, <2>2
    <3>2. (a \o b)[j] = b[j - Len(a)]
      BY Zenon, <1>4, <3>1
    <3>3. b[j - Len(a)] = s[i + (j - Len(a))]
      BY Zenon, <1>3, <3>1
    <3> QED
      BY Zenon, <2>2, <3>1, <3>2, <3>3
  <2> QED
    BY Zenon, <2>1, <2>2
<1>8. SubSeq(s, 1, i - 1) \o SubSeq(s, i + 1, Len(s)) = a \o b
  BY Zenon DEF a, b, n
<1> QED
  BY Zenon, <1>1, <1>4, <1>6, <1>7, <1>8 DEF n

\* The contents of memory.
LEMMA MemoryFacts ==
  /\ NoMemory \notin Memory
  /\ \A v \in Data : Filled(v) \in Memory
  /\ Junk \in Data /\ User \in Data /\ Unset \notin Data /\ Values \subseteq Data
  /\ \A M \in Memory, v \in Data : \A C : Overwritten(M, C, v) \in Memory
<1> USE MemBufferAssumption
<1>1. NoMemory \notin Memory
  <2>1. 0 \in Cells
    BY DEF Cells
  <2>2. DOMAIN NoMemory = {}
    BY DEF NoMemory
  <2> QED
    BY Zenon, <2>1, <2>2 DEF Memory
<1>2. Junk \in Data /\ User \in Data /\ Unset \notin Data /\ Values \subseteq Data
  BY DEF Junk, User, Unset, Data
<1>3. \A v \in Data : Filled(v) \in Memory
  BY Zenon DEF Filled, Memory
<1>4. \A M \in Memory, v \in Data : \A C : Overwritten(M, C, v) \in Memory
  BY Zenon DEF Overwritten, Memory
<1> QED
  BY Zenon, <1>1, <1>2, <1>3, <1>4

\* The cells of a region.
LEMMA RegionFacts ==
  ASSUME NEW r, r \in Regions \/ (r.off \in Cells /\ r.size \in 1 .. Size /\ r.off + r.size <= Size)
  PROVE  /\ r.off \in Cells /\ r.size \in 1 .. Size /\ r.off + r.size <= Size
         /\ CellsOf(r) \subseteq Cells
         /\ \A i \in 0 .. r.size - 1 : /\ i \in Cells /\ r.off + i \in Cells
                                       /\ r.off + i \in CellsOf(r)
         /\ \A c \in CellsOf(r) : c - r.off \in 0 .. r.size - 1 /\ r.off + (c - r.off) = c
<1> USE MemBufferAssumption
<1>1. r.off \in Cells /\ r.size \in 1 .. Size /\ r.off + r.size <= Size
  BY Zenon DEF Regions
<1>2. \A o, z \in Int : o >= 0 /\ z >= 1 /\ o + z <= Size =>
        /\ o .. o + z - 1 \subseteq 0 .. Size - 1
        /\ \A i \in 0 .. z - 1 : i \in 0 .. Size - 1 /\ o + i \in 0 .. Size - 1
                                 /\ o + i \in o .. o + z - 1
        /\ \A c \in o .. o + z - 1 : c - o \in 0 .. z - 1 /\ o + (c - o) = c
  OBVIOUS
<1>3. r.off \in Int /\ r.size \in Int /\ r.off >= 0 /\ r.size >= 1
  BY <1>1 DEF Cells
<1> QED
  BY Zenon, <1>1, <1>2, <1>3 DEF Cells, CellsOf

\* The kinds of call.
LEMMA CallKinds ==
  ASSUME CallOK, NEW t \in Threads
  PROVE  /\ call[t] # Idle <=> call[t].op # "idle"
         /\ call[t].op \in {"read", "write", "launch"} =>
              /\ call[t] \in AccessCall
              /\ call[t].dev \in Devices /\ call[t].region \in Regions
              /\ call[t].value \in Values
              /\ call[t].fresh \in BOOLEAN /\ (call[t].fresh \/ active # NoDevice)
         /\ call[t].op = "map" =>
              /\ call[t] \in MapCall
              /\ call[t].flags \in SUBSET Flags /\ call[t].region \in Regions
         /\ call[t].op = "unmap" =>
              \/ /\ call[t] \in UnmapCall
                 /\ call[t].map \in OpenMap /\ call[t].map.ptr = call[t].ptr
                 /\ call[t].ptr \in {UserPtr, Direct} \cup Slots
                 /\ call[t].dev = First /\ call[t].fresh \in BOOLEAN
              \/ call[t] = UnknownUnmap
<1>1. CASE call[t] = Idle
  BY <1>1 DEF Idle
<1>2. CASE call[t] \in AccessCall /\ (call[t].fresh \/ active # NoDevice)
  BY <1>2 DEF AccessCall, Idle
<1>3. CASE call[t] \in MapCall
  <2>1. call[t].op = "map" /\ call[t].flags \in SUBSET Flags /\ call[t].region \in Regions
    BY Zenon, <1>3 DEF MapCall
  <2> QED
    BY <1>3, <2>1 DEF Idle
<1>4. CASE call[t] \in UnmapCall /\ call[t].map.ptr = call[t].ptr
  BY <1>4 DEF UnmapCall, Idle
<1>5. CASE call[t] = UnknownUnmap
  BY <1>5 DEF UnknownUnmap, Idle
<1> QED
  BY Zenon, <1>1, <1>2, <1>3, <1>4, <1>5 DEF CallOK

------------------------------------------------------------------------------
(* Types: creation, the start of a call, release *)

\* A function returns: its call is over and the others go on.
LEMMA DoneFacts ==
  ASSUME CallOK, NEW t \in Threads, Done(t), active # NoDevice => active' # NoDevice
  PROVE  /\ CallOK'
         /\ call'[t] = Idle
         /\ \A u \in Threads : u # t => call'[u] = call[u]
<1>1. DOMAIN call' = Threads /\ call'[t] = Idle /\ \A u \in Threads : u # t => call'[u] = call[u]
  BY Zenon DEF CallOK, Done
<1>2. ASSUME NEW u \in Threads, u # t
      PROVE  \/ call'[u] = Idle
             \/ call'[u] \in AccessCall /\ (call'[u].fresh \/ active' # NoDevice)
             \/ call'[u] \in MapCall
             \/ call'[u] \in UnmapCall /\ call'[u].map.ptr = call'[u].ptr
             \/ call'[u] = UnknownUnmap
  <2>1. call'[u] = call[u]
    BY Zenon, <1>1, <1>2
  <2>2. \/ call[u] = Idle
        \/ call[u] \in AccessCall /\ (call[u].fresh \/ active # NoDevice)
        \/ call[u] \in MapCall
        \/ call[u] \in UnmapCall /\ call[u].map.ptr = call[u].ptr
        \/ call[u] = UnknownUnmap
    BY Zenon DEF CallOK
  <2> QED
    BY Zenon, <2>1, <2>2
<1> QED
  BY Zenon, <1>1, <1>2 DEF CallOK

\* The operation of a call is one of the six.
LEMMA Operations ==
  ASSUME NEW c,
         c = Idle \/ c \in AccessCall \/ c \in MapCall \/ c \in UnmapCall \/ c = UnknownUnmap
  PROVE  c.op \in Locked \cup {"launch", "unmap", "idle"}
<1>1. CASE c = Idle
  BY Zenon, <1>1 DEF Idle
<1>2. CASE c \in AccessCall
  BY Zenon, <1>2 DEF AccessCall, Locked
<1>3. CASE c \in MapCall
  <2>1. c.op = "map"
    BY Zenon, <1>3 DEF MapCall
  <2> QED
    BY Zenon, <2>1 DEF Locked
<1>4. CASE c \in UnmapCall
  BY Zenon, <1>4 DEF UnmapCall
<1>5. CASE c = UnknownUnmap
  BY Zenon, <1>5 DEF UnknownUnmap
<1> QED
  BY Zenon, <1>1, <1>2, <1>3, <1>4, <1>5

\* The initial state.
LEMMA InitHolds1 ==
  ASSUME Init
  PROVE  Inv1
<1> USE MemBufferAssumption
<1>1. CallOK
  BY Zenon DEF Init, CallOK
<1>2. TypeOK
  <2>1. logical \in [Cells -> Data \cup {Unset}]
    BY Zenon DEF Init, Filled
  <2>2. mem \in [{UserPtr} \cup Slots -> Memory]
    BY Zenon, MemoryFacts DEF Init
  <2>3. \A t \in Threads : call[t].op \in Locked \cup {"launch", "unmap", "idle"}
    BY Zenon, <1>1, Operations DEF CallOK
  <2>4. alloc \in [Devices -> Memory \cup {NoMemory}] /\ maps = <<>>
    BY Zenon DEF Init
  <2>5. origin = None /\ active = NoDevice /\ held = {} /\ userFreed = FALSE
    BY Zenon DEF Init
  <2>6. DOMAIN maps = {} /\ userFreed \in BOOLEAN
    <3>1. DOMAIN maps = {}
      BY <2>4
    <3>2. userFreed \in BOOLEAN
      BY <2>5, Zenon
    <3> QED
      BY Zenon, <3>1, <3>2
  <2> QED
    BY <2>1, <2>2, <2>3, <2>4, <2>5, <2>6, Zenon DEF TypeOK
<1>3. BufferOK
  BY Zenon DEF Init, BufferOK, None
<1>4. MapsTyped
  BY FS_EmptySet DEF Init, MapsTyped
<1> QED
  BY Zenon, <1>1, <1>2, <1>3, <1>4 DEF Inv1

\* A new buffer of any origin.
LEMMA CreateKeeps1 ==
  ASSUME Inv1, NEW o, NEW d, NEW contents, NEW expected, Create(o, d, contents, expected),
         expected \in Data \cup {Unset},
         \/ d = NoDevice /\ contents = NoMemory /\ o = "plain"
         \/ d \in Devices /\ contents \in Memory /\ (o = "integrated" => d = First)
  PROVE  Inv1'
<1> USE MemBufferAssumption DEF Inv1
<1>1. /\ origin = None /\ o \in DOMAIN Uses /\ origin' = o /\ active' = d
      /\ alloc' = [e \in Devices |-> IF e = d THEN contents ELSE NoMemory]
      /\ mem' = [mem EXCEPT ![UserPtr] = Filled(User)]
      /\ logical' = Filled(expected)
      /\ maps' = maps /\ held' = held /\ userFreed' = userFreed /\ mapped' = mapped
      /\ call' = call
  BY Zenon DEF Create
<1>2. /\ active = NoDevice /\ maps = <<>> /\ mapped = {}
      /\ \A t \in Threads : call[t] = Idle
  BY Zenon, <1>1 DEF BufferOK
<1>3. o \in Origins /\ o # None
  BY Zenon, <1>1 DEF Origins, None
<1>4. CallOK'
  BY Zenon, <1>1, <1>2 DEF CallOK
<1>5. TypeOK'
  <2>1. logical' \in [Cells -> Data \cup {Unset}]
    BY Zenon, <1>1 DEF Filled
  <2>2. mem' \in [{UserPtr} \cup Slots -> Memory]
    BY Zenon, <1>1, MemoryFacts DEF TypeOK
  <2>3. alloc' \in [Devices -> Memory \cup {NoMemory}]
    BY Zenon, <1>1
  <2>4. \A t \in Threads : call'[t].op \in Locked \cup {"launch", "unmap", "idle"}
    BY Zenon, <1>1 DEF TypeOK
  <2> QED
    BY Zenon, <1>1, <1>2, <1>3, <2>1, <2>2, <2>3, <2>4 DEF TypeOK
<1>6. BufferOK'
  <2>1. active' # NoDevice => alloc'[active'] \in Memory
    BY Zenon, <1>1
  <2> QED
    BY Zenon, <1>1, <1>2, <1>3, <2>1 DEF BufferOK
<1>7. MapsTyped'
  BY Zenon, <1>1, <1>2, FS_EmptySet DEF MapsTyped
<1> QED
  BY Zenon, <1>4, <1>5, <1>6, <1>7

\* Creation by the application's two functions.
LEMMA CreationKeeps1 ==
  ASSUME Inv1, urMemBufferCreate \/ urMemBufferCreateWithNativeHandle
  PROVE  Inv1'
<1> USE MemBufferAssumption
<1>1. Filled(User) \in Memory /\ Filled(Junk) \in Memory /\ User \in Data
  BY Zenon, MemoryFacts
<1>2. CASE Create("plain", NoDevice, NoMemory, Unset)
  BY Zenon, <1>2, CreateKeeps1
<1>3. CASE Create("hostPtr", First, Filled(User), User)
  BY Zenon, <1>1, <1>3, CreateKeeps1
<1>4. CASE Create("integrated", First, Filled(User), User)
  BY Zenon, <1>1, <1>4, CreateKeeps1
<1>5. CASE Create("nativeHost", First, Filled(Junk), User)
  BY Zenon, <1>1, <1>5, CreateKeeps1
<1>6. ASSUME NEW d \in Devices, Create("nativeDevice", d, Filled(User), User)
      PROVE  Inv1'
  BY Zenon, <1>1, <1>6, CreateKeeps1
<1> QED
  BY Zenon, <1>2, <1>3, <1>4, <1>5, <1>6
  DEF urMemBufferCreate, urMemBufferCreateWithNativeHandle

\* A call begins, of any kind.
LEMMA BeginKeeps1 ==
  ASSUME Inv1, NEW t \in Threads, NEW c, Begin(t, c),
         \/ c \in AccessCall /\ (c.fresh \/ active # NoDevice)
         \/ c \in MapCall
         \/ c \in UnmapCall /\ c.map.ptr = c.ptr
         \/ c = UnknownUnmap,
         active # NoDevice => ~c.fresh
  PROVE  Inv1'
<1> USE MemBufferAssumption DEF Inv1
<1>1. /\ origin # None /\ call' = [call EXCEPT ![t] = c]
      /\ origin' = origin /\ alloc' = alloc /\ active' = active /\ maps' = maps /\ mem' = mem
      /\ held' = held /\ userFreed' = userFreed /\ mapped' = mapped /\ logical' = logical
  BY Zenon DEF Begin, bufferVars, historyVars
<1>2. /\ DOMAIN call' = Threads /\ call'[t] = c
      /\ \A u \in Threads : u # t => call'[u] = call[u]
  BY Zenon, <1>1 DEF CallOK
<1>3. CallOK'
  <2> SUFFICES ASSUME NEW u \in Threads
               PROVE  \/ call'[u] = Idle
                      \/ call'[u] \in AccessCall /\ (call'[u].fresh \/ active' # NoDevice)
                      \/ call'[u] \in MapCall
                      \/ call'[u] \in UnmapCall /\ call'[u].map.ptr = call'[u].ptr
                      \/ call'[u] = UnknownUnmap
    BY Zenon, <1>2 DEF CallOK
  <2>1. CASE u = t
    BY Zenon, <1>1, <1>2, <2>1
  <2>2. CASE u # t
    <3>1. \/ call[u] = Idle
          \/ call[u] \in AccessCall /\ (call[u].fresh \/ active # NoDevice)
          \/ call[u] \in MapCall
          \/ call[u] \in UnmapCall /\ call[u].map.ptr = call[u].ptr
          \/ call[u] = UnknownUnmap
      BY Zenon DEF CallOK
    <3> QED
      BY Zenon, <1>1, <1>2, <2>2, <3>1
  <2> QED
    BY Zenon, <2>1, <2>2
<1>4. TypeOK'
  <2>1. \A u \in Threads : call'[u].op \in Locked \cup {"launch", "unmap", "idle"}
    <3>1. c.op \in Locked \cup {"launch", "unmap", "idle"}
      BY Zenon, Operations
    <3> QED
      BY Zenon, <1>2, <3>1 DEF TypeOK
  <2> QED
    BY Zenon, <1>1, <2>1 DEF TypeOK
<1>5. BufferOK'
  <2>1. origin = "integrated" => \A u \in Threads : call'[u] # Idle => ~call'[u].fresh
    BY Zenon, <1>2 DEF BufferOK
  <2> QED
    BY Zenon, <1>1, <2>1 DEF BufferOK
<1>6. MapsTyped'
  BY Zenon, <1>1 DEF MapsTyped
<1> QED
  BY Zenon, <1>3, <1>4, <1>5, <1>6

\* The calls the application makes.
LEMMA CallsKeep1 ==
  ASSUME Inv1, NEW t \in Threads, origin # None, Access(t) \/ Map(t) \/ Unmap(t)
  PROVE  Inv1'
<1> USE MemBufferAssumption
<1>1. origin \in DOMAIN Uses /\ Uses[origin] \in Use
  BY Zenon DEF Inv1, BufferOK
<1>2. Uses[origin].flags \subseteq SUBSET Flags /\ Uses[origin].regions \subseteq Regions
  BY Zenon, <1>1 DEF Use
<1>3. ASSUME NEW op \in {"read", "write", "launch"}, NEW d \in Devices,
             NEW r \in Uses[origin].regions, NEW v \in Values,
             Begin(t, [op |-> op, dev |-> d, region |-> r, value |-> v,
                       fresh |-> active = NoDevice])
      PROVE  Inv1'
  <2> DEFINE c == [op |-> op, dev |-> d, region |-> r, value |-> v, fresh |-> active = NoDevice]
  <2>1. (active = NoDevice) \in BOOLEAN
    BY Zenon
  <2>2. c \in AccessCall /\ (c.fresh <=> active = NoDevice)
    BY Zenon, <1>2, <2>1 DEF AccessCall
  <2>3. Begin(t, c)
    BY Zenon, <1>3
  <2> HIDE DEF c
  <2> QED
    BY Zenon, <2>2, <2>3, BeginKeeps1
<1>4. ASSUME NEW f \in Uses[origin].flags, NEW r \in Uses[origin].regions,
             Begin(t, [op |-> "map", flags |-> f, region |-> r, fresh |-> FALSE])
      PROVE  Inv1'
  <2> DEFINE c == [op |-> "map", flags |-> f, region |-> r, fresh |-> FALSE]
  <2>1. c \in MapCall /\ ~c.fresh
    BY Zenon, <1>2 DEF MapCall
  <2>2. Begin(t, c)
    BY Zenon, <1>4
  <2> HIDE DEF c
  <2> QED
    BY Zenon, <2>1, <2>2, BeginKeeps1
<1>5. ASSUME NEW m \in mapped, NEW F, F \in BOOLEAN, F => active = NoDevice,
             Begin(t, [op |-> "unmap", map |-> m, ptr |-> m.ptr, dev |-> First, fresh |-> F])
      PROVE  Inv1'
  <2> DEFINE c == [op |-> "unmap", map |-> m, ptr |-> m.ptr, dev |-> First, fresh |-> F]
  <2>1. m \in OpenMap
    BY Zenon DEF Inv1, MapsTyped
  <2>2. c \in UnmapCall /\ c.map.ptr = c.ptr /\ (c.fresh <=> F)
    BY Zenon, <1>5, <2>1 DEF UnmapCall, OpenMap
  <2>3. Begin(t, c)
    BY Zenon, <1>5
  <2> HIDE DEF c
  <2> QED
    BY Zenon, <1>5, <2>2, <2>3, BeginKeeps1
<1>6. ASSUME Begin(t, UnknownUnmap)
      PROVE  Inv1'
  <2>1. ~UnknownUnmap.fresh
    BY Zenon DEF UnknownUnmap
  <2> QED
    BY Zenon, <1>6, <2>1, BeginKeeps1
<1>7. CASE Access(t)
  BY Zenon, <1>3, <1>7 DEF Access
<1>8. CASE Map(t)
  BY Zenon, <1>4, <1>8 DEF Map
<1>9. CASE Unmap(t)
  <2>1. ASSUME NEW m \in mapped,
               Begin(t, [op |-> "unmap", map |-> m, ptr |-> m.ptr, dev |-> First,
                         fresh |-> /\ active = NoDevice
                                   /\ Find(m.ptr) # 0
                                   /\ "invalidate" \notin maps[Find(m.ptr)].flags])
        PROVE  Inv1'
    <3> DEFINE F == /\ active = NoDevice
                    /\ Find(m.ptr) # 0
                    /\ "invalidate" \notin maps[Find(m.ptr)].flags
    <3>1. F \in BOOLEAN /\ (F => active = NoDevice)
      BY Zenon
    <3>2. Begin(t, [op |-> "unmap", map |-> m, ptr |-> m.ptr, dev |-> First, fresh |-> F])
      BY Zenon, <2>1
    <3> HIDE DEF F
    <3> QED
      BY Zenon, <1>5, <3>1, <3>2
  <2> QED
    BY Zenon, <1>6, <1>9, <2>1 DEF Unmap, UnknownUnmap
<1> QED
  BY <1>7, <1>8, <1>9, Zenon

\* The last release.
LEMMA urMemReleaseKeeps1 ==
  ASSUME Inv1, urMemRelease
  PROVE  Inv1'
<1> USE MemBufferAssumption DEF Inv1
<1>1. /\ origin # None /\ mapped = {} /\ (\A t \in Threads : call[t] = Idle)
      /\ origin' = None /\ active' = NoDevice /\ maps' = <<>> /\ held' = {}
      /\ userFreed' = FALSE /\ mapped' = mapped /\ call' = call
      /\ alloc' = [d \in Devices |-> NoMemory] /\ logical' = Filled(Unset)
      /\ mem' = [p \in DOMAIN mem |-> IF p = UserPtr THEN WriteBack(p) ELSE Filled(Junk)]
  BY Zenon DEF urMemRelease
<1>2. mem' \in [{UserPtr} \cup Slots -> Memory]
  <2>1. WriteBack(UserPtr) \in Memory
    <3>1. CASE origin = "nativeHost"
      <4>1. active # NoDevice
        BY Zenon, <3>1 DEF BufferOK, None
      <4> QED
        BY Zenon, <3>1, <4>1 DEF BufferOK, WriteBack
    <3>2. CASE origin # "nativeHost"
      BY Zenon, <3>2 DEF WriteBack, TypeOK
    <3> QED
      BY Zenon, <3>1, <3>2
  <2>2. Filled(Junk) \in Memory /\ DOMAIN mem = {UserPtr} \cup Slots
    BY Zenon, MemoryFacts DEF TypeOK
  <2>3. mem' = [p \in {UserPtr} \cup Slots |-> IF p = UserPtr THEN WriteBack(UserPtr) ELSE Filled(Junk)]
    BY <1>1, <2>2, Zenon
  <2> QED
    BY Zenon, <2>1, <2>2, <2>3
<1>3. logical' \in [Cells -> Data \cup {Unset}]
  BY Zenon, <1>1 DEF Filled
<1>4. TypeOK'
  <2>1. alloc' \in [Devices -> Memory \cup {NoMemory}]
    BY Zenon, <1>1
  <2>2. \A t \in Threads : call'[t].op \in Locked \cup {"launch", "unmap", "idle"}
    BY Zenon, <1>1 DEF TypeOK
  <2>3. DOMAIN maps' = {} /\ userFreed' \in BOOLEAN
    <3>1. DOMAIN maps' = {}
      BY <1>1
    <3>2. userFreed' \in BOOLEAN
      BY <1>1, Zenon
    <3> QED
      BY Zenon, <3>1, <3>2
  <2>4. /\ origin' \in Origins \cup {None} /\ active' \in Devices \cup {NoDevice}
        /\ held' \subseteq Slots
    BY Zenon, <1>1
  <2> HIDE DEF Inv1
  <2> QED
    BY <1>2, <1>3, <2>1, <2>2, <2>3, <2>4, Zenon DEF TypeOK
<1>5. CallOK'
  BY Zenon, <1>1 DEF CallOK
<1>6. BufferOK'
  BY Zenon, <1>1 DEF BufferOK, None
<1>7. MapsTyped'
  BY <1>1, FS_EmptySet DEF MapsTyped
<1> QED
  BY Zenon, <1>4, <1>5, <1>6, <1>7

------------------------------------------------------------------------------
(* Types: the rest of a call *)

\* A function returns and leaves members of their types.
LEMMA ReturnKeeps1 ==
  ASSUME Inv1, NEW t \in Threads, call[t] # Idle, Done(t), origin' = origin,
         active' \in Devices \cup {NoDevice}, active # NoDevice => active' # NoDevice,
         active' # NoDevice => alloc'[active'] \in Memory,
         origin = "integrated" => active' = First,
         alloc' \in [Devices -> Memory \cup {NoMemory}],
         mem' \in [{UserPtr} \cup Slots -> Memory],
         held' \subseteq Slots, userFreed' \in BOOLEAN,
         logical' \in [Cells -> Data \cup {Unset}],
         MapsTyped'
  PROVE  Inv1'
<1> USE DEF Inv1
<1>1. /\ CallOK' /\ call'[t] = Idle
      /\ \A u \in Threads : u # t => call'[u] = call[u]
  BY Zenon, DoneFacts
<1>2. origin # None /\ origin \in DOMAIN Uses
  BY Zenon DEF BufferOK
<1>3. BufferOK'
  <2>1. origin = "integrated" => \A u \in Threads : call'[u] # Idle => ~call'[u].fresh
    BY Zenon, <1>1 DEF BufferOK
  <2>2. origin \notin {None, "plain"} => active' # NoDevice
    BY Zenon DEF BufferOK
  <2> QED
    BY Zenon, <1>2, <2>1, <2>2 DEF BufferOK
<1>4. \A u \in Threads : call'[u].op \in Locked \cup {"launch", "unmap", "idle"}
  <2>1. Idle.op = "idle"
    BY Zenon DEF Idle
  <2> QED
    BY Zenon, <1>1, <2>1 DEF TypeOK
<1>5. \A i \in DOMAIN maps' : maps'[i] \in HostAllocation
  BY DEF MapsTyped
<1>6. TypeOK'
  <2>1. origin' \in Origins \cup {None}
    BY Zenon DEF TypeOK
  <2> QED
    BY <1>4, <1>5, <2>1, Zenon DEF TypeOK, HostAllocation
<1> QED
  BY Zenon, <1>1, <1>3, <1>6

\* Where a call works.
LEMMA TargetFacts ==
  ASSUME Inv1, NEW t \in Threads, call[t].dev \in Devices, call[t] # Idle,
         call[t].fresh \/ active # NoDevice
  PROVE  /\ Target(t) \in Devices /\ Target(t) # NoDevice /\ TargetMemory(t) \in Memory
         /\ origin = "integrated" => Target(t) = First
<1> USE MemBufferAssumption
<1>1. CASE call[t].fresh
  <2>1. Target(t) = call[t].dev /\ TargetMemory(t) = Filled(Junk)
    BY Zenon, <1>1 DEF Target, TargetMemory
  <2>2. origin # "integrated"
    BY Zenon, <1>1 DEF Inv1, BufferOK
  <2> QED
    BY Zenon, <2>1, <2>2, MemoryFacts
<1>2. CASE ~call[t].fresh
  <2>1. Target(t) = active /\ TargetMemory(t) = alloc[active] /\ active # NoDevice
    BY Zenon, <1>2 DEF Target, TargetMemory
  <2> QED
    BY Zenon, <2>1 DEF Inv1, BufferOK, TypeOK
<1> QED
  BY Zenon, <1>1, <1>2

\* getDevicePtr and the command that uses the pointer.
LEMMA getDevicePtrKeeps1 ==
  ASSUME Inv1, NEW t \in Threads, getDevicePtr(t)
  PROVE  Inv1'
<1> USE MemBufferAssumption
<1>1. CallOK /\ TypeOK /\ BufferOK /\ MapsTyped
  BY Zenon DEF Inv1
<1>2. /\ call[t].op \in {"read", "write", "launch"} /\ Done(t)
      /\ origin' = origin /\ maps' = maps /\ mem' = mem /\ held' = held
      /\ userFreed' = userFreed /\ mapped' = mapped
  BY Zenon DEF getDevicePtr
<1>3. /\ call[t] # Idle /\ call[t].dev \in Devices /\ call[t].value \in Values
      /\ (call[t].fresh \/ active # NoDevice)
  BY Zenon, <1>1, <1>2, CallKinds
<1>4. MapsTyped'
  BY Zenon, <1>1, <1>2 DEF MapsTyped
<1>5. /\ mem' \in [{UserPtr} \cup Slots -> Memory] /\ held' \subseteq Slots
      /\ userFreed' \in BOOLEAN
  BY Zenon, <1>1, <1>2 DEF TypeOK
<1>6. CASE Reachable(t)
  <2> DEFINE T == Target(t)
             M == Overwritten(TargetMemory(t), Touched(t), call[t].value)
  <2>1. /\ T \in Devices /\ T # NoDevice /\ (origin = "integrated" => T = First)
        /\ TargetMemory(t) \in Memory
    BY Zenon, <1>3, TargetFacts
  <2>2. M \in Memory
    BY Zenon, <1>3, <2>1, MemoryFacts
  <2>3. /\ alloc' = [alloc EXCEPT ![T] = M] /\ active' = T
        /\ logical' = IF call[t].op = "read" THEN logical
                      ELSE Overwritten(logical, CellsOf(call[t].region), call[t].value)
    BY Zenon, <1>6 DEF getDevicePtr
  <2> HIDE DEF T, M
  <2>4. alloc' \in [Devices -> Memory \cup {NoMemory}] /\ alloc'[T] = M
    BY Zenon, <1>1, <2>1, <2>2, <2>3 DEF TypeOK
  <2>5. logical' \in [Cells -> Data \cup {Unset}]
    BY Zenon, <1>1, <1>3, <2>3, MemoryFacts DEF TypeOK, Overwritten
  <2> QED
    BY Zenon, <1>2, <1>3, <1>4, <1>5, <2>1, <2>2, <2>3, <2>4, <2>5, ReturnKeeps1
<1>7. CASE ~Reachable(t)
  <2>1. alloc' = alloc /\ active' = active /\ logical' = logical
    BY Zenon, <1>7 DEF getDevicePtr
  <2>2. /\ active' \in Devices \cup {NoDevice} /\ (active # NoDevice => active' # NoDevice)
        /\ (active' # NoDevice => alloc'[active'] \in Memory)
        /\ (origin = "integrated" => active' = First)
        /\ alloc' \in [Devices -> Memory \cup {NoMemory}]
        /\ logical' \in [Cells -> Data \cup {Unset}]
    BY Zenon, <1>1, <2>1 DEF TypeOK, BufferOK
  <2> QED
    BY Zenon, <1>2, <1>3, <1>4, <1>5, <2>2, ReturnKeeps1
<1> QED
  BY Zenon, <1>6, <1>7

\* The descriptor of a new map.
LEMMA DescriptorFacts ==
  ASSUME Inv1, NEW t \in Threads, call[t].op = "map",
         NEW p \in {UserPtr, Direct} \cup Slots
  PROVE  /\ Descriptor(t, p) \in OpenMap
         /\ p # Direct => Descriptor(t, p) \in HostAllocation
         /\ Descriptor(t, p).ptr = p /\ Descriptor(t, p).flags = call[t].flags
         /\ Descriptor(t, p).off = call[t].region.off
         /\ Descriptor(t, p).size = call[t].region.size
         /\ Descriptor(t, p).off + Descriptor(t, p).size <= Size
         /\ CellsOf(Descriptor(t, p)) = CellsOf(call[t].region)
<1>1. call[t].flags \in SUBSET Flags /\ call[t].region \in Regions
  BY Zenon, CallKinds DEF Inv1
<1> DEFINE r == call[t].region
           f == call[t].flags
<1>2. r.off \in Cells /\ r.size \in 1 .. Size /\ r.off + r.size <= Size
  BY Zenon, <1>1 DEF Regions
<1>3. Descriptor(t, p) = [ptr |-> p, off |-> r.off, size |-> r.size, flags |-> f]
  BY Zenon DEF Descriptor
<1>4. f \in SUBSET Flags
  BY Zenon, <1>1
<1> HIDE DEF r, f
<1>5. Descriptor(t, p) \in OpenMap
  BY <1>2, <1>3, <1>4 DEF OpenMap
<1>6. p # Direct => Descriptor(t, p) \in HostAllocation
  BY <1>2, <1>3, <1>4 DEF HostAllocation
<1>7. /\ Descriptor(t, p).ptr = p /\ Descriptor(t, p).flags = f
      /\ Descriptor(t, p).off = r.off /\ Descriptor(t, p).size = r.size
  BY <1>3
<1>8. CellsOf(Descriptor(t, p)) = CellsOf(r)
  BY Zenon, <1>7 DEF CellsOf
<1> QED
  BY Zenon, <1>2, <1>5, <1>6, <1>7, <1>8 DEF r, f

\* A copy of a region of the allocation in use to host memory.
LEMMA CopiedOutFacts ==
  ASSUME Inv1, active # NoDevice, NEW p \in {UserPtr} \cup Slots, NEW r \in Regions
  PROVE  /\ CopiedOut(p, r) \in Memory
         /\ \A i \in 0 .. r.size - 1 : CopiedOut(p, r)[i] = alloc[active][r.off + i]
<1> USE MemBufferAssumption
<1>1. alloc[active] \in Memory /\ mem[p] \in Memory
  BY Zenon DEF Inv1, TypeOK, BufferOK
<1>2. r.size \in 1 .. Size /\ \A i \in 0 .. r.size - 1 : i \in Cells /\ r.off + i \in Cells
  BY Zenon, RegionFacts
<1>3. \A i \in Cells : i < r.size => i \in 0 .. r.size - 1
  BY <1>2 DEF Cells
<1>4. \A i \in 0 .. r.size - 1 : i < r.size
  BY <1>2
<1> QED
  BY Zenon, <1>1, <1>2, <1>3, <1>4 DEF CopiedOut, Memory

\* mapHostPtr.
LEMMA mapHostPtrKeeps1 ==
  ASSUME Inv1, NEW t \in Threads, mapHostPtr(t)
  PROVE  Inv1'
<1> USE MemBufferAssumption
<1>1. CallOK /\ TypeOK /\ BufferOK /\ MapsTyped
  BY Zenon DEF Inv1
<1>2. /\ call[t].op = "map" /\ Done(t) /\ origin' = origin /\ alloc' = alloc
      /\ active' = active /\ userFreed' = userFreed
  BY Zenon DEF mapHostPtr
<1>3. /\ call[t] # Idle /\ call[t].flags \in SUBSET Flags /\ call[t].region \in Regions
  BY Zenon, <1>1, <1>2, CallKinds
<1>4. /\ active' \in Devices \cup {NoDevice} /\ (active # NoDevice => active' # NoDevice)
      /\ (active' # NoDevice => alloc'[active'] \in Memory)
      /\ (origin = "integrated" => active' = First)
      /\ alloc' \in [Devices -> Memory \cup {NoMemory}]
      /\ userFreed' \in BOOLEAN
  BY Zenon, <1>1, <1>2 DEF TypeOK, BufferOK
<1>5. ASSUME NEW p \in {UserPtr, Direct} \cup Slots, Mapped(t, p),
             p = Direct <=> origin = "integrated"
      PROVE  /\ logical' \in [Cells -> Data \cup {Unset}]
             /\ IsFiniteSet(mapped')
             /\ \A m \in mapped' : /\ m \in OpenMap /\ m.off + m.size <= Size
                                   /\ m.ptr = Direct <=> origin' = "integrated"
  <2>1. /\ mapped' = mapped \cup {Descriptor(t, p)}
        /\ logical' = IF Discards(call[t].flags)
                      THEN Overwritten(logical, CellsOf(call[t].region), Unset)
                      ELSE logical
    BY Zenon, <1>5 DEF Mapped
  <2>2. IsFiniteSet(mapped')
    BY Zenon, <1>1, <2>1, FS_AddElement DEF MapsTyped
  <2>3. logical' \in [Cells -> Data \cup {Unset}]
    BY Zenon, <1>1, <2>1 DEF TypeOK, Overwritten
  <2>4. \A m \in mapped : /\ m \in OpenMap /\ m.off + m.size <= Size
                          /\ m.ptr = Direct <=> origin' = "integrated"
    BY Zenon, <1>1, <1>2 DEF MapsTyped
  <2>5. LET m == Descriptor(t, p)
        IN  /\ m \in OpenMap /\ m.off + m.size <= Size
            /\ m.ptr = Direct <=> origin' = "integrated"
    BY Zenon, <1>2, <1>5, DescriptorFacts
  <2> QED
    BY Zenon, <2>1, <2>2, <2>3, <2>4, <2>5
<1>6. ASSUME NEW p \in {UserPtr} \cup Slots, origin # "integrated",
             held' = held \cup ({p} \cap Slots), maps' = Append(maps, Descriptor(t, p)),
             mem' = IF CopiesOnMap(t)
                    THEN [mem EXCEPT ![p] = CopiedOut(p, call[t].region)]
                    ELSE mem,
             Mapped(t, p)
      PROVE  Inv1'
  <2>1. p # Direct /\ p \in {UserPtr, Direct} \cup Slots
    BY DEF UserPtr, Slots, Direct
  <2>2. Descriptor(t, p) \in HostAllocation
    BY Zenon, <1>2, <2>1, DescriptorFacts
  <2>3. maps' \in Seq(HostAllocation)
    BY Zenon, <1>1, <1>6, <2>2, AppendProperties DEF MapsTyped
  <2>4. MapsTyped' /\ logical' \in [Cells -> Data \cup {Unset}]
    BY Zenon, <1>5, <1>6, <2>1, <2>3 DEF MapsTyped
  <2>5. mem' \in [{UserPtr} \cup Slots -> Memory]
    <3>1. CASE CopiesOnMap(t)
      <4>1. CopiedOut(p, call[t].region) \in Memory
        BY Zenon, <1>3, <3>1, CopiedOutFacts DEF CopiesOnMap
      <4> QED
        BY Zenon, <1>1, <1>6, <3>1, <4>1 DEF TypeOK
    <3>2. CASE ~CopiesOnMap(t)
      BY Zenon, <1>1, <1>6, <3>2 DEF TypeOK
    <3> QED
      BY Zenon, <3>1, <3>2
  <2>6. held' \subseteq Slots
    BY Zenon, <1>1, <1>6 DEF TypeOK
  <2> QED
    BY Zenon, <1>2, <1>3, <1>4, <2>4, <2>5, <2>6, ReturnKeeps1
<1>7. ASSUME origin = "integrated", Mapped(t, Direct), held' = held, maps' = maps, mem' = mem
      PROVE  Inv1'
  <2>1. MapsTyped' /\ logical' \in [Cells -> Data \cup {Unset}]
    BY Zenon, <1>1, <1>5, <1>7 DEF MapsTyped
  <2>2. mem' \in [{UserPtr} \cup Slots -> Memory] /\ held' \subseteq Slots
    BY Zenon, <1>1, <1>7 DEF TypeOK
  <2> QED
    BY Zenon, <1>2, <1>3, <1>4, <2>1, <2>2, ReturnKeeps1
<1> QED
  BY Zenon, <1>6, <1>7 DEF mapHostPtr

\* A failed copy in mapHostPtr.
LEMMA mapHostPtrFailKeeps1 ==
  ASSUME Inv1, NEW t \in Threads, mapHostPtrFail(t)
  PROVE  Inv1'
<1>1. CallOK /\ TypeOK /\ BufferOK /\ MapsTyped
  BY Zenon DEF Inv1
<1>2. /\ call[t].op = "map" /\ Done(t) /\ origin' = origin /\ alloc' = alloc
      /\ active' = active /\ userFreed' = userFreed /\ mem' = mem
      /\ mapped' = mapped /\ logical' = logical
  BY Zenon DEF mapHostPtrFail, historyVars
<1>3. PICK p \in {UserPtr} \cup Slots : /\ held' = held \cup ({p} \cap Slots)
                                        /\ maps' = Append(maps, Descriptor(t, p))
  BY Zenon DEF mapHostPtrFail
<1>4. call[t] # Idle
  BY Zenon, <1>1, <1>2, CallKinds
<1>5. Descriptor(t, p) \in HostAllocation
  <2>1. p # Direct /\ p \in {UserPtr, Direct} \cup Slots
    BY MemBufferAssumption DEF UserPtr, Slots, Direct
  <2> QED
    BY Zenon, <1>2, <2>1, DescriptorFacts
<1>6. maps' \in Seq(HostAllocation)
  BY Zenon, <1>1, <1>3, <1>5, AppendProperties DEF MapsTyped
<1>7. MapsTyped'
  BY Zenon, <1>1, <1>2, <1>6 DEF MapsTyped
<1>8. /\ active' \in Devices \cup {NoDevice} /\ (active # NoDevice => active' # NoDevice)
      /\ (active' # NoDevice => alloc'[active'] \in Memory)
      /\ (origin = "integrated" => active' = First)
      /\ alloc' \in [Devices -> Memory \cup {NoMemory}]
      /\ logical' \in [Cells -> Data \cup {Unset}]
      /\ mem' \in [{UserPtr} \cup Slots -> Memory]
      /\ held' \subseteq Slots /\ userFreed' \in BOOLEAN
  BY Zenon, <1>1, <1>2, <1>3 DEF TypeOK, BufferOK
<1> QED
  BY Zenon, <1>2, <1>4, <1>7, <1>8, ReturnKeeps1

\* A failed allocation.
LEMMA allocateFailKeeps1 ==
  ASSUME Inv1, NEW t \in Threads, allocateFail(t)
  PROVE  Inv1'
<1>1. CallOK /\ TypeOK /\ BufferOK /\ MapsTyped
  BY Zenon DEF Inv1
<1>2. /\ call[t] # Idle /\ Done(t) /\ origin' = origin /\ alloc' = alloc
      /\ active' = active /\ userFreed' = userFreed /\ mem' = mem /\ held' = held
      /\ maps' = maps /\ mapped' = mapped /\ logical' = logical
  BY Zenon DEF allocateFail, bufferVars, historyVars
<1>3. MapsTyped'
  BY Zenon, <1>1, <1>2 DEF MapsTyped
<1>4. /\ active' \in Devices \cup {NoDevice} /\ (active # NoDevice => active' # NoDevice)
      /\ (active' # NoDevice => alloc'[active'] \in Memory)
      /\ (origin = "integrated" => active' = First)
      /\ alloc' \in [Devices -> Memory \cup {NoMemory}]
      /\ logical' \in [Cells -> Data \cup {Unset}]
      /\ mem' \in [{UserPtr} \cup Slots -> Memory]
      /\ held' \subseteq Slots /\ userFreed' \in BOOLEAN
  BY Zenon, <1>1, <1>2 DEF TypeOK, BufferOK
<1> QED
  BY Zenon, <1>2, <1>3, <1>4, ReturnKeeps1

\* A pointer that was never mapped has no descriptor.
LEMMA UnmapKnown ==
  ASSUME Inv1, NEW t \in Threads, call[t].op = "unmap", Find(call[t].ptr) # 0
  PROVE  /\ call[t] \in UnmapCall /\ call[t] # Idle
         /\ call[t].map \in OpenMap /\ call[t].map.ptr = call[t].ptr
         /\ call[t].ptr \in {UserPtr} \cup Slots
         /\ call[t].dev = First /\ First \in Devices
         /\ Find(call[t].ptr) \in DOMAIN maps
         /\ maps[Find(call[t].ptr)] \in HostAllocation
         /\ maps[Find(call[t].ptr)].ptr = call[t].ptr
<1> USE MemBufferAssumption
<1>1. CallOK /\ MapsTyped
  BY Zenon DEF Inv1
<1>2. Find(call[t].ptr) \in DOMAIN maps /\ maps[Find(call[t].ptr)].ptr = call[t].ptr
  BY Zenon, <1>1, FindFacts
<1>3. maps[Find(call[t].ptr)] \in HostAllocation
  BY <1>1, <1>2 DEF MapsTyped
<1>4. maps[Find(call[t].ptr)].ptr \in {UserPtr} \cup Slots
  BY Zenon, <1>3 DEF HostAllocation
<1>5. call[t] # UnknownUnmap
  <2>1. UnknownUnmap.ptr = Unknown
    BY Zenon DEF UnknownUnmap
  <2>2. Unknown \notin {UserPtr} \cup Slots
    BY DEF Unknown, UserPtr, Slots
  <2> QED
    BY Zenon, <1>2, <1>4, <2>1, <2>2
<1> QED
  BY Zenon, <1>1, <1>2, <1>3, <1>4, <1>5, CallKinds

\* A copy of host memory to a region of the allocation in use.
LEMMA CopiedInFacts ==
  ASSUME Inv1, NEW M \in Memory, NEW p \in {UserPtr} \cup Slots, NEW r, CellsOf(r) \subseteq Cells,
         \A c \in CellsOf(r) : c - r.off \in Cells
  PROVE  CopiedIn(M, p, r) \in Memory
<1>1. mem[p] \in Memory
  BY Zenon DEF Inv1, TypeOK
<1> QED
  BY Zenon, <1>1 DEF CopiedIn, Memory

\* The cells of a descriptor, as far as it is typed.
LEMMA DescriptorCells ==
  ASSUME NEW m, m.off \in Cells, m.size \in 1 .. Size
  PROVE  \A c \in CellsOf(m) \cap Cells : c - m.off \in Cells
<1> USE MemBufferAssumption
<1>1. \A c \in CellsOf(m) \cap Cells : c - m.off \in Cells
  BY DEF CellsOf, Cells
<1> QED
  BY Zenon, <1>1

\* unmapHostPtr.
LEMMA unmapHostPtrKeeps1 ==
  ASSUME Inv1, NEW t \in Threads, unmapHostPtr(t)
  PROVE  Inv1'
<1> USE MemBufferAssumption
<1>1. CallOK /\ TypeOK /\ BufferOK /\ MapsTyped
  BY Zenon DEF Inv1
<1> DEFINE i == Find(call[t].ptr)
<1>2. /\ call[t].op = "unmap" /\ Done(t) /\ origin' = origin /\ mem' = mem
      /\ logical' = logical /\ mapped' = mapped \ {call[t].map}
  BY Zenon DEF unmapHostPtr
<1>3. call[t] # Idle
  BY Zenon, <1>1, <1>2, CallKinds
<1>4. /\ IsFiniteSet(mapped')
      /\ \A m \in mapped' : /\ m \in OpenMap /\ m.off + m.size <= Size
                            /\ m.ptr = Direct <=> origin' = "integrated"
  <2>1. IsFiniteSet(mapped')
    BY Zenon, <1>1, <1>2, FS_RemoveElement DEF MapsTyped
  <2> QED
    BY Zenon, <1>1, <1>2, <2>1 DEF MapsTyped
<1>5. /\ mem' \in [{UserPtr} \cup Slots -> Memory]
      /\ logical' \in [Cells -> Data \cup {Unset}]
  BY Zenon, <1>1, <1>2 DEF TypeOK
<1>6. CASE i # 0
  <2>1. /\ call[t].dev \in Devices /\ i \in DOMAIN maps /\ maps[i] \in HostAllocation
        /\ maps[i].ptr \in {UserPtr} \cup Slots
    BY Zenon, <1>2, <1>6, UnmapKnown
  <2>2. /\ alloc' = IF CopiesOnUnmap(t)
                    THEN [alloc EXCEPT ![Target(t)] =
                             CopiedIn(TargetMemory(t), maps[i].ptr, maps[i])]
                    ELSE alloc
        /\ active' = Target(t)
        /\ maps' = SubSeq(maps, 1, i - 1) \o SubSeq(maps, i + 1, Len(maps))
        /\ held' = held /\ userFreed' \in BOOLEAN
    <3>1. Deleted({maps[i].ptr})
      BY Zenon, <1>6 DEF unmapHostPtr
    <3>2. (userFreed \/ (origin = "hostPtr" /\ UserPtr \in {maps[i].ptr})) \in BOOLEAN
      BY Zenon
    <3>3. held' = held /\ userFreed' \in BOOLEAN
      BY Zenon, <3>1, <3>2 DEF Deleted
    <3> QED
      BY Zenon, <1>6, <3>3 DEF unmapHostPtr
  <2> HIDE DEF i
  <2>3. maps' \in Seq(HostAllocation)
    BY Zenon, <1>1, <2>1, <2>2, EraseFacts DEF MapsTyped
  <2>4. MapsTyped'
    BY Zenon, <1>4, <2>3 DEF MapsTyped
  <2>5. CASE CopiesOnUnmap(t)
    <3>1. /\ Target(t) \in Devices /\ Target(t) # NoDevice /\ TargetMemory(t) \in Memory
          /\ (origin = "integrated" => Target(t) = First)
      BY Zenon, <1>3, <2>1, <2>5, TargetFacts DEF CopiesOnUnmap
    <3>2. CopiedIn(TargetMemory(t), maps[i].ptr, maps[i]) \in Memory
      <4>1. maps[i].off \in Cells /\ maps[i].size \in 1 .. Size
        BY Zenon, <2>1 DEF HostAllocation
      <4>2. mem[maps[i].ptr] \in Memory
        BY Zenon, <1>1, <2>1 DEF TypeOK
      <4>3. \A c \in CellsOf(maps[i]) \cap Cells : c - maps[i].off \in Cells
        BY Zenon, <4>1, DescriptorCells
      <4> QED
        BY Zenon, <3>1, <4>2, <4>3 DEF CopiedIn, Memory
    <3>3. alloc' = [alloc EXCEPT ![Target(t)] = CopiedIn(TargetMemory(t), maps[i].ptr, maps[i])]
      BY Zenon, <2>2, <2>5
    <3>4. /\ alloc' \in [Devices -> Memory \cup {NoMemory}]
          /\ alloc'[Target(t)] \in Memory
      BY Zenon, <1>1, <3>1, <3>2, <3>3 DEF TypeOK
    <3>5. /\ active' \in Devices \cup {NoDevice} /\ active' # NoDevice
          /\ alloc'[active'] \in Memory
          /\ (origin = "integrated" => active' = First) /\ held' \subseteq Slots
      BY Zenon, <1>1, <2>2, <3>1, <3>4 DEF TypeOK
    <3> QED
      BY Zenon, <1>2, <1>3, <1>5, <2>2, <2>4, <3>4, <3>5, ReturnKeeps1
  <2>6. CASE ~CopiesOnUnmap(t)
    <3>1. alloc' = alloc /\ active' = active /\ active = NoDevice
      BY Zenon, <2>2, <2>6 DEF CopiesOnUnmap, Target
    <3>2. /\ active' \in Devices \cup {NoDevice} /\ (active # NoDevice => active' # NoDevice)
          /\ (active' # NoDevice => alloc'[active'] \in Memory)
          /\ (origin = "integrated" => active' = First)
          /\ alloc' \in [Devices -> Memory \cup {NoMemory}] /\ held' \subseteq Slots
      BY Zenon, <1>1, <2>2, <3>1 DEF TypeOK, BufferOK
    <3> QED
      BY ZenonT(60), <1>2, <1>3, <1>5, <2>2, <2>4, <3>2, ReturnKeeps1
  <2> QED
    BY Zenon, <2>5, <2>6
<1>7. CASE i = 0
  <2>1. /\ alloc' = alloc /\ active' = active /\ maps' = maps /\ held' = held
        /\ userFreed' = userFreed
    BY Zenon, <1>7 DEF unmapHostPtr
  <2>2. MapsTyped'
    BY Zenon, <1>1, <1>4, <2>1 DEF MapsTyped
  <2>3. /\ active' \in Devices \cup {NoDevice} /\ (active # NoDevice => active' # NoDevice)
        /\ (active' # NoDevice => alloc'[active'] \in Memory)
        /\ (origin = "integrated" => active' = First)
        /\ alloc' \in [Devices -> Memory \cup {NoMemory}] /\ held' \subseteq Slots
        /\ userFreed' \in BOOLEAN
    BY Zenon, <1>1, <2>1 DEF TypeOK, BufferOK
  <2> QED
    BY Zenon, <1>2, <1>3, <1>5, <2>2, <2>3, ReturnKeeps1
<1> QED
  BY Zenon, <1>6, <1>7

\* A failed copy in unmapHostPtr: an allocation it made stays.
LEMMA unmapHostPtrFailKeeps1 ==
  ASSUME Inv1, NEW t \in Threads, unmapHostPtrFail(t)
  PROVE  Inv1'
<1>1. CallOK /\ TypeOK /\ BufferOK /\ MapsTyped
  BY Zenon DEF Inv1
<1>2. /\ call[t].op = "unmap" /\ Done(t) /\ origin' = origin /\ mem' = mem
      /\ logical' = logical /\ mapped' = mapped /\ maps' = maps /\ held' = held
      /\ userFreed' = userFreed /\ Find(call[t].ptr) # 0 /\ CopiesOnUnmap(t)
      /\ alloc' = [alloc EXCEPT ![Target(t)] = TargetMemory(t)] /\ active' = Target(t)
  BY Zenon DEF unmapHostPtrFail, historyVars
<1>3. call[t] # Idle /\ call[t].dev \in Devices
  BY Zenon, <1>2, UnmapKnown
<1>4. /\ Target(t) \in Devices /\ Target(t) # NoDevice /\ TargetMemory(t) \in Memory
      /\ (origin = "integrated" => Target(t) = First)
  BY Zenon, <1>2, <1>3, TargetFacts DEF CopiesOnUnmap
<1>5. /\ alloc' \in [Devices -> Memory \cup {NoMemory}] /\ alloc'[Target(t)] \in Memory
  BY Zenon, <1>1, <1>2, <1>4 DEF TypeOK
<1>6. MapsTyped'
  BY Zenon, <1>1, <1>2 DEF MapsTyped
<1>7. /\ logical' \in [Cells -> Data \cup {Unset}]
      /\ mem' \in [{UserPtr} \cup Slots -> Memory]
      /\ held' \subseteq Slots /\ userFreed' \in BOOLEAN
  BY Zenon, <1>1, <1>2 DEF TypeOK
<1> QED
  BY ZenonT(60), <1>2, <1>3, <1>4, <1>5, <1>6, <1>7, ReturnKeeps1

\* A write of the host.
LEMMA HostWriteKeeps1 ==
  ASSUME Inv1, NEW m \in mapped, HostWrite(m)
  PROVE  Inv1'
<1> USE MemBufferAssumption
<1>1. CallOK /\ TypeOK /\ BufferOK /\ MapsTyped
  BY Zenon DEF Inv1
<1>2. PICK i \in 0 .. m.size - 1, v \in Values :
        /\ IF m.ptr = Direct
           THEN alloc' = [alloc EXCEPT ![First][i] = v] /\ mem' = mem
           ELSE mem' = [mem EXCEPT ![m.ptr][i] = v] /\ alloc' = alloc
        /\ logical' = [logical EXCEPT ![m.off + i] = v]
        /\ origin' = origin /\ active' = active /\ maps' = maps /\ held' = held
        /\ userFreed' = userFreed /\ mapped' = mapped /\ call' = call
  BY Zenon DEF HostWrite
<1>3. /\ m \in OpenMap /\ m.off + m.size <= Size
      /\ m.ptr = Direct <=> origin = "integrated"
  BY Zenon, <1>1 DEF MapsTyped
<1>4. m.off \in Cells /\ m.size \in 1 .. Size /\ m.ptr \in {UserPtr, Direct} \cup Slots
  BY Zenon, <1>3 DEF OpenMap
<1>5. i \in Cells /\ m.off + i \in Cells
  BY Zenon, <1>3, <1>4, RegionFacts
<1>6. v \in Data
  BY Zenon, MemoryFacts
<1>7. logical' \in [Cells -> Data \cup {Unset}]
  BY Zenon, <1>1, <1>2, <1>6 DEF TypeOK
<1>8. /\ alloc' \in [Devices -> Memory \cup {NoMemory}]
      /\ mem' \in [{UserPtr} \cup Slots -> Memory]
      /\ active # NoDevice => alloc'[active] \in Memory
  <2>1. CASE m.ptr = Direct
    <3>1. active = First /\ First # NoDevice
      BY Zenon, <1>1, <1>3, <2>1 DEF BufferOK
    <3>2. alloc[First] \in Memory
      BY Zenon, <1>1, <3>1 DEF BufferOK
    <3>3. [alloc[First] EXCEPT ![i] = v] \in Memory
      BY Zenon, <1>6, <3>2 DEF Memory
    <3>4. alloc' = [alloc EXCEPT ![First] = [alloc[First] EXCEPT ![i] = v]]
      BY Zenon, <1>2, <2>1
    <3>5. alloc' \in [Devices -> Memory \cup {NoMemory}] /\ alloc'[First] \in Memory
      BY Zenon, <1>1, <3>3, <3>4 DEF TypeOK
    <3> QED
      BY Zenon, <1>1, <1>2, <2>1, <3>1, <3>5 DEF TypeOK
  <2>2. CASE m.ptr # Direct
    <3>1. m.ptr \in {UserPtr} \cup Slots
      BY Zenon, <1>4, <2>2
    <3>2. mem[m.ptr] \in Memory
      BY Zenon, <1>1, <3>1 DEF TypeOK
    <3>3. [mem[m.ptr] EXCEPT ![i] = v] \in Memory
      BY Zenon, <1>6, <3>2 DEF Memory
    <3>4. mem' = [mem EXCEPT ![m.ptr] = [mem[m.ptr] EXCEPT ![i] = v]] /\ alloc' = alloc
      BY Zenon, <1>2, <2>2
    <3>5. mem' \in [{UserPtr} \cup Slots -> Memory]
      BY Zenon, <1>1, <3>1, <3>3, <3>4 DEF TypeOK
    <3> QED
      BY Zenon, <1>1, <3>4, <3>5 DEF TypeOK, BufferOK
  <2> QED
    BY Zenon, <2>1, <2>2
<1>9. TypeOK'
  BY Zenon, <1>1, <1>2, <1>7, <1>8 DEF TypeOK
<1>10. CallOK'
  BY Zenon, <1>1, <1>2 DEF CallOK
<1>11. BufferOK'
  BY Zenon, <1>1, <1>2, <1>8 DEF BufferOK
<1>12. MapsTyped'
  BY Zenon, <1>1, <1>2 DEF MapsTyped
<1> QED
  BY Zenon, <1>9, <1>10, <1>11, <1>12 DEF Inv1

\* Every step keeps the types.
LEMMA NextKeeps1 ==
  ASSUME Inv1, [Next]_vars
  PROVE  Inv1'
<1>1. CASE Next
  <2>1. CASE urMemBufferCreate \/ urMemBufferCreateWithNativeHandle
    BY Zenon, <2>1, CreationKeeps1
  <2>2. ASSUME NEW t \in Threads,
               \/ origin # None /\ (Access(t) \/ Map(t) \/ Unmap(t))
               \/ getDevicePtr(t) \/ mapHostPtr(t) \/ unmapHostPtr(t)
               \/ mapHostPtrFail(t) \/ unmapHostPtrFail(t) \/ allocateFail(t)
        PROVE  Inv1'
    BY ZenonT(60), <2>2, CallsKeep1, getDevicePtrKeeps1, mapHostPtrKeeps1, unmapHostPtrKeeps1,
       mapHostPtrFailKeeps1, unmapHostPtrFailKeeps1, allocateFailKeeps1
  <2>3. ASSUME NEW m \in mapped, HostWrite(m)
        PROVE  Inv1'
    BY Zenon, <2>3, HostWriteKeeps1
  <2>4. CASE urMemRelease
    BY Zenon, <2>4, urMemReleaseKeeps1
  <2> QED
    BY Zenon, <1>1, <2>1, <2>2, <2>3, <2>4 DEF Next
<1>2. CASE UNCHANGED vars
  BY Zenon, <1>2 DEF vars, Inv1, TypeOK, CallOK, BufferOK, MapsTyped, OpenMap, HostAllocation,
              AccessCall, MapCall, UnmapCall, UnknownUnmap
<1> QED
  BY Zenon, <1>1, <1>2

\* The invariant of the types.
LEMMA Invariant1 == Spec => []Inv1
<1>1. Init => Inv1
  BY Zenon, InitHolds1
<1>2. Inv1 /\ [Next]_vars => Inv1'
  BY Zenon, NextKeeps1
<1> QED
  BY <1>1, <1>2, PTL DEF Spec

\* Whatever calls run at once, every member of the buffer keeps its type: the
\* device in use is a device with an allocation, the descriptors of the maps
\* lie in the buffer, and no byte is read that is not there.
THEOREM TypeCorrect == Spec => []TypeOK
<1>1. Inv1 => TypeOK
  BY Zenon DEF Inv1
<1> QED
  BY <1>1, Invariant1, PTL

------------------------------------------------------------------------------
(* One allocation, when the application makes one call at a time *)

\* A call begins only when no other is made.
LEMMA BeginAlone ==
  ASSUME Serial, Inv1, NEW t \in Threads, NEW c, Begin(t, c)
  PROVE  \A u \in Threads : call[u] = Idle
<1>1. MayStart(c.op)
  BY Zenon DEF Begin
<1>2. \A u \in Threads : call[u].op = "idle" => call[u] = Idle
  BY Zenon, CallKinds DEF Inv1
<1>3. CASE c.op \in Locked
  <2>1. \A u \in Threads : call[u].op \notin Locked /\ call[u].op \in Locked \cup {"idle"}
    BY Zenon, <1>1, <1>3 DEF MayStart
  <2> QED
    BY Zenon, <1>2, <2>1
<1>4. CASE c.op \notin Locked
  BY Zenon, <1>1, <1>4 DEF MayStart
<1> QED
  BY Zenon, <1>3, <1>4

\* A call begins.
LEMMA BeginKeeps2 ==
  ASSUME Serial, Inv1, Inv2, NEW t \in Threads, NEW c, Begin(t, c),
         c.fresh => active = NoDevice
  PROVE  Inv2'
<1>1. \A u \in Threads : call[u] = Idle
  BY Zenon, BeginAlone
<1>2. call' = [call EXCEPT ![t] = c] /\ alloc' = alloc /\ active' = active
  BY Zenon DEF Begin, bufferVars
<1>3. call'[t] = c /\ \A u \in Threads : u # t => call'[u] = Idle
  BY Zenon, <1>1, <1>2 DEF Inv1, CallOK
<1>4. OneCall'
  BY Zenon, <1>3 DEF OneCall
<1>5. StillFresh'
  BY Zenon, <1>2, <1>3 DEF StillFresh
<1> QED
  BY Zenon, <1>2, <1>4, <1>5 DEF Inv2, OneAllocation

\* The calls the application makes.
LEMMA CallsKeep2 ==
  ASSUME Serial, Inv1, Inv2, NEW t \in Threads, Access(t) \/ Map(t) \/ Unmap(t)
  PROVE  Inv2'
<1>1. CASE Access(t)
  <2>1. PICK op, d, r, v :
          Begin(t, [op |-> op, dev |-> d, region |-> r, value |-> v, fresh |-> active = NoDevice])
    BY Zenon, <1>1 DEF Access
  <2> QED
    BY Zenon, <2>1, BeginKeeps2
<1>2. CASE Map(t)
  <2>1. PICK f, r : Begin(t, [op |-> "map", flags |-> f, region |-> r, fresh |-> FALSE])
    BY Zenon, <1>2 DEF Map
  <2> QED
    BY Zenon, <2>1, BeginKeeps2
<1>3. CASE Unmap(t)
  <2>1. ASSUME NEW m, NEW F, F => active = NoDevice,
               Begin(t, [op |-> "unmap", map |-> m, ptr |-> m.ptr, dev |-> First, fresh |-> F])
        PROVE  Inv2'
    BY Zenon, <2>1, BeginKeeps2
  <2>2. ASSUME NEW m \in mapped,
               Begin(t, [op |-> "unmap", map |-> m, ptr |-> m.ptr, dev |-> First,
                         fresh |-> /\ active = NoDevice
                                   /\ Find(m.ptr) # 0
                                   /\ "invalidate" \notin maps[Find(m.ptr)].flags])
        PROVE  Inv2'
    <3> DEFINE F == /\ active = NoDevice
                    /\ Find(m.ptr) # 0
                    /\ "invalidate" \notin maps[Find(m.ptr)].flags
    <3>1. F => active = NoDevice
      BY Zenon
    <3>2. Begin(t, [op |-> "unmap", map |-> m, ptr |-> m.ptr, dev |-> First, fresh |-> F])
      BY Zenon, <2>2
    <3> HIDE DEF F
    <3> QED
      BY Zenon, <2>1, <3>1, <3>2
  <2>3. ASSUME Begin(t, UnknownUnmap)
        PROVE  Inv2'
    <3>1. ~UnknownUnmap.fresh
      BY Zenon DEF UnknownUnmap
    <3> QED
      BY Zenon, <2>3, <3>1, BeginKeeps2
  <2> QED
    BY Zenon, <1>3, <2>2, <2>3 DEF Unmap, UnknownUnmap
<1> QED
  BY Zenon, <1>1, <1>2, <1>3

\* A function returns: no call is left.
LEMMA ReturnKeeps2 ==
  ASSUME Inv1, Inv2, NEW t \in Threads, call[t] # Idle, Done(t),
         \A d \in Devices : d # active' => alloc'[d] = NoMemory
  PROVE  Inv2' /\ \A u \in Threads : call'[u] = Idle
<1>1. call'[t] = Idle /\ \A u \in Threads : u # t => call'[u] = call[u]
  BY Zenon DEF Inv1, CallOK, Done
<1>2. \A u \in Threads : call'[u] = Idle
  BY Zenon, <1>1 DEF Inv2, OneCall
<1> QED
  BY Zenon, <1>2 DEF Inv2, OneCall, OneAllocation, StillFresh

\* A call works on the allocation in use, or makes the first one.
LEMMA TargetAlone ==
  ASSUME Inv1, Inv2, NEW t \in Threads, call[t] # Idle
  PROVE  /\ active # NoDevice => Target(t) = active /\ TargetMemory(t) = alloc[active]
         /\ \A d \in Devices : d # Target(t) => alloc[d] = NoMemory
<1> USE MemBufferAssumption
<1>1. CASE call[t].fresh
  <2>1. active = NoDevice
    BY Zenon, <1>1 DEF Inv2, StillFresh
  <2> QED
    BY Zenon, <2>1 DEF Inv2, OneAllocation
<1>2. CASE ~call[t].fresh
  BY Zenon, <1>2 DEF Inv2, OneAllocation, Target, TargetMemory
<1> QED
  BY Zenon, <1>1, <1>2

\* The steps that finish a call: the allocation in use stays in use.
LEMMA ReturnsKeep2 ==
  ASSUME Inv1, Inv2, NEW t \in Threads,
         \/ getDevicePtr(t) \/ mapHostPtr(t) \/ unmapHostPtr(t)
         \/ mapHostPtrFail(t) \/ unmapHostPtrFail(t) \/ allocateFail(t)
  PROVE  /\ Inv2'
         /\ active # NoDevice => active' = active
         /\ \A u \in Threads : call'[u] = Idle
<1>1. call[t] # Idle /\ Done(t)
  <2>1. CASE allocateFail(t)
    BY Zenon, <2>1 DEF allocateFail
  <2>2. CASE ~allocateFail(t)
    <3>1. call[t].op # "idle" /\ Done(t)
      BY Zenon, <2>2 DEF getDevicePtr, mapHostPtr, unmapHostPtr, mapHostPtrFail,
                         unmapHostPtrFail
    <3> QED
      BY Zenon, <3>1, CallKinds DEF Inv1
  <2> QED
    BY Zenon, <2>1, <2>2
<1>2. \/ alloc' = alloc /\ active' = active
      \/ /\ active' = Target(t)
         /\ \E M : alloc' = [alloc EXCEPT ![Target(t)] = M]
      \/ alloc' = alloc /\ active' = Target(t)
  <2>1. CASE getDevicePtr(t)
    BY Zenon, <2>1 DEF getDevicePtr
  <2>2. CASE mapHostPtr(t) \/ mapHostPtrFail(t) \/ allocateFail(t)
    BY Zenon, <2>2 DEF mapHostPtr, mapHostPtrFail, allocateFail, bufferVars
  <2>3. CASE unmapHostPtr(t)
    BY <2>3, Zenon DEF unmapHostPtr
  <2>4. CASE unmapHostPtrFail(t)
    BY Zenon, <2>4 DEF unmapHostPtrFail
  <2> QED
    BY Zenon, <2>1, <2>2, <2>3, <2>4
<1>3. /\ active # NoDevice => Target(t) = active
      /\ \A d \in Devices : d # Target(t) => alloc[d] = NoMemory
  BY Zenon, <1>1, TargetAlone
<1>4. \A d \in Devices : d # active' => alloc'[d] = NoMemory
  BY Zenon, <1>2, <1>3 DEF Inv1, TypeOK, Inv2, OneAllocation
<1>5. active # NoDevice => active' = active
  BY Zenon, <1>2, <1>3
<1> QED
  BY Zenon, <1>1, <1>4, <1>5, ReturnKeeps2

\* A new buffer, and the end of one.
LEMMA LifeKeeps2 ==
  ASSUME Inv1, Inv2,
         urMemBufferCreate \/ urMemBufferCreateWithNativeHandle \/ urMemRelease
  PROVE  Inv2' /\ origin' # origin
<1> USE MemBufferAssumption
<1>1. ASSUME NEW o, NEW d, NEW contents, NEW expected, Create(o, d, contents, expected)
      PROVE  Inv2' /\ origin' # origin
  <2>1. /\ origin = None /\ o \in DOMAIN Uses /\ origin' = o /\ active' = d
        /\ alloc' = [e \in Devices |-> IF e = d THEN contents ELSE NoMemory] /\ call' = call
    BY Zenon, <1>1 DEF Create
  <2>2. \A t \in Threads : call[t] = Idle
    BY Zenon, <2>1 DEF Inv1, BufferOK
  <2>3. o # None
    BY Zenon, <2>1 DEF Origins, None
  <2> QED
    BY Zenon, <2>1, <2>2, <2>3 DEF Inv2, OneCall, OneAllocation, StillFresh
<1>2. CASE urMemRelease
  BY Zenon, <1>2 DEF urMemRelease, Inv2, OneCall, OneAllocation, StillFresh
<1> QED
  BY Zenon, <1>1, <1>2 DEF urMemBufferCreate, urMemBufferCreateWithNativeHandle

\* A write of the host.
LEMMA HostWriteKeeps2 ==
  ASSUME Inv1, Inv2, NEW m \in mapped, HostWrite(m)
  PROVE  Inv2' /\ active' = active
<1> USE MemBufferAssumption
<1>1. PICK i, v :
        /\ IF m.ptr = Direct
           THEN alloc' = [alloc EXCEPT ![First][i] = v]
           ELSE alloc' = alloc
        /\ active' = active /\ call' = call
  BY Zenon DEF HostWrite
<1>2. m.ptr = Direct => active = First
  BY Zenon DEF Inv1, MapsTyped, BufferOK
<1>3. \A d \in Devices : d # active => alloc'[d] = alloc[d]
  BY Zenon, <1>1, <1>2 DEF Inv1, TypeOK
<1> QED
  BY Zenon, <1>1, <1>3 DEF Inv2, OneCall, OneAllocation, StillFresh

\* Every step keeps the one allocation where it is.
LEMMA NextKeeps2 ==
  ASSUME Serial, Inv1, Inv2, [Next]_vars
  PROVE  Inv2' /\ (active # NoDevice /\ origin' = origin => active' = active)
<1>1. CASE urMemBufferCreate \/ urMemBufferCreateWithNativeHandle \/ urMemRelease
  BY Zenon, <1>1, LifeKeeps2
<1>2. ASSUME NEW t \in Threads, Access(t) \/ Map(t) \/ Unmap(t)
      PROVE  Inv2' /\ active' = active
  <2>1. active' = active
    BY Zenon, <1>2 DEF Access, Map, Unmap, Begin, bufferVars
  <2> QED
    BY Zenon, <1>2, <2>1, CallsKeep2
<1>3. ASSUME NEW t \in Threads,
             \/ getDevicePtr(t) \/ mapHostPtr(t) \/ unmapHostPtr(t)
             \/ mapHostPtrFail(t) \/ unmapHostPtrFail(t) \/ allocateFail(t)
      PROVE  Inv2' /\ (active # NoDevice => active' = active)
  BY Zenon, <1>3, ReturnsKeep2
<1>4. ASSUME NEW m \in mapped, HostWrite(m)
      PROVE  Inv2' /\ active' = active
  BY Zenon, <1>4, HostWriteKeeps2
<1>5. CASE UNCHANGED vars
  BY Zenon, <1>5 DEF vars, Inv2, OneCall, OneAllocation, StillFresh
<1> QED
  BY Zenon, <1>1, <1>2, <1>3, <1>4, <1>5 DEF Next

\* At the start there is no call and no allocation.
LEMMA InitHolds2 ==
  ASSUME Init
  PROVE  Inv2
BY Zenon DEF Init, Inv2, OneCall, OneAllocation, StillFresh

\* The invariant of the allocation.
LEMMA Invariant2 ==
  ASSUME Serial
  PROVE  Spec => [](Inv1 /\ Inv2)
<1>1. Init => Inv1 /\ Inv2
  BY Zenon, InitHolds1, InitHolds2
<1>2. Inv1 /\ Inv2 /\ [Next]_vars => (Inv1 /\ Inv2)'
  BY Zenon, NextKeeps1, NextKeeps2
<1> QED
  BY <1>1, <1>2, PTL DEF Spec

\* When every function is called under the buffer's Mutex, a pointer to the
\* buffer's allocation stays good until the buffer is released: no step moves
\* it or frees it.
THEOREM PointersStayGood ==
  ASSUME Serial
  PROVE  Spec => AllocationStays
<1>1. Inv1 /\ Inv2 /\ Inv1' /\ [Next]_vars =>
        [active # NoDevice /\ origin' = origin =>
           active' = active /\ alloc'[active] # NoMemory]_vars
  <2> SUFFICES ASSUME Inv1, Inv2, Inv1', [Next]_vars, active # NoDevice, origin' = origin
               PROVE  active' = active /\ alloc'[active] # NoMemory
    BY Zenon
  <2>1. active' = active
    BY Zenon, NextKeeps2
  <2>2. alloc'[active] \in Memory
    BY Zenon, <2>1 DEF Inv1, BufferOK
  <2> QED
    BY Zenon, <2>1, <2>2, MemoryFacts
<1> QED
  BY <1>1, Invariant2, PTL DEF Spec, AllocationStays
-------------------------------------------------------------------------------
(* The data: none is lost when every function is called under the buffer's     *)
(* Mutex and the buffer is used in the ways its implementation supports.       *)

\* The maps of the application and the descriptors for them: a pointer names
\* one descriptor, and no cell is mapped twice.
MapsOK ==
  /\ \A i, j \in DOMAIN maps : maps[i].ptr = maps[j].ptr => i = j
  /\ \A i \in DOMAIN maps :
       /\ maps[i].flags \in Uses[origin].flags
       /\ IF origin = "hostPtr" THEN maps[i] \in mapped ELSE maps[i].ptr \in held
  /\ \A m \in mapped :
       /\ m.flags \in Uses[origin].flags
       /\ m.ptr # Direct => \E i \in DOMAIN maps : maps[i] = m
       /\ origin = "integrated" => m.off = 0
       /\ origin = "hostPtr" => m.ptr = UserPtr
       /\ \A n \in mapped : m # n => CellsOf(m) \cap CellsOf(n) = {}
  /\ origin = "integrated" => maps = <<>>

\* The calls keep off the mapped cells, and an unmap has somewhere to put the
\* data.
CallsOK ==
  \A t \in Threads :
    /\ call[t] \in AccessCall \cup MapCall =>
         /\ call[t].region \in Uses[origin].regions
         /\ CellsOf(call[t].region) \cap OpenCells = {}
    /\ call[t] \in MapCall =>
         /\ call[t].flags \in Uses[origin].flags
         /\ origin = "hostPtr" => mapped = {}
    /\ call[t] \in UnmapCall =>
         /\ call[t].map \in mapped
         /\ call[t].ptr # Direct /\ active = NoDevice => call[t].fresh

\* The allocation in use has the data of every cell that is not mapped, and
\* the memory of a map has the data of its cells.
Latest ==
  \A c \in Cells :
    Expected(c) /\ (c \notin OpenCells \/ origin = "integrated") =>
      active # NoDevice /\ alloc[active][c] = logical[c]

InMap ==
  \A m \in mapped : m.ptr # Direct =>
    \A i \in 0 .. m.size - 1 :
      Expected(m.off + i) => mem[m.ptr][i] = logical[m.off + i]

Inv3 == MapsOK /\ CallsOK /\ Latest /\ InMap

------------------------------------------------------------------------------
(* No data is lost, when the buffer is used in the supported ways *)

\* What is expected of a cell changes with its data and with the buffer only.
LEMMA SameExpected ==
  ASSUME NEW c, origin' = origin, logical'[c] = logical[c]
  PROVE  Expected(c)' <=> Expected(c)
BY Zenon DEF Expected

\* What the supported uses give for the buffer at hand.
LEMMA UseFacts ==
  ASSUME SupportedUses, Inv1, origin # None
  PROVE  /\ \A f \in Uses[origin].flags : "read" \in f \/ Discards(f)
         /\ origin = "plain" => \A f \in Uses[origin].flags : "invalidate" \notin f
         /\ origin = "hostPtr" => Uses[origin].maps <= 1 /\ ~Uses[origin].fails
         /\ origin = "integrated" => \A r \in Uses[origin].regions : r.off = 0
         /\ Uses[origin].regions \subseteq Regions /\ Uses[origin].maps \in Nat
<1>1. origin \in DOMAIN Uses
  BY Zenon DEF Inv1, BufferOK
<1>2. Uses[origin] \in Use
  BY Zenon, <1>1, MemBufferAssumption
<1>3. Uses[origin].regions \subseteq Regions /\ Uses[origin].maps \in Nat
  BY Zenon, <1>2 DEF Use
<1>4. \A f \in Uses[origin].flags : "read" \in f \/ Discards(f)
  BY Zenon, <1>1 DEF SupportedUses, Discards, Fills
<1> QED
  BY Zenon, <1>1, <1>3, <1>4 DEF SupportedUses

\* A thread that is not in a call.
LEMMA IdleIsNoCall == Idle \notin AccessCall \cup MapCall \cup UnmapCall
<1>1. Idle.op = "idle"
  BY Zenon DEF Idle
<1>2. \A c \in AccessCall \cup MapCall \cup UnmapCall : c.op # "idle"
  <2>1. \A c \in MapCall : c.op = "map"
    BY Zenon DEF MapCall
  <2>2. \A c \in UnmapCall : c.op = "unmap"
    BY Zenon DEF UnmapCall
  <2>3. \A c \in AccessCall : c.op \in {"read", "write", "launch"}
    BY Zenon DEF AccessCall
  <2> QED
    BY Zenon, <2>1, <2>2, <2>3
<1> QED
  BY Zenon, <1>1, <1>2

\* The three kinds of call are different.
LEMMA KindsDiffer ==
  ASSUME NEW c
  PROVE  /\ c \in AccessCall \cup MapCall => c \notin UnmapCall
         /\ c \in MapCall => c \notin AccessCall
         /\ UnknownUnmap \notin AccessCall \cup MapCall \cup UnmapCall
<1>1. \A d \in MapCall : d.op = "map"
  BY Zenon DEF MapCall
<1>2. \A d \in UnmapCall : d.op = "unmap" /\ d.ptr # Unknown
  BY MemBufferAssumption DEF UnmapCall, Unknown, UserPtr, Direct, Slots
<1>3. \A d \in AccessCall : d.op \in {"read", "write", "launch"}
  BY Zenon DEF AccessCall
<1>4. UnknownUnmap.op = "unmap" /\ UnknownUnmap.ptr = Unknown
  BY Zenon DEF UnknownUnmap
<1> QED
  BY Zenon, <1>1, <1>2, <1>3, <1>4

\* Without calls there is nothing to say about them.
LEMMA NoCallsOK ==
  ASSUME \A u \in Threads : call'[u] = Idle
  PROVE  CallsOK'
BY Zenon, IdleIsNoCall DEF CallsOK

\* A new buffer.
LEMMA CreateKeeps3 ==
  ASSUME Inv1, NEW o, NEW d, NEW contents, NEW expected, Create(o, d, contents, expected),
         \/ expected = Unset
         \/ expected = User /\ o = "nativeHost"
         \/ d \in Devices /\ contents = Filled(expected)
  PROVE  Inv3'
<1> USE MemBufferAssumption
<1>1. /\ origin = None /\ origin' = o /\ active' = d
      /\ alloc' = [e \in Devices |-> IF e = d THEN contents ELSE NoMemory]
      /\ logical' = Filled(expected) /\ maps' = maps /\ mapped' = mapped /\ call' = call
  BY Zenon DEF Create
<1>2. maps = <<>> /\ mapped = {} /\ \A t \in Threads : call[t] = Idle
  BY Zenon, <1>1 DEF Inv1, BufferOK
<1>3. DOMAIN maps' = {} /\ mapped' = {}
  BY <1>1, <1>2
<1>4. MapsOK'
  BY Zenon, <1>1, <1>2, <1>3 DEF MapsOK
<1>5. CallsOK'
  BY Zenon, <1>1, <1>2, NoCallsOK
<1>6. Latest'
  <2> SUFFICES ASSUME NEW c \in Cells, Expected(c)'
               PROVE  active' # NoDevice /\ alloc'[active'][c] = logical'[c]
    BY Zenon DEF Latest
  <2>1. logical'[c] = expected
    BY Zenon, <1>1 DEF Filled
  <2>2. alloc'[active'] = Filled(expected) /\ active' # NoDevice
    BY Zenon, <1>1, <2>1 DEF Expected
  <2> QED
    BY Zenon, <2>1, <2>2 DEF Filled
<1>7. InMap'
  BY Zenon, <1>3 DEF InMap
<1> QED
  BY Zenon, <1>4, <1>5, <1>6, <1>7 DEF Inv3

\* Creation by the application's two functions.
LEMMA CreationKeeps3 ==
  ASSUME Inv1, urMemBufferCreate \/ urMemBufferCreateWithNativeHandle
  PROVE  Inv3'
<1> USE MemBufferAssumption
<1>1. CASE Create("plain", NoDevice, NoMemory, Unset)
  BY Zenon, <1>1, CreateKeeps3
<1>2. CASE Create("hostPtr", First, Filled(User), User)
  BY Zenon, <1>2, CreateKeeps3
<1>3. CASE Create("integrated", First, Filled(User), User)
  BY Zenon, <1>3, CreateKeeps3
<1>4. CASE Create("nativeHost", First, Filled(Junk), User)
  BY Zenon, <1>4, CreateKeeps3
<1>5. ASSUME NEW d \in Devices, Create("nativeDevice", d, Filled(User), User)
      PROVE  Inv3'
  BY Zenon, <1>5, CreateKeeps3
<1> QED
  BY Zenon, <1>1, <1>2, <1>3, <1>4, <1>5
  DEF urMemBufferCreate, urMemBufferCreateWithNativeHandle

\* The last release.
LEMMA urMemReleaseKeeps3 ==
  ASSUME urMemRelease
  PROVE  Inv3'
<1>1. /\ maps' = <<>> /\ mapped' = {} /\ logical' = Filled(Unset) /\ origin' = None
      /\ \A t \in Threads : call'[t] = Idle
  BY Zenon DEF urMemRelease
<1>2. DOMAIN maps' = {}
  BY <1>1
<1>3. MapsOK'
  BY Zenon, <1>1, <1>2 DEF MapsOK
<1>4. CallsOK'
  BY Zenon, <1>1, NoCallsOK
<1>5. Latest'
  BY Zenon, <1>1 DEF Latest, Expected, Filled
<1>6. InMap'
  BY Zenon, <1>1 DEF InMap
<1> QED
  BY Zenon, <1>3, <1>4, <1>5, <1>6 DEF Inv3

\* A call begins.
LEMMA BeginKeeps3 ==
  ASSUME Serial, Inv1, Inv3, NEW t \in Threads, NEW c, Begin(t, c),
         c \in AccessCall \cup MapCall =>
           /\ c.region \in Uses[origin].regions
           /\ CellsOf(c.region) \cap OpenCells = {},
         c \in MapCall =>
           /\ c.flags \in Uses[origin].flags
           /\ origin = "hostPtr" => mapped = {},
         c \in UnmapCall =>
           /\ c.map \in mapped
           /\ c.ptr # Direct /\ active = NoDevice => c.fresh
  PROVE  Inv3'
<1>1. \A u \in Threads : call[u] = Idle
  BY Zenon, BeginAlone
<1>2. /\ call' = [call EXCEPT ![t] = c] /\ origin' = origin /\ alloc' = alloc
      /\ active' = active /\ maps' = maps /\ mem' = mem /\ held' = held
      /\ mapped' = mapped /\ logical' = logical
  BY Zenon DEF Begin, bufferVars, historyVars
<1>3. call'[t] = c /\ \A u \in Threads : u # t => call'[u] = Idle
  BY Zenon, <1>1, <1>2 DEF Inv1, CallOK
<1>4. OpenCells' = OpenCells
  BY Zenon, <1>2 DEF OpenCells
<1>5. CallsOK'
  <2> SUFFICES ASSUME NEW u \in Threads
               PROVE  /\ call'[u] \in AccessCall \cup MapCall =>
                           /\ call'[u].region \in Uses[origin].regions
                           /\ CellsOf(call'[u].region) \cap OpenCells = {}
                      /\ call'[u] \in MapCall =>
                           /\ call'[u].flags \in Uses[origin].flags
                           /\ origin = "hostPtr" => mapped = {}
                      /\ call'[u] \in UnmapCall =>
                           /\ call'[u].map \in mapped
                           /\ call'[u].ptr # Direct /\ active = NoDevice => call'[u].fresh
    BY Zenon, <1>2, <1>4 DEF CallsOK
  <2>1. CASE u = t
    BY Zenon, <1>3, <2>1
  <2>2. CASE u # t
    BY Zenon, <1>3, <2>2, IdleIsNoCall
  <2> QED
    BY Zenon, <2>1, <2>2
<1>6. MapsOK'
  BY Zenon, <1>2 DEF Inv3, MapsOK
<1>7. Latest' /\ InMap'
  <2>1. \A d : Expected(d)' <=> Expected(d)
    BY Zenon, <1>2 DEF Expected
  <2> QED
    BY Zenon, <1>2, <1>4, <2>1 DEF Inv3, Latest, InMap
<1> QED
  BY Zenon, <1>5, <1>6, <1>7 DEF Inv3

\* A map of the application has its descriptor, and an unmap finds it.
LEMMA FindsMap ==
  ASSUME Inv1, Inv3, NEW m \in mapped, m.ptr # Direct
  PROVE  Find(m.ptr) # 0 /\ Find(m.ptr) \in DOMAIN maps /\ maps[Find(m.ptr)] = m
<1>1. PICK i \in DOMAIN maps : maps[i] = m
  BY Zenon DEF Inv3, MapsOK
<1>2. Find(m.ptr) # 0 /\ Find(m.ptr) \in DOMAIN maps /\ maps[Find(m.ptr)].ptr = m.ptr
  BY Zenon, <1>1, FindFacts DEF Inv1
<1>3. Find(m.ptr) = i
  BY Zenon, <1>1, <1>2 DEF Inv3, MapsOK
<1> QED
  BY Zenon, <1>1, <1>2, <1>3

\* The calls the application makes.
LEMMA CallsKeep3 ==
  ASSUME Serial, SupportedUses, Inv1, Inv3, NEW t \in Threads, origin # None,
         Access(t) \/ Map(t) \/ Unmap(t)
  PROVE  Inv3'
<1>1. CASE Access(t)
  <2>1. PICK op \in {"read", "write", "launch"}, d \in Devices,
             r \in Uses[origin].regions, v \in Values :
          /\ CellsOf(r) \cap OpenCells = {}
          /\ Begin(t, [op |-> op, dev |-> d, region |-> r, value |-> v,
                       fresh |-> active = NoDevice])
    BY Zenon, <1>1 DEF Access
  <2> DEFINE c == [op |-> op, dev |-> d, region |-> r, value |-> v, fresh |-> active = NoDevice]
  <2>2. c.op = op /\ c.region = r
    BY Zenon
  <2>3. Begin(t, c)
    BY Zenon, <2>1
  <2> HIDE DEF c
  <2>4. c \notin MapCall /\ c \notin UnmapCall
    <3>1. c.op # "map" /\ c.op # "unmap"
      BY Zenon, <2>2
    <3>2. (\A x \in MapCall : x.op = "map") /\ \A x \in UnmapCall : x.op = "unmap"
      BY Zenon DEF MapCall, UnmapCall
    <3> QED
      BY Zenon, <3>1, <3>2
  <2> QED
    BY Zenon, <2>1, <2>2, <2>3, <2>4, BeginKeeps3
<1>2. CASE Map(t)
  <2>1. PICK f \in Uses[origin].flags, r \in Uses[origin].regions :
          /\ Cardinality(mapped) < Uses[origin].maps
          /\ CellsOf(r) \cap OpenCells = {}
          /\ Begin(t, [op |-> "map", flags |-> f, region |-> r, fresh |-> FALSE])
    BY Zenon, <1>2 DEF Map
  <2> DEFINE c == [op |-> "map", flags |-> f, region |-> r, fresh |-> FALSE]
  <2>2. c.op = "map" /\ c.region = r /\ c.flags = f
    BY Zenon
  <2>3. Begin(t, c)
    BY Zenon, <2>1
  <2> HIDE DEF c
  <2>4. c \notin UnmapCall
    <3>1. \A x \in UnmapCall : x.op = "unmap"
      BY Zenon DEF UnmapCall
    <3> QED
      BY Zenon, <2>2, <3>1
  <2>5. origin = "hostPtr" => mapped = {}
    <3>1. IsFiniteSet(mapped)
      BY Zenon DEF Inv1, MapsTyped
    <3>2. Cardinality(mapped) \in Nat
      BY Zenon, <3>1, FS_CardinalityType
    <3>3. origin = "hostPtr" => Cardinality(mapped) = 0
      BY <2>1, <3>2, UseFacts
    <3> QED
      BY Zenon, <3>1, <3>3, FS_EmptySet
  <2> QED
    BY Zenon, <2>1, <2>2, <2>3, <2>4, <2>5, BeginKeeps3
<1>3. CASE Unmap(t)
  <2>1. ASSUME NEW m \in mapped, NEW F, m.ptr # Direct /\ active = NoDevice => F,
               Begin(t, [op |-> "unmap", map |-> m, ptr |-> m.ptr, dev |-> First, fresh |-> F])
        PROVE  Inv3'
    <3> DEFINE c == [op |-> "unmap", map |-> m, ptr |-> m.ptr, dev |-> First, fresh |-> F]
    <3>1. c.op = "unmap" /\ c.map = m /\ c.ptr = m.ptr /\ c.fresh = F
      BY Zenon
    <3>2. Begin(t, c)
      BY Zenon, <2>1
    <3> HIDE DEF c
    <3>3. c \notin AccessCall \cup MapCall
      <4>1. /\ \A x \in MapCall : x.op = "map"
            /\ \A x \in AccessCall : x.op \in {"read", "write", "launch"}
        BY Zenon DEF MapCall, AccessCall
      <4> QED
        BY Zenon, <3>1, <4>1
    <3> QED
      BY Zenon, <2>1, <3>1, <3>2, <3>3, BeginKeeps3
  <2>2. ASSUME NEW m \in mapped,
               Begin(t, [op |-> "unmap", map |-> m, ptr |-> m.ptr, dev |-> First,
                         fresh |-> /\ active = NoDevice
                                   /\ Find(m.ptr) # 0
                                   /\ "invalidate" \notin maps[Find(m.ptr)].flags])
        PROVE  Inv3'
    <3> DEFINE F == /\ active = NoDevice
                    /\ Find(m.ptr) # 0
                    /\ "invalidate" \notin maps[Find(m.ptr)].flags
    <3>1. m.ptr # Direct /\ active = NoDevice => F
      <4> HAVE m.ptr # Direct /\ active = NoDevice
      <4>1. Find(m.ptr) # 0 /\ Find(m.ptr) \in DOMAIN maps
        BY Zenon, FindsMap
      <4>2. origin = "plain"
        BY Zenon DEF Inv1, BufferOK
      <4>3. maps[Find(m.ptr)].flags \in Uses[origin].flags
        BY Zenon, <4>1 DEF Inv3, MapsOK
      <4> QED
        BY Zenon, <4>1, <4>2, <4>3, UseFacts
    <3>2. Begin(t, [op |-> "unmap", map |-> m, ptr |-> m.ptr, dev |-> First, fresh |-> F])
      BY Zenon, <2>2
    <3> HIDE DEF F
    <3> QED
      BY Zenon, <2>1, <3>1, <3>2
  <2>3. ASSUME Begin(t, UnknownUnmap)
        PROVE  Inv3'
    BY Zenon, <2>3, BeginKeeps3, KindsDiffer
  <2> QED
    BY Zenon, <1>3, <2>2, <2>3 DEF Unmap, UnknownUnmap
<1> QED
  BY Zenon, <1>1, <1>2, <1>3

\* The cells of a map.
LEMMA MapCells ==
  ASSUME Inv1, NEW m \in mapped
  PROVE  /\ m.off \in Cells /\ m.size \in 1 .. Size /\ m.off + m.size <= Size
         /\ \A i \in 0 .. m.size - 1 : /\ i \in Cells /\ m.off + i \in Cells
                                       /\ m.off + i \in CellsOf(m) /\ m.off + i \in OpenCells
         /\ \A c \in CellsOf(m) : /\ c \in Cells /\ c \in OpenCells
                                  /\ c - m.off \in 0 .. m.size - 1 /\ m.off + (c - m.off) = c
<1>1. m.off \in Cells /\ m.size \in 1 .. Size /\ m.off + m.size <= Size
  BY Zenon DEF Inv1, MapsTyped, OpenMap
<1>2. \A c \in CellsOf(m) : c \in OpenCells
  BY Zenon DEF OpenCells
<1> QED
  BY Zenon, <1>1, <1>2, RegionFacts

\* Two maps have different pointers, unless they are direct.
LEMMA PointersDiffer ==
  ASSUME Inv3, NEW m \in mapped, NEW n \in mapped, m.ptr # Direct, m.ptr = n.ptr
  PROVE  m = n
<1>1. PICK i \in DOMAIN maps : maps[i] = m
  BY Zenon DEF Inv3, MapsOK
<1>2. PICK j \in DOMAIN maps : maps[j] = n
  BY Zenon DEF Inv3, MapsOK
<1>3. i = j
  BY Zenon, <1>1, <1>2 DEF Inv3, MapsOK
<1> QED
  BY Zenon, <1>1, <1>2, <1>3

\* A call that allocated found no data; any other works on the data.
LEMMA TargetHasData ==
  ASSUME Inv1, Inv2, Inv3, NEW t \in Threads, call[t] # Idle,
         NEW c \in Cells, Expected(c), c \notin OpenCells \/ origin = "integrated"
  PROVE  TargetMemory(t)[c] = logical[c]
<1>1. active # NoDevice /\ alloc[active][c] = logical[c]
  BY Zenon DEF Inv3, Latest
<1> QED
  BY Zenon, <1>1, TargetAlone

\* A failed call that changed nothing, or only made the first allocation.
LEMMA NoWorkKeeps3 ==
  ASSUME Inv1, Inv2, Inv3, NEW t \in Threads, call[t] # Idle,
         \A u \in Threads : call'[u] = Idle,
         UNCHANGED <<origin, maps, mem, held, mapped, logical>>,
         \/ alloc' = alloc /\ active' = active
         \/ /\ Target(t) \in Devices /\ Target(t) # NoDevice
            /\ alloc' = [alloc EXCEPT ![Target(t)] = TargetMemory(t)] /\ active' = Target(t)
  PROVE  Inv3'
<1>1. CallsOK'
  BY Zenon, NoCallsOK
<1>2. \A c : Expected(c)' <=> Expected(c)
  BY Zenon DEF Expected
<1>3. OpenCells' = OpenCells
  BY Zenon DEF OpenCells
<1>4. Latest'
  <2>1. CASE alloc' = alloc /\ active' = active
    BY Zenon, <1>2, <1>3, <2>1 DEF Inv3, Latest
  <2>2. CASE /\ Target(t) \in Devices /\ Target(t) # NoDevice
             /\ alloc' = [alloc EXCEPT ![Target(t)] = TargetMemory(t)] /\ active' = Target(t)
    <3>1. alloc'[active'] = TargetMemory(t) /\ active' # NoDevice
      BY Zenon, <2>2 DEF Inv1, TypeOK
    <3> SUFFICES ASSUME NEW c \in Cells, Expected(c),
                        c \notin OpenCells \/ origin = "integrated"
                 PROVE  TargetMemory(t)[c] = logical[c]
      BY Zenon, <1>2, <1>3, <3>1 DEF Latest
    <3> QED
      BY Zenon, TargetHasData
  <2> QED
    BY Zenon, <2>1, <2>2
<1>5. MapsOK' /\ InMap'
  BY ZenonT(60), <1>2 DEF Inv3, MapsOK, InMap
<1> QED
  BY Zenon, <1>1, <1>4, <1>5 DEF Inv3

\* The cells a command writes are those of its region: nothing is at an offset
\* in an integrated buffer.
LEMMA TouchedRegion ==
  ASSUME SupportedUses, Inv1, Inv3, NEW t \in Threads, call[t].op \in {"read", "write", "launch"}
  PROVE  Touched(t) = IF call[t].op = "read" THEN {} ELSE CellsOf(call[t].region)
<1>1. call[t] \in AccessCall /\ call[t] # Idle
  BY Zenon, CallKinds DEF Inv1
<1>2. call[t].region \in Uses[origin].regions /\ origin # None
  BY Zenon, <1>1 DEF Inv3, CallsOK, Inv1, BufferOK
<1>3. Base(call[t].region.off) = call[t].region.off
  BY Zenon, <1>2, UseFacts DEF Base
<1> QED
  BY Zenon, <1>3 DEF Touched, CellsOf

\* getDevicePtr and the command that uses the pointer: it writes the same
\* cells of the allocation and of what the application expects.
LEMMA getDevicePtrKeeps3 ==
  ASSUME SupportedUses, Inv1, Inv2, Inv3, NEW t \in Threads, getDevicePtr(t)
  PROVE  Inv3'
<1> USE MemBufferAssumption
<1>1. /\ call[t].op \in {"read", "write", "launch"}
      /\ origin' = origin /\ maps' = maps /\ mem' = mem /\ held' = held /\ mapped' = mapped
  BY Zenon DEF getDevicePtr
<1>2. /\ call[t] # Idle /\ call[t] \in AccessCall /\ call[t].dev \in Devices
      /\ call[t].value \in Values /\ (call[t].fresh \/ active # NoDevice)
  BY Zenon, <1>1, CallKinds DEF Inv1
<1>3. \A u \in Threads : call'[u] = Idle
  BY Zenon, ReturnsKeep2
<1>4. CASE ~Reachable(t)
  <2>1. alloc' = alloc /\ active' = active /\ logical' = logical
    BY Zenon, <1>4 DEF getDevicePtr
  <2> QED
    BY Zenon, <1>1, <1>2, <1>3, <2>1, NoWorkKeeps3
<1>5. CASE Reachable(t)
  <2> DEFINE W == Touched(t)
             v == call[t].value
             M == TargetMemory(t)
  <2>1. /\ Target(t) \in Devices /\ Target(t) # NoDevice
    BY Zenon, <1>2, TargetFacts
  <2>2. /\ alloc' = [alloc EXCEPT ![Target(t)] = Overwritten(M, W, v)]
        /\ active' = Target(t)
        /\ logical' = IF call[t].op = "read" THEN logical
                      ELSE Overwritten(logical, CellsOf(call[t].region), v)
    BY Zenon, <1>5 DEF getDevicePtr
  <2>3. alloc'[active'] = Overwritten(M, W, v)
    BY Zenon, <2>1, <2>2 DEF Inv1, TypeOK
  <2>4. W = IF call[t].op = "read" THEN {} ELSE CellsOf(call[t].region)
    BY Zenon, <1>1, TouchedRegion
  <2> HIDE DEF W, v, M
  <2>5. \A c \in Cells : logical'[c] = IF c \in W THEN v ELSE logical[c]
    BY Zenon, <2>2, <2>4 DEF Overwritten, Inv1, TypeOK
  <2>6. W \cap OpenCells = {}
    BY Zenon, <1>2, <2>4 DEF Inv3, CallsOK
  <2>7. OpenCells' = OpenCells
    BY Zenon, <1>1 DEF OpenCells
  <2>8. Latest'
    <3> SUFFICES ASSUME NEW c \in Cells, Expected(c)',
                        c \notin OpenCells \/ origin = "integrated"
                 PROVE  alloc'[active'][c] = logical'[c]
      BY Zenon, <1>1, <2>1, <2>2, <2>7 DEF Latest
    <3>1. alloc'[active'][c] = IF c \in W THEN v ELSE M[c]
      BY Zenon, <2>3 DEF Overwritten
    <3>2. CASE c \in W
      BY Zenon, <2>5, <3>1, <3>2
    <3>3. CASE c \notin W
      <4>1. logical'[c] = logical[c]
        BY Zenon, <2>5, <3>3
      <4>2. M[c] = logical[c]
        BY Zenon, <1>1, <1>2, <4>1, SameExpected, TargetHasData DEF M
      <4> QED
        BY Zenon, <3>1, <3>3, <4>1, <4>2
    <3> QED
      BY Zenon, <3>2, <3>3
  <2>9. InMap'
    <3> SUFFICES ASSUME NEW m \in mapped, m.ptr # Direct, NEW i \in 0 .. m.size - 1,
                        Expected(m.off + i)'
                 PROVE  mem[m.ptr][i] = logical'[m.off + i]
      BY Zenon, <1>1 DEF InMap
    <3>1. m.off + i \in Cells /\ m.off + i \in OpenCells
      BY Zenon, MapCells
    <3>2. logical'[m.off + i] = logical[m.off + i]
      BY Zenon, <2>5, <2>6, <3>1
    <3> QED
      BY Zenon, <1>1, <3>2, SameExpected DEF Inv3, InMap
  <2>10. MapsOK'
    BY Zenon, <1>1 DEF Inv3, MapsOK
  <2> QED
    BY Zenon, <1>3, <2>8, <2>9, <2>10, NoCallsOK DEF Inv3
<1> QED
  BY Zenon, <1>4, <1>5

\* The host memory of a new map is not that of another.
LEMMA NewPointer ==
  ASSUME Inv1, Inv3, NEW t \in Threads, call[t].op = "map", origin # "integrated",
         NEW p \in {UserPtr} \cup Slots, NewMapping(p)
  PROVE  /\ \A i \in DOMAIN maps : maps[i].ptr # p
         /\ \A m \in mapped : m.ptr # p /\ m.ptr # Direct
<1>1. call[t] \in MapCall
  BY Zenon, CallKinds DEF Inv1
<1>2. \A i \in DOMAIN maps : maps[i].ptr # p
  <2>1. CASE origin = "hostPtr"
    BY Zenon, <1>1, <2>1 DEF Inv3, MapsOK, CallsOK
  <2>2. CASE origin # "hostPtr"
    BY <2>2 DEF Inv3, MapsOK, NewMapping
  <2> QED
    BY Zenon, <2>1, <2>2
<1>3. \A m \in mapped : m.ptr # Direct
  BY Zenon DEF Inv1, MapsTyped
<1>4. \A m \in mapped : m.ptr # p
  BY <1>2, <1>3 DEF Inv3, MapsOK
<1> QED
  BY Zenon, <1>2, <1>3, <1>4

\* A new descriptor for a pointer that no other has.
LEMMA AppendKeepsMaps ==
  ASSUME Inv1, Inv3, NEW t \in Threads, call[t].op = "map", origin # "integrated",
         NEW p \in {UserPtr} \cup Slots, NewMapping(p), origin' = origin,
         held' = held \cup ({p} \cap Slots), maps' = Append(maps, Descriptor(t, p)),
         \/ mapped' = mapped \cup {Descriptor(t, p)}
         \/ mapped' = mapped /\ origin # "hostPtr"
  PROVE  MapsOK'
<1> DEFINE D == Descriptor(t, p)
           n == Len(maps)
<1>1. p \in {UserPtr, Direct} \cup Slots /\ p # Direct
  BY MemBufferAssumption DEF UserPtr, Direct, Slots
<1>2. /\ D \in HostAllocation /\ D.ptr = p /\ D.flags = call[t].flags
      /\ CellsOf(D) = CellsOf(call[t].region)
  BY Zenon, <1>1, DescriptorFacts
<1>3. /\ call[t] \in MapCall /\ origin # None
  BY Zenon, CallKinds DEF Inv1, BufferOK
<1>4. D.flags \in Uses[origin].flags /\ CellsOf(D) \cap OpenCells = {}
  BY Zenon, <1>2, <1>3 DEF Inv3, CallsOK
<1>5. maps \in Seq(HostAllocation)
  BY Zenon DEF Inv1, MapsTyped
<1>6. maps' = Append(maps, D)
  BY Zenon
<1>7. /\ n \in Nat /\ DOMAIN maps = 1 .. n /\ DOMAIN maps' = 1 .. n + 1
      /\ maps'[n + 1] = D /\ \A i \in 1 .. n : maps'[i] = maps[i]
  BY <1>2, <1>5, <1>6, AppendProperties, SMTT(60)
<1>8. /\ \A i \in DOMAIN maps : maps[i].ptr # p
      /\ \A m \in mapped : m.ptr # p
  BY Zenon, NewPointer
<1>9. p = UserPtr \/ origin # "hostPtr"
  BY Zenon DEF NewMapping
<1>10. origin # "hostPtr" => p \in held'
  BY Zenon DEF NewMapping
<1>11. \/ mapped' = mapped \cup {D}
       \/ mapped' = mapped /\ origin # "hostPtr"
  BY Zenon
<1> HIDE DEF D, n
<1>12. \A i, j \in DOMAIN maps' : maps'[i].ptr = maps'[j].ptr => i = j
  <2>1. \A i \in DOMAIN maps' : i = n + 1 \/ i \in DOMAIN maps
    BY <1>7
  <2>2. \A i, j \in DOMAIN maps : maps[i].ptr = maps[j].ptr => i = j
    BY Zenon DEF Inv3, MapsOK
  <2>3. \A i \in DOMAIN maps : maps'[i] = maps[i] /\ maps'[i].ptr # p
    BY Zenon, <1>7, <1>8
  <2>4. maps'[n + 1].ptr = p
    BY Zenon, <1>2, <1>7
  <2> QED
    BY SMTT(60), <2>1, <2>2, <2>3, <2>4
<1>13. \A i \in DOMAIN maps' :
         /\ maps'[i].flags \in Uses[origin].flags
         /\ IF origin = "hostPtr" THEN maps'[i] \in mapped' ELSE maps'[i].ptr \in held'
  <2>1. \A i \in DOMAIN maps' : maps'[i] = D \/ (i \in DOMAIN maps /\ maps'[i] = maps[i])
    BY <1>7
  <2>2. \A i \in DOMAIN maps :
          /\ maps[i].flags \in Uses[origin].flags
          /\ IF origin = "hostPtr" THEN maps[i] \in mapped ELSE maps[i].ptr \in held
    BY Zenon DEF Inv3, MapsOK
  <2> QED
    BY ZenonT(60), <1>2, <1>4, <1>10, <1>11, <2>1, <2>2
<1>14. \A m \in mapped' :
         /\ m.flags \in Uses[origin].flags
         /\ \E i \in DOMAIN maps' : maps'[i] = m
         /\ origin = "hostPtr" => m.ptr = UserPtr
  <2>1. ASSUME NEW m \in mapped
        PROVE  /\ m.flags \in Uses[origin].flags
               /\ \E i \in DOMAIN maps' : maps'[i] = m
               /\ origin = "hostPtr" => m.ptr = UserPtr
    <3>1. m.ptr # Direct
      BY Zenon DEF Inv1, MapsTyped
    <3>2. PICK i \in DOMAIN maps : maps[i] = m
      BY Zenon, <3>1 DEF Inv3, MapsOK
    <3>3. i \in DOMAIN maps' /\ maps'[i] = m
      BY <1>7, <3>2, SMTT(60)
    <3> QED
      BY Zenon, <3>3 DEF Inv3, MapsOK
  <2>2. n + 1 \in DOMAIN maps'
    BY <1>7
  <2>3. /\ D.flags \in Uses[origin].flags /\ (\E i \in DOMAIN maps' : maps'[i] = D)
        /\ origin = "hostPtr" => D.ptr = UserPtr
    BY Zenon, <1>2, <1>4, <1>7, <1>9, <2>2
  <2> QED
    BY Zenon, <1>11, <2>1, <2>3
<1>15. \A m, k \in mapped' : m # k => CellsOf(m) \cap CellsOf(k) = {}
  <2>1. \A m, k \in mapped : m # k => CellsOf(m) \cap CellsOf(k) = {}
    BY Zenon DEF Inv3, MapsOK
  <2>2. \A m \in mapped : CellsOf(m) \cap CellsOf(D) = {}
    BY Zenon, <1>4 DEF OpenCells
  <2> QED
    BY Zenon, <1>11, <2>1, <2>2
<1> QED
  BY Zenon, <1>12, <1>13, <1>14, <1>15 DEF MapsOK

\* mapHostPtr: the memory of a map that reads its region gets the data.
LEMMA mapHostPtrKeeps3 ==
  ASSUME SupportedUses, Inv1, Inv2, Inv3, NEW t \in Threads, mapHostPtr(t)
  PROVE  Inv3'
<1> USE MemBufferAssumption
<1>1. call[t].op = "map" /\ origin' = origin /\ alloc' = alloc /\ active' = active
  BY Zenon DEF mapHostPtr
<1>2. /\ call[t] # Idle /\ call[t] \in MapCall /\ call[t].region \in Regions /\ origin # None
  BY Zenon, <1>1, CallKinds DEF Inv1, BufferOK
<1> DEFINE r == call[t].region
           f == call[t].flags
<1>3. /\ f \in Uses[origin].flags /\ r \in Uses[origin].regions
      /\ CellsOf(r) \cap OpenCells = {}
  BY Zenon, <1>2 DEF Inv3, CallsOK
<1>4. CallsOK'
  BY Zenon, ReturnsKeep2, NoCallsOK
<1>5. ASSUME NEW p \in {UserPtr, Direct} \cup Slots, Mapped(t, p)
      PROVE  /\ mapped' = mapped \cup {Descriptor(t, p)}
             /\ \A c : c \in OpenCells' <=> c \in OpenCells \/ c \in CellsOf(r)
             /\ \A c \in Cells : logical'[c] = IF Discards(f) /\ c \in CellsOf(r)
                                               THEN Unset ELSE logical[c]
             /\ Latest'
  <2>1. /\ mapped' = mapped \cup {Descriptor(t, p)}
        /\ logical' = IF Discards(f)
                      THEN Overwritten(logical, CellsOf(r), Unset) ELSE logical
    BY Zenon, <1>5 DEF Mapped
  <2>2. CellsOf(Descriptor(t, p)) = CellsOf(r)
    BY Zenon, <1>1, DescriptorFacts
  <2>3. \A c : c \in OpenCells' <=> c \in OpenCells \/ c \in CellsOf(r)
    BY Zenon, <2>1, <2>2 DEF OpenCells
  <2>4. \A c \in Cells : logical'[c] = IF Discards(f) /\ c \in CellsOf(r)
                                       THEN Unset ELSE logical[c]
    BY Zenon, <2>1 DEF Overwritten, Inv1, TypeOK
  <2>5. Latest'
    <3>1. \A c \in Cells : Expected(c)' => Expected(c) /\ logical'[c] = logical[c]
      BY Zenon, <1>1, <2>4 DEF Expected
    <3> QED
      BY Zenon, <1>1, <2>3, <3>1 DEF Inv3, Latest
  <2> QED
    BY Zenon, <2>1, <2>3, <2>4, <2>5
<1>6. ASSUME NEW p \in {UserPtr} \cup Slots, origin # "integrated", NewMapping(p),
             held' = held \cup ({p} \cap Slots), maps' = Append(maps, Descriptor(t, p)),
             mem' = IF CopiesOnMap(t) THEN [mem EXCEPT ![p] = CopiedOut(p, r)] ELSE mem,
             Mapped(t, p)
      PROVE  Inv3'
  <2> DEFINE D == Descriptor(t, p)
  <2>1. p \in {UserPtr, Direct} \cup Slots
    BY Zenon
  <2>2. /\ mapped' = mapped \cup {D} /\ Latest'
        /\ \A c \in Cells : logical'[c] = IF Discards(f) /\ c \in CellsOf(r)
                                          THEN Unset ELSE logical[c]
    BY Zenon, <1>5, <1>6, <2>1
  <2>3. D.ptr = p /\ D.off = r.off /\ D.size = r.size
    BY Zenon, <1>1, <2>1, DescriptorFacts
  <2>4. MapsOK'
    BY Zenon, <1>1, <1>6, <2>2, AppendKeepsMaps
  <2> HIDE DEF D, r, f
  <2>5. \A m \in mapped : m.ptr # p /\ m.ptr # Direct
    BY Zenon, <1>1, <1>6, NewPointer
  <2>6. InMap'
    <3> SUFFICES ASSUME NEW m \in mapped', NEW i \in 0 .. m.size - 1,
                        Expected(m.off + i)'
                 PROVE  mem'[m.ptr][i] = logical'[m.off + i]
      BY Zenon DEF InMap
    <3>1. CASE m \in mapped
      <4>1. m.off + i \in Cells /\ m.off + i \in OpenCells
        BY Zenon, <3>1, MapCells
      <4>2. logical'[m.off + i] = logical[m.off + i]
        BY Zenon, <1>3, <2>2, <4>1
      <4>3. mem'[m.ptr] = mem[m.ptr]
        <5>1. m.ptr \in {UserPtr} \cup Slots /\ m.ptr # p
          BY Zenon, <2>5, <3>1 DEF Inv1, MapsTyped, OpenMap
        <5> QED
          BY Zenon, <1>6, <5>1 DEF Inv1, TypeOK
      <4> QED
        BY Zenon, <1>1, <2>5, <3>1, <4>2, <4>3, SameExpected DEF Inv3, InMap
    <3>2. CASE m = D
      <4>1. i \in 0 .. r.size - 1 /\ m.off + i = r.off + i /\ m.ptr = p
        BY Zenon, <2>3, <3>2
      <4>2. r.off + i \in Cells /\ r.off + i \in CellsOf(r)
        BY Zenon, <1>2, <4>1, RegionFacts DEF r
      <4>3. ~Discards(f) /\ logical'[r.off + i] = logical[r.off + i] /\ Expected(r.off + i)
        BY Zenon, <1>1, <2>2, <4>1, <4>2 DEF Expected
      <4>4. "read" \in f
        BY Zenon, <1>2, <1>3, <4>3, UseFacts
      <4>5. active # NoDevice /\ alloc[active][r.off + i] = logical[r.off + i]
        BY Zenon, <1>3, <4>1, <4>2, <4>3 DEF Inv3, Latest
      <4>6. CopiesOnMap(t)
        BY Zenon, <4>4, <4>5 DEF CopiesOnMap, f
      <4>7. CopiedOut(p, r)[i] = alloc[active][r.off + i]
        BY Zenon, <1>2, <4>1, <4>5, CopiedOutFacts DEF r
      <4>8. mem'[p] = CopiedOut(p, r)
        BY Zenon, <1>6, <4>6 DEF Inv1, TypeOK
      <4> QED
        BY Zenon, <4>1, <4>3, <4>5, <4>7, <4>8
    <3> QED
      BY Zenon, <2>2, <3>1, <3>2
  <2> QED
    BY Zenon, <1>4, <2>2, <2>4, <2>6 DEF Inv3
<1>7. ASSUME origin = "integrated", Mapped(t, Direct), held' = held, maps' = maps, mem' = mem
      PROVE  Inv3'
  <2> DEFINE D == Descriptor(t, Direct)
  <2>1. mapped' = mapped \cup {D} /\ Latest'
    BY Zenon, <1>5, <1>7
  <2>2. D.ptr = Direct /\ D.off = r.off /\ D.flags = f /\ CellsOf(D) = CellsOf(r)
    BY ZenonT(60), <1>1, DescriptorFacts
  <2> HIDE DEF D, r, f
  <2>3. \A m \in mapped' : m.ptr = Direct
    BY Zenon, <1>7, <2>1, <2>2 DEF Inv1, MapsTyped
  <2>4. InMap'
    BY Zenon, <2>3 DEF InMap
  <2>5. r.off = 0
    BY Zenon, <1>2, <1>3, <1>7, UseFacts
  <2>6. \A m, k \in mapped' : m # k => CellsOf(m) \cap CellsOf(k) = {}
    <3>1. \A m, k \in mapped : m # k => CellsOf(m) \cap CellsOf(k) = {}
      BY Zenon DEF Inv3, MapsOK
    <3>2. \A m \in mapped : CellsOf(m) \cap CellsOf(D) = {}
      BY <1>3, <2>2 DEF OpenCells
    <3> QED
      BY Zenon, <2>1, <3>1, <3>2
  <2>7. \A m \in mapped' : m.flags \in Uses[origin].flags /\ m.off = 0
    BY Zenon, <1>3, <1>7, <2>1, <2>2, <2>5 DEF Inv3, MapsOK
  <2>8. MapsOK'
    <3>1. maps' = <<>> /\ DOMAIN maps' = {}
      BY <1>7, SMTT(60) DEF Inv3, MapsOK
    <3>2. origin' # "hostPtr"
      BY Zenon, <1>1, <1>7
    <3> QED
      BY ZenonT(60), <1>1, <2>3, <2>6, <2>7, <3>1, <3>2 DEF MapsOK
  <2> QED
    BY Zenon, <1>4, <2>1, <2>4, <2>8 DEF Inv3
<1> QED
  BY Zenon, <1>6, <1>7 DEF mapHostPtr

\* A failed copy in mapHostPtr leaves a descriptor that no map has.
LEMMA mapHostPtrFailKeeps3 ==
  ASSUME SupportedUses, Inv1, Inv2, Inv3, NEW t \in Threads, mapHostPtrFail(t)
  PROVE  Inv3'
<1>1. /\ call[t].op = "map" /\ origin # "integrated" /\ Uses[origin].fails
      /\ origin' = origin /\ alloc' = alloc /\ active' = active /\ mem' = mem
      /\ mapped' = mapped /\ logical' = logical
  BY Zenon DEF mapHostPtrFail, historyVars
<1>2. PICK p \in {UserPtr} \cup Slots : /\ NewMapping(p)
                                        /\ held' = held \cup ({p} \cap Slots)
                                        /\ maps' = Append(maps, Descriptor(t, p))
  BY Zenon DEF mapHostPtrFail
<1>3. call[t] # Idle /\ origin # None
  BY Zenon, <1>1, CallKinds DEF Inv1, BufferOK
<1>4. origin # "hostPtr"
  BY Zenon, <1>1, <1>3, UseFacts
<1>5. MapsOK'
  BY Zenon, <1>1, <1>2, <1>4, AppendKeepsMaps
<1>6. CallsOK'
  BY Zenon, ReturnsKeep2, NoCallsOK
<1>7. OpenCells' = OpenCells
  BY Zenon, <1>1 DEF OpenCells
<1>8. Latest' /\ InMap'
  <2>1. \A c : Expected(c)' <=> Expected(c)
    BY Zenon, <1>1 DEF Expected
  <2> QED
    BY Zenon, <1>1, <1>7, <2>1 DEF Inv3, Latest, InMap
<1> QED
  BY Zenon, <1>5, <1>6, <1>8 DEF Inv3

\* The maps that an unmap leaves.
LEMMA UnmappedCells ==
  ASSUME Inv3, NEW m \in mapped, mapped' = mapped \ {m}, NEW c, c \notin OpenCells'
  PROVE  c \in CellsOf(m) \/ c \notin OpenCells
BY Zenon DEF OpenCells

\* unmapHostPtr erases the descriptor of the map.
LEMMA EraseKeepsMaps ==
  ASSUME Inv1, Inv3, NEW m \in mapped, NEW i \in DOMAIN maps, maps[i] = m, m.ptr # Direct,
         maps' = SubSeq(maps, 1, i - 1) \o SubSeq(maps, i + 1, Len(maps)),
         mapped' = mapped \ {m}, origin' = origin, held' = held
  PROVE  MapsOK'
<1> DEFINE n == Len(maps)
           Old(j) == IF j < i THEN j ELSE j + 1
<1>1. /\ n \in Nat \ {0} /\ DOMAIN maps = 1 .. n /\ DOMAIN maps' = 1 .. n - 1
      /\ \A j \in 1 .. n - 1 : maps'[j] = IF j < i THEN maps[j] ELSE maps[j + 1]
  BY Zenon, EraseFacts DEF Inv1, MapsTyped
<1> HIDE DEF n
<1>2. /\ \A j \in DOMAIN maps' : Old(j) \in DOMAIN maps /\ Old(j) # i
      /\ \A j, k \in DOMAIN maps' : Old(j) = Old(k) => j = k
      /\ \A j \in DOMAIN maps : j # i => \E k \in DOMAIN maps' : Old(k) = j
  <2>1. ASSUME NEW j \in DOMAIN maps'
        PROVE  Old(j) \in DOMAIN maps /\ Old(j) # i
    <3>1. j \in 1 .. n - 1 /\ i \in 1 .. n
      BY Zenon, <1>1
    <3>2. CASE j < i
      BY <1>1, <3>1, <3>2
    <3>3. CASE ~(j < i)
      <4>1. Old(j) = j + 1
        BY Zenon, <3>3
      <4>2. j + 1 \in 1 .. n /\ j + 1 # i
        BY SMTT(60), <1>1, <3>1, <3>3
      <4> QED
        BY Zenon, <1>1, <4>1, <4>2
    <3> QED
      BY Zenon, <3>2, <3>3
  <2>2. \A j, k \in DOMAIN maps' : Old(j) = Old(k) => j = k
    BY SMTT(60), <1>1
  <2>3. ASSUME NEW j \in DOMAIN maps, j # i
        PROVE  \E k \in DOMAIN maps' : Old(k) = j
    <3>1. CASE j < i
      <4>1. j \in DOMAIN maps' /\ Old(j) = j
        BY <1>1, <3>1
      <4> QED
        BY Zenon, <4>1
    <3>2. CASE ~(j < i)
      <4>1. j - 1 \in DOMAIN maps' /\ Old(j - 1) = j
        BY SMTT(60), <1>1, <2>3, <3>2
      <4> QED
        BY Zenon, <4>1
    <3> QED
      BY Zenon, <3>1, <3>2
  <2> QED
    BY Zenon, <2>1, <2>2, <2>3
<1>3. \A j \in DOMAIN maps' : maps'[j] = maps[Old(j)]
  BY Zenon, <1>1
<1> HIDE DEF Old
<1>4. \A j, k \in DOMAIN maps : maps[j].ptr = maps[k].ptr => j = k
  BY Zenon DEF Inv3, MapsOK
<1>5. \A j, k \in DOMAIN maps' : maps'[j].ptr = maps'[k].ptr => j = k
  <2> SUFFICES ASSUME NEW j \in DOMAIN maps', NEW k \in DOMAIN maps',
                      maps'[j].ptr = maps'[k].ptr
               PROVE  j = k
    BY Zenon
  <2>1. Old(j) \in DOMAIN maps /\ Old(k) \in DOMAIN maps
    BY Zenon, <1>2
  <2>2. maps[Old(j)].ptr = maps[Old(k)].ptr
    BY Zenon, <1>3
  <2>3. Old(j) = Old(k)
    BY Zenon, <1>4, <2>1, <2>2
  <2> QED
    BY Zenon, <1>2, <2>3
<1>6. \A j \in DOMAIN maps' :
        /\ maps'[j].flags \in Uses[origin].flags
        /\ IF origin = "hostPtr" THEN maps'[j] \in mapped' ELSE maps'[j].ptr \in held
  <2> SUFFICES ASSUME NEW j \in DOMAIN maps'
               PROVE  /\ maps'[j].flags \in Uses[origin].flags
                      /\ IF origin = "hostPtr" THEN maps'[j] \in mapped' ELSE maps'[j].ptr \in held
    BY Zenon
  <2>1. Old(j) \in DOMAIN maps /\ Old(j) # i /\ maps'[j] = maps[Old(j)]
    BY Zenon, <1>2, <1>3
  <2>2. maps[Old(j)] # m
    BY Zenon, <1>4, <2>1
  <2> QED
    BY Zenon, <2>1, <2>2 DEF Inv3, MapsOK
<1>7. \A k \in mapped' : k.ptr # Direct => \E j \in DOMAIN maps' : maps'[j] = k
  <2> SUFFICES ASSUME NEW k \in mapped', k.ptr # Direct
               PROVE  \E j \in DOMAIN maps' : maps'[j] = k
    BY Zenon
  <2>1. PICK j \in DOMAIN maps : maps[j] = k
    BY Zenon DEF Inv3, MapsOK
  <2>2. j # i
    BY Zenon, <2>1
  <2>3. PICK l \in DOMAIN maps' : Old(l) = j
    BY Zenon, <1>2, <2>1, <2>2
  <2>4. maps'[l] = maps[Old(l)]
    BY Zenon, <1>3
  <2>5. maps'[l] = k
    BY Zenon, <2>1, <2>3, <2>4
  <2> QED
    BY Zenon, <2>5
<1>8. origin # "integrated"
  BY Zenon DEF Inv1, MapsTyped
<1> QED
  BY Zenon, <1>5, <1>6, <1>7, <1>8 DEF Inv3, MapsOK

\* unmapHostPtr: the region gets the data of the map's memory.
LEMMA unmapHostPtrKeeps3 ==
  ASSUME Inv1, Inv2, Inv3, NEW t \in Threads, unmapHostPtr(t)
  PROVE  Inv3'
<1> USE MemBufferAssumption
<1> DEFINE i == Find(call[t].ptr)
           m == call[t].map
<1>1. /\ call[t].op = "unmap" /\ origin' = origin /\ mem' = mem /\ logical' = logical
      /\ mapped' = mapped \ {m}
  BY Zenon DEF unmapHostPtr
<1>2. call[t] # Idle
  BY Zenon, <1>1, CallKinds DEF Inv1
<1>3. CallsOK' /\ \A u \in Threads : call'[u] = Idle
  BY Zenon, ReturnsKeep2, NoCallsOK
<1>4. InMap' /\ \A c : Expected(c)' <=> Expected(c)
  <2>1. \A c : Expected(c)' <=> Expected(c)
    BY Zenon, <1>1 DEF Expected
  <2> QED
    BY Zenon, <1>1, <2>1 DEF Inv3, InMap
<1>5. CASE i # 0
  <2>1. /\ call[t] \in UnmapCall /\ m.ptr = call[t].ptr /\ m.ptr \in {UserPtr} \cup Slots
        /\ call[t].dev \in Devices
    BY Zenon, <1>1, <1>5, UnmapKnown
  <2>2. m \in mapped /\ m.ptr # Direct /\ (active = NoDevice => call[t].fresh)
    <3>1. m.ptr # Direct
      BY <2>1 DEF UserPtr, Slots, Direct
    <3> QED
      BY Zenon, <2>1, <3>1 DEF Inv3, CallsOK
  <2>3. i \in DOMAIN maps /\ maps[i] = m
    BY Zenon, <2>1, <2>2, FindsMap
  <2>4. CopiesOnUnmap(t)
    BY Zenon, <2>2 DEF CopiesOnUnmap
  <2>5. /\ alloc' = [alloc EXCEPT ![Target(t)] = CopiedIn(TargetMemory(t), m.ptr, m)]
        /\ active' = Target(t) /\ held' = held
        /\ maps' = SubSeq(maps, 1, i - 1) \o SubSeq(maps, i + 1, Len(maps))
    BY Zenon, <1>5, <2>3, <2>4 DEF unmapHostPtr, Deleted
  <2> HIDE DEF i, m
  <2>6. MapsOK'
    BY Zenon, <1>1, <2>2, <2>3, <2>5, EraseKeepsMaps
  <2>7. Target(t) \in Devices /\ Target(t) # NoDevice
    BY Zenon, <1>2, <2>1, <2>4, TargetFacts DEF CopiesOnUnmap
  <2>8. alloc'[active'] = CopiedIn(TargetMemory(t), m.ptr, m)
    BY Zenon, <2>5, <2>7 DEF Inv1, TypeOK
  <2>9. origin # "integrated"
    BY Zenon, <2>2 DEF Inv1, MapsTyped
  <2>10. Latest'
    <3> SUFFICES ASSUME NEW c \in Cells, Expected(c), c \notin OpenCells'
                 PROVE  alloc'[active'][c] = logical[c]
      BY Zenon, <1>1, <1>4, <2>5, <2>7, <2>9 DEF Latest
    <3>1. alloc'[active'][c] = IF c \in CellsOf(m) THEN mem[m.ptr][c - m.off]
                                                   ELSE TargetMemory(t)[c]
      BY Zenon, <2>8 DEF CopiedIn
    <3>2. CASE c \in CellsOf(m)
      <4>1. c - m.off \in 0 .. m.size - 1 /\ m.off + (c - m.off) = c
        BY Zenon, <2>2, <3>2, MapCells
      <4>2. mem[m.ptr][c - m.off] = logical[m.off + (c - m.off)]
        BY Zenon, <2>2, <4>1 DEF Inv3, InMap
      <4> QED
        BY Zenon, <3>1, <3>2, <4>1, <4>2
    <3>3. CASE c \notin CellsOf(m)
      <4>1. c \notin OpenCells
        BY Zenon, <1>1, <2>2, <3>3, UnmappedCells
      <4>2. TargetMemory(t)[c] = logical[c]
        BY Zenon, <1>2, <4>1, TargetHasData
      <4> QED
        BY Zenon, <3>1, <3>3, <4>2
    <3> QED
      BY Zenon, <3>2, <3>3
  <2> QED
    BY Zenon, <1>3, <1>4, <2>6, <2>10 DEF Inv3
<1>6. CASE i = 0
  <2>1. alloc' = alloc /\ active' = active /\ maps' = maps /\ held' = held
    BY Zenon, <1>6 DEF unmapHostPtr
  <2>2. CASE call[t] = UnknownUnmap
    <3>1. m.ptr = Unknown
      BY <2>2 DEF UnknownUnmap
    <3>2. \A k \in mapped : k.ptr # Unknown
      BY DEF Inv1, MapsTyped, OpenMap, UserPtr, Direct, Slots, Unknown
    <3>3. mapped' = mapped
      BY ZenonT(60), <1>1, <3>1, <3>2
    <3> QED
      BY ZenonT(60), <1>1, <1>2, <1>3, <2>1, <3>3, NoWorkKeeps3
  <2>3. CASE call[t] # UnknownUnmap
    <3>1. call[t] \in UnmapCall /\ m.ptr = call[t].ptr
      BY Zenon, <1>1, <2>3, CallKinds DEF Inv1
    <3>2. m \in mapped
      BY Zenon, <3>1 DEF Inv3, CallsOK
    <3>3. m.ptr = Direct
      BY Zenon, <1>6, <3>1, <3>2, FindsMap
    <3>4. origin = "integrated"
      BY Zenon, <3>2, <3>3 DEF Inv1, MapsTyped
    <3> HIDE DEF i, m
    <3>5. MapsOK'
      <4>1. maps = <<>> /\ DOMAIN maps' = {} /\ \A k \in mapped' : k.ptr = Direct
        BY <1>1, <2>1, <3>4, SMTT(60) DEF Inv3, MapsOK, Inv1, MapsTyped
      <4> QED
        BY Zenon, <1>1, <2>1, <4>1 DEF Inv3, MapsOK
    <3>6. Latest'
      BY Zenon, <1>1, <1>4, <2>1, <3>4 DEF Inv3, Latest
    <3> QED
      BY Zenon, <1>3, <1>4, <3>5, <3>6 DEF Inv3
  <2> QED
    BY Zenon, <2>2, <2>3
<1> QED
  BY Zenon, <1>5, <1>6

\* The calls that fail and leave the maps alone.
LEMMA FailuresKeep3 ==
  ASSUME Inv1, Inv2, Inv3, NEW t \in Threads, unmapHostPtrFail(t) \/ allocateFail(t)
  PROVE  Inv3'
<1>1. \A u \in Threads : call'[u] = Idle
  BY Zenon, ReturnsKeep2
<1>2. CASE unmapHostPtrFail(t)
  <2>1. /\ call[t].op = "unmap" /\ Find(call[t].ptr) # 0 /\ CopiesOnUnmap(t)
        /\ alloc' = [alloc EXCEPT ![Target(t)] = TargetMemory(t)] /\ active' = Target(t)
        /\ UNCHANGED <<origin, maps, mem, held, mapped, logical>>
    BY Zenon, <1>2 DEF unmapHostPtrFail, historyVars
  <2>2. call[t] # Idle /\ call[t].dev \in Devices
    BY Zenon, <2>1, UnmapKnown
  <2>3. Target(t) \in Devices /\ Target(t) # NoDevice
    BY Zenon, <2>1, <2>2, TargetFacts DEF CopiesOnUnmap
  <2> QED
    BY ZenonT(60), <1>1, <2>1, <2>2, <2>3, NoWorkKeeps3
<1>3. CASE allocateFail(t)
  <2>1. /\ call[t] # Idle /\ alloc' = alloc /\ active' = active
        /\ UNCHANGED <<origin, maps, mem, held, mapped, logical>>
    BY Zenon, <1>3 DEF allocateFail, bufferVars, historyVars
  <2> QED
    BY Zenon, <1>1, <2>1, NoWorkKeeps3
<1> QED
  BY Zenon, <1>2, <1>3

\* A write of the host changes the data of its own map only.
LEMMA HostWriteKeeps3 ==
  ASSUME Inv1, Inv3, NEW m \in mapped, HostWrite(m)
  PROVE  Inv3'
<1> USE MemBufferAssumption
<1>1. PICK i \in 0 .. m.size - 1, v \in Values :
        /\ IF m.ptr = Direct
           THEN alloc' = [alloc EXCEPT ![First][i] = v] /\ mem' = mem
           ELSE mem' = [mem EXCEPT ![m.ptr][i] = v] /\ alloc' = alloc
        /\ logical' = [logical EXCEPT ![m.off + i] = v]
        /\ origin' = origin /\ active' = active /\ maps' = maps /\ held' = held
        /\ mapped' = mapped /\ call' = call
  BY Zenon DEF HostWrite
<1>2. /\ i \in Cells /\ m.off + i \in Cells /\ m.off \in Nat /\ i \in Nat
      /\ m.off + i \in CellsOf(m) /\ m.off + i \in OpenCells
  BY MapCells DEF Cells
<1>3. \A c \in Cells : logical'[c] = IF c = m.off + i THEN v ELSE logical[c]
  BY Zenon, <1>1 DEF Inv1, TypeOK
<1>4. OpenCells' = OpenCells
  BY Zenon, <1>1 DEF OpenCells
<1>5. MapsOK'
  BY Zenon, <1>1 DEF Inv3, MapsOK
<1>6. CallsOK'
  BY Zenon, <1>1, <1>4 DEF Inv3, CallsOK
<1>7. CASE m.ptr = Direct
  <2>1. origin = "integrated" /\ active = First /\ First # NoDevice /\ m.off = 0
    BY Zenon, <1>7 DEF Inv1, MapsTyped, BufferOK, Inv3, MapsOK
  <2>2. m.off + i = i
    BY <1>2, <2>1
  <2>3. alloc[First] \in Memory
    BY Zenon, <2>1 DEF Inv1, BufferOK
  <2>4. \A c \in Cells : alloc'[First][c] = IF c = i THEN v ELSE alloc[First][c]
    <3>1. alloc'[First] = [alloc[First] EXCEPT ![i] = v]
      BY Zenon, <1>1, <1>7 DEF Inv1, TypeOK
    <3> QED
      BY Zenon, <2>3, <3>1 DEF Memory
  <2>5. Latest'
    <3> SUFFICES ASSUME NEW c \in Cells, Expected(c)'
                 PROVE  alloc'[First][c] = logical'[c]
      BY Zenon, <1>1, <2>1 DEF Latest
    <3>1. c # i => alloc[First][c] = logical[c]
      <4> HAVE c # i
      <4>1. Expected(c)
        BY Zenon, <1>1, <1>3, <2>2, SameExpected
      <4> QED
        BY Zenon, <2>1, <4>1 DEF Inv3, Latest
    <3> QED
      BY Zenon, <1>3, <2>2, <2>4, <3>1
  <2>6. InMap'
    BY ZenonT(60), <1>1, <2>1 DEF InMap, Inv1, MapsTyped
  <2> QED
    BY Zenon, <1>5, <1>6, <2>5, <2>6 DEF Inv3
<1>8. CASE m.ptr # Direct
  <2>1. origin # "integrated" /\ m.ptr \in {UserPtr} \cup Slots
    BY Zenon, <1>8 DEF Inv1, MapsTyped, OpenMap
  <2>2. mem' = [mem EXCEPT ![m.ptr][i] = v] /\ alloc' = alloc
    BY Zenon, <1>1, <1>8
  <2>3. /\ \A j \in Cells : mem'[m.ptr][j] = IF j = i THEN v ELSE mem[m.ptr][j]
        /\ \A p \in {UserPtr} \cup Slots : p # m.ptr => mem'[p] = mem[p]
    <3>1. mem[m.ptr] \in Memory /\ mem'[m.ptr] = [mem[m.ptr] EXCEPT ![i] = v]
      BY Zenon, <2>1, <2>2 DEF Inv1, TypeOK
    <3>2. \A p \in {UserPtr} \cup Slots : p # m.ptr => mem'[p] = mem[p]
      BY Zenon, <2>2 DEF Inv1, TypeOK
    <3> QED
      BY Zenon, <3>1, <3>2 DEF Memory
  <2>4. Latest'
    <3> SUFFICES ASSUME NEW c \in Cells, Expected(c)', c \notin OpenCells
                 PROVE  active # NoDevice /\ alloc[active][c] = logical'[c]
      BY ZenonT(60), <1>1, <1>4, <2>1, <2>2 DEF Latest
    <3>1. logical'[c] = logical[c]
      BY Zenon, <1>2, <1>3
    <3> QED
      BY Zenon, <1>1, <3>1, SameExpected DEF Inv3, Latest
  <2>5. InMap'
    <3> SUFFICES ASSUME NEW n \in mapped, n.ptr # Direct, NEW j \in 0 .. n.size - 1,
                        Expected(n.off + j)'
                 PROVE  mem'[n.ptr][j] = logical'[n.off + j]
      BY Zenon, <1>1 DEF InMap
    <3>1. j \in Cells /\ n.off + j \in Cells /\ n.off + j \in CellsOf(n)
      BY Zenon, MapCells
    <3>2. n.off + j # m.off + i => mem[n.ptr][j] = logical[n.off + j]
      <4> HAVE n.off + j # m.off + i
      <4>1. Expected(n.off + j)
        BY Zenon, <1>1, <1>3, <3>1, SameExpected
      <4> QED
        BY Zenon, <4>1 DEF Inv3, InMap
    <3>3. CASE n = m
      <4>1. j \in Nat
        BY <3>1 DEF Cells
      <4>2. m.off + j = m.off + i <=> j = i
        BY <1>2, <4>1
      <4> QED
        BY ZenonT(60), <1>3, <2>3, <3>1, <3>2, <3>3, <4>2
    <3>4. CASE n # m
      <4>1. n.ptr # m.ptr
        BY Zenon, <3>4, PointersDiffer
      <4>2. n.off + j # m.off + i
        BY Zenon, <1>2, <3>1, <3>4 DEF Inv3, MapsOK
      <4>3. n.ptr \in {UserPtr} \cup Slots
        BY Zenon DEF Inv1, MapsTyped, OpenMap
      <4> QED
        BY ZenonT(60), <1>3, <2>3, <3>1, <3>2, <4>1, <4>2, <4>3
    <3> QED
      BY Zenon, <3>3, <3>4
  <2> QED
    BY Zenon, <1>5, <1>6, <2>4, <2>5 DEF Inv3
<1> QED
  BY Zenon, <1>7, <1>8

\* Every step keeps the data.
LEMMA NextKeeps3 ==
  ASSUME Serial, SupportedUses, Inv1, Inv2, Inv3, [Next]_vars
  PROVE  Inv3'
<1>1. CASE urMemBufferCreate \/ urMemBufferCreateWithNativeHandle
  BY Zenon, <1>1, CreationKeeps3
<1>2. CASE urMemRelease
  BY Zenon, <1>2, urMemReleaseKeeps3
<1>3. ASSUME NEW t \in Threads, origin # None, Access(t) \/ Map(t) \/ Unmap(t)
      PROVE  Inv3'
  BY Zenon, <1>3, CallsKeep3
<1>4. ASSUME NEW t \in Threads,
             \/ getDevicePtr(t) \/ mapHostPtr(t) \/ unmapHostPtr(t)
             \/ mapHostPtrFail(t) \/ unmapHostPtrFail(t) \/ allocateFail(t)
      PROVE  Inv3'
  BY ZenonT(60), <1>4, getDevicePtrKeeps3, mapHostPtrKeeps3, unmapHostPtrKeeps3,
     mapHostPtrFailKeeps3,
     FailuresKeep3
<1>5. ASSUME NEW m \in mapped, HostWrite(m)
      PROVE  Inv3'
  BY ZenonT(60), <1>5, HostWriteKeeps3
<1>6. CASE UNCHANGED vars
  <2>1. OpenCells' = OpenCells
    BY Zenon, <1>6 DEF vars, OpenCells
  <2>2. \A c : Expected(c)' <=> Expected(c)
    BY Zenon, <1>6 DEF vars, Expected
  <2>3. Latest' /\ InMap'
    BY Zenon, <1>6, <2>1, <2>2 DEF vars, Inv3, Latest, InMap
  <2> QED
    BY SMTT(60), <1>6, <2>1, <2>3 DEF vars, Inv3, MapsOK, CallsOK
<1> QED
  BY ZenonT(60), <1>1, <1>2, <1>3, <1>4, <1>5, <1>6 DEF Next

\* At the start there is nothing to lose.
LEMMA InitHolds3 ==
  ASSUME Init
  PROVE  Inv3
<1>1. maps = <<>> /\ mapped = {} /\ logical = Filled(Unset) /\ origin = None
      /\ \A t \in Threads : call[t] = Idle
  BY Zenon DEF Init
<1>2. DOMAIN maps = {}
  BY <1>1
<1>3. MapsOK
  BY Zenon, <1>1, <1>2 DEF MapsOK
<1>4. CallsOK
  BY Zenon, <1>1, IdleIsNoCall DEF CallsOK
<1>5. Latest
  BY Zenon, <1>1 DEF Latest, Expected, Filled
<1>6. InMap
  BY Zenon, <1>1 DEF InMap
<1> QED
  BY Zenon, <1>3, <1>4, <1>5, <1>6 DEF Inv3

\* The invariant of the data.
LEMMA Invariant3 ==
  ASSUME Serial, SupportedUses
  PROVE  Spec => [](Inv1 /\ Inv2 /\ Inv3)
<1>1. Init => Inv1 /\ Inv2 /\ Inv3
  BY Zenon, InitHolds1, InitHolds2, InitHolds3
<1>2. Inv1 /\ Inv2 /\ Inv3 /\ [Next]_vars => (Inv1 /\ Inv2 /\ Inv3)'
  BY Zenon, NextKeeps1, NextKeeps2, NextKeeps3
<1> QED
  BY <1>1, <1>2, PTL DEF Spec

\* When the buffer is used in the supported ways and every function is called
\* under its Mutex, a read finds what was last put there, through
\* any device or any map, failed calls included.
THEOREM ReadsFindLatest ==
  ASSUME Serial, SupportedUses
  PROVE  Spec => []LatestData
<1>1. Inv1 /\ Inv3 => LatestData
  <2> SUFFICES ASSUME Inv1, Inv3, origin # None, NEW r \in Uses[origin].regions,
                      NEW i \in 0 .. r.size - 1, CellsOf(r) \cap OpenCells = {},
                      Expected(r.off + i)
               PROVE  ReadBack(r, i) = logical[r.off + i]
    BY Zenon DEF LatestData
  <2>1. r \in Regions /\ (origin = "integrated" => r.off = 0)
    BY Zenon, UseFacts
  <2>2. r.off + i \in Cells /\ r.off + i \in CellsOf(r)
    BY Zenon, <2>1, RegionFacts
  <2>3. active # NoDevice /\ alloc[active][r.off + i] = logical[r.off + i]
    BY Zenon, <2>2 DEF Inv3, Latest
  <2>4. Base(r.off) = r.off
    BY Zenon, <2>1 DEF Base
  <2> QED
    BY Zenon, <2>3, <2>4 DEF ReadBack
<1> QED
  BY <1>1, Invariant3, PTL

\* Under the same assumptions a region mapped for reading shows the buffer's
\* contents for as long as it is mapped.
THEOREM MapsShowData ==
  ASSUME Serial, SupportedUses
  PROVE  Spec => []MappedData
<1>1. Inv1 /\ Inv3 => MappedData
  <2> SUFFICES ASSUME Inv1, Inv3, NEW m \in mapped, NEW i \in 0 .. m.size - 1,
                      Expected(m.off + i)
               PROVE  MappedByte(m, i) = logical[m.off + i]
    BY Zenon DEF MappedData
  <2>1. CASE m.ptr = Direct
    <3>1. origin = "integrated" /\ active = First /\ m.off = 0
      BY Zenon, <2>1 DEF Inv1, MapsTyped, BufferOK, Inv3, MapsOK
    <3>2. m.off + i \in Cells /\ i \in Nat
      BY MapCells DEF Cells
    <3>3. m.off + i = i
      BY <3>1, <3>2
    <3>4. alloc[active][m.off + i] = logical[m.off + i]
      BY Zenon, <3>1, <3>2 DEF Inv3, Latest
    <3> QED
      BY Zenon, <2>1, <3>1, <3>3, <3>4 DEF MappedByte
  <2>2. CASE m.ptr # Direct
    BY Zenon, <2>2 DEF Inv3, InMap, MappedByte
  <2> QED
    BY Zenon, <2>1, <2>2
<1> QED
  BY <1>1, Invariant3, PTL
==============================================================================

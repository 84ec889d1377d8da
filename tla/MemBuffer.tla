------------------------------- MODULE MemBuffer -------------------------------
(****************************************************************************)
(* One memory buffer of the Level Zero v2 adapter (v2/memory.cpp): where    *)
(* its data is, and how it moves between the devices and the host.          *)
(*                                                                          *)
(* A discrete buffer has at most one device allocation in use, made on      *)
(* first use; a map copies a region of it to host memory and the unmap      *)
(* copies it back.  An integrated buffer is one host allocation.            *)
(*                                                                          *)
(* Every access is two steps, the test of activeAllocationDevice and the    *)
(* rest, because kernel launches and unmaps do not take the buffer's        *)
(* Mutex.  The copies themselves are ordered by the queues (InOrderQueue)   *)
(* and are done here with the call that appends them.                       *)
(****************************************************************************)
EXTENDS Integers, Sequences, FiniteSetsExt

CONSTANTS
    Threads,
    Devices,
    First,      \* hContext->getDevices()[0]
    NoDevice,
    P2P,        \* <<d, e>>: device d can access the memory of e
    Size,       \* size of the buffer
    Values,     \* what the application writes
    Uses,       \* what it does with a buffer of each origin (see Use)
    Serial,     \* every function is called under the buffer's Mutex
    MaxMaps     \* bound: host allocations made for maps of one buffer

None == "none"
Origins == {"plain", "hostPtr", "nativeHost", "nativeDevice", "integrated"}
Flags == {"read", "write", "invalidate"}

Cells == 0 .. Size - 1
Regions == {r \in [off : Cells, size : 1 .. Size] : r.off + r.size <= Size}
CellsOf(r) == r.off .. r.off + r.size - 1

\* flags the maps use, whether the application writes all of a region that it
\* maps to write only, regions accessed, maps open at once, and whether
\* allocations and copies may fail
Use == [flags : SUBSET SUBSET Flags, fills : BOOLEAN,
        regions : SUBSET Regions, maps : Nat, fails : BOOLEAN]

ASSUME MemBufferAssumption ==
    /\ First \in Devices
    /\ NoDevice \notin Devices
    /\ P2P \subseteq Devices \X Devices
    /\ Size \in Nat \ {0}
    /\ Values \subseteq Nat \ {0}
    /\ DOMAIN Uses \subseteq Origins
    /\ \A o \in DOMAIN Uses : Uses[o] \in Use
    /\ Serial \in BOOLEAN
    /\ MaxMaps \in Nat

\* the uses that the implementation supports: a map reads its region, drops
\* what it holds, or fills it, a buffer without data is not mapped to be
\* dropped, one map of the application's memory at a time, and no offset in
\* an integrated buffer
SupportedUses ==
    \A o \in DOMAIN Uses :
        /\ \A f \in Uses[o].flags :
              f \cap {"read", "invalidate"} # {} \/ (f = {"write"} /\ Uses[o].fills)
        /\ o = "plain" => \A f \in Uses[o].flags : "invalidate" \notin f
        /\ o = "hostPtr" => Uses[o].maps <= 1 /\ ~Uses[o].fails
        /\ o = "integrated" => \A r \in Uses[o].regions : r.off = 0

Junk == 0       \* contents of memory nobody wrote
User == -1      \* what the application's memory holds at the start
Unset == -2     \* history: the application has no expectation

Data == Values \cup {Junk, User}
Memory == [Cells -> Data]
NoMemory == <<>>
Filled(v) == [c \in Cells |-> v]

\* pointers: the application's memory, the maps' host allocations, the host
\* allocation of an integrated buffer, and one that was never mapped
UserPtr == 0
Slots == 1 .. MaxMaps
Direct == -1
Unknown == -2

VARIABLES
    origin,     \* how the buffer was made; None when there is none
    alloc,      \* deviceAllocations, with their contents
    active,     \* activeAllocationDevice
    maps,       \* hostAllocations
    mem,        \* contents of the application's memory and of the slots
    held,       \* slots allocated from the USM pool and not returned
    userFreed,  \* the application's memory was given to the USM pool's free
    mapped,     \* history: the maps the application has open
    logical,    \* history: what the buffer holds as the application sees it
    call        \* the call each thread is in

vars == <<origin, alloc, active, maps, mem, held, userFreed, mapped, logical,
          call>>
bufferVars == <<alloc, active, maps, mem, held, userFreed>>
historyVars == <<mapped, logical>>

Idle == [op |-> "idle"]

Init ==
    /\ origin = None
    /\ alloc = [d \in Devices |-> NoMemory]
    /\ active = NoDevice
    /\ maps = <<>>
    /\ mem = [p \in {UserPtr} \cup Slots |-> Filled(Junk)]
    /\ held = {}
    /\ userFreed = FALSE
    /\ mapped = {}
    /\ logical = Filled(Unset)
    /\ call = [t \in Threads |-> Idle]

------------------------------------------------------------------------------
(* Creation *)

\* the device allocation a new buffer starts with: d is where it is made
Create(o, d, contents, expected) ==
    /\ origin = None
    /\ o \in DOMAIN Uses
    /\ origin' = o
    /\ alloc' = [e \in Devices |-> IF e = d THEN contents ELSE NoMemory]
    /\ active' = d
    /\ mem' = [mem EXCEPT ![UserPtr] = Filled(User)]
    /\ logical' = Filled(expected)
    /\ UNCHANGED <<maps, held, userFreed, mapped, call>>

\* urMemBufferCreate; with a host pointer the data is copied to the first
\* device at once
urMemBufferCreate ==
    \/ Create("plain", NoDevice, NoMemory, Unset)
    \/ Create("hostPtr", First, Filled(User), User)
    \/ Create("integrated", First, Filled(User), User)

\* urMemBufferCreateWithNativeHandle: a host allocation gets a new device
\* allocation, to which nothing is copied, a device allocation is used as it is
urMemBufferCreateWithNativeHandle ==
    \/ Create("nativeHost", First, Filled(Junk), User)
    \/ \E d \in Devices : Create("nativeDevice", d, Filled(User), User)

------------------------------------------------------------------------------
(* Calls *)

\* the functions that lock the buffer's Mutex
Locked == {"read", "write", "map"}

\* memory.hpp wants its functions "always" called under the lock, which is
\* what Serial adds for launches and unmaps
MayStart(op) ==
    /\ op \in Locked => \A t \in Threads : call[t].op \notin Locked
    /\ Serial => IF op \in Locked
                 THEN \A t \in Threads : call[t].op \in Locked \cup {"idle"}
                 ELSE \A t \in Threads : call[t] = Idle

Begin(t, c) ==
    /\ origin # None
    /\ call[t] = Idle
    /\ MayStart(c.op)
    /\ call' = [call EXCEPT ![t] = c]
    /\ UNCHANGED <<origin, bufferVars, historyVars>>

\* the contents of a region mapped with these flags are dropped, or all
\* written before it is unmapped
Fills(f) == f = {"write"} /\ Uses[origin].fills
Discards(f) == "invalidate" \in f \/ Fills(f)

OpenCells == UNION {CellsOf(m) : m \in mapped}

\* getDevicePtr for a copy or a fill (read or write) or a kernel argument
\* (launch), from a queue of device d, finds an allocation or none; the
\* application leaves a mapped region alone
Access(t) ==
    \E op \in {"read", "write", "launch"}, d \in Devices,
       r \in Uses[origin].regions, v \in Values :
        /\ CellsOf(r) \cap OpenCells = {}
        /\ Begin(t, [op |-> op, dev |-> d, region |-> r, value |-> v,
                     fresh |-> active = NoDevice])

Map(t) ==
    \E f \in Uses[origin].flags, r \in Uses[origin].regions :
        /\ Cardinality(mapped) < Uses[origin].maps
        /\ origin \in {"hostPtr", "integrated"} \/ held # Slots
        /\ CellsOf(r) \cap OpenCells = {}
        /\ \A u \in Threads :
              call[u].op \in {"read", "write", "launch"} =>
                  CellsOf(call[u].region) \cap CellsOf(r) = {}
        /\ Begin(t, [op |-> "map", flags |-> f, region |-> r, fresh |-> FALSE])

\* index in hostAllocations of the first descriptor with pointer p, or 0
Find(p) ==
    LET found == {i \in DOMAIN maps : maps[i].ptr = p}
    IN  IF found = {} THEN 0 ELSE Min(found)

\* unmapHostPtr allocates on the first device, unless the region was mapped
\* to be overwritten
Unmap(t) ==
    \/ \E m \in mapped :
          /\ \A u \in Threads : call[u].op = "unmap" => call[u].map # m
          /\ Fills(m.flags) => \A c \in CellsOf(m) : logical[c] # Unset
          /\ Begin(t, [op |-> "unmap", map |-> m, ptr |-> m.ptr,
                       dev |-> First,
                       fresh |-> /\ active = NoDevice
                                 /\ Find(m.ptr) # 0
                                 /\ "invalidate" \notin maps[Find(m.ptr)].flags])
    \/ Begin(t, [op |-> "unmap", ptr |-> Unknown, fresh |-> FALSE,
                 map |-> [ptr |-> Unknown]])

------------------------------------------------------------------------------
(* The rest of a call *)

Done(t) == call' = [call EXCEPT ![t] = Idle]

\* mutant: the buffer moves to the device that asks for it
TargetMoves(t) == call[t].dev

\* allocateOnDevice when the test found no allocation, else the one in use
Target(t) == IF call[t].fresh THEN call[t].dev ELSE active
TargetMemory(t) == IF call[t].fresh THEN Filled(Junk) ELSE alloc[active]

\* getDevicePtr throws when the allocation is out of the device's reach
Reachable(t) ==
    \/ origin = "integrated"
    \/ call[t].dev = Target(t)
    \/ <<call[t].dev, Target(t)>> \in P2P

\* the pointer getDevicePtr or mapHostPtr returns for an offset, as a cell; a
\* kernel gets offset 0 and adds its own
Base(off) == IF origin = "integrated" THEN 0 ELSE off

\* the cells the call writes
Touched(t) ==
    LET r == call[t].region
        first == IF call[t].op = "launch" THEN r.off ELSE Base(r.off)
    IN  IF call[t].op = "read" THEN {} ELSE first .. first + r.size - 1

Overwritten(memory, cells, v) ==
    [c \in Cells |-> IF c \in cells THEN v ELSE memory[c]]

getDevicePtr(t) ==
    /\ call[t].op \in {"read", "write", "launch"}
    /\ Done(t)
    /\ IF Reachable(t)
       THEN /\ alloc' = [alloc EXCEPT ![Target(t)] =
                            Overwritten(TargetMemory(t), Touched(t),
                                        call[t].value)]
            /\ active' = Target(t)
            /\ logical' = IF call[t].op = "read" THEN logical
                          ELSE Overwritten(logical, CellsOf(call[t].region),
                                           call[t].value)
       ELSE UNCHANGED <<alloc, active, logical>>
    /\ UNCHANGED <<origin, maps, mem, held, userFreed, mapped>>

\* mutant: a byte too many is copied
CopiedOutOneMore(p, r) ==
    [i \in 0 .. r.size |-> IF i < r.size THEN alloc[active][r.off + i] ELSE Junk]

\* memory p after a copy of the region r of the active allocation to it
CopiedOut(p, r) ==
    [i \in Cells |-> IF i < r.size THEN alloc[active][r.off + i]
                                   ELSE mem[p][i]]

\* the active allocation after a copy of memory p to the region r
CopiedIn(memory, p, r) ==
    [c \in Cells |-> IF c \in CellsOf(r) THEN mem[p][c - r.off] ELSE memory[c]]

\* the host memory of a new map: mapToPtr if there is one, else allocated
NewMapping(p) ==
    IF origin = "hostPtr" THEN p = UserPtr ELSE p \in Slots \ held

Descriptor(t, p) ==
    [ptr |-> p, off |-> call[t].region.off, size |-> call[t].region.size,
     flags |-> call[t].flags]

\* mutant: the wrong flag is tested
CopiesOnMapForWrite(t) == active # NoDevice /\ "write" \in call[t].flags

CopiesOnMap(t) == active # NoDevice /\ "read" \in call[t].flags

\* the application has its pointer
Mapped(t, p) ==
    /\ mapped' = mapped \cup {Descriptor(t, p)}
    /\ logical' = IF Discards(call[t].flags)
                  THEN Overwritten(logical, CellsOf(call[t].region), Unset)
                  ELSE logical

mapHostPtr(t) ==
    /\ call[t].op = "map"
    /\ Done(t)
    /\ \/ /\ origin # "integrated"
          /\ \E p \in {UserPtr} \cup Slots :
                /\ NewMapping(p)
                /\ held' = held \cup ({p} \cap Slots)
                /\ maps' = Append(maps, Descriptor(t, p))
                /\ mem' = IF CopiesOnMap(t)
                          THEN [mem EXCEPT ![p] =
                                   CopiedOut(p, call[t].region)]
                          ELSE mem
                /\ Mapped(t, p)
       \/ /\ origin = "integrated"
          /\ Mapped(t, Direct)
          /\ UNCHANGED <<held, maps, mem>>
    /\ UNCHANGED <<origin, alloc, active, userFreed>>

\* the copy of mapHostPtr throws: the descriptor stays
mapHostPtrFail(t) ==
    /\ call[t].op = "map" /\ origin # "integrated"
    /\ Uses[origin].fails /\ CopiesOnMap(t)
    /\ \E p \in {UserPtr} \cup Slots :
          /\ NewMapping(p)
          /\ held' = held \cup ({p} \cap Slots)
          /\ maps' = Append(maps, Descriptor(t, p))
    /\ Done(t)
    /\ UNCHANGED <<origin, alloc, active, mem, userFreed, historyVars>>

\* an allocation fails: the call throws and has changed nothing
allocateFail(t) ==
    /\ call[t] # Idle
    /\ Uses[origin].fails
    /\ \/ call[t].fresh
       \/ call[t].op = "map" /\ origin \notin {"hostPtr", "integrated"}
    /\ Done(t)
    /\ UNCHANGED <<origin, bufferVars, historyVars>>

\* the deleter of a host allocation: ownsAlloc is bool(mapToPtr)
Deleted(ps) ==
    /\ userFreed' = (userFreed \/ (origin = "hostPtr" /\ UserPtr \in ps))
    /\ UNCHANGED held

\* mutant: a region mapped to be overwritten is not copied
CopiesOnUnmapUnlessInvalidated(t) ==
    /\ call[t].fresh \/ active # NoDevice
    /\ "invalidate" \notin maps[Find(call[t].ptr)].flags

CopiesOnUnmap(t) == call[t].fresh \/ active # NoDevice

unmapHostPtr(t) ==
    LET i == Find(call[t].ptr) IN
    /\ call[t].op = "unmap"
    /\ Done(t)
    /\ mapped' = mapped \ {call[t].map}
    /\ \/ /\ i # 0
          /\ alloc' = IF CopiesOnUnmap(t)
                      THEN [alloc EXCEPT ![Target(t)] =
                               CopiedIn(TargetMemory(t), maps[i].ptr, maps[i])]
                      ELSE alloc
          /\ active' = Target(t)
          /\ maps' = SubSeq(maps, 1, i - 1) \o SubSeq(maps, i + 1, Len(maps))
          /\ Deleted({maps[i].ptr})
       \/ \* nothing to do, or UR_RESULT_ERROR_INVALID_ARGUMENT
          /\ i = 0
          /\ UNCHANGED <<alloc, active, maps, held, userFreed>>
    /\ UNCHANGED <<origin, mem, logical>>

\* the copy of unmapHostPtr throws: the region stays mapped
unmapHostPtrFail(t) ==
    /\ call[t].op = "unmap"
    /\ Uses[origin].fails
    /\ Find(call[t].ptr) # 0
    /\ CopiesOnUnmap(t)
    /\ alloc' = [alloc EXCEPT ![Target(t)] = TargetMemory(t)]
    /\ active' = Target(t)
    /\ Done(t)
    /\ UNCHANGED <<origin, maps, mem, held, userFreed, historyVars>>

------------------------------------------------------------------------------

\* the application writes to a region it mapped for that
HostWrite(m) ==
    \E i \in 0 .. m.size - 1, v \in Values :
        /\ m.flags \cap {"write", "invalidate"} # {}
        /\ \A t \in Threads : call[t].op = "unmap" => call[t].map # m
        /\ IF m.ptr = Direct
           THEN alloc' = [alloc EXCEPT ![First][i] = v] /\ UNCHANGED mem
           ELSE mem' = [mem EXCEPT ![m.ptr][i] = v] /\ UNCHANGED alloc
        /\ logical' = [logical EXCEPT ![m.off + i] = v]
        /\ UNCHANGED <<origin, active, maps, held, userFreed, mapped, call>>

\* the destructor's copy
WriteBack(p) == IF origin = "nativeHost" THEN alloc[active] ELSE mem[p]

\* the last urMemRelease: the destructor writes back, then the members go
urMemRelease ==
    /\ origin # None
    /\ mapped = {}
    /\ \A t \in Threads : call[t] = Idle
    /\ origin' = None
    /\ mem' = [p \in DOMAIN mem |->
                  IF p = UserPtr THEN WriteBack(p) ELSE Filled(Junk)]
    /\ alloc' = [d \in Devices |-> NoMemory]
    /\ active' = NoDevice
    /\ maps' = <<>>
    /\ held' = {}
    /\ userFreed' = FALSE
    /\ logical' = Filled(Unset)
    /\ UNCHANGED <<mapped, call>>

Next ==
    \/ urMemBufferCreate \/ urMemBufferCreateWithNativeHandle
    \/ \E t \in Threads :
          \/ origin # None /\ (Access(t) \/ Map(t) \/ Unmap(t))
          \/ getDevicePtr(t) \/ mapHostPtr(t) \/ unmapHostPtr(t)
          \/ mapHostPtrFail(t) \/ unmapHostPtrFail(t) \/ allocateFail(t)
    \/ \E m \in mapped : HostWrite(m)
    \/ urMemRelease

Spec == Init /\ [][Next]_vars

------------------------------------------------------------------------------
(* Correctness *)

\* Every member of the buffer has its type.
TypeOK ==
    /\ origin \in Origins \cup {None}
    /\ alloc \in [Devices -> Memory \cup {NoMemory}]
    /\ active \in Devices \cup {NoDevice}
    /\ \A i \in DOMAIN maps :
          maps[i] \in [ptr : {UserPtr} \cup Slots, off : Cells,
                       size : 1 .. Size, flags : SUBSET Flags]
    /\ mem \in [{UserPtr} \cup Slots -> Memory]
    /\ held \subseteq Slots
    /\ userFreed \in BOOLEAN
    /\ logical \in [Cells -> Data \cup {Unset}]
    /\ \A t \in Threads : call[t].op \in Locked \cup {"launch", "unmap", "idle"}

\* The application expects something of cell c.  What a native host allocation
\* held at the creation of its buffer is not expected here: the buffer never
\* gets it, which WrittenBack is about.
Expected(c) ==
    /\ logical[c] # Unset
    /\ ~(origin = "nativeHost" /\ logical[c] = User)

\* byte i of what enqueueMemBufferRead of the region r finds
ReadBack(r, i) ==
    IF active = NoDevice THEN Junk ELSE alloc[active][Base(r.off) + i]

\* A read of a region that is not mapped finds what the application last put
\* there, through a command of any device or through a map: getDevicePtr,
\* mapHostPtr and unmapHostPtr lose nothing (memory.cpp:259-359).  This is of
\* the data Expected says, so not of what a native host allocation held.
LatestData ==
    origin # None =>
        \A r \in Uses[origin].regions : \A i \in 0 .. r.size - 1 :
            /\ CellsOf(r) \cap OpenCells = {}
            /\ Expected(r.off + i)
            => ReadBack(r, i) = logical[r.off + i]

MappedByte(m, i) == IF m.ptr = Direct THEN alloc[First][i] ELSE mem[m.ptr][i]

\* A region mapped for reading shows the buffer's contents through the
\* pointer, and so it does after writes of the host (memory.cpp:320-325).
MappedData ==
    \A m \in mapped :
        "read" \in m.flags =>
            \A i \in 0 .. m.size - 1 :
                Expected(m.off + i) =>
                    MappedByte(m, i) = logical[m.off + i]

\* When the buffer made from a native host allocation is released, the
\* allocation holds the buffer's data, which is what it held before wherever
\* nothing was written (memory.cpp:585-586 and 243-250).
WrittenBack ==
    [][origin = "nativeHost" /\ origin' = None =>
          \A c \in Cells : logical[c] # Unset => mem'[UserPtr][c] = logical[c]]_vars

\* The allocation in use never moves and never goes while the buffer lives:
\* pointers handed to commands and kernel arguments stay good, which
\* prepareForSubmission relies on when it forgets its pending allocations
\* (memory.cpp:266-293, kernel.cpp:290-305).
AllocationStays ==
    [][active # NoDevice /\ origin' = origin =>
          active' = active /\ alloc'[active] # NoMemory]_vars

\* allocateOnDevice asserts that the device has no allocation yet
\* (memory.cpp:175).
AllocationAssertion ==
    \A t \in Threads :
        call[t] # Idle /\ call[t].fresh => alloc[call[t].dev] = NoMemory

\* The USM pool's free gets only memory mapHostPtr took from the pool, never
\* the application's (memory.cpp:302-316).
UserMemoryKept == ~userFreed
===============================================================================

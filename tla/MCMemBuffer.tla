---------------------------- MODULE MCMemBuffer ----------------------------
(* MemBuffer for TLC. *)
EXTENDS MemBuffer, TLC

Symmetry == Permutations(Threads)

Whole == {r \in Regions : r.size = Size}

Reading == {"read"}
Writing == {"write"}
ReadWrite == {"read", "write"}
Dropping == {"invalidate"}

UseOf(flags, regions, n, fails) ==
    [flags |-> flags, fills |-> TRUE, regions |-> regions, maps |-> n,
     fails |-> fails]

\* every origin, used in the ways its implementation supports
Supported ==
    [plain        |-> UseOf({Reading, Writing, ReadWrite}, Regions, 2, TRUE),
     hostPtr      |-> UseOf({Reading, Writing, ReadWrite, Dropping}, Regions, 1,
                            FALSE),
     nativeHost   |-> UseOf({Writing, ReadWrite}, Regions, 1, TRUE),
     nativeDevice |-> UseOf({ReadWrite, Dropping}, Regions, 1, TRUE),
     integrated   |-> UseOf({Writing, ReadWrite}, Whole, 1, FALSE)]

ASSUME Uses = Supported => SupportedUses

\* a buffer made from a native host allocation
NativeHost == [nativeHost |-> Supported.nativeHost]

\* the uses of the deviations that the README lists
PlainUse  == [plain |-> UseOf({}, Whole, 0, FALSE)]
DropUse   == [plain |-> UseOf({Dropping}, Whole, 1, FALSE)]
OffsetUse == [integrated |-> UseOf({ReadWrite}, Regions, 1, FALSE)]
SharedUse == [hostPtr |-> UseOf({ReadWrite}, Regions, 2, FALSE)]
OwnerUse  == [hostPtr |-> UseOf({ReadWrite}, Whole, 1, FALSE)]
PartUse   == [hostPtr |-> [UseOf({Writing}, Whole, 1, FALSE)
                           EXCEPT !.fills = FALSE]]

\* the memory of a device can be accessed from the first device only
OneWay == Devices \X {d \in Devices : d # First}
=============================================================================

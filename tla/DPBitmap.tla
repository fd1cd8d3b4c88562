------------------------------ MODULE DPBitmap ------------------------------
(***************************************************************************)
(* The bitmap of redirected sectors (DP/DPBitmap.c): an array of pointers  *)
(* to regions, each a block of bytes allocated when a bit of it is first   *)
(* to be set.  A position is a sector number: every caller that marks or   *)
(* merges is checked to be aligned to sectorSize, which divides out.       *)
(* DPVolume uses the abstraction, SectorMarks.                             *)
(***************************************************************************)
EXTENDS Naturals, FiniteSets

CONSTANTS
    RegionSize, \* bytes in a region (25600 in the driver)
    Total,      \* sectors of the volume
    Offsets,    \* where ranges begin
    Lengths,    \* how long they are
    Null,       \* the pointer of a region not allocated
    MaxSets     \* bound on the calls of DPBitmapSet

BitmapAssumption ==
    /\ RegionSize \in Nat \ {0}
    /\ \A block \in SUBSET ((0 .. (RegionSize - 1)) \X (0 .. 7)) : block # Null
    /\ Total \in Nat \ {0}
    /\ Offsets \subseteq Nat
    /\ Lengths \subseteq Nat \ {0}
    /\ MaxSets \in Nat

VARIABLES
    Bitmap,     \* bitmap->Bitmap: each region Null or its set of <<byte, bit>>
    status,     \* what the last DPBitmapSet returned
    sets        \* calls of DPBitmapSet so far

vars == <<Bitmap, status, sets>>

-----------------------------------------------------------------------------
byteSize        == 8
regionReferSize == RegionSize * byteSize

regionNumber    == Total \div regionReferSize + 1
bitmapReferSize == regionReferSize * regionNumber

Requests == {q \in Offsets \X Lengths : q[1] + q[2] <= Total}

\* Where the bit of sector i is.
Region(i)  == i \div regionReferSize
ByteOf(i)  == (i % regionReferSize) \div byteSize
BitPos(i)  == (i % regionReferSize) % byteSize
Bit(i)     == <<ByteOf(i), BitPos(i)>>

IsSet(i) == Bitmap[Region(i)] # Null /\ Bit(i) \in Bitmap[Region(i)]

-----------------------------------------------------------------------------
(* DPBitmapSet first allocates: every region from that of the first sector *)
(* to that of the sector after the last.                                   *)
Touched(o, l) == Region(o) .. Region(o + l)

\* Allocation stops at the first region k it fails for; Null regions below
\* it have been allocated and zeroed.
Allocated(o, l, k) ==
    [g \in DOMAIN Bitmap |->
        IF g \in Touched(o, l) /\ g < k /\ Bitmap[g] = Null THEN {} ELSE Bitmap[g]]

(* Then it sets bits: one by one upwards to the first byte boundary, one   *)
(* by one downwards to the last, and whole bytes, region by region, in     *)
(* between.  The two loops stop at:                                        *)
Smallest(S) == CHOOSE i \in S : \A j \in S : i <= j
Largest(S)  == CHOOSE i \in S : \A j \in S : j <= i

setBegin(o, l) == Smallest({i \in o .. (o + l - 1) : BitPos(i) = 0} \cup {o + l})
setEnd(o, l)   == Largest({i \in o .. (o + l - 1) : BitPos(i) = 7})
NoEnd(o, l)    == \A i \in o .. (o + l - 1) : BitPos(i) # 7

HeadBits(o, l) == {<<Region(i), Bit(i)>> : i \in o .. (setBegin(o, l) - 1)}
TailBits(o, l) ==
    IF setBegin(o, l) = o + l THEN {}
    ELSE {<<Region(i), Bit(i)>> :
             i \in (IF NoEnd(o, l) THEN o ELSE setEnd(o, l) + 1) .. (o + l - 1)}

\* The bytes memset fills in region g, on the way from sector b to sector e.
Bytes(b, e, g) ==
    (IF g = Region(b) THEN ByteOf(b) ELSE 0)
      .. (IF g = Region(e) THEN ByteOf(e) ELSE RegionSize - 1)

\* In the last region memset starts where i stands: at the region's first
\* byte if earlier regions were filled.
ByteBits(o, l) ==
    LET b == setBegin(o, l)
        e == setEnd(o, l)
    IN  IF b = o + l \/ NoEnd(o, l) \/ e < b THEN {}
        ELSE UNION {{g} \X (Bytes(b, e, g) \X (0 .. 7)) : g \in Region(b) .. Region(e)}

SetBits(o, l) == HeadBits(o, l) \cup TailBits(o, l) \cup ByteBits(o, l)

-----------------------------------------------------------------------------
Called ==
    /\ sets < MaxSets
    /\ sets' = sets + 1

DPBitmapSet(o, l) ==
    /\ Called
    /\ LET B == Allocated(o, l, Region(o + l) + 1) IN
       Bitmap' = [g \in DOMAIN B |->
                     IF B[g] = Null THEN Null
                     ELSE B[g] \cup {q[2] : q \in {p \in SetBits(o, l) : p[1] = g}}]
    /\ status' = "success"

\* Mutant: bits are set region by region, before the next one is allocated.
DPBitmapSetFails_Partial(o, l) ==
    /\ Called
    /\ \E k \in Touched(o, l) :
          /\ Bitmap[k] = Null
          /\ LET B == Allocated(o, l, k) IN
             Bitmap' = [g \in DOMAIN B |->
                           IF B[g] = Null THEN Null
                           ELSE B[g] \cup {q[2] : q \in {p \in SetBits(o, l) : p[1] = g}}]
    /\ status' = "insufficient"

\* The pool has no block for region k.
DPBitmapSetFails(o, l) ==
    /\ Called
    /\ \E k \in Touched(o, l) : Bitmap[k] = Null /\ Bitmap' = Allocated(o, l, k)
    /\ status' = "insufficient"

\* DPBitmapInit
Init ==
    /\ Bitmap = [g \in 0 .. (regionNumber - 1) |-> Null]
    /\ status = "success"
    /\ sets = 0

Next == \E q \in Requests : DPBitmapSet(q[1], q[2]) \/ DPBitmapSetFails(q[1], q[2])

Spec == Init /\ [][Next]_vars

-----------------------------------------------------------------------------

(* DPBitmapTest: the flags of the sectors decide the answer.               *)
Flags(o, l) == {IF IsSet(i) THEN 2 ELSE 1 : i \in o .. (o + l - 1)}

DPBitmapTest(o, l) ==
    IF o + l > bitmapReferSize THEN "UNKNOW"
    ELSE CASE Flags(o, l) = {2}    -> "SET"
           [] Flags(o, l) = {1}    -> "CLEAR"
           [] Flags(o, l) = {1, 2} -> "BLEND"
           [] OTHER                -> "UNKNOW"

\* DPBitmapGet: the sectors it copies from bufIn over bufInOut.
DPBitmapGet(o, l) == {i \in o .. (o + l - 1) : IsSet(i)}

-----------------------------------------------------------------------------
marked == {i \in 0 .. (Total - 1) : IsSet(i)}

\* Head bits, tail bits and whole bytes, across byte and region boundaries,
\* are together exactly the range asked for, and a failed allocation marks
\* nothing: the bitmap is the set of marks DPVolume takes it for.
Marks == INSTANCE SectorMarks
ImplementsMarks == Marks!Spec

\* DPBitmapTest answers for a range what the sectors' marks say, also where
\* a region was never allocated; DPBitmapGet merges after BLEND only.
TestMatchesMarks ==
    \A q \in Requests :
        LET R == q[1] .. (q[1] + q[2] - 1)
            t == DPBitmapTest(q[1], q[2])
        IN  /\ t = "SET"   <=> R \subseteq marked
            /\ t = "CLEAR" <=> R \cap marked = {}
            /\ t = "BLEND" => DPBitmapGet(q[1], q[2]) \notin {{}, R}

\* No request within the volume makes DPBitmapSet index the array of region
\* pointers beyond regionNumber, which it does not test: the region after a
\* range that ends the volume exists too.
RegionsInBounds == \A q \in Requests : Touched(q[1], q[2]) \subseteq DOMAIN Bitmap

\* The answer of DPBitmapTest is that of the sectors marked, and no range
\* leads out of the regions.
MarksExact == RegionsInBounds /\ TestMatchesMarks

===============================================================================

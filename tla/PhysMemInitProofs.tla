--------------------------- MODULE PhysMemInitProofs ---------------------------
(***************************************************************************)
(* The initialisation of the frame allocator, for every page size, stack   *)
(* and kernel, and every memory map of a plain machine (PlainMap): the     *)
(* frames it finds are memory behind its own structures, its bitmap is     *)
(* large enough, and it leaves a state that PhysMemHybrid starts from.     *)
(*                                                                         *)
(* The invariant counts bytes: s[i] are those of the first i regions.  A   *)
(* region of len bytes holds c free frames only if it also has room for the*)
(* frames below the structures' end (Within), so that the frames counted in*)
(* all regions, and with them the ones the stack is filled with, are fewer *)
(* than the bits of the bitmap.                                            *)
(***************************************************************************)
EXTENDS PhysMemInit, Recursion

(* The kernel and the stack fill as many pages as a byte has bits.  The    *)
(* kernel begins at 1 MB, page 256.                                        *)
StructuresAreLarge == ByteBits * PageSize <= KEnd + HeaderSize + MaxStack * ElementSize

Pages(n) == n * PageSize
K == StructuresEnd \div PageSize

(* c frames behind the first K fit in x bytes that begin at address 0.     *)
Within(c, k, x) == c = 0 \/ Pages(c + k) <= x

Sums(m, s) ==
    /\ s \in [0 .. Len(m) -> Nat] /\ s[0] = 0
    /\ \A i \in 1 .. Len(m) : s[i] = s[i - 1] + m[i].len

Start == IF mbfree < MaxStack THEN mbfree ELSE MaxStack

ITypes ==
    /\ pc \in {"sum", "scan", "region", "fill", "done"}
    /\ mmap \in Maps /\ entry \in 1 .. Len(mmap) + 1
    /\ total \in Nat /\ bytes \in Nat /\ clear \in SUBSET Nat
    /\ a \in Nat /\ mbfree \in Nat /\ mbfree < Word /\ e \in Nat /\ stack \in Seq(Nat)

Summed(s) ==
    /\ pc = "sum" => total = s[entry - 1]
    /\ pc # "sum" => total = s[Len(mmap)] /\ bytes = (total \div PageSize) \div ByteBits

(* The frames counted in the region up to address x.                       *)
CountedTo(c, x, len) == c = 0 \/ (Pages(c + K + 1) <= x /\ x < len + PageSize)

Counted(s) ==
    /\ pc = "scan" => Within(mbfree, K, s[entry - 1])
    /\ pc = "region" =>
         /\ entry <= Len(mmap) /\ mmap[entry].available
         /\ \E c0, c \in Nat : /\ mbfree <= c0 + c
                               /\ Within(c0, K, s[entry - 1])
                               /\ CountedTo(c, a, mmap[entry].len)
         /\ \E j \in Nat : a = Pages(j) /\ mmap[entry].addr <= a
    /\ pc \in {"fill", "done"} => Within(mbfree, K, total)

Good(f) == IsRAM(f) /\ StructuresEnd <= Pages(f) /\ Pages(f) < total
FoundGood == pc # "sum" => \A f \in clear \cup OnStack : Good(f)

Descends(s, last) ==
    /\ \A i, j \in 1 .. Len(s) : i < j => s[i] > s[j]
    /\ \A i \in 1 .. Len(s) : s[i] + i <= last + 1

Stacked ==
    /\ pc \in {"sum", "scan", "region"} => stack = <<>>
    /\ pc = "fill" =>
         /\ Len(stack) < MaxStack /\ e + Len(stack) <= Start
         /\ \A i \in 1 .. Len(stack) : e < stack[i]
         /\ \A f \in clear : f <= e \/ Start < f
    /\ pc = "done" => Len(stack) <= MaxStack /\ \A f \in clear : Start < f
    /\ pc \in {"fill", "done"} => Descends(stack, Start)

Known(s) ==
    ITypes /\ Sums(mmap, s) /\ Summed(s) /\ Counted(s) /\ FoundGood /\ Stacked

InitInv == \E s : Known(s)
-----------------------------------------------------------------------------
LEMMA Sizes ==
    /\ PageSize \in Nat /\ PageSize > 0 /\ Word \in Nat /\ Word > 0
    /\ ByteBits \in Nat /\ ByteBits > 0 /\ MaxStack \in Nat /\ MaxStack > 0
    /\ ElementSize \in Nat /\ ElementSize > 0 /\ KEnd \in Nat /\ HeaderSize \in Nat
BY InitAssumption

LEMMA PagesAre ==
    ASSUME NEW n \in Nat
    PROVE  Pages(n) \in Nat /\ n <= Pages(n)
  BY Sizes DEF Pages

LEMMA PagesAdd ==
    ASSUME NEW n \in Nat, NEW m \in Nat
    PROVE  Pages(n + m) = Pages(n) + Pages(m)
  BY Sizes DEF Pages

LEMMA PagesNext ==
    ASSUME NEW n \in Nat
    PROVE  Pages(n + 1) = Pages(n) + PageSize
  BY Sizes DEF Pages

LEMMA PagesOrder ==
    ASSUME NEW n \in Nat, NEW m \in Nat
    PROVE  /\ n <= m => Pages(n) <= Pages(m)
           /\ n < m => Pages(n) + PageSize <= Pages(m)
<1>0. Pages(n) \in Nat /\ Pages(m) \in Nat /\ PageSize \in Nat
  BY PagesAre, Sizes
<1>1. ASSUME NEW d \in Nat, m = n + d PROVE Pages(n) <= Pages(m)
  <2>1. Pages(m) = Pages(n) + Pages(d) /\ Pages(d) \in Nat
    BY <1>1, PagesAdd, PagesAre
  <2> QED
    BY <2>1, <1>0
<1>2. ASSUME NEW d \in Nat, m = (n + 1) + d PROVE Pages(n) + PageSize <= Pages(m)
  <2>1. Pages(m) = Pages(n + 1) + Pages(d) /\ Pages(d) \in Nat
    BY <1>2, PagesAdd, PagesAre
  <2>2. Pages(n + 1) = Pages(n) + PageSize
    BY PagesNext
  <2> QED
    BY <2>1, <2>2, <1>0
<1>3. n <= m => m - n \in Nat /\ m = n + (m - n)
  OBVIOUS
<1>4. n < m => m - n - 1 \in Nat /\ m = (n + 1) + (m - n - 1)
  OBVIOUS
<1>5. n <= m => Pages(n) <= Pages(m)
  BY <1>1, <1>3
<1>6. n < m => Pages(n) + PageSize <= Pages(m)
  BY <1>2, <1>4
<1> QED
  BY <1>5, <1>6

LEMMA PagesIn ==
    ASSUME NEW x \in Nat
    PROVE  /\ x \div PageSize \in Nat
           /\ Pages(x \div PageSize) <= x /\ x < Pages(x \div PageSize) + PageSize
  BY Sizes DEF Pages

LEMMA PagesDiv ==
    ASSUME NEW n \in Nat
    PROVE  Pages(n) \div PageSize = n
<1>1. Pages(n) \in Nat
  BY PagesAre
<1>2. Pages(n) \div PageSize \in Nat
  BY <1>1, PagesIn
<1> DEFINE q == Pages(n) \div PageSize
<1>3. Pages(q) <= Pages(n) /\ Pages(n) < Pages(q) + PageSize
  BY <1>1, PagesIn
<1> HIDE DEF q
<1>4. q \in Nat
  BY <1>2 DEF q
<1>5. ~(q < n) /\ ~(n < q)
  BY <1>3, <1>4, PagesOrder, PagesAre, Sizes
<1> QED
  BY <1>4, <1>5 DEF q

LEMMA StructuresAre ==
    ASSUME bytes \in Nat
    PROVE  /\ StructuresEnd \in Nat /\ KEnd <= StructuresEnd /\ StructuresEnd > 0
           /\ K \in Nat /\ NewKEnd = Pages(K)
           /\ Pages(K) <= StructuresEnd /\ StructuresEnd < Pages(K) + PageSize
<1>1. StructuresEnd \in Nat /\ KEnd <= StructuresEnd /\ StructuresEnd > 0
  <2>1. MaxStack * ElementSize \in Nat
    BY Sizes
  <2> QED
    BY <2>1, Sizes DEF StructuresEnd
<1>2. NewKEnd = Pages(K)
  BY DEF NewKEnd, Pages, K
<1> QED
  BY <1>1, <1>2, PagesIn DEF K

LEMMA WithinLess ==
    ASSUME NEW c \in Nat, NEW d \in Nat, NEW k \in Nat, NEW x \in Nat,
           c <= d, Within(d, k, x)
    PROVE  Within(c, k, x)
<1>1. c # 0 => Pages(c + k) <= Pages(d + k) /\ Pages(d + k) <= x
  BY PagesOrder DEF Within
<1> QED
  BY <1>1, PagesAre DEF Within

(* Two stretches of memory hold at most what both together hold.           *)
LEMMA WithinBoth ==
    ASSUME NEW c \in Nat, NEW d \in Nat, NEW k \in Nat, NEW x \in Nat, NEW y \in Nat,
           Within(c, k, x), Within(d, k, y)
    PROVE  Within(c + d, k, x + y)
<1>1. CASE c = 0
  BY <1>1, PagesAre DEF Within
<1>2. CASE d = 0
  BY <1>2, PagesAre DEF Within
<1>3. CASE c # 0 /\ d # 0
  <2>1. Pages(c + k) <= x /\ Pages(d + k) <= y
    BY <1>3 DEF Within
  <2>2. Pages((c + d) + k) <= Pages((c + k) + (d + k))
    BY PagesOrder
  <2>3. Pages((c + k) + (d + k)) = Pages(c + k) + Pages(d + k)
    <3>1. c + k \in Nat /\ d + k \in Nat
      OBVIOUS
    <3> QED
      BY <3>1, PagesAdd
  <2>4. Pages((c + d) + k) \in Nat /\ Pages(c + k) \in Nat /\ Pages(d + k) \in Nat
    BY PagesAre
  <2> QED
    BY <2>1, <2>2, <2>3, <2>4 DEF Within
<1> QED
  BY <1>1, <1>2, <1>3

LEMMA Regions ==
    ASSUME NEW m, PlainMap(m)
    PROVE  /\ Len(m) \in Nat /\ DOMAIN m = 1 .. Len(m)
           /\ \A i \in 1 .. Len(m) : m[i].len \in Nat /\ m[i].addr \in Nat
<1> DEFINE R == [addr : Nat, len : Nat, available : BOOLEAN]
<1>1. m \in Seq(R)
  BY DEF PlainMap
<1>2. \A r \in R : r.len \in Nat /\ r.addr \in Nat
  OBVIOUS
<1> HIDE DEF R
<1>3. \A i \in 1 .. Len(m) : m[i] \in R
  BY <1>1
<1> QED
  BY <1>1, <1>2, <1>3

LEMMA SumsExist ==
    ASSUME NEW m, PlainMap(m)
    PROVE  \E s : Sums(m, s)
<1> DEFINE n == Len(m)
           G == [z \in Nat \X (1 .. n) |-> z[1] + m[z[2]].len]
<1>1. n \in Nat /\ \A i \in 1 .. n : m[i].len \in Nat
  BY Regions
<1>2. G \in [Nat \X (1 .. n) -> Nat]
  BY <1>1
<1>3. PICK s \in [0 .. n -> Nat] : IsRun(s, n, 0, G)
  <2> HIDE DEF G, n
  <2> QED
    BY <1>1, <1>2, RunExists
<1>4. ASSUME NEW i \in 1 .. n PROVE G[<<s[i - 1], i>>] = s[i - 1] + m[i].len
  <2>1. i - 1 \in 0 .. n
    BY <1>1
  <2>2. s[i - 1] \in Nat
    BY <1>3, <2>1
  <2> QED
    BY <2>2
<1> HIDE DEF G
<1>5. \A i \in 0 .. n : s[i] = IF i = 0 THEN 0 ELSE G[<<s[i - 1], i>>]
  BY <1>3 DEF IsRun
<1>6. s[0] = 0
  <2> HIDE DEF n
  <2>1. 0 \in 0 .. n
    BY <1>1
  <2> QED
    BY <1>5, <2>1
<1>7. ASSUME NEW i \in 1 .. n PROVE s[i] = s[i - 1] + m[i].len
  <2>1. i \in 0 .. n /\ i # 0
    BY <1>1
  <2> HIDE DEF n
  <2> QED
    BY <1>4, <1>5, <2>1
<1> QED
  BY <1>3, <1>6, <1>7 DEF Sums

LEMMA SumsAre ==
    ASSUME NEW m, PlainMap(m), NEW s, Sums(m, s), NEW i \in 1 .. Len(m)
    PROVE  /\ i \in Nat /\ i - 1 \in 0 .. Len(m) /\ s[i - 1] \in Nat /\ s[i] \in Nat
           /\ m[i].len \in Nat /\ s[i] = s[i - 1] + m[i].len
           /\ s[Len(m)] \in Nat /\ m[i].len <= s[Len(m)]
<1> DEFINE n == Len(m)
<1>1. n \in Nat /\ i \in Nat /\ i - 1 \in 0 .. n /\ i \in 0 .. n /\ n \in 0 .. n
  <2>1. n \in Nat
    BY Regions
  <2> QED
    BY <2>1
<1>2. \A j \in 0 .. n : s[j] \in Nat
  BY DEF Sums
<1>3. \A j \in 1 .. n : m[j].len \in Nat /\ s[j] = s[j - 1] + m[j].len
  BY Regions DEF Sums
<1> DEFINE S == {j \in 0 .. n : i <= j => m[i].len <= s[j]}
<1>4. 0 \in S
  BY <1>1
<1>5. ASSUME NEW j \in 1 .. n, j - 1 \in S PROVE j \in S
  <2>1. j - 1 \in 0 .. n /\ j \in 0 .. n
    BY <1>1
  <2>2. s[j - 1] \in Nat /\ s[j] \in Nat /\ m[j].len \in Nat /\ s[j] = s[j - 1] + m[j].len
    BY <1>2, <1>3, <2>1
  <2>3. CASE i <= j - 1
    BY <1>3, <1>5, <2>1, <2>2, <2>3
  <2>4. CASE i = j
    BY <2>1, <2>2, <2>4
  <2> QED
    BY <1>1, <2>1, <2>3, <2>4
<1>6. n \in S
  <2> HIDE DEF S, n
  <2>1. 0 .. n \subseteq S
    BY <1>1, <1>4, <1>5, UpTo
  <2> QED
    BY <1>1, <2>1
<1> QED
  BY <1>1, <1>2, <1>3, <1>6

LEMMA WithinMore ==
    ASSUME NEW c \in Nat, NEW k \in Nat, NEW x \in Nat, NEW y \in Nat,
           x <= y, Within(c, k, x)
    PROVE  Within(c, k, y)
<1>1. Pages(c + k) \in Nat
  BY PagesAre
<1> QED
  BY <1>1 DEF Within

LEMMA NothingWithin ==
    ASSUME NEW k, NEW x
    PROVE  Within(0, k, x)
  BY DEF Within

(* What the invariant says of an entry of the map in its region.           *)
LEMMA EntryIs ==
    ASSUME PlainMap(mmap), NEW s, Known(s), ~MapRead
    PROVE  /\ PlainMap(mmap) /\ entry \in 1 .. Len(mmap) /\ entry + 1 \in 1 .. Len(mmap) + 1
           /\ entry \in Nat /\ entry - 1 \in 0 .. Len(mmap)
           /\ s[entry - 1] \in Nat /\ s[entry] \in Nat /\ mmap[entry].len \in Nat
           /\ mmap[entry].addr \in Nat /\ s[entry] = s[entry - 1] + mmap[entry].len
           /\ (entry + 1) - 1 = entry
           /\ s[Len(mmap)] \in Nat /\ mmap[entry].len <= s[Len(mmap)]
<1>1. PlainMap(mmap) /\ entry \in 1 .. Len(mmap) + 1 /\ Sums(mmap, s) /\ Len(mmap) \in Nat
  <2>1. PlainMap(mmap)
    OBVIOUS
  <2> QED
    BY <2>1, Regions DEF Known, ITypes
<1>2. entry \in 1 .. Len(mmap)
  BY <1>1 DEF MapRead
<1>3. entry \in Nat /\ entry - 1 \in 0 .. Len(mmap) /\ entry + 1 \in 1 .. Len(mmap) + 1 /\ (entry + 1) - 1 = entry
  BY <1>1, <1>2
<1>4. mmap[entry].addr \in Nat
  BY <1>1, <1>2, Regions
<1> QED
  BY <1>1, <1>2, <1>3, <1>4, SumsAre

LEMMA Initially ==
    ASSUME PlainMap(mmap), Init
    PROVE  InitInv
<1>1. PlainMap(mmap)
  OBVIOUS
<1>2. PICK s : Sums(mmap, s)
  BY <1>1, SumsExist
<1>3. ITypes
  <2>1. Len(mmap) \in Nat
    BY <1>1, Regions
  <2> QED
    BY <2>1, Sizes DEF Init, ITypes
<1>4. Summed(s)
  BY <1>2 DEF Init, Summed, Sums
<1>5. Counted(s) /\ FoundGood /\ Stacked
  BY DEF Init, Counted, FoundGood, Stacked
<1> QED
  BY <1>2, <1>3, <1>4, <1>5 DEF InitInv, Known

LEMMA SumEntryKeeps ==
    ASSUME PlainMap(mmap), NEW s, Known(s), SumEntry
    PROVE  Known(s)'
<1> USE DEF SumEntry
<1>1. ~MapRead
  OBVIOUS
<1>2. ITypes'
  BY <1>1, EntryIs DEF Known, ITypes
<1>3. Sums(mmap, s)'
  BY DEF Known, Sums
<1>4. Summed(s)'
  <2>1. total = s[entry - 1]
    BY DEF Known, Summed
  <2>2. total' = s[entry] /\ entry' - 1 = entry
    BY <1>1, <2>1, EntryIs
  <2> QED
    BY <2>2 DEF Summed
<1>5. Counted(s)' /\ FoundGood' /\ Stacked'
  BY DEF Known, Counted, FoundGood, Stacked
<1> QED
  BY <1>2, <1>3, <1>4, <1>5 DEF Known

LEMMA LayOutKeeps ==
    ASSUME PlainMap(mmap), NEW s, Known(s), LayOut
    PROVE  Known(s)'
<1> USE DEF LayOut
<1>1. PlainMap(mmap) /\ Len(mmap) \in Nat /\ entry = Len(mmap) + 1 /\ total = s[entry - 1]
  <2>1. PlainMap(mmap)
    OBVIOUS
  <2>2. Len(mmap) \in Nat
    BY <2>1, Regions
  <2> QED
    BY <2>1, <2>2 DEF Known, ITypes, Summed, MapRead
<1>2. total = s[Len(mmap)]
  BY <1>1
<1>3. ITypes'
  <2>1. total \div PageSize \in Nat
    BY PagesIn DEF Known, ITypes
  <2>2. (total \div PageSize) \div ByteBits \in Nat
    BY <2>1, Sizes
  <2> QED
    BY <1>1, <2>2, Sizes DEF Known, ITypes
<1>4. Sums(mmap, s)' /\ Summed(s)'
  BY <1>2 DEF Known, Sums, Summed
<1>5. Counted(s)'
  BY NothingWithin DEF Counted
<1>6. FoundGood' /\ Stacked'
  BY DEF Known, FoundGood, Stacked, OnStack
<1> QED
  BY <1>3, <1>4, <1>5, <1>6 DEF Known

(* Where addresses are multiples of the page size.                         *)
LEMMA AtPage ==
    ASSUME NEW x \in Nat, x % PageSize = 0
    PROVE  \E j \in Nat : x = Pages(j)
<1>1. x = PageSize * (x \div PageSize) + (x % PageSize)
  BY Sizes
<1>2. x \div PageSize \in Nat
  BY PagesIn
<1>3. x = Pages(x \div PageSize)
  BY <1>1, <1>2, Sizes DEF Pages
<1> QED
  BY <1>2, <1>3

LEMMA EnterRegionKeeps ==
    ASSUME PlainMap(mmap), NEW s, Known(s), EnterRegion
    PROVE  Known(s)'
<1> USE DEF EnterRegion
<1>1. ~MapRead
  OBVIOUS
<1> DEFINE r == mmap[entry]
<1>2. r.addr \in Nat /\ r.addr % PageSize = 0 /\ r.addr < Word
  BY <1>1, EntryIs, Regions DEF PlainMap
<1>3. a' = r.addr
  BY <1>2, Sizes
<1>4. ITypes'
  BY <1>2, <1>3 DEF Known, ITypes
<1>5. Sums(mmap, s)' /\ Summed(s)' /\ Stacked'
  BY DEF Known, Sums, Summed, Stacked
<1>6. FoundGood'
  BY DEF Known, FoundGood, OnStack, Good, IsRAM, StructuresEnd
<1>7. Counted(s)'
  <2>1. Within(mbfree, K, s[entry - 1])
    BY DEF Known, Counted
  <2>2. K' = K
    BY DEF K, StructuresEnd
  <2>3. entry <= Len(mmap)
    BY <1>1, EntryIs
  <2>4. CountedTo(0, r.addr, r.len)
    BY DEF CountedTo
  <2>5. \E j \in Nat : r.addr = Pages(j) /\ r.addr <= r.addr
    BY <1>2, AtPage
  <2>6. mbfree \in Nat /\ 0 \in Nat /\ mbfree <= mbfree + 0
    BY DEF Known, ITypes
  <2>7. CountedTo(0, r.addr, r.len)'
    BY DEF CountedTo
  <2> QED
    BY <1>3, <2>1, <2>2, <2>3, <2>5, <2>6, <2>7 DEF Counted
<1> QED
  BY <1>4, <1>5, <1>6, <1>7 DEF Known

LEMMA SkipRegionKeeps ==
    ASSUME PlainMap(mmap), NEW s, Known(s), SkipRegion
    PROVE  Known(s)'
<1> USE DEF SkipRegion
<1>1. ~MapRead
  OBVIOUS
<1>2. ITypes'
  BY <1>1, EntryIs DEF Known, ITypes
<1>3. Sums(mmap, s)' /\ Summed(s)' /\ Stacked'
  BY DEF Known, Sums, Summed, Stacked
<1>4. FoundGood'
  BY DEF Known, FoundGood, OnStack, Good, IsRAM, StructuresEnd
<1>5. Counted(s)'
  <2>1. Within(mbfree, K, s[entry - 1]) /\ mbfree \in Nat /\ bytes \in Nat
    BY DEF Known, Counted, ITypes
  <2>2. K' = K /\ K \in Nat
    BY <2>1, StructuresAre DEF K, StructuresEnd
  <2>3. s[entry - 1] \in Nat /\ s[entry] \in Nat /\ s[entry - 1] <= s[entry]
    BY <1>1, EntryIs
  <2>4. Within(mbfree, K, s[entry])
    BY <2>1, <2>2, <2>3, WithinMore
  <2>5. entry' - 1 = entry
    BY <1>1, EntryIs
  <2>6. Within(mbfree, K, s[entry' - 1])
    BY <2>4, <2>5
  <2> QED
    BY <2>2, <2>6 DEF Counted
<1> QED
  BY <1>2, <1>3, <1>4, <1>5 DEF Known

(* The page at a, if it is counted, is memory behind the structures.       *)
LEMMA FoundPage ==
    ASSUME PlainMap(mmap), NEW s, Known(s), FreePage, NEW j \in Nat, a = Pages(j), NewKEnd < a
    PROVE  Good(j) /\ K + 1 <= j
<1> DEFINE r == mmap[entry]
<1>1. /\ ~MapRead /\ r.available /\ a < r.len /\ r.addr <= a
      /\ pc = "region" /\ bytes \in Nat /\ a \in Nat
  BY DEF FreePage, InRegion, Known, Counted, ITypes, MapRead
<1>2. /\ r.addr \in Nat /\ r.len \in Nat /\ r.len <= s[Len(mmap)] /\ s[Len(mmap)] \in Nat
      /\ entry \in 1 .. Len(mmap) /\ PlainMap(mmap) /\ DOMAIN mmap = 1 .. Len(mmap)
  BY <1>1, EntryIs, Regions
<1>3. r.addr % PageSize = 0 /\ (r.addr = 0 => r.len <= KEnd)
  BY <1>1, <1>2 DEF PlainMap
<1>4. /\ StructuresEnd \in Nat /\ KEnd <= StructuresEnd /\ K \in Nat /\ NewKEnd = Pages(K)
      /\ StructuresEnd < Pages(K) + PageSize
  BY <1>1, StructuresAre
<1>5. Pages(K) \in Nat /\ KEnd \in Nat /\ PageSize \in Nat
  BY <1>4, PagesAre, Sizes
<1>6. K < j
  <2>1. j <= K => Pages(j) <= Pages(K)
    BY <1>4, PagesOrder
  <2> QED
    BY <1>1, <1>4, <1>5, <2>1
<1>7. Pages(K) + PageSize <= a
  BY <1>4, <1>6, PagesOrder
<1>8. StructuresEnd <= Pages(j)
  BY <1>1, <1>4, <1>5, <1>7
<1>9. Pages(j) < total
  BY <1>1, <1>2 DEF Known, Summed
<1>10. PageSize <= r.addr
  <2>1. r.addr # 0
    BY <1>1, <1>2, <1>3, <1>4, <1>5, <1>8
  <2>2. PICK i \in Nat : r.addr = Pages(i)
    BY <1>2, <1>3, AtPage
  <2>3. 0 < i
    BY <2>1, <2>2, Sizes DEF Pages
  <2>4. Pages(0) + PageSize <= Pages(i) /\ Pages(0) = 0
    BY <2>3, PagesOrder, Sizes DEF Pages
  <2> QED
    BY <1>5, <2>2, <2>4
<1>11. Pages(j + 1) <= r.addr + r.len
  <2>1. Pages(j + 1) = a + PageSize
    BY PagesNext
  <2> QED
    BY <1>1, <1>2, <1>5, <1>10, <2>1
<1>12. IsRAM(j)
  BY <1>1, <1>2, <1>11 DEF IsRAM, Pages
<1> QED
  BY <1>4, <1>6, <1>8, <1>9, <1>12 DEF Good

(* The next page is still below Word, and one more frame is counted.       *)
LEMMA NextPage ==
    ASSUME PlainMap(mmap), NEW s, Known(s), FreePage, NEW j \in Nat, a = Pages(j)
    PROVE  a' = a + PageSize /\ a' = Pages(j + 1) /\ a' \in Nat
<1>1. ~MapRead /\ mmap[entry].available /\ a < mmap[entry].len /\ a \in Nat
  BY DEF FreePage, InRegion, Known, Counted, ITypes, MapRead
<1>2. mmap[entry].len \in Nat /\ entry \in 1 .. Len(mmap) /\ PlainMap(mmap)
  BY <1>1, EntryIs
<1>3. mmap[entry].len <= Word - PageSize
  BY <1>1, <1>2, Regions DEF PlainMap
<1>4. a + PageSize \in Nat /\ a + PageSize < Word
  BY <1>1, <1>2, <1>3, Sizes
<1>5. a' = a + PageSize
  BY <1>4, Sizes DEF FreePage
<1> QED
  BY <1>4, <1>5, PagesNext

LEMMA CountedOn ==
    ASSUME bytes \in Nat, NEW c \in Nat, NEW j \in Nat, NEW len \in Nat,
           CountedTo(c, Pages(j), len), Pages(j) < len
    PROVE  /\ CountedTo(c, Pages(j + 1), len)
           /\ K + 1 <= j => CountedTo(c + 1, Pages(j + 1), len)
<1>1. K \in Nat
  BY StructuresAre
<1>2. /\ Pages(j) \in Nat /\ Pages(j + 1) = Pages(j) + PageSize /\ PageSize \in Nat
      /\ PageSize > 0
  BY PagesAre, PagesNext, Sizes
<1>3. Pages(c + K + 1) \in Nat /\ Pages((c + 1) + K + 1) = Pages(c + K + 1) + PageSize
  <2>1. c + K + 1 \in Nat /\ (c + 1) + K + 1 = (c + K + 1) + 1
    BY <1>1
  <2> QED
    BY <2>1, PagesAre, PagesNext
<1>4. Pages(j + 1) < len + PageSize
  BY <1>2
<1>5. c # 0 => Pages(c + K + 1) <= Pages(j)
  BY DEF CountedTo
<1>6. CountedTo(c, Pages(j + 1), len)
  BY <1>2, <1>3, <1>4, <1>5 DEF CountedTo
<1>7. ASSUME K + 1 <= j PROVE CountedTo(c + 1, Pages(j + 1), len)
  <2>1. c = 0 => Pages(c + K + 1) <= Pages(j)
    BY <1>1, <1>7, PagesOrder
  <2>2. Pages((c + 1) + K + 1) <= Pages(j + 1)
    BY <1>2, <1>3, <1>5, <2>1
  <2> QED
    BY <1>4, <2>2 DEF CountedTo
<1> QED
  BY <1>6, <1>7

(* What the count of the region says, in parts.                            *)
InRegionCounted(s, c0, c, m) ==
    m <= c0 + c /\ Within(c0, K, s[entry - 1]) /\ CountedTo(c, a, mmap[entry].len)

LEMMA FreePageKeeps ==
    ASSUME PlainMap(mmap), NEW s, Known(s), FreePage
    PROVE  Known(s)'
<1>1. pc = "region" /\ pc' = "region" /\ ~MapRead /\ entry <= Len(mmap) /\ mmap[entry].available
  BY DEF FreePage, Known, Counted, MapRead, ITypes
<1>2. PICK c0 \in Nat, c \in Nat : InRegionCounted(s, c0, c, mbfree)
  BY <1>1 DEF Known, Counted, InRegionCounted
<1>3. PICK j \in Nat : a = Pages(j) /\ mmap[entry].addr <= a
  BY <1>1 DEF Known, Counted
<1>4. a' = a + PageSize /\ a' = Pages(j + 1) /\ a' \in Nat
  BY <1>3, NextPage
<1>5. /\ mmap[entry].len \in Nat /\ mmap[entry].addr \in Nat /\ a \in Nat /\ a < mmap[entry].len
      /\ bytes \in Nat /\ mbfree \in Nat /\ mbfree < Word
  BY <1>1, EntryIs DEF FreePage, InRegion, Known, ITypes
<1>6. K' = K /\ K \in Nat /\ NewKEnd = Pages(K)
  BY <1>5, StructuresAre DEF FreePage, K, StructuresEnd
<1>7. /\ CountedTo(c, a, mmap[entry].len) => CountedTo(c, a', mmap[entry].len)
      /\ CountedTo(c, a, mmap[entry].len) /\ NewKEnd < a => CountedTo(c + 1, a', mmap[entry].len)
  BY <1>3, <1>4, <1>5, CountedOn, FoundPage
<1>8. \E d \in Nat : InRegionCounted(s, c0, d, mbfree)'
  <2>1. /\ \A d : CountedTo(d, a, mmap[entry].len)' <=> CountedTo(d, a', mmap[entry].len)
        /\ Within(c0, K, s[entry - 1])' <=> Within(c0, K, s[entry - 1])
    BY <1>6 DEF FreePage, CountedTo, Within
  <2>2. ASSUME NewKEnd < a PROVE InRegionCounted(s, c0, c + 1, mbfree)'
    <3>1. mbfree' = (mbfree + 1) % Word
      BY <2>2 DEF FreePage
    <3>2. mbfree' <= mbfree + 1
      BY <1>5, <3>1, Sizes
    <3>3. mbfree' \in Nat
      BY <1>5, <3>1, Sizes
    <3>4. mbfree' <= c0 + (c + 1)
      BY <1>2, <1>5, <3>2, <3>3 DEF InRegionCounted
    <3> QED
      BY <1>2, <1>7, <2>1, <2>2, <3>4 DEF InRegionCounted
  <2>3. ASSUME ~(NewKEnd < a) PROVE InRegionCounted(s, c0, c, mbfree)'
    BY <1>2, <1>7, <2>1, <2>3 DEF InRegionCounted, FreePage
  <2>4. c \in Nat /\ c + 1 \in Nat
    OBVIOUS
  <2> QED
    BY <2>2, <2>3, <2>4
<1>9. Counted(s)'
  <2>1. mmap[entry].addr <= a'
    BY <1>3, <1>4, <1>5, Sizes
  <2>2. \E i \in Nat : a' = Pages(i) /\ mmap[entry].addr <= a'
    BY <1>4, <2>1
  <2>3. mmap' = mmap /\ entry' = entry
    BY DEF FreePage
  <2> QED
    BY <1>1, <1>8, <2>2, <2>3 DEF Counted, InRegionCounted
<1>10. ITypes'
  <2>1. mbfree' \in Nat /\ mbfree' < Word
    BY <1>5, Sizes DEF FreePage
  <2>2. clear' \in SUBSET Nat
    <3>1. a \div PageSize \in Nat
      BY <1>5, PagesIn
    <3> QED
      BY <3>1 DEF FreePage, Known, ITypes
  <2> QED
    BY <1>4, <2>1, <2>2 DEF FreePage, Known, ITypes
<1>11. Sums(mmap, s)' /\ Summed(s)' /\ Stacked'
  BY <1>1 DEF FreePage, Known, Sums, Summed, Stacked
<1>12. FoundGood'
  <2>1. ASSUME NEW f \in clear' \cup OnStack PROVE Good(f)
    <3>1. NewKEnd < a => Good(j)
      BY <1>3, FoundPage
    <3>2. a \div PageSize = j
      BY <1>3, PagesDiv
    <3>3. f \in clear \cup OnStack \/ (f = j /\ NewKEnd < a)
      BY <3>2 DEF FreePage
    <3> QED
      BY <1>1, <3>1, <3>3 DEF Known, FoundGood
  <2>2. OnStack' = OnStack /\ \A f : Good(f)' <=> Good(f)
    BY DEF FreePage, OnStack, Good, IsRAM, StructuresEnd
  <2> QED
    BY <2>1, <2>2 DEF FoundGood
<1> QED
  BY <1>9, <1>10, <1>11, <1>12 DEF Known

LEMMA LeaveRegionKeeps ==
    ASSUME PlainMap(mmap), NEW s, Known(s), LeaveRegion
    PROVE  Known(s)'
<1>1. pc = "region" /\ pc' = "scan" /\ ~MapRead
  BY DEF LeaveRegion, Known, Counted, MapRead, ITypes
<1>2. PICK c0 \in Nat, c \in Nat : InRegionCounted(s, c0, c, mbfree)
  BY <1>1 DEF Known, Counted, InRegionCounted
<1> DEFINE len == mmap[entry].len
<1>3. /\ len \in Nat /\ a \in Nat /\ ~(a < len)
      /\ bytes \in Nat /\ mbfree \in Nat /\ s[entry - 1] \in Nat
      /\ s[entry] = s[entry - 1] + len /\ s[entry] \in Nat /\ (entry + 1) - 1 = entry
      /\ entry + 1 \in 1 .. Len(mmap) + 1
  BY <1>1, EntryIs DEF LeaveRegion, InRegion, Known, ITypes
<1>4. K' = K /\ K \in Nat
  BY <1>3, StructuresAre DEF LeaveRegion, K, StructuresEnd
<1>5. Within(c, K, len)
  <2>1. c + K \in Nat
    BY <1>4
  <2>2. Pages(c + K) \in Nat /\ Pages((c + K) + 1) = Pages(c + K) + PageSize
    BY <2>1, PagesAre, PagesNext
  <2>3. c # 0 => Pages(c + K + 1) <= a /\ a < len + PageSize
    BY <1>2 DEF InRegionCounted, CountedTo
  <2> HIDE DEF len
  <2> QED
    BY <1>3, <2>2, <2>3, Sizes DEF Within
<1>6. Within(mbfree, K, s[entry])
  <2>1. Within(c0, K, s[entry - 1]) /\ mbfree <= c0 + c /\ c0 + c \in Nat
    BY <1>2 DEF InRegionCounted
  <2> HIDE DEF len
  <2>2. Within(c0 + c, K, s[entry - 1] + len)
    BY <1>3, <1>4, <1>5, <2>1, WithinBoth
  <2> QED
    BY <1>3, <1>4, <2>1, <2>2, WithinLess
<1>7. Counted(s)'
  <2>1. entry' - 1 = entry /\ mbfree' = mbfree
    BY <1>3 DEF LeaveRegion
  <2>2. Within(mbfree, K, s[entry - 1])'
    BY <1>4, <1>6, <2>1
  <2> QED
    BY <1>1, <2>2 DEF Counted
<1>8. ITypes'
  BY <1>3 DEF LeaveRegion, Known, ITypes
<1>9. Sums(mmap, s)' /\ Summed(s)' /\ Stacked'
  BY DEF LeaveRegion, Known, Sums, Summed, Stacked
<1>10. FoundGood'
  BY DEF LeaveRegion, Known, FoundGood, OnStack, Good, IsRAM, StructuresEnd
<1> QED
  BY <1>7, <1>8, <1>9, <1>10 DEF Known

LEMMA StartFillingKeeps ==
    ASSUME PlainMap(mmap), NEW s, Known(s), StartFilling
    PROVE  Known(s)'
<1> USE DEF StartFilling
<1>1. PlainMap(mmap) /\ Len(mmap) \in Nat /\ entry - 1 = Len(mmap)
  <2>1. PlainMap(mmap)
    OBVIOUS
  <2>2. Len(mmap) \in Nat
    BY <2>1, Regions
  <2> QED
    BY <2>1, <2>2 DEF Known, ITypes, MapRead
<1>2. Start \in Nat /\ e' = Start /\ Start' = Start
  BY Sizes DEF Known, ITypes, Start
<1>3. ITypes'
  BY <1>2 DEF Known, ITypes
<1>4. Sums(mmap, s)' /\ Summed(s)'
  BY DEF Known, Sums, Summed
<1>5. Counted(s)'
  <2>1. Within(mbfree, K, s[Len(mmap)]) /\ total = s[Len(mmap)]
    BY <1>1 DEF Known, Counted, Summed
  <2>2. Within(mbfree, K, total)'
    BY <2>1 DEF Within, K, StructuresEnd
  <2> QED
    BY <2>2 DEF Counted
<1>6. FoundGood'
  BY DEF Known, FoundGood, OnStack, Good, IsRAM, StructuresEnd
<1>7. Stacked'
  <2>1. stack = <<>> /\ stack' = <<>> /\ clear' = clear
    BY DEF Known, Stacked
  <2>2. Len(stack') = 0
    BY <2>1
  <2>3. \A f \in clear' : f <= e' \/ Start' < f
    BY <1>2, <2>1 DEF Known, ITypes
  <2>4. Descends(stack', Start')
    BY <2>2 DEF Descends
  <2>5. Len(stack') < MaxStack /\ e' + Len(stack') <= Start'
    BY <1>2, <2>2, Sizes
  <2>6. Descends(stack, Start)'
    BY <2>4 DEF Descends
  <2> QED
    BY <2>2, <2>3, <2>5, <2>6 DEF Stacked
<1> QED
  BY <1>3, <1>4, <1>5, <1>6, <1>7 DEF Known

(* Frame 0 is in front of the structures.                                  *)
LEMMA ZeroIsNotGood ==
    ASSUME bytes \in Nat
    PROVE  ~Good(0)
<1>1. StructuresEnd > 0 /\ StructuresEnd \in Nat
  BY StructuresAre
<1>2. Pages(0) = 0
  BY Sizes DEF Pages
<1> QED
  BY <1>1, <1>2 DEF Good

(* What holds when the loop that fills the stack runs.                     *)
LEMMA FillingIs ==
    ASSUME PlainMap(mmap), NEW s, Known(s), pc = "fill"
    PROVE  /\ Start \in Nat /\ Start <= MaxStack /\ Start <= mbfree /\ mbfree < Word
           /\ Len(stack) \in Nat /\ Len(stack) < MaxStack /\ e \in Nat
           /\ e + Len(stack) <= Start /\ e < Word /\ bytes \in Nat
           /\ \A f \in clear : f \in Nat /\ f # 0 /\ (f <= e \/ Start < f)
           /\ \A i \in 1 .. Len(stack) : e < stack[i]
           /\ Descends(stack, Start)
<1>1. Start \in Nat /\ Start <= MaxStack /\ Start <= mbfree /\ mbfree < Word /\ mbfree \in Nat
  BY Sizes DEF Known, ITypes, Start
<1>2. Len(stack) \in Nat /\ e \in Nat /\ e + Len(stack) <= Start /\ Len(stack) < MaxStack
  BY DEF Known, ITypes, Stacked
<1>3. e < Word
  BY <1>1, <1>2, Sizes
<1>4. ASSUME NEW f \in clear PROVE f \in Nat /\ f # 0 /\ (f <= e \/ Start < f)
  <2>1. Good(f)
    BY DEF Known, FoundGood
  <2>2. f # 0
    BY <2>1, ZeroIsNotGood DEF Known, ITypes
  <2> QED
    BY <2>2 DEF Known, ITypes, Stacked
<1>5. bytes \in Nat /\ (\A i \in 1 .. Len(stack) : e < stack[i]) /\ Descends(stack, Start)
  BY DEF Known, ITypes, Stacked
<1> QED
  BY <1>1, <1>2, <1>3, <1>4, <1>5

(* One frame more on the stack.                                            *)
LEMMA DescendsFurther ==
    ASSUME NEW st \in Seq(Nat), NEW f \in Nat, NEW last \in Nat, Descends(st, last),
           f + Len(st) <= last, \A i \in 1 .. Len(st) : f < st[i]
    PROVE  /\ Append(st, f) \in Seq(Nat) /\ Len(Append(st, f)) = Len(st) + 1
           /\ Descends(Append(st, f), last)
           /\ \A i \in 1 .. Len(st) + 1 : f <= Append(st, f)[i]
           /\ \A i \in 1 .. Len(st) + 1 :
                 Append(st, f)[i] = f \/ \E k \in 1 .. Len(st) : Append(st, f)[i] = st[k]
<1> DEFINE t == Append(st, f)
           n == Len(st)
<1>1. /\ t \in Seq(Nat) /\ Len(t) = n + 1 /\ n \in Nat /\ t[n + 1] = f
      /\ \A i \in 1 .. n : t[i] = st[i] /\ st[i] \in Nat
  OBVIOUS
<1>2. \A i \in 1 .. n + 1 : i \in 1 .. n \/ i = n + 1
  BY <1>1
<1>3. /\ \A i, j \in 1 .. n : i < j => st[i] > st[j]
      /\ \A i \in 1 .. n : st[i] + i <= last + 1
  BY DEF Descends
<1> HIDE DEF t, n
<1>4. f + n <= last /\ \A i \in 1 .. n : f < st[i]
  BY DEF n
<1>5. \A i, j \in 1 .. n + 1 : i < j => t[i] > t[j]
  <2> SUFFICES ASSUME NEW i \in 1 .. n + 1, NEW j \in 1 .. n + 1, i < j PROVE t[i] > t[j]
    OBVIOUS
  <2>1. i \in 1 .. n
    BY <1>1
  <2>2. CASE j \in 1 .. n
    BY <1>1, <1>3, <2>1, <2>2
  <2>3. CASE j = n + 1
    BY <1>1, <1>4, <2>1, <2>3
  <2> QED
    BY <1>2, <2>2, <2>3
<1>6. \A i \in 1 .. n + 1 : t[i] + i <= last + 1
  <2> SUFFICES ASSUME NEW i \in 1 .. n + 1 PROVE t[i] + i <= last + 1
    OBVIOUS
  <2>1. CASE i \in 1 .. n
    BY <1>1, <1>3, <2>1
  <2>2. CASE i = n + 1
    BY <1>1, <1>4, <2>2
  <2> QED
    BY <1>2, <2>1, <2>2
<1>7. Descends(t, last)
  BY <1>1, <1>5, <1>6 DEF Descends
<1>8. ASSUME NEW i \in 1 .. n + 1 PROVE f <= t[i]
  <2>1. CASE i \in 1 .. n
    BY <1>1, <1>4, <2>1
  <2>2. CASE i = n + 1
    BY <1>1, <2>2
  <2> QED
    BY <1>2, <2>1, <2>2
<1>9. \A i \in 1 .. n + 1 : t[i] = f \/ \E k \in 1 .. n : t[i] = st[k]
  BY <1>1, <1>2
<1> QED
  BY <1>1, <1>7, <1>8, <1>9 DEF t, n

LEMMA FillStackTypes ==
    ASSUME PlainMap(mmap), NEW s, Known(s), FillStack
    PROVE  /\ e > 0 /\ e \in Nat
           /\ (e - 1) % Word = e - 1 /\ e - 1 \in Nat
           /\ (e \in clear /\ clear' = clear \ {e} /\ stack' = Append(stack, e))
              \/ (e \notin clear /\ clear' = clear /\ stack' = stack)
           /\ ITypes'
<1>1. e > 0 /\ e \in Nat /\ e < Word
  BY FillingIs DEF FillStack, MoreToFill
<1>2. (e - 1) % Word = e - 1 /\ e - 1 \in Nat
  BY <1>1, Sizes
<1>3. (e \in clear /\ clear' = clear \ {e} /\ stack' = Append(stack, e))
         \/ (e \notin clear /\ clear' = clear /\ stack' = stack)
  BY DEF FillStack, WithBitSet
<1>4. clear' \in SUBSET Nat /\ stack' \in Seq(Nat)
  <2>1. clear \in SUBSET Nat /\ stack \in Seq(Nat)
    BY DEF Known, ITypes
  <2>2. Append(stack, e) \in Seq(Nat)
    BY <1>1, <2>1
  <2> QED
    BY <1>3, <2>1, <2>2
<1>5. e' \in Nat /\ pc' \in {"fill", "done"}
  BY <1>1, <1>2 DEF FillStack
<1>6. ITypes'
  BY <1>4, <1>5 DEF FillStack, Known, ITypes
<1> QED
  BY <1>1, <1>2, <1>3, <1>6

(* The frames that are clear or on the stack are never more than before.   *)
LEMMA NoMoreFrames ==
    ASSUME PlainMap(mmap), NEW s, Known(s), FillStack
    PROVE  FoundGood'
<1>1. ASSUME NEW f \in clear' \cup OnStack' PROVE f \in clear \cup OnStack
  <2>1. CASE f \in clear'
    BY <2>1, FillStackTypes
  <2>2. CASE f \in OnStack'
    <3>1. PICK i \in DOMAIN stack' : f = stack'[i]
      BY <2>2 DEF OnStack
    <3>2. CASE stack' = stack
      BY <3>1, <3>2 DEF OnStack
    <3>3. CASE e \in clear /\ stack' = Append(stack, e)
      <4>1. stack \in Seq(Nat) /\ e \in Nat
        BY DEF Known, ITypes
      <4>2. DOMAIN Append(stack, e) = 1 .. Len(stack) + 1 /\ DOMAIN stack = 1 .. Len(stack)
        BY <4>1
      <4>3. i \in 1 .. Len(stack) \/ i = Len(stack) + 1
        BY <3>1, <3>3, <4>1, <4>2
      <4>4. f = e \/ (i \in DOMAIN stack /\ f = stack[i])
        BY <3>1, <3>3, <4>1, <4>2, <4>3
      <4> QED
        BY <3>3, <4>4 DEF OnStack
    <3> QED
      BY <3>2, <3>3, FillStackTypes
  <2> QED
    BY <1>1, <2>1, <2>2
<1>2. \A f : Good(f) => Good(f)'
  BY DEF FillStack, Good, IsRAM, StructuresEnd
<1>3. \A f \in clear \cup OnStack : Good(f)
  BY DEF Known, FoundGood, FillStack
<1> QED
  BY <1>1, <1>2, <1>3 DEF FoundGood

(* The loop either goes on, or the stack is full: e is then 1.             *)
LEMMA FillStackStacks ==
    ASSUME PlainMap(mmap), NEW s, Known(s), FillStack
    PROVE  Stacked'
<1>1. /\ Start \in Nat /\ Start <= MaxStack /\ Start' = Start /\ MaxStack \in Nat
      /\ stack \in Seq(Nat) /\ Len(stack) \in Nat /\ Len(stack) < MaxStack /\ e \in Nat
      /\ e + Len(stack) <= Start /\ e > 0
      /\ \A f \in clear : f \in Nat /\ f # 0 /\ (f <= e \/ Start < f)
      /\ \A i \in 1 .. Len(stack) : e < stack[i]
      /\ Descends(stack, Start)
      /\ pc = "fill" /\ mbfree' = mbfree
  BY FillingIs, FillStackTypes, Sizes DEF FillStack, Start, Known, ITypes
<1>2. /\ Len(stack') \in Nat /\ Len(stack') <= Len(stack) + 1
      /\ Descends(stack', Start)
      /\ \A i \in 1 .. Len(stack') : e <= stack'[i] /\ stack'[i] \in Nat
      /\ \A f \in clear' : f \in clear /\ f # e
  <2>1. CASE e \in clear /\ clear' = clear \ {e} /\ stack' = Append(stack, e)
    <3>1. /\ Append(stack, e) \in Seq(Nat) /\ Len(Append(stack, e)) = Len(stack) + 1
          /\ Descends(Append(stack, e), Start)
          /\ \A i \in 1 .. Len(stack) + 1 : e <= Append(stack, e)[i]
      BY <1>1, DescendsFurther
    <3>2. \A i \in 1 .. Len(stack) + 1 : Append(stack, e)[i] \in Nat
      BY <3>1
    <3>3. \A f \in clear' : f \in clear /\ f # e
      BY <2>1
    <3> HIDE DEF Descends
    <3> QED
      BY <1>1, <2>1, <3>1, <3>2, <3>3
  <2>2. CASE e \notin clear /\ clear' = clear /\ stack' = stack
    <3>1. \A i \in 1 .. Len(stack) : e <= stack[i] /\ stack[i] \in Nat
      BY <1>1
    <3> QED
      BY <1>1, <2>2, <3>1
  <2> QED
    BY <2>1, <2>2, FillStackTypes
<1>3. Descends(stack, Start)'
  BY <1>1, <1>2 DEF Descends
<1>4. ASSUME Len(stack') # MaxStack
      PROVE  /\ pc' = "fill" /\ e' = e - 1
             /\ Len(stack') < MaxStack /\ e' + Len(stack') <= Start'
             /\ \A i \in 1 .. Len(stack') : e' < stack'[i]
             /\ \A f \in clear' : f <= e' \/ Start' < f
  <2>1. pc' = "fill" /\ e' = e - 1
    BY <1>4, FillStackTypes DEF FillStack
  <2>2. Len(stack') < MaxStack /\ e' + Len(stack') <= Start'
    BY <1>1, <1>2, <1>4, <2>1
  <2>3. \A i \in 1 .. Len(stack') : e' < stack'[i]
    BY <1>1, <1>2, <2>1
  <2>4. \A f \in clear' : f <= e' \/ Start' < f
    BY <1>1, <1>2, <2>1
  <2> QED
    BY <2>1, <2>2, <2>3, <2>4
<1>5. ASSUME Len(stack') = MaxStack
      PROVE  /\ pc' = "done" /\ Len(stack') <= MaxStack
             /\ \A f \in clear' : Start' < f
  <2>1. e = 1
    BY <1>1, <1>2, <1>5
  <2>2. \A f \in clear' : Start' < f
    BY <1>1, <1>2, <2>1
  <2> QED
    BY <1>1, <1>5, <2>2 DEF FillStack
<1>6. CASE Len(stack') # MaxStack
  BY <1>3, <1>4, <1>6 DEF Stacked
<1>7. CASE Len(stack') = MaxStack
  BY <1>3, <1>5, <1>7 DEF Stacked
<1> QED
  BY <1>6, <1>7

LEMMA FillStackKeeps ==
    ASSUME PlainMap(mmap), NEW s, Known(s), FillStack
    PROVE  Known(s)'
<1>1. ITypes' /\ FoundGood' /\ Stacked'
  BY FillStackTypes, NoMoreFrames, FillStackStacks
<1>2. Sums(mmap, s)' /\ Summed(s)'
  BY DEF FillStack, Known, Sums, Summed
<1>3. Counted(s)'
  <2>1. Within(mbfree, K, total)'
    BY DEF FillStack, Known, Counted, Within, K, StructuresEnd
  <2> QED
    BY <2>1 DEF FillStack, Counted
<1> QED
  BY <1>1, <1>2, <1>3 DEF Known

LEMMA FilledKeeps ==
    ASSUME PlainMap(mmap), NEW s, Known(s), Filled
    PROVE  Known(s)'
<1> USE DEF Filled
<1>1. ITypes' /\ Sums(mmap, s)' /\ Summed(s)'
  BY DEF Known, ITypes, Sums, Summed
<1>2. FoundGood'
  BY DEF Known, FoundGood, OnStack, Good, IsRAM, StructuresEnd
<1>3. Counted(s)'
  BY DEF Known, Counted, Within, K, StructuresEnd
<1>4. Stacked'
  <2>1. e = 0
    BY FillingIs DEF MoreToFill
  <2>2. Len(stack) <= MaxStack /\ \A f \in clear : Start < f
    BY <2>1, FillingIs, Sizes
  <2>3. Descends(stack, Start) /\ Start' = Start
    BY FillingIs DEF Start
  <2> QED
    BY <2>2, <2>3 DEF Stacked, Descends
<1> QED
  BY <1>1, <1>2, <1>3, <1>4 DEF Known

-----------------------------------------------------------------------------
LEMMA StepKeeps ==
    ASSUME PlainMap(mmap), InitInv, [Next]_initVars
    PROVE  InitInv'
<1>1. PICK s : Known(s)
  BY DEF InitInv
<1>2. Known(s)'
  <2>1. CASE SumEntry
    BY <1>1, <2>1, SumEntryKeeps
  <2>2. CASE LayOut
    BY <1>1, <2>2, LayOutKeeps
  <2>3. CASE EnterRegion
    BY <1>1, <2>3, EnterRegionKeeps
  <2>4. CASE SkipRegion
    BY <1>1, <2>4, SkipRegionKeeps
  <2>5. CASE FreePage
    BY <1>1, <2>5, FreePageKeeps
  <2>6. CASE LeaveRegion
    BY <1>1, <2>6, LeaveRegionKeeps
  <2>7. CASE StartFilling
    BY <1>1, <2>7, StartFillingKeeps
  <2>8. CASE FillStack
    BY <1>1, <2>8, FillStackKeeps
  <2>9. CASE Filled
    BY <1>1, <2>9, FilledKeeps
  <2>10. CASE UNCHANGED initVars
    <3>1. ITypes' /\ Sums(mmap, s)' /\ Summed(s)' /\ Stacked'
      BY <1>1, <2>10 DEF initVars, Known, ITypes, Sums, Summed, Stacked, Descends, Start
    <3>2. FoundGood'
      BY <1>1, <2>10 DEF initVars, Known, FoundGood, OnStack, Good, IsRAM, StructuresEnd
    <3>3. Counted(s)'
      BY <1>1, <2>10 DEF initVars, Known, Counted, Within, CountedTo, K, StructuresEnd
    <3> QED
      BY <3>1, <3>2, <3>3 DEF Known
  <2> QED
    BY <2>1, <2>2, <2>3, <2>4, <2>5, <2>6, <2>7, <2>8, <2>9, <2>10 DEF Next
<1> QED
  BY <1>2 DEF InitInv

LEMMA InvariantHolds == Spec => [](PlainMap(mmap) => InitInv)
<1>1. Init => (PlainMap(mmap) => InitInv)
  BY Initially
<1>2. (PlainMap(mmap) => InitInv) /\ [Next]_initVars => (PlainMap(mmap) => InitInv)'
  <2> SUFFICES ASSUME PlainMap(mmap) => InitInv, [Next]_initVars, PlainMap(mmap')
               PROVE  InitInv'
    OBVIOUS
  <2>1. mmap' = mmap
    BY DEF Next, SumEntry, LayOut, EnterRegion, SkipRegion, FreePage, LeaveRegion,
           StartFilling, FillStack, Filled, initVars
  <2>2. PlainMap(mmap)
    BY <2>1
  <2> QED
    BY <2>2, StepKeeps
<1> QED
  BY <1>1, <1>2, PTL DEF Spec

(* PlainFreedIsRAM: no frame is free that is not memory of one available   *)
(* region, or that holds the kernel, the ram disk, the bitmap or the stack,*)
(* on every machine whose map is plain.                                    *)
THEOREM FreedFramesAreRAM == Spec => []PlainFreedIsRAM
<1>1. (PlainMap(mmap) => InitInv) => PlainFreedIsRAM
  BY DEF InitInv, Known, FoundGood, PlainFreedIsRAM, FreedIsRAM, Free, Good, Pages
<1> QED
  BY <1>1, InvariantHolds, PTL

(* A frame of the memory that was summed has its bit in the bitmap, or in  *)
(* the byte behind it.                                                     *)
LEMMA BitmapCovers ==
    ASSUME NEW f \in Nat, NEW k \in Nat, total \in Nat, bytes = (total \div PageSize) \div ByteBits,
           Pages(f + k) <= total
    PROVE  /\ f < NBits + ByteBits
           /\ ByteBits <= k => f < NBits
           /\ NBits \in Nat
<1> DEFINE q == total \div PageSize
<1>1. q \in Nat /\ total < Pages(q) + PageSize /\ Pages(q) \in Nat
  BY PagesIn, PagesAre
<1>2. f + k <= q
  <2>1. q < f + k => Pages(q) + PageSize <= Pages(f + k)
    BY <1>1, PagesOrder
  <2>2. Pages(f + k) \in Nat /\ f + k \in Nat
    BY PagesAre
  <2> HIDE DEF q
  <2> QED
    BY <1>1, <2>1, <2>2, Sizes
<1>3. bytes = q \div ByteBits
  OBVIOUS
<1> HIDE DEF q
<1>4. q < (q \div ByteBits) * ByteBits + ByteBits /\ (q \div ByteBits) * ByteBits \in Nat
  BY <1>1, Sizes
<1>5. NBits \in Nat /\ q < NBits + ByteBits
  BY <1>3, <1>4 DEF NBits
<1> QED
  BY <1>2, <1>5, <1>1, Sizes

(* InsideBitmap, for every plain map: the loops write into the bitmap and  *)
(* the byte behind it, and nowhere else.                                   *)
THEOREM BitsStayInside == Spec => [](PlainMap(mmap) => InsideBitmap)
<1>1. PlainMap(mmap) /\ InitInv => InsideBitmap
  <2> SUFFICES ASSUME PlainMap(mmap), NEW s, Known(s) PROVE InsideBitmap
    BY DEF InitInv
  <2>1. ASSUME pc # "sum", NEW f \in clear PROVE f < NBits + ByteBits
    <3>1. f \in Nat /\ Good(f) /\ total \in Nat /\ bytes = (total \div PageSize) \div ByteBits
      BY <2>1 DEF Known, ITypes, FoundGood, Summed
    <3>2. Pages(f + 0) <= total
      BY <3>1, PagesAre DEF Good
    <3> QED
      BY <3>1, <3>2, BitmapCovers
  <2>2. ASSUME pc = "fill" PROVE e < NBits + ByteBits
    <3>1. /\ e \in Nat /\ mbfree \in Nat /\ e <= mbfree /\ total \in Nat /\ bytes \in Nat
          /\ bytes = (total \div PageSize) \div ByteBits /\ Within(mbfree, K, total)
      <4>1. Start \in Nat /\ Start <= mbfree /\ e \in Nat /\ Len(stack) \in Nat /\ e + Len(stack) <= Start
        BY <2>2, FillingIs
      <4>2. mbfree \in Nat /\ total \in Nat /\ bytes \in Nat
        BY DEF Known, ITypes
      <4>3. bytes = (total \div PageSize) \div ByteBits /\ Within(mbfree, K, total)
        BY <2>2 DEF Known, Summed, Counted
      <4> QED
        BY <4>1, <4>2, <4>3
    <3>2. K \in Nat
      BY <3>1, StructuresAre
    <3>3. CASE mbfree = 0
      <4>1. Pages(0 + 0) <= total
        BY <3>1, Sizes DEF Pages
      <4>2. 0 < NBits + ByteBits
        BY <3>1, <4>1, BitmapCovers
      <4> QED
        BY <3>1, <3>3, <4>2
    <3>4. CASE mbfree # 0
      <4>1. Pages(mbfree + K) <= total
        BY <3>1, <3>4 DEF Within
      <4>2. mbfree < NBits + ByteBits /\ NBits \in Nat
        BY <3>1, <3>2, <4>1, BitmapCovers
      <4> QED
        BY <3>1, <4>2, Sizes
    <3> QED
      BY <3>3, <3>4
  <2> QED
    BY <2>1, <2>2 DEF InsideBitmap
<1> QED
  BY <1>1, InvariantHolds, PTL

(* The frames below Start, when the structures are large, have their bits  *)
(* in the bitmap itself.                                                   *)
LEMMA StartInside ==
    ASSUME StructuresAreLarge, PlainMap(mmap), NEW s, Known(s), pc = "done", mbfree > 0
    PROVE  mbfree < NBits
<1>1. /\ mbfree \in Nat /\ total \in Nat /\ bytes \in Nat
      /\ bytes = (total \div PageSize) \div ByteBits /\ Within(mbfree, K, total)
  BY DEF Known, ITypes, Summed, Counted
<1>2. /\ K \in Nat /\ StructuresEnd \in Nat /\ StructuresEnd < Pages(K) + PageSize
      /\ Pages(K) <= StructuresEnd
  BY <1>1, StructuresAre
<1>3. Pages(ByteBits) <= StructuresEnd
  <2>1. MaxStack * ElementSize \in Nat /\ ByteBits * PageSize \in Nat
    BY Sizes
  <2> QED
    BY <1>1, <2>1, Sizes DEF StructuresAreLarge, StructuresEnd, Pages
<1>4. ByteBits <= K
  <2>1. K < ByteBits => Pages(K) + PageSize <= Pages(ByteBits)
    BY <1>2, Sizes, PagesOrder
  <2>2. Pages(K) \in Nat /\ Pages(ByteBits) \in Nat
    BY <1>2, Sizes, PagesAre
  <2> QED
    BY <1>2, <1>3, <2>1, <2>2, Sizes
<1>5. Pages(mbfree + K) <= total
  BY <1>1 DEF Within
<1> QED
  BY <1>1, <1>2, <1>4, <1>5, BitmapCovers

(* What the stack and the bitmap are in the end.                           *)
LEMMA DoneIs ==
    ASSUME StructuresAreLarge, PlainMap(mmap), NEW s, Known(s), pc = "done"
    PROVE  /\ Start \in 0 .. MaxStack /\ stack \in Seq(Nat)
           /\ Len(stack) \in 0 .. MaxStack
           /\ \A i \in 1 .. Len(stack) : stack[i] \in 1 .. NBits - 1 /\ stack[i] <= Start
           /\ \A i, j \in 1 .. Len(stack) : i < j => stack[i] > stack[j]
           /\ \A f \in clear : f \in Nat /\ f # 0 /\ Start < f
<1>1. /\ mbfree \in Nat /\ total \in Nat /\ bytes \in Nat /\ stack \in Seq(Nat)
      /\ bytes = (total \div PageSize) \div ByteBits
  BY DEF Known, ITypes, Summed
<1>2. Start \in 0 .. MaxStack /\ Start <= mbfree
  BY <1>1, Sizes DEF Start
<1>3. Len(stack) \in 0 .. MaxStack /\ Descends(stack, Start) /\ \A f \in clear : Start < f
  BY <1>1, Sizes DEF Known, Stacked
<1>4. ~Good(0) /\ (\A f \in clear : f \in Nat /\ Good(f)) /\ \A i \in 1 .. Len(stack) : Good(stack[i])
  <2>1. DOMAIN stack = 1 .. Len(stack)
    BY <1>1
  <2>2. \A i \in 1 .. Len(stack) : stack[i] \in OnStack
    BY <2>1 DEF OnStack
  <2> QED
    BY <1>1, <2>2, ZeroIsNotGood DEF Known, ITypes, FoundGood
<1>5. ASSUME NEW i \in 1 .. Len(stack) PROVE stack[i] \in 1 .. NBits - 1 /\ stack[i] <= Start
  <2>1. stack[i] \in Nat /\ stack[i] + i <= Start + 1
    BY <1>1, <1>3 DEF Descends
  <2>2. stack[i] # 0
    BY <1>4
  <2>3. stack[i] <= Start /\ 0 < stack[i]
    BY <1>2, <2>1, <2>2
  <2>4. mbfree > 0 /\ stack[i] <= mbfree
    BY <1>1, <1>2, <2>1, <2>3
  <2>5. mbfree < NBits
    BY <2>4, StartInside
  <2>6. NBits \in Nat
    BY <1>1, Sizes DEF NBits
  <2> QED
    BY <1>1, <2>1, <2>3, <2>4, <2>5, <2>6
<1> QED
  BY <1>1, <1>2, <1>3, <1>4, <1>5 DEF Descends

(* ReadyForAllocator, for every plain map, if kernel and stack fill as many*)
(* pages as a byte has bits: PhysMem_Hybrid_init leaves a state that       *)
(* PhysMemHybrid starts from, so that what PhysMemHybridProofs proves of it*)
(* holds of the machine that booted.                                       *)
THEOREM HandsOverToAllocator ==
    StructuresAreLarge => (Spec => [](PlainMap(mmap) => ReadyForAllocator))
<1> SUFFICES ASSUME StructuresAreLarge
             PROVE  Spec => [](PlainMap(mmap) => ReadyForAllocator)
  OBVIOUS
<1>1. PlainMap(mmap) /\ InitInv => ReadyForAllocator
  <2> SUFFICES ASSUME PlainMap(mmap), NEW s, Known(s), pc = "done", NEW n \in 1 .. Word, n = NBits
               PROVE  Hybrid(n)!Init
    BY DEF InitInv, ReadyForAllocator
  <2> DEFINE F == OnStack \cup {f \in clear : f < n}
             Low == {f \in F : f <= Start}
  <2>1. /\ Start \in 0 .. MaxStack /\ stack \in Seq(Nat) /\ Len(stack) \in 0 .. MaxStack
        /\ \A i \in 1 .. Len(stack) : stack[i] \in 1 .. n - 1 /\ stack[i] <= Start
        /\ \A i, j \in 1 .. Len(stack) : i < j => stack[i] > stack[j]
        /\ \A f \in clear : f \in Nat /\ f # 0 /\ Start < f
    BY DoneIs
  <2>2. DOMAIN stack = 1 .. Len(stack) /\ n \in Nat
    BY <2>1, Sizes
  <2>3. F \in SUBSET ((0 .. n - 1) \ {0})
    BY <2>1, <2>2 DEF OnStack
  <2>4. Low = OnStack
    BY <2>1, <2>2 DEF OnStack
  <2>5. (0 .. n - 1) \ clear = (0 .. n - 1) \ {f \in F : f > Start}
    BY <2>1, <2>2 DEF OnStack
  <2>6. stack \in {t \in UNION {[1 .. k -> Low] : k \in 0 .. MaxStack} :
                      /\ Low = {t[i] : i \in DOMAIN t}
                      /\ \A i, j \in DOMAIN t : i < j => t[i] > t[j]}
    <3>1. stack \in [1 .. Len(stack) -> Low]
      <4>1. \A i \in 1 .. Len(stack) : stack[i] \in Low
        BY <2>2, <2>4 DEF OnStack
      <4>2. stack = [i \in 1 .. Len(stack) |-> stack[i]]
        BY <2>1
      <4> HIDE DEF Low
      <4> QED
        BY <4>1, <4>2
    <3>2. Low = {stack[i] : i \in DOMAIN stack}
      BY <2>4 DEF OnStack
    <3> HIDE DEF Low
    <3> QED
      BY <2>1, <2>2, <3>1, <3>2
  <2> HIDE DEF F
  <2> QED
    BY <2>1, <2>3, <2>5, <2>6 DEF Hybrid!Init, Hybrid!Frames, Hybrid!DescendingStacks
<1> QED
  BY <1>1, InvariantHolds, PTL
=============================================================================

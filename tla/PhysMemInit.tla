----------------------------- MODULE PhysMemInit -----------------------------
(***************************************************************************)
(* PhysMem_Hybrid_init: how the frame allocator finds the free frames in   *)
(* the memory map of the boot loader and puts its own bitmap and stack     *)
(* behind the kernel.  It hands its state over to PhysMemHybrid.           *)
(* Addresses are numbers; mmap addresses and lengths have 64 bits, those   *)
(* of the kernel wrap at Word.                                             *)
(***************************************************************************)
EXTENDS Integers, Sequences, FiniteSets

CONSTANTS
    PageSize,    \* PAGE_SIZE
    Word,        \* 2^32
    ByteBits,    \* 8
    MaxStack,    \* MAX_PHYS_STACK
    KEnd,        \* phys_kend: the first address behind the kernel and its modules
    HeaderSize,  \* sizeof(bitmap_t) + sizeof(stack_t)
    ElementSize, \* sizeof(uint32_t)
    Maps         \* the memory maps considered: sequences of regions

ASSUME InitAssumption ==
    /\ {PageSize, Word, ByteBits, MaxStack, ElementSize} \subseteq Nat \ {0}
    /\ {KEnd, HeaderSize} \subseteq Nat
    /\ Word % PageSize = 0

(* A region of the map, as multiboot_memory_map_t has it.                   *)
Region(addr, len, available) == [addr |-> addr, len |-> len, available |-> available]

VARIABLES
    pc,          \* the loop that runs: "sum", "scan", "region", "fill", "done"
    mmap,        \* the map the boot loader passed; never changes
    entry,       \* mmape and mmap_entry, as an index of mmap
    total,       \* phys_total
    bytes,       \* phys_bitmap->bytes
    clear,       \* the indexes whose bit is clear, also those behind the bitmap
    a,           \* the address in the loop over a region
    mbfree,      \* phys_mbfree
    e,           \* the frame in the loop that fills the stack
    stack        \* phys_stack, frames instead of addresses, top last

initVars == <<pc, mmap, entry, total, bytes, clear, a, mbfree, e, stack>>

MapRead == entry > Len(mmap)

Init ==
    /\ pc = "sum"
    /\ mmap \in Maps
    /\ entry = 1
    /\ total = 0 /\ bytes = 0 /\ clear = {} /\ mbfree = 0
    /\ a = 0 /\ e = 0 /\ stack = <<>>

-----------------------------------------------------------------------------
(* The size of memory is the sum of all regions, of any type.               *)
SumEntry ==
    /\ pc = "sum" /\ ~MapRead
    /\ total' = total + mmap[entry].len
    /\ entry' = entry + 1
    /\ UNCHANGED <<pc, mmap, bytes, clear, a, mbfree, e, stack>>

(* The bitmap is laid out behind the kernel, all its bits set.              *)
LayOut ==
    /\ pc = "sum" /\ MapRead
    /\ bytes' = (total \div PageSize) \div ByteBits
    /\ clear' = {}
    /\ entry' = 1
    /\ mbfree' = 0
    /\ pc' = "scan"
    /\ UNCHANGED <<mmap, total, a, e, stack>>

(* The stack is behind the bitmap and one more byte.  new_kend is the end of*)
(* the stack, rounded down; faulty: the line that forgets the stack.        *)
StructuresEnd == KEnd + HeaderSize + bytes + 1 + MaxStack * ElementSize
NewKEnd_NoStack == ((KEnd + HeaderSize + bytes) \div PageSize) * PageSize
NewKEnd == (StructuresEnd \div PageSize) * PageSize

EnterRegion ==
    /\ pc = "scan" /\ ~MapRead
    /\ mmap[entry].available
    /\ a' = mmap[entry].addr % Word
    /\ pc' = "region"
    /\ UNCHANGED <<mmap, entry, total, bytes, clear, mbfree, e, stack>>

SkipRegion ==
    /\ pc = "scan" /\ ~MapRead
    /\ ~mmap[entry].available
    /\ entry' = entry + 1
    /\ UNCHANGED <<pc, mmap, total, bytes, clear, a, mbfree, e, stack>>

(* The loop compares the address with the length of the region; faulty: with*)
(* its end; one page too far.                                               *)
InRegion_AtMost == a <= mmap[entry].len
InRegion_ToItsEnd == a < mmap[entry].addr + mmap[entry].len
InRegion == a < mmap[entry].len

FreePage ==
    /\ pc = "region" /\ InRegion
    /\ IF NewKEnd < a
         THEN clear' = clear \cup {a \div PageSize} /\ mbfree' = (mbfree + 1) % Word
         ELSE UNCHANGED <<clear, mbfree>>
    /\ a' = (a + PageSize) % Word
    /\ UNCHANGED <<pc, mmap, entry, total, bytes, e, stack>>

LeaveRegion ==
    /\ pc = "region" /\ ~InRegion
    /\ entry' = entry + 1
    /\ pc' = "scan"
    /\ UNCHANGED <<mmap, total, bytes, clear, a, mbfree, e, stack>>

StartFilling ==
    /\ pc = "scan" /\ MapRead
    /\ e' = IF mbfree < MaxStack THEN mbfree ELSE MaxStack
    /\ pc' = "fill"
    /\ UNCHANGED <<mmap, entry, total, bytes, clear, a, mbfree, stack>>

(* Faulty: the condition of a loop over unsigned numbers.                   *)
MoreToFill_Unsigned == e >= 0
MoreToFill == e > 0

(* Bitmap_setBit for a frame that moves to the stack; faulty: left out.     *)
WithBitSet_Lost == clear
WithBitSet == clear \ {e}

FillStack ==
    /\ pc = "fill" /\ MoreToFill
    /\ IF e \in clear
         THEN clear' = WithBitSet /\ stack' = Append(stack, e)
         ELSE UNCHANGED <<clear, stack>>
    /\ IF Len(stack') = MaxStack
         THEN pc' = "done" /\ UNCHANGED e
         ELSE e' = (e - 1) % Word /\ UNCHANGED pc
    /\ UNCHANGED <<mmap, entry, total, bytes, a, mbfree>>

Filled ==
    /\ pc = "fill" /\ ~MoreToFill
    /\ pc' = "done"
    /\ UNCHANGED <<mmap, entry, total, bytes, clear, a, mbfree, e, stack>>

Next ==
    \/ SumEntry \/ LayOut
    \/ EnterRegion \/ SkipRegion \/ FreePage \/ LeaveRegion
    \/ StartFilling \/ FillStack \/ Filled

(* The boot code runs with interrupts off and nothing else to do.           *)
Spec == Init /\ [][Next]_initVars /\ WF_initVars(Next)

-----------------------------------------------------------------------------
NBits == bytes * ByteBits
OnStack == {stack[i] : i \in DOMAIN stack}
Free == OnStack \cup {f \in clear : f < NBits}

(* The page of f is memory of one available region.                         *)
IsRAM(f) ==
    \E i \in DOMAIN mmap :
        /\ mmap[i].available
        /\ mmap[i].addr <= f * PageSize
        /\ (f + 1) * PageSize <= mmap[i].addr + mmap[i].len

(* What the boot loader of a machine with less than 4 GB passes: available *)
(* regions start at a page below Word and are shorter than Word by a page, *)
(* and low memory lies in front of the kernel.                             *)
PlainMap(m) ==
    /\ m \in Seq([addr : Nat, len : Nat, available : BOOLEAN])
    /\ \A i \in DOMAIN m : m[i].available =>
         /\ m[i].addr % PageSize = 0 /\ m[i].addr < Word
         /\ m[i].len <= Word - PageSize
         /\ m[i].addr = 0 => m[i].len <= KEnd

(* "See what's free in MultiBoot Header" (PhysMem_Hybrid.c:91): no frame is *)
(* free that the header does not offer, or that holds the kernel, the ram   *)
(* disk, the bitmap or the stack: PhysMem_allocate would hand them out.     *)
FreedIsRAM ==
    pc # "sum" => \A f \in Free : IsRAM(f) /\ StructuresEnd <= f * PageSize

(* That holds on machines with less than 4 GB, up to the last page, with    *)
(* holes that are reported or not.                                          *)
PlainFreedIsRAM == PlainMap(mmap) => FreedIsRAM

(* The bits the loops clear, test and set are bits of the bitmap or of the  *)
(* byte behind it: nothing is written into the stack or beyond it.          *)
InsideBitmap ==
    /\ pc # "sum" => \A f \in clear : f < NBits + ByteBits
    /\ pc = "fill" => e < NBits + ByteBits

(* What the initialisation leaves is a state PhysMemHybrid starts from: the *)
(* stack holds the free frames below its first one, in descending order,    *)
(* and their bits are set.                                                  *)
Hybrid(n) == INSTANCE PhysMemHybrid WITH
    NFrames <- n, bitmap <- (0 .. n - 1) \ clear, held <- {}, panicked <- FALSE

ReadyForAllocator ==
    pc = "done" => \A n \in 1 .. Word : n = NBits => Hybrid(n)!Init

(* "Each modules *must* have init fuction that returns true (1) or false    *)
(* (0)" (Kernel.c:115).                                                     *)
InitReturns == <>(pc = "done")

(* The loops that count unsigned numbers up to a region's length, and down  *)
(* to the first frame, end on every machine with less than 4 GB.            *)
PlainInitReturns == PlainMap(mmap) => InitReturns

(* "See what's free in MultiBoot Header" (PhysMem_Hybrid.c:91): the frames  *)
(* the map offers behind the structures are free in the end.                *)
AllRAMFound ==
    pc = "done" =>
        \A f \in 0 .. NBits - 1 :
            IsRAM(f) /\ StructuresEnd <= f * PageSize => f \in Free
=============================================================================

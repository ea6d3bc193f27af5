------------------------------ MODULE HeapChunks ------------------------------
(***************************************************************************)
(* dlmalloc as the kernel and the programs build it (malloc.c without mmap,*)
(* morecore contiguous) over the heap break of HeapMem_SBRK.c.             *)
(*                                                                         *)
(* Sizes and addresses are in units of 8 bytes, MALLOC_ALIGNMENT.  A chunk *)
(* is in use, or in a bin, or it is dv (the designated victim, what was    *)
(* left of the last split), or top, behind which only the foot follows.    *)
(* Which of the chunks of one size a bin offers first is left open.        *)
(*                                                                         *)
(* Nobody else moves the break: the kernel's is moved by malloc alone, and *)
(* no program of the ram disk calls sbrk itself.                           *)
(***************************************************************************)
EXTENDS Integers, FiniteSets

CONSTANTS
    HeapBase,       \* KERNEL_HEAP_BASE or USER_HEAP_BASE
    Page,           \* page size
    Limit,          \* bound on the heap; KERNEL_HEAP_SIZE_MAX for the kernel
    Request,        \* chunk sizes asked for, overhead and rounding included
    MinChunk,       \* MIN_CHUNK_SIZE
    MaxSmall,       \* MAX_SMALL_SIZE: larger chunks are in tree bins
    Foot,           \* TOP_FOOT_SIZE
    TrimThreshold   \* DEFAULT_TRIM_THRESHOLD

ASSUME HeapAssumption ==
    /\ HeapBase \in Nat /\ Page \in Nat \ {0}
    /\ Limit \in Nat
    /\ MinChunk \in Nat \ {0} /\ Request \subseteq {n \in Nat : n >= MinChunk}
    /\ MaxSmall \in Nat /\ Foot \in Nat
    /\ TrimThreshold \in Nat /\ TrimThreshold >= Page + Foot

VARIABLES
    used, bins,     \* chunks in use and free chunks
    dv, top,        \* of size 0 if there is none
    brk,            \* kheap_top or heap.top
    panicked        \* "no", or why Kernel_panic was called

vars == <<used, bins, dv, top, brk, panicked>>

Chunk(at, size) == [at |-> at, size |-> size]
End(c) == c.at + c.size
None == Chunk(HeapBase, 0)

Init ==
    /\ used = {} /\ bins = {}
    /\ dv = None /\ top = None
    /\ brk = HeapBase
    /\ panicked = "no"
-----------------------------------------------------------------------------
Dv == IF dv.size > 0 THEN {dv} ELSE {}
Small(n) == n <= MaxSmall
Smallest(S) == {c \in S : \A d \in S : c.size <= d.size}

(* A small bin whose chunks fit without a remainder worth keeping: the bin *)
(* of that size, or the next one.                                          *)
Exact_Previous(n) ==    \* faulty: the bin before, whose chunks are too small
    LET same == {c \in bins : c.size = n}
    IN  IF same # {} THEN same ELSE {c \in bins : c.size = n - 1}
Exact(n) ==
    LET same == {c \in bins : c.size = n}
    IN  IF same # {} THEN same ELSE {c \in bins : c.size = n + 1 /\ Small(c.size)}

(* The bins a request looks at when there is no exact fit, and what is     *)
(* taken from them: tmalloc_large prefers dv when it fits better.          *)
Fitting(n) == {c \in bins : c.size >= n}
BetterThanDv(n, c) == dv.size < n \/ c.size < dv.size
Binned(n) ==
    IF Small(n) THEN IF Exact(n) # {} THEN Exact(n)
                     ELSE IF n > dv.size THEN Smallest(Fitting(n)) ELSE {}
    ELSE {c \in Smallest(Fitting(n)) : BetterThanDv(n, c)}

(* What is left of a chunk when n is cut off; too small a rest stays with  *)
(* the chunk.                                                              *)
Rest_Lost(c, n) == Chunk(c.at + n + 1, c.size - n - 1)  \* faulty: off by one
Rest(c, n) == Chunk(c.at + n, c.size - n)
Splits_Always(c, n) == c.size > n   \* faulty: a rest too small for its links
Splits(c, n) == c.size - n >= MinChunk

(* What the caller gets; what it asked for is recorded for the promise.    *)
InUse(c, n) == [at |-> c.at, size |-> c.size, asked |-> n]
Cut(c, n) == InUse(IF Splits(c, n) THEN Chunk(c.at, n) ELSE c, n)

(* Steps 1 and 3 of dlmalloc for a small request, 1 for a large one.  The  *)
(* rest of a small request becomes dv, and the old dv goes to a bin.       *)
FromBin(n) == \E c \in Binned(n) :
    /\ used' = used \cup {Cut(c, n)}
    /\ IF ~Splits(c, n)
         THEN bins' = bins \ {c} /\ dv' = dv
         ELSE IF Small(n)
           THEN dv' = Rest(c, n) /\ bins' = (bins \ {c}) \cup Dv
           ELSE dv' = dv /\ bins' = (bins \ {c}) \cup {Rest(c, n)}
    /\ UNCHANGED <<top, brk>>

FromDv(n) ==
    /\ Binned(n) = {} /\ n <= dv.size
    /\ used' = used \cup {Cut(dv, n)}
    /\ dv' = IF Splits(dv, n) THEN Rest(dv, n) ELSE None
    /\ UNCHANGED <<bins, top, brk>>

DvFits_Ignored(n) == FALSE  \* faulty: grows although dv fits
DvFits(n) == n <= dv.size
NothingFits(n) == Binned(n) = {} /\ ~DvFits(n)

TopRest_Stays(c, n) == Chunk(c.at, c.size - n)  \* faulty: top is not moved up
TopRest(c, n) == Rest(c, n)

FromTop(n) ==
    /\ NothingFits(n) /\ n < top.size
    /\ used' = used \cup {InUse(Chunk(top.at, n), n)}
    /\ top' = TopRest(top, n)
    /\ UNCHANGED <<bins, dv, brk>>

(* sys_alloc: as many pages as are needed to put n and the foot into top.  *)
(* KSBRK panics at the limit, it never reports failure.                    *)
PagesFor(x) == (x + Page - 1) \div Page
Growth(n) == PagesFor(n - top.size + Foot + 1) * Page
GrownTop(n) ==
    IF top.size = 0 THEN Chunk(brk, Growth(n) - Foot)
    ELSE Chunk(top.at, top.size + Growth(n))

SysAlloc(n) ==
    /\ NothingFits(n) /\ n >= top.size
    /\ brk + Growth(n) <= HeapBase + Limit
    /\ brk' = brk + Growth(n)
    /\ used' = used \cup {InUse(Chunk(GrownTop(n).at, n), n)}
    /\ top' = Rest(GrownTop(n), n)
    /\ UNCHANGED <<bins, dv>>

Malloc(n) ==
    /\ panicked = "no"
    /\ FromBin(n) \/ FromDv(n) \/ FromTop(n) \/ SysAlloc(n)
    /\ UNCHANGED panicked

OutOfHeap(n) ==
    /\ panicked = "no"
    /\ NothingFits(n) /\ n >= top.size /\ brk + Growth(n) > HeapBase + Limit
    /\ panicked' = "full"
    /\ UNCHANGED <<used, bins, dv, top, brk>>

(* dlfree: the chunk is joined with a free chunk before and one behind it. *)
(* The result is top if one of them was, else dv if one of them was, else  *)
(* it goes to a bin.                                                       *)
Before_Forgotten(c) == {}   \* faulty: no consolidation backward
Before(c) == {f \in bins \cup Dv : End(f) = c.at}
After(c) == {f \in bins \cup Dv \cup {top} : f.at = End(c)}

Joined(c) ==
    LET lo == IF Before(c) = {} THEN c ELSE CHOOSE f \in Before(c) : TRUE
        hi == IF After(c) = {} THEN c ELSE CHOOSE f \in After(c) : TRUE
    IN  Chunk(lo.at, End(hi) - lo.at)

Release(c) ==
    LET neighbours == Before(c) \cup After(c)
    IN  /\ used' = used \ {c}
        /\ \/ /\ top \in neighbours
              /\ top' = Joined(c)
              /\ bins' = bins \ neighbours
              /\ dv' = IF dv \in neighbours THEN None ELSE dv
           \/ /\ top \notin neighbours /\ dv \in neighbours
              /\ dv' = Joined(c)
              /\ bins' = bins \ neighbours
              /\ top' = top
           \/ /\ top \notin neighbours /\ dv \notin neighbours
              /\ bins' = (bins \ neighbours) \cup {Joined(c)}
              /\ UNCHANGED <<dv, top>>
        /\ brk' = brk

(* sys_trim gives all of top but one page back to the break when top has   *)
(* grown beyond the threshold: a negative request, at which KSBRK and SBRK *)
(* panic, whatever the break is (the test ends in a semicolon).            *)
Trims(c) == top \in After(c) /\ Joined(c).size > TrimThreshold

DlFree(c) == panicked = "no" /\ ~Trims(c) /\ Release(c) /\ UNCHANGED panicked
DlFreeTrims(c) ==
    /\ panicked = "no" /\ Trims(c)
    /\ panicked' = "trim"
    /\ UNCHANGED <<used, bins, dv, top, brk>>

Next ==
    \/ \E n \in Request : Malloc(n) \/ OutOfHeap(n)
    \/ \E c \in used : DlFree(c) \/ DlFreeTrims(c)

Spec == Init /\ [][Next]_vars
-----------------------------------------------------------------------------
FreeChunks == bins \cup Dv
Apart(c, d) == End(c) <= d.at \/ End(d) <= c.at

(* Type correctness.  Every chunk is large enough for the two links that a *)
(* free one holds (MIN_CHUNK_SIZE, malloc.c:763).                          *)
AnAddress == {a \in Nat : a >= HeapBase}
ASize == {n \in Nat : n >= MinChunk}
AChunk == [at : AnAddress, size : ASize]
HTypeOK ==
    /\ used \subseteq [at : AnAddress, size : ASize, asked : Request]
    /\ bins \subseteq AChunk
    /\ dv \in AChunk \cup {None}
    /\ top \in [at : AnAddress, size : Nat]
    /\ brk \in Nat
    /\ panicked \in {"no", "full", "trim"}

(* Chunks do not overlap, in use or free, and top is above them all, inside*)
(* the break: nobody's data is inside another's block or a free chunk.     *)
ChunksDisjoint ==
    /\ \A c, d \in used : c = d \/ Apart(c, d)
    /\ \A c, d \in bins : c = d \/ Apart(c, d)
    /\ \A c \in used, d \in bins : Apart(c, d)
    /\ dv.size > 0 => \A c \in used \cup bins : Apart(c, dv)
    /\ \A c \in used \cup bins \cup Dv : End(c) <= top.at
    /\ End(top) <= brk

(* No unit of the heap is lost: every chunk but the first begins where     *)
(* another ends, and top and its foot end at the break.                    *)
NothingLost ==
    top.size > 0 =>
        /\ End(top) + Foot = brk
        /\ \A c \in used \cup FreeChunks \cup {top} :
             c.at = HeapBase \/ \E d \in used \cup FreeChunks : End(d) = c.at

(* Free memory is never in two adjacent pieces, so that a request that fits*)
(* into free memory side by side is served: "Consolidate freed chunks with *)
(* preceeding or succeeding bordering free chunks" (malloc.c:3197).        *)
Coalesced ==
    \A c \in FreeChunks : \A d \in FreeChunks \cup {top} : d.size > 0 => End(c) # d.at

(* The heap grows only when no free chunk would do, which matters in a heap*)
(* that never shrinks.                                                     *)
GrowsOnlyWhenNeeded ==
    [][brk' # brk => \E c \in used' \ used : \A f \in FreeChunks : f.size < c.size]_vars

(* The promise to callers.                                                 *)
Blocks == INSTANCE HeapBlocks WITH live <- used, end <- brk
ImplementsBlocks == Blocks!BSpec

(* "MORECORE need not handle negative arguments -- it may instead just     *)
(* return MFAIL when given negative arguments" (malloc.c:4506): free never *)
(* stops the machine.                                                      *)
FreeReturns == panicked # "trim"
=============================================================================

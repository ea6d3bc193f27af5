---------------------------- MODULE PhysMemHybrid ----------------------------
(***************************************************************************)
(* The frame allocator the kernel boots with, PhysMem_Hybrid.c: frames     *)
(* below MaxStack are given back to a stack, all others to a bitmap, and   *)
(* allocation empties the stack before it searches the bitmap.  A frame is *)
(* its index; index and address differ by the factor PAGE_SIZE.            *)
(* PhysMemInit models how the free frames are found at boot.               *)
(***************************************************************************)
EXTENDS Integers, Sequences, FiniteSets

CONSTANTS
    MaxStack,   \* MAX_PHYS_STACK; 0 for PhysMem_Bitmap.c, which has no stack
    NFrames     \* phys_bitmap->bytes * 8

ASSUME PhysMemAssumption ==
    /\ MaxStack \in Nat
    /\ NFrames \in Nat \ {0}

Frames == 0 .. NFrames - 1

VARIABLES
    bitmap,     \* the frames whose bit is set
    stack,      \* phys_stack, top last
    held,       \* history: the frames the callers own
    panicked

vars == <<bitmap, stack, held, panicked>>

OnStack == {stack[i] : i \in DOMAIN stack}
Clear == Frames \ bitmap

-----------------------------------------------------------------------------
(* The loop that fills the stack goes through the free frames downwards.    *)
DescendingStacks(F) ==
    {s \in UNION {[1 .. n -> F] : n \in 0 .. MaxStack} :
        /\ F = {s[i] : i \in DOMAIN s}
        /\ \A i, j \in DOMAIN s : i < j => s[i] > s[j]}

(* PhysMem_Hybrid_init found the free frames F; frame 0 is never among them.*)
(* It fills the stack from frame start downwards: MaxStack, or the number   *)
(* of free frames it counted.                                               *)
Init ==
    /\ \E F \in SUBSET (Frames \ {0}), start \in 0 .. MaxStack :
          /\ stack \in DescendingStacks({f \in F : f <= start})
          /\ bitmap = Frames \ {f \in F : f > start}
    /\ held = {}
    /\ panicked = FALSE

-----------------------------------------------------------------------------
(* Stack_push drops the element when the stack is full; faulty: the limit is*)
(* one element short.                                                       *)
Pushed_TooShort(s, f) == IF Len(s) + 1 < MaxStack THEN Append(s, f) ELSE s
Pushed(s, f) == IF Len(s) + 1 <= MaxStack THEN Append(s, f) ELSE s

(* Bitmap_setBit and Bitmap_clearBit; faulty: the bit is not set.           *)
WithBit_Lost(f) == bitmap
WithBit(f) == bitmap \cup {f}
WithoutBit(f) == bitmap \ {f}

(* The search for the first clear bit.                                      *)
FirstClear(f) == f \in Clear /\ \A g \in Clear : f <= g

AllocateFromStack ==
    /\ ~panicked
    /\ Len(stack) > 0
    /\ stack' = SubSeq(stack, 1, Len(stack) - 1)
    /\ held' = held \cup {stack[Len(stack)]}
    /\ UNCHANGED <<bitmap, panicked>>

AllocateFromBitmap(f) ==
    /\ ~panicked
    /\ Len(stack) = 0
    /\ FirstClear(f)
    /\ bitmap' = WithBit(f)
    /\ held' = held \cup {f}
    /\ UNCHANGED <<stack, panicked>>

(* No clear bit is left: Kernel_panic.                                      *)
OutOfMemory ==
    /\ ~panicked
    /\ Len(stack) = 0
    /\ Clear = {}
    /\ panicked' = TRUE
    /\ UNCHANGED <<bitmap, stack, held>>

(* PhysMem_Hybrid_free, called as VirtMem_unmapPage does: with a frame the  *)
(* caller owns.                                                             *)
Free(f) ==
    /\ ~panicked
    /\ f \in held
    /\ held' = held \ {f}
    /\ IF f < MaxStack
         THEN stack' = Pushed(stack, f) /\ UNCHANGED bitmap
         ELSE bitmap' = WithoutBit(f) /\ UNCHANGED stack
    /\ UNCHANGED panicked

Next ==
    \/ AllocateFromStack
    \/ \E f \in Frames : AllocateFromBitmap(f)
    \/ OutOfMemory
    \/ \E f \in Frames : Free(f)

Spec == Init /\ [][Next]_vars

-----------------------------------------------------------------------------
TypeOK ==
    /\ bitmap \subseteq Frames
    /\ stack \in Seq(Frames)
    /\ held \subseteq Frames
    /\ panicked \in BOOLEAN

(* The stack and the bitmap together are an allocator: its free frames are  *)
(* those on the stack and those whose bit is clear.  No frame has two       *)
(* owners, none is lost when it is given back, although Stack_push drops    *)
(* what does not fit, and a panic means that every frame is in use.         *)
Allocator == INSTANCE FrameAllocator WITH free <- OnStack \cup Clear

ImplementsAllocator == Allocator!Spec

(* A frame that has an owner is not free anywhere, so it is not handed out  *)
(* again, and no frame is on the stack twice.  Frame 0, whose address reads *)
(* as "no frame" to mapPage, is never handed out.                           *)
NoRepetition == \A i, j \in DOMAIN stack : stack[i] = stack[j] => i = j

OneOwner ==
    /\ held \cap (OnStack \cup Clear) = {}
    /\ NoRepetition
    /\ 0 \notin held

(* "Alloc must return NULL (in Common.h) if out of memory" (Memory.h:49):   *)
(* the caller of PhysMem_allocate goes on when every frame is in use.       *)
AllocateReturns == ~panicked

(* The strengthening: a frame on the stack has its bit set and is one that  *)
(* the stack has room for, so that Stack_push never drops one.              *)
StackSound == OnStack \subseteq bitmap \cap (1 .. MaxStack)

IInv ==
    /\ TypeOK
    /\ StackSound
    /\ OneOwner
    /\ 0 \in bitmap
=============================================================================

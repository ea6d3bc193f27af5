--------------------------- MODULE FrameAllocator ---------------------------
(***************************************************************************)
(* What the code behind PhysMem_allocate and PhysMem_free does, whichever  *)
(* structures it uses: a frame is handed out to one owner until it is given*)
(* back, a frame that is given back is available again, and the kernel     *)
(* panics, but only if none is free.  The header core/interfaces/Memory.h  *)
(* (line 49) asks for something else in that case: allocate must return    *)
(* NULL.  AllocateReturns in PhysMemHybrid states that.                    *)
(***************************************************************************)
CONSTANT Frames

VARIABLES
    free,      \* frames that can be handed out
    held,      \* frames handed out and not given back
    panicked

allocVars == <<free, held, panicked>>

Init ==
    /\ free \subseteq Frames
    /\ held = {}
    /\ panicked = FALSE

Allocate(f) ==
    /\ ~panicked
    /\ f \in free
    /\ free' = free \ {f}
    /\ held' = held \cup {f}
    /\ UNCHANGED panicked

(* Kernel_panic (PhysMem_Hybrid.c:47), in place of a NULL.                  *)
OutOfMemory ==
    /\ ~panicked
    /\ free = {}
    /\ panicked' = TRUE
    /\ UNCHANGED <<free, held>>

Free(f) ==
    /\ ~panicked
    /\ f \in held
    /\ free' = free \cup {f}
    /\ held' = held \ {f}
    /\ UNCHANGED panicked

Next ==
    \/ \E f \in Frames : Allocate(f) \/ Free(f)
    \/ OutOfMemory

Spec == Init /\ [][Next]_allocVars
=============================================================================

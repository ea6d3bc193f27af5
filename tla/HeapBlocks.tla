------------------------------ MODULE HeapBlocks ------------------------------
(***************************************************************************)
(* What malloc and free (core/debug/Common.h, pointers set by              *)
(* HeapMem_SBRK_init) promise their callers: a block handed out lies inside*)
(* the heap, is as large as asked for, overlaps no other block in use and  *)
(* stays where it is until it is freed.  HeapChunks implements this.       *)
(***************************************************************************)
EXTENDS Naturals

CONSTANTS HeapBase, Request     \* the sizes callers ask for

VARIABLES
    live,   \* the blocks in use: where they start, how long they are,
            \* what their owner asked for
    end     \* the heap's end

bVars == <<live, end>>

Room(b) == b.at .. b.at + b.size - 1

BInit == live = {} /\ end = HeapBase

Malloc(n) ==
    /\ end' >= end
    /\ \E b \in live' :
         /\ live' = live \cup {b} /\ b \notin live
         /\ b.asked = n /\ b.size >= n
         /\ Room(b) \subseteq HeapBase .. end' - 1
         /\ \A other \in live : Room(b) \cap Room(other) = {}

Free(b) == live' = live \ {b} /\ end' = end

BNext == (\E n \in Request : Malloc(n)) \/ (\E b \in live : Free(b))

BSpec == BInit /\ [][BNext]_bVars
=============================================================================

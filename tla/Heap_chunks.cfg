\* Heap_chunks: see README.md, section "Runs".
CONSTANTS
    HeapBase = 0
    Page = 10
    Limit = 20
    Request = {2, 3, 6}
    MinChunk = 2
    MaxSmall = 4
    Foot = 1
    TrimThreshold = 11

SPECIFICATION Spec
INVARIANTS HTypeOK ChunksDisjoint NothingLost Coalesced
PROPERTIES ImplementsBlocks GrowsOnlyWhenNeeded
\* Kernel_panic stops the machine.
CHECK_DEADLOCK FALSE

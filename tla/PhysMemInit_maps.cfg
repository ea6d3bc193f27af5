\* PhysMemInit_maps: see README.md, section "Runs".
CONSTANTS
    PageSize = 4
    Word = 64
    ByteBits = 3
    MaxStack = 6
    KEnd = 5
    HeaderSize = 1
    ElementSize = 1
    Maps <- PCMaps

SPECIFICATION Spec
INVARIANTS PlainFreedIsRAM InsideBitmap ReadyForAllocator
PROPERTIES PlainInitReturns
\* PhysMem_Hybrid_init returns.
CHECK_DEADLOCK FALSE

\* PhysMem_alloc: see README.md, section "Runs".
CONSTANTS
    MaxStack = 3
    NFrames = 6

SPECIFICATION Spec
INVARIANTS OneOwner
PROPERTIES ImplementsAllocator
\* Kernel_panic stops the machine.
CHECK_DEADLOCK FALSE

\* PhysMem_exhausted: see README.md, section "Runs".
CONSTANTS
    MaxStack = 3
    NFrames = 6

SPECIFICATION Spec
INVARIANTS AllocateReturns
\* Kernel_panic stops the machine.
CHECK_DEADLOCK FALSE

\* Paging_spaces: see README.md, section "Runs".
CONSTANTS
    Width = 6
    NFrames = 27
    FirstFrees = {2, 5}
    Leftover <- Clear
    MaxPid = 2
    Images = {1, 2}
    MaxHeap = 2
    MaxKernelHeap = 3

SPECIFICATION Spec
INVARIANTS PTypeOK KernelShared Isolation HeapsBacked FramesAccounted PagesGiven
PROPERTIES ImplementsSpaces
\* Kernel_panic stops the machine.
CHECK_DEADLOCK FALSE

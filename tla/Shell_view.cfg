\* Shell_view: see README.md, section "Runs".
CONSTANTS
    VGA_WIDTH = 6
    VGA_HEIGHT = 2
    TAR_BLOCKSIZE = 2
    Archives <- RamDisks
    Letter = {"view", "a"}
    MaxKeys = 5

SPECIFICATION Spec
INVARIANTS ViewIsExact
\* The shell may kill itself, and Kernel_panic stops the machine.
CHECK_DEADLOCK FALSE

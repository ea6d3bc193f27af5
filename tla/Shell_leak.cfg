\* Shell_leak: see README.md, section "Runs".
CONSTANTS
    VGA_WIDTH = 6
    VGA_HEIGHT = 2
    TAR_BLOCKSIZE = 2
    Archives <- LongTexts
    Letter = {"view", "a"}
    MaxKeys = 5

SPECIFICATION Spec
INVARIANTS BlocksReleased
\* The shell may kill itself, and Kernel_panic stops the machine.
CHECK_DEADLOCK FALSE

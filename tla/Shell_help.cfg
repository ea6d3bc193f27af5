\* Shell_help: see README.md, section "Runs".
CONSTANTS
    VGA_WIDTH = 6
    VGA_HEIGHT = 2
    TAR_BLOCKSIZE = 2
    Archives <- RamDisks
    Letter = {"ls", "a"}
    MaxKeys = 8

SPECIFICATION Spec
INVARIANTS HelpIsTrue
\* The shell may kill itself, and Kernel_panic stops the machine.
CHECK_DEADLOCK FALSE

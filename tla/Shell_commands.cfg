\* Shell_commands: see README.md, section "Runs".
CONSTANTS
    VGA_WIDTH = 6
    VGA_HEIGHT = 2
    TAR_BLOCKSIZE = 2
    Archives <- RamDisks
    Letter = {"ls", "view", "exec", "help", "killme", "a"}
    MaxKeys = 6

SPECIFICATION Spec
INVARIANTS STypeOK CursorOnScreen ParsedAsTyped EchoMatches ShowsFiles
\* The shell may kill itself, and Kernel_panic stops the machine.
CHECK_DEADLOCK FALSE

\* Keyboard_lost: see README.md, section "Runs".
CONSTANTS
    MaxPid = 1
    Ticks = 3
    ForegroundOnce = TRUE
    GetInputPoints = {"check", "fetch", "loadR", "storeR", "loadCount", "storeCount", "wrap", "return"}
    KEYBUFFER_MAX = 4
    MaxKeys = 2
    NulKeys = FALSE

SPECIFICATION KFairSpec
PROPERTIES EveryKeyDelivered
\* Kernel_panic stops the machine.
CHECK_DEADLOCK FALSE

\* Keyboard_read: see README.md, section "Runs".
CONSTANTS
    MaxPid = 1
    Ticks = 3
    ForegroundOnce = TRUE
    GetInputPoints = {"check", "fetch", "loadR", "storeR", "loadCount", "storeCount", "wrap", "return"}
    KEYBUFFER_MAX = 2
    MaxKeys = 3
    NulKeys = TRUE

SPECIFICATION KFairSpec
INVARIANTS KTypeOK DeliveredInOrder
PROPERTIES ImplementsScheduling KeysReachReader
\* Kernel_panic stops the machine.
CHECK_DEADLOCK FALSE

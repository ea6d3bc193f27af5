\* Scheduling_liveness: see README.md, section "Runs".
CONSTANTS
    MaxPid = 3
    Ticks = 3
    ForegroundOnce = TRUE
    GetInputPoints = {}

SPECIFICATION FairSpec
INVARIANTS BlockedHasWaker
PROPERTIES EveryoneRuns
\* Kernel_panic stops the machine.
CHECK_DEADLOCK FALSE

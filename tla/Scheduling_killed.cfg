\* Scheduling_killed: see README.md, section "Runs".
CONSTANTS
    MaxPid = 2
    Ticks = 3
    ForegroundOnce = TRUE
    GetInputPoints = {}

SPECIFICATION Spec
INVARIANTS KilledRunsNoUserCode
\* Kernel_panic stops the machine.
CHECK_DEADLOCK FALSE

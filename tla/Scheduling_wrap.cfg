\* Scheduling_wrap: see README.md, section "Runs".
CONSTANTS
    MaxPid = 2
    Ticks = 4
    ForegroundOnce = TRUE
    GetInputPoints = {}

SPECIFICATION Spec
PROPERTIES DR0OnlyOnSwitch
\* Kernel_panic stops the machine.
CHECK_DEADLOCK FALSE

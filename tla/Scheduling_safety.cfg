\* Scheduling_safety: see README.md, section "Runs".
CONSTANTS
    MaxPid = 3
    Ticks = 3
    ForegroundOnce = FALSE
    GetInputPoints = {}

SPECIFICATION Spec
INVARIANTS TypeOK RunnableExists ListHoldsLive ContextKept ContextCoherent
PROPERTIES NoResurrection BlockedWaits
\* Kernel_panic stops the machine.
CHECK_DEADLOCK FALSE

CONSTANTS
    Timers = {t1, t2}
    Periodic = {t2}
    Seconds = {t2}
    MsPerSecond = 3
    Timeouts = {0, 1}
    IdleSleep = 3
    Wrap = 4
    MaxNow = 9
    MaxStarts = 3
    MaxPosted = 1
    t1 = t1
    t2 = t2
SPECIFICATION Spec
INVARIANTS ListIsSound NeverOversleeps CountsNoFalseRollover
PROPERTIES NeverEarlyIfCounted NothingOverlookedIfCounted ImplementsService
\* the process may crash, or its modelled time be over
CHECK_DEADLOCK FALSE

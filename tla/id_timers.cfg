CONSTANTS
    Timers = {t1, t2, t3}
    Periodic = {t2}
    MaxId = 4
    MaxStarts = 7
    t1 = t1
    t2 = t2
    t3 = t3
SPECIFICATION FairSpec
INVARIANTS OneExpiryEach
PROPERTIES NoStaleExpiry ImplementsService ExpiryIsServed
\* the application may start no more timers
CHECK_DEADLOCK FALSE

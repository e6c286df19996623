CONSTANTS
    Chunks = 2
    MaxConnects = 2
    MaxStarts = 2
    Overlap = FALSE
SPECIFICATION FairSpec
INVARIANTS TypeOK OneWorker OneVerdict
PROPERTIES SuccessImpliesImage JoinEnds StopIsServed UpgradeConcludes
\* the client may stay unconnected for ever
CHECK_DEADLOCK FALSE

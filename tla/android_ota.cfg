CONSTANTS
    Chunks = 2
    MaxConnects = 2
    MaxStarts = 2
    MaxOthers = 1
    MaxCalls = 4
SPECIFICATION FairSpec
INVARIANTS TypeOK Serialized
PROPERTIES SuccessImpliesImage ImageSent UpgradeConcludes QueueMoves
\* nothing more need happen
CHECK_DEADLOCK FALSE

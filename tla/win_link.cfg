CONSTANT MaxConnects = 6
SPECIFICATION FairSpec
INVARIANTS ConnectingAwaits
PROPERTIES ConnectedMeansSubscribed ConnectIsAnswered 
\* the client may stay unconnected for ever
CHECK_DEADLOCK FALSE

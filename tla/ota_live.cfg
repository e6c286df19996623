CONSTANTS
    ImageSize = 2
    MaxPacket = 2
    Adapters = {"ble", "mesh"}
    DfuTypes = {"app", "dfu"}
    AppInfo = FALSE
    MaxStarts = 1
    MaxStops = 1
    MaxResets = 0
    MaxRequests = 1
SPECIFICATION FairSpec
PROPERTIES SessionEnds
\* the phone may stay idle, or wait for its device, for ever
CHECK_DEADLOCK FALSE

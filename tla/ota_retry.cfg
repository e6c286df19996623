CONSTANTS
    ImageSize = 3
    MaxPacket = 2
    Adapters = {"ble", "mesh"}
    DfuTypes = {"app", "dfu"}
    AppInfo = FALSE
    MaxStarts = 2
    MaxStops = 1
    MaxResets = 1
    MaxRequests = 1
    MaxBlocks = 2
SPECIFICATION Spec
CONSTRAINT FewBlocks
PROPERTIES SuccessImpliesImage ReportsKept
\* the phone may stay idle, or wait for its device, for ever
CHECK_DEADLOCK FALSE

CONSTANTS
    ImageSize = 3
    MaxPacket = 2
    Adapters = {"ble"}
    DfuTypes = {"app"}
    AppInfo = TRUE
    MaxStarts = 1
    MaxStops = 0
    MaxResets = 0
    MaxRequests = 3
SPECIFICATION Spec
PROPERTIES DiscoveryIsReported
\* the phone may stay idle, or wait for its device, for ever
CHECK_DEADLOCK FALSE

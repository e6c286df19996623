CONSTANTS
    ImageSize = 3
    MaxPacket = 2
    Adapters = {"ble"}
    DfuTypes = {"app"}
    AppInfo = FALSE
    MaxStarts = 1
    MaxStops = 1
    MaxResets = 1
    MaxRequests = 3
SPECIFICATION Spec
INVARIANTS TypeOK IdleIsNotRunning NeverStalls
PROPERTIES SuccessImpliesImage
\* the phone may stay idle, or wait for its device, for ever
CHECK_DEADLOCK FALSE

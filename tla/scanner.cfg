CONSTANTS
    bulb = bulb
    switch = switch
    sensor = sensor
    phone = phone
    Nobody = Nobody
    Devices = {bulb, switch, sensor, phone}
    Services <- MCServices
    MaxPackets = 5
    MaxScans = 3
SPECIFICATION Spec
INVARIANTS EachReportedOnce NothingInBetween
\* the scan may be over
CHECK_DEADLOCK FALSE

SPECIFICATION DevicesFairSpec
CONSTANTS
    door = door
    Devices = {door}
    TimeoutOf <- MCTimeouts
    WindowTicks = 1
    MaxPairings = 1
    MaxDeviceFaults = 1
PROPERTIES
    OfflineIsReportedAfterRestart

SPECIFICATION PressSpec
CONSTANTS
    NumPresses = 2
    NumLeft = 0
    QueueMax = 2
    MaxRetries = 1
    MaxFaults = 0
    NoRequest = NoRequest
CHECK_DEADLOCK FALSE
INVARIANTS
    RecordedOnce

SPECIFICATION WaitingSpec
CONSTANTS
    Threads = {t1, t2, t3, t4}
    NoOwner = NoOwner
    e1 = e1
    e2 = e2
    e3 = e3
    e4 = e4
    k1 = k1
    k2 = k2
    Events = {e1, e2, e3, e4}
    Tokens = {k1, k2}
    TokenOf <- MCTokenOf
    NoToken = NoToken
    NoEvent = NoEvent
    Window = 1
    NumPresses = 3
    NumLeft = 2
    QueueMax = 2
    MaxRetries = 2
    MaxFaults = 1
    NoRequest = NoRequest
    door = door
    Devices = {door}
    TimeoutOf <- MCTimeouts
    WindowTicks = 1
    MaxPairings = 3
    MaxDeviceFaults = 2
    MaxAttempts = 5
    LockoutTicks = 4
    Clicks = {c1, c2}
    MaxRearmFaults = 1
    Callers = {r1, r2}
    Capacity = 2
    LimitWindow = 3
    MaxFailures = 1
INVARIANTS
    LockHolds
    BufferHolds
    DoorbellHolds
    
    RearmHolds
PROPERTIES
    NoOvertaking
    NoEarlyTimeout
    ImplementsFifoMutex
    ImplementsCoalescing
    EventuallyServed
    EventuallyDispatched
    EveryPressSettles
    SilenceIsNoticed
    TimersEnd
CHECK_DEADLOCK FALSE

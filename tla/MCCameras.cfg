SPECIFICATION CamerasSpec
CONSTANTS
    a = a
    b = b
    m1 = m1
    m2 = m2
    Cameras = {a, b}
    Models = {m1, m2}
    Default = Default
    Off = Off
    Torn = Torn
    Configs <- MCConfigs
    Pause = 1
    FirstDelay = 1
    LastDelay = 2
    LongAfter = 3
    LongDelay = 4
    Debounce = 2
    Threshold = 4
    Interval = 2
    MaxFlaps = 4
    MaxRedisErrors = 1
    Day = 4
    MaxElapsed = 2
    Schedules <- MCSchedules
INVARIANTS
    LifecycleHolds
    HealthHolds
    
PROPERTIES
    SavedIsTaken
    DeadCameraIsFound

SPECIFICATION ConfigurationSpec
CONSTANTS
    MaxBackups = 2
    MaxWrites = 2
    Pages = {p1, p2}
    Devices = {d1, d2}
    DeviceNames = {"a", "b"}
    Groups = {g1}
    Forms = {f1}
    CameraNames = {"n1", "n2"}
    ChannelNames = {"c"}
    GroupNames = {"g"}
    CameraShapes <- MCShapes
    MaxSaves = 3
    Secrets <- MCSecrets
    MaxKeys = 2
    MaxEntries = 3
    MaxWebStarts = 3
    Channels = {c1, c2}
    DayLength = 2
    Week = 2
    Month = 3
    Timezones = {0, 1}
    Times = {0, 1}
    LastInstant = 5
    MaxDigestFaults = 1
    Classes = {"cat"}
    PeriodLength = 1
    Retention = 2
    LastSecond = 3
    Readings <- MCReadings
    Viewers = {v1, v2}
    MaxAsks = 2
    MaxUploads = 1
    CacheMax = 2
    MaxRpcFaults = 1
    EvalPages = {q1, q2}
    GroundTruth <- MCGroundTruth
    Predictions <- MCPredictions
    MaxEvalFaults = 1
    RoutingConfigs <- MCRoutingConfigs
    AlertClasses = {"person", "dog"}
    Recognitions <- MCRecognitions
VIEW PartState
INVARIANTS
    
    
    DeterrentHolds
    FormHolds
    
    MessagesHold
    
PROPERTIES
    OnlyRacesUndo
    FormKeepsTheRest
CHECK_DEADLOCK FALSE

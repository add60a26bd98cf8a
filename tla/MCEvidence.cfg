SPECIFICATION EvidenceSpec
CONSTANTS
    CameraThreads = {t1, t2}
    Cooldown = 1
    VisitTimeout = 2
    BufferMax = 1
    MaxEvents = 3
    MaxClock = 3
    MaxPublishErrors = 1
    MaxRowErrors = 1
    Detected = {d1}
    Presses = {p1}
    SystemEvents = {s1}
    Tokens = {k1, k2}
    Workers = {w1, w2}
    Segments = 4
    PreRoll = 1
    PostRoll = 1
    Backoff = 1
    MaxBackoff = 2
    StableRun = 3
    LastEventTime = 2
    MaxDeliveries = 2
    MaxExits = 1
    PoolSize = 1
    QueueDepth = 1
    Jobs = {"j1", "j2", "j3"}
    EventOf <- MCEventOf
    People = {f1}
    Placed = {"e1"}
    MaxRecogFaults = 1
    MaxFaceEdits = 2
    Uploads = {u1, u2}
    MaxFaces = 1
    MaxPhotos = 2
    MaxEnrollFaults = 2
VIEW PartState
SYMMETRY WorkersAlike
CONSTRAINT AtATime
INVARIANTS
    
    
    
    RecognizerHolds
    EnrollmentHolds
CHECK_DEADLOCK FALSE

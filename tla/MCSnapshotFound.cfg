SPECIFICATION EvidenceSpec
CONSTANTS
    CameraThreads = {t1, t2}
    Cooldown = 1
    VisitTimeout = 2
    BufferMax = 1
    MaxEvents = 0
    MaxClock = 3
    MaxPublishErrors = 1
    MaxRowErrors = 1
    Detected = {d1}
    Presses = {}
    SystemEvents = {}
    Tokens = {k1, k2}
    Workers = {w1}
    Segments = 4
    PreRoll = 1
    PostRoll = 1
    Backoff = 1
    MaxBackoff = 2
    StableRun = 3
    LastEventTime = 1
    MaxDeliveries = 0
    MaxExits = 1
    PoolSize = 1
    QueueDepth = 1
    Jobs = {"j1"}
    EventOf <- MCEventOf
    People = {f1}
    Placed = {}
    MaxRecogFaults = 0
    MaxFaceEdits = 1
    Uploads = {u1}
    MaxFaces = 1
    MaxPhotos = 2
    MaxEnrollFaults = 0
VIEW PartState
CONSTRAINT AtATime
INVARIANTS
    SavedSnapshotsAreFound
CHECK_DEADLOCK FALSE

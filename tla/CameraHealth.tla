----------------------------- MODULE CameraHealth -----------------------------
(***************************************************************************)
(* How an outage of a camera becomes an alert.  The camera's thread reads  *)
(* frames through RTSPStream (services/detector/src/stream.py), which      *)
(* reconnects with a growing delay, and reports every frame and every      *)
(* failure to CameraHealthTracker (camera_health.py).  StatsCollector      *)
(* (stats_collector.py) wakes at an interval, writes the statistics to     *)
(* Redis, asks the tracker for alerts and publishes them.                  *)
(*                                                                         *)
(* The clock moves on while both threads sleep.  Ages are kept up to the   *)
(* one that is old enough for every comparison.                            *)
(***************************************************************************)
EXTENDS Naturals

CONSTANTS
    Pause,          \* ticks the thread waits after a failure
    FirstDelay,     \* reconnect_delay
    LastDelay,      \* max_reconnect_delay
    LongAfter,      \* LONG_BACKOFF_AFTER_FAILURES
    LongDelay,      \* LONG_BACKOFF_SEC
    Debounce,       \* debounce_seconds
    Threshold,      \* alert_threshold_seconds
    Interval,       \* interval_seconds of the collector
    MaxFlaps,       \* bound: times the camera comes or goes
    MaxRedisErrors  \* bound: failed writes and publications

ASSUME HealthAssumption ==
    /\ {Pause, FirstDelay, LastDelay, LongAfter, LongDelay, Debounce, Threshold, Interval, MaxFlaps, MaxRedisErrors} \subseteq Nat
    /\ FirstDelay <= LastDelay /\ Pause > 0

VARIABLES
    cameraUp,    \* the camera can be reached
    flaps,
    reader,      \* the camera's thread and how long it still sleeps
    capture,     \* the stream is open
    delay,       \* _current_delay
    openFailures,\* _consecutive_failures
    sinceFrame,  \* age of last_frame_at, Never when it is 0
    offlineFor,  \* age of offline_since, Never when it is None
    onlineFor,   \* age of online_since, Never when it is None
    alertSent, outageAlerted,
    collector,   \* the collector and how long it still sleeps
    alerts,      \* what check_alerts returned and is not published yet
    outageAlerts,\* offline alerts since the last frame
    redisErrors

outageVars == <<cameraUp, flaps, reader, capture, delay, openFailures, sinceFrame, offlineFor, onlineFor,
                alertSent, outageAlerted, collector, alerts, outageAlerts, redisErrors>>

Never == Threshold + Debounce + 2
Old == Never - 1
Ages == 0 .. Never
Older(age) == IF age < Old THEN age + 1 ELSE age

HealthTypeOK ==
    /\ cameraUp \in BOOLEAN /\ capture \in BOOLEAN
    /\ reader \in [at : {"reading", "pausing", "reconnecting"}, left : Nat]
    /\ delay \in FirstDelay .. LastDelay /\ openFailures \in 0 .. LongAfter
    /\ sinceFrame \in Ages /\ offlineFor \in Ages /\ onlineFor \in Ages
    /\ alertSent \in BOOLEAN /\ outageAlerted \in BOOLEAN
    /\ collector \in [at : {"waiting", "checking", "publishing"}, left : 0 .. Interval]
    /\ alerts \in {"none", "camera_offline", "camera_recovered"}
    /\ outageAlerts \in 0 .. 2 /\ redisErrors \in 0 .. MaxRedisErrors

HealthInit ==
    /\ cameraUp \in BOOLEAN /\ flaps = 0
    /\ reader = [at |-> "pausing", left |-> 0] /\ capture = FALSE
    /\ delay = FirstDelay /\ openFailures = 0
    /\ sinceFrame = Never /\ offlineFor = Never /\ onlineFor = Never
    /\ alertSent = FALSE /\ outageAlerted = FALSE
    /\ collector = [at |-> "waiting", left |-> Interval]
    /\ alerts = "none" /\ outageAlerts = 0 /\ redisErrors = 0

streamVars == <<reader, capture, delay, openFailures>>
entryVars == <<sinceFrame, offlineFor, onlineFor, alertSent, outageAlerted>>
collectorVars == <<collector, alerts, redisErrors>>
environmentVars == <<cameraUp, flaps>>

-----------------------------------------------------------------------------
(* CameraHealthTracker, under its lock. *)

RecordFrame ==
    /\ sinceFrame' = 0
    /\ onlineFor' = IF offlineFor # Never \/ onlineFor = Never THEN 0 ELSE onlineFor
    /\ offlineFor' = Never
    /\ alertSent' = IF offlineFor # Never THEN FALSE ELSE alertSent
    /\ outageAlerts' = 0
    /\ UNCHANGED outageAlerted

\* Slips of the next: any failure puts the camera offline; a camera that was never online cannot
\* go offline.
DebouncedAtOnce == TRUE
DebouncedOnceOnline == sinceFrame # Never /\ sinceFrame > Debounce

\* A single failed read is not an outage.
Debounced == sinceFrame = Never \/ sinceFrame > Debounce

RecordFailure ==
    /\ IF offlineFor = Never /\ Debounced
       THEN (offlineFor' = 0 /\ onlineFor' = Never)
       ELSE UNCHANGED <<offlineFor, onlineFor>>
    /\ UNCHANGED <<sinceFrame, alertSent, outageAlerted, outageAlerts>>

OfflineDue == offlineFor # Never /\ ~alertSent /\ offlineFor >= Threshold

\* A slip of the next: a recovery is told as soon as a frame arrives.
RecoveryDueAtOnce == outageAlerted /\ offlineFor = Never /\ onlineFor # Never

\* A recovery is told once the camera has been online for as long as an outage takes to be told.
RecoveryDue == outageAlerted /\ offlineFor = Never /\ onlineFor # Never /\ onlineFor >= Threshold

CheckAlerts ==
    /\ alerts' = CASE OfflineDue -> "camera_offline" [] RecoveryDue -> "camera_recovered" [] OTHER -> "none"
    /\ alertSent' = (alertSent \/ OfflineDue)
    /\ outageAlerted' = ((outageAlerted \/ OfflineDue) /\ ~RecoveryDue)
    /\ outageAlerts' = IF OfflineDue THEN outageAlerts + 1 ELSE outageAlerts
    /\ UNCHANGED <<sinceFrame, offlineFor, onlineFor>>

-----------------------------------------------------------------------------
(* The camera's thread. *)

\* A read through an open stream: a frame, or the stream is closed and the thread pauses.
Read ==
    /\ reader = [at |-> "reading", left |-> 0]
    /\ IF cameraUp
       THEN RecordFrame /\ reader' = [reader EXCEPT !.left = 1] /\ UNCHANGED capture
       ELSE RecordFailure /\ reader' = [at |-> "pausing", left |-> Pause] /\ capture' = FALSE
    /\ UNCHANGED <<environmentVars, delay, openFailures, collectorVars>>

\* _reconnect: the thread sleeps before it tries, for very long once it has failed often enough.
Reconnect ==
    /\ reader = [at |-> "pausing", left |-> 0]
    /\ reader' = [at |-> "reconnecting", left |-> IF openFailures >= LongAfter THEN LongDelay ELSE delay]
    /\ UNCHANGED <<environmentVars, capture, delay, openFailures, entryVars, outageAlerts, collectorVars>>

\* _open: the delay starts anew, or doubles up to its limit and the failure is reported.
Open ==
    /\ reader = [at |-> "reconnecting", left |-> 0]
    /\ IF cameraUp
       THEN /\ capture' = TRUE /\ delay' = FirstDelay /\ openFailures' = 0
            /\ reader' = [at |-> "reading", left |-> 0]
            /\ UNCHANGED <<entryVars, outageAlerts>>
       ELSE /\ openFailures' = IF openFailures < LongAfter THEN openFailures + 1 ELSE openFailures
            /\ delay' = IF 2 * delay < LastDelay THEN 2 * delay ELSE LastDelay
            /\ RecordFailure
            /\ reader' = [at |-> "pausing", left |-> Pause]
            /\ UNCHANGED capture
    /\ UNCHANGED <<environmentVars, collectorVars>>

-----------------------------------------------------------------------------
(* StatsCollector.run. *)

RedisError == redisErrors < MaxRedisErrors /\ redisErrors' = redisErrors + 1

\* The statistics are written first: a cycle whose write fails checks nothing.
WriteStats ==
    /\ collector = [at |-> "waiting", left |-> 0]
    /\ \/ collector' = [at |-> "checking", left |-> 0] /\ UNCHANGED redisErrors
       \/ RedisError /\ collector' = [at |-> "waiting", left |-> Interval]
    /\ UNCHANGED <<environmentVars, streamVars, entryVars, outageAlerts, alerts>>

AskForAlerts ==
    /\ collector.at = "checking"
    /\ CheckAlerts
    /\ collector' = [at |-> "publishing", left |-> 0]
    /\ UNCHANGED <<environmentVars, streamVars, redisErrors>>

\* An alert that cannot be published is not kept.
PublishAlert ==
    /\ collector.at = "publishing"
    /\ \/ UNCHANGED redisErrors
       \/ alerts # "none" /\ RedisError
    /\ alerts' = "none"
    /\ collector' = [at |-> "waiting", left |-> Interval]
    /\ UNCHANGED <<environmentVars, streamVars, entryVars, outageAlerts>>

-----------------------------------------------------------------------------
CameraFlaps ==
    /\ flaps < MaxFlaps /\ flaps' = flaps + 1
    /\ cameraUp' = ~cameraUp
    /\ UNCHANGED <<streamVars, entryVars, outageAlerts, collectorVars>>

HealthTick ==
    /\ reader.left > 0 /\ collector.at = "waiting" /\ collector.left > 0
    /\ reader' = [reader EXCEPT !.left = @ - 1]
    /\ collector' = [collector EXCEPT !.left = @ - 1]
    /\ sinceFrame' = Older(sinceFrame) /\ offlineFor' = Older(offlineFor) /\ onlineFor' = Older(onlineFor)
    /\ UNCHANGED <<environmentVars, capture, delay, openFailures, alertSent, outageAlerted, outageAlerts,
                   alerts, redisErrors>>

ReaderStep == Read \/ Reconnect \/ Open
CollectorStep == WriteStats \/ AskForAlerts \/ PublishAlert

HealthNext == ReaderStep \/ CollectorStep \/ CameraFlaps \/ HealthTick

HealthFairness == WF_outageVars(ReaderStep) /\ WF_outageVars(CollectorStep) /\ WF_outageVars(HealthTick)

HealthSpec == HealthInit /\ [][HealthNext]_outageVars /\ HealthFairness

-----------------------------------------------------------------------------
\* An outage is told at most once, and only after the camera gave no frame for longer than the
\* debounce and the threshold; a recovery only after an outage was told and frames have come for as
\* long as the threshold: a flapping camera does not page its owner at every turn.
AlertsAreEarned ==
    /\ outageAlerts < 2
    /\ alerts = "camera_offline" => outageAlerts = 0 \/ sinceFrame = Never \/ sinceFrame > Threshold + Debounce
    /\ alerts = "camera_recovered" => ~outageAlerted /\ (offlineFor # Never \/ onlineFor >= Threshold)

\* A thread that waits for its camera has the tracker count the outage as soon as it is one, for as
\* long as the waits between two attempts may grow.
OutageIsCounted ==
    offlineFor # Never => /\ onlineFor = Never
                          /\ sinceFrame = Never \/ sinceFrame > Debounce

\* What pages the owner of a camera, and what it is decided on.
HealthHolds == HealthTypeOK /\ AlertsAreEarned /\ OutageIsCounted

\* A camera that stays away is found: an alert for its outage is handed to the collector's
\* publication, however its thread backs off and whatever Redis refused before.
DeadCameraIsFound == <>[](~cameraUp) => <>[](alertSent)
=============================================================================
